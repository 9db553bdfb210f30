--------------------------- MODULE DeliveryProofs ---------------------------
(***************************************************************************)
(* Theorems about Delivery, for every tree, every policy and every number   *)
(* of edits.                                                                *)
(***************************************************************************)
EXTENDS Delivery, PolicyPathsProofs

\* The paths above a path are a chain, and what is above one of them is above it.
LEMMA TreeOrder ==
    /\ \A p \in Tree : /\ Above(p) \subseteq Tree /\ p \notin Above(p)
                       /\ Under(p) \subseteq Tree /\ p \notin Under(p)
    /\ \A p, q \in Tree : q \in Above(p) <=> p \in Under(q)
    /\ \A p, q \in Tree : q \in Above(p) <=> IsStrictPrefix(q, p)
    /\ \A p, q \in Tree : q \in Above(p) => p \notin Above(q)
    /\ \A p, q, r \in Tree : q \in Above(p) /\ r \in Above(q) => r \in Above(p)
    /\ \A p, q, r \in Tree :
          q \in Above(p) /\ r \in Above(p) => q = r \/ q \in Above(r) \/ r \in Above(q)
<1>1. Tree \subseteq Seq(Segments)
  BY DeliveryAssumption DEF PlainPaths, RawPaths
<1>2. \A s, t, u \in Tree :
         /\ IsPrefix(s, t) /\ IsPrefix(t, u) => IsPrefix(s, u)
         /\ IsPrefix(s, t) /\ IsPrefix(t, s) => s = t
         /\ IsPrefix(s, u) /\ IsPrefix(t, u) => IsPrefix(s, t) \/ IsPrefix(t, s)
  BY <1>1, PrefixOrder
<1> QED BY <1>2 DEF Above, Under, IsStrictPrefix

\* The same for any sequence of segments, in the tree or not.
LEMMA SeqOrder ==
    /\ Tree \subseteq Seq(Segments)
    /\ \A p \in Tree : Upto(p) = Above(p) \cup {p}
    /\ \A s \in Seq(Segments) :
          /\ Above(s) \subseteq Upto(s) /\ Upto(s) \subseteq Tree /\ s \notin Above(s)
          /\ \A q \in Tree : q \in Upto(s) <=> IsPrefix(q, s)
          /\ \A q \in Tree : q \in Above(s) <=> IsPrefix(q, s) /\ q # s
          /\ \A q \in Upto(s) : Above(q) \subseteq Above(s) /\ Upto(q) \subseteq Upto(s)
<1>1. Tree \subseteq Seq(Segments)
  BY DeliveryAssumption DEF PlainPaths, RawPaths
<1>2. ASSUME NEW s \in Seq(Segments)
      PROVE  /\ Above(s) \subseteq Upto(s) /\ Upto(s) \subseteq Tree /\ s \notin Above(s)
             /\ \A q \in Tree : q \in Upto(s) <=> IsPrefix(q, s)
             /\ \A q \in Tree : q \in Above(s) <=> IsPrefix(q, s) /\ q # s
  BY DEF Above, Upto, IsStrictPrefix
<1>3. ASSUME NEW s \in Seq(Segments), NEW q \in Upto(s)
      PROVE  Above(q) \subseteq Above(s) /\ Upto(q) \subseteq Upto(s)
  <2>1. q \in Tree /\ q \in Seq(Segments) /\ IsPrefix(q, s) BY <1>1, <1>2, <1>3
  <2>2. ASSUME NEW r \in Tree, IsPrefix(r, q) PROVE IsPrefix(r, s)
    BY <1>1, <2>1, <2>2, PrefixOrder
  <2>3. ASSUME NEW r \in Tree, IsPrefix(r, q), r # q PROVE r # s
    BY <1>1, <2>1, <2>3, PrefixOrder
  <2> QED BY <1>2, <2>1, <2>2, <2>3 DEF Above, Upto, IsStrictPrefix
<1>4. \A p \in Tree : Upto(p) = Above(p) \cup {p}
  BY <1>1, PrefixOrder DEF Above, Upto, IsStrictPrefix
<1> QED BY <1>1, <1>2, <1>3, <1>4

\* A directory is above what shutil.copy2 makes in it.
LEMMA LandsIn ==
    ASSUME NEW s \in Seq(Segments), s # <<>>, NEW x \in Segments
    PROVE  /\ Append(s, x) \in Seq(Segments)
           /\ IsPrefix(s, Append(s, x)) /\ s # Append(s, x)
<1> DEFINE land == Append(s, x)
<1>1. Len(s) \in Nat OBVIOUS
<1>2. /\ land \in Seq(Segments) /\ Len(land) = Len(s) + 1
      /\ \A i \in 1 .. Len(s) : land[i] = s[i]
  BY <1>1, AppendProperties
<1> HIDE DEF land
<1>3. IsPrefix(s, land) BY <1>1, <1>2, PrefixFields
<1>4. s # land BY <1>1, <1>2
<1> QED BY <1>2, <1>3, <1>4 DEF land

\* The last name of a path of the tree.
LEMMA LastName ==
    \A p \in Tree : /\ p \in Seq(Segments) /\ p # <<>> /\ Len(p) \in Nat \ {0}
                    /\ p[Len(p)] \in Segments
<1> SUFFICES ASSUME NEW p \in Tree
             PROVE  /\ p \in Seq(Segments) /\ p # <<>> /\ Len(p) \in Nat \ {0}
                    /\ p[Len(p)] \in Segments
  OBVIOUS
<1>1. p \in Seq(Segments) /\ p # <<>>
  BY DeliveryAssumption DEF PlainPaths, RawPaths
<1>2. Len(p) \in Nat /\ Len(p) # 0 BY <1>1, EmptySeq
<1>3. Len(p) \in 1 .. Len(p) BY <1>2
<1>4. p[Len(p)] \in Segments BY <1>1, <1>3, ElementOfSeq
<1> QED BY <1>1, <1>2, <1>4

LEMMA LandsBelow ==
    ASSUME NEW p \in Tree
    PROVE  /\ Append(p, p[Len(p)]) \in Seq(Segments)
           /\ p \in Above(Append(p, p[Len(p)]))
BY LastName, LandsIn DEF Above, IsStrictPrefix

\* Where a link leads is above where what is below the link leads.
LEMMA BeyondFields ==
    ASSUME NEW to \in Tree, NEW l \in Tree, NEW p \in Tree, IsPrefix(l, p)
    PROVE  /\ Beyond(to, l, p) \in Seq(Segments) /\ Beyond(to, l, p) # <<>>
           /\ IsPrefix(to, Beyond(to, l, p))
           /\ l = p => Beyond(to, l, p) = to
           /\ l # p => to # Beyond(to, l, p)
<1> DEFINE rest == SubSeq(p, Len(l) + 1, Len(p))
           end == to \o rest
<1>1. /\ to \in Seq(Segments) /\ Len(to) \in Nat \ {0}
      /\ l \in Seq(Segments) /\ Len(l) \in Nat /\ p \in Seq(Segments) /\ Len(p) \in Nat
  BY LastName
<1>2. Len(l) <= Len(p) BY <1>1, PrefixFields
<1>3. \A i \in 1 .. Len(p) : p[i] \in Segments BY <1>1, ElementOfSeq
<1>4. \A i \in Len(l) + 1 .. Len(p) : p[i] \in Segments BY <1>1, <1>3
<1>5. /\ rest \in Seq(Segments)
      /\ Len(rest) = IF Len(l) + 1 <= Len(p) THEN Len(p) - (Len(l) + 1) + 1 ELSE 0
  BY <1>1, <1>4, SubSeqProperties
<1> HIDE DEF rest
<1>6. end \in Seq(Segments) /\ Len(end) = Len(to) + Len(rest)
  BY <1>1, <1>5, ConcatProperties
<1>7. IsPrefix(to, end) BY <1>1, <1>5, PrefixBelow
<1> HIDE DEF end
<1>8. end # <<>>
  <2>1. Len(end) # 0 BY <1>1, <1>5, <1>6
  <2> QED BY <2>1
<1>9. ASSUME l = p PROVE end = to
  <2>1. Len(rest) = 0 BY <1>1, <1>5, <1>9
  <2>2. rest = <<>> BY <1>5, <2>1, EmptySeq
  <2> QED BY <1>1, <2>2, ConcatEmptySeq DEF end
<1>10. ASSUME l # p PROVE to # end
  <2>1. Len(l) # Len(p)
    <3>1. ASSUME Len(l) = Len(p) PROVE FALSE
      <4>1. \A i \in 1 .. Len(l) : l[i] = p[i] BY <1>1, PrefixFields
      <4> QED BY <1>1, <1>10, <3>1, <4>1, SeqEqual
    <3> QED BY <3>1
  <2>2. Len(rest) \in Nat \ {0} BY <1>1, <1>2, <1>5, <2>1
  <2> QED BY <1>1, <1>6, <2>2
<1> QED BY <1>6, <1>7, <1>8, <1>9, <1>10 DEF Beyond, end, rest

\* What a path can be.
LEMMA NodeKinds ==
    /\ None \in Nodes /\ Dir \in Nodes
    /\ None.kind = "none" /\ Dir.kind = "dir" /\ None # Dir
    /\ \A n \in Nodes : /\ n.kind \in {"none", "dir", "file", "link"}
                        /\ n.kind = "none" <=> n = None
                        /\ n.kind = "dir" <=> n = Dir
                        /\ n.kind = "link" => n.to \in Tree /\ n = Link(n.to)
                        /\ n.kind = "file" => /\ n.version \in 0 .. MaxVersion
                                              /\ n = File(n.version)
    /\ \A t \in Tree : Link(t) \in Nodes /\ Link(t).kind = "link" /\ Link(t).to = t
    /\ \A v \in 0 .. MaxVersion : File(v) \in Nodes /\ File(v).kind = "file"
<1>1. None.kind = "none" /\ Dir.kind = "dir" /\ None # Dir
  BY DEF None, Dir
<1>2. \A t : Link(t).kind = "link" /\ Link(t).to = t
  BY DEF Link
<1>3. \A v : File(v).kind = "file" /\ File(v).version = v
  BY DEF File
<1>4. ASSUME NEW n \in Nodes
      PROVE  \/ n = None \/ n = Dir
             \/ \E v \in 0 .. MaxVersion : n = File(v)
             \/ \E t \in Tree : n = Link(t)
  BY DEF Nodes
<1>5. /\ None \in Nodes /\ Dir \in Nodes
      /\ \A t \in Tree : Link(t) \in Nodes
      /\ \A v \in 0 .. MaxVersion : File(v) \in Nodes
  BY DEF Nodes
<1>6. ASSUME NEW n \in Nodes
      PROVE  /\ n.kind \in {"none", "dir", "file", "link"}
             /\ n.kind = "none" <=> n = None
             /\ n.kind = "dir" <=> n = Dir
             /\ n.kind = "link" => n.to \in Tree /\ n = Link(n.to)
             /\ n.kind = "file" => n.version \in 0 .. MaxVersion /\ n = File(n.version)
  BY <1>1, <1>2, <1>3, <1>4
<1> QED BY <1>1, <1>2, <1>3, <1>5, <1>6

-----------------------------------------------------------------------------
\* The status.

\* filter_ignored() looks at the path of a change.
Kept(path) ==
    \A p \in Ignore :
       /\ ~PathMatches(p, Canonicalize(Aliases, path))
       /\ p.absolute => ~IsWithin(Canonicalize(Aliases, path), p.segments)

\* What is left of changes, and which paths are ignored.
LEMMA KeptChanges ==
    /\ \A changes : FilterIgnored(changes, Ignore, Aliases) = {c \in changes : Kept(c.path)}
    /\ IgnoredPaths = {p \in Tree : ~Kept(Visible \o p)}
<1>1. \A changes : FilterIgnored(changes, Ignore, Aliases) = {c \in changes : Kept(c.path)}
  BY DEF FilterIgnored, Kept
<1>2. ASSUME NEW p \in Tree
      PROVE  FilterIgnored({[path |-> Visible \o p]}, Ignore, Aliases) = {}
                <=> ~Kept(Visible \o p)
  <2> DEFINE c == [path |-> Visible \o p]
  <2>1. c.path = Visible \o p OBVIOUS
  <2> HIDE DEF c
  <2>2. FilterIgnored({c}, Ignore, Aliases) = {} <=> ~Kept(c.path)
    BY <1>1
  <2> QED BY <2>1, <2>2 DEF c
<1> QED BY <1>1, <1>2 DEF IgnoredPaths

\* What a status lists: tombstones, what the store holds, and directories of the
\* store that only hold deltas.
LEMMA EntryCases ==
    ASSUME TypeOK
    PROVE  /\ \A e \in Entries :
                 /\ e.rel \in Tree
                 /\ \/ e.op = "delete" /\ e.kind = "tombstone" /\ e.rel \in gone
                    \/ e.op = "delta" /\ e.kind = delta[e.rel].kind /\ delta[e.rel] # None
                    \/ e.op = "delta" /\ e.kind = "dir" /\ e.rel \in Structural
           /\ \A p \in gone : [rel |-> p, op |-> "delete", kind |-> "tombstone"] \in Entries
           /\ \A p \in Tree : delta[p] # None =>
                 [rel |-> p, op |-> "delta", kind |-> delta[p].kind] \in Entries
<1>1. gone \subseteq Tree /\ Structural \subseteq Tree
  BY DEF TypeOK, Structural
<1>2. ASSUME NEW e \in Entries
      PROVE  /\ e.rel \in Tree
             /\ \/ e.op = "delete" /\ e.kind = "tombstone" /\ e.rel \in gone
                \/ e.op = "delta" /\ e.kind = delta[e.rel].kind /\ delta[e.rel] # None
                \/ e.op = "delta" /\ e.kind = "dir" /\ e.rel \in Structural
  BY <1>1 DEF Entries
<1>3. \A p \in gone : [rel |-> p, op |-> "delete", kind |-> "tombstone"] \in Entries
  BY DEF Entries
<1>4. \A p \in Tree : delta[p] # None =>
                 [rel |-> p, op |-> "delta", kind |-> delta[p].kind] \in Entries
  BY DEF Entries
<1> QED BY <1>2, <1>3, <1>4

\* The change a status reports for a path.
ChangeAt(p, op, kind) ==
    [rel |-> p, op |-> op, kind |-> kind, path |-> Visible \o p]

\* The changes that are looked at: tombstones, and what the store holds, except
\* for directories that have an entry below them.  A directory that is not held
\* in the store but only holds deltas is never one of them.
LEMMA ChangeCases ==
    ASSUME TypeOK
    PROVE  /\ Changes \subseteq Change
           /\ \A c \in Changes :
                 /\ c.rel \in Tree \ IgnoredPaths
                 /\ \/ c.op = "delete" /\ c.kind = "tombstone" /\ c.rel \in gone
                    \/ /\ c.op = "delta" /\ c.kind = delta[c.rel].kind
                       /\ delta[c.rel] # None
                 /\ c.path = Visible \o c.rel
           /\ \A p \in gone \ IgnoredPaths : ChangeAt(p, "delete", "tombstone") \in Changes
           /\ \A p \in Tree \ IgnoredPaths :
                 (/\ delta[p] # None
                  /\ delta[p] = Dir => ~\E o \in Entries : IsStrictPrefix(p, o.rel))
                 => ChangeAt(p, "delta", delta[p].kind) \in Changes
<1>1. delta \in [Tree -> Nodes] /\ gone \subseteq Tree BY DEF TypeOK
<1>2. Changes = {c \in Reported(Visible) : Kept(c.path)}
  BY KeptChanges DEF Changes
<1>3. ASSUME NEW c \in Reported(Visible)
      PROVE  \E e \in Entries :
                /\ c.rel = e.rel /\ c.op = e.op /\ c.kind = e.kind /\ c.path = Visible \o e.rel
                /\ c = ChangeAt(e.rel, e.op, e.kind)
                /\ e.kind = "dir" => ~\E o \in Entries : IsStrictPrefix(e.rel, o.rel)
  BY DEF Reported, ChangeAt
<1>4. ASSUME NEW e \in Entries,
             e.kind = "dir" => ~\E o \in Entries : IsStrictPrefix(e.rel, o.rel)
      PROVE  ChangeAt(e.rel, e.op, e.kind) \in Reported(Visible)
  BY <1>4 DEF Reported, ChangeAt
<1>5. ASSUME NEW p \in Structural PROVE \E o \in Entries : IsStrictPrefix(p, o.rel)
  <2>1. PICK q \in Under(p) : delta[q] # None BY DEF Structural
  <2>2. q \in Tree /\ IsStrictPrefix(p, q) BY DEF Under
  <2>3. [rel |-> q, op |-> "delta", kind |-> delta[q].kind] \in Entries
    BY <2>1, <2>2, EntryCases
  <2> QED BY <2>2, <2>3
<1>6. ASSUME NEW c \in Changes
      PROVE  /\ c \in Change
             /\ c.rel \in Tree \ IgnoredPaths
             /\ \/ c.op = "delete" /\ c.kind = "tombstone" /\ c.rel \in gone
                \/ c.op = "delta" /\ c.kind = delta[c.rel].kind /\ delta[c.rel] # None
             /\ c.path = Visible \o c.rel
  <2>1. c \in Reported(Visible) /\ Kept(c.path) BY <1>2
  <2>2. PICK e \in Entries :
                /\ c.rel = e.rel /\ c.op = e.op /\ c.kind = e.kind /\ c.path = Visible \o e.rel
                /\ c = ChangeAt(e.rel, e.op, e.kind)
                /\ e.kind = "dir" => ~\E o \in Entries : IsStrictPrefix(e.rel, o.rel)
    BY <1>3, <2>1
  <2>3. /\ c.rel \in Tree
        /\ \/ c.op = "delete" /\ c.kind = "tombstone" /\ c.rel \in gone
           \/ c.op = "delta" /\ c.kind = delta[c.rel].kind /\ delta[c.rel] # None
    BY <1>5, <2>2, EntryCases
  <2>4. c.rel \notin IgnoredPaths BY <2>1, <2>2, KeptChanges
  <2>5. c.op \in {"delta", "delete"} /\ c.kind \in {"file", "dir", "link", "tombstone"}
    <3>1. delta[c.rel] # None => delta[c.rel].kind \in {"file", "dir", "link"}
      BY <1>1, <2>3, NodeKinds
    <3> QED BY <2>3, <3>1
  <2>6. c \in Change BY <2>2, <2>3, <2>5 DEF Change, ChangeAt
  <2> QED BY <2>2, <2>3, <2>4, <2>6
<1>7. ASSUME NEW p \in gone \ IgnoredPaths
      PROVE  ChangeAt(p, "delete", "tombstone") \in Changes
  <2> DEFINE e == [rel |-> p, op |-> "delete", kind |-> "tombstone"]
  <2>1. e \in Entries BY EntryCases
  <2>2. e.rel = p /\ e.op = "delete" /\ e.kind = "tombstone" OBVIOUS
  <2> HIDE DEF e
  <2>3. ChangeAt(p, "delete", "tombstone") \in Reported(Visible)
    BY <1>4, <2>1, <2>2
  <2>4. Kept(ChangeAt(p, "delete", "tombstone").path)
    BY <1>1, KeptChanges DEF ChangeAt
  <2> QED BY <1>2, <2>3, <2>4
<1>8. ASSUME NEW p \in Tree \ IgnoredPaths, delta[p] # None,
             delta[p] = Dir => ~\E o \in Entries : IsStrictPrefix(p, o.rel)
      PROVE  ChangeAt(p, "delta", delta[p].kind) \in Changes
  <2> DEFINE e == [rel |-> p, op |-> "delta", kind |-> delta[p].kind]
  <2>1. e \in Entries BY <1>8, EntryCases
  <2>2. e.rel = p /\ e.op = "delta" /\ e.kind = delta[p].kind OBVIOUS
  <2>3. e.kind = "dir" => delta[p] = Dir BY <1>1, <2>2, NodeKinds
  <2> HIDE DEF e
  <2>4. ChangeAt(p, "delta", delta[p].kind) \in Reported(Visible)
    BY <1>4, <1>8, <2>1, <2>2, <2>3
  <2>5. Kept(ChangeAt(p, "delta", delta[p].kind).path)
    BY KeptChanges DEF ChangeAt
  <2> QED BY <1>2, <2>4, <2>5
<1> QED BY <1>6, <1>7, <1>8

-----------------------------------------------------------------------------
\* The invariant that everything rests on.

\* What the branch holds hangs in what the agent sees: above it there are only
\* directories, of the branch or of the base, and no tombstone.
Rooted ==
    \A p \in Tree : delta[p] # None =>
       \A q \in Above(p) : /\ q \notin gone
                           /\ delta[q] = Dir \/ (delta[q] = None /\ base[q] = Dir)

\* Nothing is both held by the branch and deleted in it.
Hidden == \A p \in gone : delta[p] = None

\* The real files are a tree.
BaseIsTree == \A p \in Tree : base[p] # None => \A q \in Above(p) : base[q] = Dir

\* The base's links were there from the start: a copy makes none.
LinksStart == \A p \in Tree : base[p].kind = "link" => Start[p] = base[p]

TreeInv ==
    /\ TypeOK
    /\ Rooted
    /\ Hidden
    /\ BaseIsTree
    /\ LinksStart
    /\ Copying => todo \subseteq Changes

\* A file that a copy reads.
Read(p, source) ==
    IF source[p].kind = "link" THEN source[source[p].to] ELSE source[p]

\* A link of the base hangs in directories, and leads aside of itself, past no link.
LEMMA LinkFields ==
    ASSUME TypeOK, BaseIsTree, LinksStart, NEW l \in Tree, base[l].kind = "link"
    PROVE  /\ Start[l] = base[l] /\ base[l].to \in Tree /\ base[l] # None
           /\ \A q \in Above(l) : base[q] = Dir
           /\ \A q \in Tree : IsPrefix(q, base[l].to) \/ IsPrefix(base[l].to, q)
                 => base[q].kind # "link"
<1>1. base[l] \in Nodes BY DEF TypeOK
<1>2. Start[l] = base[l] BY DEF LinksStart
<1>3. base[l].to \in Tree /\ base[l] # None BY <1>1, NodeKinds
<1>4. \A q \in Above(l) : base[q] = Dir BY <1>3 DEF BaseIsTree
<1>5. ASSUME NEW q \in Tree, IsPrefix(q, base[l].to) \/ IsPrefix(base[l].to, q)
      PROVE  base[q].kind # "link"
  <2>1. Start[q].kind # "link" BY <1>2, <1>5, DeliveryAssumption DEF StraightLinks
  <2> QED BY <2>1 DEF LinksStart
<1> QED BY <1>2, <1>3, <1>4, <1>5

\* Where a path leads, when there is a link above it, and when there is none; no
\* link is above that place.
LEMMA LedCases ==
    ASSUME TypeOK, BaseIsTree, LinksStart, NEW p \in Tree
    PROVE  /\ Led(p) \in Seq(Segments) /\ Led(p) # <<>>
           /\ (\A l \in Above(p) : base[l].kind # "link") => Led(p) = p
           /\ \A l \in Above(p) : base[l].kind = "link" =>
                 /\ Led(p) = Beyond(base[l].to, l, p)
                 /\ base[l].to \in Above(Led(p))
           /\ \A q \in Above(Led(p)) : base[q].kind # "link"
<1> DEFINE links == {l \in Above(p) : base[l].kind = "link"}
<1>0. p \in Seq(Segments) /\ p # <<>> BY LastName
<1>1. \A l \in links : l \in Tree /\ l # p /\ IsPrefix(l, p) /\ base[l].kind = "link"
  BY <1>0, SeqOrder
<1>2. ASSUME NEW k \in links, NEW l \in links PROVE k = l
  <2>1. k \in Tree /\ l \in Tree BY <1>1
  <2>2. k \notin Above(l) /\ l \notin Above(k)
    BY <1>1, <2>1, LinkFields, NodeKinds
  <2> QED BY <2>1, <2>2, TreeOrder
<1>3. CASE links = {}
  BY <1>0, <1>3 DEF Led
<1>4. ASSUME NEW l \in links
      PROVE  /\ Led(p) = Beyond(base[l].to, l, p)
             /\ Led(p) \in Seq(Segments) /\ Led(p) # <<>>
             /\ base[l].to \in Above(Led(p))
             /\ \A q \in Above(Led(p)) : base[q].kind # "link"
  <2>1. l = CHOOSE k \in links : TRUE BY <1>2
  <2>2. Led(p) = Beyond(base[l].to, l, p) BY <2>1 DEF Led
  <2>3. l \in Tree /\ base[l].to \in Tree BY <1>1, LinkFields
  <2>4. /\ Led(p) \in Seq(Segments) /\ Led(p) # <<>>
        /\ IsPrefix(base[l].to, Led(p)) /\ base[l].to # Led(p)
    BY <1>1, <2>2, <2>3, BeyondFields
  <2>5. base[l].to \in Above(Led(p)) BY <2>3, <2>4, SeqOrder
  <2>6. ASSUME NEW q \in Above(Led(p)) PROVE base[q].kind # "link"
    <3>1. q \in Tree /\ IsPrefix(q, Led(p)) BY <2>4, SeqOrder
    <3>2. q \in Seq(Segments) /\ base[l].to \in Seq(Segments) BY <2>3, <3>1, SeqOrder
    <3>3. IsPrefix(q, base[l].to) \/ IsPrefix(base[l].to, q)
      BY <2>4, <3>1, <3>2, PrefixOrder
    <3> QED BY <1>1, <2>3, <3>1, <3>3, LinkFields
  <2> QED BY <2>2, <2>4, <2>5, <2>6
<1>5. (\A l \in Above(p) : base[l].kind # "link") <=> links = {} OBVIOUS
<1>6. \A l \in Above(p) : base[l].kind = "link" <=> l \in links OBVIOUS
<1>7. links = {} => \A q \in Above(Led(p)) : base[q].kind # "link" BY <1>3
<1> HIDE DEF links
<1>8. CASE links = {}
  BY <1>0, <1>3, <1>5, <1>6, <1>7, <1>8
<1>9. CASE links # {}
  BY <1>4, <1>5, <1>6, <1>9
<1> QED BY <1>8, <1>9

\* What os.makedirs makes for p, when every link above p leads to a directory, is
\* above p, or where p leads.
LEMMA MadeWhere ==
    ASSUME TypeOK, BaseIsTree, LinksStart, NEW p \in Tree, CanMakeDirs(Above(p)),
           NEW q \in Upto(Led(p)), base[q] # Dir
    PROVE  \/ Led(p) = p
           \/ \E l \in Above(p) : /\ base[l].kind = "link"
                                  /\ IsPrefix(base[l].to, q)
                                  /\ IsPrefix(q, Beyond(base[l].to, l, p))
<1>1. CASE \A l \in Above(p) : base[l].kind # "link"
  BY <1>1, LedCases
<1>2. ASSUME NEW l \in Above(p), base[l].kind = "link"
      PROVE  IsPrefix(base[l].to, q) /\ IsPrefix(q, Beyond(base[l].to, l, p))
  <2>1. /\ Led(p) = Beyond(base[l].to, l, p) /\ base[l].to \in Above(Led(p))
        /\ Led(p) \in Seq(Segments)
    BY <1>2, LedCases
  <2>2. q \in Tree /\ IsPrefix(q, Led(p)) /\ IsPrefix(base[l].to, Led(p))
        /\ base[l].to \in Tree
    BY <2>1, SeqOrder
  <2>3. base[base[l].to] = Dir
    BY <1>2, NodeKinds DEF CanMakeDirs
  <2>4. q \in Seq(Segments) /\ base[l].to \in Seq(Segments) BY <2>2, SeqOrder
  <2>5. IsPrefix(q, base[l].to) \/ IsPrefix(base[l].to, q)
    BY <2>1, <2>2, <2>4, PrefixOrder
  <2>6. ~IsPrefix(q, base[l].to)
    <3>1. ASSUME IsPrefix(q, base[l].to) PROVE FALSE
      <4>1. q = base[l].to \/ q \in Above(base[l].to) BY <2>2, <2>4, <3>1, SeqOrder
      <4>2. base[base[l].to] # None BY <2>3, NodeKinds
      <4> QED BY <2>2, <2>3, <4>1, <4>2 DEF BaseIsTree
    <3> QED BY <3>1
  <2> QED BY <2>1, <2>2, <2>5, <2>6
<1> QED BY <1>1, <1>2

\* Where the copy of p's file lands: at p, in a directory of its name, or beyond a
\* link, that p is, is below of, or that stands in the directory.
Lands(p, land) ==
    \/ base[p].kind \in {"none", "file"} /\ land = p
    \/ base[p] = Dir /\ p \in Above(land) /\ land = Append(p, p[Len(p)])
    \/ \E l, r \in Tree :
          /\ base[l].kind = "link"
          /\ \/ r = p /\ l \in Upto(p)
             \/ r = l /\ l = Append(p, p[Len(p)]) /\ p \in Above(l) /\ base[p] = Dir
          /\ IsPrefix(base[l].to, land)
          /\ \/ land = Beyond(base[l].to, l, r)
             \/ /\ land = Append(Beyond(base[l].to, l, r), r[Len(r)])
                /\ Beyond(base[l].to, l, r) \in Tree
                /\ base[Beyond(base[l].to, l, r)] = Dir

\* Where bytes land is not above where the path leads.
LEMMA LandingCases ==
    ASSUME TypeOK, BaseIsTree, LinksStart, NEW p \in Tree,
           Landing(p) \in Tree => base[Landing(p)].kind \in {"none", "file"}
    PROVE  /\ Landing(p) \in Seq(Segments) /\ Landing(p) \notin Above(Led(p))
           /\ Lands(p, Landing(p))
<1> DEFINE x == p[Len(p)]
<1>0. p \in Seq(Segments) /\ p # <<>> /\ x \in Segments BY LastName
<1>n. \A q \in Tree : base[q] \in Nodes BY DEF TypeOK
<1>s. \A q \in Tree : q \in Seq(Segments) /\ q # <<>> BY LastName
\* What a link leads to is not above it.
<1>a. ASSUME NEW l \in Tree, base[l].kind = "link"
      PROVE  base[l].to \in Tree /\ ~IsPrefix(base[l].to, l)
  BY <1>a, LinkFields
<1>1. ASSUME NEW l \in Above(p), base[l].kind = "link"
      PROVE  /\ Landing(p) \in Seq(Segments) /\ Landing(p) \notin Above(Led(p))
             /\ Lands(p, Landing(p))
  <2> DEFINE end == Beyond(base[l].to, l, p)
             to == base[l].to
  <2>1. l \in Tree /\ to \in Tree /\ l \in Upto(p)
    BY <1>0, <1>1, <1>a, SeqOrder
  <2>2. Led(p) = end /\ end \in Seq(Segments) /\ end # <<>> /\ to \in Above(end)
    BY <1>1, LedCases
  <2>3. IsPrefix(to, end) BY <2>1, <2>2, SeqOrder
  <2>4. Follow(end) = end
    <3>1. end \in Tree => base[end].kind # "link" BY <1>1, <2>1, <2>3, LinkFields
    <3> QED BY <3>1 DEF Follow
  <2> HIDE DEF end
  <2>5. CASE end \in Tree /\ base[end] = Dir
    <3> DEFINE land == Append(end, x)
    <3>1. Landing(p) = Follow(land) BY <2>2, <2>4, <2>5 DEF Landing
    <3>2. land \in Seq(Segments) /\ IsPrefix(end, land) /\ end # land
      BY <1>0, <2>2, LandsIn
    <3> HIDE DEF land
    <3>t. to \in Seq(Segments) BY <1>s, <2>1
    <3>3. IsPrefix(to, land) BY <2>2, <2>3, <3>2, <3>t, PrefixOrder
    <3>4. Follow(land) = land
      <4>1. land \in Tree => base[land].kind # "link" BY <1>1, <2>1, <3>3, LinkFields
      <4> QED BY <4>1 DEF Follow
    <3>5. land \notin Above(end)
      <4>1. ASSUME land \in Above(end) PROVE FALSE
        <5>1. IsPrefix(land, end) BY <2>2, <4>1, SeqOrder DEF Above, IsStrictPrefix
        <5> QED BY <2>2, <3>2, <5>1, PrefixOrder
      <4> QED BY <4>1
    <3>6. Lands(p, land)
      BY <1>1, <2>1, <2>5, <3>3 DEF Lands, end, land
    <3> QED BY <2>2, <3>1, <3>2, <3>4, <3>5, <3>6
  <2>6. CASE ~(end \in Tree /\ base[end] = Dir)
    <3>1. Landing(p) = end BY <2>2, <2>4, <2>6 DEF Landing
    <3>2. end \notin Above(end) BY <2>2, SeqOrder
    <3>3. Lands(p, end) BY <1>1, <2>1, <2>3 DEF Lands, end
    <3> QED BY <2>2, <3>1, <3>2, <3>3
  <2> QED BY <2>5, <2>6
<1>2. ASSUME \A l \in Above(p) : base[l].kind # "link"
      PROVE  /\ Landing(p) \in Seq(Segments) /\ Landing(p) \notin Above(Led(p))
             /\ Lands(p, Landing(p))
  <2>1. Led(p) = p /\ p \in Upto(p) /\ base[p] \in Nodes
    BY <1>2, <1>n, LedCases, SeqOrder
  <2>2. CASE base[p].kind = "link"
    <3> DEFINE to == base[p].to
    <3>1. to \in Tree /\ ~IsPrefix(to, p) /\ to \in Seq(Segments) /\ to # <<>>
      BY <1>a, <1>s, <2>2
    <3>2. Beyond(to, p, p) = to
      <4>1. IsPrefix(p, p) BY <1>0, PrefixOrder
      <4> QED BY <3>1, <4>1, BeyondFields
    <3>3. Follow(p) = to BY <2>2 DEF Follow
    <3>4. IsPrefix(to, to) BY <3>1, PrefixOrder
    <3>5. to \notin Above(p) BY <1>0, <3>1, SeqOrder
    <3> HIDE DEF to
    <3>6. CASE base[to] = Dir
      <4> DEFINE land == Append(to, x)
      <4>1. Landing(p) = Follow(land) BY <2>1, <3>1, <3>3, <3>6 DEF Landing
      <4>2. land \in Seq(Segments) /\ IsPrefix(to, land)
        BY <1>0, <3>1, LandsIn
      <4> HIDE DEF land
      <4>3. Follow(land) = land
        <5>1. land \in Tree => base[land].kind # "link" BY <2>2, <4>2, LinkFields DEF to
        <5> QED BY <5>1 DEF Follow
      <4>4. land \notin Above(p)
        <5>1. ASSUME land \in Above(p) PROVE FALSE
          <6>1. IsPrefix(land, p) BY <1>0, <5>1, SeqOrder DEF Above, IsStrictPrefix
          <6> QED BY <1>0, <3>1, <4>2, <6>1, PrefixOrder
        <5> QED BY <5>1
      <4>5. Lands(p, land) BY <2>1, <2>2, <3>1, <3>2, <3>6, <4>2 DEF Lands, to, land
      <4> QED BY <2>1, <4>1, <4>2, <4>3, <4>4, <4>5
    <3>7. CASE base[to] # Dir
      <4>1. Landing(p) = to BY <2>1, <3>3, <3>7 DEF Landing
      <4>2. Lands(p, to) BY <2>1, <2>2, <3>2, <3>4 DEF Lands, to
      <4> QED BY <2>1, <3>1, <3>5, <4>1, <4>2
    <3> QED BY <3>6, <3>7
  <2>3. CASE base[p] = Dir
    <3> DEFINE r == Append(p, x)
    <3>1. Follow(p) = p BY <2>3, NodeKinds DEF Follow
    <3>2. Landing(p) = Follow(r) BY <2>1, <2>3, <3>1 DEF Landing
    <3>3. r \in Seq(Segments) /\ p \in Above(r) BY LandsBelow
    <3>4. r = Append(p, p[Len(p)]) OBVIOUS
    <3> HIDE DEF r
    <3>5. CASE r \in Tree /\ base[r].kind = "link"
      <4> DEFINE to == base[r].to
      <4>1. to \in Tree /\ ~IsPrefix(to, r) /\ to \in Seq(Segments)
        BY <1>a, <1>s, <3>5
      <4>2. Follow(r) = to BY <3>5 DEF Follow
      <4>3. IsPrefix(r, r) /\ IsPrefix(to, to) BY <3>3, <4>1, PrefixOrder
      <4>4. Beyond(to, r, r) = to BY <3>5, <4>1, <4>3, BeyondFields
      <4>5. to \notin Above(p)
        <5>1. ASSUME to \in Above(p) PROVE FALSE
          <6>1. p \in Upto(r) BY <3>3, SeqOrder
          <6>2. to \in Above(r) BY <3>3, <5>1, <6>1, SeqOrder
          <6> QED BY <3>3, <4>1, <6>2, SeqOrder
        <5> QED BY <5>1
      <4>6. Lands(p, to) BY <2>3, <3>3, <3>4, <3>5, <4>3, <4>4 DEF Lands
      <4> QED BY <2>1, <3>2, <4>1, <4>2, <4>5, <4>6
    <3>6. CASE ~(r \in Tree /\ base[r].kind = "link")
      <4>1. Landing(p) = r BY <3>2, <3>6 DEF Follow
      <4>2. r \notin Above(p)
        <5>1. ASSUME r \in Above(p) PROVE FALSE
          BY <1>0, <3>3, <5>1, TreeOrder, SeqOrder
        <5> QED BY <5>1
      <4>3. Lands(p, r) BY <2>3, <3>3, <3>4 DEF Lands
      <4> QED BY <2>1, <3>3, <4>1, <4>2, <4>3
    <3> QED BY <3>5, <3>6
  <2>4. CASE base[p].kind \in {"none", "file"}
    <3>1. Follow(p) = p /\ base[p] # Dir BY <2>4, NodeKinds DEF Follow
    <3>2. Landing(p) = p BY <2>1, <3>1 DEF Landing
    <3>3. p \notin Above(p) BY TreeOrder
    <3> QED BY <1>0, <2>1, <2>4, <3>2, <3>3 DEF Lands
  <2>5. base[p] = Dir \/ base[p].kind \in {"none", "file", "link"}
    BY <2>1, NodeKinds
  <2> QED BY <2>2, <2>3, <2>4, <2>5
<1> QED BY <1>1, <1>2

\* A copy makes directories above where the path leads, and one file where it lands,
\* in the place of nothing or of a file.
LEMMA CopyEffect ==
    ASSUME TypeOK, BaseIsTree, LinksStart, NEW p \in Tree, NEW source \in [Tree -> Nodes],
           Copy(p, source)
    PROVE  /\ Read(p, source) \in Nodes
           /\ \/ Read(p, source) = None /\ base' = base
              \/ /\ Read(p, source).kind = "file"
                 /\ CanMakeDirs(Above(p))
                 /\ \A q \in Above(Led(p)) : base[q] \in {None, Dir}
                 /\ \E land \in Seq(Segments) :
                       /\ land \notin Above(Led(p)) /\ Lands(p, land)
                       /\ land \in Tree => base[land].kind \in {"none", "file"}
                       /\ \A q \in Above(land) : q \in Above(Led(p)) \/ base[q] = Dir
                       /\ base' = [q \in Tree |->
                                     IF q = land THEN Read(p, source)
                                     ELSE IF q \in Above(Led(p)) THEN Dir
                                     ELSE base[q]]
<1> DEFINE node == Read(p, source)
           land == Landing(p)
           made == WithDirs(Above(Led(p)))
<1>1. base \in [Tree -> Nodes] BY DEF TypeOK
<1>2. node \in Nodes
  <2>1. source[p] \in Nodes OBVIOUS
  <2>2. source[p].kind = "link" => source[p].to \in Tree BY <2>1, NodeKinds
  <2> QED BY <2>1, <2>2 DEF Read
<1>3. CASE node = None
  BY <1>2, <1>3 DEF Copy, Read
<1>4. CASE node # None
  <2>1. /\ node.kind = "file" /\ CanMakeDirs(Above(p) \cup Above(Led(p)))
        /\ land \in Tree => base[land].kind \in {"none", "file"}
        /\ \A q \in Above(land) : made[q] = Dir
        /\ base' = [q \in Tree |-> IF q = land THEN node ELSE made[q]]
    BY <1>4 DEF Copy, Read
  <2>2. CanMakeDirs(Above(p)) BY <2>1 DEF CanMakeDirs
  <2>3. \A q \in Above(Led(p)) : base[q] \in {None, Dir}
    BY <2>1, LedCases DEF CanMakeDirs
  <2>4. \A q \in Tree : made[q] = IF q \in Above(Led(p)) THEN Dir ELSE base[q]
    BY <2>3 DEF WithDirs
  <2>5. land \in Seq(Segments) /\ land \notin Above(Led(p)) /\ Lands(p, land)
    BY <2>1, LandingCases
  <2> HIDE DEF land, node, made
  <2>6. \A q \in Above(land) : q \in Above(Led(p)) \/ base[q] = Dir
    BY <2>1, <2>4, <2>5, SeqOrder
  <2>7. base' = [q \in Tree |-> IF q = land THEN node
                                ELSE IF q \in Above(Led(p)) THEN Dir ELSE base[q]]
    BY <2>1, <2>4
  <2> QED BY <1>2, <2>1, <2>2, <2>3, <2>5, <2>6, <2>7 DEF node
<1> QED BY <1>3, <1>4

\* The kinds of copies: of a tombstone, of a directory that the branch holds, and
\* of a file or link that it holds.
LEMMA ApplyCases ==
    ASSUME TypeOK, BaseIsTree, LinksStart, NEW c \in Changes, NEW source, Apply(c, source)
    PROVE  /\ c.rel \in Tree
           /\ \/ c.rel \in gone /\ c.kind = "tombstone" /\ base' = Deleted(c.rel)
              \/ /\ delta[c.rel] = Dir /\ c.kind = "dir"
                 /\ CanMakeDirs(Above(c.rel))
                 /\ \A q \in Above(Led(c.rel)) : base[q] \in {None, Dir}
                 /\ base' = [q \in Tree |-> IF q \in Upto(Led(c.rel)) /\ base[q] = None
                                            THEN Dir ELSE base[q]]
              \/ /\ delta[c.rel].kind \in {"file", "link"} /\ c.kind = delta[c.rel].kind
                 /\ delta[c.rel] \in Nodes /\ Copy(c.rel, source)
<1>1. /\ c.rel \in Tree
      /\ \/ c.op = "delete" /\ c.kind = "tombstone" /\ c.rel \in gone
         \/ c.op = "delta" /\ c.kind = delta[c.rel].kind /\ delta[c.rel] # None
  BY ChangeCases
<1>2. delta[c.rel] \in Nodes BY <1>1 DEF TypeOK
<1>3. CASE c.op = "delete" /\ c.kind = "tombstone" /\ c.rel \in gone
  BY <1>1, <1>3 DEF Apply
<1>4. CASE c.op = "delta" /\ c.kind = delta[c.rel].kind /\ delta[c.rel] # None
  <2>1. CASE c.kind = "dir"
    <3>1. /\ CanMakeDirs(Upto(c.rel) \cup Upto(Led(c.rel)))
          /\ base' = WithDirs(Upto(Led(c.rel)))
      BY <1>4, <2>1 DEF Apply
    <3>2. c.rel \in Seq(Segments) /\ Led(c.rel) \in Seq(Segments)
      BY <1>1, SeqOrder, LedCases
    <3>3. Above(c.rel) \subseteq Upto(c.rel) /\ Above(Led(c.rel)) \subseteq Upto(Led(c.rel))
      BY <3>2, SeqOrder
    <3>4. CanMakeDirs(Above(c.rel)) BY <3>1, <3>3 DEF CanMakeDirs
    <3>5. \A q \in Above(Led(c.rel)) : base[q] \in {None, Dir}
      BY <1>1, <3>1, <3>3, LedCases DEF CanMakeDirs
    <3>6. base' = [q \in Tree |-> IF q \in Upto(Led(c.rel)) /\ base[q] = None
                                  THEN Dir ELSE base[q]]
      BY <3>1 DEF WithDirs
    <3>7. delta[c.rel] = Dir BY <1>2, <1>4, <2>1, NodeKinds
    <3> QED BY <1>1, <2>1, <3>4, <3>5, <3>6, <3>7
  <2>2. CASE c.kind # "dir"
    <3>1. Copy(c.rel, source) BY <1>4, <2>2 DEF Apply
    <3>2. c.kind \in {"file", "link"} BY <1>2, <1>4, <2>2, NodeKinds
    <3> QED BY <1>1, <1>2, <1>4, <3>1, <3>2
  <2> QED BY <2>1, <2>2
<1> QED BY <1>1, <1>3, <1>4

\* A copy leaves a tree, removes no directory that the branch needs, and makes no link.
LEMMA ApplyKeepsTree ==
    ASSUME TreeInv, NEW c \in Changes, NEW source \in [Tree -> Nodes], Apply(c, source),
           UNCHANGED <<delta, gone>>
    PROVE  /\ base' \in [Tree -> Nodes] /\ BaseIsTree' /\ Rooted' /\ LinksStart'
           /\ \A q \in Tree : base'[q].kind = "link" => base'[q] = base[q]
<1>1. /\ base \in [Tree -> Nodes] /\ delta \in [Tree -> Nodes] /\ gone \subseteq Tree
      /\ TypeOK /\ BaseIsTree /\ Rooted /\ LinksStart
  BY DEF TreeInv, TypeOK
<1> DEFINE p == c.rel
<1>2. p \in Tree BY <1>1, ApplyCases
<1>k. None.kind = "none" /\ Dir.kind = "dir" /\ Dir # None BY NodeKinds
\* It is enough that links are left alone.
<1>l. ASSUME \A q \in Tree : base'[q].kind = "link" => base'[q] = base[q]
      PROVE  LinksStart'
  BY <1>1, <1>l DEF LinksStart
<1>s. Led(p) \in Seq(Segments) BY <1>1, <1>2, LedCases
<1>3. CASE p \in gone /\ base' = Deleted(p)
  <2>1. \A q \in Tree : base'[q] = IF q = p \/ (base[p] = Dir /\ p \in Above(q))
                                   THEN None ELSE base[q]
    BY <1>2, <1>3, TreeOrder DEF Deleted
  <2>2. base' \in [Tree -> Nodes]
    BY <1>1, <1>3, NodeKinds DEF Deleted
  <2> HIDE DEF p
  <2>3. ASSUME NEW r \in Tree, base'[r] # None, NEW q \in Above(r) PROVE base'[q] = Dir
    <3>1. q \in Tree /\ base[r] # None /\ r # p /\ ~(base[p] = Dir /\ p \in Above(r))
      BY <2>1, <2>3, TreeOrder
    <3>2. base[q] = Dir BY <1>1, <3>1 DEF BaseIsTree
    <3>3. q # p BY <2>3, <3>1, <3>2
    <3>4. ~(base[p] = Dir /\ p \in Above(q)) BY <1>2, <2>3, <3>1, TreeOrder
    <3> QED BY <2>1, <3>1, <3>2, <3>3, <3>4
  <2>4. ASSUME NEW r \in Tree, delta[r] # None, NEW q \in Above(r),
               delta[q] = None, base[q] = Dir
        PROVE  base'[q] = Dir
    <3>1. q \in Tree /\ q \notin gone /\ \A s \in Above(r) : s \notin gone
      BY <1>1, <2>4, TreeOrder DEF Rooted
    <3>2. p \notin Above(r) BY <1>3, <3>1
    <3>3. q # p /\ p \notin Above(q) BY <1>2, <1>3, <2>4, <3>1, <3>2, TreeOrder
    <3> QED BY <2>1, <2>4, <3>1, <3>3
  <2>5. BaseIsTree' BY <2>3 DEF BaseIsTree
  <2>6. Rooted' BY <1>1, <2>4 DEF Rooted
  <2>7. \A q \in Tree : base'[q].kind = "link" => base'[q] = base[q]
    BY <1>k, <2>1
  <2> QED BY <1>l, <2>2, <2>5, <2>6, <2>7
<1>4. CASE /\ \A q \in Above(Led(p)) : base[q] \in {None, Dir}
           /\ base' = [q \in Tree |-> IF q \in Upto(Led(p)) /\ base[q] = None
                                      THEN Dir ELSE base[q]]
  <2> HIDE DEF p
  <2>1. base' \in [Tree -> Nodes] BY <1>1, <1>4, NodeKinds
  <2>2. \A q \in Tree : base'[q] = IF q \in Upto(Led(p)) /\ base[q] = None
                                   THEN Dir ELSE base[q]
    BY <1>4
  <2>3. ASSUME NEW r \in Tree, base'[r] # None, NEW q \in Above(r) PROVE base'[q] = Dir
    <3>1. q \in Tree BY TreeOrder
    <3>2. CASE base[r] # None
      BY <1>1, <1>k, <2>2, <3>1, <3>2 DEF BaseIsTree
    <3>3. CASE base[r] = None
      <4>1. r \in Upto(Led(p)) BY <2>2, <2>3, <3>3
      <4>2. q \in Above(Led(p)) /\ q \in Upto(Led(p)) BY <1>s, <2>3, <4>1, SeqOrder
      <4> QED BY <1>4, <1>k, <2>2, <3>1, <4>2
    <3> QED BY <3>2, <3>3
  <2>4. \A q \in Tree : base[q] = Dir => base'[q] = Dir BY <1>k, <2>2
  <2>5. BaseIsTree' BY <2>3 DEF BaseIsTree
  <2>6. Rooted' BY <1>1, <2>4, TreeOrder DEF Rooted
  <2>7. \A q \in Tree : base'[q].kind = "link" => base'[q] = base[q]
    BY <1>k, <2>2
  <2> QED BY <1>l, <2>1, <2>5, <2>6, <2>7
<1>5. CASE Copy(p, source)
  <2> DEFINE node == Read(p, source)
  <2>1. CASE base' = base
    BY <1>1, <2>1 DEF BaseIsTree, Rooted, LinksStart
  <2>2. CASE base' # base
    <3>1. PICK land \in Seq(Segments) :
                 /\ node \in Nodes /\ node.kind = "file" /\ land \notin Above(Led(p))
                 /\ \A q \in Above(Led(p)) : base[q] \in {None, Dir}
                 /\ land \in Tree => base[land].kind \in {"none", "file"}
                 /\ \A q \in Above(land) : q \in Above(Led(p)) \/ base[q] = Dir
                 /\ base' = [q \in Tree |-> IF q = land THEN node
                                            ELSE IF q \in Above(Led(p)) THEN Dir
                                            ELSE base[q]]
      BY <1>1, <1>2, <1>5, <2>2, CopyEffect
    <3> HIDE DEF p, node
    <3>2. base' \in [Tree -> Nodes] BY <1>1, <3>1, NodeKinds
    <3>3. \A q \in Tree : base'[q] = IF q = land THEN node
                                     ELSE IF q \in Above(Led(p)) THEN Dir ELSE base[q]
      BY <3>1
    <3>4. \A q \in Tree : base[q] = Dir => base'[q] = Dir
      BY <1>k, <3>1, <3>3
    <3>5. ASSUME NEW r \in Tree, base'[r] # None, NEW q \in Above(r) PROVE base'[q] = Dir
      <4>1. q \in Tree BY TreeOrder
      <4>2. CASE r = land
        <5>1. q # land BY <3>5, <4>2, TreeOrder
        <5> QED BY <3>1, <3>3, <3>4, <3>5, <4>1, <4>2, <5>1
      <4>3. CASE r # land /\ r \in Above(Led(p))
        <5>1. r \in Upto(Led(p)) BY <1>s, <4>3, SeqOrder
        <5>2. q \in Above(Led(p)) BY <1>s, <3>5, <5>1, SeqOrder
        <5> QED BY <3>1, <3>3, <4>1, <5>2
      <4>4. CASE r # land /\ r \notin Above(Led(p))
        BY <1>1, <3>3, <3>4, <3>5, <4>1, <4>4 DEF BaseIsTree
      <4> QED BY <4>2, <4>3, <4>4
    <3>6. BaseIsTree' BY <3>5 DEF BaseIsTree
    <3>7. Rooted' BY <1>1, <3>4, TreeOrder DEF Rooted
    <3>8. \A q \in Tree : base'[q].kind = "link" => base'[q] = base[q]
      BY <1>k, <3>1, <3>3
    <3> QED BY <1>l, <3>2, <3>6, <3>7, <3>8
  <2> QED BY <2>1, <2>2
<1> QED BY <1>1, <1>3, <1>4, <1>5, ApplyCases

\* What a status makes of a branch depends on the branch only.
LEMMA ChangesFrozen ==
    ASSUME UNCHANGED <<delta, gone>> PROVE Changes' = Changes /\ Entries' = Entries
<1>1. Entries' = Entries BY DEF Entries, Structural
<1> QED BY <1>1 DEF Changes, Reported

\* What a copy reads are nodes.
LEMMA Sources ==
    ASSUME TypeOK PROVE InView \in [Tree -> Nodes] /\ InStore \in [Tree -> Nodes]
BY NodeKinds DEF TypeOK, InView, InStore, View

\* The steps of the agent: it makes something where there is nothing, or writes to
\* a file.
LEMMA PutKeeps ==
    ASSUME TreeInv, NEW p \in Tree, NEW node \in Nodes, node # None,
           CanReach(p), View(p) = None \/ View(p).kind = "file", Put(p, node)
    PROVE  TreeInv'
<1>1. /\ base \in [Tree -> Nodes] /\ delta \in [Tree -> Nodes] /\ gone \subseteq Tree
      /\ TypeOK /\ BaseIsTree /\ Rooted /\ Hidden /\ LinksStart
  BY DEF TreeInv, TypeOK
<1>2. /\ base' = base /\ phase' = phase /\ todo' = todo /\ chosen' = chosen
      /\ delta' = [delta EXCEPT ![p] = node] /\ gone' = gone \ {p}
      /\ phase = "running"
  BY DEF Put, CanReach
<1>3. TypeOK'
  BY <1>1, <1>2 DEF TypeOK
<1>4. View(p) # Dir BY NodeKinds
<1>5. ASSUME NEW r \in Tree, delta'[r] # None, NEW q \in Above(r)
      PROVE  q \notin gone' /\ (delta'[q] = Dir \/ (delta'[q] = None /\ base'[q] = Dir))
  <2>0. q \in Tree BY TreeOrder
  <2>1. CASE r = p
    <3>1. q # p /\ View(q) = Dir BY <1>5, <2>1, TreeOrder DEF CanReach
    <3>2. q \notin gone /\ (delta[q] = Dir \/ (delta[q] = None /\ base[q] = Dir))
      BY <1>1, <3>1, NodeKinds DEF View, Hidden
    <3> QED BY <1>1, <1>2, <2>0, <3>1, <3>2
  <2>2. CASE r # p
    <3>1. delta[r] # None BY <1>1, <1>2, <1>5, <2>2
    <3>2. q \notin gone /\ (delta[q] = Dir \/ (delta[q] = None /\ base[q] = Dir))
      BY <1>1, <1>5, <3>1 DEF Rooted
    <3>3. q # p BY <1>4, <3>2, NodeKinds DEF View
    <3> QED BY <1>1, <1>2, <2>0, <3>2, <3>3
  <2> QED BY <2>1, <2>2
<1>6. Rooted' BY <1>5 DEF Rooted
<1>7. Hidden' BY <1>1, <1>2 DEF Hidden
<1>8. BaseIsTree' /\ LinksStart' BY <1>1, <1>2 DEF BaseIsTree, LinksStart
<1> QED BY <1>2, <1>3, <1>6, <1>7, <1>8 DEF TreeInv, Copying

\* The agent deletes what it sees, and has nothing below it.
LEMMA DeleteKeeps ==
    ASSUME TreeInv, NEW p \in Tree, Delete(p) PROVE TreeInv'
<1>1. /\ base \in [Tree -> Nodes] /\ delta \in [Tree -> Nodes] /\ gone \subseteq Tree
      /\ TypeOK /\ BaseIsTree /\ Rooted /\ Hidden /\ LinksStart
  BY DEF TreeInv, TypeOK
<1>2. /\ base' = base /\ phase' = phase /\ todo' = todo /\ chosen' = chosen
      /\ delta' = [delta EXCEPT ![p] = None] /\ gone' \subseteq gone \cup {p}
      /\ phase = "running" /\ \A q \in Under(p) : View(q) = None
  BY DEF Delete, CanReach
<1>3. TypeOK'
  BY <1>1, <1>2, NodeKinds DEF TypeOK
<1>4. ASSUME NEW r \in Tree, delta'[r] # None, NEW q \in Above(r)
      PROVE  q \notin gone' /\ (delta'[q] = Dir \/ (delta'[q] = None /\ base'[q] = Dir))
  <2>1. q \in Tree /\ delta[r] # None BY <1>1, <1>2, <1>4, TreeOrder
  <2>2. q # p
    <3>1. r \notin Under(p) BY <1>2, <2>1 DEF View
    <3> QED BY <1>4, <3>1, TreeOrder
  <2>3. q \notin gone /\ (delta[q] = Dir \/ (delta[q] = None /\ base[q] = Dir))
    BY <1>1, <1>4, <2>1 DEF Rooted
  <2> QED BY <1>1, <1>2, <2>1, <2>2, <2>3
<1>5. Rooted' BY <1>4 DEF Rooted
<1>6. Hidden' BY <1>1, <1>2 DEF Hidden
<1>7. BaseIsTree' /\ LinksStart' BY <1>1, <1>2 DEF BaseIsTree, LinksStart
<1> QED BY <1>2, <1>3, <1>5, <1>6, <1>7 DEF TreeInv, Copying

\* The steps that begin a copy, or end the session, leave the files alone.
LEMMA StartsKeep ==
    ASSUME TreeInv, UNCHANGED <<base, delta, gone>>, todo' \subseteq Changes,
           phase' \in {"running", "turn", "applying", "auto-committed", "committing",
                       "committed", "selecting", "selected", "pending-review",
                       "aborted", "failed"},
           chosen' \subseteq Tree
    PROVE  TreeInv'
<1>1. TypeOK' BY ChangeCases DEF TypeOK, TreeInv
<1>2. Rooted' /\ Hidden' /\ BaseIsTree' /\ LinksStart'
  BY DEF TreeInv, Rooted, Hidden, BaseIsTree, LinksStart
<1>3. todo' \subseteq Changes' BY ChangesFrozen
<1> QED BY <1>1, <1>2, <1>3 DEF TreeInv

\* How a session end can close a session.
LEMMA EndStates == \A d : ClosedState(d) \in {"auto-committed", "aborted", "pending-review"}
BY DEF ClosedState

\* What a session end and an operator choose are changes of the branch.
LEMMA ChosenChanges ==
    ASSUME TreeInv, CommitChosen
    PROVE  /\ todo' \subseteq Changes /\ chosen' \subseteq Tree
           /\ \A p \in chosen' : \E c \in todo' : c.rel = p
           /\ phase' = IF todo' = {} THEN "selected" ELSE "selecting"
           /\ UNCHANGED <<base, delta, gone>>
<1>1. PICK rels \in Selections :
           /\ todo' = {c \in Changes : c.rel \in rels}
           /\ chosen' = {c.rel : c \in Changes} \cap rels
  BY DEF CommitChosen
<1>2. \A c \in Changes : c.rel \in Tree BY ChangeCases DEF TreeInv
<1>3. chosen' \subseteq Tree BY <1>1, <1>2
<1>4. ASSUME NEW p \in chosen' PROVE \E c \in todo' : c.rel = p
  BY <1>1
<1> QED BY <1>1, <1>3, <1>4 DEF CommitChosen

\* The inductive invariant.
THEOREM TreeStep == TreeInv /\ [Next]_vars => TreeInv'
<1> SUFFICES ASSUME TreeInv, [Next]_vars PROVE TreeInv'
  OBVIOUS
<1>0. /\ base \in [Tree -> Nodes] /\ delta \in [Tree -> Nodes] /\ gone \subseteq Tree
      /\ TypeOK
  BY DEF TreeInv, TypeOK
<1>v. \A p \in Tree : View(p) \in Nodes BY <1>0, NodeKinds DEF View
<1>1. ASSUME NEW p \in Tree, WriteFile(p) PROVE TreeInv'
  <2>1. CanReach(p) BY <1>1 DEF WriteFile
  <2>2. CASE View(p) = None /\ Put(p, File(1))
    <3>1. 1 \in 0 .. MaxVersion BY DeliveryAssumption
    <3>2. File(1) \in Nodes /\ File(1) # None BY <3>1, NodeKinds
    <3> QED BY <2>1, <2>2, <3>2, PutKeeps
  <2>3. CASE /\ View(p).kind = "file" /\ View(p).version < MaxVersion
             /\ Put(p, File(View(p).version + 1))
    <3>1. View(p).version \in 0 .. MaxVersion BY <1>v, <2>3, NodeKinds
    <3>2. View(p).version + 1 \in 0 .. MaxVersion BY <2>3, <3>1, DeliveryAssumption
    <3>3. File(View(p).version + 1) \in Nodes /\ File(View(p).version + 1) # None
      BY <3>2, NodeKinds
    <3> QED BY <2>1, <2>3, <3>3, PutKeeps
  <2> QED BY <1>1, <2>2, <2>3 DEF WriteFile
<1>2. ASSUME NEW p \in Tree, MakeDir(p) PROVE TreeInv'
  BY <1>2, NodeKinds, PutKeeps DEF MakeDir
<1>3. ASSUME NEW p \in Tree, NEW t \in LinkTargets, MakeLink(p, t) PROVE TreeInv'
  <2>1. t \in Tree BY DeliveryAssumption
  <2>2. Link(t) \in Nodes /\ Link(t) # None BY <2>1, NodeKinds
  <2> QED BY <1>3, <2>2, PutKeeps DEF MakeLink
<1>4. ASSUME NEW p \in Tree, Delete(p) PROVE TreeInv'
  BY <1>4, DeleteKeeps
<1>5. CASE Turn
  <2>1. UNCHANGED <<base, delta, gone>> /\ chosen' = chosen /\ todo' \subseteq Changes
        /\ phase' \in {"running", "turn"}
    BY <1>5 DEF Turn
  <2> QED BY <1>0, <2>1, StartsKeep DEF TypeOK
<1>6. CASE EndSession
  <2>1. UNCHANGED <<base, delta, gone>> /\ chosen' = chosen /\ todo' \subseteq Changes
        /\ phase' \in {"applying", "auto-committed", "aborted", "pending-review"}
    BY <1>6, EndStates DEF EndSession
  <2> QED BY <1>0, <2>1, StartsKeep DEF TypeOK
<1>7. CASE Commit
  <2>1. \A c \in Changes : c.rel \in Tree BY <1>0, ChangeCases
  <2> QED BY <1>7, <2>1, StartsKeep DEF Commit
<1>8. CASE CommitChosen
  BY <1>8, ChosenChanges, StartsKeep
<1>9. CASE CopyNext
  <2>1. PICK c \in todo :
             /\ Apply(c, IF phase = "turn" THEN InView ELSE InStore)
             /\ todo' = todo \ {c}
             /\ phase' = IF todo = {c} THEN Finished ELSE phase
    BY <1>9 DEF CopyNext
  <2>2. Copying /\ UNCHANGED <<delta, gone, chosen>> BY <1>9 DEF CopyNext
  <2>3. c \in Changes /\ todo' \subseteq Changes BY <2>1, <2>2 DEF TreeInv
  <2>4. base' \in [Tree -> Nodes] /\ BaseIsTree' /\ Rooted' /\ LinksStart'
    BY <1>0, <2>1, <2>2, <2>3, Sources, ApplyKeepsTree
  <2>5. Finished \in {"running", "auto-committed", "committed", "selected"}
    BY <2>2 DEF Finished, Copying
  <2>6. TypeOK' BY <1>0, <2>1, <2>2, <2>4, <2>5 DEF TypeOK
  <2>7. Hidden' BY <2>2 DEF TreeInv, Hidden
  <2>8. todo' \subseteq Changes' BY <2>2, <2>3, ChangesFrozen
  <2> QED BY <2>4, <2>6, <2>7, <2>8 DEF TreeInv
<1>10. CASE CopyRaises
  <2>1. UNCHANGED <<base, delta, gone, chosen>> /\ todo' = {} BY <1>10 DEF CopyRaises
  <2>2. phase' \in {"running", "failed", "pending-review"}
    BY <1>10 DEF CopyRaises, Copying
  <2> QED BY <1>0, <2>1, <2>2, StartsKeep DEF TypeOK
<1>11. CASE UNCHANGED vars
  <2>1. Changes' = Changes BY <1>11, ChangesFrozen DEF vars
  <2>2. TypeOK' BY <1>0, <1>11 DEF TypeOK, vars
  <2> QED BY <1>11, <2>1, <2>2 DEF TreeInv, Rooted, Hidden, BaseIsTree, LinksStart, Copying, vars
<1> QED
  BY <1>1, <1>2, <1>3, <1>4, <1>5, <1>6, <1>7, <1>8, <1>9, <1>10, <1>11 DEF Next

\* It holds when the session begins.
LEMMA TreeInit == Init => TreeInv
<1> SUFFICES ASSUME Init PROVE TreeInv
  OBVIOUS
<1>1. TypeOK BY DeliveryAssumption, NodeKinds DEF Init, TypeOK
<1>2. Rooted /\ Hidden BY DEF Init, Rooted, Hidden
<1>3. BaseIsTree /\ LinksStart
  BY DeliveryAssumption DEF Init, BaseIsTree, LinksStart
<1> QED BY <1>1, <1>2, <1>3 DEF TreeInv, Init, Copying

\* Every state has its type, and the branch and the base stay trees.
THEOREM TypeCorrect == Spec => []TypeOK
<1>1. TreeInv => TypeOK BY DEF TreeInv
<1> QED BY <1>1, TreeInit, TreeStep, PTL DEF Spec

-----------------------------------------------------------------------------
\* What a copy from the store does to a plain path.

\* The store holds a path's own file.
LEMMA StoreHolds ==
    ASSUME TypeOK, NEW p \in Tree
    PROVE  /\ delta[p] # None => InStore[p] = delta[p]
           /\ InStore[p].kind = "file" => InStore[p] = delta[p]
<1>1. InStore[p] = IF p \in Structural THEN Dir ELSE delta[p] BY DEF InStore
<1>2. p \in Structural => delta[p] = None BY DEF Structural
<1> QED BY <1>1, <1>2, NodeKinds

\* A plain path, and what is above it, in parts.
LEMMA PlainParts ==
    ASSUME NEW p \in Tree, Plain(p)
    PROVE  /\ \A q \in Above(p) \cup {p} : ~Replaced(q) /\ delta[q].kind # "link"
           /\ \A l \in Tree : Start[l].kind = "link" /\ IsPrefix(Start[l].to, p) =>
                 \A q \in Above(l) \cup {l} : ~Replaced(q)
BY SeqOrder DEF Plain

\* What the branch holds below a link of the base replaces the link.
LEMMA LinkReplaced ==
    ASSUME TreeInv, NEW p \in Tree, delta[p] # None, NEW l \in Above(p),
           base[l].kind = "link"
    PROVE  delta[l] = Dir /\ Replaced(l)
<1>1. Dir.kind = "dir" /\ None.kind = "none" /\ Dir # None BY NodeKinds
<1>2. delta[l] = Dir BY <1>1 DEF TreeInv, Rooted
<1> QED BY <1>1, <1>2 DEF Replaced

\* What is beyond a link of the base is plain only if nothing at or above the link
\* was replaced.
LEMMA PlainBeyond ==
    ASSUME TreeInv, NEW l \in Tree, base[l].kind = "link", NEW p \in Tree, Plain(p),
           IsPrefix(base[l].to, p)
    PROVE  \A q \in Above(l) \cup {l} : ~Replaced(q)
<1>1. Start[l] = base[l] BY DEF TreeInv, LinksStart
<1> QED BY <1>1, PlainParts

\* What the branch holds replaces no link that is above it, or beyond which a plain
\* path lies.
LEMMA NoLinkAbove ==
    ASSUME TreeInv, NEW c \in Tree, delta[c] # None, NEW p \in Tree, Plain(p),
           NEW l \in Above(c), base[l].kind = "link"
    PROVE  l \notin Above(p) \cup {p} /\ ~IsPrefix(base[l].to, p)
<1>1. l \in Tree /\ Replaced(l) BY LinkReplaced, TreeOrder
<1> QED BY <1>1, PlainParts, PlainBeyond

\* A copy does not make a path plain: what replaces something goes on replacing it.
LEMMA PlainBefore ==
    ASSUME TreeInv, NEW c \in Changes, NEW source \in [Tree -> Nodes], Apply(c, source),
           UNCHANGED <<delta, gone>>, NEW p \in Tree, Plain(p)'
    PROVE  Plain(p)
<1>1. TypeOK /\ BaseIsTree /\ Rooted /\ Hidden /\ LinksStart /\ base \in [Tree -> Nodes]
      /\ delta \in [Tree -> Nodes]
  BY DEF TreeInv, TypeOK
<1>2. c.rel \in Tree BY <1>1, ApplyCases
\* Only a file or nothing is overwritten, and nothing that the branch holds is removed.
<1>3. ASSUME NEW q \in Tree, base'[q] # base[q]
      PROVE  \/ /\ base'[q] = None /\ delta[q] = None
             \/ base[q] = None
             \/ base[q].kind = "file" /\ base'[q].kind = "file"
  <2>1. CASE c.rel \in gone /\ base' = Deleted(c.rel)
    <3>1. base'[q] = None /\ (q = c.rel \/ c.rel \in Above(q))
      BY <1>2, <1>3, <2>1, TreeOrder DEF Deleted
    <3>2. delta[q] = None BY <1>1, <2>1, <3>1 DEF Rooted, Hidden
    <3> QED BY <3>1, <3>2
  <2>2. CASE base' = [r \in Tree |-> IF r \in Upto(Led(c.rel)) /\ base[r] = None
                                     THEN Dir ELSE base[r]]
    BY <1>3, <2>2
  <2>3. CASE Copy(c.rel, source)
    <3>1. base' # base BY <1>3
    <3>2. PICK land \in Seq(Segments) :
                 /\ Read(c.rel, source).kind = "file"
                 /\ \A r \in Above(Led(c.rel)) : base[r] \in {None, Dir}
                 /\ land \in Tree => base[land].kind \in {"none", "file"}
                 /\ base' = [r \in Tree |-> IF r = land THEN Read(c.rel, source)
                                            ELSE IF r \in Above(Led(c.rel)) THEN Dir
                                            ELSE base[r]]
      BY <1>1, <1>2, <2>3, <3>1, CopyEffect
    <3>3. CASE q = land
      <4>1. base'[q].kind = "file" /\ base[q].kind \in {"none", "file"}
        BY <3>2, <3>3
      <4>2. base[q].kind = "none" => base[q] = None BY <1>1, NodeKinds
      <4> QED BY <4>1, <4>2
    <3>4. CASE q # land
      BY <1>3, <3>2, <3>4
    <3> QED BY <3>3, <3>4
  <2> QED BY <1>1, <2>1, <2>2, <2>3, ApplyCases
<1>4. ASSUME NEW q \in Tree, Replaced(q) PROVE Replaced(q)'
  <2>1. delta[q] # None /\ base[q] # None /\ delta' = delta
    BY <1>4 DEF Replaced
  <2>2. CASE base'[q] = base[q] BY <1>4, <2>1, <2>2 DEF Replaced
  <2>3. CASE base[q].kind = "file" /\ base'[q].kind = "file"
    <3>1. delta[q].kind # "file" BY <1>4, <2>3 DEF Replaced
    <3>2. base'[q] # None BY <2>3, NodeKinds
    <3> QED BY <2>1, <2>3, <3>1, <3>2 DEF Replaced
  <2> QED BY <1>3, <2>1, <2>2, <2>3
<1>5. \A q \in Upto(p) : q \in Tree BY DEF Upto
<1>6. \A l \in Tree : \A q \in Upto(l) : q \in Tree BY DEF Upto
<1> QED BY <1>4, <1>5, <1>6 DEF Plain

\* What os.makedirs makes for what the branch holds, where a plain path is, is above
\* it, or is its own path.
LEMMA PlainMade ==
    ASSUME TreeInv, NEW c \in Tree, delta[c] # None, CanMakeDirs(Above(c)),
           NEW p \in Tree, Plain(p), p \in Upto(Led(c)), base[p] # Dir
    PROVE  Led(c) = c /\ p \in Above(c) \cup {c}
<1>1. TypeOK /\ BaseIsTree /\ LinksStart BY DEF TreeInv
<1>2. Led(c) = c
  <2>1. ASSUME NEW l \in Above(c), base[l].kind = "link" PROVE ~IsPrefix(base[l].to, p)
    BY <2>1, NoLinkAbove
  <2> QED BY <1>1, <2>1, MadeWhere
<1> QED BY <1>2, SeqOrder

\* Where a copy from the store changes a plain path, it makes it what the agent saw.
LEMMA TouchedSettles ==
    ASSUME TreeInv, NEW c \in Changes, Apply(c, InStore),
           UNCHANGED <<delta, gone>>, NEW p \in Tree, Plain(p), base'[p] # base[p]
    PROVE  base'[p] = View(p)'
<1>1. TypeOK /\ BaseIsTree /\ Rooted /\ Hidden /\ LinksStart /\ base \in [Tree -> Nodes]
      /\ delta \in [Tree -> Nodes]
  BY DEF TreeInv, TypeOK
<1>2. c.rel \in Tree BY <1>1, ApplyCases
<1>3. View(p)' = IF delta[p] # None THEN delta[p]
                 ELSE IF p \in gone THEN None ELSE base'[p]
  BY DEF View
<1>4. CASE c.rel \in gone /\ base' = Deleted(c.rel)
  <2>1. base'[p] = None /\ (p = c.rel \/ c.rel \in Above(p))
    BY <1>2, <1>4, TreeOrder DEF Deleted
  <2>2. delta[p] = None BY <1>1, <1>4, <2>1 DEF Rooted, Hidden
  <2> QED BY <1>3, <2>1, <2>2
<1>5. ASSUME p \in Above(c.rel), base'[p] = Dir, delta[c.rel] # None
      PROVE  base'[p] = View(p)'
  BY <1>1, <1>2, <1>3, <1>5 DEF Rooted
<1>6. CASE /\ delta[c.rel] = Dir /\ CanMakeDirs(Above(c.rel))
           /\ base' = [r \in Tree |-> IF r \in Upto(Led(c.rel)) /\ base[r] = None
                                      THEN Dir ELSE base[r]]
  <2>1. base'[p] = Dir /\ p \in Upto(Led(c.rel)) /\ base[p] = None BY <1>6
  <2>2. Dir # None BY NodeKinds
  <2>3. p \in Above(c.rel) \cup {c.rel} BY <1>2, <1>6, <2>1, <2>2, PlainMade
  <2> QED BY <1>3, <1>5, <1>6, <2>1, <2>2, <2>3
<1>7. CASE /\ delta[c.rel].kind \in {"file", "link"} /\ delta[c.rel] \in Nodes
           /\ Copy(c.rel, InStore)
  <2> DEFINE node == Read(c.rel, InStore)
  <2>1. base' # base BY <1>2
  <2>2. PICK land \in Seq(Segments) :
               /\ node.kind = "file" /\ CanMakeDirs(Above(c.rel))
               /\ \A r \in Above(Led(c.rel)) : base[r] \in {None, Dir}
               /\ Lands(c.rel, land)
               /\ base' = [r \in Tree |-> IF r = land THEN node
                                          ELSE IF r \in Above(Led(c.rel)) THEN Dir
                                          ELSE base[r]]
    BY <1>1, <1>2, <1>7, <2>1, Sources, CopyEffect
  <2>3. delta[c.rel] # None BY <1>7, NodeKinds
  <2>4. InStore[c.rel] = delta[c.rel] BY <1>1, <1>2, <2>3, StoreHolds
  <2>5. CASE p = land
    <3>1. CASE land = c.rel
      <4>1. delta[p].kind # "link" BY PlainParts
      <4>2. delta[p].kind = "file" BY <1>7, <2>5, <3>1, <4>1
      <4>3. node = delta[p] BY <2>4, <2>5, <3>1, <4>2 DEF Read
      <4> QED BY <1>3, <2>2, <2>3, <2>5, <3>1, <4>3
    \* The directory or the link would have been replaced.
    <3>2. CASE base[c.rel] = Dir /\ c.rel \in Above(land)
      <4>1. Replaced(c.rel) BY <1>7, <2>3, <3>2, NodeKinds DEF Replaced
      <4> QED BY <2>5, <3>2, <4>1, PlainParts
    <3>3. ASSUME NEW l \in Tree, NEW r \in Tree, base[l].kind = "link",
                 \/ r = c.rel /\ l \in Upto(c.rel)
                 \/ r = l /\ c.rel \in Above(l) /\ base[c.rel] = Dir,
                 IsPrefix(base[l].to, land),
                 \/ land = Beyond(base[l].to, l, r)
                 \/ /\ land = Append(Beyond(base[l].to, l, r), r[Len(r)])
                    /\ Beyond(base[l].to, l, r) \in Tree
                    /\ base[Beyond(base[l].to, l, r)] = Dir
          PROVE  base'[p] = View(p)'
      <4>1. \A q \in Above(l) \cup {l} : ~Replaced(q)
        BY <2>5, <3>3, PlainBeyond
      <4>2. ~(c.rel \in Above(l) /\ base[c.rel] = Dir)
        <5>1. base[c.rel] = Dir => Replaced(c.rel)
          BY <1>7, <2>3, NodeKinds DEF Replaced
        <5> QED BY <4>1, <5>1
      <4>3. l \notin Above(c.rel)
        BY <1>2, <2>3, <2>5, <3>3, NoLinkAbove
      <4>4. r = c.rel /\ l = c.rel BY <1>2, <3>3, <4>2, <4>3, SeqOrder
      <4> DEFINE to == base[l].to
      <4>5. to \in Tree /\ base[l] # None /\ base[l] = Link(to)
        BY <1>1, <3>3, NodeKinds
      <4>6. delta[l] = base[l]
        BY <1>7, <2>3, <3>3, <4>1, <4>4, <4>5, NodeKinds DEF Replaced
      <4>7. node = InStore[to] BY <2>4, <4>4, <4>5, <4>6, <3>3 DEF Read
      <4>8. node = delta[to] /\ delta[to] # None
        BY <1>1, <2>2, <4>5, <4>7, StoreHolds, NodeKinds
      <4>9. Beyond(to, l, r) = to
        <5>1. IsPrefix(l, l) BY SeqOrder, PrefixOrder
        <5> QED BY <4>4, <4>5, <5>1, BeyondFields
      <4> HIDE DEF to
      <4>10. land = to
        <5>1. base[to] = Dir => Replaced(to)
          BY <2>2, <4>8, NodeKinds DEF Replaced
        <5>2. to \in Above(land) \cup {land}
          <6>1. IsPrefix(to, land) BY <3>3 DEF to
          <6> QED BY <2>2, <4>5, <6>1, SeqOrder
        <5>3. ~Replaced(to) BY <2>5, <5>2, PlainParts
        <5> QED BY <3>3, <4>9, <5>1, <5>3 DEF to
      <4> QED BY <1>3, <2>2, <2>5, <4>8, <4>10
    <3> QED BY <2>2, <3>1, <3>2, <3>3 DEF Lands
  <2>6. CASE p # land
    <3>1. p \in Above(Led(c.rel)) /\ base'[p] = Dir /\ base[p] # Dir BY <2>2, <2>6
    <3>2. Led(c.rel) \in Seq(Segments) BY <1>1, <1>2, LedCases
    <3>3. p \in Upto(Led(c.rel)) BY <3>1, <3>2, SeqOrder
    <3>4. Led(c.rel) = c.rel BY <1>2, <2>2, <2>3, <3>1, <3>3, PlainMade
    <3> QED BY <1>5, <2>3, <3>1, <3>4
  <2> QED BY <2>5, <2>6
<1> QED BY <1>1, <1>4, <1>6, <1>7, ApplyCases

-----------------------------------------------------------------------------
\* A committed session has delivered.

\* A change that makes p what the agent saw: its own, or that of something in a
\* new directory p, whose parents are made on the way.
Settles(c, p) == \/ c.rel = p
                 \/ p \in Above(c.rel) /\ delta[p] = Dir /\ c.kind \in {"dir", "file"}

\* The real files are what the agent saw, or will be when these changes are copied.
Settled(p, changes) ==
    base[p] = View(p) \/ Unmade(p) \/ \E c \in changes : Settles(c, p)
AllSettled(changes) == \A p \in Tree \ IgnoredPaths : Plain(p) => Settled(p, changes)

\* Every change settles its path.
LEMMA SettlingCopy ==
    ASSUME TreeInv, NEW c \in Changes, Apply(c, InStore),
           UNCHANGED <<delta, gone>>, NEW p \in Tree, Plain(p), Settles(c, p)
    PROVE  base'[p] = View(p)'
<1> SUFFICES ASSUME base'[p] = base[p] PROVE base'[p] = View(p)'
  BY TouchedSettles
<1>1. TypeOK /\ BaseIsTree /\ Rooted /\ Hidden /\ LinksStart /\ base \in [Tree -> Nodes]
      /\ delta \in [Tree -> Nodes]
  BY DEF TreeInv, TypeOK
<1>2. c.rel \in Tree BY <1>1, ApplyCases
<1>3. View(p)' = IF delta[p] # None THEN delta[p]
                 ELSE IF p \in gone THEN None ELSE base'[p]
  BY DEF View
<1>d. None.kind = "none" /\ Dir.kind = "dir" /\ Dir # None BY NodeKinds
<1>4. CASE c.rel \in gone /\ c.kind = "tombstone" /\ base' = Deleted(c.rel)
  <2>1. p = c.rel BY <1>4 DEF Settles
  <2>2. base'[p] = None /\ delta[p] = None BY <1>1, <1>4, <2>1 DEF Deleted, Hidden
  <2> QED BY <1>3, <1>4, <2>1, <2>2
\* Where the base has nothing, and the branch a directory, no link is above, and the
\* way to it is made.
<1>5. ASSUME delta[c.rel] # None, p \in Above(c.rel) \cup {c.rel}, base[p] = None
      PROVE  Led(c.rel) = c.rel /\ p \in Upto(Led(c.rel))
  <2>1. ASSUME NEW l \in Above(c.rel), base[l].kind = "link" PROVE FALSE
    <3>1. l \in Tree /\ l \notin Above(p) \cup {p}
      BY <1>2, <1>5, <2>1, NoLinkAbove, TreeOrder
    <3>2. p \in Above(l)
      <4>1. p = c.rel \/ p \in Above(c.rel) BY <1>5
      <4> QED BY <1>2, <2>1, <3>1, <4>1, TreeOrder
    <3>3. base[l] # None BY <1>d, <2>1
    <3> QED BY <1>1, <1>5, <1>d, <3>1, <3>2, <3>3 DEF BaseIsTree
  <2>2. Led(c.rel) = c.rel BY <1>1, <1>2, <2>1, LedCases
  <2> QED BY <1>2, <1>5, <2>2, SeqOrder
\* What is above a change that the branch holds, or is one, is not replaced.
<1>6. base[p] = None \/ base[p].kind = delta[p].kind \/ delta[p] = None
  BY PlainParts DEF Replaced
<1>7. ASSUME delta[p] = Dir, base[p] # None PROVE base'[p] = View(p)'
  <2>1. base[p] = Dir BY <1>1, <1>6, <1>7, <1>d, NodeKinds
  <2> QED BY <1>3, <1>7, <1>d, <2>1
<1>8. CASE /\ delta[c.rel] = Dir
           /\ base' = [r \in Tree |-> IF r \in Upto(Led(c.rel)) /\ base[r] = None
                                      THEN Dir ELSE base[r]]
  <2>1. delta[p] = Dir /\ p \in Above(c.rel) \cup {c.rel} BY <1>8 DEF Settles
  <2>2. base[p] # None
    <3>1. base[p] = None => p \in Upto(Led(c.rel)) BY <1>5, <1>8, <1>d, <2>1
    <3> QED BY <1>8, <1>d, <3>1
  <2> QED BY <1>7, <2>1, <2>2
<1>9. CASE /\ delta[c.rel].kind \in {"file", "link"} /\ c.kind = delta[c.rel].kind
           /\ delta[c.rel] \in Nodes /\ Copy(c.rel, InStore)
  <2> DEFINE node == Read(c.rel, InStore)
  <2>1. delta[c.rel].kind = "file"
    <3>1. p = c.rel => delta[p].kind # "link" BY PlainParts
    <3> QED BY <1>9, <3>1 DEF Settles
  <2>2. delta[c.rel] # None BY <2>1, <1>d
  <2>3. InStore[c.rel] = delta[c.rel] BY <1>1, <1>2, <2>2, StoreHolds
  <2>4. node = delta[c.rel] BY <2>1, <2>3 DEF Read
  <2>5. PICK land \in Seq(Segments) :
               /\ land \notin Above(Led(c.rel)) /\ Lands(c.rel, land)
               /\ base' = [r \in Tree |-> IF r = land THEN node
                                          ELSE IF r \in Above(Led(c.rel)) THEN Dir
                                          ELSE base[r]]
    BY <1>1, <1>2, <1>9, <2>2, <2>4, Sources, CopyEffect
  <2>6. CASE p = c.rel
    <3>1. base[p] = None \/ base[p].kind = "file" BY <1>6, <2>1, <2>2, <2>6
    <3>2. base[p] # Dir BY <1>d, <3>1
    <3>3. ASSUME NEW l \in Upto(c.rel), base[l].kind = "link" PROVE FALSE
      <4>1. l \in Tree /\ (l = c.rel \/ l \in Above(c.rel)) BY <1>2, SeqOrder DEF Upto
      <4>2. l # c.rel BY <1>d, <2>6, <3>1, <3>3
      <4> QED BY <1>2, <2>2, <2>6, <3>3, <4>1, <4>2, NoLinkAbove
    <3>4. land = p BY <2>5, <2>6, <3>2, <3>3 DEF Lands
    <3> QED BY <1>3, <2>2, <2>4, <2>5, <2>6, <3>4
  <2>7. CASE p # c.rel
    <3>1. p \in Above(c.rel) /\ delta[p] = Dir BY <2>7 DEF Settles
    <3>2. base[p] # None
      <4>1. ASSUME base[p] = None PROVE p \in Above(Led(c.rel))
        BY <1>5, <2>2, <3>1, <4>1
      <4>2. base[p] = None => base'[p] # None BY <1>d, <2>1, <2>2, <2>4, <2>5, <4>1
      <4> QED BY <4>2
    <3> QED BY <1>7, <3>1, <3>2
  <2> QED BY <2>6, <2>7
<1> QED BY <1>1, <1>4, <1>8, <1>9, ApplyCases

\* Copying a change leaves every path settled.
LEMMA CopySettles ==
    ASSUME TreeInv, CopyNext, phase # "turn", AllSettled(todo) PROVE AllSettled(todo)'
<1>1. PICK c \in todo : Apply(c, InStore) /\ todo' = todo \ {c}
  BY DEF CopyNext
<1>2. UNCHANGED <<delta, gone, chosen>> /\ c \in Changes /\ TypeOK
  BY DEF CopyNext, TreeInv
<1>3. ASSUME NEW p \in Tree \ IgnoredPaths, Plain(p)' PROVE Settled(p, todo)'
  <2>1. Plain(p) BY <1>1, <1>2, <1>3, Sources, PlainBefore
  <2>2. CASE base'[p] = View(p)' BY <2>2 DEF Settled
  <2>3. CASE base'[p] # View(p)'
    <3>1. base'[p] = base[p] /\ ~Settles(c, p)
      BY <1>1, <1>2, <2>1, <2>3, TouchedSettles, SettlingCopy
    <3>2. View(p)' = View(p) BY <1>2, <3>1 DEF View
    <3>3. CASE Unmade(p)
      <4>1. Unmade(p)' BY <1>2, <3>1, <3>2, <3>3, ChangesFrozen DEF Unmade
      <4> QED BY <4>1 DEF Settled
    <3>4. CASE \E d \in todo : Settles(d, p)
      <4>1. PICK d \in todo : Settles(d, p) BY <3>4
      <4>2. d \in todo' /\ Settles(d, p)' BY <1>1, <1>2, <3>1, <4>1 DEF Settles
      <4> QED BY <4>2 DEF Settled
    <3> QED BY <1>3, <2>1, <2>3, <3>1, <3>2, <3>3, <3>4 DEF AllSettled, Settled
  <2> QED BY <2>2, <2>3
<1>4. IgnoredPaths' = IgnoredPaths BY DEF IgnoredPaths
<1> QED BY <1>3, <1>4 DEF AllSettled

\* When all changes are to be copied, every path is or will be what the agent saw,
\* new directories without anything copied into them aside.
LEMMA AllChangesSettle ==
    ASSUME TreeInv PROVE AllSettled(Changes)
<1>1. TypeOK /\ base \in [Tree -> Nodes] /\ delta \in [Tree -> Nodes] /\ gone \subseteq Tree
  BY DEF TreeInv, TypeOK
<1>2. ASSUME NEW p \in Tree \ IgnoredPaths, Plain(p), base[p] # View(p),
             ~\E c \in Changes : Settles(c, p)
      PROVE  Unmade(p)
  <2>1. \A c \in Changes : c.rel # p BY <1>2 DEF Settles
  <2>2. \A op, kind : ChangeAt(p, op, kind).rel = p BY DEF ChangeAt
  <2>3. p \notin gone BY <1>1, <2>1, <2>2, ChangeCases
  <2>4. delta[p] # None BY <1>2, <2>3 DEF View
  <2>5. delta[p] = Dir /\ \E o \in Entries : IsStrictPrefix(p, o.rel)
    BY <1>1, <2>1, <2>2, <2>4, ChangeCases
  <2>6. View(p) = Dir BY <2>4, <2>5 DEF View
  <2>7. base[p] = None
    <3>1. ~Replaced(p) BY <1>2, PlainParts
    <3>2. base[p] # Dir BY <1>2, <2>6
    <3>3. base[p] = None \/ base[p].kind # "dir" BY <1>1, <3>2, NodeKinds
    <3> QED BY <2>4, <2>5, <3>1, <3>3, NodeKinds DEF Replaced
  <2>8. \E q \in Under(p) : q \in gone \/ delta[q] # None
    <3>1. PICK o \in Entries : IsStrictPrefix(p, o.rel) BY <2>5
    <3>2. o.rel \in Tree /\ (o.rel \in gone \/ delta[o.rel] # None \/ o.rel \in Structural)
      BY <1>1, <3>1, EntryCases
    <3>3. o.rel \in Under(p) BY <3>1, <3>2 DEF Under
    <3>4. CASE o.rel \in Structural
      <4>1. PICK q \in Under(o.rel) : delta[q] # None BY <3>4 DEF Structural
      <4>2. q \in Tree BY DEF Under
      <4>3. q \in Under(p) BY <3>2, <3>3, <4>1, <4>2, TreeOrder
      <4> QED BY <4>1, <4>3
    <3> QED BY <3>2, <3>3, <3>4
  <2>9. ASSUME NEW c \in Changes, IsStrictPrefix(p, c.rel)
        PROVE  c.kind \in {"tombstone", "link"}
    <3>1. c.rel \in Tree /\ c \in Change BY <1>1, ChangeCases
    <3>2. p \in Above(c.rel) BY <2>9, <3>1 DEF Above
    <3>3. ~(c.kind \in {"dir", "file"}) BY <1>2, <2>5, <3>2 DEF Settles
    <3> QED BY <3>1, <3>3 DEF Change
  <2> QED BY <2>6, <2>7, <2>8, <2>9 DEF Unmade
<1> QED BY <1>2 DEF AllSettled, Settled

DeliverInv ==
    /\ TreeInv
    /\ phase \in {"applying", "committing"} => AllSettled(todo)
    /\ phase \in {"auto-committed", "committed"} => AllSettled({})

\* A session closes without changes, or when what is to be copied is all there is.
LEMMA DeliverStep == DeliverInv /\ [Next]_vars => DeliverInv'
<1> SUFFICES ASSUME DeliverInv, [Next]_vars PROVE DeliverInv'
  OBVIOUS
<1>0. TreeInv /\ TreeInv' BY TreeStep DEF DeliverInv
<1>1. AllSettled(Changes) BY <1>0, AllChangesSettle
<1>2. ASSUME UNCHANGED <<base, delta, gone>>
      PROVE  /\ todo' = Changes => AllSettled(todo)'
             /\ todo' = todo /\ AllSettled(todo) => AllSettled(todo)'
             /\ AllSettled({}) => AllSettled({})'
  <2>1. Changes' = Changes BY <1>2, ChangesFrozen
  <2>2. \A p : View(p)' = View(p) BY <1>2 DEF View
  <2>3. \A p : Plain(p)' = Plain(p) BY <1>2 DEF Plain, Replaced, Upto
  <2>4. \A p : Unmade(p)' = Unmade(p) BY <1>2, <2>1, <2>2 DEF Unmade
  <2>5. \A c, p : Settles(c, p)' = Settles(c, p) BY <1>2 DEF Settles
  <2> QED BY <1>1, <1>2, <2>2, <2>3, <2>4, <2>5 DEF AllSettled, Settled
<1>3. CASE UNCHANGED <<base, delta, gone>> /\ phase' \notin {"applying", "committing",
                                                   "auto-committed", "committed"}
  BY <1>0, <1>3 DEF DeliverInv
<1>4. ASSUME NEW p \in Tree, WriteFile(p) \/ MakeDir(p) \/ Delete(p)
                               \/ \E t \in LinkTargets : MakeLink(p, t)
      PROVE  DeliverInv'
  <2>1. phase' = "running"
    BY <1>4 DEF WriteFile, MakeDir, Delete, MakeLink, Put, CanReach
  <2> QED BY <1>0, <2>1 DEF DeliverInv
<1>5. CASE Turn
  BY <1>3, <1>5 DEF Turn
<1>6. CASE EndSession
  <2>1. UNCHANGED <<base, delta, gone>> BY <1>6 DEF EndSession
  <2>2. PICK decision : /\ decision \in {Decision, "pending-review"}
                        /\ phase' = IF decision = "auto-commit" THEN "applying"
                                    ELSE ClosedState(decision)
                        /\ todo' = IF decision = "auto-commit" THEN Changes ELSE {}
    BY <1>6 DEF EndSession, WithWarnings
  <2>3. CASE decision = "auto-commit"
    <3>1. phase' = "applying" /\ todo' = Changes BY <2>2, <2>3
    <3>2. AllSettled(todo)' BY <1>2, <2>1, <3>1
    <3> QED BY <1>0, <3>1, <3>2 DEF DeliverInv
  <2>4. CASE decision = "no-changes"
    <3>1. Changes = {}
      BY <2>2, <2>4 DEF Decision, DecisionFor, Evaluate, Changes
    <3>2. AllSettled({})' BY <1>1, <1>2, <2>1, <3>1
    <3>3. phase' = "auto-committed" BY <2>2, <2>4 DEF ClosedState
    <3> QED BY <1>0, <3>2, <3>3 DEF DeliverInv
  <2>5. CASE decision \notin {"auto-commit", "no-changes"}
    <3>1. phase' \in {"aborted", "pending-review"}
      BY <2>2, <2>5 DEF ClosedState
    <3> QED BY <1>0, <3>1 DEF DeliverInv
  <2> QED BY <2>3, <2>4, <2>5
<1>7. CASE Commit
  <2>1. /\ UNCHANGED <<base, delta, gone>> /\ todo' = Changes
        /\ phase' \in {"committing", "committed"} /\ (phase' = "committed" => todo' = {})
    BY <1>7 DEF Commit
  <2>2. AllSettled(todo)' BY <1>2, <2>1
  <2>3. todo' = {} => AllSettled({})' BY <2>2 DEF AllSettled, Settled
  <2> QED BY <1>0, <2>1, <2>2, <2>3 DEF DeliverInv
<1>8. CASE CommitChosen
  <2>1. UNCHANGED <<base, delta, gone>> /\ phase' \in {"selected", "selecting"}
    BY <1>8 DEF CommitChosen
  <2> QED BY <1>3, <2>1
<1>9. CASE CopyNext
  <2>1. PICK c \in todo : /\ todo' = todo \ {c}
                          /\ phase' = IF todo = {c} THEN Finished ELSE phase
    BY <1>9 DEF CopyNext
  <2>2. Copying BY <1>9 DEF CopyNext
  <2>3. CASE phase \in {"turn", "selecting"}
    <3>1. phase' \in {"running", "selected", "turn", "selecting"}
      BY <2>1, <2>3 DEF Finished
    <3> QED BY <1>0, <3>1 DEF DeliverInv
  <2>4. CASE phase \in {"applying", "committing"}
    <3>1. AllSettled(todo)' BY <1>0, <1>9, <2>4, CopySettles DEF DeliverInv
    <3>2. todo = {c} => AllSettled({})'
      <4>1. todo = {c} => todo' = {} BY <2>1
      <4> QED BY <3>1, <4>1 DEF AllSettled, Settled
    <3>3. phase' \in {"auto-committed", "committed"} => todo = {c}
      BY <2>1, <2>4
    <3> QED BY <1>0, <3>1, <3>2, <3>3 DEF DeliverInv
  <2> QED BY <2>2, <2>3, <2>4 DEF Copying
<1>10. CASE CopyRaises
  <2>1. UNCHANGED <<base, delta, gone>> /\ phase' \in {"running", "failed", "pending-review"}
    BY <1>10 DEF CopyRaises, Copying
  <2> QED BY <1>3, <2>1
<1>11. CASE UNCHANGED vars
  <2>1. /\ phase \in {"applying", "committing"} => AllSettled(todo)'
        /\ phase \in {"auto-committed", "committed"} => AllSettled({})'
    BY <1>2, <1>11 DEF DeliverInv, vars
  <2> QED BY <1>0, <1>11, <2>1 DEF DeliverInv, vars
<1> QED
  BY <1>4, <1>5, <1>6, <1>7, <1>8, <1>9, <1>10, <1>11 DEF Next

\* A session that ends committed has delivered what the agent saw (the runner's
\* and the operator's copy of every change), but at paths that change their kind or
\* that a replaced link leads to, whatever the tree, the edits, the policy, the turns
\* before and the attempts that failed.
THEOREM Delivered == Spec => []Delivers
<1>1. Init => DeliverInv
  BY TreeInit DEF Init, DeliverInv
<1>2. DeliverInv => Delivers
  BY DEF DeliverInv, AllSettled, Settled, Delivers, IgnoredPath
<1> QED BY <1>1, <1>2, DeliverStep, PTL DEF Spec

-----------------------------------------------------------------------------
\* A file-level commit has delivered what was chosen.

\* What was chosen is what the agent saw, or will be.
ChosenSettled ==
    \A p \in chosen : Plain(p) => base[p] = View(p) \/ \E c \in todo : c.rel = p

ChosenInv ==
    /\ TreeInv
    /\ phase = "selecting" => ChosenSettled
    /\ phase = "selected" => ChosenDelivered

\* A choice puts a change in the list for every path, a copy settles it.
LEMMA ChosenStep == ChosenInv /\ [Next]_vars => ChosenInv'
<1> SUFFICES ASSUME ChosenInv, [Next]_vars PROVE ChosenInv'
  OBVIOUS
<1>0. TreeInv /\ TreeInv' /\ chosen \subseteq Tree
  BY TreeStep DEF ChosenInv, TreeInv, TypeOK
<1>1. CASE phase' \notin {"selecting", "selected"}
  BY <1>0, <1>1 DEF ChosenInv
<1>2. ASSUME NEW p \in Tree, WriteFile(p) \/ MakeDir(p) \/ Delete(p)
                               \/ \E t \in LinkTargets : MakeLink(p, t)
      PROVE  ChosenInv'
  <2>1. phase' = "running"
    BY <1>2 DEF WriteFile, MakeDir, Delete, MakeLink, Put, CanReach
  <2> QED BY <1>1, <2>1
<1>3. CASE Turn \/ EndSession \/ Commit \/ CopyRaises
  <2>1. phase' \notin {"selecting", "selected"}
    BY <1>3, EndStates DEF Turn, EndSession, Commit, CopyRaises, Copying
  <2> QED BY <1>1, <2>1
<1>4. CASE CommitChosen
  <2>1. /\ \A p \in chosen' : \E c \in todo' : c.rel = p
        /\ phase' = IF todo' = {} THEN "selected" ELSE "selecting"
    BY <1>0, <1>4, ChosenChanges
  <2>2. ChosenSettled' BY <2>1 DEF ChosenSettled
  <2>3. phase' = "selected" => ChosenDelivered'
    <3>1. phase' = "selected" => chosen' = {} BY <2>1
    <3> QED BY <3>1 DEF ChosenDelivered
  <2> QED BY <1>0, <2>2, <2>3 DEF ChosenInv
<1>5. CASE CopyNext
  <2>1. PICK c \in todo : /\ Apply(c, IF phase = "turn" THEN InView ELSE InStore)
                          /\ todo' = todo \ {c}
                          /\ phase' = IF todo = {c} THEN Finished ELSE phase
    BY <1>5 DEF CopyNext
  <2>2. Copying /\ UNCHANGED <<delta, gone, chosen>> /\ c \in Changes
    BY <1>0, <1>5 DEF CopyNext, TreeInv
  <2>3. CASE phase # "selecting"
    <3>1. phase' \notin {"selecting", "selected"}
      BY <2>1, <2>2, <2>3 DEF Finished, Copying
    <3> QED BY <1>1, <3>1
  <2>4. CASE phase = "selecting"
    <3>0. Apply(c, InStore) BY <2>1, <2>4
    <3>1. ASSUME NEW p \in chosen, Plain(p)'
          PROVE  base'[p] = View(p)' \/ \E d \in todo' : d.rel = p
      <4>1. p \in Tree /\ Plain(p)
        BY <1>0, <2>2, <3>0, <3>1, Sources, PlainBefore DEF TreeInv
      <4>2. CASE base'[p] # base[p]
        BY <1>0, <2>2, <3>0, <4>1, <4>2, TouchedSettles
      <4>3. CASE c.rel = p
        <5>1. Settles(c, p) BY <4>3 DEF Settles
        <5> QED BY <1>0, <2>2, <3>0, <4>1, <5>1, SettlingCopy
      <4>4. CASE base'[p] = base[p] /\ c.rel # p
        <5>1. View(p)' = View(p) BY <2>2, <4>4 DEF View
        <5>2. base[p] = View(p) \/ \E d \in todo : d.rel = p
          BY <2>4, <4>1 DEF ChosenInv, ChosenSettled
        <5> QED BY <2>1, <4>4, <5>1, <5>2
      <4> QED BY <4>2, <4>3, <4>4
    <3>2. ChosenSettled' BY <2>2, <3>1 DEF ChosenSettled
    <3>3. phase' = "selected" => ChosenDelivered'
      <4>1. phase' = "selected" => todo' = {} BY <2>1, <2>4
      <4> QED BY <3>2, <4>1 DEF ChosenSettled, ChosenDelivered
    <3> QED BY <1>0, <3>2, <3>3 DEF ChosenInv
  <2> QED BY <2>3, <2>4
<1>6. CASE UNCHANGED vars
  <2>1. \A p : View(p)' = View(p) BY <1>6 DEF vars, View
  <2>2. \A p : Plain(p)' = Plain(p) BY <1>6 DEF vars, Plain, Replaced
  <2>3. ChosenSettled' = ChosenSettled BY <1>6, <2>1, <2>2 DEF vars, ChosenSettled
  <2>4. ChosenDelivered' = ChosenDelivered BY <1>6, <2>1, <2>2 DEF vars, ChosenDelivered
  <2> QED BY <1>0, <1>6, <2>3, <2>4 DEF ChosenInv, vars
<1> QED BY <1>2, <1>3, <1>4, <1>5, <1>6 DEF Next

\* review --commit delivers the chosen changes, whatever else was not chosen.
THEOREM ChosenIsDelivered == Spec => []ChosenDelivered
<1>1. Init => ChosenInv BY TreeInit DEF Init, ChosenInv
<1>2. ChosenInv => ChosenDelivered BY DEF ChosenInv, ChosenDelivered
<1> QED BY <1>1, <1>2, ChosenStep, PTL DEF Spec
-----------------------------------------------------------------------------
\* Nothing is overlooked.

\* Of the listed paths below a path one is the last: nothing is listed below it.
LEMMA LastListed ==
    ASSUME TypeOK, NEW p \in Tree, NEW o \in Entries, IsStrictPrefix(p, o.rel)
    PROVE  \E e \in Entries : /\ IsStrictPrefix(p, e.rel)
                              /\ ~\E f \in Entries : IsStrictPrefix(e.rel, f.rel)
<1> DEFINE listed == {q \in Tree : \E e \in Entries : e.rel = q}
           Below(q) == {r \in listed : IsStrictPrefix(q, r)}
           some == {Below(q) : q \in Below(p)}
<1>1. \A e \in Entries : e.rel \in listed BY EntryCases
<1>2. Tree \in SUBSET Tree /\ IsFiniteSet(Tree) BY DeliveryAssumption
<1>3. some \subseteq FiniteSubsetsOf(Tree)
  <2>1. \A q : Below(q) \subseteq Tree OBVIOUS
  <2>2. \A q : IsFiniteSet(Below(q)) BY <1>2, <2>1, FS_Subset
  <2> QED BY <2>1, <2>2 DEF FiniteSubsetsOf
<1>4. some # {}
  <2>1. o.rel \in Below(p) BY <1>1
  <2>2. Below(o.rel) \in some BY <2>1
  <2> HIDE DEF some
  <2> QED BY <2>2
<1>5. IsWellFoundedOn(StrictSubsetOrdering(Tree), FiniteSubsetsOf(Tree))
  BY FS_StrictSubsetOrderingWellFounded
<1>6. \E i \in some : \A j \in some : ~(<<j, i>> \in StrictSubsetOrdering(Tree))
  <2> HIDE DEF some
  <2> QED BY <1>3, <1>4, <1>5, WFMin
<1>7. PICK q \in Below(p) : \A j \in some : ~(<<j, Below(q)>> \in StrictSubsetOrdering(Tree))
  BY <1>6
<1>8. q \in Tree /\ IsStrictPrefix(p, q) OBVIOUS
<1>9. ASSUME NEW r \in Below(q) PROVE FALSE
  <2>1. r \in Tree /\ q \in Above(r) /\ p \in Above(q) BY <1>8 DEF Above
  <2>2. p \in Above(r) BY <1>8, <2>1, TreeOrder
  <2>3. r \in Below(p) BY <2>2, TreeOrder DEF Above
  <2>4. \A s \in Below(r) : s \in Below(q)
    <3> SUFFICES ASSUME NEW s \in Below(r) PROVE s \in Below(q)
      OBVIOUS
    <3>1. s \in Tree /\ r \in Above(s) BY DEF Above
    <3>2. q \in Above(s) BY <1>8, <2>1, <3>1, TreeOrder
    <3> QED BY <3>2 DEF Above
  <2>5. r \notin Below(r) BY DEF IsStrictPrefix
  <2>6. Below(r) \subseteq Below(q) /\ Below(r) # Below(q) BY <2>4, <2>5
  <2>7. Below(r) \subseteq Tree /\ Below(q) \subseteq Tree OBVIOUS
  <2>8. <<Below(r), Below(q)>> \in StrictSubsetOrdering(Tree)
    BY <2>6, <2>7 DEF StrictSubsetOrdering
  <2>9. Below(r) \in some BY <2>3
  <2> QED BY <1>7, <2>8, <2>9
<1>10. PICK e \in Entries : e.rel = q BY <1>8
<1>11. ~\E f \in Entries : IsStrictPrefix(e.rel, f.rel) BY <1>1, <1>9, <1>10
<1> QED BY <1>8, <1>10, <1>11

\* What the agent sees otherwise than the base has it is looked at, or above
\* something that is, or that is ignored.
LEMMA AllLooked == ASSUME TypeOK PROVE NothingOverlooked
<1> DEFINE looked == {c.rel : c \in Changes}
           listed == {e.rel : e \in Entries}
<1>1. /\ base \in [Tree -> Nodes] /\ delta \in [Tree -> Nodes] /\ gone \subseteq Tree
  BY DEF TypeOK
<1>2. ASSUME NEW p \in Tree, View(p) # base[p], ~IgnoredPath(p), p \notin looked
      PROVE  View(p) = Dir /\ \E q \in Under(p) \cap listed :
                                 IgnoredPath(q) \/ q \in looked
  <2>0. p \notin IgnoredPaths BY <1>2 DEF IgnoredPath
  <2>1. \A op, kind : ChangeAt(p, op, kind).rel = p BY DEF ChangeAt
  <2>2. \A op, kind : ChangeAt(p, op, kind) \notin Changes BY <1>2, <2>1
  <2>3. p \notin gone BY <2>0, <2>2, ChangeCases
  <2>4. delta[p] # None BY <1>2, <2>3 DEF View
  <2>5. delta[p] = Dir /\ \E o \in Entries : IsStrictPrefix(p, o.rel)
    BY <2>0, <2>2, <2>4, ChangeCases
  <2>6. PICK e \in Entries : /\ IsStrictPrefix(p, e.rel)
                             /\ ~\E f \in Entries : IsStrictPrefix(e.rel, f.rel)
    BY <2>5, LastListed
  <2>7. e.rel \in Tree /\ e.rel \in listed /\ e.rel \in Under(p)
    BY <2>6, EntryCases DEF Under
  <2>8. ASSUME e.rel \notin IgnoredPaths PROVE e.rel \in looked
    <3>1. \A op, kind : ChangeAt(e.rel, op, kind).rel = e.rel BY DEF ChangeAt
    <3>2. e.rel \notin Structural
      <4>1. ASSUME e.rel \in Structural PROVE FALSE
        <5>1. PICK q \in Under(e.rel) : delta[q] # None BY <4>1 DEF Structural
        <5>2. q \in Tree /\ IsStrictPrefix(e.rel, q) BY DEF Under
        <5>3. [rel |-> q, op |-> "delta", kind |-> delta[q].kind] \in Entries
          BY <5>1, <5>2, EntryCases
        <5> QED BY <2>6, <5>2, <5>3
      <4> QED BY <4>1
    <3>3. e.rel \in gone \/ delta[e.rel] # None BY <3>2, EntryCases
    <3>4. \E c \in Changes : c.rel = e.rel
      BY <2>6, <2>7, <2>8, <3>1, <3>3, ChangeCases
    <3> QED BY <3>4
  <2>9. View(p) = Dir BY <2>4, <2>5 DEF View
  <2> QED BY <2>7, <2>8, <2>9 DEF IgnoredPath
<1> QED BY <1>2 DEF NothingOverlooked

\* Leaving out structural directories hides nothing from the policy (branchfs.py,
\* _changes_from_status), in any state.
THEOREM NothingIsOverlooked == Spec => []NothingOverlooked
<1>1. TreeInv => NothingOverlooked BY AllLooked DEF TreeInv
<1> QED BY <1>1, TreeInit, TreeStep, PTL DEF Spec

-----------------------------------------------------------------------------
\* Spellings.

\* The canonical path of what is below a root.
LEMMA BelowRoot ==
    ASSUME NEW visible \in RawPaths, WholeRoot(visible), NEW p \in Tree
    PROVE  Canonicalize(Aliases, visible \o p) = Canonicalize(Aliases, visible) \o p
BY DeliveryAssumption, CanonicalBelow DEF WholeRoot

\* What a status lists, and what the policy objects to in it.
Listed == {e \in Entries :
             ~(e.kind = "dir" /\ \E o \in Entries : IsStrictPrefix(e.rel, o.rel))}
Objected(e, visible, scopes) ==
    LET path == Canonicalize(Aliases, visible \o e.rel)
    IN  \/ \E p \in Deny : PathMatches(p, path)
        \/ ~\E s \in scopes : \/ IsWithin(path, Canonicalize(Aliases, s))
                              \/ e.kind = "dir" /\ IsWithin(Canonicalize(Aliases, s), path)

\* The policy decides by the canonical paths.
LEMMA DecisionCases ==
    ASSUME NEW visible, NEW scopes
    PROVE  DecisionFor(visible, scopes) =
             IF ~\E e \in Listed : Kept(visible \o e.rel) THEN "no-changes"
             ELSE IF \E e \in Listed : Kept(visible \o e.rel) /\ Objected(e, visible, scopes)
             THEN "pending-review" ELSE "auto-commit"
<1> DEFINE R(e) == [rel |-> e.rel, op |-> e.op, kind |-> e.kind, path |-> visible \o e.rel]
           changes == FilterIgnored(Reported(visible), Ignore, Aliases)
           out == OutOfScope(changes, scopes, Aliases)
           denied == DenyMatches(changes, Deny, Aliases)
<1>1. \A e \in Listed : Kept(visible \o e.rel) => R(e) \in changes
  <2>1. \A e : R(e).path = visible \o e.rel OBVIOUS
  <2>2. \A e \in Listed : R(e) \in Reported(visible) BY DEF Listed, Reported
  <2> HIDE DEF R
  <2> QED BY <2>1, <2>2, KeptChanges
<1>2. \A c \in changes : \E e \in Listed : c = R(e) /\ Kept(visible \o e.rel)
  <2> SUFFICES ASSUME NEW c \in changes
               PROVE  \E e \in Listed : c = R(e) /\ Kept(visible \o e.rel)
    OBVIOUS
  <2>1. c \in Reported(visible) /\ Kept(c.path) BY KeptChanges
  <2>2. PICK e \in Listed : c = R(e) BY <2>1 DEF Listed, Reported
  <2>3. c.path = visible \o e.rel BY <2>2
  <2> QED BY <2>1, <2>2, <2>3
<1>3. \A e : R(e) \in changes => (R(e) \in out \cup denied <=> Objected(e, visible, scopes))
  <2> SUFFICES ASSUME NEW e, R(e) \in changes
               PROVE  R(e) \in out \cup denied <=> Objected(e, visible, scopes)
    OBVIOUS
  <2>1. R(e).path = visible \o e.rel /\ R(e).kind = e.kind OBVIOUS
  <2> HIDE DEF R, changes
  <2>2. R(e) \in out <=>
          ~\E s \in scopes :
             \/ IsWithin(Canonicalize(Aliases, visible \o e.rel), Canonicalize(Aliases, s))
             \/ /\ e.kind = "dir"
                /\ IsWithin(Canonicalize(Aliases, s), Canonicalize(Aliases, visible \o e.rel))
    BY <2>1 DEF OutOfScope, InScope
  <2>3. R(e) \in denied <=>
          \E p \in Deny : PathMatches(p, Canonicalize(Aliases, visible \o e.rel))
    BY <2>1 DEF DenyMatches
  <2> QED BY <2>2, <2>3 DEF Objected
<1>4. out \subseteq changes /\ denied \subseteq changes BY DEF OutOfScope, DenyMatches
<1> HIDE DEF R, changes, out, denied
<1>5. changes = {} <=> ~\E e \in Listed : Kept(visible \o e.rel)
  BY <1>1, <1>2
<1>6. changes \cap (out \cup denied) = {} <=>
        ~\E e \in Listed : Kept(visible \o e.rel) /\ Objected(e, visible, scopes)
  BY <1>1, <1>2, <1>3
<1>7. DecisionFor(visible, scopes) = Evaluate("workspace-auto", changes, out \cup denied)
  BY DEF DecisionFor, changes, out, denied
<1> QED BY <1>5, <1>6, <1>7 DEF Evaluate

\* Spellings with the same meaning lead to the same decision.
LEMMA SameDecision ==
    ASSUME SameMeaning, TypeOK, NEW spelled \in Respelled
    PROVE  DecisionFor(spelled[1], spelled[2]) = Decision
<1> DEFINE visible == spelled[1]
           scopes == spelled[2]
<1>1. visible \in RawPaths /\ Visible \in RawPaths BY DeliveryAssumption
<1>2. \A e \in Listed : e.rel \in Tree BY EntryCases DEF Listed
<1>3. ASSUME NEW e \in Listed
      PROVE  Canonicalize(Aliases, visible \o e.rel) = Canonicalize(Aliases, Visible \o e.rel)
  <2>1. Canonicalize(Aliases, visible) = Canonicalize(Aliases, Visible)
        /\ WholeRoot(visible) /\ WholeRoot(Visible)
    BY DEF SameMeaning
  <2> HIDE DEF visible
  <2> QED BY <1>1, <1>2, <2>1, BelowRoot
<1>4. ASSUME NEW e \in Listed PROVE Kept(visible \o e.rel) <=> Kept(Visible \o e.rel)
  BY <1>3 DEF Kept
<1>5. ASSUME NEW e \in Listed
      PROVE  Objected(e, visible, scopes) <=> Objected(e, Visible, Scopes)
  <2>1. /\ \A s \in scopes : \E t \in Scopes : Canonicalize(Aliases, s) = Canonicalize(Aliases, t)
        /\ \A t \in Scopes : \E s \in scopes : Canonicalize(Aliases, s) = Canonicalize(Aliases, t)
    <3>1. {Canonicalize(Aliases, s) : s \in scopes} = {Canonicalize(Aliases, s) : s \in Scopes}
      BY DEF SameMeaning
    <3> HIDE DEF scopes
    <3>2. \A s \in scopes : Canonicalize(Aliases, s) \in {Canonicalize(Aliases, t) : t \in Scopes}
      BY <3>1
    <3>3. \A t \in Scopes : Canonicalize(Aliases, t) \in {Canonicalize(Aliases, s) : s \in scopes}
      BY <3>1
    <3> QED BY <3>2, <3>3
  <2> HIDE DEF visible, scopes
  <2> QED BY <1>3, <2>1 DEF Objected
<1> HIDE DEF visible, scopes
<1>6. DecisionFor(visible, scopes) = DecisionFor(Visible, Scopes)
  BY <1>4, <1>5, DecisionCases
<1> QED BY <1>6 DEF Decision, visible, scopes

\* How visible path and scopes are spelled does not matter, in any state
\* (docs/policy.md), if no alias stands for a part of the root.
THEOREM SpellingIsIrrelevant ==
    ASSUME SameMeaning PROVE Spec => []SpellingIrrelevant
<1>1. TreeInv => SpellingIrrelevant BY SameDecision DEF TreeInv, SpellingIrrelevant
<1> QED BY <1>1, TreeInit, TreeStep, PTL DEF Spec

\* A name that commits a change is that change's for diff, and no other's.
LEMMA DiffAgrees == ASSUME WholeRoot(Visible) PROVE DiffShowsChosen
<1> DEFINE changed == {c.rel : c \in Changes}
           root == Canonicalize(Aliases, Visible)
<1>1. Visible \in Seq(Segments) /\ root \in Seq(Segments) /\ Tree \subseteq Seq(Segments)
  <2>1. Visible \in RawPaths BY DeliveryAssumption
  <2>2. root \in PlainPaths BY <2>1, DeliveryAssumption, CanonicalIsPlain
  <2> QED BY <2>1, <2>2, DeliveryAssumption DEF PlainPaths, RawPaths
<1>2. \A p \in Tree : Canonicalize(Aliases, Visible \o p) = root \o p
  BY DeliveryAssumption, BelowRoot
<1> HIDE DEF root
<1>3. \A p, q \in Tree : (root \o p = root \o q => p = q)
                         /\ (Visible \o p = Visible \o q => p = q)
  BY <1>1, PrefixBelow
<1>4. \A n \in Spellings : n.absolute => Places(n) = {Canonicalize(Aliases, n.segments)}
  BY DEF Places
<1>5. \A n \in Spellings : Matching[n] = {p \in Tree : root \o p \in Places(n)}
  BY <1>2 DEF Matching
<1>6. ASSUME NEW n \in Spellings, n.absolute, NEW p \in Matching[n], NEW q \in Matching[n]
      PROVE  p = q
  <2>1. p \in Tree /\ q \in Tree /\ root \o p = root \o q BY <1>4, <1>5, <1>6
  <2> QED BY <1>3, <2>1
<1>7. ASSUME NEW n \in Spellings, NEW r \in Named[n] \cap changed
      PROVE  Matching[n] \cap changed = Named[n]
  <2>1. r \in Tree /\ n = [absolute |-> TRUE, segments |-> Visible \o r]
    BY DEF Named
  <2>2. n.absolute /\ n.segments = Visible \o r BY <2>1
  <2>3. r \in Matching[n] BY <1>2, <1>4, <1>5, <2>1, <2>2
  <2>4. \A p \in Named[n] : p = r
    <3> SUFFICES ASSUME NEW p \in Named[n] PROVE p = r
      OBVIOUS
    <3>1. p \in Tree /\ n = [absolute |-> TRUE, segments |-> Visible \o p]
      BY DEF Named
    <3>2. n.segments = Visible \o p BY <3>1
    <3> QED BY <1>3, <2>1, <2>2, <3>1, <3>2
  <2>5. \A p \in Matching[n] : p = r BY <1>6, <2>2, <2>3
  <2> QED BY <2>3, <2>4, <2>5
<1>8. ASSUME NEW n \in Spellings
      PROVE  /\ Named[n] \cap changed # {} => Matching[n] \cap changed = Named[n]
             /\ n.absolute => \A p, q \in Matching[n] \cap changed : p = q
  BY <1>6, <1>7
<1> QED BY <1>8 DEF DiffShowsChosen

\* diff shows what review --commit commits (ctl.py, _matching_change), in any
\* state and for every spelling, if no alias stands for a part of the root.
THEOREM DiffShows == ASSUME WholeRoot(Visible) PROVE Spec => []DiffShowsChosen
<1>1. DiffShowsChosen BY DiffAgrees
<1> QED BY <1>1, PTL

-----------------------------------------------------------------------------
\* The base changes only where the policy allows it.

\* The canonical path of a path of the tree.
Place(p) == Canonicalize(Aliases, Visible) \o p

\* No pattern matches a place, and a scope covers what is there.
Passes(place) ==
    /\ \A x \in Ignore : /\ ~PathMatches(x, place)
                         /\ x.absolute => ~IsPrefix(Normalize(x.segments), place)
    /\ \A x \in Deny : ~PathMatches(x, place)
Covered(place, kind) ==
    \E s \in Scopes : \/ IsPrefix(Canonicalize(Aliases, s), place)
                      \/ kind = "dir" /\ IsPrefix(place, Canonicalize(Aliases, s))

\* Places are plain paths, and so are the scopes'.
LEMMA PlaceFacts ==
    ASSUME WholeRoot(Visible)
    PROVE  /\ \A p \in Tree : /\ Canonicalize(Aliases, Visible \o p) = Place(p)
                              /\ Place(p) \in PlainPaths /\ Place(p) \in Seq(Segments)
                              /\ Place(p) # <<>> /\ Normalize(Place(p)) = Place(p)
           /\ \A s \in Scopes : /\ Canonicalize(Aliases, s) \in Seq(Segments)
                                /\ Normalize(Canonicalize(Aliases, s)) = Canonicalize(Aliases, s)
           /\ \A p, q \in Tree : p \in Above(q) => IsPrefix(Place(p), Place(q))
           /\ \A p \in Tree : Append(p, p[Len(p)]) \in Tree =>
                 Place(Append(p, p[Len(p)])) = Again(Place(p))
<1> DEFINE root == Canonicalize(Aliases, Visible)
<1>1. root \in PlainPaths /\ root \in Seq(Segments)
  <2>1. root \in PlainPaths BY DeliveryAssumption, CanonicalIsPlain
  <2> HIDE DEF root
  <2> QED BY <2>1, PlainFields
<1> HIDE DEF root
<1>t. \A p \in Tree : p \in PlainPaths /\ p \in Seq(Segments) /\ p # <<>>
  BY DeliveryAssumption, PlainFields
<1>2. ASSUME NEW p \in Tree
      PROVE  /\ Canonicalize(Aliases, Visible \o p) = Place(p)
             /\ Place(p) \in PlainPaths /\ Place(p) \in Seq(Segments)
             /\ Place(p) # <<>> /\ Normalize(Place(p)) = Place(p)
  <2>1. Canonicalize(Aliases, Visible \o p) = Place(p)
    BY DeliveryAssumption, BelowRoot DEF Place
  <2>2. Place(p) = root \o p BY DEF Place, root
  <2>3. Place(p) \in PlainPaths BY <1>1, <1>t, <2>2, PlainConcat
  <2>4. Place(p) # <<>>
    <3>1. Len(root \o p) = Len(root) + Len(p) BY <1>1, <1>t, ConcatProperties
    <3>2. Len(root) \in Nat /\ Len(p) \in Nat /\ Len(p) # 0 BY <1>1, <1>t, EmptySeq
    <3>3. Len(Place(p)) # 0 BY <2>2, <3>1, <3>2
    <3> QED BY <3>3
  <2> QED BY <2>1, <2>3, <2>4, NormalizePlain, PlainFields
<1>3. ASSUME NEW s \in Scopes
      PROVE  /\ Canonicalize(Aliases, s) \in Seq(Segments)
             /\ Normalize(Canonicalize(Aliases, s)) = Canonicalize(Aliases, s)
  <2>1. Canonicalize(Aliases, s) \in PlainPaths BY DeliveryAssumption, CanonicalIsPlain
  <2> QED BY <2>1, NormalizePlain, PlainFields
<1>4. ASSUME NEW p \in Tree, NEW q \in Tree, p \in Above(q)
      PROVE  IsPrefix(Place(p), Place(q))
  <2>1. IsPrefix(p, q) BY <1>4 DEF Above, IsStrictPrefix
  <2> QED BY <1>1, <1>t, <2>1, PrefixBelow DEF Place, root
<1>5. ASSUME NEW p \in Tree, Append(p, p[Len(p)]) \in Tree
      PROVE  Place(Append(p, p[Len(p)])) = Again(Place(p))
  <2> DEFINE x == p[Len(p)]
  <2>1. Len(root) \in Nat /\ Len(p) \in Nat /\ Len(p) # 0 BY <1>1, <1>t, EmptySeq
  <2>2. Len(p) \in 1 .. Len(p) BY <2>1
  <2>3. x \in Segments BY <1>t, <2>2, ElementOfSeq
  <2>4. Append(root \o p, x) = root \o Append(p, x)
    <3> HIDE DEF x
    <3> QED BY <1>1, <1>t, <2>3, AppendConcat
  <2>5. /\ Len(root \o p) = Len(root) + Len(p)
        /\ \A i \in 1 .. Len(root) + Len(p) :
              (root \o p)[i] = IF i <= Len(root) THEN root[i] ELSE p[i - Len(root)]
    BY <1>1, <1>t, ConcatProperties
  <2>6. /\ Len(root) + Len(p) \in 1 .. Len(root) + Len(p)
        /\ ~(Len(root) + Len(p) <= Len(root))
        /\ (Len(root) + Len(p)) - Len(root) = Len(p)
    BY <2>1
  <2>7. (root \o p)[Len(root \o p)] = x BY <2>5, <2>6
  <2> QED BY <2>4, <2>7 DEF Place, Again, root
<1> QED BY <1>2, <1>3, <1>4, <1>5

\* What the policy lets through, by places.
LEMMA AllowedMeans ==
    ASSUME WholeRoot(Visible), NEW p \in Tree,
           NEW kind \in {"none", "dir", "file", "link", "tombstone"}
    PROVE  Allowed(p, kind) <=> Passes(Place(p)) /\ Covered(Place(p), kind)
<1> DEFINE c == [path |-> Visible \o p, kind |-> kind]
<1>1. c.path = Visible \o p /\ c.kind = kind OBVIOUS
<1> HIDE DEF c
<1>2. Allowed(p, kind) <=> /\ p \notin IgnoredPaths
                           /\ OutOfScope({c}, Scopes, Aliases) = {}
                           /\ DenyMatches({c}, Deny, Aliases) = {}
  BY DEF Allowed, AllowedByKind, AllowedPaths, c
<1>3. Canonicalize(Aliases, c.path) = Place(p) BY <1>1, PlaceFacts
<1>4. DenyMatches({c}, Deny, Aliases) = {} <=> \A x \in Deny : ~PathMatches(x, Place(p))
  BY <1>3 DEF DenyMatches
<1>5. p \notin IgnoredPaths <=>
         \A x \in Ignore : /\ ~PathMatches(x, Place(p))
                           /\ x.absolute => ~IsPrefix(Normalize(x.segments), Place(p))
  <2>1. p \notin IgnoredPaths <=> Kept(c.path) BY <1>1, KeptChanges
  <2> QED BY <1>3, <2>1, PlaceFacts DEF Kept, IsWithin
<1>6. OutOfScope({c}, Scopes, Aliases) = {} <=> InScope(c, Scopes, Aliases)
  BY DEF OutOfScope
<1>7. InScope(c, Scopes, Aliases) <=> Covered(Place(p), kind)
  BY <1>1, <1>3, PlaceFacts DEF InScope, Covered, IsWithin
<1> QED BY <1>2, <1>4, <1>5, <1>6, <1>7 DEF Passes

\* What is not a directory is allowed whatever it is, and where it is allowed what
\* is above it is allowed as a directory.
LEMMA AllowedAbove ==
    ASSUME WholeRoot(Visible), NEW p \in Tree,
           NEW kind \in {"none", "dir", "file", "link", "tombstone"}, Allowed(p, kind)
    PROVE  /\ Allowed(p, "dir")
           /\ kind # "dir" => /\ Allowed(p, "none") /\ Allowed(p, "file")
                              /\ Allowed(p, "tombstone")
           /\ \A q \in Above(p) : Allowed(q, "dir")
<1>1. Passes(Place(p)) /\ Covered(Place(p), kind) BY AllowedMeans
<1>2. Covered(Place(p), "dir") BY <1>1 DEF Covered
<1>3. kind # "dir" => \A k : Covered(Place(p), k) BY <1>1 DEF Covered
<1>4. ASSUME NEW q \in Above(p) PROVE Passes(Place(q)) /\ Covered(Place(q), "dir")
  <2>1. /\ q \in Tree /\ IsPrefix(Place(q), Place(p))
        /\ Place(q) \in Seq(Segments) /\ Place(p) \in Seq(Segments)
    BY TreeOrder, PlaceFacts
  <2>2. \A x \in Ignore \cup Deny : PathMatches(x, Place(q)) => PathMatches(x, Place(p))
    BY <2>1, MatchesBelow, DeliveryAssumption
  <2>3. ASSUME NEW x \in Ignore, IsPrefix(Normalize(x.segments), Place(q))
        PROVE  IsPrefix(Normalize(x.segments), Place(p))
    <3>1. Normalize(x.segments) \in Seq(Segments)
      <4>1. Normalize(x.segments) \in PlainPaths BY DeliveryAssumption, NormalizeIsPlain
      <4> QED BY <4>1, PlainFields
    <3> QED BY <2>1, <2>3, <3>1, PrefixOrder
  <2>4. Passes(Place(q)) BY <1>1, <2>2, <2>3 DEF Passes
  <2>5. PICK s \in Scopes : \/ IsPrefix(Canonicalize(Aliases, s), Place(p))
                            \/ IsPrefix(Place(p), Canonicalize(Aliases, s))
    BY <1>2 DEF Covered
  <2>6. Canonicalize(Aliases, s) \in Seq(Segments) BY PlaceFacts
  <2>7. IsPrefix(Canonicalize(Aliases, s), Place(q)) \/ IsPrefix(Place(q), Canonicalize(Aliases, s))
    BY <2>1, <2>5, <2>6, PrefixOrder
  <2> QED BY <2>4, <2>7 DEF Covered
<1> QED BY <1>1, <1>2, <1>3, <1>4, AllowedMeans, TreeOrder

\* A file that lands in a directory of its name is allowed where it is.
LEMMA AllowedAgain ==
    ASSUME WholeRoot(Visible), NoneDoubled, NEW p \in Tree, Allowed(p, "file"),
           Append(p, p[Len(p)]) \in Tree
    PROVE  Allowed(Append(p, p[Len(p)]), "file")
<1> DEFINE land == Append(p, p[Len(p)])
<1>1. /\ Place(land) = Again(Place(p)) /\ Place(p) \in Seq(Segments) /\ Place(p) # <<>>
      /\ Place(land) \in Seq(Segments)
  BY PlaceFacts
<1>2. Passes(Place(p)) /\ Covered(Place(p), "file") BY AllowedMeans
<1>3. \A x \in Ignore \cup Deny : PathMatches(x, Place(land)) => PathMatches(x, Place(p))
  BY <1>1, MatchesAgain, DeliveryAssumption DEF NoneDoubled
<1>4. ASSUME NEW x \in Ignore, x.absolute, IsPrefix(Normalize(x.segments), Place(land))
      PROVE  IsPrefix(Normalize(x.segments), Place(p))
  <2>1. Normalize(x.segments) \in Seq(Segments)
    <3>1. Normalize(x.segments) \in PlainPaths BY DeliveryAssumption, NormalizeIsPlain
    <3> QED BY <3>1, PlainFields
  <2>2. ~Doubled(Normalize(x.segments)) BY <1>4 DEF NoneDoubled
  <2> QED BY <1>1, <1>4, <2>1, <2>2, PrefixOfAgain
<1>5. Passes(Place(land)) BY <1>2, <1>3, <1>4 DEF Passes
<1>6. IsPrefix(Place(p), Place(land))
  BY LandsBelow, PlaceFacts
<1>7. Covered(Place(land), "file")
  <2>1. PICK s \in Scopes : IsPrefix(Canonicalize(Aliases, s), Place(p))
    BY <1>2 DEF Covered
  <2>2. IsPrefix(Canonicalize(Aliases, s), Place(land))
    BY <1>1, <1>6, <2>1, PlaceFacts, PrefixOrder
  <2> QED BY <2>2 DEF Covered
<1> QED BY <1>5, <1>7, AllowedMeans

\* What is not flagged is allowed, and a flagged change is recognized where the
\* root is configured by its canonical path.
LEMMA UnflaggedAllowed ==
    ASSUME CanonicalRoot, TypeOK, NEW c \in Changes
    PROVE  /\ c \notin Flagged => Allowed(c.rel, c.kind)
           /\ Recognized(c)
<1>1. /\ c.rel \in Tree \ IgnoredPaths /\ c.path = Visible \o c.rel
      /\ c.kind \in {"dir", "file", "link", "tombstone"}
  BY ChangeCases DEF Change
<1>2. Recognized(c)
  <2>1. Canonicalize(Aliases, c.path) = c.path
    BY <1>1, PlaceFacts DEF CanonicalRoot, Place
  <2> QED BY <2>1 DEF Recognized
<1>3. ASSUME c \notin Flagged PROVE Allowed(c.rel, c.kind)
  <2> DEFINE d == [path |-> Visible \o c.rel, kind |-> c.kind]
  <2>1. d.path = c.path /\ d.kind = c.kind BY <1>1
  <2> HIDE DEF d
  <2>2. c \notin OutOfScope(Changes, Scopes, Aliases) /\ c \notin DenyMatches(Changes, Deny, Aliases)
    BY <1>3 DEF Flagged
  <2>3. OutOfScope({d}, Scopes, Aliases) = {}
    BY <2>1, <2>2 DEF OutOfScope, InScope
  <2>4. DenyMatches({d}, Deny, Aliases) = {}
    BY <2>1, <2>2 DEF DenyMatches
  <2>5. c.rel \in AllowedPaths(c.kind) BY <1>1, <2>3, <2>4 DEF AllowedPaths, d
  <2> QED BY <1>1, <2>5 DEF Allowed, AllowedByKind
<1> QED BY <1>2, <1>3

\* The base differs from the start, and the policy let it.
Excused(p) ==
    \/ Allowed(p, base[p].kind)
    \/ /\ base[p] = None
       /\ \E q \in Above(p) : Start[q] = Dir /\ Allowed(q, "tombstone")
    \/ /\ base[p].kind \in {"file", "dir"}
       /\ \E l, r \in Tree : Through(l, r, p) /\ Allowed(r, base[p].kind)

\* A copy makes no link anew, and what the branch holds or deletes stays so, or was
\* in a place that the base has no more: a link stays touched.
LEMMA TouchedStays ==
    ASSUME TreeInv, [Next]_vars, NEW l \in Tree, Start[l].kind = "link", Touched(l)
    PROVE  Touched(l)'
<1>1. /\ TypeOK /\ BaseIsTree /\ delta \in [Tree -> Nodes] /\ base \in [Tree -> Nodes]
  BY DEF TreeInv, TypeOK
<1>k. None.kind = "none" /\ Dir.kind = "dir" BY NodeKinds
<1>u. \A q \in Upto(l) : q \in Tree /\ (q = l \/ q \in Above(l)) BY SeqOrder DEF Upto
<1>2. CASE UNCHANGED <<base, delta, gone>>
  BY <1>2 DEF Touched
<1>3. ASSUME NEW p \in Tree, NEW node, node # None, Put(p, node) PROVE Touched(l)'
  <2>1. /\ base' = base /\ gone' = gone \ {p} /\ delta' = [delta EXCEPT ![p] = node]
    BY <1>3 DEF Put
  <2>2. CASE base[l] # Start[l] BY <2>1, <2>2 DEF Touched
  <2>3. ASSUME NEW q \in Upto(l), delta[q] # None \/ q \in gone
        PROVE  delta'[q] # None \/ q \in gone'
    BY <1>1, <1>3, <1>u, <2>1, <2>3
  <2> QED BY <2>2, <2>3 DEF Touched
<1>4. ASSUME NEW p \in Tree, WriteFile(p) \/ MakeDir(p) \/ \E t \in LinkTargets : MakeLink(p, t)
      PROVE  Touched(l)'
  <2>1. \A v, t : File(v) # None /\ Link(t) # None /\ Dir # None
    BY <1>k DEF File, Link, Dir, None
  <2> QED BY <1>3, <1>4, <2>1 DEF WriteFile, MakeDir, MakeLink
<1>5. ASSUME NEW p \in Tree, Delete(p) PROVE Touched(l)'
  <2>1. /\ base' = base /\ delta' = [delta EXCEPT ![p] = None]
        /\ gone' = IF base[p] # None THEN gone \cup {p} ELSE gone
    BY <1>5 DEF Delete
  <2>2. CASE base[l] # Start[l] BY <2>1, <2>2 DEF Touched
  <2>3. CASE base[l] = Start[l]
    <3>1. ASSUME NEW q \in Upto(l), delta[q] # None \/ q \in gone
          PROVE  delta'[q] # None \/ q \in gone'
      <4>1. base[l] # None BY <1>k, <2>3
      <4>2. base[q] # None BY <1>1, <1>k, <1>u, <4>1 DEF BaseIsTree
      <4> QED BY <1>1, <1>u, <2>1, <3>1, <4>2
    <3> QED BY <2>3, <3>1 DEF Touched
  <2> QED BY <2>2, <2>3
<1>6. CASE CopyNext
  <2>1. PICK c \in todo : Apply(c, IF phase = "turn" THEN InView ELSE InStore)
    BY <1>6 DEF CopyNext
  <2>2. UNCHANGED <<delta, gone>> /\ c \in Changes BY <1>6 DEF CopyNext, TreeInv
  <2>3. PICK source \in [Tree -> Nodes] : Apply(c, source) BY <1>1, <2>1, Sources
  <2>4. base'[l].kind = "link" => base'[l] = base[l] BY <2>2, <2>3, ApplyKeepsTree
  <2>5. base'[l] = Start[l] => base[l] = Start[l] BY <2>4
  <2> QED BY <2>2, <2>5 DEF Touched
<1>7. CASE Turn \/ EndSession \/ Commit \/ CommitChosen \/ CopyRaises \/ UNCHANGED vars
  BY <1>2, <1>7 DEF Turn, EndSession, Commit, CommitChosen, CopyRaises, vars
<1> QED BY <1>4, <1>5, <1>6, <1>7 DEF Next

\* What was excused stays so where the base does not change.
LEMMA ExcusedStays ==
    ASSUME TreeInv, [Next]_vars, NEW p \in Tree, base'[p] = base[p], Excused(p)
    PROVE  Excused(p)'
<1>1. \A q, k : Allowed(q, k)' = Allowed(q, k)
  BY DEF Allowed, AllowedByKind, AllowedPaths, IgnoredPaths
<1>2. ASSUME NEW l \in Tree, NEW r \in Tree, Through(l, r, p) PROVE Through(l, r, p)'
  <2>1. Touched(l)' BY <1>2, TouchedStays DEF Through
  <2> QED BY <1>2, <2>1 DEF Through
<1> QED BY <1>1, <1>2 DEF Excused

\* A copy of an allowed change touches only what is allowed.
LEMMA CopyExcused ==
    ASSUME CanonicalRoot, NoneDoubled, TreeInv, UNCHANGED <<delta, gone>>,
           NEW c \in Changes, NEW source \in [Tree -> Nodes], Apply(c, source),
           Allowed(c.rel, c.kind), NEW p \in Tree, base'[p] # base[p]
    PROVE  base'[p] # Start[p] => Excused(p)'
<1>1. /\ TypeOK /\ BaseIsTree /\ LinksStart /\ Start \in [Tree -> Nodes]
      /\ WholeRoot(Visible) /\ base \in [Tree -> Nodes]
  BY DeliveryAssumption DEF TreeInv, CanonicalRoot, TypeOK
<1>2. c.rel \in Tree /\ c.kind \in {"dir", "file", "link", "tombstone"}
  BY <1>1, ChangeCases DEF Change
<1>3. /\ \A q \in Above(c.rel) \cup {c.rel} : Allowed(q, "dir")
      /\ c.kind # "dir" => /\ Allowed(c.rel, "none") /\ Allowed(c.rel, "file")
                           /\ Allowed(c.rel, "tombstone")
  BY <1>1, <1>2, AllowedAbove
<1>a. \A q, k : Allowed(q, k)' = Allowed(q, k)
  BY DEF Allowed, AllowedByKind, AllowedPaths, IgnoredPaths
<1>k. None.kind = "none" /\ Dir.kind = "dir" /\ Dir # None BY NodeKinds
<1>4. CASE c.kind = "tombstone" /\ base' = Deleted(c.rel)
  <2>1. base'[p] = None /\ (p = c.rel \/ (base[c.rel] = Dir /\ c.rel \in Above(p)))
    BY <1>2, <1>4, TreeOrder DEF Deleted
  <2>2. CASE p = c.rel
    BY <1>3, <1>4, <1>a, <1>k, <2>1, <2>2 DEF Excused
  <2>3. CASE c.rel \in Above(p)
    <3>1. Start[p] # None => Start[c.rel] = Dir BY <2>3, DeliveryAssumption
    <3> QED BY <1>3, <1>4, <1>a, <1>k, <2>1, <2>3, <3>1 DEF Excused
  <2> QED BY <2>1, <2>2, <2>3
\* A link that a change of the branch replaces is touched.
<1>5. ASSUME NEW l \in Tree, base[l].kind = "link", delta[c.rel] # None,
             l \in Above(c.rel) \cup {c.rel} \/ c.rel \in Above(l)
      PROVE  Touched(l)' /\ Start[l].kind = "link" /\ Start[l].to = base[l].to
  <2>1. Start[l] = base[l] BY <1>5, <1>1 DEF LinksStart
  <2>2. PICK q \in Upto(l) : delta[q] # None
    <3>1. CASE l = c.rel \/ c.rel \in Above(l)
      BY <1>2, <1>5, <3>1, SeqOrder
    <3>2. CASE l \in Above(c.rel)
      <4>1. delta[l] # None BY <1>2, <1>5, <1>k, <3>2, LinkReplaced
      <4> QED BY <4>1, SeqOrder
    <3> QED BY <1>5, <3>1, <3>2
  <2>3. delta' = delta /\ Upto(l)' = Upto(l) BY DEF Upto
  <2> QED BY <1>5, <2>1, <2>2, <2>3 DEF Touched
\* Directories that are made.
<1>6. ASSUME base'[p] = Dir, p \in Upto(Led(c.rel)), CanMakeDirs(Above(c.rel)),
             delta[c.rel] # None
      PROVE  Excused(p)'
  <2>1. base[p] # Dir BY <1>6
  <2>2. CASE Led(c.rel) = c.rel
    <3>1. p \in Above(c.rel) \cup {c.rel} BY <1>2, <1>6, <2>2, SeqOrder
    <3> QED BY <1>3, <1>6, <1>a, <1>k, <3>1 DEF Excused
  <2>3. ASSUME NEW l \in Above(c.rel), base[l].kind = "link", IsPrefix(base[l].to, p),
               IsPrefix(p, Beyond(base[l].to, l, c.rel))
        PROVE  Excused(p)'
    <3>1. l \in Tree /\ IsPrefix(l, c.rel) BY <1>2, <2>3, SeqOrder
    <3>2. Touched(l)' /\ Start[l].kind = "link" /\ Start[l].to = base[l].to
      BY <1>5, <1>6, <2>3, <3>1
    <3>3. Through(l, c.rel, p)' BY <2>3, <3>1, <3>2 DEF Through
    <3> QED BY <1>2, <1>3, <1>6, <1>a, <1>k, <3>1, <3>3 DEF Excused
  <2> QED BY <1>1, <1>2, <1>6, <2>1, <2>2, <2>3, MadeWhere
<1>7. CASE /\ delta[c.rel] = Dir /\ CanMakeDirs(Above(c.rel))
           /\ base' = [r \in Tree |-> IF r \in Upto(Led(c.rel)) /\ base[r] = None
                                      THEN Dir ELSE base[r]]
  <2>1. base'[p] = Dir /\ p \in Upto(Led(c.rel)) BY <1>7
  <2> QED BY <1>6, <1>7, <1>k, <2>1
<1>8. CASE /\ delta[c.rel].kind \in {"file", "link"} /\ c.kind \in {"file", "link"}
           /\ Copy(c.rel, source)
  <2> DEFINE node == Read(c.rel, source)
  <2>1. base' # base /\ delta[c.rel] # None BY <1>2, <1>8, <1>k
  <2>2. PICK land \in Seq(Segments) :
               /\ node.kind = "file" /\ CanMakeDirs(Above(c.rel))
               /\ land \notin Above(Led(c.rel)) /\ Lands(c.rel, land)
               /\ base' = [r \in Tree |-> IF r = land THEN node
                                          ELSE IF r \in Above(Led(c.rel)) THEN Dir
                                          ELSE base[r]]
    BY <1>1, <1>2, <1>8, <2>1, CopyEffect
  <2>3. CASE p # land
    <3>1. p \in Above(Led(c.rel)) /\ base'[p] = Dir BY <2>2, <2>3
    <3>2. p \in Upto(Led(c.rel))
      <4>1. Led(c.rel) \in Seq(Segments) BY <1>1, <1>2, LedCases
      <4> QED BY <3>1, <4>1, SeqOrder
    <3> QED BY <1>6, <2>1, <2>2, <3>1, <3>2
  <2>4. CASE p = land
    <3>1. base'[p].kind = "file" BY <2>2, <2>4
    <3>2. CASE land = c.rel
      BY <1>3, <1>8, <1>a, <2>4, <3>1, <3>2 DEF Excused
    <3>3. \A l \in Tree : l = Append(c.rel, c.rel[Len(c.rel)]) => Allowed(l, "file")
      BY <1>1, <1>2, <1>3, <1>8, AllowedAgain
    <3>4. CASE land = Append(c.rel, c.rel[Len(c.rel)])
      BY <1>a, <2>4, <3>1, <3>3, <3>4 DEF Excused
    <3>5. ASSUME NEW l \in Tree, NEW r \in Tree, base[l].kind = "link",
                 \/ r = c.rel /\ l \in Upto(c.rel)
                 \/ /\ r = l /\ l = Append(c.rel, c.rel[Len(c.rel)])
                    /\ c.rel \in Above(l),
                 IsPrefix(base[l].to, land),
                 \/ land = Beyond(base[l].to, l, r)
                 \/ land = Append(Beyond(base[l].to, l, r), r[Len(r)])
          PROVE  Excused(p)'
      <4>1. l \in Above(c.rel) \cup {c.rel} \/ c.rel \in Above(l)
        BY <1>2, <3>5, SeqOrder
      <4>2. Touched(l)' /\ Start[l].kind = "link" /\ Start[l].to = base[l].to
        BY <1>5, <2>1, <3>5, <4>1
      <4>3. IsPrefix(l, r)
        <5>1. IsPrefix(l, l) BY SeqOrder, PrefixOrder
        <5> QED BY <1>2, <3>5, <5>1 DEF Upto
      <4>4. Allowed(r, "file") BY <1>3, <1>8, <3>3, <3>5
      <4>5. IsPrefix(land, land) BY <2>2, PrefixOrder
      <4>6. Through(l, r, p)' BY <2>4, <3>5, <4>2, <4>3, <4>5 DEF Through
      <4> QED BY <1>a, <3>1, <4>4, <4>6 DEF Excused
    <3> QED BY <2>2, <3>2, <3>4, <3>5 DEF Lands
  <2> QED BY <2>3, <2>4
<1> QED BY <1>1, <1>4, <1>7, <1>8, ApplyCases

\* What a turn or a session end copies is allowed; an operator's copy has something
\* to copy only where something was chosen.
TouchInv ==
    /\ TreeInv
    /\ phase \in {"running", "turn", "applying"} => chosen = {}
    /\ chosen # {} => Changes # {}
    /\ chosen = {} => phase # "selecting" /\ (phase = "committing" => todo = {})
    /\ phase \in {"turn", "applying"} => \A c \in todo : Allowed(c.rel, c.kind)
    /\ OnlyAllowedTouched

\* The steps that leave the base alone.
LEMMA BaseUntouched ==
    ASSUME TouchInv, [Next]_vars, base' = base, chosen = {}, phase # "selected"
    PROVE  OnlyAllowedTouched'
<1>1. ASSUME NEW p \in Tree, base'[p] # Start[p] PROVE Excused(p)'
  <2>1. Excused(p) BY <1>1 DEF TouchInv, OnlyAllowedTouched, Excused
  <2> QED BY <1>1, <2>1, ExcusedStays DEF TouchInv
<1> QED BY <1>1 DEF OnlyAllowedTouched, Excused

\* TouchInv is inductive where roots and patterns are spelled canonically.
LEMMA TouchStep ==
    ASSUME CanonicalRoot, NoneDoubled
    PROVE  TouchInv /\ [Next]_vars => TouchInv'
<1> SUFFICES ASSUME TouchInv, [Next]_vars PROVE TouchInv'
  OBVIOUS
<1>0. TreeInv /\ TreeInv' /\ TypeOK BY TreeStep DEF TouchInv, TreeInv
<1>1. ASSUME NEW p \in Tree, WriteFile(p) \/ MakeDir(p) \/ Delete(p)
                               \/ \E t \in LinkTargets : MakeLink(p, t)
      PROVE  TouchInv'
  <2>1. base' = base /\ chosen' = chosen /\ phase' = "running" /\ phase = "running"
    BY <1>1 DEF WriteFile, MakeDir, Delete, MakeLink, Put, CanReach
  <2>2. chosen = {} BY <2>1 DEF TouchInv
  <2>3. OnlyAllowedTouched' BY <2>1, <2>2, BaseUntouched
  <2> QED BY <1>0, <2>1, <2>2, <2>3 DEF TouchInv
<1>2. CASE Turn
  <2>1. /\ base' = base /\ chosen' = chosen /\ phase = "running"
        /\ phase' \in {"running", "turn"} /\ todo' \subseteq {c \in Changes : c \notin Flagged}
    BY <1>0, <1>2, UnflaggedAllowed DEF Turn
  <2>2. chosen = {} BY <2>1 DEF TouchInv
  <2>3. OnlyAllowedTouched' BY <2>1, <2>2, BaseUntouched
  <2>4. \A c \in todo' : Allowed(c.rel, c.kind)' BY <1>0, <2>1, UnflaggedAllowed
      DEF Allowed, AllowedByKind, AllowedPaths, IgnoredPaths
  <2> QED BY <1>0, <2>1, <2>2, <2>3, <2>4 DEF TouchInv
<1>3. CASE EndSession
  <2>1. /\ base' = base /\ chosen' = chosen /\ phase = "running"
        /\ phase' \in {"applying", "auto-committed", "aborted", "pending-review"}
    BY <1>3, EndStates DEF EndSession
  <2>2. chosen = {} BY <2>1 DEF TouchInv
  <2>3. OnlyAllowedTouched' BY <2>1, <2>2, BaseUntouched
  <2>4. ASSUME phase' = "applying" PROVE \A c \in todo' : Allowed(c.rel, c.kind)'
    <3>1. Decision = "auto-commit" /\ todo' = Changes
      BY <1>3, <2>4, EndStates DEF EndSession, WithWarnings
    <3>2. Decision = Evaluate("workspace-auto", Changes, Flagged)
      BY DEF Decision, DecisionFor, Changes, Flagged
    <3>3. Changes \cap Flagged = {} BY <3>1, <3>2 DEF Evaluate
    <3>4. \A c \in todo' : Allowed(c.rel, c.kind)
      BY <1>0, <3>1, <3>3, UnflaggedAllowed
    <3> QED BY <3>4 DEF Allowed, AllowedByKind, AllowedPaths, IgnoredPaths
  <2> QED BY <1>0, <2>1, <2>2, <2>3, <2>4 DEF TouchInv
<1>4. CASE Commit
  <2>1. /\ UNCHANGED <<base, delta, gone>> /\ phase = "pending-review"
        /\ todo' = Changes /\ chosen' = {c.rel : c \in Changes}
        /\ phase' = IF Changes = {} THEN "committed" ELSE "committing"
    BY <1>4 DEF Commit
  <2>2. Changes' = Changes BY <2>1, ChangesFrozen
  <2>3. chosen' = {} <=> Changes = {} BY <2>1
  <2>4. OnlyAllowedTouched'
    <3>1. CASE chosen' # {} BY <3>1 DEF OnlyAllowedTouched
    <3>2. CASE chosen' = {}
      <4>1. chosen = {} BY <2>3, <3>2 DEF TouchInv
      <4> QED BY <2>1, <4>1, BaseUntouched
    <3> QED BY <3>1, <3>2
  <2>5. phase' \in {"committed", "committing"} /\ (phase' = "committing" => chosen' # {})
    BY <2>1, <2>3
  <2> QED BY <1>0, <2>2, <2>3, <2>4, <2>5 DEF TouchInv
<1>5. CASE CommitChosen
  <2>1. /\ todo' \subseteq Changes /\ UNCHANGED <<base, delta, gone>>
        /\ \A p \in chosen' : \E c \in todo' : c.rel = p
        /\ phase' = IF todo' = {} THEN "selected" ELSE "selecting"
    BY <1>0, <1>5, ChosenChanges
  <2>2. todo' # {} => chosen' # {} BY <1>5 DEF CommitChosen
  <2>3. Changes' = Changes BY <2>1, ChangesFrozen
  <2>4. OnlyAllowedTouched' BY <2>1, <2>2 DEF OnlyAllowedTouched
  <2> QED BY <1>0, <2>1, <2>2, <2>3, <2>4 DEF TouchInv
<1>6. CASE CopyNext
  <2>1. PICK c \in todo : /\ Apply(c, IF phase = "turn" THEN InView ELSE InStore)
                          /\ todo' = todo \ {c}
                          /\ phase' = IF todo = {c} THEN Finished ELSE phase
    BY <1>6 DEF CopyNext
  <2>2. Copying /\ UNCHANGED <<delta, gone, chosen>> /\ c \in Changes
    BY <1>0, <1>6 DEF CopyNext, TreeInv
  <2>3. Changes' = Changes BY <2>2, ChangesFrozen
  <2>4. PICK source \in [Tree -> Nodes] : Apply(c, source)
    BY <1>0, <2>1, Sources
  <2>5. phase' \in {phase, Finished} /\ (phase' = phase => todo # {c})
    BY <2>1, <2>2 DEF Copying, Finished
  <2>6. CASE chosen # {}
    <3>1. OnlyAllowedTouched' BY <2>2, <2>6 DEF OnlyAllowedTouched
    <3>2. phase \notin {"turn", "applying"} BY <2>6 DEF TouchInv
    <3>3. phase' \notin {"running", "turn", "applying"}
      BY <2>2, <2>5, <3>2 DEF Copying, Finished
    <3> QED BY <1>0, <2>2, <2>3, <2>6, <3>1, <3>3 DEF TouchInv
  <2>7. CASE chosen = {}
    <3>1. phase \in {"turn", "applying"} BY <2>1, <2>2, <2>7 DEF TouchInv, Copying
    <3>2. phase' \in {"running", "turn", "applying", "auto-committed"}
      BY <2>5, <3>1 DEF Finished
    <3>3. Allowed(c.rel, c.kind) BY <3>1 DEF TouchInv
    <3>4. ASSUME NEW p \in Tree, base'[p] # Start[p] PROVE Excused(p)'
      <4>1. CASE base'[p] # base[p]
        BY <1>0, <2>2, <2>4, <3>3, <3>4, <4>1, CopyExcused
      <4>2. CASE base'[p] = base[p]
        <5>1. Excused(p)
          BY <2>7, <3>1, <3>4, <4>2 DEF TouchInv, OnlyAllowedTouched, Excused
        <5> QED BY <1>0, <4>2, <5>1, ExcusedStays
      <4> QED BY <4>1, <4>2
    <3>5. OnlyAllowedTouched' BY <3>4 DEF OnlyAllowedTouched, Excused
    <3>6. \A d \in todo' : Allowed(d.rel, d.kind)'
      <4>1. \A d \in todo' : Allowed(d.rel, d.kind) BY <2>1, <3>1 DEF TouchInv
      <4> QED BY <4>1 DEF Allowed, AllowedByKind, AllowedPaths, IgnoredPaths
    <3> QED BY <1>0, <2>2, <2>7, <3>2, <3>5, <3>6 DEF TouchInv
  <2> QED BY <2>6, <2>7
<1>7. CASE CopyRaises
  <2>1. /\ UNCHANGED <<base, delta, gone, chosen>> /\ todo' = {} /\ Copying
        /\ phase' \in {"running", "failed", "pending-review"}
        /\ phase' = "running" => phase = "turn"
    BY <1>7 DEF CopyRaises, Copying
  <2>2. Changes' = Changes BY <2>1, ChangesFrozen
  <2>3. phase # "selected" BY <2>1 DEF Copying
  <2>4. chosen' = {} => OnlyAllowedTouched' BY <2>1, <2>3, BaseUntouched
  <2>5. OnlyAllowedTouched' BY <2>4 DEF OnlyAllowedTouched
  <2> QED BY <1>0, <2>1, <2>2, <2>5 DEF TouchInv
<1>8. CASE UNCHANGED vars
  <2>1. /\ base' = base /\ phase' = phase /\ todo' = todo /\ chosen' = chosen
        /\ Changes' = Changes
    BY <1>8, ChangesFrozen DEF vars
  <2>2. OnlyAllowedTouched'
    BY <2>1, BaseUntouched DEF OnlyAllowedTouched
  <2>3. \A q, k : Allowed(q, k)' = Allowed(q, k)
    BY DEF Allowed, AllowedByKind, AllowedPaths, IgnoredPaths
  <2> QED BY <1>0, <2>1, <2>2, <2>3 DEF TouchInv
<1> QED BY <1>1, <1>2, <1>3, <1>4, <1>5, <1>6, <1>7, <1>8 DEF Next

\* Before an operator commits, the base changes only where the policy allows it, for
\* a root that is configured by its canonical path and has no alias for a part of
\* it, and patterns that do not end in the same name twice.
THEOREM OnlyAllowedIsTouched ==
    ASSUME CanonicalRoot, NoneDoubled PROVE Spec => []OnlyAllowedTouched
<1>1. Init => TouchInv
  <2> SUFFICES ASSUME Init PROVE TouchInv
    OBVIOUS
  <2>1. base = Start /\ phase = "running" /\ chosen = {} BY DEF Init
  <2>2. TreeInv BY TreeInit
  <2> QED BY <2>1, <2>2 DEF TouchInv, OnlyAllowedTouched
<1>2. TouchInv => OnlyAllowedTouched BY DEF TouchInv
<1> QED BY <1>1, <1>2, TouchStep, PTL DEF Spec
=============================================================================
