--------------------------- MODULE SandboxProofs ----------------------------
(***************************************************************************)
(* Theorems about Sandbox, for every host, every list of mounts and every   *)
(* number of resumes and of changes somebody else makes.                    *)
(***************************************************************************)
EXTENDS Sandbox, PolicyPathsProofs

\* Flattening a sequence of sequences: the function FlattenSeq recurs by exists,
\* by induction on how far it goes.
LEMMA FlattenFunction ==
    ASSUME NEW ss, NEW len \in Nat \ {0}, Len(ss) = len
    PROVE  \E f : /\ f = [i \in 1 .. len |-> IF i = 1 THEN ss[i] ELSE f[i - 1] \o ss[i]]
                  /\ FlattenSeq(ss) = f[len]
<1> DEFINE Recurs(f, k) == f = [i \in 1 .. k |->
                                  IF i = 1 THEN ss[i] ELSE f[i - 1] \o ss[i]]
           Good == {k \in Nat : \E f : Recurs(f, k)}
<1>1. 0 \in Good
  <2>1. Recurs([i \in 1 .. 0 |-> <<>>], 0) OBVIOUS
  <2> QED BY <2>1
<1>2. ASSUME NEW k \in Nat, k \in Good PROVE k + 1 \in Good
  <2>1. PICK f : Recurs(f, k) BY <1>2
  <2> DEFINE last == IF k = 0 THEN ss[1] ELSE f[k] \o ss[k + 1]
             g == [i \in 1 .. k + 1 |-> IF i <= k THEN f[i] ELSE last]
             h == [i \in 1 .. k + 1 |-> IF i = 1 THEN ss[i] ELSE g[i - 1] \o ss[i]]
  <2>2. \A i \in 1 .. k : f[i] = IF i = 1 THEN ss[i] ELSE f[i - 1] \o ss[i]
    BY <2>1
  <2>3. ASSUME NEW i \in 1 .. k + 1 PROVE g[i] = h[i]
    <3>1. CASE i \in 1 .. k /\ i = 1
      <4>1. g[i] = f[i] /\ f[i] = ss[i] BY <2>2, <3>1
      <4> QED BY <3>1, <4>1
    <3>2. CASE i \in 1 .. k /\ i # 1
      <4>1. i - 1 \in 1 .. k BY <3>2
      <4>2. g[i - 1] = f[i - 1] /\ g[i] = f[i] BY <3>2, <4>1
      <4>3. h[i] = g[i - 1] \o ss[i] BY <3>2
      <4> HIDE DEF g, h
      <4> QED BY <2>2, <3>2, <4>2, <4>3
    <3>3. CASE i = k + 1 /\ k = 0
      <4>1. g[i] = ss[1] BY <3>3
      <4>2. i = 1 /\ i \in 1 .. k + 1 BY <3>3
      <4>3. h[i] = ss[1] BY <4>2
      <4> QED BY <4>1, <4>3
    <3>4. CASE i = k + 1 /\ k # 0
      <4>1. i - 1 \in 1 .. k /\ i - 1 = k /\ i # 1 /\ ~(i <= k) BY <3>4
      <4>2. last = f[k] \o ss[i] BY <3>4
      <4> HIDE DEF last
      <4>3. g[i - 1] = f[k] /\ g[i] = last BY <4>1
      <4>4. h[i] = g[i - 1] \o ss[i] BY <4>1
      <4> HIDE DEF g, h
      <4> QED BY <4>2, <4>3, <4>4
    <3> QED BY <3>1, <3>2, <3>3, <3>4
  <2>4. g = h
    <3> HIDE DEF last
    <3> QED BY <2>3
  <2> HIDE DEF g
  <2>5. Recurs(g, k + 1) BY <2>4
  <2> HIDE DEF Recurs
  <2> QED BY <2>5
<1>3. 0 .. len \subseteq Good
  <2> HIDE DEF Good
  <2> QED BY <1>1, <1>2, UpTo
<1>4. \E f : Recurs(f, len)
  <2>1. len \in 0 .. len OBVIOUS
  <2> QED BY <1>3, <2>1
<1> DEFINE F == CHOOSE f : Recurs(f, len)
<1>5. Recurs(F, len) BY <1>4
<1>6. FlattenSeq(ss) = F[len] BY DEF FlattenSeq
<1> HIDE DEF F
<1> QED BY <1>5, <1>6

\* What is flattened keeps its elements.
LEMMA FlattenElements ==
    ASSUME NEW S, NEW ss \in Seq(Seq(S))
    PROVE  FlattenSeq(ss) \in Seq(S)
<1>0. Len(ss) \in Nat OBVIOUS
<1>1. CASE Len(ss) = 0
  <2>1. ss = <<>> BY <1>1, EmptySeq
  <2>2. FlattenSeq(ss) = <<>> BY <1>1, <2>1 DEF FlattenSeq
  <2> QED BY <2>2, EmptySeq
<1>2. CASE Len(ss) # 0
  <2> DEFINE len == Len(ss)
  <2>0. len \in Nat \ {0} BY <1>0, <1>2
  <2>1. PICK f : /\ f = [i \in 1 .. len |-> IF i = 1 THEN ss[i] ELSE f[i - 1] \o ss[i]]
                 /\ FlattenSeq(ss) = f[len]
    BY <2>0, FlattenFunction
  <2>2. \A i \in 1 .. len : ss[i] \in Seq(S) BY ElementOfSeq
  <2> HIDE DEF len
  <2>3. \A i \in 1 .. len : f[i] = IF i = 1 THEN ss[i] ELSE f[i - 1] \o ss[i]
    BY <2>1
  <2> DEFINE Good == {k \in Nat : k \in 1 .. len => f[k] \in Seq(S)}
  <2>4. 0 \in Good OBVIOUS
  <2>5. ASSUME NEW k \in 0 .. len, k < len, k \in Good PROVE k + 1 \in Good
    <3>1. k + 1 \in 1 .. len /\ ss[k + 1] \in Seq(S) BY <2>0, <2>2, <2>5
    <3>2. CASE k = 0
      <4>1. f[k + 1] = ss[k + 1] BY <2>3, <3>1, <3>2
      <4> QED BY <3>1, <4>1
    <3>3. CASE k # 0
      <4>1. k \in 1 .. len /\ k + 1 # 1 /\ (k + 1) - 1 = k BY <2>0, <2>5, <3>3
      <4>2. f[k + 1] = f[k] \o ss[k + 1] BY <2>3, <3>1, <4>1
      <4>3. f[k] \in Seq(S) BY <2>5, <4>1
      <4>4. f[k + 1] \in Seq(S) BY <3>1, <4>2, <4>3
      <4> QED BY <2>5, <4>4
    <3> QED BY <3>2, <3>3
  <2>6. 0 .. len \subseteq Good
    <3> HIDE DEF Good
    <3> QED BY <2>0, <2>4, <2>5, UpTo
  <2>7. f[len] \in Seq(S) BY <2>0, <2>6
  <2> QED BY <2>1, <2>7
<1> QED BY <1>1, <1>2

-----------------------------------------------------------------------------
\* What a path can be.
LEMMA NodeKinds ==
    /\ None \in Nodes /\ Dir \in Nodes /\ File \in Nodes /\ None # Dir /\ None # File
    /\ None.kind = "none" /\ Dir.kind = "dir" /\ File.kind = "file"
    /\ \A n \in Nodes : n.kind = "link" => n.to \in Paths
<1>1. /\ None.kind = "none" /\ Dir.kind = "dir" /\ File.kind = "file"
      /\ \A t \in Paths : Link(t).kind = "link" /\ Link(t).to = t
  BY DEF None, Dir, File, Link
<1>2. /\ None \in Nodes /\ Dir \in Nodes /\ File \in Nodes
  BY DEF Nodes
<1>3. None # Dir /\ None # File BY <1>1
<1>4. ASSUME NEW n \in Nodes, n.kind = "link" PROVE n.to \in Paths
  <2>1. PICK t \in Paths : n = Link(t) BY <1>1, <1>4 DEF Nodes
  <2> QED BY <1>1, <2>1
<1> QED BY <1>1, <1>2, <1>3, <1>4

\* The prefixes of a path are the paths it is below, and itself.
LEMMA PrefixSet ==
    ASSUME NEW p \in RawPaths
    PROVE  /\ Prefixes(p) \subseteq RawPaths
           /\ \A q \in RawPaths : q \in Prefixes(p) <=> IsPrefix(q, p)
           /\ p \in Prefixes(p)
<1>0. p \in Seq(Segments) /\ Len(p) \in Nat BY DEF RawPaths
<1>1. ASSUME NEW l \in 0 .. Len(p)
      PROVE  LET q == SubSeq(p, 1, l)
             IN  /\ q \in Seq(Segments) /\ Len(q) = l
                 /\ \A i \in 1 .. l : q[i] = p[i]
  <2>1. \A i \in 1 .. l : p[i] \in Segments
    BY <1>0, ElementOfSeq
  <2>2. /\ SubSeq(p, 1, l) \in Seq(Segments)
        /\ Len(SubSeq(p, 1, l)) = IF 1 <= l THEN l - 1 + 1 ELSE 0
        /\ \A i \in 1 .. l - 1 + 1 : SubSeq(p, 1, l)[i] = p[1 + i - 1]
    BY <1>0, <2>1, SubSeqProperties
  <2> QED BY <1>0, <2>2
<1>2. ASSUME NEW q \in RawPaths, q \in Prefixes(p) PROVE IsPrefix(q, p)
  <2>1. PICK l \in 0 .. Len(p) : q = SubSeq(p, 1, l) BY <1>2 DEF Prefixes
  <2>2. q \in Seq(Segments) /\ Len(q) = l /\ \A i \in 1 .. Len(q) : q[i] = p[i]
    BY <1>1, <2>1
  <2>3. Len(q) <= Len(p) BY <1>0, <2>2
  <2> QED BY <1>0, <2>2, <2>3, PrefixFields
<1>3. ASSUME NEW q \in RawPaths, IsPrefix(q, p) PROVE q \in Prefixes(p)
  <2>0. q \in Seq(Segments) /\ Len(q) \in Nat BY DEF RawPaths
  <2>1. Len(q) <= Len(p) /\ \A i \in 1 .. Len(q) : q[i] = p[i]
    BY <1>0, <1>3, <2>0, PrefixFields
  <2> DEFINE l == Len(q)
             r == SubSeq(p, 1, l)
  <2>2. l \in 0 .. Len(p) BY <1>0, <2>0, <2>1
  <2>3. r \in Seq(Segments) /\ Len(r) = l /\ \A i \in 1 .. l : r[i] = p[i]
    BY <1>1, <2>2
  <2>4. r \in Prefixes(p) BY <2>2 DEF Prefixes
  <2> HIDE DEF r
  <2>5. r = q BY <2>0, <2>1, <2>3, SeqEqual
  <2> QED BY <2>4, <2>5
<1>4. Prefixes(p) \subseteq RawPaths BY <1>1 DEF Prefixes, RawPaths
<1>5. IsPrefix(p, p) BY <1>0, PrefixOrder
<1> QED BY <1>2, <1>3, <1>4, <1>5

\* What is after a part of a path is a path.
LEMMA RestTyped ==
    ASSUME NEW p \in RawPaths, NEW n \in Nat
    PROVE  SubSeq(p, n + 1, Len(p)) \in RawPaths
<1>0. p \in Seq(Segments) /\ Len(p) \in Nat BY DEF RawPaths
<1>1. \A i \in n + 1 .. Len(p) : p[i] \in Segments
  <2>1. \A i \in 1 .. Len(p) : p[i] \in Segments BY <1>0, ElementOfSeq
  <2> QED BY <1>0, <2>1
<1>2. SubSeq(p, n + 1, Len(p)) \in Seq(Segments)
  BY <1>0, <1>1, SubSeqProperties
<1> QED BY <1>2 DEF RawPaths

\* Paths are closed under what the model makes of them.
LEMMA PathsTyped ==
    /\ Paths \subseteq RawPaths /\ << >> \in RawPaths
    /\ \A p, q \in RawPaths : p \o q \in RawPaths /\ IsPrefix(p, p \o q)
    /\ \A p \in RawPaths : Canonical(p) \in RawPaths /\ Canonical(p) \in PlainPaths
    /\ Visible \in RawPaths /\ Canonical(Visible) = Visible
<1>1. Paths \subseteq RawPaths BY SandboxAssumption DEF PlainPaths
<1>2. << >> \in RawPaths BY EmptySeq DEF RawPaths
<1>3. \A p, q \in RawPaths : p \o q \in RawPaths /\ IsPrefix(p, p \o q)
  BY PrefixBelow DEF RawPaths
<1>4. \A p \in RawPaths : Canonical(p) \in PlainPaths
  BY CanonicalIsPlain, SandboxAssumption DEF Canonical
<1>5. PlainPaths \subseteq RawPaths BY DEF PlainPaths
<1> QED BY <1>1, <1>2, <1>3, <1>4, <1>5, SandboxAssumption

\* Following a link leads to a path.
LEMMA FollowedTyped ==
    ASSUME NEW p \in RawPaths, NEW node \in [Prefixes(p) -> Nodes]
    PROVE  Followed(p, node) \in RawPaths
<1> DEFINE links == {q \in Prefixes(p) : node[q].kind = "link"}
           q == CHOOSE l \in links : TRUE
<1>1. CASE links = {} BY <1>1 DEF Followed
<1>2. CASE links # {}
  <2>1. q \in links BY <1>2
  <2>2. node[q].to \in Paths /\ q \in RawPaths BY <2>1, NodeKinds, PrefixSet
  <2>3. Len(q) \in Nat BY <2>2 DEF RawPaths
  <2> HIDE DEF q
  <2>4. node[q].to \o SubSeq(p, Len(q) + 1, Len(p)) \in RawPaths
    BY <2>2, <2>3, RestTyped, PathsTyped
  <2> QED BY <1>2, <2>4 DEF Followed, q
<1> QED BY <1>1, <1>2

\* Only links matter where a path leads.
LEMMA FollowedSame ==
    ASSUME NEW p, NEW old, NEW new, SameLinks(Prefixes(p), old, new)
    PROVE  Followed(p, new) = Followed(p, old)
<1> DEFINE links(node) == {q \in Prefixes(p) : node[q].kind = "link"}
<1>1. links(new) = links(old) BY DEF SameLinks
<1>2. CASE links(old) = {} BY <1>1, <1>2 DEF Followed
<1>3. CASE links(old) # {}
  <2> DEFINE q == CHOOSE l \in links(old) : TRUE
  <2>1. q \in links(old) BY <1>3
  <2>2. new[q] = old[q] BY <2>1 DEF SameLinks
  <2>3. q = CHOOSE l \in links(new) : TRUE BY <1>1
  <2>4. Followed(p, old) = old[q].to \o SubSeq(p, Len(q) + 1, Len(p))
    BY <1>3 DEF Followed
  <2>5. Followed(p, new) = new[q].to \o SubSeq(p, Len(q) + 1, Len(p))
    <3>1. links(new) # {} BY <1>1, <1>3
    <3>2. Followed(p, new) = LET l == CHOOSE l \in links(new) : TRUE
                             IN  new[l].to \o SubSeq(p, Len(l) + 1, Len(p))
      BY <3>1 DEF Followed
    <3> QED BY <2>3, <3>2
  <2> QED BY <2>2, <2>4, <2>5
<1> QED BY <1>2, <1>3

\* What is on the host, and where its links lead.
LEMMA HostTyped ==
    ASSUME NEW files \in [Paths -> Nodes], NEW p \in RawPaths
    PROVE  NodeOn(files, p) \in Nodes /\ RealOn(files, p) \in RawPaths
<1>1. \A q \in RawPaths : NodeOn(files, q) \in Nodes
  BY NodeKinds DEF NodeOn
<1>2. [q \in Prefixes(p) |-> NodeOn(files, q)] \in [Prefixes(p) -> Nodes]
  BY <1>1, PrefixSet
<1> QED BY <1>1, <1>2, FollowedTyped DEF RealOn

\* Directories that come and go do not change where the links of a host lead.
LEMMA RealSame ==
    ASSUME NEW old \in [Paths -> Nodes], NEW new \in [Paths -> Nodes],
           SameLinks(Paths, old, new), NEW p
    PROVE  RealOn(new, p) = RealOn(old, p)
<1> DEFINE nodes(files) == [q \in Prefixes(p) |-> NodeOn(files, q)]
<1>1. SameLinks(Prefixes(p), nodes(old), nodes(new))
  BY DEF SameLinks, NodeOn
<1>2. Followed(p, nodes(new)) = Followed(p, nodes(old))
  <2> HIDE DEF nodes
  <2> QED BY <1>1, FollowedSame
<1> QED BY <1>2 DEF RealOn

-----------------------------------------------------------------------------
\* The command line: every mount in it is one of a few.

\* A function on 1 .. n is a sequence.
LEMMA SequenceOf ==
    ASSUME NEW S, NEW n \in Nat, NEW f \in [1 .. n -> S]
    PROVE  f \in Seq(S) /\ Len(f) = n
OBVIOUS

LEMMA PairOf ==
    ASSUME NEW S, NEW a \in S, NEW b \in S
    PROVE  << a, b >> \in Seq(S) /\ Len(<< a, b >>) = 2
OBVIOUS

\* A sequence's elements are its range.
LEMMA RangeOf ==
    ASSUME NEW S, NEW s \in Seq(S)
    PROVE  /\ Len(s) \in Nat /\ DOMAIN s = 1 .. Len(s)
           /\ \A i \in 1 .. Len(s) : s[i] \in S /\ s[i] \in Range(s)
           /\ \A x \in Range(s) : x \in S /\ \E i \in 1 .. Len(s) : x = s[i]
BY LenProperties, ElementOfSeq DEF Range

\* The binds of a list whose sources and places are known.
LEMMA HostBindsIn ==
    ASSUME NEW S, NEW T, NEW binds \in Seq(T), NEW rw,
           \A b \in T : Bind("host", Canonical(b.src), b.dst, rw) \in S
    PROVE  HostBinds(binds, rw) \in Seq(S)
<1>1. /\ DOMAIN binds = 1 .. Len(binds) /\ Len(binds) \in Nat
      /\ \A i \in 1 .. Len(binds) : binds[i] \in T
  BY RangeOf
<1>2. HostBinds(binds, rw) \in [1 .. Len(binds) -> S]
  BY <1>1 DEF HostBinds
<1> QED BY <1>1, <1>2, SequenceOf

\* A bind that is not skipped.
Present(b) ==
    /\ HostNode(HostReal(b.src)) # None
    /\ HostReal(b.dst) # b.dst => HostNode(HostReal(b.dst)) # None

\* What is missing is skipped, links are resolved.
LEMMA OptionalBindsIn ==
    ASSUME NEW S, NEW binds \in Seq(Binds), NEW rw,
           \A b \in Range(binds) : Present(b) =>
              Bind("host", Canonical(HostReal(b.src)), HostReal(b.dst), rw) \in S
    PROVE  OptionalBinds(binds, rw) \in Seq(S)
<1> DEFINE real(b) == [src |-> HostReal(b.src), dst |-> HostReal(b.dst)]
           T == {real(b) : b \in {x \in Range(binds) : Present(x)}}
           ss == [i \in DOMAIN binds |-> Optional(binds[i])]
<1>1. DOMAIN binds = 1 .. Len(binds) /\ Len(binds) \in Nat
      /\ \A i \in 1 .. Len(binds) : binds[i] \in Range(binds)
  BY RangeOf
<1>2. ASSUME NEW b \in Range(binds) PROVE Optional(b) \in Seq(T)
  <2> DEFINE r == real(b)
  <2>1. Present(b) => r \in T OBVIOUS
  <2>2. \/ Optional(b) = << r >> /\ Present(b)
        \/ Optional(b) = << >>
    BY DEF Optional, Present
  <2> HIDE DEF r, real, T
  <2>3. r \in T => << r >> \in Seq(T) OBVIOUS
  <2> QED BY <2>1, <2>2, <2>3, EmptySeq
<1>3. ss \in Seq(Seq(T))
  <2>1. ss \in [1 .. Len(binds) -> Seq(T)]
    <3> HIDE DEF T
    <3> QED BY <1>1, <1>2
  <2> HIDE DEF ss, T
  <2> QED BY <1>1, <2>1, SequenceOf
<1>4. FlattenSeq(ss) \in Seq(T)
  <2> HIDE DEF ss, T
  <2> QED BY <1>3, FlattenElements
<1>5. ASSUME NEW b \in T PROVE Bind("host", Canonical(b.src), b.dst, rw) \in S
  <2>1. PICK c \in Range(binds) : b = real(c) /\ Present(c) OBVIOUS
  <2>2. b.src = HostReal(c.src) /\ b.dst = HostReal(c.dst) BY <2>1
  <2> HIDE DEF real, T, ss
  <2> QED BY <2>1, <2>2
<1>6. HostBinds(FlattenSeq(ss), rw) \in Seq(S)
  <2> HIDE DEF ss, T
  <2> QED BY <1>4, <1>5, HostBindsIn
<1> QED BY <1>6 DEF OptionalBinds

\* The state directories that links lead into are directories of the host.
LEMMA LinkedPaths ==
    ASSUME host \in [Paths -> Nodes], NEW t \in LinkedState
    PROVE  t \in Paths /\ t # << >> /\ Last(t) \in StateNames
<1>1. PICK x \in StateLinks : t \in TargetDirs(x[2]) BY DEF LinkedState
<1>2. x[2] \in Paths /\ host[x[2]].kind = "link" BY <1>1 DEF StateLinks
<1>3. host[x[2]].to \in Paths BY <1>2, NodeKinds
<1> QED BY <1>1, <1>3, SandboxAssumption DEF TargetDirs

\* A finite set as a sequence.
LEMMA AsSequence ==
    ASSUME NEW S, IsFiniteSet(S)
    PROVE  SetToSeq(S) \in Seq(S)
<1> DEFINE n == Cardinality(S)
<1>1. n \in Nat /\ ExistsBijection(1 .. n, S) BY FS_CardinalityType
<1>2. \E f \in [1 .. n -> S] : IsInjective(f)
  BY <1>1 DEF ExistsBijection, Bijection, Injection, IsInjective
<1>3. SetToSeq(S) \in [1 .. n -> S] BY <1>2 DEF SetToSeq
<1> HIDE DEF n
<1> QED BY <1>1, <1>3, SequenceOf

\* A sequence is one of what is in it.
LEMMA OwnRange ==
    ASSUME NEW S, NEW s \in Seq(S)
    PROVE  s \in Seq(Range(s))
<1>1. s \in [1 .. Len(s) -> Range(s)] /\ Len(s) \in Nat BY RangeOf
<1> QED BY <1>1, SequenceOf

\* The last mount of the command line.
PluginMount ==
    Bind("host", Canonical(HostReal(Plugin.src)), Plugin.sandbox_path, FALSE)

\* The parts of the command line after the views: the agent's state,
LEMMA SharedIn ==
    ASSUME host \in [Paths -> Nodes], NEW S,
           ~config.protect => \A b \in Range(StateBinds) : HostNode(HostReal(b.src)) # None =>
              Bind("host", Canonical(HostReal(b.src)), HostReal(b.dst), TRUE) \in S,
           ~config.protect => \A t \in LinkedState :
              Bind("host", Canonical(t), t, TRUE) \in S
    PROVE  SharedState \in Seq(S)
<1>1. CASE config.protect BY <1>1, EmptySeq DEF SharedState
<1>2. CASE ~config.protect
  <2> DEFINE linked == SetToSeq(LinkedState)
             same == [i \in DOMAIN linked |-> [src |-> linked[i], dst |-> linked[i]]]
             T == {[src |-> t, dst |-> t] : t \in LinkedState}
  <2>1. OptionalBinds(StateBinds, TRUE) \in Seq(S)
    BY <1>2, OptionalBindsIn, SandboxAssumption DEF Present
  <2>2. IsFiniteSet(LinkedState)
    BY LinkedPaths, SandboxAssumption, FS_Subset
  <2>3. linked \in Seq(LinkedState) BY <2>2, AsSequence
  <2>4. /\ DOMAIN linked = 1 .. Len(linked) /\ Len(linked) \in Nat
        /\ \A i \in 1 .. Len(linked) : linked[i] \in LinkedState
    <3> HIDE DEF linked
    <3> QED BY <2>3, RangeOf
  <2>5. same \in Seq(T)
    <3>1. same \in [1 .. Len(linked) -> T]
      <4> HIDE DEF linked
      <4> QED BY <2>4
    <3> HIDE DEF same, T, linked
    <3> QED BY <2>4, <3>1, SequenceOf
  <2>6. ASSUME NEW b \in T PROVE Bind("host", Canonical(b.src), b.dst, TRUE) \in S
    <3>1. PICK t \in LinkedState : b = [src |-> t, dst |-> t] OBVIOUS
    <3>2. b.src = t /\ b.dst = t BY <3>1
    <3> HIDE DEF T, same, linked
    <3> QED BY <1>2, <3>2
  <2>7. HostBinds(same, TRUE) \in Seq(S)
    <3> HIDE DEF same, T
    <3> QED BY <2>5, <2>6, HostBindsIn
  <2>8. SharedState = OptionalBinds(StateBinds, TRUE) \o HostBinds(same, TRUE)
    BY <1>2 DEF SharedState
  <2> HIDE DEF same
  <2> QED BY <2>1, <2>7, <2>8, ConcatProperties
<1> QED BY <1>1, <1>2

\* the masks,
LEMMA MasksIn ==
    ASSUME NEW S, \A m \in Range(Masks) : HostNode(HostReal(m)) # None =>
                     Bind("null", << >>, m, FALSE) \in S
    PROVE  MaskBinds \in Seq(S)
<1> DEFINE one(m) == IF HostNode(HostReal(m)) = None THEN << >>
                     ELSE << Bind("null", << >>, m, FALSE) >>
           ss == [i \in DOMAIN Masks |-> one(Masks[i])]
<1>1. ASSUME NEW m \in Range(Masks) PROVE one(m) \in Seq(S)
  <2> DEFINE b == Bind("null", << >>, m, FALSE)
  <2>1. HostNode(HostReal(m)) # None => b \in S OBVIOUS
  <2>2. (one(m) = << b >> /\ HostNode(HostReal(m)) # None) \/ one(m) = << >> OBVIOUS
  <2> HIDE DEF b, one
  <2>3. b \in S => << b >> \in Seq(S) OBVIOUS
  <2> QED BY <2>1, <2>2, <2>3, EmptySeq
<1>2. ss \in [1 .. Len(Masks) -> Seq(S)] /\ Len(Masks) \in Nat
  <2> HIDE DEF one
  <2> QED BY <1>1, RangeOf, SandboxAssumption
<1>3. MaskBinds = FlattenSeq(ss) BY DEF MaskBinds
<1> HIDE DEF ss
<1>4. ss \in Seq(Seq(S)) BY <1>2, SequenceOf
<1> QED BY <1>3, <1>4, FlattenElements

\* and the plugin, mounted last.
LEMMA PluginIn ==
    ASSUME NEW S, PluginThere => \A d \in Range(Plugin.ensure_dirs) : MakeDir(d) \in S,
           PluginThere => PluginMount \in S
    PROVE  /\ PluginBinds \in Seq(S)
           /\ PluginThere => PluginBinds # << >> /\ Last(PluginBinds) = PluginMount
<1> DEFINE mount == PluginMount
<1>1. CASE ~PluginThere BY <1>1, EmptySeq DEF PluginBinds
<1>2. CASE PluginThere
  <2> DEFINE dirs == [i \in DOMAIN Plugin.ensure_dirs |-> MakeDir(Plugin.ensure_dirs[i])]
  <2>1. /\ DOMAIN Plugin.ensure_dirs = 1 .. Len(Plugin.ensure_dirs)
        /\ Len(Plugin.ensure_dirs) \in Nat
        /\ \A i \in 1 .. Len(Plugin.ensure_dirs) :
              Plugin.ensure_dirs[i] \in Range(Plugin.ensure_dirs)
    BY RangeOf, SandboxAssumption
  <2>2. dirs \in [1 .. Len(Plugin.ensure_dirs) -> S] BY <1>2, <2>1
  <2>3. PluginBinds = dirs \o << mount >> BY <1>2 DEF PluginBinds, PluginMount
  <2> HIDE DEF dirs, mount
  <2>4. dirs \in Seq(S) BY <2>1, <2>2, SequenceOf
  <2>5. << mount >> \in Seq(S) /\ Len(<< mount >>) = 1 /\ << mount >>[1] = mount
    <3>1. mount \in S BY <1>2 DEF mount
    <3> QED BY <3>1
  <2>6. PluginBinds \in Seq(S) /\ Len(PluginBinds) = Len(dirs) + 1
        /\ PluginBinds[Len(dirs) + 1] = mount
    BY <2>3, <2>4, <2>5, ConcatProperties
  <2>7. PluginBinds # << >> /\ Last(PluginBinds) = mount BY <2>4, <2>6, EmptySeq DEF Last
  <2> QED BY <2>6, <2>7 DEF mount
<1> QED BY <1>1, <1>2

\* Every mount of the command line is of one of these kinds.
LEMMA CommandIn ==
    ASSUME host \in [Paths -> Nodes], NEW S,
           \A b \in Range(SystemDirs) : Bind("host", Canonical(b.src), b.dst, FALSE) \in S,
           \A i \in {1, 2} : Views[i] \in S,
           ~config.protect => \A b \in Range(StateBinds) : HostNode(HostReal(b.src)) # None =>
              Bind("host", Canonical(HostReal(b.src)), HostReal(b.dst), TRUE) \in S,
           ~config.protect => \A t \in LinkedState :
              Bind("host", Canonical(t), t, TRUE) \in S,
           \A b \in Range(RuntimeBinds) : HostNode(HostReal(b.src)) # None =>
              Bind("host", Canonical(HostReal(b.src)), HostReal(b.dst), FALSE) \in S,
           \A m \in Range(Masks) : Bind("null", << >>, m, FALSE) \in S,
           \A d \in Range(Plugin.ensure_dirs) : MakeDir(d) \in S,
           PluginThere => PluginMount \in S
    PROVE  /\ Command \in Seq(S)
           /\ Command # << >>
           /\ PluginThere => Last(Command) = PluginMount
<1> DEFINE system == HostBinds(SystemDirs, FALSE)
           runtime == OptionalBinds(RuntimeBinds, FALSE)
           mount == PluginMount
<1>0. /\ SystemDirs \in Seq(Binds) /\ StateBinds \in Seq(Binds)
      /\ RuntimeBinds \in Seq(Binds) /\ Masks \in Seq(RawPaths)
      /\ Plugin.src \in RawPaths /\ Plugin.sandbox_path \in RawPaths
      /\ Plugin.ensure_dirs \in Seq(RawPaths)
  BY SandboxAssumption
<1>1. system \in Seq(S)
  <2>1. SystemDirs \in Seq(Range(SystemDirs)) BY <1>0, OwnRange
  <2> QED BY <2>1, HostBindsIn
<1>2. Views \in Seq(S) /\ Len(Views) = 2
  <2>1. Views = << Views[1], Views[2] >> BY DEF Views
  <2>2. Views[1] \in S /\ Views[2] \in S OBVIOUS
  <2> QED BY <2>1, <2>2, PairOf
<1>3. SharedState \in Seq(S) BY SharedIn
<1>4. runtime \in Seq(S) BY <1>0, OptionalBindsIn DEF Present
<1>5. MaskBinds \in Seq(S) BY MasksIn
<1>7. /\ PluginBinds \in Seq(S)
      /\ PluginThere => PluginBinds # << >> /\ Last(PluginBinds) = mount
  BY PluginIn
<1> DEFINE before == system \o Views \o SharedState \o runtime \o MaskBinds
<1>8. before \in Seq(S) /\ before # << >> /\ Command = before \o PluginBinds
  <2> HIDE DEF system, runtime
  <2>4. before \in Seq(S) /\ Len(before) = Len(system) + Len(Views) + Len(SharedState)
                                              + Len(runtime) + Len(MaskBinds)
    <3> HIDE DEF system, runtime, mount
    <3> DEFINE two == system \o Views
               three == two \o SharedState
               four == three \o runtime
               five == four \o MaskBinds
    <3>0. five = before OBVIOUS
    <3>1. two \in Seq(S) /\ Len(two) = Len(system) + Len(Views)
      BY <1>1, <1>2, ConcatProperties
    <3> HIDE DEF before, two
    <3>2. three \in Seq(S) /\ Len(three) = Len(two) + Len(SharedState)
      BY <1>3, <3>1, ConcatProperties
    <3> HIDE DEF three
    <3>3. four \in Seq(S) /\ Len(four) = Len(three) + Len(runtime)
      BY <1>4, <3>2, ConcatProperties
    <3> HIDE DEF four
    <3>4. five \in Seq(S) /\ Len(five) = Len(four) + Len(MaskBinds)
      BY <1>5, <3>3, ConcatProperties
    <3> HIDE DEF five
    <3> QED BY <3>0, <3>1, <3>2, <3>3, <3>4
  <2>5. /\ Len(system) \in Nat /\ Len(SharedState) \in Nat /\ Len(runtime) \in Nat
        /\ Len(MaskBinds) \in Nat
    BY <1>1, <1>3, <1>4, <1>5, LenProperties
  <2>6. before # << >> BY <1>2, <2>4, <2>5, EmptySeq
  <2>7. Command = before \o PluginBinds BY DEF Command, system, runtime
  <2> QED BY <2>4, <2>6, <2>7
<1> HIDE DEF before, mount
<1>9. /\ Command \in Seq(S) /\ Len(Command) = Len(before) + Len(PluginBinds)
      /\ Len(before) \in Nat \ {0} /\ Len(PluginBinds) \in Nat
      /\ PluginBinds # << >> => Len(PluginBinds) # 0
  BY <1>7, <1>8, ConcatProperties, EmptySeq
<1>10. ASSUME PluginThere PROVE Last(Command) = mount
  <2>1. /\ Len(Command) \in 1 .. Len(before) + Len(PluginBinds)
        /\ ~(Len(Command) <= Len(before))
        /\ Len(Command) - Len(before) = Len(PluginBinds)
    BY <1>7, <1>9, <1>10
  <2>2. Command[Len(Command)] = PluginBinds[Len(PluginBinds)]
    BY <1>7, <1>8, <2>1, ConcatProperties
  <2> QED BY <1>7, <1>10, <2>2 DEF Last
<1>11. Command # << >> BY <1>9, EmptySeq
<1> QED BY <1>9, <1>10, <1>11 DEF mount

-----------------------------------------------------------------------------
\* The sandbox.

\* The fields of a place.
LEMMA PlaceFields ==
    ASSUME NEW place, NEW via, NEW rw, NEW path,
           place = [via |-> via, rw |-> rw, path |-> path]
    PROVE  place.via = via /\ place.rw = rw /\ place.path = path
OBVIOUS

\* A set of numbers up to a bound has a largest one.
LEMMA LargestNumber ==
    ASSUME NEW len \in Nat, NEW S \in SUBSET (1 .. len), S # {}
    PROVE  Max(S) \in S /\ \A i \in S : i <= Max(S)
<1> DEFINE away == {n \in Nat : \E i \in S : n = len - i}
<1>1. \A i \in S : i \in 1 .. len /\ len - i \in Nat OBVIOUS
<1>2. away \in SUBSET Nat /\ away # {} BY <1>1
<1>3. PICK n \in away : \A k \in away : n <= k
  <2> HIDE DEF away
  <2> QED BY <1>2, LeastNumber
<1>4. PICK m \in S : n = len - m BY <1>3
<1>5. ASSUME NEW j \in S PROVE m >= j
  <2>1. len - j \in away BY <1>1
  <2>2. n <= len - j BY <1>3, <2>1
  <2> HIDE DEF away
  <2> QED BY <1>1, <1>4, <2>2
<1> DEFINE top == Max(S)
<1>6. top \in S /\ \A i \in S : top >= i BY <1>5 DEF Max
<1> HIDE DEF top
<1>7. \A i \in S : i <= top BY <1>1, <1>6
<1> QED BY <1>6, <1>7 DEF top

\* A mount that is topmost over a path.
TopMount(i, p) ==
    /\ i \in 1 .. Len(table) /\ IsPrefix(table[i].dst, p)
    /\ \A j \in 1 .. Len(table) : IsPrefix(table[j].dst, p) => j <= i

\* A path of the sandbox leads into the topmost mount over it, or nowhere.
LEMMA PlaceCases ==
    ASSUME NEW S, table \in Seq(S), NEW p
    PROVE  \/ /\ \A i \in 1 .. Len(table) : ~IsPrefix(table[i].dst, p)
              /\ Place(p) = [via |-> "root", path |-> p, rw |-> TRUE]
           \/ \E i \in 1 .. Len(table) :
                 /\ TopMount(i, p)
                 /\ Place(p) = [via |-> table[i].via, rw |-> table[i].rw,
                                path |-> table[i].path
                                            \o SubSeq(p, Len(table[i].dst) + 1, Len(p))]
<1> DEFINE len == Len(table)
           over == {i \in DOMAIN table : IsPrefix(table[i].dst, p)}
<1>1. len \in Nat /\ DOMAIN table = 1 .. len BY LenProperties
<1>2. CASE over = {}
  <2>1. Place(p) = [via |-> "root", path |-> p, rw |-> TRUE]
    BY <1>2 DEF Place
  <2> QED BY <1>1, <1>2, <2>1
<1>3. CASE over # {}
  <2> HIDE DEF len
  <2>7. over \subseteq 1 .. len BY <1>1
  <2> DEFINE top == Max(over)
  <2>8. top \in over /\ \A j \in over : j <= top
    <3> HIDE DEF over
    <3> QED BY <1>1, <1>3, <2>7, LargestNumber
  <2>9. Place(p) = [via |-> table[top].via, rw |-> table[top].rw,
                    path |-> table[top].path
                                \o SubSeq(p, Len(table[top].dst) + 1, Len(p))]
    BY <1>3 DEF Place
  <2> HIDE DEF top
  <2>10. TopMount(top, p)
    <3>1. top \in 1 .. Len(table) /\ IsPrefix(table[top].dst, p)
      BY <1>1, <2>8 DEF len
    <3>2. ASSUME NEW j \in 1 .. Len(table), IsPrefix(table[j].dst, p) PROVE j <= top
      <4>1. j \in over BY <1>1, <3>2 DEF len
      <4> QED BY <2>8, <4>1
    <3> QED BY <3>1, <3>2 DEF TopMount
  <2> QED BY <2>9, <2>10 DEF TopMount
<1> QED BY <1>2, <1>3

\* The mounts the model makes: the view is the root's and what is below it.
ViewMounts == {m \in Mounts : m.via = "view" => IsPrefix(Visible, m.path)}

\* A path of the sandbox leads to a path, in the view to one at or below the root.
LEMMA PlaceTyped ==
    ASSUME table \in Seq(ViewMounts), NEW p \in RawPaths
    PROVE  /\ Place(p).path \in RawPaths
           /\ Place(p).via = "view" => IsPrefix(Visible, Place(p).path)
<1>1. CASE Place(p) = [via |-> "root", path |-> p, rw |-> TRUE] BY <1>1
<1>2. CASE \E i \in 1 .. Len(table) :
              /\ TopMount(i, p)
              /\ Place(p) = [via |-> table[i].via, rw |-> table[i].rw,
                             path |-> table[i].path
                                         \o SubSeq(p, Len(table[i].dst) + 1, Len(p))]
  <2>1. PICK i \in 1 .. Len(table) :
              Place(p) = [via |-> table[i].via, rw |-> table[i].rw,
                          path |-> table[i].path
                                      \o SubSeq(p, Len(table[i].dst) + 1, Len(p))]
    BY <1>2
  <2> DEFINE m == table[i]
             rest == SubSeq(p, Len(m.dst) + 1, Len(p))
  <2>2. m \in ViewMounts BY ElementOfSeq
  <2>3. Place(p).via = m.via /\ Place(p).path = m.path \o rest
    <3>1. Place(p) = [via |-> m.via, rw |-> m.rw, path |-> m.path \o rest] BY <2>1
    <3> HIDE DEF m, rest
    <3> QED BY <3>1
  <2> HIDE DEF m
  <2>4. m.path \in RawPaths /\ m.dst \in RawPaths BY <2>2 DEF ViewMounts, Mounts
  <2>5. Len(m.dst) \in Nat BY <2>4 DEF RawPaths
  <2>6. rest \in RawPaths BY <2>5, RestTyped
  <2> HIDE DEF rest
  <2>7. m.path \o rest \in RawPaths /\ IsPrefix(m.path, m.path \o rest)
    BY <2>4, <2>6, PathsTyped
  <2>8. ASSUME m.via = "view" PROVE IsPrefix(Visible, m.path \o rest)
    <3>1. IsPrefix(Visible, m.path) BY <2>2, <2>8 DEF ViewMounts
    <3>2. Visible \in RawPaths BY PathsTyped
    <3> QED BY <2>4, <2>7, <3>1, <3>2, PrefixOrder DEF RawPaths
  <2> QED BY <2>3, <2>7, <2>8
<1> QED BY <1>1, <1>2, PlaceCases

\* What is at a path of the sandbox.
LEMMA NodeTyped ==
    ASSUME host \in [Paths -> Nodes], NEW place
    PROVE  NodeAt(place) \in Nodes
BY NodeKinds DEF NodeAt

LEMMA RealTyped ==
    ASSUME host \in [Paths -> Nodes], NEW p \in RawPaths
    PROVE  SandboxReal(p) \in RawPaths
<1>1. [q \in Prefixes(p) |-> SandboxNode(q)] \in [Prefixes(p) -> Nodes]
  BY NodeTyped DEF SandboxNode
<1> QED BY <1>1, FollowedTyped DEF SandboxReal

\* What is missing at a path is missing: nothing is there, and in the view it is
\* below the root.
LEMMA MissingPlaces ==
    ASSUME host \in [Paths -> Nodes], host[Visible] = Dir,
           table \in Seq(ViewMounts), NEW p \in RawPaths, NEW m \in Missing(p)
    PROVE  /\ NodeAt(m) = None
           /\ m.via = "view" => IsStrictPrefix(Visible, m.path)
<1>1. PICK q \in Prefixes(p) : m = Place(q) /\ SandboxNode(q) = None
  BY DEF Missing
<1>2. q \in RawPaths BY PrefixSet
<1>3. NodeAt(m) = None BY <1>1 DEF SandboxNode
<1>4. ASSUME m.via = "view" PROVE IsStrictPrefix(Visible, m.path)
  <2>1. IsPrefix(Visible, m.path) BY <1>1, <1>2, <1>4, PlaceTyped
  <2>2. m.path # Visible
    <3>1. SUFFICES ASSUME m.path = Visible PROVE FALSE OBVIOUS
    <3>2. Visible \in Paths BY SandboxAssumption
    <3>3. NodeAt(m) = IF m.path \in made THEN Dir
                      ELSE IF m.path \in Paths THEN host[m.path] ELSE None
      BY <1>4 DEF NodeAt
    <3>4. NodeAt(m) = Dir BY <3>1, <3>2, <3>3
    <3> QED BY <1>3, <3>4, NodeKinds
  <2> QED BY <2>1, <2>2 DEF IsStrictPrefix
<1> QED BY <1>3, <1>4

\* Directories are made where nothing is; links are never made or removed, on the
\* host and in what a place of the sandbox holds.
LEMMA MakesGrows ==
    ASSUME host \in [Paths -> Nodes], host[Visible] = Dir,
           table \in Seq(ViewMounts), NEW p \in RawPaths,
           \A q \in made : IsStrictPrefix(Visible, q),
           Makes(Missing(p))
    PROVE  /\ host' \in [Paths -> Nodes]
           /\ \A q \in Paths :
                 host'[q] = host[q]
                 \/ /\ host[q] = None /\ host'[q] = Dir
                    /\ \E m \in Missing(p) : m.via = "host" /\ m.path = q
           /\ \A q \in made' : IsStrictPrefix(Visible, q)
           /\ \A place : \/ NodeAt(place)' = NodeAt(place)
                         \/ NodeAt(place) = None /\ NodeAt(place)' = Dir
<1>1. /\ made' = made \cup {m.path : m \in {n \in Missing(p) : n.via = "view"}}
      /\ host' = [q \in Paths |-> IF \E m \in Missing(p) : m.via = "host" /\ m.path = q
                                  THEN Dir ELSE host[q]]
  BY DEF Makes
<1>2. host' \in [Paths -> Nodes] BY <1>1, NodeKinds
<1>3. ASSUME NEW m \in Missing(p)
      PROVE  /\ m.via = "host" /\ m.path \in Paths => host[m.path] = None
             /\ m.via = "view" => IsStrictPrefix(Visible, m.path)
             /\ NodeAt(m) = None
  BY MissingPlaces DEF NodeAt
<1>4. ASSUME NEW q \in Paths
      PROVE  host'[q] = host[q]
             \/ /\ host[q] = None /\ host'[q] = Dir
                /\ \E m \in Missing(p) : m.via = "host" /\ m.path = q
  BY <1>1, <1>3
<1>5. \A q \in made' : IsStrictPrefix(Visible, q)
  BY <1>1, <1>3
<1>6. ASSUME NEW place
      PROVE  NodeAt(place)' = NodeAt(place) \/ (NodeAt(place) = None /\ NodeAt(place)' = Dir)
  <2>1. CASE place.via = "view" /\ place.path \in made' \ made
    <3>1. PICK m \in Missing(p) : m.via = "view" /\ m.path = place.path
      BY <1>1, <2>1
    <3>2. NodeAt(m) = None BY <1>3
    <3>3. NodeAt(place) = None BY <2>1, <3>1, <3>2 DEF NodeAt
    <3>4. NodeAt(place)' = Dir BY <2>1 DEF NodeAt
    <3> QED BY <3>3, <3>4
  <2>2. CASE ~(place.via = "view" /\ place.path \in made' \ made)
    <3>1. place.path \in made => place.path \in made' BY <1>1
    <3>2. CASE place.via = "view" /\ place.path \in made
      BY <3>1, <3>2 DEF NodeAt
    <3>3. CASE place.via \in {"root", "null"}
      BY <3>3 DEF NodeAt
    <3>4. CASE /\ place.via \notin {"root", "null"}
               /\ ~(place.via = "view" /\ place.path \in made)
      <4>1. /\ NodeAt(place) = IF place.path \in Paths THEN host[place.path] ELSE None
            /\ NodeAt(place)' = IF place.path \in Paths THEN host'[place.path] ELSE None
        BY <2>2, <3>4 DEF NodeAt
      <4> QED BY <1>4, <4>1
    <3> QED BY <3>2, <3>3, <3>4
  <2> QED BY <2>1, <2>2
<1> QED BY <1>2, <1>4, <1>5, <1>6

-----------------------------------------------------------------------------
\* Types.

\* A bind between two paths is a mount; it is one of the view's only if it says so.
LEMMA BindTyped ==
    ASSUME NEW path \in RawPaths, NEW dst \in RawPaths, NEW rw \in BOOLEAN
    PROVE  /\ Bind("host", path, dst, rw) \in ViewMounts
           /\ Bind("null", path, dst, rw) \in ViewMounts
           /\ IsPrefix(Visible, path) => Bind("view", path, dst, rw) \in ViewMounts
           /\ MakeDir(dst) \in ViewMounts
<1>1. ASSUME NEW via \in {"view", "host", "null"}
      PROVE  Bind(via, path, dst, rw) \in Mounts /\ Bind(via, path, dst, rw).via = via
             /\ Bind(via, path, dst, rw).path = path
  BY DEF Bind, Mounts
<1>2. MakeDir(dst) \in Mounts /\ MakeDir(dst).via = "none"
  BY PathsTyped DEF MakeDir, Mounts
<1> QED BY <1>1, <1>2 DEF ViewMounts

\* The binds of the agent's state, resolved on the host.
LEMMA StateBindsTyped ==
    ASSUME host \in [Paths -> Nodes], NEW b \in Range(StateBinds)
    PROVE  /\ b.src \in RawPaths /\ b.dst \in RawPaths
           /\ HostReal(b.src) \in RawPaths /\ HostReal(b.dst) \in RawPaths
           /\ Canonical(HostReal(b.src)) \in RawPaths
<1>1. b \in Binds BY RangeOf, SandboxAssumption
<1>2. b.src \in RawPaths /\ b.dst \in RawPaths BY <1>1 DEF Binds
<1> QED BY <1>2, HostTyped, PathsTyped DEF HostReal

\* The views are mounted as the root's, and what is below it.
LEMMA ViewsTyped == \A i \in {1, 2} : Views[i] \in ViewMounts
<1>1. IsPrefix(Visible, Visible) BY PathsTyped, PrefixOrder DEF RawPaths
<1>2. Home \in RawPaths /\ HomeSubdir \in RawPaths BY SandboxAssumption
<1>3. Visible \o HomeSubdir \in RawPaths /\ IsPrefix(Visible, Visible \o HomeSubdir)
  BY <1>2, PathsTyped
<1>4. Bind("view", Visible, Canonical(Visible), TRUE) \in ViewMounts
  BY <1>1, BindTyped, PathsTyped
<1>5. Bind("view", Visible \o HomeSubdir, Home, TRUE) \in ViewMounts
  BY <1>2, <1>3, BindTyped
<1>6. /\ Views[1] = Bind("view", Visible, Canonical(Visible), TRUE)
      /\ Views[2] = Bind("view", Visible \o HomeSubdir, Home, TRUE)
  BY DEF Views
<1> QED BY <1>4, <1>5, <1>6

\* The command line is made of mounts, and ends with the plugin's.
LEMMA CommandTyped ==
    ASSUME host \in [Paths -> Nodes]
    PROVE  /\ Command \in Seq(ViewMounts) /\ Command # << >>
           /\ PluginThere => Last(Command) = PluginMount
<1>0. /\ \A b \in Range(SystemDirs) : b \in Binds
      /\ \A b \in Range(RuntimeBinds) : b \in Binds
      /\ \A m \in Range(Masks) : m \in RawPaths
      /\ \A d \in Range(Plugin.ensure_dirs) : d \in RawPaths
  BY RangeOf, SandboxAssumption
<1>1. \A b \in Range(SystemDirs) :
         Bind("host", Canonical(b.src), b.dst, FALSE) \in ViewMounts
  BY <1>0, BindTyped, PathsTyped DEF Binds
<1>2. \A i \in {1, 2} : Views[i] \in ViewMounts BY ViewsTyped
<1>3. \A b \in Range(StateBinds) :
         Bind("host", Canonical(HostReal(b.src)), HostReal(b.dst), TRUE) \in ViewMounts
  BY BindTyped, StateBindsTyped
<1>4. \A t \in LinkedState : Bind("host", Canonical(t), t, TRUE) \in ViewMounts
  BY BindTyped, LinkedPaths, PathsTyped
<1>5. \A b \in Range(RuntimeBinds) :
         Bind("host", Canonical(HostReal(b.src)), HostReal(b.dst), FALSE) \in ViewMounts
  BY <1>0, BindTyped, HostTyped, PathsTyped DEF Binds, HostReal
<1>6. \A m \in Range(Masks) : Bind("null", << >>, m, FALSE) \in ViewMounts
  BY <1>0, BindTyped, PathsTyped
<1>7. \A d \in Range(Plugin.ensure_dirs) : MakeDir(d) \in ViewMounts
  BY <1>0, BindTyped, PathsTyped
<1>8. PluginMount \in ViewMounts
  BY BindTyped, HostTyped, PathsTyped, SandboxAssumption DEF PluginMount, HostReal
<1> QED BY <1>1, <1>2, <1>3, <1>4, <1>5, <1>6, <1>7, <1>8, CommandIn

\* What a session ignores is below the root, and not the root.
LEMMA IgnoresInside ==
    ASSUME host \in [Paths -> Nodes]
    PROVE  \A t \in SessionIgnores : IsStrictPrefix(Visible, t)
<1>0. Canonical(Visible) = Visible /\ Visible \in RawPaths BY PathsTyped
<1>1. \A t : Inside(t) <=> IsStrictPrefix(Visible, t) BY <1>0 DEF Inside
<1>2. ASSUME NEW t \in RuntimeIgnores PROVE IsStrictPrefix(Visible, t)
  BY <1>1 DEF RuntimeIgnores
<1>3. ASSUME NEW mount \in RawPaths, NEW t \in InfraIgnores(mount)
      PROVE  IsStrictPrefix(Visible, t)
  <2> DEFINE target == Canonical(mount)
  <2>0. target \in RawPaths BY PathsTyped
  <2>1. CASE ~Inside(target) BY <2>1 DEF InfraIgnores
  <2>2. CASE Inside(target) /\ InStateHome(target)
    <3>1. t = target BY <2>2 DEF InfraIgnores
    <3> QED BY <1>1, <2>2, <3>1
  <2>3. CASE Inside(target) /\ ~InStateHome(target)
    <3>1. t \in Prefixes(target) /\ (t = target \/ IsStrictPrefix(Canonical(Home), t))
      BY <2>3 DEF InfraIgnores
    <3>2. CASE t = target BY <1>1, <2>3, <3>2
    <3>3. CASE IsStrictPrefix(Canonical(Home), t)
      <4>1. t \in RawPaths BY <2>0, <3>1, PrefixSet
      <4>2. /\ Canonical(Home) = Visible \o HomeSubdir
            /\ HomeSubdir \in RawPaths
        BY SandboxAssumption
      <4>3. /\ IsPrefix(Visible, Canonical(Home)) /\ Canonical(Home) \in RawPaths
        BY <1>0, <4>2, PathsTyped
      <4>4. IsPrefix(Canonical(Home), t) /\ Canonical(Home) # t
        BY <3>3 DEF IsStrictPrefix
      <4>5. IsPrefix(Visible, t) /\ Visible # t
        BY <1>0, <4>1, <4>3, <4>4, PrefixOrder DEF RawPaths
      <4> QED BY <4>5 DEF IsStrictPrefix
    <3> QED BY <3>1, <3>2, <3>3
  <2> QED BY <2>1, <2>2, <2>3
<1>4. ASSUME NEW b \in Range(RuntimeBinds), NEW o \in Range(Optional(b))
      PROVE  o.dst \in RawPaths
  <2>1. b \in Binds BY RangeOf, SandboxAssumption
  <2>2. b.dst \in RawPaths BY <2>1 DEF Binds
  <2>3. HostReal(b.dst) \in RawPaths BY <2>2, HostTyped DEF HostReal
  <2> DEFINE real == [src |-> HostReal(b.src), dst |-> HostReal(b.dst)]
  <2>4. Optional(b) = << real >> \/ Optional(b) = << >> BY DEF Optional
  <2>5. real.dst = HostReal(b.dst) OBVIOUS
  <2> HIDE DEF real
  <2>6. o = real BY <2>4 DEF Range
  <2> QED BY <2>3, <2>5, <2>6
<1>5. \A m \in Range(Masks) : m \in RawPaths BY RangeOf, SandboxAssumption
<1>6. \A d \in PluginDirs : d \in RawPaths
  BY RangeOf, SandboxAssumption DEF PluginDirs
<1>7. ASSUME NEW t \in SessionIgnores, t \notin RuntimeIgnores
      PROVE  \E m \in RawPaths : t \in InfraIgnores(m)
  BY <1>4, <1>5, <1>6, <1>7 DEF SessionIgnores
<1> QED BY <1>2, <1>3, <1>7

\* The state is that of a configuration, with directories made and removed.
OfConfig ==
    \E c \in Configs : /\ config = [protect |-> c.protect, ensure |-> c.ensure]
                       /\ SameLinks(Paths, c.host, host)

\* The invariant: the types, the root that stays, and what is mounted.
SandboxInv ==
    /\ TypeOK
    /\ host[Visible] = Dir
    /\ table \in Seq(ViewMounts) /\ todo \in Seq(ViewMounts)
    /\ phase = "launching" => todo # << >>
    /\ OfConfig

LEMMA SandboxStart == Init => SandboxInv
<1> SUFFICES ASSUME Init PROVE SandboxInv OBVIOUS
<1>1. PICK c \in Configs : /\ host = c.host
                           /\ config = [protect |-> c.protect, ensure |-> c.ensure]
  BY DEF Init
<1>2. /\ c.host \in [Paths -> Nodes] /\ c.host[Visible] = Dir
      /\ c.protect \in BOOLEAN /\ c.ensure \in BOOLEAN
  BY SandboxAssumption
<1>3. host \in [Paths -> Nodes] /\ host[Visible] = Dir BY <1>1, <1>2
<1>4. config \in [protect : BOOLEAN, ensure : BOOLEAN] BY <1>1, <1>2
<1>5. << >> \in Seq(Mounts) /\ << >> \in Seq(ViewMounts) BY EmptySeq
<1>6. 0 \in 0 .. MaxChanges /\ 0 \in 0 .. MaxResumes BY SandboxAssumption
<1>7. TypeOK BY <1>3, <1>4, <1>5, <1>6 DEF Init, TypeOK
<1>8. OfConfig BY <1>1 DEF OfConfig, SameLinks
<1> QED BY <1>3, <1>5, <1>7, <1>8 DEF Init, SandboxInv

\* Links stay those of the configuration while directories come and go.
LEMMA LinksKept ==
    ASSUME OfConfig, host \in [Paths -> Nodes], UNCHANGED config,
           \A q \in Paths : \/ host'[q] = host[q]
                            \/ host[q] \in {None, Dir} /\ host'[q] \in {None, Dir}
    PROVE  OfConfig'
<1>1. PICK c \in Configs : /\ config = [protect |-> c.protect, ensure |-> c.ensure]
                           /\ SameLinks(Paths, c.host, host)
  BY DEF OfConfig
<1>2. SameLinks(Paths, c.host, host')
  <2> SUFFICES ASSUME NEW q \in Paths, c.host[q].kind = "link" \/ host'[q].kind = "link"
               PROVE  host'[q] = c.host[q]
    BY DEF SameLinks
  <2>1. host[q] \in {None, Dir} => host[q].kind # "link" BY NodeKinds
  <2>2. host'[q] \in {None, Dir} => host'[q].kind # "link" BY NodeKinds
  <2>3. c.host[q].kind = "link" \/ host[q].kind = "link" => host[q] = c.host[q]
    BY <1>1 DEF SameLinks
  <2> QED BY <2>1, <2>2, <2>3
<1>3. config' = [protect |-> c.protect, ensure |-> c.ensure] BY <1>1
<1> QED BY <1>2, <1>3 DEF OfConfig

\* A mount that is made has the place it is made at.
LEMMA MountedAt ==
    ASSUME NEW m \in ViewMounts, NEW dst \in RawPaths
    PROVE  /\ [m EXCEPT !.dst = dst] \in ViewMounts
           /\ [m EXCEPT !.dst = dst].via = m.via
           /\ [m EXCEPT !.dst = dst].path = m.path
           /\ [m EXCEPT !.dst = dst].dst = dst
           /\ [m EXCEPT !.dst = dst].rw = m.rw
<1>1. m \in Mounts BY DEF ViewMounts
<1>2. /\ [m EXCEPT !.dst = dst] \in Mounts
      /\ [m EXCEPT !.dst = dst].via = m.via /\ [m EXCEPT !.dst = dst].path = m.path
  BY <1>1 DEF Mounts
<1>3. [m EXCEPT !.dst = dst].dst = dst BY <1>1 DEF Mounts
<1>4. [m EXCEPT !.dst = dst].rw = m.rw BY <1>1 DEF Mounts
<1> QED BY <1>1, <1>2, <1>3, <1>4 DEF ViewMounts

LEMMA SandboxStep == SandboxInv /\ [Next]_vars => SandboxInv'
<1> SUFFICES ASSUME SandboxInv, [Next]_vars PROVE SandboxInv' OBVIOUS
<1>0. /\ TypeOK /\ OfConfig /\ host[Visible] = Dir /\ host \in [Paths -> Nodes]
      /\ table \in Seq(ViewMounts) /\ todo \in Seq(ViewMounts)
      /\ phase = "launching" => todo # << >>
      /\ \A q \in made : IsStrictPrefix(Visible, q)
  BY DEF SandboxInv, TypeOK
<1>m. \A s : s \in Seq(ViewMounts) => s \in Seq(Mounts)
  <2>1. ViewMounts \subseteq Mounts BY DEF ViewMounts
  <2> QED BY <2>1, SeqMonotonic
<1>1. CASE CreateSession
  <2>1. \A t \in ignore' : IsStrictPrefix(Visible, t)
    BY <1>0, <1>1, IgnoresInside DEF CreateSession
  <2>2. TypeOK' BY <1>0, <1>1, <2>1 DEF TypeOK, CreateSession
  <2>3. OfConfig' BY <1>0, <1>1 DEF OfConfig, CreateSession
  <2> QED BY <1>0, <1>1, <2>2, <2>3 DEF SandboxInv, CreateSession
<1>2. CASE Prepare
  <2>1. /\ host' \in [Paths -> Nodes]
        /\ \A q \in Paths : host'[q] = host[q] \/ (host[q] = None /\ host'[q] = Dir)
    BY <1>0, <1>2, NodeKinds DEF Prepare
  <2>2. host'[Visible] = Dir
    BY <1>0, <2>1, SandboxAssumption
  <2>3. TypeOK' BY <1>0, <1>2, <2>1 DEF TypeOK, Prepare
  <2>4. OfConfig' BY <1>0, <1>2, <2>1, LinksKept DEF Prepare
  <2> QED BY <1>0, <1>2, <2>2, <2>3, <2>4 DEF SandboxInv, Prepare
<1>3. CASE Launch
  <2>1. todo' \in Seq(ViewMounts) /\ todo' # << >>
    BY <1>0, <1>3, CommandTyped DEF Launch
  <2>2. TypeOK' BY <1>0, <1>3, <1>m, <2>1 DEF TypeOK, Launch
  <2>3. OfConfig' BY <1>0, <1>3 DEF OfConfig, Launch
  <2> QED BY <1>0, <1>3, <2>1, <2>2, <2>3 DEF SandboxInv, Launch
<1>4. CASE MountNext
  <2> DEFINE op == Head(todo)
             dst == SandboxReal(op.dst)
  <2>1. op \in ViewMounts /\ Tail(todo) \in Seq(ViewMounts)
        /\ Len(Tail(todo)) = Len(todo) - 1 /\ Len(todo) \in Nat
    BY <1>0, <1>4, HeadTailProperties DEF MountNext
  <2>2. op.dst \in RawPaths BY <2>1 DEF ViewMounts, Mounts
  <2>3. dst \in RawPaths BY <1>0, <2>2, RealTyped
  <2>4. Makes(Missing(dst)) BY <1>4 DEF MountNext
  <2>5. /\ host' \in [Paths -> Nodes]
        /\ \A q \in Paths : host'[q] = host[q] \/ (host[q] = None /\ host'[q] = Dir)
        /\ \A q \in made' : IsStrictPrefix(Visible, q)
    BY <1>0, <2>3, <2>4, MakesGrows
  <2>6. host'[Visible] = Dir BY <1>0, <2>5, SandboxAssumption
  <2>7. table' = table \/ table' = Append(table, [op EXCEPT !.dst = dst])
    BY <1>4 DEF MountNext
  <2>8. [op EXCEPT !.dst = dst] \in ViewMounts BY <2>1, <2>3, MountedAt
  <2> HIDE DEF op, dst
  <2>9. table' \in Seq(ViewMounts) BY <1>0, <2>7, <2>8
  <2>10. todo' = Tail(todo) /\ phase' = IF Len(todo) = 1 THEN "running" ELSE phase
    BY <1>4 DEF MountNext
  <2>11. ASSUME phase' = "launching" PROVE todo' # << >>
    <3>1. Len(todo) # 1 BY <2>10, <2>11
    <3>2. todo # << >> BY <1>0, <1>4 DEF MountNext
    <3>3. Len(todo) \in Nat \ {0} BY <1>0, <3>2, EmptySeq
    <3>4. Len(todo') # 0 BY <2>1, <2>10, <3>1, <3>3
    <3> QED BY <3>4, EmptySeq
  <2>12. TypeOK' BY <1>0, <1>4, <1>m, <2>1, <2>5, <2>9, <2>10 DEF TypeOK, MountNext
  <2>13. OfConfig' BY <1>0, <1>4, <2>5, LinksKept DEF MountNext
  <2> QED BY <2>1, <2>6, <2>9, <2>10, <2>11, <2>12, <2>13 DEF SandboxInv
<1>5. CASE MountFails
  <2>1. TypeOK' BY <1>0, <1>5 DEF TypeOK, MountFails
  <2>2. OfConfig' BY <1>0, <1>5 DEF OfConfig, MountFails
  <2> QED BY <1>0, <1>5, <2>1, <2>2 DEF SandboxInv, MountFails
<1>6. CASE Resume
  <2>1. << >> \in Seq(ViewMounts) /\ << >> \in Seq(Mounts) BY EmptySeq
  <2>2. resumes' \in 0 .. MaxResumes
    BY <1>0, <1>6, SandboxAssumption DEF TypeOK, Resume
  <2>3. TypeOK' BY <1>0, <1>6, <2>1, <2>2 DEF TypeOK, Resume
  <2>4. OfConfig' BY <1>0, <1>6 DEF OfConfig, Resume
  <2> QED BY <1>0, <1>6, <2>1, <2>3, <2>4 DEF SandboxInv, Resume
<1>7. ASSUME NEW p \in RuntimeState, KeepState(p) PROVE SandboxInv'
  <2> DEFINE dst == SandboxReal(p)
  <2>1. p \in RawPaths BY SandboxAssumption
  <2>2. dst \in RawPaths BY <1>0, <2>1, RealTyped
  <2>3. Makes(Missing(dst)) BY <1>7 DEF KeepState
  <2>4. /\ host' \in [Paths -> Nodes]
        /\ \A q \in Paths : host'[q] = host[q] \/ (host[q] = None /\ host'[q] = Dir)
        /\ \A q \in made' : IsStrictPrefix(Visible, q)
    BY <1>0, <2>2, <2>3, MakesGrows
  <2>5. host'[Visible] = Dir BY <1>0, <2>4, SandboxAssumption
  <2>6. TypeOK' BY <1>0, <1>7, <2>4 DEF TypeOK, KeepState
  <2>7. OfConfig' BY <1>0, <1>7, <2>4, LinksKept DEF KeepState
  <2> QED BY <1>0, <1>7, <2>5, <2>6, <2>7 DEF SandboxInv, KeepState
<1>8. ASSUME NEW p \in Fickle, HostChanges(p) PROVE SandboxInv'
  <2>1. p \in Paths /\ p # Visible BY SandboxAssumption
  <2>2. \/ host[p] = None /\ host' = [host EXCEPT ![p] = Dir]
        \/ host[p] = Dir /\ host' = [host EXCEPT ![p] = None]
    BY <1>8 DEF HostChanges
  <2>3. /\ host' \in [Paths -> Nodes]
        /\ \A q \in Paths : \/ host'[q] = host[q]
                            \/ host[q] \in {None, Dir} /\ host'[q] \in {None, Dir}
    BY <1>0, <2>1, <2>2, NodeKinds
  <2>4. host'[Visible] = Dir BY <1>0, <2>1, <2>2, SandboxAssumption
  <2>5. changes' \in 0 .. MaxChanges
    BY <1>0, <1>8, SandboxAssumption DEF TypeOK, HostChanges
  <2>6. TypeOK' BY <1>0, <1>8, <2>3, <2>5 DEF TypeOK, HostChanges
  <2>7. OfConfig' BY <1>0, <1>8, <2>3, LinksKept DEF HostChanges
  <2> QED BY <1>0, <1>8, <2>4, <2>6, <2>7 DEF SandboxInv, HostChanges
<1>9. CASE UNCHANGED vars
  <2>1. TypeOK' BY <1>0, <1>9 DEF TypeOK, vars
  <2>2. OfConfig' BY <1>0, <1>9 DEF OfConfig, vars
  <2> QED BY <1>0, <1>9, <2>1, <2>2 DEF SandboxInv, vars
<1> QED BY <1>1, <1>2, <1>3, <1>4, <1>5, <1>6, <1>7, <1>8, <1>9 DEF Next

LEMMA SandboxAlways == Spec => []SandboxInv
BY SandboxStart, SandboxStep, PTL DEF Spec

\* Type correctness: what a session ignores and what bwrap makes in the branch is
\* below the root and never the root itself (_infra_ignore_paths_for(), MountNext),
\* so that no launch can make a session ignore everything.
THEOREM TypeCorrect == Spec => []TypeOK
<1>1. SandboxInv => TypeOK BY DEF SandboxInv
<1> QED BY <1>1, SandboxAlways, PTL

-----------------------------------------------------------------------------
\* What leads to the host.

\* Where the host's links lead is what the configuration says.
LEMMA RealOfConfig ==
    ASSUME OfConfig, host \in [Paths -> Nodes]
    PROVE  \E c \in Configs : /\ config.protect = c.protect
                              /\ SameLinks(Paths, c.host, host)
                              /\ \A p : HostReal(p) = RealOn(c.host, p)
<1>1. PICK c \in Configs : /\ config = [protect |-> c.protect, ensure |-> c.ensure]
                           /\ SameLinks(Paths, c.host, host)
  BY DEF OfConfig
<1>2. c.host \in [Paths -> Nodes] BY SandboxAssumption
<1>3. \A p : HostReal(p) = RealOn(c.host, p)
  BY <1>1, <1>2, RealSame DEF HostReal
<1>4. config.protect = c.protect BY <1>1
<1> QED BY <1>1, <1>3, <1>4

\* What is below the agent's state is the agent's state.
LEMMA StateBelow ==
    ASSUME NEW path \in RawPaths, NEW rest \in RawPaths, StatePath(path)
    PROVE  StatePath(path \o rest)
<1>1. PICK q \in Prefixes(path) \ {<< >>} :
         Last(q) \in StateNames \/ q \in {Canonical(f) : f \in StateFiles}
  BY DEF StatePath
<1>2. q \in RawPaths /\ IsPrefix(q, path) BY <1>1, PrefixSet
<1>3. path \o rest \in RawPaths /\ IsPrefix(path, path \o rest) BY PathsTyped
<1>4. IsPrefix(q, path \o rest) BY <1>2, <1>3, PrefixOrder DEF RawPaths
<1>5. q \in Prefixes(path \o rest) BY <1>2, <1>3, <1>4, PrefixSet
<1> QED BY <1>1, <1>5 DEF StatePath

\* Mounts that lead, writable, to nothing of the host but the agent's state.
StateMounts ==
    {m \in ViewMounts : m.via = "host" /\ m.rw => ~config.protect /\ StatePath(m.path)}

\* The command line is made of those.
LEMMA CommandShares ==
    ASSUME StateKept, SandboxInv
    PROVE  Command \in Seq(StateMounts)
<1>0. host \in [Paths -> Nodes] /\ OfConfig BY DEF SandboxInv, TypeOK
<1>a. ASSUME NEW path \in RawPaths, NEW dst \in RawPaths
      PROVE  /\ Bind("host", path, dst, FALSE) \in StateMounts
             /\ Bind("null", path, dst, FALSE) \in StateMounts
             /\ MakeDir(dst) \in StateMounts
             /\ ~config.protect /\ StatePath(path) => Bind("host", path, dst, TRUE) \in StateMounts
  <2>1. /\ Bind("host", path, dst, FALSE).rw = FALSE
        /\ Bind("host", path, dst, TRUE).path = path
        /\ Bind("null", path, dst, FALSE).via = "null"
        /\ MakeDir(dst).via = "none"
    BY DEF Bind, MakeDir
  <2> QED BY <2>1, BindTyped DEF StateMounts
<1>b. /\ \A b \in Range(SystemDirs) : b \in Binds
      /\ \A b \in Range(RuntimeBinds) : b \in Binds
      /\ \A m \in Range(Masks) : m \in RawPaths
      /\ \A d \in Range(Plugin.ensure_dirs) : d \in RawPaths
  BY RangeOf, SandboxAssumption
<1>1. \A b \in Range(SystemDirs) :
         Bind("host", Canonical(b.src), b.dst, FALSE) \in StateMounts
  BY <1>a, <1>b, PathsTyped DEF Binds
<1>2. \A i \in {1, 2} : Views[i] \in StateMounts
  <2>1. Views[1].via = "view" /\ Views[2].via = "view" BY DEF Views, Bind
  <2>2. Views[1] \in ViewMounts /\ Views[2] \in ViewMounts BY ViewsTyped
  <2> QED BY <2>1, <2>2 DEF StateMounts
<1>3. ASSUME ~config.protect, NEW b \in Range(StateBinds)
      PROVE  Bind("host", Canonical(HostReal(b.src)), HostReal(b.dst), TRUE) \in StateMounts
  <2>1. PICK c \in Configs : /\ config.protect = c.protect
                             /\ \A p : HostReal(p) = RealOn(c.host, p)
    BY <1>0, RealOfConfig
  <2>2. StatePath(Canonical(RealOn(c.host, b.src))) BY <1>3, <2>1 DEF StateKept
  <2>3. StatePath(Canonical(HostReal(b.src))) BY <2>1, <2>2
  <2> QED BY <1>0, <1>3, <1>a, <2>3, StateBindsTyped
<1>4. ASSUME ~config.protect, NEW t \in LinkedState
      PROVE  Bind("host", Canonical(t), t, TRUE) \in StateMounts
  <2>1. t \in Paths /\ t # << >> /\ Last(t) \in StateNames BY <1>0, LinkedPaths
  <2>2. t \in RawPaths /\ Canonical(t) = t BY <2>1, PathsTyped, SandboxAssumption
  <2>3. t \in Prefixes(t) BY <2>2, PrefixSet
  <2>4. StatePath(t) BY <2>1, <2>3 DEF StatePath
  <2> QED BY <1>4, <1>a, <2>2, <2>4
<1>5. \A b \in Range(RuntimeBinds) :
         Bind("host", Canonical(HostReal(b.src)), HostReal(b.dst), FALSE) \in StateMounts
  BY <1>0, <1>a, <1>b, HostTyped, PathsTyped DEF Binds, HostReal
<1>6. \A m \in Range(Masks) : Bind("null", << >>, m, FALSE) \in StateMounts
  BY <1>a, <1>b, PathsTyped
<1>7. \A d \in Range(Plugin.ensure_dirs) : MakeDir(d) \in StateMounts
  BY <1>a, <1>b, PathsTyped
<1>8. PluginMount \in StateMounts
  BY <1>0, <1>a, HostTyped, PathsTyped, SandboxAssumption DEF PluginMount, HostReal
<1> QED BY <1>0, <1>1, <1>2, <1>3, <1>4, <1>5, <1>6, <1>7, <1>8, CommandIn

\* The invariant: all that is mounted, or will be.
StateInv ==
    /\ SandboxInv
    /\ table \in Seq(StateMounts) /\ todo \in Seq(StateMounts)

LEMMA StateStep ==
    ASSUME StateKept
    PROVE  StateInv /\ [Next]_vars => StateInv'
<1> SUFFICES ASSUME StateInv, [Next]_vars PROVE StateInv' OBVIOUS
<1>0. SandboxInv /\ SandboxInv' BY SandboxStep DEF StateInv
<1>1. config' = config
  BY DEF Next, CreateSession, Prepare, Launch, MountNext, MountFails, Resume, KeepState,
         HostChanges, vars
<1>2. StateMounts' = StateMounts BY <1>1 DEF StateMounts
<1>3. table \in Seq(StateMounts) /\ todo \in Seq(StateMounts) BY DEF StateInv
<1>4. table' \in Seq(StateMounts) /\ todo' \in Seq(StateMounts)
  <2>1. CASE Launch
    <3>1. todo' \in Seq(StateMounts) BY <1>0, <2>1, CommandShares DEF Launch
    <3> QED BY <1>3, <2>1, <3>1 DEF Launch
  <2>2. CASE MountNext
    <3> DEFINE op == Head(todo)
               dst == SandboxReal(op.dst)
    <3>1. todo # << >> /\ host \in [Paths -> Nodes]
      BY <1>0, <2>2 DEF SandboxInv, TypeOK, MountNext
    <3>2. op \in StateMounts /\ Tail(todo) \in Seq(StateMounts)
      BY <1>3, <3>1, HeadTailProperties
    <3>3. op \in ViewMounts /\ op.dst \in RawPaths
      BY <3>2 DEF StateMounts, ViewMounts, Mounts
    <3>4. dst \in RawPaths BY <3>1, <3>3, RealTyped
    <3>5. table' = table \/ table' = Append(table, [op EXCEPT !.dst = dst])
      BY <2>2 DEF MountNext
    <3>6. todo' = Tail(todo) BY <2>2 DEF MountNext
    <3> HIDE DEF op, dst
    <3> DEFINE m == [op EXCEPT !.dst = dst]
    <3>7. m \in ViewMounts /\ m.via = op.via /\ m.path = op.path /\ m.rw = op.rw
      BY <3>3, <3>4, MountedAt
    <3> HIDE DEF m
    <3>8. m \in StateMounts BY <3>2, <3>7 DEF StateMounts
    <3>9. table' \in Seq(StateMounts)
      <4>1. table' = table \/ table' = Append(table, m) BY <3>5 DEF m
      <4> QED BY <1>3, <3>8, <4>1
    <3> QED BY <3>2, <3>6, <3>9
  <2>3. CASE Resume
    <3>1. << >> \in Seq(StateMounts) BY EmptySeq
    <3> QED BY <2>3, <3>1 DEF Resume
  <2>4. CASE ~(Launch \/ MountNext \/ Resume)
    <3>1. table' = table /\ todo' = todo
      BY <2>4 DEF Next, CreateSession, Prepare, MountFails, KeepState, HostChanges, vars
    <3> QED BY <1>3, <3>1
  <2> QED BY <2>1, <2>2, <2>3, <2>4
<1> QED BY <1>0, <1>2, <1>4 DEF StateInv

\* A path that leads to the host, writable, leads into the agent's state.
LEMMA PlaceShared ==
    ASSUME StateInv, NEW p \in RawPaths, Place(p).via = "host", Place(p).rw
    PROVE  ~config.protect /\ StatePath(Place(p).path)
<1>0. table \in Seq(StateMounts) BY DEF StateInv
<1>a. Place(p) # [via |-> "root", path |-> p, rw |-> TRUE]
  <2> SUFFICES ASSUME Place(p) = [via |-> "root", path |-> p, rw |-> TRUE] PROVE FALSE
    OBVIOUS
  <2>1. Place(p).via = "root" OBVIOUS
  <2> QED BY <2>1
<1>1. PICK i \in 1 .. Len(table) :
         Place(p) = [via |-> table[i].via, rw |-> table[i].rw,
                     path |-> table[i].path \o SubSeq(p, Len(table[i].dst) + 1, Len(p))]
  BY <1>0, <1>a, PlaceCases
<1> DEFINE m == table[i]
           rest == SubSeq(p, Len(m.dst) + 1, Len(p))
<1>2. m \in StateMounts BY <1>0, ElementOfSeq
<1>3. Place(p).via = m.via /\ Place(p).rw = m.rw /\ Place(p).path = m.path \o rest
  <2>1. Place(p) = [via |-> m.via, rw |-> m.rw, path |-> m.path \o rest] BY <1>1
  <2> HIDE DEF m, rest
  <2>2. Place(p).via = m.via /\ Place(p).path = m.path \o rest BY <2>1
  <2>3. Place(p).rw = m.rw
    <3> DEFINE place == Place(p)
               path == m.path \o rest
    <3>1. place = [via |-> m.via, rw |-> m.rw, path |-> path] BY <2>1
    <3> HIDE DEF place, path
    <3>2. place.rw = m.rw BY ONLY <3>1, PlaceFields, Zenon
    <3> QED BY ONLY <3>2 DEF place
  <2> QED BY <2>2, <2>3
<1> HIDE DEF m
<1>4. /\ ~config.protect /\ StatePath(m.path)
      /\ m.path \in RawPaths /\ m.dst \in RawPaths
  BY <1>2, <1>3 DEF StateMounts, ViewMounts, Mounts
<1>5. Len(m.dst) \in Nat BY <1>4 DEF RawPaths
<1>6. rest \in RawPaths BY <1>5, RestTyped
<1> HIDE DEF rest
<1>7. StatePath(m.path \o rest) BY <1>4, <1>6, StateBelow
<1> QED BY <1>3, <1>4, <1>7

\* Nothing of the real storage is writable in the sandbox but the agent's state,
\* whatever links there are, through resumes, and whatever directories others make
\* and remove while the supervisor resolves and bwrap mounts
\* (_append_shared_agent_state_binds(), _bwrap_command()): what the agent writes
\* elsewhere goes to the branch.
THEOREM OnlyStateIsBypassed ==
    ASSUME StateKept
    PROVE  Spec => []OnlyStateBypasses
<1>1. Init => StateInv
  <2> SUFFICES ASSUME Init PROVE StateInv OBVIOUS
  <2>1. << >> \in Seq(StateMounts) BY EmptySeq
  <2> QED BY <2>1, SandboxStart DEF Init, StateInv
<1>2. StateInv /\ [Next]_vars => StateInv' BY StateStep
<1>3. StateInv => OnlyStateBypasses
  <2> SUFFICES ASSUME StateInv,
                      NEW p \in Paths \cup {AtHome(q) : q \in {r \in Paths :
                                                  IsPrefix(Canonical(Home), r)}},
                      Place(p).via = "host", Place(p).rw
               PROVE  ~config.protect /\ StatePath(Place(p).path)
    BY DEF OnlyStateBypasses
  <2>1. Home \in RawPaths /\ Canonical(Home) \in RawPaths
    BY SandboxAssumption, PathsTyped
  <2>2. Len(Canonical(Home)) \in Nat BY <2>1 DEF RawPaths
  <2>3. \A q \in Paths : AtHome(q) \in RawPaths
    BY <2>1, <2>2, RestTyped, PathsTyped DEF AtHome
  <2>4. p \in RawPaths BY <2>3, PathsTyped
  <2> QED BY <2>4, PlaceShared
<1> QED BY <1>1, <1>2, <1>3, PTL DEF Spec

-----------------------------------------------------------------------------
\* The plugin.

\* The plugin's mount as it was made.
PluginMounted ==
    [PluginMount EXCEPT !.dst = SandboxReal(Plugin.sandbox_path)]

\* The invariant: while nobody else changes the host the plugin is what is mounted
\* last, where its place leads.
PluginInv ==
    (Undisturbed /\ PluginThere) =>
       /\ phase = "launching" => Last(todo) = PluginMount
       /\ phase = "running" => table # << >> /\ Last(table) = PluginMounted

\* The plugin's source, its place and its mount are typed.
LEMMA PluginTyped ==
    ASSUME host \in [Paths -> Nodes]
    PROVE  /\ Plugin.src \in RawPaths /\ Plugin.sandbox_path \in RawPaths
           /\ Canonical(HostReal(Plugin.src)) \in RawPaths
           /\ PluginMount \in ViewMounts
           /\ SandboxReal(Plugin.sandbox_path) \in RawPaths
<1>1. Plugin.src \in RawPaths /\ Plugin.sandbox_path \in RawPaths
  BY SandboxAssumption
<1>2. HostReal(Plugin.src) \in RawPaths BY <1>1, HostTyped DEF HostReal
<1>3. Canonical(HostReal(Plugin.src)) \in RawPaths BY <1>2, PathsTyped
<1>4. PluginMount \in ViewMounts BY <1>1, <1>3, BindTyped DEF PluginMount
<1> QED BY <1>1, <1>3, <1>4, RealTyped

\* Directories that are made to mount on never make the plugin's source, and never
\* take it away: on the host they are made in the agent's state.
LEMMA PluginStays ==
    ASSUME PluginApart, StateInv, NEW p \in RawPaths, Makes(Missing(p)),
           \A m \in Missing(p) : m.rw
    PROVE  /\ HostReal(Plugin.src)' = HostReal(Plugin.src)
           /\ PluginThere' <=> PluginThere
<1>0. /\ SandboxInv /\ OfConfig /\ host[Visible] = Dir /\ host \in [Paths -> Nodes]
      /\ table \in Seq(ViewMounts) /\ \A q \in made : IsStrictPrefix(Visible, q)
  BY DEF StateInv, SandboxInv, TypeOK
<1>1. /\ host' \in [Paths -> Nodes]
      /\ \A q \in Paths :
            host'[q] = host[q]
            \/ /\ host[q] = None /\ host'[q] = Dir
               /\ \E m \in Missing(p) : m.via = "host" /\ m.path = q
  BY <1>0, MakesGrows
<1>2. SameLinks(Paths, host, host') BY <1>1, NodeKinds DEF SameLinks
<1> DEFINE real == HostReal(Plugin.src)
           k == Canonical(real)
<1>3. HostReal(Plugin.src)' = real
  BY <1>0, <1>1, <1>2, RealSame DEF HostReal
<1>4. /\ PluginThere <=> k \in Paths /\ host[k] = Dir
      /\ PluginThere' <=> k \in Paths /\ host'[k] = Dir
  <2>1. /\ PluginThere <=> NodeOn(host, real) = Dir
        /\ PluginThere' <=> NodeOn(host', real) = Dir
    BY <1>3 DEF PluginThere, HostNode
  <2> HIDE DEF real
  <2> QED BY <2>1, NodeKinds DEF NodeOn
<1>5. ASSUME k \in Paths, host'[k] = Dir PROVE host[k] = Dir
  <2>1. SUFFICES ASSUME host[k] # Dir PROVE FALSE OBVIOUS
  <2>2. PICK m \in Missing(p) : m.via = "host" /\ m.path = k
    BY <1>1, <1>5, <2>1
  <2>3. PICK q \in Prefixes(p) : m = Place(q) BY <2>2 DEF Missing
  <2>4. q \in RawPaths BY PrefixSet
  <2>5. m.rw OBVIOUS
  <2>6. ~config.protect /\ StatePath(k)
    <3>1. Place(q).via = "host" /\ Place(q).rw /\ Place(q).path = k
      BY <2>2, <2>3, <2>5
    <3> QED BY <2>4, <3>1, PlaceShared
  <2>7. PICK c \in Configs : /\ config.protect = c.protect
                             /\ \A q_1 : HostReal(q_1) = RealOn(c.host, q_1)
    BY <1>0, RealOfConfig
  <2>8. k = Canonical(RealOn(c.host, Plugin.src)) BY <2>7
  <2> HIDE DEF k
  <2> QED BY <2>6, <2>7, <2>8 DEF PluginApart
<1>6. k \in Paths /\ host[k] = Dir => host'[k] = Dir BY <1>1
<1> QED BY <1>3, <1>4, <1>5, <1>6

\* Where a path of the sandbox leads stays as directories are made.
LEMMA RealStays ==
    ASSUME SandboxInv, NEW p \in RawPaths, Makes(Missing(p)), UNCHANGED table, NEW q
    PROVE  SandboxReal(q)' = SandboxReal(q)
<1>0. /\ host[Visible] = Dir /\ host \in [Paths -> Nodes]
      /\ table \in Seq(ViewMounts) /\ \A r \in made : IsStrictPrefix(Visible, r)
  BY DEF SandboxInv, TypeOK
<1>1. \A place : \/ NodeAt(place)' = NodeAt(place)
                 \/ NodeAt(place) = None /\ NodeAt(place)' = Dir
  BY <1>0, MakesGrows
<1>2. \A r : Place(r)' = Place(r) BY DEF Place
<1> DEFINE old == [r \in Prefixes(q) |-> SandboxNode(r)]
           new == [r \in Prefixes(q) |-> SandboxNode(r)']
<1>3. ASSUME NEW r \in Prefixes(q)
      PROVE  new[r] = old[r] \/ (old[r] = None /\ new[r] = Dir)
  <2>1. PICK place : place = Place(r) OBVIOUS
  <2>2. Place(r)' = place BY <1>2, <2>1
  <2>3. SandboxNode(r) = NodeAt(place) BY <2>1 DEF SandboxNode
  <2>4. SandboxNode(r)' = NodeAt(place)' BY <2>2 DEF SandboxNode, NodeAt
  <2> QED BY <1>1, <2>3, <2>4
<1>4. SameLinks(Prefixes(q), old, new)
  <2> HIDE DEF old, new
  <2> QED BY <1>3, NodeKinds DEF SameLinks
<1>5. Followed(q, new) = Followed(q, old)
  <2> HIDE DEF old, new
  <2> QED BY <1>4, FollowedSame
<1> QED BY <1>5 DEF SandboxReal

\* The last mount is the topmost one over what it is mounted over.
LEMMA LastIsTop ==
    ASSUME NEW s \in Seq(ViewMounts), s # << >>, NEW p, IsPrefix(Last(s).dst, p)
    PROVE  LET over == {i \in DOMAIN s : IsPrefix(s[i].dst, p)}
           IN  over # {} /\ Max(over) = Len(s)
<1> DEFINE over == {i \in DOMAIN s : IsPrefix(s[i].dst, p)}
<1>1. Len(s) \in Nat \ {0} /\ DOMAIN s = 1 .. Len(s) BY EmptySeq, LenProperties
<1>2. Len(s) \in over /\ over \subseteq 1 .. Len(s) BY <1>1 DEF Last
<1> HIDE DEF over
<1>3. Max(over) \in over /\ \A i \in over : i <= Max(over)
  BY <1>1, <1>2, LargestNumber
<1>4. Max(over) \in 1 .. Len(s) /\ Len(s) <= Max(over) BY <1>2, <1>3
<1>5. Max(over) = Len(s) BY <1>1, <1>4
<1> QED BY <1>2, <1>5 DEF over

\* A mount somewhere else does not change where a path leads.
LEMMA PlaceAppend ==
    ASSUME NEW S, table \in Seq(S), NEW m, table' = Append(table, m),
           NEW p, ~IsPrefix(m.dst, p)
    PROVE  Place(p)' = Place(p)
<1> DEFINE over(t) == {i \in DOMAIN t : IsPrefix(t[i].dst, p)}
<1>1. Len(table) \in Nat /\ DOMAIN table = 1 .. Len(table) BY LenProperties
<1>2. /\ DOMAIN table' = 1 .. Len(table) + 1
      /\ \A i \in 1 .. Len(table) : table'[i] = table[i]
      /\ table'[Len(table) + 1] = m
  BY <1>1
<1>3. over(table') = over(table)
  <2>1. ASSUME NEW i \in over(table') PROVE i \in over(table)
    <3>1. i \in 1 .. Len(table) + 1 /\ IsPrefix(table'[i].dst, p) BY <1>2
    <3>2. i # Len(table) + 1 BY <1>2, <3>1
    <3>3. i \in 1 .. Len(table) BY <1>1, <3>1, <3>2
    <3> QED BY <1>1, <1>2, <3>1, <3>3
  <2>2. ASSUME NEW i \in over(table) PROVE i \in over(table')
    <3>1. i \in 1 .. Len(table) /\ IsPrefix(table[i].dst, p) BY <1>1
    <3>2. i \in 1 .. Len(table) + 1 BY <1>1, <3>1
    <3> QED BY <1>2, <3>1, <3>2
  <2> HIDE DEF over
  <2> QED BY <2>1, <2>2
<1>4. CASE over(table) = {} BY <1>3, <1>4 DEF Place
<1>5. CASE over(table) # {}
  <2> DEFINE top == Max(over(table))
  <2>1. ASSUME NEW i \in over(table) PROVE table'[i] = table[i] BY <1>1, <1>2
  <2>2. over(table) \subseteq 1 .. Len(table) BY <1>1
  <2>3. top \in over(table)
    <3> HIDE DEF over
    <3> QED BY <1>1, <1>5, <2>2, LargestNumber
  <2>4. Place(p) = [via |-> table[top].via, rw |-> table[top].rw,
                    path |-> table[top].path
                                \o SubSeq(p, Len(table[top].dst) + 1, Len(p))]
    BY <1>5 DEF Place
  <2>5. Place(p)' = [via |-> table'[top].via, rw |-> table'[top].rw,
                     path |-> table'[top].path
                                 \o SubSeq(p, Len(table'[top].dst) + 1, Len(p))]
    BY <1>3, <1>5 DEF Place
  <2>6. table'[top] = table[top] BY <2>1, <2>3
  <2> HIDE DEF top
  <2> QED BY <2>4, <2>5, <2>6
<1> QED BY <1>4, <1>5

\* Mounting the plugin where its place leads does not change where it leads: no
\* link leads to a directory its place is in.
LEMMA PluginInPlace ==
    ASSUME PluginApart, StateInv, PluginThere,
           table' = Append(table, PluginMounted),
           Makes(Missing(SandboxReal(Plugin.sandbox_path)))
    PROVE  SandboxReal(Plugin.sandbox_path)' = SandboxReal(Plugin.sandbox_path)
<1> DEFINE sp == Plugin.sandbox_path
           dst == SandboxReal(sp)
           m == PluginMounted
           k == Canonical(HostReal(Plugin.src))
           old == [r \in Prefixes(sp) |-> SandboxNode(r)]
           new == [r \in Prefixes(sp) |-> SandboxNode(r)']
           links == {r \in Prefixes(sp) : old[r].kind = "link"}
<1>0. /\ SandboxInv /\ OfConfig /\ host[Visible] = Dir /\ host \in [Paths -> Nodes]
      /\ table \in Seq(ViewMounts) /\ \A q \in made : IsStrictPrefix(Visible, q)
  BY DEF StateInv, SandboxInv, TypeOK
<1>1. sp \in RawPaths /\ dst \in RawPaths /\ k \in RawPaths /\ PluginMount \in ViewMounts
  BY <1>0, PluginTyped
<1>2. /\ \A q \in Paths : host'[q] = host[q] \/ (host[q] = None /\ host'[q] = Dir)
      /\ \A place : \/ NodeAt(place)' = NodeAt(place)
                    \/ NodeAt(place) = None /\ NodeAt(place)' = Dir
  BY <1>0, <1>1, MakesGrows
<1>3. k \in Paths /\ host[k] = Dir
  BY NodeKinds DEF PluginThere, HostNode, NodeOn
<1>4. /\ m \in ViewMounts /\ m.dst = dst /\ m.via = "host" /\ m.path = k
  <2>1. /\ m \in ViewMounts /\ m.dst = dst
        /\ m.via = PluginMount.via /\ m.path = PluginMount.path
    BY <1>1, MountedAt DEF PluginMounted
  <2> QED BY <2>1 DEF PluginMount, Bind
<1>5. \A r \in Prefixes(sp) : r \in RawPaths /\ IsPrefix(r, sp) BY <1>1, PrefixSet
<1>6. ASSUME NEW r \in Prefixes(sp), ~IsPrefix(dst, r)
      PROVE  new[r] = old[r] \/ (old[r] = None /\ new[r] = Dir)
  <2>1. PICK place : place = Place(r) OBVIOUS
  <2>2. Place(r)' = place BY <1>0, <1>4, <1>6, <2>1, PlaceAppend
  <2>3. SandboxNode(r) = NodeAt(place) BY <2>1 DEF SandboxNode
  <2>4. SandboxNode(r)' = NodeAt(place)' BY <2>2 DEF SandboxNode, NodeAt
  <2> QED BY <1>2, <2>3, <2>4
<1>7. CASE links = {}
  <2>1. dst = sp BY <1>7 DEF SandboxReal, Followed
  <2>2. ASSUME NEW r \in Prefixes(sp), IsPrefix(dst, r) PROVE new[r] = Dir
    <3>1. r = sp BY <1>1, <1>5, <2>1, <2>2, PrefixOrder DEF RawPaths
    <3>2. Place(sp)' = [via |-> m.via, rw |-> m.rw,
                        path |-> m.path \o SubSeq(sp, Len(m.dst) + 1, Len(sp))]
      <4> HIDE DEF m
      <4>1. /\ table' \in Seq(ViewMounts) /\ Len(table') = Len(table) + 1
            /\ Len(table) \in Nat /\ table'[Len(table) + 1] = m
        BY <1>0, <1>4 DEF m
      <4>2. table' # << >> /\ Last(table') = m /\ table'[Len(table')] = m
        BY <4>1, EmptySeq DEF Last
      <4>3. IsPrefix(m.dst, sp) BY <1>1, <1>4, <2>1, PrefixOrder DEF RawPaths
      <4> DEFINE over == {i \in DOMAIN table' : IsPrefix(table'[i].dst, sp)}
      <4>4. over # {} /\ Max(over) = Len(table')
        BY <4>1, <4>2, <4>3, LastIsTop
      <4> QED BY <4>2, <4>4 DEF Place
    <3>3. SubSeq(sp, Len(m.dst) + 1, Len(sp)) = << >>
      <4>1. Len(sp) \in Nat BY <1>1 DEF RawPaths
      <4>2. m.dst = sp BY <1>4, <2>1
      <4> HIDE DEF m, sp
      <4> QED BY <4>1, <4>2, SubSeqEmpty
    <3>4. m.path \o << >> = k
      <4>1. k \o << >> = k BY <1>1, ConcatEmptySeq DEF RawPaths
      <4> QED BY <1>4, <4>1
    <3>5. PICK place : place = Place(sp)' OBVIOUS
    <3>6. place.via = "host" /\ place.path = k
      <4>1. place = [via |-> m.via, rw |-> m.rw, path |-> k]
        BY <3>2, <3>3, <3>4, <3>5
      <4> HIDE DEF m, k
      <4> QED BY <1>4, <4>1
    <3>7. SandboxNode(sp)' = host'[k]
      BY <1>3, <3>5, <3>6 DEF SandboxNode, NodeAt
    <3>8. host'[k] = Dir BY <1>2, <1>3
    <3> QED BY <3>1, <3>7, <3>8
  <2>3. SameLinks(Prefixes(sp), old, new)
    <3>1. \A r \in Prefixes(sp) : old[r].kind # "link" BY <1>7
    <3>2. \A r \in Prefixes(sp) : new[r].kind # "link"
      <4> TAKE r \in Prefixes(sp)
      <4>1. new[r] = old[r] \/ new[r] = Dir BY <1>6, <2>2
      <4> HIDE DEF new, old
      <4> QED BY <3>1, <4>1, NodeKinds
    <3> HIDE DEF new, old
    <3> QED BY <3>1, <3>2 DEF SameLinks
  <2> QED BY <2>3, FollowedSame DEF SandboxReal
<1>8. CASE links # {}
  <2> DEFINE l == CHOOSE r \in links : TRUE
             to == old[l].to
             rest == SubSeq(sp, Len(l) + 1, Len(sp))
  <2>1. l \in links BY <1>8
  <2>2. dst = to \o rest BY <1>8 DEF SandboxReal, Followed
  <2> HIDE DEF l
  <2>3. l \in Prefixes(sp) /\ old[l].kind = "link" /\ l \in RawPaths BY <1>5, <2>1
  <2>4. \E p \in Paths : host[p].kind = "link" /\ host[p].to = to
    <3>1. PICK place : place = Place(l) OBVIOUS
    <3>2. old[l] = NodeAt(place) BY <2>3, <3>1 DEF SandboxNode
    <3>3. old[l] \notin {None, Dir, File} BY <2>3, NodeKinds
    <3>4. place.path \in Paths /\ old[l] = host[place.path]
      <4> HIDE DEF old
      <4> QED BY <3>2, <3>3 DEF NodeAt
    <3> QED BY <2>3, <3>4
  <2>5. PICK p \in Paths : host[p].kind = "link" /\ host[p].to = to BY <2>4
  <2>6. PICK c \in Configs : SameLinks(Paths, c.host, host) BY <1>0, RealOfConfig
  <2>7. c.host[p].kind = "link" /\ c.host[p].to = to BY <2>5, <2>6 DEF SameLinks
  <2>8. ~IsPrefix(to, sp) BY <2>7 DEF PluginApart
  <2>9. to \in RawPaths BY <1>0, <2>5, NodeKinds, PathsTyped
  <2>10. Len(l) \in Nat BY <2>3 DEF RawPaths
  <2>11. rest \in RawPaths BY <1>1, <2>10, RestTyped
  <2> HIDE DEF to, rest
  <2>12. IsPrefix(to, dst) BY <2>2, <2>9, <2>11, PathsTyped
  <2>13. ASSUME NEW r \in Prefixes(sp) PROVE ~IsPrefix(dst, r)
    <3>1. r \in RawPaths /\ IsPrefix(r, sp) BY <1>5
    <3> HIDE DEF sp, dst
    <3> QED BY <1>1, <2>8, <2>9, <2>12, <3>1, PrefixOrder DEF RawPaths
  <2>14. SameLinks(Prefixes(sp), old, new)
    <3>1. \A r \in Prefixes(sp) : new[r] = old[r] \/ (old[r] = None /\ new[r] = Dir)
      BY <1>6, <2>13
    <3> HIDE DEF new, old
    <3> QED BY <3>1, NodeKinds DEF SameLinks
  <2> QED BY <2>14, FollowedSame DEF SandboxReal
<1> QED BY <1>7, <1>8

LEMMA PluginStep ==
    ASSUME StateKept, PluginApart
    PROVE  StateInv /\ PluginInv /\ [Next]_vars => PluginInv'
<1> SUFFICES ASSUME StateInv, PluginInv, [Next]_vars PROVE PluginInv' OBVIOUS
<1>0. /\ SandboxInv /\ host \in [Paths -> Nodes] /\ table \in Seq(ViewMounts)
      /\ todo \in Seq(ViewMounts) /\ (phase = "launching" => todo # << >>)
  BY DEF StateInv, SandboxInv, TypeOK
<1> DEFINE sp == Plugin.sandbox_path
<1>1. CASE CreateSession \/ Prepare \/ MountFails \/ Resume
  <2>1. phase' \notin {"launching", "running"}
    BY <1>1 DEF CreateSession, Prepare, MountFails, Resume
  <2> QED BY <2>1 DEF PluginInv
<1>2. CASE Launch
  <2>1. host' = host /\ phase' = "launching" /\ todo' = Command BY <1>2 DEF Launch
  <2>2. PluginThere' <=> PluginThere
    BY <2>1 DEF PluginThere, HostNode, HostReal
  <2>3. PluginMount' = PluginMount BY <2>1 DEF PluginMount, HostReal
  <2>4. PluginThere => Last(Command) = PluginMount BY <1>0, CommandTyped
  <2> QED BY <2>1, <2>2, <2>3, <2>4 DEF PluginInv
<1>3. CASE MountNext
  <2> DEFINE op == Head(todo)
             dst == SandboxReal(op.dst)
  <2>0. phase = "launching" /\ todo # << >> /\ changes' = changes
    BY <1>0, <1>3 DEF MountNext
  <2>1. /\ op \in ViewMounts /\ Len(todo) \in Nat \ {0}
        /\ Len(Tail(todo)) = Len(todo) - 1
        /\ \A i \in 1 .. Len(Tail(todo)) : Tail(todo)[i] = todo[i + 1]
    BY <1>0, <2>0, HeadTailProperties, EmptySeq
  <2>2. op.dst \in RawPaths BY <2>1 DEF ViewMounts, Mounts
  <2>3. dst \in RawPaths BY <1>0, <2>2, RealTyped
  <2>4. Makes(Missing(dst)) /\ \A m \in Missing(dst) : m.rw
    BY <1>3 DEF MountNext, CanMount
  <2>5. HostReal(Plugin.src)' = HostReal(Plugin.src) /\ (PluginThere' <=> PluginThere)
    BY <2>3, <2>4, PluginStays
  <2>6. PluginMount' = PluginMount BY <2>5 DEF PluginMount
  <2>7. /\ todo' = Tail(todo)
        /\ phase' = IF Len(todo) = 1 THEN "running" ELSE phase
        /\ table' = IF op.op = "dir" THEN table ELSE Append(table, [op EXCEPT !.dst = dst])
    BY <1>3 DEF MountNext
  <2> SUFFICES ASSUME changes = 0, PluginThere
               PROVE  /\ phase' = "launching" => Last(todo') = PluginMount
                      /\ phase' = "running" => table' # << >> /\ Last(table') = PluginMounted'
    BY <2>0, <2>5, <2>6 DEF PluginInv, Undisturbed
  <2>8. Last(todo) = PluginMount BY <2>0 DEF PluginInv, Undisturbed
  <2>9. CASE Len(todo) = 1
    <3>1. op = PluginMount BY <2>8, <2>9 DEF Last
    <3>2. op.op = "bind" /\ op.dst = sp BY <3>1 DEF PluginMount, Bind
    <3>3. dst = SandboxReal(sp) BY <3>2
    <3>4. [op EXCEPT !.dst = dst] = PluginMounted BY <3>1, <3>3 DEF PluginMounted
    <3>5. table' = Append(table, PluginMounted) BY <2>7, <3>2, <3>4
    <3>6. SandboxReal(sp)' = SandboxReal(sp)
      BY <2>4, <3>3, <3>5, PluginInPlace
    <3>7. PluginMounted' = PluginMounted BY <2>6, <3>6 DEF PluginMounted
    <3>8. PluginMounted \in ViewMounts BY <2>1, <2>3, <3>4, MountedAt
    <3>9. table' # << >> /\ Last(table') = PluginMounted
      <4> DEFINE m == PluginMounted
      <4> HIDE DEF m
      <4>1. m \in ViewMounts /\ table' = Append(table, m) BY <3>5, <3>8 DEF m
      <4>2. /\ Len(table) \in Nat /\ Len(table') = Len(table) + 1
            /\ table'[Len(table) + 1] = m
        BY <1>0, <4>1
      <4>3. Len(table') # 0 BY <4>2
      <4> QED BY <4>2, <4>3, EmptySeq DEF Last, m
    <3>10. phase' = "running" BY <2>7, <2>9
    <3> QED BY <3>7, <3>9, <3>10
  <2>10. CASE Len(todo) # 1
    <3>1. Last(Tail(todo)) = Last(todo)
      <4>1. Len(Tail(todo)) \in 1 .. Len(Tail(todo)) /\ Len(Tail(todo)) + 1 = Len(todo)
        BY <2>1, <2>10
      <4> QED BY <2>1, <4>1 DEF Last
    <3>2. phase' = "launching" BY <2>0, <2>7, <2>10
    <3> QED BY <2>7, <2>8, <3>1, <3>2
  <2> QED BY <2>9, <2>10
<1>4. ASSUME NEW p \in RuntimeState, KeepState(p) PROVE PluginInv'
  <2> DEFINE dst == SandboxReal(p)
  <2>1. dst \in RawPaths
    BY <1>0, RealTyped, SandboxAssumption
  <2>2. Makes(Missing(dst)) /\ \A m \in Missing(dst) : m.rw
    BY <1>4 DEF KeepState
  <2>3. HostReal(Plugin.src)' = HostReal(Plugin.src) /\ (PluginThere' <=> PluginThere)
    BY <2>1, <2>2, PluginStays
  <2>4. PluginMount' = PluginMount BY <2>3 DEF PluginMount
  <2>5. table' = table /\ phase' = phase /\ changes' = changes /\ phase = "running"
    BY <1>4 DEF KeepState
  <2>6. SandboxReal(sp)' = SandboxReal(sp) BY <1>0, <2>1, <2>2, <2>5, RealStays
  <2>7. PluginMounted' = PluginMounted BY <2>4, <2>6 DEF PluginMounted
  <2> QED BY <2>3, <2>5, <2>7 DEF PluginInv, Undisturbed
<1>5. ASSUME NEW p \in Fickle, HostChanges(p) PROVE PluginInv'
  <2>1. changes' # 0
    BY <1>0, <1>5, SandboxAssumption DEF SandboxInv, TypeOK, HostChanges
  <2> QED BY <2>1 DEF PluginInv, Undisturbed
<1>6. CASE UNCHANGED vars
  <2>1. PluginThere' <=> PluginThere
    BY <1>6 DEF vars, PluginThere, HostNode, HostReal
  <2>2. PluginMount' = PluginMount BY <1>6 DEF vars, PluginMount, HostReal
  <2>4. SandboxReal(sp)' = SandboxReal(sp)
    BY <1>6 DEF vars, SandboxReal, SandboxNode, Place, NodeAt
  <2>5. PluginMounted' = PluginMounted BY <2>2, <2>4 DEF PluginMounted
  <2> QED BY <1>6, <2>1, <2>2, <2>5 DEF vars, PluginInv, Undisturbed
<1> QED BY <1>1, <1>2, <1>3, <1>4, <1>5, <1>6 DEF Next

\* While nobody else changes the host the agent sees the trusted plugin at its
\* place, read-only, whatever state directories and links the place is in and
\* whatever the agent's runtime makes there (_append_agent_plugin_binds(), the last
\* mounts of _bwrap_command()), after every resume too.
THEOREM PluginStaysTrusted ==
    ASSUME StateKept, PluginApart
    PROVE  Spec => []PluginTrusted
<1>1. Init => StateInv /\ PluginInv
  <2> SUFFICES ASSUME Init PROVE StateInv /\ PluginInv OBVIOUS
  <2>1. << >> \in Seq(StateMounts) BY EmptySeq
  <2> QED BY <2>1, SandboxStart DEF Init, StateInv, PluginInv
<1>2. StateInv /\ PluginInv /\ [Next]_vars => (StateInv /\ PluginInv)'
  BY StateStep, PluginStep
<1>3. StateInv /\ PluginInv => PluginTrusted
  <2> SUFFICES ASSUME StateInv, PluginInv, phase = "running", Undisturbed, PluginThere
               PROVE  Place(SandboxReal(Plugin.sandbox_path)) =
                         [via |-> "host", path |-> Canonical(HostReal(Plugin.src)),
                          rw |-> FALSE]
    BY DEF PluginTrusted
  <2> DEFINE dst == SandboxReal(Plugin.sandbox_path)
             k == Canonical(HostReal(Plugin.src))
             m == PluginMounted
  <2>1. table \in Seq(ViewMounts) /\ host \in [Paths -> Nodes]
    BY DEF StateInv, SandboxInv, TypeOK
  <2>2. dst \in RawPaths /\ k \in RawPaths /\ PluginMount \in ViewMounts
    BY <2>1, PluginTyped
  <2>3. /\ m.dst = dst /\ m.via = "host" /\ m.path = k /\ m.rw = FALSE
    <3>1. /\ m.dst = dst /\ m.via = PluginMount.via /\ m.path = PluginMount.path
          /\ m.rw = PluginMount.rw
      BY <2>2, MountedAt DEF PluginMounted
    <3>2. PluginMount.rw = FALSE BY DEF PluginMount, Bind
    <3> QED BY <3>1, <3>2 DEF PluginMount, Bind
  <2>4. table # << >> /\ Last(table) = m BY DEF PluginInv
  <2> HIDE DEF m, dst, k
  <2>5. IsPrefix(m.dst, dst) BY <2>2, <2>3, PrefixOrder DEF RawPaths
  <2> DEFINE over == {i \in DOMAIN table : IsPrefix(table[i].dst, dst)}
  <2>6. over # {} /\ Max(over) = Len(table) BY <2>1, <2>4, <2>5, LastIsTop
  <2>7. table[Len(table)] = m BY <2>4 DEF Last
  <2>8. Place(dst) = [via |-> m.via, rw |-> m.rw,
                      path |-> m.path \o SubSeq(dst, Len(m.dst) + 1, Len(dst))]
    BY <2>6, <2>7 DEF Place
  <2>9. SubSeq(dst, Len(dst) + 1, Len(dst)) = << >>
    <3>1. Len(dst) \in Nat BY <2>2 DEF RawPaths
    <3> QED BY <3>1, SubSeqEmpty
  <2>10. k \o << >> = k BY <2>2, ConcatEmptySeq DEF RawPaths
  <2>11. Place(dst) = [via |-> "host", rw |-> FALSE, path |-> k]
    BY <2>3, <2>8, <2>9, <2>10
  <2> QED BY <2>11 DEF dst, k
<1> QED BY <1>1, <1>2, <1>3, PTL DEF Spec


-----------------------------------------------------------------------------
\* What the sandbox shows on the way to what is mounted on.

\* Where a path leads, field by field.
LEMMA PlaceIn ==
    ASSUME NEW S, table \in Seq(S), NEW p
    PROVE  \/ /\ \A i \in 1 .. Len(table) : ~IsPrefix(table[i].dst, p)
              /\ Place(p).via = "root" /\ Place(p).rw /\ Place(p).path = p
           \/ \E i \in 1 .. Len(table) :
                 /\ TopMount(i, p)
                 /\ Place(p).via = table[i].via /\ Place(p).rw = table[i].rw
                 /\ Place(p).path = table[i].path
                                       \o SubSeq(p, Len(table[i].dst) + 1, Len(p))
<1> DEFINE place == Place(p)
<1>1. CASE /\ \A i \in 1 .. Len(table) : ~IsPrefix(table[i].dst, p)
           /\ Place(p) = [via |-> "root", path |-> p, rw |-> TRUE]
  <2>1. place = [via |-> "root", rw |-> TRUE, path |-> p] BY <1>1
  <2> HIDE DEF place
  <2>2. place.via = "root" /\ place.rw /\ place.path = p
    <3> DEFINE rw == TRUE
    <3>1. place = [via |-> "root", rw |-> rw, path |-> p] BY <2>1
    <3> HIDE DEF rw
    <3>2. place.via = "root" /\ place.rw = rw /\ place.path = p
      BY ONLY <3>1, PlaceFields, Zenon
    <3> QED BY <3>2 DEF rw
  <2> QED BY <1>1, <2>2 DEF place
<1>2. ASSUME NEW i \in 1 .. Len(table), TopMount(i, p),
             Place(p) = [via |-> table[i].via, rw |-> table[i].rw,
                         path |-> table[i].path
                                     \o SubSeq(p, Len(table[i].dst) + 1, Len(p))]
      PROVE  /\ Place(p).via = table[i].via /\ Place(p).rw = table[i].rw
             /\ Place(p).path = table[i].path \o SubSeq(p, Len(table[i].dst) + 1, Len(p))
  <2> DEFINE m == table[i]
             path == m.path \o SubSeq(p, Len(m.dst) + 1, Len(p))
  <2>1. place = [via |-> m.via, rw |-> m.rw, path |-> path] BY <1>2
  <2> HIDE DEF place, path, m
  <2>2. place.via = m.via /\ place.rw = m.rw /\ place.path = path
    BY ONLY <2>1, PlaceFields, Zenon
  <2> QED BY ONLY <2>2 DEF place, path, m
<1> QED BY <1>1, <1>2, PlaceCases

\* A path below another one is that one and the rest.
LEMMA SplitAt ==
    ASSUME NEW p \in PlainPaths, NEW d \in RawPaths, IsPrefix(d, p)
    PROVE  LET rest == SubSeq(p, Len(d) + 1, Len(p))
           IN  rest \in PlainPaths /\ p = d \o rest /\ Len(d) \in 0 .. Len(p)
<1> DEFINE rest == SubSeq(p, Len(d) + 1, Len(p))
           all == d \o rest
<1>1. p \in Seq(Segments) /\ d \in Seq(Segments) /\ Len(p) \in Nat /\ Len(d) \in Nat
  BY PlainFields DEF RawPaths
<1>2. Len(d) <= Len(p) /\ \A i \in 1 .. Len(d) : d[i] = p[i] BY <1>1, PrefixFields
<1>3. Len(d) \in 0 .. Len(p) BY <1>1, <1>2
<1>4. rest \in PlainPaths BY <1>3, PlainRest
<1>5. \A i \in Len(d) + 1 .. Len(p) : p[i] \in Segments
  <2>1. \A i \in 1 .. Len(p) : p[i] \in Segments BY PlainFields
  <2> QED BY <1>1, <2>1
<1>6. /\ rest \in Seq(Segments) /\ Len(rest) = Len(p) - Len(d)
      /\ \A i \in 1 .. Len(rest) : rest[i] = p[Len(d) + i]
  <2>1. /\ rest \in Seq(Segments)
        /\ Len(rest) = IF Len(d) + 1 <= Len(p) THEN Len(p) - (Len(d) + 1) + 1 ELSE 0
        /\ \A i \in 1 .. Len(p) - (Len(d) + 1) + 1 : rest[i] = p[Len(d) + 1 + i - 1]
    BY <1>1, <1>5, SubSeqProperties
  <2> HIDE DEF rest
  <2>2. Len(rest) = Len(p) - Len(d) BY <1>1, <1>3, <2>1
  <2>3. ASSUME NEW i \in 1 .. Len(rest) PROVE rest[i] = p[Len(d) + i]
    <3>1. i \in 1 .. Len(p) - (Len(d) + 1) + 1 /\ Len(d) + 1 + i - 1 = Len(d) + i
      BY <1>1, <2>2
    <3> QED BY <2>1, <3>1
  <2> QED BY <2>1, <2>2, <2>3
<1> HIDE DEF rest
<1>7. /\ all \in Seq(Segments) /\ Len(all) = Len(d) + Len(rest)
      /\ \A i \in 1 .. Len(d) + Len(rest) :
            all[i] = IF i <= Len(d) THEN d[i] ELSE rest[i - Len(d)]
  BY <1>1, <1>6, ConcatProperties
<1> HIDE DEF all
<1>8. Len(all) = Len(p) BY <1>1, <1>6, <1>7
<1>9. ASSUME NEW i \in 1 .. Len(p) PROVE all[i] = p[i]
  <2>1. CASE i <= Len(d)
    <3>1. i \in 1 .. Len(d) /\ i \in 1 .. Len(d) + Len(rest) BY <1>1, <1>6, <2>1
    <3> QED BY <1>2, <1>7, <2>1, <3>1
  <2>2. CASE ~(i <= Len(d))
    <3>1. /\ i - Len(d) \in 1 .. Len(rest) /\ i \in 1 .. Len(d) + Len(rest)
          /\ Len(d) + (i - Len(d)) = i
      BY <1>1, <1>6, <2>2
    <3> QED BY <1>6, <1>7, <2>2, <3>1
  <2> QED BY <2>1, <2>2
<1>10. all = p BY <1>1, <1>7, <1>8, <1>9, SeqEqual
<1> QED BY <1>3, <1>4, <1>10 DEF rest, all

\* The prefixes of a plain path are plain.
LEMMA PlainPrefix ==
    ASSUME NEW p \in PlainPaths, NEW q \in Prefixes(p)
    PROVE  q \in PlainPaths /\ IsPrefix(q, p)
<1>1. p \in RawPaths /\ p \in Seq(Segments) BY DEF PlainPaths, RawPaths
<1>2. q \in RawPaths /\ IsPrefix(q, p) BY <1>1, PrefixSet
<1>3. Len(q) \in Nat /\ Len(q) <= Len(p) /\ \A i \in 1 .. Len(q) : q[i] = p[i]
  BY <1>1, <1>2, PrefixFields DEF RawPaths
<1>4. \A i \in 1 .. Len(p) : p[i] \notin Special BY DEF PlainPaths
<1>5. \A i \in 1 .. Len(q) : q[i] \notin Special
  <2> TAKE i \in 1 .. Len(q)
  <2>1. i \in 1 .. Len(p) BY <1>1, <1>3
  <2> QED BY <1>3, <1>4, <2>1
<1> QED BY <1>2, <1>5 DEF PlainPaths

\* Where a plain path may lead is plain.
LEMMA LedPlain ==
    ASSUME NEW files \in [Paths -> Nodes], NEW p \in PlainPaths
    PROVE  Led(files, p) \subseteq PlainPaths /\ p \in Led(files, p)
<1>1. ASSUME NEW q \in Prefixes(p), NodeOn(files, q).kind = "link"
      PROVE  NodeOn(files, q).to \o SubSeq(p, Len(q) + 1, Len(p)) \in PlainPaths
  <2>1. q \in PlainPaths /\ IsPrefix(q, p) BY PlainPrefix
  <2>2. q \in RawPaths BY <2>1 DEF PlainPaths
  <2>3. NodeOn(files, q) \in Nodes BY <2>2, HostTyped
  <2>4. NodeOn(files, q).to \in PlainPaths
    BY <1>1, <2>3, NodeKinds, SandboxAssumption
  <2>5. SubSeq(p, Len(q) + 1, Len(p)) \in PlainPaths BY <2>1, <2>2, SplitAt
  <2> QED BY <2>4, <2>5, PlainConcat
<1> QED BY <1>1 DEF Led

\* The views show every path below them as the host spells it.
LEMMA ViewShows ==
    ASSUME ViewsApart, NEW i \in {1, 2}, NEW p \in PlainPaths, IsPrefix(Views[i].dst, p)
    PROVE  Views[i].path \o SubSeq(p, Len(Views[i].dst) + 1, Len(p)) = Canonical(p)
<1>1. /\ Visible \in PlainPaths /\ Home \in PlainPaths /\ PlainAliases(Aliases)
      /\ Canonical(Visible) = Visible /\ Canonical(Home) = Visible \o HomeSubdir
  BY SandboxAssumption DEF ViewsApart
<1>2. ASSUME NEW dst \in {Visible, Home}, IsPrefix(dst, p)
      PROVE  Canonical(dst) \o SubSeq(p, Len(dst) + 1, Len(p)) = Canonical(p)
  <2> DEFINE rest == SubSeq(p, Len(dst) + 1, Len(p))
  <2>1. dst \in PlainPaths /\ dst \in RawPaths BY <1>1 DEF PlainPaths
  <2>2. rest \in PlainPaths /\ p = dst \o rest BY <1>2, <2>1, SplitAt
  <2>3. NoAliasBelow(Aliases, Normalize(dst))
    BY <2>1, NormalizePlain DEF ViewsApart
  <2> HIDE DEF rest
  <2>4. Canonical(dst \o rest) = Canonical(dst) \o rest
    BY <1>1, <2>1, <2>2, <2>3, CanonicalBelow DEF Canonical
  <2> QED BY <2>2, <2>4 DEF rest
<1>3. CASE i = 1
  <2>1. Views[i].dst = Visible /\ Views[i].path = Visible
    BY <1>1, <1>3 DEF Views, Bind
  <2> QED BY <1>1, <1>2, <2>1
<1>4. CASE i = 2
  <2>1. Views[i].dst = Home /\ Views[i].path = Canonical(Home)
    BY <1>1, <1>4 DEF Views, Bind
  <2> QED BY <1>2, <2>1
<1> QED BY <1>3, <1>4

\* The host is that of a configuration, with nothing taken away.
Follows(c) ==
    /\ config = [protect |-> c.protect, ensure |-> c.ensure]
    /\ SameLinks(Paths, c.host, host)
    /\ \A q \in Paths : c.host[q] # None => host[q] # None

\* Mounts that are made: each host bind is one of the configuration, where its
\* place leads, of something that is there.
MadeMounts(c, files) ==
    {m \in ViewMounts :
        /\ m.via = "host" =>
              /\ m.path \in Paths /\ files[m.path] # None
              /\ \E b \in StateBound(c) \cup ReadBound(c) :
                    m.path = b.path /\ m.rw = b.rw /\ m.dst \in Led(c.host, b.dst)
        /\ m.via = "null" => \E p \in Range(Masks) : m.dst \in Led(c.host, p)
        /\ m.via = "view" => m \in {Views[1], Views[2]}
        /\ m.via # "none"}

\* Mounts still to be made.
NextMounts(c, files) ==
    {m \in ViewMounts :
        /\ m.dst \in Places(c)
        /\ m.via = "host" =>
              /\ m.path \in Paths /\ files[m.path] # None
              /\ \E b \in StateBound(c) \cup ReadBound(c) :
                    m.path = b.path /\ m.rw = b.rw /\ m.dst = b.dst
        /\ m.via = "null" => m.dst \in Range(Masks)
        /\ m.via = "view" => m \in {Views[1], Views[2]}
        /\ m.via = "none" => m.op = "dir"}

\* On the way to what is mounted on, the links that the sandbox shows are the
\* host's, and what is missing can be made.
LEMMA WaySeen ==
    ASSUME ViewsApart, LinksShown, ReadOnlyWhole, NEW c \in Configs, Follows(c),
           host \in [Paths -> Nodes], table \in Seq(MadeMounts(c, host)),
           NEW d \in Places(c), NEW e \in Led(c.host, d), NEW q \in Prefixes(e)
    PROVE  /\ SandboxNode(q).kind = "link" => SandboxNode(q) = NodeOn(c.host, q)
           /\ SandboxNode(q) = None => Place(q).rw
<1>1. c.host \in [Paths -> Nodes] /\ d \in PlainPaths
  BY SandboxAssumption DEF LinksShown
<1>2. e \in PlainPaths BY <1>1, LedPlain
<1>3. q \in PlainPaths /\ q \in RawPaths BY <1>2, PlainPrefix DEF PlainPaths
<1>a. ASSUME NEW p \in Paths, host[p].kind = "link" PROVE host[p] = c.host[p]
  BY <1>a DEF Follows, SameLinks
<1>4. CASE Place(q).via = "root" /\ Place(q).rw
  <2>1. SandboxNode(q) = None BY <1>4 DEF SandboxNode, NodeAt
  <2> QED BY <1>4, <2>1, NodeKinds
<1>5. ASSUME NEW i \in 1 .. Len(table), TopMount(i, q),
             Place(q).via = table[i].via, Place(q).rw = table[i].rw,
             Place(q).path = table[i].path \o SubSeq(q, Len(table[i].dst) + 1, Len(q))
      PROVE  /\ SandboxNode(q).kind = "link" => SandboxNode(q) = NodeOn(c.host, q)
             /\ SandboxNode(q) = None => Place(q).rw
  <2> DEFINE m == table[i]
             path == m.path \o SubSeq(q, Len(m.dst) + 1, Len(q))
  <2>1. m \in MadeMounts(c, host) BY ElementOfSeq
  <2>2. m \in Mounts /\ m.dst \in RawPaths BY <2>1 DEF MadeMounts, ViewMounts, Mounts
  <2>3. IsPrefix(m.dst, q) BY <1>5 DEF TopMount
  <2>4. Place(q).via = m.via /\ Place(q).rw = m.rw /\ Place(q).path = path
    BY <1>5
  <2> HIDE DEF m, path
  <2>5. CASE m.via = "null"
    <3>1. SandboxNode(q) = File BY <2>4, <2>5 DEF SandboxNode, NodeAt
    <3> QED BY <3>1, NodeKinds
  <2>6. CASE m.via = "view"
    <3>1. PICK v \in {1, 2} : m = Views[v] BY <2>1, <2>6 DEF MadeMounts
    <3>2. path = Canonical(q) BY <1>3, <2>3, <3>1, ViewShows DEF path
    <3>3. m.rw BY <3>1 DEF Views, Bind
    <3>4. \/ SandboxNode(q) = Dir
          \/ SandboxNode(q) = IF path \in Paths THEN host[path] ELSE None
      BY <2>4, <2>6 DEF SandboxNode, NodeAt
    <3>5. ASSUME SandboxNode(q).kind = "link" PROVE SandboxNode(q) = NodeOn(c.host, q)
      <4>1. path \in Paths /\ SandboxNode(q) = host[path] BY <3>4, <3>5, NodeKinds
      <4>2. host[path] = c.host[path] BY <1>a, <3>5, <4>1
      <4> QED BY <3>2, <4>1, <4>2 DEF NodeOn
    <3> QED BY <2>4, <3>3, <3>5
  <2>7. CASE m.via = "host"
    <3>1. m.path \in Paths /\ host[m.path] # None
      BY <2>1, <2>7 DEF MadeMounts
    <3>2. PICK b \in StateBound(c) \cup ReadBound(c) :
             m.path = b.path /\ m.rw = b.rw /\ m.dst \in Led(c.host, b.dst)
      BY <2>1, <2>7 DEF MadeMounts
    <3>3. SandboxNode(q) = IF path \in Paths THEN host[path] ELSE None
      BY <2>4, <2>7 DEF SandboxNode, NodeAt
    <3>4. Shown(c, b, m.dst, q) = IF path \in Paths THEN c.host[path] ELSE None
      BY <3>2 DEF Shown, path
    <3>5. ASSUME SandboxNode(q).kind = "link" PROVE SandboxNode(q) = NodeOn(c.host, q)
      <4>1. path \in Paths /\ SandboxNode(q) = host[path] BY <3>3, <3>5, NodeKinds
      <4>2. SandboxNode(q) = Shown(c, b, m.dst, q) BY <1>a, <3>4, <3>5, <4>1
      <4> DEFINE on == [r \in Prefixes(e) |-> NodeOn(c.host, r)]
                 shown == [r \in Prefixes(e) |-> Shown(c, b, m.dst, r)]
      <4>3. SameLinks({r \in Prefixes(e) : IsPrefix(m.dst, r)}, on, shown)
        BY <3>2 DEF LinksShown
      <4>4. on[q] = NodeOn(c.host, q) /\ shown[q] = Shown(c, b, m.dst, q) OBVIOUS
      <4> HIDE DEF on, shown
      <4>5. shown[q] = on[q] BY <2>3, <3>5, <4>2, <4>3, <4>4 DEF SameLinks
      <4> QED BY <4>2, <4>4, <4>5
    <3>6. ASSUME SandboxNode(q) = None PROVE Place(q).rw
      <4>1. CASE b \in StateBound(c)
        <5>1. b.rw BY <4>1 DEF StateBound, Resolved, Bind
        <5> QED BY <2>4, <3>2, <5>1
      <4>2. CASE b \in ReadBound(c) /\ m.dst # q
        <5>1. Shown(c, b, m.dst, q) # None
          BY <2>3, <3>2, <4>2 DEF ReadOnlyWhole, IsStrictPrefix
        <5>2. path \in Paths /\ c.host[path] # None BY <3>4, <5>1
        <5>3. host[path] # None BY <5>2 DEF Follows
        <5> QED BY <3>3, <3>6, <5>2, <5>3
      <4>3. CASE m.dst = q
        <5>1. SubSeq(q, Len(m.dst) + 1, Len(q)) = << >>
          <6>1. Len(q) \in Nat BY <1>3 DEF RawPaths
          <6> QED BY <4>3, <6>1, SubSeqEmpty
        <5>2. path = m.path
          <6>1. m.path \in Seq(Segments) BY <3>1, PathsTyped DEF RawPaths
          <6> QED BY <5>1, <6>1, ConcatEmptySeq DEF path
        <5> QED BY <3>1, <3>3, <3>6, <5>2
      <4> QED BY <3>2, <4>1, <4>2, <4>3
    <3> QED BY <3>5, <3>6
  <2>8. m.via \in {"view", "host", "null"} BY <2>1, <2>2 DEF MadeMounts, Mounts
  <2> QED BY <2>5, <2>6, <2>7, <2>8
<1> QED BY <1>4, <1>5, PlaceIn

\* What is mounted on is mounted as it is spelled, or where the host's links lead.
LEMMA RealLed ==
    ASSUME ViewsApart, LinksShown, ReadOnlyWhole, NEW c \in Configs, Follows(c),
           host \in [Paths -> Nodes], table \in Seq(MadeMounts(c, host)),
           NEW d \in Places(c)
    PROVE  SandboxReal(d) \in Led(c.host, d)
<1> DEFINE node == [q \in Prefixes(d) |-> SandboxNode(q)]
           links == {q \in Prefixes(d) : node[q].kind = "link"}
           l == CHOOSE q \in links : TRUE
<1>1. d \in Led(c.host, d) BY DEF Led
<1>2. CASE links = {} BY <1>1, <1>2 DEF SandboxReal, Followed
<1>3. CASE links # {}
  <2>1. l \in links BY <1>3
  <2>2. SandboxReal(d) = node[l].to \o SubSeq(d, Len(l) + 1, Len(d))
    BY <1>3 DEF SandboxReal, Followed
  <2> HIDE DEF l
  <2>3. l \in Prefixes(d) /\ SandboxNode(l).kind = "link" /\ node[l] = SandboxNode(l)
    BY <2>1
  <2>4. SandboxNode(l) = NodeOn(c.host, l) BY <1>1, <2>3, WaySeen
  <2> HIDE DEF node, links
  <2> QED BY <2>2, <2>3, <2>4 DEF Led
<1> QED BY <1>2, <1>3

\* So the next mount can be made.
LEMMA NextCanMount ==
    ASSUME ViewsApart, LinksShown, ReadOnlyWhole, NEW c \in Configs, Follows(c),
           host \in [Paths -> Nodes], table \in Seq(MadeMounts(c, host)),
           NEW m \in NextMounts(c, host)
    PROVE  CanMount(m)
<1>1. m.dst \in Places(c) BY DEF NextMounts
<1>2. SandboxReal(m.dst) \in Led(c.host, m.dst) BY <1>1, RealLed
<1>3. ASSUME NEW place \in Missing(SandboxReal(m.dst)) PROVE place.rw
  <2>1. PICK q \in Prefixes(SandboxReal(m.dst)) : place = Place(q) /\ SandboxNode(q) = None
    BY DEF Missing
  <2> QED BY <1>1, <1>2, <2>1, WaySeen
<1>4. m.via = "host" => m.path \in Paths /\ host[m.path] # None BY DEF NextMounts
<1> QED BY <1>3, <1>4 DEF CanMount

\* Where the host's links lead is what the configuration it follows says.
LEMMA FollowsReal ==
    ASSUME NEW c \in Configs, Follows(c), host \in [Paths -> Nodes]
    PROVE  /\ config.protect = c.protect
           /\ \A p : HostReal(p) = RealOn(c.host, p)
           /\ \A p \in Paths : host[p].kind = "link" => c.host[p] = host[p]
<1>1. c.host \in [Paths -> Nodes] BY SandboxAssumption
<1>2. \A p : HostReal(p) = RealOn(c.host, p)
  BY <1>1, RealSame DEF Follows, HostReal
<1>3. \A p \in Paths : host[p].kind = "link" => c.host[p] = host[p]
  BY DEF Follows, SameLinks
<1>4. config.protect = c.protect BY DEF Follows
<1> QED BY <1>2, <1>3, <1>4

\* The binds of the configuration, and their places.
LEMMA BoundPlaces ==
    ASSUME NEW c \in Configs, NEW b \in StateBound(c) \cup ReadBound(c)
    PROVE  b.dst \in Places(c) /\ b.via = "host"
<1>1. b.via = "host" BY DEF StateBound, ReadBound, Resolved, Bind
<1> QED BY <1>1 DEF Places

\* The command line is made of binds of the configuration whose sources are there.
LEMMA CommandNext ==
    ASSUME ReadOnlyWhole, NEW c \in Configs, Follows(c), host \in [Paths -> Nodes]
    PROVE  Command \in Seq(NextMounts(c, host))
<1>0. /\ \A b \in Range(SystemDirs) : b \in Binds
      /\ \A b \in Range(RuntimeBinds) : b \in Binds
      /\ \A m \in Range(Masks) : m \in RawPaths
      /\ \A d \in Range(Plugin.ensure_dirs) : d \in RawPaths
      /\ Plugin.src \in RawPaths /\ Plugin.sandbox_path \in RawPaths
  BY RangeOf, SandboxAssumption
<1>a. ASSUME NEW path \in Paths, NEW dst \in RawPaths, NEW rw \in BOOLEAN,
             host[path] # None,
             Bind("host", path, dst, rw) \in StateBound(c) \cup ReadBound(c)
      PROVE  Bind("host", path, dst, rw) \in NextMounts(c, host)
  <2> DEFINE m == Bind("host", path, dst, rw)
  <2>1. m.via = "host" /\ m.path = path BY DEF Bind
  <2>2. m \in ViewMounts BY <1>a, BindTyped, PathsTyped
  <2> HIDE DEF m
  <2>3. m \in StateBound(c) \cup ReadBound(c) BY <1>a DEF m
  <2>4. m.dst \in Places(c) BY <2>3, BoundPlaces
  <2>5. m \in NextMounts(c, host) BY <1>a, <2>1, <2>2, <2>3, <2>4 DEF NextMounts
  <2> QED BY <2>5 DEF m
<1>b. ASSUME NEW p, HostNode(p) # None
      PROVE  Canonical(p) \in Paths /\ host[Canonical(p)] # None
  BY <1>b DEF HostNode, NodeOn
<1>c. /\ config.protect = c.protect /\ \A p : HostReal(p) = RealOn(c.host, p)
      /\ \A p \in Paths : host[p].kind = "link" => c.host[p] = host[p]
  BY FollowsReal
<1>1. ASSUME NEW b \in Range(SystemDirs)
      PROVE  Bind("host", Canonical(b.src), b.dst, FALSE) \in NextMounts(c, host)
  <2>1. NodeOn(c.host, b.src) # None BY DEF ReadOnlyWhole
  <2>2. Canonical(b.src) \in Paths /\ host[Canonical(b.src)] # None
    BY <2>1 DEF NodeOn, Follows
  <2>3. b.dst \in RawPaths BY <1>0 DEF Binds
  <2>4. Bind("host", Canonical(b.src), b.dst, FALSE) \in ReadBound(c) BY DEF ReadBound
  <2> QED BY <1>a, <2>2, <2>3, <2>4
<1>2. \A i \in {1, 2} : Views[i] \in NextMounts(c, host)
  <2> TAKE i \in {1, 2}
  <2>1. Views[i] \in ViewMounts BY ViewsTyped
  <2>2. Views[i].via = "view" /\ Views[i].dst \in {Visible, Home}
    BY PathsTyped DEF Views, Bind
  <2>3. Views[i].dst \in Places(c) BY <2>2 DEF Places
  <2> QED BY <2>1, <2>2, <2>3 DEF NextMounts
<1>3. ASSUME ~config.protect, NEW b \in Range(StateBinds), HostNode(HostReal(b.src)) # None
      PROVE  Bind("host", Canonical(HostReal(b.src)), HostReal(b.dst), TRUE)
                \in NextMounts(c, host)
  <2>1. HostReal(b.dst) \in RawPaths BY StateBindsTyped
  <2>2. Bind("host", Canonical(HostReal(b.src)), HostReal(b.dst), TRUE) \in StateBound(c)
    BY <1>3, <1>c DEF StateBound, Resolved
  <2> QED BY <1>3, <1>a, <1>b, <2>1, <2>2
<1>4. ASSUME ~config.protect, NEW t \in LinkedState
      PROVE  Bind("host", Canonical(t), t, TRUE) \in NextMounts(c, host)
  <2>1. PICK x \in StateLinks : t \in TargetDirs(x[2]) BY DEF LinkedState
  <2>2. x[2] \in Paths /\ host[x[2]].kind = "link" BY <2>1 DEF StateLinks
  <2>3. t \in Prefixes(host[x[2]].to) \ {<< >>} /\ Last(t) \in StateNames /\ HostNode(t) = Dir
    BY <2>1 DEF TargetDirs
  <2>4. t \in LinkTargets(c) BY <1>c, <2>2, <2>3 DEF LinkTargets
  <2>5. t \in Paths BY LinkedPaths
  <2>6. Canonical(t) = t /\ t \in RawPaths BY <2>5, PathsTyped, SandboxAssumption
  <2>7. host[t] # None BY <1>b, <2>3, <2>6, NodeKinds
  <2>8. Bind("host", t, t, TRUE) \in StateBound(c) BY <1>4, <1>c, <2>4 DEF StateBound
  <2> QED BY <1>a, <2>5, <2>6, <2>7, <2>8
<1>5. ASSUME NEW b \in Range(RuntimeBinds), HostNode(HostReal(b.src)) # None
      PROVE  Bind("host", Canonical(HostReal(b.src)), HostReal(b.dst), FALSE)
                \in NextMounts(c, host)
  <2>1. HostReal(b.dst) \in RawPaths BY <1>0, HostTyped DEF Binds, HostReal
  <2>2. Bind("host", Canonical(HostReal(b.src)), HostReal(b.dst), FALSE) \in ReadBound(c)
    BY <1>c DEF ReadBound, Resolved
  <2> QED BY <1>5, <1>a, <1>b, <2>1, <2>2
<1>6. ASSUME NEW p \in Range(Masks) PROVE Bind("null", << >>, p, FALSE) \in NextMounts(c, host)
  <2>1. Bind("null", << >>, p, FALSE) \in ViewMounts BY <1>0, BindTyped, PathsTyped
  <2>2. Bind("null", << >>, p, FALSE).via = "null" /\ Bind("null", << >>, p, FALSE).dst = p
    BY DEF Bind
  <2> QED BY <2>1, <2>2 DEF NextMounts, Places
<1>7. ASSUME NEW d \in Range(Plugin.ensure_dirs) PROVE MakeDir(d) \in NextMounts(c, host)
  <2>1. MakeDir(d) \in ViewMounts BY <1>0, BindTyped, PathsTyped
  <2>2. MakeDir(d).via = "none" /\ MakeDir(d).dst = d /\ MakeDir(d).op = "dir"
    BY DEF MakeDir
  <2> QED BY <2>1, <2>2 DEF NextMounts, Places
<1>8. ASSUME PluginThere PROVE PluginMount \in NextMounts(c, host)
  <2>1. HostNode(HostReal(Plugin.src)) # None BY <1>8, NodeKinds DEF PluginThere
  <2>2. PluginMount \in ReadBound(c) BY <1>c DEF ReadBound, PluginMount
  <2> QED BY <1>0, <1>a, <1>b, <2>1, <2>2 DEF PluginMount
<1> QED BY <1>1, <1>2, <1>3, <1>4, <1>5, <1>6, <1>7, <1>8, CommandIn

\* A mount that can be made next is one of the configuration's when it is made.
LEMMA NextIsMade ==
    ASSUME NEW c, NEW files, NEW m \in NextMounts(c, files), m.op # "dir",
           NEW dst \in Led(c.host, m.dst), dst \in RawPaths,
           m.via = "view" => dst = m.dst
    PROVE  [m EXCEPT !.dst = dst] \in MadeMounts(c, files)
<1> DEFINE n == [m EXCEPT !.dst = dst]
<1>1. m \in ViewMounts BY DEF NextMounts
<1>2. /\ n \in ViewMounts /\ n.via = m.via /\ n.path = m.path /\ n.dst = dst /\ n.rw = m.rw
  BY <1>1, MountedAt
<1>3. m.via = "view" => n = m
  <2> SUFFICES ASSUME dst = m.dst PROVE n = m OBVIOUS
  <2>1. m \in Mounts BY <1>1 DEF ViewMounts
  <2> QED BY <2>1 DEF Mounts
<1> HIDE DEF n
<1>4. m.via = "host" => m.path \in Paths /\ files[m.path] # None BY DEF NextMounts
<1>5. ASSUME m.via = "host"
      PROVE  \E b \in StateBound(c) \cup ReadBound(c) :
                n.path = b.path /\ n.rw = b.rw /\ n.dst \in Led(c.host, b.dst)
  <2>1. PICK b \in StateBound(c) \cup ReadBound(c) :
           m.path = b.path /\ m.rw = b.rw /\ m.dst = b.dst
    BY <1>5 DEF NextMounts
  <2> QED BY <1>2, <2>1
<1>6. m.via = "view" => m \in {Views[1], Views[2]} BY DEF NextMounts
<1>7. /\ m.via # "none"
      /\ n.via = "null" => \E p \in Range(Masks) : n.dst \in Led(c.host, p)
  BY <1>2 DEF NextMounts
<1>8. n \in MadeMounts(c, files)
  BY <1>2, <1>3, <1>4, <1>5, <1>6, <1>7 DEF MadeMounts
<1> QED BY <1>8 DEF n

\* What is there stays there.
LEMMA MountsKept ==
    ASSUME NEW c, NEW old, NEW new, \A q \in Paths : old[q] # None => new[q] # None
    PROVE  /\ \A s : s \in Seq(MadeMounts(c, old)) => s \in Seq(MadeMounts(c, new))
           /\ \A s : s \in Seq(NextMounts(c, old)) => s \in Seq(NextMounts(c, new))
<1>1. MadeMounts(c, old) \subseteq MadeMounts(c, new) BY DEF MadeMounts
<1>2. NextMounts(c, old) \subseteq NextMounts(c, new) BY DEF NextMounts
<1> QED BY <1>1, <1>2, SeqMonotonic

\* The invariant of launches: what is mounted and what is still to be mounted is of
\* the configuration, and there.
LaunchOf(c) ==
    /\ Follows(c)
    /\ phase # "failed"
    /\ phase \in {"launching", "running"} =>
          table \in Seq(MadeMounts(c, host)) /\ todo \in Seq(NextMounts(c, host))
    /\ phase \notin {"launching", "running"} => table = << >>

\* A host to which directories are added follows its configuration still.
LEMMA FollowsOn ==
    ASSUME NEW c, Follows(c), config' = config,
           \A q \in Paths : host'[q] = host[q] \/ (host[q] = None /\ host'[q] = Dir)
    PROVE  Follows(c)' /\ \A q \in Paths : host[q] # None => host'[q] # None
<1>1. SameLinks(Paths, c.host, host')
  <2> SUFFICES ASSUME NEW q \in Paths, c.host[q].kind = "link" \/ host'[q].kind = "link"
               PROVE  host'[q] = c.host[q]
    BY DEF SameLinks
  <2>1. c.host[q].kind = "link" \/ host[q].kind = "link" => host[q] = c.host[q]
    BY DEF Follows, SameLinks
  <2> QED BY <2>1, NodeKinds
<1>2. \A q \in Paths : host[q] # None => host'[q] # None BY NodeKinds
<1>3. \A q \in Paths : c.host[q] # None => host'[q] # None BY <1>2 DEF Follows
<1>4. config' = [protect |-> c.protect, ensure |-> c.ensure] BY DEF Follows
<1> QED BY <1>1, <1>2, <1>3, <1>4 DEF Follows

\* A step of a launch that nobody else disturbs.
LEMMA LaunchStep ==
    ASSUME ViewsApart, LinksShown, ReadOnlyWhole, NEW c \in Configs,
           SandboxInv, LaunchOf(c), [Next]_vars, Undisturbed'
    PROVE  LaunchOf(c)' /\ Undisturbed
<1>0. /\ Follows(c) /\ host \in [Paths -> Nodes] /\ host[Visible] = Dir
      /\ table \in Seq(ViewMounts) /\ todo \in Seq(ViewMounts)
      /\ phase = "launching" => todo # << >>
      /\ \A q \in made : IsStrictPrefix(Visible, q)
      /\ changes \in Nat /\ c.host \in [Paths -> Nodes]
  BY SandboxAssumption DEF LaunchOf, SandboxInv, TypeOK
<1>n. ~(\E p \in Fickle : HostChanges(p))
  <2> SUFFICES ASSUME NEW p \in Fickle, HostChanges(p) PROVE FALSE OBVIOUS
  <2>1. changes' = changes + 1 BY DEF HostChanges
  <2>2. changes' = 0 BY DEF Undisturbed
  <2> QED BY <1>0, <2>1, <2>2
<1>u. Undisturbed
  BY <1>n DEF Next, CreateSession, Prepare, Launch, MountNext, MountFails, Resume,
              KeepState, vars, Undisturbed
<1>s. ASSUME host' = host, config' = config PROVE Follows(c)'
  BY <1>0, <1>s, FollowsOn
<1>1. CASE CreateSession \/ Resume
  <2>1. /\ host' = host /\ config' = config /\ phase' \in {"created", "resumed"}
        /\ table' = << >>
    BY <1>1 DEF CreateSession, Resume, LaunchOf
  <2> QED BY <1>s, <1>u, <2>1 DEF LaunchOf
<1>2. CASE Prepare
  <2>1. /\ config' = config /\ phase' = "mounted" /\ table' = << >>
        /\ \A q \in Paths : host'[q] = host[q] \/ (host[q] = None /\ host'[q] = Dir)
    BY <1>2 DEF Prepare, LaunchOf
  <2> QED BY <1>0, <1>u, <2>1, FollowsOn DEF LaunchOf
<1>3. CASE Launch
  <2>1. host' = host /\ config' = config /\ phase' = "launching" /\ todo' = Command
    BY <1>3 DEF Launch
  <2>2. Command \in Seq(NextMounts(c, host)) BY <1>0, CommandNext
  <2>3. table' \in Seq(MadeMounts(c, host))
    <3>1. table' = << >> BY <1>3 DEF Launch, LaunchOf
    <3> QED BY <3>1, EmptySeq
  <2> QED BY <1>s, <1>u, <2>1, <2>2, <2>3 DEF LaunchOf
<1>4. CASE MountNext
  <2> DEFINE op == Head(todo)
             dst == SandboxReal(op.dst)
             m == [op EXCEPT !.dst = dst]
  <2>1. /\ table \in Seq(MadeMounts(c, host)) /\ todo \in Seq(NextMounts(c, host))
        /\ phase = "launching" /\ todo # << >>
    BY <1>0, <1>4 DEF LaunchOf, MountNext
  <2>2. op \in NextMounts(c, host) /\ Tail(todo) \in Seq(NextMounts(c, host))
    BY <2>1, HeadTailProperties
  <2>3. op.dst \in Places(c) /\ op.dst \in RawPaths
    BY <2>2 DEF NextMounts, ViewMounts, Mounts
  <2>4. dst \in RawPaths /\ dst \in Led(c.host, op.dst)
    BY <1>0, <2>1, <2>3, RealTyped, RealLed
  <2>5. op.via = "view" => dst = op.dst
    <3>1. ASSUME op.via = "view" PROVE op.dst \in {Visible, Home}
      <4>1. op \in {Views[1], Views[2]} BY <2>2, <3>1 DEF NextMounts
      <4> QED BY <4>1, PathsTyped DEF Views, Bind
    <3>2. \A p \in {Visible, Home} : Led(c.host, p) = {p} BY DEF ViewsApart, Led
    <3> HIDE DEF op, dst
    <3> QED BY <2>4, <3>1, <3>2
  <2>6. /\ Makes(Missing(dst)) /\ todo' = Tail(todo) /\ config' = config
        /\ table' = IF op.op = "dir" THEN table ELSE Append(table, m)
        /\ phase' \in {"launching", "running"}
    BY <1>4, <2>1 DEF MountNext
  <2> HIDE DEF op, dst
  <2>7. op.op # "dir" => m \in MadeMounts(c, host) BY <2>2, <2>4, <2>5, NextIsMade
  <2> HIDE DEF m
  <2>8. table' \in Seq(MadeMounts(c, host)) BY <2>1, <2>6, <2>7
  <2>9. \A q \in Paths : host'[q] = host[q] \/ (host[q] = None /\ host'[q] = Dir)
    BY <1>0, <2>4, <2>6, MakesGrows
  <2>10. Follows(c)' /\ \A q \in Paths : host[q] # None => host'[q] # None
    BY <1>0, <2>6, <2>9, FollowsOn
  <2>11. /\ table' \in Seq(MadeMounts(c, host'))
         /\ todo' \in Seq(NextMounts(c, host'))
    BY <2>2, <2>6, <2>8, <2>10, MountsKept
  <2> QED BY <1>u, <2>6, <2>10, <2>11 DEF LaunchOf
<1>5. CASE MountFails
  <2>1. /\ table \in Seq(MadeMounts(c, host)) /\ todo \in Seq(NextMounts(c, host))
        /\ todo # << >>
    BY <1>0, <1>5 DEF LaunchOf, MountFails
  <2>2. Head(todo) \in NextMounts(c, host) BY <2>1, HeadTailProperties
  <2>3. CanMount(Head(todo)) BY <1>0, <2>1, <2>2, NextCanMount
  <2> QED BY <1>5, <2>3 DEF MountFails
<1>6. ASSUME NEW p \in RuntimeState, KeepState(p) PROVE LaunchOf(c)'
  <2>1. /\ table \in Seq(MadeMounts(c, host)) /\ todo \in Seq(NextMounts(c, host))
        /\ table' = table /\ todo' = todo /\ phase' = "running" /\ config' = config
        /\ Makes(Missing(SandboxReal(p)))
    BY <1>6 DEF LaunchOf, KeepState
  <2>2. SandboxReal(p) \in RawPaths BY <1>0, RealTyped, SandboxAssumption
  <2>3. \A q \in Paths : host'[q] = host[q] \/ (host[q] = None /\ host'[q] = Dir)
    BY <1>0, <2>1, <2>2, MakesGrows
  <2>4. Follows(c)' /\ \A q \in Paths : host[q] # None => host'[q] # None
    BY <1>0, <2>1, <2>3, FollowsOn
  <2>5. /\ table' \in Seq(MadeMounts(c, host'))
        /\ todo' \in Seq(NextMounts(c, host'))
    BY <2>1, <2>4, MountsKept
  <2> QED BY <2>1, <2>4, <2>5 DEF LaunchOf
<1>7. CASE UNCHANGED vars
  <2>1. host' = host /\ config' = config /\ phase' = phase /\ table' = table /\ todo' = todo
    BY <1>7 DEF vars
  <2> QED BY <1>0, <1>s, <1>u, <2>1 DEF LaunchOf
<1> QED BY <1>1, <1>2, <1>3, <1>4, <1>5, <1>6, <1>7, <1>n, <1>u DEF Next

\* How a session starts.
LEMMA LaunchStart == Init => \E c \in Configs : LaunchOf(c)
<1> SUFFICES ASSUME Init PROVE \E c \in Configs : LaunchOf(c) OBVIOUS
<1>1. PICK c \in Configs : /\ host = c.host
                           /\ config = [protect |-> c.protect, ensure |-> c.ensure]
  BY DEF Init
<1>2. Follows(c) BY <1>1 DEF Follows, SameLinks
<1> QED BY <1>2 DEF Init, LaunchOf

\* A launch never fails for what is missing on the host: whatever links there are,
\* the source of each mount of the command line is there and its place is, or can
\* be made (_optional_ro_bind(), _optional_rw_agent_state_bind(): "skip missing
\* optional paths so bwrap is never handed a source that would make launch fail"),
\* the first time and after every resume.
THEOREM LaunchesSucceed ==
    ASSUME ViewsApart, LinksShown, ReadOnlyWhole
    PROVE  Spec => []LaunchSucceeds
<1> DEFINE Inv == SandboxInv /\ (Undisturbed => \E c \in Configs : LaunchOf(c))
<1>1. Init => Inv BY SandboxStart, LaunchStart
<1>2. Inv /\ [Next]_vars => Inv'
  <2> SUFFICES ASSUME Inv, [Next]_vars PROVE Inv' OBVIOUS
  <2>1. SandboxInv' BY SandboxStep
  <2>2. ASSUME Undisturbed' PROVE \E c \in Configs : LaunchOf(c)'
    <3>1. Undisturbed
      <4>1. changes \in Nat BY DEF SandboxInv, TypeOK
      <4>2. changes' = changes \/ changes' = changes + 1
        BY DEF Next, CreateSession, Prepare, Launch, MountNext, MountFails, Resume,
               KeepState, HostChanges, vars
      <4>3. changes' = 0 BY <2>2 DEF Undisturbed
      <4> QED BY <4>1, <4>2, <4>3 DEF Undisturbed
    <3>2. PICK c \in Configs : LaunchOf(c) BY <3>1
    <3>3. LaunchOf(c)' BY <2>2, <3>2, LaunchStep
    <3> QED BY <3>3
  <2> QED BY <2>1, <2>2
<1>3. Inv => LaunchSucceeds BY DEF LaunchOf, LaunchSucceeds
<1> QED BY <1>1, <1>2, <1>3, PTL DEF Spec

-----------------------------------------------------------------------------
\* What is on the command line, and in which order.

\* What is in two sequences is in their concatenation, and nothing else.
LEMMA ConcatRange ==
    ASSUME NEW S, NEW s \in Seq(S), NEW t \in Seq(S)
    PROVE  s \o t \in Seq(S) /\ Range(s \o t) = Range(s) \cup Range(t)
<1> DEFINE u == s \o t
<1>1. /\ Len(s) \in Nat /\ Len(t) \in Nat /\ u \in Seq(S) /\ Len(u) = Len(s) + Len(t)
      /\ \A i \in 1 .. Len(s) + Len(t) : u[i] = IF i <= Len(s) THEN s[i] ELSE t[i - Len(s)]
  BY ConcatProperties
<1> HIDE DEF u
<1>2. /\ \A i \in 1 .. Len(u) : u[i] \in Range(u)
      /\ \A x \in Range(u) : \E i \in 1 .. Len(u) : x = u[i]
      /\ \A i \in 1 .. Len(s) : s[i] \in Range(s)
      /\ \A x \in Range(s) : \E i \in 1 .. Len(s) : x = s[i]
      /\ \A i \in 1 .. Len(t) : t[i] \in Range(t)
      /\ \A x \in Range(t) : \E i \in 1 .. Len(t) : x = t[i]
  <2>1. \A r \in Seq(S) : /\ \A i \in 1 .. Len(r) : r[i] \in Range(r)
                          /\ \A x \in Range(r) : \E i \in 1 .. Len(r) : x = r[i]
    BY RangeOf
  <2> QED BY <1>1, <2>1
<1>3. ASSUME NEW x \in Range(s) PROVE x \in Range(u)
  <2>1. PICK i \in 1 .. Len(s) : x = s[i] BY <1>2
  <2>2. i \in 1 .. Len(s) + Len(t) /\ i \in 1 .. Len(u) /\ i <= Len(s) BY <1>1
  <2> QED BY <1>1, <1>2, <2>1, <2>2
<1>4. ASSUME NEW x \in Range(t) PROVE x \in Range(u)
  <2>1. PICK i \in 1 .. Len(t) : x = t[i] BY <1>2
  <2>2. /\ Len(s) + i \in 1 .. Len(s) + Len(t) /\ Len(s) + i \in 1 .. Len(u)
        /\ ~(Len(s) + i <= Len(s)) /\ Len(s) + i - Len(s) = i
    BY <1>1
  <2>3. u[Len(s) + i] = t[i] BY <1>1, <2>2
  <2> QED BY <1>2, <2>1, <2>2, <2>3
<1>5. ASSUME NEW x \in Range(u) PROVE x \in Range(s) \cup Range(t)
  <2>1. PICK i \in 1 .. Len(u) : x = u[i] BY <1>2
  <2>2. i \in 1 .. Len(s) + Len(t) BY <1>1
  <2>3. CASE i <= Len(s)
    <3>1. i \in 1 .. Len(s) BY <1>1, <2>2, <2>3
    <3> QED BY <1>1, <1>2, <2>1, <2>2, <2>3, <3>1
  <2>4. CASE ~(i <= Len(s))
    <3>1. i - Len(s) \in 1 .. Len(t) BY <1>1, <2>2, <2>4
    <3> QED BY <1>1, <1>2, <2>1, <2>2, <2>4, <3>1
  <2> QED BY <2>3, <2>4
<1>6. u \in Seq(S) /\ Range(u) = Range(s) \cup Range(t) BY <1>1, <1>3, <1>4, <1>5
<1> QED BY <1>6 DEF u

\* Flattening loses nothing.
LEMMA FlattenRange ==
    ASSUME NEW S, NEW ss \in Seq(Seq(S)), NEW i \in 1 .. Len(ss), NEW x \in Range(ss[i])
    PROVE  x \in Range(FlattenSeq(ss))
<1> DEFINE len == Len(ss)
<1>0. len \in Nat \ {0} BY LenProperties
<1>1. PICK f : /\ f = [k \in 1 .. len |-> IF k = 1 THEN ss[k] ELSE f[k - 1] \o ss[k]]
               /\ FlattenSeq(ss) = f[len]
  BY <1>0, FlattenFunction
<1>2. \A k \in 1 .. len : ss[k] \in Seq(S) BY ElementOfSeq
<1>i. i \in 1 .. len OBVIOUS
<1> HIDE DEF len
<1>3. \A k \in 1 .. len : f[k] = IF k = 1 THEN ss[k] ELSE f[k - 1] \o ss[k] BY <1>1
<1> DEFINE Good == {k \in Nat : k \in 1 .. len =>
                       f[k] \in Seq(S) /\ (i <= k => x \in Range(f[k]))}
<1>4. 0 \in Good OBVIOUS
<1>5. ASSUME NEW k \in 0 .. len, k < len, k \in Good PROVE k + 1 \in Good
  <2>1. k + 1 \in 1 .. len /\ ss[k + 1] \in Seq(S) BY <1>0, <1>2, <1>5
  <2>2. CASE k = 0
    <3>0. k + 1 = 1 BY <2>2
    <3>1. f[k + 1] = ss[k + 1] BY <1>3, <2>1, <3>0
    <3>2. i <= k + 1 => i = k + 1 BY <1>0, <1>i, <2>2
    <3> QED BY <2>1, <3>1, <3>2
  <2>3. CASE k # 0
    <3>1. k \in 1 .. len /\ k + 1 # 1 /\ (k + 1) - 1 = k BY <1>0, <1>5, <2>3
    <3>2. f[k + 1] = f[k] \o ss[k + 1] BY <1>3, <2>1, <3>1
    <3>3. f[k] \in Seq(S) /\ (i <= k => x \in Range(f[k])) BY <1>5, <3>1
    <3>4. f[k + 1] \in Seq(S) /\ Range(f[k + 1]) = Range(f[k]) \cup Range(ss[k + 1])
      BY <2>1, <3>2, <3>3, ConcatRange
    <3>5. i <= k + 1 => i <= k \/ i = k + 1 BY <1>0, <1>i, <3>1
    <3> QED BY <2>1, <3>3, <3>4, <3>5
  <2> QED BY <2>2, <2>3
<1>6. 0 .. len \subseteq Good
  <2> HIDE DEF Good
  <2> QED BY <1>0, <1>4, <1>5, UpTo
<1>7. len \in Good /\ len \in 1 .. len /\ i <= len BY <1>0, <1>6, <1>i
<1>8. x \in Range(f[len]) BY <1>7
<1> QED BY <1>1, <1>8

\* A finite set as a sequence has all of it.
LEMMA AllInSequence ==
    ASSUME NEW S, IsFiniteSet(S), NEW x \in S
    PROVE  x \in Range(SetToSeq(S))
<1> DEFINE n == Cardinality(S)
           s == SetToSeq(S)
<1>1. n \in Nat /\ ExistsBijection(1 .. n, S) BY FS_CardinalityType
<1>2. \E f \in [1 .. n -> S] : IsInjective(f)
  BY <1>1 DEF ExistsBijection, Bijection, Injection, IsInjective
<1>3. s \in [1 .. n -> S] /\ IsInjective(s) BY <1>2 DEF SetToSeq
<1>4. IsFiniteSet(1 .. n) /\ Cardinality(1 .. n) = n
  <2>1. 1 \in Int /\ n \in Int BY <1>1
  <2>2. /\ IsFiniteSet(1 .. n)
        /\ Cardinality(1 .. n) = IF 1 > n THEN 0 ELSE n - 1 + 1
    BY <2>1, FS_Interval
  <2> HIDE DEF n
  <2> QED BY <1>1, <2>2
<1> HIDE DEF s
<1>5. s \in Injection(1 .. n, S) BY <1>3 DEF Injection, IsInjective
<1>6. s \in Surjection(1 .. n, S) BY <1>4, <1>5, FS_Injection
<1>7. PICK i \in 1 .. n : s[i] = x BY <1>6 DEF Surjection
<1>8. x \in Range(s) BY <1>3, <1>7 DEF Range
<1> QED BY <1>8 DEF s

\* A bind of a list is in the mounts of the list.
LEMMA HostBindsHas ==
    ASSUME NEW T, NEW binds \in Seq(T), NEW rw, NEW b \in Range(binds)
    PROVE  Bind("host", Canonical(b.src), b.dst, rw) \in Range(HostBinds(binds, rw))
<1>1. PICK i \in DOMAIN binds : b = binds[i] BY DEF Range
<1>2. /\ DOMAIN HostBinds(binds, rw) = DOMAIN binds
      /\ HostBinds(binds, rw)[i] = Bind("host", Canonical(b.src), b.dst, rw)
  BY <1>1 DEF HostBinds
<1> QED BY <1>2 DEF Range

\* What is there is not skipped.
LEMMA OptionalBindsHas ==
    ASSUME NEW binds \in Seq(Binds), NEW rw, NEW b \in Range(binds),
           HostNode(HostReal(b.src)) # None,
           HostReal(b.dst) # b.dst => HostNode(HostReal(b.dst)) # None
    PROVE  Bind("host", Canonical(HostReal(b.src)), HostReal(b.dst), rw)
              \in Range(OptionalBinds(binds, rw))
<1> DEFINE real(x) == [src |-> HostReal(x.src), dst |-> HostReal(x.dst)]
           T == {real(x) : x \in Range(binds)}
           ss == [i \in DOMAIN binds |-> Optional(binds[i])]
           r == real(b)
<1>1. /\ DOMAIN binds = 1 .. Len(binds) /\ Len(binds) \in Nat
      /\ \A i \in 1 .. Len(binds) : binds[i] \in Range(binds)
      /\ \E i \in 1 .. Len(binds) : b = binds[i]
  BY RangeOf
<1>2. ASSUME NEW x \in Range(binds) PROVE Optional(x) \in Seq(T)
  <2> DEFINE y == real(x)
  <2>1. y \in T OBVIOUS
  <2>2. Optional(x) = << y >> \/ Optional(x) = << >> BY DEF Optional
  <2> HIDE DEF y, T
  <2>3. << y >> \in Seq(T) BY <2>1
  <2> QED BY <2>2, <2>3, EmptySeq
<1>3. Optional(b) = << r >> BY DEF Optional
<1>4. ss \in Seq(Seq(T)) /\ Len(ss) = Len(binds)
  <2>1. ss \in [1 .. Len(binds) -> Seq(T)]
    <3> HIDE DEF T
    <3> QED BY <1>1, <1>2
  <2> HIDE DEF ss, T
  <2> QED BY <1>1, <2>1, SequenceOf
<1>5. PICK i \in 1 .. Len(ss) : ss[i] = << r >>
  <2>1. PICK i \in 1 .. Len(binds) : b = binds[i] BY <1>1
  <2>2. ss[i] = << r >> BY <1>1, <1>3, <2>1
  <2> QED BY <1>4, <2>2
<1>6. r \in Range(ss[i])
  <2> HIDE DEF ss, r
  <2>1. 1 \in DOMAIN << r >> /\ << r >>[1] = r OBVIOUS
  <2> QED BY <1>5, <2>1 DEF Range
<1>7. r \in Range(FlattenSeq(ss)) /\ FlattenSeq(ss) \in Seq(T)
  <2> HIDE DEF ss, T, r
  <2> QED BY <1>4, <1>6, FlattenRange, FlattenElements
<1>8. Bind("host", Canonical(r.src), r.dst, rw) \in Range(HostBinds(FlattenSeq(ss), rw))
  <2> HIDE DEF ss, T, r
  <2> QED BY <1>7, HostBindsHas
<1>9. r.src = HostReal(b.src) /\ r.dst = HostReal(b.dst) OBVIOUS
<1>10. OptionalBinds(binds, rw) = HostBinds(FlattenSeq(ss), rw) BY DEF OptionalBinds
<1> HIDE DEF ss, T, r
<1> QED BY <1>8, <1>9, <1>10

\* The mounts that share the agent's state: of what is there, and of the state
\* directories that links in it lead into.
StateDue ==
    {Bind("host", Canonical(HostReal(b.src)), HostReal(b.dst), TRUE) :
        b \in {x \in Range(StateBinds) : HostNode(HostReal(x.src)) # None}}
    \cup {Bind("host", t, t, TRUE) : t \in LinkedState}

\* They are among the shared state's.
LEMMA SharedHas ==
    ASSUME host \in [Paths -> Nodes], ~config.protect, NEW m \in StateDue,
           \A b \in Range(StateBinds) : HostNode(HostReal(b.src)) # None =>
              (HostReal(b.dst) # b.dst => HostNode(HostReal(b.dst)) # None)
    PROVE  m \in Range(SharedState)
<1> DEFINE linked == SetToSeq(LinkedState)
           same == [i \in DOMAIN linked |-> [src |-> linked[i], dst |-> linked[i]]]
           T == {[src |-> t, dst |-> t] : t \in LinkedState}
           own == OptionalBinds(StateBinds, TRUE)
           other == HostBinds(same, TRUE)
           mount(b) == Bind("host", Canonical(HostReal(b.src)), HostReal(b.dst), TRUE)
           at(t) == Bind("host", Canonical(t), t, TRUE)
           A == {mount(b) : b \in Range(StateBinds)} \cup {at(t) : t \in LinkedState}
<1>1. SharedState = own \o other BY DEF SharedState
<1>2. own \in Seq(A)
  <2>1. \A b \in Range(StateBinds) : mount(b) \in A OBVIOUS
  <2> HIDE DEF A
  <2> QED BY <2>1, OptionalBindsIn, SandboxAssumption
<1>3. IsFiniteSet(LinkedState) BY LinkedPaths, SandboxAssumption, FS_Subset
<1>4. linked \in Seq(LinkedState) BY <1>3, AsSequence
<1>5. /\ DOMAIN linked = 1 .. Len(linked) /\ Len(linked) \in Nat
      /\ \A i \in 1 .. Len(linked) : linked[i] \in LinkedState
  <2> HIDE DEF linked
  <2> QED BY <1>4, RangeOf
<1>6. same \in Seq(T)
  <2>1. same \in [1 .. Len(linked) -> T]
    <3> HIDE DEF linked
    <3> QED BY <1>5
  <2> HIDE DEF same, T, linked
  <2> QED BY <1>5, <2>1, SequenceOf
<1>7. ASSUME NEW b \in T PROVE Bind("host", Canonical(b.src), b.dst, TRUE) \in A
  <2>1. PICK t \in LinkedState : b = [src |-> t, dst |-> t] OBVIOUS
  <2>2. b.src = t /\ b.dst = t BY <2>1
  <2>3. at(t) \in A OBVIOUS
  <2> HIDE DEF T, A
  <2> QED BY <2>2, <2>3
<1>8. other \in Seq(A)
  <2> HIDE DEF same, T, A
  <2> QED BY <1>6, <1>7, HostBindsIn
<1>9. Range(SharedState) = Range(own) \cup Range(other)
  <2> HIDE DEF own, other, A
  <2> QED BY <1>1, <1>2, <1>8, ConcatRange
<1>10. CASE \E b \in Range(StateBinds) :
               /\ HostNode(HostReal(b.src)) # None
               /\ m = Bind("host", Canonical(HostReal(b.src)), HostReal(b.dst), TRUE)
  <2>1. PICK b \in Range(StateBinds) :
               /\ HostNode(HostReal(b.src)) # None
               /\ m = Bind("host", Canonical(HostReal(b.src)), HostReal(b.dst), TRUE)
    BY <1>10
  <2>2. m \in Range(own) BY <2>1, OptionalBindsHas, SandboxAssumption
  <2> QED BY <1>9, <2>2
<1>11. CASE \E t \in LinkedState : m = Bind("host", t, t, TRUE)
  <2>1. PICK t \in LinkedState : m = Bind("host", t, t, TRUE) BY <1>11
  <2>2. t \in Range(linked) BY <1>3, AllInSequence
  <2>3. PICK i \in DOMAIN linked : linked[i] = t BY <2>2 DEF Range
  <2> DEFINE b == [src |-> t, dst |-> t]
  <2>4. DOMAIN same = DOMAIN linked /\ same[i] = b BY <2>3
  <2>5. b \in Range(same)
    <3> HIDE DEF same, b
    <3> QED BY <2>3, <2>4 DEF Range
  <2>6. Bind("host", Canonical(b.src), b.dst, TRUE) \in Range(other)
    <3> HIDE DEF same, b, T
    <3> QED BY <1>6, <2>5, HostBindsHas
  <2>7. b.src = t /\ b.dst = t OBVIOUS
  <2>8. Canonical(t) = t BY LinkedPaths, SandboxAssumption
  <2> HIDE DEF b, other
  <2> QED BY <1>9, <2>1, <2>6, <2>7, <2>8
<1> QED BY <1>10, <1>11 DEF StateDue

-----------------------------------------------------------------------------
\* The agent's own state is shared.

\* In a sequence of mounts the views come before what is writable of the host.
ViewsFirst(s) ==
    \A i, j \in 1 .. Len(s) :
       (s[i].via = "host" /\ s[i].rw /\ s[j].via = "view") => j < i

\* They still do when mounts follow that are no views,
LEMMA ViewsBefore ==
    ASSUME NEW S, NEW s \in Seq(S), NEW t \in Seq(S), ViewsFirst(s),
           \A j \in 1 .. Len(t) : t[j].via # "view"
    PROVE  s \o t \in Seq(S) /\ ViewsFirst(s \o t)
<1> DEFINE u == s \o t
<1>1. /\ Len(s) \in Nat /\ Len(t) \in Nat /\ u \in Seq(S) /\ Len(u) = Len(s) + Len(t)
      /\ \A i \in 1 .. Len(s) + Len(t) : u[i] = IF i <= Len(s) THEN s[i] ELSE t[i - Len(s)]
  BY ConcatProperties
<1> HIDE DEF u
<1>2. ASSUME NEW i \in 1 .. Len(u), NEW j \in 1 .. Len(u),
             u[i].via = "host", u[i].rw, u[j].via = "view"
      PROVE  j < i
  <2>1. j <= Len(s)
    <3> SUFFICES ASSUME ~(j <= Len(s)) PROVE FALSE OBVIOUS
    <3>1. u[j] = t[j - Len(s)] /\ j - Len(s) \in 1 .. Len(t) BY <1>1
    <3> QED BY <1>2, <3>1
  <2>2. j \in 1 .. Len(s) /\ u[j] = s[j] BY <1>1, <2>1
  <2>3. CASE i <= Len(s)
    <3>1. i \in 1 .. Len(s) /\ u[i] = s[i] BY <1>1, <2>3
    <3> QED BY <1>2, <2>2, <3>1 DEF ViewsFirst
  <2>4. CASE ~(i <= Len(s)) BY <1>1, <2>1, <2>4
  <2> QED BY <2>3, <2>4
<1>3. ViewsFirst(u) BY <1>2 DEF ViewsFirst
<1> QED BY <1>1, <1>3 DEF u

\* and when mounts come before that are not writable.
LEMMA ReadOnlyBefore ==
    ASSUME NEW S, NEW s \in Seq(S),
           \A i \in 1 .. Len(s) : ~(s[i].via = "host" /\ s[i].rw)
    PROVE  ViewsFirst(s)
BY DEF ViewsFirst

\* On the command line the views come first, and the shared state is there.
LEMMA CommandShared ==
    ASSUME host \in [Paths -> Nodes], ~config.protect,
           \A b \in Range(StateBinds) : HostNode(HostReal(b.src)) # None =>
              (HostReal(b.dst) # b.dst => HostNode(HostReal(b.dst)) # None)
    PROVE  /\ ViewsFirst(Command)
           /\ \A m \in StateDue \cup {Views[1], Views[2]} : m \in Range(Command)
<1>0. /\ \A b \in Range(SystemDirs) : b \in Binds
      /\ \A b \in Range(RuntimeBinds) : b \in Binds
      /\ \A b \in Range(StateBinds) : b \in Binds
      /\ \A m \in Range(Masks) : m \in RawPaths
      /\ \A d \in Range(Plugin.ensure_dirs) : d \in RawPaths
  BY RangeOf, SandboxAssumption
<1> DEFINE Other == {m \in ViewMounts : m.via # "view"}
           Read == {m \in ViewMounts : m.via = "host" /\ ~m.rw}
           system == HostBinds(SystemDirs, FALSE)
           runtime == OptionalBinds(RuntimeBinds, FALSE)
<1>1. ASSUME NEW path \in RawPaths, NEW dst \in RawPaths
      PROVE  /\ Bind("host", path, dst, FALSE) \in Read
             /\ Bind("host", path, dst, TRUE) \in Other
             /\ Bind("host", path, dst, FALSE) \in Other
             /\ Bind("null", path, dst, FALSE) \in Other
             /\ MakeDir(dst) \in Other
  <2>1. /\ Bind("host", path, dst, FALSE).rw = FALSE
        /\ Bind("host", path, dst, FALSE).via = "host"
        /\ Bind("host", path, dst, TRUE).via = "host"
        /\ Bind("null", path, dst, FALSE).via = "null"
        /\ MakeDir(dst).via = "none"
    BY DEF Bind, MakeDir
  <2>2. "host" # "view" /\ "null" # "view" /\ "none" # "view" OBVIOUS
  <2> QED BY <2>1, <2>2, BindTyped
<1>2. system \in Seq(Read)
  <2>1. \A b \in Range(SystemDirs) : Bind("host", Canonical(b.src), b.dst, FALSE) \in Read
    BY <1>0, <1>1, PathsTyped DEF Binds
  <2>2. SystemDirs \in Seq(Range(SystemDirs)) BY OwnRange, SandboxAssumption
  <2> HIDE DEF Read
  <2> QED BY <2>1, <2>2, HostBindsIn
<1>3. SharedState \in Seq(Other)
  <2>1. ASSUME NEW b \in Range(StateBinds)
        PROVE  Bind("host", Canonical(HostReal(b.src)), HostReal(b.dst), TRUE) \in Other
    BY <1>1, StateBindsTyped
  <2>2. ASSUME NEW t \in LinkedState PROVE Bind("host", Canonical(t), t, TRUE) \in Other
    BY <1>1, LinkedPaths, PathsTyped
  <2> HIDE DEF Other
  <2> QED BY <2>1, <2>2, SharedIn
<1>4. runtime \in Seq(Other)
  <2>1. ASSUME NEW b \in Range(RuntimeBinds)
        PROVE  Bind("host", Canonical(HostReal(b.src)), HostReal(b.dst), FALSE) \in Other
    BY <1>0, <1>1, HostTyped, PathsTyped DEF Binds, HostReal
  <2> HIDE DEF Other
  <2> QED BY <2>1, OptionalBindsIn, SandboxAssumption
<1>5. MaskBinds \in Seq(Other)
  <2>1. \A m \in Range(Masks) : Bind("null", << >>, m, FALSE) \in Other
    BY <1>0, <1>1, PathsTyped
  <2> HIDE DEF Other
  <2> QED BY <2>1, MasksIn
<1>6. PluginBinds \in Seq(Other)
  <2>1. \A d \in Range(Plugin.ensure_dirs) : MakeDir(d) \in Other BY <1>0, <1>1, PathsTyped
  <2>2. PluginMount \in Other
    BY <1>1, HostTyped, PathsTyped, SandboxAssumption DEF PluginMount, HostReal
  <2> HIDE DEF Other
  <2> QED BY <2>1, <2>2, PluginIn
<1>7. Views \in Seq(ViewMounts) /\ Len(Views) = 2
  <2>1. Views = << Views[1], Views[2] >> BY DEF Views
  <2>2. Views[1] \in ViewMounts /\ Views[2] \in ViewMounts BY ViewsTyped
  <2> QED BY <2>1, <2>2, PairOf
<1>8. Views[1].via = "view" /\ Views[2].via = "view" BY DEF Views, Bind
<1>9. \A s \in Seq(Other) : /\ s \in Seq(ViewMounts)
                            /\ \A j \in 1 .. Len(s) : s[j].via # "view"
  <2>1. Other \subseteq ViewMounts /\ \A m \in Other : m.via # "view" OBVIOUS
  <2> HIDE DEF Other
  <2> QED BY <2>1, SeqMonotonic, RangeOf
<1>10. system \in Seq(ViewMounts) /\ \A i \in 1 .. Len(system) : ~system[i].rw
  <2>1. Read \subseteq ViewMounts /\ \A m \in Read : ~m.rw OBVIOUS
  <2> HIDE DEF Read, system
  <2> QED BY <1>2, <2>1, SeqMonotonic, RangeOf
<1> DEFINE c1 == system \o Views
           c2 == c1 \o SharedState
           c3 == c2 \o runtime
           c4 == c3 \o MaskBinds
           c5 == c4 \o PluginBinds
<1>11. Command = c5 BY DEF Command
<1> HIDE DEF system, runtime, Other, Read
<1>12. c1 \in Seq(ViewMounts) /\ ViewsFirst(c1) /\ Range(Views) \subseteq Range(c1)
  <2>1. /\ Len(system) \in Nat /\ c1 \in Seq(ViewMounts) /\ Len(c1) = Len(system) + 2
        /\ \A i \in 1 .. Len(system) + 2 :
              c1[i] = IF i <= Len(system) THEN system[i] ELSE Views[i - Len(system)]
    <3>1. /\ Len(system) \in Nat /\ c1 \in Seq(ViewMounts)
          /\ Len(c1) = Len(system) + Len(Views)
          /\ \A i \in 1 .. Len(system) + Len(Views) :
                c1[i] = IF i <= Len(system) THEN system[i] ELSE Views[i - Len(system)]
      <4> DEFINE v == Views
      <4>1. v \in Seq(ViewMounts) BY <1>7
      <4> HIDE DEF v
      <4>2. LET u == system \o v
            IN  /\ Len(system) \in Nat /\ u \in Seq(ViewMounts)
                /\ Len(u) = Len(system) + Len(v)
                /\ \A i \in 1 .. Len(system) + Len(v) :
                      u[i] = IF i <= Len(system) THEN system[i] ELSE v[i - Len(system)]
        BY <1>10, <4>1, ConcatProperties
      <4> QED BY <4>2 DEF v
    <3> HIDE DEF c1
    <3> QED BY <1>7, <3>1
  <2>2. \A i \in 1 .. Len(c1) : ~(c1[i].via = "host" /\ c1[i].rw)
    <3> SUFFICES ASSUME NEW i \in 1 .. Len(c1) PROVE ~(c1[i].via = "host" /\ c1[i].rw)
      OBVIOUS
    <3> HIDE DEF c1
    <3>1. CASE i <= Len(system)
      <4>1. i \in 1 .. Len(system) /\ c1[i] = system[i] BY <2>1, <3>1
      <4> QED BY <1>10, <4>1
    <3>2. CASE ~(i <= Len(system))
      <4>1. i - Len(system) \in {1, 2} /\ c1[i] = Views[i - Len(system)] BY <2>1, <3>2
      <4>2. c1[i].via = "view" BY <1>8, <4>1
      <4> QED BY <4>2
    <3> QED BY <3>1, <3>2
  <2>3. Range(c1) = Range(system) \cup Range(Views) BY <1>7, <1>10, ConcatRange
  <2> HIDE DEF c1
  <2> QED BY <2>1, <2>2, <2>3, ReadOnlyBefore
<1> HIDE DEF c1
<1>13. c2 \in Seq(ViewMounts) /\ ViewsFirst(c2)
       /\ Range(c2) = Range(c1) \cup Range(SharedState)
  BY <1>3, <1>9, <1>12, ViewsBefore, ConcatRange
<1> HIDE DEF c2
<1>14. c3 \in Seq(ViewMounts) /\ ViewsFirst(c3) /\ Range(c2) \subseteq Range(c3)
  BY <1>4, <1>9, <1>13, ViewsBefore, ConcatRange
<1> HIDE DEF c3
<1>15. c4 \in Seq(ViewMounts) /\ ViewsFirst(c4) /\ Range(c3) \subseteq Range(c4)
  BY <1>5, <1>9, <1>14, ViewsBefore, ConcatRange
<1> HIDE DEF c4
<1>16. c5 \in Seq(ViewMounts) /\ ViewsFirst(c5) /\ Range(c4) \subseteq Range(c5)
  BY <1>6, <1>9, <1>15, ViewsBefore, ConcatRange
<1>17. Views[1] \in Range(Views) /\ Views[2] \in Range(Views) BY <1>7, RangeOf
<1>18. \A m \in StateDue : m \in Range(SharedState) BY SharedHas
<1> HIDE DEF c5
<1> QED BY <1>11, <1>12, <1>13, <1>14, <1>15, <1>16, <1>17, <1>18

\* No made directory is in the place of a link.
NoLinkMade == \A p \in made \cap Paths : host[p].kind # "link"

\* The invariant of sharing: the shared state and the views are mounted or still to
\* be mounted, the views before it.
SharedOf(c) ==
    /\ NoLinkMade
    /\ (phase \in {"launching", "running"} /\ ~c.protect) =>
          /\ \A m \in StateDue \cup {Views[1], Views[2]} : m \in Range(table) \cup Range(todo)
          /\ ViewsFirst(table) /\ ViewsFirst(todo)
          /\ \A i \in 1 .. Len(table), j \in 1 .. Len(todo) :
                ~(table[i].via = "host" /\ table[i].rw /\ todo[j].via = "view")
    /\ phase = "running" => todo = << >>

\* A directory that is made on the host is in the agent's state, but none of the
\* directories that are bound.
LEMMA SourcesStay ==
    ASSUME StateApart, NEW c \in Configs, ~c.protect, SandboxInv,
           table \in Seq(MadeMounts(c, host)),
           NEW p \in RawPaths, Makes(Missing(p)), \A m \in Missing(p) : m.rw,
           NEW n \in StateBound(c), n.path \in Paths
    PROVE  host'[n.path] = host[n.path]
<1>0. /\ host[Visible] = Dir /\ host \in [Paths -> Nodes]
      /\ table \in Seq(ViewMounts) /\ \A q \in made : IsStrictPrefix(Visible, q)
  BY DEF SandboxInv, TypeOK
<1>1. SUFFICES ASSUME host[n.path] = None,
                      NEW m \in Missing(p), m.via = "host", m.path = n.path
               PROVE  FALSE
  BY <1>0, MakesGrows
<1>2. m.rw OBVIOUS
<1>3. PICK q \in Prefixes(p) : m = Place(q) BY DEF Missing
<1>4. PICK i \in 1 .. Len(table) :
             /\ Place(q).via = table[i].via /\ Place(q).rw = table[i].rw
             /\ Place(q).path = table[i].path \o SubSeq(q, Len(table[i].dst) + 1, Len(q))
  <2>1. Place(q).via # "root" BY <1>1, <1>3
  <2> QED BY <1>0, <2>1, PlaceIn
<1> DEFINE t == table[i]
           rest == SubSeq(q, Len(t.dst) + 1, Len(q))
<1>5. t \in MadeMounts(c, host) BY ElementOfSeq
<1>6. t.via = "host" /\ t.rw /\ n.path = t.path \o rest BY <1>1, <1>2, <1>3, <1>4
<1>7. t.dst \in RawPaths BY <1>5 DEF MadeMounts, ViewMounts, Mounts
<1> HIDE DEF t
<1>8. t.path \in Paths /\ host[t.path] # None BY <1>5, <1>6 DEF MadeMounts
<1>9. PICK b \in StateBound(c) \cup ReadBound(c) : t.path = b.path /\ t.rw = b.rw
  BY <1>5, <1>6 DEF MadeMounts
<1>10. b \in StateBound(c)
  <2>1. b \in ReadBound(c) => ~b.rw BY DEF ReadBound, Resolved, Bind
  <2> QED BY <1>6, <1>9, <2>1
<1>11. rest \in RawPaths
  <2>1. Len(t.dst) \in Nat BY <1>7 DEF RawPaths
  <2>2. q \in RawPaths BY <1>3, PrefixSet
  <2> QED BY <2>1, <2>2, RestTyped
<1> HIDE DEF rest
<1>12. IsPrefix(t.path, n.path) BY <1>6, <1>8, <1>11, PathsTyped
<1>13. t.path # n.path BY <1>1, <1>8
<1> QED BY <1>9, <1>10, <1>12, <1>13 DEF StateApart, IsStrictPrefix

\* What shares the agent's state is bound in the configuration.
LEMMA DueBound ==
    ASSUME NEW c \in Configs, Follows(c), ~c.protect, host \in [Paths -> Nodes],
           NEW m \in StateDue
    PROVE  m \in StateBound(c)
<1>1. /\ \A p : HostReal(p) = RealOn(c.host, p)
      /\ \A p \in Paths : host[p].kind = "link" => c.host[p] = host[p]
  BY FollowsReal
<1>2. CASE \E b \in Range(StateBinds) :
              m = Bind("host", Canonical(HostReal(b.src)), HostReal(b.dst), TRUE)
  BY <1>1, <1>2 DEF StateBound, Resolved
<1>3. CASE \E t \in LinkedState : m = Bind("host", t, t, TRUE)
  <2>1. PICK t \in LinkedState : m = Bind("host", t, t, TRUE) BY <1>3
  <2>2. PICK x \in StateLinks : t \in TargetDirs(x[2]) BY DEF LinkedState
  <2>3. x[2] \in Paths /\ host[x[2]].kind = "link" BY <2>2 DEF StateLinks
  <2>4. c.host[x[2]] = host[x[2]] BY <1>1, <2>3
  <2>5. t \in Prefixes(c.host[x[2]].to) \ {<< >>} /\ Last(t) \in StateNames
    BY <2>2, <2>4 DEF TargetDirs
  <2>6. t \in LinkTargets(c) BY <2>3, <2>4, <2>5 DEF LinkTargets
  <2> QED BY <2>1, <2>6 DEF StateBound
<1> QED BY <1>2, <1>3 DEF StateDue

\* As directories are made the agent's state stays what is due.
LEMMA DueStays ==
    ASSUME StateApart, NEW c \in Configs, ~c.protect, SandboxInv, Follows(c),
           table \in Seq(MadeMounts(c, host)),
           NEW p \in RawPaths, Makes(Missing(p)), \A m \in Missing(p) : m.rw
    PROVE  StateDue' \subseteq StateDue
<1>0. /\ host[Visible] = Dir /\ host \in [Paths -> Nodes]
      /\ table \in Seq(ViewMounts) /\ \A q \in made : IsStrictPrefix(Visible, q)
  BY DEF SandboxInv, TypeOK
<1>1. /\ host' \in [Paths -> Nodes]
      /\ \A q \in Paths : host'[q] = host[q] \/ (host[q] = None /\ host'[q] = Dir)
  BY <1>0, MakesGrows
<1>2. SameLinks(Paths, host, host') BY <1>1, NodeKinds DEF SameLinks
<1>3. /\ \A q : HostReal(q) = RealOn(c.host, q)
      /\ \A q \in Paths : host[q].kind = "link" => c.host[q] = host[q]
  BY <1>0, FollowsReal
<1>4. \A q : HostReal(q)' = HostReal(q) BY <1>0, <1>1, <1>2, RealSame DEF HostReal
<1>5. \A n \in StateBound(c) : n.path \in Paths => host'[n.path] = host[n.path]
  BY SourcesStay
<1>6. ASSUME NEW b \in Range(StateBinds), HostNode(HostReal(b.src))' # None
      PROVE  HostNode(HostReal(b.src)) # None
  <2> DEFINE real == HostReal(b.src)
             n == Resolved(c, b, TRUE)
  <2>1. n \in StateBound(c) /\ n.path = Canonical(real)
    BY <1>3 DEF StateBound, Resolved, Bind
  <2>2. HostNode(real)' = NodeOn(host', real) BY <1>4 DEF HostNode
  <2> HIDE DEF real, n
  <2>3. NodeOn(host', real) # None BY <1>6, <2>2 DEF real
  <2>4. NodeOn(host, real) # None BY <1>5, <2>1, <2>3 DEF NodeOn
  <2> QED BY <2>4 DEF HostNode, real
<1>7. ASSUME NEW b \in Range(StateBinds)
      PROVE  Bind("host", Canonical(HostReal(b.src)), HostReal(b.dst), TRUE)'
             = Bind("host", Canonical(HostReal(b.src)), HostReal(b.dst), TRUE)
  BY <1>4
<1>8. StateLinks' = StateLinks
  <2>1. \A q \in Paths : host'[q].kind = "link" <=> host[q].kind = "link"
    BY <1>1, NodeKinds
  <2> QED BY <1>4, <2>1 DEF StateLinks
<1>9. ASSUME NEW x \in StateLinks PROVE TargetDirs(x[2])' \subseteq TargetDirs(x[2])
  <2>1. x[2] \in Paths /\ host[x[2]].kind = "link" BY DEF StateLinks
  <2>2. host'[x[2]] = host[x[2]] /\ c.host[x[2]] = host[x[2]]
    BY <1>2, <1>3, <2>1 DEF SameLinks
  <2>3. host[x[2]].to \in Paths BY <1>0, <2>1, NodeKinds
  <2> SUFFICES ASSUME NEW t \in Prefixes(host[x[2]].to) \ {<< >>}, Last(t) \in StateNames,
                      HostNode(t)' = Dir
               PROVE  HostNode(t) = Dir
    BY <2>2 DEF TargetDirs
  <2>4. t \in Paths /\ Canonical(t) = t BY <2>3, SandboxAssumption
  <2>5. t \in LinkTargets(c) BY <2>1, <2>2 DEF LinkTargets
  <2>6. Bind("host", t, t, TRUE) \in StateBound(c) BY <2>5 DEF StateBound
  <2>7. Bind("host", t, t, TRUE).path = t BY DEF Bind
  <2>8. host'[t] = host[t] BY <1>5, <2>4, <2>6, <2>7
  <2>9. HostNode(t) = host[t] /\ HostNode(t)' = host'[t] BY <2>4 DEF HostNode, NodeOn
  <2> QED BY <2>8, <2>9
<1>10. LinkedState' \subseteq LinkedState
  <2> SUFFICES ASSUME NEW t \in LinkedState' PROVE t \in LinkedState OBVIOUS
  <2>1. PICK x \in StateLinks : t \in TargetDirs(x[2])' /\ t # HostReal(x[1].src)'
    BY <1>8 DEF LinkedState
  <2>2. t \in TargetDirs(x[2]) BY <1>9, <2>1
  <2> QED BY <1>4, <2>1, <2>2 DEF LinkedState
<1> SUFFICES ASSUME NEW m \in StateDue' PROVE m \in StateDue OBVIOUS
<1>11. CASE m \in {Bind("host", t, t, TRUE) : t \in LinkedState'}
  BY <1>10, <1>11 DEF StateDue
<1>12. CASE \E b \in Range(StateBinds) :
              /\ HostNode(HostReal(b.src))' # None
              /\ m = Bind("host", Canonical(HostReal(b.src)), HostReal(b.dst), TRUE)'
  <2>1. PICK b \in Range(StateBinds) :
              /\ HostNode(HostReal(b.src))' # None
              /\ m = Bind("host", Canonical(HostReal(b.src)), HostReal(b.dst), TRUE)'
    BY <1>12
  <2> QED BY <1>6, <1>7, <2>1 DEF StateDue
<1> QED BY <1>11, <1>12 DEF StateDue

\* There is no link on the way to what links in the agent's state lead to.
LEMMA LinkedUnlinked ==
    ASSUME ViewsApart, NEW c \in Configs, Follows(c), host \in [Paths -> Nodes],
           NEW t \in LinkedState, NEW q \in Prefixes(t)
    PROVE  NodeOn(c.host, q).kind # "link"
<1>1. \A p \in Paths : host[p].kind = "link" => c.host[p] = host[p] BY FollowsReal
<1>2. PICK x \in StateLinks : t \in TargetDirs(x[2]) BY DEF LinkedState
<1>3. x[2] \in Paths /\ host[x[2]].kind = "link" BY <1>2 DEF StateLinks
<1> DEFINE to == host[x[2]].to
<1>4. c.host[x[2]].kind = "link" /\ c.host[x[2]].to = to BY <1>1, <1>3
<1>5. to \in Paths /\ to \in RawPaths BY <1>3, NodeKinds, PathsTyped
<1>6. t \in Prefixes(to) BY <1>2 DEF TargetDirs
<1> HIDE DEF to
<1>7. t \in RawPaths /\ IsPrefix(t, to) BY <1>5, <1>6, PrefixSet
<1>8. q \in RawPaths /\ IsPrefix(q, t) BY <1>7, PrefixSet
<1>9. q \in Prefixes(to)
  <2>1. IsPrefix(q, to) BY <1>5, <1>7, <1>8, PrefixOrder DEF RawPaths
  <2> QED BY <1>5, <1>8, <2>1, PrefixSet
<1>10. CASE q = << >>
  <2>1. IsPrefix(<< >>, Visible)
    <3>1. << >> \o Visible = Visible BY PathsTyped, ConcatEmptySeq DEF RawPaths
    <3> QED BY <3>1, PathsTyped
  <2>2. << >> \in Prefixes(Visible) BY <2>1, PathsTyped, PrefixSet
  <2> QED BY <1>10, <2>2 DEF ViewsApart
<1>11. CASE q # << >>
  <2>1. q \in Paths /\ Canonical(q) = q BY <1>5, <1>9, <1>11, SandboxAssumption
  <2>2. c.host[q].kind # "link" BY <1>3, <1>4, <1>9, <2>1, SandboxAssumption
  <2> QED BY <2>1, <2>2 DEF NodeOn
<1> QED BY <1>10, <1>11

\* The views and the shared state are mounted where they are to be.
LEMMA DueInPlace ==
    ASSUME ViewsApart, LinksShown, ReadOnlyWhole, StateInSight, NEW c \in Configs,
           Follows(c), ~c.protect, host \in [Paths -> Nodes],
           table \in Seq(MadeMounts(c, host)), NEW m \in StateDue \cup {Views[1], Views[2]}
    PROVE  SandboxReal(m.dst) = m.dst /\ m.op = "bind" /\ m.dst \in Places(c)
<1>1. /\ \A p : HostReal(p) = RealOn(c.host, p)
      /\ \A p \in Paths : host[p].kind = "link" => c.host[p] = host[p]
  BY FollowsReal
<1>2. m.dst \in Places(c) /\ \A q \in Prefixes(m.dst) : NodeOn(c.host, q).kind # "link"
  <2>1. CASE m \in {Views[1], Views[2]}
    <3>1. m.dst \in {Visible, Home} BY <2>1, PathsTyped DEF Views, Bind
    <3> QED BY <3>1 DEF ViewsApart, Places
  <2>2. CASE \E b \in Range(StateBinds) :
                m = Bind("host", Canonical(HostReal(b.src)), HostReal(b.dst), TRUE)
    <3>1. PICK b \in Range(StateBinds) :
                m = Bind("host", Canonical(HostReal(b.src)), HostReal(b.dst), TRUE)
      BY <2>2
    <3>2. m = Resolved(c, b, TRUE) BY <1>1, <3>1 DEF Resolved
    <3>3. m \in StateBound(c) BY <3>2 DEF StateBound
    <3> QED BY <3>2, <3>3, BoundPlaces DEF StateInSight
  <2>3. CASE \E t \in LinkedState : m = Bind("host", t, t, TRUE)
    <3>1. PICK t \in LinkedState : m = Bind("host", t, t, TRUE) BY <2>3
    <3>2. m.dst = t BY <3>1 DEF Bind
    <3>3. \A q \in Prefixes(t) : NodeOn(c.host, q).kind # "link" BY LinkedUnlinked
    <3>4. m \in StateBound(c) BY DueBound, <2>3 DEF StateDue
    <3> QED BY <3>2, <3>3, <3>4, BoundPlaces
  <2> QED BY <2>1, <2>2, <2>3 DEF StateDue
<1>3. m.op = "bind" BY DEF StateDue, Views, Bind
<1>4. m.dst \in Led(c.host, m.dst) BY DEF Led
<1>5. \A q \in Prefixes(m.dst) : SandboxNode(q).kind # "link"
  <2> SUFFICES ASSUME NEW q \in Prefixes(m.dst), SandboxNode(q).kind = "link" PROVE FALSE
    OBVIOUS
  <2>1. SandboxNode(q) = NodeOn(c.host, q) BY <1>2, <1>4, WaySeen
  <2> QED BY <1>2, <2>1
<1>6. SandboxReal(m.dst) = m.dst BY <1>5 DEF SandboxReal, Followed
<1> QED BY <1>2, <1>3, <1>6

\* A mount that is made keeps the views first.
LEMMA ViewsFirstMade ==
    ASSUME NEW S, NEW s \in Seq(S), NEW m \in S, ViewsFirst(s),
           m.via = "view" => \A i \in 1 .. Len(s) : ~(s[i].via = "host" /\ s[i].rw)
    PROVE  ViewsFirst(Append(s, m))
<1> DEFINE t == Append(s, m)
<1>1. /\ Len(s) \in Nat /\ Len(t) = Len(s) + 1 /\ t[Len(s) + 1] = m
      /\ \A i \in 1 .. Len(s) : t[i] = s[i]
  OBVIOUS
<1> HIDE DEF t
<1>2. ASSUME NEW i \in 1 .. Len(t), NEW j \in 1 .. Len(t),
             t[i].via = "host", t[i].rw, t[j].via = "view"
      PROVE  j < i
  <2>1. CASE i = Len(s) + 1 /\ j = Len(s) + 1 BY <1>1, <1>2, <2>1
  <2>2. CASE i = Len(s) + 1 /\ j \in 1 .. Len(s) BY <1>1, <2>2
  <2>3. CASE i \in 1 .. Len(s) /\ j = Len(s) + 1 BY <1>1, <1>2, <2>3
  <2>4. CASE i \in 1 .. Len(s) /\ j \in 1 .. Len(s) BY <1>1, <1>2, <2>4 DEF ViewsFirst
  <2> QED BY <1>1, <2>1, <2>2, <2>3, <2>4
<1> QED BY <1>2 DEF ViewsFirst, t

\* What is in a sequence is its head or in its tail.
LEMMA HeadOrTail ==
    ASSUME NEW S, NEW s \in Seq(S), s # << >>
    PROVE  /\ Len(Tail(s)) = Len(s) - 1 /\ Len(s) \in Nat \ {0} /\ Head(s) = s[1]
           /\ \A i \in 1 .. Len(Tail(s)) : Tail(s)[i] = s[i + 1] /\ i + 1 \in 1 .. Len(s)
           /\ \A x \in Range(s) : x = Head(s) \/ x \in Range(Tail(s))
<1>1. /\ Len(s) \in Nat \ {0} /\ Tail(s) \in Seq(S) /\ Len(Tail(s)) = Len(s) - 1
      /\ \A i \in 1 .. Len(Tail(s)) : Tail(s)[i] = s[i + 1]
      /\ Head(s) = s[1]
  BY HeadTailProperties, EmptySeq
<1> DEFINE t == Tail(s)
<1> HIDE DEF t
<1>2. \A i \in 1 .. Len(t) : t[i] \in Range(t) BY <1>1, RangeOf DEF t
<1>3. ASSUME NEW x \in Range(s), x # s[1] PROVE x \in Range(t)
  <2>1. PICK i \in 1 .. Len(s) : x = s[i] BY RangeOf
  <2>2. i - 1 \in 1 .. Len(t) /\ (i - 1) + 1 = i BY <1>1, <1>3, <2>1 DEF t
  <2>3. t[i - 1] = s[i] BY <1>1, <2>2 DEF t
  <2> QED BY <1>2, <2>1, <2>2, <2>3
<1>4. \A i \in 1 .. Len(t) : i + 1 \in 1 .. Len(s) BY <1>1 DEF t
<1> QED BY <1>1, <1>3, <1>4 DEF t

\* What is appended is there, and what was there still is.
LEMMA AppendRange ==
    ASSUME NEW S, NEW s \in Seq(S), NEW m \in S
    PROVE  /\ \A x \in Range(s) : x \in Range(Append(s, m))
           /\ m \in Range(Append(s, m))
<1> DEFINE t == Append(s, m)
<1>1. /\ t \in Seq(S) /\ Len(s) \in Nat /\ Len(t) = Len(s) + 1 /\ t[Len(s) + 1] = m
      /\ \A i \in 1 .. Len(s) : t[i] = s[i]
  OBVIOUS
<1> HIDE DEF t
<1>2. \A i \in 1 .. Len(t) : t[i] \in Range(t) BY <1>1, RangeOf
<1>3. Len(s) + 1 \in 1 .. Len(t) /\ \A i \in 1 .. Len(s) : i \in 1 .. Len(t) BY <1>1
<1>4. \A x \in Range(s) : \E i \in 1 .. Len(s) : x = s[i] BY RangeOf
<1> QED BY <1>1, <1>2, <1>3, <1>4 DEF t

\* No link is in the place of a directory that is made.
LEMMA NoLinkStep ==
    ASSUME SandboxInv, NoLinkMade, [Next]_vars, Undisturbed'
    PROVE  NoLinkMade'
<1>0. /\ host[Visible] = Dir /\ host \in [Paths -> Nodes] /\ changes \in Nat
      /\ table \in Seq(ViewMounts) /\ \A q \in made : IsStrictPrefix(Visible, q)
  BY DEF SandboxInv, TypeOK
<1>1. ASSUME NEW p \in RawPaths, Makes(Missing(p)) PROVE NoLinkMade'
  <2>1. \A q \in Paths : host'[q] = host[q] \/ (host[q] = None /\ host'[q] = Dir)
    BY <1>0, <1>1, MakesGrows
  <2>2. ASSUME NEW q \in made' \cap Paths PROVE host'[q].kind # "link"
    <3>1. CASE q \in made
      <4>1. host[q].kind # "link" BY <2>2, <3>1 DEF NoLinkMade
      <4> QED BY <2>1, <2>2, <4>1, NodeKinds
    <3>2. CASE q \notin made
      <4>1. PICK m \in Missing(p) : m.via = "view" /\ m.path = q
        BY <1>1, <2>2, <3>2 DEF Makes
      <4>2. NodeAt(m) = None BY <1>0, MissingPlaces
      <4>3. host[q] = None BY <2>2, <3>2, <4>1, <4>2 DEF NodeAt
      <4> QED BY <2>1, <2>2, <4>3, NodeKinds
    <3> QED BY <3>1, <3>2
  <2> QED BY <2>2 DEF NoLinkMade
<1>2. CASE MountNext
  <2>1. todo \in Seq(ViewMounts) /\ todo # << >> BY <1>2 DEF SandboxInv, MountNext
  <2>2. Head(todo) \in ViewMounts BY <2>1, HeadTailProperties
  <2>3. SandboxReal(Head(todo).dst) \in RawPaths
    BY <1>0, <2>2, RealTyped DEF ViewMounts, Mounts
  <2> QED BY <1>1, <1>2, <2>3 DEF MountNext
<1>3. ASSUME NEW p \in RuntimeState, KeepState(p) PROVE NoLinkMade'
  <2>1. SandboxReal(p) \in RawPaths BY <1>0, RealTyped, SandboxAssumption
  <2> QED BY <1>1, <1>3, <2>1 DEF KeepState
<1>4. CASE CreateSession \/ Launch \/ MountFails \/ Resume \/ UNCHANGED vars
  BY <1>4 DEF CreateSession, Launch, MountFails, Resume, vars, NoLinkMade
<1>5. CASE Prepare
  <2>1. /\ made' = made
        /\ \A q \in Paths : host'[q] = host[q] \/ (host[q] = None /\ host'[q] = Dir)
    BY <1>5 DEF Prepare
  <2> QED BY <2>1, NodeKinds DEF NoLinkMade
<1>6. ASSUME NEW p \in Fickle, HostChanges(p) PROVE FALSE
  <2>1. changes' = changes + 1 /\ changes' = 0 BY <1>6 DEF HostChanges, Undisturbed
  <2> QED BY <1>0, <2>1
<1> QED BY <1>2, <1>3, <1>4, <1>5, <1>6 DEF Next

\* A step keeps the shared state coming, and the views before it.
LEMMA SharedStep ==
    ASSUME ViewsApart, LinksShown, ReadOnlyWhole, StateInSight, StateApart,
           NEW c \in Configs, SandboxInv, LaunchOf(c), SharedOf(c), [Next]_vars, Undisturbed'
    PROVE  SharedOf(c)'
<1>0. /\ Follows(c) /\ host \in [Paths -> Nodes] /\ NoLinkMade'
      /\ table \in Seq(ViewMounts) /\ todo \in Seq(ViewMounts)
      /\ phase = "launching" => todo # << >>
      /\ c.host \in [Paths -> Nodes] /\ changes \in Nat
  BY SandboxAssumption, NoLinkStep DEF LaunchOf, SharedOf, SandboxInv, TypeOK
<1>1. CASE CreateSession \/ Prepare \/ MountFails \/ Resume
  <2>1. phase' \notin {"launching", "running"}
    BY <1>1 DEF CreateSession, Prepare, MountFails, Resume
  <2> QED BY <1>0, <2>1 DEF SharedOf
<1>2. CASE Launch
  <2>1. /\ host' = host /\ phase' = "launching" /\ todo' = Command /\ table' = << >>
    BY <1>2 DEF Launch, LaunchOf
  <2> SUFFICES ASSUME ~c.protect
               PROVE  /\ \A m \in StateDue' \cup {Views[1], Views[2]} :
                            m \in Range(table') \cup Range(todo')
                      /\ ViewsFirst(table') /\ ViewsFirst(todo')
                      /\ \A i \in 1 .. Len(table'), j \in 1 .. Len(todo') :
                            ~(table'[i].via = "host" /\ table'[i].rw /\ todo'[j].via = "view")
    BY <1>0, <2>1 DEF SharedOf, ViewsFirst
  <2>2. StateDue' = StateDue
    BY <2>1 DEF StateDue, HostNode, HostReal, LinkedState, StateLinks, TargetDirs
  <2>3. config.protect = c.protect /\ \A p : HostReal(p) = RealOn(c.host, p)
    BY <1>0, FollowsReal
  <2>4. ASSUME NEW b \in Range(StateBinds), HostNode(HostReal(b.src)) # None,
               HostReal(b.dst) # b.dst
        PROVE  HostNode(HostReal(b.dst)) # None
    <3> DEFINE state == Resolved(c, b, TRUE)
    <3>1. state.dst = HostReal(b.dst) BY <2>3 DEF Resolved, Bind
    <3>2. b.src = b.dst \/ NodeOn(c.host, state.dst) # None
      BY <2>4, <3>1 DEF StateInSight
    <3> HIDE DEF state
    <3>3. CASE b.src = b.dst BY <2>4, <3>3
    <3>4. CASE NodeOn(c.host, state.dst) # None
      <4>1. Canonical(state.dst) \in Paths /\ c.host[Canonical(state.dst)] # None
        BY <3>4 DEF NodeOn
      <4>2. host[Canonical(state.dst)] # None BY <1>0, <4>1 DEF Follows
      <4> QED BY <3>1, <4>1, <4>2 DEF HostNode, NodeOn
    <3> QED BY <3>2, <3>3, <3>4
  <2>5. /\ ViewsFirst(Command)
        /\ \A m \in StateDue \cup {Views[1], Views[2]} : m \in Range(Command)
    BY <1>0, <2>3, <2>4, CommandShared
  <2>6. Len(table') = 0 BY <2>1, EmptySeq
  <2>7. ViewsFirst(table') /\ \A i \in 1 .. Len(table') : FALSE BY <2>6 DEF ViewsFirst
  <2> QED BY <2>1, <2>2, <2>5, <2>7
<1>3. CASE MountNext
  <2> DEFINE op == Head(todo)
             dst == SandboxReal(op.dst)
             m == [op EXCEPT !.dst = dst]
  <2>1. /\ phase = "launching" /\ todo # << >>
        /\ table \in Seq(MadeMounts(c, host)) /\ todo \in Seq(NextMounts(c, host))
    BY <1>0, <1>3 DEF LaunchOf, MountNext
  <2>2. /\ Makes(Missing(dst)) /\ \A n \in Missing(dst) : n.rw
        /\ todo' = Tail(todo)
        /\ phase' = IF Len(todo) = 1 THEN "running" ELSE phase
        /\ table' = IF op.op = "dir" THEN table ELSE Append(table, m)
    BY <1>3 DEF MountNext, CanMount
  <2>3. op \in ViewMounts /\ Tail(todo) \in Seq(ViewMounts)
    BY <1>0, <2>1, HeadTailProperties
  <2>4. op \in Mounts /\ op.dst \in RawPaths BY <2>3 DEF ViewMounts, Mounts
  <2>5. dst \in RawPaths BY <1>0, <2>4, RealTyped
  <2> HIDE DEF dst
  <2>6. /\ m \in ViewMounts /\ m.via = op.via /\ m.rw = op.rw
    BY <2>3, <2>5, MountedAt
  <2>7. dst = op.dst => m = op BY <2>4 DEF Mounts
  <2>8. /\ Len(Tail(todo)) = Len(todo) - 1 /\ Len(todo) \in Nat \ {0} /\ op = todo[1]
        /\ \A i \in 1 .. Len(Tail(todo)) :
              Tail(todo)[i] = todo[i + 1] /\ i + 1 \in 1 .. Len(todo)
        /\ \A x \in Range(todo) : x = op \/ x \in Range(Tail(todo))
    BY <1>0, <2>1, HeadOrTail
  <2>9. phase' = "running" => todo' = << >>
    <3> SUFFICES ASSUME Len(todo) = 1 PROVE Tail(todo) = << >> BY <2>1, <2>2
    <3>1. Len(Tail(todo)) = 0 BY <2>8
    <3> QED BY <2>3, <3>1, EmptySeq
  <2>10. op.dst \in Places(c) /\ (dst = op.dst <=> SandboxReal(op.dst) = op.dst)
    <3>1. op \in NextMounts(c, host) BY <2>1, HeadTailProperties
    <3> QED BY <3>1 DEF NextMounts, dst
  <2> HIDE DEF op
  <2> SUFFICES ASSUME ~c.protect
               PROVE  /\ \A n \in StateDue' \cup {Views[1], Views[2]} :
                            n \in Range(table') \cup Range(todo')
                      /\ ViewsFirst(table') /\ ViewsFirst(todo')
                      /\ \A i \in 1 .. Len(table'), j \in 1 .. Len(todo') :
                            ~(table'[i].via = "host" /\ table'[i].rw /\ todo'[j].via = "view")
    BY <1>0, <2>9 DEF SharedOf, ViewsFirst
  <2>11. /\ \A n \in StateDue \cup {Views[1], Views[2]} : n \in Range(table) \cup Range(todo)
         /\ ViewsFirst(table) /\ ViewsFirst(todo)
         /\ \A i \in 1 .. Len(table), j \in 1 .. Len(todo) :
               ~(table[i].via = "host" /\ table[i].rw /\ todo[j].via = "view")
    BY <2>1 DEF SharedOf
  <2>12. StateDue' \subseteq StateDue BY <1>0, <2>1, <2>2, <2>5, DueStays
  <2>13. ASSUME NEW n \in StateDue \cup {Views[1], Views[2]}
         PROVE  n \in Range(table') \cup Range(todo')
    <3>1. \A x \in Range(table) : x \in Range(table')
      <4> HIDE DEF m
      <4> QED BY <1>0, <2>2, <2>6, AppendRange
    <3>2. CASE n = op
      <4>1. SandboxReal(op.dst) = op.dst /\ op.op = "bind"
        BY <1>0, <2>1, <3>2, DueInPlace
      <4>2. m = n BY <2>7, <2>10, <3>2, <4>1
      <4>3. table' = Append(table, m) BY <2>2, <4>1
      <4> HIDE DEF m
      <4>4. m \in Range(Append(table, m)) BY <1>0, <2>6, AppendRange
      <4> QED BY <4>2, <4>3, <4>4
    <3> HIDE DEF m
    <3>3. CASE n # op BY <2>2, <2>8, <2>11, <3>1, <3>3
    <3> QED BY <3>2, <3>3
  <2> HIDE DEF m
  <2>14. 1 \in 1 .. Len(todo) BY <2>8
  <2>15. ViewsFirst(table')
    <3>1. m.via = "view" => \A i \in 1 .. Len(table) : ~(table[i].via = "host" /\ table[i].rw)
      BY <2>6, <2>8, <2>11, <2>14
    <3>2. ViewsFirst(Append(table, m)) BY <1>0, <2>6, <2>11, <3>1, ViewsFirstMade
    <3> QED BY <2>2, <2>11, <3>2
  <2>16. ViewsFirst(todo')
    <3>1. ASSUME NEW i \in 1 .. Len(Tail(todo)), NEW j \in 1 .. Len(Tail(todo)),
                 Tail(todo)[i].via = "host", Tail(todo)[i].rw, Tail(todo)[j].via = "view"
          PROVE  j < i
      <4>1. j + 1 < i + 1 BY <2>8, <2>11, <3>1 DEF ViewsFirst
      <4> QED BY <2>8, <4>1
    <3> QED BY <2>2, <3>1 DEF ViewsFirst
  <2>17. ASSUME NEW i \in 1 .. Len(table'), NEW j \in 1 .. Len(todo'),
                table'[i].via = "host", table'[i].rw, todo'[j].via = "view"
         PROVE  FALSE
    <3>1. j + 1 \in 1 .. Len(todo) /\ todo[j + 1].via = "view" /\ ~(j + 1 < 1)
      BY <2>2, <2>8, <2>17
    <3>2. CASE i \in 1 .. Len(table) /\ table'[i] = table[i] BY <2>11, <2>17, <3>1, <3>2
    <3>3. CASE table'[i] = m
      <4>1. todo[1].via = "host" /\ todo[1].rw BY <2>6, <2>8, <2>17, <3>3
      <4>2. j + 1 < 1 BY <2>11, <2>14, <3>1, <4>1 DEF ViewsFirst
      <4> QED BY <3>1, <4>2
    <3>4. \/ i \in 1 .. Len(table) /\ table'[i] = table[i]
          \/ table'[i] = m
      <4>1. CASE table' = table BY <4>1
      <4>2. CASE table' = Append(table, m)
        <5>1. /\ Len(table) \in Nat /\ Len(table') = Len(table) + 1
              /\ table'[Len(table) + 1] = m
              /\ \A k \in 1 .. Len(table) : table'[k] = table[k]
          BY <1>0, <2>6, <4>2
        <5>2. i \in 1 .. Len(table) \/ i = Len(table) + 1 BY <5>1
        <5> QED BY <5>1, <5>2
      <4> QED BY <2>2, <4>1, <4>2
    <3> QED BY <3>2, <3>3, <3>4
  <2> QED BY <2>12, <2>13, <2>15, <2>16, <2>17
<1>4. ASSUME NEW p \in RuntimeState, KeepState(p) PROVE SharedOf(c)'
  <2>1. /\ table' = table /\ todo' = todo /\ phase' = phase /\ phase = "running"
        /\ Makes(Missing(SandboxReal(p))) /\ \A m \in Missing(SandboxReal(p)) : m.rw
    BY <1>4 DEF KeepState
  <2>2. SandboxReal(p) \in RawPaths BY <1>0, RealTyped, SandboxAssumption
  <2>3. ~c.protect => StateDue' \subseteq StateDue
    BY <1>0, <2>1, <2>2, DueStays DEF LaunchOf
  <2> QED BY <1>0, <2>1, <2>3 DEF SharedOf, ViewsFirst
<1>5. ASSUME NEW p \in Fickle, HostChanges(p) PROVE FALSE
  <2>1. changes' = changes + 1 /\ changes' = 0 BY <1>5 DEF HostChanges, Undisturbed
  <2> QED BY <1>0, <2>1
<1>6. CASE UNCHANGED vars
  <2>1. table' = table /\ todo' = todo /\ phase' = phase /\ host' = host BY <1>6 DEF vars
  <2>2. StateDue' = StateDue
    BY <2>1 DEF StateDue, HostNode, HostReal, LinkedState, StateLinks, TargetDirs
  <2> QED BY <1>0, <2>1, <2>2 DEF SharedOf, ViewsFirst
<1> QED BY <1>1, <1>2, <1>3, <1>4, <1>5, <1>6 DEF Next

\* Over what is below a mount of the shared state there is a mount of the host.
LEMMA DueOnTop ==
    ASSUME NEW c \in Configs, SandboxInv, LaunchOf(c), SharedOf(c),
           ~c.protect, phase = "running", NEW m \in StateDue,
           NEW p, IsPrefix(m.dst, p),
           \A q \in Range(Masks) : \A dst \in Led(c.host, q) : ~IsPrefix(dst, p)
    PROVE  \E i \in 1 .. Len(table) :
              /\ IsPrefix(table[i].dst, p) /\ table[i].via = "host"
              /\ Place(p).via = "host" /\ Place(p).rw = table[i].rw
              /\ Place(p).path = table[i].path \o SubSeq(p, Len(table[i].dst) + 1, Len(p))
<1>1. /\ table \in Seq(MadeMounts(c, host)) /\ Len(table) \in Nat
      /\ ViewsFirst(table) /\ todo = << >>
      /\ m \in Range(table) \cup Range(todo)
  BY DEF SharedOf, LaunchOf
<1>2. Range(todo) = {} BY <1>1 DEF Range
<1>3. PICK j \in 1 .. Len(table) : m = table[j] BY <1>1, <1>2, RangeOf
<1>4. PICK i \in 1 .. Len(table) :
         /\ TopMount(i, p)
         /\ Place(p).via = table[i].via /\ Place(p).rw = table[i].rw
         /\ Place(p).path = table[i].path \o SubSeq(p, Len(table[i].dst) + 1, Len(p))
  BY <1>1, <1>3, PlaceIn
<1>5. j <= i /\ IsPrefix(table[i].dst, p) BY <1>3, <1>4 DEF TopMount
<1>6. table[i] \in MadeMounts(c, host) BY <1>1, RangeOf
<1>7. m.via = "host" /\ m.rw BY DEF StateDue, Bind
<1>8. table[i].via # "view"
  <2> SUFFICES ASSUME table[i].via = "view" PROVE FALSE OBVIOUS
  <2>1. i < j BY <1>1, <1>3, <1>7 DEF ViewsFirst
  <2> QED BY <1>1, <1>5, <2>1
<1>9. table[i].via # "null" BY <1>5, <1>6 DEF MadeMounts
<1>10. table[i].via = "host"
  BY <1>6, <1>8, <1>9 DEF MadeMounts, ViewMounts, Mounts
<1> QED BY <1>4, <1>5, <1>10

\* In the sandbox a path leads where it does on the host, if the links on the way
\* to it are in the views.
LEMMA SightReal ==
    ASSUME ViewsApart, LinksShown, ReadOnlyWhole, NEW c \in Configs, Follows(c),
           host \in [Paths -> Nodes], NoLinkMade, table \in Seq(MadeMounts(c, host)),
           \A i \in {1, 2} : \E j \in 1 .. Len(table) : table[j] = Views[i],
           NEW d \in Places(c), InSight(c, d)
    PROVE  SandboxReal(d) = HostReal(d)
<1>0. c.host \in [Paths -> Nodes] BY SandboxAssumption
<1>1. d \in Led(c.host, d) /\ d \in PlainPaths BY DEF Led, LinksShown
<1>2. \A q \in Paths : host[q].kind = "link" \/ c.host[q].kind = "link" => host[q] = c.host[q]
  BY DEF Follows, SameLinks
<1>3. \A i \in {1, 2} : \E j \in 1 .. Len(table) : table[j] = Views[i] OBVIOUS
<1> DEFINE old == [q \in Prefixes(d) |-> NodeOn(host, q)]
           new == [q \in Prefixes(d) |-> SandboxNode(q)]
<1>4. ASSUME NEW q \in Prefixes(d), SandboxNode(q).kind = "link"
      PROVE  SandboxNode(q) = NodeOn(host, q)
  <2>1. SandboxNode(q) = NodeOn(c.host, q) BY <1>0, <1>1, <1>4, WaySeen
  <2>2. Canonical(q) \in Paths /\ c.host[Canonical(q)].kind = "link"
    BY <1>4, <2>1, NodeKinds DEF NodeOn
  <2> QED BY <1>2, <2>1, <2>2 DEF NodeOn
<1>5. ASSUME NEW q \in Prefixes(d), NodeOn(host, q).kind = "link"
      PROVE  SandboxNode(q) = NodeOn(host, q)
  <2>1. q \in PlainPaths /\ IsPrefix(q, d) BY <1>1, PlainPrefix
  <2>2. q \in RawPaths /\ d \in RawPaths BY <1>1, <2>1 DEF PlainPaths
  <2> DEFINE k == Canonical(q)
  <2>3. k \in Paths /\ host[k].kind = "link" /\ NodeOn(host, q) = host[k]
    BY <1>5, NodeKinds DEF NodeOn
  <2>4. NodeOn(c.host, q) = host[k] BY <1>2, <2>3 DEF NodeOn
  <2> HIDE DEF k
  <2>5. /\ IsPrefix(Visible, q) \/ IsPrefix(Home, q)
        /\ \A p \in Range(Masks) : \A dst \in Led(c.host, p) : ~IsPrefix(dst, q)
    BY <2>3, <2>4 DEF InSight
  <2>6. \E j \in 1 .. Len(table) : IsPrefix(table[j].dst, q)
    <3>1. Views[1].dst = Visible /\ Views[2].dst = Home BY PathsTyped DEF Views, Bind
    <3> QED BY <1>3, <2>5, <3>1
  <2>7. PICK i \in 1 .. Len(table) :
           /\ TopMount(i, q)
           /\ Place(q).via = table[i].via
           /\ Place(q).path = table[i].path \o SubSeq(q, Len(table[i].dst) + 1, Len(q))
    BY <1>0, <2>6, PlaceIn
  <2> DEFINE m == table[i]
             path == m.path \o SubSeq(q, Len(m.dst) + 1, Len(q))
  <2>8. m \in MadeMounts(c, host) BY <1>0, RangeOf
  <2>9. IsPrefix(m.dst, q) /\ Place(q).via = m.via /\ Place(q).path = path
    BY <2>7 DEF TopMount
  <2> HIDE DEF m, path
  <2>10. m \in Mounts /\ m.dst \in RawPaths BY <2>8 DEF MadeMounts, ViewMounts, Mounts
  <2>11. CASE m.via = "view"
    <3>1. PICK v \in {1, 2} : m = Views[v] BY <2>8, <2>11 DEF MadeMounts
    <3>2. path = k BY <2>1, <2>9, <3>1, ViewShows DEF path, k
    <3>3. k \notin made BY <1>0, <2>3 DEF NoLinkMade
    <3>4. SandboxNode(q) = host[k] BY <2>3, <2>9, <2>11, <3>2, <3>3 DEF SandboxNode, NodeAt
    <3> QED BY <2>3, <3>4
  <2>12. CASE m.via = "host"
    <3>1. PICK n \in StateBound(c) \cup ReadBound(c) :
             m.path = n.path /\ m.dst \in Led(c.host, n.dst)
      BY <2>8, <2>12 DEF MadeMounts
    <3> DEFINE on == [r \in Prefixes(d) |-> NodeOn(c.host, r)]
               shown == [r \in Prefixes(d) |-> Shown(c, n, m.dst, r)]
    <3>2. SameLinks({r \in Prefixes(d) : IsPrefix(m.dst, r)}, on, shown)
      BY <1>1, <3>1 DEF LinksShown
    <3>3. on[q] = NodeOn(c.host, q) /\ shown[q] = Shown(c, n, m.dst, q) OBVIOUS
    <3> HIDE DEF on, shown
    <3>4. Shown(c, n, m.dst, q) = NodeOn(c.host, q)
      BY <2>3, <2>4, <2>9, <3>2, <3>3 DEF SameLinks
    <3>5. Shown(c, n, m.dst, q) = IF path \in Paths THEN c.host[path] ELSE None
      BY <3>1 DEF Shown, path
    <3>6. path \in Paths /\ c.host[path] = host[k]
      BY <2>3, <2>4, <3>4, <3>5, NodeKinds
    <3>7. host[path] = host[k] BY <1>2, <2>3, <3>6
    <3>8. SandboxNode(q) = host[path] BY <2>9, <2>12, <3>6 DEF SandboxNode, NodeAt
    <3> QED BY <2>3, <3>7, <3>8
  <2>13. m.via # "null"
    <3> SUFFICES ASSUME m.via = "null" PROVE FALSE OBVIOUS
    <3>1. PICK p \in Range(Masks) : m.dst \in Led(c.host, p) BY <2>8 DEF MadeMounts
    <3> QED BY <2>5, <2>9, <3>1
  <2> QED BY <2>8, <2>10, <2>11, <2>12, <2>13 DEF MadeMounts, Mounts
<1>6. SameLinks(Prefixes(d), old, new) BY <1>4, <1>5 DEF SameLinks
<1>7. Followed(d, new) = Followed(d, old)
  <2> HIDE DEF old, new
  <2> QED BY <1>6, FollowedSame
<1> QED BY <1>7 DEF SandboxReal, HostReal, RealOn

\* So does the agent's state.
LEMMA StateReal ==
    ASSUME ViewsApart, LinksShown, ReadOnlyWhole, StateInSight, NEW c \in Configs,
           SandboxInv, LaunchOf(c), SharedOf(c), ~c.protect, phase = "running",
           NEW b \in Range(StateBinds)
    PROVE  SandboxReal(b.dst) = HostReal(b.dst)
<1>0. /\ Follows(c) /\ host \in [Paths -> Nodes] /\ NoLinkMade
      /\ table \in Seq(MadeMounts(c, host))
  BY DEF LaunchOf, SharedOf, SandboxInv, TypeOK
<1>1. \A i \in {1, 2} : \E j \in 1 .. Len(table) : table[j] = Views[i]
  <2>1. /\ Views[1] \in Range(table) \cup Range(todo) /\ Views[2] \in Range(table) \cup Range(todo)
        /\ todo = << >>
    BY DEF SharedOf
  <2>2. Range(todo) = {} BY <2>1 DEF Range
  <2> QED BY <1>0, <2>1, <2>2, RangeOf
<1>2. b.dst \in Places(c) /\ InSight(c, b.dst) BY DEF Places, StateInSight
<1> QED BY <1>0, <1>1, <1>2, SightReal

\* The agent's state leads to the host's.
LEMMA StateInPlace ==
    ASSUME ViewsApart, LinksShown, ReadOnlyWhole, StateInSight, NEW c \in Configs,
           SandboxInv, LaunchOf(c), SharedOf(c), ~c.protect, phase = "running",
           NEW b \in Range(StateBinds), HostNode(HostReal(b.src)) # None
    PROVE  Place(SandboxReal(b.dst)) =
              [via |-> "host", path |-> Canonical(HostReal(b.src)), rw |-> TRUE]
<1>0. /\ Follows(c) /\ host \in [Paths -> Nodes] /\ table \in Seq(MadeMounts(c, host))
  BY DEF LaunchOf, SandboxInv, TypeOK
<1>1. \A p : HostReal(p) = RealOn(c.host, p) BY <1>0, FollowsReal
<1> DEFINE state == Bind("host", Canonical(HostReal(b.src)), HostReal(b.dst), TRUE)
           D == HostReal(b.dst)
           k == Canonical(HostReal(b.src))
<1>2. state = Resolved(c, b, TRUE) BY <1>1 DEF Resolved
<1>3. state \in StateDue BY DEF StateDue
<1>4. state.dst = D /\ state.path = k BY DEF Bind
<1>5. D \in RawPaths BY <1>0, StateBindsTyped
<1>6. IsPrefix(D, D) BY <1>5, PrefixOrder DEF RawPaths
<1> HIDE DEF state, D, k
<1>7. \A q \in Range(Masks) : \A dst \in Led(c.host, q) : ~IsPrefix(dst, D)
  BY <1>2, <1>4 DEF StateInSight
<1>8. PICK i \in 1 .. Len(table) :
         /\ IsPrefix(table[i].dst, D) /\ table[i].via = "host"
         /\ Place(D).via = "host" /\ Place(D).rw = table[i].rw
         /\ Place(D).path = table[i].path \o SubSeq(D, Len(table[i].dst) + 1, Len(D))
  BY <1>3, <1>4, <1>6, <1>7, DueOnTop
<1> DEFINE m == table[i]
<1>9. m \in MadeMounts(c, host) BY <1>0, RangeOf
<1> HIDE DEF m
<1>10. PICK n \in StateBound(c) \cup ReadBound(c) :
          m.path = n.path /\ m.rw = n.rw /\ m.dst \in Led(c.host, n.dst)
  BY <1>8, <1>9 DEF MadeMounts, m
<1>11. n \in StateBound(c) BY <1>2, <1>4, <1>8, <1>10 DEF StateInSight, m
<1>12. m.rw = TRUE BY <1>10, <1>11 DEF StateBound, Resolved, Bind
<1>13. m.path \o SubSeq(D, Len(m.dst) + 1, Len(D)) = k
  BY <1>2, <1>4, <1>8, <1>10, <1>11 DEF StateInSight, m
<1>14. Place(D) = [via |-> "host", path |-> k, rw |-> TRUE]
  <2>1. Place(D).via = "host" /\ Place(D).path = k BY <1>8, <1>13 DEF m
  <2>2. Place(D).rw = TRUE BY <1>8, <1>12 DEF m
  <2>3. \E via, rw, path : Place(D) = [via |-> via, rw |-> rw, path |-> path] BY DEF Place
  <2> QED BY <2>1, <2>2, <2>3
<1>15. SandboxReal(b.dst) = D BY StateReal DEF D
<1> QED BY <1>14, <1>15 DEF k

\* What a link in it leads to, in another state directory, is the host's too.
LEMMA LinkedInPlace ==
    ASSUME ViewsApart, LinksShown, ReadOnlyWhole, StateInSight, StateApart,
           NEW c \in Configs, SandboxInv, LaunchOf(c), SharedOf(c), ~c.protect,
           phase = "running", NEW x \in StateLinks, TargetDirs(x[2]) # {}
    PROVE  Place(host[x[2]].to).via = "host"
<1>0. Follows(c) /\ host \in [Paths -> Nodes] BY DEF LaunchOf, SandboxInv, TypeOK
<1>1. /\ \A p : HostReal(p) = RealOn(c.host, p)
      /\ \A p \in Paths : host[p].kind = "link" => c.host[p] = host[p]
  BY <1>0, FollowsReal
<1> DEFINE to == host[x[2]].to
<1>2. PICK t \in Prefixes(to) \ {<< >>} : t \in TargetDirs(x[2]) /\ HostNode(t) = Dir
  BY DEF TargetDirs
<1>3. x[2] \in Paths /\ host[x[2]].kind = "link" /\ x[1] \in Range(StateBinds)
  BY DEF StateLinks
<1>4. c.host[x[2]].kind = "link" /\ to = c.host[x[2]].to BY <1>1, <1>3
<1>5. to \in Paths /\ to \in RawPaths BY <1>3, <1>0, NodeKinds, PathsTyped
<1> HIDE DEF to
<1>6. t \in RawPaths /\ IsPrefix(t, to) BY <1>2, <1>5, PrefixSet
<1>7. \A q \in Range(Masks) : \A dst \in Led(c.host, q) : ~IsPrefix(dst, to)
  BY <1>3, <1>4 DEF StateApart
<1>8. \E m \in StateDue : IsPrefix(m.dst, to)
  <2>1. CASE t # HostReal(x[1].src)
    <3> DEFINE m == Bind("host", t, t, TRUE)
    <3>1. t \in LinkedState BY <1>2, <2>1 DEF LinkedState
    <3>2. m \in StateDue /\ m.dst = t BY <3>1 DEF StateDue, Bind
    <3> HIDE DEF m
    <3> QED BY <1>6, <3>2
  <2>2. CASE t = HostReal(x[1].src)
    <3> DEFINE b == x[1]
               m == Bind("host", Canonical(HostReal(b.src)), HostReal(b.dst), TRUE)
    <3>1. HostNode(HostReal(b.src)) # None BY <1>2, <2>2, NodeKinds
    <3>2. m \in StateDue /\ m.dst = HostReal(b.dst) BY <1>3, <3>1 DEF StateDue, Bind
    <3>3. IsPrefix(RealOn(c.host, b.src), to) BY <1>1, <1>6, <2>2
    <3>4. IsPrefix(RealOn(c.host, b.dst), to) BY <1>3, <1>4, <3>3 DEF StateApart
    <3> HIDE DEF m
    <3> QED BY <1>1, <3>2, <3>4
  <2> QED BY <2>1, <2>2
<1> QED BY <1>7, <1>8, DueOnTop DEF to

\* An agent whose state is not protected works in the state the host has: each
\* state directory that is there is in the sandbox the host's own, writable, and so
\* is what a link in it leads to in another one, whatever else is mounted and
\* whatever its runtime makes there, after every resume too
\* (_append_shared_agent_state_binds(), "following that symlink reaches the
\* protected view unless the target is also rebound").
THEOREM StateStaysShared ==
    ASSUME ViewsApart, LinksShown, ReadOnlyWhole, StateInSight, StateApart
    PROVE  Spec => []StateShared
<1> DEFINE Inv == SandboxInv /\ (Undisturbed => \E c \in Configs : LaunchOf(c) /\ SharedOf(c))
<1>1. Init => Inv
  <2> SUFFICES ASSUME Init PROVE Inv OBVIOUS
  <2>1. PICK c \in Configs : LaunchOf(c) BY LaunchStart
  <2>2. SharedOf(c) BY DEF Init, SharedOf, NoLinkMade
  <2> QED BY <2>1, <2>2, SandboxStart
<1>2. Inv /\ [Next]_vars => Inv'
  <2> SUFFICES ASSUME Inv, [Next]_vars PROVE Inv' OBVIOUS
  <2>1. SandboxInv' BY SandboxStep
  <2>2. ASSUME Undisturbed' PROVE \E c \in Configs : LaunchOf(c)' /\ SharedOf(c)'
    <3>1. Undisturbed
      <4>1. changes \in Nat BY DEF SandboxInv, TypeOK
      <4>2. changes' = changes \/ changes' = changes + 1
        BY DEF Next, CreateSession, Prepare, Launch, MountNext, MountFails, Resume,
               KeepState, HostChanges, vars
      <4>3. changes' = 0 BY <2>2 DEF Undisturbed
      <4> QED BY <4>1, <4>2, <4>3 DEF Undisturbed
    <3>2. PICK c \in Configs : LaunchOf(c) /\ SharedOf(c) BY <3>1
    <3>3. LaunchOf(c)' BY <2>2, <3>2, LaunchStep
    <3>4. SharedOf(c)' BY <2>2, <3>2, SharedStep
    <3> QED BY <3>3, <3>4
  <2> QED BY <2>1, <2>2
<1>3. Inv => StateShared
  <2> SUFFICES ASSUME Inv, phase = "running", ~config.protect, Undisturbed,
                      NEW b \in Range(StateBinds),
                      HostNode(HostReal(b.src)) \in {Dir, File}
               PROVE  /\ Place(SandboxReal(b.dst)) =
                            [via |-> "host", path |-> Canonical(HostReal(b.src)), rw |-> TRUE]
                      /\ \A x \in StateLinks : TargetDirs(x[2]) # {} =>
                            Place(host[x[2]].to).via = "host"
    BY DEF StateShared
  <2>1. PICK c \in Configs : LaunchOf(c) /\ SharedOf(c) OBVIOUS
  <2>2. ~c.protect BY <2>1 DEF LaunchOf, Follows
  <2>3. HostNode(HostReal(b.src)) # None BY NodeKinds
  <2> QED BY <2>1, <2>2, <2>3, StateInPlace, LinkedInPlace
<1> QED BY <1>1, <1>2, <1>3, PTL DEF Spec

-----------------------------------------------------------------------------
\* What is made to mount on is ignored.

\* The topmost mount over a path says where it leads.
LEMMA TopPlace ==
    ASSUME NEW S, table \in Seq(S), NEW p, NEW i, TopMount(i, p)
    PROVE  /\ Place(p).via = table[i].via /\ Place(p).rw = table[i].rw
           /\ Place(p).path = table[i].path \o SubSeq(p, Len(table[i].dst) + 1, Len(p))
<1>1. i \in 1 .. Len(table) /\ Len(table) \in Nat /\ IsPrefix(table[i].dst, p)
  BY LenProperties DEF TopMount
<1>2. PICK k \in 1 .. Len(table) :
         /\ TopMount(k, p)
         /\ Place(p).via = table[k].via /\ Place(p).rw = table[k].rw
         /\ Place(p).path = table[k].path \o SubSeq(p, Len(table[k].dst) + 1, Len(p))
  BY <1>1, PlaceIn
<1>3. k <= i /\ i <= k BY <1>1, <1>2 DEF TopMount
<1>4. k = i BY <1>1, <1>3
<1> QED BY <1>2, <1>4

\* It is the topmost one over what is between it and the path, too.
LEMMA TopBetween ==
    ASSUME table \in Seq(ViewMounts), NEW p \in RawPaths, NEW i, TopMount(i, p),
           NEW q \in RawPaths, IsPrefix(table[i].dst, q), IsPrefix(q, p)
    PROVE  TopMount(i, q)
<1>1. ASSUME NEW j \in 1 .. Len(table), IsPrefix(table[j].dst, q) PROVE j <= i
  <2>1. table[j] \in ViewMounts BY RangeOf
  <2>2. table[j].dst \in RawPaths BY <2>1 DEF ViewMounts, Mounts
  <2>3. IsPrefix(table[j].dst, p) BY <1>1, <2>2, PrefixOrder DEF RawPaths
  <2> QED BY <2>3 DEF TopMount
<1> QED BY <1>1 DEF TopMount

\* On the way to a mount there is what an earlier view shows: it was there, or it
\* has been made.
OnTheWay ==
    \A i, k \in 1 .. Len(table) : \A q \in Prefixes(table[k].dst) \ {<< >>} :
       (i < k /\ TopMount(i, q) /\ table[i].via = "view") => SandboxNode(q) # None

\* Making the places on the way to a mount keeps it so.
LEMMA OnTheWayStep ==
    ASSUME SandboxInv, OnTheWay, NEW dst \in RawPaths, Makes(Missing(dst)),
           NEW m \in ViewMounts, m.dst = dst, table' \in {table, Append(table, m)}
    PROVE  OnTheWay'
<1>0. /\ host[Visible] = Dir /\ host \in [Paths -> Nodes]
      /\ table \in Seq(ViewMounts) /\ \A q \in made : IsStrictPrefix(Visible, q)
  BY DEF SandboxInv, TypeOK
<1>1. /\ Len(table) \in Nat /\ Len(table') \in {Len(table), Len(table) + 1}
      /\ \A j \in 1 .. Len(table) : table'[j] = table[j] /\ j \in 1 .. Len(table')
      /\ Len(table') = Len(table) + 1 =>
            table' = Append(table, m) /\ table'[Len(table) + 1] = m
  <2>1. Len(table) \in Nat BY <1>0, LenProperties
  <2>2. CASE table' = table BY <2>1, <2>2
  <2>3. CASE table' = Append(table, m)
    <3>1. /\ Len(Append(table, m)) = Len(table) + 1
          /\ Append(table, m)[Len(table) + 1] = m
          /\ \A j \in 1 .. Len(table) : Append(table, m)[j] = table[j]
      BY <1>0, AppendProperties
    <3>2. \A j \in 1 .. Len(table) : j \in 1 .. Len(table) + 1 BY <2>1
    <3> QED BY <2>1, <2>3, <3>1, <3>2
  <2> QED BY <2>2, <2>3
<1>2. ASSUME NEW i \in 1 .. Len(table'), NEW k \in 1 .. Len(table'),
             NEW q \in Prefixes(table'[k].dst) \ {<< >>},
             i < k, TopMount(i, q)', table'[i].via = "view"
      PROVE  SandboxNode(q)' # None
  <2>1. i \in 1 .. Len(table) /\ table'[i] = table[i] BY <1>1, <1>2
  <2>2. TopMount(i, q)
    <3>1. \A j \in 1 .. Len(table') : IsPrefix(table'[j].dst, q) => j <= i
      BY <1>2 DEF TopMount
    <3>2. IsPrefix(table'[i].dst, q) BY <1>2 DEF TopMount
    <3> QED BY <1>1, <2>1, <3>1, <3>2 DEF TopMount
  <2>3. Place(q)' = Place(q)
    <3>1. CASE table' = table BY <3>1 DEF Place
    <3>2. CASE table' = Append(table, m) /\ ~IsPrefix(m.dst, q)
      BY <1>0, <3>2, PlaceAppend
    <3>3. ASSUME table' = Append(table, m), IsPrefix(m.dst, q) PROVE FALSE
      <4>1. Len(table') = Len(table) + 1 BY <1>0, <3>3, AppendProperties
      <4>2. Len(table) + 1 \in 1 .. Len(table') /\ table'[Len(table) + 1] = m
        BY <1>1, <4>1
      <4>3. Len(table) + 1 <= i BY <1>2, <3>3, <4>2 DEF TopMount
      <4> QED BY <1>1, <2>1, <4>3
    <3> QED BY <3>1, <3>2, <3>3
  <2> DEFINE place == Place(q)
  <2>4. SandboxNode(q)' = NodeAt(place)' /\ SandboxNode(q) = NodeAt(place)
    BY <2>3 DEF SandboxNode
  <2>5. \/ NodeAt(place)' = NodeAt(place)
        \/ NodeAt(place) = None /\ NodeAt(place)' = Dir
    <3>1. \A n : \/ NodeAt(n)' = NodeAt(n)
                 \/ NodeAt(n) = None /\ NodeAt(n)' = Dir
      BY <1>0, MakesGrows
    <3> QED BY <2>3, <3>1 DEF NodeAt
  <2>6. CASE k \in 1 .. Len(table)
    <3>1. SandboxNode(q) # None BY <1>1, <1>2, <2>1, <2>2, <2>6 DEF OnTheWay
    <3> HIDE DEF place
    <3> QED BY <2>4, <2>5, <3>1, NodeKinds
  <2>7. CASE k \notin 1 .. Len(table)
    <3>1. q \in Prefixes(dst) \ {<< >>} BY <1>1, <1>2, <2>7
    <3>2. SUFFICES ASSUME SandboxNode(q) = None PROVE SandboxNode(q)' = Dir
      <4> HIDE DEF place
      <4> QED BY <2>4, <2>5, NodeKinds
    <3>3. place \in Missing(dst) BY <3>1, <3>2 DEF Missing
    <3>4. place.via = "view" BY <1>0, <1>2, <2>1, <2>2, TopPlace
    <3>5. place.path \in made' BY <3>3, <3>4 DEF Makes
    <3>6. place' = place BY <2>3
    <3> HIDE DEF place
    <3>7. NodeAt(place)' = Dir BY <3>4, <3>5, <3>6 DEF NodeAt
    <3> QED BY <2>4, <3>7
  <2> QED BY <2>6, <2>7
<1> QED BY <1>2 DEF OnTheWay

\* The host is a tree.
HostTree == \A p \in Paths : host[p] # None => \A q \in Prefixes(p) \ {<< >>} : host[q] # None

\* It stays one as directories are made.
LEMMA HostTreeStep ==
    ASSUME NEW c \in Configs, SandboxInv, table \in Seq(MadeMounts(c, host)), HostTree,
           NEW p \in PlainPaths, Makes(Missing(p))
    PROVE  HostTree'
<1>0. /\ host[Visible] = Dir /\ host \in [Paths -> Nodes]
      /\ table \in Seq(ViewMounts) /\ \A q \in made : IsStrictPrefix(Visible, q)
  BY DEF SandboxInv, TypeOK
<1>a. p \in RawPaths BY DEF PlainPaths
<1>1. \A r \in Paths : \/ host'[r] = host[r]
                       \/ /\ host[r] = None /\ host'[r] = Dir
                          /\ \E m \in Missing(p) : m.via = "host" /\ m.path = r
  BY <1>0, <1>a, MakesGrows
<1>2. ASSUME NEW s \in Paths, host'[s] # None, NEW r \in Prefixes(s) \ {<< >>}
      PROVE  host'[r] # None
  <2>1. r \in Paths /\ s \in RawPaths /\ r \in RawPaths /\ IsPrefix(r, s)
    BY <1>2, PathsTyped, PrefixSet, SandboxAssumption
  <2>2. CASE host[s] # None
    <3>1. host[r] # None BY <1>2, <2>2 DEF HostTree
    <3> QED BY <1>1, <2>1, <3>1
  <2>3. CASE host[s] = None
    <3>1. PICK m \in Missing(p) : m.via = "host" /\ m.path = s BY <1>1, <1>2, <2>3
    <3>2. PICK q \in Prefixes(p) \ {<< >>} : m = Place(q) BY DEF Missing
    <3>3. q \in PlainPaths /\ q \in RawPaths /\ IsPrefix(q, p)
      BY <3>2, PlainPrefix DEF PlainPaths
    <3>4. PICK i \in 1 .. Len(table) :
             /\ TopMount(i, q)
             /\ Place(q).via = table[i].via
             /\ Place(q).path = table[i].path \o SubSeq(q, Len(table[i].dst) + 1, Len(q))
      <4>1. Place(q).via # "root" BY <3>1, <3>2
      <4> QED BY <1>0, <4>1, PlaceIn
    <3> DEFINE t == table[i]
               rest == SubSeq(q, Len(t.dst) + 1, Len(q))
    <3>5. t \in MadeMounts(c, host) BY ElementOfSeq
    <3>6. t.via = "host" /\ s = t.path \o rest /\ IsPrefix(t.dst, q)
      BY <3>1, <3>2, <3>4 DEF TopMount
    <3>7. t.dst \in RawPaths BY <3>5 DEF MadeMounts, ViewMounts, Mounts
    <3>8. rest \in PlainPaths /\ q = t.dst \o rest BY <3>3, <3>6, <3>7, SplitAt
    <3>t. TopMount(i, q) /\ t = table[i] BY <3>4
    <3> HIDE DEF t, rest
    <3>9. t.path \in Paths /\ host[t.path] # None BY <3>5, <3>6 DEF MadeMounts
    <3>10. rest \in RawPaths /\ t.path \in RawPaths /\ IsPrefix(t.path, s)
      BY <3>6, <3>8, <3>9, PathsTyped DEF PlainPaths
    <3>11. CASE IsPrefix(r, t.path)
      <4>1. r \in Prefixes(t.path) BY <2>1, <3>10, <3>11, PrefixSet
      <4>2. host[r] # None BY <1>2, <3>9, <4>1 DEF HostTree
      <4> QED BY <1>1, <2>1, <4>2
    <3>12. CASE IsPrefix(t.path, r)
      <4> DEFINE part == SubSeq(r, Len(t.path) + 1, Len(r))
                 u == t.dst \o part
      <4>1. r \in PlainPaths BY <2>1, SandboxAssumption
      <4>2. part \in PlainPaths /\ r = t.path \o part BY <3>10, <3>12, <4>1, SplitAt
      <4> HIDE DEF part
      <4>3. part \in RawPaths BY <4>2 DEF PlainPaths
      <4>4. IsPrefix(part, rest)
        BY <2>1, <3>6, <3>10, <4>2, <4>3, PrefixBelow DEF RawPaths
      <4>5. u \in RawPaths /\ IsPrefix(t.dst, u) /\ IsPrefix(u, q)
        BY <3>7, <3>8, <3>10, <4>3, <4>4, PrefixBelow, PathsTyped DEF RawPaths
      <4>6. TopMount(i, u) BY <1>0, <3>3, <3>t, <4>5, TopBetween
      <4>7. SubSeq(u, Len(t.dst) + 1, Len(u)) = part
        <5>1. IsPrefix(u, p) BY <1>a, <3>3, <4>5, PrefixOrder DEF RawPaths
        <5>2. u \in Prefixes(p) BY <1>a, <4>5, <5>1, PrefixSet
        <5>3. u \in PlainPaths BY <5>2, PlainPrefix
        <5>4. LET other == SubSeq(u, Len(t.dst) + 1, Len(u))
              IN  other \in RawPaths /\ u = t.dst \o other
          BY <3>7, <4>5, <5>3, SplitAt DEF PlainPaths
        <5> QED BY <3>7, <4>3, <5>4, PrefixBelow DEF RawPaths
      <4>8. Place(u).via = "host" /\ Place(u).path = r
        BY <1>0, <3>6, <3>t, <4>2, <4>6, <4>7, TopPlace
      <4>9. CASE part = << >>
        <5>1. r = t.path BY <3>10, <4>2, <4>9, ConcatEmptySeq DEF RawPaths
        <5> QED BY <1>1, <2>1, <3>9, <5>1
      <4>10. CASE part # << >>
        <5>1. IsPrefix(u, p) BY <1>a, <3>3, <4>5, PrefixOrder DEF RawPaths
        <5>2. u \in Prefixes(p) BY <1>a, <4>5, <5>1, PrefixSet
        <5>3. u # << >>
          <6>1. Len(part) \in Nat \ {0} BY <4>3, <4>10, EmptySeq DEF RawPaths
          <6>2. Len(u) = Len(t.dst) + Len(part) /\ Len(t.dst) \in Nat
            BY <3>7, <4>3, ConcatProperties DEF RawPaths
          <6> HIDE DEF u
          <6> QED BY <6>1, <6>2, EmptySeq
        <5> HIDE DEF u
        <5>4. SandboxNode(u) = host[r] BY <2>1, <4>8 DEF SandboxNode, NodeAt
        <5>5. CASE host[r] # None BY <1>1, <2>1, <5>5
        <5>6. CASE host[r] = None
          <6>1. Place(u) \in Missing(p) BY <5>2, <5>3, <5>4, <5>6 DEF Missing
          <6>2. host'[r] = Dir BY <2>1, <4>8, <6>1 DEF Makes
          <6> QED BY <6>2, NodeKinds
        <5> QED BY <5>5, <5>6
      <4> QED BY <4>9, <4>10
    <3> QED BY <2>1, <3>10, <3>11, <3>12, PrefixOrder DEF RawPaths
  <2> QED BY <2>2, <2>3
<1> QED BY <1>2 DEF HostTree

\* What has been added to the configuration's host is in the agent's state, or above it.
Apart(c) ==
    \A p \in Paths :
       \/ host[p] = c.host[p]
       \/ /\ c.host[p] = None /\ ~c.protect
          /\ \E n \in StateBound(c) : IsPrefix(n.path, p) \/ IsPrefix(p, n.path)

\* It stays so as directories are made.
LEMMA ApartStep ==
    ASSUME NEW c \in Configs, SandboxInv, table \in Seq(MadeMounts(c, host)), Apart(c),
           NEW p \in RawPaths, Makes(Missing(p)), \A m \in Missing(p) : m.rw
    PROVE  Apart(c)'
<1>0. /\ host[Visible] = Dir /\ host \in [Paths -> Nodes]
      /\ table \in Seq(ViewMounts) /\ \A q \in made : IsStrictPrefix(Visible, q)
  BY DEF SandboxInv, TypeOK
<1>1. ASSUME NEW s \in Paths, NEW m \in Missing(p), m.via = "host", m.path = s
      PROVE  ~c.protect /\ \E n \in StateBound(c) : IsPrefix(n.path, s)
  <2>2. m.rw OBVIOUS
  <2>3. PICK q \in Prefixes(p) : m = Place(q) BY DEF Missing
  <2>4. PICK i \in 1 .. Len(table) :
               /\ Place(q).via = table[i].via /\ Place(q).rw = table[i].rw
               /\ Place(q).path = table[i].path \o SubSeq(q, Len(table[i].dst) + 1, Len(q))
    <3>1. Place(q).via # "root" BY <1>1, <2>3
    <3> QED BY <1>0, <3>1, PlaceIn
  <2> DEFINE t == table[i]
             rest == SubSeq(q, Len(t.dst) + 1, Len(q))
  <2>5. t \in MadeMounts(c, host) BY ElementOfSeq
  <2>6. t.via = "host" /\ t.rw /\ s = t.path \o rest BY <1>1, <2>2, <2>3, <2>4
  <2>7. t.dst \in RawPaths BY <2>5 DEF MadeMounts, ViewMounts, Mounts
  <2> HIDE DEF t
  <2>8. t.path \in Paths BY <2>5, <2>6 DEF MadeMounts
  <2>9. PICK b \in StateBound(c) \cup ReadBound(c) : t.path = b.path /\ t.rw = b.rw
    BY <2>5, <2>6 DEF MadeMounts
  <2>10. b \in StateBound(c)
    <3>1. b \in ReadBound(c) => ~b.rw BY DEF ReadBound, Resolved, Bind
    <3> QED BY <2>6, <2>9, <3>1
  <2>11. rest \in RawPaths
    <3>1. Len(t.dst) \in Nat BY <2>7 DEF RawPaths
    <3>2. q \in RawPaths BY <2>3, PrefixSet
    <3> QED BY <3>1, <3>2, RestTyped
  <2> HIDE DEF rest
  <2>12. IsPrefix(b.path, s) BY <2>6, <2>8, <2>9, <2>11, PathsTyped
  <2>13. ~c.protect BY <2>10 DEF StateBound
  <2> QED BY <2>10, <2>12, <2>13
<1>2. \A s \in Paths : \/ host'[s] = host[s]
                       \/ /\ host[s] = None
                          /\ \E m \in Missing(p) : m.via = "host" /\ m.path = s
  BY <1>0, MakesGrows
<1>3. ASSUME NEW s \in Paths, host'[s] # host[s]
      PROVE  /\ c.host[s] = None /\ ~c.protect
             /\ \E n \in StateBound(c) : IsPrefix(n.path, s) \/ IsPrefix(s, n.path)
  <2>1. c.host[s] = None BY <1>2, <1>3 DEF Apart
  <2> QED BY <1>1, <1>2, <1>3, <2>1
<1> QED BY <1>3 DEF Apart

\* Something is wherever a path may lead.
There(c, p) == \A e \in Led(c.host, p) : HostNode(e) # None

\* Or where it leads there is something, or the agent's state, or the path is ignored.
Sighted(c, p) ==
    LET real == RealOn(c.host, p)
    IN  /\ InSight(c, p)
        /\ \/ HostNode(real) # None
           \/ Covered(c, real)
           \/ real = p /\ (Inside(Canonical(p)) => Canonical(p) \in ignore)

\* The views and the agent's state are mounted.
AllMounted(c) ==
    /\ {Views[1], Views[2]} \subseteq Range(table)
    /\ ~c.protect => StateDue \subseteq Range(table) /\ ViewsFirst(table)

\* The state that has to be there is made.
StateMade(c) ==
    (c.ensure /\ ~c.protect) =>
       \A b \in Range(StateBinds) :
          LET path == Canonical(RealOn(c.host, b.src))
          IN  (b.src \notin StateFiles /\ path \in Paths) => host[path] # None

\* Nothing in a state directory that is there leads to the view.
LEMMA CoveredPlace ==
    ASSUME NEW c \in Configs, Follows(c), host \in [Paths -> Nodes],
           table \in Seq(MadeMounts(c, host)), AllMounted(c), StateMade(c),
           NEW p, Covered(c, p)
    PROVE  Place(p).via # "view"
<1>1. \A q : HostReal(q) = RealOn(c.host, q) BY FollowsReal
<1>2. PICK b \in Range(StateBinds) :
         LET state == Resolved(c, b, TRUE)
         IN  /\ ~c.protect /\ state.path \in Paths
             /\ c.host[state.path] # None \/ (c.ensure /\ b.src \notin StateFiles)
             /\ IsPrefix(state.dst, p)
  BY DEF Covered
<1> DEFINE m == Bind("host", Canonical(HostReal(b.src)), HostReal(b.dst), TRUE)
<1>3. m = Resolved(c, b, TRUE) BY <1>1 DEF Resolved
<1>4. /\ m.path = Canonical(RealOn(c.host, b.src)) /\ m.via = "host" /\ m.rw
  BY <1>1 DEF Bind
<1> HIDE DEF m
<1>5. m.path \in Paths /\ host[m.path] # None BY <1>2, <1>3, <1>4 DEF Follows, StateMade
<1>6. m \in StateDue
  <2>1. HostNode(HostReal(b.src)) # None BY <1>1, <1>4, <1>5 DEF HostNode, NodeOn
  <2> QED BY <2>1 DEF StateDue, m
<1>7. PICK j \in 1 .. Len(table) : m = table[j]
  BY <1>2, <1>6, RangeOf DEF AllMounted
<1>8. SUFFICES ASSUME Place(p).via = "view" PROVE FALSE OBVIOUS
<1>9. PICK i \in 1 .. Len(table) : TopMount(i, p) /\ Place(p).via = table[i].via
  BY <1>8, PlaceIn
<1>10. j <= i BY <1>2, <1>3, <1>7, <1>9 DEF TopMount
<1>11. i < j BY <1>2, <1>4, <1>7, <1>8, <1>9 DEF AllMounted, ViewsFirst
<1>12. Len(table) \in Nat BY LenProperties
<1> QED BY <1>10, <1>11, <1>12

\* What a view shows at a path, topmost over it, is as the host spells it.
LEMMA ViewPlace ==
    ASSUME ViewsApart, NEW c, table \in Seq(MadeMounts(c, host)), NEW p \in PlainPaths,
           NEW i, TopMount(i, p), table[i].via = "view"
    PROVE  Place(p).path = Canonical(p)
<1>1. table[i] \in MadeMounts(c, host) /\ IsPrefix(table[i].dst, p)
  BY RangeOf DEF TopMount
<1>2. PICK v \in {1, 2} : table[i] = Views[v] BY <1>1 DEF MadeMounts
<1>3. Views[v].path \o SubSeq(p, Len(Views[v].dst) + 1, Len(p)) = Canonical(p)
  BY <1>1, <1>2, ViewShows
<1>4. Place(p).path = table[i].path \o SubSeq(p, Len(table[i].dst) + 1, Len(p))
  BY TopPlace
<1> QED BY <1>2, <1>3, <1>4

\* If a mount has to be made a directory for in the view, the session ignores it.
LEMMA TargetIgnored ==
    ASSUME ViewsApart, LinksShown, ReadOnlyWhole, NEW c \in Configs, SandboxInv, Follows(c),
           NoLinkMade, table \in Seq(MadeMounts(c, host)), NEW d \in Places(c),
           There(c, d) \/ (AllMounted(c) /\ StateMade(c) /\ Sighted(c, d)),
           SandboxNode(SandboxReal(d)) = None, Place(SandboxReal(d)).via = "view"
    PROVE  Place(SandboxReal(d)).path \in ignore
<1> DEFINE e == SandboxReal(d)
<1>0. /\ host[Visible] = Dir /\ host \in [Paths -> Nodes] /\ table \in Seq(ViewMounts)
      /\ c.host \in [Paths -> Nodes] /\ d \in PlainPaths
      /\ Visible \in Paths /\ Canonical(Visible) = Visible
  BY SandboxAssumption DEF SandboxInv, TypeOK, LinksShown
<1>1. e \in Led(c.host, d) BY <1>0, RealLed
<1>2. e \in PlainPaths /\ e \in RawPaths BY <1>0, <1>1, LedPlain DEF PlainPaths
<1>3. /\ \/ There(c, d)
         \/ AllMounted(c) /\ StateMade(c) /\ Sighted(c, d) /\ e = HostReal(d)
      /\ SandboxNode(e) = None /\ Place(e).via = "view"
  <2>1. ASSUME AllMounted(c), Sighted(c, d) PROVE e = HostReal(d)
    <3>1. \A i \in {1, 2} : \E j \in 1 .. Len(table) : table[j] = Views[i]
      BY <1>0, <2>1, RangeOf DEF AllMounted
    <3>2. InSight(c, d) BY <2>1 DEF Sighted
    <3> QED BY <1>0, <3>1, <3>2, SightReal
  <2> QED BY <2>1
<1> HIDE DEF e
<1>4. PICK i \in 1 .. Len(table) : TopMount(i, e) /\ table[i].via = "view"
  BY <1>0, <1>3, PlaceIn
<1>5. Place(e).path = Canonical(e) BY <1>2, <1>4, ViewPlace
<1>6. HostNode(e) = None
  <2>1. SandboxNode(e) = Dir
        \/ SandboxNode(e) = IF Place(e).path \in Paths THEN host[Place(e).path] ELSE None
    BY <1>3 DEF SandboxNode, NodeAt
  <2> QED BY <1>3, <1>5, <2>1, NodeKinds DEF HostNode, NodeOn
<1>7. Inside(Canonical(e))
  <2>1. IsPrefix(Visible, Canonical(e)) BY <1>0, <1>2, <1>3, <1>5, PlaceTyped
  <2>2. Canonical(e) # Visible BY <1>0, <1>6, NodeKinds DEF HostNode, NodeOn
  <2> QED BY <1>0, <2>1, <2>2 DEF Inside, IsStrictPrefix
<1>8. ~There(c, d) BY <1>1, <1>6 DEF There
<1>9. e = RealOn(c.host, d) BY <1>0, <1>3, <1>8, FollowsReal
<1>10. ~Covered(c, e) BY <1>0, <1>3, <1>8, CoveredPlace
<1>11. Canonical(e) \in ignore BY <1>3, <1>6, <1>7, <1>8, <1>9, <1>10 DEF Sighted
<1> QED BY <1>5, <1>11 DEF e

\* What is missing in the view on the way to a path is above what the view shows there,
\* and that is missing, too, or was made.
LEMMA MissingLeads ==
    ASSUME ViewsApart, NEW c \in Configs, SandboxInv, OnTheWay, HostTree,
           table \in Seq(MadeMounts(c, host)), NEW e \in PlainPaths,
           NEW q \in Prefixes(e) \ {<< >>}, SandboxNode(q) = None, Place(q).via = "view"
    PROVE  /\ e # << >> /\ Place(e).via = "view" /\ Place(q).path \in PlainPaths
           /\ Place(e).path \in RawPaths /\ IsPrefix(Place(q).path, Place(e).path)
           /\ SandboxNode(e) = None \/ Place(e).path \in made
<1>0. /\ host[Visible] = Dir /\ host \in [Paths -> Nodes] /\ table \in Seq(ViewMounts)
      /\ e \in RawPaths
  BY DEF SandboxInv, TypeOK, PlainPaths
<1>1. q \in PlainPaths /\ q \in RawPaths /\ IsPrefix(q, e)
  BY PlainPrefix DEF PlainPaths
<1>2. PICK i \in 1 .. Len(table) : TopMount(i, q) /\ table[i].via = "view"
  BY <1>0, PlaceIn
<1>3. Place(q).path = Canonical(q) /\ Canonical(q) \in PlainPaths /\ Canonical(q) \in RawPaths
  BY <1>1, <1>2, ViewPlace, PathsTyped
<1> DEFINE m == table[i]
<1>4. m \in ViewMounts /\ IsPrefix(m.dst, q) BY <1>0, <1>2, RangeOf DEF TopMount
<1>5. m.dst \in RawPaths /\ m.path \in RawPaths BY <1>4 DEF ViewMounts, Mounts
<1>6. IsPrefix(m.dst, e) BY <1>0, <1>1, <1>4, <1>5, PrefixOrder DEF RawPaths
<1>7. PICK k \in 1 .. Len(table) : TopMount(k, e)
  BY <1>0, <1>2, <1>6, PlaceIn
<1>8. k = i
  <2>1. i <= k BY <1>2, <1>6, <1>7 DEF TopMount
  <2>2. SUFFICES ASSUME i < k PROVE FALSE
    <3>1. Len(table) \in Nat BY <1>0, LenProperties
    <3> QED BY <2>1, <3>1
  <2>3. table[k] \in ViewMounts /\ IsPrefix(table[k].dst, e) BY <1>0, <1>7, RangeOf DEF TopMount
  <2>4. table[k].dst \in RawPaths BY <2>3 DEF ViewMounts, Mounts
  <2>5. ~IsPrefix(table[k].dst, q)
    <3>1. IsPrefix(table[k].dst, q) => k <= i BY <1>2 DEF TopMount
    <3>2. Len(table) \in Nat BY <1>0, LenProperties
    <3> QED BY <2>2, <3>1, <3>2
  <2>6. IsPrefix(q, table[k].dst)
    BY <1>0, <1>1, <2>3, <2>4, <2>5, PrefixOrder DEF RawPaths
  <2>7. q \in Prefixes(table[k].dst) BY <1>1, <2>4, <2>6, PrefixSet
  <2> QED BY <1>2, <2>2, <2>7 DEF OnTheWay
<1>9. TopMount(i, e) BY <1>7, <1>8
<1>10. Place(e).path = Canonical(e) /\ Place(e).via = "view"
  BY <1>0, <1>2, <1>9, ViewPlace, TopPlace
<1>11. Canonical(e) \in RawPaths BY <1>0, PathsTyped
<1> DEFINE restq == SubSeq(q, Len(m.dst) + 1, Len(q))
           reste == SubSeq(e, Len(m.dst) + 1, Len(e))
<1>12. /\ Canonical(q) = m.path \o restq /\ Canonical(e) = m.path \o reste
  BY <1>0, <1>2, <1>3, <1>9, <1>10, TopPlace
<1> HIDE DEF m
<1>13. /\ restq \in PlainPaths /\ q = m.dst \o restq
       /\ reste \in PlainPaths /\ e = m.dst \o reste
  BY <1>1, <1>4, <1>5, <1>6, SplitAt
<1> HIDE DEF restq, reste
<1>14. IsPrefix(restq, reste)
  BY <1>1, <1>5, <1>13, PrefixBelow DEF RawPaths, PlainPaths
<1>15. IsPrefix(Canonical(q), Canonical(e))
  BY <1>5, <1>12, <1>13, <1>14, PrefixBelow DEF RawPaths, PlainPaths
<1>16. e # << >>
  <2>1. Len(q) \in Nat \ {0} BY <1>1, EmptySeq DEF RawPaths
  <2>2. Len(q) <= Len(e) BY <1>0, <1>1, PrefixFields DEF RawPaths
  <2> QED BY <2>1, <2>2, EmptySeq
<1>17. ASSUME SandboxNode(e) # None, Place(e).path \notin made PROVE FALSE
  <2>1. Canonical(e) \in Paths /\ host[Canonical(e)] # None
    BY <1>10, <1>17 DEF SandboxNode, NodeAt
  <2>2. Place(q) \in Missing(e) BY DEF Missing
  <2>3. IsStrictPrefix(Visible, Canonical(q)) BY <1>0, <1>3, <2>2, MissingPlaces
  <2>4. Canonical(q) # << >>
    <3>1. Visible \in RawPaths BY PathsTyped
    <3>2. IsPrefix(Visible, Canonical(q)) /\ Visible # Canonical(q) BY <2>3 DEF IsStrictPrefix
    <3>3. SUFFICES ASSUME Canonical(q) = << >> PROVE FALSE OBVIOUS
    <3>4. Len(Visible) <= 0 /\ Len(Visible) \in Nat
      BY <1>3, <3>1, <3>2, <3>3, EmptySeq, PrefixFields DEF RawPaths
    <3>5. Len(Visible) = 0 BY <3>4
    <3> QED BY <3>1, <3>2, <3>3, <3>5, EmptySeq DEF RawPaths
  <2>5. Canonical(q) \in Prefixes(Canonical(e)) BY <1>3, <1>11, <1>15, PrefixSet
  <2>6. host[Canonical(q)] # None /\ Canonical(q) \in Paths
    BY <2>1, <2>4, <2>5, SandboxAssumption DEF HostTree
  <2>7. SandboxNode(q) = Dir \/ SandboxNode(q) = host[Canonical(q)]
    BY <1>3, <2>6 DEF SandboxNode, NodeAt
  <2> QED BY <2>6, <2>7, NodeKinds
<1> QED BY <1>3, <1>10, <1>11, <1>15, <1>16, <1>17

\* Every directory that was made is on the way to one that is ignored.
MadeIgnored ==
    /\ made \subseteq PlainPaths
    /\ \A p \in made : \E l \in made, x \in ignore : IsPrefix(p, l) /\ IsPrefix(x, l)

\* Making the places on the way to what is mounted on keeps it so.
LEMMA MadeIgnoredStep ==
    ASSUME ViewsApart, LinksShown, ReadOnlyWhole, NEW c \in Configs, SandboxInv, Follows(c),
           NoLinkMade, table \in Seq(MadeMounts(c, host)), NEW d \in Places(c),
           There(c, d) \/ (AllMounted(c) /\ StateMade(c) /\ Sighted(c, d)),
           OnTheWay, HostTree, MadeIgnored, Makes(Missing(SandboxReal(d))),
           UNCHANGED ignore
    PROVE  MadeIgnored'
<1> DEFINE e == SandboxReal(d)
<1>0. /\ host \in [Paths -> Nodes] /\ c.host \in [Paths -> Nodes] /\ d \in PlainPaths
      /\ \A x \in ignore : x \in ignore'
  BY SandboxAssumption DEF SandboxInv, TypeOK, LinksShown
<1>1. e \in Led(c.host, d) BY <1>0, RealLed
<1>2. e \in PlainPaths /\ e \in RawPaths BY <1>0, <1>1, LedPlain DEF PlainPaths
<1>3. SandboxNode(e) = None /\ Place(e).via = "view" => Place(e).path \in ignore
  BY TargetIgnored
<1>4. made' = made \cup {m.path : m \in {n \in Missing(e) : n.via = "view"}}
  BY DEF Makes
<1> HIDE DEF e
<1>5. ASSUME NEW p \in made
      PROVE  p \in PlainPaths /\ \E l \in made', x \in ignore : IsPrefix(p, l) /\ IsPrefix(x, l)
  BY <1>4 DEF MadeIgnored
<1>6. ASSUME NEW q \in Prefixes(e) \ {<< >>}, SandboxNode(q) = None, Place(q).via = "view"
      PROVE  /\ Place(q).path \in PlainPaths
             /\ \E l \in made', x \in ignore : IsPrefix(Place(q).path, l) /\ IsPrefix(x, l)
  <2>1. /\ e # << >> /\ Place(e).via = "view" /\ Place(q).path \in PlainPaths
        /\ Place(e).path \in RawPaths /\ IsPrefix(Place(q).path, Place(e).path)
        /\ SandboxNode(e) = None \/ Place(e).path \in made
    BY <1>2, <1>6, MissingLeads
  <2>2. CASE SandboxNode(e) = None
    <3>1. e \in Prefixes(e) BY <1>2, PrefixSet
    <3>2. Place(e) \in Missing(e) BY <2>1, <2>2, <3>1 DEF Missing
    <3>3. Place(e).path \in made' /\ Place(e).path \in ignore BY <1>3, <1>4, <2>1, <2>2, <3>2
    <3>4. IsPrefix(Place(e).path, Place(e).path) BY <2>1, PrefixOrder DEF RawPaths
    <3> QED BY <2>1, <3>3, <3>4
  <2>3. CASE Place(e).path \in made
    <3>1. PICK l \in made, x \in ignore : IsPrefix(Place(e).path, l) /\ IsPrefix(x, l)
      BY <2>3 DEF MadeIgnored
    <3>2. l \in RawPaths /\ Place(q).path \in RawPaths
      BY <2>1 DEF MadeIgnored, PlainPaths
    <3>3. IsPrefix(Place(q).path, l) BY <2>1, <3>1, <3>2, PrefixOrder DEF RawPaths
    <3> QED BY <1>4, <2>1, <3>1, <3>3
  <2> QED BY <2>1, <2>2, <2>3
<1>7. ASSUME NEW p \in made', p \notin made
      PROVE  p \in PlainPaths /\ \E l \in made', x \in ignore : IsPrefix(p, l) /\ IsPrefix(x, l)
  <2>1. PICK m \in Missing(e) : m.via = "view" /\ m.path = p BY <1>4, <1>7
  <2>2. PICK q \in Prefixes(e) \ {<< >>} : m = Place(q) /\ SandboxNode(q) = None
    BY DEF Missing
  <2> QED BY <1>6, <2>1, <2>2
<1> QED BY <1>0, <1>5, <1>7 DEF MadeIgnored

-----------------------------------------------------------------------------
\* What is mounted is made a place for before, or is known to the session.

\* The views and the agent's state.
Early(m) == m.via = "view" \/ (m.via = "host" /\ m.rw)

\* A mount that has nothing to be mounted on comes after those, and is known.
Plumbed(c, s) ==
    \A i \in 1 .. Len(s) :
       \/ There(c, s[i].dst)
       \/ /\ Sighted(c, s[i].dst)
          /\ \A j \in 1 .. Len(s) : i <= j => ~Early(s[j])

\* It stays so when others of the kind follow.
LEMMA PlumbedOn ==
    ASSUME NEW c, NEW S, NEW s \in Seq(S), NEW t \in Seq(S), Plumbed(c, s),
           \A i \in 1 .. Len(t) : Sighted(c, t[i].dst) /\ ~Early(t[i])
    PROVE  s \o t \in Seq(S) /\ Plumbed(c, s \o t)
<1> DEFINE u == s \o t
<1>1. /\ u \in Seq(S) /\ Len(u) = Len(s) + Len(t) /\ Len(s) \in Nat /\ Len(t) \in Nat
      /\ \A i \in 1 .. Len(s) + Len(t) :
            u[i] = IF i <= Len(s) THEN s[i] ELSE t[i - Len(s)]
  BY ConcatProperties, LenProperties
<1> HIDE DEF u
<1>2. ASSUME NEW j \in 1 .. Len(u), ~(j <= Len(s))
      PROVE  Sighted(c, u[j].dst) /\ ~Early(u[j])
  <2>1. j - Len(s) \in 1 .. Len(t) /\ u[j] = t[j - Len(s)] BY <1>1, <1>2
  <2> QED BY <2>1
<1>3. ASSUME NEW i \in 1 .. Len(u)
      PROVE  \/ There(c, u[i].dst)
             \/ Sighted(c, u[i].dst) /\ \A j \in 1 .. Len(u) : i <= j => ~Early(u[j])
  <2>1. CASE i <= Len(s)
    <3>1. i \in 1 .. Len(s) /\ u[i] = s[i] BY <1>1, <2>1
    <3>2. CASE There(c, s[i].dst) BY <3>1, <3>2
    <3>3. CASE /\ Sighted(c, s[i].dst)
               /\ \A j \in 1 .. Len(s) : i <= j => ~Early(s[j])
      <4>1. ASSUME NEW j \in 1 .. Len(u), i <= j PROVE ~Early(u[j])
        <5>1. CASE j <= Len(s)
          <6>1. j \in 1 .. Len(s) /\ u[j] = s[j] BY <1>1, <5>1
          <6> QED BY <3>3, <4>1, <6>1
        <5> QED BY <1>2, <5>1
      <4> QED BY <3>1, <3>3, <4>1
    <3> QED BY <3>1, <3>2, <3>3 DEF Plumbed
  <2>2. CASE ~(i <= Len(s))
    <3>1. Sighted(c, u[i].dst) BY <1>2, <2>2
    <3>2. \A j \in 1 .. Len(u) : i <= j => ~(j <= Len(s)) BY <1>1, <2>2
    <3> QED BY <1>2, <3>1, <3>2
  <2> QED BY <2>1, <2>2
<1>4. Plumbed(c, u) BY <1>3 DEF Plumbed
<1> QED BY <1>1, <1>4 DEF u

\* What the session has to know: where the runtime and the plugin are mounted, if they
\* are there and no link is on the way, and what the agent's runtime keeps.
Known(c) ==
    {b.dst : b \in {x \in Range(RuntimeBinds) :
                       /\ NodeOn(c.host, RealOn(c.host, x.src)) # None
                       /\ RealOn(c.host, x.dst) = x.dst}}
    \cup {p \in Range(Plugin.ensure_dirs) \cup {Plugin.sandbox_path} :
             NodeOn(c.host, RealOn(c.host, Plugin.src)) = Dir}
IgnoresKnown(c) ==
    /\ \A p \in Known(c) :
          (Inside(Canonical(p)) /\ (c.protect \/ ~InStateHome(Canonical(p)))) =>
             Canonical(p) \in ignore
    /\ ~c.protect => \A p \in RuntimeState : Inside(Canonical(p)) => Canonical(p) \in ignore

\* It does when it is created.
LEMMA CreatedKnows ==
    ASSUME NEW c \in Configs, Follows(c), host = c.host, host \in [Paths -> Nodes],
           CreateSession
    PROVE  IgnoresKnown(c)'
<1>1. /\ config.protect = c.protect /\ \A p : HostReal(p) = RealOn(c.host, p)
      /\ \A p : HostNode(p) = NodeOn(c.host, p)
  BY FollowsReal DEF HostNode
<1>2. ignore' = SessionIgnores BY DEF CreateSession
<1> DEFINE bound == UNION {Range(Optional(b)) : b \in Range(RuntimeBinds)}
           on == {b.dst : b \in bound} \cup PluginDirs
<1>3. \A m \in on : InfraIgnores(m) \subseteq SessionIgnores BY DEF SessionIgnores
<1>4. Known(c) \subseteq on
  <2>1. ASSUME NEW b \in Range(RuntimeBinds), NodeOn(c.host, RealOn(c.host, b.src)) # None,
               RealOn(c.host, b.dst) = b.dst
        PROVE  b.dst \in on
    <3> DEFINE e == [src |-> HostReal(b.src), dst |-> HostReal(b.dst)]
    <3>1. Optional(b) = << e >> BY <1>1, <2>1 DEF Optional
    <3>2. e.dst = b.dst BY <1>1, <2>1
    <3> HIDE DEF e
    <3>3. e \in Range(<< e >>)
      <4> DEFINE one == << e >>
      <4>1. one \in Seq({e}) /\ Len(one) = 1 /\ one[1] = e OBVIOUS
      <4> HIDE DEF one
      <4>2. one[1] \in Range(one) BY <4>1, RangeOf
      <4> QED BY <4>1, <4>2 DEF one
    <3>4. e \in bound BY <2>1, <3>1, <3>3
    <3> HIDE DEF bound
    <3> QED BY <3>2, <3>4
  <2>2. ASSUME NodeOn(c.host, RealOn(c.host, Plugin.src)) = Dir
        PROVE  Range(Plugin.ensure_dirs) \cup {Plugin.sandbox_path} \subseteq on
    <3>1. PluginThere BY <1>1, <2>2 DEF PluginThere
    <3> QED BY <3>1 DEF PluginDirs
  <2> HIDE DEF on
  <2> QED BY <2>1, <2>2 DEF Known
<1> HIDE DEF on
<1>5. ASSUME NEW p \in Known(c), Inside(Canonical(p)), c.protect \/ ~InStateHome(Canonical(p))
      PROVE  Canonical(p) \in ignore'
  <2>1. p \in RawPaths
    <3>1. ASSUME NEW b \in Range(RuntimeBinds) PROVE b.dst \in RawPaths
      <4>1. b \in Binds BY RangeOf, SandboxAssumption
      <4> QED BY <4>1 DEF Binds
    <3>2. \A d \in Range(Plugin.ensure_dirs) \cup {Plugin.sandbox_path} : d \in RawPaths
      BY RangeOf, SandboxAssumption
    <3> QED BY <3>1, <3>2 DEF Known
  <2>2. Canonical(p) \in Prefixes(Canonical(p)) BY <2>1, PathsTyped, PrefixSet
  <2> DEFINE target == Canonical(p)
  <2>3. target \in InfraIgnores(p)
    <3>1. CASE InStateHome(target)
      <4>1. InfraIgnores(p) = {t \in {target} : config.protect}
        BY <1>5, <3>1 DEF InfraIgnores
      <4> QED BY <1>1, <1>5, <3>1, <4>1
    <3>2. CASE ~InStateHome(target)
      <4>1. InfraIgnores(p) =
              {t \in Prefixes(target) : t = target \/ IsStrictPrefix(Canonical(Home), t)}
        BY <1>5, <3>2 DEF InfraIgnores
      <4> QED BY <2>2, <4>1
    <3> QED BY <3>1, <3>2
  <2> HIDE DEF target
  <2> QED BY <1>2, <1>3, <1>4, <2>3 DEF target
<1>6. ASSUME ~c.protect, NEW p \in RuntimeState, Inside(Canonical(p))
      PROVE  Canonical(p) \in ignore'
  <2>1. Canonical(p) \in RuntimeIgnores BY <1>1, <1>6 DEF RuntimeIgnores
  <2> QED BY <1>2, <2>1 DEF SessionIgnores
<1> QED BY <1>5, <1>6 DEF IgnoresKnown

\* What the configuration's host has is there, and nothing else of the runtime and
\* the plugin.
LEMMA HostHas ==
    ASSUME NEW c \in Configs, Follows(c), NEW p, NodeOn(c.host, p) # None
    PROVE  HostNode(p) # None
BY DEF NodeOn, HostNode, Follows

LEMMA AssetThere ==
    ASSUME AssetsApart, NEW c \in Configs, Follows(c), Apart(c), host \in [Paths -> Nodes],
           NEW src \in {b.src : b \in Range(RuntimeBinds)} \cup {Plugin.src},
           HostNode(HostReal(src)) # None
    PROVE  HostNode(HostReal(src)) = NodeOn(c.host, RealOn(c.host, src))
<1> DEFINE path == Canonical(RealOn(c.host, src))
<1>1. HostReal(src) = RealOn(c.host, src) BY FollowsReal
<1>2. path \in Paths /\ host[path] # None /\ HostNode(HostReal(src)) = host[path]
  BY <1>1 DEF HostNode, NodeOn
<1>3. NodeOn(c.host, RealOn(c.host, src)) = c.host[path] BY <1>2 DEF NodeOn
<1>4. (~c.protect /\ c.host[path] = None) =>
         \A m \in StateBound(c) : ~IsPrefix(m.path, path) /\ ~IsPrefix(path, m.path)
  BY <1>2 DEF AssetsApart
<1> HIDE DEF path
<1>5. host[path] = c.host[path] BY <1>2, <1>4 DEF Apart
<1> QED BY <1>2, <1>3, <1>5

\* A seat is a place in sight, if the session knows of it.
LEMMA SeatSighted ==
    ASSUME NEW c \in Configs, Follows(c), NEW p, NEW ignored, Seated(c, p, ignored),
           (ignored /\ RealOn(c.host, p) = p /\ Inside(Canonical(p))) => Canonical(p) \in ignore
    PROVE  Sighted(c, p)
<1>1. NodeOn(c.host, RealOn(c.host, p)) # None => HostNode(RealOn(c.host, p)) # None
  BY HostHas
<1> QED BY <1>1 DEF Seated, Sighted

\* Without a link on the way a path leads nowhere else.
LEMMA UnlinkedLed ==
    ASSUME NEW files, NEW p, \A q \in Prefixes(p) : NodeOn(files, q).kind # "link"
    PROVE  Led(files, p) = {p} /\ RealOn(files, p) = p
<1>1. {r \in Prefixes(p) : NodeOn(files, r).kind = "link"} = {} OBVIOUS
<1>2. Led(files, p) = {p} BY <1>1 DEF Led
<1>3. RealOn(files, p) = p BY DEF RealOn, Followed
<1> QED BY <1>2, <1>3

\* There is something wherever the system's directories, the views and the agent's
\* state are mounted.
LEMMA EarlyThere ==
    ASSUME ViewsApart, StateInSight, HostWhole, PlumbingSeated, NEW c \in Configs,
           Follows(c), host \in [Paths -> Nodes]
    PROVE  /\ \A b \in Range(SystemDirs) : There(c, b.dst)
           /\ \A i \in {1, 2} : There(c, Views[i].dst)
           /\ ~c.protect => \A b \in Range(StateBinds) : HostNode(HostReal(b.src)) # None =>
                 There(c, HostReal(b.dst))
           /\ ~c.protect => \A t \in LinkedState : There(c, t)
<1>0. /\ \A p : HostReal(p) = RealOn(c.host, p)
      /\ c.host[Visible] = Dir /\ Visible \in Paths /\ Canonical(Visible) = Visible
  BY FollowsReal, SandboxAssumption
<1>1. ASSUME NEW b \in Range(SystemDirs) PROVE There(c, b.dst)
  <2>1. \A dst \in Led(c.host, b.dst) : NodeOn(c.host, dst) # None BY DEF PlumbingSeated
  <2> QED BY <2>1, HostHas DEF There
<1>2. ASSUME NEW i \in {1, 2} PROVE There(c, Views[i].dst)
  <2>1. Views[i].dst \in {Visible, Home} BY PathsTyped DEF Views, Bind
  <2>2. \A p \in {Visible, Home} : Led(c.host, p) = {p} BY UnlinkedLed DEF ViewsApart
  <2>3. NodeOn(c.host, Visible) # None BY <1>0, NodeKinds DEF NodeOn
  <2>4. NodeOn(c.host, Home) # None BY DEF HostWhole
  <2> QED BY <2>1, <2>2, <2>3, <2>4, HostHas DEF There
<1>3. ASSUME ~c.protect, NEW b \in Range(StateBinds), HostNode(HostReal(b.src)) # None
      PROVE  There(c, HostReal(b.dst))
  <2> DEFINE D == RealOn(c.host, b.dst)
  <2>1. \A q \in Prefixes(D) : NodeOn(c.host, q).kind # "link"
    <3>1. Resolved(c, b, TRUE).dst = D BY DEF Resolved, Bind
    <3> QED BY <1>3, <3>1 DEF StateInSight
  <2>2. Led(c.host, D) = {D} BY <2>1, UnlinkedLed
  <2>3. b.src = b.dst \/ NodeOn(c.host, D) # None BY <1>3 DEF PlumbingSeated
  <2>4. HostNode(D) # None BY <1>0, <1>3, <2>3, HostHas
  <2> HIDE DEF D
  <2> QED BY <1>0, <2>2, <2>4 DEF There, D
<1>4. ASSUME NEW t \in LinkedState PROVE There(c, t)
  <2>1. Led(c.host, t) = {t} BY LinkedUnlinked, UnlinkedLed
  <2>2. HostNode(t) = Dir BY DEF LinkedState, TargetDirs
  <2> QED BY <2>1, <2>2, NodeKinds DEF There
<1> QED BY <1>1, <1>2, <1>3, <1>4

\* The runtime, the masks and the plugin are mounted on what is in sight.
LEMMA LateSighted ==
    ASSUME PlumbingSeated, AssetsApart, NEW c \in Configs, Follows(c), Apart(c),
           host \in [Paths -> Nodes], IgnoresKnown(c)
    PROVE  /\ \A b \in Range(RuntimeBinds) : Present(b) => Sighted(c, HostReal(b.dst))
           /\ \A m \in Range(Masks) : HostNode(HostReal(m)) # None => Sighted(c, m)
           /\ PluginThere => \A p \in Range(Plugin.ensure_dirs) \cup {Plugin.sandbox_path} :
                 Sighted(c, p)
<1>0. \A p : HostReal(p) = RealOn(c.host, p) BY FollowsReal
<1> DEFINE known(p) == c.protect \/ ~InStateHome(Canonical(p))
<1>1. ASSUME NEW b \in Range(RuntimeBinds), Present(b) PROVE Sighted(c, HostReal(b.dst))
  <2> DEFINE D == RealOn(c.host, b.dst)
  <2>1. NodeOn(c.host, RealOn(c.host, b.src)) # None
    BY <1>1, AssetThere DEF Present
  <2>2. Seated(c, D, known(D)) BY <2>1 DEF PlumbingSeated
  <2>3. CASE D = b.dst
    <3>1. D \in Known(c) BY <2>1, <2>3 DEF Known
    <3>2. (known(D) /\ Inside(Canonical(D))) => Canonical(D) \in ignore
      BY <3>1 DEF IgnoresKnown
    <3> HIDE DEF D
    <3>3. Sighted(c, D) BY <2>2, <3>2, SeatSighted
    <3> QED BY <1>0, <3>3 DEF D
  <2>4. CASE D # b.dst
    <3>1. HostNode(D) # None BY <1>0, <1>1, <2>4 DEF Present
    <3>2. InSight(c, D) BY <2>2 DEF Seated
    <3> HIDE DEF D
    <3>3. CASE RealOn(c.host, D) = D
      <4>1. Sighted(c, D) BY <3>1, <3>2, <3>3 DEF Sighted
      <4> QED BY <1>0, <4>1 DEF D
    <3>4. CASE RealOn(c.host, D) # D
      <4>1. Sighted(c, D) BY <2>2, <3>4, SeatSighted
      <4> QED BY <1>0, <4>1 DEF D
    <3> QED BY <3>3, <3>4
  <2> QED BY <2>3, <2>4
<1>2. ASSUME NEW m \in Range(Masks), HostNode(HostReal(m)) # None PROVE Sighted(c, m)
  BY <1>0, <1>2 DEF PlumbingSeated, Sighted
<1>3. ASSUME PluginThere, NEW p \in Range(Plugin.ensure_dirs) \cup {Plugin.sandbox_path}
      PROVE  Sighted(c, p)
  <2>1. NodeOn(c.host, RealOn(c.host, Plugin.src)) = Dir
    BY <1>3, NodeKinds, AssetThere DEF PluginThere
  <2>2. Seated(c, p, known(p)) BY <2>1 DEF PlumbingSeated
  <2>3. p \in Known(c) BY <2>1 DEF Known
  <2>4. (known(p) /\ Inside(Canonical(p))) => Canonical(p) \in ignore
    BY <2>3 DEF IgnoresKnown
  <2> HIDE DEF known
  <2> QED BY <2>2, <2>4, SeatSighted
<1> QED BY <1>1, <1>2, <1>3

\* So is the command line, and the views are on it.
LEMMA CommandPlumbed ==
    ASSUME ViewsApart, StateInSight, HostWhole, PlumbingSeated, AssetsApart,
           NEW c \in Configs, Follows(c), Apart(c), host \in [Paths -> Nodes], IgnoresKnown(c)
    PROVE  Plumbed(c, Command) /\ {Views[1], Views[2]} \subseteq Range(Command)
<1>0. /\ \A b \in Range(SystemDirs) : b \in Binds
      /\ \A b \in Range(RuntimeBinds) : b \in Binds
      /\ \A m \in Range(Masks) : m \in RawPaths
      /\ \A d \in Range(Plugin.ensure_dirs) : d \in RawPaths
      /\ config.protect = c.protect
  BY RangeOf, SandboxAssumption, FollowsReal
<1> DEFINE First == {m \in ViewMounts : There(c, m.dst)}
           Late == {m \in ViewMounts : Sighted(c, m.dst) /\ ~Early(m)}
           system == HostBinds(SystemDirs, FALSE)
           runtime == OptionalBinds(RuntimeBinds, FALSE)
<1>1. ASSUME NEW path \in RawPaths, NEW dst \in RawPaths, NEW rw \in BOOLEAN
      PROVE  /\ There(c, dst) => Bind("host", path, dst, rw) \in First
             /\ Sighted(c, dst) => /\ Bind("host", path, dst, FALSE) \in Late
                                   /\ Bind("null", path, dst, FALSE) \in Late
                                   /\ MakeDir(dst) \in Late
  <2>1. /\ Bind("host", path, dst, rw) \in ViewMounts
        /\ Bind("host", path, dst, FALSE) \in ViewMounts
        /\ Bind("null", path, dst, FALSE) \in ViewMounts /\ MakeDir(dst) \in ViewMounts
    BY BindTyped
  <2>2. /\ Bind("host", path, dst, rw).dst = dst /\ Bind("host", path, dst, FALSE).dst = dst
        /\ Bind("null", path, dst, FALSE).dst = dst /\ MakeDir(dst).dst = dst
    BY DEF Bind, MakeDir
  <2>3. /\ ~Early(Bind("host", path, dst, FALSE)) /\ ~Early(Bind("null", path, dst, FALSE))
        /\ ~Early(MakeDir(dst))
    BY DEF Early, Bind, MakeDir
  <2> QED BY <2>1, <2>2, <2>3
<1>2. system \in Seq(First)
  <2>1. ASSUME NEW b \in Range(SystemDirs)
        PROVE  Bind("host", Canonical(b.src), b.dst, FALSE) \in First
    <3>1. There(c, b.dst) BY EarlyThere
    <3>2. Canonical(b.src) \in RawPaths /\ b.dst \in RawPaths BY <1>0, PathsTyped DEF Binds
    <3> HIDE DEF First
    <3> QED BY <1>1, <3>1, <3>2
  <2>2. SystemDirs \in Seq(Range(SystemDirs)) BY OwnRange, SandboxAssumption
  <2> HIDE DEF First
  <2> QED BY <2>1, <2>2, HostBindsIn
<1>3. SharedState \in Seq(First)
  <2>1. ASSUME ~config.protect, NEW b \in Range(StateBinds), HostNode(HostReal(b.src)) # None
        PROVE  Bind("host", Canonical(HostReal(b.src)), HostReal(b.dst), TRUE) \in First
    <3>1. There(c, HostReal(b.dst)) BY <1>0, <2>1, EarlyThere
    <3>2. Canonical(HostReal(b.src)) \in RawPaths /\ HostReal(b.dst) \in RawPaths
      BY StateBindsTyped
    <3> HIDE DEF First
    <3> QED BY <1>1, <3>1, <3>2
  <2>2. ASSUME ~config.protect, NEW t \in LinkedState
        PROVE  Bind("host", Canonical(t), t, TRUE) \in First
    <3>1. There(c, t) BY <1>0, <2>2, EarlyThere
    <3>2. t \in RawPaths /\ Canonical(t) \in RawPaths BY LinkedPaths, PathsTyped
    <3> HIDE DEF First
    <3> QED BY <1>1, <3>1, <3>2
  <2> HIDE DEF First
  <2> QED BY <2>1, <2>2, SharedIn
<1>4. runtime \in Seq(Late)
  <2>1. ASSUME NEW b \in Range(RuntimeBinds), Present(b)
        PROVE  Bind("host", Canonical(HostReal(b.src)), HostReal(b.dst), FALSE) \in Late
    <3>1. Sighted(c, HostReal(b.dst)) BY <2>1, LateSighted
    <3>2. HostReal(b.dst) \in RawPaths /\ Canonical(HostReal(b.src)) \in RawPaths
      BY <1>0, HostTyped, PathsTyped DEF Binds, HostReal
    <3> HIDE DEF Late
    <3> QED BY <1>1, <3>1, <3>2
  <2> HIDE DEF Late
  <2> QED BY <2>1, OptionalBindsIn, SandboxAssumption
<1>5. MaskBinds \in Seq(Late)
  <2>1. ASSUME NEW m \in Range(Masks), HostNode(HostReal(m)) # None
        PROVE  Bind("null", << >>, m, FALSE) \in Late
    <3>1. Sighted(c, m) BY <2>1, LateSighted
    <3> HIDE DEF Late
    <3> QED BY <1>0, <1>1, <3>1, PathsTyped
  <2> HIDE DEF Late
  <2> QED BY <2>1, MasksIn
<1>6. PluginBinds \in Seq(Late)
  <2>1. ASSUME PluginThere, NEW d \in Range(Plugin.ensure_dirs) PROVE MakeDir(d) \in Late
    <3>1. Sighted(c, d) BY <2>1, LateSighted
    <3> HIDE DEF Late
    <3> QED BY <1>0, <1>1, <3>1, PathsTyped
  <2>2. ASSUME PluginThere PROVE PluginMount \in Late
    <3>1. Sighted(c, Plugin.sandbox_path) BY <2>2, LateSighted
    <3>2. Plugin.sandbox_path \in RawPaths /\ Canonical(HostReal(Plugin.src)) \in RawPaths
      BY HostTyped, PathsTyped, SandboxAssumption DEF HostReal
    <3> HIDE DEF Late
    <3> QED BY <1>1, <3>1, <3>2 DEF PluginMount
  <2> HIDE DEF Late
  <2> QED BY <2>1, <2>2, PluginIn
<1>7. Views \in Seq(First)
  <2>1. \A i \in {1, 2} : Views[i] \in First BY ViewsTyped, EarlyThere
  <2>2. Views = << Views[1], Views[2] >> BY DEF Views
  <2> HIDE DEF First
  <2> QED BY <2>1, <2>2, PairOf
<1>8. {Views[1], Views[2]} \subseteq Range(Views)
  <2> DEFINE v == Views
  <2>1. Len(v) = 2 BY DEF Views
  <2>2. v \in Seq(First) BY <1>7
  <2> HIDE DEF v, First
  <2>3. 1 \in 1 .. Len(v) /\ 2 \in 1 .. Len(v) BY <2>1
  <2>4. \A i \in 1 .. Len(v) : v[i] \in Range(v) BY <2>2, RangeOf
  <2> QED BY <2>3, <2>4 DEF v
<1>9. ASSUME NEW s \in Seq(First)
      PROVE  Plumbed(c, s) /\ s \in Seq(ViewMounts)
  <2>1. \A i \in 1 .. Len(s) : s[i] \in First
    <3> HIDE DEF First
    <3> QED BY RangeOf
  <2>2. First \subseteq ViewMounts /\ \A m \in First : There(c, m.dst) OBVIOUS
  <2> HIDE DEF First
  <2> QED BY <2>1, <2>2, SeqMonotonic DEF Plumbed
<1>10. ASSUME NEW s \in Seq(Late)
       PROVE  /\ \A i \in 1 .. Len(s) : Sighted(c, s[i].dst) /\ ~Early(s[i])
              /\ s \in Seq(ViewMounts)
  <2>1. \A i \in 1 .. Len(s) : s[i] \in Late
    <3> HIDE DEF Late
    <3> QED BY RangeOf
  <2>2. Late \subseteq ViewMounts /\ \A m \in Late : Sighted(c, m.dst) /\ ~Early(m) OBVIOUS
  <2> HIDE DEF Late
  <2> QED BY <2>1, <2>2, SeqMonotonic
<1> DEFINE c1 == system \o Views
           c2 == c1 \o SharedState
           c3 == c2 \o runtime
           c4 == c3 \o MaskBinds
           c5 == c4 \o PluginBinds
<1>11. Command = c5 BY DEF Command
<1> HIDE DEF First, Late, system, runtime
<1>12. c1 \in Seq(First) /\ Range(Views) \subseteq Range(c1) BY <1>2, <1>7, ConcatRange
<1> HIDE DEF c1
<1>13. c2 \in Seq(First) /\ Range(c1) \subseteq Range(c2) BY <1>3, <1>12, ConcatRange
<1> HIDE DEF c2
<1>14. c2 \in Seq(ViewMounts) /\ Plumbed(c, c2) BY <1>9, <1>13
<1>15. c3 \in Seq(ViewMounts) /\ Plumbed(c, c3) /\ Range(c2) \subseteq Range(c3)
  BY <1>4, <1>10, <1>14, PlumbedOn, ConcatRange
<1> HIDE DEF c3
<1>16. c4 \in Seq(ViewMounts) /\ Plumbed(c, c4) /\ Range(c3) \subseteq Range(c4)
  BY <1>5, <1>10, <1>15, PlumbedOn, ConcatRange
<1> HIDE DEF c4
<1>17. c5 \in Seq(ViewMounts) /\ Plumbed(c, c5) /\ Range(c4) \subseteq Range(c5)
  BY <1>6, <1>10, <1>16, PlumbedOn, ConcatRange
<1> HIDE DEF c5
<1> QED BY <1>8, <1>11, <1>12, <1>13, <1>15, <1>16, <1>17

\* As directories are added what is there, or known, stays so.
LEMMA PlumbingGrows ==
    ASSUME NEW c \in Configs, config' = config, ignore' = ignore,
           \A q \in Paths : host'[q] = host[q] \/ (host[q] = None /\ host'[q] = Dir)
    PROVE  /\ \A p : There(c, p) => There(c, p)'
           /\ \A p : Sighted(c, p) => Sighted(c, p)'
           /\ IgnoresKnown(c) => IgnoresKnown(c)'
           /\ StateMade(c) => StateMade(c)'
<1>1. \A p : HostNode(p) # None => HostNode(p)' # None BY NodeKinds DEF HostNode, NodeOn
<1>2. ASSUME NEW p PROVE There(c, p) => There(c, p)' BY <1>1 DEF There
<1>3. ASSUME NEW p, Sighted(c, p) PROVE Sighted(c, p)'
  <2> DEFINE real == RealOn(c.host, p)
  <2>1. /\ InSight(c, p)
        /\ \/ HostNode(real) # None
           \/ Covered(c, real)
           \/ real = p /\ (Inside(Canonical(p)) => Canonical(p) \in ignore)
    BY <1>3 DEF Sighted
  <2>2. HostNode(real) # None => HostNode(real)' # None BY NodeKinds DEF HostNode, NodeOn
  <2> HIDE DEF real
  <2>3. \/ HostNode(real)' # None
        \/ Covered(c, real)
        \/ real = p /\ (Inside(Canonical(p)) => Canonical(p) \in ignore')
    BY <2>1, <2>2
  <2> QED BY <2>1, <2>3 DEF Sighted, real
<1>4. IgnoresKnown(c) => IgnoresKnown(c)' BY DEF IgnoresKnown
<1>5. StateMade(c) => StateMade(c)' BY NodeKinds DEF StateMade
<1> QED BY <1>2, <1>3, <1>4, <1>5

\* The invariant of plumbing: what the session knows, what is there to mount on, and
\* in which order the mounts come.
PlumbOf(c) ==
    /\ phase = "new" => host = c.host /\ made = {}
    /\ phase # "new" => IgnoresKnown(c)
    /\ HostTree /\ Apart(c) /\ OnTheWay /\ MadeIgnored
    /\ phase \in {"mounted", "launching", "running"} => StateMade(c)
    /\ phase \in {"launching", "running"} =>
          /\ {Views[1], Views[2]} \subseteq Range(table) \cup Range(todo)
          /\ Plumbed(c, todo)

\* What the launch makes on the host before it mounts: the agent's state, and what
\* is above it.
LEMMA PreparePlumbs ==
    ASSUME NEW c \in Configs, Follows(c), host \in [Paths -> Nodes], HostTree, Apart(c),
           Prepare
    PROVE  HostTree' /\ Apart(c)' /\ StateMade(c)'
<1>0. /\ config = [protect |-> c.protect, ensure |-> c.ensure]
      /\ \A p : HostReal(p) = RealOn(c.host, p)
  BY FollowsReal DEF Follows
<1>1. /\ config.protect = c.protect /\ config.ensure = c.ensure BY <1>0
<1>2. \A p \in Paths : host'[p] = IF host[p] = None /\ p \in Ensured /\ c.ensure /\ ~c.protect
                                  THEN Dir ELSE host[p]
  BY <1>1 DEF Prepare
<1>3. ASSUME NEW p \in Paths, host'[p] # host[p]
      PROVE  /\ host[p] = None /\ c.ensure /\ ~c.protect
             /\ \E b \in Range(StateBinds) :
                   /\ b.src \notin StateFiles
                   /\ p \in Prefixes(Canonical(RealOn(c.host, b.src)))
  <2>1. host[p] = None /\ p \in Ensured /\ c.ensure /\ ~c.protect BY <1>2, <1>3
  <2>2. PICK b \in Range(StateBinds) :
           /\ b.src \notin StateFiles /\ p \in Prefixes(Canonical(HostReal(b.src)))
    BY <2>1 DEF Ensured
  <2> QED BY <1>0, <2>1, <2>2
<1>4. \A b \in Range(StateBinds) : Canonical(RealOn(c.host, b.src)) \in RawPaths
  BY <1>0, StateBindsTyped
<1>5. HostTree'
  <2> SUFFICES ASSUME NEW p \in Paths, host'[p] # None, NEW q \in Prefixes(p) \ {<< >>}
               PROVE  host'[q] # None
    BY DEF HostTree
  <2>1. q \in Paths /\ p \in RawPaths BY PathsTyped, SandboxAssumption
  <2>2. CASE host[p] # None
    <3>1. host[q] # None BY <2>2 DEF HostTree
    <3> QED BY <1>2, <2>1, <3>1
  <2>3. CASE host[p] = None
    <3>1. c.ensure /\ ~c.protect BY <1>3, <2>3
    <3>2. PICK b \in Range(StateBinds) :
                   /\ b.src \notin StateFiles
                   /\ p \in Prefixes(Canonical(RealOn(c.host, b.src)))
      BY <1>3, <2>3
    <3> DEFINE k == Canonical(RealOn(c.host, b.src))
    <3>3. k \in RawPaths /\ p \in Prefixes(k) BY <1>4, <3>2
    <3> HIDE DEF k
    <3>4. IsPrefix(p, k) /\ IsPrefix(q, p) /\ q \in RawPaths BY <2>1, <3>3, PrefixSet
    <3>5. IsPrefix(q, k) BY <2>1, <3>3, <3>4, PrefixOrder DEF RawPaths
    <3>6. q \in Prefixes(k) BY <3>3, <3>4, <3>5, PrefixSet
    <3>7. q \in Ensured BY <1>0, <3>2, <3>6 DEF Ensured, k
    <3> QED BY <1>2, <2>1, <3>1, <3>7, NodeKinds
  <2> QED BY <2>2, <2>3
<1>6. Apart(c)'
  <2> SUFFICES ASSUME NEW p \in Paths, host'[p] # host[p]
               PROVE  /\ c.host[p] = None /\ ~c.protect
                      /\ \E n \in StateBound(c) : IsPrefix(n.path, p) \/ IsPrefix(p, n.path)
    BY DEF Apart
  <2>1. PICK b \in Range(StateBinds) : p \in Prefixes(Canonical(RealOn(c.host, b.src)))
    BY <1>3
  <2>2. ~c.protect /\ host[p] = None BY <1>3
  <2>3. c.host[p] = None BY <2>2 DEF Apart
  <2> DEFINE n == Resolved(c, b, TRUE)
  <2>4. n \in StateBound(c) BY <2>2 DEF StateBound
  <2>5. n.path = Canonical(RealOn(c.host, b.src)) BY DEF Resolved, Bind
  <2> HIDE DEF n
  <2>6. IsPrefix(p, n.path) BY <1>4, <2>1, <2>5, PrefixSet
  <2> QED BY <2>2, <2>3, <2>4, <2>6
<1>7. StateMade(c)'
  <2> SUFFICES ASSUME c.ensure, ~c.protect, NEW b \in Range(StateBinds),
                      b.src \notin StateFiles, Canonical(RealOn(c.host, b.src)) \in Paths
               PROVE  host'[Canonical(RealOn(c.host, b.src))] # None
    BY DEF StateMade
  <2> DEFINE k == Canonical(RealOn(c.host, b.src))
  <2>1. k \in Prefixes(k) BY <1>4, PrefixSet
  <2>2. k \in Ensured BY <1>0, <2>1 DEF Ensured
  <2> HIDE DEF k
  <2>3. k \in Paths BY DEF k
  <2>4. host'[k] # None BY <1>2, <2>2, <2>3, NodeKinds
  <2> QED BY <2>4 DEF k
<1> QED BY <1>5, <1>6, <1>7

\* Making what is missing for a mount, or for what the runtime keeps, keeps what is
\* made in order.
LEMMA MakesPlumbs ==
    ASSUME ViewsApart, LinksShown, ReadOnlyWhole, NEW c \in Configs, SandboxInv, Follows(c),
           NoLinkMade, table \in Seq(MadeMounts(c, host)), NEW d \in Places(c),
           There(c, d) \/ (AllMounted(c) /\ StateMade(c) /\ Sighted(c, d)),
           HostTree, Apart(c), OnTheWay, MadeIgnored,
           NEW dst, dst = SandboxReal(d), Makes(Missing(dst)), \A n \in Missing(dst) : n.rw,
           NEW m \in ViewMounts, m.dst = dst, table' \in {table, Append(table, m)},
           UNCHANGED ignore
    PROVE  HostTree' /\ Apart(c)' /\ OnTheWay' /\ MadeIgnored'
<1>0. /\ host \in [Paths -> Nodes] /\ c.host \in [Paths -> Nodes] /\ d \in PlainPaths
  BY SandboxAssumption DEF SandboxInv, TypeOK, LinksShown
<1>1. dst \in Led(c.host, d) BY <1>0, RealLed
<1>2. dst \in PlainPaths /\ dst \in RawPaths BY <1>0, <1>1, LedPlain DEF PlainPaths
<1>3. HostTree' BY <1>2, HostTreeStep
<1>4. Apart(c)' BY <1>2, ApartStep
<1>5. OnTheWay' BY <1>2, OnTheWayStep
<1>6. MadeIgnored' BY MadeIgnoredStep
<1> QED BY <1>3, <1>4, <1>5, <1>6

\* A list of mounts that is in order stays so for the next state.
LEMMA PlumbedNext ==
    ASSUME NEW c \in Configs, NEW s, Plumbed(c, s), todo' = s,
           config' = config, ignore' = ignore,
           \A q \in Paths : host'[q] = host[q] \/ (host[q] = None /\ host'[q] = Dir)
    PROVE  Plumbed(c, todo)'
<1>1. SUFFICES ASSUME NEW i \in 1 .. Len(s), NEW p, p = s[i].dst
               PROVE  \/ There(c, p)'
                      \/ Sighted(c, p)' /\ \A j \in 1 .. Len(s) : i <= j => ~Early(s[j])
  BY DEF Plumbed
<1>2. /\ There(c, p) => There(c, p)'
      /\ Sighted(c, p) => Sighted(c, p)'
  BY PlumbingGrows
<1> QED BY <1>1, <1>2 DEF Plumbed

\* A step keeps the plumbing in order.
LEMMA PlumbStep ==
    ASSUME ViewsApart, LinksShown, ReadOnlyWhole, StateInSight, StateApart, HostWhole,
           PlumbingSeated, AssetsApart, NEW c \in Configs, SandboxInv, LaunchOf(c),
           SharedOf(c), PlumbOf(c), [Next]_vars, Undisturbed'
    PROVE  PlumbOf(c)'
<1>0. /\ Follows(c) /\ host \in [Paths -> Nodes] /\ host[Visible] = Dir /\ NoLinkMade
      /\ table \in Seq(ViewMounts) /\ todo \in Seq(ViewMounts)
      /\ phase = "launching" => todo # << >>
      /\ \A q \in made : IsStrictPrefix(Visible, q)
      /\ changes \in Nat /\ config.protect = c.protect
      /\ HostTree /\ Apart(c) /\ OnTheWay /\ MadeIgnored
  BY FollowsReal DEF LaunchOf, SharedOf, PlumbOf, SandboxInv, TypeOK
<1>e. ASSUME table' = << >> PROVE OnTheWay'
  <2>1. Len(table') = 0 BY <1>e, EmptySeq
  <2> QED BY <2>1 DEF OnTheWay
<1>1. CASE CreateSession
  <2>1. /\ host' = host /\ made' = made /\ table' = << >> /\ phase' = "created" /\ host = c.host
    BY <1>1 DEF CreateSession, LaunchOf, PlumbOf
  <2>2. IgnoresKnown(c)' BY <1>0, <1>1, <2>1, CreatedKnows
  <2>3. MadeIgnored'
    <3>1. made = {} BY <1>1 DEF CreateSession, PlumbOf
    <3> QED BY <2>1, <3>1 DEF MadeIgnored
  <2>4. HostTree' /\ Apart(c)' BY <1>0, <2>1 DEF HostTree, Apart
  <2> QED BY <1>e, <2>1, <2>2, <2>3, <2>4 DEF PlumbOf
<1>2. CASE Prepare
  <2>1. /\ phase # "new" /\ phase' = "mounted" /\ table' = << >> /\ made' = made
        /\ ignore' = ignore /\ config' = config
        /\ \A q \in Paths : host'[q] = host[q] \/ (host[q] = None /\ host'[q] = Dir)
    BY <1>2 DEF Prepare, LaunchOf
  <2>2. IgnoresKnown(c)' BY <2>1, PlumbingGrows DEF PlumbOf
  <2>3. HostTree' /\ Apart(c)' /\ StateMade(c)' BY <1>0, <1>2, PreparePlumbs
  <2>4. MadeIgnored' BY <1>0, <2>1 DEF MadeIgnored
  <2> QED BY <1>e, <2>1, <2>2, <2>3, <2>4 DEF PlumbOf
<1>3. CASE Launch \/ Resume
  <2>1. /\ phase # "new" /\ phase' \in {"launching", "resumed"} /\ table' = << >>
        /\ host' = host /\ made' = made /\ ignore' = ignore /\ config' = config
    BY <1>3 DEF Launch, Resume, LaunchOf
  <2>2. IgnoresKnown(c)' /\ IgnoresKnown(c) BY <2>1, PlumbingGrows DEF PlumbOf
  <2>3. HostTree' /\ Apart(c)' /\ MadeIgnored' BY <1>0, <2>1 DEF HostTree, Apart, MadeIgnored
  <2>4. ASSUME Launch
        PROVE  /\ StateMade(c)' /\ {Views[1], Views[2]} \subseteq Range(todo')
               /\ Plumbed(c, todo)'
    <3>1. phase = "mounted" /\ todo' = Command BY <2>4 DEF Launch
    <3>2. StateMade(c)' BY <2>1, <3>1 DEF PlumbOf, StateMade
    <3>3. Plumbed(c, Command) /\ {Views[1], Views[2]} \subseteq Range(Command)
      BY <1>0, <2>2, CommandPlumbed
    <3>4. Plumbed(c, todo)' BY <2>1, <3>1, <3>3, PlumbedNext
    <3> QED BY <3>1, <3>2, <3>3, <3>4
  <2>5. phase' = "launching" => Launch BY <1>3 DEF Resume
  <2>6. Range(todo') \subseteq Range(table') \cup Range(todo') OBVIOUS
  <2> QED BY <1>e, <2>1, <2>2, <2>3, <2>4, <2>5, <2>6 DEF PlumbOf
<1>4. CASE MountNext
  <2> DEFINE op == Head(todo)
             dst == SandboxReal(op.dst)
             m == [op EXCEPT !.dst = dst]
  <2>1. /\ phase = "launching" /\ todo # << >>
        /\ table \in Seq(MadeMounts(c, host)) /\ todo \in Seq(NextMounts(c, host))
    BY <1>0, <1>4 DEF LaunchOf, MountNext
  <2>2. /\ Makes(Missing(dst)) /\ \A n \in Missing(dst) : n.rw
        /\ todo' = Tail(todo)
        /\ phase' \in {"launching", "running"}
        /\ table' = IF op.op = "dir" THEN table ELSE Append(table, m)
        /\ ignore' = ignore /\ config' = config
    BY <1>4, <2>1 DEF MountNext, CanMount
  <2>3. op \in ViewMounts /\ Tail(todo) \in Seq(ViewMounts) /\ op \in NextMounts(c, host)
    BY <1>0, <2>1, HeadTailProperties
  <2>4. op \in Mounts /\ op.dst \in RawPaths /\ op.dst \in Places(c)
    BY <2>3 DEF ViewMounts, Mounts, NextMounts
  <2>5. dst \in RawPaths /\ dst = SandboxReal(op.dst) BY <1>0, <2>4, RealTyped
  <2>6. op \in {Views[1], Views[2]} => dst = op.dst /\ op.op = "bind"
    <3>1. dst \in Led(c.host, op.dst) BY <1>0, <2>1, <2>4, RealLed
    <3> HIDE DEF op, dst
    <3>2. ASSUME op \in {Views[1], Views[2]} PROVE op.dst \in {Visible, Home} /\ op.op = "bind"
      BY <3>2, PathsTyped DEF Views, Bind
    <3>3. \A p \in {Visible, Home} : Led(c.host, p) = {p} BY UnlinkedLed DEF ViewsApart
    <3> QED BY <3>1, <3>2, <3>3
  <2> HIDE DEF dst
  <2>7. /\ m \in ViewMounts /\ m.dst = dst BY <2>3, <2>5, MountedAt
  <2>8. dst = op.dst => m = op BY <2>4 DEF Mounts
  <2>9. /\ Len(Tail(todo)) = Len(todo) - 1 /\ Len(todo) \in Nat \ {0} /\ op = todo[1]
        /\ \A i \in 1 .. Len(Tail(todo)) :
              Tail(todo)[i] = todo[i + 1] /\ i + 1 \in 1 .. Len(todo)
        /\ \A x \in Range(todo) : x = op \/ x \in Range(Tail(todo))
    BY <1>0, <2>1, HeadOrTail
  <2>10. /\ {Views[1], Views[2]} \subseteq Range(table) \cup Range(todo)
         /\ Plumbed(c, todo) /\ StateMade(c) /\ IgnoresKnown(c)
    BY <2>1 DEF PlumbOf
  <2> HIDE DEF op, m
  <2>11. There(c, op.dst) \/ (AllMounted(c) /\ StateMade(c) /\ Sighted(c, op.dst))
    <3>1. 1 \in 1 .. Len(todo) BY <2>9
    <3>2. SUFFICES ASSUME Sighted(c, op.dst), \A j \in 1 .. Len(todo) : 1 <= j => ~Early(todo[j])
                   PROVE  AllMounted(c)
      BY <2>9, <2>10, <3>1 DEF Plumbed
    <3>3. ASSUME NEW n \in Range(todo) PROVE ~Early(n)
      <4>1. PICK j \in 1 .. Len(todo) : n = todo[j] BY <1>0, RangeOf
      <4>2. 1 <= j OBVIOUS
      <4> QED BY <3>2, <4>1, <4>2
    <3>4. Early(Views[1]) /\ Early(Views[2]) BY DEF Early, Views, Bind
    <3>5. \A n \in StateDue : Early(n) BY DEF StateDue, Early, Bind
    <3>6. ~c.protect => /\ \A n \in StateDue : n \in Range(table) \cup Range(todo)
                        /\ ViewsFirst(table)
      BY <2>1 DEF SharedOf
    <3> QED BY <2>10, <3>3, <3>4, <3>5, <3>6 DEF AllMounted
  <2>12. HostTree' /\ Apart(c)' /\ OnTheWay' /\ MadeIgnored'
    <3>1. table' \in {table, Append(table, m)} BY <2>2
    <3> QED BY <1>0, <2>1, <2>2, <2>4, <2>5, <2>7, <2>11, <3>1, MakesPlumbs
  <2>13. \A q \in Paths : host'[q] = host[q] \/ (host[q] = None /\ host'[q] = Dir)
    BY <1>0, <2>2, <2>5, MakesGrows
  <2>14. IgnoresKnown(c)' /\ StateMade(c)' BY <2>2, <2>10, <2>13, PlumbingGrows
  <2>15. Plumbed(c, todo)'
    <3>1. ASSUME NEW i \in 1 .. Len(Tail(todo))
          PROVE  \/ There(c, Tail(todo)[i].dst)
                 \/ /\ Sighted(c, Tail(todo)[i].dst)
                    /\ \A j \in 1 .. Len(Tail(todo)) : i <= j => ~Early(Tail(todo)[j])
      <4>1. Tail(todo)[i] = todo[i + 1] /\ i + 1 \in 1 .. Len(todo) BY <2>9
      <4>2. ASSUME \A j \in 1 .. Len(todo) : i + 1 <= j => ~Early(todo[j])
            PROVE  \A j \in 1 .. Len(Tail(todo)) : i <= j => ~Early(Tail(todo)[j])
        <5> SUFFICES ASSUME NEW j \in 1 .. Len(Tail(todo)), i <= j
                     PROVE  ~Early(Tail(todo)[j])
          OBVIOUS
        <5>1. Tail(todo)[j] = todo[j + 1] /\ j + 1 \in 1 .. Len(todo) /\ i + 1 <= j + 1
          BY <2>9
        <5> QED BY <4>2, <5>1
      <4> QED BY <2>10, <4>1, <4>2 DEF Plumbed
    <3>2. Plumbed(c, Tail(todo)) BY <3>1 DEF Plumbed
    <3> QED BY <2>2, <2>13, <3>2, PlumbedNext
  <2>16. ASSUME NEW v \in {Views[1], Views[2]} PROVE v \in Range(table') \cup Range(todo')
    <3>1. \A x \in Range(table) : x \in Range(table')
      BY <1>0, <2>2, <2>7, AppendRange
    <3>2. CASE v = op
      <4>1. m = v /\ table' = Append(table, m) BY <2>2, <2>6, <2>8, <3>2
      <4>2. m \in Range(Append(table, m)) BY <1>0, <2>7, AppendRange
      <4> QED BY <4>1, <4>2
    <3>3. CASE v # op BY <2>2, <2>9, <2>10, <3>1, <3>3
    <3> QED BY <3>2, <3>3
  <2> QED BY <2>2, <2>12, <2>14, <2>15, <2>16 DEF PlumbOf
<1>5. ASSUME NEW p \in RuntimeState, KeepState(p) PROVE PlumbOf(c)'
  <2> DEFINE dst == SandboxReal(p)
             m == MakeDir(dst)
  <2>1. /\ table' = table /\ todo' = todo /\ phase' = phase /\ phase = "running"
        /\ Makes(Missing(dst)) /\ \A n \in Missing(dst) : n.rw
        /\ ignore' = ignore /\ config' = config /\ ~c.protect
    BY <1>0, <1>5 DEF KeepState
  <2>2. p \in Places(c) /\ p \in RawPaths BY SandboxAssumption DEF Places
  <2>3. dst \in RawPaths /\ dst = SandboxReal(p) BY <1>0, <2>2, RealTyped
  <2> HIDE DEF dst
  <2>4. m \in ViewMounts /\ m.dst = dst BY <2>3, BindTyped DEF MakeDir
  <2> HIDE DEF m
  <2>5. /\ table \in Seq(MadeMounts(c, host)) /\ todo = << >>
        /\ \A n \in StateDue : n \in Range(table) \cup Range(todo)
        /\ ViewsFirst(table)
        /\ {Views[1], Views[2]} \subseteq Range(table) \cup Range(todo)
        /\ StateMade(c) /\ IgnoresKnown(c) /\ Plumbed(c, todo)
    BY <2>1 DEF LaunchOf, SharedOf, PlumbOf
  <2>6. AllMounted(c)
    <3>1. Range(todo) = {} BY <2>5 DEF Range
    <3> QED BY <2>5, <3>1 DEF AllMounted
  <2>7. Sighted(c, p)
    <3>1. Seated(c, p, TRUE) BY <2>1 DEF PlumbingSeated
    <3>2. Inside(Canonical(p)) => Canonical(p) \in ignore BY <2>1, <2>5 DEF IgnoresKnown
    <3> QED BY <1>0, <3>1, <3>2, SeatSighted
  <2>8. HostTree' /\ Apart(c)' /\ OnTheWay' /\ MadeIgnored'
    <3>1. table' \in {table, Append(table, m)} BY <2>1
    <3> QED BY <1>0, <2>1, <2>2, <2>3, <2>4, <2>5, <2>6, <2>7, <3>1, MakesPlumbs
  <2>9. \A q \in Paths : host'[q] = host[q] \/ (host[q] = None /\ host'[q] = Dir)
    BY <1>0, <2>1, <2>3, MakesGrows
  <2>10. IgnoresKnown(c)' /\ StateMade(c)' BY <2>1, <2>5, <2>9, PlumbingGrows
  <2>11. Plumbed(c, todo)' BY <2>1, <2>5, <2>9, PlumbedNext
  <2> QED BY <2>1, <2>5, <2>8, <2>10, <2>11 DEF PlumbOf
<1>6. CASE MountFails
  <2>1. phase' = "failed" BY <1>6 DEF MountFails
  <2>2. LaunchOf(c)' BY LaunchStep
  <2> QED BY <2>1, <2>2 DEF LaunchOf
<1>7. ASSUME NEW p \in Fickle, HostChanges(p) PROVE FALSE
  <2>1. changes' = changes + 1 /\ changes' = 0 BY <1>7 DEF HostChanges, Undisturbed
  <2> QED BY <1>0, <2>1
<1>8. CASE UNCHANGED vars
  <2>1. /\ host' = host /\ made' = made /\ ignore' = ignore /\ config' = config
        /\ table' = table /\ todo' = todo /\ phase' = phase
    BY <1>8 DEF vars
  <2>2. HostTree' /\ Apart(c)' /\ MadeIgnored' BY <1>0, <2>1 DEF HostTree, Apart, MadeIgnored
  <2>3. OnTheWay'
    <3>1. \A q : SandboxNode(q)' = SandboxNode(q)
      BY <2>1 DEF SandboxNode, NodeAt, Place
    <3>2. \A i, q : TopMount(i, q)' = TopMount(i, q) BY <2>1 DEF TopMount
    <3> QED BY <1>0, <2>1, <3>1, <3>2 DEF OnTheWay
  <2>4. /\ IgnoresKnown(c) => IgnoresKnown(c)'
        /\ StateMade(c) => StateMade(c)'
    BY <2>1, PlumbingGrows
  <2>5. Plumbed(c, todo) => Plumbed(c, todo)' BY <2>1, PlumbedNext
  <2> QED BY <2>1, <2>2, <2>3, <2>4, <2>5 DEF PlumbOf
<1> QED BY <1>1, <1>2, <1>3, <1>4, <1>5, <1>6, <1>7, <1>8 DEF Next

\* What has been made and has nothing made below it is ignored.
LEMMA PlumbingFiltered ==
    ASSUME ViewsApart, MadeIgnored, \A p \in made : IsStrictPrefix(Visible, p),
           NEW p \in made, ~\E q \in made : IsStrictPrefix(p, q)
    PROVE  \E x \in ignore : IsPrefix(x, Canonical(p))
<1>1. PICK l \in made, x \in ignore : IsPrefix(p, l) /\ IsPrefix(x, l) BY DEF MadeIgnored
<1>2. l = p BY <1>1 DEF IsStrictPrefix
<1>3. p \in PlainPaths /\ IsPrefix(Visible, p) BY DEF MadeIgnored, IsStrictPrefix
<1>4. Visible \in RawPaths /\ Visible \in PlainPaths /\ Canonical(Visible) = Visible
  BY PathsTyped, SandboxAssumption
<1> DEFINE rest == SubSeq(p, Len(Visible) + 1, Len(p))
<1>5. rest \in PlainPaths /\ p = Visible \o rest BY <1>3, <1>4, SplitAt
<1> HIDE DEF rest
<1>6. Views[1].dst = Visible /\ Views[1].path = Visible BY <1>4 DEF Views, Bind
<1>7. Visible \o rest = Canonical(p) BY <1>3, <1>6, ViewShows DEF rest
<1>8. Canonical(p) = p BY <1>5, <1>7
<1> QED BY <1>1, <1>2, <1>8

\* What is made to mount on never comes up for review: each directory that bwrap
\* makes in the view, or the agent's runtime in a home that is not protected, is one
\* the session ignores or leads to one, however the configuration spells its mounts
\* and whatever links are on the way, the first time and after every resume
\* (_infra_ignore_paths_for(), docs/policy.md: "those mountpoint deltas are treated
\* as infrastructure and ignored").
THEOREM PlumbingStaysIgnored ==
    ASSUME ViewsApart, LinksShown, ReadOnlyWhole, StateInSight, StateApart, HostWhole,
           PlumbingSeated, AssetsApart
    PROVE  Spec => []PlumbingIgnored
<1> DEFINE Inv == SandboxInv /\ (Undisturbed => \E c \in Configs :
                                    LaunchOf(c) /\ SharedOf(c) /\ PlumbOf(c))
<1>1. Init => Inv
  <2> SUFFICES ASSUME Init PROVE Inv OBVIOUS
  <2>1. PICK c \in Configs : host = c.host /\ config = [protect |-> c.protect, ensure |-> c.ensure]
    BY DEF Init
  <2>2. Follows(c) BY <2>1 DEF Follows, SameLinks
  <2>3. LaunchOf(c) BY <2>2 DEF Init, LaunchOf
  <2>4. SharedOf(c) BY DEF Init, SharedOf, NoLinkMade
  <2>5. HostTree BY <2>1 DEF HostTree, HostWhole
  <2>6. Apart(c) BY <2>1 DEF Apart
  <2>7. Len(table) = 0 BY EmptySeq DEF Init
  <2>8. OnTheWay BY <2>7 DEF OnTheWay
  <2>9. MadeIgnored BY DEF Init, MadeIgnored
  <2>10. PlumbOf(c) BY <2>1, <2>5, <2>6, <2>8, <2>9 DEF Init, PlumbOf
  <2> QED BY <2>3, <2>4, <2>10, SandboxStart
<1>2. Inv /\ [Next]_vars => Inv'
  <2> SUFFICES ASSUME Inv, [Next]_vars PROVE Inv' OBVIOUS
  <2>1. SandboxInv' BY SandboxStep
  <2>2. ASSUME Undisturbed' PROVE \E c \in Configs : LaunchOf(c)' /\ SharedOf(c)' /\ PlumbOf(c)'
    <3>1. Undisturbed
      <4>1. changes \in Nat BY DEF SandboxInv, TypeOK
      <4>2. changes' = changes \/ changes' = changes + 1
        BY DEF Next, CreateSession, Prepare, Launch, MountNext, MountFails, Resume,
               KeepState, HostChanges, vars
      <4>3. changes' = 0 BY <2>2 DEF Undisturbed
      <4> QED BY <4>1, <4>2, <4>3 DEF Undisturbed
    <3>2. PICK c \in Configs : LaunchOf(c) /\ SharedOf(c) /\ PlumbOf(c) BY <3>1
    <3>3. LaunchOf(c)' BY <2>2, <3>2, LaunchStep
    <3>4. SharedOf(c)' BY <2>2, <3>2, SharedStep
    <3>5. PlumbOf(c)' BY <2>2, <3>2, PlumbStep
    <3> QED BY <3>3, <3>4, <3>5
  <2> QED BY <2>1, <2>2
<1>3. Inv => PlumbingIgnored
  <2> DEFINE leaves == {m \in made : ~\E q \in made : IsStrictPrefix(m, q)}
             changed == {[path |-> p] : p \in leaves}
             patterns == {[absolute |-> TRUE, segments |-> x] : x \in ignore}
  <2> SUFFICES ASSUME Inv, Undisturbed PROVE FilterIgnored(changed, patterns, Aliases) = {}
    BY DEF PlumbingIgnored
  <2>1. MadeIgnored /\ \A p \in made : IsStrictPrefix(Visible, p)
    BY DEF PlumbOf, SandboxInv, TypeOK
  <2>2. ASSUME NEW e \in changed
        PROVE  \E n \in patterns : PathMatches(n, Canonicalize(Aliases, e.path))
    <3>1. PICK p \in leaves : e = [path |-> p] BY <2>2
    <3>2. e.path = p BY <3>1
    <3>3. PICK x \in ignore : IsPrefix(x, Canonical(p)) BY <2>1, <3>1, PlumbingFiltered
    <3> DEFINE n == [absolute |-> TRUE, segments |-> x]
    <3>4. n \in patterns /\ n.absolute = TRUE /\ n.segments = x OBVIOUS
    <3> HIDE DEF n
    <3>5. PathMatches(n, Canonical(p)) BY <3>3, <3>4 DEF PathMatches
    <3> HIDE DEF patterns
    <3> QED BY <3>2, <3>4, <3>5 DEF Canonical
  <2> HIDE DEF changed, patterns
  <2> QED BY <2>2 DEF FilterIgnored
<1> QED BY <1>1, <1>2, <1>3, PTL DEF Spec
=============================================================================
