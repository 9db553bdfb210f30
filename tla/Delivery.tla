------------------------------ MODULE Delivery ------------------------------
(***************************************************************************)
(* What becomes of one root's files: the agent changes them through its     *)
(* branch, a status lists the branch's entries (branchfs.py), the policy    *)
(* filters and classifies them by path (policy.py, paths.py), and turns     *)
(* (turn.py), the session end (runner.py) or an operator (ctl.py) copy      *)
(* them one by one over the real files.                                     *)
(*                                                                          *)
(* The other modules copy a path; here a path is a file, a directory or a   *)
(* symbolic link in a tree, and a copy does what shutil and os do to it.    *)
(* The agent waits while a turn copies, nothing is approved, and only this  *)
(* session writes to the base.                                              *)
(***************************************************************************)
EXTENDS PolicyPaths, PolicyDecision

CONSTANTS Tree,        \* paths relative to the root, with those above them
          Start,       \* per path: what the base holds at the launch
          Edited,      \* pairs of a path and a kind the agent makes there (a bound)
          LinkTargets, \* files the agent may make links to
          MaxVersion,  \* bounds the edits of a file
          Aliases,     \* AliasMap: pairs <<alias, canonical>>
          Visible,     \* root.visible, as the configuration spells it
          Scopes,      \* allowed_scopes, as they are spelled
          Deny,        \* deny and hide patterns
          Ignore,      \* ignore patterns of the session
          Workspace,   \* session.workspace, as it is spelled
          Names,       \* spellings of paths an operator may use beside the status's
          Respelled    \* other spellings of Visible and Scopes, in pairs

None == [kind |-> "none"]
Dir == [kind |-> "dir"]
File(v) == [kind |-> "file", version |-> v]
Link(t) == [kind |-> "link", to |-> t]
Nodes == {None, Dir} \cup {File(v) : v \in 0 .. MaxVersion}
                     \cup {Link(t) : t \in Tree}

Above(p) == {q \in Tree : IsStrictPrefix(q, p)}
Under(p) == {q \in Tree : IsStrictPrefix(p, q)}

\* A bound: none of the links the base begins with leads to, through or above a
\* link.
StraightLinks ==
    \A l, q \in Tree :
       /\ Start[l].kind = "link"
       /\ IsPrefix(q, Start[l].to) \/ IsPrefix(Start[l].to, q)
       => Start[q].kind # "link"

ASSUME DeliveryAssumption ==
    /\ MaxVersion \in Nat \ {0}
    /\ Tree \subseteq PlainPaths /\ IsFiniteSet(Tree)
    /\ \A p \in Tree : p # <<>> /\ \A n \in 1 .. Len(p) : SubSeq(p, 1, n) \in Tree
    /\ Start \in [Tree -> Nodes]
    /\ \A p \in Tree : Start[p] # None => \A q \in Above(p) : Start[q] = Dir
    /\ Edited \subseteq Tree \X {"file", "dir", "link"}
    /\ LinkTargets \subseteq Tree
    /\ StraightLinks
    /\ Visible \in RawPaths /\ Scopes \subseteq RawPaths
    /\ PlainAliases(Aliases)
    /\ \A pattern \in Deny \cup Ignore :
          pattern.absolute \in BOOLEAN /\ pattern.segments \in RawPaths
    /\ \A spelled \in Respelled : spelled[1] \in RawPaths /\ spelled[2] \subseteq RawPaths
    /\ \A n \in Names : n.absolute \in BOOLEAN /\ n.segments \in RawPaths

VARIABLES
    base,   \* per path: the real files
    delta,  \* per path: what the branch store holds of it
    gone,   \* the branch's tombstones
    phase,  \* running, copying for a turn, and how the session ends
    todo,   \* changes that are still to be copied
    chosen  \* history: the paths an operator last chose to commit

vars == <<base, delta, gone, phase, todo, chosen>>

-----------------------------------------------------------------------------
Init ==
    /\ base = Start
    /\ delta = [p \in Tree |-> None]
    /\ gone = {}
    /\ phase = "running"
    /\ todo = {}
    /\ chosen = {}

-----------------------------------------------------------------------------
\* The branch

\* What the agent sees.
View(p) == IF delta[p] # None THEN delta[p]
           ELSE IF p \in gone THEN None
           ELSE base[p]

Put(p, node) ==
    /\ delta' = [delta EXCEPT ![p] = node]
    /\ gone' = gone \ {p}
    /\ UNCHANGED <<base, phase, todo, chosen>>

CanReach(p) ==
    /\ phase = "running"
    /\ \A q \in Above(p) : View(q) = Dir

WriteFile(p) ==
    /\ CanReach(p) /\ <<p, "file">> \in Edited
    /\ \/ View(p) = None /\ Put(p, File(1))
       \/ /\ View(p).kind = "file" /\ View(p).version < MaxVersion
          /\ Put(p, File(View(p).version + 1))

MakeDir(p) ==
    /\ CanReach(p) /\ <<p, "dir">> \in Edited
    /\ View(p) = None
    /\ Put(p, Dir)

MakeLink(p, t) ==
    /\ CanReach(p) /\ <<p, "link">> \in Edited
    /\ View(p) = None /\ p # t
    /\ Put(p, Link(t))

\* A tombstone hides what the base has.
Delete(p) ==
    /\ CanReach(p) /\ \E e \in Edited : e[1] = p
    /\ View(p) # None
    /\ \A q \in Under(p) : View(q) = None
    /\ delta' = [delta EXCEPT ![p] = None]
    /\ gone' = IF base[p] # None THEN gone \cup {p} ELSE gone
    /\ UNCHANGED <<base, phase, todo, chosen>>

-----------------------------------------------------------------------------
\* The status and the policy

\* Directories of the store that only hold deltas.
Structural == {p \in Tree : delta[p] = None /\ \E q \in Under(p) : delta[q] # None}

\* `branchfs status --json`.
Entries ==
    {[rel |-> p, op |-> "delete", kind |-> "tombstone"] : p \in gone}
    \cup {[rel |-> p, op |-> "delta", kind |-> delta[p].kind] :
             p \in {q \in Tree : delta[q] # None}}
    \cup {[rel |-> p, op |-> "delta", kind |-> "dir"] : p \in Structural}

\* Faulty variant: every directory is taken for structural.
ReportedFiles(visible) ==
    {[rel |-> e.rel, op |-> e.op, kind |-> e.kind, path |-> visible \o e.rel] :
        e \in {e \in Entries : e.kind \notin {"dir", "tombstone"}}}

\* _changes_from_status: a directory with a changed descendant is structural.
\* The paths begin with the root's visible path.
Reported(visible) ==
    {[rel |-> e.rel, op |-> e.op, kind |-> e.kind, path |-> visible \o e.rel] :
        e \in {e \in Entries :
                 ~(e.kind = "dir" /\ \E o \in Entries : IsStrictPrefix(e.rel, o.rel))}}

\* The changes that are looked at, and those the policy objects to.
Changes == FilterIgnored(Reported(Visible), Ignore, Aliases)
Flagged == OutOfScope(Changes, Scopes, Aliases) \cup DenyMatches(Changes, Deny, Aliases)

\* What the policy makes of the branch for given spellings.
DecisionFor(visible, scopes) ==
    LET changes == FilterIgnored(Reported(visible), Ignore, Aliases)
    IN  Evaluate("workspace-auto", changes,
                 OutOfScope(changes, scopes, Aliases)
                    \cup DenyMatches(changes, Deny, Aliases))

Decision == DecisionFor(Visible, Scopes)

-----------------------------------------------------------------------------
\* The copy of a change over the base

\* Faulty variant: a directory is not removed.
DeletedFile(p) == IF base[p] = Dir THEN base ELSE [base EXCEPT ![p] = None]

\* os.unlink, or shutil.rmtree of a directory.  No link is above what the agent
\* could delete.
Deleted(p) ==
    [q \in Tree |-> IF q = p \/ (base[p] = Dir /\ q \in Under(p))
                    THEN None ELSE base[q]]

\* What p stands for when l, which is p or above it, is a link to "to".
Beyond(to, l, p) == to \o SubSeq(p, Len(l) + 1, Len(p))

\* The base's links are followed: where p leads when one is above it, which need
\* not be in the modelled tree, and where p itself leads as a link.
Led(p) ==
    LET links == {l \in Above(p) : base[l].kind = "link"}
        l == CHOOSE l \in links : TRUE
    IN  IF links = {} THEN p ELSE Beyond(base[l].to, l, p)
Follow(p) == IF p \in Tree /\ base[p].kind = "link" THEN base[p].to ELSE p

Upto(p) == {q \in Tree : IsPrefix(q, p)}

\* os.makedirs(exist_ok=True) takes a link to a directory for one.
CanMakeDirs(ps) ==
    \A q \in ps : base[q] \in {None, Dir}
                 \/ (base[q].kind = "link" /\ base[base[q].to] = Dir)
WithDirs(ps) == [q \in Tree |-> IF q \in ps /\ base[q] = None THEN Dir ELSE base[q]]

\* Where the bytes go that shutil.copy2 writes to p: into a directory, under p's
\* name, or through links.
Landing(p) ==
    LET place == Follow(Led(p))
    IN  IF place \in Tree /\ base[place] = Dir
        THEN Follow(Append(place, p[Len(p)])) ELSE place

\* A link in the source is followed there.  shutil.copy2 fails for a directory,
\* and where there is no file to write to; a file it writes aside of the modelled
\* tree is not followed up.
Copy(p, source) ==
    LET node == IF source[p].kind = "link" THEN source[source[p].to] ELSE source[p]
        land == Landing(p)
        made == WithDirs(Above(Led(p)))
    IN  IF node = None THEN UNCHANGED base
        ELSE /\ node.kind = "file"
             /\ CanMakeDirs(Above(p) \cup Above(Led(p)))
             /\ land \in Tree => base[land].kind \in {"none", "file"}
             /\ \A q \in Above(land) : made[q] = Dir
             /\ base' = [q \in Tree |-> IF q = land THEN node ELSE made[q]]

\* apply_change_from_store, _apply_change_from_store and _apply differ in where
\* they read from.
Apply(c, source) ==
    \/ c.op = "delete" /\ base' = Deleted(c.rel)
    \/ /\ c.op # "delete" /\ c.kind = "dir"
       /\ CanMakeDirs(Upto(c.rel) \cup Upto(Led(c.rel)))
       /\ base' = WithDirs(Upto(Led(c.rel)))
    \/ /\ c.op # "delete" /\ c.kind # "dir"
       /\ Copy(c.rel, source)

\* The files of the branch in its store, and in its mounted view.
InStore == [p \in Tree |-> IF p \in Structural THEN Dir ELSE delta[p]]
InView == [p \in Tree |-> View(p)]

-----------------------------------------------------------------------------
\* Faulty variant: what is flagged is copied too.
TurnAll ==
    /\ phase = "running"
    /\ todo' = Changes
    /\ phase' = IF todo' = {} THEN "running" ELSE "turn"
    /\ UNCHANGED <<base, delta, gone, chosen>>

\* finalize_turn: all that is not flagged is copied, the rest is asked about.
\* The flagged changes are recognized by the names classify() gave them, which
\* are canonical for those out of scope.
Recognized(c) == \/ c \in DenyMatches(Changes, Deny, Aliases)
                 \/ c.path = Canonicalize(Aliases, c.path)

Turn ==
    /\ phase = "running"
    /\ todo' = {c \in Changes : ~(c \in Flagged /\ Recognized(c))}
    /\ phase' = IF todo' = {} THEN "running" ELSE "turn"
    /\ UNCHANGED <<base, delta, gone, chosen>>

\* Faulty variant: the decision is recorded as the state.
EndSessionAsDecided ==
    /\ phase = "running"
    /\ \E warned \in BOOLEAN :
          LET decision == WithWarnings(Decision, warned)
          IN  /\ phase' = IF decision = "auto-commit" THEN "applying" ELSE decision
              /\ todo' = IF decision = "auto-commit" THEN Changes ELSE {}
    /\ UNCHANGED <<base, delta, gone, chosen>>

\* finalize_session: the status is read once more, and decided; it may carry
\* warnings.
EndSession ==
    /\ phase = "running"
    /\ \E warned \in BOOLEAN :
          LET decision == WithWarnings(Decision, warned)
          IN  /\ phase' = IF decision = "auto-commit" THEN "applying"
                          ELSE ClosedState(decision)
              /\ todo' = IF decision = "auto-commit" THEN Changes ELSE {}
    /\ UNCHANGED <<base, delta, gone, chosen>>

\* commit of a session that was parked for review, without changes if it was
\* parked for a warning.
Commit ==
    /\ phase = "pending-review"
    /\ todo' = Changes
    /\ phase' = IF todo' = {} THEN "committed" ELSE "committing"
    /\ chosen' = {c.rel : c \in Changes}
    /\ UNCHANGED <<base, delta, gone>>

-----------------------------------------------------------------------------
\* The names of changes, as a status spells them or in another spelling.
Spellings == Names \cup {[absolute |-> TRUE, segments |-> Visible \o p] : p \in Tree}

\* The canonical paths a name may stand for in diff: an absolute one is itself, a
\* relative one is read from the root, which it must not leave upwards, and from
\* the workspace (_path_candidates).
Places(n) ==
    LET visible == Canonicalize(Aliases, Visible)
        inRoot  == Normalize(<<"root">> \o n.segments)
        inSpace == Canonicalize(Aliases, Workspace \o n.segments)
    IN  IF n.absolute THEN {Canonicalize(Aliases, n.segments)}
        ELSE {visible \o Tail(q) : q \in {q \in {inRoot} : IsPrefix(<<"root">>, q)}}
             \cup {q \in {inSpace} : IsWithin(q, visible)}

\* Faulty variant: a directory stands for what is below it.
MatchingWithin ==
    [n \in Spellings |-> LET places == Places(n) IN
        {p \in Tree : \E q \in places : IsPrefix(q, Canonicalize(Aliases, Visible \o p))}]

\* _matching_change: the paths whose changes diff takes a name for.  It shows the
\* change if there is just one.
Matching ==
    [n \in Spellings |-> LET places == Places(n) IN
        {p \in Tree : Canonicalize(Aliases, Visible \o p) \in places}]

\* review --commit compares names as they are spelled.
Named == [n \in Spellings |->
            {p \in Tree : n = [absolute |-> TRUE, segments |-> Visible \o p]}]

\* The selections made with one or two names (a bound).
Selections == {Named[n] \cup Named[m] : n, m \in Spellings}

\* Faulty variant: what is no file is not committed.
CommitChosenFiles ==
    /\ phase = "pending-review"
    /\ \E changes \in {Changes}, rels \in Selections :
          /\ todo' = {c \in changes : c.rel \in rels /\ c.kind = "file"}
          /\ chosen' = {c.rel : c \in changes} \cap rels
    /\ phase' = IF todo' = {} THEN "selected" ELSE "selecting"
    /\ UNCHANGED <<base, delta, gone>>

\* review --commit: the changes that are named are committed, the rest, which may
\* be everything, goes with the branch.
CommitChosen ==
    /\ phase = "pending-review"
    /\ \E changes \in {Changes}, rels \in Selections :
          /\ todo' = {c \in changes : c.rel \in rels}
          /\ chosen' = {c.rel : c \in changes} \cap rels
    /\ phase' = IF todo' = {} THEN "selected" ELSE "selecting"
    /\ UNCHANGED <<base, delta, gone>>

-----------------------------------------------------------------------------
\* What follows the last change.
Finished == CASE phase = "turn"       -> "running"
              [] phase = "applying"   -> "auto-committed"
              [] phase = "committing" -> "committed"
              [] phase = "selecting"  -> "selected"

Copying == phase \in {"turn", "applying", "committing", "selecting"}

CopyNext ==
    /\ Copying
    /\ \E c \in todo :
          /\ Apply(c, IF phase = "turn" THEN InView ELSE InStore)
          /\ todo' = todo \ {c}
          /\ phase' = IF todo = {c} THEN Finished ELSE phase
    /\ UNCHANGED <<delta, gone, chosen>>

\* A copy raises.  The turn is given up, the next one starts over; a session
\* end has failed; an operator may commit again.
CopyRaises ==
    /\ Copying
    /\ todo' = {}
    /\ phase' = CASE phase = "turn"       -> "running"
                  [] phase = "applying"   -> "failed"
                  [] phase \in {"committing", "selecting"} -> "pending-review"
    /\ UNCHANGED <<base, delta, gone, chosen>>

-----------------------------------------------------------------------------
Next ==
    \/ \E p \in Tree : \/ WriteFile(p) \/ MakeDir(p) \/ Delete(p)
                       \/ \E t \in LinkTargets : MakeLink(p, t)
    \/ Turn \/ EndSession \/ Commit \/ CommitChosen \/ CopyNext \/ CopyRaises

Spec == Init /\ [][Next]_vars

-----------------------------------------------------------------------------
Change == [rel : Tree, op : {"delta", "delete"},
           kind : {"file", "dir", "link", "tombstone"},
           path : {Visible \o p : p \in Tree}]

TypeOK ==
    /\ base \in [Tree -> Nodes]
    /\ delta \in [Tree -> Nodes]
    /\ gone \subseteq Tree
    /\ phase \in {"running", "turn", "applying", "auto-committed", "committing",
                  "committed", "selecting", "selected", "pending-review",
                  "aborted", "failed"}
    /\ todo \subseteq Change
    /\ chosen \subseteq Tree

\* The agent put a node of another kind, or another link, where the base has one.
Replaced(p) ==
    /\ delta[p] # None /\ base[p] # None
    /\ delta[p].kind = base[p].kind => delta[p].kind = "link" /\ delta[p] # base[p]

\* Neither p nor what is above it was replaced by another kind or became a link,
\* and no link to p, or to a directory above it, nor what is above that link, was
\* replaced.  shutil and os do other things to the rest.
Plain(p) ==
    /\ \A q \in Upto(p) : ~Replaced(q) /\ delta[q].kind # "link"
    /\ \A l \in Tree : (Start[l].kind = "link" /\ IsPrefix(Start[l].to, p)) =>
          \A q \in Upto(l) : ~Replaced(q)

IgnoredPaths ==
    {p \in Tree : FilterIgnored({[path |-> Visible \o p]}, Ignore, Aliases) = {}}
IgnoredPath(p) == p \in IgnoredPaths

\* A new directory in which there are only deletions, links and ignored files:
\* it is taken for structural, and nothing below need make it.
Unmade(p) ==
    /\ View(p) = Dir /\ base[p] = None
    /\ \E q \in Under(p) : q \in gone \/ delta[q] # None
    /\ \A c \in Changes : IsStrictPrefix(p, c.rel) => c.kind \in {"tombstone", "link"}

\* A session that ends committed has delivered: the base holds what the agent
\* saw, deletions of whole directories and new directories included, although
\* the status lists the entries in no particular order, structural directories
\* are left out of it, earlier turns copied some of it already, may have failed
\* half-way, and the operator may have had to commit again (runner.py:
\* "Selectively apply only the reviewed in-scope changes").
Delivers ==
    phase \in {"auto-committed", "committed"} =>
       \A p \in Tree : (Plain(p) /\ ~IgnoredPath(p)) => base[p] = View(p) \/ Unmade(p)

\* A change the policy lets through.
AllowedPaths(kind) ==
    {p \in Tree \ IgnoredPaths :
       LET c == {[path |-> Visible \o p, kind |-> kind]}
       IN  /\ OutOfScope(c, Scopes, Aliases) = {}
           /\ DenyMatches(c, Deny, Aliases) = {}}
AllowedByKind ==
    [kind \in {"none", "dir", "file", "link", "tombstone"} |-> AllowedPaths(kind)]
Allowed(p, kind) == p \in AllowedByKind[kind]

\* The agent replaced or removed what l was at the launch, or what is above it.
Touched(l) ==
    base[l] # Start[l] \/ \E q \in Upto(l) : delta[q] # None \/ q \in gone

\* Where a change of r ends up when l, which is r or above it, is a link of the
\* base: along the path r leads to, or in a directory there, under r's name.
Through(l, r, p) ==
    LET end == Beyond(Start[l].to, l, r)
    IN  /\ Start[l].kind = "link" /\ IsPrefix(l, r) /\ Touched(l)
        /\ IsPrefix(Start[l].to, p)
        /\ IsPrefix(p, end) \/ p = Append(end, r[Len(r)])

\* Before an operator commits, the base changes only where the policy allows it,
\* removals below a directory that may be removed, and files and directories made
\* through a link of the base that the agent replaced, by a change that is allowed
\* at or below the link, aside: not by directories that are made on the way, by
\* filtered entries, or by what a turn keeps back (policy.py, docs/policy.md).
OnlyAllowedTouched ==
    (chosen = {} /\ phase # "selected") => \A p \in Tree : base[p] # Start[p] =>
       \/ Allowed(p, base[p].kind)
       \/ /\ base[p] = None
          /\ \E q \in Above(p) : Start[q] = Dir /\ Allowed(q, "tombstone")
       \/ /\ base[p].kind \in {"file", "dir"}
          /\ \E l, r \in Tree : Through(l, r, p) /\ Allowed(r, base[p].kind)

\* A file-level commit delivers what was chosen, also where it depends on
\* directories that were not chosen (ctl.py, review: "commits a file-level
\* subset").
ChosenDelivered ==
    phase = "selected" =>
       \A p \in chosen : Plain(p) => base[p] = View(p)

\* Nothing is committed by name that diff, asked for the same name, does not show
\* by itself: a name that commits a change is that change's for diff too, however
\* visible path, workspace and aliases are spelled, and no absolute name is
\* ambiguous (ctl.py, _matching_change and review).  The reverse does not hold: a
\* name that diff understands may commit nothing.
DiffShowsChosen ==
    phase = "pending-review" =>
       LET changed == {c.rel : c \in Changes}
       IN  \A n \in Spellings :
              LET shown == Matching[n] \cap changed
              IN  /\ Named[n] \cap changed # {} => shown = Named[n]
                  /\ n.absolute => \A p, q \in shown : p = q

\* What the policy makes of a branch does not depend on how the visible path and
\* the scopes are spelled ("canonicalization makes them equivalent",
\* docs/policy.md).
SpellingIrrelevant ==
    phase = "running" =>
       \A spelled \in Respelled : DecisionFor(spelled[1], spelled[2]) = Decision

\* Leaving out structural directories and ignored changes hides nothing from the
\* policy: everything the agent's view has otherwise than the base is a change
\* that is looked at, or a directory above one, or above something ignored.
NothingOverlooked ==
    LET looked == {c.rel : c \in Changes}
        listed == {e.rel : e \in Entries}
    IN  \A p \in Tree : (View(p) # base[p] /\ ~IgnoredPath(p)) =>
           \/ p \in looked
           \/ View(p) = Dir /\ \E q \in Under(p) \cap listed :
                                 IgnoredPath(q) \/ q \in looked

-----------------------------------------------------------------------------
\* What theorems assume of a configuration.

\* No alias stands for something below the root, as this path spells it.
WholeRoot(visible) == NoAliasBelow(Aliases, Normalize(visible))

\* Respelled paths mean the same: the same root, of which no alias stands for a
\* part, and the same scopes.
SameMeaning ==
    /\ WholeRoot(Visible)
    /\ \A spelled \in Respelled :
          /\ Canonicalize(Aliases, spelled[1]) = Canonicalize(Aliases, Visible)
          /\ WholeRoot(spelled[1])
          /\ {Canonicalize(Aliases, s) : s \in spelled[2]}
                = {Canonicalize(Aliases, s) : s \in Scopes}

\* The root is configured by its canonical path.
CanonicalRoot == WholeRoot(Visible) /\ Canonicalize(Aliases, Visible) = Visible

\* No pattern ends in the same name twice, and so tells a file from one that lands
\* in a directory of its name.
NoneDoubled ==
    \A pattern \in Deny \cup Ignore :
       /\ ~Doubled(pattern.segments)
       /\ pattern.absolute => ~Doubled(Normalize(pattern.segments))
=============================================================================
