---------------------------- MODULE PolicyPaths ----------------------------
(***************************************************************************)
(* The lexical path algebra (paths.py) and what the policy does with it     *)
(* (policy.py): scopes, deny and ignore patterns over the changes of a      *)
(* status.  Nothing here looks at a file system.                            *)
(*                                                                          *)
(* An absolute path is the sequence of its segments, "/" is <<>>.  A raw    *)
(* path, as a user, a configuration or a status spells it, may hold empty   *)
(* segments, "." and "..".  (A path that begins with exactly two slashes,   *)
(* which posixpath keeps apart, is not among the inputs; an alias stands    *)
(* for a directory below "/".)  A wildcard in a pattern is left out.        *)
(***************************************************************************)
EXTENDS SequencesExt

Segments == STRING
RawPaths == Seq(Segments)

\* A path is plain if it has nothing to normalize.
Special == {"", ".", ".."}
PlainPaths == {p \in RawPaths : \A i \in 1 .. Len(p) : p[i] \notin Special}

UpOne(path) == SubSeq(path, 1, Len(path) - 1)

\* The next segment of a raw path, after those before it made a path.
Enter(path, segment) ==
    CASE segment \in {"", "."}     -> path
      [] segment = ".."            -> UpOne(path)
      [] segment \notin Special    -> Append(path, segment)

\* posixpath.normpath of an absolute path.
Normalize(raw) ==
    LET path[n \in 0 .. Len(raw)] ==      \* of the first n segments
            IF n = 0 THEN <<>> ELSE Enter(path[n - 1], raw[n])
    IN  path[Len(raw)]

IsWithin(path, prefix) == IsPrefix(Normalize(prefix), Normalize(path))

\* aliases: a set of pairs <<alias, canonical>>.  The longest alias wins.
Canonicalize(aliases, raw) ==
    LET path == Normalize(raw)
        hits == {a \in aliases : IsPrefix(a[1], path)}
        longest == CHOOSE a \in hits : \A b \in hits : Len(b[1]) <= Len(a[1])
    IN  IF hits = {} THEN path
        ELSE longest[2] \o SubSeq(path, Len(longest[1]) + 1, Len(path))

\* AliasMap normalizes both sides of every alias (paths.py).
PlainAliases(aliases) == aliases \subseteq PlainPaths \X PlainPaths

\* No alias stands for something below a path: for a part of a root.
NoAliasBelow(aliases, path) == \A a \in aliases : ~IsStrictPrefix(path, a[1])

\* A path ends in the same name twice.
Doubled(path) == Len(path) >= 2 /\ path[Len(path)] = path[Len(path) - 1]

\* A pattern that begins with "/" matches a path and everything below it, any
\* other one its segments anywhere in the path and everything below.
PathMatches(pattern, path) ==
    IF pattern.absolute
    THEN IsPrefix(pattern.segments, path)
    ELSE \E i \in 0 .. Len(path) - Len(pattern.segments) :
            SubSeq(path, i + 1, i + Len(pattern.segments)) = pattern.segments

\* filter_ignored(): what is left of the changes.
FilterIgnored(changes, patterns, aliases) ==
    {c \in changes :
        LET canonical == Canonicalize(aliases, c.path)
        IN  \A p \in patterns :
               /\ ~PathMatches(p, canonical)
               /\ p.absolute => ~IsWithin(canonical, p.segments)}


\* Faulty variant: scopes are compared as they are spelled.
InScopeSpelled(change, scopes, aliases) ==
    LET canonical == Canonicalize(aliases, change.path)
    IN  \E scope \in scopes :
           \/ IsWithin(canonical, scope)
           \/ change.kind = "dir" /\ IsWithin(scope, canonical)

\* A change lies in a scope.  A directory above one is plumbing of what is
\* written below.
InScope(change, scopes, aliases) ==
    LET canonical == Canonicalize(aliases, change.path)
    IN  \E s \in scopes :
           LET scope == Canonicalize(aliases, s)
           IN  \/ IsWithin(canonical, scope)
               \/ change.kind = "dir" /\ IsWithin(scope, canonical)

\* classify(): the changes outside of every scope, and those that match a deny
\* or hide pattern.
OutOfScope(changes, scopes, aliases) ==
    {c \in changes : ~InScope(c, scopes, aliases)}
DenyMatches(changes, patterns, aliases) ==
    {c \in changes : \E p \in patterns :
        PathMatches(p, Canonicalize(aliases, c.path))}
=============================================================================
