------------------------- MODULE PolicyPathsProofs -------------------------
(***************************************************************************)
(* Theorems about the path algebra of PolicyPaths, for raw paths of every   *)
(* length.  Normalize is a recursive function: what it computes is shown by *)
(* induction on the number of segments, which LeastNumber stands for.       *)
(***************************************************************************)
EXTENDS PolicyPaths, FiniteSetTheorems, SequenceTheorems, TLAPS,
        WellFoundedInduction

\* Every set of numbers has a least one: the strict subset order of the
\* intervals 1 .. n is well-founded.
LEMMA LeastNumber ==
    ASSUME NEW S \in SUBSET Nat, S # {}
    PROVE  \E m \in S : \A k \in S : m <= k
<1> DEFINE Lower == {i \in SUBSET Nat : \E n \in S : i = 1 .. n}
<1>1. \A n \in S : IsFiniteSet(1 .. n)
  BY FS_Interval
<1>2. Lower \subseteq FiniteSubsetsOf(Nat)
  BY <1>1 DEF FiniteSubsetsOf
<1>3. Lower # {}
  <2>1. PICK n \in S : TRUE OBVIOUS
  <2>2. (1 .. n) \in Lower BY <2>1
  <2> QED BY <2>2
<1>4. IsWellFoundedOn(StrictSubsetOrdering(Nat), FiniteSubsetsOf(Nat))
  BY FS_StrictSubsetOrderingWellFounded
<1> HIDE DEF Lower
<1>5. \E i \in Lower : \A j \in Lower : ~(<<j, i>> \in StrictSubsetOrdering(Nat))
  BY <1>2, <1>3, <1>4, WFMin
<1> USE DEF Lower
<1>6. PICK i \in Lower : \A j \in Lower : ~(<<j, i>> \in StrictSubsetOrdering(Nat))
  BY <1>5
<1>7. PICK m \in S : i = 1 .. m BY <1>6
<1>8. ASSUME NEW k \in S, k < m PROVE FALSE
  <2>1. (1 .. k) \in Lower BY <1>8
  <2>2. (1 .. k) \subseteq (1 .. m) /\ m \in 1 .. m /\ m \notin 1 .. k
    BY <1>8
  <2>3. << 1 .. k, 1 .. m >> \in StrictSubsetOrdering(Nat)
    BY <2>2 DEF StrictSubsetOrdering
  <2> QED BY <1>6, <1>7, <2>1, <2>3
<1> QED BY <1>7, <1>8

\* Induction up to n, over a set of numbers.
LEMMA UpTo ==
    ASSUME NEW n \in Nat, NEW S, 0 \in S,
           \A k \in 0 .. n : (k < n /\ k \in S) => k + 1 \in S
    PROVE  0 .. n \subseteq S
<1> DEFINE Bad == (0 .. n) \ S
<1> SUFFICES ASSUME Bad # {} PROVE FALSE
  OBVIOUS
<1>1. PICK m \in Bad : \A k \in Bad : m <= k
  <2>1. Bad \in SUBSET Nat OBVIOUS
  <2> HIDE DEF Bad
  <2> QED BY <2>1, LeastNumber
<1>2. m # 0 /\ m - 1 \in 0 .. n /\ m - 1 < n
  BY <1>1
<1>3. m - 1 \in S BY <1>1, <1>2
<1> QED BY <1>1, <1>2, <1>3

-----------------------------------------------------------------------------
\* The three kinds of segments.
LEMMA EnterCases ==
    ASSUME NEW path, NEW segment
    PROVE  /\ segment \in Special => Enter(path, segment) \in {path, UpOne(path)}
           /\ segment \notin Special => Enter(path, segment) = Append(path, segment)
<1>1. segment \in {"", "."} => Enter(path, segment) = path
  <2> SUFFICES ASSUME segment \in {"", "."} PROVE Enter(path, segment) = path
    OBVIOUS
  <2>1. segment # ".." BY Zenon
  <2>2. segment \in Special BY Zenon DEF Special
  <2> QED BY <2>1, <2>2, Zenon DEF Enter
<1>2. segment = ".." => Enter(path, segment) = UpOne(path)
  <2>1. ".." \notin {"", "."} /\ ".." \in Special BY Zenon DEF Special
  <2> QED BY <2>1, Zenon DEF Enter
<1>3. segment \notin Special => Enter(path, segment) = Append(path, segment)
  BY Zenon DEF Enter, Special
<1>4. segment \in Special => segment \in {"", "."} \/ segment = ".."
  BY Zenon DEF Special
<1> QED BY <1>1, <1>2, <1>3, <1>4, Zenon

\* A plain path is a sequence of strings none of which is special.
LEMMA PlainFields ==
    ASSUME NEW path \in PlainPaths
    PROVE  /\ path \in Seq(Segments) /\ Len(path) \in Nat
           /\ \A i \in 1 .. Len(path) : path[i] \in Segments /\ path[i] \notin Special
<1>1. path \in Seq(Segments) /\ \A i \in 1 .. Len(path) : path[i] \notin Special
  BY DEF PlainPaths, RawPaths
<1>2. \A i \in 1 .. Len(path) : path[i] \in Segments
  BY <1>1, ElementOfSeq
<1> QED BY <1>1, <1>2, LenProperties

\* A segment leaves a plain path plain.
LEMMA EnterPlain ==
    ASSUME NEW path \in PlainPaths, NEW segment \in Segments
    PROVE  Enter(path, segment) \in PlainPaths
<1>1. UpOne(path) \in PlainPaths
  <2>1. \A i \in 1 .. Len(path) - 1 : path[i] \in Segments /\ path[i] \notin Special
    BY PlainFields
  <2>2. /\ UpOne(path) \in Seq(Segments)
        /\ Len(UpOne(path)) = IF 1 <= Len(path) - 1 THEN Len(path) - 1 ELSE 0
        /\ \A i \in 1 .. Len(path) - 1 : UpOne(path)[i] = path[i]
    BY <2>1, PlainFields, SubSeqProperties DEF UpOne
  <2> QED BY <2>1, <2>2, PlainFields DEF PlainPaths, RawPaths
<1>2. CASE segment \in Special
  BY <1>1, <1>2, EnterCases
<1>3. CASE segment \notin Special
  <2>1. Append(path, segment) \in PlainPaths
    <3>1. path \in Seq(Segments) /\ Len(path) \in Nat BY PlainFields
    <3>2. /\ Append(path, segment) \in Seq(Segments)
          /\ Len(Append(path, segment)) = Len(path) + 1
          /\ \A i \in 1 .. Len(path) : Append(path, segment)[i] = path[i]
          /\ Append(path, segment)[Len(path) + 1] = segment
      BY <3>1, AppendProperties
    <3>3. \A i \in 1 .. Len(path) + 1 : i \in 1 .. Len(path) \/ i = Len(path) + 1
      BY <3>1
    <3>4. \A i \in 1 .. Len(path) + 1 : Append(path, segment)[i] \notin Special
      BY <1>3, <3>2, <3>3, PlainFields
    <3> QED BY <3>2, <3>4 DEF PlainPaths, RawPaths
  <2> QED BY <1>3, <2>1, EnterCases
<1> QED BY <1>2, <1>3

\* What a recursive definition over the segments of a raw path computes: such a
\* function exists, by induction on how far it goes.
LEMMA NormalizeFunction ==
    ASSUME NEW raw \in RawPaths
    PROVE  \E f : /\ f = [n \in 0 .. Len(raw) |->
                            IF n = 0 THEN <<>> ELSE Enter(f[n - 1], raw[n])]
                  /\ Normalize(raw) = f[Len(raw)]
<1> DEFINE Recurs(f, k) == f = [n \in 0 .. k |->
                                  IF n = 0 THEN <<>> ELSE Enter(f[n - 1], raw[n])]
           Good == {k \in Nat : \E f : Recurs(f, k)}
<1>0. Len(raw) \in Nat BY DEF RawPaths
<1>1. 0 \in Good
  <2>1. Recurs([n \in 0 .. 0 |-> <<>>], 0) OBVIOUS
  <2> QED BY <2>1
<1>2. ASSUME NEW k \in Nat, k \in Good PROVE k + 1 \in Good
  <2>1. PICK f : Recurs(f, k) BY <1>2
  <2> DEFINE g == [n \in 0 .. k + 1 |->
                     IF n <= k THEN f[n] ELSE Enter(f[k], raw[k + 1])]
             h == [n \in 0 .. k + 1 |->
                     IF n = 0 THEN <<>> ELSE Enter(g[n - 1], raw[n])]
  <2>2. \A n \in 0 .. k : f[n] = IF n = 0 THEN <<>> ELSE Enter(f[n - 1], raw[n])
    BY <2>1
  <2>3. ASSUME NEW n \in 0 .. k + 1 PROVE g[n] = h[n]
    <3>1. CASE n = 0 BY <3>1, <2>2
    <3>2. CASE n \in 1 .. k
      <4>1. n - 1 \in 0 .. k /\ n \in 0 .. k /\ n # 0 BY <3>2
      <4>2. g[n - 1] = f[n - 1] /\ g[n] = f[n] BY <4>1
      <4> HIDE DEF g
      <4> QED BY <2>2, <4>1, <4>2
    <3>3. CASE n = k + 1
      <4>1. g[n - 1] = f[k] /\ n # 0 /\ g[n] = Enter(f[k], raw[n]) BY <3>3
      <4> HIDE DEF g
      <4> QED BY <4>1
    <3> QED BY <3>1, <3>2, <3>3
  <2>4. g = h BY <2>3
  <2> HIDE DEF g
  <2>5. Recurs(g, k + 1) BY <2>4
  <2> QED BY <2>5
<1>3. 0 .. Len(raw) \subseteq Good
  <2> HIDE DEF Good
  <2> QED BY <1>0, <1>1, <1>2, UpTo
<1>4. \E f : Recurs(f, Len(raw)) BY <1>0, <1>3
<1> DEFINE F == CHOOSE f : Recurs(f, Len(raw))
<1>5. Recurs(F, Len(raw)) BY <1>4
<1>6. Normalize(raw) = F[Len(raw)] BY DEF Normalize
<1> HIDE DEF F
<1> QED BY <1>5, <1>6


\* The path after each segment: plain, and made of the one before.
LEMMA NormalizeSteps ==
    ASSUME NEW raw \in RawPaths
    PROVE  \E f \in [0 .. Len(raw) -> PlainPaths] :
              /\ f[0] = <<>>
              /\ \A n \in 1 .. Len(raw) : f[n] = Enter(f[n - 1], raw[n])
              /\ Normalize(raw) = f[Len(raw)]
<1>0. Len(raw) \in Nat BY DEF RawPaths
<1>1. PICK f : /\ f = [n \in 0 .. Len(raw) |->
                          IF n = 0 THEN <<>> ELSE Enter(f[n - 1], raw[n])]
               /\ Normalize(raw) = f[Len(raw)]
  BY NormalizeFunction
<1>2. f[0] = <<>> /\ \A n \in 1 .. Len(raw) : f[n] = Enter(f[n - 1], raw[n])
  BY <1>0, <1>1
<1> DEFINE Good == {n \in 0 .. Len(raw) : f[n] \in PlainPaths}
<1>3. <<>> \in PlainPaths
  BY EmptySeq DEF PlainPaths, RawPaths
<1>4. 0 \in Good BY <1>0, <1>2, <1>3
<1>5. ASSUME NEW k \in 0 .. Len(raw), k < Len(raw), k \in Good PROVE k + 1 \in Good
  <2>1. raw[k + 1] \in Segments
    BY <1>0, <1>5, ElementOfSeq DEF RawPaths
  <2>2. f[k + 1] = Enter(f[k], raw[k + 1])
    BY <1>0, <1>2, <1>5
  <2>3. f[k + 1] \in PlainPaths
    BY <1>5, <2>1, <2>2, EnterPlain
  <2> QED BY <1>0, <1>5, <2>3
<1>6. 0 .. Len(raw) \subseteq Good
  <2> HIDE DEF Good
  <2> QED BY <1>0, <1>4, <1>5, UpTo
<1>7. f \in [0 .. Len(raw) -> PlainPaths]
  BY <1>1, <1>6
<1> QED BY <1>1, <1>2, <1>7

\* What normalize() returns has no empty segments, no "." and no ".."
\* (paths.py).
THEOREM NormalizeIsPlain == \A raw \in RawPaths : Normalize(raw) \in PlainPaths
<1> TAKE raw \in RawPaths
<1>1. Len(raw) \in Nat BY DEF RawPaths
<1>2. PICK f \in [0 .. Len(raw) -> PlainPaths] : Normalize(raw) = f[Len(raw)]
  BY NormalizeSteps
<1> QED BY <1>1, <1>2

\* What is appended to the second of two sequences is appended to both.
LEMMA AppendConcat ==
    \A s, t \in Seq(Segments), e \in Segments : Append(s \o t, e) = s \o Append(t, e)
<1> TAKE s, t \in Seq(Segments), e \in Segments
<1>1. Append(t, e) = t \o <<e>> BY AppendIsConcat
<1>2. s \o t \in Seq(Segments) /\ <<e>> \in Seq(Segments) OBVIOUS
<1>3. Append(s \o t, e) = (s \o t) \o <<e>> BY <1>2, AppendIsConcat
<1> QED BY <1>1, <1>2, <1>3, ConcatAssociative

\* A plain path below a raw one is appended to what the raw one stands for.
LEMMA NormalizeBelow ==
    ASSUME NEW raw \in RawPaths, NEW rel \in PlainPaths
    PROVE  Normalize(raw \o rel) = Normalize(raw) \o rel
<1> DEFINE all == raw \o rel
           N == Len(raw)
           M == Len(rel)
<1>0. /\ raw \in Seq(Segments) /\ rel \in Seq(Segments) /\ N \in Nat /\ M \in Nat
      /\ \A i \in 1 .. M : rel[i] \in Segments /\ rel[i] \notin Special
  BY PlainFields DEF RawPaths
<1>1. /\ all \in RawPaths /\ Len(all) = N + M
      /\ \A i \in 1 .. N + M : all[i] = IF i <= N THEN raw[i] ELSE rel[i - N]
  BY <1>0, ConcatProperties DEF RawPaths
<1>2. PICK f \in [0 .. N -> PlainPaths] :
         /\ f[0] = <<>>
         /\ \A n \in 1 .. N : f[n] = Enter(f[n - 1], raw[n])
         /\ Normalize(raw) = f[N]
  BY NormalizeSteps
<1>3. PICK g \in [0 .. Len(all) -> PlainPaths] :
         /\ g[0] = <<>>
         /\ \A n \in 1 .. Len(all) : g[n] = Enter(g[n - 1], all[n])
         /\ Normalize(all) = g[Len(all)]
  BY <1>1, NormalizeSteps
<1> HIDE DEF all, N, M
<1> DEFINE Same == {n \in 0 .. N : g[n] = f[n]}
<1>4. 0 .. N \subseteq Same
  <2>1. 0 \in Same BY <1>0, <1>2, <1>3
  <2>2. ASSUME NEW k \in 0 .. N, k < N, k \in Same PROVE k + 1 \in Same
    <3>1. k + 1 \in 1 .. N /\ k + 1 \in 1 .. N + M /\ (k + 1) - 1 = k
      BY <1>0, <2>2
    <3>2. all[k + 1] = raw[k + 1] BY <1>1, <3>1
    <3>3. g[k + 1] = Enter(g[k], all[k + 1]) /\ f[k + 1] = Enter(f[k], raw[k + 1])
      BY <1>1, <1>2, <1>3, <3>1
    <3> QED BY <1>0, <2>2, <3>1, <3>2, <3>3
  <2> HIDE DEF Same
  <2> QED BY <1>0, <2>1, <2>2, UpTo
<1>5. g[N] = f[N] /\ f[N] \in PlainPaths BY <1>0, <1>4
<1> DEFINE P == f[N]
           Grown == {k \in 0 .. M : g[N + k] = P \o SubSeq(rel, 1, k)}
<1>6. P \in Seq(Segments) BY <1>5, PlainFields
<1>7. ASSUME NEW k \in 0 .. M
      PROVE  /\ SubSeq(rel, 1, k) \in Seq(Segments) /\ Len(SubSeq(rel, 1, k)) = k
             /\ \A i \in 1 .. k : SubSeq(rel, 1, k)[i] = rel[i]
  <2>1. \A i \in 1 .. k : rel[i] \in Segments BY <1>0
  <2>2. /\ SubSeq(rel, 1, k) \in Seq(Segments)
        /\ Len(SubSeq(rel, 1, k)) = IF 1 <= k THEN k - 1 + 1 ELSE 0
        /\ \A i \in 1 .. k - 1 + 1 : SubSeq(rel, 1, k)[i] = rel[1 + i - 1]
    BY <1>0, <2>1, SubSeqProperties
  <2> QED BY <1>0, <2>2
<1> HIDE DEF P
<1>8. 0 .. M \subseteq Grown
  <2>1. 0 \in Grown
    <3>1. SubSeq(rel, 1, 0) = <<>> BY <1>7, <1>0, EmptySeq
    <3>2. P \o <<>> = P BY <1>6, ConcatEmptySeq
    <3>3. g[N + 0] = P /\ 0 \in 0 .. M BY <1>0, <1>5 DEF P
    <3>4. g[N + 0] = P \o SubSeq(rel, 1, 0) BY <3>1, <3>2, <3>3
    <3> QED BY <3>3, <3>4
  <2>2. ASSUME NEW k \in 0 .. M, k < M, k \in Grown PROVE k + 1 \in Grown
    <3>1. /\ N + k + 1 \in 1 .. N + M /\ (N + k + 1) - 1 = N + k /\ ~(N + k + 1 <= N)
          /\ N + k + 1 - N = k + 1 /\ k + 1 \in 1 .. M /\ k + 1 \in 0 .. M
          /\ N + (k + 1) = N + k + 1
      BY <1>0, <2>2
    <3>2. all[N + k + 1] = rel[k + 1]
      <4>1. all[N + k + 1] = rel[(N + k + 1) - N] BY <1>1, <3>1
      <4> QED BY <3>1, <4>1
    <3>3. g[N + k + 1] = Append(g[N + k], rel[k + 1])
      BY <1>0, <1>1, <1>3, <3>1, <3>2, EnterCases
    <3>4. Append(P \o SubSeq(rel, 1, k), rel[k + 1]) = P \o SubSeq(rel, 1, k + 1)
      <4>1. k + 1 \in 1 .. Len(rel) /\ 1 \in 1 .. Len(rel) /\ (k + 1) - 1 = k
            /\ rel[k + 1] \in Segments /\ 1 <= k + 1
        BY <1>0, <3>1 DEF M
      <4>2. SubSeq(rel, 1, k + 1) = SubSeq(rel, 1, k) \o <<rel[k + 1]>>
        <5>1. k + 1 \in 1 .. Len(rel) BY <4>1
        <5>2. SubSeq(rel, 1, k + 1) = SubSeq(rel, 1, (k + 1) - 1) \o <<rel[k + 1]>>
          BY <1>0, <4>1, <5>1, SubSeqRecursiveSecond
        <5> QED BY <4>1, <5>2
      <4>3. SubSeq(rel, 1, k) \in Seq(Segments) BY <1>7
      <4>4. Append(SubSeq(rel, 1, k), rel[k + 1]) = SubSeq(rel, 1, k + 1)
        BY <4>1, <4>2, <4>3, AppendIsConcat
      <4>5. Append(P \o SubSeq(rel, 1, k), rel[k + 1])
               = P \o Append(SubSeq(rel, 1, k), rel[k + 1])
        <5> DEFINE a == SubSeq(rel, 1, k)
                   e == rel[k + 1]
        <5>1. a \in Seq(Segments) /\ e \in Segments BY <4>1, <4>3
        <5> HIDE DEF a, e
        <5>2. Append(P \o a, e) = P \o Append(a, e) BY <1>6, <5>1, AppendConcat
        <5> QED BY <5>2 DEF a, e
      <4> QED BY <4>4, <4>5
    <3>5. g[N + k] = P \o SubSeq(rel, 1, k) BY <2>2
    <3> QED BY <3>1, <3>3, <3>4, <3>5
  <2> HIDE DEF Grown
  <2> QED BY <1>0, <2>1, <2>2, UpTo
<1>9. g[N + M] = P \o SubSeq(rel, 1, M)
  <2>1. M \in 0 .. M BY <1>0
  <2> QED BY <1>8, <2>1
<1>10. SubSeq(rel, 1, M) = rel
  BY <1>0, SubSeqFull DEF M
<1> QED BY <1>1, <1>2, <1>3, <1>9, <1>10 DEF P, all, N


\* A path with nothing to normalize stays what it is; normalize() is idempotent,
\* as the comparisons of policy.py need it, which normalize again what
\* canonicalize() returned.
LEMMA NormalizePlain == \A path \in PlainPaths : Normalize(path) = path
<1> TAKE path \in PlainPaths
<1>1. <<>> \in RawPaths /\ Len(<<>>) = 0
  BY EmptySeq DEF RawPaths
<1>2. Normalize(<<>>) = <<>>
  BY <1>1, NormalizeSteps
<1>3. <<>> \o path = path
  BY PlainFields, ConcatEmptySeq
<1>4. Normalize(<<>> \o path) = Normalize(<<>>) \o path
  BY <1>1, NormalizeBelow
<1> QED BY <1>2, <1>3, <1>4

\* Normalizing twice is normalizing once (paths.py normalize).
THEOREM NormalizeIdempotent ==
    \A raw \in RawPaths : Normalize(Normalize(raw)) = Normalize(raw)
BY NormalizeIsPlain, NormalizePlain

-----------------------------------------------------------------------------
\* Prefixes, segment by segment.
LEMMA PrefixFields ==
    \A s, t \in Seq(Segments) :
       IsPrefix(s, t) <=> Len(s) <= Len(t) /\ \A i \in 1 .. Len(s) : s[i] = t[i]
<1> TAKE s, t \in Seq(Segments)
<1>0. Len(s) \in Nat /\ Len(t) \in Nat OBVIOUS
<1>1. SubSeq(s, 1, Len(s)) = s BY SubSeqFull
<1> SUFFICES ASSUME Len(s) <= Len(t)
             PROVE  SubSeq(t, 1, Len(s)) = s <=> \A i \in 1 .. Len(s) : s[i] = t[i]
  BY <1>1 DEF IsPrefix
<1> DEFINE u == SubSeq(t, 1, Len(s))
<1>2. u \in Seq(Segments) /\ Len(u) = Len(s) /\ \A i \in 1 .. Len(s) : u[i] = t[i]
  <2>1. \A i \in 1 .. Len(s) : t[i] \in Segments BY <1>0, ElementOfSeq
  <2>2. /\ u \in Seq(Segments)
        /\ Len(u) = IF 1 <= Len(s) THEN Len(s) - 1 + 1 ELSE 0
        /\ \A i \in 1 .. Len(s) - 1 + 1 : u[i] = t[1 + i - 1]
    BY <1>0, <2>1, SubSeqProperties
  <2> HIDE DEF u
  <2>3. \A i \in 1 .. Len(s) : u[i] = t[i] BY <1>0, <2>2
  <2> QED BY <1>0, <2>2, <2>3
<1> HIDE DEF u
<1>3. u = s <=> \A i \in 1 .. Len(s) : s[i] = t[i]
  BY <1>0, <1>2, SeqEqual
<1> QED BY <1>3 DEF u

\* Being a prefix is a partial order, and linear on the prefixes of a path.
LEMMA PrefixOrder ==
    \A s, t, u \in Seq(Segments) :
       /\ IsPrefix(s, s)
       /\ IsPrefix(s, t) /\ IsPrefix(t, u) => IsPrefix(s, u)
       /\ IsPrefix(s, t) /\ IsPrefix(t, s) => s = t
       /\ IsPrefix(s, u) /\ IsPrefix(t, u) => IsPrefix(s, t) \/ IsPrefix(t, s)
<1> TAKE s, t, u \in Seq(Segments)
<1>0. Len(s) \in Nat /\ Len(t) \in Nat /\ Len(u) \in Nat OBVIOUS
<1>1. IsPrefix(s, s) BY <1>0, PrefixFields
<1>2. ASSUME IsPrefix(s, t), IsPrefix(t, u) PROVE IsPrefix(s, u)
  BY <1>0, <1>2, PrefixFields
<1>3. ASSUME IsPrefix(s, t), IsPrefix(t, s) PROVE s = t
  <2>1. Len(s) = Len(t) /\ \A i \in 1 .. Len(s) : s[i] = t[i]
    BY <1>0, <1>3, PrefixFields
  <2> QED BY <2>1, SeqEqual
<1>4. ASSUME IsPrefix(s, u), IsPrefix(t, u) PROVE IsPrefix(s, t) \/ IsPrefix(t, s)
  BY <1>0, <1>4, PrefixFields
<1> QED BY <1>1, <1>2, <1>3, <1>4

\* Below a root paths are ordered as they are without it.
LEMMA PrefixBelow ==
    \A r, s, t \in Seq(Segments) :
       /\ IsPrefix(r, r \o s)
       /\ IsPrefix(r \o s, r \o t) <=> IsPrefix(s, t)
       /\ r \o s = r \o t => s = t
<1> TAKE r, s, t \in Seq(Segments)
<1>0. Len(r) \in Nat /\ Len(s) \in Nat /\ Len(t) \in Nat OBVIOUS
<1> DEFINE a == r \o s
           b == r \o t
<1>1. /\ a \in Seq(Segments) /\ Len(a) = Len(r) + Len(s)
      /\ \A i \in 1 .. Len(r) + Len(s) :
            a[i] = IF i <= Len(r) THEN r[i] ELSE s[i - Len(r)]
  BY ConcatProperties
<1>2. /\ b \in Seq(Segments) /\ Len(b) = Len(r) + Len(t)
      /\ \A i \in 1 .. Len(r) + Len(t) :
            b[i] = IF i <= Len(r) THEN r[i] ELSE t[i - Len(r)]
  BY ConcatProperties
<1> HIDE DEF a, b
<1>r. ASSUME NEW i \in 1 .. Len(r) PROVE a[i] = r[i] /\ b[i] = r[i]
  <2>1. i <= Len(r) /\ i \in 1 .. Len(r) + Len(s) /\ i \in 1 .. Len(r) + Len(t)
    BY <1>0
  <2> QED BY <1>1, <1>2, <2>1
<1>3. IsPrefix(r, a)
  <2>1. Len(r) <= Len(a) BY <1>0, <1>1
  <2> QED BY <1>1, <1>r, <2>1, PrefixFields
<1>4. ASSUME NEW i \in 1 .. Len(s)
      PROVE  /\ i + Len(r) \in 1 .. Len(r) + Len(s) /\ ~(i + Len(r) <= Len(r))
             /\ (i + Len(r)) - Len(r) = i
             /\ a[i + Len(r)] = s[i]
  <2>1. /\ i + Len(r) \in 1 .. Len(r) + Len(s) /\ ~(i + Len(r) <= Len(r))
        /\ (i + Len(r)) - Len(r) = i
    BY <1>0
  <2>2. a[i + Len(r)] = s[(i + Len(r)) - Len(r)] BY <1>1, <2>1
  <2> QED BY <2>1, <2>2
<1>5. ASSUME NEW i \in 1 .. Len(t) PROVE b[i + Len(r)] = t[i]
  <2>1. /\ i + Len(r) \in 1 .. Len(r) + Len(t) /\ ~(i + Len(r) <= Len(r))
        /\ (i + Len(r)) - Len(r) = i
    BY <1>0
  <2>2. b[i + Len(r)] = t[(i + Len(r)) - Len(r)] BY <1>2, <2>1
  <2> QED BY <2>1, <2>2
<1>6. ASSUME IsPrefix(a, b) PROVE IsPrefix(s, t)
  <2>1. Len(s) <= Len(t) /\ \A i \in 1 .. Len(r) + Len(s) : a[i] = b[i]
    <3>1. Len(a) <= Len(b) /\ \A i \in 1 .. Len(a) : a[i] = b[i]
      BY <1>1, <1>2, <1>6, PrefixFields
    <3> QED BY <1>0, <1>1, <1>2, <3>1
  <2>2. ASSUME NEW i \in 1 .. Len(s) PROVE s[i] = t[i]
    <3>1. i \in 1 .. Len(t) BY <1>0, <2>1
    <3>2. a[i + Len(r)] = b[i + Len(r)] BY <1>4, <2>1
    <3> QED BY <1>4, <1>5, <3>1, <3>2
  <2> QED BY <2>1, <2>2, PrefixFields
<1>7. ASSUME IsPrefix(s, t) PROVE IsPrefix(a, b)
  <2>1. Len(s) <= Len(t) /\ \A i \in 1 .. Len(s) : s[i] = t[i]
    BY <1>7, PrefixFields
  <2>2. ASSUME NEW i \in 1 .. Len(a) PROVE a[i] = b[i]
    <3>1. CASE i <= Len(r)
      <4>1. i \in 1 .. Len(r) BY <1>0, <1>1, <3>1
      <4> QED BY <1>r, <4>1
    <3>2. CASE i > Len(r)
      <4>1. i - Len(r) \in 1 .. Len(s) /\ i \in 1 .. Len(r) + Len(t) /\ ~(i <= Len(r))
            /\ i \in 1 .. Len(r) + Len(s)
        BY <1>0, <1>1, <2>1, <3>2
      <4>2. a[i] = s[i - Len(r)] /\ b[i] = t[i - Len(r)] BY <1>1, <1>2, <4>1
      <4> QED BY <2>1, <4>1, <4>2
    <3> QED BY <1>0, <1>1, <3>1, <3>2
  <2> QED BY <1>0, <1>1, <1>2, <2>1, <2>2, PrefixFields
<1>8. ASSUME a = b PROVE s = t
  BY <1>8, ConcatSimplifications DEF a, b
<1> QED BY <1>3, <1>6, <1>7, <1>8 DEF a, b


-----------------------------------------------------------------------------
\* An alias that begins a path, and the longest of them.
Hits(aliases, path) == {a \in aliases : IsPrefix(a[1], path)}
Longest(hits) == CHOOSE a \in hits : \A b \in hits : Len(b[1]) <= Len(a[1])

\* Of the aliases that begin a path one is the longest.
LEMMA LongestHit ==
    ASSUME NEW aliases, PlainAliases(aliases), NEW path \in PlainPaths,
           Hits(aliases, path) # {}
    PROVE  Longest(Hits(aliases, path)) \in Hits(aliases, path)
<1> DEFINE hits == Hits(aliases, path)
           Short == {Len(path) - Len(a[1]) : a \in hits}
<1>1. \A a \in hits : /\ a[1] \in PlainPaths /\ a[1] \in Seq(Segments)
                      /\ Len(a[1]) \in Nat /\ Len(a[1]) <= Len(path)
  <2> SUFFICES ASSUME NEW a \in hits
               PROVE  /\ a[1] \in PlainPaths /\ a[1] \in Seq(Segments)
                      /\ Len(a[1]) \in Nat /\ Len(a[1]) <= Len(path)
    OBVIOUS
  <2>1. a[1] \in PlainPaths BY DEF PlainAliases, Hits
  <2>2. a[1] \in Seq(Segments) /\ Len(a[1]) \in Nat BY <2>1, PlainFields
  <2>3. IsPrefix(a[1], path) BY DEF Hits
  <2>4. path \in Seq(Segments) BY PlainFields
  <2> QED BY <2>1, <2>2, <2>3, <2>4, PrefixFields
<1>2. Len(path) \in Nat BY PlainFields
<1>3. Short \in SUBSET Nat /\ Short # {}
  BY <1>1, <1>2
<1>4. PICK m \in Short : \A k \in Short : m <= k
  <2> HIDE DEF Short
  <2> QED BY <1>3, LeastNumber
<1>5. PICK a \in hits : m = Len(path) - Len(a[1])
  BY <1>4
<1>6. \A b \in hits : Len(b[1]) <= Len(a[1])
  <2> SUFFICES ASSUME NEW b \in hits PROVE Len(b[1]) <= Len(a[1])
    OBVIOUS
  <2>1. Len(path) - Len(b[1]) \in Short OBVIOUS
  <2>2. Len(path) - Len(a[1]) <= Len(path) - Len(b[1]) BY <1>4, <1>5, <2>1
  <2>3. Len(a[1]) \in Nat /\ Len(b[1]) \in Nat BY <1>1
  <2> QED BY <1>2, <2>2, <2>3
<1> QED BY <1>5, <1>6 DEF Longest

\* canonicalize(), in terms of them.
LEMMA CanonicalCases ==
    ASSUME NEW aliases, NEW raw
    PROVE  LET path == Normalize(raw)
               hits == Hits(aliases, path)
               a == Longest(hits)
           IN  /\ hits = {} => Canonicalize(aliases, raw) = path
               /\ hits # {} => Canonicalize(aliases, raw)
                                  = a[2] \o SubSeq(path, Len(a[1]) + 1, Len(path))
BY DEF Canonicalize, Hits, Longest

\* The rest of a plain path is plain.
LEMMA PlainRest ==
    ASSUME NEW path \in PlainPaths, NEW n \in 0 .. Len(path)
    PROVE  SubSeq(path, n + 1, Len(path)) \in PlainPaths
<1> DEFINE u == SubSeq(path, n + 1, Len(path))
<1>0. Len(path) \in Nat BY PlainFields
<1>1. \A i \in n + 1 .. Len(path) : path[i] \in Segments /\ path[i] \notin Special
  BY <1>0, PlainFields
<1>2. /\ u \in Seq(Segments)
      /\ Len(u) = IF n + 1 <= Len(path) THEN Len(path) - (n + 1) + 1 ELSE 0
      /\ \A i \in 1 .. Len(path) - (n + 1) + 1 : u[i] = path[n + 1 + i - 1]
  BY <1>0, <1>1, SubSeqProperties
<1> HIDE DEF u
<1>3. ASSUME NEW i \in 1 .. Len(u) PROVE u[i] \notin Special
  <2>1. i \in 1 .. Len(path) - (n + 1) + 1 /\ n + 1 + i - 1 \in n + 1 .. Len(path)
    BY <1>0, <1>2
  <2> QED BY <1>1, <1>2, <2>1
<1>4. u \in PlainPaths BY <1>2, <1>3 DEF PlainPaths, RawPaths
<1> QED BY <1>4 DEF u

\* Two plain paths make a plain path.
LEMMA PlainConcat ==
    ASSUME NEW s \in PlainPaths, NEW t \in PlainPaths
    PROVE  s \o t \in PlainPaths
<1> DEFINE u == s \o t
<1>0. /\ s \in Seq(Segments) /\ t \in Seq(Segments)
      /\ Len(s) \in Nat /\ Len(t) \in Nat
  BY PlainFields
<1>1. /\ u \in Seq(Segments) /\ Len(u) = Len(s) + Len(t)
      /\ \A i \in 1 .. Len(s) + Len(t) :
            u[i] = IF i <= Len(s) THEN s[i] ELSE t[i - Len(s)]
  BY <1>0, ConcatProperties
<1> HIDE DEF u
<1>2. ASSUME NEW i \in 1 .. Len(u) PROVE u[i] \notin Special
  <2>1. CASE i <= Len(s)
    <3>1. i \in 1 .. Len(s) /\ u[i] = s[i] BY <1>0, <1>1, <2>1
    <3> QED BY <3>1, PlainFields
  <2>2. CASE i > Len(s)
    <3>1. i - Len(s) \in 1 .. Len(t) /\ ~(i <= Len(s)) BY <1>0, <1>1, <2>2
    <3>2. u[i] = t[i - Len(s)] BY <1>0, <1>1, <3>1
    <3> QED BY <3>1, <3>2, PlainFields
  <2> QED BY <1>0, <1>1, <2>1, <2>2
<1>3. u \in PlainPaths BY <1>1, <1>2 DEF PlainPaths, RawPaths
<1> QED BY <1>3 DEF u

\* canonicalize() returns a path that is normalized (paths.py), whatever it is
\* given: the alias that begins a path is replaced by a path.
THEOREM CanonicalIsPlain ==
    ASSUME NEW aliases, PlainAliases(aliases)
    PROVE  \A raw \in RawPaths : Canonicalize(aliases, raw) \in PlainPaths
<1> TAKE raw \in RawPaths
<1> DEFINE path == Normalize(raw)
           hits == Hits(aliases, path)
           a == Longest(hits)
<1>1. path \in PlainPaths BY NormalizeIsPlain
<1>2. CASE hits = {}
  BY <1>1, <1>2, CanonicalCases
<1>3. CASE hits # {}
  <2> HIDE DEF path
  <2>1. a \in hits BY <1>1, <1>3, LongestHit
  <2>2. a[1] \in PlainPaths /\ a[2] \in PlainPaths /\ IsPrefix(a[1], path)
    BY <2>1 DEF PlainAliases, Hits
  <2> HIDE DEF a, hits
  <2>3. a[1] \in Seq(Segments) /\ path \in Seq(Segments)
        /\ Len(a[1]) \in Nat /\ Len(path) \in Nat
    BY <1>1, <2>2, PlainFields
  <2>4. Len(a[1]) \in 0 .. Len(path) BY <2>2, <2>3, PrefixFields
  <2>5. SubSeq(path, Len(a[1]) + 1, Len(path)) \in PlainPaths
    BY <1>1, <2>4, PlainRest
  <2>6. a[2] \o SubSeq(path, Len(a[1]) + 1, Len(path)) \in PlainPaths
    BY <2>2, <2>5, PlainConcat
  <2> QED BY <1>3, <2>6, CanonicalCases DEF a, hits, path
<1> QED BY <1>2, <1>3


\* Concatenation is associative.
LEMMA ConcatAssoc ==
    \A s, t, u \in Seq(Segments) : s \o (t \o u) = (s \o t) \o u
<1> TAKE s, t, u \in Seq(Segments)
<1>1. (s \o t) \o u = s \o (t \o u) BY ConcatAssociative
<1> QED BY <1>1

\* Below a root that has no alias below it, the root's alias, if there is one,
\* decides how a path is spelled: what canonicalize() makes of the root stands
\* before all that is below it.  For every spelling of the root.
THEOREM CanonicalBelow ==
    ASSUME NEW aliases, PlainAliases(aliases), NEW raw \in RawPaths,
           NoAliasBelow(aliases, Normalize(raw)), NEW rel \in PlainPaths
    PROVE  Canonicalize(aliases, raw \o rel) = Canonicalize(aliases, raw) \o rel
<1> DEFINE root == Normalize(raw)
           path == Normalize(raw \o rel)
           hits == Hits(aliases, root)
           a == Longest(hits)
<1>1. root \in PlainPaths /\ path = root \o rel
  BY NormalizeIsPlain, NormalizeBelow
<1>2. /\ root \in Seq(Segments) /\ rel \in Seq(Segments) /\ path \in Seq(Segments)
      /\ Len(root) \in Nat /\ Len(rel) \in Nat /\ Len(path) = Len(root) + Len(rel)
      /\ path \in PlainPaths
  <2>1. path \in PlainPaths BY <1>1, PlainConcat
  <2>2. /\ root \in Seq(Segments) /\ Len(root) \in Nat
        /\ rel \in Seq(Segments) /\ Len(rel) \in Nat
    BY <1>1, PlainFields
  <2>3. Len(root \o rel) = Len(root) + Len(rel)
    BY <2>2, ConcatProperties
  <2> QED BY <1>1, <2>1, <2>2, <2>3, PlainFields
<1>3. IsPrefix(root, path)
  BY <1>1, <1>2, PrefixBelow
<1>4. Hits(aliases, path) = hits
  <2>1. ASSUME NEW b \in aliases PROVE IsPrefix(b[1], path) <=> IsPrefix(b[1], root)
    <3>1. b[1] \in PlainPaths BY DEF PlainAliases
    <3>2. b[1] \in Seq(Segments) BY <3>1, PlainFields
    <3>3. ~(IsPrefix(root, b[1]) /\ b[1] # root)
      BY DEF NoAliasBelow, IsStrictPrefix
    <3> HIDE DEF root, path
    <3>4. IsPrefix(b[1], root) => IsPrefix(b[1], path)
      BY <1>2, <1>3, <3>2, PrefixOrder
    <3>5. IsPrefix(b[1], path) => IsPrefix(b[1], root) \/ IsPrefix(root, b[1])
      BY <1>2, <1>3, <3>2, PrefixOrder
    <3>6. IsPrefix(root, root) BY <1>2, PrefixOrder
    <3> QED BY <3>3, <3>4, <3>5, <3>6
  <2> QED BY <2>1 DEF Hits
<1>5. CASE hits = {}
  BY <1>1, <1>4, <1>5, CanonicalCases
<1>6. CASE hits # {}
  <2> DEFINE n == Len(a[1])
             r == SubSeq(root, n + 1, Len(root))
             p == SubSeq(path, n + 1, Len(path))
  <2>1. a \in hits
    <3> HIDE DEF root
    <3> QED BY <1>1, <1>6, LongestHit
  <2>2. a[1] \in PlainPaths /\ a[2] \in PlainPaths /\ IsPrefix(a[1], root)
    BY <2>1 DEF PlainAliases, Hits
  <2>3. /\ Canonicalize(aliases, raw) = a[2] \o r
        /\ Canonicalize(aliases, raw \o rel) = a[2] \o p
    BY <1>4, <1>6, CanonicalCases
  <2> HIDE DEF a, hits, path, root
  <2>4. n \in Nat /\ n <= Len(root)
    <3>1. a[1] \in Seq(Segments) /\ n \in Nat BY <2>2, PlainFields
    <3> QED BY <1>2, <2>2, <3>1, PrefixFields
  <2> HIDE DEF n
  <2>5. r \in Seq(Segments) /\ p \in Seq(Segments)
    <3>1. n \in 0 .. Len(root) /\ n \in 0 .. Len(path) BY <1>2, <2>4
    <3>2. r \in PlainPaths /\ p \in PlainPaths BY <1>1, <1>2, <3>1, PlainRest
    <3> HIDE DEF r, p
    <3> QED BY <3>2, PlainFields
  <2>6. p = r \o rel
    <3>1. n + 1 \in 1 .. Len(path) + 1 /\ Len(root) \in (n + 1) - 1 .. Len(path)
          /\ Len(path) \in Len(root) .. Len(path)
      BY <1>2, <2>4
    <3>2. p = SubSeq(path, n + 1, Len(root)) \o SubSeq(path, Len(root) + 1, Len(path))
      BY <1>2, <3>1, ConcatAdjacentSubSeq
    <3>3. SubSeq(path, n + 1, Len(root)) = r
      <4> DEFINE u == SubSeq(path, n + 1, Len(root))
      <4>1. \A i \in n + 1 .. Len(root) : path[i] = root[i] /\ root[i] \in Segments
        <5>1. \A i \in 1 .. Len(root) : root[i] = path[i]
          BY <1>2, <1>3, PrefixFields
        <5>2. \A i \in 1 .. Len(root) : root[i] \in Segments BY <1>2, ElementOfSeq
        <5> QED BY <2>4, <5>1, <5>2
      <4>2. /\ u \in Seq(Segments)
            /\ Len(u) = IF n + 1 <= Len(root) THEN Len(root) - (n + 1) + 1 ELSE 0
            /\ \A i \in 1 .. Len(root) - (n + 1) + 1 : u[i] = path[n + 1 + i - 1]
        <5>1. \A i \in n + 1 .. Len(root) : path[i] \in Segments BY <4>1
        <5> QED BY <1>2, <2>4, <5>1, SubSeqProperties
      <4>3. /\ r \in Seq(Segments)
            /\ Len(r) = IF n + 1 <= Len(root) THEN Len(root) - (n + 1) + 1 ELSE 0
            /\ \A i \in 1 .. Len(root) - (n + 1) + 1 : r[i] = root[n + 1 + i - 1]
        <5>1. \A i \in n + 1 .. Len(root) : root[i] \in Segments BY <4>1
        <5> QED BY <1>2, <2>4, <5>1, SubSeqProperties
      <4> HIDE DEF u, r
      <4>4. ASSUME NEW i \in 1 .. Len(u) PROVE u[i] = r[i]
        <5>1. i \in 1 .. Len(root) - (n + 1) + 1 /\ n + 1 + i - 1 \in n + 1 .. Len(root)
          BY <1>2, <2>4, <4>2
        <5> QED BY <4>1, <4>2, <4>3, <5>1
      <4>5. u = r BY <4>2, <4>3, <4>4, SeqEqual
      <4> QED BY <4>5 DEF u
    <3>4. SubSeq(path, Len(root) + 1, Len(path)) = rel
      <4> DEFINE u == SubSeq(path, Len(root) + 1, Len(path))
      <4>1. \A i \in 1 .. Len(root) + Len(rel) :
               path[i] = IF i <= Len(root) THEN root[i] ELSE rel[i - Len(root)]
        BY <1>1, <1>2, ConcatProperties
      <4>2. \A i \in Len(root) + 1 .. Len(path) : path[i] \in Segments
        <5>1. \A i \in 1 .. Len(path) : path[i] \in Segments BY <1>2, ElementOfSeq
        <5> QED BY <1>2, <5>1
      <4>3. /\ u \in Seq(Segments)
            /\ Len(u) = IF Len(root) + 1 <= Len(path)
                        THEN Len(path) - (Len(root) + 1) + 1 ELSE 0
            /\ \A i \in 1 .. Len(path) - (Len(root) + 1) + 1 :
                  u[i] = path[Len(root) + 1 + i - 1]
        BY <1>2, <4>2, SubSeqProperties
      <4> HIDE DEF u
      <4>4. Len(u) = Len(rel) BY <1>2, <4>3
      <4>5. ASSUME NEW i \in 1 .. Len(u) PROVE u[i] = rel[i]
        <5>1. /\ i \in 1 .. Len(path) - (Len(root) + 1) + 1
              /\ Len(root) + 1 + i - 1 = Len(root) + i
              /\ Len(root) + i \in 1 .. Len(root) + Len(rel)
              /\ ~(Len(root) + i <= Len(root)) /\ (Len(root) + i) - Len(root) = i
          BY <1>2, <4>4
        <5>2. u[i] = path[Len(root) + i] BY <4>3, <5>1
        <5>3. path[Len(root) + i] = rel[(Len(root) + i) - Len(root)] BY <4>1, <5>1
        <5> QED BY <5>1, <5>2, <5>3
      <4>6. u = rel BY <1>2, <4>3, <4>4, <4>5, SeqEqual
      <4> QED BY <4>6 DEF u
    <3> QED BY <3>2, <3>3, <3>4
  <2>7. a[2] \in Seq(Segments) BY <2>2, PlainFields
  <2>8. a[2] \o (r \o rel) = (a[2] \o r) \o rel
    <3> HIDE DEF r, p
    <3> QED BY <1>2, <2>5, <2>7, ConcatAssoc
  <2> QED BY <2>3, <2>6, <2>8
<1> QED BY <1>5, <1>6

-----------------------------------------------------------------------------
\* What matches a pattern.

\* A pattern matches everything below what it matches.
LEMMA MatchesBelow ==
    ASSUME NEW pattern, pattern.segments \in RawPaths,
           NEW s \in Seq(Segments), NEW t \in Seq(Segments), IsPrefix(s, t),
           PathMatches(pattern, s)
    PROVE  PathMatches(pattern, t)
<1> DEFINE w == pattern.segments
           n == Len(w)
<1>0. /\ w \in Seq(Segments) /\ n \in Nat /\ Len(s) \in Nat /\ Len(t) \in Nat
      /\ Len(s) <= Len(t) /\ \A i \in 1 .. Len(s) : s[i] = t[i]
  BY PrefixFields DEF RawPaths
<1>1. CASE pattern.absolute
  <2>1. IsPrefix(w, s) BY <1>1 DEF PathMatches
  <2>2. IsPrefix(w, t)
    <3> HIDE DEF w
    <3> QED BY <1>0, <2>1, PrefixOrder
  <2> QED BY <1>1, <2>2 DEF PathMatches
<1>2. CASE ~pattern.absolute
  <2>1. PICK i \in 0 .. Len(s) - n : SubSeq(s, i + 1, i + n) = w
    BY <1>2 DEF PathMatches
  <2> DEFINE u == SubSeq(s, i + 1, i + n)
             v == SubSeq(t, i + 1, i + n)
  <2> HIDE DEF w, n
  <2>2. \A j \in i + 1 .. i + n : /\ j \in 1 .. Len(s) /\ j \in 1 .. Len(t)
                                  /\ s[j] = t[j] /\ s[j] \in Segments /\ t[j] \in Segments
    <3>1. \A j \in 1 .. Len(s) : s[j] \in Segments BY <1>0, ElementOfSeq
    <3> QED BY <1>0, <3>1
  <2>3. /\ u \in Seq(Segments) /\ Len(u) = IF i + 1 <= i + n THEN i + n - (i + 1) + 1 ELSE 0
        /\ \A j \in 1 .. i + n - (i + 1) + 1 : u[j] = s[i + 1 + j - 1]
    BY <1>0, <2>2, SubSeqProperties
  <2>4. /\ v \in Seq(Segments) /\ Len(v) = IF i + 1 <= i + n THEN i + n - (i + 1) + 1 ELSE 0
        /\ \A j \in 1 .. i + n - (i + 1) + 1 : v[j] = t[i + 1 + j - 1]
    BY <1>0, <2>2, SubSeqProperties
  <2> HIDE DEF u, v
  <2>5. ASSUME NEW j \in 1 .. Len(u) PROVE u[j] = v[j]
    <3>1. j \in 1 .. i + n - (i + 1) + 1 /\ i + 1 + j - 1 \in i + 1 .. i + n
      BY <1>0, <2>3
    <3> QED BY <2>2, <2>3, <2>4, <3>1
  <2>6. u = v BY <2>3, <2>4, <2>5, SeqEqual
  <2>7. i \in 0 .. Len(t) - n /\ SubSeq(t, i + 1, i + n) = w
    BY <1>0, <2>1, <2>6 DEF u, v
  <2> QED BY <1>2, <2>7 DEF PathMatches, n, w
<1> QED BY <1>1, <1>2

\* The last name of a path once more.
Again(path) == Append(path, path[Len(path)])

\* The fields of a path whose last name is there once more.
LEMMA AgainFields ==
    \A s \in Seq(Segments) : s # <<>> =>
       /\ Again(s) \in Seq(Segments) /\ Len(Again(s)) = Len(s) + 1
       /\ Len(s) \in Nat \ {0}
       /\ \A i \in 1 .. Len(s) : Again(s)[i] = s[i] /\ s[i] \in Segments
       /\ Again(s)[Len(s) + 1] = s[Len(s)]
<1> TAKE s \in Seq(Segments)
<1> HAVE s # <<>>
<1>1. Len(s) \in Nat /\ Len(s) # 0 BY EmptySeq
<1>2. \A i \in 1 .. Len(s) : s[i] \in Segments BY <1>1, ElementOfSeq
<1> DEFINE x == s[Len(s)]
<1>3. x \in Segments BY <1>1, <1>2
<1> HIDE DEF x
<1>4. /\ Append(s, x) \in Seq(Segments) /\ Len(Append(s, x)) = Len(s) + 1
      /\ \A i \in 1 .. Len(s) : Append(s, x)[i] = s[i]
      /\ Append(s, x)[Len(s) + 1] = x
  BY <1>3, AppendProperties
<1> QED BY <1>1, <1>2, <1>4 DEF Again, x

\* A path that does not end in the same name twice begins the longer path only if
\* it begins the shorter one.
LEMMA PrefixOfAgain ==
    ASSUME NEW w \in Seq(Segments), ~Doubled(w), NEW s \in Seq(Segments),
           s # <<>>, IsPrefix(w, Again(s))
    PROVE  IsPrefix(w, s)
<1> DEFINE t == Again(s)
           n == Len(s)
<1>0. /\ t \in Seq(Segments) /\ Len(t) = n + 1 /\ n \in Nat \ {0} /\ Len(w) \in Nat
      /\ \A i \in 1 .. n : t[i] = s[i]
      /\ t[n + 1] = s[n]
  BY AgainFields
<1> HIDE DEF t, n
<1>1. Len(w) <= n + 1 /\ \A i \in 1 .. Len(w) : w[i] = t[i]
  BY <1>0, PrefixFields DEF t
<1>2. Len(w) <= n
  <2> SUFFICES ASSUME Len(w) = n + 1 PROVE FALSE
    BY <1>0, <1>1
  <2>1. w[n + 1] = s[n] /\ w[n] = s[n] BY <1>0, <1>1
  <2> QED BY <1>0, <2>1 DEF Doubled
<1> QED BY <1>0, <1>1, <1>2, PrefixFields DEF n

\* A pattern that does not end in the same name twice matches the longer path only
\* if it matches the shorter one.
LEMMA MatchesAgain ==
    ASSUME NEW pattern, pattern.segments \in RawPaths, ~Doubled(pattern.segments),
           NEW s \in Seq(Segments), s # <<>>, PathMatches(pattern, Again(s))
    PROVE  PathMatches(pattern, s)
<1> DEFINE w == pattern.segments
           t == Again(s)
           n == Len(w)
           m == Len(s)
<1>0. /\ w \in Seq(Segments) /\ n \in Nat /\ ~Doubled(w)
      /\ t \in Seq(Segments) /\ Len(t) = m + 1 /\ m \in Nat \ {0}
      /\ \A i \in 1 .. m : t[i] = s[i] /\ s[i] \in Segments
      /\ t[m + 1] = s[m]
  BY AgainFields DEF RawPaths
<1>1. CASE pattern.absolute
  <2>1. IsPrefix(w, t) BY <1>1 DEF PathMatches
  <2>2. IsPrefix(w, s) BY <1>0, <2>1, PrefixOfAgain
  <2> QED BY <1>1, <2>2 DEF PathMatches
<1>2. CASE ~pattern.absolute
  <2>1. PICK i \in 0 .. (m + 1) - n : SubSeq(t, i + 1, i + n) = w
    BY <1>0, <1>2 DEF PathMatches
  <2> HIDE DEF w, t, n, m
  <2>2. \A j \in i + 1 .. i + n : j \in 1 .. m + 1 /\ t[j] \in Segments
    <3>1. \A j \in 1 .. m + 1 : t[j] \in Segments BY <1>0, ElementOfSeq
    <3> QED BY <1>0, <3>1
  <2>3. \A j \in 1 .. i + n - (i + 1) + 1 : w[j] = t[i + 1 + j - 1]
    BY <1>0, <2>1, <2>2, SubSeqProperties
  <2>4. \A j \in 1 .. n : w[j] = t[i + j]
    <3>1. i + n - (i + 1) + 1 = n /\ \A j \in 1 .. n : i + 1 + j - 1 = i + j BY <1>0
    <3> QED BY <2>3, <3>1
  \* Where the pattern is found in the shorter path.
  <2>5. \E k \in 0 .. m - n : \A j \in 1 .. n : w[j] = s[k + j]
    <3>1. CASE i + n <= m
      <4>1. i \in 0 .. m - n /\ \A j \in 1 .. n : i + j \in 1 .. m BY <1>0, <3>1
      <4> QED BY <1>0, <2>4, <4>1
    <3>2. CASE i + n = m + 1 /\ n >= 2
      <4>1. /\ n \in 1 .. n /\ n - 1 \in 1 .. n
            /\ i + n = m + 1 /\ i + (n - 1) = m /\ m \in 1 .. m
        BY <1>0, <3>2
      <4>2. w[n] = s[m] /\ w[n - 1] = s[m] BY <1>0, <2>4, <4>1
      <4> QED BY <1>0, <3>2, <4>2 DEF Doubled, n
    <3>3. CASE i + n = m + 1 /\ n = 1
      <4>1. m - 1 \in 0 .. m - n /\ 1 \in 1 .. n /\ i + 1 = m + 1 /\ (m - 1) + 1 = m
        BY <1>0, <3>3
      <4>2. w[1] = s[(m - 1) + 1] BY <1>0, <2>4, <4>1
      <4> QED BY <3>3, <4>1, <4>2
    <3>4. CASE n = 0
      BY <1>0, <3>4
    <3> QED BY <1>0, <2>1, <3>1, <3>2, <3>3, <3>4
  <2>6. PICK k \in 0 .. m - n : \A j \in 1 .. n : w[j] = s[k + j] BY <2>5
  <2> DEFINE u == SubSeq(s, k + 1, k + n)
  <2>7. \A j \in k + 1 .. k + n : s[j] \in Segments BY <1>0, <2>6
  <2>8. /\ u \in Seq(Segments) /\ Len(u) = IF k + 1 <= k + n THEN k + n - (k + 1) + 1 ELSE 0
        /\ \A j \in 1 .. k + n - (k + 1) + 1 : u[j] = s[k + 1 + j - 1]
    BY <1>0, <2>6, <2>7, SubSeqProperties
  <2> HIDE DEF u
  <2>9. Len(u) = n BY <1>0, <2>6, <2>8
  <2>10. ASSUME NEW j \in 1 .. Len(u) PROVE u[j] = w[j]
    <3>1. j \in 1 .. n /\ j \in 1 .. k + n - (k + 1) + 1 /\ k + 1 + j - 1 = k + j
      BY <1>0, <2>6, <2>9
    <3> QED BY <2>6, <2>8, <3>1
  <2>11. u = w
    <3>1. Len(u) = Len(w) BY <2>9 DEF n
    <3> QED BY <1>0, <2>8, <2>10, <3>1, SeqEqual
  <2> QED BY <1>2, <2>11 DEF PathMatches, u, w, n, m
<1> QED BY <1>1, <1>2
=============================================================================
