---------------------------- MODULE GrantLedger ----------------------------
(***************************************************************************)
(* What the per-turn channel promises the user, whatever turns, approvals,  *)
(* clients that give up and session ends overlap: nothing is published that *)
(* is not allowed, a question is asked once and answered once, and it is    *)
(* never about a path the user already said yes to.                         *)
(***************************************************************************)
CONSTANTS Paths,
          Tokens,       \* questions that can be asked
          Versions,     \* contents of a path
          Launched,     \* paths that the scopes of the launch cover
          Under,        \* for each path, the paths that a yes to it covers
          DenyMatched,  \* paths that need a yes of their own
          Ignored       \* paths that are never published

VARIABLES yes,          \* paths a user said yes to
          asked,        \* questions ever asked
          question,     \* per question: what it is about while it is open
          published     \* per path: its version in the base

vars == <<yes, asked, question, published>>

\* What may be published.
Allowed ==
    (yes \cup ((Launched \cup UNION {Under[p] : p \in yes}) \ DenyMatched))
       \ Ignored

Init ==
    /\ yes = {}
    /\ asked = {}
    /\ question = [t \in Tokens |-> {}]
    /\ \E first \in Versions : published = [p \in Paths |-> first]

Ask(t) ==
    /\ t \notin asked
    /\ asked' = asked \cup {t}
    /\ \E S \in SUBSET Paths :
          /\ S # {} /\ S \cap yes = {}
          /\ question' = [question EXCEPT ![t] = S]
    /\ UNCHANGED <<yes, published>>

\* The user says yes to a part of the question, and no to the rest.
Answer(t) ==
    /\ question[t] # {}
    /\ question' = [question EXCEPT ![t] = {}]
    /\ \E S \in SUBSET question[t] : yes' = yes \cup S
    /\ UNCHANGED <<asked, published>>

Publish(p) ==
    /\ p \in Allowed
    /\ \E v \in Versions : published' = [published EXCEPT ![p] = v]
    /\ UNCHANGED <<yes, asked, question>>

Next ==
    \/ \E t \in Tokens : Ask(t) \/ Answer(t)
    \/ \E p \in Paths : Publish(p)

Spec == Init /\ [][Next]_vars
=============================================================================
