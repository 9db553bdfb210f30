----------------------------- MODULE WorkLedger -----------------------------
(***************************************************************************)
(* What ccc-agent promises about the work of a session, whatever commands,  *)
(* failures, kills and reboots it goes through: every change an agent makes *)
(* waits in its branch until it is delivered to the base or discarded, once *)
(* and for good, and for a reason that somebody can be held to.             *)
(***************************************************************************)
CONSTANTS Changes,      \* changes an agent can make
          Ignored       \* changes that policy does not look at

VARIABLES fate,         \* per change: what has become of it
          cleared,      \* changes that policy lets through without a human
          accepted,     \* changes a human said yes to
          givenUp       \* changes a human or throwaway mode gave up

vars == <<fate, cleared, accepted, givenUp>>

Fates == {"unmade", "pending", "delivered", "discarded"}

Init ==
    /\ fate = [c \in Changes |-> "unmade"]
    /\ cleared \subseteq Changes
    /\ accepted = {}
    /\ givenUp = {}

Pending == {c \in Changes : fate[c] = "pending"}

Becomes(S, f) == fate' = [c \in Changes |-> IF c \in S THEN f ELSE fate[c]]

Make(c) ==
    /\ fate[c] = "unmade"
    /\ Becomes({c}, "pending")
    /\ UNCHANGED <<cleared, accepted, givenUp>>

\* A human can only say yes to what is there and shown.
Accept(S) ==
    /\ S \subseteq Changes \ Ignored
    /\ \A c \in S : fate[c] # "unmade"
    /\ accepted' = accepted \cup S
    /\ UNCHANGED <<fate, cleared, givenUp>>

\* Delivered is what policy lets through or a human accepted.
Deliver(S) ==
    /\ S \subseteq Pending \cap ((cleared \cup accepted) \ Ignored)
    /\ Becomes(S, "delivered")
    /\ UNCHANGED <<cleared, accepted, givenUp>>

\* Discarded is what is ignored or was given up.
Discard(S, given) ==
    /\ givenUp' = givenUp \cup given
    /\ S \subseteq Pending \cap (Ignored \cup givenUp')
    /\ Becomes(S, "discarded")
    /\ UNCHANGED <<cleared, accepted>>

Next ==
    \/ \E c \in Changes : Make(c)
    \/ \E S \in SUBSET Changes : Accept(S) \/ Deliver(S)
    \/ \E S, given \in SUBSET Changes : Discard(S, given)

Spec == Init /\ [][Next]_vars
=============================================================================
