----------------------------- MODULE TurnClaims -----------------------------
(***************************************************************************)
(* What comments, docstrings and documents of the repository say about the  *)
(* per-turn channel and the program does not keep: each is checked alone    *)
(* and violated.                                                            *)
(***************************************************************************)
EXTENDS MCTurnControl

\* "manual" and "read-only-review" sessions commit nothing without a human
\* (policy.py: "always require human review before commit"): a change gets to
\* the base only when a user approved it.  A turn never looks at the mode.
ModeRespected ==
    mode \in {"manual", "read-only-review"} =>
       \A p \in Paths : real[p] \in 1 .. MaxEdit => p \in consent
=============================================================================
