--------------------------- MODULE PolicyDecision ---------------------------
(***************************************************************************)
(* The decision at the end of a session: evaluate() of ccc_agent/policy.py *)
(* and the downgrade finalize_session() makes when a BranchFS status report *)
(* carries warnings.  A change set is a set of changes; Flagged holds the   *)
(* changes classify() reports, out of scope or matching a deny/hide         *)
(* pattern.                                                                 *)
(***************************************************************************)
PolicyModes == {"manual", "workspace-auto", "read-only-review",
                "training-run", "throwaway"}

Decisions == {"auto-commit", "pending-review", "abort", "no-changes"}

\* Faulty variant: an automatic mode does not look at what is flagged.
EvaluateUnscoped(mode, changes, flagged) ==
    CASE changes = {}                           -> "no-changes"
      [] changes # {} /\ mode = "throwaway"     -> "abort"
      [] changes # {} /\ mode \in {"workspace-auto", "training-run"} -> "auto-commit"
      [] OTHER                                  -> "pending-review"

\* evaluate(): the order of its branches is that of the code.
Evaluate(mode, changes, flagged) ==
    CASE changes = {}                           -> "no-changes"
      [] changes # {} /\ mode = "throwaway"     -> "abort"
      [] changes # {} /\ mode \in {"workspace-auto", "training-run"}
                      /\ changes \cap flagged = {} -> "auto-commit"
      [] OTHER                                  -> "pending-review"

\* Status warnings never let a session close by itself, but they do not save a
\* throwaway session from its abort.
WithWarnings(decision, warned) ==
    IF warned /\ decision \in {"auto-commit", "no-changes"}
    THEN "pending-review" ELSE decision

\* Faulty variant: the decision is stored where a state belongs.
ClosedAsDecided(decision) == decision

\* Where each decision leaves the session.
ClosedState(decision) ==
    CASE decision \in {"no-changes", "auto-commit"} -> "auto-committed"
      [] decision = "abort"                         -> "aborted"
      [] OTHER                                      -> "pending-review"
=============================================================================
