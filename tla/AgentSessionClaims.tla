------------------------- MODULE AgentSessionClaims -------------------------
(***************************************************************************)
(* What comments, documents and tests of the repository say of a session    *)
(* and the code does not keep in every case.  Each claim is checked by a    *)
(* run of its own that is expected to find it violated.                     *)
(***************************************************************************)
EXTENDS MCAgentSession

\* auto-commit applies "the same set used for the decision" (runner.py).  A
\* relative symlink to a file the agent did not change dangles in the branch
\* store, is passed over, and is discarded with the branch.
AutoCommitAppliesAll == disk = "auto-committed" => delta \ Ignored \subseteq base
=============================================================================
