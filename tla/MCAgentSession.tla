--------------------------- MODULE MCAgentSession ---------------------------
(***************************************************************************)
(* Instances of AgentSession for TLC.  Changes are named after what they    *)
(* are: "work1" is an in-scope file of root 1, "work2" of root 2,           *)
(* "outside2" an out-of-scope file of root 2, "noise1" an ignored file of   *)
(* root 1, "gone2" an in-scope deletion in root 2, "link1" a relative       *)
(* symlink in root 1 to a file that the agent did not change.               *)
(***************************************************************************)
EXTENDS AgentSession, TLC

MCRootOf ==
    [c \in Changes |-> IF c \in {"work1", "noise1", "link1"} THEN 1 ELSE 2]
MCFlagged == Changes \cap {"outside2", "outside1"}
MCIgnored == Changes \cap {"noise1"}
MCDeltaless == Changes \cap {"gone2"}
MCDangling == Changes \cap {"link1"}

\* Every command but those that reopen a session.
MCClosing == Commands \ {"thaw", "resume"}

\* The invocations are interchangeable.
MCSymmetry == Permutations(Procs)
=============================================================================
