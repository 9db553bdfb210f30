--------------------------- MODULE MCTurnControl ---------------------------
(***************************************************************************)
(* Instances of TurnControl for TLC.  "ws" is the workspace (the allowed    *)
(* scope) and "ws/f" a file in it, "ws/key" one that matches a deny         *)
(* pattern, "ws/tmp" one that matches an ignore pattern; "lib" is a         *)
(* directory outside of the workspace and "lib/f" a file in it.             *)
(***************************************************************************)
EXTENDS TurnControl, TLC

MCInWorkspace == Paths \cap {"ws", "ws/f", "ws/key", "ws/tmp"}
MCBelow ==
    [p \in Paths |-> CASE p = "ws"  -> MCInWorkspace
                       [] p = "lib" -> Paths \cap {"lib", "lib/f"}
                       [] OTHER     -> {p}]
MCDirs == Paths \cap {"ws", "lib"}
MCScopes == Paths \cap {"ws"}
MCDenyMatched == Paths \cap {"ws/key"}
MCIgnored == Paths \cap {"ws/tmp"}

\* Connections, agents and tokens are interchangeable.
MCSymmetry == Permutations(Conns) \cup Permutations(Agents) \cup Permutations(Tokens)
=============================================================================
