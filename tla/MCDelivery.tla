----------------------------- MODULE MCDelivery -----------------------------
(***************************************************************************)
(* A small storage root for TLC: the workspace "ws" with a secret "key" and *)
(* links "l" to a file and "f" to a directory that lie outside of it.  The   *)
(* agent replaces the first one by a link to "key", and the second one by a  *)
(* file, or a directory with a file and a "tmp", which is ignored wherever   *)
(* it is; "key" is denied.                                                  *)
(***************************************************************************)
EXTENDS Delivery

ws == <<"ws">>
lib == <<"lib">>
libf == <<"lib", "f">>
wskey == <<"ws", "key">>
wsl == <<"ws", "l">>
wsf == <<"ws", "f">>
wsff == <<"ws", "f", "f">>
wsftmp == <<"ws", "f", "tmp">>

MCTree == {ws, lib, libf, wskey, wsl, wsf, wsff, wsftmp}
MCEdited == ({wskey, libf, wsff, wsftmp} \X {"file"})
            \cup {<<wsl, "link">>}
            \cup ({wsf} \X {"file", "dir"})
MCLinkTargets == {wskey}
MCStart ==
    [p \in Tree |-> CASE p \in {ws, lib}     -> Dir
                      [] p \in {wskey, libf} -> File(0)
                      [] p = wsl             -> Link(libf)
                      [] p = wsf             -> Link(lib)
                      [] OTHER               -> None]
MCAliases == {<< <<"home", "u">>, <<"storage", "user">> >>}
MCVisible == <<"storage", "user">>
MCScopes == {<<"storage", "user", "ws">>}
MCRespelled ==
    { << <<"home", "u">>, {<<"storage", "user", "ws", "">>} >>,
      << <<"storage", "", "user", ".", "lib", "..">>, {<<"home", "x", "..", "u", "ws">>} >> }
MCWorkspace == <<"home", "u", "ws">>
MCNames ==
    {[absolute |-> TRUE, segments |-> <<"home", "u", "ws", "f">>],
     [absolute |-> FALSE, segments |-> <<"ws", "l">>],
     [absolute |-> FALSE, segments |-> <<"f", "f">>],
     [absolute |-> FALSE, segments |-> <<"..", "lib", "f">>]}
Segment(n) == [absolute |-> FALSE, segments |-> <<n>>]
MCDeny == {Segment("key")}
MCIgnore == {Segment("tmp")}

\* What the theorems assume holds here.
ASSUME MCConfiguration == SameMeaning /\ CanonicalRoot /\ NoneDoubled
=============================================================================
