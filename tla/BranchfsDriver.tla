--------------------------- MODULE BranchfsDriver ---------------------------
(***************************************************************************)
(* The driver of one BranchFS store (branchfs.py, BranchfsCli), used by     *)
(* several ccc-agent processes at once: the supervisor, a turn's handler,   *)
(* an operator's command.  Each call runs the branchfs CLI, which asks the  *)
(* daemon of the store; the daemon boots when a call needs it and exits     *)
(* when its last mount goes away.                                           *)
(*                                                                          *)
(* Time goes in ticks of one polling interval (0.1 s).  The driver's own    *)
(* steps take no time; a command takes up to Timeout, then it is killed and *)
(* what it asked for may be dropped, or done late.  The session's branch is *)
(* the only one of the store, and has been created.  AgentSession takes a   *)
(* call for one step that succeeds or fails; this is what is behind it.     *)
(***************************************************************************)
EXTENDS Naturals

CONSTANTS Procs,    \* processes that use the store
          Timeout   \* timeout_seconds, in polling intervals

\* "use" is a freeze, a thaw or a status, which all need the branch.
Ops == {"mount", "use", "abort", "unmount"}

ASSUME DriverAssumption == Timeout \in Nat

VARIABLES
    daemon,    \* the daemon of the store: none, booting, its socket ready
    mounted,   \* the session's FUSE mount
    branch,    \* what is left of the session's branch
    late,      \* a request whose client is gone and that is still to be done
    call       \* per process: its call of the driver

vars == <<daemon, mounted, branch, late, call>>

\* "removing": the daemon has forgotten the branch, its files are still there;
\* "emptied": only directories are left.
Branches == {"live", "removing", "emptied", "gone"}
Live == branch = "live"

\* At work in the driver's own code, waiting, and at rest.
Quick == {"probe", "orphan", "rmtree"}
Commands == {"starting", "invoked", "performed"}
Waiting == Commands \cup {"sleep"}
Rest == {"idle", "aborted"}
Steps == Quick \cup Waiting \cup Rest

\* A call: its operation, the ticks since it began and since it last began to
\* wait, and whether the daemon has exited meanwhile.
CallState == [pc : Steps, op : Ops \cup {"none"},
              spent : Nat, waited : 0 .. Timeout, exited : BOOLEAN]

At(p, l) == call[p].pc = l
Goto(p, l) == call' = [call EXCEPT ![p].pc = l, ![p].waited = 0]
Idle == [pc |-> "idle", op |-> "none", spent |-> 0, waited |-> 0, exited |-> FALSE]

\* A call returns, with an exception or with the answer of its operation.
Raise(p) == call' = [call EXCEPT ![p] = Idle]
Return(p) == call' = [call EXCEPT ![p] =
                [Idle EXCEPT !.pc = IF call[p].op = "abort" THEN "aborted" ELSE "idle"]]

Init ==
    /\ daemon = "none"
    /\ mounted = FALSE
    /\ branch = "live"
    /\ late = "none"
    /\ call = [p \in Procs |-> Idle]

-----------------------------------------------------------------------------
\* start_daemon

\* Faulty variant: a call relies on the daemon that the mount needed.
BeginUnensured(p, op) ==
    /\ call[p].pc \in Rest
    /\ call' = [call EXCEPT ![p] = [Idle EXCEPT !.op = op,
                   !.pc = IF op = "mount" THEN "starting" ELSE "invoked"]]
    /\ daemon' = IF op = "mount" /\ daemon = "none" THEN "booting" ELSE daemon
    /\ UNCHANGED <<mounted, branch, late>>

\* Every operation but unmount makes sure of the daemon first: `branchfs
\* start-daemon` leaves a child behind that boots, if there is no daemon yet.
Begin(p, op) ==
    /\ call[p].pc \in Rest
    /\ call' = [call EXCEPT ![p] = [Idle EXCEPT !.op = op,
                   !.pc = IF op = "unmount" THEN "invoked" ELSE "starting"]]
    /\ daemon' = IF op # "unmount" /\ daemon = "none" THEN "booting" ELSE daemon
    /\ UNCHANGED <<mounted, branch, late>>

\* The CLI has seen the daemon ready.
Started(p) ==
    /\ At(p, "starting") /\ daemon = "ready"
    /\ Goto(p, "invoked")
    /\ UNCHANGED <<daemon, mounted, branch, late>>

\* "Daemon failed to start": the CLI's own wait is over, the child may be alive.
NotYetStarted(p) ==
    /\ At(p, "starting") /\ daemon # "ready"
    /\ Goto(p, "probe")
    /\ UNCHANGED <<daemon, mounted, branch, late>>

\* Faulty variant: the deadline counts from when the CLI gave up.
ProbeAnew(p) ==
    /\ At(p, "probe")
    /\ \/ daemon = "ready" /\ Goto(p, "invoked")
       \/ daemon # "ready" /\ call[p].spent < 2 * Timeout /\ Goto(p, "sleep")
       \/ daemon # "ready" /\ call[p].spent >= 2 * Timeout /\ Raise(p)
    /\ UNCHANGED <<daemon, mounted, branch, late>>

\* Faulty variant: no look at the socket once the deadline has come.
ProbeBefore(p) ==
    /\ At(p, "probe")
    /\ \/ daemon = "ready" /\ call[p].spent < Timeout /\ Goto(p, "invoked")
       \/ daemon # "ready" /\ call[p].spent < Timeout /\ Goto(p, "sleep")
       \/ call[p].spent >= Timeout /\ Raise(p)
    /\ UNCHANGED <<daemon, mounted, branch, late>>

\* _wait_for_daemon_socket, one look at the socket: before the deadline it is
\* followed by a sleep, at the deadline it is the last one.
Probe(p) ==
    /\ At(p, "probe")
    /\ \/ daemon = "ready" /\ Goto(p, "invoked")
       \/ daemon # "ready" /\ call[p].spent < Timeout /\ Goto(p, "sleep")
       \/ daemon # "ready" /\ call[p].spent >= Timeout /\ Raise(p)
    /\ UNCHANGED <<daemon, mounted, branch, late>>

Wake(p) ==
    /\ At(p, "sleep") /\ call[p].waited = 1
    /\ Goto(p, "probe")
    /\ UNCHANGED <<daemon, mounted, branch, late>>

-----------------------------------------------------------------------------
\* The operation itself

\* What the daemon does for an operation; the last mount takes it along.
Effect(op) ==
    \/ op = "mount" /\ Live /\ mounted' = TRUE /\ UNCHANGED <<daemon, branch>>
    \/ op = "use" /\ Live /\ UNCHANGED <<daemon, mounted, branch>>
    \/ op = "abort" /\ Live /\ branch' = "removing" /\ UNCHANGED <<daemon, mounted>>
    \/ /\ op = "unmount" /\ mounted
       /\ mounted' = FALSE /\ daemon' = "none" /\ UNCHANGED branch

\* Every call under way learns, in the model only, that the daemon exited.
Exits(now) == [p \in Procs |-> [now[p] EXCEPT
                  !.exited = @ \/ (daemon' = "none" /\ now[p].pc \notin Rest)]]

Perform(p) ==
    /\ At(p, "invoked") /\ daemon = "ready"
    /\ Effect(call[p].op)
    /\ call' = Exits([call EXCEPT ![p].pc = "performed"])
    /\ UNCHANGED late

PerformLate ==
    /\ late # "none" /\ daemon = "ready"
    /\ Effect(late)
    /\ call' = Exits(call)
    /\ late' = "none"

\* An abort-branch answers when everything is removed.
Answered(p) ==
    /\ At(p, "performed")
    /\ call[p].op = "abort" => branch = "gone"
    /\ Return(p)
    /\ UNCHANGED <<daemon, mounted, branch, late>>

\* Faulty variant: an abort of a branch that is not there has failed.
NotFoundFails(p) ==
    /\ At(p, "invoked") /\ daemon = "ready" /\ ~Live
    /\ call[p].op # "unmount"
    /\ Raise(p)
    /\ UNCHANGED <<daemon, mounted, branch, late>>

\* "branch not found"; for an abort that is the orphan of an earlier one.
NotFound(p) ==
    /\ At(p, "invoked") /\ daemon = "ready" /\ ~Live
    /\ call[p].op # "unmount"
    /\ IF call[p].op = "abort" THEN Goto(p, "orphan") ELSE Raise(p)
    /\ UNCHANGED <<daemon, mounted, branch, late>>

\* Any other error of a command: no daemon, no permission, a removal that is
\* stuck on open files.
CommandFails(p) ==
    /\ call[p].pc \in Commands
    /\ Raise(p)
    /\ UNCHANGED <<daemon, mounted, branch, late>>

\* The command is killed at its timeout; the daemon may do later what it was
\* asked for.
TimesOut(p) ==
    /\ call[p].pc \in Commands /\ call[p].waited = Timeout
    /\ \/ At(p, "starting") /\ Goto(p, "probe")  \* its output named the daemon
       \/ Raise(p)
    /\ \/ At(p, "invoked") /\ late = "none" /\ call[p].op # "use" /\ late' = call[p].op
       \/ UNCHANGED late
    /\ UNCHANGED <<daemon, mounted, branch>>

\* Faulty variant: an orphan is taken for removed whatever is in it.
LookAtOrphanTrusting(p) ==
    /\ At(p, "orphan")
    /\ \/ branch # "emptied" /\ Return(p)
       \/ branch = "emptied" /\ Goto(p, "rmtree")
    /\ UNCHANGED <<daemon, mounted, branch, late>>

\* _remove_empty_orphan_branch_dir: nothing there, files there, or only
\* directories.
LookAtOrphan(p) ==
    /\ At(p, "orphan")
    /\ \/ branch = "gone" /\ Return(p)
       \/ branch = "removing" /\ Raise(p)
       \/ branch = "emptied" /\ Goto(p, "rmtree")
    /\ UNCHANGED <<daemon, mounted, branch, late>>

\* shutil.rmtree, which raises when the directory has gone meanwhile.
RemoveOrphan(p) ==
    /\ At(p, "rmtree")
    /\ \/ branch = "emptied" /\ branch' = "gone" /\ Return(p)
       \/ branch # "emptied" /\ UNCHANGED branch /\ Raise(p)
    /\ UNCHANGED <<daemon, mounted, late>>

-----------------------------------------------------------------------------
\* The daemon and time

Boots ==
    /\ daemon = "booting" /\ daemon' = "ready"
    /\ UNCHANGED <<mounted, branch, late, call>>

\* The child ends before it binds its socket.
BootFails ==
    /\ daemon = "booting" /\ daemon' = "none"
    /\ call' = Exits(call)
    /\ UNCHANGED <<mounted, branch, late>>

\* A forgotten branch loses its files, then its directories.
Removes ==
    /\ \/ branch = "removing" /\ branch' = "emptied"
       \/ branch = "emptied" /\ branch' = "gone"
    /\ UNCHANGED <<daemon, mounted, late, call>>

Busy == {p \in Procs : call[p].pc \in Waiting}

\* Faulty variant: a command is not killed at its timeout.
TickUntimed ==
    /\ Busy # {}
    /\ \A p \in Procs : call[p].pc \notin Quick /\ (At(p, "sleep") => call[p].waited < 1)
    /\ call' = [p \in Procs |->
                  IF p \in Busy THEN [call[p] EXCEPT !.spent = @ + 1, !.waited = @ + 1]
                                ELSE call[p]]
    /\ UNCHANGED <<daemon, mounted, branch, late>>

\* Time passes while every process waits, for as long as one may wait.
Tick ==
    /\ Busy # {}
    /\ \A p \in Procs :
          /\ call[p].pc \notin Quick
          /\ call[p].pc \in Commands => call[p].waited < Timeout
          /\ At(p, "sleep") => call[p].waited < 1
    /\ call' = [p \in Procs |->
                  IF p \in Busy THEN [call[p] EXCEPT !.spent = @ + 1, !.waited = @ + 1]
                                ELSE call[p]]
    /\ UNCHANGED <<daemon, mounted, branch, late>>

\* What a call does by itself, and what may go wrong with it.
Proceed(p) ==
    \/ Started(p) \/ NotYetStarted(p) \/ Probe(p) \/ Wake(p) \/ Perform(p)
    \/ Answered(p) \/ NotFound(p) \/ LookAtOrphan(p) \/ RemoveOrphan(p)
Fails(p) == CommandFails(p) \/ TimesOut(p)

Next ==
    \/ \E p \in Procs : (\E op \in Ops : Begin(p, op)) \/ Proceed(p) \/ Fails(p)
    \/ PerformLate \/ Boots \/ BootFails \/ Removes \/ Tick

Spec == Init /\ [][Next]_vars

\* Processes run, commands time out, the daemon works and time goes on.
FairSpec ==
    /\ Spec
    /\ \A p \in Procs : WF_vars(Proceed(p) \/ TimesOut(p))
    /\ WF_vars(Boots) /\ WF_vars(Removes) /\ WF_vars(Tick)

-----------------------------------------------------------------------------
TypeOK ==
    /\ daemon \in {"none", "booting", "ready"}
    /\ mounted \in BOOLEAN
    /\ branch \in Branches
    /\ late \in Ops \cup {"none"}
    /\ call \in [Procs -> CallState]

\* However a daemon boots, dies and keeps a caller waiting, a call of the driver
\* takes at most two timeouts: one until the daemon answers, which the CLI's own
\* wait counts towards (started_at, branchfs.py), and one for the operation.
CallBounded == \A p \in Procs : call[p].spent <= 2 * Timeout

\* A daemon that has become ready is never reported as unreachable, also not one
\* that bound its socket during the last sleep before the deadline (the final
\* look in _wait_for_daemon_socket).
LateDaemonFound ==
    [][\A p \in Procs : (At(p, "probe") /\ call'[p].pc = "idle")
          => daemon # "ready"]_vars

\* An operation finds the daemon it made sure of, long after the mounts that kept
\* it went away ("re-ensures it first", branchfs.py): unless the daemon has exited
\* during this very call, because another process took its last mount away.
DaemonThere ==
    \A p \in Procs :
       (At(p, "invoked") /\ call[p].op # "unmount")
          => daemon = "ready" \/ call[p].exited

\* An abort that says it is done has left no file of the branch in the store,
\* also when an earlier abort was half done, another one is at work and requests
\* are carried out late; one that finds files is not taken for done.
AbortTruthful ==
    \A p \in Procs : At(p, "aborted") => branch = "gone"

\* Half an abort can be repeated: once nothing fails any more (but for a branch
\* that is not found) and nothing else is asked of the store, an operator who
\* aborts again and again is told that it is done.
AbortRepeats ==
    (/\ \A p \in Procs : SF_vars(Begin(p, "abort"))
     /\ <>[][/\ ~BootFails
             /\ \A p \in Procs : /\ Fails(p) => NotFound(p)
                                 /\ \A op \in Ops \ {"abort"} : ~Begin(p, op)]_vars)
       => []<>(\E p \in Procs : At(p, "aborted"))
=============================================================================
