---------------------- MODULE AgentSessionLedgerProofs ----------------------
(***************************************************************************)
(* One command at a time: theorems about AgentSession for every number of   *)
(* processes, roots and changes, when no command overlaps another one, with *)
(* kills and reboots between any two steps.  Then the record on disk is the *)
(* one its command holds, it follows the table of session.py, a closed      *)
(* record says what has become of the work, and the session implements the  *)
(* ledger of its work.                                                      *)
(***************************************************************************)
EXTENDS AgentSessionProofs

\* At most one command runs.
OneCommand ==
    \A p, q \in Procs : (proc[p].pc # "idle" /\ proc[q].pc # "idle") => p = q

\* The record is what its command's Session object says, unless a supervisor could
\* not save its outcome, and a command is only where its record allows it.
Recorded(p) ==
    /\ proc[p].pc \notin {"idle", "unsaved"} => proc[p].st = disk
    /\ proc[p].pc = "unsaved" => disk \in States \ TerminalStates
    /\ proc[p].pc = "created" => disk = "created"
    /\ proc[p].pc = "create-branch" => disk = "mounting"
    /\ proc[p].pc \in {"mount", "launch"} =>
          disk = IF proc[p].cmd = "run" THEN "mounting" ELSE "running"
    /\ proc[p].pc \in {"resumed", "agent", "finish"} => disk = "running"
    /\ proc[p].pc \in {"freeze", "frozen"} => disk = "finalizing"
    /\ proc[p].pc \in {"decide", "quiesce", "apply", "discard", "close"}
          => disk = "frozen"
    /\ proc[p].pc \in Committing => disk \in {"pending-review", "frozen"}
    /\ proc[p].pc \in {"abort-discard", "abort-close"}
          => disk \in States \ TerminalStates
    /\ proc[p].pc \in {"thaw", "thaw-close"} => disk = "pending-review"

RecordedInv == \A p \in Procs : Recorded(p)

\* A step of the durable record along the table.
Follows ==
    \/ disk' = disk
    \/ disk = "unborn" /\ disk' = "created"
    \/ disk \in CleanupStates /\ disk' = "removed"
    \/ disk \in States /\ disk' \in Successors(disk)

\* A command starts when no other one runs, and stays alone.
LEMMA OneCommandStep ==
    ASSUME Overlapping = {}, TypeOK, PlacedInv, OneCommand, NEW p \in Procs, Acts(p)
    PROVE  /\ \A s \in Procs \ {p} : proc[s] = Idle /\ proc'[s] = Idle
           /\ OneCommand'
<1>1. Alone(p) BY ActsPlaced DEF PlacedInv
<1>2. \A s \in Procs \ {p} : proc[s].pc = "idle"
  <2>1. CASE proc[p].pc = "idle"
    <3>1. Begin(p)
      BY <2>1, Guards DEF Acts, Proceed, PlacedInv, Placed, Kill, At
    <3>2. \E c \in Commands : Start(p, c)
      BY <3>1 DEF Begin, CreateSession, BeginResume, BeginFinish, BeginCommit,
                  BeginAbort, BeginThaw, BeginTouch, Load, Cleanup, Commands
    <3> QED BY <3>2 DEF Start, At
  <2>2. CASE proc[p].pc # "idle"
    BY <2>2 DEF OneCommand
  <2> QED BY <2>1, <2>2
<1> QED BY <1>1, <1>2 DEF Alone, PlacedInv, Placed, OneCommand, Idle

\* The part of the table that the commands use.
LEMMA SuccessorFacts ==
    /\ "mounting" \in Successors("created")
    /\ "running" \in Successors("mounting")
    /\ "finalizing" \in Successors("running")
    /\ "frozen" \in Successors("finalizing")
    /\ {"auto-committed", "pending-review", "committed"} \subseteq Successors("frozen")
    /\ {"committed", "running"} \subseteq Successors("pending-review")
    /\ \A s \in States \ TerminalStates : {"aborted", "failed"} \subseteq Successors(s)
    /\ \A s \in States : "created" \notin Successors(s) /\ "unborn" \notin Successors(s)
    /\ \A s \in States : "mounting" \in Successors(s) => s = "created"
<1>1. /\ Successors("created") = {"mounting", "aborted", "failed"}
      /\ Successors("mounting") = {"running", "aborted", "failed"}
      /\ Successors("running") = {"finalizing", "aborted", "failed"}
      /\ Successors("finalizing") = {"frozen", "aborted", "failed"}
      /\ Successors("frozen") = {"auto-committed", "pending-review",
                                  "committed", "aborted", "failed"}
      /\ Successors("pending-review") = {"committed", "aborted", "running", "failed"}
      /\ \A s \in TerminalStates : Successors(s) = {}
  BY Zenon DEF Successors, TerminalStates
<1> QED BY <1>1 DEF States, TerminalStates

\* _fail() and an exception out of finalize_session close an open record, or
\* leave it.
LEMMA FailFollows ==
    ASSUME TypeOK, NEW p \in Procs, Fail(p) \/ FinalizeFails(p),
           proc[p].st = disk, disk \in States \ TerminalStates
    PROVE  /\ disk' = disk \/ disk' = "failed"
           /\ Follows
           /\ \/ proc'[p] = Idle
              \/ proc'[p].pc = "unwind" /\ proc'[p].st = disk'
              \/ proc'[p].pc = "unsaved" /\ disk' = disk
<1>1. \/ proc'[p] = Idle
      \/ proc'[p].pc = "unwind" /\ proc'[p].st = disk'
      \/ proc'[p].pc = "unsaved" /\ disk' = disk
  BY FailFields, FinalizeFailsFields DEF Failing
<1>2. disk' = disk \/ disk' = "failed" BY FailsTo
<1> QED BY <1>1, <1>2, SuccessorFacts DEF Follows

\* What a command that stops leaves.
LEMMA StopRecorded ==
    ASSUME TypeOK, NEW p \in Procs, Stop(p)
    PROVE  Recorded(p)'
BY StopFields DEF Recorded, Idle, Committing

\* The supervisor's steps take the record along the table, and keep their object
\* as the record is.
LEMMA SupervisorFollows ==
    ASSUME TypeOK, NEW p \in Procs, Placed(p), Recorded(p),
           \/ EnterMounting(p) \/ CreateBranch(p) \/ MountRoot(p) \/ LaunchAgent(p)
           \/ AgentWrites(p) \/ AgentExits(p) \/ FinishSession(p) \/ FreezeRoot(p)
           \/ RecordFrozen(p) \/ DecideSession(p) \/ Quiesce(p) \/ ApplyRoot(p)
           \/ DiscardRoot(p) \/ CloseSession(p) \/ Unwind(p) \/ RecordResume(p)
    PROVE  /\ Follows /\ Recorded(p)'
           /\ disk' \in {disk, "mounting", "running", "finalizing", "frozen", "failed"}
                 \/ CloseSession(p)
<1> DEFINE Good == /\ Follows /\ Recorded(p)'
                   /\ disk' \in {disk, "mounting", "running", "finalizing", "frozen",
                                 "failed"} \/ CloseSession(p)
<1> SUFFICES Good OBVIOUS
<1>f. (/\ Fail(p) \/ FinalizeFails(p)
       /\ proc[p].pc \notin {"idle", "unsaved"} /\ disk \in States \ TerminalStates) => Good
  <2>1. ASSUME Fail(p) \/ FinalizeFails(p), proc[p].pc \notin {"idle", "unsaved"},
               disk \in States \ TerminalStates
        PROVE  Good
    <3>1. proc[p].st = disk BY <2>1 DEF Recorded
    <3>2. /\ disk' = disk \/ disk' = "failed"
          /\ Follows
          /\ \/ proc'[p] = Idle
             \/ proc'[p].pc = "unwind" /\ proc'[p].st = disk'
             \/ proc'[p].pc = "unsaved" /\ disk' = disk
      BY <2>1, <3>1, FailFollows
    <3> QED BY <2>1, <3>2 DEF Recorded, Idle, Committing
  <2> QED BY <2>1
<1>1. CASE EnterMounting(p)
  <2>1. proc[p].pc = "created" /\ disk = "created" BY <1>1, Guards DEF Recorded
  <2>2. CASE Fail(p) BY <1>f, <2>1, <2>2 DEF States, TerminalStates
  <2>3. CASE ~Fail(p)
    <3>1. /\ disk' = "mounting" /\ proc'[p].st = "mounting"
          /\ proc'[p].pc = "create-branch"
      BY <1>1, <2>3, GotoAsFields DEF EnterMounting, Save, Labels, States
    <3> QED BY <2>1, <3>1, SuccessorFacts DEF Recorded, Follows, Committing, States
  <2> QED BY <2>2, <2>3
<1>2. CASE CreateBranch(p)
  <2>1. proc[p].pc = "create-branch" /\ disk = "mounting" /\ proc[p].st = disk
           /\ proc[p].cmd = "run"
    BY <1>2, Guards DEF Recorded, Placed
  <2>2. CASE Fail(p) BY <1>f, <2>1, <2>2 DEF States, TerminalStates
  <2>3. CASE ~Fail(p)
    <3>1. disk' = disk /\ Keeps(p) /\ proc'[p].pc = "mount" /\ proc'[p].st = proc[p].st
      BY <1>2, <2>3, GotoFields DEF CreateBranch, Labels
    <3> QED BY <2>1, <3>1 DEF Recorded, Follows, Committing, Keeps
  <2> QED BY <2>2, <2>3
<1>3. CASE MountRoot(p)
  <2>1. /\ proc[p].pc = "mount" /\ proc[p].st = disk
        /\ proc[p].cmd \in {"run", "resume"}
        /\ disk = IF proc[p].cmd = "run" THEN "mounting" ELSE "running"
    BY <1>3, Guards DEF Recorded, Placed
  <2>2. CASE Fail(p) BY <1>f, <2>1, <2>2 DEF States, TerminalStates
  <2>3. CASE Goto(p, "unwind") /\ ~Fail(p)
    <3>1. proc'[p].pc = "unwind" /\ proc'[p].st = proc[p].st
      BY <2>3, GotoFields DEF Labels
    <3>2. disk' = disk BY <1>3, <2>1, <2>3 DEF MountRoot, Save
    <3> QED BY <2>1, <3>1, <3>2 DEF Recorded, Follows, Committing
  <2>s. CASE Stop(p) /\ ~Fail(p)
    <3>1. disk' = disk BY <1>3, <2>1, <2>s DEF MountRoot, Save
    <3> QED BY <2>s, <3>1, StopRecorded DEF Follows
  <2>4. CASE ~Goto(p, "unwind") /\ ~Fail(p) /\ ~Stop(p)
    <3>1. PICK l \in {"create-branch", "mount"} :
             /\ NextRoot(p, l, "launch")
             /\ (l = "create-branch") <=> (proc[p].cmd = "run")
      BY <1>3, <2>4 DEF MountRoot
    <3>2. /\ proc'[p].pc \in {l, "launch"}
          /\ proc'[p].cmd = proc[p].cmd /\ proc'[p].st = proc[p].st
      BY <3>1, LoopsTo DEF Labels
    <3>3. disk' = disk BY <1>3, <2>1, <2>4 DEF MountRoot, Save
    <3> QED BY <2>1, <3>1, <3>2, <3>3 DEF Recorded, Follows, Committing
  <2> QED BY <2>2, <2>3, <2>s, <2>4
<1>4. CASE LaunchAgent(p)
  <2>1. /\ proc[p].pc = "launch" /\ proc[p].st = disk
        /\ disk \in {"mounting", "running"}
    BY <1>4, Guards DEF Recorded
  <2>2. CASE Fail(p) BY <1>f, <2>1, <2>2 DEF States, TerminalStates
  <2>3. CASE ~Fail(p)
    <3>1. disk' = "running" /\ proc'[p].pc = "agent" /\ proc'[p].st = "running"
      BY <1>4, <2>3, GotoAsFields DEF LaunchAgent, Save, Labels, States
    <3> QED BY <2>1, <3>1, SuccessorFacts DEF Recorded, Follows, Committing, States
  <2> QED BY <2>2, <2>3
<1>5. CASE AgentWrites(p)
  BY <1>5 DEF AgentWrites, Recorded, Follows
<1>6. CASE AgentExits(p) \/ FinishSession(p)
  <2>1. proc[p].pc \in {"agent", "finish"} /\ disk = "running"
    BY <1>6, Guards DEF Recorded
  <2>2. CASE FinalizeFails(p) BY <1>f, <2>1, <2>2 DEF States, TerminalStates
  <2>3. CASE ~FinalizeFails(p)
    <3>1. /\ disk' = "finalizing" /\ proc'[p].pc = "freeze"
          /\ proc'[p].st = "finalizing"
      BY <1>6, <2>3, GotoAsFields
         DEF AgentExits, FinishSession, EnterFinalizing, Save, Labels, States
    <3> QED BY <2>1, <3>1, SuccessorFacts DEF Recorded, Follows, Committing, States
  <2> QED BY <2>2, <2>3
<1>7. CASE FreezeRoot(p)
  <2>1. proc[p].pc = "freeze" /\ proc[p].st = disk /\ disk = "finalizing"
    BY <1>7, Guards DEF Recorded
  <2>2. CASE FinalizeFails(p) BY <1>f, <2>1, <2>2 DEF States, TerminalStates
  <2>3. CASE ~FinalizeFails(p)
    <3>1. disk' = disk /\ proc'[p].pc \in {"freeze", "frozen"} /\ proc'[p].st = proc[p].st
      BY <1>7, <2>3, LoopsTo DEF FreezeRoot, Labels
    <3> QED BY <2>1, <3>1 DEF Recorded, Follows, Committing
  <2> QED BY <2>2, <2>3
<1>8. CASE RecordFrozen(p)
  <2>1. proc[p].pc = "frozen" /\ disk = "finalizing" BY <1>8, Guards DEF Recorded
  <2>2. CASE FinalizeFails(p) BY <1>f, <2>1, <2>2 DEF States, TerminalStates
  <2>3. CASE ~FinalizeFails(p)
    <3>1. disk' = "frozen" /\ proc'[p].pc = "decide" /\ proc'[p].st = "frozen"
      BY <1>8, <2>3, GotoAsFields DEF RecordFrozen, Save, Labels, States
    <3> QED BY <2>1, <3>1, SuccessorFacts DEF Recorded, Follows, Committing, States
  <2> QED BY <2>2, <2>3
<1>9. CASE DecideSession(p)
  <2>1. proc[p].pc = "decide" /\ proc[p].st = disk /\ disk = "frozen"
    BY <1>9, Guards DEF Recorded
  <2>2. CASE FinalizeFails(p) BY <1>f, <2>1, <2>2 DEF States, TerminalStates
  <2>3. CASE ~FinalizeFails(p)
    <3>1. ASSUME NEW d, proc' = [proc EXCEPT ![p].pc = "quiesce",
                                    ![p].seen = Reviewable, ![p].dec = d]
          PROVE  proc'[p].pc = "quiesce" /\ proc'[p].st = proc[p].st
      BY <3>1, ProcFields DEF TypeOK, ProcState
    <3>2. disk' = disk /\ proc'[p].pc = "quiesce" /\ proc'[p].st = proc[p].st
      BY <1>9, <2>3, <3>1 DEF DecideSession
    <3> QED BY <2>1, <3>2 DEF Recorded, Follows, Committing
  <2> QED BY <2>2, <2>3
<1>10. CASE Quiesce(p)
  <2>1. proc[p].st = disk /\ disk = "frozen" BY <1>10, Guards DEF Recorded
  <2>2. PICK l \in {"apply", "close", "discard"} : Goto(p, l)
    BY <1>10, DecisionFacts
  <2>3. disk' = disk /\ proc'[p].pc = l /\ proc'[p].st = proc[p].st
    BY <1>10, <2>2, GotoFields DEF Quiesce, Labels
  <2> QED BY <2>1, <2>3 DEF Recorded, Follows, Committing
<1>11. CASE ApplyRoot(p)
  <2>1. proc[p].pc = "apply" /\ proc[p].st = disk /\ disk = "frozen"
    BY <1>11, Guards DEF Recorded
  <2>2. CASE Fail(p) BY <1>f, <2>1, <2>2 DEF States, TerminalStates
  <2>3. CASE ~Fail(p)
    <3>1. disk' = disk /\ proc'[p].pc = "discard" /\ proc'[p].st = proc[p].st
      BY <1>11, <2>3, GotoFields DEF ApplyRoot, Labels
    <3> QED BY <2>1, <3>1 DEF Recorded, Follows, Committing
  <2> QED BY <2>2, <2>3
<1>12. CASE DiscardRoot(p)
  <2>1. proc[p].pc = "discard" /\ proc[p].st = disk /\ disk = "frozen"
    BY <1>12, Guards DEF Recorded
  <2>2. CASE Fail(p) \/ FinalizeFails(p)
    BY <1>f, <2>1, <2>2 DEF States, TerminalStates
  <2>3. CASE ~(Fail(p) \/ FinalizeFails(p))
    <3>1. PICK l \in {"apply", "discard"} : NextRoot(p, l, "close")
      BY <1>12, <2>3 DEF DiscardRoot
    <3>2. proc'[p].pc \in {l, "close"} /\ proc'[p].st = proc[p].st
      BY <3>1, LoopsTo DEF Labels
    <3>3. disk' = disk BY <1>12, <2>3 DEF DiscardRoot
    <3> QED BY <2>1, <3>2, <3>3 DEF Recorded, Follows, Committing
  <2> QED BY <2>2, <2>3
<1>13. CASE CloseSession(p)
  <2> DEFINE closed == ClosedState(proc[p].dec)
  <2>1. proc[p].pc = "close" /\ disk = "frozen" BY <1>13, Guards DEF Recorded
  <2>2. closed \in {"auto-committed", "aborted", "pending-review"}
    BY DEF ClosedState
  <2>3. CASE FinalizeFails(p) BY <1>f, <2>1, <2>3 DEF States, TerminalStates
  <2>4. CASE ~FinalizeFails(p)
    <3>1. \/ disk' = closed /\ (Stop(p) \/ GotoAs(p, "unwind", closed))
          \/ disk' = disk /\ (Stop(p) \/ GotoAs(p, "unsaved", closed))
      BY <1>13, <2>4 DEF CloseSession, Save
    <3>2. ASSUME NEW l \in {"unwind", "unsaved"}, GotoAs(p, l, closed)
          PROVE  proc'[p].pc = l /\ proc'[p].st = closed
      BY <2>2, <3>2, GotoAsFields DEF Labels, States
    <3> HIDE DEF closed
    <3>3. Follows
      BY <2>1, <2>2, <3>1, SuccessorFacts DEF Follows, States, TerminalStates
    <3>4. Recorded(p)'
      <4>1. CASE Stop(p) BY <4>1, StopRecorded
      <4>2. CASE ~Stop(p)
        BY <2>1, <3>1, <3>2, <4>2 DEF Recorded, Committing, States, TerminalStates
      <4> QED BY <4>1, <4>2
    <3> QED BY <1>13, <3>3, <3>4
  <2> QED BY <2>3, <2>4
<1>14. CASE Unwind(p)
  BY <1>14, StopRecorded DEF Unwind, Follows
<1>15. CASE RecordResume(p)
  <2>1. proc[p].st = disk /\ disk = "running" /\ proc[p].cmd = "resume"
    BY <1>15, Guards DEF Recorded, Placed
  <2>2. disk' = disk BY <1>15, <2>1 DEF RecordResume, Save
  <2>3. CASE Stop(p) BY <2>2, <2>3, StopRecorded DEF Follows
  <2>4. CASE Goto(p, "mount")
    <3>1. Keeps(p) /\ proc'[p].pc = "mount" /\ proc'[p].st = proc[p].st
      BY <2>4, GotoFields DEF Labels
    <3> QED BY <2>1, <2>2, <3>1 DEF Recorded, Follows, Committing, Keeps
  <2> QED BY <1>15, <2>3, <2>4 DEF RecordResume
<1> QED BY <1>1, <1>2, <1>3, <1>4, <1>5, <1>6, <1>7, <1>8, <1>9, <1>10, <1>11,
           <1>12, <1>13, <1>14, <1>15

\* So do the operator's: a command that begins finds a record that allows what it
\* does to it at its end.
LEMMA OperatorFollows ==
    ASSUME TypeOK, NEW p \in Procs, Placed(p), Recorded(p),
           \/ Begin(p) \/ CommitStatus(p) \/ CommitApply(p) \/ CommitDiscard(p)
           \/ CommitClose(p) \/ AbortDiscard(p) \/ AbortClose(p) \/ ThawRoot(p)
           \/ ThawClose(p) \/ Touch(p) \/ Kill(p)
    PROVE  /\ Follows /\ Recorded(p)'
           /\ disk' \in {disk, "created", "removed", "committed", "running"}
                 \/ AbortClose(p)
<1> DEFINE Good == /\ Follows /\ Recorded(p)'
                   /\ disk' \in {disk, "created", "removed", "committed", "running"}
                         \/ AbortClose(p)
<1> SUFFICES Good OBVIOUS
<1>s. Stop(p) => Recorded(p)'
  BY StopRecorded
<1>n. \A l, m \in Labels : NextRoot(p, l, m)
         => proc'[p].pc \in {l, m} /\ proc'[p].st = proc[p].st
  <2>1. ASSUME NEW l \in Labels, NEW m \in Labels, NextRoot(p, l, m)
        PROVE  proc'[p].pc \in {l, m} /\ proc'[p].st = proc[p].st
    BY <2>1, NextRootFields
  <2> QED BY <2>1
<1>1. CASE CreateSession(p)
  BY <1>1, CreateFields DEF Recorded, Follows, Committing
<1>2. CASE Cleanup(p)
  <2>1. disk \in CleanupStates /\ disk' = "removed" /\ proc' = proc /\ proc[p].pc = "idle"
    BY <1>2 DEF Cleanup, Save, Start, At
  <2> QED BY <2>1 DEF Recorded, Follows, Committing
<1>3. CASE Begin(p) /\ ~CreateSession(p) /\ ~Cleanup(p)
  <2>1. disk' = disk /\ proc'[p].st = disk
    BY <1>3, BeginFacts
  <2>2. \/ proc'[p].pc \in {"resumed", "finish"} /\ disk = "running"
        \/ proc'[p].pc = "commit-status" /\ disk \in {"pending-review", "frozen"}
        \/ proc'[p].pc = "abort-discard" /\ disk \in States \ TerminalStates
        \/ proc'[p].pc = "thaw" /\ disk = "pending-review"
        \/ proc'[p].pc = "touch"
    BY <1>3, BeginFacts
  <2> QED BY <2>1, <2>2 DEF Recorded, Follows, Committing
<1>4. CASE CommitStatus(p)
  <2>1. disk' = disk /\ proc[p].st = disk /\ disk \in {"pending-review", "frozen"}
    BY <1>4, Guards DEF CommitStatus, Recorded, Committing
  <2>2. ASSUME NEW S, proc' = [proc EXCEPT ![p].pc = "commit-apply", ![p].seen = S]
        PROVE  proc'[p].pc = "commit-apply" /\ proc'[p].st = proc[p].st
    BY <2>2, ProcFields DEF TypeOK, ProcState
  <2>3. Stop(p) \/ (proc'[p].pc = "commit-apply" /\ proc'[p].st = proc[p].st)
    BY <1>4, <2>2 DEF CommitStatus
  <2> QED BY <1>s, <2>1, <2>3 DEF Recorded, Follows, Committing
<1>5. CASE CommitApply(p)
  <2>1. proc[p].st = disk /\ disk \in {"pending-review", "frozen"}
    BY <1>5, Guards DEF Recorded, Committing
  <2>2. disk' = disk
    BY <1>5, <2>1 DEF CommitApply, Save
  <2>3. \/ Stop(p)
        \/ /\ proc'[p].pc \in {"commit-apply", "commit-discard"}
           /\ proc'[p].st = proc[p].st
    <3>1. Stop(p) \/ Goto(p, "commit-discard")
             \/ NextRoot(p, "commit-apply", "commit-discard")
      BY <1>5 DEF CommitApply
    <3> QED BY <3>1, <1>n, GotoFields DEF Labels
  <2> QED BY <1>s, <2>1, <2>2, <2>3 DEF Recorded, Follows, Committing
<1>6. CASE CommitDiscard(p)
  <2>1. proc[p].st = disk /\ disk \in {"pending-review", "frozen"}
    BY <1>6, Guards DEF Recorded, Committing
  <2>2. disk' = disk
    BY <1>6, <2>1 DEF CommitDiscard, Discarded, NotDiscarded, Save
  <2>3. /\ proc'[p].pc \in {"commit-discard", "commit-close"}
        /\ proc'[p].st = proc[p].st
    BY <1>6, <1>n DEF CommitDiscard, Labels
  <2> QED BY <2>1, <2>2, <2>3 DEF Recorded, Follows, Committing
<1>7. CASE CommitClose(p)
  <2>1. disk \in {"pending-review", "frozen"} /\ disk' = "committed" /\ Stop(p)
    BY <1>7, Guards DEF CommitClose, Save, Recorded, Committing
  <2> QED BY <1>s, <2>1, SuccessorFacts DEF Follows, States
<1>8. CASE AbortDiscard(p)
  <2>1. proc[p].st = disk /\ disk \in States \ TerminalStates
    BY <1>8, Guards DEF Recorded
  <2>2. disk' = disk
    BY <1>8, <2>1 DEF AbortDiscard, Discarded, NotDiscarded, Save
  <2>3. \/ Stop(p)
        \/ /\ proc'[p].pc \in {"abort-discard", "abort-close"}
           /\ proc'[p].st = proc[p].st
    BY <1>8, <1>n DEF AbortDiscard, Labels
  <2> QED BY <1>s, <2>1, <2>2, <2>3 DEF Recorded, Follows, Committing
<1>9. CASE AbortClose(p)
  <2>1. disk \in States \ TerminalStates /\ disk' = "aborted" /\ Stop(p)
    BY <1>9, Guards DEF AbortClose, Save, Recorded
  <2> QED BY <1>9, <1>s, <2>1, SuccessorFacts DEF Follows
<1>10. CASE ThawRoot(p)
  <2>1. disk' = disk /\ proc[p].st = disk /\ disk = "pending-review"
    BY <1>10, Guards DEF ThawRoot, Recorded
  <2>2. \/ Stop(p)
        \/ proc'[p].pc \in {"thaw", "thaw-close"} /\ proc'[p].st = proc[p].st
    BY <1>10, <1>n DEF ThawRoot, Labels
  <2> QED BY <1>s, <2>1, <2>2 DEF Recorded, Follows, Committing
<1>11. CASE ThawClose(p)
  <2>1. disk = "pending-review" /\ disk' = "running" /\ Stop(p)
    BY <1>11, Guards DEF ThawClose, Save, Recorded
  <2> QED BY <1>s, <2>1, SuccessorFacts DEF Follows, States
<1>12. CASE Touch(p)
  <2>1. disk' = disk /\ Stop(p)
    BY <1>12, Guards DEF Touch, Save, Recorded
  <2> QED BY <1>s, <2>1 DEF Follows
<1>13. CASE Kill(p)
  BY <1>s, <1>13 DEF Kill, Follows
<1> QED BY <1>1, <1>2, <1>3, <1>4, <1>5, <1>6, <1>7, <1>8, <1>9, <1>10, <1>11,
           <1>12, <1>13

\* What the theorems about one command at a time start from.
SerialInv == TypeOK /\ PlacedInv /\ OneCommand /\ RecordedInv

\* A step takes the record along the table, and only two of them close it with a
\* promise about the work.
LEMMA SerialStep ==
    ASSUME Overlapping = {}, SerialInv, NEW p \in Procs, Acts(p)
    PROVE  /\ SerialInv' /\ Follows
           /\ \/ disk' \in {disk, "created", "removed", "mounting", "running",
                            "finalizing", "frozen", "failed", "committed"}
              \/ CloseSession(p) \/ AbortClose(p)
<1> USE DEF SerialInv
<1>1. Placed(p) /\ Recorded(p) BY DEF PlacedInv, RecordedInv
<1>2. /\ Follows /\ Recorded(p)'
      /\ \/ disk' \in {disk, "created", "removed", "mounting", "running",
                       "finalizing", "frozen", "failed", "committed"}
         \/ CloseSession(p) \/ AbortClose(p)
  BY <1>1, SupervisorFollows, OperatorFollows DEF Acts, Proceed
<1>3. /\ \A s \in Procs \ {p} : proc[s] = Idle /\ proc'[s] = Idle
      /\ OneCommand'
  BY OneCommandStep
<1>4. RecordedInv'
  BY <1>2, <1>3 DEF RecordedInv, Recorded, Idle, Committing
<1>5. TypeOK' BY TypeStep DEF Acts, Next
<1>6. PlacedInv'
  <2>1. Placed(p)' BY <1>1, ActsPlaced
  <2> QED BY <1>3, <2>1 DEF PlacedInv, Placed, Booting, Idle, Finalizing, Committing
<1> QED BY <1>2, <1>3, <1>4, <1>5, <1>6

\* So do a reboot and standing still.
LEMMA SerialQuiet ==
    ASSUME SerialInv, Reboot \/ UNCHANGED vars
    PROVE  SerialInv' /\ disk' = disk
<1> USE DEF SerialInv
<1>1. TypeOK' BY TypeStep DEF Next
<1>2. CASE Reboot
  <2>1. (\A p \in Procs : proc'[p] = Idle) /\ disk' = disk
    BY <1>2 DEF Reboot
  <2> QED BY <1>1, <2>1 DEF PlacedInv, Placed, Booting, OneCommand, RecordedInv, Recorded,
                            Idle, Finalizing, Committing
<1>3. CASE UNCHANGED vars
  BY <1>1, <1>3 DEF vars, PlacedInv, Placed, Booting, OneCommand, RecordedInv, Recorded
<1> QED BY <1>2, <1>3

\* A new session's processes are idle.
LEMMA SerialInit == Init => SerialInv
BY TypeInit DEF Init, SerialInv, PlacedInv, Placed, Booting, OneCommand, RecordedInv,
                Recorded, Idle, Finalizing, Committing

\* With one command at a time the durable record moves along the transition table
\* of session.py, whatever fails and is killed: each command loads what the last
\* one left, and checks it before it saves.
THEOREM TableFollowed ==
    ASSUME Overlapping = {}
    PROVE  Spec => RecordFollowsTable
<1>1. Init => SerialInv BY SerialInit
<1>2. SerialInv /\ [Next]_vars
         => SerialInv' /\ [Follows]_vars
  <2> SUFFICES ASSUME SerialInv, [Next]_vars PROVE SerialInv' /\ Follows
    OBVIOUS
  <2>1. CASE Reboot \/ UNCHANGED vars
    BY <2>1, SerialQuiet DEF Follows
  <2>2. ASSUME NEW p \in Procs, Acts(p) PROVE SerialInv' /\ Follows
    BY <2>2, SerialStep
  <2> QED BY <2>1, <2>2 DEF Next, Acts
<1>3. SerialInv /\ [Next]_vars
         => [\/ disk' = disk
             \/ disk = "unborn" /\ disk' = "created"
             \/ disk \in CleanupStates /\ disk' = "removed"
             \/ disk \in States /\ disk' \in Successors(disk)]_vars
  BY <1>2 DEF Follows
<1>4. SerialInv /\ [Next]_vars => SerialInv' BY <1>2
<1> QED BY <1>1, <1>3, <1>4, PTL DEF Spec, RecordFollowsTable

-----------------------------------------------------------------------------
\* A supervisor on its way out holds the record it leaves.
Leaving(p) ==
    proc[p].pc = "unwind" =>
       \/ proc[p].st \in TerminalStates \cup {"pending-review"}
       \/ proc[p].cmd = "resume" /\ proc[p].st = "running"

LeavingInv == \A p \in Procs : Leaving(p)

\* The ways out: a failure, the end of finalize_session, a resume that cannot
\* mount.
LEMMA LeavingStep ==
    ASSUME Overlapping = {}, SerialInv, LeavingInv, NEW p \in Procs, Acts(p)
    PROVE  LeavingInv'
<1> USE DEF SerialInv
<1>1. \A s \in Procs \ {p} : Leaving(s)'
  BY OneCommandStep DEF Leaving, Idle
<1>2. Leaving(p)'
  <2> SUFFICES ASSUME proc'[p].pc = "unwind" PROVE Leaving(p)'
    BY DEF Leaving
  <2>0. Placed(p) /\ Recorded(p) BY DEF PlacedInv, RecordedInv
  <2>n. \A l, m \in Labels : NextRoot(p, l, m) => proc'[p].pc \in {l, m}
    <3>1. ASSUME NEW l \in Labels, NEW m \in Labels, NextRoot(p, l, m)
          PROVE  proc'[p].pc \in {l, m}
      BY <3>1, NextRootFields
    <3> QED BY <3>1
  <2>g. \A l \in Labels : Goto(p, l) => proc'[p].pc = l BY GotoFields
  <2>a. \A l \in Labels, s \in States : GotoAs(p, l, s) => proc'[p].pc = l
    BY GotoAsFields
  <2>s. ~Stop(p) BY StopFields DEF Idle
  <2> USE DEF Labels, States
  <2>f. Fail(p) \/ FinalizeFails(p) => Leaving(p)'
    BY FailsTo DEF Leaving, TerminalStates, Idle
  <2>1. CASE CloseSession(p)
    <3>1. ClosedState(proc[p].dec) \in {"auto-committed", "aborted", "pending-review"}
      BY DEF ClosedState
    <3>2. CASE FinalizeFails(p) BY <2>f, <3>2
    <3>3. CASE ~FinalizeFails(p)
      <4>1. proc'[p].st = ClosedState(proc[p].dec)
        BY <2>1, <2>s, <3>1, <3>3, GotoAsFields DEF CloseSession
      <4> QED BY <3>1, <4>1 DEF Leaving, TerminalStates
    <3> QED BY <3>2, <3>3
  <2>2. CASE MountRoot(p)
    <3>1. NextRoot(p, IF proc[p].cmd = "run" THEN "create-branch"
                                             ELSE "mount", "launch")
            => proc'[p].pc \in {"create-branch", "mount", "launch"}
      BY <2>n
    <3>2. Fail(p) \/ (proc[p].cmd = "resume" /\ Goto(p, "unwind"))
      BY <2>2, <2>s, <3>1 DEF MountRoot
    <3>3. proc[p].cmd = "resume" => proc[p].st = "running"
      BY <2>0, <2>2, Guards DEF Recorded
    <3> QED BY <2>f, <3>2, <3>3, GotoFields DEF Leaving, Keeps
  <2>3. CASE ~CloseSession(p) /\ ~MountRoot(p) /\ Proceed(p)
    <3>1. CASE \/ EnterMounting(p) \/ CreateBranch(p) \/ LaunchAgent(p)
               \/ FinishSession(p) \/ RecordFrozen(p) \/ RecordResume(p)
      BY <2>f, <2>g, <2>a, <2>s, <3>1
         DEF EnterMounting, CreateBranch, LaunchAgent, FinishSession, EnterFinalizing,
             RecordFrozen, RecordResume
    <3>2. CASE FreezeRoot(p) \/ ApplyRoot(p)
      BY <2>f, <2>n, <2>g, <3>2 DEF FreezeRoot, ApplyRoot
    <3>3. CASE DecideSession(p)
      <4>1. ASSUME NEW d, proc' = [proc EXCEPT ![p].pc = "quiesce",
                                      ![p].seen = Reviewable, ![p].dec = d]
            PROVE  proc'[p].pc = "quiesce"
        BY <4>1, ProcFields DEF TypeOK, ProcState
      <4> QED BY <2>f, <3>3, <4>1 DEF DecideSession
    <3>4. CASE Quiesce(p)
      <4>1. PICK l \in {"apply", "close", "discard"} : Goto(p, l)
        BY <3>4, DecisionFacts
      <4> QED BY <2>g, <4>1
    <3>5. CASE DiscardRoot(p)
      <4>1. CASE Fail(p) \/ FinalizeFails(p) BY <2>f, <4>1
      <4>2. CASE ~(Fail(p) \/ FinalizeFails(p))
        <5>1. PICK l \in {"apply", "discard"} : NextRoot(p, l, "close")
          BY <3>5, <4>2 DEF DiscardRoot
        <5> QED BY <2>n, <5>1
      <4> QED BY <4>1, <4>2
    <3>6. CASE CommitStatus(p)
      <4>1. ASSUME NEW S, proc' = [proc EXCEPT ![p].pc = "commit-apply", ![p].seen = S]
            PROVE  proc'[p].pc = "commit-apply"
        BY <4>1, ProcFields DEF TypeOK, ProcState
      <4> QED BY <2>s, <3>6, <4>1 DEF CommitStatus
    <3>7. CASE CommitApply(p) \/ CommitDiscard(p) \/ AbortDiscard(p) \/ ThawRoot(p)
      BY <2>s, <2>n, <2>g, <3>7 DEF CommitApply, CommitDiscard, AbortDiscard, ThawRoot
    <3>8. CASE \/ Unwind(p) \/ CommitClose(p) \/ AbortClose(p) \/ ThawClose(p)
               \/ Touch(p)
      BY <2>s, <3>8 DEF Unwind, CommitClose, AbortClose, ThawClose, Touch
    <3> QED BY <2>3, <3>1, <3>2, <3>3, <3>4, <3>5, <3>6, <3>7, <3>8 DEF Proceed
  <2>4. ~Kill(p) /\ ~AgentWrites(p)
    <3>1. AgentWrites(p) => proc'[p].pc = "agent"
      BY DEF AgentWrites, At
    <3> QED BY <2>s, <2>a, <3>1 DEF Kill
  <2>5. ~Begin(p)
    <3>1. ~CreateSession(p) BY CreateFields
    <3>2. Cleanup(p) => proc'[p].pc = "idle" BY DEF Cleanup, Start, At
    <3> QED BY <3>1, <3>2, BeginFacts
  <2>6. CASE AgentExits(p)
    BY <2>f, <2>a, <2>6 DEF AgentExits, EnterFinalizing
  <2> QED BY <2>1, <2>2, <2>3, <2>4, <2>5, <2>6 DEF Acts
<1> QED BY <1>1, <1>2 DEF LeavingInv

\* A supervisor ends by its last unmount, and leaves what it holds; or what it
\* could not replace, which ends a launch at once.
LEMMA LeavesStep ==
    ASSUME SerialInv, LeavingInv, NEW p \in Procs, Proceed(p),
           proc[p].cmd \in {"run", "resume"}, proc'[p].pc = "idle"
    PROVE  \/ disk' \in TerminalStates \cup {"pending-review"}
           \/ proc[p].cmd = "resume" /\ proc[p].st = "running"
           \/ /\ proc[p].pc \in Launching \cup {"unsaved"}
              /\ disk' \in States \ TerminalStates
<1> USE DEF SerialInv
<1>0. Placed(p) /\ Recorded(p) /\ Leaving(p)
  BY DEF PlacedInv, RecordedInv, LeavingInv
<1>1. CASE Unwind(p)
  <2>1. proc[p].pc \in {"unwind", "unsaved"} /\ disk' = disk
    BY <1>1, Guards DEF Unwind
  <2> QED BY <1>0, <2>1 DEF Leaving, Recorded
<1>2. CASE ~Unwind(p) /\ proc[p].pc \in Launching \cup {"resumed"}
  <2>1. disk \in {"created", "mounting", "running"} /\ proc[p].st = disk
    BY <1>0, <1>2 DEF Recorded, Launching
  <2>2. disk' \in {disk, "mounting", "running", "finalizing", "frozen", "failed"}
    <3>1. \/ EnterMounting(p) \/ CreateBranch(p) \/ MountRoot(p) \/ LaunchAgent(p)
          \/ RecordResume(p)
      BY <1>2, Guards DEF Proceed, Launching
    <3> QED BY <1>0, <1>2, <3>1, SupervisorFollows, Guards DEF Launching
  <2>3. proc[p].pc = "resumed" => proc[p].cmd = "resume" /\ proc[p].st = "running"
    BY <1>0 DEF Placed, Recorded
  <2> QED BY <1>2, <2>1, <2>2, <2>3 DEF States, TerminalStates
<1>3. CASE ~Unwind(p) /\ proc[p].pc \notin Launching \cup {"resumed"}
  <2>1. CASE \/ CommitStatus(p) \/ CommitApply(p) \/ CommitDiscard(p) \/ CommitClose(p)
             \/ AbortDiscard(p) \/ AbortClose(p) \/ ThawRoot(p) \/ ThawClose(p)
             \/ Touch(p)
    BY <1>0, <2>1, Guards DEF Placed, Committing
  <2>2. CASE \/ FinishSession(p) \/ FreezeRoot(p) \/ RecordFrozen(p) \/ DecideSession(p)
             \/ Quiesce(p) \/ ApplyRoot(p) \/ DiscardRoot(p) \/ CloseSession(p)
    <3>n. \A l, m \in Labels : NextRoot(p, l, m) => proc'[p].pc \in {l, m}
      <4>1. ASSUME NEW l \in Labels, NEW m \in Labels, NextRoot(p, l, m)
            PROVE  proc'[p].pc \in {l, m}
        BY <4>1, NextRootFields
      <4> QED BY <4>1
    <3>g. \A l \in Labels : Goto(p, l) => proc'[p].pc = l BY GotoFields
    <3>a. \A l \in Labels, s \in States : GotoAs(p, l, s) => proc'[p].pc = l
      BY GotoAsFields
    <3> USE DEF Labels, States
    <3>f. ~Fail(p) /\ ~FinalizeFails(p)
      BY <1>3, FailFields, FinalizeFailsFields DEF Failing
    <3>1. ~(\/ FinishSession(p) \/ RecordFrozen(p) \/ FreezeRoot(p) \/ ApplyRoot(p))
      BY <3>f, <3>n, <3>g, <3>a
         DEF FinishSession, EnterFinalizing, RecordFrozen, FreezeRoot, ApplyRoot
    <3>3. ~DecideSession(p)
      <4>1. ASSUME NEW d, proc' = [proc EXCEPT ![p].pc = "quiesce",
                                      ![p].seen = Reviewable, ![p].dec = d]
            PROVE  proc'[p].pc = "quiesce"
        BY <4>1, ProcFields DEF TypeOK, ProcState
      <4> QED BY <3>f, <4>1 DEF DecideSession
    <3>4. ~Quiesce(p)
      <4>1. ASSUME Quiesce(p) PROVE FALSE
        <5>1. PICK l \in {"apply", "close", "discard"} : Goto(p, l)
          BY <4>1, DecisionFacts
        <5> QED BY <3>g, <5>1
      <4> QED BY <4>1
    <3>5. ~DiscardRoot(p)
      <4>1. ASSUME DiscardRoot(p) PROVE FALSE
        <5>1. PICK l \in {"apply", "discard"} : NextRoot(p, l, "close")
          BY <3>f, <4>1 DEF DiscardRoot
        <5> QED BY <3>n, <5>1
      <4> QED BY <4>1
    <3>6. ~CloseSession(p)
      <4>1. ClosedState(proc[p].dec) \in States BY DEF ClosedState
      <4> QED BY <3>a, <3>f, <4>1 DEF CloseSession
    <3> QED BY <2>2, <3>1, <3>3, <3>4, <3>5, <3>6
  <2>3. CASE \/ EnterMounting(p) \/ CreateBranch(p) \/ MountRoot(p) \/ LaunchAgent(p)
             \/ RecordResume(p)
    BY <1>3, <2>3, Guards DEF Launching
  <2> QED BY <1>3, <2>1, <2>2, <2>3 DEF Proceed
<1> QED BY <1>1, <1>2, <1>3

\* With one command at a time a supervisor that comes to its end leaves a record
\* that is terminal or pending-review, or, when a resume cannot mount, the one it
\* found, or, when it could not save its outcome, one that is still open: the half
\* of SupervisorSettles that is not liveness.
THEOREM SettledLeft ==
    ASSUME Overlapping = {}
    PROVE  Spec => LeavesSettled
<1> DEFINE IInv == SerialInv /\ LeavingInv
           Leaves == \A p \in Procs :
                        (/\ Proceed(p)
                         /\ proc[p].cmd \in {"run", "resume"}
                         /\ proc'[p].pc = "idle")
                           => \/ disk' \in TerminalStates \cup {"pending-review"}
                              \/ proc[p].cmd = "resume" /\ proc[p].st = "running"
                              \/ /\ proc[p].pc \in Launching \cup {"unsaved"}
                                 /\ disk' \in States \ TerminalStates
<1>1. Init => IInv
  BY SerialInit DEF Init, LeavingInv, Leaving, Idle
<1>2. IInv /\ [Next]_vars => IInv'
  <2> SUFFICES ASSUME IInv, [Next]_vars PROVE IInv' OBVIOUS
  <2>1. CASE Reboot
    <3>1. \A p \in Procs : proc'[p] = Idle BY <2>1 DEF Reboot
    <3> QED BY <2>1, <3>1, SerialQuiet DEF LeavingInv, Leaving, Idle
  <2>2. CASE UNCHANGED vars
    BY <2>2, SerialQuiet DEF vars, LeavingInv, Leaving
  <2>3. ASSUME NEW p \in Procs, Acts(p) PROVE IInv'
    BY <2>3, SerialStep, LeavingStep
  <2> QED BY <2>1, <2>2, <2>3 DEF Next, Acts
<1>3. IInv /\ [Next]_vars => [Leaves]_vars
  BY LeavesStep
<1> QED BY <1>1, <1>2, <1>3, PTL DEF Spec, LeavesSettled

-----------------------------------------------------------------------------
(***************************************************************************)
(* A closed record says what has become of the work.  finalize_session and  *)
(* abort go through the roots one by one, so the invariant says of a command *)
(* in the middle of them which branches it has left behind, and that what    *)
(* was in those is where the decision sends it.                              *)
(***************************************************************************)
Closing(p) ==
    /\ proc[p].pc \in {"frozen", "decide", "quiesce"} => proc[p].at = 1
    /\ proc[p].pc = "quiesce" => \A r \in Roots : Live(r)
    /\ proc[p].pc \in {"quiesce", "apply", "discard", "close"} =>
          /\ proc[p].dec \in Decisions
          /\ proc[p].dec = "no-changes" => delta \subseteq Ignored
          /\ proc[p].dec = "auto-commit" => delta \ Ignored \subseteq proc[p].seen
    /\ proc[p].pc \in {"apply", "discard"} =>
          /\ \A r \in Roots : Live(r) <=> r >= proc[p].at
          /\ proc[p].dec = "auto-commit" =>
                \A c \in delta \ Ignored : RootOf[c] < proc[p].at => c \in base
    /\ (proc[p].pc = "discard" /\ proc[p].dec = "auto-commit") =>
          \A c \in delta \ Ignored : RootOf[c] = proc[p].at => c \in base
    /\ proc[p].pc = "close" =>
          /\ proc[p].dec = "auto-commit" => delta \ Ignored \subseteq base
          /\ proc[p].dec # "pending-review" => \A r \in Roots : ~Live(r)
    /\ proc[p].pc = "abort-discard" => \A r \in Roots : r < proc[p].at => ~Live(r)
    /\ proc[p].pc = "abort-close" => \A r \in Roots : ~Live(r)

ClosingInv == \A p \in Procs : Closing(p)

\* Anywhere else there is nothing to say.
ClosingPlaces == Finalizing \cup {"abort-discard", "abort-close"}

\* A process elsewhere satisfies its part of the invariant.
LEMMA ElsewhereClosing ==
    ASSUME NEW p \in Procs
    PROVE  /\ proc[p].pc \notin ClosingPlaces => Closing(p)
           /\ proc'[p].pc \notin ClosingPlaces => Closing(p)'
BY DEF Closing, ClosingPlaces, Finalizing

\* What the discard of the current root does to the branches.
LEMMA AbortedRoot ==
    ASSUME TypeOK, NEW p \in Procs, Abort(MyRoot(p))
    PROVE  \A r \in Roots : Live(r)' <=> (Live(r) /\ r # proc[p].at)
BY ProcFields DEF TypeOK, Abort, MyRoot, Live

\* Where a root lies with respect to the one a loop is at.
LEMMA RootOrder ==
    ASSUME TypeOK, NEW p \in Procs
    PROVE  /\ proc[p].at \in 1 .. NRoots /\ NRoots \in Nat
           /\ \A r \in Roots : r < proc[p].at + 1 <=> r < proc[p].at \/ r = proc[p].at
           /\ \A r \in Roots : r >= 1
           /\ \A r \in Roots : r >= proc[p].at <=> ~(r < proc[p].at)
           /\ proc[p].at = NRoots => \A r \in Roots : r < proc[p].at \/ r = proc[p].at
           /\ \A r \in Roots : r < proc[p].at => r # proc[p].at
           /\ \A c \in delta : RootOf[c] \in Roots
BY ProcFields, SessionAssumption DEF Roots, TypeOK

\* A session that closes itself goes through its roots one by one.
LEMMA FinalizeClosing ==
    ASSUME Dangling \subseteq Ignored, TypeOK, NEW p \in Procs, Closing(p),
           \/ FreezeRoot(p) \/ RecordFrozen(p) \/ DecideSession(p) \/ Quiesce(p)
           \/ ApplyRoot(p) \/ DiscardRoot(p)
    PROVE  Closing(p)'
<1>f. Fail(p) \/ FinalizeFails(p) => Closing(p)'
  <2>1. Fail(p) \/ FinalizeFails(p) => proc'[p].pc \notin ClosingPlaces
    BY FailsTo DEF ClosingPlaces, Finalizing, Idle
  <2> QED BY <2>1, ElsewhereClosing
<1>1. CASE FreezeRoot(p)
  <2>1. CASE FinalizeFails(p) BY <1>f, <2>1
  <2>2. CASE ~FinalizeFails(p)
    <3>1. NextRoot(p, "freeze", "frozen") BY <1>1, <2>2 DEF FreezeRoot
    <3>2. \/ proc'[p].pc = "freeze"
          \/ proc'[p].pc = "frozen" /\ proc'[p].at = 1
      BY <3>1, NextRootFields DEF Labels
    <3> QED BY <3>2 DEF Closing
  <2> QED BY <2>1, <2>2
<1>2. CASE RecordFrozen(p)
  <2>1. CASE FinalizeFails(p) BY <1>f, <2>1
  <2>2. CASE ~FinalizeFails(p)
    <3>1. /\ proc[p].pc = "frozen"
          /\ proc'[p].pc = "decide" /\ proc'[p].at = proc[p].at
      BY <1>2, <2>2, Guards, GotoAsFields DEF RecordFrozen, Labels, States
    <3> QED BY <3>1 DEF Closing
  <2> QED BY <2>1, <2>2
<1>3. CASE DecideSession(p)
  <2>1. CASE FinalizeFails(p) BY <1>f, <2>1
  <2>2. CASE ~FinalizeFails(p)
    <3>1. ASSUME NEW d, proc' = [proc EXCEPT ![p].pc = "quiesce",
                                    ![p].seen = Reviewable, ![p].dec = d]
          PROVE  /\ proc'[p].pc = "quiesce" /\ proc'[p].at = proc[p].at
                 /\ proc'[p].seen = Reviewable /\ proc'[p].dec = d
      BY <3>1, ProcFields DEF TypeOK, ProcState
    <3>2. PICK w \in BOOLEAN :
             proc' = [proc EXCEPT ![p].pc = "quiesce", ![p].seen = Reviewable,
                         ![p].dec = WithWarnings(
                             Evaluate(mode, Reviewable, Flagged), w)]
      BY <1>3, <2>2 DEF DecideSession
    <3>3. /\ proc'[p].dec \in Decisions
          /\ proc'[p].dec = "no-changes" => Reviewable = {}
      BY <3>1, <3>2, DecisionFacts
    <3>4. (\A r \in Roots : Live(r)) /\ branch' = branch /\ delta' = delta
      BY <1>3, <2>2 DEF DecideSession, outside
    <3>5. Reviewable = delta \ Ignored
      BY <3>4, RootOrder DEF Reviewable, TypeOK
    <3>6. proc[p].at = 1 BY <1>3, Guards DEF Closing
    <3> QED BY <3>1, <3>2, <3>3, <3>4, <3>5, <3>6 DEF Closing, Live
  <2> QED BY <2>1, <2>2
<1>4. CASE Quiesce(p)
  <2>1. PICK l \in {"apply", "close", "discard"} :
           /\ Goto(p, l)
           /\ l = "close" => proc[p].dec = "pending-review"
    BY <1>4, DecisionFacts
  <2>2. Keeps(p) /\ proc'[p].pc = l /\ proc'[p].at = proc[p].at
    BY <2>1, GotoFields DEF Labels
  <2>3. /\ proc[p].pc = "quiesce"
        /\ branch' = branch /\ delta' = delta /\ base' = base
    BY <1>4, Guards DEF Quiesce
  <2>4. proc[p].at = 1 BY <2>3 DEF Closing
  <2>5. \A c \in delta : ~(RootOf[c] < 1)
    BY SessionAssumption DEF TypeOK, Roots
  <2>6. \A c \in delta \ Ignored : RootOf[c] < proc[p].at => c \in base
    BY <2>4, <2>5
  <2>7. \A r \in Roots : Live(r)' /\ r >= proc[p].at
    BY <2>3, <2>4, RootOrder DEF Closing, Live
  <2>8. /\ proc[p].dec \in Decisions
        /\ proc[p].dec = "no-changes" => delta \subseteq Ignored
        /\ proc[p].dec = "auto-commit" => delta \ Ignored \subseteq proc[p].seen
    BY <2>3 DEF Closing
  <2>9. l = "discard" => proc[p].dec # "auto-commit"
    BY <1>4, <2>2, DecisionFacts, GotoFields DEF Labels
  <2> QED BY <2>1, <2>2, <2>3, <2>6, <2>7, <2>8, <2>9 DEF Closing, Keeps
<1>5. CASE ApplyRoot(p)
  <2>1. CASE Fail(p) BY <1>f, <2>1
  <2>2. CASE ~Fail(p)
    <3> DEFINE mine == proc[p].seen \cap ChangesOf(MyRoot(p))
    <3>0. proc[p].pc = "apply" BY <1>5, Guards
    <3>1. /\ base' = base \cup Copied(mine) /\ Goto(p, "discard")
          /\ branch' = branch /\ delta' = delta
      BY <1>5, <2>2 DEF ApplyRoot
    <3>2. Keeps(p) /\ proc'[p].pc = "discard" /\ proc'[p].at = proc[p].at
      BY <3>1, GotoFields DEF Labels
    <3>3. Reviewable \cap mine \subseteq base' /\ base \subseteq base'
      BY <3>1, CopiedWhole
    <3>4. Live(proc[p].at)
      BY <3>0, ProcFields, RootOrder DEF Closing
    <3>5. ASSUME proc[p].dec = "auto-commit", NEW c \in delta \ Ignored,
                 RootOf[c] = proc[p].at
          PROVE  c \in base'
      <4>1. c \in Reviewable BY <3>4, <3>5 DEF Reviewable, TypeOK
      <4>2. c \in mine BY <3>0, <3>5 DEF Closing, ChangesOf, MyRoot, TypeOK
      <4> QED BY <3>3, <4>1, <4>2
    <3> HIDE DEF mine
    <3>6. /\ proc[p].dec \in Decisions
          /\ proc[p].dec = "no-changes" => delta \subseteq Ignored
          /\ proc[p].dec = "auto-commit" => delta \ Ignored \subseteq proc[p].seen
          /\ \A r \in Roots : Live(r) <=> r >= proc[p].at
          /\ proc[p].dec = "auto-commit" =>
                \A c \in delta \ Ignored : RootOf[c] < proc[p].at => c \in base
      BY <3>0 DEF Closing
    <3>7. \A r \in Roots : Live(r)' <=> Live(r) BY <3>1 DEF Live
    <3>8. proc[p].dec = "auto-commit" =>
             \A c \in delta \ Ignored : RootOf[c] < proc[p].at => c \in base'
      BY <3>3, <3>6
    <3> QED BY <3>1, <3>2, <3>5, <3>6, <3>7, <3>8 DEF Closing, Keeps
  <2> QED BY <2>1, <2>2
<1>6. CASE DiscardRoot(p)
  <2>1. CASE Fail(p) \/ FinalizeFails(p) BY <1>f, <2>1
  <2>2. CASE ~(Fail(p) \/ FinalizeFails(p))
    <3>0. proc[p].pc = "discard" BY <1>6, Guards
    <3>1. PICK l \in {"apply", "discard"} :
             /\ NextRoot(p, l, "close")
             /\ (l = "apply") <=> (proc[p].dec = "auto-commit")
      BY <1>6, <2>2 DEF DiscardRoot
    <3>2. /\ Keeps(p)
          /\ \/ /\ proc[p].at < NRoots
                /\ proc'[p].pc = l /\ proc'[p].at = proc[p].at + 1
             \/ /\ proc[p].at = NRoots
                /\ proc'[p].pc = "close"
      BY <3>1, NextRootFields DEF Labels
    <3>3. Abort(MyRoot(p)) /\ delta' = delta /\ base' = base
      BY <1>6, <2>2 DEF DiscardRoot
    <3>4. /\ proc[p].dec \in Decisions
          /\ proc[p].dec = "no-changes" => delta \subseteq Ignored
          /\ proc[p].dec = "auto-commit" => delta \ Ignored \subseteq proc[p].seen
          /\ \A r \in Roots : Live(r) <=> r >= proc[p].at
      BY <3>0 DEF Closing
    <3>5. \A r \in Roots : Live(r)' <=> r >= proc[p].at + 1
      <4>1. \A r \in Roots : Live(r)' <=> (Live(r) /\ r # proc[p].at)
        BY <3>3, AbortedRoot
      <4>2. \A r \in Roots : r >= proc[p].at + 1 <=> (r >= proc[p].at /\ r # proc[p].at)
        BY RootOrder DEF Roots
      <4> QED BY <3>4, <4>1, <4>2
    <3>6. proc[p].dec = "auto-commit" =>
             \A c \in delta \ Ignored : RootOf[c] < proc[p].at + 1 => c \in base
      BY <3>0, RootOrder DEF Closing
    <3>7. CASE proc[p].at < NRoots
      <4>1. /\ proc'[p].pc = l /\ proc'[p].at = proc[p].at + 1
        BY <3>2, <3>7, RootOrder
      <4>2. proc'[p].pc = "discard" => proc[p].dec # "auto-commit" BY <3>1, <4>1
      <4> QED BY <3>2, <3>3, <3>4, <3>5, <3>6, <4>1, <4>2 DEF Closing, Keeps
    <3>8. CASE proc[p].at = NRoots
      <4>1. proc'[p].pc = "close" BY <3>2, <3>8, RootOrder
      <4>2. \A r \in Roots : ~Live(r)'
        BY <3>5, <3>8, RootOrder DEF Roots
      <4>3. proc[p].dec = "auto-commit" => delta \ Ignored \subseteq base
        BY <3>6, <3>8, RootOrder
      <4> QED BY <3>2, <3>3, <3>4, <4>1, <4>2, <4>3 DEF Closing, Keeps
    <3> QED BY <3>2, <3>7, <3>8
  <2> QED BY <2>1, <2>2
<1> QED BY <1>1, <1>2, <1>3, <1>4, <1>5, <1>6

\* An abort leaves a root behind when its branch is gone.
LEMMA AbortClosing ==
    ASSUME TypeOK, NEW p \in Procs, Closing(p), BeginAbort(p) \/ AbortDiscard(p)
    PROVE  Closing(p)'
<1>1. CASE BeginAbort(p)
  <2>1. proc'[p].pc = "abort-discard" /\ proc'[p].at = 1
    BY <1>1, LoadFields DEF BeginAbort, Commands, Labels
  <2>2. \A r \in Roots : ~(r < 1) BY SessionAssumption DEF Roots
  <2> QED BY <2>1, <2>2 DEF Closing
<1>2. CASE AbortDiscard(p)
  <2>0. proc[p].pc = "abort-discard" BY <1>2, Guards
  <2>1. CASE Stop(p)
    BY <2>1, StopFields, ElsewhereClosing DEF ClosingPlaces, Finalizing, Idle
  <2>2. CASE ~Stop(p)
    <3>1. Abort(MyRoot(p)) /\ NextRoot(p, "abort-discard", "abort-close")
      BY <1>2, <2>2 DEF AbortDiscard, Discarded
    <3>2. \/ /\ proc[p].at < NRoots
             /\ proc'[p].pc = "abort-discard" /\ proc'[p].at = proc[p].at + 1
          \/ /\ proc[p].at = NRoots
             /\ proc'[p].pc = "abort-close"
      BY <3>1, NextRootFields DEF Labels
    <3>3. \A r \in Roots : Live(r)' <=> (Live(r) /\ r # proc[p].at)
      BY <3>1, AbortedRoot
    <3>4. \A r \in Roots : r < proc[p].at + 1 => ~Live(r)'
      BY <2>0, <3>3, RootOrder DEF Closing
    <3> QED BY <3>2, <3>3, <3>4, <2>0, RootOrder DEF Closing
  <2> QED BY <2>1, <2>2
<1> QED BY <1>1, <1>2

\* No step leaves a command with a wrong idea of what it has left behind.
LEMMA ClosingStep ==
    ASSUME Overlapping = {}, Dangling \subseteq Ignored, SerialInv, ClosingInv,
           NEW p \in Procs, Acts(p)
    PROVE  ClosingInv'
<1>1. \A s \in Procs \ {p} : Closing(s)'
  BY OneCommandStep, ElsewhereClosing
     DEF SerialInv, ClosingPlaces, Finalizing, Idle
<1>2. Closing(p)'
  <2>1. Origin(p) /\ Closing(p)
    BY OriginStep DEF SerialInv, PlacedInv, ClosingInv
  <2>2. CASE proc'[p].pc \notin ClosingPlaces BY <2>2, ElsewhereClosing
  <2>3. CASE proc'[p].pc \in ClosingPlaces
    <3>1. \/ FreezeRoot(p) \/ RecordFrozen(p) \/ DecideSession(p) \/ Quiesce(p)
          \/ ApplyRoot(p) \/ DiscardRoot(p) \/ BeginAbort(p) \/ AbortDiscard(p)
      BY <2>1, <2>3 DEF Origin, ClosingPlaces, Finalizing
    <3> QED BY <2>1, <3>1, FinalizeClosing, AbortClosing DEF SerialInv
  <2> QED BY <2>2, <2>3
<1> QED BY <1>1, <1>2 DEF ClosingInv

\* A record closes only when its promise holds, and nothing takes it back.
LEMMA ClosedStep ==
    ASSUME Overlapping = {}, SerialInv, ClosingInv, ClosedMeansDone,
           NEW p \in Procs, Acts(p)
    PROVE  ClosedMeansDone'
<1> USE DEF SerialInv
<1>0. Recorded(p) /\ Closing(p) BY DEF RecordedInv, ClosingInv
<1>1. CASE disk' = disk
  <2>1. SUFFICES ASSUME disk \in {"auto-committed", "aborted"} PROVE ClosedMeansDone'
    BY <1>1 DEF ClosedMeansDone
  <2>2. proc[p].pc \notin {"create-branch", "agent"}
    BY <1>0, <2>1 DEF Recorded
  <2>3. ~CreateBranch(p) /\ ~AgentWrites(p) BY <2>2, Guards
  <2>4. /\ \A r \in Roots : Live(r)' => Live(r)
        /\ delta' = delta /\ base \subseteq base'
    BY <2>3, OutsideStep
  <2> QED BY <1>1, <2>4 DEF ClosedMeansDone
<1>2. CASE disk' # disk /\ ~CloseSession(p) /\ ~AbortClose(p)
  BY <1>2, SerialStep DEF ClosedMeansDone
<1>3. CASE CloseSession(p)
  <2>1. proc[p].pc = "close" BY <1>3, Guards
  <2>2. UNCHANGED <<branch, delta, base>>
    BY <1>3 DEF CloseSession, outside
  <2>3. disk' \in {disk, "failed", ClosedState(proc[p].dec)}
    BY <1>3, FailsTo DEF CloseSession, Save
  <2>4. disk = "frozen" BY <1>0, <2>1 DEF Recorded
  <2>5. /\ disk' = "auto-committed" => proc[p].dec \in {"no-changes", "auto-commit"}
        /\ disk' = "aborted" => proc[p].dec = "abort"
    BY <2>3, <2>4 DEF ClosedState
  <2> QED BY <1>0, <2>1, <2>2, <2>5 DEF Closing, ClosedMeansDone, Live
<1>4. CASE AbortClose(p)
  <2>1. proc[p].pc = "abort-close" BY <1>4, Guards
  <2>2. disk' = "aborted" /\ UNCHANGED <<branch, delta, base>>
    BY <1>4 DEF AbortClose, Save, outside
  <2> QED BY <1>0, <2>1, <2>2 DEF Closing, ClosedMeansDone, Live
<1> QED BY <1>1, <1>2, <1>3, <1>4

\* A closed record keeps its promise: with one command at a time, a session that
\* is auto-committed has all of its reviewable work in the base, and one that is
\* auto-committed or aborted has no branch left, whatever failed on the way.
\* Links that a copy cannot follow have to be ignored (claim_symlink).
THEOREM ClosedKept ==
    ASSUME Overlapping = {}, Dangling \subseteq Ignored
    PROVE  Spec => []ClosedMeansDone
<1> DEFINE IInv == SerialInv /\ ClosingInv /\ ClosedMeansDone
<1>1. Init => IInv
  <2>1. Init => ClosingInv
    BY ElsewhereClosing DEF Init, ClosingInv, ClosingPlaces, Finalizing, Idle
  <2> QED BY <2>1, SerialInit DEF Init, ClosedMeansDone
<1>2. IInv /\ [Next]_vars => IInv'
  <2> SUFFICES ASSUME IInv, [Next]_vars PROVE IInv' OBVIOUS
  <2>1. CASE Reboot
    <3>1. /\ \A p \in Procs : proc'[p] = Idle
          /\ UNCHANGED <<disk, branch, delta, base>>
      BY <2>1 DEF Reboot
    <3>2. ClosingInv'
      BY <3>1, ElsewhereClosing DEF ClosingInv, ClosingPlaces, Finalizing, Idle
    <3>3. ClosedMeansDone' BY <3>1 DEF ClosedMeansDone, Live
    <3> QED BY <2>1, <3>2, <3>3, SerialQuiet
  <2>2. CASE UNCHANGED vars
    <3>1. ClosingInv' /\ ClosedMeansDone'
      BY <2>2 DEF vars, ClosingInv, Closing, ClosedMeansDone, Live
    <3> QED BY <2>2, <3>1, SerialQuiet
  <2>3. ASSUME NEW p \in Procs, Acts(p) PROVE IInv'
    BY <2>3, SerialStep, ClosingStep, ClosedStep
  <2> QED BY <2>1, <2>2, <2>3 DEF Next, Acts
<1>3. IInv => ClosedMeansDone OBVIOUS
<1> QED BY <1>1, <1>2, <1>3, PTL DEF Spec

-----------------------------------------------------------------------------
(***************************************************************************)
(* The session implements the ledger of its work.  The mapping reads the    *)
(* fate of a change off the branches and the base, so the steps that matter *)
(* are those that write a change, copy it, or take its branch away.  Apart   *)
(* from what is proved above the steps need to know that a list is of        *)
(* changes that exist, in branches that are still there.                     *)
(***************************************************************************)
Reading(p) ==
    /\ proc[p].pc \in {"quiesce", "apply", "discard", "commit-apply"}
          => proc[p].seen \subseteq delta
    /\ proc[p].pc = "commit-apply" => \A r \in Roots : Live(r)

ReadingInv == \A p \in Procs : Reading(p)

\* Nothing is made before the session runs, and only what was made is applied.
Born == disk \in {"unborn", "created", "mounting"} => delta = {}
BaseInDelta == base \subseteq delta

ReadingPlaces == {"quiesce", "apply", "discard", "commit-apply"}

\* A process elsewhere satisfies its part of the invariant.
LEMMA ElsewhereReading ==
    ASSUME NEW p \in Procs
    PROVE  /\ proc[p].pc \notin ReadingPlaces => Reading(p)
           /\ proc'[p].pc \notin ReadingPlaces => Reading(p)'
BY DEF Reading, ReadingPlaces

\* A list is read from the branches, and the branches stay until it is applied.
LEMMA ReadingStep ==
    ASSUME Overlapping = {}, SerialInv, ReadingInv, NEW p \in Procs, Acts(p)
    PROVE  ReadingInv'
<1> USE DEF SerialInv
<1>1. \A s \in Procs \ {p} : Reading(s)'
  BY OneCommandStep, ElsewhereReading DEF ReadingPlaces, Idle
<1>2. Reading(p)'
  <2>1. Origin(p) /\ Reading(p)
    BY OriginStep DEF PlacedInv, ReadingInv
  <2>2. CASE proc'[p].pc \notin ReadingPlaces BY <2>2, ElsewhereReading
  <2>3. CASE DecideSession(p) /\ proc'[p].pc \in ReadingPlaces
    <3>1. ~FinalizeFails(p)
      BY <2>3, FailsTo DEF ReadingPlaces, Idle
    <3>2. ASSUME NEW d, proc' = [proc EXCEPT ![p].pc = "quiesce",
                                    ![p].seen = Reviewable, ![p].dec = d]
          PROVE  proc'[p].pc = "quiesce" /\ proc'[p].seen = Reviewable
      BY <3>2, ProcFields DEF TypeOK, ProcState
    <3>3. /\ proc'[p].pc = "quiesce" /\ proc'[p].seen = Reviewable
          /\ delta' = delta
      BY <2>3, <3>1, <3>2 DEF DecideSession, outside
    <3> QED BY <3>3 DEF Reading, Reviewable
  <2>4. CASE CommitStatus(p) /\ proc'[p].pc \in ReadingPlaces
    <3>1. ~Stop(p)
      BY <2>4, StopFields DEF ReadingPlaces, Idle
    <3>2. PICK S \in Choices(proc[p].cmd) :
             proc' = [proc EXCEPT ![p].pc = "commit-apply", ![p].seen = S]
      BY <2>4, <3>1 DEF CommitStatus
    <3>3. proc'[p].pc = "commit-apply" /\ proc'[p].seen = S
      BY <3>2, ProcFields DEF TypeOK, ProcState
    <3>4. S \subseteq Reviewable
      BY ChosenReviewable DEF TypeOK, ProcState
    <3>5. (\A r \in Roots : Live(r)) /\ UNCHANGED <<branch, delta>>
      BY <2>4, <3>1 DEF CommitStatus, outside
    <3> QED BY <3>3, <3>4, <3>5 DEF Reading, Reviewable, Live
  <2>5. CASE /\ Quiesce(p) \/ ApplyRoot(p) \/ DiscardRoot(p) \/ CommitApply(p)
             /\ proc'[p].pc \in ReadingPlaces
    <3>1. proc'[p].seen = proc[p].seen
      <4>n. \A l, m \in Labels : NextRoot(p, l, m) => proc'[p].seen = proc[p].seen
        <5>1. ASSUME NEW l \in Labels, NEW m \in Labels, NextRoot(p, l, m)
              PROVE  proc'[p].seen = proc[p].seen
          BY <5>1, NextRootFields DEF Keeps
        <5> QED BY <5>1
      <4>g. \A l \in Labels : Goto(p, l) => proc'[p].seen = proc[p].seen
        BY GotoFields DEF Keeps
      <4>x. ~Stop(p) /\ ~Fail(p) /\ ~FinalizeFails(p)
        BY <2>5, StopFields, FailsTo DEF ReadingPlaces, Idle
      <4>1. CASE Quiesce(p) BY <4>1, <4>g, DecisionFacts DEF Labels
      <4>2. CASE ApplyRoot(p) BY <4>2, <4>g, <4>x DEF ApplyRoot, Labels
      <4>3. CASE DiscardRoot(p)
        <5>1. PICK l \in {"apply", "discard"} : NextRoot(p, l, "close")
          BY <4>3, <4>x DEF DiscardRoot
        <5> QED BY <5>1, <4>n DEF Labels
      <4>4. CASE CommitApply(p) BY <4>4, <4>g, <4>n, <4>x DEF CommitApply, Labels
      <4> QED BY <2>5, <4>1, <4>2, <4>3, <4>4
    <3>2. /\ delta' = delta
          /\ proc[p].pc \in ReadingPlaces
          /\ proc'[p].pc = "commit-apply" => proc[p].pc = "commit-apply" /\ branch' = branch
      <4>1. proc'[p].pc = "commit-apply" => CommitApply(p)
        BY <2>1, <2>5, Guards DEF Origin
      <4>2. delta' = delta /\ (CommitApply(p) => branch' = branch)
        BY <2>5 DEF Quiesce, ApplyRoot, DiscardRoot, CommitApply
      <4> QED BY <2>5, <4>1, <4>2, Guards DEF ReadingPlaces
    <3> QED BY <2>1, <3>1, <3>2 DEF Reading, ReadingPlaces, Live
  <2>6. CASE proc'[p].pc \in ReadingPlaces
    <3>1. \/ DecideSession(p) \/ CommitStatus(p) \/ Quiesce(p) \/ ApplyRoot(p)
          \/ DiscardRoot(p) \/ CommitApply(p)
      BY <2>1, <2>6 DEF Origin, ReadingPlaces
    <3> QED BY <2>3, <2>4, <2>5, <2>6, <3>1
  <2> QED BY <2>2, <2>6
<1> QED BY <1>1, <1>2 DEF ReadingInv

\* What a step applies was in a list.
LEMMA AppliedFacts ==
    ASSUME TypeOK, NEW p \in Procs, ApplyRoot(p) \/ CommitApply(p)
    PROVE  /\ base' \subseteq base \cup (proc[p].seen \cap ChangesOf(proc[p].at))
           /\ UNCHANGED <<mode, branch, delta, accepted, dropped>>
<1>1. \A S \in SUBSET Changes : Applied(p, S) \subseteq S /\ Copied(S) \subseteq S
  BY DEF Applied, Copied
<1> DEFINE mine == proc[p].seen \cap ChangesOf(MyRoot(p))
<1>2. mine \subseteq Changes BY DEF ChangesOf
<1>3. \E S \in SUBSET mine : base' = base \cup Copied(S) \/ base' = base \cup Applied(p, S)
  BY <1>2 DEF ApplyRoot, CommitApply
<1>4. UNCHANGED <<mode, branch, delta, accepted, dropped>>
  BY DEF ApplyRoot, CommitApply, history
<1> QED BY <1>1, <1>2, <1>3, <1>4 DEF MyRoot

\* Only those two steps apply anything.
LEMMA BaseUnchanged ==
    ASSUME NEW p \in Procs, Acts(p), ~ApplyRoot(p), ~CommitApply(p)
    PROVE  base' = base
<1> USE DEF outside
<1>1. CASE Proceed(p)
  BY <1>1
     DEF Proceed, EnterMounting, CreateBranch, MountRoot, LaunchAgent, FinishSession,
         EnterFinalizing, FreezeRoot, RecordFrozen, DecideSession, Quiesce, DiscardRoot,
         CloseSession, Unwind, CommitStatus, CommitDiscard, CommitClose, AbortDiscard,
         AbortClose, ThawRoot, ThawClose, Touch, RecordResume
<1>2. CASE Begin(p)
  BY <1>2
     DEF Begin, CreateSession, BeginResume, BeginFinish, BeginCommit, BeginAbort,
         BeginThaw, BeginTouch, Load, Cleanup
<1>3. CASE AgentExits(p) \/ AgentWrites(p) \/ Kill(p)
  BY <1>3 DEF AgentExits, EnterFinalizing, AgentWrites, Kill
<1> QED BY <1>1, <1>2, <1>3 DEF Acts

\* Only what an agent made is applied, and only after its session runs.
LEMMA BornStep ==
    ASSUME Overlapping = {}, SerialInv, ReadingInv, Born, BaseInDelta,
           NEW p \in Procs, Acts(p)
    PROVE  Born' /\ BaseInDelta'
<1> USE DEF SerialInv
<1>0. Recorded(p) /\ Reading(p) BY DEF RecordedInv, ReadingInv
<1>1. Born'
  <2>1. disk' \in {"unborn", "created", "mounting"}
           => disk \in {"unborn", "created", "mounting"}
    <3>1. Follows BY SerialStep
    <3>2. "unborn" \notin States BY DEF States
    <3> QED BY <3>1, <3>2, SuccessorFacts DEF Follows
  <2>2. AgentWrites(p) => disk = "running"
    BY <1>0, Guards DEF Recorded
  <2>3. AgentWrites(p) \/ delta' = delta BY OutsideStep
  <2> QED BY <2>1, <2>2, <2>3 DEF Born, AgentWrites
<1>2. BaseInDelta'
  <2>1. CASE ApplyRoot(p) \/ CommitApply(p)
    BY <1>0, <2>1, AppliedFacts, Guards DEF BaseInDelta, Reading
  <2>2. CASE ~(ApplyRoot(p) \/ CommitApply(p))
    <3>1. base' = base BY <2>2, BaseUnchanged
    <3>2. delta \subseteq delta'
      BY OutsideStep DEF AgentWrites
    <3> QED BY <3>1, <3>2 DEF BaseInDelta
  <2> QED BY <2>1, <2>2
<1> QED BY <1>1, <1>2

\* The fates of a change, before and after a step.
LEMMA Fates ==
    ASSUME NEW c
    PROVE  /\ c \notin delta => Fate(c) = "unmade"
           /\ c \in delta /\ c \in base => Fate(c) = "delivered"
           /\ c \in delta /\ c \notin base /\ Live(RootOf[c]) => Fate(c) = "pending"
           /\ c \in delta /\ c \notin base /\ ~Live(RootOf[c]) => Fate(c) = "discarded"
BY Zenon DEF Fate

\* The same of the fate after a step.
LEMMA FatesAfter ==
    ASSUME NEW c
    PROVE  /\ c \notin delta' => Fate(c)' = "unmade"
           /\ c \in delta' /\ c \in base' => Fate(c)' = "delivered"
           /\ c \in delta' /\ c \notin base' /\ Live(RootOf[c])' => Fate(c)' = "pending"
           /\ c \in delta' /\ c \notin base' /\ ~Live(RootOf[c])'
                 => Fate(c)' = "discarded"
BY Zenon DEF Fate

\* The fates that a set of changes gets.
LEMMA BecomesFates ==
    ASSUME NEW S, NEW f,
           \A c \in Changes : (c \in S => Fate(c)' = f) /\ (c \notin S => Fate(c)' = Fate(c))
    PROVE  Ledger!Becomes(S, f)
BY DEF Ledger!Becomes

\* What is pending can be told from the branches.
LEMMA PendingFacts ==
    ASSUME TypeOK, NEW S \in SUBSET (delta \ base), \A c \in S : Live(RootOf[c])
    PROVE  S \subseteq Ledger!Pending
<1>1. \A c \in S : c \in Changes /\ Fate(c) = "pending"
  BY Fates DEF TypeOK
<1> QED BY <1>1 DEF Ledger!Pending

\* A step that leaves changes, base and branches as they are.
LEMMA QuietLedger ==
    ASSUME TypeOK, UNCHANGED <<delta, base, mode, accepted, dropped>>,
           \A c \in delta : Live(RootOf[c])' <=> Live(RootOf[c])
    PROVE  UNCHANGED Ledger!vars
<1>1. \A c \in Changes : Fate(c)' = Fate(c)
  BY Fates, FatesAfter
<1>2. [c \in Changes |-> Fate(c)]' = [c \in Changes |-> Fate(c)]
  BY <1>1
<1> QED BY <1>2 DEF Ledger!vars

\* What the agent writes is made.
LEMMA WriteMakes ==
    ASSUME TypeOK, BaseInDelta, NEW p \in Procs, AgentWrites(p)
    PROVE  \E c \in Changes : Ledger!Make(c)
<1>1. PICK c \in Changes \ delta :
         branch[RootOf[c]] = "open" /\ delta' = delta \cup {c}
  BY DEF AgentWrites
<1>2. UNCHANGED <<branch, base, mode, accepted, dropped>>
  BY DEF AgentWrites, history
<1>3. c \notin base BY <1>1 DEF BaseInDelta
<1>4. Live(RootOf[c])' BY <1>1, <1>2 DEF Live
<1>5. Fate(c) = "unmade" /\ Fate(c)' = "pending"
  BY <1>1, <1>2, <1>3, <1>4, Fates, FatesAfter
<1>6. \A d \in Changes \ {c} : Fate(d)' = Fate(d)
  <2>1. \A d : Live(RootOf[d])' <=> Live(RootOf[d]) BY <1>2 DEF Live
  <2> QED BY <1>1, <1>2, <2>1, Fates, FatesAfter
<1>7. Ledger!Becomes({c}, "pending") BY <1>5, <1>6, BecomesFates
<1> QED BY <1>2, <1>5, <1>7 DEF Ledger!Make

\* What a human chooses is accepted, and is there.
LEMMA StatusAccepts ==
    ASSUME TypeOK, NEW p \in Procs, CommitStatus(p)
    PROVE  (\E S \in SUBSET Changes : Ledger!Accept(S)) \/ UNCHANGED Ledger!vars
<1>1. UNCHANGED <<branch, delta, base, mode, dropped>>
  BY DEF CommitStatus, outside
<1>2. [c \in Changes |-> Fate(c)]' = [c \in Changes |-> Fate(c)]
  <2>1. \A d : Live(RootOf[d])' <=> Live(RootOf[d]) BY <1>1 DEF Live
  <2>2. \A c \in Changes : Fate(c)' = Fate(c)
    BY <1>1, <2>1, Fates, FatesAfter
  <2> QED BY <2>2
<1>3. CASE accepted' = accepted
  BY <1>1, <1>2, <1>3 DEF Ledger!vars
<1>4. CASE accepted' # accepted
  <2>1. PICK S \in Choices(proc[p].cmd) : accepted' = accepted \cup S
    BY <1>4 DEF CommitStatus
  <2>2. S \subseteq Reviewable
    BY ChosenReviewable DEF TypeOK, ProcState
  <2>3. S \subseteq Changes \ Ignored /\ S \subseteq delta
    BY <2>2 DEF Reviewable, TypeOK
  <2>4. \A c \in S : Fate(c) # "unmade"
    BY <2>3, Fates
  <2> QED BY <1>1, <1>2, <2>1, <2>3, <2>4 DEF Ledger!Accept
<1> QED BY <1>3, <1>4

\* What is applied is delivered.
LEMMA ApplyDelivers ==
    ASSUME TypeOK, TypeOK', BaseInDelta, NEW p \in Procs, Reading(p), Closing(p),
           OnlyReviewedInBase', ApplyRoot(p) \/ CommitApply(p)
    PROVE  \E S \in SUBSET Changes : Ledger!Deliver(S)
<1> DEFINE S == base' \ base
<1>1. /\ base' \subseteq base \cup (proc[p].seen \cap ChangesOf(proc[p].at))
      /\ UNCHANGED <<mode, branch, delta, accepted, dropped>>
  BY AppliedFacts
<1>2. base \subseteq base'
  BY DEF ApplyRoot, CommitApply
<1>3. Live(proc[p].at) /\ proc[p].seen \subseteq delta
  BY Guards, ProcFields, RootOrder DEF Reading, Closing
<1>4. S \in SUBSET (delta \ base) /\ \A c \in S : Live(RootOf[c])
  BY <1>1, <1>3 DEF ChangesOf
<1>5. S \subseteq Ledger!Pending BY <1>4, PendingFacts
<1>6. S \subseteq ((IF mode \in AutoModes THEN Changes \ Flagged ELSE {}) \cup accepted)
                    \ Ignored
  BY <1>1 DEF OnlyReviewedInBase
<1>7. \A c \in Changes : /\ c \in S => Fate(c)' = "delivered"
                         /\ c \notin S => Fate(c)' = Fate(c)
  <2>1. \A d : Live(RootOf[d])' <=> Live(RootOf[d]) BY <1>1 DEF Live
  <2>2. S \subseteq delta' /\ S \subseteq base' BY <1>1, <1>4
  <2>3. \A c \in Changes : c \notin S => (c \in base' <=> c \in base) BY <1>2
  <2> HIDE DEF S
  <2> QED BY <1>1, <2>1, <2>2, <2>3, Fates, FatesAfter
<1>8. Ledger!Becomes(S, "delivered")
  <2> HIDE DEF S
  <2> QED BY <1>7, BecomesFates
<1>9. S \in SUBSET Changes BY <1>4 DEF TypeOK
<1> HIDE DEF S
<1>10. Ledger!Deliver(S)
  BY <1>1, <1>5, <1>6, <1>8 DEF Ledger!Deliver
<1> QED BY <1>9, <1>10

\* What is taken away with its branch is discarded, and for a reason.
LEMMA DiscardDiscards ==
    ASSUME TypeOK, TypeOK', NoWorkLost', NEW p \in Procs,
           DiscardRoot(p) \/ CommitDiscard(p) \/ AbortDiscard(p)
    PROVE  \E S, given \in SUBSET Changes : Ledger!Discard(S, given)
<1> DEFINE S == {c \in delta \ base : Live(RootOf[c]) /\ ~Live(RootOf[c])'}
           given == dropped' \ dropped
<1>1. /\ UNCHANGED <<mode, delta, base, accepted>>
      /\ dropped \subseteq dropped'
  BY DEF DiscardRoot, CommitDiscard, AbortDiscard, GivesUp
<1>2. \A r \in Roots : Live(r)' => Live(r)
  BY OutsideStep, Guards DEF Acts, Proceed
<1>3. S \subseteq Ledger!Pending BY PendingFacts
<1>4. S \subseteq Ignored \cup dropped'
  BY <1>1 DEF NoWorkLost
<1>5. \A c \in Changes : /\ c \in S => Fate(c)' = "discarded"
                         /\ c \notin S => Fate(c)' = Fate(c)
  <2>1. \A c \in S : c \in delta' /\ c \notin base' /\ ~Live(RootOf[c])'
    BY <1>1
  <2>2. \A c \in delta \ base : c \notin S => (Live(RootOf[c])' <=> Live(RootOf[c]))
    BY <1>2, SessionAssumption DEF TypeOK
  <2> HIDE DEF S
  <2> QED BY <1>1, <2>1, <2>2, Fates, FatesAfter
<1>6. S \in SUBSET Changes /\ given \in SUBSET Changes BY DEF TypeOK
<1>7. dropped' = dropped \cup given BY <1>1
<1> HIDE DEF S, given
<1>8. Ledger!Becomes(S, "discarded") BY <1>5, BecomesFates
<1>9. Ledger!Discard(S, given)
  BY <1>1, <1>3, <1>4, <1>7, <1>8 DEF Ledger!Discard
<1> QED BY <1>6, <1>9

\* No other step changes what has become of the work: a branch is only made when
\* nothing is in it yet.
LEMMA OthersStutter ==
    ASSUME SerialInv, Born, NEW p \in Procs, Acts(p),
           ~AgentWrites(p), ~CommitStatus(p), ~ApplyRoot(p), ~CommitApply(p),
           ~DiscardRoot(p), ~CommitDiscard(p), ~AbortDiscard(p)
    PROVE  UNCHANGED Ledger!vars
<1> USE DEF SerialInv, outside, history
<1>0. base' = base /\ delta' = delta
  BY OutsideStep, BaseUnchanged
<1>q. ASSUME UNCHANGED <<branch, mode, accepted, dropped>>
      PROVE  UNCHANGED Ledger!vars
  BY <1>0, <1>q, QuietLedger DEF Live
<1>1. CASE \/ EnterMounting(p) \/ MountRoot(p) \/ LaunchAgent(p) \/ FinishSession(p)
           \/ RecordFrozen(p) \/ DecideSession(p) \/ Quiesce(p) \/ CloseSession(p)
           \/ Unwind(p) \/ AgentExits(p) \/ Kill(p) \/ RecordResume(p)
  BY <1>1, <1>q
     DEF EnterMounting, MountRoot, LaunchAgent, FinishSession, EnterFinalizing,
         RecordFrozen, DecideSession, Quiesce, CloseSession, Unwind, AgentExits,
         Kill, RecordResume
<1>2. CASE CommitClose(p) \/ AbortClose(p) \/ ThawClose(p) \/ Touch(p) \/ Begin(p)
  BY <1>2, <1>q
     DEF CommitClose, AbortClose, ThawClose, Touch, Begin, CreateSession, BeginResume,
         BeginFinish, BeginCommit, BeginAbort, BeginThaw, BeginTouch, Load, Cleanup
<1>3. CASE CreateBranch(p)
  <2>1. disk = "mounting" BY <1>3, Guards DEF RecordedInv, Recorded
  <2>2. delta = {} BY <2>1 DEF Born
  <2>3. UNCHANGED <<mode, accepted, dropped>> BY <1>3 DEF CreateBranch
  <2> QED BY <1>0, <2>2, <2>3, QuietLedger
<1>4. CASE FreezeRoot(p) \/ ThawRoot(p)
  <2>1. UNCHANGED <<mode, accepted, dropped>> BY <1>4 DEF FreezeRoot, ThawRoot
  <2>2. \A r \in Roots : Live(r)' <=> Live(r)
    BY <1>4, ProcFields DEF FreezeRoot, ThawRoot, TypeOK, Live, MyRoot
  <2>3. \A c \in delta : RootOf[c] \in Roots BY RootOrder, SessionAssumption DEF TypeOK
  <2> QED BY <1>0, <2>1, <2>2, <2>3, QuietLedger
<1> QED BY <1>1, <1>2, <1>3, <1>4 DEF Acts, Proceed

\* The inductive invariant of the refinement.
LedgerInv ==
    /\ LossInv
    /\ SerialInv
    /\ ClosingInv
    /\ ReadingInv
    /\ Born
    /\ BaseInDelta
    /\ ReviewedInv
    /\ OnlyReviewedInBase

\* A session that has not begun satisfies the invariant and begins the ledger.
LEMMA LedgerInit == Init => LedgerInv /\ Ledger!Init
<1> SUFFICES ASSUME Init PROVE LedgerInv /\ Ledger!Init OBVIOUS
<1>1. \A p \in Procs : proc[p] = Idle BY DEF Init
<1>2. ClosingInv /\ ReadingInv
  BY <1>1, ElsewhereClosing, ElsewhereReading
     DEF ClosingInv, ReadingInv, ClosingPlaces, ReadingPlaces, Finalizing, Idle
<1>3. Born /\ BaseInDelta /\ ReviewedInv /\ OnlyReviewedInBase
  BY <1>1 DEF Init, Born, BaseInDelta, ReviewedInv, Reviewed, OnlyReviewedInBase, Idle
<1>4. \A c \in Changes : Fate(c) = "unmade"
  BY Fates DEF Init
<1>5. Ledger!Init
  BY <1>4 DEF Ledger!Init, Init
<1> QED BY <1>2, <1>3, <1>5, LossInit, SerialInit DEF LedgerInv

\* Every step keeps the invariant, and is a step of the ledger or none.
LEMMA LedgerStep ==
    ASSUME Overlapping = {}, Dangling \subseteq Ignored, PatchRoots \subseteq {1},
           LedgerInv, [Next]_vars
    PROVE  LedgerInv' /\ [Ledger!Next]_(Ledger!vars)
<1> USE DEF LedgerInv
<1>0. NoReopening BY DEF NoReopening
<1>1. ReviewedInv' /\ OnlyReviewedInBase'
  BY ReviewedStep, BaseStep DEF SerialInv
<1>2. LossInv' BY <1>0, LossInvStep
<1>3. CASE Reboot \/ UNCHANGED vars
  <2>1. UNCHANGED <<disk, branch, delta, base, mode, accepted, dropped>>
    BY <1>3 DEF Reboot, vars, history
  <2>2. ClosingInv' /\ ReadingInv'
    <3>1. CASE Reboot
      <4>1. \A p \in Procs : proc'[p] = Idle BY <3>1 DEF Reboot
      <4> QED BY <4>1, ElsewhereClosing, ElsewhereReading
              DEF ClosingInv, ReadingInv, ClosingPlaces, ReadingPlaces, Finalizing, Idle
    <3>2. CASE UNCHANGED vars
      BY <3>2 DEF vars, ClosingInv, Closing, ReadingInv, Reading, Live
    <3> QED BY <1>3, <3>1, <3>2
  <2>3. Born' /\ BaseInDelta' BY <2>1 DEF Born, BaseInDelta
  <2>4. UNCHANGED Ledger!vars
    BY <2>1, QuietLedger DEF SerialInv, Live
  <2> QED BY <1>1, <1>2, <1>3, <2>2, <2>3, <2>4, SerialQuiet
<1>4. ASSUME NEW p \in Procs, Acts(p)
      PROVE  LedgerInv' /\ [Ledger!Next]_(Ledger!vars)
  <2>1. LedgerInv'
    BY <1>1, <1>2, <1>4, SerialStep, ClosingStep, ReadingStep, BornStep
  <2>2. /\ TypeOK /\ TypeOK' /\ NoWorkLost'
        /\ Closing(p) /\ Reading(p)
    BY <2>1 DEF SerialInv, LossInv, ClosingInv, ReadingInv
  <2>3. CASE AgentWrites(p)
    BY <2>1, <2>2, <2>3, WriteMakes DEF Ledger!Next
  <2>4. CASE CommitStatus(p)
    BY <2>1, <2>2, <2>4, StatusAccepts DEF Ledger!Next
  <2>5. CASE ApplyRoot(p) \/ CommitApply(p)
    BY <1>1, <2>1, <2>2, <2>5, ApplyDelivers DEF Ledger!Next
  <2>6. CASE DiscardRoot(p) \/ CommitDiscard(p) \/ AbortDiscard(p)
    BY <2>1, <2>2, <2>6, DiscardDiscards DEF Ledger!Next
  <2>7. CASE ~(\/ AgentWrites(p) \/ CommitStatus(p) \/ ApplyRoot(p) \/ CommitApply(p)
               \/ DiscardRoot(p) \/ CommitDiscard(p) \/ AbortDiscard(p))
    BY <1>4, <2>1, <2>7, OthersStutter
  <2> QED BY <2>1, <2>3, <2>4, <2>5, <2>6, <2>7
<1> QED BY <1>3, <1>4 DEF Next, Acts

\* With one command at a time the session implements the ledger of its work: a
\* change is made once, and delivered or discarded once and for good, delivered
\* only when policy cleared it or a human accepted it, discarded only when it is
\* ignored or was given up; whatever fails, and whoever is killed, on the way.
THEOREM LedgerImplemented ==
    ASSUME Overlapping = {}, Dangling \subseteq Ignored, PatchRoots \subseteq {1}
    PROVE  Spec => KeepsLedger
<1>1. Init => LedgerInv BY LedgerInit
<1>2. Init => Ledger!Init BY LedgerInit
<1>3. LedgerInv /\ [Next]_vars => LedgerInv' BY LedgerStep
<1>4. LedgerInv /\ [Next]_vars => [Ledger!Next]_(Ledger!vars) BY LedgerStep
<1> QED BY <1>1, <1>2, <1>3, <1>4, PTL DEF Spec, KeepsLedger, Ledger!Spec
=============================================================================
