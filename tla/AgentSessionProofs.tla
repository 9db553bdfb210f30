------------------------- MODULE AgentSessionProofs -------------------------
(***************************************************************************)
(* Theorems about AgentSession for every number of processes and roots,     *)
(* every set of changes and every overlap of commands.                      *)
(***************************************************************************)
EXTENDS AgentSession, TLAPS

\* The pieces of a process's state are typed.
LEMMA ProcFields ==
    ASSUME TypeOK, NEW p \in Procs
    PROVE  /\ proc[p] \in ProcState
           /\ proc[p].at \in Roots
           /\ proc[p].st \in States
           /\ proc[p].seen \subseteq Changes
BY DEF TypeOK, ProcState

\* The idle process is typed; there is a first root.
LEMMA IdleTyped == Idle \in ProcState
BY SessionAssumption DEF Idle, ProcState, Labels, Roots, States

\* Jumping, looping over the roots and stopping keep the processes typed.
LEMMA GotoTyped ==
    ASSUME TypeOK, NEW p \in Procs, NEW l \in Labels, Goto(p, l)
    PROVE  proc' \in [Procs -> ProcState]
<1>1. [proc[p] EXCEPT !.pc = l] \in ProcState
  BY ProcFields DEF ProcState
<1> QED BY <1>1 DEF TypeOK, Goto

\* A jump that also changes the Session object's state.
LEMMA GotoAsTyped ==
    ASSUME TypeOK, NEW p \in Procs, NEW l \in Labels, NEW s \in States,
           GotoAs(p, l, s)
    PROVE  proc' \in [Procs -> ProcState]
<1>1. [proc[p] EXCEPT !.pc = l, !.st = s] \in ProcState
  BY ProcFields DEF ProcState
<1> QED BY <1>1 DEF TypeOK, GotoAs

\* A loop over the roots stays between the first and the last.
LEMMA NextRootTyped ==
    ASSUME TypeOK, NEW p \in Procs, NEW l \in Labels, NEW m \in Labels,
           NextRoot(p, l, m)
    PROVE  proc' \in [Procs -> ProcState]
<1>1. proc[p].at \in Roots BY ProcFields
<1>2. 1 \in Roots BY SessionAssumption DEF Roots
<1>3. proc[p].at < NRoots => proc[p].at + 1 \in Roots
  BY <1>1, SessionAssumption DEF Roots
<1>4. CASE proc[p].at < NRoots
  <2>1. proc' = [proc EXCEPT ![p].pc = l, ![p].at = proc[p].at + 1]
    BY <1>4 DEF NextRoot, MyRoot
  <2>2. proc[p] \in ProcState BY ProcFields
  <2>3. [proc[p] EXCEPT !.pc = l, !.at = proc[p].at + 1] \in ProcState
    BY <2>2, <1>3, <1>4 DEF ProcState
  <2> QED BY <2>1, <2>3 DEF TypeOK
<1>5. CASE ~(proc[p].at < NRoots)
  <2>1. proc' = [proc EXCEPT ![p].pc = m, ![p].at = 1]
    BY <1>5 DEF NextRoot, MyRoot
  <2>2. proc[p] \in ProcState BY ProcFields
  <2>3. [proc[p] EXCEPT !.pc = m, !.at = 1] \in ProcState
    BY <2>2, <1>2 DEF ProcState
  <2> QED BY <2>1, <2>3 DEF TypeOK
<1> QED BY <1>4, <1>5

\* A process that stops is idle.
LEMMA StopTyped ==
    ASSUME TypeOK, NEW p \in Procs, Stop(p)
    PROVE  proc' \in [Procs -> ProcState]
BY IdleTyped DEF TypeOK, Stop

\* _fail() saves a state of the table, or nothing.
LEMMA FailTyped ==
    ASSUME TypeOK, NEW p \in Procs, Fail(p)
    PROVE  /\ proc' \in [Procs -> ProcState]
           /\ disk' \in States \cup {"unborn", "removed"}
BY GotoAsTyped, StopTyped DEF Fail, Save, Labels, States, TypeOK

\* An exception out of finalize_session leaves a typed record.
LEMMA FinalizeFailsTyped ==
    ASSUME TypeOK, NEW p \in Procs, FinalizeFails(p)
    PROVE  /\ proc' \in [Procs -> ProcState]
           /\ disk' \in States \cup {"unborn", "removed"}
BY FailTyped, StopTyped DEF FinalizeFails, TypeOK

\* The branches and mounts after an unmount, a status or a discard.
LEMMA UnmountTyped ==
    ASSUME TypeOK, Unmount
    PROVE  mounted' \in [Roots -> BOOLEAN]
BY DEF TypeOK, Unmount

\* An abort-branch, done or not, keeps the branches typed.
LEMMA AbortTyped ==
    ASSUME TypeOK, NEW r \in Roots, Abort(r) \/ AbortFails(r)
    PROVE  branch' \in [Roots -> BranchStates]
BY DEF TypeOK, Abort, AbortFails, BranchStates

\* _discard_branch, done or not, keeps branches, mounts and record typed.
LEMMA DiscardedTyped ==
    ASSUME TypeOK, NEW p \in Procs, Discarded(p) \/ NotDiscarded(p)
    PROVE  /\ mounted' \in [Roots -> BOOLEAN]
           /\ branch' \in [Roots -> BranchStates]
           /\ disk' \in States \cup {"unborn", "removed"}
BY ProcFields, AbortTyped DEF TypeOK, Discarded, NotDiscarded, Save, MyRoot


\* A command that loads a record takes its state over.
LEMMA LoadTyped ==
    ASSUME TypeOK, NEW p \in Procs, NEW c \in Commands, NEW l \in Labels,
           NEW allowed \in SUBSET States, Load(p, c, allowed, l)
    PROVE  TypeOK'
<1>1. disk \in States /\ UNCHANGED <<disk, mode, outside, history>>
  BY DEF Load
<1>2. [Idle EXCEPT !.pc = l, !.cmd = c, !.st = disk] \in ProcState
  BY <1>1, IdleTyped DEF Idle, ProcState
<1>3. proc' \in [Procs -> ProcState]
  BY <1>2 DEF Load, TypeOK
<1> QED BY <1>1, <1>3 DEF TypeOK, outside, history

\* The steps of run_session and of finalize_session.
LEMMA SupervisorTyped ==
    ASSUME TypeOK, NEW p \in Procs,
           \/ CreateSession(p) \/ EnterMounting(p) \/ CreateBranch(p)
           \/ MountRoot(p) \/ LaunchAgent(p) \/ AgentWrites(p)
           \/ EnterFinalizing(p) \/ FreezeRoot(p) \/ RecordFrozen(p)
           \/ DecideSession(p) \/ Quiesce(p) \/ ApplyRoot(p)
           \/ DiscardRoot(p) \/ CloseSession(p) \/ Unwind(p)
    PROVE  TypeOK'
<1> USE DEF outside, history
<1>1. CASE CreateSession(p)
  <2>1. [Idle EXCEPT !.pc = "created", !.cmd = "run", !.st = "created"]
           \in ProcState
    BY IdleTyped DEF Idle, ProcState, Labels, Commands, States
  <2> QED BY <1>1, <2>1 DEF CreateSession, Save, TypeOK, States
<1>2. CASE EnterMounting(p)
  <2>1. proc' \in [Procs -> ProcState] /\ disk' \in States \cup {"unborn", "removed"}
    BY <1>2, GotoAsTyped, FailTyped DEF EnterMounting, Save, States, Labels
  <2> QED BY <1>2, <2>1 DEF EnterMounting, TypeOK
<1>3. CASE CreateBranch(p)
  <2>1. proc' \in [Procs -> ProcState] /\ disk' \in States \cup {"unborn", "removed"}
    BY <1>3, GotoTyped, FailTyped DEF CreateBranch, Labels, TypeOK
  <2>2. branch' \in [Roots -> BranchStates]
    BY <1>3 DEF CreateBranch, TypeOK, BranchStates
  <2> QED BY <1>3, <2>1, <2>2 DEF CreateBranch, TypeOK
<1>4. CASE MountRoot(p)
  <2>1. proc' \in [Procs -> ProcState]
    BY <1>4, NextRootTyped, GotoTyped, FailTyped, StopTyped DEF MountRoot, Labels
  <2>2. disk' \in States \cup {"unborn", "removed"}
    BY <1>4, FailTyped, ProcFields DEF MountRoot, Save, TypeOK
  <2>3. mounted' \in [Roots -> BOOLEAN]
    BY <1>4 DEF MountRoot, TypeOK
  <2> QED BY <1>4, <2>1, <2>2, <2>3 DEF MountRoot, TypeOK
<1>5. CASE LaunchAgent(p)
  <2>1. proc' \in [Procs -> ProcState] /\ disk' \in States \cup {"unborn", "removed"}
    BY <1>5, GotoAsTyped, FailTyped DEF LaunchAgent, Save, Labels, States
  <2> QED BY <1>5, <2>1 DEF LaunchAgent, TypeOK
<1>6. CASE AgentWrites(p)
  BY <1>6 DEF AgentWrites, TypeOK
<1>7. CASE EnterFinalizing(p)
  <2>1. proc' \in [Procs -> ProcState] /\ disk' \in States \cup {"unborn", "removed"}
    BY <1>7, GotoAsTyped, FinalizeFailsTyped DEF EnterFinalizing, Save, States, Labels
  <2> QED BY <1>7, <2>1 DEF EnterFinalizing, TypeOK
<1>8. CASE FreezeRoot(p)
  <2>1. proc' \in [Procs -> ProcState] /\ disk' \in States \cup {"unborn", "removed"}
    BY <1>8, NextRootTyped, FinalizeFailsTyped DEF FreezeRoot, Labels, TypeOK
  <2>2. branch' \in [Roots -> BranchStates]
    BY <1>8 DEF FreezeRoot, TypeOK, BranchStates
  <2> QED BY <1>8, <2>1, <2>2 DEF FreezeRoot, TypeOK
<1>9. CASE RecordFrozen(p)
  <2>1. proc' \in [Procs -> ProcState] /\ disk' \in States \cup {"unborn", "removed"}
    BY <1>9, GotoAsTyped, FinalizeFailsTyped DEF RecordFrozen, Save, States, Labels
  <2> QED BY <1>9, <2>1 DEF RecordFrozen, TypeOK
<1>10. CASE DecideSession(p)
  <2>1. \A w \in BOOLEAN : WithWarnings(Evaluate(mode, Reviewable, Flagged), w)
                              \in Decisions
    BY DEF WithWarnings, Evaluate, Decisions
  <2>2. Reviewable \subseteq Changes
    BY DEF Reviewable, TypeOK
  <2>3. proc' \in [Procs -> ProcState] /\ disk' \in States \cup {"unborn", "removed"}
    <3>1. CASE FinalizeFails(p) BY <3>1, FinalizeFailsTyped
    <3>2. ASSUME NEW d \in Decisions, UNCHANGED disk,
                 proc' = [proc EXCEPT ![p].pc = "quiesce",
                                      ![p].seen = Reviewable, ![p].dec = d]
          PROVE  proc' \in [Procs -> ProcState] /\ disk' \in States \cup {"unborn", "removed"}
      <4>1. [proc[p] EXCEPT !.pc = "quiesce", !.seen = Reviewable, !.dec = d]
               \in ProcState
        BY ProcFields, <2>2 DEF ProcState, Labels
      <4> QED BY <3>2, <4>1 DEF TypeOK
    <3> QED BY <1>10, <2>1, <3>1, <3>2 DEF DecideSession
  <2> QED BY <1>10, <2>3 DEF DecideSession, TypeOK
<1>11. CASE Quiesce(p)
  BY <1>11, UnmountTyped, GotoTyped DEF Quiesce, TypeOK, Labels
<1>12. CASE ApplyRoot(p)
  <2>1. proc' \in [Procs -> ProcState] /\ disk' \in States \cup {"unborn", "removed"}
    BY <1>12, GotoTyped, FailTyped DEF ApplyRoot, Labels, TypeOK
  <2>2. base' \subseteq Changes
    BY <1>12, ProcFields DEF ApplyRoot, Copied, TypeOK
  <2> QED BY <1>12, <2>1, <2>2 DEF ApplyRoot, TypeOK
<1>13. CASE DiscardRoot(p)
  <2>1. proc' \in [Procs -> ProcState]
    BY <1>13, NextRootTyped, FailTyped, FinalizeFailsTyped
       DEF DiscardRoot, Labels
  <2>2. disk' \in States \cup {"unborn", "removed"}
    BY <1>13, FailTyped, FinalizeFailsTyped DEF DiscardRoot, TypeOK
  <2>3. branch' \in [Roots -> BranchStates]
    BY <1>13, AbortTyped, ProcFields DEF DiscardRoot, MyRoot
  <2>4. dropped' \subseteq Changes
    BY <1>13 DEF DiscardRoot, GivesUp, TypeOK
  <2> QED BY <1>13, <2>1, <2>2, <2>3, <2>4 DEF DiscardRoot, TypeOK
<1>14. CASE CloseSession(p)
  <2>1. ClosedState(proc[p].dec) \in States
    BY DEF ClosedState, States
  <2>2. proc' \in [Procs -> ProcState] /\ disk' \in States \cup {"unborn", "removed"}
    BY <1>14, <2>1, GotoAsTyped, StopTyped, FinalizeFailsTyped
       DEF CloseSession, Save, Labels, TypeOK
  <2> QED BY <1>14, <2>2 DEF CloseSession, TypeOK
<1>15. CASE Unwind(p)
  BY <1>15, UnmountTyped, StopTyped DEF Unwind, TypeOK
<1> QED BY <1>1, <1>2, <1>3, <1>4, <1>5, <1>6, <1>7, <1>8, <1>9, <1>10, <1>11,
           <1>12, <1>13, <1>14, <1>15

\* Whatever a command takes is reviewable, and applying it reaches nothing else.
LEMMA ChosenReviewable ==
    /\ \A cmd \in Commands \cup {"none"} : Choices(cmd) \subseteq SUBSET Reviewable
    /\ \A p \in Procs : \A S \in SUBSET Changes : Applied(p, S) \subseteq S
BY DEF Choices, Applied, Copied

\* The steps of the operator's commands.
LEMMA OperatorTyped ==
    ASSUME TypeOK, NEW p \in Procs,
           \/ BeginResume(p) \/ BeginFinish(p) \/ BeginCommit(p)
           \/ BeginAbort(p) \/ BeginThaw(p) \/ BeginTouch(p) \/ Touch(p)
           \/ CommitStatus(p) \/ CommitApply(p) \/ CommitDiscard(p)
           \/ CommitClose(p) \/ AbortDiscard(p) \/ AbortClose(p)
           \/ ThawRoot(p) \/ ThawClose(p) \/ Cleanup(p) \/ RecordResume(p)
    PROVE  TypeOK'
<1> USE DEF outside, history
<1>1. CASE \/ BeginResume(p) \/ BeginFinish(p) \/ BeginCommit(p)
           \/ BeginAbort(p) \/ BeginThaw(p) \/ BeginTouch(p)
  BY <1>1, LoadTyped
     DEF BeginResume, BeginFinish, BeginCommit, BeginAbort, BeginThaw,
         BeginTouch, ResumableStates, FinishableStates, States,
         TerminalStates, Commands, Labels
<1>2. CASE Touch(p)
  BY <1>2, StopTyped, ProcFields DEF Touch, Save, TypeOK
<1>3. CASE CommitStatus(p)
  <2>1. Reviewable \subseteq Changes
    BY DEF Reviewable, TypeOK
  <2>2. proc' \in [Procs -> ProcState] /\ accepted' \subseteq Changes
    <3>1. CASE Stop(p) /\ UNCHANGED accepted BY <3>1, StopTyped DEF TypeOK
    <3>2. ASSUME NEW S \in SUBSET Reviewable, accepted' = accepted \cup S,
                 proc' = [proc EXCEPT ![p].pc = "commit-apply", ![p].seen = S]
          PROVE  proc' \in [Procs -> ProcState] /\ accepted' \subseteq Changes
      <4>1. S \subseteq Changes BY <2>1
      <4>2. [proc[p] EXCEPT !.pc = "commit-apply", !.seen = S] \in ProcState
        BY ProcFields, <4>1 DEF ProcState, Labels
      <4> QED BY <3>2, <4>1, <4>2 DEF TypeOK
    <3> QED BY <1>3, <3>1, <3>2, ChosenReviewable, ProcFields
            DEF CommitStatus, ProcState
  <2> QED BY <1>3, <2>2 DEF CommitStatus, TypeOK
<1>4. CASE CommitApply(p)
  <2>1. proc' \in [Procs -> ProcState]
    BY <1>4, NextRootTyped, StopTyped, GotoTyped DEF CommitApply, Labels
  <2>2. disk' \in States \cup {"unborn", "removed"}
    BY <1>4, ProcFields DEF CommitApply, Save, TypeOK
  <2>3. base' \subseteq Changes
    BY <1>4, ProcFields DEF CommitApply, Applied, Copied, TypeOK
  <2> QED BY <1>4, <2>1, <2>2, <2>3 DEF CommitApply, TypeOK
<1>5. CASE CommitDiscard(p)
  <2>1. proc' \in [Procs -> ProcState]
    BY <1>5, NextRootTyped DEF CommitDiscard, Labels
  <2>2. dropped' \subseteq Changes
    BY <1>5 DEF CommitDiscard, GivesUp, TypeOK
  <2> QED BY <1>5, <2>1, <2>2, DiscardedTyped DEF CommitDiscard, TypeOK
<1>6. CASE CommitClose(p)
  BY <1>6, StopTyped DEF CommitClose, Save, TypeOK, States
<1>7. CASE AbortDiscard(p)
  <2>1. proc' \in [Procs -> ProcState]
    BY <1>7, NextRootTyped, StopTyped DEF AbortDiscard, Labels
  <2>2. dropped' \subseteq Changes
    BY <1>7 DEF AbortDiscard, GivesUp, TypeOK
  <2> QED BY <1>7, <2>1, <2>2, DiscardedTyped DEF AbortDiscard, TypeOK
<1>8. CASE AbortClose(p)
  BY <1>8, StopTyped DEF AbortClose, Save, TypeOK, States
<1>9. CASE ThawRoot(p)
  <2>1. proc' \in [Procs -> ProcState]
    BY <1>9, NextRootTyped, StopTyped DEF ThawRoot, Labels
  <2>2. branch' \in [Roots -> BranchStates]
    BY <1>9 DEF ThawRoot, TypeOK, BranchStates
  <2> QED BY <1>9, <2>1, <2>2 DEF ThawRoot, TypeOK
<1>10. CASE ThawClose(p)
  BY <1>10, StopTyped DEF ThawClose, Save, TypeOK, States
<1>11. CASE Cleanup(p)
  BY <1>11 DEF Cleanup, Save, TypeOK
<1>12. CASE RecordResume(p)
  BY <1>12, GotoTyped, StopTyped, ProcFields DEF RecordResume, Save, TypeOK, Labels
<1> QED BY <1>1, <1>2, <1>3, <1>4, <1>5, <1>6, <1>7, <1>8, <1>9, <1>10, <1>11,
           <1>12

\* Every step of the session keeps every variable in its type.
LEMMA TypeStep == TypeOK /\ [Next]_vars => TypeOK'
<1> SUFFICES ASSUME TypeOK, [Next]_vars PROVE TypeOK'
  OBVIOUS
<1>1. ASSUME NEW p \in Procs, Begin(p) \/ Proceed(p) \/ AgentExits(p) \/ AgentWrites(p)
      PROVE  TypeOK'
  BY <1>1, SupervisorTyped, OperatorTyped
     DEF Begin, Proceed, AgentExits, FinishSession
<1>2. ASSUME NEW p \in Procs, Kill(p) PROVE TypeOK'
  BY <1>2, StopTyped DEF Kill, TypeOK, outside, history
<1>3. CASE Reboot
  BY <1>3, IdleTyped DEF Reboot, TypeOK, history
<1>4. CASE UNCHANGED vars
  BY <1>4 DEF TypeOK, vars
<1> QED BY <1>1, <1>2, <1>3, <1>4 DEF Next

\* Before the session exists everything is typed.
LEMMA TypeInit == Init => TypeOK
BY IdleTyped DEF BranchStates, Init, TypeOK

\* Type correctness: the record always holds one of the states of session.py
\* (or does not exist), and so does every process's Session object.
THEOREM TypeCorrect == Spec => []TypeOK
<1>1. Init => TypeOK BY TypeInit
<1>2. TypeOK /\ [Next]_vars => TypeOK' BY TypeStep
<1> QED BY <1>1, <1>2, PTL DEF Spec
-----------------------------------------------------------------------------
(***************************************************************************)
(* Only reviewed work reaches the base.  The list a process is about to     *)
(* copy was fixed steps before the copy, so the invariant has to say of     *)
(* every process on the way to a copy that its list was reviewed when it    *)
(* was taken: an auto-commit list holds no flagged and no ignored change    *)
(* and the mode is an auto mode, a commit list is what a human accepted.    *)
(* Nothing later invalidates that, whatever the other processes do.         *)
(***************************************************************************)
Copying == {"quiesce", "apply", "discard", "commit-apply"}

Reviewed(p) ==
    /\ (proc[p].pc \in {"quiesce", "apply", "discard"}
           /\ proc[p].dec = "auto-commit")
          => mode \in AutoModes /\ proc[p].seen \cap (Flagged \cup Ignored) = {}
    /\ proc[p].pc = "apply" => proc[p].dec = "auto-commit"
    /\ proc[p].pc = "commit-apply"
          => proc[p].seen \subseteq accepted /\ proc[p].seen \cap Ignored = {}

ReviewedInv == \A p \in Procs : Reviewed(p)

\* A step of p leaves the other processes alone and p's list and decision.
OnlyMoves(p) ==
    /\ \A q \in Procs \ {p} : proc'[q] = proc[q]
    /\ proc'[p].seen = proc[p].seen
    /\ proc'[p].dec = proc[p].dec

\* What the helpers do to the processes.
LEMMA JumpFacts ==
    ASSUME TypeOK, NEW p \in Procs
    PROVE  /\ \A l \in Labels : Goto(p, l) => OnlyMoves(p) /\ proc'[p].pc = l
           /\ \A l \in Labels, s \in States :
                 GotoAs(p, l, s) => OnlyMoves(p) /\ proc'[p].pc = l
           /\ \A l, m \in Labels :
                 NextRoot(p, l, m) => OnlyMoves(p) /\ proc'[p].pc \in {l, m}
BY ProcFields DEF TypeOK, ProcState, Goto, GotoAs, NextRoot, OnlyMoves

\* Stopping and failing leave the processes that copy.
LEMMA StopFacts ==
    ASSUME TypeOK, NEW p \in Procs, Stop(p) \/ Fail(p) \/ FinalizeFails(p)
    PROVE  /\ \A q \in Procs \ {p} : proc'[q] = proc[q]
           /\ proc'[p].pc \notin Copying
<1>1. Stop(p) => /\ \A q \in Procs \ {p} : proc'[q] = proc[q]
                 /\ proc'[p].pc \notin Copying
  BY DEF TypeOK, Stop, Idle, Copying
<1>2. GotoAs(p, "unwind", "failed") \/ GotoAs(p, "unsaved", "failed")
         => /\ \A q \in Procs \ {p} : proc'[q] = proc[q]
            /\ proc'[p].pc \notin Copying
  BY JumpFacts DEF OnlyMoves, Copying, Labels, States
<1> QED BY <1>1, <1>2 DEF Fail, FinalizeFails

\* A process that is not about to copy has nothing to answer for, and the
\* others keep their lists: mode never changes and accepted only grows.
LEMMA OthersReviewed ==
    ASSUME ReviewedInv, NEW p \in Procs, mode' = mode, accepted \subseteq accepted',
           \A q \in Procs \ {p} : proc'[q] = proc[q],
           proc'[p].pc \notin Copying \/ Reviewed(p)'
    PROVE  ReviewedInv'
BY DEF ReviewedInv, Reviewed, Copying

\* A process that moves on to where nothing is copied keeps the lists reviewed.
LEMMA AwayReviewed ==
    ASSUME TypeOK, ReviewedInv, NEW p \in Procs,
           UNCHANGED mode, UNCHANGED accepted,
           \/ Stop(p) \/ Fail(p) \/ FinalizeFails(p)
           \/ \E l \in Labels \ Copying : Goto(p, l)
           \/ \E l \in Labels \ Copying, s \in States : GotoAs(p, l, s)
           \/ \E l \in Labels \ Copying, m \in Labels \ Copying : NextRoot(p, l, m)
    PROVE  ReviewedInv'
<1>1. CASE Stop(p) \/ Fail(p) \/ FinalizeFails(p)
  BY <1>1, StopFacts, OthersReviewed
<1>2. CASE \/ \E l \in Labels \ Copying : Goto(p, l)
           \/ \E l \in Labels \ Copying, s \in States : GotoAs(p, l, s)
           \/ \E l \in Labels \ Copying, m \in Labels \ Copying : NextRoot(p, l, m)
  <2>1. OnlyMoves(p) /\ proc'[p].pc \notin Copying
    BY <1>2, JumpFacts
  <2> QED BY <2>1, OthersReviewed DEF OnlyMoves
<1> QED BY <1>1, <1>2

\* Every action of a supervisor keeps the lists reviewed.
LEMMA SupervisorReviewed ==
    ASSUME TypeOK, ReviewedInv, NEW p \in Procs,
           \/ CreateSession(p) \/ EnterMounting(p) \/ CreateBranch(p)
           \/ MountRoot(p) \/ LaunchAgent(p) \/ AgentWrites(p)
           \/ EnterFinalizing(p) \/ FreezeRoot(p) \/ RecordFrozen(p)
           \/ DecideSession(p) \/ Quiesce(p) \/ ApplyRoot(p)
           \/ DiscardRoot(p) \/ CloseSession(p) \/ Unwind(p)
    PROVE  ReviewedInv'
<1> USE DEF outside, history, Labels, States
<1>1. CASE CreateSession(p)
  <2>1. /\ \A q \in Procs \ {p} : proc'[q] = proc[q]
        /\ proc'[p].pc = "created"
    BY <1>1 DEF CreateSession, TypeOK, Idle
  <2> QED BY <1>1, <2>1, OthersReviewed DEF CreateSession, Copying
<1>2. CASE EnterMounting(p)
  BY <1>2, AwayReviewed DEF EnterMounting, Copying
<1>3. CASE CreateBranch(p)
  BY <1>3, AwayReviewed DEF CreateBranch, Copying
<1>4. CASE MountRoot(p)
  <2>1. UNCHANGED <<mode, accepted>>
    BY <1>4 DEF MountRoot
  <2>2. CASE NextRoot(p, IF proc[p].cmd = "run" THEN "create-branch"
                                               ELSE "mount", "launch")
    BY <2>1, <2>2, AwayReviewed DEF Copying
  <2>3. CASE Fail(p) \/ Stop(p) \/ Goto(p, "unwind")
    BY <2>1, <2>3, AwayReviewed DEF Copying
  <2> QED BY <1>4, <2>2, <2>3 DEF MountRoot
<1>5. CASE LaunchAgent(p)
  BY <1>5, AwayReviewed DEF LaunchAgent, Copying
<1>6. CASE AgentWrites(p)
  BY <1>6 DEF AgentWrites, ReviewedInv, Reviewed
<1>7. CASE EnterFinalizing(p)
  BY <1>7, AwayReviewed DEF EnterFinalizing, Copying
<1>8. CASE FreezeRoot(p)
  BY <1>8, AwayReviewed DEF FreezeRoot, Copying
<1>9. CASE RecordFrozen(p)
  BY <1>9, AwayReviewed DEF RecordFrozen, Copying
<1>10. CASE DecideSession(p)
  <2>1. CASE FinalizeFails(p)
    BY <1>10, <2>1, StopFacts, OthersReviewed DEF DecideSession
  <2>2. ASSUME NEW w \in BOOLEAN,
               proc' = [proc EXCEPT ![p].pc = "quiesce",
                           ![p].seen = Reviewable,
                           ![p].dec = WithWarnings(
                               Evaluate(mode, Reviewable, Flagged), w)]
        PROVE  ReviewedInv'
    <3>1. /\ \A q \in Procs \ {p} : proc'[q] = proc[q]
          /\ proc'[p].pc = "quiesce"
          /\ proc'[p].seen = Reviewable
          /\ proc'[p].dec = WithWarnings(Evaluate(mode, Reviewable, Flagged), w)
      BY <2>2, ProcFields DEF TypeOK, ProcState
    <3>2. WithWarnings(Evaluate(mode, Reviewable, Flagged), w) = "auto-commit"
             => mode \in AutoModes /\ Reviewable \cap Flagged = {}
      BY DEF WithWarnings, Evaluate, AutoModes
    <3>3. Reviewable \cap Ignored = {}
      BY DEF Reviewable
    <3>4. mode' = mode /\ accepted' = accepted
      BY <1>10 DEF DecideSession
    <3>5. Reviewed(p)'
      BY <3>1, <3>2, <3>3, <3>4 DEF Reviewed
    <3> QED BY <3>1, <3>4, <3>5, OthersReviewed
  <2> QED BY <1>10, <2>1, <2>2 DEF DecideSession
<1>11. CASE Quiesce(p)
  <2>1. /\ OnlyMoves(p)
        /\ proc'[p].pc \in {"apply", "close", "discard"}
        /\ proc'[p].pc = "apply" => proc[p].dec = "auto-commit"
    BY <1>11, JumpFacts DEF Quiesce
  <2>2. Reviewed(p) /\ At(p, "quiesce") /\ UNCHANGED <<mode, accepted>>
    BY <1>11 DEF Quiesce, ReviewedInv
  <2>3. Reviewed(p)'
    BY <2>1, <2>2 DEF Reviewed, OnlyMoves, At
  <2> QED BY <2>1, <2>2, <2>3, OthersReviewed DEF OnlyMoves
<1>12. CASE ApplyRoot(p)
  <2>1. CASE Goto(p, "discard")
    <3>1. OnlyMoves(p) /\ proc'[p].pc = "discard"
      BY <2>1, JumpFacts
    <3>2. Reviewed(p) /\ At(p, "apply") /\ UNCHANGED <<mode, accepted>>
      BY <1>12 DEF ApplyRoot, ReviewedInv
    <3>3. Reviewed(p)'
      BY <3>1, <3>2 DEF Reviewed, OnlyMoves, At
    <3> QED BY <3>1, <3>2, <3>3, OthersReviewed DEF OnlyMoves
  <2>2. CASE Fail(p)
    BY <1>12, <2>2, StopFacts, OthersReviewed DEF ApplyRoot
  <2> QED BY <1>12, <2>1, <2>2 DEF ApplyRoot
<1>13. CASE DiscardRoot(p)
  <2>1. CASE NextRoot(p, IF proc[p].dec = "auto-commit" THEN "apply"
                                                       ELSE "discard", "close")
    <3>1. /\ OnlyMoves(p)
          /\ proc'[p].pc \in {"apply", "discard", "close"}
          /\ proc'[p].pc = "apply" => proc[p].dec = "auto-commit"
      BY <2>1, JumpFacts
    <3>2. Reviewed(p) /\ At(p, "discard") /\ UNCHANGED <<mode, accepted>>
      BY <1>13 DEF DiscardRoot, ReviewedInv
    <3>3. Reviewed(p)'
      BY <3>1, <3>2 DEF Reviewed, OnlyMoves, At
    <3> QED BY <3>1, <3>2, <3>3, OthersReviewed DEF OnlyMoves
  <2>2. CASE Fail(p) \/ FinalizeFails(p)
    BY <1>13, <2>2, StopFacts, OthersReviewed DEF DiscardRoot
  <2> QED BY <1>13, <2>1, <2>2 DEF DiscardRoot
<1>14. CASE CloseSession(p)
  <2>1. ClosedState(proc[p].dec) \in States BY DEF ClosedState
  <2>2. CASE Stop(p) \/ FinalizeFails(p)
    BY <1>14, <2>2, StopFacts, OthersReviewed DEF CloseSession
  <2>3. CASE \/ GotoAs(p, "unwind", ClosedState(proc[p].dec))
             \/ GotoAs(p, "unsaved", ClosedState(proc[p].dec))
    <3>1. OnlyMoves(p) /\ proc'[p].pc \in {"unwind", "unsaved"}
      BY <2>1, <2>3, JumpFacts
    <3> QED BY <1>14, <3>1, OthersReviewed DEF CloseSession, OnlyMoves, Copying
  <2> QED BY <1>14, <2>2, <2>3 DEF CloseSession
<1>15. CASE Unwind(p)
  BY <1>15, AwayReviewed DEF Unwind, Copying
<1> QED BY <1>1, <1>2, <1>3, <1>4, <1>5, <1>6, <1>7, <1>8, <1>9, <1>10, <1>11,
           <1>12, <1>13, <1>14, <1>15

\* So does every action of the operator.
LEMMA OperatorReviewed ==
    ASSUME TypeOK, ReviewedInv, NEW p \in Procs,
           \/ BeginResume(p) \/ BeginFinish(p) \/ BeginCommit(p)
           \/ BeginAbort(p) \/ BeginThaw(p) \/ BeginTouch(p) \/ Touch(p)
           \/ CommitStatus(p) \/ CommitApply(p) \/ CommitDiscard(p)
           \/ CommitClose(p) \/ AbortDiscard(p) \/ AbortClose(p)
           \/ ThawRoot(p) \/ ThawClose(p) \/ Cleanup(p) \/ RecordResume(p)
    PROVE  ReviewedInv'
<1> USE DEF outside, history, Labels, States
<1>1. ASSUME NEW c \in Commands, NEW S \in SUBSET States,
             NEW l \in Labels \ Copying, Load(p, c, S, l)
      PROVE  ReviewedInv'
  <2>1. /\ \A q \in Procs \ {p} : proc'[q] = proc[q]
        /\ proc'[p].pc = l
    BY <1>1 DEF Load, TypeOK, Idle
  <2> QED BY <1>1, <2>1, OthersReviewed DEF Load
<1>2. CASE \/ BeginResume(p) \/ BeginFinish(p) \/ BeginCommit(p)
           \/ BeginAbort(p) \/ BeginThaw(p) \/ BeginTouch(p)
  BY <1>2, <1>1
     DEF BeginResume, BeginFinish, BeginCommit, BeginAbort, BeginThaw,
         BeginTouch, ResumableStates, FinishableStates, TerminalStates,
         Commands, Copying
<1>3. CASE Touch(p)
  BY <1>3, AwayReviewed DEF Touch, Copying
<1>4. CASE CommitStatus(p)
  <2>1. CASE Stop(p) /\ UNCHANGED accepted
    BY <1>4, <2>1, StopFacts, OthersReviewed DEF CommitStatus
  <2>2. ASSUME NEW S \in SUBSET Reviewable, accepted' = accepted \cup S,
               proc' = [proc EXCEPT ![p].pc = "commit-apply", ![p].seen = S]
        PROVE  ReviewedInv'
    <3>1. /\ \A q \in Procs \ {p} : proc'[q] = proc[q]
          /\ proc'[p].pc = "commit-apply"
          /\ proc'[p].seen = S
      BY <2>2, ProcFields DEF TypeOK, ProcState
    <3>2. S \cap Ignored = {} BY DEF Reviewable
    <3>3. Reviewed(p)' BY <2>2, <3>1, <3>2 DEF Reviewed
    <3> QED BY <1>4, <2>2, <3>1, <3>3, OthersReviewed DEF CommitStatus
  <2>3. proc[p].cmd \in Commands \cup {"none"}
    BY ProcFields DEF ProcState
  <2>4. Choices(proc[p].cmd) \subseteq SUBSET Reviewable
    BY <2>3, ChosenReviewable
  <2> HIDE DEF Labels, States, outside, history
  <2> QED BY <1>4, <2>1, <2>2, <2>4 DEF CommitStatus
<1>5. CASE CommitApply(p)
  <2>1. CASE \/ NextRoot(p, "commit-apply", "commit-discard")
             \/ Goto(p, "commit-discard")
    <3>1. OnlyMoves(p) /\ proc'[p].pc \in {"commit-apply", "commit-discard"}
      BY <2>1, JumpFacts
    <3>2. Reviewed(p) /\ At(p, "commit-apply") /\ UNCHANGED <<mode, accepted>>
      BY <1>5 DEF CommitApply, ReviewedInv
    <3>3. Reviewed(p)'
      BY <3>1, <3>2 DEF Reviewed, OnlyMoves, At
    <3> QED BY <3>1, <3>2, <3>3, OthersReviewed DEF OnlyMoves
  <2>2. CASE Stop(p)
    BY <1>5, <2>2, StopFacts, OthersReviewed DEF CommitApply
  <2> QED BY <1>5, <2>1, <2>2 DEF CommitApply
<1>6. CASE CommitDiscard(p)
  BY <1>6, AwayReviewed DEF CommitDiscard, Copying
<1>7. CASE CommitClose(p)
  BY <1>7, AwayReviewed DEF CommitClose, Copying
<1>8. CASE AbortDiscard(p)
  BY <1>8, AwayReviewed DEF AbortDiscard, Copying
<1>9. CASE AbortClose(p)
  BY <1>9, AwayReviewed DEF AbortClose, Copying
<1>10. CASE ThawRoot(p)
  BY <1>10, AwayReviewed DEF ThawRoot, Copying
<1>11. CASE ThawClose(p)
  BY <1>11, AwayReviewed DEF ThawClose, Copying
<1>12. CASE Cleanup(p)
  BY <1>12 DEF Cleanup, ReviewedInv, Reviewed
<1>13. CASE RecordResume(p)
  BY <1>13, AwayReviewed DEF RecordResume, Copying
<1> QED BY <1>2, <1>3, <1>4, <1>5, <1>6, <1>7, <1>8, <1>9, <1>10, <1>11, <1>12,
           <1>13

\* The two copies, and the steps that leave the base and accepted work alone.
LEMMA BaseStep ==
    ASSUME TypeOK, ReviewedInv, OnlyReviewedInBase, [Next]_vars
    PROVE  OnlyReviewedInBase'
<1> USE DEF outside, history
<1>1. ASSUME UNCHANGED <<mode, base>>, accepted \subseteq accepted'
      PROVE  OnlyReviewedInBase'
  BY <1>1 DEF OnlyReviewedInBase
<1>2. ASSUME NEW p \in Procs, ApplyRoot(p) PROVE OnlyReviewedInBase'
  <2>1. /\ mode \in AutoModes
        /\ proc[p].seen \subseteq Changes
        /\ proc[p].seen \cap (Flagged \cup Ignored) = {}
    BY <1>2, ProcFields DEF ApplyRoot, ReviewedInv, Reviewed, At
  <2>2. base' \subseteq base \cup proc[p].seen
    BY <1>2 DEF ApplyRoot, Copied
  <2>3. UNCHANGED <<mode, accepted>>
    BY <1>2 DEF ApplyRoot
  <2> QED BY <2>1, <2>2, <2>3 DEF OnlyReviewedInBase
<1>3. ASSUME NEW p \in Procs, CommitApply(p) PROVE OnlyReviewedInBase'
  <2>1. proc[p].seen \subseteq accepted /\ proc[p].seen \cap Ignored = {}
    BY <1>3 DEF CommitApply, ReviewedInv, Reviewed, At
  <2>2. base' \subseteq base \cup proc[p].seen
    BY <1>3 DEF CommitApply, Applied, Copied
  <2>3. UNCHANGED <<mode, accepted>>
    BY <1>3 DEF CommitApply
  <2> QED BY <2>1, <2>2, <2>3 DEF OnlyReviewedInBase
<1>4. ASSUME NEW p \in Procs, Begin(p) PROVE OnlyReviewedInBase'
  BY <1>1, <1>4
     DEF Begin, CreateSession, BeginResume, BeginFinish, BeginCommit,
         BeginAbort, BeginThaw, BeginTouch, Load, Cleanup
<1>5. ASSUME NEW p \in Procs, Proceed(p) PROVE OnlyReviewedInBase'
  <2>1. CASE \/ EnterMounting(p) \/ CreateBranch(p) \/ MountRoot(p)
             \/ LaunchAgent(p) \/ FinishSession(p) \/ FreezeRoot(p)
             \/ RecordFrozen(p) \/ DecideSession(p) \/ Quiesce(p)
             \/ DiscardRoot(p) \/ CloseSession(p) \/ Unwind(p)
    BY <1>1, <2>1
       DEF EnterMounting, CreateBranch, MountRoot, LaunchAgent, FinishSession,
           EnterFinalizing, FreezeRoot, RecordFrozen, DecideSession, Quiesce,
           DiscardRoot, CloseSession, Unwind
  <2>2. CASE \/ CommitStatus(p) \/ CommitDiscard(p) \/ CommitClose(p)
             \/ AbortDiscard(p) \/ AbortClose(p) \/ ThawRoot(p)
             \/ ThawClose(p) \/ Touch(p) \/ RecordResume(p)
    BY <1>1, <2>2
       DEF CommitStatus, CommitDiscard, CommitClose, AbortDiscard, AbortClose,
           ThawRoot, ThawClose, Touch, RecordResume
  <2> QED BY <1>2, <1>3, <1>5, <2>1, <2>2 DEF Proceed
<1>6. ASSUME NEW p \in Procs, AgentExits(p) \/ AgentWrites(p) \/ Kill(p)
      PROVE  OnlyReviewedInBase'
  BY <1>1, <1>6 DEF AgentExits, EnterFinalizing, AgentWrites, Kill
<1>7. CASE Reboot
  BY <1>1, <1>7 DEF Reboot
<1>8. CASE UNCHANGED vars
  BY <1>1, <1>8 DEF vars
<1> QED BY <1>4, <1>5, <1>6, <1>7, <1>8 DEF Next

\* Every step keeps the lists reviewed.
LEMMA ReviewedStep ==
    ASSUME TypeOK, ReviewedInv, [Next]_vars
    PROVE  ReviewedInv'
<1>1. ASSUME NEW p \in Procs, Begin(p) \/ Proceed(p) \/ AgentExits(p) \/ AgentWrites(p)
      PROVE  ReviewedInv'
  BY <1>1, SupervisorReviewed, OperatorReviewed
     DEF Begin, Proceed, AgentExits, FinishSession
<1>2. ASSUME NEW p \in Procs, Kill(p) PROVE ReviewedInv'
  BY <1>2, StopFacts, OthersReviewed DEF Kill, history
<1>3. CASE Reboot
  BY <1>3 DEF Reboot, ReviewedInv, Reviewed, Idle
<1>4. CASE UNCHANGED vars
  BY <1>4 DEF vars, ReviewedInv, Reviewed
<1> QED BY <1>1, <1>2, <1>3, <1>4 DEF Next

\* Only work that policy allows or a human accepted reaches the base, and no
\* ignored change ever does: for every number of processes and roots, however
\* commands overlap, fail, are killed and are started again.
THEOREM ReviewedWork == Spec => []OnlyReviewedInBase
<1> DEFINE IInv == TypeOK /\ ReviewedInv /\ OnlyReviewedInBase
<1>1. Init => IInv
  <2>1. Init => TypeOK BY TypeInit
  <2>2. Init => ReviewedInv BY DEF Init, ReviewedInv, Reviewed, Idle
  <2>3. Init => OnlyReviewedInBase BY DEF Init, OnlyReviewedInBase
  <2> QED BY <2>1, <2>2, <2>3
<1>2. IInv /\ [Next]_vars => IInv'
  BY TypeStep, ReviewedStep, BaseStep
<1>3. IInv => OnlyReviewedInBase
  OBVIOUS
<1> QED BY <1>1, <1>2, <1>3, PTL DEF Spec

-----------------------------------------------------------------------------
(***************************************************************************)
(* No work is lost, with every overlap of commands that does not reopen a   *)
(* session, and with kills and reboots between any two steps.               *)
(*                                                                          *)
(* A process that discards a branch decided steps before, from a list of    *)
(* changes it read then.  The invariant says why that list is still right:  *)
(* after the list is read no work can appear, because by then every branch  *)
(* that an agent still sees is frozen or gone.                              *)
(***************************************************************************)

\* A command that reopens a session, or an agent's, runs alone with its kind.
Supervising == {"run", "resume", "thaw"}

\* finalize_session once all branches are frozen, and the commit commands.
Finalizing == {"frozen", "decide", "quiesce", "apply", "discard", "close"}
Committing == {"commit-status", "commit-apply", "commit-discard", "commit-close"}

Booting(p) == proc[p].pc \in {"created", "create-branch", "mount", "launch",
                              "resumed", "agent"}

\* Which command a process is running where.
Placed(p) ==
    /\ proc[p].pc = "idle" => proc[p] = Idle
    /\ proc[p].cmd = "none" => proc[p].pc = "idle"
    /\ proc[p].pc \in {"created", "create-branch"} => proc[p].cmd = "run"
    /\ proc[p].pc \in {"mount", "launch", "agent", "unwind", "unsaved"}
          => proc[p].cmd \in {"run", "resume"}
    /\ proc[p].pc = "resumed" => proc[p].cmd = "resume"
    /\ proc[p].pc = "finish" => proc[p].cmd = "finish" /\ proc[p].at = 1
    /\ proc[p].pc \in Finalizing \cup {"freeze"}
          => proc[p].cmd \in {"run", "resume", "finish"}
    /\ proc[p].pc \in Committing => proc[p].cmd \in {"commit", "review", "patch"}
    /\ proc[p].pc \in {"thaw", "thaw-close"} => proc[p].cmd = "thaw"
    /\ proc[p].pc \in {"abort-discard", "abort-close"} => proc[p].cmd = "abort"
    /\ proc[p].pc = "touch" => proc[p].cmd = "finish-turn"
    /\ proc[p].pc = "commit-status" => proc[p].at = 1
    /\ proc[p].pc = "commit-apply" /\ proc[p].cmd = "patch" => proc[p].at = 1
    /\ Booting(p) => proc[p].st \in {"created", "mounting", "running"}

PlacedInv == \A p \in Procs : Placed(p)

\* A step of p leaves the other processes alone, and p's command and list.
Alone(p) == \A q \in Procs \ {p} : proc'[q] = proc[q]
Keeps(p) ==
    /\ Alone(p)
    /\ proc'[p].cmd = proc[p].cmd
    /\ proc'[p].seen = proc[p].seen
    /\ proc'[p].dec = proc[p].dec

\* Every field of a process after each helper.
LEMMA GotoFields ==
    ASSUME TypeOK, NEW p \in Procs, NEW l \in Labels, Goto(p, l)
    PROVE  /\ Keeps(p) /\ proc'[p].pc = l
           /\ proc'[p].st = proc[p].st /\ proc'[p].at = proc[p].at
BY ProcFields DEF TypeOK, ProcState, Goto, Keeps, Alone

\* A jump with a new Session state.
LEMMA GotoAsFields ==
    ASSUME TypeOK, NEW p \in Procs, NEW l \in Labels, NEW s \in States,
           GotoAs(p, l, s)
    PROVE  /\ Keeps(p) /\ proc'[p].pc = l
           /\ proc'[p].st = s /\ proc'[p].at = proc[p].at
BY ProcFields DEF TypeOK, ProcState, GotoAs, Keeps, Alone

\* A loop over the roots goes on with the next, or ends after the last.
LEMMA NextRootFields ==
    ASSUME TypeOK, NEW p \in Procs, NEW l \in Labels, NEW m \in Labels,
           NextRoot(p, l, m)
    PROVE  /\ Keeps(p) /\ proc'[p].st = proc[p].st
           /\ \/ /\ proc[p].at < NRoots
                 /\ proc'[p].pc = l /\ proc'[p].at = proc[p].at + 1
              \/ /\ proc[p].at = NRoots
                 /\ proc'[p].pc = m /\ proc'[p].at = 1
<1>1. proc[p].at \in 1 .. NRoots /\ NRoots \in Nat
  BY ProcFields, SessionAssumption DEF Roots
<1>2. proc[p] \in ProcState BY ProcFields
<1>3. CASE proc[p].at < NRoots
  <2>1. proc' = [proc EXCEPT ![p].pc = l, ![p].at = proc[p].at + 1]
    BY <1>3 DEF NextRoot, MyRoot
  <2> QED BY <1>2, <1>3, <2>1 DEF TypeOK, ProcState, Keeps, Alone
<1>4. CASE ~(proc[p].at < NRoots)
  <2>1. proc' = [proc EXCEPT ![p].pc = m, ![p].at = 1]
    BY <1>4 DEF NextRoot, MyRoot
  <2>2. proc[p].at = NRoots BY <1>1, <1>4
  <2> QED BY <1>2, <2>1, <2>2 DEF TypeOK, ProcState, Keeps, Alone
<1> QED BY <1>3, <1>4

\* In short: where a loop goes.
LEMMA LoopsTo ==
    ASSUME TypeOK, NEW p \in Procs, NEW l \in Labels, NEW m \in Labels,
           NextRoot(p, l, m)
    PROVE  /\ Alone(p) /\ proc'[p].pc \in {l, m}
           /\ proc'[p].st = proc[p].st /\ proc'[p].cmd = proc[p].cmd
BY NextRootFields DEF Keeps

\* What is left of a process that stopped.
LEMMA StopFields ==
    ASSUME TypeOK, NEW p \in Procs, Stop(p)
    PROVE  Alone(p) /\ proc'[p] = Idle
BY DEF TypeOK, Stop, Alone

\* _fail() of a supervisor goes on to unmount, or, in a launch, ends it.
Failing(p) ==
    /\ Keeps(p) /\ proc'[p].st = "failed"
    /\ \/ proc'[p].pc = "unwind" /\ disk' = "failed"
       \/ proc'[p].pc = "unsaved" /\ disk' = disk /\ proc[p].pc \notin Launching

LEMMA FailFields ==
    ASSUME TypeOK, NEW p \in Procs, Fail(p)
    PROVE  /\ disk' \in {disk, "failed"}
           /\ \/ proc[p].cmd = "finish" /\ Alone(p) /\ proc'[p] = Idle
              \/ /\ proc[p].pc \in Launching /\ Alone(p) /\ proc'[p] = Idle
                 /\ disk' = disk
              \/ proc[p].cmd # "finish" /\ Failing(p)
BY StopFields, GotoAsFields DEF Fail, Failing, Save, Labels, States

\* An exception out of finalize_session.
LEMMA FinalizeFailsFields ==
    ASSUME TypeOK, NEW p \in Procs, FinalizeFails(p)
    PROVE  \/ /\ proc[p].cmd = "finish" \/ proc[p].pc \in Launching
              /\ Alone(p) /\ proc'[p] = Idle /\ disk' = disk
           \/ proc[p].cmd \in {"run", "resume"} /\ Failing(p)
BY FailFields, StopFields DEF FinalizeFails

\* In short: where a failure leads, and what it can have saved.
LEMMA FailsTo ==
    ASSUME TypeOK, NEW p \in Procs, Fail(p) \/ FinalizeFails(p)
    PROVE  /\ Alone(p) /\ disk' \in {disk, "failed"}
           /\ \/ proc'[p] = Idle
              \/ /\ proc'[p].pc \in {"unwind", "unsaved"}
                 /\ proc'[p].st = "failed" /\ proc'[p].cmd = proc[p].cmd
BY FailFields, FinalizeFailsFields DEF Failing, Keeps

\* A command that has loaded the record.
LEMMA LoadFields ==
    ASSUME TypeOK, NEW p \in Procs, NEW c \in Commands, NEW l \in Labels,
           NEW allowed \in SUBSET States, Load(p, c, allowed, l)
    PROVE  /\ Alone(p)
           /\ proc'[p].pc = l /\ proc'[p].cmd = c /\ proc'[p].st = disk
           /\ proc'[p].at = 1 /\ proc'[p].seen = {} /\ proc'[p].dec = "none"
           /\ proc[p].pc = "idle" /\ disk \in allowed
           /\ c \in Overlapping \/ \A q \in Procs : proc[q].pc = "idle"
BY DEF Load, Start, At, TypeOK, Idle, Alone

\* A session that store.create() made.
LEMMA CreateFields ==
    ASSUME TypeOK, NEW p \in Procs, CreateSession(p)
    PROVE  /\ Alone(p)
           /\ proc'[p].pc = "created" /\ proc'[p].cmd = "run"
           /\ proc'[p].st = "created" /\ proc'[p].at = 1
           /\ proc[p].pc = "idle" /\ disk = "unborn" /\ disk' = "created"
BY DEF CreateSession, Start, Save, At, TypeOK, Idle, Alone

-----------------------------------------------------------------------------
\* A step of p: everything that p does and is done to p alone.
Acts(p) == Begin(p) \/ Proceed(p) \/ AgentExits(p) \/ AgentWrites(p) \/ Kill(p)

\* A process that stands still, or has stopped, or closes in on nothing.
LEMMA RestPlaced ==
    ASSUME NEW p \in Procs, proc'[p] = Idle \/ (Placed(p) /\ proc'[p] = proc[p])
    PROVE  Placed(p)'
BY DEF Placed, Booting, Idle, Finalizing, Committing

\* The steps of a supervisor are the ones its command has.
LEMMA SupervisorPlaced ==
    ASSUME TypeOK, NEW p \in Procs, Placed(p),
           \/ CreateSession(p) \/ EnterMounting(p) \/ CreateBranch(p)
           \/ MountRoot(p) \/ LaunchAgent(p) \/ AgentWrites(p)
           \/ AgentExits(p) \/ FinishSession(p) \/ FreezeRoot(p) \/ RecordFrozen(p)
           \/ DecideSession(p) \/ Quiesce(p) \/ ApplyRoot(p)
           \/ DiscardRoot(p) \/ CloseSession(p) \/ Unwind(p)
    PROVE  Alone(p) /\ Placed(p)'
<1> USE DEF Labels, States
<1>f. ASSUME Fail(p) \/ FinalizeFails(p), proc[p].cmd \in {"run", "resume", "finish"}
      PROVE  Alone(p) /\ Placed(p)'
  <2>1. CASE proc'[p] = Idle
    BY <1>f, <2>1, FailsTo, RestPlaced
  <2>2. CASE proc'[p] # Idle
    <3>1. /\ Alone(p) /\ proc'[p].pc \in {"unwind", "unsaved"}
          /\ proc'[p].cmd \in {"run", "resume"}
      BY <1>f, <2>2, FailFields, FinalizeFailsFields DEF Failing, Keeps
    <3> QED BY <3>1 DEF Placed, Booting, Finalizing, Committing
  <2> QED BY <2>1, <2>2
<1>s. Stop(p) => Alone(p) /\ Placed(p)'
  BY StopFields, RestPlaced
<1>1. CASE CreateSession(p)
  BY <1>1, CreateFields DEF Placed, Booting, Finalizing, Committing
<1>2. CASE EnterMounting(p)
  BY <1>2, <1>f, GotoAsFields
     DEF EnterMounting, At, Keeps, Placed, Booting, Finalizing, Committing
<1>3. CASE CreateBranch(p)
  BY <1>3, <1>f, GotoFields
     DEF CreateBranch, At, Keeps, Placed, Booting, Finalizing, Committing
<1>4. CASE MountRoot(p)
  <2>1. CASE NextRoot(p, IF proc[p].cmd = "run" THEN "create-branch"
                                               ELSE "mount", "launch")
    <3>1. PICK l \in {"create-branch", "mount"} :
             /\ l = "create-branch" => proc[p].cmd = "run"
             /\ NextRoot(p, l, "launch")
      BY <2>1
    <3>2. /\ Keeps(p) /\ proc'[p].st = proc[p].st
          /\ proc'[p].pc = l \/ proc'[p].pc = "launch"
      BY <3>1, NextRootFields
    <3>3. proc[p].pc = "mount" BY <1>4 DEF MountRoot, At
    <3> QED BY <3>1, <3>2, <3>3 DEF Keeps, Placed, Booting, Finalizing, Committing
  <2>2. CASE Goto(p, "unwind")
    BY <1>4, <2>2, GotoFields
       DEF MountRoot, At, Keeps, Placed, Booting, Finalizing, Committing
  <2> QED BY <1>4, <1>f, <1>s, <2>1, <2>2 DEF MountRoot, At, Placed
<1>5. CASE LaunchAgent(p)
  BY <1>5, <1>f, GotoAsFields
     DEF LaunchAgent, At, Keeps, Placed, Booting, Finalizing, Committing
<1>6. CASE AgentWrites(p)
  BY <1>6, RestPlaced DEF AgentWrites, Alone
<1>7. CASE AgentExits(p) \/ FinishSession(p)
  BY <1>7, <1>f, GotoAsFields
     DEF AgentExits, FinishSession, EnterFinalizing, At, Keeps, Placed, Booting,
         Finalizing, Committing
<1>8. CASE FreezeRoot(p)
  <2>1. proc[p].pc = "freeze" BY <1>8 DEF FreezeRoot, At
  <2>2. CASE NextRoot(p, "freeze", "frozen")
    BY <2>1, <2>2, LoopsTo DEF Placed, Booting, Finalizing, Committing
  <2> QED BY <1>8, <1>f, <2>1, <2>2 DEF FreezeRoot, Placed
<1>9. CASE RecordFrozen(p)
  BY <1>9, <1>f, GotoAsFields
     DEF RecordFrozen, At, Keeps, Placed, Booting, Finalizing, Committing
<1>10. CASE DecideSession(p)
  <2>1. ASSUME NEW d, proc' = [proc EXCEPT ![p].pc = "quiesce",
                                  ![p].seen = Reviewable, ![p].dec = d]
        PROVE  Alone(p) /\ Placed(p)'
    <3>1. /\ Alone(p)
          /\ proc'[p].pc = "quiesce" /\ proc'[p].cmd = proc[p].cmd
      BY <2>1, ProcFields DEF TypeOK, ProcState, Alone
    <3> QED BY <1>10, <3>1
            DEF DecideSession, At, Placed, Booting, Finalizing, Committing
  <2> QED BY <1>10, <1>f, <2>1 DEF DecideSession, At, Placed, Finalizing
<1>11. CASE Quiesce(p)
  <2>1. PICK l \in {"apply", "close", "discard"} : Goto(p, l)
    BY <1>11 DEF Quiesce
  <2> QED BY <1>11, <2>1, GotoFields
          DEF Quiesce, At, Keeps, Placed, Booting, Finalizing, Committing
<1>12. CASE ApplyRoot(p)
  BY <1>12, <1>f, GotoFields
     DEF ApplyRoot, At, Keeps, Placed, Booting, Finalizing, Committing
<1>13. CASE DiscardRoot(p)
  <2>1. CASE NextRoot(p, IF proc[p].dec = "auto-commit" THEN "apply"
                                                       ELSE "discard", "close")
    <3>1. PICK l \in {"apply", "discard"} : NextRoot(p, l, "close")
      BY <2>1
    <3>2. Keeps(p) /\ proc'[p].pc \in {"apply", "discard", "close"}
      BY <3>1, NextRootFields
    <3>3. proc[p].pc = "discard" BY <1>13 DEF DiscardRoot, At
    <3> QED BY <3>2, <3>3 DEF Keeps, Placed, Booting, Finalizing, Committing
  <2> QED BY <1>13, <1>f, <2>1 DEF DiscardRoot, At, Placed, Finalizing
<1>14. CASE CloseSession(p)
  <2>1. ClosedState(proc[p].dec) \in States BY DEF ClosedState
  <2>2. proc[p].pc = "close" /\ proc[p].cmd \in {"run", "resume", "finish"}
    BY <1>14 DEF CloseSession, At, Placed, Finalizing
  <2>3. CASE Stop(p) \/ FinalizeFails(p)
    BY <1>f, <1>s, <2>2, <2>3
  <2>4. ASSUME NEW l \in {"unwind", "unsaved"}, proc[p].cmd # "finish",
               GotoAs(p, l, ClosedState(proc[p].dec))
        PROVE  Alone(p) /\ Placed(p)'
    <3>1. Keeps(p) /\ proc'[p].pc \in {"unwind", "unsaved"}
      BY <2>1, <2>4, GotoAsFields
    <3> QED BY <2>2, <2>4, <3>1 DEF Keeps, Placed, Booting, Finalizing, Committing
  <2> QED BY <1>14, <2>3, <2>4 DEF CloseSession
<1>15. CASE Unwind(p)
  BY <1>15, <1>s DEF Unwind
<1> QED BY <1>1, <1>2, <1>3, <1>4, <1>5, <1>6, <1>7, <1>8, <1>9, <1>10, <1>11,
           <1>12, <1>13, <1>14, <1>15

\* So are those of the operator's commands.
LEMMA OperatorPlaced ==
    ASSUME TypeOK, NEW p \in Procs, Placed(p),
           \/ BeginResume(p) \/ BeginFinish(p) \/ BeginCommit(p)
           \/ BeginAbort(p) \/ BeginThaw(p) \/ BeginTouch(p) \/ Touch(p)
           \/ CommitStatus(p) \/ CommitApply(p) \/ CommitDiscard(p)
           \/ CommitClose(p) \/ AbortDiscard(p) \/ AbortClose(p)
           \/ ThawRoot(p) \/ ThawClose(p) \/ Cleanup(p) \/ RecordResume(p)
           \/ Kill(p)
    PROVE  Alone(p) /\ Placed(p)'
<1> USE DEF Labels, States
<1>s. Stop(p) => Alone(p) /\ Placed(p)'
  BY StopFields, RestPlaced
<1>1. CASE BeginResume(p)
  BY <1>1, LoadFields
     DEF BeginResume, ResumableStates, Commands, Placed, Booting, Finalizing, Committing
<1>2. CASE BeginFinish(p)
  BY <1>2, LoadFields
     DEF BeginFinish, FinishableStates, Commands, Placed, Booting, Finalizing, Committing
<1>3. CASE BeginCommit(p)
  BY <1>3, LoadFields
     DEF BeginCommit, Commands, Placed, Booting, Finalizing, Committing
<1>4. CASE BeginAbort(p) \/ BeginThaw(p) \/ BeginTouch(p)
  BY <1>4, LoadFields
     DEF BeginAbort, BeginThaw, BeginTouch, TerminalStates, Commands, Placed, Booting,
         Finalizing, Committing
<1>5. CASE \/ Touch(p) \/ CommitClose(p) \/ AbortClose(p) \/ ThawClose(p) \/ Kill(p)
  BY <1>5, <1>s DEF Touch, CommitClose, AbortClose, ThawClose, Kill
<1>6. CASE CommitStatus(p)
  <2>1. ASSUME NEW S, proc' = [proc EXCEPT ![p].pc = "commit-apply", ![p].seen = S]
        PROVE  Alone(p) /\ Placed(p)'
    <3>1. /\ Alone(p) /\ proc'[p].pc = "commit-apply"
          /\ proc'[p].cmd = proc[p].cmd /\ proc'[p].at = proc[p].at
      BY <2>1, ProcFields DEF TypeOK, ProcState, Alone
    <3> QED BY <1>6, <3>1
            DEF CommitStatus, At, Placed, Booting, Finalizing, Committing
  <2> QED BY <1>6, <1>s, <2>1 DEF CommitStatus
<1>7. CASE CommitApply(p)
  <2>1. CASE Goto(p, "commit-discard")
    BY <1>7, <2>1, GotoFields
       DEF CommitApply, At, Keeps, Placed, Booting, Finalizing, Committing
  <2>2. CASE proc[p].cmd # "patch" /\ NextRoot(p, "commit-apply", "commit-discard")
    <3>1. proc[p].pc = "commit-apply" BY <1>7 DEF CommitApply, At
    <3> QED BY <2>2, <3>1, LoopsTo DEF Placed, Booting, Finalizing, Committing
  <2> QED BY <1>7, <1>s, <2>1, <2>2 DEF CommitApply
<1>8. CASE CommitDiscard(p)
  <2>1. proc[p].pc = "commit-discard" /\ NextRoot(p, "commit-discard", "commit-close")
    BY <1>8 DEF CommitDiscard, At
  <2> QED BY <2>1, LoopsTo DEF Placed, Booting, Finalizing, Committing
<1>9. CASE AbortDiscard(p)
  <2>1. CASE NextRoot(p, "abort-discard", "abort-close")
    <3>1. proc[p].pc = "abort-discard" BY <1>9 DEF AbortDiscard, At
    <3> QED BY <2>1, <3>1, LoopsTo DEF Placed, Booting, Finalizing, Committing
  <2> QED BY <1>9, <1>s, <2>1 DEF AbortDiscard
<1>10. CASE ThawRoot(p)
  <2>1. CASE NextRoot(p, "thaw", "thaw-close")
    <3>1. proc[p].pc = "thaw" BY <1>10 DEF ThawRoot, At
    <3> QED BY <2>1, <3>1, LoopsTo DEF Placed, Booting, Finalizing, Committing
  <2> QED BY <1>10, <1>s, <2>1 DEF ThawRoot
<1>11. CASE Cleanup(p)
  BY <1>11, RestPlaced DEF Cleanup, Alone
<1>12. CASE RecordResume(p)
  BY <1>12, <1>s, GotoFields
     DEF RecordResume, At, Keeps, Placed, Booting, Finalizing, Committing
<1> QED BY <1>1, <1>2, <1>3, <1>4, <1>5, <1>6, <1>7, <1>8, <1>9, <1>10, <1>11,
           <1>12

\* Whatever p does leaves the others alone, where p's command is.
LEMMA ActsPlaced ==
    ASSUME TypeOK, NEW p \in Procs, Placed(p), Acts(p)
    PROVE  Alone(p) /\ Placed(p)'
BY SupervisorPlaced, OperatorPlaced DEF Acts, Begin, Proceed

\* A command that runs stays itself until it stops, and saves only states of
\* the table.
LEMMA CommandKept ==
    ASSUME TypeOK, NEW p \in Procs,
           Proceed(p) \/ AgentExits(p) \/ AgentWrites(p) \/ Kill(p)
    PROVE  proc'[p].cmd \in {proc[p].cmd, "none"} /\ (disk' = disk \/ disk' \in States)
<1>n. \A l, m \in Labels : NextRoot(p, l, m) => proc'[p].cmd = proc[p].cmd
  <2>1. ASSUME NEW l \in Labels, NEW m \in Labels, NextRoot(p, l, m)
        PROVE  proc'[p].cmd = proc[p].cmd
    BY <2>1, NextRootFields DEF Keeps
  <2> QED BY <2>1
<1> USE DEF Labels, States
<1>f. Fail(p) \/ FinalizeFails(p)
         => proc'[p].cmd \in {proc[p].cmd, "none"} /\ (disk' = disk \/ disk' \in States)
  BY FailsTo DEF Idle
<1>s. Stop(p) => proc'[p].cmd = "none"
  BY StopFields DEF Idle
<1>g. \A l \in Labels : Goto(p, l) => proc'[p].cmd = proc[p].cmd
  BY GotoFields DEF Keeps
<1>a. \A l \in Labels, s \in States : GotoAs(p, l, s) => proc'[p].cmd = proc[p].cmd
  BY GotoAsFields DEF Keeps
<1>t. proc[p].st \in States BY ProcFields
<1>1. CASE \/ EnterMounting(p) \/ CreateBranch(p) \/ LaunchAgent(p) \/ AgentWrites(p)
  BY <1>1, <1>f, <1>g, <1>a
     DEF EnterMounting, CreateBranch, LaunchAgent, AgentWrites, Save
<1>2. CASE MountRoot(p)
  <2>1. NextRoot(p, IF proc[p].cmd = "run" THEN "create-branch"
                                          ELSE "mount", "launch")
          => proc'[p].cmd = proc[p].cmd
    BY <1>n
  <2> QED BY <1>2, <1>f, <1>g, <1>s, <1>t, <2>1 DEF MountRoot, Save
<1>3. CASE \/ AgentExits(p) \/ FinishSession(p) \/ RecordFrozen(p) \/ RecordResume(p)
  BY <1>3, <1>a, <1>f, <1>g, <1>s, <1>t
     DEF AgentExits, FinishSession, EnterFinalizing, RecordFrozen, RecordResume, Save
<1>4. CASE FreezeRoot(p) \/ ApplyRoot(p)
  BY <1>4, <1>f, <1>n, <1>g DEF FreezeRoot, ApplyRoot
<1>5. CASE DecideSession(p)
  <2>1. ASSUME NEW d, proc' = [proc EXCEPT ![p].pc = "quiesce",
                                  ![p].seen = Reviewable, ![p].dec = d]
        PROVE  proc'[p].cmd = proc[p].cmd
    BY <2>1, ProcFields DEF TypeOK, ProcState
  <2> QED BY <1>5, <1>f, <2>1 DEF DecideSession
<1>6. CASE Quiesce(p)
  <2>1. PICK l \in {"apply", "close", "discard"} : Goto(p, l)
    BY <1>6 DEF Quiesce
  <2> QED BY <1>6, <1>g, <2>1 DEF Quiesce
<1>7. CASE DiscardRoot(p)
  <2>1. NextRoot(p, IF proc[p].dec = "auto-commit" THEN "apply"
                                                  ELSE "discard", "close")
          => proc'[p].cmd = proc[p].cmd
    BY <1>n
  <2> QED BY <1>7, <1>f, <2>1 DEF DiscardRoot
<1>8. CASE CloseSession(p)
  <2>1. ClosedState(proc[p].dec) \in States BY DEF ClosedState
  <2> QED BY <1>8, <1>f, <1>s, <1>a, <2>1 DEF CloseSession, Save
<1>9. CASE CommitStatus(p)
  <2>1. ASSUME NEW S, proc' = [proc EXCEPT ![p].pc = "commit-apply", ![p].seen = S]
        PROVE  proc'[p].cmd = proc[p].cmd
    BY <2>1, ProcFields DEF TypeOK, ProcState
  <2> QED BY <1>9, <1>s, <2>1 DEF CommitStatus
<1>10. CASE CommitApply(p)
  BY <1>10, <1>s, <1>g, <1>n, <1>t DEF CommitApply, Save
<1>11. CASE CommitDiscard(p) \/ AbortDiscard(p)
  BY <1>11, <1>s, <1>n, <1>t
     DEF CommitDiscard, AbortDiscard, Discarded, NotDiscarded, Save
<1>12. CASE \/ Unwind(p) \/ CommitClose(p) \/ AbortClose(p) \/ ThawClose(p)
            \/ Touch(p) \/ Kill(p)
  BY <1>12, <1>s, <1>t
     DEF Unwind, CommitClose, AbortClose, ThawClose, Touch, Kill, Save, outside
<1>13. CASE ThawRoot(p)
  BY <1>13, <1>s, <1>n DEF ThawRoot
<1> QED BY <1>1, <1>2, <1>3, <1>4, <1>5, <1>6, <1>7, <1>8, <1>9, <1>10, <1>11,
           <1>12, <1>13 DEF Proceed

\* No command that may overlap reopens a session.
NoReopening == Overlapping \cap {"thaw", "resume"} = {}

\* At most one agent's command is running, or none before the session exists.
OneSupervisor ==
    /\ \A p, q \in Procs :
          (proc[p].cmd \in Supervising /\ proc[q].cmd \in Supervising) => p = q
    /\ disk = "unborn" => \A p \in Procs : proc[p].cmd = "none"

\* What a command that begins finds: its record, and nobody else if it may not
\* overlap.
LEMMA BeginFacts ==
    ASSUME TypeOK, NEW p \in Procs, Begin(p)
    PROVE  \/ CreateSession(p)
           \/ Cleanup(p)
           \/ /\ Alone(p) /\ proc[p].pc = "idle" /\ disk' = disk
              /\ proc'[p].st = disk /\ proc'[p].at = 1
              /\ disk \in States
              /\ \/ /\ proc'[p].cmd = "resume" /\ proc'[p].pc = "resumed"
                    /\ disk = "running"
                 \/ /\ proc'[p].cmd = "finish" /\ proc'[p].pc = "finish"
                    /\ disk = "running"
                 \/ /\ proc'[p].cmd \in {"commit", "review", "patch"}
                    /\ proc'[p].pc = "commit-status"
                    /\ disk \in {"pending-review", "frozen"}
                 \/ /\ proc'[p].cmd = "abort" /\ proc'[p].pc = "abort-discard"
                    /\ disk \in States \ TerminalStates
                 \/ /\ proc'[p].cmd = "thaw" /\ proc'[p].pc = "thaw"
                    /\ disk = "pending-review"
                 \/ proc'[p].cmd = "finish-turn" /\ proc'[p].pc = "touch"
              /\ \/ proc'[p].cmd \in Overlapping
                 \/ \A q \in Procs : proc[q].pc = "idle"
<1> USE DEF Labels, States, Commands
<1>0. \A c \in Commands, l \in Labels, S \in SUBSET States :
         Load(p, c, S, l) => disk' = disk
  BY DEF Load
<1>1. CASE BeginResume(p)
  BY <1>0, <1>1, LoadFields DEF BeginResume, ResumableStates
<1>2. CASE BeginFinish(p)
  BY <1>0, <1>2, LoadFields DEF BeginFinish, FinishableStates
<1>3. CASE BeginCommit(p)
  BY <1>0, <1>3, LoadFields DEF BeginCommit
<1>4. CASE BeginAbort(p)
  BY <1>0, <1>4, LoadFields DEF BeginAbort, TerminalStates
<1>5. CASE BeginThaw(p)
  BY <1>0, <1>5, LoadFields DEF BeginThaw
<1>6. CASE BeginTouch(p)
  BY <1>0, <1>6, LoadFields DEF BeginTouch
<1> QED BY <1>1, <1>2, <1>3, <1>4, <1>5, <1>6 DEF Begin

\* Only one command with an agent runs, as long as none of them overlaps.
LEMMA OneSupervisorStep ==
    ASSUME NoReopening, TypeOK, PlacedInv, OneSupervisor, NEW p \in Procs, Acts(p)
    PROVE  OneSupervisor'
<1> USE DEF PlacedInv
<1>0. Alone(p) /\ Placed(p)' BY ActsPlaced
<1>1. CASE Proceed(p) \/ AgentExits(p) \/ AgentWrites(p) \/ Kill(p)
  <2>1. proc'[p].cmd \in {proc[p].cmd, "none"} /\ (disk' = disk \/ disk' \in States)
    BY <1>1, CommandKept
  <2> QED BY <1>0, <2>1 DEF OneSupervisor, Alone, Supervising, States
<1>2. CASE CreateSession(p)
  BY <1>0, <1>2, CreateFields DEF OneSupervisor, Alone, Supervising
<1>3. CASE Cleanup(p)
  BY <1>3 DEF Cleanup, OneSupervisor, Save
<1>4. CASE Begin(p) /\ ~CreateSession(p) /\ ~Cleanup(p)
  <2>1. disk' \in States /\ "unborn" \notin States
    BY <1>4, BeginFacts DEF States
  <2>2. proc'[p].cmd \notin Supervising
           \/ \A q \in Procs : proc[q].cmd = "none"
    BY <1>4, BeginFacts DEF NoReopening, Supervising, Placed, Idle
  <2> QED BY <1>0, <2>1, <2>2 DEF OneSupervisor, Alone, Supervising
<1> QED BY <1>1, <1>2, <1>3, <1>4 DEF Acts

-----------------------------------------------------------------------------
\* An abort-branch, done or not, opens nothing and brings nothing back.
LEMMA DiscardOpensNothing ==
    ASSUME TypeOK, NEW r \in Roots, Abort(r) \/ AbortFails(r)
    PROVE  \A s \in Roots : /\ branch'[s] = "open" => branch[s] = "open"
                            /\ Live(s)' => Live(s)
BY DEF TypeOK, Abort, AbortFails, Live

\* What each step can do to branches, changes and base: only the steps that
\* make or thaw a branch open one, only a new branch brings one back, only the
\* agent adds changes, and nothing takes a change out of the base.
LEMMA OutsideStep ==
    ASSUME TypeOK, NEW p \in Procs, Acts(p)
    PROVE  /\ CreateBranch(p) \/ ThawRoot(p)
                 \/ \A r \in Roots : branch'[r] = "open" => branch[r] = "open"
           /\ CreateBranch(p) \/ \A r \in Roots : Live(r)' => Live(r)
           /\ AgentWrites(p) \/ delta' = delta
           /\ base \subseteq base'
<1> DEFINE Quiet == branch' = branch /\ delta' = delta /\ base' = base
<1> USE DEF outside
<1>q. ASSUME Quiet
      PROVE  /\ \A r \in Roots : branch'[r] = "open" => branch[r] = "open"
             /\ \A r \in Roots : Live(r)' => Live(r)
             /\ delta' = delta
             /\ base \subseteq base'
  BY <1>q DEF Live
<1>1. CASE \/ EnterMounting(p) \/ MountRoot(p) \/ LaunchAgent(p) \/ FinishSession(p)
           \/ RecordFrozen(p) \/ DecideSession(p) \/ Quiesce(p) \/ CloseSession(p)
           \/ Unwind(p) \/ AgentExits(p) \/ Kill(p) \/ RecordResume(p)
  <2>1. Quiet
    BY <1>1
       DEF EnterMounting, MountRoot, LaunchAgent, FinishSession, EnterFinalizing,
           RecordFrozen, DecideSession, Quiesce, CloseSession, Unwind, AgentExits,
           Kill, RecordResume
  <2> QED BY <1>q, <2>1
<1>2. CASE \/ CommitStatus(p) \/ CommitClose(p) \/ AbortClose(p) \/ ThawClose(p)
           \/ Touch(p) \/ Begin(p)
  <2>1. Quiet
    BY <1>2
       DEF CommitStatus, CommitClose, AbortClose, ThawClose, Touch, Begin,
           CreateSession, BeginResume, BeginFinish, BeginCommit, BeginAbort,
           BeginThaw, BeginTouch, Load, Cleanup
  <2> QED BY <1>q, <2>1
<1>3. CASE CreateBranch(p)
  BY <1>3 DEF CreateBranch
<1>4. CASE AgentWrites(p)
  BY <1>4 DEF AgentWrites, Live
<1>5. CASE FreezeRoot(p)
  BY <1>5, ProcFields DEF FreezeRoot, TypeOK, Live, MyRoot
<1>6. CASE ThawRoot(p)
  BY <1>6, ProcFields DEF ThawRoot, TypeOK, Live, MyRoot
<1>7. CASE ApplyRoot(p) \/ CommitApply(p)
  BY <1>7 DEF ApplyRoot, CommitApply, Live
<1>8. CASE DiscardRoot(p)
  BY <1>8, ProcFields, DiscardOpensNothing DEF DiscardRoot, MyRoot
<1>9. CASE CommitDiscard(p) \/ AbortDiscard(p)
  <2>1. \/ branch' = branch
        \/ Abort(MyRoot(p)) \/ AbortFails(MyRoot(p))
    BY <1>9 DEF CommitDiscard, AbortDiscard, Discarded, NotDiscarded
  <2>2. delta' = delta /\ base' = base
    BY <1>9 DEF CommitDiscard, AbortDiscard
  <2> QED BY <1>q, <2>1, <2>2, ProcFields, DiscardOpensNothing DEF MyRoot
<1> QED BY <1>1, <1>2, <1>3, <1>4, <1>5, <1>6, <1>7, <1>8, <1>9
        DEF Acts, Proceed

\* So the reviewable work grows only while a session starts or its agent runs.
LEMMA ReviewableShrinks ==
    ASSUME TypeOK, NEW p \in Procs, Acts(p), ~CreateBranch(p), ~AgentWrites(p)
    PROVE  Reviewable' \subseteq Reviewable
<1>1. RootOf \in [Changes -> Roots] /\ delta \subseteq Changes
  BY SessionAssumption DEF TypeOK
<1> QED BY <1>1, OutsideStep DEF Reviewable

-----------------------------------------------------------------------------
\* A run on its way to the agent is the first command of its session: only an
\* abort can overlap it, because every other command needs a later record.
Starting(p) ==
    /\ proc[p].cmd = "run"
    /\ proc[p].pc \in {"created", "create-branch", "mount", "launch"}

Late == {"running", "finalizing", "frozen", "pending-review"}

NotYetStarted ==
    \A q \in Procs : Starting(q) =>
       /\ disk \notin Late
       /\ \A p \in Procs \ {q} : /\ proc[p].cmd \in {"none", "abort", "finish-turn"}
                                 /\ proc[p].st \notin Late

\* Where a process comes from: the steps that lead to each place in the code.
Origin(p) ==
    LET into == proc'[p].pc
    IN  /\ into = "created" => CreateSession(p)
        /\ into = "create-branch" => EnterMounting(p) \/ MountRoot(p)
        /\ into = "mount" => CreateBranch(p) \/ MountRoot(p) \/ RecordResume(p)
        /\ into = "launch" => MountRoot(p)
        /\ into = "agent" => LaunchAgent(p) \/ AgentWrites(p)
        /\ into = "resumed" => BeginResume(p)
        /\ into = "finish" => BeginFinish(p)
        /\ into = "freeze" => AgentExits(p) \/ FinishSession(p) \/ FreezeRoot(p)
        /\ into = "frozen" => FreezeRoot(p)
        /\ into = "decide" => RecordFrozen(p)
        /\ into = "quiesce" => DecideSession(p)
        /\ into = "apply" => Quiesce(p) \/ DiscardRoot(p)
        /\ into = "discard" => Quiesce(p) \/ ApplyRoot(p) \/ DiscardRoot(p)
        /\ into = "close" => Quiesce(p) \/ DiscardRoot(p)
        /\ into = "commit-status" => BeginCommit(p)
        /\ into = "commit-apply" => CommitStatus(p) \/ CommitApply(p)
        /\ into = "commit-discard" => CommitApply(p) \/ CommitDiscard(p)
        /\ into = "commit-close" => CommitDiscard(p)
        /\ into = "abort-discard" => BeginAbort(p) \/ AbortDiscard(p)
        /\ into = "abort-close" => AbortDiscard(p)
        /\ into \in {"thaw", "thaw-close"} => BeginThaw(p) \/ ThawRoot(p)

\* No step leads anywhere else.
LEMMA OriginStep ==
    ASSUME TypeOK, NEW p \in Procs, Placed(p), Acts(p)
    PROVE  Origin(p)
<1>n. \A l, m \in Labels : NextRoot(p, l, m) => proc'[p].pc \in {l, m}
  <2>1. ASSUME NEW l \in Labels, NEW m \in Labels, NextRoot(p, l, m)
        PROVE  proc'[p].pc \in {l, m}
    BY <2>1, NextRootFields
  <2> QED BY <2>1
<1> USE DEF Labels, States, Commands
<1>e. Fail(p) \/ FinalizeFails(p) \/ Stop(p) => proc'[p].pc \in {"unwind", "unsaved", "idle"}
  BY FailsTo, StopFields DEF Idle
<1>g. \A l \in Labels : Goto(p, l) => proc'[p].pc = l
  BY GotoFields
<1>a. \A l \in Labels, s \in States : GotoAs(p, l, s) => proc'[p].pc = l
  BY GotoAsFields
<1>x. proc'[p].pc \in {"unwind", "unsaved", "idle", "touch"} => Origin(p)
  BY DEF Origin
<1>1. CASE CreateSession(p)
  BY <1>1, CreateFields DEF Origin
<1>2. CASE EnterMounting(p) \/ RecordFrozen(p) \/ LaunchAgent(p)
  <2>1. \/ EnterMounting(p) /\ proc'[p].pc \in {"create-branch", "unwind", "unsaved", "idle"}
        \/ RecordFrozen(p) /\ proc'[p].pc \in {"decide", "unwind", "unsaved", "idle"}
        \/ LaunchAgent(p) /\ proc'[p].pc \in {"agent", "unwind", "unsaved", "idle"}
    BY <1>2, <1>a, <1>e DEF EnterMounting, RecordFrozen, LaunchAgent
  <2> QED BY <2>1 DEF Origin
<1>3. CASE CreateBranch(p) \/ RecordResume(p)
  <2>1. proc'[p].pc \in {"mount", "unwind", "unsaved", "idle"}
    BY <1>3, <1>g, <1>e DEF CreateBranch, RecordResume
  <2> QED BY <1>3, <2>1 DEF Origin
<1>4. CASE MountRoot(p)
  <2>1. proc'[p].pc \in {"create-branch", "mount", "launch", "unwind", "unsaved", "idle"}
    BY <1>4, <1>n, <1>g, <1>e DEF MountRoot
  <2> QED BY <1>4, <2>1 DEF Origin
<1>5. CASE AgentWrites(p)
  <2>1. proc'[p].pc = "agent" BY <1>5 DEF AgentWrites, At
  <2> QED BY <1>5, <2>1 DEF Origin
<1>6. CASE AgentExits(p) \/ FinishSession(p)
  <2>1. proc'[p].pc \in {"freeze", "unwind", "unsaved", "idle"}
    BY <1>6, <1>a, <1>e DEF AgentExits, FinishSession, EnterFinalizing
  <2> QED BY <1>6, <2>1 DEF Origin
<1>7. CASE FreezeRoot(p)
  <2>1. proc'[p].pc \in {"freeze", "frozen", "unwind", "unsaved", "idle"}
    BY <1>7, <1>n, <1>e DEF FreezeRoot
  <2> QED BY <1>7, <2>1 DEF Origin
<1>8. CASE DecideSession(p)
  <2>1. ASSUME NEW d, proc' = [proc EXCEPT ![p].pc = "quiesce",
                                  ![p].seen = Reviewable, ![p].dec = d]
        PROVE  proc'[p].pc = "quiesce"
    BY <2>1, ProcFields DEF TypeOK, ProcState
  <2>2. proc'[p].pc \in {"quiesce", "unwind", "unsaved", "idle"}
    BY <1>8, <1>e, <2>1 DEF DecideSession
  <2> QED BY <1>8, <2>2 DEF Origin
<1>9. CASE Quiesce(p)
  <2>1. PICK l \in {"apply", "close", "discard"} : Goto(p, l)
    BY <1>9 DEF Quiesce
  <2>2. proc'[p].pc \in {"apply", "close", "discard"} BY <1>g, <2>1
  <2> QED BY <1>9, <2>2 DEF Origin
<1>10. CASE ApplyRoot(p)
  <2>1. proc'[p].pc \in {"discard", "unwind", "unsaved", "idle"}
    BY <1>10, <1>g, <1>e DEF ApplyRoot
  <2> QED BY <1>10, <2>1 DEF Origin
<1>11. CASE DiscardRoot(p)
  <2>1. proc'[p].pc \in {"apply", "discard", "close", "unwind", "unsaved", "idle"}
    BY <1>11, <1>n, <1>e DEF DiscardRoot
  <2> QED BY <1>11, <2>1 DEF Origin
<1>12. CASE CloseSession(p)
  <2>1. ClosedState(proc[p].dec) \in States BY DEF ClosedState
  <2>2. proc'[p].pc \in {"unwind", "unsaved", "idle"}
    BY <1>12, <2>1, <1>a, <1>e DEF CloseSession
  <2> QED BY <2>2, <1>x
<1>13. CASE \/ Unwind(p) \/ CommitClose(p) \/ AbortClose(p) \/ ThawClose(p)
            \/ Touch(p) \/ Kill(p)
  BY <1>13, <1>e, <1>x DEF Unwind, CommitClose, AbortClose, ThawClose, Touch, Kill
<1>14. CASE CommitStatus(p)
  <2>1. ASSUME NEW S, proc' = [proc EXCEPT ![p].pc = "commit-apply", ![p].seen = S]
        PROVE  proc'[p].pc = "commit-apply"
    BY <2>1, ProcFields DEF TypeOK, ProcState
  <2>2. proc'[p].pc \in {"commit-apply", "unwind", "unsaved", "idle"}
    BY <1>14, <1>e, <2>1 DEF CommitStatus
  <2> QED BY <1>14, <2>2 DEF Origin
<1>15. CASE CommitApply(p)
  <2>1. proc'[p].pc \in {"commit-apply", "commit-discard", "unwind", "unsaved", "idle"}
    BY <1>15, <1>n, <1>g, <1>e DEF CommitApply
  <2> QED BY <1>15, <2>1 DEF Origin
<1>16. CASE CommitDiscard(p)
  <2>1. proc'[p].pc \in {"commit-discard", "commit-close"}
    BY <1>16, <1>n DEF CommitDiscard
  <2> QED BY <1>16, <2>1 DEF Origin
<1>17. CASE AbortDiscard(p)
  <2>1. proc'[p].pc \in {"abort-discard", "abort-close", "unwind", "unsaved", "idle"}
    BY <1>17, <1>n, <1>e DEF AbortDiscard
  <2> QED BY <1>17, <2>1 DEF Origin
<1>18. CASE ThawRoot(p)
  <2>1. proc'[p].pc \in {"thaw", "thaw-close", "unwind", "unsaved", "idle"}
    BY <1>18, <1>n, <1>e DEF ThawRoot
  <2> QED BY <1>18, <2>1 DEF Origin
<1>19. CASE Begin(p) /\ ~CreateSession(p)
  <2>1. CASE BeginResume(p)
    BY <2>1, LoadFields DEF BeginResume, ResumableStates, Origin
  <2>2. CASE BeginFinish(p)
    BY <2>2, LoadFields DEF BeginFinish, FinishableStates, Origin
  <2>3. CASE BeginCommit(p)
    BY <2>3, LoadFields DEF BeginCommit, Origin
  <2>4. CASE BeginAbort(p)
    BY <2>4, LoadFields DEF BeginAbort, TerminalStates, Origin
  <2>5. CASE BeginThaw(p)
    BY <2>5, LoadFields DEF BeginThaw, Origin
  <2>6. CASE BeginTouch(p)
    BY <2>6, LoadFields DEF BeginTouch, Origin
  <2>7. CASE Cleanup(p)
    BY <2>7, <1>x DEF Cleanup, Start, At
  <2> QED BY <1>19, <2>1, <2>2, <2>3, <2>4, <2>5, <2>6, <2>7 DEF Begin
<1> QED BY <1>1, <1>2, <1>3, <1>4, <1>5, <1>6, <1>7, <1>8, <1>9, <1>10, <1>11,
           <1>12, <1>13, <1>14, <1>15, <1>16, <1>17, <1>18, <1>19
        DEF Acts, Proceed

\* Where a process is when it takes each step.
LEMMA Guards ==
    ASSUME NEW p \in Procs
    PROVE  /\ EnterMounting(p) => proc[p].pc = "created"
           /\ CreateBranch(p) => proc[p].pc = "create-branch"
           /\ MountRoot(p) => proc[p].pc = "mount"
           /\ LaunchAgent(p) => proc[p].pc = "launch"
           /\ AgentExits(p) \/ AgentWrites(p) => proc[p].pc = "agent"
           /\ FinishSession(p) => proc[p].pc = "finish"
           /\ FreezeRoot(p) => proc[p].pc = "freeze"
           /\ RecordFrozen(p) => proc[p].pc = "frozen"
           /\ DecideSession(p) => proc[p].pc = "decide"
           /\ Quiesce(p) => proc[p].pc = "quiesce"
           /\ ApplyRoot(p) => proc[p].pc = "apply"
           /\ DiscardRoot(p) => proc[p].pc = "discard"
           /\ CloseSession(p) => proc[p].pc = "close"
           /\ Unwind(p) => proc[p].pc \in {"unwind", "unsaved"}
           /\ CommitStatus(p) => proc[p].pc = "commit-status"
           /\ CommitApply(p) => proc[p].pc = "commit-apply"
           /\ CommitDiscard(p) => proc[p].pc = "commit-discard"
           /\ CommitClose(p) => proc[p].pc = "commit-close"
           /\ AbortDiscard(p) => proc[p].pc = "abort-discard"
           /\ AbortClose(p) => proc[p].pc = "abort-close"
           /\ ThawRoot(p) => proc[p].pc = "thaw"
           /\ ThawClose(p) => proc[p].pc = "thaw-close"
           /\ Touch(p) => proc[p].pc = "touch"
           /\ RecordResume(p) => proc[p].pc = "resumed"
<1>1. /\ EnterMounting(p) => proc[p].pc = "created"
      /\ CreateBranch(p) => proc[p].pc = "create-branch"
      /\ MountRoot(p) => proc[p].pc = "mount"
      /\ LaunchAgent(p) => proc[p].pc = "launch"
  BY DEF At, EnterMounting, CreateBranch, MountRoot, LaunchAgent
<1>2. /\ AgentExits(p) => proc[p].pc = "agent"
      /\ AgentWrites(p) => proc[p].pc = "agent"
      /\ FinishSession(p) => proc[p].pc = "finish"
      /\ FreezeRoot(p) => proc[p].pc = "freeze"
      /\ RecordFrozen(p) => proc[p].pc = "frozen"
  BY DEF At, AgentExits, AgentWrites, FinishSession, FreezeRoot, RecordFrozen
<1>3. /\ DecideSession(p) => proc[p].pc = "decide"
      /\ ApplyRoot(p) => proc[p].pc = "apply"
      /\ DiscardRoot(p) => proc[p].pc = "discard"
      /\ CloseSession(p) => proc[p].pc = "close"
  BY DEF At, DecideSession, ApplyRoot, DiscardRoot, CloseSession
<1>4. /\ Quiesce(p) => proc[p].pc = "quiesce"
      /\ Unwind(p) => proc[p].pc \in {"unwind", "unsaved"}
  BY DEF At, Quiesce, Unwind
<1>5. /\ CommitStatus(p) => proc[p].pc = "commit-status"
      /\ CommitApply(p) => proc[p].pc = "commit-apply"
      /\ CommitDiscard(p) => proc[p].pc = "commit-discard"
      /\ CommitClose(p) => proc[p].pc = "commit-close"
  BY DEF At, CommitStatus, CommitApply, CommitDiscard, CommitClose
<1>6. /\ AbortDiscard(p) => proc[p].pc = "abort-discard"
      /\ AbortClose(p) => proc[p].pc = "abort-close"
      /\ ThawRoot(p) => proc[p].pc = "thaw"
      /\ ThawClose(p) => proc[p].pc = "thaw-close"
  BY DEF At, AbortDiscard, AbortClose, ThawRoot, ThawClose
<1>7. /\ Touch(p) => proc[p].pc = "touch"
      /\ RecordResume(p) => proc[p].pc = "resumed"
  BY DEF At, Touch, RecordResume
<1> QED BY <1>1, <1>2, <1>3, <1>4, <1>5, <1>6, <1>7

\* What a run does before its agent starts.
LEMMA StartingStep ==
    ASSUME TypeOK, NEW q \in Procs, Placed(q), Acts(q), Starting(q)'
    PROVE  \/ CreateSession(q)
           \/ Starting(q) /\ (disk' = disk \/ disk' = "mounting")
<1>1. Origin(q) BY OriginStep
<1>2. ~CreateSession(q) => proc[q].cmd = "run"
  <2>1. Proceed(q) \/ AgentExits(q) \/ AgentWrites(q) \/ Kill(q) => proc[q].cmd = "run"
    BY CommandKept DEF Starting
  <2>2. Begin(q) => CreateSession(q) \/ Cleanup(q)
    BY BeginFacts DEF Starting
  <2>3. Cleanup(q) => proc' = proc
    BY DEF Cleanup
  <2> QED BY <2>1, <2>2, <2>3 DEF Acts, Starting
<1>3. ~(Fail(q) \/ Stop(q) \/ Goto(q, "unwind"))
  BY FailsTo, StopFields, GotoFields DEF Starting, Labels, Idle
<1>4. CASE EnterMounting(q)
  BY <1>4, <1>2, <1>3 DEF EnterMounting, Save, At, Starting
<1>5. CASE CreateBranch(q)
  BY <1>5, <1>2, <1>3 DEF CreateBranch, At, Starting, Placed
<1>6. CASE MountRoot(q)
  BY <1>6, <1>2, <1>3 DEF MountRoot, At, Starting
<1>7. ~RecordResume(q) \/ CreateSession(q)
  BY <1>2 DEF RecordResume, At, Placed
<1> QED BY <1>1, <1>4, <1>5, <1>6, <1>7 DEF Origin, Starting

\* What else can go on meanwhile.
LEMMA AbortSteps ==
    ASSUME NEW p \in Procs, Placed(p), Acts(p),
           proc[p].cmd \in {"none", "abort", "finish-turn"}
    PROVE  Begin(p) \/ AbortDiscard(p) \/ AbortClose(p) \/ Touch(p) \/ Kill(p)
<1>1. CASE Proceed(p) \/ AgentExits(p) \/ AgentWrites(p)
  BY <1>1, Guards DEF Proceed, Placed, Finalizing, Committing
<1> QED BY <1>1 DEF Acts

\* Until the agent starts nobody finds a record that could be finished,
\* committed or thawed.
LEMMA NotYetStartedStep ==
    ASSUME TypeOK, PlacedInv, OneSupervisor, NotYetStarted, NEW p \in Procs, Acts(p)
    PROVE  NotYetStarted'
<1> SUFFICES ASSUME NEW q \in Procs, Starting(q)'
             PROVE  /\ disk' \notin Late
                    /\ \A s \in Procs \ {q} :
                          /\ proc'[s].cmd \in {"none", "abort", "finish-turn"}
                          /\ proc'[s].st \notin Late
  BY DEF NotYetStarted
<1>0. Alone(p) /\ Placed(p)' /\ Placed(p) /\ Placed(q)
  BY ActsPlaced DEF PlacedInv
<1>1. CASE p = q /\ CreateSession(p)
  <2>1. \A s \in Procs \ {q} : proc[s].cmd = "none" /\ proc[s].st = "created"
    BY <1>1, CreateFields DEF OneSupervisor, PlacedInv, Placed, Idle
  <2> QED BY <1>0, <1>1, <2>1, CreateFields DEF Alone, Late
<1>2. CASE p = q /\ ~CreateSession(p)
  BY <1>0, <1>2, StartingStep DEF Alone, NotYetStarted, Late
<1>3. CASE p # q
  <2>1. Starting(q) /\ p \in Procs \ {q}
    BY <1>0, <1>3 DEF Starting, Alone
  <2>2. /\ disk \notin Late
        /\ proc[p].cmd \in {"none", "abort", "finish-turn"}
        /\ proc[p].st \notin Late
    BY <2>1 DEF NotYetStarted
  <2>3. /\ disk' \notin Late
        /\ proc'[p].cmd \in {"none", "abort", "finish-turn"}
        /\ proc'[p].st \notin Late
    <3>1. CASE Begin(p)
      <4>1. ~CreateSession(p)
        BY <2>1 DEF CreateSession, OneSupervisor, Starting
      <4>2. Cleanup(p) => disk' = "removed" /\ proc' = proc
        BY DEF Cleanup, Save
      <4> QED BY <2>2, <3>1, <4>1, <4>2, BeginFacts DEF Late
    <3>s. Stop(p) => proc'[p].cmd = "none" /\ proc'[p].st = "created"
      BY StopFields DEF Idle
    <3>2. CASE AbortDiscard(p)
      <4>1. NextRoot(p, "abort-discard", "abort-close")
              => proc'[p].cmd = proc[p].cmd /\ proc'[p].st = proc[p].st
        BY NextRootFields DEF Labels, Keeps
      <4>2. disk' \in {disk, proc[p].st}
        BY <3>2 DEF AbortDiscard, Discarded, NotDiscarded, Save
      <4> QED BY <2>2, <3>2, <3>s, <4>1, <4>2 DEF AbortDiscard, Late
    <3>3. CASE AbortClose(p) \/ Touch(p) \/ Kill(p)
      BY <2>2, <3>3, <3>s DEF AbortClose, Touch, Kill, Save, Late
    <3> QED BY <1>0, <2>2, <3>1, <3>2, <3>3, AbortSteps
  <2>4. \A s \in Procs \ {p, q} : proc'[s] = proc[s]
    BY <1>0 DEF Alone
  <2> QED BY <2>1, <2>3, <2>4 DEF NotYetStarted
<1> QED BY <1>1, <1>2, <1>3

-----------------------------------------------------------------------------
\* While an agent may still start or run, `finish` freezes root after root ...
FreezingSeals ==
    \A p, q \in Procs : (Booting(q) /\ At(p, "freeze")) =>
       \A r \in Roots : r < MyRoot(p) => branch[r] # "open"

\* ... and once somebody reads or has read the frozen branches, none is open.
Sealed(s) == s \in {"frozen", "pending-review"}

Past(p) == proc[p].pc \in Finalizing \cup Committing \/ Sealed(proc[p].st)

SealedMeansFrozen ==
    \A q \in Procs : (Booting(q) /\ (Sealed(disk) \/ \E p \in Procs : Past(p))) =>
       \A r \in Roots : branch[r] # "open"

\* A command that boots its agent is the one supervisor.
LEMMA BootingSupervises ==
    ASSUME NEW p \in Procs, Placed(p), Booting(p)
    PROVE  proc[p].cmd \in {"run", "resume"} /\ proc[p].cmd \in Supervising
BY DEF Placed, Booting, Supervising

\* The step that begins to boot an agent finds nobody else.
LEMMA BootingStep ==
    ASSUME NoReopening, TypeOK, PlacedInv, OneSupervisor, NEW q \in Procs, Acts(q),
           Booting(q)', ~Booting(q)
    PROVE  /\ \A p \in Procs : proc[p] = Idle
           /\ proc'[q].pc \in {"created", "resumed"}
           /\ proc'[q].st \in {"created", "running"}
           /\ disk' \in {"created", "running"}
<1>1. Placed(q) /\ Origin(q)
  BY OriginStep DEF PlacedInv
<1>2. CASE proc'[q].pc = "created"
  <2>1. CreateSession(q) BY <1>1, <1>2 DEF Origin
  <2> QED BY <1>2, <2>1, CreateFields DEF OneSupervisor, PlacedInv, Placed
<1>3. CASE proc'[q].pc = "resumed"
  <2>1. BeginResume(q) BY <1>1, <1>3 DEF Origin
  <2>2. /\ proc'[q].cmd = "resume" /\ proc'[q].st = "running" /\ disk' = "running"
        /\ "resume" \in Overlapping \/ \A p \in Procs : proc[p].pc = "idle"
    <3>1. ResumableStates \in SUBSET States /\ "resumed" \in Labels
             /\ "resume" \in Commands
      BY DEF ResumableStates, States, Labels, Commands
    <3>2. Load(q, "resume", ResumableStates, "resumed")
      BY <2>1 DEF BeginResume
    <3>3. disk' = disk BY <3>2 DEF Load
    <3> QED BY <3>1, <3>2, <3>3, LoadFields DEF ResumableStates
  <2> QED BY <1>3, <2>2 DEF NoReopening, PlacedInv, Placed
<1>4. CASE proc'[q].pc \in {"create-branch", "mount", "launch", "agent"}
  <2>1. \/ EnterMounting(q) \/ MountRoot(q) \/ CreateBranch(q) \/ RecordResume(q)
        \/ LaunchAgent(q) \/ AgentWrites(q)
    BY <1>1, <1>4 DEF Origin
  <2> QED BY <2>1
          DEF Booting, EnterMounting, MountRoot, CreateBranch, RecordResume,
              LaunchAgent, AgentWrites, At
<1> QED BY <1>2, <1>3, <1>4 DEF Booting

\* Nothing is reopened under an agent: the one step that opens a branch then is
\* its own run's.
LEMMA StaysShut ==
    ASSUME NoReopening, TypeOK, PlacedInv, OneSupervisor, NEW p \in Procs, Acts(p),
           NEW q \in Procs, Booting(q)
    PROVE  \/ p = q /\ CreateBranch(q) /\ Starting(q)
           \/ \A r \in Roots : branch'[r] = "open" => branch[r] = "open"
<1>1. Placed(p) /\ proc[q].cmd \in Supervising
  BY BootingSupervises DEF PlacedInv
<1>2. ~ThawRoot(p)
  BY <1>1, BootingSupervises DEF ThawRoot, At, Placed, PlacedInv, OneSupervisor, Supervising
<1>3. CreateBranch(p) => p = q /\ Starting(q)
  BY <1>1 DEF CreateBranch, At, Placed, OneSupervisor, Supervising, Starting
<1> QED BY <1>2, <1>3, OutsideStep

\* Freezing goes on, whatever the other commands do.
LEMMA FreezingStep ==
    ASSUME NoReopening, TypeOK, PlacedInv, OneSupervisor, NotYetStarted, FreezingSeals,
           NEW s \in Procs, Acts(s)
    PROVE  FreezingSeals'
<1> SUFFICES ASSUME NEW p \in Procs, NEW q \in Procs, Booting(q)',
                    proc'[p].pc = "freeze", NEW r \in Roots, r < proc'[p].at
             PROVE  branch'[r] # "open"
  BY DEF FreezingSeals, At, MyRoot
<1>0. Alone(s) /\ Placed(s) /\ Origin(s) /\ (\A x \in Procs : Placed(x) /\ Placed(x)')
  <2>1. Alone(s) /\ Placed(s) /\ Placed(s)' /\ Origin(s)
    BY ActsPlaced, OriginStep DEF PlacedInv
  <2>2. \A x \in Procs \ {s} : Placed(x)'
    BY <2>1 DEF Alone, PlacedInv, Placed, Booting
  <2> QED BY <2>1, <2>2 DEF PlacedInv
<1>1. OneSupervisor' BY OneSupervisorStep
<1>2. p # q
  BY DEF Booting
<1>3. proc'[p].cmd = "finish"
  BY <1>0, <1>1, <1>2 DEF OneSupervisor, Placed, Booting, Supervising, Finalizing
<1>4. Booting(q)
  <2>1. CASE s = q
    <3>1. proc'[p] = proc[p] BY <1>0, <1>2, <2>1 DEF Alone
    <3> QED BY <2>1, <3>1, BootingStep DEF Idle
  <2>2. CASE s # q
    BY <1>0, <2>2 DEF Alone, Booting
  <2> QED BY <2>1, <2>2
<1>5. CASE s = p
  <2>1. AgentExits(p) \/ FinishSession(p) \/ FreezeRoot(p)
    BY <1>0, <1>5 DEF Origin
  <2>2. ~AgentExits(p)
    BY <1>0, <1>2, <1>4 DEF AgentExits, At, OneSupervisor, Placed, Booting, Supervising
  <2>3. CASE FinishSession(p)
    <3>1. proc[p].at = 1 BY <1>0, <1>5, <2>3 DEF FinishSession, At, Placed
    <3>2. proc'[p].at = 1
      <4>1. ~FinalizeFails(p) BY FailsTo DEF Idle
      <4> QED BY <2>3, <3>1, <4>1, GotoAsFields
              DEF FinishSession, EnterFinalizing, Labels, States
    <3> QED BY <3>2 DEF Roots
  <2>4. CASE FreezeRoot(p)
    <3>1. ~FinalizeFails(p)
      BY FailsTo DEF Idle
    <3>2. branch' = [branch EXCEPT ![MyRoot(p)] = "frozen"]
             /\ NextRoot(p, "freeze", "frozen") /\ proc[p].pc = "freeze"
      BY <2>4, <3>1 DEF FreezeRoot, At
    <3>3. proc'[p].at = proc[p].at + 1
      BY <3>2, NextRootFields DEF Labels
    <3>4. r < proc[p].at \/ r = proc[p].at
      BY <3>3, ProcFields, SessionAssumption DEF Roots
    <3>5. r < proc[p].at => branch[r] # "open"
      BY <1>4, <3>2 DEF FreezingSeals, At, MyRoot
    <3> QED BY <3>2, <3>4, <3>5 DEF MyRoot, TypeOK
  <2> QED BY <2>1, <2>2, <2>3, <2>4
<1>6. CASE s # p
  <2>1. proc[p] = proc'[p] BY <1>0, <1>6 DEF Alone
  <2>2. branch[r] # "open"
    BY <1>4, <2>1 DEF FreezingSeals, At, MyRoot
  <2>3. ~Starting(q)
    BY <1>2, <1>3, <2>1 DEF NotYetStarted
  <2> QED BY <1>4, <2>2, <2>3, StaysShut
<1> QED BY <1>5, <1>6

\* What the steps of a command save, and the state its Session object gets: but
\* for the two ends of finalize_session, no state to review.
LEMMA SaveStep ==
    ASSUME TypeOK, NEW p \in Procs,
           Proceed(p) \/ AgentExits(p) \/ AgentWrites(p) \/ Kill(p)
    PROVE  \/ RecordFrozen(p) \/ CloseSession(p)
           \/ /\ \/ disk' = disk \/ disk' = proc[p].st
                 \/ disk' \in {"mounting", "running", "finalizing", "failed",
                               "committed", "aborted"}
              /\ \/ proc'[p].st = proc[p].st
                 \/ proc'[p].st \in {"created", "mounting", "running", "finalizing",
                                     "failed"}
<1>n. \A l, m \in Labels : NextRoot(p, l, m) => proc'[p].st = proc[p].st
  <2>1. ASSUME NEW l \in Labels, NEW m \in Labels, NextRoot(p, l, m)
        PROVE  proc'[p].st = proc[p].st
    BY <2>1, NextRootFields
  <2> QED BY <2>1
<1>g. \A l \in Labels : Goto(p, l) => proc'[p].st = proc[p].st
  BY GotoFields
<1>a. \A l \in Labels, s \in States : GotoAs(p, l, s) => proc'[p].st = s
  BY GotoAsFields
<1>e. Fail(p) \/ FinalizeFails(p)
         => disk' \in {disk, "failed"} /\ proc'[p].st \in {"created", "failed"}
  BY FailsTo DEF Idle
<1>s. Stop(p) => proc'[p].st = "created"
  BY StopFields DEF Idle
<1> USE DEF Labels, States
<1>1. CASE \/ EnterMounting(p) \/ CreateBranch(p) \/ LaunchAgent(p) \/ AgentWrites(p)
  BY <1>1, <1>e, <1>g, <1>a
     DEF EnterMounting, CreateBranch, LaunchAgent, AgentWrites, Save
<1>2. CASE MountRoot(p)
  <2>1. NextRoot(p, IF proc[p].cmd = "run" THEN "create-branch"
                                          ELSE "mount", "launch")
          => proc'[p].st = proc[p].st
    BY <1>n
  <2> QED BY <1>2, <1>e, <1>g, <1>s, <2>1 DEF MountRoot, Save
<1>3. CASE AgentExits(p) \/ FinishSession(p) \/ RecordResume(p)
  BY <1>3, <1>a, <1>e, <1>g, <1>s
     DEF AgentExits, FinishSession, EnterFinalizing, RecordResume, Save
<1>4. CASE FreezeRoot(p) \/ ApplyRoot(p)
  BY <1>4, <1>e, <1>n, <1>g DEF FreezeRoot, ApplyRoot
<1>5. CASE DecideSession(p)
  <2>1. ASSUME NEW d, proc' = [proc EXCEPT ![p].pc = "quiesce",
                                  ![p].seen = Reviewable, ![p].dec = d]
        PROVE  proc'[p].st = proc[p].st
    BY <2>1, ProcFields DEF TypeOK, ProcState
  <2> QED BY <1>5, <1>e, <2>1 DEF DecideSession
<1>6. CASE Quiesce(p)
  <2>1. PICK l \in {"apply", "close", "discard"} : Goto(p, l)
    BY <1>6 DEF Quiesce
  <2> QED BY <1>6, <1>g, <2>1 DEF Quiesce
<1>7. CASE DiscardRoot(p)
  <2>1. NextRoot(p, IF proc[p].dec = "auto-commit" THEN "apply"
                                                  ELSE "discard", "close")
          => proc'[p].st = proc[p].st
    BY <1>n
  <2> QED BY <1>7, <1>e, <2>1 DEF DiscardRoot
<1>8. CASE CommitStatus(p)
  <2>1. ASSUME NEW S, proc' = [proc EXCEPT ![p].pc = "commit-apply", ![p].seen = S]
        PROVE  proc'[p].st = proc[p].st
    BY <2>1, ProcFields DEF TypeOK, ProcState
  <2> QED BY <1>8, <1>s, <2>1 DEF CommitStatus
<1>9. CASE CommitApply(p)
  BY <1>9, <1>s, <1>g, <1>n DEF CommitApply, Save
<1>10. CASE CommitDiscard(p) \/ AbortDiscard(p)
  BY <1>10, <1>s, <1>n DEF CommitDiscard, AbortDiscard, Discarded, NotDiscarded, Save
<1>11. CASE \/ Unwind(p) \/ CommitClose(p) \/ AbortClose(p) \/ ThawClose(p)
            \/ Touch(p) \/ Kill(p)
  BY <1>11, <1>s
     DEF Unwind, CommitClose, AbortClose, ThawClose, Touch, Kill, Save, outside
<1>12. CASE ThawRoot(p)
  BY <1>12, <1>s, <1>n DEF ThawRoot
<1> QED BY <1>1, <1>2, <1>3, <1>4, <1>5, <1>6, <1>7, <1>8, <1>9, <1>10, <1>11,
           <1>12 DEF Proceed

\* Only the last freeze begins the reading; every other step passes on what
\* somebody read before.
LEMMA PastStep ==
    ASSUME TypeOK, NEW p \in Procs, Placed(p), Acts(p),
           Sealed(disk') \/ Past(p)', ~Sealed(disk), ~Past(p)
    PROVE  /\ FreezeRoot(p) /\ proc[p].at = NRoots
           /\ branch' = [branch EXCEPT ![proc[p].at] = "frozen"]
           /\ proc[p].pc = "freeze"
<1>1. Origin(p) BY OriginStep
<1>2. proc[p].pc \notin Finalizing \cup Committing /\ ~Sealed(proc[p].st)
  BY DEF Past
<1>3. CASE Begin(p)
  <2>1. CreateSession(p) => ~Sealed(disk') /\ ~Past(p)'
    BY CreateFields DEF Sealed, Past, Finalizing, Committing
  <2>2. Cleanup(p) => ~Sealed(disk') /\ ~Past(p)'
    BY <1>2 DEF Cleanup, Save, Sealed, Past
  <2>3. BeginCommit(p) => Sealed(disk)
    BY DEF BeginCommit, Load, Sealed
  <2>4. proc'[p].pc \in Finalizing \cup Committing => proc'[p].pc = "commit-status"
    BY <1>2, <1>3, <2>1, <2>2, BeginFacts DEF Finalizing, Committing, Cleanup
  <2>5. proc'[p].pc \notin Finalizing \cup Committing
    BY <1>1, <2>3, <2>4 DEF Origin
  <2> QED BY <1>3, <2>1, <2>2, <2>5, BeginFacts DEF Past
<1>4. CASE Proceed(p) \/ AgentExits(p) \/ AgentWrites(p) \/ Kill(p)
  <2>1. ~RecordFrozen(p) /\ ~CloseSession(p)
    BY <1>2 DEF RecordFrozen, CloseSession, At, Finalizing
  <2>2. ~Sealed(disk') /\ ~Sealed(proc'[p].st)
    BY <1>2, <1>4, <2>1, SaveStep DEF Sealed
  <2>3. proc'[p].pc \in Finalizing \cup Committing
    BY <2>2 DEF Past
  <2>4. CASE proc'[p].pc = "commit-status"
    <3>1. BeginCommit(p) BY <1>1, <2>4 DEF Origin
    <3> QED BY <3>1 DEF BeginCommit, Load, Sealed
  <2>5. CASE proc'[p].pc # "commit-status" /\ ~FreezeRoot(p)
    <3>1. \/ RecordFrozen(p) \/ DecideSession(p) \/ Quiesce(p) \/ ApplyRoot(p)
          \/ DiscardRoot(p) \/ CommitStatus(p) \/ CommitApply(p) \/ CommitDiscard(p)
      BY <1>1, <2>3, <2>5 DEF Origin, Finalizing, Committing
    <3> QED BY <1>2, <3>1, Guards DEF Finalizing, Committing
  <2>6. CASE FreezeRoot(p)
    <3>1. proc[p].pc = "freeze" BY <2>6 DEF FreezeRoot, At
    <3>2. ~FinalizeFails(p)
      BY <2>3, FailsTo DEF Idle, Finalizing, Committing
    <3>3. /\ branch' = [branch EXCEPT ![proc[p].at] = "frozen"]
          /\ NextRoot(p, "freeze", "frozen")
      BY <2>6, <3>2 DEF FreezeRoot, MyRoot
    <3>4. proc[p].at = NRoots
      BY <2>3, <3>3, NextRootFields DEF Finalizing, Committing, Labels
    <3> QED BY <2>6, <3>1, <3>3, <3>4
  <2> QED BY <2>4, <2>5, <2>6
<1> QED BY <1>3, <1>4 DEF Acts

\* No step leaves a branch open that somebody has read.
LEMMA SealedStep ==
    ASSUME NoReopening, TypeOK, PlacedInv, OneSupervisor, NotYetStarted, FreezingSeals,
           SealedMeansFrozen, NEW p \in Procs, Acts(p)
    PROVE  SealedMeansFrozen'
<1> SUFFICES ASSUME NEW q \in Procs, Booting(q)',
                    Sealed(disk') \/ \E s \in Procs : Past(s)'
             PROVE  \A r \in Roots : branch'[r] # "open"
  BY DEF SealedMeansFrozen
<1>0. Alone(p) /\ Placed(p) /\ Placed(q)
  BY ActsPlaced DEF PlacedInv
<1>1. CASE ~Booting(q)
  <2>1. p = q BY <1>0, <1>1 DEF Alone, Booting
  <2>2. /\ \A s \in Procs : proc[s] = Idle
        /\ proc'[q].pc \in {"created", "resumed"}
        /\ proc'[q].st \in {"created", "running"}
        /\ disk' \in {"created", "running"}
    BY <1>1, <2>1, BootingStep
  <2>3. ~Sealed(disk') /\ \A s \in Procs : ~Past(s)'
    BY <1>0, <2>1, <2>2 DEF Alone, Sealed, Past, Idle, Finalizing, Committing
  <2> QED BY <2>3
<1>2. CASE Booting(q) /\ (Sealed(disk) \/ \E s \in Procs : Past(s))
  <2>1. \A r \in Roots : branch[r] # "open"
    BY <1>2 DEF SealedMeansFrozen
  <2>2. ~Starting(q)
    <3>1. Booting(q) => ~Past(q)
      BY <1>0 DEF Booting, Placed, Past, Sealed, Finalizing, Committing
    <3>2. \A s \in Procs \ {q} :
             (proc[s].cmd \in {"none", "abort", "finish-turn"} /\ proc[s].st \notin Late)
                => ~Past(s)
      BY DEF PlacedInv, Placed, Past, Sealed, Late, Finalizing, Committing
    <3> QED BY <1>2, <3>1, <3>2 DEF NotYetStarted, Late, Sealed
  <2> QED BY <1>2, <2>1, <2>2, StaysShut
<1>3. CASE Booting(q) /\ ~Sealed(disk) /\ \A s \in Procs : ~Past(s)
  <2>1. Sealed(disk') \/ Past(p)'
    <3>1. \A s \in Procs \ {p} : Past(s)' => Past(s)
      BY <1>0 DEF Alone, Past
    <3> QED BY <1>3, <3>1
  <2>2. /\ FreezeRoot(p) /\ proc[p].at = NRoots
        /\ branch' = [branch EXCEPT ![proc[p].at] = "frozen"]
        /\ proc[p].pc = "freeze"
    BY <1>0, <1>3, <2>1, PastStep
  <2>3. \A r \in Roots : r < NRoots => branch[r] # "open"
    BY <1>3, <2>2 DEF FreezingSeals, At, MyRoot
  <2>4. \A r \in Roots : r < NRoots \/ r = NRoots
    BY SessionAssumption DEF Roots
  <2> QED BY <2>2, <2>3, <2>4 DEF TypeOK
<1> QED BY <1>1, <1>2, <1>3

-----------------------------------------------------------------------------
\* The list a process works from is still complete, and what it is about to
\* discard is in the base: for every root it has passed when it commits, and for
\* the root it just copied when a session closes itself.
Settled(p) ==
    /\ At(p, "quiesce") => proc[p].dec \in Decisions
    /\ At(p, "apply") => proc[p].dec = "auto-commit"
    /\ At(p, "discard") => proc[p].dec \in {"auto-commit", "no-changes", "abort"}
    /\ proc[p].pc \in {"quiesce", "apply", "discard"} =>
          /\ proc[p].dec = "no-changes" => Reviewable = {}
          /\ proc[p].dec = "auto-commit" => Reviewable \subseteq proc[p].seen
    /\ (At(p, "discard") /\ proc[p].dec = "auto-commit") =>
          \A c \in Reviewable : RootOf[c] = MyRoot(p) => c \in base
    /\ (proc[p].pc \in {"commit-apply", "commit-discard"} /\ proc[p].cmd = "commit") =>
          Reviewable \subseteq proc[p].seen
    /\ At(p, "commit-apply") =>
          \A c \in Reviewable \cap proc[p].seen : RootOf[c] < MyRoot(p) => c \in base
    /\ (At(p, "commit-apply") /\ proc[p].cmd = "patch") =>
          \A c \in proc[p].seen : RootOf[c] = 1
    /\ At(p, "commit-discard") => Reviewable \cap proc[p].seen \subseteq base

SettledInv == \A p \in Procs : Settled(p)

\* A process that reads no list and copies nothing has nothing to settle.
Settling == {"quiesce", "apply", "discard", "commit-apply", "commit-discard"}

\* What others do leaves a list complete: it was read from frozen branches.
LEMMA OthersSettled ==
    ASSUME NoReopening, TypeOK, PlacedInv, OneSupervisor, NotYetStarted,
           SealedMeansFrozen, NEW p \in Procs, Acts(p),
           NEW s \in Procs, s # p, Settled(s)
    PROVE  Settled(s)'
<1>0. proc'[s] = proc[s] /\ Placed(p) /\ Placed(s)
  BY ActsPlaced DEF PlacedInv, Alone
<1>1. CASE proc[s].pc \notin Settling
  BY <1>0, <1>1 DEF Settled, Settling, At
<1>2. CASE proc[s].pc \in Settling
  <2>1. ~CreateBranch(p)
    <3>1. CreateBranch(p) => Starting(p)
      BY <1>0, Guards DEF Placed, Starting
    <3>2. proc[s].cmd \notin {"none", "abort", "finish-turn"}
      BY <1>0, <1>2 DEF Placed, Settling, Finalizing, Committing
    <3> QED BY <3>1, <3>2 DEF NotYetStarted
  <2>2. ~AgentWrites(p)
    <3>1. Past(s)
      BY <1>2 DEF Past, Settling, Finalizing, Committing
    <3>2. AgentWrites(p) => Booting(p)
      BY Guards DEF Booting
    <3>3. AgentWrites(p) => \E c \in Changes : branch[RootOf[c]] = "open"
      BY DEF AgentWrites
    <3> QED BY <3>1, <3>2, <3>3, SessionAssumption DEF SealedMeansFrozen
  <2>3. Reviewable' \subseteq Reviewable /\ base \subseteq base'
    BY <2>1, <2>2, ReviewableShrinks, OutsideStep
  <2> QED BY <1>0, <2>3 DEF Settled, At, MyRoot
<1> QED BY <1>1, <1>2

\* The decision, and where it leads.
LEMMA DecisionFacts ==
    /\ \A w \in BOOLEAN :
          LET d == WithWarnings(Evaluate(mode, Reviewable, Flagged), w)
          IN  d \in Decisions /\ (d = "no-changes" => Reviewable = {})
    /\ \A p \in Procs : Quiesce(p) =>
          \E l \in {"apply", "close", "discard"} :
             /\ Goto(p, l)
             /\ l = "apply" => proc[p].dec = "auto-commit"
             /\ l = "close" => proc[p].dec = "pending-review"
             /\ l = "discard" => proc[p].dec \notin {"auto-commit", "pending-review"}
<1>1. ASSUME NEW w \in BOOLEAN
      PROVE  LET d == WithWarnings(Evaluate(mode, Reviewable, Flagged), w)
             IN  d \in Decisions /\ (d = "no-changes" => Reviewable = {})
  BY DEF WithWarnings, Evaluate, Decisions
<1>2. ASSUME NEW p \in Procs, Quiesce(p)
      PROVE  \E l \in {"apply", "close", "discard"} :
             /\ Goto(p, l)
             /\ l = "apply" => proc[p].dec = "auto-commit"
             /\ l = "close" => proc[p].dec = "pending-review"
             /\ l = "discard" => proc[p].dec \notin {"auto-commit", "pending-review"}
  BY <1>2 DEF Quiesce
<1> QED BY <1>1, <1>2

\* A copy of reviewable changes reaches the base, if their links can be followed.
LEMMA CopiedWhole ==
    ASSUME Dangling \subseteq Ignored, NEW S
    PROVE  Reviewable \cap S \subseteq Copied(S)
BY DEF Reviewable, Copied

\* The process that acts keeps its own list complete, and copies before it
\* discards: when a session closes itself ...
LEMMA FinalizeSettled ==
    ASSUME Dangling \subseteq Ignored, TypeOK, NEW p \in Procs, Placed(p), Settled(p),
           DecideSession(p) \/ Quiesce(p) \/ ApplyRoot(p) \/ DiscardRoot(p)
    PROVE  Settled(p)'
<1> DEFINE Out == proc'[p].pc \notin Settling
<1>o. Out => Settled(p)'
  BY DEF Settled, Settling, At
<1>f. Fail(p) \/ FinalizeFails(p) => Out
  BY FailsTo DEF Settling, Idle
<1> HIDE DEF Out
<1>r. Reviewable' \subseteq Reviewable /\ base \subseteq base'
  <2>1. Acts(p) /\ ~CreateBranch(p) /\ ~AgentWrites(p)
    BY Guards DEF Acts, Proceed
  <2> QED BY <2>1, ReviewableShrinks, OutsideStep
<1>1. CASE DecideSession(p)
  <2>1. ASSUME NEW w \in BOOLEAN, ~FinalizeFails(p),
               proc' = [proc EXCEPT ![p].pc = "quiesce",
                           ![p].seen = Reviewable,
                           ![p].dec = WithWarnings(
                               Evaluate(mode, Reviewable, Flagged), w)]
        PROVE  Settled(p)'
    <3> DEFINE d == WithWarnings(Evaluate(mode, Reviewable, Flagged), w)
    <3>1. proc'[p].pc = "quiesce" /\ proc'[p].seen = Reviewable /\ proc'[p].dec = d
      BY <2>1, ProcFields DEF TypeOK, ProcState
    <3>2. d \in Decisions /\ (d = "no-changes" => Reviewable = {})
      BY DecisionFacts
    <3> HIDE DEF d
    <3> QED BY <1>r, <3>1, <3>2 DEF Settled, At
  <2> QED BY <1>1, <1>f, <1>o, <2>1 DEF DecideSession
<1>2. CASE Quiesce(p)
  <2>1. PICK l \in {"apply", "close", "discard"} :
             /\ Goto(p, l)
             /\ l = "apply" => proc[p].dec = "auto-commit"
             /\ l = "close" => proc[p].dec = "pending-review"
             /\ l = "discard" => proc[p].dec \notin {"auto-commit", "pending-review"}
    BY <1>2, DecisionFacts
  <2>2. Keeps(p) /\ proc'[p].pc = l /\ proc'[p].at = proc[p].at
    BY <2>1, GotoFields DEF Labels
  <2>3. proc[p].pc = "quiesce" BY <1>2, Guards
  <2> QED BY <1>r, <2>1, <2>2, <2>3 DEF Settled, At, Keeps, Decisions
<1>3. CASE ApplyRoot(p)
  <2>1. CASE Fail(p) BY <1>f, <1>o, <2>1
  <2>2. CASE ~Fail(p)
    <3> DEFINE mine == proc[p].seen \cap ChangesOf(MyRoot(p))
    <3>1. base' = base \cup Copied(mine) /\ Goto(p, "discard")
      BY <1>3, <2>2 DEF ApplyRoot
    <3>2. Keeps(p) /\ proc'[p].pc = "discard" /\ proc'[p].at = proc[p].at
      BY <3>1, GotoFields DEF Labels
    <3>3. proc[p].pc = "apply" BY <1>3, Guards
    <3>4. proc[p].dec = "auto-commit" /\ Reviewable \subseteq proc[p].seen
      BY <3>3 DEF Settled, At
    <3>5. Reviewable \cap mine \subseteq base'
      BY <3>1, CopiedWhole
    <3>6. \A c \in Reviewable : RootOf[c] = MyRoot(p) => c \in mine
      BY <3>4 DEF ChangesOf, Reviewable, TypeOK
    <3> HIDE DEF mine
    <3> QED BY <1>r, <3>2, <3>3, <3>4, <3>5, <3>6 DEF Settled, At, Keeps, MyRoot
  <2> QED BY <2>1, <2>2
<1>4. CASE DiscardRoot(p)
  <2>1. CASE Fail(p) \/ FinalizeFails(p) BY <1>f, <1>o, <2>1
  <2>2. CASE ~(Fail(p) \/ FinalizeFails(p))
    <3>1. PICK l \in {"apply", "discard"} :
             /\ NextRoot(p, l, "close")
             /\ (l = "apply") <=> (proc[p].dec = "auto-commit")
      BY <1>4, <2>2 DEF DiscardRoot
    <3>2. Keeps(p) /\ proc'[p].pc \in {l, "close"}
      BY <3>1, NextRootFields DEF Labels
    <3>3. proc[p].pc = "discard" BY <1>4, Guards
    <3> QED BY <1>r, <3>1, <3>2, <3>3 DEF Settled, At, Keeps
  <2> QED BY <2>1, <2>2
<1> QED BY <1>1, <1>2, <1>3, <1>4

\* ... and when an operator commits it, where all roots are copied first.
LEMMA CommitSettled ==
    ASSUME Dangling \subseteq Ignored, PatchRoots \subseteq {1},
           TypeOK, NEW p \in Procs, Placed(p), Settled(p),
           CommitStatus(p) \/ CommitApply(p) \/ CommitDiscard(p)
    PROVE  Settled(p)'
<1> DEFINE Out == proc'[p].pc \notin Settling
<1>o. Out => Settled(p)'
  BY DEF Settled, Settling, At
<1>s. Stop(p) => Out
  BY StopFields DEF Settling, Idle
<1> HIDE DEF Out
<1>r. Reviewable' \subseteq Reviewable /\ base \subseteq base'
  <2>1. Acts(p) /\ ~CreateBranch(p) /\ ~AgentWrites(p)
    BY Guards DEF Acts, Proceed
  <2> QED BY <2>1, ReviewableShrinks, OutsideStep
<1>c. \A c \in Reviewable : RootOf[c] \in 1 .. NRoots
  BY SessionAssumption DEF Reviewable, TypeOK, Roots
<1>1. CASE CommitStatus(p)
  <2>1. ASSUME NEW S \in Choices(proc[p].cmd),
               proc' = [proc EXCEPT ![p].pc = "commit-apply", ![p].seen = S]
        PROVE  Settled(p)'
    <3>1. /\ proc'[p].pc = "commit-apply" /\ proc'[p].seen = S
          /\ proc'[p].at = proc[p].at /\ proc'[p].cmd = proc[p].cmd
      BY <2>1, ProcFields DEF TypeOK, ProcState
    <3>2. proc[p].at = 1 /\ proc[p].cmd \in {"commit", "review", "patch"}
      BY <1>1, Guards DEF Placed, Committing
    <3>3. proc[p].cmd = "commit" => S = Reviewable
      BY <2>1 DEF Choices
    <3>4. proc[p].cmd = "patch" => \A c \in S : RootOf[c] = 1
      BY <2>1 DEF Choices
    <3> QED BY <1>r, <1>c, <3>1, <3>2, <3>3, <3>4 DEF Settled, At, MyRoot
  <2> QED BY <1>1, <1>s, <1>o, <2>1 DEF CommitStatus
<1>2. CASE CommitApply(p)
  <2>1. CASE Stop(p) BY <1>s, <1>o, <2>1
  <2>2. CASE ~Stop(p)
    <3> DEFINE mine == proc[p].seen \cap ChangesOf(MyRoot(p))
    <3>0. proc[p].pc = "commit-apply" BY <1>2, Guards
    <3>1. /\ base' = base \cup Applied(p, mine)
          /\ IF proc[p].cmd = "patch"
             THEN Goto(p, "commit-discard")
             ELSE NextRoot(p, "commit-apply", "commit-discard")
      BY <1>2, <2>2 DEF CommitApply
    <3>2. Reviewable \cap mine \subseteq base'
      BY <3>1, CopiedWhole DEF Applied
    <3>3. \A c \in Reviewable \cap proc[p].seen : RootOf[c] = proc[p].at => c \in mine
      BY DEF ChangesOf, MyRoot, Reviewable, TypeOK
    <3> HIDE DEF mine
    <3>4. CASE proc[p].cmd = "patch"
      <4>1. Keeps(p) /\ proc'[p].pc = "commit-discard"
        BY <3>1, <3>4, GotoFields DEF Labels
      <4>2. proc[p].at = 1 /\ \A c \in proc[p].seen : RootOf[c] = 1
        BY <3>0, <3>4 DEF Placed, Settled, At
      <4> QED BY <1>r, <3>2, <3>3, <3>4, <4>1, <4>2 DEF Settled, At, Keeps
    <3>5. CASE proc[p].cmd # "patch"
      <4>1. /\ Keeps(p)
            /\ \/ /\ proc[p].at < NRoots
                  /\ proc'[p].pc = "commit-apply" /\ proc'[p].at = proc[p].at + 1
               \/ /\ proc[p].at = NRoots
                  /\ proc'[p].pc = "commit-discard"
        BY <3>1, <3>5, NextRootFields DEF Labels
      <4>2. \A c \in Reviewable \cap proc[p].seen :
               RootOf[c] < proc[p].at => c \in base'
        BY <1>r, <3>0 DEF Settled, At, MyRoot
      <4>3. proc[p].at \in 1 .. NRoots /\ NRoots \in Nat
        BY ProcFields, SessionAssumption DEF Roots
      <4>4. \A c \in Reviewable \cap proc[p].seen :
               RootOf[c] < proc[p].at + 1 => c \in base'
        BY <1>c, <3>2, <3>3, <4>2, <4>3
      <4>5. proc[p].cmd = "commit" => Reviewable \subseteq proc[p].seen
        BY <3>0 DEF Settled
      <4>6. proc[p].at = NRoots => Reviewable \cap proc[p].seen \subseteq base'
        BY <1>c, <4>3, <4>4
      <4>7. CASE proc[p].at < NRoots
        BY <1>r, <3>5, <4>1, <4>3, <4>4, <4>5, <4>7 DEF Settled, At, Keeps, MyRoot
      <4>8. CASE proc[p].at = NRoots
        BY <1>r, <3>5, <4>1, <4>3, <4>5, <4>6, <4>8 DEF Settled, At, Keeps, MyRoot
      <4> QED BY <4>1, <4>7, <4>8
    <3> QED BY <3>4, <3>5
  <2> QED BY <2>1, <2>2
<1>3. CASE CommitDiscard(p)
  <2>1. Keeps(p) /\ proc'[p].pc \in {"commit-discard", "commit-close"}
    BY <1>3, NextRootFields DEF CommitDiscard, Labels
  <2>2. proc[p].pc = "commit-discard" BY <1>3, Guards
  <2> QED BY <1>r, <2>1, <2>2 DEF Settled, At, Keeps
<1> QED BY <1>1, <1>2, <1>3

\* No step makes a list incomplete.
LEMMA SettledStep ==
    ASSUME NoReopening, Dangling \subseteq Ignored, PatchRoots \subseteq {1},
           TypeOK, PlacedInv, OneSupervisor, NotYetStarted, SealedMeansFrozen, SettledInv,
           NEW p \in Procs, Acts(p)
    PROVE  SettledInv'
<1>1. \A s \in Procs : s # p => Settled(s)'
  BY OthersSettled DEF SettledInv
<1>2. Settled(p)'
  <2>1. Placed(p) /\ Settled(p) /\ Origin(p)
    BY OriginStep DEF PlacedInv, SettledInv
  <2>2. CASE proc'[p].pc \notin Settling
    BY <2>2 DEF Settled, Settling, At
  <2>3. CASE proc'[p].pc \in Settling
    <3>1. \/ DecideSession(p) \/ Quiesce(p) \/ ApplyRoot(p) \/ DiscardRoot(p)
          \/ CommitStatus(p) \/ CommitApply(p) \/ CommitDiscard(p)
      BY <2>1, <2>3 DEF Origin, Settling
    <3> QED BY <2>1, <3>1, FinalizeSettled, CommitSettled
  <2> QED BY <2>2, <2>3
<1> QED BY <1>1, <1>2 DEF SettledInv

-----------------------------------------------------------------------------
\* A root whose branch is discarded keeps its promise.
LEMMA DiscardLosesNothing ==
    ASSUME TypeOK, PlacedInv, SettledInv, NoWorkLost, NEW p \in Procs,
           DiscardRoot(p) \/ CommitDiscard(p) \/ AbortDiscard(p)
    PROVE  NoWorkLost'
<1>0. Placed(p) /\ Settled(p) /\ MyRoot(p) \in Roots
  BY ProcFields DEF PlacedInv, SettledInv, MyRoot
<1>1. /\ delta' = delta /\ base' = base /\ dropped \subseteq dropped'
      /\ \A r \in Roots \ {MyRoot(p)} : branch'[r] = branch[r]
      /\ branch'[MyRoot(p)] \in {branch[MyRoot(p)], "forgotten", "discarded"}
  <2>1. delta' = delta /\ base' = base
    BY DEF DiscardRoot, CommitDiscard, AbortDiscard
  <2>2. dropped \subseteq dropped'
    BY DEF DiscardRoot, CommitDiscard, AbortDiscard, GivesUp
  <2>3. branch' = branch \/ Abort(MyRoot(p)) \/ AbortFails(MyRoot(p))
    BY DEF DiscardRoot, CommitDiscard, AbortDiscard, Discarded, NotDiscarded
  <2>4. branch \in [Roots -> BranchStates] BY DEF TypeOK
  <2>5. CASE branch' = branch BY <1>0, <2>1, <2>2, <2>5
  <2>6. CASE Abort(MyRoot(p)) \/ AbortFails(MyRoot(p))
    BY <1>0, <2>1, <2>2, <2>4, <2>6 DEF Abort, AbortFails
  <2> QED BY <2>3, <2>5, <2>6
<1>2. SUFFICES ASSUME NEW c \in Reviewable, RootOf[c] = MyRoot(p),
                      branch'[MyRoot(p)] \in {"forgotten", "discarded"}
               PROVE  c \in base' \/ c \in dropped'
  <2>1. RootOf \in [Changes -> Roots] /\ delta \subseteq Changes
    BY SessionAssumption DEF TypeOK
  <2>2. \A c \in Changes : RootOf[c] # MyRoot(p) => (Live(RootOf[c])' <=> Live(RootOf[c]))
    BY <1>1, <2>1 DEF Live
  <2>3. \A c \in Changes : (RootOf[c] = MyRoot(p)
                 /\ branch'[MyRoot(p)] \notin {"forgotten", "discarded"})
                    => (Live(RootOf[c])' <=> Live(RootOf[c]))
    BY <1>1, <2>1 DEF Live
  <2>4. \A c \in delta \ Ignored : ~Live(RootOf[c]) => c \in base' \/ c \in dropped'
    BY <1>1 DEF NoWorkLost
  <2>5. \A c \in delta \ Ignored : Live(RootOf[c]) => c \in Reviewable
    BY DEF Reviewable
  <2> QED BY <1>1, <1>2, <2>1, <2>2, <2>3, <2>4, <2>5 DEF NoWorkLost
<1>3. c \in delta /\ c \in ChangesOf(MyRoot(p))
  BY <1>2 DEF Reviewable, ChangesOf, TypeOK
<1>4. CASE DiscardRoot(p)
  <2>1. proc[p].pc = "discard" BY <1>4, Guards
  <2>2. proc[p].dec = "abort" => c \in dropped'
    BY <1>2, <1>3, <1>4 DEF DiscardRoot, GivesUp
  <2>3. proc[p].dec = "auto-commit" => c \in base
    BY <1>0, <1>2, <2>1 DEF Settled, At
  <2>4. proc[p].dec # "no-changes"
    BY <1>0, <1>2, <2>1 DEF Settled
  <2> QED BY <1>0, <1>1, <2>1, <2>2, <2>3, <2>4 DEF Settled, At
<1>5. CASE CommitDiscard(p)
  <2>1. proc[p].pc = "commit-discard" BY <1>5, Guards
  <2>2. c \in proc[p].seen => c \in base
    BY <1>0, <1>2, <2>1 DEF Settled, At
  <2>3. proc[p].cmd = "commit" => c \in proc[p].seen
    BY <1>0, <1>2, <2>1 DEF Settled
  <2>4. proc[p].cmd # "commit" => c \in proc[p].seen \/ c \in dropped'
    BY <1>2, <1>3, <1>5 DEF CommitDiscard, GivesUp
  <2> QED BY <1>1, <2>2, <2>3, <2>4
<1>6. CASE AbortDiscard(p)
  BY <1>2, <1>3, <1>6 DEF AbortDiscard, GivesUp
<1> QED BY <1>4, <1>5, <1>6

\* No other step takes a branch away, or work out of the base.
LEMMA LossStep ==
    ASSUME TypeOK, PlacedInv, SettledInv, NoWorkLost, NEW p \in Procs, Acts(p)
    PROVE  NoWorkLost'
<1>1. CASE DiscardRoot(p) \/ CommitDiscard(p) \/ AbortDiscard(p)
  BY <1>1, DiscardLosesNothing
<1>2. CASE ~(DiscardRoot(p) \/ CommitDiscard(p) \/ AbortDiscard(p))
  <2>1. base \subseteq base' BY OutsideStep
  <2>2. dropped' = dropped /\ \A r \in Roots : Live(r) => Live(r)'
    <3> USE DEF outside, history
    <3>1. CASE \/ EnterMounting(p) \/ MountRoot(p) \/ LaunchAgent(p) \/ FinishSession(p)
               \/ RecordFrozen(p) \/ DecideSession(p) \/ Quiesce(p) \/ CloseSession(p)
               \/ Unwind(p) \/ AgentExits(p) \/ AgentWrites(p) \/ Kill(p)
               \/ RecordResume(p)
      <4>1. branch' = branch /\ dropped' = dropped
        BY <3>1
           DEF EnterMounting, MountRoot, LaunchAgent, FinishSession, EnterFinalizing,
               RecordFrozen, DecideSession, Quiesce, CloseSession, Unwind, AgentExits,
               AgentWrites, Kill, RecordResume
      <4> QED BY <4>1 DEF Live
    <3>2. CASE \/ CommitStatus(p) \/ CommitClose(p) \/ AbortClose(p) \/ ThawClose(p)
               \/ Touch(p) \/ Begin(p) \/ ApplyRoot(p) \/ CommitApply(p)
      <4>1. branch' = branch /\ dropped' = dropped
        BY <3>2
           DEF CommitStatus, CommitClose, AbortClose, ThawClose, Touch, Begin,
               CreateSession, BeginResume, BeginFinish, BeginCommit, BeginAbort,
               BeginThaw, BeginTouch, Load, Cleanup, ApplyRoot, CommitApply
      <4> QED BY <4>1 DEF Live
    <3>3. CASE CreateBranch(p) \/ FreezeRoot(p) \/ ThawRoot(p)
      BY <3>3, ProcFields DEF CreateBranch, FreezeRoot, ThawRoot, TypeOK, Live, MyRoot
    <3> QED BY <1>2, <3>1, <3>2, <3>3 DEF Acts, Proceed
  <2>3. \A c \in delta' \ delta : Live(RootOf[c])'
    <3>1. CASE AgentWrites(p) BY <3>1 DEF AgentWrites, Live
    <3>2. CASE ~AgentWrites(p) BY <3>2, OutsideStep
    <3> QED BY <3>1, <3>2
  <2>4. \A c \in delta : RootOf[c] \in Roots
    BY SessionAssumption DEF TypeOK
  <2> QED BY <2>1, <2>2, <2>3, <2>4 DEF NoWorkLost
<1> QED BY <1>1, <1>2

\* The inductive invariant.
LossInv ==
    /\ TypeOK
    /\ PlacedInv
    /\ OneSupervisor
    /\ NotYetStarted
    /\ FreezingSeals
    /\ SealedMeansFrozen
    /\ SettledInv
    /\ NoWorkLost

\* Every step of a process keeps the invariant.
LEMMA ActsKeepsLossInv ==
    ASSUME NoReopening, Dangling \subseteq Ignored, PatchRoots \subseteq {1},
           LossInv, NEW p \in Procs, Acts(p)
    PROVE  LossInv'
<1> USE DEF LossInv
<1>1. TypeOK' BY TypeStep DEF Acts, Next
<1>2. PlacedInv'
  <2>1. Alone(p) /\ Placed(p)' BY ActsPlaced DEF PlacedInv
  <2> QED BY <2>1 DEF Alone, PlacedInv, Placed, Booting
<1>3. OneSupervisor' BY OneSupervisorStep
<1>4. NotYetStarted' BY NotYetStartedStep
<1>5. FreezingSeals' BY FreezingStep
<1>6. SealedMeansFrozen' BY SealedStep
<1>7. SettledInv' BY SettledStep
<1>8. NoWorkLost' BY LossStep
<1> QED BY <1>1, <1>2, <1>3, <1>4, <1>5, <1>6, <1>7, <1>8

\* After a reboot no process is left that could do harm.
LEMMA RebootKeepsLossInv ==
    ASSUME LossInv, Reboot
    PROVE  LossInv'
<1> USE DEF LossInv
<1>1. TypeOK' BY TypeStep DEF Next
<1>2. /\ \A p \in Procs : proc'[p] = Idle
      /\ UNCHANGED <<disk, branch, delta, base, dropped>>
  BY DEF Reboot, history
<1>3. PlacedInv' /\ SettledInv'
  BY <1>2 DEF PlacedInv, Placed, Booting, SettledInv, Settled, At, Idle, Finalizing,
              Committing
<1>4. OneSupervisor' /\ NotYetStarted'
  BY <1>2 DEF OneSupervisor, Supervising, NotYetStarted, Starting, Idle
<1>5. FreezingSeals' /\ SealedMeansFrozen'
  BY <1>2 DEF FreezingSeals, SealedMeansFrozen, Booting, Idle
<1>6. NoWorkLost' BY <1>2 DEF NoWorkLost, Live
<1> QED BY <1>1, <1>3, <1>4, <1>5, <1>6

\* A new session loses nothing.
LEMMA LossInit == Init => LossInv
<1> SUFFICES ASSUME Init PROVE LossInv OBVIOUS
<1>1. TypeOK BY TypeInit
<1>2. \A p \in Procs : proc[p] = Idle BY DEF Init
<1>3. PlacedInv /\ SettledInv
  BY <1>2 DEF PlacedInv, Placed, Booting, SettledInv, Settled, At, Idle, Finalizing,
              Committing
<1>4. OneSupervisor /\ NotYetStarted
  BY <1>2 DEF OneSupervisor, Supervising, NotYetStarted, Starting, Idle
<1>5. FreezingSeals /\ SealedMeansFrozen
  BY <1>2 DEF FreezingSeals, SealedMeansFrozen, Booting, Idle
<1>6. NoWorkLost BY DEF Init, NoWorkLost
<1> QED BY <1>1, <1>3, <1>4, <1>5, <1>6 DEF LossInv

\* Every step keeps the invariant.
LEMMA LossInvStep ==
    ASSUME NoReopening, Dangling \subseteq Ignored, PatchRoots \subseteq {1},
           LossInv, [Next]_vars
    PROVE  LossInv'
<1>1. CASE UNCHANGED vars
  BY <1>1 DEF vars, LossInv, TypeOK, PlacedInv, Placed, Booting, OneSupervisor,
              NotYetStarted, Starting, FreezingSeals, SealedMeansFrozen, Past, At,
              MyRoot, SettledInv, Settled, Reviewable, NoWorkLost, Live
<1>2. CASE Reboot BY <1>2, RebootKeepsLossInv
<1>3. ASSUME NEW p \in Procs, Acts(p) PROVE LossInv'
  BY <1>3, ActsKeepsLossInv
<1> QED BY <1>1, <1>2, <1>3 DEF Next, Acts

\* No work is lost: with every overlap of commands but a thaw or a resume, and
\* kills and reboots anywhere, no command discards the only copy of reviewable
\* work that nobody gave up.  A link in the branch must be one that a copy can
\* follow, and a patch must stay with the root it is applied to: the code loses
\* work without the one (claim_symlink) and without the other.
THEOREM NothingLost ==
    ASSUME NoReopening, Dangling \subseteq Ignored, PatchRoots \subseteq {1}
    PROVE  Spec => []NoWorkLost
<1>1. Init => LossInv BY LossInit
<1>2. LossInv /\ [Next]_vars => LossInv' BY LossInvStep
<1>3. LossInv => NoWorkLost BY DEF LossInv
<1> QED BY <1>1, <1>2, <1>3, PTL DEF Spec
=============================================================================
