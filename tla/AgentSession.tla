---------------------------- MODULE AgentSession ----------------------------
(***************************************************************************)
(* One ccc-agent session, from `ccc-agent run` to its terminal state, with  *)
(* every process that can act on it: the supervisor (run, resume) and the   *)
(* operator's commands (commit, review --commit, review --apply-patch,      *)
(* abort, thaw, finish, finish-turn, cleanup).                              *)
(*                                                                          *)
(* The durable record session.json is shared, without a lock: a process     *)
(* loads it once, keeps its own Session object (field st of its state), and *)
(* every save writes that object back whole.  The branches and mounts live  *)
(* in BranchFS and survive the processes.  Any process can be killed        *)
(* between two steps and the node can reboot; every BranchFS command can    *)
(* fail, and so can every save of a supervisor and of `finish`.  A save of  *)
(* another command that fails ends it, and is what a kill before it is.     *)
(* The agent runs under bwrap --die-with-parent, so it lives exactly *)
(* while its supervisor waits for it.                                       *)
(*                                                                          *)
(* Per-turn commits (turn.py) and the repair budget are not in this module. *)
(***************************************************************************)
EXTENDS Naturals, FiniteSets, SessionStates, PolicyDecision

CONSTANTS Procs,        \* invocations of ccc-agent acting on the session
          NRoots,       \* protected roots, numbered in sorted(name) order
          Changes,      \* changes the agent can make in its branches
          RootOf,       \* the protected root of each change
          Flagged,      \* out of scope, or matching a deny/hide pattern
          Ignored,      \* matching an ignore pattern (filter_ignored)
          Deltaless,    \* deletions and directories: applied without a delta
          Dangling,     \* symlinks whose target is not in the branch store
          Modes,        \* policy modes the session may be launched with
          PatchRoots,   \* roots whose hunks an operator leaves in a patch
          Overlapping,  \* commands that may start while another one runs
          Crashes       \* whether processes are killed and the node reboots

Roots == 1 .. NRoots
Commands == {"run", "resume", "finish", "commit", "review", "patch", "abort",
             "thaw", "finish-turn", "cleanup"}

ASSUME SessionAssumption ==
    /\ NRoots \in Nat \ {0}
    /\ RootOf \in [Changes -> Roots]
    /\ Flagged \subseteq Changes
    /\ Ignored \subseteq Changes
    /\ Deltaless \subseteq Changes
    /\ Dangling \subseteq Changes
    /\ Modes \subseteq PolicyModes
    /\ PatchRoots \subseteq Roots
    /\ Overlapping \subseteq Commands
    /\ Crashes \in BOOLEAN

VARIABLES
    disk,      \* session.json: its "state", or that it does not exist
    mode,      \* session.policy["mode"]
    branch,    \* per root: the session's BranchFS branch
    mounted,   \* per root: the FUSE mount is active
    delta,     \* changes the agent made; they exist while their branch does
    base,      \* changes applied to the real underlay
    proc,      \* per process: program counter and Session object
    accepted,  \* history: changes a human chose to commit
    dropped    \* history: changes a human or throwaway mode chose to discard

vars == <<disk, mode, branch, mounted, delta, base, proc, accepted, dropped>>
history == <<accepted, dropped>>
outside == <<branch, mounted, delta, base>>   \* everything BranchFS or base

Labels == {"idle", "created", "create-branch", "mount", "launch", "agent",
           "finish", "freeze", "frozen", "decide", "quiesce", "apply",
           "discard", "close", "unwind", "unsaved", "commit-status", "commit-apply",
           "commit-discard", "commit-close", "abort-discard", "abort-close",
           "thaw", "thaw-close", "touch", "resumed"}

\* A process: pc, the command it runs, the state in its Session object, the
\* root its current loop is at, the filtered change list and the decision.
ProcState == [pc : Labels, cmd : Commands \cup {"none"},
              st : States, at : Roots,
              seen : SUBSET Changes, dec : Decisions \cup {"none"}]

\* No command: the other fields mean nothing.
Idle == [pc |-> "idle", cmd |-> "none", st |-> "created", at |-> 1,
         seen |-> {}, dec |-> "none"]

Init ==
    /\ disk = "unborn"
    /\ mode \in Modes
    /\ branch = [r \in Roots |-> "absent"]
    /\ mounted = [r \in Roots |-> FALSE]
    /\ delta = {}
    /\ base = {}
    /\ proc = [p \in Procs |-> Idle]
    /\ accepted = {}
    /\ dropped = {}

-----------------------------------------------------------------------------
\* What may be left of a branch: "forgotten" is one that BranchFS does not know
\* any more but whose directory is still in the store.
BranchStates == {"absent", "open", "frozen", "forgotten", "discarded"}

\* BranchFS knows the branch: freeze, thaw, status and mount need it.
Live(r) == branch[r] \in {"open", "frozen"}

ChangesOf(r) == {c \in Changes : RootOf[c] = r}

\* Faulty variant: the status is not filtered.
ReviewableUnfiltered == {c \in delta : Live(RootOf[c])}

\* What filter_ignored(status) returns over all roots.
Reviewable == {c \in delta : Live(RootOf[c])} \ Ignored

At(p, l) == proc[p].pc = l
MyRoot(p) == proc[p].at

\* Helpers of a step: jump, jump with a new Session state, loop over
\* the roots, stop.
Goto(p, l) == proc' = [proc EXCEPT ![p].pc = l]
GotoAs(p, l, s) == proc' = [proc EXCEPT ![p].pc = l, ![p].st = s]
NextRootPastEnd(p, again, done) ==      \* faulty variant: one root too many
    LET more == MyRoot(p) <= NRoots
    IN  proc' = [proc EXCEPT ![p].pc = IF more THEN again ELSE done,
                             ![p].at = IF more THEN @ + 1 ELSE 1]
NextRoot(p, again, done) ==
    LET more == MyRoot(p) < NRoots
    IN  proc' = [proc EXCEPT ![p].pc = IF more THEN again ELSE done,
                             ![p].at = IF more THEN @ + 1 ELSE 1]
Stop(p) == proc' = [proc EXCEPT ![p] = Idle]

\* store.save(session): the whole object replaces the record.
Save(s) == disk' = s

\* A command starts: on an idle process, alone unless it may overlap.
Start(p, c) ==
    /\ At(p, "idle")
    /\ c \in Overlapping \/ \A q \in Procs : At(q, "idle")

\* Before its agent runs.
Launching == {"created", "create-branch", "mount", "launch"}

\* _fail(): the object becomes "failed" and is saved.  A supervisor goes on to
\* unmount; `finish` just ends.  If the save fails as well, the exception ends a
\* launch without an unmount, but the finalization with one.
Fail(p) ==
    \/ /\ Save("failed")
       /\ IF proc[p].cmd = "finish" THEN Stop(p)
                                    ELSE GotoAs(p, "unwind", "failed")
    \/ /\ UNCHANGED disk
       /\ IF proc[p].cmd = "finish" \/ proc[p].pc \in Launching
          THEN Stop(p) ELSE GotoAs(p, "unsaved", "failed")

-----------------------------------------------------------------------------
\* run_session: create, mount, launch

\* store.create(), then the save that fills in the protected roots; if that one
\* fails, the command ends as by a kill.
CreateSession(p) ==
    /\ Start(p, "run")
    /\ disk = "unborn"
    /\ Save("created")
    /\ proc' = [proc EXCEPT ![p] = [Idle EXCEPT !.pc = "created",
                                    !.cmd = "run", !.st = "created"]]
    /\ UNCHANGED <<mode, outside, history>>

EnterMounting(p) ==
    /\ At(p, "created")
    /\ \/ Save("mounting") /\ GotoAs(p, "create-branch", "mounting")
       \/ Fail(p)
    /\ UNCHANGED <<mode, outside, history>>

\* start_daemon and create_branch; an exception fails the session.
CreateBranch(p) ==
    /\ At(p, "create-branch")
    /\ \/ /\ branch' = [branch EXCEPT ![MyRoot(p)] = "open"]
          /\ Goto(p, "mount")
          /\ UNCHANGED disk
       \/ Fail(p) /\ UNCHANGED branch
    /\ UNCHANGED <<mode, mounted, delta, base, history>>

\* mount, of a run (then the next root's branch) or of a resume (then the next
\* root's mount, and a save at the end).  A resume that cannot mount, or cannot
\* save after the last mount, saves its record as it was; if this fails, it does
\* not unmount.
MountRoot(p) ==
    /\ At(p, "mount")
    /\ \/ /\ Live(MyRoot(p))
          /\ mounted' = [mounted EXCEPT ![MyRoot(p)] = TRUE]
          /\ NextRoot(p, IF proc[p].cmd = "run" THEN "create-branch"
                                               ELSE "mount", "launch")
          /\ IF proc[p].cmd = "resume" /\ MyRoot(p) = NRoots
             THEN Save(proc[p].st) ELSE UNCHANGED disk
       \/ /\ proc[p].cmd = "run"
          /\ Fail(p)
          /\ UNCHANGED mounted
       \/ /\ proc[p].cmd = "resume"
          /\ \/ UNCHANGED mounted
             \/ /\ Live(MyRoot(p)) /\ MyRoot(p) = NRoots
                /\ mounted' = [mounted EXCEPT ![MyRoot(p)] = TRUE]
          /\ \/ Save(proc[p].st) /\ Goto(p, "unwind")
             \/ UNCHANGED disk /\ Stop(p)
    /\ UNCHANGED <<mode, branch, delta, base, history>>

\* The record says "running" before the agent starts; an exception on the way
\* (cwd, control socket, exec of bwrap) fails the session.
LaunchAgent(p) ==
    /\ At(p, "launch")
    /\ \/ Save("running") /\ GotoAs(p, "agent", "running")
       \/ Fail(p)
    /\ UNCHANGED <<mode, outside, history>>

\* The agent changes something through its mounted, unfrozen view.
AgentWrites(p) ==
    /\ At(p, "agent")
    /\ \E c \in Changes \ delta :
          /\ mounted[RootOf[c]]
          /\ branch[RootOf[c]] = "open"
          /\ delta' = delta \cup {c}
    /\ UNCHANGED <<disk, mode, branch, mounted, base, proc, history>>

-----------------------------------------------------------------------------
\* finalize_session, run by a supervisor after its agent or by `finish`

\* Faulty variant: no handler around finalize_session.
FinalizeFailsUnhandled(p) == Stop(p) /\ UNCHANGED disk

\* An exception out of finalize_session: a supervisor records "failed"; finish
\* has no handler, and leaves the record as the last save did.
FinalizeFails(p) ==
    \/ proc[p].cmd \in {"run", "resume"} /\ Fail(p)
    \/ proc[p].cmd = "finish" /\ Stop(p) /\ UNCHANGED disk

EnterFinalizing(p) ==
    /\ \/ Save("finalizing") /\ GotoAs(p, "freeze", "finalizing")
       \/ FinalizeFails(p)
    /\ UNCHANGED <<mode, outside, history>>

AgentExits(p) == At(p, "agent") /\ EnterFinalizing(p)

\* `finish`, after its load.
FinishSession(p) == At(p, "finish") /\ EnterFinalizing(p)

FreezeRoot(p) ==
    /\ At(p, "freeze")
    /\ \/ /\ Live(MyRoot(p))
          /\ branch' = [branch EXCEPT ![MyRoot(p)] = "frozen"]
          /\ NextRoot(p, "freeze", "frozen")
          /\ UNCHANGED disk
       \/ FinalizeFails(p) /\ UNCHANGED branch
    /\ UNCHANGED <<mode, mounted, delta, base, history>>

RecordFrozen(p) ==
    /\ At(p, "frozen")
    /\ \/ Save("frozen") /\ GotoAs(p, "decide", "frozen")
       \/ FinalizeFails(p)
    /\ UNCHANGED <<mode, outside, history>>

\* status of every root, filter, evaluate, review artifacts.
DecideSession(p) ==
    /\ At(p, "decide")
    /\ \/ /\ \A r \in Roots : Live(r)
          /\ \E warned \in BOOLEAN :
                proc' = [proc EXCEPT ![p].pc = "quiesce",
                           ![p].seen = Reviewable,
                           ![p].dec = WithWarnings(
                               Evaluate(mode, Reviewable, Flagged), warned)]
          /\ UNCHANGED disk
       \/ FinalizeFails(p)
    /\ UNCHANGED <<mode, outside, history>>

\* _unmount_all: failures are swallowed, so any of the mounts may stay.
Unmount == \E stuck \in SUBSET Roots :
             mounted' = [r \in Roots |-> mounted[r] /\ r \in stuck]

Quiesce(p) ==
    /\ At(p, "quiesce")
    /\ Unmount
    /\ Goto(p, CASE proc[p].dec = "auto-commit"    -> "apply"
                 [] proc[p].dec = "pending-review" -> "close"
                 [] OTHER                          -> "discard")
    /\ UNCHANGED <<disk, mode, branch, delta, base, history>>

\* What copying changes from the branch store to the base gets there: a delta
\* that os.path.exists does not see is passed over without an error.
Copied(S) == {c \in S : \/ c \in Deltaless
                        \/ c \notin Dangling /\ Live(RootOf[c])}

\* Faulty variant: a copy that fails is passed over.
ApplyRootPassesOver(p) ==
    /\ At(p, "apply")
    /\ \E done \in SUBSET (proc[p].seen \cap ChangesOf(MyRoot(p))) :
          base' = base \cup Copied(done)
    /\ Goto(p, "discard")
    /\ UNCHANGED <<disk, mode, branch, mounted, delta, history>>

\* auto-commit, one root: its reviewed changes are copied to the base.  A copy
\* that fails leaves those before it applied, and the session "failed".
ApplyRoot(p) ==
    /\ At(p, "apply")
    /\ LET mine == proc[p].seen \cap ChangesOf(MyRoot(p))
       IN  \/ base' = base \cup Copied(mine) /\ Goto(p, "discard") /\ UNCHANGED disk
           \/ /\ \E done \in SUBSET mine :
                    done # mine /\ base' = base \cup Copied(done)
              /\ Fail(p)
    /\ UNCHANGED <<mode, branch, mounted, delta, history>>

\* Faulty variant: a failing abort is passed over.
DiscardRootPassesOver(p) ==
    /\ At(p, "discard")
    /\ \/ branch' = [branch EXCEPT ![MyRoot(p)] = "discarded"]
       \/ UNCHANGED branch
    /\ NextRoot(p, IF proc[p].dec = "auto-commit" THEN "apply" ELSE "discard",
                "close")
    /\ UNCHANGED <<disk, mode, mounted, delta, base, history>>

\* backend.abort: abort-branch.  A branch that is not found counts as discarded
\* when only an empty directory, or nothing, is left of it.
Abort(r) == branch' = [branch EXCEPT ![r] = "discarded"]

\* An abort-branch that fails, or whose answer does not come in time, may have
\* done part of its work.
AbortFails(r) ==
    \/ UNCHANGED branch
    \/ Live(r) /\ branch' = [branch EXCEPT ![r] = "forgotten"]

\* With the branch goes what a human or throwaway mode gave up with it.
GivesUp(S, r) ==
    dropped' = IF branch'[r] \in {"forgotten", "discarded"}
               THEN dropped \cup (S \cap ChangesOf(r)) ELSE dropped

\* backend.abort of one root: after its apply when auto-committing, else one
\* root after the other.  A failing abort is a failed commit there, and an
\* exception out of finalize_session elsewhere.
DiscardRoot(p) ==
    /\ At(p, "discard")
    /\ \/ /\ Abort(MyRoot(p))
          /\ NextRoot(p, IF proc[p].dec = "auto-commit" THEN "apply"
                                                       ELSE "discard", "close")
          /\ UNCHANGED disk
       \/ /\ AbortFails(MyRoot(p))
          /\ IF proc[p].dec = "auto-commit" THEN Fail(p) ELSE FinalizeFails(p)
    /\ GivesUp(IF proc[p].dec = "abort" THEN delta ELSE {}, MyRoot(p))
    /\ UNCHANGED <<mode, mounted, delta, base, accepted>>

\* The final transition and save of finalize_session.  If the save fails, a session
\* that was to be parked fails; one that was to be closed cannot, as _fail() raises
\* for a Session object in a terminal state, and the record stays what it was.
CloseSession(p) ==
    /\ At(p, "close")
    /\ LET closed == ClosedState(proc[p].dec)
       IN  \/ /\ Save(closed)
              /\ IF proc[p].cmd = "finish" THEN Stop(p) ELSE GotoAs(p, "unwind", closed)
           \/ closed \notin TerminalStates /\ FinalizeFails(p)
           \/ /\ closed \in TerminalStates /\ UNCHANGED disk
              /\ IF proc[p].cmd = "finish" THEN Stop(p) ELSE GotoAs(p, "unsaved", closed)
    /\ UNCHANGED <<mode, outside, history>>

\* The supervisor's last unmount; run_session or resume_session returns, or raises
\* what kept it from saving its outcome.
Unwind(p) ==
    /\ At(p, "unwind") \/ At(p, "unsaved")
    /\ Unmount
    /\ Stop(p)
    /\ UNCHANGED <<disk, mode, branch, delta, base, history>>

-----------------------------------------------------------------------------
\* The operator: every command loads the record and checks its state first

Load(p, c, allowed, l) ==
    /\ Start(p, c)
    /\ disk \in allowed
    /\ proc' = [proc EXCEPT ![p] = [Idle EXCEPT !.pc = l, !.cmd = c,
                                                !.st = disk]]
    /\ UNCHANGED <<disk, mode, outside, history>>

\* The states that resume and finish accept.
ResumableStates == {"running"}
FinishableStates == {"running"}

\* resume refuses active mounts, unless forced; --force is for an operator who
\* verified that no old process is left.
BeginResume(p) ==
    /\ Load(p, "resume", ResumableStates, "resumed")
    /\ \/ \A r \in Roots : ~mounted[r]
       \/ \A q \in Procs : At(q, "idle")

\* The resume is noted in the record before anything is mounted.
RecordResume(p) ==
    /\ At(p, "resumed")
    /\ \/ Save(proc[p].st) /\ Goto(p, "mount")
       \/ UNCHANGED disk /\ Stop(p)
    /\ UNCHANGED <<mode, outside, history>>

BeginFinish(p) == Load(p, "finish", FinishableStates, "finish")

BeginCommitEarly(p) ==      \* faulty variant: a running session is committed too
    \E c \in {"commit", "review", "patch"} :
       Load(p, c, {"pending-review", "frozen", "running"}, "commit-status")

BeginCommit(p) ==
    \E c \in {"commit", "review", "patch"} :
       Load(p, c, {"pending-review", "frozen"}, "commit-status")

\* Faulty variant: a closed session is aborted again.
BeginAbortAny(p) == Load(p, "abort", States, "abort-discard")

BeginAbortSettled(p) ==     \* faulty variant: only the states that commands leave
    Load(p, "abort", {"pending-review", "running", "frozen"}, "abort-discard")

BeginAbort(p) == Load(p, "abort", States \ TerminalStates, "abort-discard")

BeginThaw(p) == Load(p, "thaw", {"pending-review"}, "thaw")

\* finish-turn, and a nested run: load, add an event, save.
BeginTouch(p) == Load(p, "finish-turn", States, "touch")

Touch(p) ==
    /\ At(p, "touch")
    /\ Save(proc[p].st)
    /\ Stop(p)
    /\ UNCHANGED <<mode, outside, history>>

\* What a command may take of the reviewable changes: commit all, review --commit
\* a choice of the human, and a patch what a text diff can carry.
Choices(cmd) ==
    CASE cmd = "commit" -> {Reviewable}
      [] cmd = "review" -> SUBSET Reviewable
      [] OTHER -> SUBSET {c \in Reviewable \ (Deltaless \cup Dangling) :
                             RootOf[c] \in PatchRoots}

\* _changes(): status of every root, filtered; an unreadable branch ends the
\* command.
CommitStatus(p) ==
    /\ At(p, "commit-status")
    /\ \/ /\ \A r \in Roots : Live(r)
          /\ \E chosen \in Choices(proc[p].cmd) :
                /\ proc' = [proc EXCEPT ![p].pc = "commit-apply",
                                        ![p].seen = chosen]
                /\ accepted' = accepted \cup chosen
       \/ Stop(p) /\ UNCHANGED accepted
    /\ UNCHANGED <<disk, mode, outside, dropped>>

\* What reaches the base: a patch carries its text, a copy takes the delta.
Applied(p, S) == IF proc[p].cmd = "patch" THEN S ELSE Copied(S)

\* Faulty variant: only the first root is applied, whatever the command.
CommitApplyFirst(p) ==
    /\ At(p, "commit-apply")
    /\ base' = base \cup Applied(p, proc[p].seen \cap ChangesOf(MyRoot(p)))
    /\ Goto(p, "commit-discard")
    /\ UNCHANGED <<disk, mode, branch, mounted, delta, history>>

\* All roots are applied before any is discarded; a patch is applied to the base
\* of the first root, with whatever else is in it.  A failing copy leaves the
\* branches; commit records the error, review does not even do that.
CommitApply(p) ==
    /\ At(p, "commit-apply")
    /\ LET mine == proc[p].seen \cap ChangesOf(MyRoot(p))
       IN  \/ /\ base' = base \cup Applied(p, mine)
              /\ IF proc[p].cmd = "patch"
                 THEN Goto(p, "commit-discard")
                 ELSE NextRoot(p, "commit-apply", "commit-discard")
              /\ UNCHANGED disk
           \/ /\ \E done \in SUBSET mine :
                    done # mine /\ base' = base \cup Applied(p, done)
              /\ IF proc[p].cmd = "commit" THEN Save(proc[p].st)
                                           ELSE UNCHANGED disk
              /\ Stop(p)
    /\ UNCHANGED <<mode, branch, mounted, delta, history>>

\* _discard_branch of one root: unmount, then abort.  An unmount that fails
\* counts only while the mount is active.
Discarded(p) ==
    /\ mounted' = [mounted EXCEPT ![MyRoot(p)] = FALSE]
    /\ Abort(MyRoot(p))
    /\ UNCHANGED disk

NotDiscarded(p) ==
    /\ \/ UNCHANGED <<mounted, branch>>
       \/ /\ mounted' = [mounted EXCEPT ![MyRoot(p)] = FALSE]
          /\ AbortFails(MyRoot(p))
    /\ Save(proc[p].st)

\* Not strict: a branch that cannot be discarded is recorded as a warning.
CommitDiscard(p) ==
    /\ At(p, "commit-discard")
    /\ Discarded(p) \/ NotDiscarded(p)
    /\ GivesUp(IF proc[p].cmd = "commit" THEN {} ELSE delta \ proc[p].seen, MyRoot(p))
    /\ NextRoot(p, "commit-discard", "commit-close")
    /\ UNCHANGED <<mode, delta, base, accepted>>

CommitClose(p) ==
    /\ At(p, "commit-close")
    /\ Save("committed")
    /\ Stop(p)
    /\ UNCHANGED <<mode, outside, history>>

\* Strict: the first branch that cannot be discarded ends the command.
AbortDiscard(p) ==
    /\ At(p, "abort-discard")
    /\ \/ Discarded(p) /\ NextRoot(p, "abort-discard", "abort-close")
       \/ NotDiscarded(p) /\ Stop(p)
    /\ GivesUp(delta, MyRoot(p))
    /\ UNCHANGED <<mode, delta, base, accepted>>

AbortClose(p) ==
    /\ At(p, "abort-close")
    /\ Save("aborted")
    /\ Stop(p)
    /\ UNCHANGED <<mode, outside, history>>

\* thaw of one root; an exception leaves the roots before it open.
ThawRoot(p) ==
    /\ At(p, "thaw")
    /\ \/ /\ Live(MyRoot(p))
          /\ branch' = [branch EXCEPT ![MyRoot(p)] = "open"]
          /\ NextRoot(p, "thaw", "thaw-close")
       \/ Stop(p) /\ UNCHANGED branch
    /\ UNCHANGED <<disk, mode, mounted, delta, base, history>>

ThawClose(p) ==
    /\ At(p, "thaw-close")
    /\ Save("running")
    /\ Stop(p)
    /\ UNCHANGED <<mode, outside, history>>

\* cleanup of an old closed session without active mounts.
Cleanup(p) ==
    /\ Start(p, "cleanup")
    /\ disk \in CleanupStates
    /\ \A r \in Roots : ~mounted[r]
    /\ Save("removed")
    /\ UNCHANGED <<mode, outside, proc, history>>

-----------------------------------------------------------------------------
\* A process is killed (its agent with it); the mounts stay.
Kill(p) ==
    /\ Crashes
    /\ ~At(p, "idle")
    /\ Stop(p)
    /\ UNCHANGED <<disk, mode, outside, history>>

\* The node reboots: no process and no mount is left.
Reboot ==
    /\ Crashes
    /\ proc' = [p \in Procs |-> Idle]
    /\ mounted' = [r \in Roots |-> FALSE]
    /\ UNCHANGED <<disk, mode, branch, delta, base, history>>

\* The operator's command line begins a command, or the prompt that follows a run
\* or a resume with pending changes.
Begin(p) ==
    \/ CreateSession(p) \/ BeginResume(p) \/ BeginFinish(p) \/ BeginCommit(p)
    \/ BeginAbort(p) \/ BeginThaw(p) \/ BeginTouch(p) \/ Cleanup(p)

\* What a command does once it runs, without waiting for anybody.
Proceed(p) ==
    \/ EnterMounting(p) \/ CreateBranch(p) \/ MountRoot(p) \/ LaunchAgent(p)
    \/ FinishSession(p) \/ FreezeRoot(p) \/ RecordFrozen(p) \/ DecideSession(p)
    \/ Quiesce(p) \/ ApplyRoot(p) \/ DiscardRoot(p) \/ CloseSession(p) \/ Unwind(p)
    \/ CommitStatus(p) \/ CommitApply(p) \/ CommitDiscard(p) \/ CommitClose(p)
    \/ AbortDiscard(p) \/ AbortClose(p) \/ ThawRoot(p) \/ ThawClose(p)
    \/ Touch(p) \/ RecordResume(p)

Next ==
    \/ \E p \in Procs : \/ Begin(p) \/ Proceed(p)
                        \/ AgentExits(p) \/ AgentWrites(p) \/ Kill(p)
    \/ Reboot

Spec == Init /\ [][Next]_vars

\* A command that has started keeps running: nothing in it waits but for the
\* agent.
FairSpec == Spec /\ \A p \in Procs : WF_vars(Proceed(p))

-----------------------------------------------------------------------------
TypeOK ==
    /\ disk \in States \cup {"unborn", "removed"}
    /\ mode \in Modes
    /\ branch \in [Roots -> BranchStates]
    /\ mounted \in [Roots -> BOOLEAN]
    /\ delta \subseteq Changes
    /\ base \subseteq Changes
    /\ proc \in [Procs -> ProcState]
    /\ accepted \subseteq Changes
    /\ dropped \subseteq Changes

\* Modes in which finalize_session may commit on its own.
AutoModes == {"workspace-auto", "training-run"}

\* Only work that policy allows reaches the base without a human: in an auto
\* mode the changes that are neither flagged nor ignored, in another mode
\* nothing; and a human can only accept what filter_ignored let through.
\* However the commands overlap, fail and crash (policy.py evaluate,
\* runner.py finalize_session, ctl.py commit and review).
OnlyReviewedInBase ==
    base \subseteq
       (accepted \cup (IF mode \in AutoModes THEN Changes \ Flagged ELSE {}))
          \ Ignored

\* No command discards a branch that holds the only copy of reviewable work,
\* unless a human (abort, a selective review) or throwaway mode decided so: every change
\* is in a live branch, in the base, ignored, or was given up on purpose
\* ("failure must never lose the branch", runner.py).
NoWorkLost ==
    \A c \in delta \ Ignored :
       Live(RootOf[c]) \/ c \in base \/ c \in dropped

\* What the record of a closed session promises: auto-committed means that all
\* of its reviewable work is in the base, and auto-committed and aborted both
\* that none of its branches is left.
ClosedMeansDone ==
    /\ disk = "auto-committed" => delta \ Ignored \subseteq base
    /\ disk \in {"auto-committed", "aborted"} => \A r \in Roots : ~Live(r)

\* The durable record moves along the transition table of session.py, which
\* the code enforces on each Session object only.
RecordFollowsTable ==
    [][\/ disk' = disk
       \/ disk = "unborn" /\ disk' = "created"
       \/ disk \in CleanupStates /\ disk' = "removed"
       \/ disk \in States /\ disk' \in Successors(disk)]_vars

\* A supervisor leaves a record that is terminal or pending-review, never one of
\* the states on the way (_run_agent_and_finalize): but for a resume that cannot
\* mount, which leaves the record as it was, and for one that could not save its
\* outcome, which leaves a record that abort takes.
LeavesSettled ==
    [][\A p \in Procs :
          (/\ Proceed(p)
           /\ proc[p].cmd \in {"run", "resume"}
           /\ proc'[p].pc = "idle")
             => \/ disk' \in TerminalStates \cup {"pending-review"}
                \/ proc[p].cmd = "resume" /\ proc[p].st = "running"
                \/ /\ proc[p].pc \in Launching \cup {"unsaved"}
                   /\ disk' \in States \ TerminalStates]_vars

\* Whatever fails, a command that is not killed comes to its end (or to its
\* agent), and its supervisor leaves a settled record, or, when the save of its
\* outcome fails too, one that an operator can still abort.
SupervisorSettles ==
    /\ \A p \in Procs : (proc[p].pc # "agent") ~> (proc[p].pc \in {"idle", "agent"})
    /\ LeavesSettled

\* Whatever record a crash or a failure left behind, also one that neither finish
\* nor resume nor commit takes (ctl.py, finish): an operator who keeps aborting,
\* and resumes no more, closes the session once things stop failing.
AbortCloses ==
    (/\ \A p \in Procs : SF_vars(BeginAbort(p))
     /\ <>[][\A p \in Procs : ~Kill(p) /\ ~BeginResume(p)]_vars)
       => (disk \in States \ TerminalStates)
             ~> (disk \in TerminalStates \cup {"removed"} \/ \E p \in Procs : At(p, "agent"))

-----------------------------------------------------------------------------
\* What becomes of each change, as the ledger of the session's work sees it.
Fate(c) ==
    CASE c \notin delta                    -> "unmade"
      [] c \in delta \cap base            -> "delivered"
      [] c \in delta \ base /\ Live(RootOf[c]) -> "pending"
      [] OTHER                             -> "discarded"

Ledger == INSTANCE WorkLedger WITH
    fate <- [c \in Changes |-> Fate(c)],
    cleared <- IF mode \in AutoModes THEN Changes \ Flagged ELSE {},
    givenUp <- dropped

\* With one command at a time, the session keeps the ledger's promise: a change
\* is delivered or discarded once and for good, and never without a reason.
KeepsLedger == Ledger!Spec
=============================================================================
