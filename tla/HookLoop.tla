------------------------------ MODULE HookLoop ------------------------------
(***************************************************************************)
(* The bounded self-repair loop of a session without a control socket: a    *)
(* blocking Stop hook (assets/hooks) runs check-before-final and then       *)
(* finish-turn (ctl.py), each of which loads session.json, changes its own  *)
(* Session object and saves all of it (session.py).  Agents nested in the   *)
(* session do the same with the same record, and so does the supervisor,    *)
(* which saves the object it has held since the launch (runner.py).         *)
(*                                                                          *)
(* save() writes a temporary file of one fixed name and renames it.  Files  *)
(* are inodes here, because a writer keeps the file it opened whatever the  *)
(* name refers to meanwhile.  Every command may fail or be killed between   *)
(* any two steps, and the node may reboot.                                  *)
(***************************************************************************)
EXTENDS Naturals, FiniteSets

CONSTANTS Agents,      \* the agent of the session and those nested in it
          Main,        \* the one whose exit the supervisor waits for
          Supervisor,  \* the process of the supervisor
          MaxRepairs,  \* max_policy_repair_attempts
          Files,       \* inodes of the session directory
          NoFile       \* not a file

Procs == Agents \cup {Supervisor}

ASSUME HookAssumption ==
    /\ IsFiniteSet(Agents) /\ Main \in Agents
    /\ Supervisor \notin Agents
    /\ MaxRepairs \in Nat
    /\ NoFile \notin Files

\* A new temporary file can always be created: one file is the record, and each
\* process but the one that creates it has at most one file open.
ASSUME FilesSuffice == Cardinality(Files) > Cardinality(Procs)

VARIABLES
    record,   \* the file named session.json
    temp,     \* the file named session.json.tmp
    content,  \* per file: what is written in it
    held,     \* the supervisor's Session object
    proc,     \* per agent the command its hook runs; the supervisor's save
    agent,    \* per agent: working, stopping, let go, or gone
    dirty,    \* whether the live changes violate scope or deny rules
    told,     \* history: blocked stops since the launch
    overlap   \* history: whether two commands ever overlapped

vars == <<record, temp, content, held, proc, agent, dirty, told, overlap>>
names == <<record, temp>>

\* What is of interest in a Session: whether its state is "running", and
\* repair_attempts.
Session == [running : BOOLEAN, repairs : 0 .. MaxRepairs]
Text == [text : {"empty", "whole", "garbled"}, session : Session]

Command == [pc : {"idle", "load", "status", "open", "write", "rename"},
            op : {"none", "check", "finish-turn", "nested-run", "exit", "resume"},
            session : Session,         \* its own Session object
            fd : Files \cup {NoFile},  \* the file it has open
            verdict : {"allow", "repair", "exhausted"}]

New == [running |-> TRUE, repairs |-> 0]
Whole(s) == [text |-> "whole", session |-> s]
Empty == [text |-> "empty", session |-> New]
Garbled == [text |-> "garbled", session |-> New]
Idle == [pc |-> "idle", op |-> "none", session |-> New, fd |-> NoFile,
         verdict |-> "allow"]
Starts(op) == [Idle EXCEPT !.pc = "load", !.op = op]

\* The agent has just been launched.
Init ==
    /\ record = CHOOSE f \in Files : TRUE
    /\ temp = NoFile
    /\ content = [f \in Files |-> IF f = record THEN Whole(New) ELSE Empty]
    /\ held = New
    /\ proc = [x \in Procs |-> Idle]
    /\ agent = [a \in Agents |-> "working"]
    /\ dirty = FALSE
    /\ told = 0
    /\ overlap = FALSE

-----------------------------------------------------------------------------
\* The agents

\* The agent changes files, or reverts what it changed.
Work(a) ==
    /\ agent[a] = "working" /\ proc[a].pc = "idle"
    /\ dirty' = ~dirty
    /\ UNCHANGED <<names, content, held, proc, agent, told, overlap>>

\* The agent wants to stop: the harness runs the hook and waits for it.
Stop(a) ==
    /\ agent[a] = "working" /\ proc[a].pc = "idle"
    /\ proc' = [proc EXCEPT ![a] = Starts("check")]
    /\ agent' = [agent EXCEPT ![a] = "stopping"]
    /\ UNCHANGED <<names, content, held, dirty, told, overlap>>

\* A harness that cannot block a stop only reports it: a check would use up a
\* repair nobody is told of.
ReportStop(a) ==
    /\ agent[a] = "working" /\ proc[a].pc = "idle"
    /\ proc' = [proc EXCEPT ![a] = Starts("finish-turn")]
    /\ agent' = [agent EXCEPT ![a] = "stopping"]
    /\ UNCHANGED <<names, content, held, dirty, told, overlap>>

\* The agent runs ccc-agent inside of its session, which records that.
NestedRun(a) ==
    /\ agent[a] = "working" /\ proc[a].pc = "idle"
    /\ proc' = [proc EXCEPT ![a] = Starts("nested-run")]
    /\ UNCHANGED <<names, content, held, agent, dirty, told, overlap>>

\* The user gives an agent that was let go its next task.
Prompt(a) ==
    /\ agent[a] = "waiting"
    /\ agent' = [agent EXCEPT ![a] = "working"]
    /\ UNCHANGED <<names, content, held, proc, dirty, told, overlap>>

-----------------------------------------------------------------------------
\* The hook

\* The history stops counting one above the budget.
CountUp(n) == IF n > MaxRepairs THEN n ELSE n + 1

\* The hook goes by the exit code of its command: 2 from the check blocks the
\* stop, any other goes on to finish-turn, whose exit code does not matter.
HookGoesOn(a, code) ==
    \/ /\ proc[a].op = "check" /\ code = 2
       /\ proc' = [proc EXCEPT ![a] = Idle]
       /\ agent' = [agent EXCEPT ![a] = "working"]
       /\ told' = CountUp(told)
    \/ /\ proc[a].op = "check" /\ code # 2
       /\ proc' = [proc EXCEPT ![a] = Starts("finish-turn")]
       /\ UNCHANGED <<agent, told>>
    \/ /\ proc[a].op = "finish-turn"
       /\ proc' = [proc EXCEPT ![a] = Idle]
       /\ agent' = [agent EXCEPT ![a] = "waiting"]
       /\ UNCHANGED told
    \/ /\ proc[a].op = "nested-run"
       /\ proc' = [proc EXCEPT ![a] = Idle]
       /\ UNCHANGED <<agent, told>>

\* A resume is given up; an end of session that cannot be saved as such is
\* saved once more, as failed.
SupervisorFails ==
    /\ proc' = [proc EXCEPT ![Supervisor] =
                   IF @.op = "exit" THEN [@ EXCEPT !.pc = "open", !.fd = NoFile]
                                    ELSE Idle]
    /\ UNCHANGED <<agent, told>>

\* A command ends with an error.
Fails(x) ==
    \/ x \in Agents /\ HookGoesOn(x, 1)
    \/ x = Supervisor /\ SupervisorFails

\* A command of a hook fails, or is killed.
CommandFails(a) ==
    /\ proc[a].pc # "idle"
    /\ Fails(a)
    /\ UNCHANGED <<names, content, held, dirty, overlap>>

-----------------------------------------------------------------------------
\* The commands

\* x begins while another command is between its load and its save.
Overlapping(x) ==
    overlap' = (overlap \/ \E y \in Procs \ {x} : proc[y].pc \notin {"idle", "load"})

\* SessionStore.load, and what each command changes in what it loaded.  The
\* check wants a running session; a resume follows a crash or a thaw.
Load(x) ==
    /\ proc[x].pc = "load"
    /\ LET found == content[record]
       IN  \/ /\ found.text = "whole"
              /\ proc[x].op = "check" => found.session.running
              /\ proc' = [proc EXCEPT
                    ![x].pc = IF proc[x].op = "check" THEN "status" ELSE "open",
                    ![x].session = IF proc[x].op = "resume"
                                   THEN [found.session EXCEPT !.running = TRUE]
                                   ELSE found.session]
              /\ UNCHANGED <<agent, told>>
           \/ /\ \/ found.text # "whole"
                 \/ proc[x].op = "check" /\ ~found.session.running
              /\ Fails(x)
    /\ Overlapping(x)
    /\ UNCHANGED <<names, content, held, dirty>>

\* The verdict, and how much of the budget it takes.
Judged(a, verdict, taken) ==
    proc' = [proc EXCEPT ![a].pc = "open", ![a].verdict = verdict,
                         ![a].session.repairs = @ + taken]
Left(a) == proc[a].session.repairs < MaxRepairs

\* Faulty variant: the budget is compared the wrong way at its end.
ReadStatusOffByOne(a) ==
    /\ proc[a].pc = "status"
    /\ LET left == proc[a].session.repairs <= MaxRepairs
       IN  \/ ~dirty /\ Judged(a, "allow", 0)
           \/ dirty /\ left /\ Judged(a, "repair", 1)
           \/ dirty /\ ~left /\ Judged(a, "exhausted", 0)
    /\ UNCHANGED <<names, content, held, agent, dirty, told, overlap>>

\* Faulty variant: a repair is asked for without being counted.
ReadStatusUncounted(a) ==
    /\ proc[a].pc = "status"
    /\ \/ ~dirty /\ Judged(a, "allow", 0)
       \/ dirty /\ Left(a) /\ Judged(a, "repair", 0)
       \/ dirty /\ ~Left(a) /\ Judged(a, "exhausted", 0)
    /\ UNCHANGED <<names, content, held, agent, dirty, told, overlap>>

\* Faulty variant: with its budget spent the check waits for a clean status.
ReadStatusWaits(a) ==
    /\ proc[a].pc = "status"
    /\ \/ ~dirty /\ Judged(a, "allow", 0)
       \/ dirty /\ Left(a) /\ Judged(a, "repair", 1)
    /\ UNCHANGED <<names, content, held, agent, dirty, told, overlap>>

\* check_before_final: a dirty status takes one unit of the budget while there
\* is one.
ReadStatus(a) ==
    /\ proc[a].pc = "status"
    /\ \/ ~dirty /\ Judged(a, "allow", 0)
       \/ dirty /\ Left(a) /\ Judged(a, "repair", 1)
       \/ dirty /\ ~Left(a) /\ Judged(a, "exhausted", 0)
    /\ UNCHANGED <<names, content, held, agent, dirty, told, overlap>>

-----------------------------------------------------------------------------
\* SessionStore.save, in the three steps that others can see.

\* A file that no name and no process refers to.
Unused == Files \ ({record, temp} \cup {proc[x].fd : x \in Procs})

\* Faulty variant: the record is written in place.
OpenRecord(x) ==
    /\ proc[x].pc = "open"
    /\ content' = [content EXCEPT ![record] = Empty]
    /\ proc' = [proc EXCEPT ![x] = [@ EXCEPT !.pc = "write", !.fd = record]]
    /\ UNCHANGED <<names, held, agent, dirty, told, overlap>>

\* The temporary file is created, or the one that is there is emptied.
OpenTemp(x) ==
    /\ proc[x].pc = "open"
    /\ temp' = IF temp = NoFile THEN CHOOSE f \in Unused : TRUE ELSE temp
    /\ content' = [content EXCEPT ![temp'] = Empty]
    /\ proc' = [proc EXCEPT ![x] = [@ EXCEPT !.pc = "write", !.fd = temp']]
    /\ UNCHANGED <<record, held, agent, dirty, told, overlap>>

\* The writer's file gets its text.  Over the text of another writer that
\* opened it too, what is longer sticks out.  A file that lost its name is not
\* read any more.
WriteTemp(x) ==
    /\ proc[x].pc = "write"
    /\ LET f == proc[x].fd
       IN  \/ /\ f \in {record, temp}
              /\ content' = [content EXCEPT ![f] = Whole(proc[x].session)]
           \/ /\ f \in {record, temp} /\ content[f] # Empty
              /\ content' = [content EXCEPT ![f] = Garbled]
           \/ /\ f \notin {record, temp}
              /\ UNCHANGED content
    /\ proc' = [proc EXCEPT ![x] = [@ EXCEPT !.pc = "rename", !.fd = NoFile]]
    /\ UNCHANGED <<names, held, agent, dirty, told, overlap>>

\* What comes after a save: the hook's command exits, the supervisor is done,
\* or launches the agent with the object it has saved.
Saved(x) ==
    \/ /\ x \in Agents
       /\ HookGoesOn(x, IF proc[x].op = "check" /\ proc[x].verdict = "repair"
                        THEN 2 ELSE 0)
       /\ UNCHANGED held
    \/ /\ x = Supervisor
       /\ proc' = [proc EXCEPT ![x] = Idle]
       /\ IF proc[x].op = "resume"
          THEN /\ held' = proc[x].session
               /\ agent' = [a \in Agents |-> IF agent[a] = "gone" THEN "working"
                                                                 ELSE agent[a]]
               /\ told' = 0
          ELSE UNCHANGED <<held, agent, told>>

\* The temporary file takes the record's name, if it is still there.
Rename(x) ==
    /\ proc[x].pc = "rename"
    /\ \/ /\ temp # NoFile
          /\ record' = temp /\ temp' = NoFile
          /\ content' = [content EXCEPT ![record] = Empty]
          /\ Saved(x)
       \/ /\ temp = NoFile
          /\ Fails(x)
          /\ UNCHANGED <<names, content, held>>
    /\ UNCHANGED <<dirty, overlap>>

-----------------------------------------------------------------------------
\* The supervisor

\* The agent exits and the supervisor saves the object it holds.
AgentExits ==
    /\ agent[Main] \in {"working", "waiting"} /\ proc[Main].pc = "idle"
    /\ proc[Supervisor].pc = "idle"
    /\ agent' = [agent EXCEPT ![Main] = "gone"]
    /\ held' = [held EXCEPT !.running = FALSE]
    /\ proc' = [proc EXCEPT ![Supervisor] =
                   [Idle EXCEPT !.pc = "open", !.op = "exit", !.session = held']]
    /\ Overlapping(Supervisor)
    /\ UNCHANGED <<names, content, dirty, told>>

\* The session goes on, after a crash or thawed from its review.
ResumeSession ==
    /\ agent[Main] = "gone" /\ proc[Supervisor].pc = "idle"
    /\ proc' = [proc EXCEPT ![Supervisor] = Starts("resume")]
    /\ UNCHANGED <<names, content, held, agent, dirty, told, overlap>>

\* The node reboots: every process is gone, the files stay.
Reboot ==
    /\ proc' = [x \in Procs |-> Idle]
    /\ agent' = [a \in Agents |-> "gone"]
    /\ UNCHANGED <<names, content, held, dirty, told, overlap>>

-----------------------------------------------------------------------------
Proceed(x) ==
    Load(x) \/ ReadStatus(x) \/ OpenTemp(x) \/ WriteTemp(x) \/ Rename(x)

Next ==
    \/ \E x \in Procs : Proceed(x)
    \/ \E a \in Agents : \/ Work(a) \/ Stop(a) \/ ReportStop(a)
                         \/ NestedRun(a) \/ Prompt(a)
                         \/ CommandFails(a)
    \/ AgentExits \/ ResumeSession \/ Reboot

Spec == Init /\ [][Next]_vars

\* A command that was started waits for nobody.
FairSpec == Spec /\ \A x \in Procs : WF_vars(Proceed(x))

-----------------------------------------------------------------------------
TypeOK ==
    /\ record \in Files
    /\ temp \in Files \cup {NoFile}
    /\ content \in [Files -> Text]
    /\ held \in Session
    /\ proc \in [Procs -> Command]
    /\ agent \in [Agents -> {"working", "stopping", "waiting", "gone"}]
    /\ dirty \in BOOLEAN
    /\ told \in 0 .. MaxRepairs + 1
    /\ overlap \in BOOLEAN

\* Until two commands overlap, the record can always be loaded: a save that
\* fails, is killed, or ends with the node leaves the record as it was before or
\* as it is after, and what it leaves in the temporary file does no harm to the
\* next save (session.py, save: "durable JSON store").
RecordReadable == ~overlap => content[record].text = "whole"

\* Until two commands overlap, no launch of an agent is sent back to work more
\* often than the budget says, although every check is a process of its own that
\* knows of the ones before by the record only, and nested runs and finish-turn
\* save the record too (docs/policy.md, "bounds the loop").
RepairsBounded == ~overlap => told <= MaxRepairs

\* "hooks can never livelock the agent" (docs/policy.md): until two commands
\* overlap, and unless the session is ended and resumed again and again, an agent
\* that wants to stop again and again is let go again and again, however dirty
\* its changes stay and whatever becomes of the commands.
LetGo ==
    \/ <>overlap
    \/ []<>(agent[Main] = "gone")
    \/ \A a \in Agents : []<>(agent[a] = "stopping") => []<>(agent[a] = "waiting")
=============================================================================
