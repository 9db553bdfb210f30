-------------------------- MODULE HookLoopProofs --------------------------
(***************************************************************************)
(* Theorems about HookLoop, for any agents, any repair budget and any       *)
(* failures: until two commands overlap, the record of the session can be   *)
(* loaded, and no launch of an agent is sent back more often than the       *)
(* budget says.                                                             *)
(***************************************************************************)
EXTENDS HookLoop, FiniteSetTheorems, TLAPS

-----------------------------------------------------------------------------
\* There are files enough

LEMMA ProcsFinite == IsFiniteSet(Procs) /\ Cardinality(Procs) \in Nat
BY HookAssumption, FS_AddElement, FS_CardinalityType DEF Procs

\* No way to hand a file to each process uses all of them.
LEMMA SomeFileLeft ==
    ASSUME NEW used \in [Procs -> Files] PROVE \E f \in Files : \A x \in Procs : used[x] # f
<1> SUFFICES ASSUME \A f \in Files : \E x \in Procs : used[x] = f PROVE FALSE
  OBVIOUS
<1>1. used \in Surjection(Procs, Files)
  BY DEF Surjection
<1>2. IsFiniteSet(Files) /\ Cardinality(Files) <= Cardinality(Procs)
  BY <1>1, ProcsFinite, FS_Surjection DEF ExistsSurjection
<1>3. Cardinality(Files) \in Nat
  BY <1>2, FS_CardinalityType
<1> QED BY <1>2, <1>3, ProcsFinite, FilesSuffice

LEMMA FilesThere == Files # {}
<1> SUFFICES ASSUME Files = {} PROVE FALSE
  OBVIOUS
<1>1. Cardinality(Files) = 0
  BY FS_EmptySet
<1> QED BY <1>1, ProcsFinite, FilesSuffice

\* A process that is not writing has no file open, and the two names never mean
\* the same file; the end of a session loads nothing.
Apart ==
    /\ record # temp
    /\ \A x \in Procs : proc[x].pc # "write" => proc[x].fd = NoFile
    /\ \A x \in Procs : proc[x].pc = "load" => proc[x].op # "exit"

LEMMA UnusedThere ==
    ASSUME TypeOK, Apart, NEW x \in Procs, proc[x].pc = "open", temp = NoFile
    PROVE  Unused # {}
<1> DEFINE used == [y \in Procs |->
              IF proc[y].fd \in Files THEN proc[y].fd ELSE record]
           useX == [used EXCEPT ![x] = record]
<1>1. useX \in [Procs -> Files]
  BY DEF TypeOK
<1>2. PICK f \in Files : \A y \in Procs : useX[y] # f
  BY <1>1, SomeFileLeft
<1>3. f # record
  BY <1>2
<1>4. ASSUME NEW y \in Procs, proc[y].fd = f PROVE FALSE
  <2>1. CASE y = x
    BY <2>1, <1>4, HookAssumption DEF Apart
  <2>2. CASE y # x
    BY <2>2, <1>2, <1>4
  <2> QED BY <2>1, <2>2
<1>5. f \in Unused
  BY <1>3, <1>4, HookAssumption DEF Unused
<1> QED BY <1>5

-----------------------------------------------------------------------------
\* Types of what the steps assign

LEMMA NewTyped == New \in Session
BY HookAssumption DEF New, Session

LEMMA TextsTyped ==
    /\ Empty \in Text
    /\ Garbled \in Text
    /\ \A s \in Session : Whole(s) \in Text
BY NewTyped DEF Empty, Garbled, Whole, Text

LEMMA IdleTyped == Idle \in Command
BY NewTyped DEF Idle, Command

LEMMA StartsTyped ==
    ASSUME NEW op \in {"check", "finish-turn", "nested-run", "resume"}
    PROVE  Starts(op) \in Command
BY IdleTyped DEF Starts, Idle, Command

\* What a command does when it fails or ends changes its own entry only, and it
\* is between commands then, or the supervisor saves its end once more.
LEMMA GoesOn ==
    ASSUME TypeOK, NEW a \in Agents, NEW code, HookGoesOn(a, code)
    PROVE  /\ \/ proc' = [proc EXCEPT ![a] = Idle]
              \/ proc' = [proc EXCEPT ![a] = Starts("finish-turn")]
           /\ agent' \in [Agents -> {"working", "stopping", "waiting", "gone"}]
           /\ told' \in 0 .. MaxRepairs + 1
           /\ \/ told' = told
              \/ proc[a].op = "check" /\ code = 2 /\ told' = CountUp(told)
<1>1. CountUp(told) \in 0 .. MaxRepairs + 1
  BY HookAssumption DEF TypeOK, CountUp
<1> QED BY <1>1 DEF HookGoesOn, TypeOK

LEMMA Failed ==
    ASSUME TypeOK, NEW x \in Procs, Fails(x)
    PROVE  /\ \/ proc' = [proc EXCEPT ![x] = Idle]
              \/ proc' = [proc EXCEPT ![x] = Starts("finish-turn")]
              \/ /\ proc[x].op = "exit"
                 /\ proc' = [proc EXCEPT ![x] = [@ EXCEPT !.pc = "open", !.fd = NoFile]]
           /\ agent' \in [Agents -> {"working", "stopping", "waiting", "gone"}]
           /\ told' = told
<1>1. CASE x \in Agents /\ HookGoesOn(x, 1)
  BY <1>1, GoesOn
<1>2. CASE x = Supervisor /\ SupervisorFails
  <2>1. CASE proc[x].op = "exit"
    BY <1>2, <2>1 DEF SupervisorFails, TypeOK
  <2>2. CASE proc[x].op # "exit"
    BY <1>2, <2>2 DEF SupervisorFails, TypeOK
  <2> QED BY <2>1, <2>2
<1> QED BY <1>1, <1>2 DEF Fails

LEMMA FailedTyped ==
    ASSUME TypeOK, NEW x \in Procs, Fails(x)
    PROVE  proc' \in [Procs -> Command]
<1>1. [proc[x] EXCEPT !.pc = "open", !.fd = NoFile] \in Command
  BY DEF TypeOK, Command
<1> QED BY <1>1, Failed, IdleTyped, StartsTyped DEF TypeOK

\* An entry of the table of commands is assigned.
LEMMA EntryTyped ==
    ASSUME TypeOK, NEW x \in Procs, NEW c \in Command, proc' = [proc EXCEPT ![x] = c]
    PROVE  /\ proc' \in [Procs -> Command]
           /\ proc'[x] = c
           /\ \A y \in Procs \ {x} : proc'[y] = proc[y]
BY DEF TypeOK

TypedApart == TypeOK /\ Apart

LEMMA ApartEntry ==
    ASSUME TypedApart, NEW x \in Procs, NEW c \in Command,
           proc' = [proc EXCEPT ![x] = c], UNCHANGED names,
           c.pc # "write" => c.fd = NoFile,
           c.pc = "load" => c.op # "exit"
    PROVE  Apart'
BY EntryTyped DEF TypedApart, TypeOK, Apart, names

LEMMA FailedApart ==
    ASSUME TypedApart, NEW x \in Procs, Fails(x), UNCHANGED names
    PROVE  Apart'
<1> DEFINE again == [proc[x] EXCEPT !.pc = "open", !.fd = NoFile]
<1>1. /\ again \in Command /\ again.pc = "open" /\ again.fd = NoFile
  BY DEF TypedApart, TypeOK, Command
<1>2. /\ Idle.pc = "idle" /\ Idle.fd = NoFile
      /\ Starts("finish-turn").fd = NoFile
      /\ Starts("finish-turn").op = "finish-turn"
  BY DEF Idle, Starts
<1>3. \/ proc' = [proc EXCEPT ![x] = Idle]
      \/ proc' = [proc EXCEPT ![x] = Starts("finish-turn")]
      \/ proc' = [proc EXCEPT ![x] = again]
  BY Failed DEF TypedApart
<1> HIDE DEF again
<1> QED BY <1>1, <1>2, <1>3, ApartEntry, IdleTyped, StartsTyped

-----------------------------------------------------------------------------
\* Types, action by action

\* What a load makes of a command's entry.
Loaded(x) ==
    [proc[x] EXCEPT
        !.pc = IF proc[x].op = "check" THEN "status" ELSE "open",
        !.session = IF proc[x].op = "resume"
                    THEN [content[record].session EXCEPT !.running = TRUE]
                    ELSE content[record].session]

LEMMA LoadedTyped ==
    ASSUME TypeOK, NEW x \in Procs
    PROVE  /\ Loaded(x) \in Command
           /\ Loaded(x).pc = IF proc[x].op = "check" THEN "status" ELSE "open"
           /\ Loaded(x).op = proc[x].op
           /\ Loaded(x).fd = proc[x].fd
           /\ Loaded(x).verdict = proc[x].verdict
           /\ proc[x].op # "resume" => Loaded(x).session = content[record].session
<1>1. content[record].session \in Session
  BY DEF TypeOK, Text
<1>2. [content[record].session EXCEPT !.running = TRUE] \in Session
  BY <1>1 DEF Session
<1>3. proc[x] \in Command
  BY DEF TypeOK
<1> DEFINE s == IF proc[x].op = "resume"
                THEN [content[record].session EXCEPT !.running = TRUE]
                ELSE content[record].session
           l == IF proc[x].op = "check" THEN "status" ELSE "open"
<1>5. s \in Session /\ l \in {"status", "open"}
  BY <1>1, <1>2
<1>6. Loaded(x) = [proc[x] EXCEPT !.pc = l, !.session = s]
  BY DEF Loaded
<1>7. proc[x].op # "resume" => s = content[record].session
  OBVIOUS
<1> HIDE DEF s, l
<1>8. /\ Loaded(x) \in Command /\ Loaded(x).pc = l /\ Loaded(x).op = proc[x].op
      /\ Loaded(x).fd = proc[x].fd /\ Loaded(x).verdict = proc[x].verdict
      /\ Loaded(x).session = s
  BY <1>3, <1>5, <1>6 DEF Command
<1> QED BY <1>7, <1>8 DEF l

LEMMA LoadShape ==
    ASSUME TypeOK, NEW x \in Procs, Load(x)
    PROVE  /\ UNCHANGED <<names, content, held, dirty>>
           /\ proc[x].pc = "load"
           /\ Overlapping(x)
           /\ \/ /\ content[record].text = "whole"
                 /\ proc[x].op = "check" => content[record].session.running
                 /\ proc' = [proc EXCEPT ![x] = Loaded(x)]
                 /\ UNCHANGED <<agent, told>>
              \/ Fails(x)
<1>1. [proc EXCEPT
         ![x].pc = IF proc[x].op = "check" THEN "status" ELSE "open",
         ![x].session = IF proc[x].op = "resume"
                        THEN [content[record].session EXCEPT !.running = TRUE]
                        ELSE content[record].session]
        = [proc EXCEPT ![x] = Loaded(x)]
  BY DEF TypeOK, Command, Loaded
<1> QED BY <1>1 DEF Load

LEMMA LoadTyped ==
    ASSUME TypedApart, NEW x \in Procs, Load(x) PROVE TypedApart'
<1> USE DEF TypedApart
<1>1. overlap' \in BOOLEAN
  BY DEF Load, Overlapping
<1>2. CASE Fails(x)
  <2>1. Apart'
    BY <1>2, LoadShape, FailedApart
  <2> QED BY <1>1, <1>2, <2>1, LoadShape, Failed, FailedTyped DEF TypeOK, names
<1>3. CASE proc' = [proc EXCEPT ![x] = Loaded(x)] /\ UNCHANGED <<agent, told>>
  <2>1. Apart'
    BY <1>3, LoadShape, LoadedTyped, ApartEntry DEF Apart
  <2> QED BY <1>1, <1>3, <2>1, LoadShape, LoadedTyped, EntryTyped DEF TypeOK, names
<1> QED BY <1>2, <1>3, LoadShape

\* The entry of a check that has its verdict.
LEMMA JudgedTyped ==
    ASSUME TypeOK, NEW a \in Procs, NEW v \in {"allow", "repair", "exhausted"},
           NEW t \in {0, 1}, t = 1 => Left(a), Judged(a, v, t)
    PROVE  \E c \in Command :
              /\ proc' = [proc EXCEPT ![a] = c]
              /\ c.pc = "open" /\ c.verdict = v
              /\ c.op = proc[a].op /\ c.fd = proc[a].fd
              /\ c.session.running = proc[a].session.running
              /\ c.session.repairs = proc[a].session.repairs + t
<1> DEFINE s == [proc[a].session EXCEPT !.repairs = @ + t]
           c == [proc[a] EXCEPT !.pc = "open", !.verdict = v, !.session = s]
<1>1. proc[a] \in Command /\ proc[a].session \in Session
  BY DEF TypeOK, Command
<1>2. /\ s \in Session
      /\ s.running = proc[a].session.running
      /\ s.repairs = proc[a].session.repairs + t
  BY <1>1, HookAssumption DEF Session, Left
<1> HIDE DEF s
<1>3. /\ c \in Command /\ c.pc = "open" /\ c.verdict = v /\ c.session = s
      /\ c.op = proc[a].op /\ c.fd = proc[a].fd
  BY <1>1, <1>2 DEF Command
<1>5. proc' = [proc EXCEPT ![a] = c]
  BY <1>1 DEF Judged, Command, Session, TypeOK, s
<1> HIDE DEF c
<1> QED BY <1>2, <1>3, <1>5

LEMMA StatusTyped ==
    ASSUME TypedApart, NEW x \in Procs, ReadStatus(x) PROVE TypedApart'
<1> USE DEF TypedApart
<1>1. \E v \in {"allow", "repair", "exhausted"}, t \in {0, 1} :
         (t = 1 => Left(x)) /\ Judged(x, v, t)
  BY DEF ReadStatus
<1>2. PICK c \in Command : /\ proc' = [proc EXCEPT ![x] = c]
                           /\ c.pc = "open" /\ c.fd = proc[x].fd
  BY <1>1, JudgedTyped
<1>3. Apart'
  BY <1>2, ApartEntry DEF ReadStatus, Apart
<1> QED BY <1>2, <1>3, EntryTyped DEF ReadStatus, TypeOK, names

\* The step of a save: where it is and which file is open.
At(x, l, f) == [proc[x] EXCEPT !.pc = l, !.fd = f]

LEMMA AtTyped ==
    ASSUME TypeOK, NEW x \in Procs, NEW l \in {"open", "write", "rename"},
           NEW f \in Files \cup {NoFile}
    PROVE  /\ At(x, l, f) \in Command
           /\ At(x, l, f).pc = l /\ At(x, l, f).fd = f
           /\ At(x, l, f).op = proc[x].op
           /\ At(x, l, f).session = proc[x].session
           /\ At(x, l, f).verdict = proc[x].verdict
BY DEF TypeOK, Command, At

LEMMA OpenShape ==
    ASSUME TypedApart, NEW x \in Procs, OpenTemp(x)
    PROVE  /\ temp' \in Files /\ temp' # record /\ temp' # NoFile
           /\ content' = [content EXCEPT ![temp'] = Empty]
           /\ proc' = [proc EXCEPT ![x] = At(x, "write", temp')]
<1>1. CASE temp = NoFile
  <2>1. Unused # {}
    BY <1>1, UnusedThere DEF OpenTemp, TypedApart
  <2>2. temp' \in Unused
    BY <1>1, <2>1 DEF OpenTemp
  <2>3. temp' \in Files /\ temp' # record
    BY <2>2 DEF Unused
  <2> QED BY <2>3, HookAssumption DEF OpenTemp, At
<1>2. CASE temp # NoFile
  <2>1. temp' \in Files /\ temp' # record
    BY <1>2 DEF OpenTemp, TypedApart, TypeOK, Apart
  <2> QED BY <1>2, <2>1 DEF OpenTemp, At
<1> QED BY <1>1, <1>2

LEMMA OpenTyped ==
    ASSUME TypedApart, NEW x \in Procs, OpenTemp(x) PROVE TypedApart'
<1> USE DEF TypedApart
<1>1. At(x, "write", temp') \in Command
  BY OpenShape, AtTyped
<1>2. proc' \in [Procs -> Command]
  BY <1>1, OpenShape, EntryTyped
<1>3. content' \in [Files -> Text]
  BY OpenShape, TextsTyped DEF TypeOK
<1>4. Apart'
  <2>1. record' # temp'
    BY OpenShape DEF OpenTemp
  <2>2. \A y \in Procs : /\ proc'[y].pc # "write" => proc'[y].fd = NoFile
                         /\ proc'[y].pc = "load" => proc'[y].op # "exit"
    BY <1>1, OpenShape, AtTyped, EntryTyped DEF Apart
  <2> QED BY <2>1, <2>2 DEF Apart
<1> QED BY <1>2, <1>3, <1>4, OpenShape DEF OpenTemp, TypeOK

LEMMA WriteShape ==
    ASSUME TypedApart, NEW x \in Procs, WriteTemp(x)
    PROVE  /\ proc' = [proc EXCEPT ![x] = At(x, "rename", NoFile)]
           /\ content' \in [Files -> Text]
           /\ \A g \in Files \ {proc[x].fd} : content'[g] = content[g]
           /\ proc[x].fd = temp /\ temp # NoFile /\ content[temp] = Empty
                 => content'[temp] = Whole(proc[x].session)
<1> USE DEF TypedApart
<1>1. proc[x] \in Command /\ proc[x].session \in Session
  BY DEF TypeOK, Command
<1>2. Whole(proc[x].session) \in Text /\ Garbled \in Text
  BY <1>1, TextsTyped
<1>3. proc' = [proc EXCEPT ![x] = At(x, "rename", NoFile)]
  BY DEF WriteTemp, At
<1> DEFINE f == proc[x].fd
<1>4. \/ content' = [content EXCEPT ![f] = Whole(proc[x].session)]
      \/ content' = [content EXCEPT ![f] = Garbled] /\ content[f] # Empty
      \/ content' = content /\ f \notin {record, temp}
  BY DEF WriteTemp
<1>5. temp # NoFile => temp \in Files
  BY DEF TypeOK
<1> HIDE DEF f
<1>6. /\ content' \in [Files -> Text]
      /\ \A g \in Files \ {f} : content'[g] = content[g]
  BY <1>2, <1>4 DEF TypeOK
<1>7. f = temp /\ temp # NoFile /\ content[temp] = Empty
         => content'[temp] = Whole(proc[x].session)
  BY <1>4, <1>5 DEF TypeOK
<1> QED BY <1>3, <1>6, <1>7 DEF f

LEMMA WriteTyped ==
    ASSUME TypedApart, NEW x \in Procs, WriteTemp(x) PROVE TypedApart'
<1> USE DEF TypedApart
<1>1. /\ At(x, "rename", NoFile) \in Command
      /\ At(x, "rename", NoFile).pc = "rename"
      /\ At(x, "rename", NoFile).fd = NoFile
  BY AtTyped
<1>2. Apart'
  BY <1>1, WriteShape, ApartEntry DEF WriteTemp
<1> QED BY <1>1, <1>2, WriteShape, EntryTyped DEF WriteTemp, TypeOK, names

\* The end of a save.
LEMMA SavedShape ==
    ASSUME TypeOK, NEW x \in Procs, Saved(x)
    PROVE  /\ \/ proc' = [proc EXCEPT ![x] = Idle]
              \/ proc' = [proc EXCEPT ![x] = Starts("finish-turn")]
           /\ held' \in Session
           /\ agent' \in [Agents -> {"working", "stopping", "waiting", "gone"}]
           /\ told' \in 0 .. MaxRepairs + 1
           /\ \/ told' = told /\ proc[x].op # "resume"
              \/ told' = 0
              \/ /\ proc[x].op = "check" /\ proc[x].verdict = "repair"
                 /\ told' = CountUp(told)
<1>1. CASE x \in Agents
  <2>1. PICK code \in {0, 2} :
           /\ HookGoesOn(x, code)
           /\ code = 2 <=> proc[x].op = "check" /\ proc[x].verdict = "repair"
    BY <1>1, HookAssumption DEF Saved
  <2>2. proc[x].op # "resume"
    BY <2>1 DEF HookGoesOn
  <2>3. UNCHANGED held
    BY <1>1, HookAssumption DEF Saved
  <2> QED BY <1>1, <2>1, <2>2, <2>3, GoesOn DEF TypeOK
<1>2. CASE x = Supervisor
  <2>1. proc' = [proc EXCEPT ![x] = Idle]
    BY <1>2, HookAssumption DEF Saved
  <2>2. CASE proc[x].op = "resume"
    <3>1. held' = proc[x].session /\ told' = 0
      BY <1>2, <2>2, HookAssumption DEF Saved
    <3>2. held' \in Session
      BY <3>1 DEF TypeOK, Command
    <3>3. agent' = [a \in Agents |-> IF agent[a] = "gone" THEN "working" ELSE agent[a]]
      BY <1>2, <2>2, HookAssumption DEF Saved
    <3>4. agent' \in [Agents -> {"working", "stopping", "waiting", "gone"}]
      BY <3>3 DEF TypeOK
    <3> QED BY <2>1, <3>1, <3>2, <3>4, HookAssumption
  <2>3. CASE proc[x].op # "resume"
    <3>1. UNCHANGED <<held, agent, told>>
      BY <1>2, <2>3, HookAssumption DEF Saved
    <3> QED BY <2>1, <2>3, <3>1 DEF TypeOK
  <2> QED BY <2>2, <2>3
<1> QED BY <1>1, <1>2 DEF Procs

LEMMA RenameTyped ==
    ASSUME TypedApart, NEW x \in Procs, Rename(x) PROVE TypedApart'
<1> USE DEF TypedApart
<1>1. CASE temp # NoFile /\ Saved(x) /\ record' = temp /\ temp' = NoFile
           /\ content' = [content EXCEPT ![record] = Empty]
  <2>1. record' \in Files /\ record' # temp'
    BY <1>1, HookAssumption DEF TypeOK
  <2>2. content' \in [Files -> Text]
    BY <1>1, TextsTyped DEF TypeOK
  <2>3. PICK c \in {Idle, Starts("finish-turn")} : proc' = [proc EXCEPT ![x] = c]
    BY <1>1, SavedShape
  <2>4. c \in Command /\ c.fd = NoFile /\ c.op # "exit"
    <3>1. Idle.fd = NoFile /\ Idle.op = "none"
      BY DEF Idle
    <3>2. Starts("finish-turn").fd = NoFile /\ Starts("finish-turn").op = "finish-turn"
      BY DEF Starts, Idle
    <3> QED BY <3>1, <3>2, IdleTyped, StartsTyped
  <2>5. /\ proc' \in [Procs -> Command]
        /\ proc'[x] = c /\ \A y \in Procs \ {x} : proc'[y] = proc[y]
    BY <2>3, <2>4, EntryTyped
  <2>6. Apart'
    BY <2>1, <2>4, <2>5 DEF Apart
  <2> QED BY <1>1, <2>1, <2>2, <2>5, <2>6, SavedShape DEF Rename, TypeOK
<1>2. CASE Fails(x) /\ UNCHANGED <<names, content, held>>
  BY <1>2, FailedApart, Failed, FailedTyped DEF Rename, TypeOK, names
<1> QED BY <1>1, <1>2 DEF Rename

\* The agents, and a command that fails.
LEMMA AgentTyped ==
    ASSUME TypedApart, NEW a \in Agents,
           Work(a) \/ Stop(a) \/ ReportStop(a) \/ NestedRun(a) \/ Prompt(a) \/ CommandFails(a)
    PROVE  TypedApart'
<1> USE DEF TypedApart
<1>0. a \in Procs
  BY DEF Procs
<1>1. CASE Work(a) \/ Prompt(a)
  BY <1>1 DEF Work, Prompt, TypeOK, Apart, names
<1>2. CASE Stop(a) \/ ReportStop(a) \/ NestedRun(a)
  <2>1. PICK op \in {"check", "finish-turn", "nested-run"} :
           proc' = [proc EXCEPT ![a] = Starts(op)]
    BY <1>2 DEF Stop, ReportStop, NestedRun
  <2>2. /\ Starts(op) \in Command
        /\ Starts(op).fd = NoFile /\ Starts(op).op # "exit"
    BY StartsTyped DEF Starts, Idle
  <2>3. Apart'
    BY <1>0, <1>2, <2>1, <2>2, ApartEntry DEF Stop, ReportStop, NestedRun
  <2> QED BY <1>0, <1>2, <2>1, <2>2, <2>3, EntryTyped
          DEF Stop, ReportStop, NestedRun, TypeOK, names
<1>3. CASE CommandFails(a)
  BY <1>0, <1>3, FailedApart, Failed, FailedTyped DEF CommandFails, TypeOK, names
<1> QED BY <1>1, <1>2, <1>3

\* What the supervisor holds as the end of its session.
LEMMA ExitShape ==
    ASSUME TypedApart, AgentExits
    PROVE  /\ held' \in Session /\ ~held'.running
           /\ LET c == [Idle EXCEPT !.pc = "open", !.op = "exit", !.session = held']
              IN  /\ c \in Command /\ c.pc = "open" /\ c.op = "exit" /\ c.fd = NoFile
                  /\ c.session = held' /\ c.verdict = "allow"
                  /\ proc' = [proc EXCEPT ![Supervisor] = c]
<1> USE DEF TypedApart
<1>1. held' \in Session /\ ~held'.running
  BY DEF AgentExits, TypeOK, Session
<1> DEFINE c == [Idle EXCEPT !.pc = "open", !.op = "exit", !.session = held']
<1>2. /\ c \in Command /\ c.pc = "open" /\ c.op = "exit" /\ c.fd = NoFile
      /\ c.session = held' /\ c.verdict = "allow"
  BY <1>1, IdleTyped DEF Idle, Command
<1>3. proc' = [proc EXCEPT ![Supervisor] = c]
  BY DEF AgentExits
<1> QED BY <1>1, <1>2, <1>3

LEMMA SupervisorTyped ==
    ASSUME TypedApart, AgentExits \/ ResumeSession \/ Reboot
    PROVE  TypedApart'
<1> USE DEF TypedApart
<1>0. Supervisor \in Procs /\ Main \in Agents
  BY HookAssumption DEF Procs
<1>1. CASE AgentExits
  <2> DEFINE c == [Idle EXCEPT !.pc = "open", !.op = "exit", !.session = held']
  <2>1. /\ held' \in Session
        /\ c \in Command /\ c.pc = "open" /\ c.fd = NoFile
        /\ proc' = [proc EXCEPT ![Supervisor] = c]
    BY <1>1, ExitShape
  <2> HIDE DEF c
  <2>2. Apart'
    BY <1>0, <1>1, <2>1, ApartEntry DEF AgentExits
  <2>3. overlap' \in BOOLEAN
    BY <1>1 DEF AgentExits, Overlapping
  <2>4. agent' \in [Agents -> {"working", "stopping", "waiting", "gone"}]
    BY <1>0, <1>1 DEF AgentExits, TypeOK
  <2>5. proc' \in [Procs -> Command]
    BY <1>0, <2>1, EntryTyped
  <2> QED BY <1>1, <2>1, <2>2, <2>3, <2>4, <2>5 DEF AgentExits, TypeOK, names
<1>2. CASE ResumeSession
  <2>1. proc' = [proc EXCEPT ![Supervisor] = Starts("resume")]
    BY <1>2 DEF ResumeSession
  <2>2. /\ Starts("resume") \in Command
        /\ Starts("resume").fd = NoFile /\ Starts("resume").op # "exit"
    BY StartsTyped DEF Starts, Idle
  <2>3. Apart'
    BY <1>0, <1>2, <2>1, <2>2, ApartEntry DEF ResumeSession
  <2> QED BY <1>0, <1>2, <2>1, <2>2, <2>3, EntryTyped DEF ResumeSession, TypeOK, names
<1>3. CASE Reboot
  <2>1. Idle.pc = "idle" /\ Idle.fd = NoFile
    BY DEF Idle
  <2>2. proc' \in [Procs -> Command] /\ Apart'
    BY <1>3, <2>1, IdleTyped DEF Reboot, Apart, names
  <2> QED BY <1>3, <2>2 DEF Reboot, TypeOK, names
<1> QED BY <1>1, <1>2, <1>3

LEMMA TypedNext == ASSUME TypedApart, [Next]_vars PROVE TypedApart'
<1>1. ASSUME NEW x \in Procs, Proceed(x) PROVE TypedApart'
  BY <1>1, LoadTyped, StatusTyped, OpenTyped, WriteTyped, RenameTyped DEF Proceed
<1>2. CASE UNCHANGED vars
  BY <1>2 DEF vars, TypedApart, TypeOK, Apart
<1> QED BY <1>1, <1>2, AgentTyped, SupervisorTyped DEF Next

LEMMA TypedInit == Init => TypedApart
<1> SUFFICES ASSUME Init PROVE TypedApart
  OBVIOUS
<1>1. record \in Files
  BY FilesThere DEF Init
<1>2. content \in [Files -> Text]
  BY TextsTyped, NewTyped DEF Init
<1>3. proc \in [Procs -> Command] /\ Apart
  <2>1. Idle.pc = "idle" /\ Idle.fd = NoFile
    BY DEF Idle
  <2> QED BY <1>1, <2>1, IdleTyped, HookAssumption DEF Init, Apart
<1>4. 0 \in 0 .. MaxRepairs + 1
  BY HookAssumption
<1>5. /\ temp = NoFile /\ held = New /\ dirty = FALSE /\ told = 0 /\ overlap = FALSE
      /\ agent \in [Agents -> {"working", "stopping", "waiting", "gone"}]
  BY DEF Init
<1> QED BY <1>1, <1>2, <1>3, <1>4, <1>5, NewTyped DEF TypedApart, TypeOK

LEMMA TypedHolds == Spec => []TypedApart
BY TypedInit, TypedNext, PTL DEF Spec

\* The names, the files, the objects of the processes and the history keep their
\* types, which needs that a save always finds a file to write.
THEOREM HookTypeCorrect == Spec => []TypeOK
<1>1. TypedApart => TypeOK
  BY DEF TypedApart
<1> QED BY <1>1, TypedHolds, PTL

-----------------------------------------------------------------------------
\* One command at a time

\* A command that has loaded its session, or saves one without loading, and is
\* not done.
AtWork(c) == c.pc \notin {"idle", "load"}
Solo == \A x, y \in Procs : AtWork(proc[x]) /\ AtWork(proc[y]) => x = y

\* The temporary file of the command that saves.
Saving ==
    \A x \in Procs :
       /\ proc[x].pc = "write"
             => proc[x].fd = temp /\ temp # NoFile /\ content[temp] = Empty
       /\ proc[x].pc = "rename"
             => temp # NoFile /\ content[temp] = Whole(proc[x].session)

\* A session counts every blocked stop of its launch, while it is running; what
\* is written at the end of a session may have forgotten some.
Counts(s) == s.running => told <= s.repairs

\* A verdict that will block a stop has already been counted.
Counted(c) ==
    AtWork(c) /\ c.op # "resume" =>
       /\ Counts(c.session)
       /\ c.pc = "status" => c.session.running
       /\ c.op = "check" /\ c.verdict = "repair" /\ c.pc # "status"
             => told + 1 <= c.session.repairs

Calm ==
    /\ Solo /\ Saving
    /\ content[record].text = "whole"
    /\ told <= MaxRepairs
    /\ Counts(content[record].session)
    /\ \A x \in Procs : Counted(proc[x])

HookInv == TypedApart /\ (~overlap => Calm)

\* Of the entries of the table only one changes: what remains to be shown then is
\* about that one.
LEMMA CalmEntry ==
    ASSUME TypedApart, Calm, NEW x \in Procs, NEW c \in Command,
           proc' = [proc EXCEPT ![x] = c], told' = told, UNCHANGED <<names, content>>,
           AtWork(c) => \A y \in Procs \ {x} : ~AtWork(proc[y]),
           c.pc \notin {"write", "rename"},
           Counted(c)
    PROVE  Calm'
<1>1. \A y \in Procs : proc'[y] = IF y = x THEN c ELSE proc[y]
  BY EntryTyped DEF TypedApart
<1>2. Solo'
  BY <1>1 DEF Calm, Solo
<1>3. Saving'
  BY <1>1 DEF Calm, Saving, names
<1>4. ASSUME NEW y \in Procs PROVE Counted(proc[y])'
  BY <1>1 DEF Calm, Counted, Counts
<1> QED BY <1>2, <1>3, <1>4 DEF Calm, Counts, names

\* An entry at rest says nothing.
LEMMA AtRest == ASSUME NEW c, ~AtWork(c) PROVE Counted(c)
BY DEF Counted

LEMMA RestEntries ==
    /\ ~AtWork(Idle) /\ Idle.pc = "idle"
    /\ \A op \in {"check", "finish-turn", "nested-run", "resume"} :
          ~AtWork(Starts(op)) /\ Starts(op).pc = "load"
BY DEF AtWork, Idle, Starts

\* A step that ends commands, or starts them, and touches no file.
LEMMA CalmRest ==
    ASSUME TypedApart, Calm, NEW x \in Procs,
           NEW c \in {Idle, Starts("check"), Starts("finish-turn"),
                      Starts("nested-run"), Starts("resume")},
           proc' = [proc EXCEPT ![x] = c], told' = told, UNCHANGED <<names, content>>
    PROVE  Calm'
<1>1. c \in Command /\ ~AtWork(c) /\ c.pc \in {"idle", "load"}
  BY IdleTyped, StartsTyped, RestEntries
<1> QED BY <1>1, AtRest, CalmEntry

\* A command that fails.
LEMMA CalmFails ==
    ASSUME TypedApart, Calm, NEW x \in Procs, Fails(x), UNCHANGED <<names, content>>,
           AtWork(proc[x]) \/ proc[x].op # "exit"
    PROVE  Calm'
<1> DEFINE again == [proc[x] EXCEPT !.pc = "open", !.fd = NoFile]
<1>1. /\ again \in Command /\ again.pc = "open" /\ again.op = proc[x].op
      /\ again.session = proc[x].session
  BY DEF TypedApart, TypeOK, Command
<1>2. told' = told
  BY Failed DEF TypedApart
<1>3. CASE proc[x].op = "exit" /\ proc' = [proc EXCEPT ![x] = again]
  <2> HIDE DEF again
  <2>1. AtWork(proc[x])
    BY <1>3
  <2>2. \A y \in Procs \ {x} : ~AtWork(proc[y])
    BY <2>1 DEF Calm, Solo
  <2>3. Counted(again)
    BY <1>1, <1>3, <2>1 DEF Calm, Counted, AtWork
  <2> QED BY <1>1, <1>2, <1>3, <2>2, <2>3, CalmEntry
<1>4. CASE \/ proc' = [proc EXCEPT ![x] = Idle]
           \/ proc' = [proc EXCEPT ![x] = Starts("finish-turn")]
  BY <1>2, <1>4, CalmRest
<1> QED BY <1>3, <1>4, Failed DEF TypedApart

\* A load begins a command's work, while no other is at work.
LEMMA CalmLoad ==
    ASSUME TypedApart, Calm, ~overlap', NEW x \in Procs, Load(x) PROVE Calm'
<1> USE DEF TypedApart
<1>1. \A y \in Procs \ {x} : ~AtWork(proc[y])
  BY LoadShape DEF Overlapping, AtWork
<1>2. CASE Fails(x)
  <2>1. proc[x].op # "exit"
    BY LoadShape DEF Apart
  <2> QED BY <1>2, <2>1, LoadShape, CalmFails
<1>3. CASE /\ proc[x].op = "check" => content[record].session.running
           /\ proc' = [proc EXCEPT ![x] = Loaded(x)]
           /\ UNCHANGED <<agent, told>>
  <2>1. /\ Loaded(x) \in Command
        /\ Loaded(x).pc = IF proc[x].op = "check" THEN "status" ELSE "open"
        /\ Loaded(x).op = proc[x].op
        /\ proc[x].op # "resume" => Loaded(x).session = content[record].session
    BY LoadedTyped
  <2>2. Counted(Loaded(x))
    BY <1>3, <2>1 DEF Calm, Counted, Counts
  <2>3. UNCHANGED <<names, content>> /\ told' = told
    BY <1>3, LoadShape
  <2>4. Loaded(x).pc \notin {"write", "rename"}
    BY <2>1
  <2> QED BY <1>1, <1>3, <2>1, <2>2, <2>3, <2>4, CalmEntry
<1> QED BY <1>2, <1>3, LoadShape

\* A check counts before it blocks.
LEMMA CalmStatus ==
    ASSUME TypedApart, Calm, NEW x \in Procs, ReadStatus(x) PROVE Calm'
<1> USE DEF TypedApart
<1>1. PICK v \in {"allow", "repair", "exhausted"}, t \in {0, 1} :
         /\ t = 1 => Left(x)
         /\ v = "repair" => t = 1
         /\ Judged(x, v, t)
  BY DEF ReadStatus
<1>2. PICK c \in Command :
         /\ proc' = [proc EXCEPT ![x] = c]
         /\ c.pc = "open" /\ c.verdict = v
         /\ c.op = proc[x].op /\ c.fd = proc[x].fd
         /\ c.session.running = proc[x].session.running
         /\ c.session.repairs = proc[x].session.repairs + t
  BY <1>1, JudgedTyped
<1>3. AtWork(proc[x]) /\ proc[x].pc = "status" /\ UNCHANGED <<names, content, told>>
  BY DEF ReadStatus, AtWork
<1>4. \A y \in Procs \ {x} : ~AtWork(proc[y])
  BY <1>3 DEF Calm, Solo
<1>5. Counted(c)
  <2>1. /\ proc[x].session.repairs \in Nat /\ told \in Nat
        /\ Counted(proc[x])
    BY HookAssumption DEF TypeOK, Command, Session, Calm
  <2> QED BY <1>1, <1>2, <1>3, <2>1 DEF Counted, Counts, AtWork
<1> QED BY <1>2, <1>3, <1>4, <1>5, CalmEntry

\* The steps of a save: opened and written by one command, the temporary file holds
\* its session when it takes the record's name.
LEMMA CalmOpen ==
    ASSUME TypedApart, Calm, NEW x \in Procs, OpenTemp(x) PROVE Calm'
<1> USE DEF TypedApart
<1> DEFINE c == At(x, "write", temp')
<1>1. /\ temp' \in Files /\ temp' # record /\ temp' # NoFile
      /\ content' = [content EXCEPT ![temp'] = Empty]
      /\ proc' = [proc EXCEPT ![x] = c]
  BY OpenShape
<1>2. /\ c \in Command /\ c.pc = "write" /\ c.fd = temp'
      /\ c.op = proc[x].op /\ c.session = proc[x].session /\ c.verdict = proc[x].verdict
  BY <1>1, AtTyped
<1>3. proc[x].pc = "open" /\ UNCHANGED <<record, told>>
  BY DEF OpenTemp
<1> HIDE DEF c
<1>4. \A y \in Procs : proc'[y] = IF y = x THEN c ELSE proc[y]
  BY <1>1, <1>2, EntryTyped
<1>5. \A y \in Procs \ {x} : ~AtWork(proc[y])
  BY <1>3 DEF Calm, Solo, AtWork
<1>6. Solo'
  BY <1>4, <1>5 DEF Solo
<1>7. content'[temp'] = Empty /\ content'[record] = content[record]
  BY <1>1 DEF TypeOK
<1>8. Saving'
  BY <1>1, <1>2, <1>4, <1>5, <1>7 DEF Saving, AtWork
<1>9. ASSUME NEW y \in Procs PROVE Counted(proc[y])'
  <2>1. Counted(proc[y]) /\ Counted(proc[x])
    BY DEF Calm
  <2> QED BY <2>1, <1>2, <1>3, <1>4 DEF Counted, Counts, AtWork
<1> QED BY <1>3, <1>6, <1>7, <1>8, <1>9 DEF Calm, Counts

LEMMA CalmWrite ==
    ASSUME TypedApart, Calm, NEW x \in Procs, WriteTemp(x) PROVE Calm'
<1> USE DEF TypedApart
<1> DEFINE c == At(x, "rename", NoFile)
<1>1. /\ proc' = [proc EXCEPT ![x] = c]
      /\ \A g \in Files \ {proc[x].fd} : content'[g] = content[g]
      /\ proc[x].fd = temp /\ temp # NoFile /\ content[temp] = Empty
            => content'[temp] = Whole(proc[x].session)
  BY WriteShape
<1>2. /\ c \in Command /\ c.pc = "rename"
      /\ c.op = proc[x].op /\ c.session = proc[x].session /\ c.verdict = proc[x].verdict
  BY AtTyped
<1>3. proc[x].pc = "write" /\ UNCHANGED <<record, temp, told>>
  BY DEF WriteTemp, names
<1> HIDE DEF c
<1>4. \A y \in Procs : proc'[y] = IF y = x THEN c ELSE proc[y]
  BY <1>1, <1>2, EntryTyped
<1>5. \A y \in Procs \ {x} : ~AtWork(proc[y])
  BY <1>3 DEF Calm, Solo, AtWork
<1>6. Solo'
  BY <1>4, <1>5 DEF Solo
<1>7. proc[x].fd = temp /\ temp # NoFile /\ content[temp] = Empty
  BY <1>3 DEF Calm, Saving
<1>8. content'[temp] = Whole(proc[x].session) /\ content'[record] = content[record]
  BY <1>1, <1>7 DEF Apart, TypeOK
<1>9. Saving'
  BY <1>2, <1>3, <1>4, <1>5, <1>7, <1>8 DEF Saving, AtWork
<1>10. ASSUME NEW y \in Procs PROVE Counted(proc[y])'
  <2>1. Counted(proc[y]) /\ Counted(proc[x])
    BY DEF Calm
  <2> QED BY <2>1, <1>2, <1>3, <1>4 DEF Counted, Counts, AtWork
<1> QED BY <1>3, <1>6, <1>8, <1>9, <1>10 DEF Calm, Counts

LEMMA CalmRename ==
    ASSUME TypedApart, Calm, NEW x \in Procs, Rename(x) PROVE Calm'
<1> USE DEF TypedApart
<1>1. proc[x].pc = "rename" /\ AtWork(proc[x]) /\ Counted(proc[x])
  BY DEF Rename, AtWork, Calm
<1>2. temp # NoFile /\ content[temp] = Whole(proc[x].session)
  BY <1>1 DEF Calm, Saving
<1>3. /\ record' = temp /\ content' = [content EXCEPT ![record] = Empty] /\ Saved(x)
  BY <1>2 DEF Rename
<1>4. content'[record'] = Whole(proc[x].session)
  BY <1>2, <1>3 DEF Apart, TypeOK
<1>5. PICK c \in {Idle, Starts("finish-turn")} : proc' = [proc EXCEPT ![x] = c]
  BY <1>3, SavedShape
<1>6. c \in Command /\ ~AtWork(c) /\ c.pc \in {"idle", "load"}
  BY IdleTyped, StartsTyped, RestEntries
<1>7. \A y \in Procs : ~AtWork(proc'[y]) /\ proc'[y].pc \in {"idle", "load"}
  <2>1. \A y \in Procs \ {x} : ~AtWork(proc[y])
    BY <1>1 DEF Calm, Solo
  <2>2. \A y \in Procs : proc'[y] = IF y = x THEN c ELSE proc[y]
    BY <1>5, <1>6, EntryTyped
  <2> QED BY <1>6, <2>1, <2>2 DEF AtWork
<1>8. Solo' /\ Saving'
  BY <1>7 DEF Solo, Saving
<1>9. \A y \in Procs : Counted(proc[y])'
  BY <1>7 DEF Counted
<1>10. /\ content'[record'].text = "whole"
       /\ content'[record'].session = proc[x].session
  BY <1>4 DEF Whole
<1>11. /\ told \in Nat /\ MaxRepairs \in Nat
       /\ proc[x].session.repairs \in Nat /\ proc[x].session.repairs <= MaxRepairs
  BY HookAssumption DEF TypeOK, Command, Session
<1>12. told <= MaxRepairs
  BY DEF Calm
<1>13. told' <= MaxRepairs /\ Counts(content[record].session)'
  <2>1. CASE told' = 0
    BY <2>1, <1>10, <1>11 DEF Counts
  <2>2. CASE told' = told /\ proc[x].op # "resume"
    <3>1. Counts(proc[x].session)
      BY <1>1, <2>2 DEF Counted
    <3> QED BY <2>2, <3>1, <1>10, <1>12 DEF Counts
  <2>3. CASE /\ proc[x].op = "check" /\ proc[x].verdict = "repair"
             /\ told' = CountUp(told)
    <3>1. told + 1 <= proc[x].session.repairs
      BY <1>1, <2>3 DEF Counted
    <3>2. told' = told + 1
      BY <2>3, <1>11, <1>12 DEF CountUp
    <3> QED BY <3>1, <3>2, <1>10, <1>11 DEF Counts
  <2> QED BY <1>3, <2>1, <2>2, <2>3, SavedShape
<1> QED BY <1>8, <1>9, <1>10, <1>13 DEF Calm

LEMMA CalmAgent ==
    ASSUME TypedApart, Calm, NEW a \in Agents,
           Work(a) \/ Stop(a) \/ ReportStop(a) \/ NestedRun(a) \/ Prompt(a) \/ CommandFails(a)
    PROVE  Calm'
<1>0. a \in Procs
  BY DEF Procs
<1>1. CASE Work(a) \/ Prompt(a)
  BY <1>1 DEF Work, Prompt, names, Calm, Solo, Saving, Counts, Counted
<1>2. CASE Stop(a) \/ ReportStop(a) \/ NestedRun(a)
  <2>1. PICK c \in {Starts("check"), Starts("finish-turn"), Starts("nested-run")} :
           proc' = [proc EXCEPT ![a] = c]
    BY <1>2 DEF Stop, ReportStop, NestedRun
  <2> QED BY <1>0, <1>2, <2>1, CalmRest DEF Stop, ReportStop, NestedRun
<1>3. CASE CommandFails(a)
  <2>1. AtWork(proc[a]) \/ proc[a].op # "exit"
    BY <1>0, <1>3 DEF CommandFails, TypedApart, Apart, AtWork
  <2> QED BY <1>0, <1>3, <2>1, CalmFails DEF CommandFails
<1> QED BY <1>1, <1>2, <1>3

LEMMA CalmSupervisor ==
    ASSUME TypedApart, Calm, ~overlap', AgentExits \/ ResumeSession \/ Reboot
    PROVE  Calm'
<1>0. Supervisor \in Procs
  BY DEF Procs
<1>1. CASE AgentExits
  <2> DEFINE c == [Idle EXCEPT !.pc = "open", !.op = "exit", !.session = held']
  <2>1. /\ c \in Command /\ c.pc = "open" /\ c.op = "exit" /\ ~c.session.running
        /\ proc' = [proc EXCEPT ![Supervisor] = c]
    BY <1>1, ExitShape
  <2> HIDE DEF c
  <2>2. Counted(c)
    BY <2>1 DEF Counted, Counts
  <2>3. \A y \in Procs \ {Supervisor} : ~AtWork(proc[y])
    BY <1>1 DEF AgentExits, Overlapping, AtWork
  <2> QED BY <1>0, <1>1, <2>1, <2>2, <2>3, CalmEntry DEF AgentExits
<1>2. CASE ResumeSession
  <2>1. proc' = [proc EXCEPT ![Supervisor] = Starts("resume")]
    BY <1>2 DEF ResumeSession
  <2> QED BY <1>0, <1>2, <2>1, CalmRest DEF ResumeSession
<1>3. CASE Reboot
  <2>1. \A y \in Procs : ~AtWork(proc'[y]) /\ proc'[y].pc = "idle"
    BY <1>3, RestEntries DEF Reboot
  <2> QED BY <1>3, <2>1 DEF Reboot, names, Calm, Solo, Saving, Counts, Counted
<1> QED BY <1>1, <1>2, <1>3

\* An overlap is never forgotten.
LEMMA OverlapStays == ASSUME [Next]_vars, TypedApart, ~overlap' PROVE ~overlap
<1>1. ASSUME NEW x \in Procs, Proceed(x) PROVE ~overlap
  BY <1>1 DEF Proceed, Load, ReadStatus, OpenTemp, WriteTemp, Rename, Overlapping
<1> QED BY <1>1 DEF Next, Work, Stop, ReportStop, NestedRun, Prompt, CommandFails,
        AgentExits, ResumeSession, Reboot, Overlapping, vars

LEMMA HookNext == ASSUME HookInv, [Next]_vars PROVE HookInv'
<1>1. TypedApart' /\ TypedApart
  BY TypedNext DEF HookInv
<1> SUFFICES ASSUME ~overlap' PROVE Calm'
  BY <1>1 DEF HookInv
<1>2. Calm
  BY <1>1, OverlapStays DEF HookInv
<1>3. ASSUME NEW x \in Procs, Proceed(x) PROVE Calm'
  BY <1>1, <1>2, <1>3, CalmLoad, CalmStatus, CalmOpen, CalmWrite, CalmRename DEF Proceed
<1>4. CASE UNCHANGED vars
  BY <1>2, <1>4 DEF vars, Calm, Solo, Saving, Counts, Counted
<1> QED BY <1>1, <1>2, <1>3, <1>4, CalmAgent, CalmSupervisor DEF Next

LEMMA HookInit == Init => HookInv
<1> SUFFICES ASSUME Init PROVE HookInv
  OBVIOUS
<1>1. \A x \in Procs : ~AtWork(proc[x]) /\ proc[x].pc = "idle"
  BY RestEntries DEF Init
<1>2. Solo /\ Saving /\ \A x \in Procs : Counted(proc[x])
  BY <1>1 DEF Solo, Saving, Counted
<1>3. content[record] = Whole(New) /\ told = 0
  BY FilesThere DEF Init
<1>4. content[record].text = "whole" /\ content[record].session = New
  BY <1>3 DEF Whole
<1>5. told <= MaxRepairs /\ Counts(content[record].session)
  BY <1>3, <1>4, HookAssumption DEF Counts, New
<1> QED BY <1>2, <1>4, <1>5, TypedInit DEF HookInv, Calm

LEMMA HookInvHolds == Spec => []HookInv
BY HookInit, HookNext, PTL DEF Spec

\* Until two commands overlap, the record can be loaded whatever fails and at
\* whichever step of a save the node reboots (SessionStore.save).
THEOREM RecordStaysReadable == Spec => []RecordReadable
<1>1. HookInv => RecordReadable
  BY DEF HookInv, Calm, RecordReadable
<1> QED BY <1>1, HookInvHolds, PTL

\* Until two commands overlap, no launch of an agent is sent back more often than
\* max_policy_repair_attempts says (check_before_final).
THEOREM RepairsStayBounded == Spec => []RepairsBounded
<1>1. HookInv => RepairsBounded
  BY DEF HookInv, Calm, RepairsBounded
<1> QED BY <1>1, HookInvHolds, PTL
=============================================================================
