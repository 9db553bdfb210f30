------------------------ MODULE BranchfsDriverProofs ------------------------
(***************************************************************************)
(* Theorems about BranchfsDriver, for any number of processes and any       *)
(* timeout: a call of the driver is bounded, an operation finds its daemon, *)
(* a late daemon is found, and a finished abort has left nothing behind.    *)
(***************************************************************************)
EXTENDS BranchfsDriver, TLAPS

-----------------------------------------------------------------------------
\* What the assignments to a call make of it.

LEMMA IdleTyped == Idle \in CallState
<1>1. 0 \in 0 .. Timeout /\ 0 \in Nat
  BY DriverAssumption
<1> QED BY <1>1 DEF Idle, CallState, Steps, Rest

LEMMA GotoTyped ==
    ASSUME NEW c \in CallState, NEW l \in Steps
    PROVE  [c EXCEPT !.pc = l, !.waited = 0] \in CallState
<1>1. 0 \in 0 .. Timeout
  BY DriverAssumption
<1> QED BY <1>1 DEF CallState

LEMMA MoveTyped ==
    ASSUME TypeOK, NEW p \in Procs, NEW l \in Steps, Goto(p, l)
    PROVE  call' \in [Procs -> CallState]
BY GotoTyped DEF Goto, TypeOK

LEMMA RaiseTyped ==
    ASSUME TypeOK, NEW p \in Procs, Raise(p)
    PROVE  call' \in [Procs -> CallState]
BY IdleTyped DEF Raise, TypeOK

LEMMA ReturnTyped ==
    ASSUME TypeOK, NEW p \in Procs, Return(p)
    PROVE  call' \in [Procs -> CallState]
<1>1. [Idle EXCEPT !.pc = IF call[p].op = "abort" THEN "aborted" ELSE "idle"]
        \in CallState
  BY IdleTyped DEF Idle, CallState, Steps, Rest
<1> QED BY <1>1 DEF Return, TypeOK

LEMMA ExitsTyped ==
    ASSUME NEW now \in [Procs -> CallState]
    PROVE  Exits(now) \in [Procs -> CallState]
<1> SUFFICES ASSUME NEW p \in Procs
             PROVE  [now[p] EXCEPT !.exited =
                       @ \/ (daemon' = "none" /\ now[p].pc \notin Rest)] \in CallState
  BY DEF Exits
<1>1. now[p] \in CallState
  OBVIOUS
<1> QED BY <1>1 DEF CallState

\* What the daemon does keeps its state in type.
LEMMA EffectTyped ==
    ASSUME TypeOK, NEW op \in Ops, Effect(op)
    PROVE  /\ daemon' \in {"none", "booting", "ready"}
           /\ mounted' \in BOOLEAN
           /\ branch' \in Branches
BY DEF Effect, TypeOK, Branches

-----------------------------------------------------------------------------
\* Types

\* The steps of a call.
LEMMA ProceedTyped == ASSUME TypeOK, NEW p \in Procs, Proceed(p) PROVE TypeOK'
<1> USE DEF Steps, Quick, Waiting, Commands, Rest
<1>1. CASE Started(p) \/ NotYetStarted(p)
  BY <1>1, MoveTyped DEF Started, NotYetStarted, TypeOK
<1>2. CASE Probe(p) \/ Wake(p)
  <2>1. call' \in [Procs -> CallState]
    BY <1>2, MoveTyped, RaiseTyped DEF Probe, Wake
  <2> QED BY <1>2, <2>1 DEF Probe, Wake, TypeOK
<1>3. CASE Perform(p)
  <2>1. [call EXCEPT ![p].pc = "performed"] \in [Procs -> CallState]
    BY DEF TypeOK, CallState
  <2>2. call[p].op \in Ops
    BY <1>3 DEF Perform, Effect, Ops
  <2> QED BY <1>3, <2>1, <2>2, ExitsTyped, EffectTyped DEF Perform, TypeOK
<1>4. CASE Answered(p)
  BY <1>4, ReturnTyped DEF Answered, TypeOK
<1>5. CASE NotFound(p)
  <2>1. call' \in [Procs -> CallState]
    BY <1>5, MoveTyped, RaiseTyped DEF NotFound
  <2> QED BY <1>5, <2>1 DEF NotFound, TypeOK
<1>6. CASE LookAtOrphan(p)
  <2>1. call' \in [Procs -> CallState]
    BY <1>6, MoveTyped, RaiseTyped, ReturnTyped DEF LookAtOrphan
  <2> QED BY <1>6, <2>1 DEF LookAtOrphan, TypeOK
<1>7. CASE RemoveOrphan(p)
  <2>1. call' \in [Procs -> CallState]
    BY <1>7, RaiseTyped, ReturnTyped DEF RemoveOrphan
  <2> QED BY <1>7, <2>1 DEF RemoveOrphan, TypeOK, Branches
<1> QED BY <1>1, <1>2, <1>3, <1>4, <1>5, <1>6, <1>7 DEF Proceed

\* A call begins, or fails.
LEMMA BeginTyped ==
    ASSUME TypeOK, NEW p \in Procs, NEW op \in Ops, Begin(p, op)
    PROVE  TypeOK'
<1>1. [Idle EXCEPT !.op = op, !.pc = IF op = "unmount" THEN "invoked" ELSE "starting"]
        \in CallState
  BY IdleTyped DEF Idle, CallState, Steps, Waiting, Commands
<1> QED BY <1>1 DEF Begin, TypeOK

LEMMA FailsTyped == ASSUME TypeOK, NEW p \in Procs, Fails(p) PROVE TypeOK'
<1>1. CASE CommandFails(p)
  BY <1>1, RaiseTyped DEF CommandFails, TypeOK
<1>2. CASE TimesOut(p)
  <2>1. Goto(p, "probe") \/ Raise(p)
    BY <1>2 DEF TimesOut
  <2>2. "probe" \in Steps
    BY DEF Steps, Quick
  <2>3. call' \in [Procs -> CallState]
    BY <2>1, <2>2, MoveTyped, RaiseTyped
  <2>4. call[p].op \in Ops \cup {"none"}
    BY DEF TypeOK, CallState
  <2>5. late' \in Ops \cup {"none"}
    BY <1>2, <2>4 DEF TimesOut, TypeOK
  <2> QED BY <1>2, <2>3, <2>5 DEF TimesOut, TypeOK
<1> QED BY <1>1, <1>2 DEF Fails

-----------------------------------------------------------------------------
\* The bound of a call

\* What a call can have spent at each of its steps: the CLI's own wait counts
\* towards the deadline of the polling, so at most one timeout goes before the
\* operation; a sleep begins before the deadline and lasts one tick.
Timely(c) ==
    /\ c.pc = "starting" => c.spent <= c.waited
    /\ c.pc = "probe" => c.spent <= Timeout
    /\ c.pc = "sleep" => c.waited <= 1 /\ c.spent < Timeout + c.waited
    /\ c.pc \in {"invoked", "performed"} => c.spent <= Timeout + c.waited
    /\ c.pc \in {"orphan", "rmtree"} => c.spent <= 2 * Timeout
    /\ c.pc \in Rest => c.spent = 0

\* Whether a sleep fits into `waited` depends on the same bound, so the types and
\* the bound hold together.
AllTimely == \A p \in Procs : Timely(call[p])
BoundInv == TypeOK /\ AllTimely

LEMMA TickBounded == ASSUME BoundInv, Tick PROVE BoundInv'
<1>1. ASSUME NEW p \in Procs PROVE call'[p] \in CallState /\ Timely(call'[p])
  <2>1. call[p] \in CallState /\ Timely(call[p]) /\ Timeout \in Nat
    BY DriverAssumption DEF BoundInv, TypeOK, AllTimely
  <2>2. CASE p \in Busy
    <3> DEFINE c == call[p]
    <3>1. call'[p] = [c EXCEPT !.spent = @ + 1, !.waited = @ + 1]
      BY <2>2 DEF Tick
    <3>2. /\ c.pc \in Commands \cup {"sleep"}
          /\ c.pc \in Commands => c.waited < Timeout
          /\ c.pc = "sleep" => c.waited < 1
      BY <2>2 DEF Tick, Busy, Waiting, At
    <3>3. c.waited \in Nat /\ c.spent \in Nat /\ c.waited <= Timeout
      BY <2>1 DEF CallState
    <3>4. c.waited + 1 \in 0 .. Timeout
      BY <2>1, <3>2, <3>3 DEF Timely
    <3>5. call'[p] \in CallState
      <4>1. c \in CallState /\ c.spent + 1 \in Nat
        BY <2>1, <3>3
      <4> HIDE DEF c
      <4> QED BY <4>1, <3>1, <3>4 DEF CallState
    <3>6. /\ call'[p].pc = c.pc
          /\ call'[p].spent = c.spent + 1
          /\ call'[p].waited = c.waited + 1
      BY <2>1, <3>1 DEF CallState
    <3>7. Timely(call'[p])
      BY <2>1, <3>2, <3>3, <3>6 DEF Timely, Commands, Rest
    <3> QED BY <3>5, <3>7
  <2> QED BY <2>1, <2>2 DEF Tick
<1>2. call' \in [Procs -> CallState]
  BY <1>1 DEF Tick
<1> QED BY <1>1, <1>2 DEF Tick, BoundInv, TypeOK, AllTimely

-----------------------------------------------------------------------------
\* What one assignment leaves of the other calls and makes of this one

LEMMA Moved ==
    ASSUME TypeOK, NEW p \in Procs, NEW l, Goto(p, l), NEW q \in Procs
    PROVE  IF q = p
           THEN /\ call'[q].pc = l /\ call'[q].waited = 0
                /\ call'[q].spent = call[q].spent /\ call'[q].op = call[q].op
           ELSE call'[q] = call[q]
BY DEF TypeOK, Goto, CallState

LEMMA Raised ==
    ASSUME TypeOK, NEW p \in Procs, Raise(p), NEW q \in Procs
    PROVE  call'[q] = IF q = p THEN Idle ELSE call[q]
BY DEF TypeOK, Raise

LEMMA Returned ==
    ASSUME TypeOK, NEW p \in Procs, Return(p), NEW q \in Procs
    PROVE  IF q = p
           THEN call'[q].pc \in Rest /\ call'[q].spent = 0
           ELSE call'[q] = call[q]
BY DEF TypeOK, Return, Idle, Rest

LEMMA ExitsKeeps ==
    ASSUME NEW now \in [Procs -> CallState], NEW q \in Procs
    PROVE  /\ Exits(now)[q].pc = now[q].pc
           /\ Exits(now)[q].op = now[q].op
           /\ Exits(now)[q].spent = now[q].spent
           /\ Exits(now)[q].waited = now[q].waited
           /\ Exits(now)[q].exited
                 = (now[q].exited \/ (daemon' = "none" /\ now[q].pc \notin Rest))
<1>1. now[q] \in CallState
  OBVIOUS
<1>2. Exits(now)[q] = [now[q] EXCEPT !.exited =
          @ \/ (daemon' = "none" /\ now[q].pc \notin Rest)]
  BY DEF Exits
<1> QED BY <1>1, <1>2 DEF CallState

LEMMA IdleTimely == Timely(Idle)
BY DriverAssumption DEF Timely, Idle, Rest

\* A call counts as timely by its step, its spent and its waited alone.
LEMMA SameTimely ==
    ASSUME NEW c, NEW d, Timely(c),
           d.pc = c.pc, d.spent = c.spent, d.waited = c.waited
    PROVE  Timely(d)
BY DEF Timely

LEMMA ProceedTimely ==
    ASSUME BoundInv, NEW p \in Procs, Proceed(p), NEW q \in Procs
    PROVE  Timely(call'[q])
<1> USE DEF BoundInv
<1>1. Timely(call[q]) /\ Timely(call[p]) /\ Timeout \in Nat
  BY DriverAssumption DEF AllTimely
<1>2. call[p] \in CallState
  BY DEF TypeOK
<1>3. call[p].spent \in Nat /\ call[p].waited \in Nat /\ call[p].waited <= Timeout
  BY <1>1, <1>2 DEF CallState
<1>4. ASSUME NEW l, Goto(p, l),
             \/ l \in {"invoked", "probe"} /\ call[p].spent <= Timeout
             \/ l = "sleep" /\ call[p].spent < Timeout
             \/ l \in {"orphan", "rmtree"} /\ call[p].spent <= 2 * Timeout
      PROVE  Timely(call'[q])
  <2>1. CASE q = p
    <3>1. /\ call'[q].pc = l /\ call'[q].waited = 0
          /\ call'[q].spent = call[p].spent
      BY <1>4, <2>1, Moved
    <3> QED BY <1>1, <1>3, <1>4, <3>1 DEF Timely, Rest
  <2>2. CASE q # p
    <3>1. call'[q] = call[q]
      BY <1>4, <2>2, Moved
    <3> QED BY <1>1, <3>1
  <2> QED BY <2>1, <2>2
<1>5. ASSUME Raise(p) PROVE Timely(call'[q])
  BY <1>1, <1>5, Raised, IdleTimely
<1>6. ASSUME Return(p) PROVE Timely(call'[q])
  <2>1. CASE q = p
    <3>1. call'[q].pc \in Rest /\ call'[q].spent = 0
      BY <1>6, <2>1, Returned
    <3> QED BY <3>1, <1>1 DEF Timely, Rest
  <2>2. CASE q # p
    <3>1. call'[q] = call[q]
      BY <1>6, <2>2, Returned
    <3> QED BY <1>1, <3>1
  <2> QED BY <2>1, <2>2
<1>10. CASE Started(p) \/ NotYetStarted(p)
  <2>1. call[p].spent <= Timeout
    BY <1>10, <1>1, <1>3 DEF Started, NotYetStarted, At, Timely
  <2> QED BY <1>10, <2>1, <1>4 DEF Started, NotYetStarted
<1>11. CASE Probe(p)
  <2>1. call[p].spent <= Timeout
    BY <1>11, <1>1 DEF Probe, At, Timely
  <2> QED BY <1>11, <2>1, <1>4, <1>5 DEF Probe
<1>12. CASE Wake(p)
  <2>1. call[p].spent <= Timeout
    BY <1>12, <1>1, <1>3 DEF Wake, At, Timely
  <2> QED BY <1>12, <2>1, <1>4 DEF Wake
<1>13. CASE Perform(p)
  <2> DEFINE now == [call EXCEPT ![p].pc = "performed"]
  <2>1. now \in [Procs -> CallState]
    BY DEF TypeOK, CallState, Steps, Waiting, Commands
  <2>2. /\ call'[q].pc = now[q].pc /\ call'[q].spent = now[q].spent
        /\ call'[q].waited = now[q].waited
    BY <1>13, <2>1, ExitsKeeps DEF Perform
  <2>3. Timely(now[q])
    <3>1. CASE q = p
      <4>1. /\ now[q].pc = "performed" /\ now[q].spent = call[p].spent
            /\ now[q].waited = call[p].waited
        BY <3>1, <1>2 DEF TypeOK, CallState
      <4> QED BY <4>1, <1>13, <1>1 DEF Perform, At, Timely, Rest
    <3>2. CASE q # p
      <4>1. now[q] = call[q]
        BY <3>2 DEF TypeOK
      <4> HIDE DEF now
      <4> QED BY <4>1, <1>1
    <3> QED BY <3>1, <3>2
  <2> QED BY <2>2, <2>3, SameTimely
<1>14. CASE Answered(p)
  BY <1>14, <1>6 DEF Answered
<1>15. CASE NotFound(p)
  <2>1. call[p].spent <= 2 * Timeout
    BY <1>15, <1>1, <1>3 DEF NotFound, At, Timely
  <2> QED BY <1>15, <2>1, <1>4, <1>5 DEF NotFound
<1>16. CASE LookAtOrphan(p)
  <2>1. call[p].spent <= 2 * Timeout
    BY <1>16, <1>1 DEF LookAtOrphan, At, Timely
  <2> QED BY <1>16, <2>1, <1>4, <1>5, <1>6 DEF LookAtOrphan
<1>17. CASE RemoveOrphan(p)
  BY <1>17, <1>5, <1>6 DEF RemoveOrphan
<1> QED BY <1>10, <1>11, <1>12, <1>13, <1>14, <1>15, <1>16, <1>17 DEF Proceed

LEMMA BeginTimely ==
    ASSUME BoundInv, NEW p \in Procs, NEW op \in Ops, Begin(p, op), NEW q \in Procs
    PROVE  Timely(call'[q])
<1>1. Timely(call[q]) /\ Timeout \in Nat
  BY DriverAssumption DEF BoundInv, AllTimely
<1>2. CASE q = p
  <2>1. /\ call'[q].pc \in {"starting", "invoked"}
        /\ call'[q].spent = 0 /\ call'[q].waited = 0
    BY <1>2 DEF Begin, BoundInv, TypeOK, Idle
  <2> QED BY <2>1, <1>1 DEF Timely, Rest
<1>3. CASE q # p
  <2>1. call'[q] = call[q]
    BY <1>3 DEF Begin, BoundInv, TypeOK
  <2> QED BY <2>1, <1>1
<1> QED BY <1>2, <1>3

LEMMA FailsTimely ==
    ASSUME BoundInv, NEW p \in Procs, Fails(p), NEW q \in Procs
    PROVE  Timely(call'[q])
<1> USE DEF BoundInv
<1>1. Timely(call[q]) /\ Timely(call[p]) /\ Timeout \in Nat
  BY DriverAssumption DEF AllTimely
<1>2. CASE Raise(p)
  BY <1>1, <1>2, Raised, IdleTimely
<1>3. CASE At(p, "starting") /\ Goto(p, "probe")
  <2>1. call[p].spent \in Nat /\ call[p].waited \in 0 .. Timeout
    BY DEF TypeOK, CallState
  <2>2. call[p].spent <= Timeout
    BY <2>1, <1>3, <1>1 DEF At, Timely
  <2>3. CASE q = p
    <3>1. call'[q].pc = "probe" /\ call'[q].spent = call[p].spent
      BY <1>3, <2>3, Moved
    <3> QED BY <2>2, <3>1 DEF Timely, Rest
  <2>4. CASE q # p
    <3>1. call'[q] = call[q]
      BY <1>3, <2>4, Moved
    <3> QED BY <1>1, <3>1
  <2> QED BY <2>3, <2>4
<1>4. Raise(p) \/ (At(p, "starting") /\ Goto(p, "probe"))
  BY DEF Fails, CommandFails, TimesOut
<1> QED BY <1>2, <1>3, <1>4

\* A step of the daemon or its removals moves no call.
LEMMA DaemonBounded ==
    ASSUME BoundInv, PerformLate \/ Boots \/ BootFails \/ Removes
    PROVE  BoundInv'
<1> USE DEF BoundInv
<1>1. CASE PerformLate \/ BootFails
  <2>1. call' = Exits(call)
    BY <1>1 DEF PerformLate, BootFails
  <2>2. call' \in [Procs -> CallState]
    BY <2>1, ExitsTyped DEF TypeOK
  <2>3. ASSUME NEW q \in Procs PROVE Timely(call'[q])
    <3>1. /\ call'[q].pc = call[q].pc /\ call'[q].spent = call[q].spent
          /\ call'[q].waited = call[q].waited
      BY <2>1, ExitsKeeps DEF TypeOK
    <3> QED BY <3>1, SameTimely DEF AllTimely
  <2>4. CASE PerformLate
    <3>1. late \in Ops
      BY <2>4 DEF PerformLate, TypeOK
    <3> QED BY <2>2, <2>3, <2>4, <3>1, EffectTyped DEF PerformLate, TypeOK, AllTimely
  <2>5. CASE BootFails
    BY <2>2, <2>3, <2>5 DEF BootFails, TypeOK, AllTimely
  <2> QED BY <1>1, <2>4, <2>5
<1>2. CASE Boots \/ Removes
  BY <1>2 DEF Boots, Removes, TypeOK, AllTimely, Branches
<1> QED BY <1>1, <1>2

LEMMA BoundNext == ASSUME BoundInv, [Next]_vars PROVE BoundInv'
<1>1. ASSUME NEW p \in Procs, NEW op \in Ops, Begin(p, op) PROVE BoundInv'
  BY <1>1, BeginTyped, BeginTimely DEF BoundInv, AllTimely
<1>2. ASSUME NEW p \in Procs, Proceed(p) PROVE BoundInv'
  BY <1>2, ProceedTyped, ProceedTimely DEF BoundInv, AllTimely
<1>3. ASSUME NEW p \in Procs, Fails(p) PROVE BoundInv'
  BY <1>3, FailsTyped, FailsTimely DEF BoundInv, AllTimely
<1>4. CASE PerformLate \/ Boots \/ BootFails \/ Removes
  BY <1>4, DaemonBounded
<1>5. CASE Tick
  BY <1>5, TickBounded
<1>6. CASE UNCHANGED vars
  BY <1>6 DEF vars, BoundInv, TypeOK, AllTimely
<1> QED BY <1>1, <1>2, <1>3, <1>4, <1>5, <1>6 DEF Next

LEMMA BoundInit == Init => BoundInv
<1> SUFFICES ASSUME Init PROVE BoundInv
  OBVIOUS
<1>1. call \in [Procs -> CallState]
  BY IdleTyped DEF Init
<1>2. AllTimely
  BY IdleTimely DEF Init, AllTimely
<1> QED BY <1>1, <1>2 DEF Init, BoundInv, TypeOK, Branches

LEMMA BoundInvHolds == Spec => []BoundInv
BY BoundInit, BoundNext, PTL DEF Spec

\* The store, the requests and the calls keep their types.
THEOREM TypeCorrect == Spec => []TypeOK
<1>1. BoundInv => TypeOK
  BY DEF BoundInv
<1> QED BY <1>1, BoundInvHolds, PTL

\* No call of the driver takes more than two timeouts (BranchfsCli), whatever
\* the other processes and the daemon do meanwhile.
THEOREM CallsReturn == Spec => []CallBounded
<1>1. BoundInv => CallBounded
  <2> SUFFICES ASSUME BoundInv, NEW p \in Procs PROVE call[p].spent <= 2 * Timeout
    BY DEF CallBounded
  <2>1. call[p] \in CallState /\ Timely(call[p]) /\ Timeout \in Nat
    BY DriverAssumption DEF BoundInv, TypeOK, AllTimely
  <2>2. /\ call[p].pc \in Steps /\ call[p].spent \in Nat
        /\ call[p].waited \in Nat /\ call[p].waited <= Timeout
    BY <2>1 DEF CallState
  <2> QED BY <2>1, <2>2 DEF Timely, Steps, Quick, Waiting, Commands, Rest
<1> QED BY <1>1, BoundInvHolds, PTL

-----------------------------------------------------------------------------
\* The deadline

\* A daemon that is there is not reported as unreachable, however late it came:
\* the last look at the socket is at the deadline (_wait_for_daemon_socket).
THEOREM LateFound == Spec => LateDaemonFound
<1>1. ASSUME BoundInv, [Next]_vars, NEW p \in Procs,
             At(p, "probe"), call'[p].pc = "idle"
      PROVE  daemon # "ready"
  <2> SUFFICES ASSUME daemon = "ready" PROVE FALSE
    OBVIOUS
  <2> USE DEF At
  <2>0. TypeOK
    BY <1>1 DEF BoundInv
  <2>1. ASSUME NEW q \in Procs, NEW op \in Ops, Begin(q, op) PROVE FALSE
    BY <1>1, <2>0, <2>1 DEF Begin, TypeOK, Rest
  <2>2. ASSUME NEW q \in Procs, q # p, Proceed(q) \/ Fails(q)
        PROVE  call'[p].pc = "probe"
    <3>1. CASE \/ \E l \in Steps : Goto(q, l)
               \/ Raise(q) \/ Return(q)
      BY <3>1, <2>0, <2>2, <1>1, Moved, Raised, Returned
    <3>2. CASE Perform(q)
      <4> DEFINE now == [call EXCEPT ![q].pc = "performed"]
      <4>1. now \in [Procs -> CallState] /\ now[p] = call[p]
        BY <2>0, <2>2 DEF TypeOK, CallState, Steps, Waiting, Commands
      <4>2. call' = Exits(now)
        BY <3>2 DEF Perform
      <4> HIDE DEF now
      <4> QED BY <4>1, <4>2, <1>1, ExitsKeeps
    <3>3. {"invoked", "probe", "sleep", "orphan", "rmtree"} \subseteq Steps
      BY DEF Steps, Quick, Waiting, Commands
    <3>4. \/ \E l \in Steps : Goto(q, l)
          \/ Raise(q) \/ Return(q) \/ Perform(q)
      BY <2>2, <3>3 DEF Proceed, Fails, Started, NotYetStarted, Probe, Wake,
         Answered, NotFound, LookAtOrphan, RemoveOrphan, CommandFails, TimesOut
    <3> QED BY <3>1, <3>2, <3>4
  <2>3. ASSUME Proceed(p) \/ Fails(p) PROVE call'[p].pc = "invoked"
    <3>1. Probe(p)
      BY <1>1, <2>3 DEF Proceed, Fails, Started, NotYetStarted, Wake, Perform,
         Answered, NotFound, LookAtOrphan, RemoveOrphan, CommandFails, TimesOut, Commands
    <3> QED BY <3>1, <2>0, Moved DEF Probe
  <2>4. ASSUME PerformLate \/ BootFails PROVE FALSE
    <3>1. call' = Exits(call)
      BY <2>4 DEF PerformLate, BootFails
    <3> QED BY <3>1, <2>0, <1>1, ExitsKeeps DEF TypeOK
  <2>5. ASSUME Boots \/ Removes \/ UNCHANGED vars PROVE FALSE
    BY <2>5, <1>1 DEF Boots, Removes, vars
  <2>6. ASSUME Tick PROVE FALSE
    BY <2>6, <1>1 DEF Tick, Quick
  <2> QED BY <1>1, <2>1, <2>2, <2>3, <2>4, <2>5, <2>6 DEF Next
<1>2. BoundInv /\ [Next]_vars
        => [\A p \in Procs : (At(p, "probe") /\ call'[p].pc = "idle")
              => daemon # "ready"]_vars
  BY <1>1
<1> QED BY <1>2, BoundInvHolds, PTL DEF LateDaemonFound, Spec

-----------------------------------------------------------------------------
\* The daemon of a call

\* A call whose daemon is gone knows it, for it is marked when the daemon exits.
DaemonInv == BoundInv /\ DaemonThere

\* A call comes to "invoked" when the daemon is ready, or as an unmount.
LEMMA InvokedReady ==
    ASSUME BoundInv, NEW p \in Procs, Proceed(p) \/ Fails(p), ~Perform(p),
           call'[p].pc = "invoked"
    PROVE  daemon = "ready" /\ daemon' = daemon
<1>0. TypeOK
  BY DEF BoundInv
<1>1. CASE \E l \in Steps \ {"invoked"} : Goto(p, l)
  BY <1>0, <1>1, Moved
<1>2. CASE Raise(p) \/ Return(p)
  BY <1>0, <1>2, Raised, Returned DEF Idle, Rest
<1>3. CASE daemon = "ready" /\ UNCHANGED daemon
  BY <1>3
<1>4. {"probe", "sleep", "orphan", "rmtree"} \subseteq Steps \ {"invoked"}
  BY DEF Steps, Quick, Waiting, Commands
<1>5. \/ \E l \in Steps \ {"invoked"} : Goto(p, l)
      \/ Raise(p) \/ Return(p)
      \/ daemon = "ready" /\ UNCHANGED daemon
  BY <1>4 DEF Proceed, Fails, Started, NotYetStarted, Probe, Wake,
     Answered, NotFound, LookAtOrphan, RemoveOrphan, CommandFails, TimesOut
<1> QED BY <1>1, <1>2, <1>3, <1>5

\* A command that is at work leaves the other calls and the daemon alone.
LEMMA OthersKept ==
    ASSUME BoundInv, NEW p \in Procs, Proceed(p) \/ Fails(p), ~Perform(p),
           NEW q \in Procs, q # p
    PROVE  call'[q] = call[q] /\ daemon' = daemon
<1>0. TypeOK
  BY DEF BoundInv
<1>1. CASE (\E l : Goto(p, l)) \/ Raise(p) \/ Return(p)
  <2>1. call'[q] = call[q]
    BY <1>0, <1>1, Moved, Raised, Returned
  <2> QED BY <2>1 DEF Proceed, Fails, Started, NotYetStarted, Probe, Wake,
     Answered, NotFound, LookAtOrphan, RemoveOrphan, CommandFails, TimesOut
<1>2. (\E l : Goto(p, l)) \/ Raise(p) \/ Return(p)
  BY DEF Proceed, Fails, Started, NotYetStarted, Probe, Wake,
     Answered, NotFound, LookAtOrphan, RemoveOrphan, CommandFails, TimesOut
<1> QED BY <1>1, <1>2

\* Where the daemon may exit, every call under way is marked.
LEMMA ExitsMarks ==
    ASSUME DaemonInv, daemon' # "none" => daemon' = daemon,
           NEW now \in [Procs -> CallState], call' = Exits(now),
           NEW q \in Procs, now[q].pc = "invoked" => now[q] = call[q],
           call'[q].pc = "invoked", call'[q].op # "unmount"
    PROVE  daemon' = "ready" \/ call'[q].exited
<1>1. now[q] = call[q] /\ call[q].pc = "invoked" /\ call[q].op # "unmount"
  BY ExitsKeeps
<1>2. daemon = "ready" \/ call[q].exited
  BY <1>1 DEF DaemonInv, DaemonThere, At
<1>3. call'[q].exited = (call[q].exited \/ (daemon' = "none" /\ call[q].pc \notin Rest))
  BY <1>1, ExitsKeeps
<1>4. CASE daemon' = "none"
  BY <1>1, <1>3, <1>4 DEF Rest
<1>5. CASE daemon' = daemon /\ daemon = "ready"
  BY <1>5
<1>6. CASE call[q].exited
  BY <1>3, <1>6
<1> QED BY <1>2, <1>4, <1>5, <1>6

\* How `Perform` and `PerformLate` change the daemon.
LEMMA EffectExits ==
    ASSUME NEW op, Effect(op) PROVE daemon' # "none" => daemon' = daemon
BY DEF Effect

LEMMA DaemonNext == ASSUME DaemonInv, [Next]_vars PROVE DaemonThere'
<1>0. BoundInv /\ TypeOK
  BY DEF DaemonInv, BoundInv
<1> SUFFICES ASSUME NEW q \in Procs,
                    call'[q].pc = "invoked", call'[q].op # "unmount"
             PROVE  daemon' = "ready" \/ call'[q].exited
  BY DEF DaemonThere, At
<1>1. ASSUME call'[q] = call[q], daemon' = daemon
      PROVE  daemon' = "ready" \/ call'[q].exited
  BY <1>1 DEF DaemonInv, DaemonThere, At
<1>2. ASSUME NEW p \in Procs, NEW op \in Ops, Begin(p, op)
      PROVE  daemon' = "ready" \/ call'[q].exited
  <2>1. CASE q = p
    BY <1>0, <1>2, <2>1 DEF Begin, TypeOK, Idle
  <2>2. CASE q # p
    <3>1. call'[q] = call[q]
      BY <1>0, <1>2, <2>2 DEF Begin, TypeOK
    <3>2. daemon = "ready" \/ call[q].exited
      BY <3>1 DEF DaemonInv, DaemonThere, At
    <3> QED BY <3>1, <3>2, <1>2 DEF Begin
  <2> QED BY <2>1, <2>2
<1>3. ASSUME NEW p \in Procs, Proceed(p) \/ Fails(p), ~Perform(p)
      PROVE  daemon' = "ready" \/ call'[q].exited
  <2>1. CASE q = p
    BY <1>0, <1>3, <2>1, InvokedReady
  <2>2. CASE q # p
    BY <1>0, <1>1, <1>3, <2>2, OthersKept
  <2> QED BY <2>1, <2>2
<1>4. ASSUME NEW p \in Procs, Perform(p)
      PROVE  daemon' = "ready" \/ call'[q].exited
  <2> DEFINE now == [call EXCEPT ![p].pc = "performed"]
  <2>1. now \in [Procs -> CallState]
    BY <1>0 DEF TypeOK, CallState, Steps, Waiting, Commands
  <2>2. call' = Exits(now)
    BY <1>4 DEF Perform
  <2>3. now[q].pc = "invoked" => now[q] = call[q]
    BY <1>0 DEF TypeOK, CallState
  <2>4. daemon' # "none" => daemon' = daemon
    BY <1>4, EffectExits DEF Perform
  <2> HIDE DEF now
  <2> QED BY <2>1, <2>2, <2>3, <2>4, ExitsMarks
<1>5. CASE PerformLate \/ BootFails
  <2>1. call' = Exits(call)
    BY <1>5 DEF PerformLate, BootFails
  <2>2. daemon' # "none" => daemon' = daemon
    BY <1>5, EffectExits DEF PerformLate, BootFails
  <2> QED BY <1>0, <2>1, <2>2, ExitsMarks DEF TypeOK
<1>6. CASE Boots
  BY <1>6 DEF Boots
<1>7. CASE Removes \/ UNCHANGED vars
  BY <1>1, <1>7 DEF Removes, vars
<1>8. CASE Tick
  <2>1. call[q] \in CallState
    BY <1>0 DEF TypeOK
  <2>2. /\ call'[q].pc = call[q].pc /\ call'[q].op = call[q].op
        /\ call'[q].exited = call[q].exited /\ daemon' = daemon
    BY <1>8, <2>1 DEF Tick, CallState
  <2> QED BY <2>2 DEF DaemonInv, DaemonThere, At
<1> QED BY <1>2, <1>3, <1>4, <1>5, <1>6, <1>7, <1>8 DEF Next

\* An operation other than unmount has its daemon (start_daemon comes first), but
\* for one that exited during the call.
THEOREM DaemonReady == Spec => []DaemonThere
<1>1. Init => DaemonThere
  BY DEF Init, DaemonThere, At, Idle
<1>2. BoundInv /\ DaemonThere /\ [Next]_vars => DaemonThere'
  BY DaemonNext DEF DaemonInv
<1> QED BY <1>1, <1>2, BoundInvHolds, PTL DEF Spec

-----------------------------------------------------------------------------
\* The end of an abort

\* A branch that is gone stays gone, since only a live one can be aborted.
LEMMA GoneForGood ==
    ASSUME TypeOK, [Next]_vars, branch = "gone" PROVE branch' = "gone"
<1>1. ASSUME NEW op, Effect(op) PROVE branch' = "gone"
  BY <1>1 DEF Effect, Live
<1>2. ASSUME NEW p \in Procs, Proceed(p) \/ Fails(p) PROVE branch' = "gone"
  <2>1. CASE Perform(p)
    BY <1>1, <2>1 DEF Perform
  <2>2. CASE RemoveOrphan(p)
    BY <2>2 DEF RemoveOrphan
  <2> QED BY <1>2, <2>1, <2>2 DEF Proceed, Fails, Started, NotYetStarted, Probe, Wake,
     Answered, NotFound, LookAtOrphan, CommandFails, TimesOut
<1> QED BY <1>1, <1>2 DEF Next, Begin, PerformLate, Boots, BootFails, Removes, Tick, vars

LEMMA AbortNext ==
    ASSUME BoundInv, AbortTruthful, [Next]_vars PROVE AbortTruthful'
<1>0. TypeOK
  BY DEF BoundInv
<1> SUFFICES ASSUME NEW q \in Procs, call'[q].pc = "aborted"
             PROVE  branch' = "gone"
  BY DEF AbortTruthful, At
<1>1. CASE call[q].pc = "aborted"
  BY <1>0, <1>1, GoneForGood DEF AbortTruthful, At
<1>2. CASE call[q].pc # "aborted"
  <2>1. ASSUME NEW p \in Procs, NEW op \in Ops, Begin(p, op) PROVE FALSE
    BY <1>0, <1>2, <2>1 DEF Begin, TypeOK, Idle
  <2>2. ASSUME NEW p \in Procs, Proceed(p) \/ Fails(p), ~Perform(p)
        PROVE  branch' = "gone"
    <3>1. q = p
      BY <1>0, <1>2, <2>2, OthersKept DEF BoundInv
    <3>2. ASSUME NEW l \in Steps \ {"aborted"}, Goto(p, l) PROVE FALSE
      BY <1>0, <3>1, <3>2, Moved
    <3>3. ~Raise(p)
      BY <1>0, <3>1, Raised DEF Idle
    <3>4. Return(p) => call[p].op = "abort"
      BY <1>0, <3>1 DEF Return, TypeOK, Idle
    <3>5. {"invoked", "probe", "sleep", "orphan", "rmtree"} \subseteq Steps \ {"aborted"}
      BY DEF Steps, Quick, Waiting, Commands
    <3>6. ~(CommandFails(p) \/ TimesOut(p) \/ NotFound(p))
      BY <3>2, <3>3, <3>5 DEF CommandFails, TimesOut, NotFound
    <3>7. ~(Started(p) \/ NotYetStarted(p) \/ Probe(p) \/ Wake(p))
      BY <3>2, <3>3, <3>5 DEF Started, NotYetStarted, Probe, Wake
    <3>8. CASE Answered(p)
      BY <3>4, <3>8 DEF Answered
    <3>9. CASE LookAtOrphan(p)
      BY <3>2, <3>3, <3>5, <3>9 DEF LookAtOrphan
    <3>10. CASE RemoveOrphan(p)
      BY <3>3, <3>10 DEF RemoveOrphan
    <3> QED BY <2>2, <3>6, <3>7, <3>8, <3>9, <3>10 DEF Proceed, Fails
  <2>3. ASSUME NEW p \in Procs, Perform(p) PROVE FALSE
    <3> DEFINE now == [call EXCEPT ![p].pc = "performed"]
    <3>1. now \in [Procs -> CallState]
      BY <1>0 DEF TypeOK, CallState, Steps, Waiting, Commands
    <3>2. now[q].pc # "aborted"
      BY <1>0, <1>2 DEF TypeOK, CallState
    <3>3. call' = Exits(now)
      BY <2>3 DEF Perform
    <3> HIDE DEF now
    <3> QED BY <3>1, <3>2, <3>3, ExitsKeeps
  <2>4. CASE PerformLate \/ BootFails
    <3>1. call' = Exits(call)
      BY <2>4 DEF PerformLate, BootFails
    <3> QED BY <1>0, <1>2, <3>1, ExitsKeeps DEF TypeOK
  <2>5. CASE Tick
    <3>1. call[q] \in CallState
      BY <1>0 DEF TypeOK
    <3>2. call'[q].pc = call[q].pc
      BY <2>5, <3>1 DEF Tick, CallState
    <3> QED BY <1>2, <3>2
  <2>6. CASE Boots \/ Removes \/ UNCHANGED vars
    BY <1>2, <2>6 DEF Boots, Removes, vars
  <2> QED BY <2>1, <2>2, <2>3, <2>4, <2>5, <2>6 DEF Next
<1> QED BY <1>1, <1>2

\* An abort that reports success has left no file of the branch (abort_branch and
\* _remove_empty_orphan_branch_dir), whatever failed before it.
THEOREM AbortLeavesNothing == Spec => []AbortTruthful
<1>1. Init => AbortTruthful
  BY DEF Init, AbortTruthful, At, Idle
<1>2. BoundInv /\ AbortTruthful /\ [Next]_vars => AbortTruthful'
  BY AbortNext
<1> QED BY <1>1, <1>2, BoundInvHolds, PTL DEF Spec
=============================================================================
