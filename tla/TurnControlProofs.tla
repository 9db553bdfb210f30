------------------------- MODULE TurnControlProofs -------------------------
(***************************************************************************)
(* Theorems about TurnControl for every set of paths, agents, connections   *)
(* and tokens, whether clients give up or not.                              *)
(***************************************************************************)
EXTENDS TurnControl, TLAPS

\* A handler's thread stays typed when fields of it change.
LEMMA ConnFields ==
    ASSUME TypeOK, NEW c \in Conns
    PROVE  /\ conn[c] \in ConnState
           /\ conn[c].todo \subseteq Paths \X Content
           /\ conn[c].fresh \subseteq Paths
           /\ conn[c].chosen \subseteq Paths
           /\ conn[c].token \in Tokens \cup {"none"}
BY DEF TypeOK, ConnState

\* A fresh connection is typed.
LEMMA ClosedTyped == Closed \in ConnState
BY DEF Closed, ConnState

\* An answer leaves the connections and the lock typed.
LEMMA ReplyTyped ==
    ASSUME TypeOK, NEW c \in Conns,
           NEW v \in {"none", "noop", "committed", "needs-approval", "held", "error"},
           Reply(c, v)
    PROVE  /\ conn' \in [Conns -> ConnState] /\ lock' \in Conns \cup {NoConn}
           /\ TokensHeld'
<1>1. [conn[c] EXCEPT !.pc = "replied", !.verdict = v, !.todo = {}] \in ConnState
  BY ConnFields DEF ConnState
<1>2. TokensHeld'
  BY DEF Reply, TypeOK, TokensHeld, ConnState
<1> QED BY <1>1, <1>2 DEF Reply, TypeOK

\* A handler that answers has nothing left to copy.
LEMMA ReplyDrops ==
    ASSUME TypeOK, NEW c \in Conns, NEW v, Reply(c, v)
    PROVE  \A d \in Conns : conn'[d].todo \subseteq conn[d].todo
BY DEF Reply, TypeOK, ConnState

\* The thread of one handler changes, all others stay.
LEMMA OneHandler ==
    ASSUME TypeOK, NEW c \in Conns, NEW r, conn' = [conn EXCEPT ![c] = r]
    PROVE  \A d \in Conns : conn'[d] = IF d = c THEN r ELSE conn[d]
BY DEF TypeOK

\* What a status reports is a set of versions of paths.
LEMMA SeenTyped ==
    ASSUME TypeOK, NEW S \in SUBSET Paths
    PROVE  Seen(S) \subseteq Paths \X Content
BY DEF Seen, TypeOK

\* The steps of the agents.
LEMMA AgentTyped ==
    ASSUME TypeOK, NEW a \in Agents,
           \/ \E p \in Paths : Edit(a, p)
           \/ \E c \in Conns : StopTurn(a, c) \/ NotifyTurn(a, c) \/ RelayDecision(a, c)
           \/ Receive(a) \/ ClientTimeout(a)
    PROVE  TypeOK'
<1> USE DEF policy, memory, closing
<1>1. ASSUME NEW p \in Paths, Edit(a, p) PROVE TypeOK'
  <2>1. view[p] + 1 \in Content
    BY <1>1, TurnAssumption DEF Edit, TypeOK, Content
  <2> QED BY <1>1, <2>1 DEF Edit, TypeOK, TokensHeld
<1>2. ASSUME NEW c \in Conns, StopTurn(a, c) \/ NotifyTurn(a, c) PROVE TypeOK'
  <2>1. [Closed EXCEPT !.pc = "finalize", !.op = "finalize"] \in ConnState
    BY DEF Closed, ConnState
  <2>2. TokensHeld'
    BY <1>2 DEF StopTurn, NotifyTurn, TokensHeld, TypeOK, Closed, ConnState
  <2> QED BY <1>2, <2>1, <2>2 DEF StopTurn, NotifyTurn, TypeOK
<1>3. ASSUME NEW c \in Conns, RelayDecision(a, c) PROVE TypeOK'
  <2>1. \A t \in issued, S \in SUBSET Paths :
           [Closed EXCEPT !.pc = "approve", !.op = "approve", !.token = t,
                          !.chosen = S] \in ConnState
    BY DEF Closed, ConnState, TypeOK
  <2>2. conn' \in [Conns -> ConnState]
    BY <1>3, <2>1 DEF RelayDecision, TypeOK
  <2>3. TokensHeld'
    <3>1. PICK t \in issued, S \in SUBSET Paths :
             conn' = [conn EXCEPT ![c] = [Closed EXCEPT !.pc = "approve",
                            !.op = "approve", !.token = t, !.chosen = S]]
      BY <1>3 DEF RelayDecision
    <3> QED BY <3>1 DEF TokensHeld, TypeOK, Closed
  <2> QED BY <1>3, <2>2, <2>3 DEF RelayDecision, TypeOK
<1>4. CASE Receive(a)
  <2>1. TokensHeld'
    BY <1>4 DEF Receive, TokensHeld, TypeOK, Closed, ConnState
  <2> QED BY <1>4, <2>1, ClosedTyped DEF Receive, TypeOK
<1>5. CASE ClientTimeout(a)
  BY <1>5 DEF ClientTimeout, TypeOK, TokensHeld
<1> QED BY <1>1, <1>2, <1>3, <1>4, <1>5

\* The steps of the handlers.
LEMMA HandlerTyped ==
    ASSUME TypeOK, NEW c \in Conns, Handler(c) \/ Unheard(c)
    PROVE  TypeOK'
<1> USE DEF policy, memory, closing
<1>1. CASE FinalizeTurn(c)
  <2>1. LiveChanges \subseteq Paths /\ FlaggedOf(LiveChanges) \subseteq Paths
    BY DEF LiveChanges, FlaggedOf
  <2>2. ASSUME NEW S \in SUBSET Paths, NEW F \in SUBSET Paths
        PROVE  [conn[c] EXCEPT !.pc = "copy", !.todo = Seen(S), !.chosen = S,
                               !.fresh = F] \in ConnState
    BY ConnFields, SeenTyped DEF ConnState
  <2> DEFINE chosen == {p \in LiveChanges :
                          (p \in FlaggedOf(LiveChanges) /\ Recognized(p))
                             => p \in approved}
             fresh == FlaggedOf(LiveChanges) \ (approved \cup denied)
             copying == [conn[c] EXCEPT !.pc = "copy", !.todo = Seen(chosen),
                                        !.chosen = chosen, !.fresh = fresh]
  <2>3. copying \in ConnState /\ copying.pc = "copy"
    <3>1. chosen \in SUBSET Paths /\ fresh \in SUBSET Paths
      BY <2>1
    <3> HIDE DEF chosen, fresh
    <3>2. copying \in ConnState
      BY <2>2, <3>1
    <3>3. copying.pc = "copy"
      BY ConnFields DEF ConnState
    <3> QED BY <3>2, <3>3
  <2>4. CASE lock' = c /\ conn' = [conn EXCEPT ![c] = copying]
    <3>1. conn' \in [Conns -> ConnState]
      BY <2>3, <2>4 DEF TypeOK
    <3>2. TokensHeld'
      BY <2>3, <2>4 DEF TypeOK, TokensHeld
    <3> QED BY <1>1, <2>4, <3>1, <3>2 DEF FinalizeTurn, TypeOK
  <2>5. CASE Reply(c, "noop") \/ Reply(c, "error")
    BY <1>1, <2>5, ReplyTyped DEF FinalizeTurn, TypeOK
  <2> QED BY <1>1, <2>4, <2>5 DEF FinalizeTurn
<1>2. CASE ApproveTurn(c)
  <2> DEFINE asked  == pending[conn[c].token]
             chosen == asked \cap conn[c].chosen
  <2>1. CASE asked = {}
    BY <1>2, <2>1, ReplyTyped DEF ApproveTurn, TypeOK
  <2>2. CASE asked # {}
    <3>1. chosen \subseteq Paths /\ ToCopy(chosen) \subseteq Paths
      BY ConnFields DEF ToCopy
    <3>2. asked \subseteq Paths /\ conn[c].token \in Tokens
      BY <1>2 DEF ApproveTurn, TypeOK, TokensHeld
    <3>3. [conn[c] EXCEPT !.pc = "copy", !.todo = Seen(ToCopy(chosen)),
                          !.fresh = asked \ chosen, !.chosen = chosen]
             \in ConnState
      BY <3>1, <3>2, ConnFields, SeenTyped DEF ConnState
    <3> DEFINE copying == [conn[c] EXCEPT !.pc = "copy",
                             !.todo = Seen(ToCopy(chosen)),
                             !.fresh = asked \ chosen, !.chosen = chosen]
    <3>4. conn' \in [Conns -> ConnState] /\ lock' \in Conns \cup {NoConn}
          /\ TokensHeld'
      <4>1. CASE lock' = c /\ conn' = [conn EXCEPT ![c] = copying]
        <5>1. copying.pc = "copy"
          BY ConnFields DEF ConnState
        <5> HIDE DEF copying
        <5> QED BY <3>3, <4>1, <5>1 DEF copying, TypeOK, TokensHeld
      <4>2. CASE Reply(c, "error")
        BY <4>2, ReplyTyped
      <4> QED BY <1>2, <2>2, <4>1, <4>2 DEF ApproveTurn
    <3> QED BY <1>2, <2>2, <3>1, <3>2, <3>4 DEF ApproveTurn, TypeOK
  <2> QED BY <2>1, <2>2
<1>3. CASE CopyPath(c)
  <2>1. PICK p \in Paths, v \in Content :
           /\ \/ WriteBase(p, view[p]) \/ WriteBase(p, v) \/ UNCHANGED real
           /\ conn' = [conn EXCEPT ![c].todo = @ \ {<<p, v>>}]
    BY <1>3, ConnFields DEF CopyPath
  <2>2. real' \in [Paths -> Content]
    BY <2>1 DEF WriteBase, TypeOK
  <2>3. [conn[c] EXCEPT !.todo = conn[c].todo \ {<<p, v>>}] \in ConnState
    BY ConnFields DEF ConnState
  <2>4. TokensHeld'
    BY <2>1 DEF TypeOK, TokensHeld, ConnState
  <2> QED BY <1>3, <2>1, <2>2, <2>3, <2>4 DEF CopyPath, TypeOK
<1>4. CASE CopyFails(c)
  BY <1>4, ReplyTyped DEF CopyFails, TypeOK
<1>5. CASE FinishTurn(c)
  <2>1. conn' \in [Conns -> ConnState] /\ lock' \in Conns \cup {NoConn}
        /\ TokensHeld'
    BY <1>5, ReplyTyped DEF FinishTurn
  <2>2. pending' \in [Tokens -> SUBSET Paths] /\ issued' \subseteq Tokens
    BY <1>5, ConnFields DEF FinishTurn, TypeOK
  <2> QED BY <1>5, <2>1, <2>2 DEF FinishTurn, TypeOK
<1>6. CASE FinishApproval(c)
  BY <1>6, ReplyTyped, ConnFields DEF FinishApproval, TypeOK
<1>7. CASE Unheard(c)
  <2>1. TokensHeld'
    BY <1>7 DEF Unheard, TokensHeld, TypeOK, Closed, ConnState
  <2> QED BY <1>7, <2>1, ClosedTyped DEF Unheard, TypeOK
<1> QED BY <1>1, <1>2, <1>3, <1>4, <1>5, <1>6, <1>7 DEF Handler

\* The steps of the session end.
LEMMA EndTyped ==
    ASSUME TypeOK, AgentsExit \/ DecideEnd \/ ApplyEnd
    PROVE  TypeOK'
<1> USE DEF policy, memory
<1>1. CASE AgentsExit
  BY <1>1 DEF AgentsExit, TypeOK, TokensHeld
<1>2. CASE DecideEnd
  <2>1. ClosedState(EndDecision(warned')) \in {"auto-committed", "pending-review", "aborted"}
    BY DEF ClosedState
  <2> QED BY <1>2, <2>1 DEF DecideEnd, LiveChanges, TypeOK, TokensHeld
<1>3. CASE ApplyEnd
  BY <1>3 DEF ApplyEnd, WriteBase, TypeOK, TokensHeld
<1> QED BY <1>1, <1>2, <1>3

\* Every step keeps every variable in its type.
LEMMA TurnTypeStep == TypeOK /\ [Next]_vars => TypeOK'
<1> SUFFICES ASSUME TypeOK, [Next]_vars PROVE TypeOK'
  OBVIOUS
<1>1. CASE UNCHANGED vars
  BY <1>1 DEF vars, TypeOK, TokensHeld
<1> QED BY <1>1, AgentTyped, HandlerTyped, EndTyped DEF Next

\* Before the first turn everything is typed.
LEMMA TurnTypeInit == Init => TypeOK
<1> SUFFICES ASSUME Init PROVE TypeOK
  OBVIOUS
<1>1. mode \in Modes /\ scopes \subseteq Paths /\ phase = "running"
  BY TurnAssumption DEF Init
<1>2. view \in [Paths -> Content] /\ real \in [Paths -> Content]
  BY TurnAssumption DEF Init, Content
<1>3. conn \in [Conns -> ConnState] /\ TokensHeld
  <2>1. \A c \in Conns : conn[c] = Closed BY DEF Init
  <2>2. Closed.pc = "idle" BY DEF Closed
  <2> QED BY <2>1, <2>2, ClosedTyped DEF Init, TokensHeld
<1>4. warned \in BOOLEAN BY DEF Init
<1>5. /\ ending = {} /\ approved = {} /\ denied = {} /\ issued = {} /\ consent = {}
      /\ lock = NoConn
      /\ pending \in [Tokens -> SUBSET Paths] /\ agent \in [Agents -> Conns \cup {NoConn}]
  BY DEF Init
<1> QED BY <1>1, <1>2, <1>3, <1>4, <1>5 DEF TypeOK

\* Type correctness of the per-turn channel.
THEOREM TurnTypeCorrect == Spec => []TypeOK
BY TurnTypeInit, TurnTypeStep, PTL DEF Spec

-----------------------------------------------------------------------------
\* What may be copied: a path that is not ignored, and that a user said yes to
\* or that a scope grants and no deny or hide pattern matches.
MayCopy(p) == p \notin Ignored
              /\ (p \in consent \/ (p \notin DenyMatched /\ Granted(p)))

\* OnlyGrantedInBase alone is not inductive: it says nothing of what the
\* handlers and the session end still hold in their hands, nor of the memory
\* of answers they decide by.
GrantedMemory == approved \subseteq consent /\ scopes \subseteq Scopes \cup consent
GrantedCopies == \A c \in Conns : \A p \in Paths, v \in Content :
                    <<p, v>> \in conn[c].todo => MayCopy(p)
GrantedEnd == \A p \in ending : MayCopy(p)
GrantedInv == TypeOK /\ GrantedMemory /\ GrantedCopies /\ GrantedEnd
                     /\ OnlyGrantedInBase

\* OnlyGrantedInBase in terms of MayCopy.
LEMMA GrantedBase ==
    OnlyGrantedInBase <=> \A p \in Paths : real[p] \in 1 .. MaxEdit => MayCopy(p)
BY DEF OnlyGrantedInBase, MayCopy

\* A yes is never taken back: what may be copied may be copied later on.
LEMMA MayCopyKept ==
    ASSUME consent \subseteq consent', NEW p, MayCopy(p)
    PROVE  MayCopy(p)'
BY DEF MayCopy, Granted

\* A change that classify() does not flag may be copied.
LEMMA UnflaggedMayCopy ==
    ASSUME GrantedMemory, NEW p \in LiveChanges, p \notin FlaggedOf(LiveChanges)
    PROVE  MayCopy(p)
BY DEF GrantedMemory, LiveChanges, FlaggedOf, InScope, MayCopy, Granted

\* A step that writes nothing, learns no answer and gives no handler more to
\* copy keeps the invariant.
LEMMA QuietStep ==
    ASSUME GrantedInv, TypeOK', UNCHANGED <<scopes, real, ending, approved, consent>>,
           \A c \in Conns : conn'[c].todo \subseteq conn[c].todo
    PROVE  GrantedInv'
<1>1. \A p : MayCopy(p) <=> MayCopy(p)'
  BY DEF MayCopy, Granted, GrantedInv
<1>2. GrantedMemory' /\ GrantedEnd' /\ OnlyGrantedInBase'
  BY <1>1, GrantedBase DEF GrantedInv, GrantedMemory, GrantedEnd,
                           OnlyGrantedInBase, Granted
<1>3. GrantedCopies'
  BY <1>1 DEF GrantedInv, GrantedCopies
<1> QED BY <1>2, <1>3 DEF GrantedInv

\* The steps of the agents write nothing.
LEMMA AgentGranted ==
    ASSUME GrantedInv, TypeOK', NEW a \in Agents,
           \/ \E p \in Paths : Edit(a, p)
           \/ \E c \in Conns : StopTurn(a, c) \/ NotifyTurn(a, c) \/ RelayDecision(a, c)
           \/ Receive(a) \/ ClientTimeout(a)
    PROVE  GrantedInv'
<1> USE DEF policy, memory, closing
<1>1. UNCHANGED <<scopes, real, ending, approved, consent>>
  BY DEF Edit, StopTurn, NotifyTurn, RelayDecision, Receive, ClientTimeout
<1>2. ASSUME NEW c \in Conns PROVE conn'[c].todo \subseteq conn[c].todo
  <2> USE DEF GrantedInv, TypeOK, Closed
  <2>1. CASE \E p \in Paths : Edit(a, p)
    BY <2>1 DEF Edit
  <2>2. CASE \E d \in Conns : StopTurn(a, d) \/ NotifyTurn(a, d)
    BY <2>2 DEF StopTurn, NotifyTurn
  <2>3. ASSUME NEW d \in Conns, RelayDecision(a, d)
        PROVE  conn'[c].todo \subseteq conn[c].todo
    <3>1. PICK t \in issued, S \in SUBSET Paths :
             conn' = [conn EXCEPT ![d] = [Closed EXCEPT !.pc = "approve",
                            !.op = "approve", !.token = t, !.chosen = S]]
      BY <2>3 DEF RelayDecision
    <3> QED BY <3>1
  <2>4. CASE Receive(a)
    BY <2>4 DEF Receive
  <2>5. CASE ClientTimeout(a)
    BY <2>5 DEF ClientTimeout
  <2> QED BY <2>1, <2>2, <2>3, <2>4, <2>5
<1> QED BY <1>1, <1>2, QuietStep

\* The steps of the handlers: a turn takes in what is not flagged or approved,
\* an approval what the user now says yes to; a copy writes what it took in.
LEMMA HandlerGranted ==
    ASSUME Aliased = {}, GrantedInv, TypeOK', NEW c \in Conns, Handler(c) \/ Unheard(c)
    PROVE  GrantedInv'
<1> USE DEF policy, memory, closing
<1>1. CASE FinalizeTurn(c)
  <2> DEFINE chosen == {p \in LiveChanges :
                          (p \in FlaggedOf(LiveChanges) /\ Recognized(p))
                             => p \in approved}
  <2>1. \A p \in chosen : MayCopy(p)
    <3>1. ASSUME NEW p \in chosen, p \in approved PROVE MayCopy(p)
      BY <3>1 DEF GrantedInv, GrantedMemory, LiveChanges, MayCopy
    <3>2. ASSUME NEW p \in chosen, p \notin approved PROVE MayCopy(p)
      BY <3>2, UnflaggedMayCopy DEF Recognized, GrantedInv
    <3> QED BY <3>1, <3>2
  <2>2. \A p \in Paths, v \in Content : <<p, v>> \in Seen(chosen) => p \in chosen
    BY DEF Seen
  <2>3. \A d \in Conns : \/ conn'[d].todo \subseteq conn[d].todo
                          \/ conn'[d].todo = Seen(chosen)
    <3>1. CASE Reply(c, "noop") \/ Reply(c, "error")
      BY <3>1, ReplyDrops DEF GrantedInv
    <3> DEFINE copying == [conn[c] EXCEPT !.pc = "copy", !.todo = Seen(chosen),
                                          !.chosen = chosen,
                             !.fresh = FlaggedOf(LiveChanges) \ (approved \cup denied)]
    <3>2. CASE conn' = [conn EXCEPT ![c] = copying]
      <4>1. copying.todo = Seen(chosen)
        BY ConnFields DEF ConnState, GrantedInv
      <4> HIDE DEF copying
      <4> QED BY <3>2, <4>1, OneHandler DEF GrantedInv
    <3> QED BY <1>1, <3>1, <3>2 DEF FinalizeTurn
  <2>4. \A p : MayCopy(p)' <=> MayCopy(p)
    BY <1>1 DEF FinalizeTurn, MayCopy, Granted
  <2>5. GrantedCopies'
    BY <2>1, <2>2, <2>3, <2>4 DEF GrantedCopies, GrantedInv
  <2>6. GrantedMemory' /\ GrantedEnd' /\ OnlyGrantedInBase'
    BY <1>1, <2>4, GrantedBase
    DEF FinalizeTurn, GrantedInv, GrantedMemory, GrantedEnd, OnlyGrantedInBase,
        Granted
  <2> QED BY <2>5, <2>6 DEF GrantedInv
<1>2. CASE ApproveTurn(c)
  <2> DEFINE asked  == pending[conn[c].token]
             chosen == asked \cap conn[c].chosen
  <2>1. CASE asked = {}
    <3>1. \A d \in Conns : conn'[d].todo \subseteq conn[d].todo
      BY <1>2, <2>1, ReplyDrops DEF ApproveTurn, GrantedInv
    <3> QED BY <1>2, <2>1, <3>1, QuietStep DEF ApproveTurn
  <2>2. CASE asked # {}
    <3>1. consent' = consent \cup chosen /\ approved' = approved \cup chosen
          /\ scopes' = scopes \cup chosen
      BY <1>2, <2>2 DEF ApproveTurn
    <3>2. \A p : MayCopy(p) => MayCopy(p)'
      BY <3>1, MayCopyKept
    <3>3. \A p \in ToCopy(chosen) : MayCopy(p)'
      BY <3>1 DEF ToCopy, MayCopy, LiveChanges
    <3>4. \A p \in Paths, v \in Content :
             <<p, v>> \in Seen(ToCopy(chosen)) => p \in ToCopy(chosen)
      BY DEF Seen
    <3>5. \A d \in Conns : \/ conn'[d].todo \subseteq conn[d].todo
                            \/ conn'[d].todo = Seen(ToCopy(chosen))
      <4>1. CASE Reply(c, "error")
        BY <4>1, ReplyDrops DEF GrantedInv
      <4> DEFINE copying == [conn[c] EXCEPT !.pc = "copy",
                               !.todo = Seen(ToCopy(chosen)),
                               !.fresh = asked \ chosen, !.chosen = chosen]
      <4>2. CASE conn' = [conn EXCEPT ![c] = copying]
        <5>1. copying.todo = Seen(ToCopy(chosen))
          BY ConnFields DEF ConnState, GrantedInv
        <5> HIDE DEF copying
        <5> QED BY <4>2, <5>1, OneHandler DEF GrantedInv
      <4> QED BY <1>2, <2>2, <4>1, <4>2 DEF ApproveTurn
    <3>6. GrantedCopies'
      BY <3>2, <3>3, <3>4, <3>5 DEF GrantedCopies, GrantedInv
    <3>7. GrantedMemory'
      BY <3>1 DEF GrantedInv, GrantedMemory
    <3>8. GrantedEnd' /\ OnlyGrantedInBase'
      <4>1. UNCHANGED <<real, ending>>
        BY <1>2 DEF ApproveTurn
      <4>2. \A p \in Paths : real'[p] \in 1 .. MaxEdit => MayCopy(p)'
        BY <3>2, <4>1, GrantedBase DEF GrantedInv
      <4> QED BY <3>2, <4>1, <4>2 DEF GrantedInv, GrantedEnd, OnlyGrantedInBase, MayCopy
    <3> QED BY <3>6, <3>7, <3>8 DEF GrantedInv
  <2> QED BY <2>1, <2>2
<1>3. CASE CopyPath(c)
  <2>1. PICK p \in Paths, v \in Content :
           /\ <<p, v>> \in conn[c].todo
           /\ \/ WriteBase(p, view[p]) \/ WriteBase(p, v) \/ UNCHANGED real
           /\ conn' = [conn EXCEPT ![c].todo = @ \ {<<p, v>>}]
    BY <1>3 DEF CopyPath
  <2>2. MayCopy(p)
    BY <2>1 DEF GrantedInv, GrantedCopies
  <2>3. \A q : MayCopy(q)' <=> MayCopy(q)
    BY <1>3 DEF CopyPath, MayCopy, Granted
  <2>4. \A q \in Paths : q # p => real'[q] = real[q]
    BY <2>1 DEF WriteBase, GrantedInv, TypeOK
  <2>5. OnlyGrantedInBase'
    <3>1. \A q \in Paths : real'[q] \in 1 .. MaxEdit => MayCopy(q)
      BY <2>2, <2>4, GrantedBase DEF GrantedInv
    <3> QED BY <3>1, <2>3 DEF OnlyGrantedInBase, MayCopy
  <2>6. \A d \in Conns : conn'[d].todo \subseteq conn[d].todo
    BY <2>1 DEF GrantedInv, TypeOK
  <2>7. GrantedCopies'
    BY <2>3, <2>6 DEF GrantedInv, GrantedCopies
  <2>8. GrantedMemory' /\ GrantedEnd'
    BY <1>3, <2>3 DEF CopyPath, GrantedInv, GrantedMemory, GrantedEnd
  <2> QED BY <2>5, <2>7, <2>8 DEF GrantedInv
<1>4. ASSUME CopyFails(c) \/ FinishTurn(c) \/ FinishApproval(c) \/ Unheard(c)
      PROVE  GrantedInv'
  <2>1. UNCHANGED <<scopes, real, ending, approved, consent>>
    BY <1>4 DEF CopyFails, FinishTurn, FinishApproval, Unheard
  <2>2. \A d \in Conns : conn'[d].todo \subseteq conn[d].todo
    <3>1. CASE Unheard(c)
      BY <3>1 DEF Unheard, Closed, GrantedInv, TypeOK
    <3>2. CASE CopyFails(c) \/ FinishTurn(c) \/ FinishApproval(c)
      BY <3>2, ReplyDrops DEF CopyFails, FinishTurn, FinishApproval, GrantedInv
    <3> QED BY <1>4, <3>1, <3>2
  <2> QED BY <2>1, <2>2, QuietStep
<1> QED BY <1>1, <1>2, <1>3, <1>4 DEF Handler

\* The session end applies a change set none of whose changes is flagged.
LEMMA EndGranted ==
    ASSUME GrantedInv, TypeOK', AgentsExit \/ DecideEnd \/ ApplyEnd
    PROVE  GrantedInv'
<1> USE DEF policy, memory
<1>1. UNCHANGED <<scopes, approved, consent, conn>>
  BY DEF AgentsExit, DecideEnd, ApplyEnd
<1>2. \A p : MayCopy(p)' <=> MayCopy(p)
  BY <1>1 DEF MayCopy, Granted
<1>3. GrantedMemory' /\ GrantedCopies'
  BY <1>1, <1>2 DEF GrantedInv, GrantedMemory, GrantedCopies
<1>4. GrantedEnd'
  <2>1. CASE DecideEnd
    <3>1. CASE EndDecision(warned') = "auto-commit"
      <4>1. LiveChanges \cap FlaggedOf(LiveChanges) = {}
        BY <3>1 DEF EndDecision, WithWarnings, Evaluate
      <4>2. \A p \in LiveChanges : MayCopy(p)
        BY <4>1, UnflaggedMayCopy DEF GrantedInv
      <4> QED BY <1>2, <2>1, <3>1, <4>2 DEF DecideEnd, GrantedEnd
    <3>2. CASE EndDecision(warned') # "auto-commit"
      BY <1>2, <2>1, <3>2 DEF DecideEnd, GrantedEnd, GrantedInv
    <3> QED BY <3>1, <3>2
  <2>2. CASE AgentsExit \/ ApplyEnd
    BY <1>2, <2>2 DEF AgentsExit, ApplyEnd, GrantedEnd, GrantedInv
  <2> QED BY <2>1, <2>2
<1>5. OnlyGrantedInBase'
  <2>1. \A p \in Paths : real'[p] \in 1 .. MaxEdit => MayCopy(p)
    <3>1. CASE ApplyEnd
      <4>1. PICK p \in ending : WriteBase(p, view[p])
        BY <3>1 DEF ApplyEnd
      <4>2. MayCopy(p)
        BY DEF GrantedInv, GrantedEnd
      <4>3. \A q \in Paths : q # p => real'[q] = real[q]
        BY <4>1 DEF WriteBase, GrantedInv, TypeOK
      <4> QED BY <4>2, <4>3, GrantedBase DEF GrantedInv
    <3>2. CASE AgentsExit \/ DecideEnd
      BY <3>2, GrantedBase DEF AgentsExit, DecideEnd, GrantedInv
    <3> QED BY <3>1, <3>2
  <2> QED BY <1>2, <2>1 DEF OnlyGrantedInBase, MayCopy
<1> QED BY <1>3, <1>4, <1>5 DEF GrantedInv

\* Nothing is copied before the first turn.
LEMMA GrantedInit == Init => GrantedInv
<1> SUFFICES ASSUME Init PROVE GrantedInv
  OBVIOUS
<1>1. TypeOK
  BY TurnTypeInit
<1>2. GrantedMemory /\ GrantedCopies /\ GrantedEnd /\ OnlyGrantedInBase
  BY TurnAssumption DEF Init, Closed, GrantedMemory, GrantedCopies, GrantedEnd,
                        OnlyGrantedInBase
<1> QED BY <1>1, <1>2 DEF GrantedInv

\* Every step keeps the invariant.
LEMMA GrantedStep ==
    ASSUME Aliased = {}, GrantedInv, [Next]_vars
    PROVE  GrantedInv'
<1>1. TypeOK'
  BY TurnTypeStep DEF GrantedInv
<1>2. CASE UNCHANGED vars
  BY <1>1, <1>2, QuietStep DEF vars
<1> QED BY <1>1, <1>2, AgentGranted, HandlerGranted, EndGranted DEF Next

\* However turns, approvals, clients that gave up and the session end get in
\* each other's way, a turn or the session end copies to the base only what a
\* scope or a user's yes grants, and nothing that is ignored (turn.py).
\* That holds where a status spells every path canonically; with an alias it
\* does not, because a turn compares the two spellings.
THEOREM GrantedWork ==
    ASSUME Aliased = {}
    PROVE  Spec => []OnlyGrantedInBase
<1>1. GrantedInv => OnlyGrantedInBase
  BY DEF GrantedInv
<1>2. GrantedInv /\ [Next]_vars => GrantedInv'
  BY GrantedStep
<1> QED BY <1>1, <1>2, GrantedInit, PTL DEF Spec

-----------------------------------------------------------------------------
\* YesIsRemembered rests on the lock: a handler that copies holds it, so that no
\* answer comes in between what a turn chose to ask about and its token.
CopierHolds == \A c \in Conns : conn[c].pc = "copy" => lock = c
FreshUnanswered == \A c \in Conns :
    conn[c].pc = "copy" /\ conn[c].op = "finalize" => conn[c].fresh \cap consent = {}
LockInv == TypeOK /\ CopierHolds /\ FreshUnanswered /\ approved = consent

\* A step that leaves the lock and the answers alone, and moves no handler to
\* its copies, keeps the invariant.
LEMMA LockQuiet ==
    ASSUME LockInv, TypeOK', UNCHANGED <<lock, approved, consent>>,
           \A c \in Conns : conn'[c].pc = "copy" =>
              conn[c].pc = "copy" /\ conn'[c].op = conn[c].op
                                 /\ conn'[c].fresh = conn[c].fresh
    PROVE  LockInv'
BY DEF LockInv, CopierHolds, FreshUnanswered

\* A handler that answers while no other one copies lets go of the lock.
LEMMA LockReply ==
    ASSUME LockInv, TypeOK', NEW c \in Conns, NEW v, Reply(c, v),
           lock = c \/ lock = NoConn, approved' = consent'
    PROVE  LockInv'
<1>1. \A d \in Conns : conn'[d].pc # "copy"
  BY TurnAssumption DEF LockInv, CopierHolds, Reply, TypeOK, ConnState
<1> QED BY <1>1 DEF LockInv, CopierHolds, FreshUnanswered

\* A handler that starts to copy while the lock is free takes it.
LEMMA LockTaken ==
    ASSUME LockInv, TypeOK', NEW c \in Conns, NEW r,
           lock = NoConn, lock' = c, conn' = [conn EXCEPT ![c] = r],
           r.op = "finalize" => r.fresh \cap consent' = {},
           approved' = consent'
    PROVE  LockInv'
<1>1. \A d \in Conns : conn'[d] = IF d = c THEN r ELSE conn[d]
  BY DEF LockInv, TypeOK
<1>2. \A d \in Conns : conn[d].pc # "copy"
  BY TurnAssumption DEF LockInv, CopierHolds
<1> QED BY <1>1, <1>2 DEF LockInv, CopierHolds, FreshUnanswered

\* Every step keeps the invariant of the lock.
LEMMA LockStep == LockInv /\ [Next]_vars => LockInv'
<1> SUFFICES ASSUME LockInv, [Next]_vars PROVE LockInv'
  OBVIOUS
<1> USE DEF policy, memory, closing
<1>0. TypeOK /\ TypeOK'
  BY TurnTypeStep DEF LockInv
<1>1. CASE UNCHANGED vars
  BY <1>0, <1>1, LockQuiet DEF vars
<1>2. ASSUME NEW a \in Agents, NEW p \in Paths, Edit(a, p) PROVE LockInv'
  BY <1>0, <1>2, LockQuiet DEF Edit
<1>3. ASSUME NEW a \in Agents, NEW c \in Conns, StopTurn(a, c) \/ NotifyTurn(a, c)
      PROVE  LockInv'
  BY <1>0, <1>3, LockQuiet DEF StopTurn, NotifyTurn, TypeOK, Closed
<1>4. ASSUME NEW a \in Agents, NEW c \in Conns, RelayDecision(a, c) PROVE LockInv'
  <2>1. PICK t \in issued, S \in SUBSET Paths :
           conn' = [conn EXCEPT ![c] = [Closed EXCEPT !.pc = "approve",
                          !.op = "approve", !.token = t, !.chosen = S]]
    BY <1>4 DEF RelayDecision
  <2>2. \A d \in Conns : conn'[d].pc = "copy" => conn'[d] = conn[d]
    BY <1>0, <2>1 DEF TypeOK, Closed
  <2> QED BY <1>0, <1>4, <2>2, LockQuiet DEF RelayDecision
<1>5. ASSUME NEW a \in Agents, Receive(a) PROVE LockInv'
  BY <1>0, <1>5, LockQuiet DEF Receive, TypeOK, Closed
<1>6. ASSUME NEW a \in Agents, ClientTimeout(a) PROVE LockInv'
  BY <1>0, <1>6, LockQuiet DEF ClientTimeout
<1>7. ASSUME NEW c \in Conns, Unheard(c) PROVE LockInv'
  BY <1>0, <1>7, LockQuiet DEF Unheard, TypeOK, Closed
<1>8. ASSUME NEW c \in Conns, FinalizeTurn(c) PROVE LockInv'
  <2>1. CASE Reply(c, "noop") \/ Reply(c, "error")
    BY <1>0, <1>8, <2>1, LockReply DEF FinalizeTurn, LockInv
  <2> DEFINE fresh == FlaggedOf(LiveChanges) \ (approved \cup denied)
  <2> DEFINE chosen == {p \in LiveChanges :
                          (p \in FlaggedOf(LiveChanges) /\ Recognized(p))
                             => p \in approved}
             copying == [conn[c] EXCEPT !.pc = "copy", !.todo = Seen(chosen),
                                        !.chosen = chosen, !.fresh = fresh]
  <2>2. CASE lock' = c /\ conn' = [conn EXCEPT ![c] = copying]
    <3>1. copying.fresh = fresh
      BY ConnFields, <1>0 DEF ConnState
    <3>2. fresh \cap consent' = {} /\ lock = NoConn /\ approved' = consent'
      BY <1>8 DEF FinalizeTurn, LockInv
    <3> HIDE DEF fresh, copying
    <3> QED BY <1>0, <2>2, <3>1, <3>2, LockTaken
  <2> QED BY <1>8, <2>1, <2>2 DEF FinalizeTurn
<1>9. ASSUME NEW c \in Conns, ApproveTurn(c) PROVE LockInv'
  <2>1. approved' = consent' /\ lock = NoConn
    BY <1>9 DEF ApproveTurn, LockInv, Reply
  <2>2. CASE Reply(c, "error")
    BY <1>0, <2>1, <2>2, LockReply
  <2> DEFINE asked  == pending[conn[c].token]
             chosen == asked \cap conn[c].chosen
             copying == [conn[c] EXCEPT !.pc = "copy",
                             !.todo = Seen(ToCopy(chosen)),
                             !.fresh = asked \ chosen, !.chosen = chosen]
  <2>3. CASE lock' = c /\ conn' = [conn EXCEPT ![c] = copying]
    <3>1. copying.op = "approve"
      BY <1>0, <1>9, ConnFields DEF ApproveTurn, TypeOK, ConnState, TokensHeld
    <3> HIDE DEF copying
    <3> QED BY <1>0, <2>1, <2>3, <3>1, LockTaken
  <2> QED BY <1>9, <2>2, <2>3 DEF ApproveTurn
<1>10. ASSUME NEW c \in Conns, CopyPath(c) PROVE LockInv'
  <2>1. PICK T : conn' = [conn EXCEPT ![c].todo = T]
    BY <1>10 DEF CopyPath
  <2>2. \A d \in Conns : /\ conn'[d].pc = conn[d].pc
                         /\ conn'[d].op = conn[d].op
                         /\ conn'[d].fresh = conn[d].fresh
    BY <1>0, <2>1 DEF TypeOK, ConnState
  <2>3. UNCHANGED <<lock, approved, consent>>
    BY <1>10 DEF CopyPath
  <2> QED BY <1>0, <2>2, <2>3, LockQuiet
<1>11. ASSUME NEW c \in Conns, CopyFails(c) \/ FinishTurn(c) \/ FinishApproval(c)
       PROVE  LockInv'
  <2>1. lock = c /\ approved' = consent'
    BY <1>11 DEF CopyFails, FinishTurn, FinishApproval, LockInv, CopierHolds
  <2>2. \E v : Reply(c, v)
    BY <1>11 DEF CopyFails, FinishTurn, FinishApproval
  <2> QED BY <1>0, <2>1, <2>2, LockReply
<1>12. CASE AgentsExit \/ DecideEnd \/ ApplyEnd
  BY <1>0, <1>12, LockQuiet DEF AgentsExit, DecideEnd, ApplyEnd
<1> QED BY <1>1, <1>2, <1>3, <1>4, <1>5, <1>6, <1>7, <1>8, <1>9, <1>10, <1>11,
           <1>12 DEF Next, Handler

\* What a token asks about is what its turn held fresh, and no user has said
\* yes to it meanwhile.
LEMMA AskedFresh ==
    ASSUME LockInv, Next, NEW t \in Tokens, pending[t] = {}, pending'[t] # {}
    PROVE  pending'[t] \cap consent = {}
<1> USE DEF policy, memory, closing
<1>1. ASSUME NEW c \in Conns, FinishTurn(c) PROVE pending'[t] \cap consent = {}
  <2>1. pending'[t] = pending[t] \/ pending'[t] = conn[c].fresh
    BY <1>1 DEF FinishTurn, LockInv, TypeOK
  <2> QED BY <1>1, <2>1 DEF FinishTurn, LockInv, FreshUnanswered
<1>2. ASSUME NEW c \in Conns, ApproveTurn(c) PROVE FALSE
  BY <1>2 DEF ApproveTurn, LockInv, TypeOK
<1>3. ASSUME NEW c \in Conns, \/ FinalizeTurn(c) \/ CopyPath(c) \/ CopyFails(c)
                              \/ FinishApproval(c) \/ Unheard(c)
      PROVE  FALSE
  BY <1>3 DEF FinalizeTurn, CopyPath, CopyFails, FinishApproval, Unheard
<1>4. ASSUME NEW a \in Agents, \/ Receive(a) \/ ClientTimeout(a)
                               \/ \E p \in Paths : Edit(a, p)
                               \/ \E c \in Conns : \/ StopTurn(a, c) \/ NotifyTurn(a, c)
                                                  \/ RelayDecision(a, c)
      PROVE  FALSE
  BY <1>4 DEF Receive, ClientTimeout, Edit, StopTurn, NotifyTurn, RelayDecision
<1>5. CASE AgentsExit \/ DecideEnd \/ ApplyEnd
  BY <1>5 DEF AgentsExit, DecideEnd, ApplyEnd
<1> QED BY <1>1, <1>2, <1>3, <1>4, <1>5 DEF Next, Handler

\* No agent's turn asks a user again about a path the user said yes to, with
\* any number of turns, approvals and tokens under way (turn.py, new_oos).
THEOREM YesRemembered == Spec => YesIsRemembered
<1>1. Init => LockInv
  BY TurnTypeInit, TurnAssumption
  DEF Init, LockInv, CopierHolds, FreshUnanswered, Closed
<1>2. LockInv /\ [Next]_vars =>
         [\A t \in Tokens : (pending[t] = {} /\ pending'[t] # {})
             => pending'[t] \cap consent = {}]_vars
  BY AskedFresh
<1> QED BY <1>1, <1>2, LockStep, PTL DEF Spec, YesIsRemembered

-----------------------------------------------------------------------------
\* KeepsGrants: every step is a step of the user's ledger, or none.  What may be
\* copied (MayCopy) is what the ledger allows; a copied version is a content.
LEMMA LedgerAllows ==
    ASSUME TypeOK, NEW p \in Paths, MayCopy(p)
    PROVE  p \in Grants!Allowed
<1> DEFINE launched == {q \in Paths : \E s \in Scopes : Covers(s, q)}
           under == [s \in Paths |-> {q \in Paths : Covers(s, q)}]
<1>1. CASE p \in consent
  BY <1>1 DEF MayCopy, Grants!Allowed
<1>2. CASE p \notin DenyMatched /\ Granted(p)
  <2>1. p \in launched \/ \E s \in consent : Covers(s, p)
    BY <1>2 DEF Granted
  <2>2. \A s \in consent : Covers(s, p) => p \in UNION {under[q] : q \in consent}
    BY DEF TypeOK
  <2> QED BY <1>2, <2>1, <2>2 DEF MayCopy, Grants!Allowed
<1> QED BY <1>1, <1>2 DEF MayCopy

\* A version written over a path that may be copied is a publication.
LEMMA WritePublishes ==
    ASSUME TypeOK, NEW p \in Paths, MayCopy(p), NEW v \in Content,
           WriteBase(p, v), UNCHANGED <<consent, issued, pending>>
    PROVE  Grants!Next
BY LedgerAllows DEF WriteBase, Grants!Publish, Grants!Next

\* A step of a handler.
LEMMA HandlerLedger ==
    ASSUME GrantedInv, LockInv, NEW c \in Conns, Handler(c)
    PROVE  [Grants!Next]_Grants!vars
<1> USE DEF policy, memory, closing
<1>1. CASE FinalizeTurn(c) \/ CopyFails(c) \/ FinishApproval(c)
  BY <1>1 DEF FinalizeTurn, CopyFails, FinishApproval, Grants!vars
<1>2. CASE CopyPath(c)
  <2>1. PICK p \in Paths, v \in Content :
           /\ <<p, v>> \in conn[c].todo
           /\ WriteBase(p, view[p]) \/ WriteBase(p, v) \/ UNCHANGED real
    BY <1>2 DEF CopyPath
  <2>2. MayCopy(p) /\ TypeOK /\ view[p] \in Content
    BY <2>1 DEF GrantedInv, GrantedCopies, TypeOK
  <2>3. UNCHANGED <<consent, issued, pending>>
    BY <1>2 DEF CopyPath
  <2> QED BY <2>1, <2>2, <2>3, WritePublishes DEF Grants!vars
<1>3. CASE ApproveTurn(c)
  <2> DEFINE asked == pending[conn[c].token]
  <2>1. CASE asked = {}
    BY <1>3, <2>1 DEF ApproveTurn, Grants!vars
  <2>2. CASE asked # {}
    <3>1. conn[c].token \in Tokens
      BY <1>3 DEF ApproveTurn, LockInv, TypeOK, TokensHeld
    <3>2. Grants!Answer(conn[c].token)
      BY <1>3, <2>2, <3>1 DEF ApproveTurn, Grants!Answer
    <3> QED BY <3>1, <3>2 DEF Grants!Next
  <2> QED BY <2>1, <2>2
<1>4. CASE FinishTurn(c)
  <2>1. CASE conn[c].fresh = {}
    BY <1>4, <2>1 DEF FinishTurn, Grants!vars
  <2>2. CASE conn[c].fresh # {}
    <3>1. PICK t \in Tokens \ issued :
             /\ pending' = [pending EXCEPT ![t] = conn[c].fresh]
             /\ issued' = issued \cup {t}
      BY <1>4, <2>2 DEF FinishTurn
    <3>2. conn[c].fresh \subseteq Paths /\ conn[c].fresh \cap consent = {}
      BY <1>4, ConnFields DEF FinishTurn, LockInv, FreshUnanswered, ConnState
    <3>3. UNCHANGED <<consent, real>>
      BY <1>4 DEF FinishTurn
    <3>4. Grants!Ask(t)
      BY <2>2, <3>1, <3>2, <3>3 DEF Grants!Ask
    <3> QED BY <3>1, <3>4 DEF Grants!Next
  <2> QED BY <2>1, <2>2
<1> QED BY <1>1, <1>2, <1>3, <1>4 DEF Handler

\* Every step of the channel, of its agents and of the session end.
LEMMA LedgerStep ==
    ASSUME GrantedInv, LockInv, [Next]_vars
    PROVE  [Grants!Next]_Grants!vars
<1> USE DEF policy, memory, closing
<1>1. ASSUME NEW a \in Agents, \/ Receive(a) \/ ClientTimeout(a)
                               \/ \E p \in Paths : Edit(a, p)
                               \/ \E c \in Conns : \/ StopTurn(a, c) \/ NotifyTurn(a, c)
                                                  \/ RelayDecision(a, c)
      PROVE  UNCHANGED Grants!vars
  BY <1>1 DEF Receive, ClientTimeout, Edit, StopTurn, NotifyTurn, RelayDecision,
             Grants!vars
<1>2. ASSUME NEW c \in Conns, Unheard(c) PROVE UNCHANGED Grants!vars
  BY <1>2 DEF Unheard, Grants!vars
<1>3. CASE AgentsExit \/ DecideEnd
  BY <1>3 DEF AgentsExit, DecideEnd, Grants!vars
<1>4. CASE ApplyEnd
  <2>1. PICK p \in ending : WriteBase(p, view[p])
    BY <1>4 DEF ApplyEnd
  <2>2. TypeOK /\ p \in Paths /\ MayCopy(p) /\ view[p] \in Content
    BY <2>1 DEF GrantedInv, GrantedEnd, TypeOK
  <2>3. UNCHANGED <<consent, issued, pending>>
    BY <1>4 DEF ApplyEnd
  <2> QED BY <2>1, <2>2, <2>3, WritePublishes
<1>5. CASE UNCHANGED vars
  BY <1>5 DEF vars, Grants!vars
<1> QED BY <1>1, <1>2, <1>3, <1>4, <1>5, HandlerLedger DEF Next

\* The per-turn channel implements the user's ledger (GrantLedger), for any
\* number of agents, connections, tokens and paths, as long as no path is
\* spelled by an alias: a token is asked about once and answered once, never
\* about a path with a yes, and everything copied is allowed by the answers up
\* to then (turn.py finalize_turn, approve_turn; runner.py finalize_session).
THEOREM ChannelKeepsGrants ==
    ASSUME Aliased = {}
    PROVE  Spec => KeepsGrants
<1>1. Init => GrantedInv /\ LockInv
  BY GrantedInit, TurnTypeInit, TurnAssumption
  DEF Init, LockInv, CopierHolds, FreshUnanswered, Closed
<1>2. GrantedInv /\ LockInv /\ [Next]_vars => GrantedInv' /\ LockInv'
  BY GrantedStep, LockStep
<1>3. Init => Grants!Init
  BY TurnAssumption DEF Init, Grants!Init, Content
<1>4. GrantedInv /\ LockInv /\ [Next]_vars => [Grants!Next]_Grants!vars
  BY LedgerStep
<1> QED BY <1>1, <1>2, <1>3, <1>4, PTL DEF Spec, KeepsGrants, Grants!Spec

-----------------------------------------------------------------------------
(***************************************************************************)
(* One agent that waits for its answers.  While a turn is under way nothing  *)
(* else happens in its session: the versions the turn saw are still those of *)
(* the view when it copies them, so its answer can be relied on, and what it *)
(* leaves under way when the session ends cannot undo what the end applies.  *)
(***************************************************************************)
OneAgentWaits == (\A a, b \in Agents : a = b) /\ ~Timeouts

\* A change that needs no answer of the user.
Due(p) == p \in approved \/ p \notin FlaggedOf(LiveChanges)

\* A handler at work in a running session is the one the agent waits for; the
\* agent waits only then.
Attended ==
    /\ phase = "running" =>
          \A c \in Conns : conn[c].pc # "idle" => \E a \in Agents : agent[a] = c
    /\ \A a \in Agents : agent[a] # NoConn => phase = "running"

\* What is still to be copied is what the view holds.
Exact ==
    \A c \in Conns :
       /\ conn[c].pc # "copy" => conn[c].todo = {}
       /\ \A p \in Paths, v \in Content : <<p, v>> \in conn[c].todo => v = view[p]

\* A turn that copies has still to copy, or has copied, what is due; a turn that
\* has answered has copied it.
Copies(c) == conn[c].pc = "copy" /\ conn[c].op = "finalize"
Answers(c) ==
    /\ conn[c].pc = "replied"
    /\ conn[c].op = "finalize"
    /\ conn[c].verdict \in {"noop", "committed", "needs-approval"}

TurnDue(c) ==
    /\ Copies(c) => \A p \in LiveChanges :
                       Due(p) => real[p] = view[p] \/ <<p, view[p]>> \in conn[c].todo
    /\ Answers(c) => \A p \in LiveChanges : Due(p) => real[p] = view[p]

TurnsDue == \A a \in Agents, c \in Conns : agent[a] = c => TurnDue(c)

\* So does the session end.
EndCovers ==
    phase = "applying" => \A p \in LiveChanges : p \in ending \/ real[p] = view[p]

QuietInv == TypeOK /\ Attended /\ Exact /\ TurnsDue /\ EndCovers /\ EndDelivers

\* The answer, in full.
LEMMA ReplyFields ==
    ASSUME TypeOK, NEW c \in Conns, NEW v, Reply(c, v)
    PROVE  /\ conn'[c].pc = "replied" /\ conn'[c].verdict = v
           /\ conn'[c].todo = {} /\ conn'[c].op = conn[c].op
           /\ \A d \in Conns \ {c} : conn'[d] = conn[d]
BY DEF Reply, TypeOK, ConnState

\* What is due depends on the view and on the memory of answers only.
LEMMA SameDue ==
    ASSUME UNCHANGED <<view, scopes, approved>>
    PROVE  LiveChanges' = LiveChanges /\ \A p : Due(p)' <=> Due(p)
BY DEF Due, LiveChanges, FlaggedOf, InScope

\* The agent waits for the one handler at work.
LEMMA WaitsForIt ==
    ASSUME OneAgentWaits, Attended, NEW c \in Conns, conn[c].pc # "idle",
           NEW a \in Agents, agent[a] # NoConn
    PROVE  agent[a] = c
BY DEF OneAgentWaits, Attended

\* When nobody waits in a running session, every handler is idle.
LEMMA NobodyWorks ==
    ASSUME OneAgentWaits, Attended, NEW a \in Agents, agent[a] = NoConn,
           phase = "running", NEW c \in Conns
    PROVE  conn[c].pc = "idle"
BY TurnAssumption DEF OneAgentWaits, Attended

\* The agent changes something, or calls, when no handler is at work.
LEMMA AgentQuiet ==
    ASSUME OneAgentWaits, QuietInv, TypeOK', NEW a \in Agents,
           \/ \E p \in Paths : Edit(a, p)
           \/ \E c \in Conns : StopTurn(a, c) \/ NotifyTurn(a, c) \/ RelayDecision(a, c)
           \/ Receive(a) \/ ClientTimeout(a)
    PROVE  QuietInv'
<1> USE DEF policy, memory, closing, QuietInv
<1>0. \A b \in Agents : b = a BY DEF OneAgentWaits
<1>1. ASSUME NEW p \in Paths, Edit(a, p) PROVE QuietInv'
  <2>1. /\ agent[a] = NoConn /\ phase = "running"
        /\ UNCHANGED <<phase, ending, conn, agent>>
    BY <1>1 DEF Edit, Working
  <2>2. \A c \in Conns : conn[c].pc = "idle" BY <2>1, NobodyWorks
  <2>3. Exact' BY <2>1, <2>2 DEF Exact
  <2>4. TurnsDue'
    BY <1>0, <2>1, TurnAssumption DEF TurnsDue
  <2>5. Attended' BY <2>1 DEF Attended
  <2>6. EndCovers' /\ EndDelivers' BY <2>1 DEF EndCovers, EndDelivers
  <2> QED BY <2>3, <2>4, <2>5, <2>6
<1>2. ASSUME NEW c \in Conns, NEW r, conn' = [conn EXCEPT ![c] = r],
             agent' = [agent EXCEPT ![a] = c], r.todo = {},
             r.pc \in {"finalize", "approve"}, Working(a),
             UNCHANGED <<policy, view, real, closing, memory, lock>>
      PROVE  QuietInv'
  <2>1. \A d \in Conns : conn'[d] = IF d = c THEN r ELSE conn[d]
    BY <1>2, OneHandler
  <2>2. agent[a] = NoConn /\ phase = "running" /\ agent'[a] = c
    BY <1>2 DEF Working, TypeOK
  <2>3. \A d \in Conns : conn[d].pc = "idle" BY <2>2, NobodyWorks
  <2>4. Exact' BY <1>2, <2>1, <2>3 DEF Exact
  <2>5. Attended' BY <1>0, <1>2, <2>1, <2>2, <2>3 DEF Attended
  <2>6. TurnsDue'
    BY <1>0, <1>2, <2>1, <2>2 DEF TurnsDue, TurnDue, Copies, Answers
  <2>7. EndCovers' /\ EndDelivers' BY <1>2, <2>2 DEF EndCovers, EndDelivers
  <2> QED BY <2>4, <2>5, <2>6, <2>7
<1>3. ASSUME NEW c \in Conns, StopTurn(a, c) PROVE QuietInv'
  <2> DEFINE r == [Closed EXCEPT !.pc = "finalize", !.op = "finalize"]
  <2>1. r.todo = {} /\ r.pc = "finalize" BY DEF Closed
  <2>2. conn' = [conn EXCEPT ![c] = r] BY <1>3 DEF StopTurn
  <2> HIDE DEF r
  <2> QED BY <1>2, <1>3, <2>1, <2>2 DEF StopTurn
<1>4. ASSUME NEW c \in Conns, RelayDecision(a, c) PROVE QuietInv'
  <2>1. PICK t \in issued, S \in SUBSET Paths :
           conn' = [conn EXCEPT ![c] = [Closed EXCEPT !.pc = "approve",
                          !.op = "approve", !.token = t, !.chosen = S]]
    BY <1>4 DEF RelayDecision
  <2> DEFINE r == [Closed EXCEPT !.pc = "approve", !.op = "approve", !.token = t,
                                 !.chosen = S]
  <2>2. r.todo = {} /\ r.pc = "approve" BY DEF Closed
  <2>3. conn' = [conn EXCEPT ![c] = r] BY <2>1
  <2> HIDE DEF r
  <2> QED BY <1>2, <1>4, <2>2, <2>3 DEF RelayDecision
<1>5. CASE Receive(a)
  <2> DEFINE c == agent[a]
  <2>1. /\ c \in Conns /\ conn' = [conn EXCEPT ![c] = Closed]
        /\ agent' = [agent EXCEPT ![a] = NoConn] /\ c # NoConn
        /\ UNCHANGED <<view, real, phase, ending>>
    BY <1>5 DEF Receive, TypeOK
  <2>2. \A d \in Conns : conn'[d] = IF d = c THEN Closed ELSE conn[d]
    BY <2>1, OneHandler
  <2>3. agent'[a] = NoConn BY <2>1 DEF TypeOK
  <2>4. \A d \in Conns : conn'[d].pc = "idle"
    BY <2>1, <2>2, WaitsForIt DEF Closed
  <2>5. Exact' BY <2>1, <2>2 DEF Exact, Closed
  <2>6. Attended' BY <1>0, <2>3, <2>4 DEF Attended
  <2>7. TurnsDue' BY <1>0, <2>3, TurnAssumption DEF TurnsDue
  <2>8. EndCovers' /\ EndDelivers'
    BY <2>1 DEF EndCovers, EndDelivers, LiveChanges
  <2> QED BY <2>5, <2>6, <2>7, <2>8
<1>6. ~ClientTimeout(a) /\ \A c \in Conns : ~NotifyTurn(a, c)
  BY DEF OneAgentWaits, ClientTimeout, NotifyTurn
<1> QED BY <1>1, <1>3, <1>4, <1>5, <1>6


\* A step of a handler at work keeps the invariant when it writes nothing but
\* what the view holds, has nothing else left to write, and does not forget what
\* its turn has to copy.
LEMMA HandlerKeeps ==
    ASSUME OneAgentWaits, QuietInv, TypeOK', NEW c \in Conns, conn[c].pc # "idle",
           UNCHANGED <<view, phase, ending, agent>>,
           \A d \in Conns \ {c} : conn'[d] = conn[d],
           \A p \in Paths : real'[p] = real[p] \/ real'[p] = view[p],
           conn'[c].pc # "copy" => conn'[c].todo = {},
           \A p \in Paths, v \in Content : <<p, v>> \in conn'[c].todo => v = view[p],
           phase = "running" => TurnDue(c)'
    PROVE  QuietInv'
<1> USE DEF QuietInv
<1>1. Attended'
  BY DEF Attended
<1>2. Exact'
  BY DEF Exact
<1>3. ASSUME NEW a \in Agents, NEW d \in Conns, agent[a] = d PROVE d = c /\ TurnDue(d)'
  <2>1. agent[a] # NoConn BY <1>3, TurnAssumption
  <2>2. d = c BY <1>3, <2>1, WaitsForIt
  <2>3. phase = "running" BY <2>1 DEF Attended
  <2> QED BY <2>2, <2>3
<1>4. TurnsDue' BY <1>3 DEF TurnsDue
<1>5. LiveChanges' = LiveChanges /\ LiveChanges \subseteq Paths
  BY DEF LiveChanges
<1>6. EndCovers' /\ EndDelivers'
  BY <1>5 DEF EndCovers, EndDelivers
<1> QED BY <1>1, <1>2, <1>4, <1>6

\* A handler that answers: of a turn, that everything due is copied.
LEMMA ReplyQuiet ==
    ASSUME OneAgentWaits, QuietInv, TypeOK', NEW c \in Conns, conn[c].pc # "idle",
           NEW v, Reply(c, v), UNCHANGED <<view, real, phase, ending, agent>>,
           \/ v \notin {"noop", "committed", "needs-approval"}
           \/ conn[c].op # "finalize"
           \/ /\ UNCHANGED <<scopes, approved>>
              /\ \A p \in LiveChanges : Due(p) => real[p] = view[p]
    PROVE  QuietInv'
<1>1. TypeOK BY DEF QuietInv
<1>2. /\ conn'[c].pc = "replied" /\ conn'[c].verdict = v
      /\ conn'[c].todo = {} /\ conn'[c].op = conn[c].op
      /\ \A d \in Conns \ {c} : conn'[d] = conn[d]
  BY <1>1, ReplyFields
<1>3. TurnDue(c)'
  <2>1. ~Copies(c)' BY <1>2 DEF Copies
  <2>2. Answers(c)' => \A p \in LiveChanges' : Due(p)' => real'[p] = view'[p]
    BY <1>2, SameDue DEF Answers
  <2> QED BY <2>1, <2>2 DEF TurnDue
<1> QED BY <1>2, <1>3, HandlerKeeps

\* What a status saw of some paths is what the view holds.
LEMMA SeenExact ==
    ASSUME NEW S
    PROVE  /\ \A p, v : <<p, v>> \in Seen(S) => v = view[p]
           /\ \A p \in S : <<p, view[p]>> \in Seen(S)
BY DEF Seen

\* A turn sets out to copy all that is due, under whatever name it is spelled.
LEMMA TurnQuiet ==
    ASSUME OneAgentWaits, QuietInv, TypeOK', NEW c \in Conns, FinalizeTurn(c)
    PROVE  QuietInv'
<1> USE DEF policy, memory, closing
<1>1. TypeOK /\ conn[c].pc = "finalize" /\ UNCHANGED <<view, real, phase, ending, agent>>
      /\ UNCHANGED <<scopes, approved>>
  BY DEF FinalizeTurn, QuietInv
<1>2. CASE LiveChanges = {} /\ Reply(c, "noop")
  BY <1>1, <1>2, ReplyQuiet
<1>3. CASE Reply(c, "error")
  BY <1>1, <1>3, ReplyQuiet
<1> DEFINE chosen == {p \in LiveChanges :
                        (p \in FlaggedOf(LiveChanges) /\ Recognized(p))
                           => p \in approved}
           copying == [conn[c] EXCEPT !.pc = "copy", !.todo = Seen(chosen),
                                      !.chosen = chosen,
                           !.fresh = FlaggedOf(LiveChanges) \ (approved \cup denied)]
<1>4. CASE conn' = [conn EXCEPT ![c] = copying]
  <2>1. copying.pc = "copy" /\ copying.todo = Seen(chosen)
    BY <1>1, ConnFields DEF ConnState
  <2>2. \A p \in LiveChanges : Due(p) => p \in chosen
    BY DEF Due
  <2> HIDE DEF copying, chosen
  <2>3. conn'[c] = copying /\ \A d \in Conns \ {c} : conn'[d] = conn[d]
    BY <1>1, <1>4 DEF TypeOK
  <2>4. conn'[c].pc = "copy" /\ conn'[c].todo = Seen(chosen)
    BY <2>1, <2>3
  <2>5. TurnDue(c)'
    <3>1. \A p \in LiveChanges' : Due(p)' => <<p, view'[p]>> \in conn'[c].todo
      BY <1>1, <2>2, <2>4, SameDue, SeenExact
    <3>2. ~Answers(c)' BY <2>4 DEF Answers
    <3> QED BY <3>1, <3>2 DEF TurnDue
  <2>6. \A p \in Paths, v \in Content : <<p, v>> \in conn'[c].todo => v = view[p]
    BY <2>4, SeenExact
  <2> QED BY <1>1, <2>3, <2>4, <2>5, <2>6, HandlerKeeps
<1> QED BY <1>2, <1>3, <1>4 DEF FinalizeTurn

\* An approval sets out to copy what the user chose.
LEMMA ApprovalQuiet ==
    ASSUME OneAgentWaits, QuietInv, TypeOK', NEW c \in Conns, ApproveTurn(c)
    PROVE  QuietInv'
<1> USE DEF policy, memory, closing
<1>1. /\ TypeOK /\ conn[c].pc = "approve" /\ conn[c].op = "approve"
      /\ UNCHANGED <<view, real, phase, ending, agent>>
  BY DEF ApproveTurn, QuietInv, TypeOK, TokensHeld
<1>2. CASE Reply(c, "error")
  BY <1>1, <1>2, ReplyQuiet
<1> DEFINE asked  == pending[conn[c].token]
           chosen == asked \cap conn[c].chosen
           copying == [conn[c] EXCEPT !.pc = "copy", !.todo = Seen(ToCopy(chosen)),
                                      !.fresh = asked \ chosen, !.chosen = chosen]
<1>3. CASE conn' = [conn EXCEPT ![c] = copying]
  <2>1. /\ copying.pc = "copy" /\ copying.todo = Seen(ToCopy(chosen))
        /\ copying.op = "approve"
    BY <1>1, ConnFields DEF ConnState
  <2> HIDE DEF copying, chosen
  <2>2. conn'[c] = copying /\ \A d \in Conns \ {c} : conn'[d] = conn[d]
    BY <1>1, <1>3, OneHandler
  <2>3. /\ conn'[c].pc = "copy" /\ conn'[c].todo = Seen(ToCopy(chosen))
        /\ conn'[c].op = "approve"
    BY <2>1, <2>2
  <2>4. TurnDue(c)' BY <2>3 DEF TurnDue, Copies, Answers
  <2>5. \A p \in Paths, v \in Content : <<p, v>> \in conn'[c].todo => v = view[p]
    BY <2>3, SeenExact
  <2> QED BY <1>1, <2>2, <2>3, <2>4, <2>5, HandlerKeeps
<1> QED BY <1>2, <1>3 DEF ApproveTurn

\* A copy writes what the view holds: mounted or not, it is what the turn saw.
LEMMA CopyQuiet ==
    ASSUME OneAgentWaits, QuietInv, TypeOK', NEW c \in Conns, CopyPath(c)
    PROVE  QuietInv'
<1> USE DEF policy, memory, closing
<1>1. /\ TypeOK /\ conn[c].pc = "copy"
      /\ UNCHANGED <<view, phase, ending, agent, scopes, approved>>
  BY DEF CopyPath, QuietInv
<1>2. PICK p \in Paths, v \in Content :
         /\ <<p, v>> \in conn[c].todo
         /\ \/ Mounted /\ WriteBase(p, view[p])
            \/ /\ ~Mounted \/ view[p] # v
               /\ WriteBase(p, v) \/ UNCHANGED real
         /\ conn' = [conn EXCEPT ![c].todo = @ \ {<<p, v>>}]
  BY DEF CopyPath
<1>3. v = view[p] BY <1>2 DEF QuietInv, Exact
<1>4. WriteBase(p, view[p]) \/ (UNCHANGED real /\ ~Mounted)
  BY <1>2, <1>3
<1>5. /\ conn'[c].pc = "copy" /\ conn'[c].todo = conn[c].todo \ {<<p, v>>}
      /\ conn'[c].op = conn[c].op
      /\ \A d \in Conns \ {c} : conn'[d] = conn[d]
  BY <1>1, <1>2 DEF TypeOK, ConnState
<1>6. \A q \in Paths : real'[q] = real[q] \/ real'[q] = view[q]
  BY <1>1, <1>4 DEF WriteBase, TypeOK
<1>7. \A q \in Paths, w \in Content : <<q, w>> \in conn'[c].todo => w = view[q]
  BY <1>5 DEF QuietInv, Exact
<1>8. ASSUME phase = "running" PROVE TurnDue(c)'
  <2>1. WriteBase(p, view[p]) BY <1>4, <1>8 DEF Mounted
  <2>2. real'[p] = view[p] /\ \A q \in Paths \ {p} : real'[q] = real[q]
    BY <1>1, <2>1 DEF WriteBase, TypeOK
  <2>3. PICK a \in Agents : agent[a] = c
    BY <1>1, <1>8 DEF QuietInv, Attended
  <2>4. TurnDue(c) BY <2>3 DEF QuietInv, TurnsDue
  <2>5. LiveChanges' = LiveChanges /\ LiveChanges \subseteq Paths
        /\ \A q : Due(q)' <=> Due(q)
    BY <1>1, SameDue DEF LiveChanges
  <2>6. ASSUME Copies(c)', NEW q \in LiveChanges, Due(q)
        PROVE  real'[q] = view[q] \/ <<q, view[q]>> \in conn'[c].todo
    <3>1. Copies(c) BY <1>1, <1>5, <2>6 DEF Copies
    <3>2. real[q] = view[q] \/ <<q, view[q]>> \in conn[c].todo
      BY <2>4, <2>6, <3>1 DEF TurnDue
    <3> QED BY <1>3, <1>5, <2>2, <2>5, <3>2
  <2>7. ~Answers(c)' BY <1>5 DEF Answers
  <2> QED BY <1>1, <2>5, <2>6, <2>7 DEF TurnDue
<1> QED BY <1>1, <1>5, <1>6, <1>7, <1>8, HandlerKeeps

\* A turn answers when it has nothing left to copy.
LEMMA FinishQuiet ==
    ASSUME OneAgentWaits, QuietInv, TypeOK', NEW c \in Conns,
           CopyFails(c) \/ FinishTurn(c) \/ FinishApproval(c)
    PROVE  QuietInv'
<1> USE DEF policy, memory, closing
<1>1. /\ conn[c].pc = "copy" /\ UNCHANGED <<view, real, phase, ending, agent>>
      /\ UNCHANGED <<scopes, approved>>
  BY DEF CopyFails, FinishTurn, FinishApproval
<1>2. CASE CopyFails(c)
  BY <1>1, <1>2, ReplyQuiet DEF CopyFails
<1>3. CASE FinishApproval(c)
  <2>1. conn[c].op # "finalize" /\ \E v : Reply(c, v)
    BY <1>3 DEF FinishApproval
  <2> QED BY <1>1, <2>1, ReplyQuiet
<1>4. CASE FinishTurn(c)
  <2>1. /\ conn[c].op = "finalize" /\ conn[c].todo = {}
        /\ \E v \in {"needs-approval", "noop", "committed"} : Reply(c, v)
    BY <1>4 DEF FinishTurn
  <2>2. CASE phase = "running"
    <3>1. PICK a \in Agents : agent[a] = c
      BY <1>1, <2>2 DEF QuietInv, Attended
    <3>2. TurnDue(c) BY <3>1 DEF QuietInv, TurnsDue
    <3>3. \A p \in LiveChanges : Due(p) => real[p] = view[p]
      BY <1>1, <2>1, <3>2 DEF TurnDue, Copies
    <3> QED BY <1>1, <2>1, <3>3, ReplyQuiet
  <2>3. CASE phase # "running"
    <3>1. PICK v : Reply(c, v) BY <2>1
    <3>2. /\ conn'[c].pc = "replied" /\ conn'[c].todo = {}
          /\ \A d \in Conns \ {c} : conn'[d] = conn[d]
      BY <3>1, ReplyFields DEF QuietInv
    <3> QED BY <1>1, <2>3, <3>2, HandlerKeeps
  <2> QED BY <2>2, <2>3
<1> QED BY <1>2, <1>3, <1>4

\* An answer nobody waits for: its connection closes.
LEMMA UnheardQuiet ==
    ASSUME OneAgentWaits, QuietInv, TypeOK', NEW c \in Conns, Unheard(c)
    PROVE  QuietInv'
<1> USE DEF policy, memory, closing
<1>1. /\ conn[c].pc = "replied" /\ UNCHANGED <<view, real, phase, ending, agent>>
      /\ conn' = [conn EXCEPT ![c] = Closed]
  BY DEF Unheard
<1>2. conn'[c] = Closed /\ \A d \in Conns \ {c} : conn'[d] = conn[d]
  BY <1>1 DEF QuietInv, TypeOK
<1>3. conn'[c].pc = "idle" /\ conn'[c].todo = {}
  BY <1>2 DEF Closed
<1>4. TurnDue(c)' BY <1>3 DEF TurnDue, Copies, Answers
<1> QED BY <1>1, <1>2, <1>3, <1>4, HandlerKeeps


\* When the agent exits nobody waits any more; the session end takes in every
\* change there is and applies it as the view has it.
LEMMA EndQuiet ==
    ASSUME OneAgentWaits, QuietInv, TypeOK', AgentsExit \/ DecideEnd \/ ApplyEnd
    PROVE  QuietInv'
<1> USE DEF policy, memory, closing
<1>1. TypeOK /\ UNCHANGED <<view, conn, scopes, approved>>
  BY DEF AgentsExit, DecideEnd, ApplyEnd, QuietInv
<1>2. Exact'
  BY <1>1 DEF QuietInv, Exact
<1>3. LiveChanges' = LiveChanges /\ LiveChanges \subseteq Paths
  BY <1>1 DEF LiveChanges
<1>4. CASE AgentsExit
  <2>1. /\ phase' = "finalizing" /\ \A a \in Agents : agent'[a] = NoConn
    BY <1>4 DEF AgentsExit
  <2>2. Attended' BY <2>1 DEF Attended
  <2>3. TurnsDue' BY <2>1, TurnAssumption DEF TurnsDue
  <2>4. EndCovers' /\ EndDelivers' BY <2>1 DEF EndCovers, EndDelivers
  <2> QED BY <1>2, <2>2, <2>3, <2>4 DEF QuietInv
<1>5. ASSUME phase # "running", phase' # "running", UNCHANGED agent
      PROVE  Attended' /\ TurnsDue'
  <2>1. \A a \in Agents : agent[a] = NoConn
    BY <1>5 DEF QuietInv, Attended
  <2> QED BY <1>5, <2>1, TurnAssumption DEF Attended, TurnsDue
<1>6. CASE DecideEnd
  <2>1. phase = "finalizing" /\ UNCHANGED <<real, agent>>
    BY <1>6 DEF DecideEnd
  <2>2. CASE EndDecision(warned') = "auto-commit"
    <3>1. phase' = "applying" /\ ending' = LiveChanges
      BY <1>6, <2>2 DEF DecideEnd
    <3>2. EndCovers' /\ EndDelivers'
      BY <1>3, <3>1 DEF EndCovers, EndDelivers
    <3> QED BY <1>2, <1>5, <2>1, <3>1, <3>2 DEF QuietInv
  <2>3. CASE EndDecision(warned') # "auto-commit"
    <3>1. phase' = ClosedState(EndDecision(warned'))
      BY <1>6, <2>3 DEF DecideEnd
    <3>2. ClosedState(EndDecision(warned')) \in {"auto-committed", "pending-review", "aborted"}
      BY DEF ClosedState
    <3>3. ClosedState(EndDecision(warned')) = "auto-committed"
             => EndDecision(warned') \in {"no-changes", "auto-commit"}
      BY ZenonT(30) DEF ClosedState
    <3>4. EndDecision(warned') = "no-changes" => LiveChanges = {}
      BY ZenonT(30) DEF EndDecision, WithWarnings, Evaluate
    <3>5. phase' \notin {"running", "applying"} /\ EndCovers' /\ EndDelivers'
      BY <1>3, <2>3, <3>1, <3>2, <3>3, <3>4 DEF EndCovers, EndDelivers
    <3> QED BY <1>2, <1>5, <2>1, <3>5 DEF QuietInv
  <2> QED BY <2>2, <2>3
<1>7. CASE ApplyEnd
  <2>1. PICK p \in ending : /\ WriteBase(p, view[p])
                            /\ ending' = ending \ {p}
                            /\ phase' = IF ending = {p} THEN "auto-committed"
                                                         ELSE phase
    BY <1>7 DEF ApplyEnd
  <2>2. phase = "applying" /\ UNCHANGED agent
    BY <1>7 DEF ApplyEnd
  <2>3. p \in Paths /\ real'[p] = view[p]
        /\ \A q \in Paths \ {p} : real'[q] = real[q]
    BY <1>1, <2>1 DEF WriteBase, TypeOK
  <2>4. \A q \in LiveChanges : q \in ending' \/ real'[q] = view[q]
    BY <1>3, <2>1, <2>2, <2>3 DEF QuietInv, EndCovers
  <2>5. EndCovers' /\ EndDelivers'
    BY <1>1, <1>3, <2>1, <2>2, <2>4 DEF EndCovers, EndDelivers
  <2>6. phase' # "running" BY <2>1, <2>2
  <2> QED BY <1>2, <1>5, <2>2, <2>5, <2>6 DEF QuietInv
<1> QED BY <1>4, <1>6, <1>7

\* Every step of a channel with one agent that waits.
LEMMA QuietStepAll ==
    ASSUME OneAgentWaits
    PROVE  QuietInv /\ [Next]_vars => QuietInv'
<1> SUFFICES ASSUME QuietInv, [Next]_vars PROVE QuietInv'
  OBVIOUS
<1>1. TypeOK' BY TurnTypeStep DEF QuietInv
<1>2. CASE UNCHANGED vars
  BY <1>2, <1>1
  DEF vars, QuietInv, Attended, Exact, TurnsDue, TurnDue, Copies, Answers, Due,
      LiveChanges, FlaggedOf, InScope, EndCovers, EndDelivers
<1>3. ASSUME NEW c \in Conns, Handler(c) \/ Unheard(c) PROVE QuietInv'
  BY <1>1, <1>3, TurnQuiet, ApprovalQuiet, CopyQuiet, FinishQuiet, UnheardQuiet
  DEF Handler
<1> QED BY <1>1, <1>2, <1>3, AgentQuiet, EndQuiet DEF Next

\* Before the first turn no handler is at work and nothing has changed.
LEMMA QuietInit == Init => QuietInv
<1> SUFFICES ASSUME Init PROVE QuietInv
  OBVIOUS
<1>1. TypeOK BY TurnTypeInit
<1>2. \A c \in Conns : conn[c].pc = "idle" /\ conn[c].todo = {}
  BY DEF Init, Closed
<1>3. (\A a \in Agents : agent[a] = NoConn) /\ phase = "running"
  BY DEF Init
<1>4. Attended BY <1>2, <1>3 DEF Attended
<1>5. Exact BY <1>2 DEF Exact
<1>6. TurnsDue BY <1>3, TurnAssumption DEF TurnsDue
<1>7. EndCovers /\ EndDelivers BY <1>3 DEF EndCovers, EndDelivers
<1> QED BY <1>1, <1>4, <1>5, <1>6, <1>7 DEF QuietInv

\* The answer of a turn can be relied on, for one agent that waits for its
\* answers: when it says "committed", "noop" or "needs-approval", everything
\* the agent changed that needs no answer is in the base as the agent left it,
\* whatever failed, was approved or was copied before it (turn.py,
\* finalize_turn).
THEOREM TurnReliable ==
    ASSUME OneAgentWaits
    PROVE  Spec => []TurnComplete
<1>1. QuietInv => TurnComplete
  <2> SUFFICES ASSUME QuietInv, NEW a \in Agents, agent[a] # NoConn,
                      Answers(agent[a]), NEW p \in LiveChanges, Due(p)
               PROVE  real[p] = view[p]
    BY DEF TurnComplete, Answers, Due
  <2>1. agent[a] \in Conns BY DEF QuietInv, TypeOK
  <2>2. TurnDue(agent[a]) BY <2>1 DEF QuietInv, TurnsDue
  <2> QED BY <2>2 DEF TurnDue
<1> QED BY <1>1, QuietInit, QuietStepAll, PTL DEF Spec

\* A session of one agent that waits delivers what it ends with: once it is
\* "auto-committed" the base holds the last version of every change, with a turn
\* or an approval that its agent no longer waits for still copying behind the
\* session end's back (runner.py, finalize_session; control.py, stop).
THEOREM EndReliable ==
    ASSUME OneAgentWaits
    PROVE  Spec => []EndDelivers
<1>1. QuietInv => EndDelivers BY DEF QuietInv
<1> QED BY <1>1, QuietInit, QuietStepAll, PTL DEF Spec

-----------------------------------------------------------------------------
(***************************************************************************)
(* EndAgrees needs no quiet session, only that a yes to a path reaches the  *)
(* scopes the session end reads, and that it covers that very path.         *)
(***************************************************************************)
YesIsScope == Scopes \cup consent \subseteq scopes

\* A yes and the scope it makes come in one step, and neither goes away.
LEMMA ScopeStep == TypeOK /\ YesIsScope /\ [Next]_vars => YesIsScope'
<1> SUFFICES ASSUME TypeOK, YesIsScope, [Next]_vars PROVE YesIsScope'
  OBVIOUS
<1>1. CASE \E c \in Conns : ApproveTurn(c)
  BY <1>1 DEF ApproveTurn, YesIsScope, policy, memory
<1>2. CASE UNCHANGED <<scopes, consent>>
  BY <1>2 DEF YesIsScope
<1>3. CASE \E a \in Agents : \/ Receive(a) \/ ClientTimeout(a)
                             \/ \E p \in Paths : Edit(a, p)
                             \/ \E c \in Conns : \/ StopTurn(a, c) \/ NotifyTurn(a, c)
                                                 \/ RelayDecision(a, c)
  BY <1>2, <1>3 DEF Receive, ClientTimeout, Edit, StopTurn, NotifyTurn, RelayDecision,
                    policy, memory
<1>4. CASE \E c \in Conns : Unheard(c) \/ FinalizeTurn(c) \/ CopyPath(c) \/ CopyFails(c)
                            \/ FinishTurn(c) \/ FinishApproval(c)
  BY <1>2, <1>4 DEF Unheard, FinalizeTurn, CopyPath, CopyFails, FinishTurn,
                    FinishApproval, policy, memory
<1>5. CASE AgentsExit \/ DecideEnd \/ ApplyEnd
  BY <1>2, <1>5 DEF AgentsExit, DecideEnd, ApplyEnd, policy, memory
<1>6. CASE UNCHANGED vars BY <1>2, <1>6 DEF vars
<1> QED BY <1>1, <1>3, <1>4, <1>5, <1>6 DEF Next, Handler

\* An automatic session without warnings is parked for a flagged change, which no
\* yes covers.
LEMMA ParkedForFlagged ==
    ASSUME DenyMatched = {}, TypeOK, YesIsScope, [Next]_vars,
           phase = "finalizing", phase' = "pending-review", ~warned',
           mode \in {"workspace-auto", "training-run"}
    PROVE  \E p \in LiveChanges \ consent : p \in DenyMatched \/ ~Granted(p)
<1>1. DecideEnd
  BY DEF Next, vars, Receive, ClientTimeout, Edit, StopTurn, NotifyTurn, RelayDecision,
         Handler, FinalizeTurn, ApproveTurn, CopyPath, CopyFails, FinishTurn,
         FinishApproval, Unheard, AgentsExit, ApplyEnd, closing, Working
<1>2. LiveChanges \cap FlaggedOf(LiveChanges) # {}
  BY <1>1 DEF DecideEnd, EndDecision, WithWarnings, Evaluate, ClosedState
<1>3. PICK p \in LiveChanges : p \in FlaggedOf(LiveChanges) BY <1>2
<1>4. ~InScope(p) /\ p \in Paths BY <1>3 DEF FlaggedOf, LiveChanges
<1>5. p \notin consent
  BY <1>4, TurnAssumption DEF InScope, Covers, YesIsScope
<1>6. ~Granted(p) BY <1>4 DEF InScope, Granted, YesIsScope
<1> QED BY <1>3, <1>5, <1>6

\* The session end agrees with the turns before it: an automatic session whose
\* status carries no warning is parked for review only for a change that no user
\* approved, with any number of agents, late approvals and abandoned handlers.  A yes does not help a path that a deny
\* pattern flags, so there are none (turn.py, approve_turn; runner.py,
\* finalize_session).
THEOREM EndIsAgreed ==
    ASSUME DenyMatched = {}
    PROVE  Spec => EndAgrees
<1>1. Init => TypeOK /\ YesIsScope
  BY TurnTypeInit DEF Init, YesIsScope
<1>2. TypeOK /\ YesIsScope /\ [Next]_vars =>
         [(/\ phase = "finalizing" /\ phase' = "pending-review" /\ ~warned'
           /\ mode \in {"workspace-auto", "training-run"})
             => \E p \in LiveChanges \ consent : p \in DenyMatched \/ ~Granted(p)]_vars
  BY ParkedForFlagged
<1> QED BY <1>1, <1>2, ScopeStep, TurnTypeStep, PTL DEF Spec, EndAgrees
=============================================================================
