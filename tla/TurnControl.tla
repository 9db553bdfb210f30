---------------------------- MODULE TurnControl ----------------------------
(***************************************************************************)
(* The per-turn channel of a running session: the supervisor's              *)
(* TurnController (turn.py) behind its ControlServer (control.py), the      *)
(* agents that call it through their Stop hooks, and the session end that   *)
(* runs in the same supervisor while handlers may still be at work.         *)
(*                                                                          *)
(* Every connection has its own handler thread.  A handler works under one  *)
(* lock: it reads the live status, copies one path after the other from the *)
(* view to the base, and answers.  A client waits at most 30 seconds, the   *)
(* handler does not know.  Stopping the server does not wait for handlers.  *)
(*                                                                          *)
(* A path's content is a number: 0 is the content the session started from, *)
(* 1..MaxEdit are the agent's successive versions, each a content or the    *)
(* deletion of the file.  The branch has a delta for each path whose view   *)
(* is not 0.  Only this session writes to the base.  That the removal of a   *)
(* directory takes what is below it along is in Delivery.                   *)
(***************************************************************************)
EXTENDS Naturals, FiniteSets, PolicyDecision

CONSTANTS Paths,        \* canonical agent-visible paths
          Below,        \* for each path, the paths within it, itself included
          Dirs,         \* the paths whose changes are directories
          Scopes,       \* allowed_scopes the session is launched with
          DenyMatched,  \* paths that match a deny or hide pattern
          Ignored,      \* paths that match an ignore pattern
          Aliased,      \* paths a status spells by the alias of their home
          Modes,        \* policy modes the session may be launched with
          Agents,       \* the agent and the agents nested in its session
          Conns,        \* connections to the control socket
          Tokens,       \* approval tokens; bounds the turns that need one
          MaxEdit,      \* bounds the edits of a path
          Timeouts,     \* whether an agent may go on without its answer
          NoConn        \* not a connection

Content == 0 .. MaxEdit

ASSUME TurnAssumption ==
    /\ MaxEdit \in Nat \ {0}
    /\ Below \in [Paths -> SUBSET Paths] /\ \A p \in Paths : p \in Below[p]
    /\ Dirs \subseteq Paths
    /\ Scopes \subseteq Paths
    /\ DenyMatched \subseteq Paths
    /\ Ignored \subseteq Paths
    /\ Aliased \subseteq Paths
    /\ Modes \subseteq PolicyModes
    /\ NoConn \notin Conns
    /\ Timeouts \in BOOLEAN

VARIABLES
    mode,      \* session.policy["mode"]
    scopes,    \* session.policy["allowed_scopes"]
    view,      \* per path: content in the agent's view
    real,      \* per path: content in the base
    phase,     \* running, then the supervisor's session end
    ending,    \* what the session end still has to apply
    warned,    \* BranchFS's status at the session end carried warnings
    approved,  \* TurnController._approved
    denied,    \* TurnController._denied
    pending,   \* TurnController._pending, {} for a resolved token
    issued,    \* tokens ever handed out
    lock,      \* the connection whose handler holds _lock
    conn,      \* per connection: its handler thread
    agent,     \* per agent: working, or the connection it waits on
    consent    \* history: paths a user ever said yes to

vars == <<mode, scopes, view, real, phase, ending, warned, approved, denied,
          pending, issued, lock, conn, agent, consent>>
policy == <<mode, scopes>>
memory == <<approved, denied, pending, issued, consent>>
closing == <<phase, ending, warned>>

ConnState == [pc : {"idle", "finalize", "approve", "copy", "replied"},
              op : {"none", "finalize", "approve"},
              todo : SUBSET (Paths \X Content), \* to be real, as the status saw it
              fresh : SUBSET Paths,    \* flagged and new, or held by the user
              chosen : SUBSET Paths,   \* what the user says yes to, or a turn applies
              token : Tokens \cup {"none"},
              verdict : {"none", "noop", "committed", "needs-approval",
                         "held", "error"}]

Closed == [pc |-> "idle", op |-> "none", todo |-> {}, fresh |-> {},
           chosen |-> {}, token |-> "none", verdict |-> "none"]

Init ==
    /\ mode \in Modes
    /\ scopes = Scopes
    /\ view = [p \in Paths |-> 0]
    /\ real = [p \in Paths |-> 0]
    /\ phase = "running"
    /\ ending = {}
    /\ warned = FALSE
    /\ approved = {}
    /\ denied = {}
    /\ pending = [t \in Tokens |-> {}]
    /\ issued = {}
    /\ lock = NoConn
    /\ conn = [c \in Conns |-> Closed]
    /\ agent = [a \in Agents |-> NoConn]
    /\ consent = {}

-----------------------------------------------------------------------------
\* _live_changes(): the filtered status.
LiveChanges == {p \in Paths : view[p] # 0} \ Ignored

\* classify(): outside every allowed scope, or a deny/hide match.  A directory
\* above a scope is plumbing, not a change outside of it.
Covers(s, p) == p \in Below[s] \/ (p \in Dirs /\ s \in Below[p])
InScope(p) == \E s \in scopes : Covers(s, p)
FlaggedOf(changes) == {p \in changes : ~InScope(p) \/ p \in DenyMatched}

\* classify() names an out-of-scope path canonically and a deny match as the
\* status spells it, the turn compares both with the spelled path.  (A path that
\* is both is asked about under two names, which are answered as one here.)
Recognized(p) == p \notin Aliased \/ p \in DenyMatched

\* The changes of some paths, as a status reports them.
Seen(ps) == {<<p, view[p]>> : p \in ps}

\* The view can be read while the roots are mounted.
Mounted == phase \in {"running", "finalizing"}

\* A version of a path is copied over whatever the base holds.
WriteBase(p, v) == real' = [real EXCEPT ![p] = v]

Working(a) == agent[a] = NoConn /\ phase = "running"

\* The handler of c answers and lets go of the lock it may hold.
Reply(c, v) ==
    /\ conn' = [conn EXCEPT ![c].pc = "replied", ![c].verdict = v,
                            ![c].todo = {}]
    /\ lock' = NoConn

-----------------------------------------------------------------------------
\* The agents

Edit(a, p) ==
    /\ Working(a)
    /\ view[p] < MaxEdit
    /\ view' = [view EXCEPT ![p] = @ + 1]
    /\ UNCHANGED <<policy, real, closing, memory, lock, conn, agent>>

\* The bound on the turns: each one that is under way may need a token.
TurnsLeft ==
    Cardinality(issued)
      + Cardinality({c \in Conns : conn[c].op = "finalize"}) < Cardinality(Tokens)

\* The Stop hook: finalize-turn over the control socket.
StopTurn(a, c) ==
    /\ Working(a)
    /\ TurnsLeft
    /\ conn[c].pc = "idle"
    /\ conn' = [conn EXCEPT ![c] = [Closed EXCEPT !.pc = "finalize",
                                                  !.op = "finalize"]]
    /\ agent' = [agent EXCEPT ![a] = c]
    /\ UNCHANGED <<policy, view, real, closing, memory, lock>>

\* A harness that only notifies, of the end of a turn or of a session, does not
\* wait for the turn: what it would ask, nobody is asked.
NotifyTurn(a, c) ==
    /\ Timeouts
    /\ Working(a)
    /\ TurnsLeft
    /\ conn[c].pc = "idle"
    /\ conn' = [conn EXCEPT ![c] = [Closed EXCEPT !.pc = "finalize",
                                                  !.op = "finalize"]]
    /\ UNCHANGED <<policy, view, real, closing, memory, lock, agent>>

\* The agent relays the user's decision on a token it was given: yes (every
\* path), keep or revert (none), or --paths (a part of them).
RelayDecision(a, c) ==
    /\ Working(a)
    /\ conn[c].pc = "idle"
    /\ \E t \in issued, S \in SUBSET Paths :
          conn' = [conn EXCEPT ![c] = [Closed EXCEPT !.pc = "approve",
                         !.op = "approve", !.token = t, !.chosen = S]]
    /\ agent' = [agent EXCEPT ![a] = c]
    /\ UNCHANGED <<policy, view, real, closing, memory, lock>>

\* The answer arrives; the agent goes on.
Receive(a) ==
    /\ agent[a] # NoConn
    /\ conn[agent[a]].pc = "replied"
    /\ conn' = [conn EXCEPT ![agent[a]] = Closed]
    /\ agent' = [agent EXCEPT ![a] = NoConn]
    /\ UNCHANGED <<policy, view, real, closing, memory, lock>>

\* ControlClient's timeout: the agent goes on, its handler too.
ClientTimeout(a) ==
    /\ Timeouts
    /\ phase = "running"
    /\ agent[a] # NoConn
    /\ conn[agent[a]].pc # "replied"
    /\ agent' = [agent EXCEPT ![a] = NoConn]
    /\ UNCHANGED <<policy, view, real, closing, memory, lock, conn>>

\* Nobody waits for this answer any more.
Unheard(c) ==
    /\ conn[c].pc = "replied"
    /\ \A a \in Agents : agent[a] # c
    /\ conn' = [conn EXCEPT ![c] = Closed]
    /\ UNCHANGED <<policy, view, real, closing, memory, lock, agent>>

-----------------------------------------------------------------------------
\* The handlers

\* finalize_turn, up to its first copy: status, classify, choose what to copy.
FinalizeTurn(c) ==
    /\ conn[c].pc = "finalize"
    /\ lock = NoConn
    /\ LET flagged == FlaggedOf(LiveChanges)
           chosen == {p \in LiveChanges :
                        (p \in flagged /\ Recognized(p)) => p \in approved}
       IN  \/ LiveChanges = {} /\ Reply(c, "noop")
           \/ /\ LiveChanges # {}
              /\ lock' = c
              /\ conn' = [conn EXCEPT ![c].pc = "copy",
                                      ![c].todo = Seen(chosen),
                                      ![c].chosen = chosen,
                                      ![c].fresh = flagged \ (approved \cup denied)]
           \/ Reply(c, "error")
    /\ UNCHANGED <<policy, view, real, closing, memory, agent>>

\* _commit_paths: the chosen paths that are live changes, by their spelling.
ToCopy(chosen) == {p \in chosen \cap LiveChanges : Recognized(p)}

\* Faulty variant: the decision is taken without the lock.
ApproveTurnUnlocked(c) ==
    /\ conn[c].pc = "approve"
    /\ LET asked  == pending[conn[c].token]
           chosen == asked \cap conn[c].chosen
       IN  /\ pending' = [pending EXCEPT ![conn[c].token] = {}]
           /\ approved' = approved \cup chosen
           /\ scopes' = scopes \cup chosen
           /\ denied' = denied \cup (asked \ chosen)
           /\ consent' = consent \cup chosen
           /\ conn' = [conn EXCEPT ![c].pc = "replied", ![c].verdict = "held"]
    /\ UNCHANGED <<mode, issued, lock, view, real, closing, agent>>

\* Faulty variant: a choice of paths approves all that was asked about.
ApproveTurnAll(c) ==
    /\ conn[c].pc = "approve"
    /\ lock = NoConn
    /\ LET asked  == pending[conn[c].token]
           chosen == asked \cap conn[c].chosen
       IN  /\ pending' = [pending EXCEPT ![conn[c].token] = {}]
           /\ approved' = approved \cup asked
           /\ scopes' = scopes \cup asked
           /\ consent' = consent \cup chosen
           /\ lock' = c
           /\ conn' = [conn EXCEPT ![c].pc = "copy", ![c].chosen = chosen,
                                   ![c].todo = Seen(ToCopy(asked))]
    /\ UNCHANGED <<mode, denied, issued, view, real, closing, agent>>

\* Faulty variant: the token stays open.
ApproveTurnAgain(c) ==
    /\ conn[c].pc = "approve"
    /\ lock = NoConn
    /\ LET chosen == pending[conn[c].token] \cap conn[c].chosen
       IN  /\ approved' = approved \cup chosen
           /\ scopes' = scopes \cup chosen
           /\ consent' = consent \cup chosen
           /\ lock' = c
           /\ conn' = [conn EXCEPT ![c].pc = "copy", ![c].chosen = chosen,
                                   ![c].todo = Seen(ToCopy(chosen))]
    /\ UNCHANGED <<mode, denied, pending, issued, view, real, closing, agent>>

\* Faulty variant: an approved path does not become an allowed scope.
ApproveTurnUnscoped(c) ==
    /\ conn[c].pc = "approve"
    /\ lock = NoConn
    /\ LET asked  == pending[conn[c].token]
           chosen == asked \cap conn[c].chosen
       IN  /\ pending' = [pending EXCEPT ![conn[c].token] = {}]
           /\ approved' = approved \cup chosen
           /\ denied' = denied \cup (asked \ chosen)
           /\ consent' = consent \cup chosen
           /\ lock' = c
           /\ conn' = [conn EXCEPT ![c].pc = "copy", ![c].chosen = chosen,
                                   ![c].todo = Seen(ToCopy(chosen))]
    /\ UNCHANGED <<policy, issued, view, real, closing, agent>>

\* approve_turn, up to its first copy: the token is resolved for good, and the
\* chosen paths become approved and allowed before anything is copied.
ApproveTurn(c) ==
    /\ conn[c].pc = "approve"
    /\ lock = NoConn
    /\ LET asked  == pending[conn[c].token]
           chosen == asked \cap conn[c].chosen
       IN  IF asked = {}
           THEN Reply(c, "error") /\ UNCHANGED <<policy, memory>>
           ELSE /\ pending' = [pending EXCEPT ![conn[c].token] = {}]
                /\ approved' = approved \cup chosen
                /\ scopes' = scopes \cup chosen
                /\ consent' = consent \cup chosen
                /\ \/ /\ lock' = c
                      /\ conn' = [conn EXCEPT ![c].pc = "copy",
                                     ![c].todo = Seen(ToCopy(chosen)),
                                     ![c].fresh = asked \ chosen,
                                     ![c].chosen = chosen]
                   \/ chosen # {} /\ Reply(c, "error")
                /\ UNCHANGED <<mode, denied, issued>>
    /\ UNCHANGED <<view, real, closing, agent>>

\* _apply, one path: what the view holds now goes to the base.  Where the view
\* moved on since the status, a deletion is still carried out as reported, and
\* a file that is gone is passed over; so is every file of an unmounted view.
CopyPath(c) ==
    /\ conn[c].pc = "copy"
    /\ \E p \in Paths, v \in Content :
          /\ <<p, v>> \in conn[c].todo
          /\ \/ Mounted /\ WriteBase(p, view[p])
             \/ /\ ~Mounted \/ view[p] # v
                /\ WriteBase(p, v) \/ UNCHANGED real
          /\ conn' = [conn EXCEPT ![c].todo = @ \ {<<p, v>>}]
    /\ UNCHANGED <<policy, view, closing, memory, lock, agent>>

\* Faulty variant: the lock is not released when a copy raises.
CopyFailsLocked(c) ==
    /\ conn[c].pc = "copy"
    /\ conn[c].todo # {}
    /\ conn' = [conn EXCEPT ![c].pc = "replied", ![c].verdict = "error",
                            ![c].todo = {}]
    /\ UNCHANGED <<policy, view, real, closing, memory, lock, agent>>

\* The copy of a path raises: the server answers with an error.
CopyFails(c) ==
    /\ conn[c].pc = "copy"
    /\ conn[c].todo # {}
    /\ Reply(c, "error")
    /\ UNCHANGED <<policy, view, real, closing, memory, agent>>

\* Faulty variant: the turn is answered before everything is copied.
FinishTurnEarly(c) ==
    /\ conn[c].pc = "copy" /\ conn[c].op = "finalize"
    /\ Reply(c, "committed")
    /\ UNCHANGED <<policy, view, real, closing, memory, agent>>

\* Everything is copied: a turn with new flagged paths gets a token for them.
FinishTurn(c) ==
    /\ conn[c].pc = "copy" /\ conn[c].op = "finalize" /\ conn[c].todo = {}
    /\ IF conn[c].fresh # {}
       THEN \E t \in Tokens \ issued :
               /\ pending' = [pending EXCEPT ![t] = conn[c].fresh]
               /\ issued' = issued \cup {t}
               /\ Reply(c, "needs-approval")
       ELSE /\ Reply(c, IF conn[c].chosen = {} THEN "noop" ELSE "committed")
            /\ UNCHANGED <<pending, issued>>
    /\ UNCHANGED <<policy, view, real, closing, approved, denied, consent,
                   agent>>

\* An approval is copied: the paths it did not choose are held.  A choice of
\* paths is answered "committed" even when it chose none of those asked about.
FinishApproval(c) ==
    /\ conn[c].pc = "copy" /\ conn[c].op = "approve" /\ conn[c].todo = {}
    /\ denied' = denied \cup conn[c].fresh
    /\ \/ Reply(c, "committed")
       \/ conn[c].chosen = {} /\ Reply(c, "held")
    /\ UNCHANGED <<policy, view, real, closing, approved, pending, issued,
                   consent, agent>>

-----------------------------------------------------------------------------
\* The session end, in the supervisor's main thread

\* The agent process exits, and with it the hooks that wait for an answer.
AgentsExit ==
    /\ phase = "running"
    /\ phase' = "finalizing"
    /\ agent' = [a \in Agents |-> NoConn]
    /\ UNCHANGED <<policy, view, real, ending, warned, memory, lock, conn>>

EndDecision(w) ==
    WithWarnings(Evaluate(mode, LiveChanges, FlaggedOf(LiveChanges)), w)

\* Faulty variant: what was copied in a turn is not applied again.
DecideEndSkipsCopied ==
    /\ phase = "finalizing"
    /\ warned' \in BOOLEAN
    /\ LET left == {p \in LiveChanges : real[p] = 0}
       IN  IF EndDecision(warned') = "auto-commit" /\ left # {}
           THEN phase' = "applying" /\ ending' = left
           ELSE phase' = ClosedState(EndDecision(warned')) /\ UNCHANGED ending
    /\ UNCHANGED <<policy, view, real, memory, lock, conn, agent>>

\* finalize_session: freeze, status, decide, unmount.  A status with warnings
\* parks what would be committed.
DecideEnd ==
    /\ phase = "finalizing"
    /\ warned' \in BOOLEAN
    /\ IF EndDecision(warned') = "auto-commit"
       THEN phase' = "applying" /\ ending' = LiveChanges
       ELSE phase' = ClosedState(EndDecision(warned')) /\ UNCHANGED ending
    /\ UNCHANGED <<policy, view, real, memory, lock, conn, agent>>

\* The deltas are all still in the branch and are applied once more.
ApplyEnd ==
    /\ phase = "applying"
    /\ \E p \in ending :
          /\ WriteBase(p, view[p])
          /\ ending' = ending \ {p}
          /\ phase' = IF ending = {p} THEN "auto-committed" ELSE phase
    /\ UNCHANGED <<policy, view, warned, memory, lock, conn, agent>>

-----------------------------------------------------------------------------
Handler(c) ==
    \/ FinalizeTurn(c) \/ ApproveTurn(c) \/ CopyPath(c) \/ CopyFails(c)
    \/ FinishTurn(c) \/ FinishApproval(c)

Next ==
    \/ \E a \in Agents : \/ Receive(a) \/ ClientTimeout(a)
                         \/ \E p \in Paths : Edit(a, p)
                         \/ \E c \in Conns : \/ StopTurn(a, c) \/ NotifyTurn(a, c)
                                           \/ RelayDecision(a, c)
    \/ \E c \in Conns : Handler(c) \/ Unheard(c)
    \/ AgentsExit \/ DecideEnd \/ ApplyEnd

Spec == Init /\ [][Next]_vars

\* A handler thread that can go on does; an agent takes its answer.
FairSpec ==
    /\ Spec
    /\ \A c \in Conns : WF_vars(Handler(c))
    /\ \A a \in Agents : WF_vars(Receive(a))

-----------------------------------------------------------------------------
\* A decision under way names a token.
TokensHeld == \A c \in Conns :
    conn[c].pc = "approve" => conn[c].token \in Tokens /\ conn[c].op = "approve"

TypeOK ==
    /\ mode \in Modes
    /\ scopes \subseteq Paths
    /\ view \in [Paths -> Content]
    /\ real \in [Paths -> Content]
    /\ phase \in {"running", "finalizing", "applying", "auto-committed",
                  "pending-review", "aborted"}
    /\ ending \subseteq Paths
    /\ warned \in BOOLEAN
    /\ approved \subseteq Paths
    /\ denied \subseteq Paths
    /\ pending \in [Tokens -> SUBSET Paths]
    /\ issued \subseteq Tokens
    /\ lock \in Conns \cup {NoConn}
    /\ conn \in [Conns -> ConnState]
    /\ TokensHeld
    /\ agent \in [Agents -> Conns \cup {NoConn}]
    /\ consent \subseteq Paths

\* A path is allowed by the scopes the session was launched with, or by those
\* a user's yes added.
Granted(p) == \E s \in Scopes \cup consent : Covers(s, p)

\* Whatever a turn or the session end copies to the base was granted: a deny
\* or hide match by a yes to that very path, any other change by a scope, and
\* an ignored one never ("the supervisor only copies out-of-scope work to base
\* on a relayed user yes", turn.py), with agents, approvals, clients that gave
\* up and the session end all in each other's way.
OnlyGrantedInBase ==
    \A p \in Paths : real[p] \in 1 .. MaxEdit =>
       /\ p \notin Ignored
       /\ p \in consent \/ (p \notin DenyMatched /\ Granted(p))

\* A user who said yes to a path is never asked about it again, by no agent's
\* turn and although a turn computes what to ask before it copies (turn.py,
\* new_oos); and two tokens never ask about it once one was answered yes.
YesIsRemembered ==
    [][\A t \in Tokens : (pending[t] = {} /\ pending'[t] # {})
          => pending'[t] \cap consent = {}]_vars

\* The answer of a turn can be relied on: when it says that the turn is
\* committed (or asks about the rest), everything the agent changed that needs
\* no answer is in the base, as the agent left it.  One agent that waits for
\* its answers, nobody else at the base (turn.py, finalize_turn).
TurnComplete ==
    \A a \in Agents :
       LET c == agent[a]
       IN  (/\ c # NoConn
            /\ conn[c].pc = "replied"
            /\ conn[c].op = "finalize"
            /\ conn[c].verdict \in {"noop", "committed", "needs-approval"})
           => \A p \in LiveChanges :
                 (p \in approved \/ p \notin FlaggedOf(LiveChanges))
                    => real[p] = view[p]

\* A session that ends "auto-committed" has delivered: the base holds the last
\* version of everything the agent changed, although the turns before it copied
\* earlier versions of the same paths and one of them may still be under way.
EndDelivers ==
    phase = "auto-committed" => \A p \in LiveChanges : real[p] = view[p]

\* A turn that approved everything it flagged is not flagged again at the end:
\* in an automatic mode, and unless BranchFS warns of its status, a session is
\* parked for review only for a change that no user ever approved ("so the
\* session-end finalize agrees", turn.py).
EndAgrees ==
    [][(/\ phase = "finalizing" /\ phase' = "pending-review" /\ ~warned'
        /\ mode \in {"workspace-auto", "training-run"})
          => \E p \in LiveChanges \ consent : p \in DenyMatched \/ ~Granted(p)]_vars

\* A Stop hook gets its answer (or gives up): no handler keeps the lock, also
\* not one that failed or whose client has left.
HookReturns == \A a \in Agents : agent[a] # NoConn ~> agent[a] = NoConn

-----------------------------------------------------------------------------
Grants == INSTANCE GrantLedger WITH
    Versions <- Content,
    Launched <- {p \in Paths : \E s \in Scopes : Covers(s, p)},
    Under <- [s \in Paths |-> {p \in Paths : Covers(s, p)}],
    yes <- consent, asked <- issued, question <- pending, published <- real

\* Together the handlers keep the user's ledger: a token is asked about once,
\* resolved once and for good, never about a path with a yes, and what is copied
\* in between is allowed by the answers up to then (turn.py).
KeepsGrants == Grants!Spec
=============================================================================
