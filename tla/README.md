# Formal model of ccc-agent

TLA+ specifications of the containment supervisor in `ccc_agent/`, with TLC
configurations that check them on small instances and TLAPS proofs of the
properties that matter most for every instance. Paths below are relative to the
repository.

ccc-agent runs a coding agent over BranchFS branches of protected roots. What
the agent changes stays in the branches until a trusted supervisor decides: copy
it to the real files (auto-commit), park it for a human (pending-review), or
discard it (abort). Two things must never happen: work reaching the real files
that nobody allowed, and work being lost that nobody gave up. Both are threatened
by ordinary operation: several processes act on one session record without a
lock, every BranchFS command can fail, processes are killed, the node reboots,
and per-turn handlers outlive the clients that called them.

## 1. Inventory

### Components

| Component | Source | State it keeps | Operations |
| --- | --- | --- | --- |
| session record | `session.py` | `session.json`: state, policy, roots, events, repair attempts | create, save (whole object), load, remove, `transition` on the in-memory object |
| supervisor | `runner.py` | its `Session` object, mounts, the session's ignore list, the sandbox of the agent | `run_session`, `resume_session`, nested run, `_add_session_infra_ignores`, `_bwrap_command`, `_run_agent_and_finalize`, `finalize_session` |
| operator commands | `ctl.py` | a `Session` object per invocation | commit, review `--commit`/`--apply-patch`, abort, thaw, finish, finish-turn, check-before-final, cleanup |
| policy engine | `policy.py` | none | `filter_ignored`, `classify`, `evaluate` |
| per-turn control | `turn.py` | approved, denied and pending paths, one lock | `finalize_turn`, `approve_turn` |
| control channel | `control.py` | socket, one thread per connection | request, answer, stop; a client with a 30 s timeout |
| path algebra | `paths.py` | none | `normalize`, `is_within`, `AliasMap` |
| BranchFS driver | `branchfs.py` | none (branches live in the store) | start daemon, create, mount, unmount, freeze, thaw, status, abort |
| command line | `cli.py` | none | parsing, configuration, pending-review prompt, batch commit/abort |
| stop hooks | `assets/hooks/*` | none | call finish-turn, finalize-turn, check-before-final |
| artifacts, setup, soft sandbox, scripts | `artifacts.py`, `setup.py`, `assets/scripts`, `scripts/` | files | reports, installation, diagnostics |

### How they interact

- *Shared state without a lock*: every process loads `session.json` once, works
  with its own `Session` object and writes the whole object back with `save()`.
  The transition table of `session.py` is enforced on the object, not on the file.
- *Shared branches and mounts*: the BranchFS store outlives every process; a
  command that lists the roots acts on them one after the other.
- *Messages*: hooks talk to the supervisor over a Unix socket; the server answers
  each connection in its own thread, and `stop()` waits for the accept thread only.
- *Shared memory*: turn handlers and the session end are threads of one process;
  handlers exclude each other with `TurnController._lock`, the session end takes
  no lock. All of them copy the same deltas to the same base.
- *The host*: the supervisor looks at links and directories of the host twice, for the
  ignore list and for the mounts of the sandbox; what bwrap makes in the branch to
  mount on comes back as changes.
- *Calls*: supervisor and commands call the BranchFS driver, which runs a program
  that can fail; the policy engine is called with the filtered status.

### What is hard

Concurrency (overlapping commands, handler threads, the session end); failure in
the middle of a loop over roots or paths; a kill between two saves; stale objects
saved back; a status read before, and used after, the view moved on; a client that
gives up while its handler goes on; a deterministic-looking record that is in fact
written by several programs. `PROJECT.json` lists each hazard at its line.

### What makes each component correct

- session record: the file moves along the transition table; a closed record
  tells the truth about branches and base.
- supervisor and operator commands: only reviewed work reaches the base, no work
  is lost, whatever overlaps, fails or dies; a supervisor always settles.
- policy engine: an automatic mode commits nothing flagged; ignored noise is
  neither committed nor a reason to keep a branch; nothing changed is overlooked.
- the three copy loops (`turn.py`, `runner.py`, `ctl.py`): a committed session has
  delivered what the agent saw, whatever order and kinds the changes have.
- per-turn control: only granted paths are copied; a yes is remembered; an answer
  can be relied on; the session end agrees with what was approved.
- control channel: every hook gets its answer or gives up, none blocks for ever.
- path algebra: spelling does not change the decision.
- sandbox: the agent's writes go to the branch, except those to its own state; what
  is made to mount on never reaches a review; a launch does not fail for something
  optional; trusted assets cannot be replaced from the state they are mounted in.
- hooks and record: a repair loop ends, its budget holds, the record can be loaded
  after any crash.
- BranchFS driver: a call ends within its time, finds a daemon that boots late, and
  operates on a daemon that is there; an abort that says it is done has left nothing,
  and one that was done half can be repeated.

## 2. Modules

| Module | What it is |
| --- | --- |
| `SessionStates` | states, terminal states and transition table of `session.py` |
| `PolicyDecision` | `evaluate()` and what `finalize_session` makes of its decision |
| `AgentSession` | one session: supervisor, resume and operator commands on one record |
| `WorkLedger` | what a session promises about work; `AgentSession` implements it |
| `AgentSessionClaims` | a comment that the session does not keep |
| `AgentSessionProofs` | theorems about `AgentSession`: its types, what reaches the base, and that no work is lost |
| `AgentSessionLedgerProofs` | one command at a time: the record, the end of a session, the ledger |
| `TurnControl` | the per-turn channel of a running session and the session end beside it |
| `GrantLedger` | what the channel promises the user; `TurnControl` implements it |
| `TurnClaims` | a statement of the docs that the per-turn channel does not keep |
| `TurnControlProofs` | theorems about `TurnControl` |
| `BranchfsDriverProofs` | theorems about `BranchfsDriver` |
| `HookLoop` | the self-repair loop of a Stop hook, and the record it shares with nested runs and the supervisor, `save()` step by step |
| `HookLoopProofs` | theorems about `HookLoop` |
| `PolicyPaths` | `paths.py`, and the operators of `policy.py` on scopes and patterns |
| `PolicyPathsProofs` | theorems about the path algebra, for every path |
| `Delivery` | one root's files, from the agent's view through status and policy to the base |
| `DeliveryProofs` | theorems about `Delivery` |
| `BranchfsDriver` | the driver of one store, in time: daemon start, timeouts, late requests, half an abort |
| `Sandbox` | the ignore list, the mounts of the agent's sandbox, and how bwrap makes them |
| `SandboxProofs` | theorems about `Sandbox` |
| `MCAgentSession`, `MCTurnControl`, `MCDelivery`, `MCSandbox` | instances for TLC |

The modules look at one system at different depths. `AgentSession` has the
record, the branches and every command, with opaque changes. `TurnControl` has
the paths' successive versions and the threads of a live session. `HookLoop` has
the bytes of the record. `Delivery` has the kinds of files and the spelling of
paths. `Sandbox` has what is mounted over the view the agent works in, before any
of that begins. `BranchfsDriver` is what is behind a call that `AgentSession` takes for
one step that succeeds or fails. `PolicyDecision` is shared by the three that decide,
`PolicyPaths` is what `classify`, `filter_ignored` and the ignore list are made of.

Definitions commented *Faulty variant* (`ApplyRootPassesOver`,
`ApproveTurnUnlocked`, ...) are not part of any specification. Each is a plausible
bug in the definition that follows it, and `PROJECT.json` names the property that
must notice it when it takes that definition's place.

### AgentSession and the code

| Variable | Code |
| --- | --- |
| `disk` | `"state"` in `session.json`, `"unborn"` before and `"removed"` after |
| `mode` | `session.policy["mode"]` |
| `branch[r]`, `mounted[r]` | the session's branch in the store, the FUSE mount; a `"forgotten"` branch is one that BranchFS dropped while its directory is still there |
| `delta`, `base` | changes made in the branches, changes applied to the real files |
| `proc[p]` | one invocation: where it is, its command, the state in its own `Session` object, its position in the loop over roots, the filtered changes and decision it holds |
| `accepted`, `dropped` | history: what a human chose to commit, what a human or throwaway mode chose to discard |

One action is one step that another process can see: a save, a BranchFS command
on one root, a copy of one root's changes. `run` is `CreateSession`,
`EnterMounting`, then `CreateBranch`/`MountRoot` per root, `LaunchAgent`,
`AgentWrites` while the agent lives, `AgentExits`, then `finalize_session`:
`FreezeRoot` per root, `RecordFrozen`, `DecideSession`, `Quiesce`,
`ApplyRoot`/`DiscardRoot` per root, `CloseSession`, and the last `Unwind`.
`resume` joins at `RecordResume`/`MountRoot`, `finish` at `FinishSession`. The
failing branch of each action follows the handler that catches it: `Fail` for
`_fail()`, `FinalizeFails` for `finish`, which has none.

A save of a supervisor or of `finish` may fail like any other step. `_fail()` saves too:
when that fails as well, a launch ends without an unmount (`Launching`), and the
finalization goes on to its `finally` with its outcome not on record (`unsaved`). The
last save of `finalize_session` comes after the transition to a terminal state, which
`_fail()` cannot leave (`CloseSession`): the exception goes out of the supervisor, and the
record of a session that is closed, its work delivered and its branches gone, still says
"frozen". What is left open this way only abort takes, and a delivered session is then
recorded as aborted. A failing save of another operator command ends that command with
the record as it was, which is what `Kill` does.

`commit` and
`review --commit` are `BeginCommit`, `CommitStatus`, `CommitApply` (all roots)
and `CommitDiscard` (all roots, not strict), `CommitClose`; `abort` is strict. `review --apply-patch`
(the command `patch`) goes the same way, with one step for the whole patch, which is
applied to the base of the first root. What a patch cannot carry (deletions, dangling links) and
what the operator left out of it is given up (`Choices`). `PatchRoots` are the roots with
hunks in the patch; the runs have the first only, because hunks of another root
would be applied where they do not belong: with two, `NoWorkLost` does not hold.
An `abort` of a root may succeed, be done half, time out or fail
(`Abort`, `AbortFails`); one that is repeated removes what an earlier one left.
After `run` and `resume`, `Begin` is what the pending-review prompt starts.
`Kill` ends a process between any two steps and `Reboot` ends all and takes the
mounts. The agent dies with its supervisor (`bwrap --die-with-parent`).

Abstractions: a change is an opaque value with a root and the sets it is in
(flagged, ignored, without a delta, dangling symlink), so pattern matching is not
in this module; the root loops run in one order (the code uses insertion order in
some places and sorted order in others; roots are interchangeable here); `save()`
is atomic; a change keeps one version (versions are in `TurnControl`).

`Ledger` maps a session to `WorkLedger` by the fate of every change (`Fate`: unmade,
pending, delivered or discarded). `KeepsLedger` says that every step of the session is a
step of the ledger or leaves it alone.

### TurnControl and the code

| Variable | Code |
| --- | --- |
| `mode`, `scopes` | `session.policy` as the controller and the session end see it |
| `view[p]`, `real[p]` | a path's version in the agent's view and in the base; 0 is what the session started from |
| `phase`, `ending` | running, then `finalize_session` in the main thread and what it still has to apply |
| `approved`, `denied`, `pending` | `_approved`, `_denied`, `_pending` of `TurnController` |
| `issued` | tokens handed out |
| `lock` | the handler that holds `_lock` |
| `conn[c]` | a connection and its handler thread: step, request, what it still copies, what it will ask or hold |
| `agent[a]` | an agent works, or its hook waits on a connection |
| `consent` | history: paths a user ever said yes to |

`Grants` maps the channel to `GrantLedger`: `pending` holds its open questions,
`consent` every yes, `real` what is published.

A turn is `StopTurn` (client; or `NotifyTurn`, where the harness does not wait for its
hook: `codex-notify.sh`, the Hermes plugin), `FinalizeTurn` (lock, status, classify),
`CopyPath` once per path, `FinishTurn` (token or answer) and `Receive`. An
approval is `RelayDecision`, `ApproveTurn`, `CopyPath`, `FinishApproval`.
`CopyFails` is any exception in the copy loop. `ClientTimeout` lets the client go
while its handler continues, `Unheard` drops an answer nobody waits for.
`AgentsExit`, `DecideEnd`, `ApplyEnd` are the session end. `CopyPath` covers what
`_apply` does when the view moved on since the status: the operation is the one
reported, the content the one found now, a vanished file is passed over.
BranchFS may warn of the status the session end reads (`warned`): what would have been
committed, or closed without changes, is parked then (`WithWarnings`).

`Aliased` is the set of paths that the status spells by an alias. `classify()`
lists an out-of-scope path canonically and a denied one as it is spelled, and
`turn.py` looks spelled paths up in both (`Recognized`). An aliased path that is
out of scope is therefore copied like one in scope; `claim_alias` shows it, the
other runs and the proof of `GrantedWork` have no aliased path.

### HookLoop and the code

| Variable | Code |
| --- | --- |
| `record`, `temp`, `content` | what `session.json` and `session.json.tmp` name, and what is in the files |
| `held` | the supervisor's `Session` object, loaded at the launch |
| `proc[x]` | the command an agent's hook runs, the supervisor's save: step, its own `Session`, the file it has open, the verdict |
| `agent[a]` | working, stopping (its hook runs), waiting (let go), gone |
| `dirty` | whether `check_before_final` would find something |
| `told`, `overlap` | history: blocked stops since the launch, whether two commands overlapped |

A stop is `Stop`, then the command `check`: `Load`, `ReadStatus`
(`check_before_final`), and `OpenTemp`, `WriteTemp`, `Rename` (`save()`); then
`HookGoesOn` reads the exit code as the hook scripts do: 2 sends the agent back to
work, anything else runs `finish-turn` and lets it go. `ReportStop` is `hermes-finish-turn.sh`, which
does not check. `NestedRun` and `AgentExits` are the other writers. Files are inodes: a second writer that opens
the temporary file empties the one the first is writing. `CommandFails` covers
exceptions and kills of a command, `Reboot` those of everybody.

### Delivery and the code

| Variable | Code |
| --- | --- |
| `base[p]` | the real file, directory or link at a path, or nothing |
| `delta[p]`, `gone` | what the branch store holds, its tombstones (external: BranchFS) |
| `phase`, `todo` | a copy loop that runs, its remaining changes, or how the session ended |
| `chosen` | history: the paths an operator last chose to commit |

`Entries` is the status document, `Reported` is `_changes_from_status`, `Changes`
is `filter_ignored` on it, `Flagged` is `classify`. `Turn`, `EndSession` and
`Commit` start the three copy loops, `CommitChosen` (`review --commit`) the last of
them for some of the changes; `CopyNext` is one iteration: `Apply` does what
`os` and `shutil` do, `rmtree` for a directory, `makedirs` for parents, `copy2`
into a directory or through a link if that is what the base has (`Landing`). A link of
the base to a directory is followed on the way to a path too, by `makedirs` as by `copy2`
(`Led`, `CanMakeDirs`); `Beyond` is the path it leads to. What a copy writes there
outside of the modelled tree is not followed up.
`CopyRaises` is an exception in the loop, also where an operation cannot succeed: a
copy over a path below a file, or through a link into a directory that is not there. A
session parked for a warning may have no changes; `Commit` closes it. The order of the
changes is left open, so every order of a status is covered.

`Spellings` are the names an operator may use: as the status spells the paths, and
others (`Names`). `Matching` is what `diff` takes a name for (`_matching_change`), with
`Places` for `_path_candidates`; `Named` is what `review --commit` takes it for, which
compares strings.

### BranchfsDriver and the code

| Variable | Code |
| --- | --- |
| `daemon` | the daemon of the store: none, booting, its socket bound (external) |
| `mounted`, `branch` | the session's mount; the branch, whose removal takes steps (external) |
| `late` | a request whose client was killed at its timeout and that is still to be done |
| `call[p]` | a call of `BranchfsCli`: where it is, its operation, the ticks it has taken and waited |

`Begin` is the start of an operation: `start_daemon`, which every operation but
`unmount` calls first. `Started` and `NotYetStarted` are the two ways its command
ends, `Probe` and `Wake` the loop of `_wait_for_daemon_socket`, `Perform`/`Answered`,
`NotFound` and `CommandFails` the ways an operation ends, `TimesOut` the
`TimeoutExpired` of `_run_subprocess`. `LookAtOrphan` and `RemoveOrphan` are
`_remove_empty_orphan_branch_dir`, in two steps between which somebody else can
remove the directory. Freeze, thaw and status are one operation (`use`). `Tick` is
0.1 s, the polling interval; it passes only while every process waits, so the
driver's own steps take no time.

### Sandbox and the code

| Variable | Code |
| --- | --- |
| `host[p]` | what is at a path of the host: nothing, a file, a directory, a link |
| `config` | `protect_agent_state`, `ensure_agent_state_dirs` |
| `ignore` | what `_add_session_infra_ignores` adds to `policy["ignore"]` |
| `made` | the directories that bwrap and the agent's runtime made in the branch |
| `table`, `todo` | the mounts of the sandbox, and those bwrap has still to make (external: bwrap) |

`CreateSession` makes the ignore list, `Prepare` is `_ensure_shared_agent_state_dirs`,
`Launch` is `_bwrap_command` (`Command`, in the order in which it appends to `argv`),
`MountNext` is one `--bind`, `--ro-bind` or `--dir` of it, `MountFails` the exit of
bwrap. `KeepState` is the agent's runtime, `Resume` a launch with the ignore list
of the first, `HostChanges` somebody else on the host. `Place` says which bytes a
path of the sandbox leads to with the mounts made so far: the last mount above it.
`Missing` are the places bwrap makes so that there is something to mount on. Neither bwrap
nor the agent's runtime makes anything in a mount that is read-only. Which sources a
link resolves to (`RealOn`) is a function of the host, so that theorems can speak of the
host of a configuration and of the one it has become.

There is one root, whose base is its visible path, and the home is the same bytes as
a directory of it; links do not lead through links; `/proc`, `/dev`, `/tmp`, `/run`,
the control socket, the environment, and which plugin belongs to which agent are left
out.

## 3. What is checked

Every run with `pass` finishes without an error; each property has a faulty
variant of the code that violates it.

| Run | Instance | What it shows |
| --- | --- | --- |
| `session_serial` | 1 process (so commands follow each other), 2 roots, 4 changes (in scope, out of scope, a deletion, ignored), 3 modes, aborts done half, failing saves, kills and reboots, fair | no work is lost (`NoWorkLost`), a closed record tells the truth (`ClosedMeansDone`), the record follows the table (`RecordFollowsTable`), a supervisor whose agent exited settles, or leaves a record that abort takes if it could not save its outcome (`SupervisorSettles`), an operator who keeps aborting closes the session (`AbortCloses`), the session implements the work ledger (`KeepsLedger`) |
| `session_overlap` | 2 processes, 2 roots with a change each, every command overlaps every other but thaw and resume, kills and reboots | `OnlyReviewedInBase` and `NoWorkLost` still hold |
| `turn_quiet` | 1 agent that waits, a directory above a path, 2 versions per path, 2 modes | a committed turn is complete (`TurnComplete`), an auto-committed session has delivered the last versions (`EndDelivers`), the end does not flag what was approved, unless BranchFS warns (`EndAgrees`) |
| `turn_busy` | 2 agents, 2 connections, clients that give up, a deny-matched path | only granted work in the base (`OnlyGrantedInBase`), a yes is remembered (`YesIsRemembered`), the channel implements the grant ledger (`KeepsGrants`) |
| `turn_returns` | 1 agent, an abandoned handler beside the new one, fair | every Stop hook returns (`HookReturns`) |
| `hook_loop` | an agent and a nested one, one repair, kills and a reboot, fair | the record can be loaded (`RecordReadable`), the budget holds (`RepairsBounded`), an agent that wants to stop is let go (`LetGo`) |
| `delivery` | a tree of 8 paths, 6 of which the agent changes: a denied file, a file out of scope, a link to that file, which may be removed or lead to the denied one, and a link to the directory it is in, which may become a file, or a directory with a file and an ignored one | a committed session delivered the view (`Delivers`), and a file-level commit what was chosen (`ChosenDelivered`), which is what `diff` shows by the same name (`DiffShowsChosen`), only what the policy allows is touched, but through replaced links (`OnlyAllowedTouched`), spelling does not matter (`SpellingIrrelevant`), no change escapes the policy (`NothingOverlooked`) |
| `sandbox` | 224 hosts and configurations: the agent's state directory missing, there, or a link, with a link in it; runtime, key and tools there or not; protected or not; a reboot, a change of the host | what is made to mount on is ignored (`PlumbingIgnored`), a launch succeeds (`LaunchSucceeds`), the agent's state is shared (`StateShared`) and nothing else bypasses the branch (`OnlyStateBypasses`), the plugin cannot be replaced (`PluginTrusted`) |
| `driver` | 2 processes, a timeout of 2 polling intervals, fair | a call takes at most two timeouts (`CallBounded`), a daemon that boots during the last sleep is found (`LateDaemonFound`), an operation finds its daemon (`DaemonThere`), a finished abort has left nothing (`AbortTruthful`), half an abort can be repeated (`AbortRepeats`) |

Three more runs check one sentence of the repository each and find it violated:

| Run | Sentence | What happens |
| --- | --- | --- |
| `claim_alias` | a turn "only copies out-of-scope work to base on a relayed user yes" (`turn.py:23`) | a path spelled by an alias is not recognized as flagged, and is copied before anybody is asked |
| `claim_symlink` | auto-commit applies "the same set used for the decision" (`runner.py:865`) | a relative symlink to an unchanged file dangles in the store, is passed over, and goes with the branch |
| `claim_mode` | manual sessions "always require human review before commit" (`policy.py:20`) | a turn never reads the mode and commits in-scope changes of a manual session |

Modelling met more places where the code does not do what one might expect. They
have no run of their own; the properties are stated so that they hold beside them:

- An abort by the operator while the supervisor lives is overwritten by the
  supervisor's object, although `tests/test_session.py:79` calls terminal states
  terminal; `RecordFollowsTable` is for commands one at a time.
- A failure on the second root of an auto-commit comes after the first was applied
  and discarded, though the message says "branch preserved". Its work is in the base.
- The supervisor's save at the agent's exit takes back the repairs the hooks
  counted, so a thawed and resumed session has a new budget.
- A partial approval whose copy fails does not record the held paths as refused.
- A scope does not help a path that a deny pattern flags: a session whose changes
  were all approved is parked at the end. `EndAgrees` has no deny patterns.
- A link or directory that replaces a file, and the reverse, are not delivered:
  `copy2` follows links and enters directories, `makedirs` fails on a file
  (`Plain` in `Delivers`). A link that the agent points elsewhere is copied through the
  old link: the file the old link leads to gets the content of the new one's
  (`Replaced`). A new directory that holds only deletions, links or
  ignored files is lost (`Unmade`).
- A link of the base to a directory that the agent replaces, by a directory or a file, is
  followed by the copy: what it put below the link's place is written below the link's
  target, in or out of scope, and over whatever is there, and the session closes as
  committed. `OnlyAllowedTouched` excepts such files and directories (`Through`), and
  `Plain` leaves out the paths that a replaced link leads to.
- A session whose outcome cannot be saved keeps an open record, "frozen" mostly, although
  its work may be in the base and its branches gone (`CloseSession`). `commit` cannot read
  its branches any more; `abort` records it as aborted. `LeavesSettled` admits an open record
  there, and nothing else.
- An abort of a branch that BranchFS has forgotten fails as long as a file is left in its
  directory (`branchfs.py` 88-90). `AbortRepeats` assumes that the daemon's own removals
  come to their end, and says nothing of a file that stays for ever.
- "The deny pattern still forces review if the agent modifies it"
  (`docs/policy.md:87`): when the agent removes an allowed directory with a denied file
  in it, a turn removes the directory from the base with `rmtree`, the denied file too,
  while it asks about that file. `OnlyAllowedTouched` lets removals below a directory
  pass.
- A file copied where the base has a directory lands in it, under its own name. A
  pattern that ends in a name twice (`d/d`) flags or ignores that place and not the
  file: `OnlyAllowedIsTouched` assumes no such pattern (`NoneDoubled`).
- `review --commit` compares paths as they are spelled: a selection that spells a path
  by an alias, or relatively (`README.md:67` writes `--commit a,b`, and `diff` would
  understand it), matches nothing, and the rest, which is everything, is discarded.
  `DiffShowsChosen` states the other direction.
- `--emit-patch` prints the hunks of every root, `--apply-patch` applies all of them to
  the first root's base. Deletions, dangling links and new directories do not come through a patch.
- A batch command (`_run_batch_session_op`) goes on after a `ControlError` only; any
  other exception ends it before the sessions that follow.
- `_infra_ignore_paths_for` ignores every directory above a mount point below home,
  with all that is in it.
- Mount points "are treated as infrastructure and ignored" (`docs/policy.md:69`), but
  not if a protected state directory is a link (bwrap makes its target's place), nor
  if a state directory is missing and is not to be made. `MCConfigs` and
  `PlumbingSeated` leave out both.
- The ignore list is made at the launch and kept for every resume; what has changed on
  the host meanwhile is not in it. The properties of `Sandbox` that this would break
  are stated for a host nobody else changes (`Undisturbed`); of one that others change
  only `OnlyStateBypasses` says something.
- With two roots and a workspace in one without a `home_subdir`, the home in the
  sandbox is a view of that root (`runner.py:651`). `Sandbox` has one root.
- `normalize` keeps a leading `//`, which its comment says it collapses.

### Bounds and why they are enough

- Two roots: a loop over roots has a first, a last, and a failure in between.
- One or two processes: a process runs one command after the other, so one gives every
  sequence of commands, two every pair that overlaps. Three add only processes that
  are idle or that repeat what one of the two can do.
- Changes: one of each kind that the code treats differently; two of a kind are
  treated alike, and the order in which a root's changes are copied shows in the
  subsets a failing copy leaves.
- `Tokens` has two elements, which bounds the turns that may ask (`TurnsLeft`): two
  tokens may be out at once, and an answered path may come up again.
- `MaxEdit` is 1 or 2: with 2 a path is changed again after it was copied, or deleted
  and written again.
- `HookLoop`: two agents make every pair of hook commands, or a hook command and a
  supervisor's save, overlap; one repair is the first and the last of a budget; each
  process has a file open at most, so with one file more than processes `Files` never
  runs out (`FilesSuffice`).
- `Delivery`: the agent makes a directory, which can be filled, removed, made again
  and filled again; one path for each class of the policy (allowed, denied, ignored,
  out of scope); two links of the base, to a file and to a directory outside of the workspace,
  and one the agent makes, to a denied file. One edit per file
  (`MaxVersion`) suffices, because versions are in `TurnControl`.
- `StraightLinks`: no link of the base leads to, through or above another link, so one
  step follows it. It is part of `DeliveryAssumption`, so the proofs have it as well.
- `Delivery` lets an operator name at most 2 changes (`Selections`): one that depends
  on another, and both. `Names` has a name of each kind: absolute by an alias, relative
  to the root, to the workspace, and upwards out of it.
- `BranchfsDriver`: two processes, one that keeps or takes the daemon and one that relies
  on it; a timeout of two intervals has a probe before, between and at the deadline.
  Ticks are counted per call and end with it.
- `Sandbox`: one state directory and one state file, one runtime, mask and plugin: the
  mounts of one kind do not overlap each other. `MaxChanges` and `MaxResumes` are 1:
  what is stale is stale after one change, and a second resume is like the first.
- Elsewhere a timeout is a nondeterministic choice, not a clock, and needs no bound.
- `CHECK_DEADLOCK FALSE` is set only where a run really ends: in the turn runs,
  `delivery` and `sandbox` after the session end or the last launch.
- Symmetry is over interchangeable processes, agents, connections and tokens, and only
  in runs of safety properties.

`session_overlap` leaves out thaw and resume because with them `NoWorkLost` does
not hold: a commit that has listed its changes goes on to discard a branch that a
thaw has opened for a resumed agent. The theorem `ReviewedWork` has no such limit.
`TurnComplete` and `EndDelivers` are stated for an agent that waits for its
answers: what is written while an abandoned turn is copied may or may not be in
that copy. So the stale operation of a change (`turn.py:90`: deleted when the status was
read, written again since) is in the model, but no property speaks of what it leaves:
`OnlyGrantedInBase` only says that it was granted.

### Fairness

`AgentSession!FairSpec` has weak fairness of `Proceed(p)`: a started command
waits for nobody but the agent (whose exit is not assumed), because record, store
and base are used without locks. Starting a command, killing and rebooting are
never fair; `AbortCloses` itself assumes an operator who aborts again and again, and
that from some time on nothing is killed or resumed, and no abort fails without any effect (a
resume that ends without an unmount leaves mounts behind, so an abort that fails after it
always has an effect, and the two could take turns for ever). `TurnControl!FairSpec` has
weak fairness of each connection's handler and of an agent taking an answer that is there. The handler loop over paths is
finite, and `_lock` is held by one handler that itself goes on, so weak fairness
of handlers is what thread scheduling gives. Clients need not time out.
`HookLoop!FairSpec` has weak fairness of a started command, which waits for nobody;
nothing makes an agent stop, or the supervisor resume.
`BranchfsDriver!FairSpec` has weak fairness of what a call does or of its timeout (the
operating system runs and kills processes), of the daemon's boot and removals, and of
time; that a daemon boots rather than fails, or that a command succeeds, is not assumed.
`AbortRepeats` assumes it only for the time in which the operator repeats the abort,
and that nobody asks anything else of the store then.

### Refinement

`KeepsLedger` and `KeepsGrants` are the abstract specifications as properties, under
`INSTANCE ... WITH`. `KeepsLedger` is checked with one command at a time: of two that
overlap, an abort can discard a change that a `patch` has read and then delivers. `KeepsGrants` is checked
with two agents, abandoned handlers and the session end. Both are proved.

## 4. What is proved

`AgentSessionProofs` (assuming `SessionAssumption`: at least one root, each
change in one root, the sets of changes are sets of changes):

- `TypeCorrect`: `Spec => []TypeOK`.
- `ReviewedWork`: `Spec => []OnlyReviewedInBase`, for any number of processes and
  roots and every overlap of commands. The property speaks of the base only, so
  it is not inductive: a process that is about to copy could hold anything. The
  invariant adds `ReviewedInv`, that the changes a process holds on its way to a
  copy were allowed when it took them: the filtered, unflagged set of an automatic
  mode, or what a human accepted. Both stay true because the mode never changes
  and `accepted` only grows, so nothing another process does can hurt it.
- `NothingLost`: `Spec => []NoWorkLost`, for any number of processes and roots and
  every overlap of commands but thaw and resume (`NoReopening`; with them it does not
  hold, see *Bounds*). It assumes that links which dangle in the store are ignored
  (`claim_symlink` shows why) and that a patch has hunks of the first root only. A
  command that discards a branch relies on what it copied before, which another
  command may have copied from another status. The invariant `LossInv` says why that is
  enough: a session has one supervisor (`OneSupervisor`), nobody finalizes while it
  still makes its branches (`NotYetStarted`), and where `finish` overtakes it no branch is
  open once somebody reads the changes (`FreezingSeals`, `SealedMeansFrozen`). So all
  statuses from then on show the same changes, and what a process is about to discard is
  in the base, ignored, or given up (`SettledInv`).

`AgentSessionLedgerProofs`, for one command at a time (`Overlapping = {}`), with kills,
reboots and failures anywhere, by one invariant (`SerialInv`): at most one process is at
work, at the place its command and the record say (`OneCommand`, `PlacedInv`,
`RecordedInv`).

- `TableFollowed`: `Spec => RecordFollowsTable`. Each save goes along the table because
  the object a command loaded is still what the file says.
- `SettledLeft`: `Spec => LeavesSettled`: a supervisor that comes to its end leaves a record
  that is terminal, pending or, after a resume that cannot mount, the one it found; or, where
  the save of its outcome failed, an open one, which abort takes. `RecordedInv` says which
  record goes with each step, the failed ones too (`FailsTo`).
- `ClosedKept`: `Spec => []ClosedMeansDone`, assuming that dangling links are ignored.
  `ClosingInv` says what a process on its way to a closing save has done so far: the
  roots it has passed are applied, or have no branch.
- `LedgerImplemented`: `Spec => KeepsLedger`, under the hypotheses of `NothingLost`. Every
  step is a step of `WorkLedger` or leaves the fate of every change alone. It needs all of
  the invariants above, and `ReadingInv`: a process copies only what was made, and an
  operator's commit finds every branch still there.


`TurnControlProofs` (assuming `TurnAssumption`):

- `TurnTypeCorrect`: `Spec => []TypeOK`. It needs `TokensHeld`, that a decision
  under way names a token, because `pending` is applied to it.
- `GrantedWork`: `Spec => []OnlyGrantedInBase`, assuming `Aliased = {}`; without the
  condition `claim_alias` refutes it. The invariant `GrantedInv` adds
  that every path a handler still has to copy, and every path the session end
  still has to apply, may be copied (`MayCopy`), and that the memory they decide by
  holds nothing beyond the launch scopes and the user's yes. `MayCopy` is monotone
  (`MayCopyKept`): a yes is never taken back.
- `ChannelKeepsGrants`: `Spec => KeepsGrants`, assuming `Aliased = {}`: every step is a
  step of `GrantLedger` or leaves its variables alone. `LedgerStep` shows it from
  `GrantedInv` and `LockInv`; `LedgerAllows` says that what `MayCopy` allows is in the
  ledger's `Allowed`.
- `YesRemembered`: `Spec => YesIsRemembered`. The invariant `LockInv` says that a
  handler that copies holds the lock, and that what a turn is going to ask about
  holds no path a user said yes to; only an approval adds to the yes, and it needs
  the lock that the turn has.

- `TurnReliable` and `EndReliable`: `Spec => []TurnComplete` and
  `Spec => []EndDelivers`, for one agent without timeouts or notified turns
  (`OneAgentWaits`), which is what the properties are about. The invariant `QuietInv` says that a handler works only while
  the agent waits for it (`Attended`), until the session ends; so the versions it copies
  are the last ones (`Exact`), a turn leaves nothing due behind what it still has to copy
  (`TurnsDue`), and the session end has everything in its list that is not in the base
  (`EndCovers`). A handler whose agent is gone can still be copying then, but what it
  copies is the last version too.
- `EndIsAgreed`: `Spec => EndAgrees`, for any number of agents and a status without
  warnings, where there are no deny patterns: a yes does not lift a pattern, so a denied path is flagged again, and should
  be. The invariant is `YesIsScope`: what was in scope at the launch and what the user
  said yes to is in the memory the session end decides by, whichever handler wrote it
  last; and a path is within itself.

`BranchfsDriverProofs` (assuming `DriverAssumption`), for any number of processes and
every timeout, also zero:

- `TypeCorrect` and `CallsReturn`: `Spec => []TypeOK` and `Spec => []CallBounded`, by one
  invariant. The bound needs what a call can have spent at each step (`Timely`): the
  CLI's own wait counts towards the deadline of the polling, and a sleep begins before
  it. The types need it too: a sleep of one tick fits into `0 .. Timeout` only because no
  sleep begins when the timeout is zero.
- `LateFound`: `Spec => LateDaemonFound`: of all steps only the last look at the socket
  ends a call that is polling.
- `DaemonReady`: `Spec => []DaemonThere`. Inductive with the types: whatever takes the
  daemon away marks every call under way (`ExitsMarks`), and a call comes to its
  operation only from a look that found the daemon ready (`InvokedReady`).
- `AbortLeavesNothing`: `Spec => []AbortTruthful`: a branch that is gone stays gone
  (`GoneForGood`), and only the three places where it is gone answer an abort.

`PolicyPathsProofs`, for every path and alias map:

- `NormalizeIsPlain` and `NormalizeIdempotent`: `normalize` leaves no empty segment, `.`
  or `..`, and normalizing again changes nothing. They are inductions over a path,
  done with the least counterexample (`LeastNumber`), because a theorem that takes an
  operator as a parameter cannot be used.
- `CanonicalIsPlain` and `CanonicalBelow`: `AliasMap.canonicalize` makes a plain path, and
  going below a root commutes with it, unless an alias stands for something below the root
  (`NoAliasBelow`): then a part of the root is somewhere else.

`DeliveryProofs` (assuming `DeliveryAssumption`: a finite tree of plain paths, and
well-formed roots, scopes, patterns and names), for every tree, policy, alias map, set of
edits and order of the changes. All of them rest on `TreeInv`, which is inductive
(`TreeStep`): besides the types, that what the agent sees and what is real are trees
(`Rooted`, `BaseIsTree`), that a tombstone hides nothing of the branch (`Hidden`), and that
a loop has only changes of the status left to copy. The branch does not change while a
loop copies, and no copy makes or hides a change (`ChangesFrozen`).

- `TypeCorrect`: `Spec => []TypeOK`.
- `Delivered` and `ChosenIsDelivered`: `Spec => []Delivers`,
  `Spec => []ChosenDelivered`, of the paths that keep their kind and that no replaced link
  leads to (`Plain`). `AllSettled` is the loop invariant: each path is in the
  base as the agent saw it, or is still to be copied, or cannot be (`Unmade`). A
  copy settles its own path (`CopySettles`) and unsettles no other (`TouchedSettles`): the
  directories it makes on the way are the agent's, and a directory it removes has nothing
  left that the agent sees. A copy that goes through a link (`LedCases`, `LandingCases`)
  lands on a path that is not plain, because the link was replaced (`PlainBeyond`).
- `NothingIsOverlooked`: `Spec => []NothingOverlooked`. Of a directory that the status leaves
  out as structural there is always a deepest entry below it (`LastListed`, by
  well-foundedness), which is looked at or ignored.
- `SpellingIsIrrelevant`: `Spec => []SpellingIrrelevant`, for spellings that mean the same
  (`SameMeaning`). It follows from `CanonicalBelow`.
- `DiffShows`: `Spec => []DiffShowsChosen`, where no alias stands for a part of the root.
- `OnlyAllowedIsTouched`: `Spec => []OnlyAllowedTouched`, for a root spelled canonically
  (`CanonicalRoot`), because an absolute ignore pattern is matched with the path as the
  status spells it, and `NoneDoubled`. `TouchInv` adds that a loop without an operator has
  only allowed changes left, and that a copy makes no links (`LinksStart`); so a copy through one lands where `Through` says
  (`CopyExcused`), and what was excused stays so (`ExcusedStays`). Where a file
  is allowed, the directories a copy makes on the way to it are (`AllowedAbove`): a
  pattern that matches a directory matches what is below it, and a directory above a
  scope is in scope.

TLC evaluates `SameMeaning`, `CanonicalRoot` and `NoneDoubled` for the instance of the run
(`MCConfiguration`), so it shows that they can hold together.

`HookLoopProofs` (assuming `HookAssumption`, and `FilesSuffice`, that there are more
files than processes), for any agents and any repair budget:

- `HookTypeCorrect`: `Spec => []TypeOK`. A save takes an unused file, so it needs that
  there is one: no assignment of files to processes covers all of them
  (`SomeFileLeft`), and only a command that writes has one open (`Apart`).
- `RecordStaysReadable` and `RepairsStayBounded`: `Spec => []RecordReadable` and
  `Spec => []RepairsBounded`, by one invariant, `HookInv`. Until commands overlap one
  command is at work (`Solo`); its temporary file is empty until it writes, and then holds
  its session (`Saving`), so a rename puts a whole record in place. A running session
  counts every blocked stop (`Counts`), and a verdict that will block one has been counted
  before it is saved (`Counted`). The supervisor's save at the end can forget repairs,
  but the record does not say "running" then, which the check asks for, and a resume
  begins a new launch.

`SandboxProofs` (assuming `SandboxAssumption`: the host is a finite tree of canonical
paths, the root stays, and binds, masks and aliases are well-formed), for every host,
every list of binds, masks and links, and every number of resumes:

- `TypeCorrect`: `Spec => []TypeOK`. That what bwrap makes in the branch lies below the
  root is not inductive by itself: `SandboxInv` adds that the root is a directory
  (so it is never made), that each mount of the view is of the root or below it
  (`ViewMounts`), and that a launch under way has a mount left. `CommandIn` says what the
  command line can consist of, bind by bind, and `MakesGrows` what making directories
  changes: nothing becomes or stops being a link.
- `OnlyStateIsBypassed`: `Spec => []OnlyStateBypasses`, assuming `StateKept` (a state
  directory that is a link leads to something named like state; the code binds it wherever
  it leads). Links stay those of the configuration (`OfConfig`), whatever
  directories others make and remove between the steps of a launch. So all the mounts
  of every command line that lead to the host and are writable lead into the agent's state
  (`StateMounts`), and what is below one does too (`StateBelow`).
- `PluginStaysTrusted`: `Spec => []PluginTrusted`, assuming `StateKept` and `PluginApart`
  (the plugin's source is not in the agent's state, and no link leads to a directory
  that the plugin's place is in). Mounting could make a source that was missing, or change
  where the place leads; `PluginInv` says that until it is mounted the plugin is the last
  mount to make, and then the last one made, at the place as it leads now. `PluginStays`
  and `PluginInPlace` say why neither happens.

- `LaunchesSucceed`: `Spec => []LaunchSucceeds`, assuming `ViewsApart` (no link on the way
  to the root and the home), `LinksShown` (where a bind lies over the way to something
  that is mounted on, it shows the host's links there) and `ReadOnlyWhole` (what is bound
  read-only has the places below it that are mounted on). `LaunchOf` says that all that
  is mounted, or will be, is of the configuration, has its source on the host, and is
  mounted where it is spelled or where a link on the way leads; and that the host only
  grows. So on the way to a mount only the host's links are seen, and what is missing
  is at a place that can be written (`WaySeen`, `NextCanMount`).
- `StateStaysShared`: `Spec => []StateShared`, assuming besides `StateInSight` (the way to
  the agent's state is in the views, and nothing but the same state is mounted over it)
  and `StateApart` (no state directory in another one). `SharedOf` says that the views and
  all the state that is due are mounted or still to be, the views first. Mounting makes
  no new source of state (`SourcesStay`), so nothing becomes due that was not on the
  command line.
- `PlumbingStaysIgnored`: `Spec => []PlumbingIgnored`, assuming besides `HostWhole` (the host
  is a tree, with the home in it), `PlumbingSeated` (what is mounted on is there, or in
  the agent's state, or at a path that the ignore list gets, with no link on the way) and
  `AssetsApart` (a launch does not make the source of a runtime or plugin that the session
  did not see). That every directory made is on the way to an ignored one
  (`MadeIgnored`) is inductive only with the order of the mounts: a mount that has nothing
  to be mounted on comes after the views and the agent's state (`Plumbed`), so by then the
  links on its way are those the ignore list was made from (`SightReal`) and what is in
  the agent's state does not lead to the branch (`CoveredPlace`). A directory in the
  middle can have been covered by a later view; on the way to each mount there is what
  the view before showed (`OnTheWay`). `PlumbOf` has all of this.

TLC evaluates these assumptions for the instance of the run (`MCConfiguration`), all of
them together. The last three theorems are about the launches of one session that nobody
else disturbs, as the properties are.

Only model-checked: liveness (`SupervisorSettles`, `AbortCloses`, `HookReturns`, `LetGo`,
`AbortRepeats`), which rests on fairness and is out of the prover's reach. Of
`SupervisorSettles` the half that is not liveness is `SettledLeft`.

## 5. Plan

Done: the session with all its commands, the per-turn channel, the hook loop with
`save()` in steps, the path algebra, the delivery of files and the names of changes, the
sandbox, the driver, and the two ledgers, and a theorem for every safety property that a
run checks. Left, in this order:

1. The launch of a wrapped agent: shims and the nested run (`setup.py`,
   `ccc-agent-shim.sh`, `runner.py` 993-1003).
2. Several sessions over one store, whose daemon they share.

Not modelled, and not planned: `artifacts.py` (reports), the rest of `setup.py`, shell
completions and packaging (files written once), `FakeBranchFS` (a test double), a daemon
that crashes after it has booted, `softsandbox.sh`, diagnostics in
`scripts/`, and writers of the base other than this session. Batch commit and abort
run the single commands one after the other, which `AgentSession` covers.
