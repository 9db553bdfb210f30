------------------------------ MODULE Sandbox -------------------------------
(***************************************************************************)
(* What the supervisor mounts around the agent (runner.py): the branch's    *)
(* view over the storage and the home, and over it the agent's own state,   *)
(* the runtime, masked secrets and the plugin, each of which may be missing *)
(* on the host or be a symbolic link.  bwrap makes the directories it needs *)
(* to mount on; those it makes in the view come back as changes, so the     *)
(* session ignores them.                                                    *)
(*                                                                          *)
(* One root, whose base is its visible path, and a home that is the same    *)
(* bytes as a directory of it (setup.py, system mode).  A path is absolute  *)
(* and spelled as in PolicyPaths; on the host and in the view it stands for *)
(* its canonical spelling.  /proc, /dev, /tmp, /run, the control socket and *)
(* the environment lie outside of the views and are left out.               *)
(***************************************************************************)
EXTENDS PolicyPaths

CONSTANTS
    Paths,         \* canonical paths on the host
    Configs,       \* launches: [host, protect, ensure]
    Aliases,       \* AliasMap, and where the host has the same bytes twice
    Visible,       \* the root
    Home,          \* /home/<owner>
    HomeSubdir,    \* of the root
    SystemDirs,    \* what is bound read-only below the view
    StateBinds,    \* agent_state_binds, as a sequence of [src, dst]
    StateNames,    \* AGENT_STATE_DIRS
    StateFiles,    \* entries of StateBinds that are files
    RuntimeState,  \* what the agent's runtime keeps in the home
    RuntimeBinds,  \* bwrap_ro_binds and cred_mounts, as a sequence of [src, dst]
    Masks,         \* cred_mask, as a sequence of paths
    Plugin,        \* [src, sandbox_path, ensure_dirs]
    Fickle,        \* host directories that others make and remove
    MaxChanges,    \* bounds how often
    MaxResumes     \* bounds the resumes

Dir == [kind |-> "dir"]
None == [kind |-> "none"]
File == [kind |-> "file"]
Link(t) == [kind |-> "link", to |-> t]
Nodes == {None, Dir, File} \cup {Link(t) : t \in Paths}

Canonical(p) == Canonicalize(Aliases, p)

Binds == [src : RawPaths, dst : RawPaths]
Mounts == [op : {"bind", "dir"}, via : {"view", "host", "null", "none"},
           path : RawPaths, dst : RawPaths, rw : BOOLEAN]

ASSUME SandboxAssumption ==
    /\ MaxChanges \in Nat /\ MaxResumes \in Nat
    \* The host is a tree of canonical paths, and the root is there to stay.
    /\ Paths \subseteq PlainPaths /\ IsFiniteSet(Paths) /\ Visible \in Paths
    /\ \A p \in Paths : Canonical(p) = p /\ Prefixes(p) \ {<< >>} \subseteq Paths
    /\ Fickle \subseteq Paths \ {Visible}
    /\ \A c \in Configs : /\ c.host \in [Paths -> Nodes] /\ c.host[Visible] = Dir
                          /\ {c.protect, c.ensure} \subseteq BOOLEAN
    /\ PlainAliases(Aliases)
    /\ Home \in RawPaths /\ HomeSubdir \in RawPaths
    /\ {SystemDirs, StateBinds, RuntimeBinds} \subseteq Seq(Binds)
    /\ StateNames \subseteq Segments
    /\ StateFiles \cup RuntimeState \subseteq RawPaths
    /\ Masks \in Seq(RawPaths)
    /\ {Plugin.src, Plugin.sandbox_path} \subseteq RawPaths
    /\ Plugin.ensure_dirs \in Seq(RawPaths)
    \* A link does not lead through another one.
    /\ \A c \in Configs : \A p \in Paths : c.host[p].kind = "link" =>
          \A q \in Prefixes(c.host[p].to) \cap Paths : c.host[q].kind # "link"
    /\ Canonical(Home) = Visible \o HomeSubdir

VARIABLES
    host,     \* per path: what is there
    config,   \* protect_agent_state and ensure_agent_state_dirs
    ignore,   \* the paths the session ignores
    made,     \* directories that sandbox and agent made in the branch
    table,    \* the sandbox: the mounts, in their order
    todo,     \* the mounts bwrap has still to make
    phase, changes, resumes

vars == <<host, config, ignore, made, table, todo, phase, changes, resumes>>

-----------------------------------------------------------------------------
\* The host

NodeOn(files, p) == IF Canonical(p) \in Paths THEN files[Canonical(p)] ELSE None

\* Follow the link on the way to p, if there is one.
Followed(p, node) ==
    LET links == {q \in Prefixes(p) : node[q].kind = "link"}
    IN  IF links = {} THEN p
        ELSE LET q == CHOOSE l \in links : TRUE
             IN  node[q].to \o SubSeq(p, Len(q) + 1, Len(p))

RealOn(files, p) == Followed(p, [q \in Prefixes(p) |-> NodeOn(files, q)])

HostNode(p) == NodeOn(host, p)
HostReal(p) == RealOn(host, p)

\* Faulty variant: a bind whose source is missing is not skipped.
OptionalAlways(b) == << [src |-> HostReal(b.src), dst |-> HostReal(b.dst)] >>

\* _optional_ro_bind(), _optional_rw_agent_state_bind(): links are resolved on
\* the host, and what is missing is skipped.
Optional(b) ==
    LET src == HostReal(b.src)
        dst == HostReal(b.dst)
    IN  IF HostNode(src) # None /\ (dst # b.dst => HostNode(dst) # None)
        THEN << [src |-> src, dst |-> dst] >> ELSE << >>

\* _matched_agent_plugin(): no plugin without its source.
PluginThere == HostNode(HostReal(Plugin.src)) = Dir

-----------------------------------------------------------------------------
\* The ignore list of a session

Inside(path) == IsStrictPrefix(Canonical(Visible), path)
InStateHome(path) ==
    \E i \in DOMAIN StateBinds : IsWithin(path, Canonical(StateBinds[i].dst))

\* Faulty variant: a mount outside of the view is ignored too.
InfraIgnoresAnywhere(mount) ==
    {t \in {Canonical(mount)} : ~InStateHome(t) \/ config.protect}

\* Faulty variant: mounts are compared as they are spelled.
InfraIgnoresSpelled(mount) == {t \in {Normalize(mount)} : Inside(t)}

\* _infra_ignore_paths_for(): below the home every directory above the mount too.
InfraIgnores(mount) ==
    LET target == Canonical(mount)
    IN  CASE ~Inside(target) -> {}
          [] Inside(target) /\ InStateHome(target) -> {t \in {target} : config.protect}
          [] Inside(target) /\ ~InStateHome(target) ->
                {t \in Prefixes(target) : t = target \/ IsStrictPrefix(Canonical(Home), t)}

RuntimeIgnores ==
    {t \in {Canonical(p) : p \in RuntimeState} : ~config.protect /\ Inside(t)}

PluginDirs ==
    IF PluginThere THEN Range(Plugin.ensure_dirs) \cup {Plugin.sandbox_path} ELSE {}

\* _add_session_infra_ignores()
SessionIgnores ==
    LET bound == UNION {Range(Optional(b)) : b \in Range(RuntimeBinds)}
        masked == {m \in Range(Masks) : HostNode(HostReal(m)) # None}
    IN  RuntimeIgnores
        \cup UNION {InfraIgnores(m) : m \in {b.dst : b \in bound} \cup masked \cup PluginDirs}

-----------------------------------------------------------------------------
\* The command line of bwrap

Bind(via, path, dst, rw) ==
    [op |-> "bind", via |-> via, path |-> path, dst |-> dst, rw |-> rw]
MakeDir(dst) ==
    [op |-> "dir", via |-> "none", path |-> << >>, dst |-> dst, rw |-> FALSE]

HostBinds(binds, rw) ==
    [i \in DOMAIN binds |-> Bind("host", Canonical(binds[i].src), binds[i].dst, rw)]
OptionalBinds(binds, rw) ==
    HostBinds(FlattenSeq([i \in DOMAIN binds |-> Optional(binds[i])]), rw)

\* Links in the directories of the agent's state, each with the bind.
StateLinks ==
    {x \in Range(StateBinds) \X {p \in Paths : host[p].kind = "link"} :
        IsStrictPrefix(Canonical(HostReal(x[1].src)), x[2])}

\* _agent_state_symlink_target_dir(): the state directory a link leads into.
TargetDirs(link) ==
    {t \in Prefixes(host[link].to) \ {<< >>} : Last(t) \in StateNames /\ HostNode(t) = Dir}

\* Faulty variant: whatever a link leads to is bound.
LinkedStateAny == {host[x[2]].to : x \in StateLinks}

\* _shared_agent_state_symlink_target_binds()
LinkedState == UNION {TargetDirs(x[2]) \ {HostReal(x[1].src)} : x \in StateLinks}

\* Faulty variant: what links in the agent's state lead to is not bound.
SharedStateUnlinked == IF config.protect THEN << >> ELSE OptionalBinds(StateBinds, TRUE)

\* _append_shared_agent_state_binds()
SharedState ==
    LET linked == SetToSeq(LinkedState)
    IN  IF config.protect THEN << >>
        ELSE OptionalBinds(StateBinds, TRUE)
             \o HostBinds([i \in DOMAIN linked |-> [src |-> linked[i], dst |-> linked[i]]], TRUE)

Views == << Bind("view", Visible, Canonical(Visible), TRUE),
            Bind("view", Visible \o HomeSubdir, Home, TRUE) >>

MaskBinds ==
    FlattenSeq([i \in DOMAIN Masks |->
                   IF HostNode(HostReal(Masks[i])) = None THEN << >>
                   ELSE << Bind("null", << >>, Masks[i], FALSE) >>])

\* _append_agent_plugin_binds()
PluginBinds ==
    IF ~PluginThere THEN << >>
    ELSE [i \in DOMAIN Plugin.ensure_dirs |-> MakeDir(Plugin.ensure_dirs[i])]
         \o << Bind("host", Canonical(HostReal(Plugin.src)), Plugin.sandbox_path, FALSE) >>

\* Faulty variant: the plugin is mounted before the agent's state.
CommandPluginFirst ==
    HostBinds(SystemDirs, FALSE) \o Views \o PluginBinds \o SharedState
    \o OptionalBinds(RuntimeBinds, FALSE) \o MaskBinds

\* _bwrap_command(): a later mount hides what is below it.
Command ==
    HostBinds(SystemDirs, FALSE) \o Views \o SharedState
    \o OptionalBinds(RuntimeBinds, FALSE) \o MaskBinds \o PluginBinds

-----------------------------------------------------------------------------
\* The sandbox, as bwrap sets it up

\* Where a path of the sandbox leads, with the mounts made so far.
Place(p) ==
    LET over == {i \in DOMAIN table : IsPrefix(table[i].dst, p)}
        top == table[Max(over)]
    IN  IF over = {} THEN [via |-> "root", path |-> p, rw |-> TRUE]
        ELSE [via |-> top.via, rw |-> top.rw,
              path |-> top.path \o SubSeq(p, Len(top.dst) + 1, Len(p))]

\* The branch inherits what the base has.
NodeAt(place) ==
    CASE place.via = "root" -> None
      [] place.via = "null" -> File
      [] place.via = "view" /\ place.path \in made -> Dir
      [] OTHER -> IF place.path \in Paths THEN host[place.path] ELSE None

SandboxNode(p) == NodeAt(Place(p))
SandboxReal(p) == Followed(p, [q \in Prefixes(p) |-> SandboxNode(q)])

\* The places bwrap has to make for something to be at a path.
Missing(path) ==
    {Place(q) : q \in {p \in Prefixes(path) \ {<< >>} : SandboxNode(p) = None}}

Makes(places) ==
    /\ made' = made \cup {m.path : m \in {n \in places : n.via = "view"}}
    /\ host' = [p \in Paths |-> IF \E m \in places : m.via = "host" /\ m.path = p
                               THEN Dir ELSE host[p]]

CanMount(op) ==
    /\ op.via = "host" => op.path \in Paths /\ host[op.path] # None
    /\ \A m \in Missing(SandboxReal(op.dst)) : m.rw

-----------------------------------------------------------------------------
Init ==
    /\ \E c \in Configs : /\ host = c.host
                          /\ config = [protect |-> c.protect, ensure |-> c.ensure]
    /\ ignore = {}
    /\ made = {}
    /\ table = << >>
    /\ todo = << >>
    /\ phase = "new"
    /\ changes = 0
    /\ resumes = 0

\* run_session: the ignore list is made once, and kept for every resume.
CreateSession ==
    /\ phase = "new"
    /\ ignore' = SessionIgnores
    /\ phase' = "created"
    /\ UNCHANGED <<host, config, made, table, todo, changes, resumes>>

\* _ensure_shared_agent_state_dirs(): os.makedirs makes what is above too.
Ensured ==
    UNION {Prefixes(Canonical(HostReal(b.src))) :
              b \in {c \in Range(StateBinds) : c.src \notin StateFiles}}

\* The branch exists and is mounted.
Prepare ==
    /\ phase \in {"created", "resumed"}
    /\ host' = [p \in Paths |-> IF host[p] = None /\ p \in Ensured
                                  /\ config.ensure /\ ~config.protect
                               THEN Dir ELSE host[p]]
    /\ phase' = "mounted"
    /\ UNCHANGED <<config, ignore, made, table, todo, changes, resumes>>

Launch ==
    /\ phase = "mounted"
    /\ todo' = Command
    /\ phase' = "launching"
    /\ UNCHANGED <<host, config, ignore, made, table, changes, resumes>>

MountNext ==
    /\ phase = "launching"
    /\ LET op == Head(todo)
           dst == SandboxReal(op.dst)
       IN  /\ CanMount(op)
           /\ Makes(Missing(dst))
           /\ table' = IF op.op = "dir" THEN table
                       ELSE Append(table, [op EXCEPT !.dst = dst])
    /\ todo' = Tail(todo)
    /\ phase' = IF Len(todo) = 1 THEN "running" ELSE phase
    /\ UNCHANGED <<config, ignore, changes, resumes>>

\* bwrap exits, and the session goes on to its end.
MountFails ==
    /\ phase = "launching"
    /\ ~CanMount(Head(todo))
    /\ phase' = "failed"
    /\ UNCHANGED <<host, config, ignore, made, table, todo, changes, resumes>>

\* The agent's runtime makes what it keeps in the home.  (In a protected home that
\* is work to be reviewed.)
KeepState(p) ==
    /\ phase = "running" /\ ~config.protect
    /\ SandboxNode(SandboxReal(p)) = None
    /\ \A m \in Missing(SandboxReal(p)) : m.rw
    /\ Makes(Missing(SandboxReal(p)))
    /\ UNCHANGED <<config, ignore, table, todo, phase, changes, resumes>>

\* A reboot, and `ccc-agent resume`.
Resume ==
    /\ phase \in {"mounted", "launching", "running"}
    /\ resumes < MaxResumes
    /\ phase' = "resumed"
    /\ table' = << >>
    /\ todo' = << >>
    /\ resumes' = resumes + 1
    /\ UNCHANGED <<host, config, ignore, made, changes>>

\* Somebody else makes or removes an empty directory of the host.
HostChanges(p) ==
    /\ changes < MaxChanges
    /\ \/ host[p] = None /\ host' = [host EXCEPT ![p] = Dir]
       \/ /\ host[p] = Dir /\ host' = [host EXCEPT ![p] = None]
          /\ \A q \in Paths : IsStrictPrefix(p, q) => host[q] = None
    /\ changes' = changes + 1
    /\ UNCHANGED <<config, ignore, made, table, todo, phase, resumes>>

Next ==
    \/ CreateSession \/ Prepare \/ Launch \/ MountNext \/ MountFails \/ Resume
    \/ \E p \in RuntimeState : KeepState(p)
    \/ \E p \in Fickle : HostChanges(p)

Spec == Init /\ [][Next]_vars

-----------------------------------------------------------------------------
TypeOK ==
    /\ host \in [Paths -> Nodes]
    /\ config \in [protect : BOOLEAN, ensure : BOOLEAN]
    /\ \A p \in ignore \cup made : IsStrictPrefix(Visible, p)
    /\ table \in Seq(Mounts) /\ todo \in Seq(Mounts)
    /\ phase \in {"new", "created", "mounted", "launching", "running", "resumed", "failed"}
    /\ changes \in 0 .. MaxChanges
    /\ resumes \in 0 .. MaxResumes

\* What others do to the host between the steps of a launch, or between two
\* launches, is not the supervisor's to repair.
Undisturbed == changes = 0

\* The directories that are made to mount on, and what the agent's runtime keeps
\* in a home that is not protected, never reach a review, however mounts are
\* spelled, through a reboot and a resume too (docs/policy.md: "those mountpoint
\* deltas are treated as infrastructure and ignored").
PlumbingIgnored ==
    Undisturbed =>
       FilterIgnored({[path |-> p] : p \in {m \in made : ~\E q \in made : IsStrictPrefix(m, q)}},
                     {[absolute |-> TRUE, segments |-> p] : p \in ignore}, Aliases) = {}

\* A launch does not fail for what is missing on the host.
LaunchSucceeds == Undisturbed => phase # "failed"

\* In the sandbox the agent's state is the host's, writable, also where a link
\* leads from one state directory into another (runner.py: "following that
\* symlink reaches the protected view unless the target is also rebound").
StateShared ==
    (phase = "running" /\ ~config.protect /\ Undisturbed) =>
       \A b \in Range(StateBinds) :
          HostNode(HostReal(b.src)) \in {Dir, File} =>
             /\ Place(SandboxReal(b.dst)) =
                   [via |-> "host", path |-> Canonical(HostReal(b.src)), rw |-> TRUE]
             /\ \A x \in StateLinks : TargetDirs(x[2]) # {} =>
                   Place(host[x[2]].to).via = "host"

\* In the agent's own state.
StatePath(path) ==
    \E q \in Prefixes(path) \ {<< >>} :
       Last(q) \in StateNames \/ q \in {Canonical(f) : f \in StateFiles}

\* How the home spells a path.
AtHome(p) == Home \o SubSeq(p, Len(Canonical(Home)) + 1, Len(p))

\* Everything else the agent can write goes to the branch: no path leads to the
\* real storage, writable, but to the agent's state, whatever changes on the host
\* meanwhile (runner.py: "the --bind overlays (and thus hides) the real
\* underlay").
OnlyStateBypasses ==
    \A p \in Paths \cup {AtHome(q) : q \in {r \in Paths : IsPrefix(Canonical(Home), r)}} :
       (phase = "running" /\ Place(p).via = "host" /\ Place(p).rw) =>
          ~config.protect /\ StatePath(Place(p).path)

\* The agent loads the trusted plugin and cannot change it, although its place
\* may be in a directory the agent writes to (runner.py: "so trusted CCC assets
\* still override any writable user/plugin state").
PluginTrusted ==
    (phase = "running" /\ Undisturbed /\ PluginThere) =>
       Place(SandboxReal(Plugin.sandbox_path)) =
          [via |-> "host", path |-> Canonical(HostReal(Plugin.src)), rw |-> FALSE]

-----------------------------------------------------------------------------
\* What theorems assume of a configuration.

\* Two sets of nodes with the same links.
SameLinks(S, old, new) ==
    \A q \in S : (old[q].kind = "link" \/ new[q].kind = "link") => new[q] = old[q]

\* The agent's state leads, if it is a link, to something named like state.
StateKept ==
    \A c \in Configs : ~c.protect =>
       \A b \in Range(StateBinds) : StatePath(Canonical(RealOn(c.host, b.src)))

\* The plugin's source is not in the agent's state, and no link leads to a
\* directory that the plugin's place is in, as it is spelled.
PluginApart ==
    \A c \in Configs :
       /\ ~c.protect => ~StatePath(Canonical(RealOn(c.host, Plugin.src)))
       /\ \A p \in Paths : c.host[p].kind = "link" =>
             ~IsPrefix(c.host[p].to, Plugin.sandbox_path)

\* The binds of a launch as the host's links resolve them: those of the agent's
\* state, of what links in it may lead to, and the read-only ones.
LinkTargets(c) ==
    UNION {{t \in Prefixes(c.host[p].to) \ {<< >>} : Last(t) \in StateNames} :
              p \in {q \in Paths : c.host[q].kind = "link"}}
Resolved(c, b, rw) ==
    Bind("host", Canonical(RealOn(c.host, b.src)), RealOn(c.host, b.dst), rw)
StateBound(c) ==
    {Resolved(c, b, TRUE) : b \in {x \in Range(StateBinds) : ~c.protect}}
    \cup {Bind("host", t, t, TRUE) : t \in {x \in LinkTargets(c) : ~c.protect}}
ReadBound(c) ==
    {Bind("host", Canonical(b.src), b.dst, FALSE) : b \in Range(SystemDirs)}
    \cup {Resolved(c, b, FALSE) : b \in Range(RuntimeBinds)}
    \cup {Bind("host", Canonical(RealOn(c.host, Plugin.src)), Plugin.sandbox_path, FALSE)}

\* All that is mounted on, and how the agent's state is spelled.
Places(c) ==
    {m.dst : m \in StateBound(c) \cup ReadBound(c)} \cup {Visible, Home}
    \cup {b.dst : b \in Range(StateBinds)} \cup RuntimeState
    \cup Range(Masks) \cup Range(Plugin.ensure_dirs)

\* Where a path may lead: as it is spelled, or along one of the links on the way.
Led(files, p) ==
    {p} \cup {NodeOn(files, q).to \o SubSeq(p, Len(q) + 1, Len(p)) :
                 q \in {r \in Prefixes(p) : NodeOn(files, r).kind = "link"}}

\* What a bind made at dst shows at a path below.
Shown(c, m, dst, q) ==
    LET path == m.path \o SubSeq(q, Len(dst) + 1, Len(q))
    IN  IF path \in Paths THEN c.host[path] ELSE None

\* The links on the way to a path are in the views, and not masked.
InSight(c, p) ==
    \A q \in Prefixes(p) : NodeOn(c.host, q).kind = "link" =>
       /\ IsPrefix(Visible, q) \/ IsPrefix(Home, q)
       /\ \A m \in Range(Masks) : \A dst \in Led(c.host, m) : ~IsPrefix(dst, q)

\* A path is in a state directory that is there, or made for the launch.
Covered(c, p) ==
    \E b \in Range(StateBinds) :
       LET state == Resolved(c, b, TRUE)
       IN  /\ ~c.protect /\ state.path \in Paths
           /\ c.host[state.path] # None \/ (c.ensure /\ b.src \notin StateFiles)
           /\ IsPrefix(state.dst, p)

\* Where a path leads there is something, or a state directory around it, or nothing
\* on the way is a link and the session ignores the path.
Seated(c, p, ignored) ==
    LET real == RealOn(c.host, p)
    IN  /\ InSight(c, p)
        /\ NodeOn(c.host, real) # None \/ Covered(c, real) \/ (real = p /\ ignored)

\* The root and the home are where they are spelled, and so is all below them.
ViewsApart ==
    /\ Home \in PlainPaths
    /\ NoAliasBelow(Aliases, Visible) /\ NoAliasBelow(Aliases, Home)
    /\ \A c \in Configs : \A q \in Prefixes(Visible) \cup Prefixes(Home) :
          NodeOn(c.host, q).kind # "link"

\* On the way to what is mounted on, binds show the links of the host.
LinksShown ==
    \A c \in Configs :
       /\ Places(c) \subseteq PlainPaths
       /\ \A m \in StateBound(c) \cup ReadBound(c), d \in Places(c) :
          \A dst \in Led(c.host, m.dst), e \in Led(c.host, d) :
             SameLinks({q \in Prefixes(e) : IsPrefix(dst, q)},
                       [q \in Prefixes(e) |-> NodeOn(c.host, q)],
                       [q \in Prefixes(e) |-> Shown(c, m, dst, q)])

\* What the system's directories are bound from is there, and so is, in what is
\* bound read-only, all that is mounted on.
ReadOnlyWhole ==
    \A c \in Configs :
       /\ \A b \in Range(SystemDirs) : NodeOn(c.host, b.src) # None
       /\ \A m \in ReadBound(c), d \in Places(c) :
          \A dst \in Led(c.host, m.dst), e \in Led(c.host, d) : \A q \in Prefixes(e) :
             IsStrictPrefix(dst, q) => Shown(c, m, dst, q) # None

\* Where the agent's state is mounted there is no link on the way, those on the way
\* to where it is spelled are in the views, and nothing is mounted over it but, with
\* the same content, other state.
StateInSight ==
    \A c \in Configs : ~c.protect => \A b \in Range(StateBinds) :
       LET state == Resolved(c, b, TRUE) IN
       /\ \A q \in Prefixes(state.dst) : NodeOn(c.host, q).kind # "link"
       /\ InSight(c, b.dst)
       /\ b.src = b.dst \/ state.dst = b.dst \/ NodeOn(c.host, state.dst) # None
       /\ \A m \in StateBound(c) : \A dst \in Led(c.host, m.dst) :
             IsPrefix(dst, state.dst) =>
                m.path \o SubSeq(state.dst, Len(dst) + 1, Len(state.dst)) = state.path
       /\ \A m \in ReadBound(c) : \A dst \in Led(c.host, m.dst) :
             ~IsPrefix(dst, state.dst)
       /\ \A p \in Range(Masks) : \A dst \in Led(c.host, p) : ~IsPrefix(dst, state.dst)

\* No state directory is in another one, none is mounted elsewhere than the links in
\* it say, and nothing is masked where they lead.
StateApart ==
    \A c \in Configs : ~c.protect =>
       /\ \A m, n \in StateBound(c) : ~IsStrictPrefix(m.path, n.path)
       /\ \A l \in {c.host[p].to : p \in {q \in Paths : c.host[q].kind = "link"}} :
             /\ \A b \in Range(StateBinds) :
                   IsPrefix(RealOn(c.host, b.src), l) => IsPrefix(RealOn(c.host, b.dst), l)
             /\ \A p \in Range(Masks) : \A dst \in Led(c.host, p) : ~IsPrefix(dst, l)

\* The host is a tree, with the home in it.
HostWhole ==
    \A c \in Configs :
       /\ \A p \in Paths : c.host[p] # None =>
             \A q \in Prefixes(p) \ {<< >>} : c.host[q] # None
       /\ NodeOn(c.host, Home) # None

\* What bwrap has to make for a mount is on the host, in the agent's state, or known
\* to the session: a place the configuration names, with no link on the way to it.
PlumbingSeated ==
    \A c \in Configs :
       LET known(p) == c.protect \/ ~InStateHome(Canonical(p)) IN
       /\ \A b \in Range(SystemDirs) : \A dst \in Led(c.host, b.dst) :
             NodeOn(c.host, dst) # None
       /\ ~c.protect => \A b \in Range(StateBinds) :
             b.src = b.dst \/ NodeOn(c.host, RealOn(c.host, b.dst)) # None
       /\ \A b \in Range(RuntimeBinds) : NodeOn(c.host, RealOn(c.host, b.src)) # None =>
             Seated(c, RealOn(c.host, b.dst), known(RealOn(c.host, b.dst)))
       /\ \A m \in Range(Masks) : InSight(c, m)
       /\ NodeOn(c.host, RealOn(c.host, Plugin.src)) = Dir =>
             \A p \in Range(Plugin.ensure_dirs) \cup {Plugin.sandbox_path} :
                Seated(c, p, known(p))
       /\ ~c.protect => \A p \in RuntimeState : Seated(c, p, TRUE)

\* What the host lacks of the runtime and the plugin is not made with the agent's state.
AssetsApart ==
    \A c \in Configs : ~c.protect =>
       \A src \in {b.src : b \in Range(RuntimeBinds)} \cup {Plugin.src} :
          LET path == Canonical(RealOn(c.host, src)) IN
          (path \in Paths /\ c.host[path] = None) =>
             \A m \in StateBound(c) : ~IsPrefix(m.path, path) /\ ~IsPrefix(path, m.path)
=============================================================================
