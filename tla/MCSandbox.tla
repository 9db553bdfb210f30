----------------------------- MODULE MCSandbox ------------------------------
(***************************************************************************)
(* Hosts for TLC: /home/u is /storage/u; the agent keeps .codex, which may  *)
(* be missing, a directory or a link, and .claude.json; in .codex there may *)
(* be plugins and a link to another state directory or to a project.  A     *)
(* runtime is bound into the home, a key is masked.                         *)
(***************************************************************************)
EXTENDS Sandbox

InHome(p) == <<"home", "u">> \o p
InStore(p) == <<"storage", "u">> \o p
codex == InStore(<<".codex">>)
plugins == InStore(<<".codex", "plugins">>)
cfg == InStore(<<".codex", "cfg">>)
json == InStore(<<".claude.json">>)
project == InStore(<<"project">>)
tools == InStore(<<"tools">>)
key == InStore(<<"key">>)
other == <<"storage", ".codex">>
otherCfg == <<"storage", ".codex", "cfg">>
runtime == <<"opt", "runtime">>
plugin == <<"opt", "plugin">>

Always == {<<"storage">>, <<"storage", "u">>, project, other, <<"opt">>, plugin}
MCPaths == Always \cup {codex, plugins, cfg, json, tools, key, otherCfg, runtime}

\* The host, but for what varies.
Host(vary) ==
    [p \in Paths |-> CASE p \in DOMAIN vary -> vary[p]
                       [] p \in Always      -> Dir
                       [] p = otherCfg      -> File
                       [] OTHER             -> None]
HostsWith(codexes, insides) ==
    {Host((codex :> c) @@ (plugins :> i[1]) @@ (cfg :> i[2]) @@ (json :> j)
          @@ (tools :> t) @@ (key :> k) @@ (runtime :> Dir)) :
       c \in codexes, i \in insides, j \in {None, File}, t \in {None, Dir}, k \in {None, File}}
Inside3 == {None, Dir} \X {None, Link(otherCfg), Link(project)}

\* A link in the place of a state directory that is protected, and a missing one
\* that is not made, are left out.
MCConfigs ==
    [host : HostsWith({Dir}, Inside3), protect : BOOLEAN, ensure : BOOLEAN]
    \cup [host : HostsWith({None}, {<<None, None>>}), protect : BOOLEAN, ensure : {TRUE}]
    \cup [host : HostsWith({Link(other)}, {<<None, None>>}), protect : {FALSE}, ensure : BOOLEAN]

MCAliases == {<< <<"home", "u">>, <<"storage", "u">> >>}
MCVisible == <<"storage">>
MCHome == <<"home", "u">>
MCHomeSubdir == <<"u">>
Same(p) == [src |-> p, dst |-> p]
MCSystemDirs == << Same(<<"opt">>) >>
MCStateBinds == << Same(InHome(<<".codex">>)), Same(InHome(<<".claude.json">>)) >>
MCStateNames == {".codex"}
MCStateFiles == {InHome(<<".claude.json">>)}
MCRuntimeState == {InHome(<<".claude.json">>)}
MCRuntimeBinds == << [src |-> runtime, dst |-> InHome(<<"tools", "runtime">>)],
                     Same(runtime) >>
MCMasks == << InHome(<<"key">>) >>
MCPlugin == [src |-> plugin, sandbox_path |-> InHome(<<".codex", "plugins", "ccc-agent">>),
             ensure_dirs |-> << InHome(<<".codex", "plugins">>) >>]
MCFickle == {runtime, codex}

\* What the theorems assume holds here.
ASSUME MCConfiguration ==
    StateKept /\ PluginApart /\ ViewsApart /\ LinksShown /\ ReadOnlyWhole
    /\ StateInSight /\ StateApart /\ HostWhole /\ PlumbingSeated /\ AssetsApart
=============================================================================
