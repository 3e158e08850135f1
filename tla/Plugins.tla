--------------------------------- MODULE Plugins --------------------------------
(***************************************************************************)
(* The plugins of a process, src/plugins/manager.ts over                   *)
(* src/plugins/loader.ts: calls that overlap, since loading a module and   *)
(* running a plugin's own hooks are awaited, and hooks that fail.          *)
(*                                                                         *)
(* What is registered is an instance: every load makes a new one, and two  *)
(* instances may have the same name in their manifests.                    *)
(***************************************************************************)
EXTENDS Integers, Sequences, FiniteSets

CONSTANTS
  PluginNames,
  Instances,    \* what the loader may load, each once
  ManifestOf,   \* the name in the manifest of each
  Users,        \* who calls the manager
  NoPlugin,
  MaxHooks      \* bound on the hooks of an instance

ASSUME PluginAssumption ==
  ManifestOf \in [Instances -> PluginNames] /\ NoPlugin \notin Instances

VARIABLES
  plugins,    \* the Map, by name
  status,     \* of each instance, "none" before it is loaded
  hooks,      \* the hooks each instance has been called with, in order
  ujob,       \* the call of each user
  bidden,     \* the instances whose onUninstall has returned
  crossed     \* two uninstalls of one name have overlapped

pluginVars == <<plugins, status, hooks, ujob, bidden, crossed>>

Free == [pc |-> "idle", kind |-> "none", name |-> NoPlugin, inst |-> NoPlugin, left |-> <<>>]

UAt(u, point) == ujob[u].pc = point
UEnd(u) == ujob' = [ujob EXCEPT ![u] = Free]
Fresh(i) == status[i] = "none"
IsRegistered(i) == plugins[ManifestOf[i]] # NoPlugin

\* invokeHook: the call waits for the plugin.
Invoke(u, i, hook, job) ==
  /\ Len(hooks[i]) < MaxHooks
  /\ hooks' = [hooks EXCEPT ![i] = Append(@, hook)]
  /\ ujob' = [ujob EXCEPT ![u] = [job EXCEPT !.pc = "hook", !.inst = i]]

--------------------------------------------------------------------------------

\* install and installPackage: the module is imported first.
Install(u, name) ==
  /\ UAt(u, "idle")
  /\ ujob' = [ujob EXCEPT ![u] = [Free EXCEPT !.pc = "loading", !.kind = "install", !.name = name]]
  /\ UNCHANGED <<plugins, status, hooks, bidden, crossed>>

\* No manifest, no entry point, or an error of the module.
LoadFails(u) ==
  /\ UAt(u, "loading")
  /\ UEnd(u)
  /\ UNCHANGED <<plugins, status, hooks, bidden, crossed>>

\* Mutant: whether the name is free was asked before the module was loaded.
LoadedUnchecked(u, i) ==
  /\ UAt(u, "loading") /\ ujob[u].kind = "install"
  /\ Fresh(i) /\ ManifestOf[i] = ujob[u].name
  /\ status' = [status EXCEPT ![i] = "installed"]
  /\ plugins' = [plugins EXCEPT ![ujob[u].name] = i]
  /\ Invoke(u, i, "onInstall", ujob[u])
  /\ UNCHANGED <<bidden, crossed>>

\* The instance is there: refused if its name is taken by now.
Loaded(u, i) ==
  /\ UAt(u, "loading") /\ ujob[u].kind = "install"
  /\ Fresh(i) /\ ManifestOf[i] = ujob[u].name
  /\ status' = [status EXCEPT ![i] = "installed"]
  /\ IF IsRegistered(i)
     THEN UEnd(u) /\ UNCHANGED <<plugins, hooks>>
     ELSE /\ plugins' = [plugins EXCEPT ![ujob[u].name] = i]
          /\ Invoke(u, i, "onInstall", ujob[u])
  /\ UNCHANGED <<bidden, crossed>>

\* discover reads a directory and loads what it finds.
Discover(u) ==
  /\ UAt(u, "idle")
  /\ ujob' = [ujob EXCEPT ![u] = [Free EXCEPT !.pc = "loading", !.kind = "discover"]]
  /\ UNCHANGED <<plugins, status, hooks, bidden, crossed>>

\* The first of those found whose name is free is registered; its hook is next.
RegisterNext(u, found) ==
  LET free == {k \in DOMAIN found : ~IsRegistered(found[k])}
  IN \/ /\ free = {}
        /\ UEnd(u) /\ UNCHANGED <<plugins, hooks>>
     \/ \E k \in free :
          /\ \A earlier \in free : k <= earlier
          /\ plugins' = [plugins EXCEPT ![ManifestOf[found[k]]] = found[k]]
          /\ Invoke(u, found[k], "onInstall",
                    [ujob[u] EXCEPT !.left = SubSeq(found, k + 1, Len(found))])

\* Two entries of the directory, or one that could be loaded.
Discovered(u, i, j) ==
  /\ UAt(u, "loading") /\ ujob[u].kind = "discover"
  /\ Fresh(i) /\ Fresh(j)
  /\ status' = [status EXCEPT ![i] = "installed", ![j] = "installed"]
  /\ RegisterNext(u, IF i = j THEN <<i>> ELSE <<i, j>>)
  /\ UNCHANGED <<bidden, crossed>>

\* Mutant: the status is set when the hook has returned, see HookEnds.
EnableLate(u, name) ==
  /\ UAt(u, "idle") /\ plugins[name] # NoPlugin
  /\ status[plugins[name]] # "enabled"
  /\ Invoke(u, plugins[name], "onEnable", [Free EXCEPT !.kind = "enable", !.name = name])
  /\ UNCHANGED <<plugins, status, bidden, crossed>>

\* The status is set before the hook is called, and stays if it fails.
Enable(u, name) ==
  /\ UAt(u, "idle") /\ plugins[name] # NoPlugin
  /\ status[plugins[name]] # "enabled"
  /\ status' = [status EXCEPT ![plugins[name]] = "enabled"]
  /\ Invoke(u, plugins[name], "onEnable", [Free EXCEPT !.kind = "enable", !.name = name])
  /\ UNCHANGED <<plugins, bidden, crossed>>

Disable(u, name) ==
  /\ UAt(u, "idle") /\ plugins[name] # NoPlugin
  /\ status[plugins[name]] # "disabled"
  /\ status' = [status EXCEPT ![plugins[name]] = "disabled"]
  /\ Invoke(u, plugins[name], "onDisable", [Free EXCEPT !.kind = "disable", !.name = name])
  /\ UNCHANGED <<plugins, bidden, crossed>>

\* The plugin is not disabled first.
Uninstall(u, name) ==
  /\ UAt(u, "idle") /\ plugins[name] # NoPlugin
  /\ crossed' = (crossed \/ \E other \in Users : ujob[other].kind = "uninstall" /\ ujob[other].name = name)
  /\ Invoke(u, plugins[name], "onUninstall", [Free EXCEPT !.kind = "uninstall", !.name = name])
  /\ UNCHANGED <<plugins, status, bidden>>

\* The hook returns.  Whatever has the name by then is removed; a discovery
\* goes on with what is left.
HookEnds(u) ==
  /\ UAt(u, "hook")
  /\ \/ /\ ujob[u].kind = "uninstall"
        /\ plugins' = [plugins EXCEPT ![ujob[u].name] = NoPlugin]
        /\ bidden' = bidden \cup {ujob[u].inst}
        /\ UEnd(u) /\ UNCHANGED hooks
     \/ /\ ujob[u].kind = "discover"
        /\ RegisterNext(u, ujob[u].left)
        /\ UNCHANGED bidden
     \/ /\ ujob[u].kind \in {"install", "enable", "disable"}
        /\ UEnd(u) /\ UNCHANGED <<plugins, hooks, bidden>>
  /\ UNCHANGED <<status, crossed>>

\* The hook throws, and so does the call: what it has set stays, and what a
\* discovery has not reached is not registered.
HookFails(u) ==
  /\ UAt(u, "hook")
  /\ UEnd(u)
  /\ UNCHANGED <<plugins, status, hooks, bidden, crossed>>

--------------------------------------------------------------------------------

PluginsInit ==
  /\ plugins = [name \in PluginNames |-> NoPlugin]
  /\ status = [i \in Instances |-> "none"]
  /\ hooks = [i \in Instances |-> <<>>]
  /\ ujob = [u \in Users |-> Free]
  /\ bidden = {} /\ crossed = FALSE

PluginsNext ==
  \E u \in Users :
    \/ \E name \in PluginNames :
         Install(u, name) \/ Enable(u, name) \/ Disable(u, name) \/ Uninstall(u, name)
    \/ Discover(u)
    \/ LoadFails(u) \/ HookEnds(u) \/ HookFails(u)
    \/ \E i \in Instances : Loaded(u, i)
    \/ \E i, j \in Instances : Discovered(u, i, j)

PluginsSpec == PluginsInit /\ [][PluginsNext]_pluginVars

================================================================================
