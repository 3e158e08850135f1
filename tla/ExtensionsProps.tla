---------------------------- MODULE ExtensionsProps ----------------------------
(***************************************************************************)
(* What skills and plugins have to guarantee to who uses them.             *)
(***************************************************************************)
EXTENDS Skills, Plugins

\* A skill that is enabled has all it requires, registered and enabled, whatever
\* was registered, enabled, disabled and unregistered before, in whatever order.
EnabledHasItsRequirements ==
  \A name \in enabled : requires[name] \subseteq enabled /\ name \in registered

\* No skill requires itself through others: `enable`, which calls itself for every
\* requirement, always ends.
NoRequirementCycle ==
  \A S \in SUBSET registered :
    S # {} => \E name \in S : requires[name] \cap S = {}

\* An instance is never told to be enabled, or to be disabled, twice in a row,
\* also when two callers ask at the same time or a hook has failed.
Switches == {"onEnable", "onDisable"}
HooksAlternate ==
  \A i \in Instances : \A k, l \in 1 .. Len(hooks[i]) :
    k < l /\ hooks[i][k] = hooks[i][l] /\ hooks[i][k] \in Switches =>
      \E m \in k + 1 .. l - 1 : hooks[i][m] \in Switches \ {hooks[i][k]}

\* A registered plugin is never replaced by another of its name, though installs
\* and discoveries load at the same time; and it only goes when its own onUninstall
\* has returned, as long as nobody uninstalls a name twice at once.
PluginsTakeTurns ==
  [][\A name \in PluginNames : plugins[name] # NoPlugin =>
       /\ plugins'[name] \in {plugins[name], NoPlugin}
       /\ ~crossed /\ plugins'[name] = NoPlugin => plugins[name] \in bidden']_pluginVars

================================================================================
