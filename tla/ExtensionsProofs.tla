---------------------------- MODULE ExtensionsProofs ----------------------------
(***************************************************************************)
(* For any number of skills: what is enabled has all it requires, and the  *)
(* requirements of the registered skills have no cycle.  For any number of *)
(* plugins and callers: no instance is told to be enabled or disabled      *)
(* twice in a row, and none takes the name of another.                     *)
(***************************************************************************)
EXTENDS ExtensionsProps, TLAPS

\* A name is only registered after what it requires, and stays while it is
\* required: that is what both properties rest on.
SkillsInv ==
  /\ registered \subseteq SkillNames
  /\ requires \in [SkillNames -> SUBSET SkillNames]
  /\ \A name \in registered : requires[name] \subseteq registered
  /\ EnabledHasItsRequirements
  /\ NoRequirementCycle

\* `enable` leaves nothing out: what it reaches from a registered skill has its
\* requirements among what it reaches.
LEMMA NeedsAreClosed ==
  ASSUME SkillsInv, NEW name \in registered
  PROVE  /\ name \in Needs(name)
         /\ Needs(name) \subseteq registered
         /\ \A other \in Needs(name) : requires[other] \subseteq Needs(name)
<1>1. name \in Needs(name) /\ Needs(name) \subseteq registered
  BY DEF Needs
<1>2. ASSUME NEW other \in Needs(name), NEW needed \in requires[other]
      PROVE  needed \in Needs(name)
  <2>1. other \in registered /\ needed \in registered
    BY <1>1, <1>2 DEF SkillsInv
  <2>2. ASSUME NEW S \in SUBSET registered, name \in S, ClosedUnderRequires(S)
        PROVE  needed \in S
    <3>1. other \in S
      BY <1>2, <2>2 DEF Needs
    <3>2. QED
      BY <2>1, <2>2, <3>1 DEF ClosedUnderRequires
  <2>3. QED
    BY <2>1, <2>2 DEF Needs
<1>3. QED
  BY <1>1, <1>2

\* A new name is required by nobody yet, so it closes no cycle.
LEMMA RegisterKeepsInv ==
  ASSUME SkillsInv, NEW name \in SkillNames, NEW needs \in SUBSET SkillNames,
         RegisterSkill(name, needs)
  PROVE  SkillsInv'
<1>1. /\ registered' = registered \cup {name} /\ name \notin registered
      /\ needs \subseteq registered /\ enabled' = enabled
      /\ requires' \in [SkillNames -> SUBSET SkillNames]
      /\ requires'[name] = needs
      /\ \A other \in registered : requires'[other] = requires[other]
  BY DEF RegisterSkill, SkillsInv, EnabledHasItsRequirements
<1>2. EnabledHasItsRequirements'
  BY <1>1 DEF SkillsInv, EnabledHasItsRequirements
<1>3. ASSUME NEW S \in SUBSET registered', S # {}
      PROVE  \E other \in S : requires'[other] \cap S = {}
  <2>1. CASE S = {name}
    BY <1>1, <2>1
  <2>2. CASE S # {name}
    <3>1. S \ {name} # {} /\ S \ {name} \in SUBSET registered
      BY <1>1, <1>3, <2>2
    <3>2. PICK other \in S \ {name} : requires[other] \cap (S \ {name}) = {}
      BY <3>1 DEF SkillsInv, NoRequirementCycle
    <3>3. other \in registered /\ name \notin requires[other]
      BY <1>1, <3>1, <3>2 DEF SkillsInv
    <3>4. QED
      BY <1>1, <3>2, <3>3
  <2>3. QED
    BY <2>1, <2>2
<1>4. NoRequirementCycle'
  BY <1>3 DEF NoRequirementCycle
<1>5. QED
  BY <1>1, <1>2, <1>4 DEF SkillsInv

\* Nobody requires the name that goes: neither the others' requirements nor the
\* absence of cycles among them are touched.
LEMMA UnregisterKeepsInv ==
  ASSUME SkillsInv, NEW name \in SkillNames, UnregisterSkill(name)
  PROVE  SkillsInv'
<1>1. /\ registered' = registered \ {name} /\ enabled' = enabled \ {name}
      /\ \A other \in registered : name \notin requires[other]
      /\ requires' \in [SkillNames -> SUBSET SkillNames]
      /\ \A other \in registered' : requires'[other] = requires[other]
  BY DEF UnregisterSkill, SkillsInv
<1>2. EnabledHasItsRequirements'
  BY <1>1 DEF SkillsInv, EnabledHasItsRequirements
<1>3. NoRequirementCycle'
  <2>1. ASSUME NEW S \in SUBSET registered', S # {}
        PROVE  \E other \in S : requires'[other] \cap S = {}
    <3>1. PICK other \in S : requires[other] \cap S = {}
      BY <1>1, <2>1 DEF SkillsInv, NoRequirementCycle
    <3>2. QED
      BY <1>1, <3>1
  <2>2. QED
    BY <2>1 DEF NoRequirementCycle
<1>4. QED
  BY <1>1, <1>2, <1>3 DEF SkillsInv

\* What leaves registrations alone only has to answer for what is enabled.
LEMMA SwitchKeepsInv ==
  ASSUME SkillsInv, UNCHANGED <<registered, requires>>, EnabledHasItsRequirements'
  PROVE  SkillsInv'
BY DEF SkillsInv, NoRequirementCycle

LEMMA SkillsStepKeepsInv ==
  SkillsInv /\ [SkillsNext]_skillVars => SkillsInv'
<1> SUFFICES ASSUME SkillsInv, [SkillsNext]_skillVars
             PROVE  SkillsInv'
  OBVIOUS
<1>1. ASSUME NEW name \in SkillNames, NEW needs \in SUBSET SkillNames,
             RegisterSkill(name, needs)
      PROVE  SkillsInv'
  BY <1>1, RegisterKeepsInv
<1>2. ASSUME NEW name \in SkillNames, UnregisterSkill(name)
      PROVE  SkillsInv'
  BY <1>2, UnregisterKeepsInv
<1>3. ASSUME NEW name \in SkillNames, EnableSkill(name)
      PROVE  SkillsInv'
  <2>1. name \in registered /\ enabled' = enabled \cup Needs(name)
        /\ UNCHANGED <<registered, requires>>
    BY <1>3 DEF EnableSkill
  <2>2. /\ Needs(name) \subseteq registered
        /\ \A other \in Needs(name) : requires[other] \subseteq Needs(name)
    BY <2>1, NeedsAreClosed
  <2>3. EnabledHasItsRequirements'
    BY <2>1, <2>2 DEF SkillsInv, EnabledHasItsRequirements
  <2>4. QED
    BY <2>1, <2>3, SwitchKeepsInv
<1>4. ASSUME NEW name \in SkillNames, DisableSkill(name)
      PROVE  SkillsInv'
  <2>1. /\ enabled' = enabled \ {name} /\ UNCHANGED <<registered, requires>>
        /\ \A other \in enabled : name \notin requires[other]
    BY <1>4 DEF DisableSkill
  <2>2. EnabledHasItsRequirements'
    BY <2>1 DEF SkillsInv, EnabledHasItsRequirements
  <2>3. QED
    BY <2>1, <2>2, SwitchKeepsInv
<1>5. ASSUME NEW name \in SkillNames, ExecuteTemplate(name)
      PROVE  SkillsInv'
  <2>1. UNCHANGED <<registered, requires, enabled>>
    BY <1>5 DEF ExecuteTemplate
  <2>2. QED
    BY <2>1, SwitchKeepsInv DEF SkillsInv, EnabledHasItsRequirements
<1>6. ASSUME UNCHANGED skillVars
      PROVE  SkillsInv'
  <2>1. UNCHANGED <<registered, requires, enabled>>
    BY <1>6 DEF skillVars
  <2>2. QED
    BY <2>1, SwitchKeepsInv DEF SkillsInv, EnabledHasItsRequirements
<1>7. QED
  BY <1>1, <1>2, <1>3, <1>4, <1>5, <1>6 DEF SkillsNext

LEMMA SkillsInvHolds == SkillsSpec => []SkillsInv
<1>1. SkillsInit => SkillsInv
  BY DEF SkillsInit, SkillsInv, EnabledHasItsRequirements, NoRequirementCycle
<1>2. QED
  BY <1>1, SkillsStepKeepsInv, PTL DEF SkillsSpec

\* SkillManager.enable, disable and unregister agree: whatever was registered,
\* enabled, disabled and unregistered, an enabled skill has its requirements.
THEOREM EnabledSkillsAreServed == SkillsSpec => []EnabledHasItsRequirements
<1>1. SkillsInv => EnabledHasItsRequirements
  BY DEF SkillsInv
<1>2. QED
  BY <1>1, SkillsInvHolds, PTL

\* The recursion of SkillManager.enable over `requires` meets no cycle.
THEOREM EnableEnds == SkillsSpec => []NoRequirementCycle
<1>1. SkillsInv => NoRequirementCycle
  BY DEF SkillsInv
<1>2. QED
  BY <1>1, SkillsInvHolds, PTL

--------------------------------------------------------------------------------
(***************************************************************************)
(* Plugins.  Of one instance: its hooks alternate, and its status is what  *)
(* the last of them made it.                                               *)
(***************************************************************************)

Hooks == {"onInstall", "onUninstall"} \cup Switches
Statuses == {"none", "installed", "enabled", "disabled"}
StatusAfter(hook) == IF hook = "onEnable" THEN "enabled" ELSE "disabled"

Alternate(h) ==
  \A k, l \in 1 .. Len(h) :
    k < l /\ h[k] = h[l] /\ h[k] \in Switches =>
      \E m \in k + 1 .. l - 1 : h[m] \in Switches \ {h[k]}

\* A switch that is not the status any more was followed by the other one.
Agree(h, s) ==
  \A k \in 1 .. Len(h) :
    h[k] \in Switches /\ s # StatusAfter(h[k]) =>
      \E m \in k + 1 .. Len(h) : h[m] \in Switches \ {h[k]}

\* Enabling what is not enabled, or disabling what is not disabled.
LEMMA SwitchAlternates ==
  ASSUME NEW h \in Seq(Hooks), NEW s \in Statuses, NEW hook \in Switches,
         Alternate(h), Agree(h, s), s # StatusAfter(hook)
  PROVE  /\ Append(h, hook) \in Seq(Hooks)
         /\ Alternate(Append(h, hook)) /\ Agree(Append(h, hook), StatusAfter(hook))
<1> DEFINE g == Append(h, hook)
<1>1. /\ g \in Seq(Hooks) /\ Len(g) = Len(h) + 1 /\ Len(h) \in Nat /\ g[Len(g)] = hook
      /\ \A k \in 1 .. Len(h) : g[k] = h[k]
  BY DEF Hooks
<1> HIDE DEF g
<1>2. ASSUME NEW k \in 1 .. Len(g), NEW l \in 1 .. Len(g),
             k < l, g[k] = g[l], g[k] \in Switches
      PROVE  \E m \in k + 1 .. l - 1 : g[m] \in Switches \ {g[k]}
  <2>1. CASE l \in 1 .. Len(h)
    <3>1. k \in 1 .. Len(h) /\ g[k] = h[k] /\ g[l] = h[l]
      BY <1>1, <1>2, <2>1
    <3>2. PICK m \in k + 1 .. l - 1 : h[m] \in Switches \ {h[k]}
      BY <1>2, <2>1, <3>1 DEF Alternate
    <3>3. m \in 1 .. Len(h)
      BY <1>1, <2>1, <3>1
    <3>4. QED
      BY <1>1, <3>1, <3>2, <3>3
  <2>2. CASE l = Len(g)
    <3>1. k \in 1 .. Len(h) /\ g[k] = h[k] /\ h[k] = hook
      BY <1>1, <1>2, <2>2
    <3>2. PICK m \in k + 1 .. Len(h) : h[m] \in Switches \ {h[k]}
      BY <3>1 DEF Agree
    <3>3. m \in 1 .. Len(h) /\ m \in k + 1 .. l - 1
      BY <1>1, <2>2, <3>1
    <3>4. QED
      BY <1>1, <3>1, <3>2, <3>3
  <2>3. QED
    BY <1>1, <2>1, <2>2
<1>3. ASSUME NEW k \in 1 .. Len(g), g[k] \in Switches, StatusAfter(hook) # StatusAfter(g[k])
      PROVE  \E m \in k + 1 .. Len(g) : g[m] \in Switches \ {g[k]}
  <2>1. g[k] # hook /\ Len(g) \in k + 1 .. Len(g)
    <3>1. g[k] # hook
      BY <1>3
    <3>2. k # Len(g)
      BY <1>1, <3>1
    <3>3. QED
      BY <1>1, <3>1, <3>2
  <2>2. QED
    BY <1>1, <2>1
<1>4. Alternate(g) /\ Agree(g, StatusAfter(hook))
  BY <1>2, <1>3 DEF Alternate, Agree
<1>5. QED
  BY <1>1, <1>4 DEF g

\* Any other hook changes nothing of it.
LEMMA OtherHookAlternates ==
  ASSUME NEW h \in Seq(Hooks), NEW s \in Statuses, NEW hook \in Hooks \ Switches,
         Alternate(h), Agree(h, s)
  PROVE  /\ Append(h, hook) \in Seq(Hooks)
         /\ Alternate(Append(h, hook)) /\ Agree(Append(h, hook), s)
<1> DEFINE g == Append(h, hook)
<1>1. /\ g \in Seq(Hooks) /\ Len(g) = Len(h) + 1 /\ Len(h) \in Nat /\ g[Len(g)] = hook
      /\ \A k \in 1 .. Len(h) : g[k] = h[k]
  BY DEF Hooks
<1> HIDE DEF g
<1>2. \A k \in 1 .. Len(g) : g[k] \in Switches => k \in 1 .. Len(h) /\ g[k] = h[k]
  BY <1>1
<1>3. ASSUME NEW k \in 1 .. Len(g), NEW l \in 1 .. Len(g),
             k < l, g[k] = g[l], g[k] \in Switches
      PROVE  \E m \in k + 1 .. l - 1 : g[m] \in Switches \ {g[k]}
  <2>1. k \in 1 .. Len(h) /\ g[k] = h[k] /\ l \in 1 .. Len(h) /\ g[l] = h[l]
    BY <1>2, <1>3
  <2>2. PICK m \in k + 1 .. l - 1 : h[m] \in Switches \ {h[k]}
    BY <1>3, <2>1 DEF Alternate
  <2>3. m \in 1 .. Len(h)
    BY <1>1, <2>1
  <2>4. QED
    BY <1>1, <2>1, <2>2, <2>3
<1>4. ASSUME NEW k \in 1 .. Len(g), g[k] \in Switches, s # StatusAfter(g[k])
      PROVE  \E m \in k + 1 .. Len(g) : g[m] \in Switches \ {g[k]}
  <2>1. k \in 1 .. Len(h) /\ g[k] = h[k]
    BY <1>2, <1>4
  <2>2. PICK m \in k + 1 .. Len(h) : h[m] \in Switches \ {h[k]}
    BY <1>4, <2>1 DEF Agree
  <2>3. m \in 1 .. Len(h) /\ m \in k + 1 .. Len(g)
    BY <1>1, <2>1
  <2>4. QED
    BY <1>1, <2>1, <2>2, <2>3
<1>5. Alternate(g) /\ Agree(g, s)
  BY <1>3, <1>4 DEF Alternate, Agree
<1>6. QED
  BY <1>1, <1>5 DEF g

HooksFit(h, s) ==
  /\ h \in Seq(Hooks) /\ s \in Statuses
  /\ s = "none" => h = <<>>
  /\ Alternate(h) /\ Agree(h, s)

LEMMA SwitchFits ==
  ASSUME NEW h, NEW s, HooksFit(h, s), NEW hook \in Switches,
         s # "none", s # StatusAfter(hook)
  PROVE  HooksFit(Append(h, hook), StatusAfter(hook))
<1>1. /\ Append(h, hook) \in Seq(Hooks)
      /\ Alternate(Append(h, hook)) /\ Agree(Append(h, hook), StatusAfter(hook))
  BY SwitchAlternates DEF HooksFit
<1>2. StatusAfter(hook) \in Statuses \ {"none"}
  BY DEF StatusAfter, Statuses
<1>3. QED
  BY <1>1, <1>2 DEF HooksFit

LEMMA OtherHookFits ==
  ASSUME NEW h, NEW s, HooksFit(h, s), NEW hook \in Hooks \ Switches, s # "none"
  PROVE  HooksFit(Append(h, hook), s)
BY OtherHookAlternates DEF HooksFit

LEMMA NewFits ==
  ASSUME NEW h, HooksFit(h, "none")
  PROVE  HooksFit(h, "installed")
<1>1. h = <<>> /\ Len(h) = 0
  BY DEF HooksFit
<1>2. QED
  BY <1>1 DEF HooksFit, Agree, Statuses

--------------------------------------------------------------------------------

UJob ==
  [pc : {"idle", "loading", "hook"},
   kind : {"none", "install", "discover", "enable", "disable", "uninstall"},
   name : PluginNames \cup {NoPlugin}, inst : Instances \cup {NoPlugin},
   left : Seq(Instances)]

PluginsTyped ==
  /\ plugins \in [PluginNames -> Instances \cup {NoPlugin}]
  /\ status \in [Instances -> Statuses]
  /\ hooks \in [Instances -> Seq(Hooks)]
  /\ ujob \in [Users -> UJob]

\* What has a name, and what a discovery still has to register, is loaded.
RegisteredIsLoaded ==
  \A name \in PluginNames : plugins[name] # NoPlugin =>
    ManifestOf[plugins[name]] = name /\ status[plugins[name]] # "none"
LeftIsLoaded(u) == \A k \in 1 .. Len(ujob[u].left) : status[ujob[u].left[k]] # "none"

\* While no two callers uninstall one name, each removes the instance it has
\* called: nobody else has taken that one's name.
Uninstalls(u, name) == ujob[u].kind = "uninstall" /\ ujob[u].name = name
TurnsTaken ==
  \A u \in Users, name \in PluginNames : Uninstalls(u, name) =>
    /\ plugins[name] = ujob[u].inst /\ ujob[u].inst # NoPlugin
    /\ \A other \in Users : Uninstalls(other, name) => other = u

PluginsInv ==
  /\ PluginsTyped
  /\ RegisteredIsLoaded
  /\ \A u \in Users : LeftIsLoaded(u)
  /\ \A i \in Instances : HooksFit(hooks[i], status[i])
  /\ ~crossed => TurnsTaken

\* What PluginsTakeTurns says of a step.
Turn ==
  \A name \in PluginNames : plugins[name] # NoPlugin =>
    /\ plugins'[name] \in {plugins[name], NoPlugin}
    /\ ~crossed /\ plugins'[name] = NoPlugin => plugins[name] \in bidden'

--------------------------------------------------------------------------------
(***************************************************************************)
(* What the steps have in common.                                          *)
(***************************************************************************)

LEMMA FreeTyped == Free \in UJob /\ Free.left = <<>> /\ Free.kind = "none"
<1>1. <<>> \in Seq(Instances)
  OBVIOUS
<1>2. QED
  BY <1>1 DEF Free, UJob

\* The statuses a load leaves: only fresh instances change.
Loads == \A i \in Instances :
  status'[i] = status[i] \/ (status[i] = "none" /\ status'[i] = "installed")

\* A call that starts to load, or ends, and calls no hook.
LEMMA QuietKeepsInv ==
  ASSUME PluginsInv, NEW u \in Users, NEW call \in UJob,
         ujob' = [ujob EXCEPT ![u] = call], call.left = <<>>, call.kind # "uninstall",
         UNCHANGED <<plugins, hooks, crossed>>,
         status' \in [Instances -> Statuses], Loads
  PROVE  PluginsInv' /\ Turn
<1>1. /\ ujob' \in [Users -> UJob] /\ ujob'[u] = call
      /\ \A other \in Users : other # u => ujob'[other] = ujob[other]
  BY DEF PluginsInv, PluginsTyped
<1>2. PluginsTyped' /\ RegisteredIsLoaded'
  BY <1>1 DEF PluginsInv, PluginsTyped, RegisteredIsLoaded, Loads
<1>3. ASSUME NEW other \in Users
      PROVE  LeftIsLoaded(other)'
  <2>1. CASE other = u
    BY <1>1, <2>1 DEF LeftIsLoaded
  <2>2. CASE other # u
    <3>1. ujob[other].left \in Seq(Instances)
      BY DEF PluginsInv, PluginsTyped, UJob
    <3>2. \A k \in 1 .. Len(ujob[other].left) :
            ujob[other].left[k] \in Instances /\ status[ujob[other].left[k]] # "none"
      BY <3>1 DEF PluginsInv, LeftIsLoaded
    <3>3. ujob'[other] = ujob[other]
      BY <1>1, <2>2
    <3>4. QED
      BY <3>2, <3>3 DEF LeftIsLoaded, Loads
  <2>3. QED
    BY <2>1, <2>2
<1>4. ASSUME NEW i \in Instances
      PROVE  HooksFit(hooks'[i], status'[i])
  <2>1. HooksFit(hooks[i], status[i])
    BY DEF PluginsInv
  <2>2. QED
    BY <2>1, NewFits DEF Loads
<1>5. (~crossed => TurnsTaken)'
  <2>1. ASSUME NEW other \in Users, NEW name \in PluginNames, Uninstalls(other, name)'
        PROVE  other # u /\ Uninstalls(other, name)
    BY <1>1, <2>1 DEF Uninstalls
  <2>2. QED
    BY <1>1, <2>1 DEF PluginsInv, TurnsTaken
<1>6. Turn
  BY DEF PluginsInv, PluginsTyped, Turn
<1>7. QED
  BY <1>2, <1>3, <1>4, <1>5, <1>6 DEF PluginsInv

LEMMA EndKeepsInv ==
  ASSUME PluginsInv, NEW u \in Users, UEnd(u), UNCHANGED <<plugins, hooks, crossed>>,
         status' \in [Instances -> Statuses], Loads
  PROVE  PluginsInv' /\ Turn
BY FreeTyped, QuietKeepsInv DEF UEnd

LEMMA StillLoads == ASSUME PluginsInv, UNCHANGED status
                    PROVE  status' \in [Instances -> Statuses] /\ Loads
BY DEF PluginsInv, PluginsTyped, Loads

\* A call that waits for a hook, as invokeHook leaves it.
LEMMA InvokedTyped ==
  ASSUME PluginsInv, NEW u \in Users, NEW i \in Instances, NEW hook \in Hooks,
         NEW job \in UJob, Invoke(u, i, hook, job)
  PROVE  /\ ujob' \in [Users -> UJob] /\ hooks' \in [Instances -> Seq(Hooks)]
         /\ ujob'[u].kind = job.kind /\ ujob'[u].name = job.name
         /\ ujob'[u].inst = i /\ ujob'[u].left = job.left
         /\ \A other \in Users : other # u => ujob'[other] = ujob[other]
         /\ hooks'[i] = Append(hooks[i], hook)
         /\ \A j \in Instances : j # i => hooks'[j] = hooks[j]
<1> DEFINE call == [job EXCEPT !.pc = "hook", !.inst = i]
<1>1. call \in UJob
  BY DEF UJob
<1>2. call.kind = job.kind /\ call.name = job.name /\ call.inst = i /\ call.left = job.left
  BY DEF UJob
<1>3. ujob' = [ujob EXCEPT ![u] = call] /\ hooks' = [hooks EXCEPT ![i] = Append(@, hook)]
  BY DEF Invoke
<1> HIDE DEF call
<1>4. Append(hooks[i], hook) \in Seq(Hooks)
  BY DEF PluginsInv, PluginsTyped
<1>5. QED
  BY <1>1, <1>2, <1>3, <1>4 DEF PluginsInv, PluginsTyped

\* What a load finds under a free name is registered, and its onInstall called.
LEMMA RegisteringKeepsInv ==
  ASSUME PluginsInv, NEW u \in Users, NEW i \in Instances, NEW job \in UJob,
         ~IsRegistered(i), plugins' = [plugins EXCEPT ![ManifestOf[i]] = i],
         Invoke(u, i, "onInstall", job), job.kind \in {"install", "discover"},
         \A k \in 1 .. Len(job.left) : status'[job.left[k]] # "none",
         status' \in [Instances -> Statuses], Loads, status'[i] # "none",
         UNCHANGED crossed
  PROVE  PluginsInv' /\ Turn
<1>1. /\ ujob' \in [Users -> UJob] /\ hooks' \in [Instances -> Seq(Hooks)]
      /\ ujob'[u].kind = job.kind /\ ujob'[u].left = job.left
      /\ \A other \in Users : other # u => ujob'[other] = ujob[other]
      /\ hooks'[i] = Append(hooks[i], "onInstall")
      /\ \A j \in Instances : j # i => hooks'[j] = hooks[j]
  BY InvokedTyped DEF Hooks
<1>2. /\ ManifestOf[i] \in PluginNames /\ plugins[ManifestOf[i]] = NoPlugin
      /\ i # NoPlugin
  BY PluginAssumption DEF IsRegistered
<1>3. /\ plugins' \in [PluginNames -> Instances \cup {NoPlugin}]
      /\ plugins'[ManifestOf[i]] = i
      /\ \A name \in PluginNames : name # ManifestOf[i] => plugins'[name] = plugins[name]
  BY <1>2 DEF PluginsInv, PluginsTyped
<1>4. PluginsTyped' /\ RegisteredIsLoaded'
  BY <1>1, <1>2, <1>3 DEF PluginsInv, PluginsTyped, RegisteredIsLoaded, Loads
<1>5. ASSUME NEW other \in Users
      PROVE  LeftIsLoaded(other)'
  <2>1. CASE other = u
    BY <1>1, <2>1 DEF LeftIsLoaded
  <2>2. CASE other # u
    <3>1. ujob[other].left \in Seq(Instances)
      BY DEF PluginsInv, PluginsTyped, UJob
    <3>2. \A k \in 1 .. Len(ujob[other].left) :
            ujob[other].left[k] \in Instances /\ status[ujob[other].left[k]] # "none"
      BY <3>1 DEF PluginsInv, LeftIsLoaded
    <3>3. ujob'[other] = ujob[other]
      BY <1>1, <2>2
    <3>4. QED
      BY <3>2, <3>3 DEF LeftIsLoaded, Loads
  <2>3. QED
    BY <2>1, <2>2
<1>6. ASSUME NEW j \in Instances
      PROVE  HooksFit(hooks'[j], status'[j])
  <2>1. HooksFit(hooks[j], status[j])
    BY DEF PluginsInv
  <2>2. HooksFit(hooks[j], status'[j])
    BY <2>1, NewFits DEF Loads
  <2>3. "onInstall" \in Hooks \ Switches
    BY DEF Hooks, Switches
  <2>4. HooksFit(Append(hooks[i], "onInstall"), status'[i])
    <3>1. HooksFit(hooks[i], status'[i])
      BY NewFits DEF Loads, PluginsInv
    <3>2. QED
      BY <2>3, <3>1, OtherHookFits
  <2>5. QED
    BY <1>1, <2>2, <2>4
<1>7. (~crossed => TurnsTaken)'
  <2>1. ASSUME NEW other \in Users, NEW name \in PluginNames, Uninstalls(other, name)'
        PROVE  other # u /\ Uninstalls(other, name)
    BY <1>1, <2>1 DEF Uninstalls
  <2>2. QED
    BY <1>1, <1>2, <1>3, <2>1 DEF PluginsInv, TurnsTaken
<1>8. Turn
  BY <1>2, <1>3 DEF PluginsInv, PluginsTyped, Turn
<1>9. QED
  BY <1>4, <1>5, <1>6, <1>7, <1>8 DEF PluginsInv

LEMMA RegisterNextKeepsInv ==
  ASSUME PluginsInv, NEW u \in Users, NEW found \in Seq(Instances), RegisterNext(u, found),
         ujob[u].kind = "discover",
         \A k \in 1 .. Len(found) : status'[found[k]] # "none",
         status' \in [Instances -> Statuses], Loads, UNCHANGED crossed
  PROVE  PluginsInv' /\ Turn
<1>1. CASE UEnd(u) /\ UNCHANGED <<plugins, hooks>>
  BY <1>1, EndKeepsInv
<1>2. ASSUME NEW k \in DOMAIN found, ~IsRegistered(found[k]),
             plugins' = [plugins EXCEPT ![ManifestOf[found[k]]] = found[k]],
             Invoke(u, found[k], "onInstall",
                    [ujob[u] EXCEPT !.left = SubSeq(found, k + 1, Len(found))])
      PROVE  PluginsInv' /\ Turn
  <2>1. k \in 1 .. Len(found) /\ found[k] \in Instances /\ status'[found[k]] # "none"
    BY <1>2
  <2>2. PICK rest : rest = SubSeq(found, k + 1, Len(found))
    OBVIOUS
  <2>3. /\ rest \in Seq(Instances)
        /\ \A m \in 1 .. Len(rest) : status'[rest[m]] # "none"
    BY <2>1, <2>2
  <2>4. PICK job : job = [ujob[u] EXCEPT !.left = rest]
    OBVIOUS
  <2>5. ujob[u] \in UJob
    BY DEF PluginsInv, PluginsTyped
  <2>6. job \in UJob /\ job.kind = "discover" /\ job.left = rest
    BY <2>3, <2>4, <2>5 DEF UJob
  <2>7. Invoke(u, found[k], "onInstall", job)
    BY <1>2, <2>2, <2>4
  <2>8. QED
    BY <1>2, <2>1, <2>3, <2>6, <2>7, RegisteringKeepsInv
<1>3. QED
  BY <1>1, <1>2 DEF RegisterNext

\* enable and disable: the status is set, then the hook is called.
LEMMA SwitchingKeepsInv ==
  ASSUME PluginsInv, NEW u \in Users, NEW name \in PluginNames, NEW job \in UJob,
         NEW hook \in Switches,
         plugins[name] # NoPlugin, status[plugins[name]] # StatusAfter(hook),
         status' = [status EXCEPT ![plugins[name]] = StatusAfter(hook)],
         Invoke(u, plugins[name], hook, job),
         job.kind \in {"enable", "disable"}, job.left = <<>>,
         UNCHANGED <<plugins, crossed>>
  PROVE  PluginsInv' /\ Turn
<1>1. PICK i \in Instances : i = plugins[name]
  BY DEF PluginsInv, PluginsTyped
<1>2. Invoke(u, i, hook, job) /\ hook \in Hooks
  BY <1>1 DEF Hooks
<1>3. /\ ujob' \in [Users -> UJob] /\ hooks' \in [Instances -> Seq(Hooks)]
      /\ ujob'[u].kind = job.kind /\ ujob'[u].left = job.left
      /\ \A other \in Users : other # u => ujob'[other] = ujob[other]
      /\ hooks'[i] = Append(hooks[i], hook)
      /\ \A j \in Instances : j # i => hooks'[j] = hooks[j]
  BY <1>2, InvokedTyped
<1>4. StatusAfter(hook) \in Statuses \ {"none"}
  BY DEF StatusAfter, Statuses
<1>5. /\ status' \in [Instances -> Statuses] /\ status'[i] = StatusAfter(hook)
      /\ \A j \in Instances : j # i => status'[j] = status[j]
      /\ \A j \in Instances : status[j] # "none" => status'[j] # "none"
  BY <1>1, <1>4 DEF PluginsInv, PluginsTyped
<1>6. PluginsTyped' /\ RegisteredIsLoaded'
  BY <1>3, <1>5 DEF PluginsInv, PluginsTyped, RegisteredIsLoaded
<1>7. ASSUME NEW other \in Users
      PROVE  LeftIsLoaded(other)'
  <2>1. CASE other = u
    BY <1>3, <2>1 DEF LeftIsLoaded
  <2>2. CASE other # u
    <3>1. ujob[other].left \in Seq(Instances)
      BY DEF PluginsInv, PluginsTyped, UJob
    <3>2. QED
      BY <1>3, <1>5, <2>2, <3>1 DEF LeftIsLoaded, PluginsInv
  <2>3. QED
    BY <2>1, <2>2
<1>8. ASSUME NEW j \in Instances
      PROVE  HooksFit(hooks'[j], status'[j])
  <2>1. HooksFit(hooks[j], status[j])
    BY DEF PluginsInv
  <2>2. CASE j # i
    BY <1>3, <1>5, <2>1, <2>2
  <2>3. CASE j = i
    <3>1. status[i] # "none" /\ status[i] # StatusAfter(hook)
      BY <1>1 DEF PluginsInv, RegisteredIsLoaded
    <3>2. HooksFit(hooks[i], status[i])
      BY DEF PluginsInv
    <3>3. HooksFit(Append(hooks[i], hook), StatusAfter(hook))
      BY <3>1, <3>2, SwitchFits
    <3>4. QED
      BY <1>3, <1>5, <2>3, <3>3
  <2>4. QED
    BY <2>2, <2>3
<1>9. (~crossed => TurnsTaken)'
  <2>1. ASSUME NEW other \in Users, NEW some \in PluginNames, Uninstalls(other, some)'
        PROVE  other # u /\ Uninstalls(other, some)
    BY <1>3, <2>1 DEF Uninstalls
  <2>2. QED
    BY <1>3, <2>1 DEF PluginsInv, TurnsTaken
<1>10. Turn
  BY DEF PluginsInv, PluginsTyped, Turn
<1>11. QED
  BY <1>6, <1>7, <1>8, <1>9, <1>10 DEF PluginsInv

--------------------------------------------------------------------------------
(***************************************************************************)
(* The steps.                                                              *)
(***************************************************************************)

LEMMA InstallKeepsInv ==
  ASSUME PluginsInv, NEW u \in Users, NEW name \in PluginNames, Install(u, name)
  PROVE  PluginsInv' /\ Turn
<1>1. PICK call : call = [Free EXCEPT !.pc = "loading", !.kind = "install", !.name = name]
  OBVIOUS
<1>2. call \in UJob /\ call.left = <<>> /\ call.kind = "install"
  BY <1>1, FreeTyped DEF Free, UJob
<1>3. ujob' = [ujob EXCEPT ![u] = call] /\ UNCHANGED <<plugins, status, hooks, crossed>>
  BY <1>1 DEF Install
<1>4. QED
  BY <1>2, <1>3, StillLoads, QuietKeepsInv

LEMMA DiscoverKeepsInv ==
  ASSUME PluginsInv, NEW u \in Users, Discover(u)
  PROVE  PluginsInv' /\ Turn
<1>1. PICK call : call = [Free EXCEPT !.pc = "loading", !.kind = "discover"]
  OBVIOUS
<1>2. call \in UJob /\ call.left = <<>> /\ call.kind = "discover"
  BY <1>1, FreeTyped DEF Free, UJob
<1>3. ujob' = [ujob EXCEPT ![u] = call] /\ UNCHANGED <<plugins, status, hooks, crossed>>
  BY <1>1 DEF Discover
<1>4. QED
  BY <1>2, <1>3, StillLoads, QuietKeepsInv

LEMMA FailureKeepsInv ==
  ASSUME PluginsInv, NEW u \in Users, LoadFails(u) \/ HookFails(u)
  PROVE  PluginsInv' /\ Turn
<1>1. UEnd(u) /\ UNCHANGED <<plugins, status, hooks, crossed>>
  BY DEF LoadFails, HookFails
<1>2. QED
  BY <1>1, StillLoads, EndKeepsInv

\* The name was asked for when the instance was there, not before the load.
LEMMA LoadedKeepsInv ==
  ASSUME PluginsInv, NEW u \in Users, NEW i \in Instances, Loaded(u, i)
  PROVE  PluginsInv' /\ Turn
<1>1. /\ status' \in [Instances -> Statuses] /\ Loads /\ status'[i] # "none"
      /\ UNCHANGED crossed
  BY DEF Loaded, Fresh, PluginsInv, PluginsTyped, Loads, Statuses
<1>2. CASE UEnd(u) /\ UNCHANGED <<plugins, hooks>>
  BY <1>1, <1>2, EndKeepsInv
<1>3. ASSUME ~IsRegistered(i), plugins' = [plugins EXCEPT ![ujob[u].name] = i],
             Invoke(u, i, "onInstall", ujob[u])
      PROVE  PluginsInv' /\ Turn
  <2>1. /\ ujob[u] \in UJob /\ ujob[u].kind = "install" /\ ManifestOf[i] = ujob[u].name
    BY DEF Loaded, PluginsInv, PluginsTyped
  <2>2. \A k \in 1 .. Len(ujob[u].left) : status'[ujob[u].left[k]] # "none"
    <3>1. ujob[u].left \in Seq(Instances)
      BY <2>1 DEF UJob
    <3>2. \A k \in 1 .. Len(ujob[u].left) :
            ujob[u].left[k] \in Instances /\ status[ujob[u].left[k]] # "none"
      BY <3>1 DEF PluginsInv, LeftIsLoaded
    <3>3. QED
      BY <1>1, <3>2 DEF Loads
  <2>3. QED
    BY <1>1, <1>3, <2>1, <2>2, RegisteringKeepsInv
<1>4. QED
  BY <1>2, <1>3 DEF Loaded

LEMMA DiscoveredKeepsInv ==
  ASSUME PluginsInv, NEW u \in Users, NEW i \in Instances, NEW j \in Instances,
         Discovered(u, i, j)
  PROVE  PluginsInv' /\ Turn
<1>1. PICK found : found = IF i = j THEN <<i>> ELSE <<i, j>>
  OBVIOUS
<1>2. /\ status' \in [Instances -> Statuses] /\ Loads
      /\ status'[i] # "none" /\ status'[j] # "none"
  BY DEF Discovered, Fresh, PluginsInv, PluginsTyped, Loads, Statuses
<1>3. /\ found \in Seq(Instances)
      /\ \A k \in 1 .. Len(found) : found[k] \in {i, j}
  BY <1>1
<1>4. /\ RegisterNext(u, found) /\ ujob[u].kind = "discover" /\ UNCHANGED crossed
  BY <1>1 DEF Discovered
<1>5. \A k \in 1 .. Len(found) : status'[found[k]] # "none"
  BY <1>2, <1>3
<1>6. QED
  BY <1>2, <1>3, <1>4, <1>5, RegisterNextKeepsInv

LEMMA EnableKeepsInv ==
  ASSUME PluginsInv, NEW u \in Users, NEW name \in PluginNames, Enable(u, name)
  PROVE  PluginsInv' /\ Turn
<1>1. PICK job : job = [Free EXCEPT !.kind = "enable", !.name = name]
  OBVIOUS
<1>2. job \in UJob /\ job.left = <<>> /\ job.kind = "enable"
  BY <1>1, FreeTyped DEF Free, UJob
<1>3. PICK hook \in Switches : hook = "onEnable" /\ StatusAfter(hook) = "enabled"
  BY DEF Switches, StatusAfter
<1>4. /\ plugins[name] # NoPlugin /\ status[plugins[name]] # StatusAfter(hook)
      /\ status' = [status EXCEPT ![plugins[name]] = StatusAfter(hook)]
      /\ Invoke(u, plugins[name], hook, job) /\ UNCHANGED <<plugins, crossed>>
  BY <1>1, <1>3 DEF Enable
<1>5. QED
  BY <1>2, <1>4, SwitchingKeepsInv

LEMMA DisableKeepsInv ==
  ASSUME PluginsInv, NEW u \in Users, NEW name \in PluginNames, Disable(u, name)
  PROVE  PluginsInv' /\ Turn
<1>1. PICK job : job = [Free EXCEPT !.kind = "disable", !.name = name]
  OBVIOUS
<1>2. job \in UJob /\ job.left = <<>> /\ job.kind = "disable"
  BY <1>1, FreeTyped DEF Free, UJob
<1>3. PICK hook \in Switches : hook = "onDisable" /\ StatusAfter(hook) = "disabled"
  BY DEF Switches, StatusAfter
<1>4. /\ plugins[name] # NoPlugin /\ status[plugins[name]] # StatusAfter(hook)
      /\ status' = [status EXCEPT ![plugins[name]] = StatusAfter(hook)]
      /\ Invoke(u, plugins[name], hook, job) /\ UNCHANGED <<plugins, crossed>>
  BY <1>1, <1>3 DEF Disable
<1>5. QED
  BY <1>2, <1>4, SwitchingKeepsInv

\* The one who uninstalls has called the instance that has the name.
LEMMA UninstallKeepsInv ==
  ASSUME PluginsInv, NEW u \in Users, NEW name \in PluginNames, Uninstall(u, name)
  PROVE  PluginsInv' /\ Turn
<1>1. PICK i \in Instances : i = plugins[name] /\ i # NoPlugin
  BY DEF Uninstall, PluginsInv, PluginsTyped
<1>2. PICK job : job = [Free EXCEPT !.kind = "uninstall", !.name = name]
  OBVIOUS
<1>3. job \in UJob /\ job.left = <<>> /\ job.kind = "uninstall" /\ job.name = name
  BY <1>2, FreeTyped DEF Free, UJob
<1>4. "onUninstall" \in Hooks \ Switches
  BY DEF Hooks, Switches
<1>5. Invoke(u, i, "onUninstall", job) /\ UNCHANGED <<plugins, status>>
  BY <1>1, <1>2 DEF Uninstall
<1>6. /\ ujob' \in [Users -> UJob] /\ hooks' \in [Instances -> Seq(Hooks)]
      /\ ujob'[u].kind = "uninstall" /\ ujob'[u].name = name
      /\ ujob'[u].inst = i /\ ujob'[u].left = <<>>
      /\ \A other \in Users : other # u => ujob'[other] = ujob[other]
      /\ hooks'[i] = Append(hooks[i], "onUninstall")
      /\ \A j \in Instances : j # i => hooks'[j] = hooks[j]
  BY <1>3, <1>4, <1>5, InvokedTyped
<1>7. PluginsTyped' /\ RegisteredIsLoaded'
  BY <1>5, <1>6 DEF PluginsInv, PluginsTyped, RegisteredIsLoaded
<1>8. ASSUME NEW other \in Users
      PROVE  LeftIsLoaded(other)'
  BY <1>5, <1>6 DEF PluginsInv, LeftIsLoaded
<1>9. ASSUME NEW j \in Instances
      PROVE  HooksFit(hooks'[j], status'[j])
  <2>1. HooksFit(hooks[j], status[j])
    BY DEF PluginsInv
  <2>2. status[i] # "none"
    BY <1>1 DEF PluginsInv, RegisteredIsLoaded
  <2>3. CASE j = i
    <3>1. HooksFit(Append(hooks[i], "onUninstall"), status[i])
      BY <1>4, <2>1, <2>2, <2>3, OtherHookFits
    <3>2. QED
      BY <1>5, <1>6, <2>3, <3>1
  <2>4. CASE j # i
    BY <1>5, <1>6, <2>1, <2>4
  <2>5. QED
    BY <2>3, <2>4
<1>10. ASSUME ~crossed'
       PROVE  TurnsTaken'
  <2>1. /\ TurnsTaken
        /\ \A other \in Users : ~Uninstalls(other, name)
    BY <1>10 DEF Uninstall, Uninstalls, PluginsInv
  <2>2. ASSUME NEW other \in Users, NEW some \in PluginNames, Uninstalls(other, some)'
        PROVE  (other = u /\ some = name) \/ (other # u /\ Uninstalls(other, some))
    BY <1>6, <2>2 DEF Uninstalls
  <2>3. \A other \in Users : Uninstalls(other, name)' => other = u
    BY <2>1, <2>2
  <2>4. ASSUME NEW other \in Users, NEW some \in PluginNames, Uninstalls(other, some)'
        PROVE  /\ plugins'[some] = ujob'[other].inst /\ ujob'[other].inst # NoPlugin
               /\ \A third \in Users : Uninstalls(third, some)' => third = other
    <3>1. CASE other = u /\ some = name
      BY <1>1, <1>5, <1>6, <2>3, <3>1
    <3>2. CASE other # u /\ Uninstalls(other, some)
      <4>1. some # name
        BY <2>1, <3>2
      <4>2. /\ plugins[some] = ujob[other].inst /\ ujob[other].inst # NoPlugin
            /\ \A third \in Users : Uninstalls(third, some) => third = other
        BY <2>1, <3>2 DEF TurnsTaken
      <4>3. \A third \in Users : Uninstalls(third, some)' => Uninstalls(third, some)
        BY <2>2, <4>1
      <4>4. QED
        BY <1>5, <1>6, <3>2, <4>2, <4>3
    <3>3. QED
      BY <2>2, <2>4, <3>1, <3>2
  <2>5. QED
    BY <2>4 DEF TurnsTaken
<1>11. Turn
  BY <1>5 DEF PluginsInv, PluginsTyped, Turn
<1>12. QED
  BY <1>7, <1>8, <1>9, <1>10, <1>11 DEF PluginsInv

\* The hook of an uninstall has returned: what it was told is what goes, as long
\* as nobody else uninstalls the same name.
LEMMA UninstalledKeepsInv ==
  ASSUME PluginsInv, NEW u \in Users, ujob[u].kind = "uninstall",
         plugins' = [plugins EXCEPT ![ujob[u].name] = NoPlugin],
         bidden' = bidden \cup {ujob[u].inst}, UEnd(u),
         UNCHANGED <<hooks, status, crossed>>
  PROVE  PluginsInv' /\ Turn
<1>1. /\ ujob' \in [Users -> UJob] /\ ujob'[u] = Free
      /\ \A other \in Users : other # u => ujob'[other] = ujob[other]
  BY FreeTyped DEF UEnd, PluginsInv, PluginsTyped
<1>2. /\ plugins' \in [PluginNames -> Instances \cup {NoPlugin}]
      /\ \A name \in PluginNames :
           /\ name = ujob[u].name => plugins'[name] = NoPlugin
           /\ name # ujob[u].name => plugins'[name] = plugins[name]
  BY DEF PluginsInv, PluginsTyped
<1>3. PluginsTyped' /\ RegisteredIsLoaded'
  BY <1>1, <1>2 DEF PluginsInv, PluginsTyped, RegisteredIsLoaded
<1>4. ASSUME NEW other \in Users
      PROVE  LeftIsLoaded(other)'
  BY <1>1, FreeTyped DEF PluginsInv, LeftIsLoaded
<1>5. ASSUME ~crossed
      PROVE  TurnsTaken'
  <2>1. ASSUME NEW other \in Users, NEW name \in PluginNames, Uninstalls(other, name)'
        PROVE  other # u /\ Uninstalls(other, name)
    BY <1>1, <2>1, FreeTyped DEF Uninstalls
  <2>2. ASSUME NEW other \in Users, NEW name \in PluginNames, Uninstalls(other, name)'
        PROVE  name # ujob[u].name
    BY <1>5, <2>1, <2>2 DEF PluginsInv, TurnsTaken, Uninstalls
  <2>3. QED
    BY <1>1, <1>2, <1>5, <2>1, <2>2 DEF PluginsInv, TurnsTaken
<1>6. Turn
  BY <1>2 DEF PluginsInv, PluginsTyped, TurnsTaken, Uninstalls, Turn
<1>7. QED
  BY <1>3, <1>4, <1>5, <1>6 DEF PluginsInv

LEMMA HookEndsKeepsInv ==
  ASSUME PluginsInv, NEW u \in Users, HookEnds(u)
  PROVE  PluginsInv' /\ Turn
<1>1. CASE /\ ujob[u].kind = "uninstall"
           /\ plugins' = [plugins EXCEPT ![ujob[u].name] = NoPlugin]
           /\ bidden' = bidden \cup {ujob[u].inst}
           /\ UEnd(u) /\ UNCHANGED hooks
  BY <1>1, UninstalledKeepsInv DEF HookEnds
<1>2. CASE ujob[u].kind = "discover" /\ RegisterNext(u, ujob[u].left)
  <2>1. PICK found : found = ujob[u].left
    OBVIOUS
  <2>2. found \in Seq(Instances) /\ UNCHANGED <<status, crossed>>
    BY <2>1 DEF HookEnds, PluginsInv, PluginsTyped, UJob
  <2>3. \A k \in 1 .. Len(found) : status'[found[k]] # "none"
    BY <2>1, <2>2 DEF PluginsInv, LeftIsLoaded
  <2>4. QED
    BY <1>2, <2>1, <2>2, <2>3, StillLoads, RegisterNextKeepsInv
<1>3. CASE UEnd(u) /\ UNCHANGED <<plugins, hooks>>
  BY <1>3, StillLoads, EndKeepsInv DEF HookEnds
<1>4. QED
  BY <1>1, <1>2, <1>3 DEF HookEnds

LEMMA PluginsStepKeepsInv ==
  ASSUME PluginsInv, [PluginsNext]_pluginVars
  PROVE  PluginsInv' /\ [Turn]_pluginVars
<1>1. CASE PluginsNext
  <2>1. PluginsInv' /\ Turn
    BY <1>1, InstallKeepsInv, EnableKeepsInv, DisableKeepsInv, UninstallKeepsInv,
       DiscoverKeepsInv, FailureKeepsInv, HookEndsKeepsInv, LoadedKeepsInv,
       DiscoveredKeepsInv DEF PluginsNext
  <2>2. QED
    BY <2>1
<1>2. CASE UNCHANGED pluginVars
  <2>1. UNCHANGED <<plugins, status, hooks, ujob, crossed>>
    BY <1>2 DEF pluginVars
  <2>2. PluginsInv'
    BY <2>1 DEF PluginsInv, PluginsTyped, RegisteredIsLoaded, LeftIsLoaded, TurnsTaken,
                Uninstalls
  <2>3. QED
    BY <1>2, <2>2
<1>3. QED
  BY <1>1, <1>2

LEMMA PluginsStartInInv == PluginsInit => PluginsInv
<1> SUFFICES ASSUME PluginsInit PROVE PluginsInv
  OBVIOUS
<1>1. PluginsTyped /\ RegisteredIsLoaded
  BY FreeTyped DEF PluginsInit, PluginsTyped, RegisteredIsLoaded, Statuses
<1>2. \A u \in Users : LeftIsLoaded(u) /\ ujob[u].kind = "none"
  BY FreeTyped DEF PluginsInit, LeftIsLoaded
<1>3. ASSUME NEW i \in Instances
      PROVE  HooksFit(hooks[i], status[i])
  <2>1. hooks[i] = <<>> /\ status[i] = "none" /\ Len(hooks[i]) = 0
    BY DEF PluginsInit
  <2>2. QED
    BY <2>1 DEF HooksFit, Alternate, Agree, Statuses
<1>4. TurnsTaken
  BY <1>2 DEF TurnsTaken, Uninstalls
<1>5. QED
  BY <1>1, <1>2, <1>3, <1>4 DEF PluginsInv

LEMMA PluginsInvHolds == PluginsSpec => []PluginsInv
<1>1. PluginsInv /\ [PluginsNext]_pluginVars => PluginsInv'
  BY PluginsStepKeepsInv
<1>2. QED
  BY <1>1, PluginsStartInInv, PTL DEF PluginsSpec

\* PluginManager.enable and disable set the status before they await the hook:
\* whoever asks at the same time, and whatever hook fails, no instance is told
\* twice in a row to be enabled, or to be disabled.
THEOREM SwitchesAlternate == PluginsSpec => []HooksAlternate
<1>1. PluginsInv => HooksAlternate
  BY DEF PluginsInv, HooksFit, Alternate, HooksAlternate
<1>2. QED
  BY <1>1, PluginsInvHolds, PTL

\* PluginManager.install and discover register under free names only, and what
\* uninstall removes is what its hook was told, if no two uninstall one name.
THEOREM NamesAreNotTaken == PluginsSpec => PluginsTakeTurns
<1>1. PluginsInv /\ [PluginsNext]_pluginVars => [Turn]_pluginVars
  BY PluginsStepKeepsInv
<1>2. PluginsSpec => [][Turn]_pluginVars
  BY <1>1, PluginsInvHolds, PTL DEF PluginsSpec
<1>3. QED
  BY <1>2 DEF Turn, PluginsTakeTurns

================================================================================
