--------------------------------- MODULE Skills ---------------------------------
(***************************************************************************)
(* The skills of a session, src/skills/manager.ts: which are registered,   *)
(* which are enabled, and what each requires.  Every operation is          *)
(* synchronous; a name that is free again may be registered with other     *)
(* requirements.                                                           *)
(***************************************************************************)
EXTENDS Integers

CONSTANTS
  SkillNames,
  MaxUses     \* bound on usageCount

VARIABLES
  registered,   \* the keys of the Map
  requires,     \* definition.requires of each
  enabled,      \* those whose instance is enabled
  usageCount

skillVars == <<registered, requires, enabled, usageCount>>

\* Mutant: a definition takes the place of one of its name.
RegisterOver(name, needs) ==
  /\ needs \subseteq registered
  /\ registered' = registered \cup {name}
  /\ requires' = [requires EXCEPT ![name] = needs]
  /\ enabled' = enabled \ {name}
  /\ usageCount' = [usageCount EXCEPT ![name] = 0]

\* A name is registered once, after what it requires.
RegisterSkill(name, needs) ==
  /\ name \notin registered
  /\ needs \subseteq registered
  /\ registered' = registered \cup {name}
  /\ requires' = [requires EXCEPT ![name] = needs]
  /\ enabled' = enabled \ {name}
  /\ usageCount' = [usageCount EXCEPT ![name] = 0]

\* Refused while a registered skill requires it; enabled or not, it may go.
UnregisterSkill(name) ==
  /\ name \in registered
  /\ \A other \in registered : name \notin requires[other]
  /\ registered' = registered \ {name}
  /\ enabled' = enabled \ {name}
  /\ requires' = [requires EXCEPT ![name] = {}]
  /\ usageCount' = [usageCount EXCEPT ![name] = 0]

\* What `enable` reaches when it enables the requirements first.
ClosedUnderRequires(S) == \A other \in S : requires[other] \cap registered \subseteq S
Needs(name) ==
  {other \in registered :
     \A S \in SUBSET registered : name \in S /\ ClosedUnderRequires(S) => other \in S}

EnableSkill(name) ==
  /\ name \in registered
  /\ enabled' = enabled \cup Needs(name)
  /\ UNCHANGED <<registered, requires, usageCount>>

\* Mutant: nobody asks who requires it.
DisableUnchecked(name) ==
  /\ name \in registered
  /\ enabled' = enabled \ {name}
  /\ UNCHANGED <<registered, requires, usageCount>>

\* Refused while an enabled skill requires it.
DisableSkill(name) ==
  /\ name \in registered
  /\ \A other \in enabled : name \notin requires[other]
  /\ enabled' = enabled \ {name}
  /\ UNCHANGED <<registered, requires, usageCount>>

\* Of any registered skill that has the template, enabled or not.
ExecuteTemplate(name) ==
  /\ name \in registered
  /\ usageCount[name] < MaxUses
  /\ usageCount' = [usageCount EXCEPT ![name] = @ + 1]
  /\ UNCHANGED <<registered, requires, enabled>>

SkillsInit ==
  /\ registered = {}
  /\ requires = [name \in SkillNames |-> {}]
  /\ enabled = {}
  /\ usageCount = [name \in SkillNames |-> 0]

SkillsNext ==
  \E name \in SkillNames :
    \/ \E needs \in SUBSET SkillNames : RegisterSkill(name, needs)
    \/ UnregisterSkill(name) \/ EnableSkill(name) \/ DisableSkill(name) \/ ExecuteTemplate(name)

SkillsSpec == SkillsInit /\ [][SkillsNext]_skillVars

================================================================================
