------------------------------ MODULE MCLifecycle ------------------------------
(***************************************************************************)
(* What lives through operations in any order, for TLC: governed Changes,  *)
(* the aggregates of the domain, skills and plugins.  A behaviour is about *)
(* one of them (`focus`): TLC explores their union, not their product.     *)
(***************************************************************************)
EXTENDS LifecycleProps, ExtensionsProps, TLC

CONSTANTS p1, p2, u1, u2, i1, i2, i3, none

VARIABLE focus

allVars == <<governedVars, domainVars, skillVars, pluginVars, focus>>

\* Governed Changes: two contents, two callers.
First  == [version |-> 1, digest |-> "d1"]
Second == [version |-> 1, digest |-> "d2"]
TwoSubjects == {First, Second}
On(subject, stage, decision) ==
  [stage |-> stage, decision |-> decision, version |-> subject.version, digest |-> subject.digest]
SomeDecisions ==
  {On(First, stage, "approve") : stage \in Stages}
    \cup {On(First, "task-plan", "reject")}
TwoActors == {p1, p2}

\* Plugins: three, two of one name.
AllInstances == {i1, i2, i3}
AllManifests == [i \in AllInstances |-> IF i = i3 THEN "other" ELSE "one"]
TwoUsers == {u1, u2}

Symmetry == Permutations(Actors) \cup Permutations(Users)

Init ==
  /\ focus \in {"governed", "domain", "skills", "plugins"}
  /\ GovernedInit /\ DomainInit /\ SkillsInit /\ PluginsInit

Next ==
  /\ UNCHANGED focus
  /\ \/ focus = "governed" /\ GovernedNext /\ UNCHANGED <<domainVars, skillVars, pluginVars>>
     \/ focus = "domain" /\ DomainNext /\ UNCHANGED <<governedVars, skillVars, pluginVars>>
     \/ focus = "skills" /\ SkillsNext /\ UNCHANGED <<governedVars, domainVars, pluginVars>>
     \/ focus = "plugins" /\ PluginsNext /\ UNCHANGED <<governedVars, domainVars, skillVars>>

Spec == Init /\ [][Next]_allVars

================================================================================
