\* Two callers on one Change with two contents, five records, one call that overlaps
\* another or has a stamp of before; a Specification of
\* two requirements and two scenarios; three skills with any requirements; two
\* callers of the plugin manager, three plugins, two of one name.
SPECIFICATION Spec
CONSTANTS
  p1 = p1  p2 = p2  u1 = u1  u2 = u2  i1 = i1  i2 = i2  i3 = i3  none = none
  Digests = {"d1", "d2"}
  Actors <- TwoActors
  Subjects <- TwoSubjects
  Decidable <- SomeDecisions
  MaxRecords = 5
  MaxCrossings = 1
  RequirementIds = {"r1", "r2"}
  ScenarioIds = {"s1", "s2"}
  SkillNames = {"a", "b", "c"}
  MaxUses = 1
  PluginNames = {"one", "other"}
  Instances <- AllInstances
  ManifestOf <- AllManifests
  Users <- TwoUsers
  NoPlugin = none
  MaxHooks = 3
SYMMETRY Symmetry
INVARIANTS
  RecordsAreApproved
  HistoryIsALadder
  EnabledHasItsRequirements
  NoRequirementCycle
  HooksAlternate
PROPERTIES
  WhatIsReviewedStands
  PluginsTakeTurns
CHECK_DEADLOCK FALSE
