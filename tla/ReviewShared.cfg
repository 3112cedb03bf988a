SPECIFICATION ReviewSpec
CONSTANTS
  p1 = p1
  p2 = p2
  q1 = q1
  q2 = q2
  s1 = s1
  s2 = s2
  t1 = t1
  t2 = t2
  Runs = {1, 2}
  Groups = {1}
  Proposals = {p1, p2, q1, q2}
  RunOf <- Shared
  GroupOf <- SharedGroups
  Rank <- OneRunRank
  Original <- SharedPayloads
  Payloads <- OneValue
  Selections <- SharedSelections
  Actions = {"accept", "reject", "merge", "correct"}
  Calls = {c1, c2}
  Keys = {k1, k2}
  MaxTries = 3
  NoGroup = NoGroup
  Free = Free
  NoCommand = NoCommand
SYMMETRY Symmetric
CHECK_DEADLOCK FALSE
INVARIANTS ContradictionsGrouped LockingIsSound
PROPERTIES AdjudicationFinal
