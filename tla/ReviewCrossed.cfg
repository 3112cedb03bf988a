SPECIFICATION FairReviewSpec
CONSTANTS
  p1 = p1
  p2 = p2
  q1 = q1
  q2 = q2
  s1 = s1
  s2 = s2
  t1 = t1
  t2 = t2
  Runs = {1, 2}
  Groups = {1, 2}
  Proposals = {p1, p2, q1, q2, s1, s2, t1, t2}
  RunOf <- Crossed
  GroupOf <- CrossedGroups
  Rank <- CrossedRank
  Original <- CrossedPayloads
  Payloads <- Values
  Selections <- CrossedSelections
  Actions = {"accept"}
  Calls = {c1, c2}
  Keys = {k1}
  MaxTries = 2
  NoGroup = NoGroup
  Free = Free
  NoCommand = NoCommand
CHECK_DEADLOCK FALSE
PROPERTY EveryRequestAnswered
