SPECIFICATION DeskSpec
CONSTANTS
  Request = {r1, r2, r3}
  Admin = {a1, a2}
  ConfigColumn <- MCConfigColumn
  NewConfig <- MCNewConfig
  ConfigUpdate <- MCConfigUpdate
  Unset = Unset
  Member = {m1, m2}
  Case = {c1, c2}
  Check = {k1, k2}
  Tally <- MCTally
  Review <- MCReview
  NoCase = NoCase
SYMMETRY Symmetry
INVARIANTS AdminTypeOK ReasonMeansRejected ValuesAudited DecisionAudited
  FraudTypeOK CollusionTwoSided OpenMeansLocked LockedHasReason
PROPERTY UnnamedColumnsKept
CHECK_DEADLOCK FALSE
