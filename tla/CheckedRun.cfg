\* Three analyses with results shorter and longer than their failures.
SPECIFICATION Spec
CONSTANTS
  N = 3
  ResultSizes = {1, 2, 3}
  ResourceSize <- ThreeResource
  FallbackSize <- ThreeFallback
  Reserve = 4
  Limit = 6
  MaxFaults = 2
CHECK_DEADLOCK FALSE
INVARIANTS BudgetIsKept EvidenceIsComplete SuccessIsChecked
