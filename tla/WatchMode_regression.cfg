SPECIFICATION Spec
CONSTANTS
    Total = 2
    MaxInflight = 1
INVARIANT ShownFailuresCount
