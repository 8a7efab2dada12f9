SPECIFICATION Spec
CONSTANTS
    Total = 4
    Module4 = {2, 3}
INVARIANT
    EveryExerciseChecked
CHECK_DEADLOCK FALSE
