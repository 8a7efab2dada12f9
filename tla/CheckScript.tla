----------------------------- MODULE CheckScript -----------------------------
(***************************************************************************)
(* The loop of src/check.sh over its list of exercises, under `set -e`.    *)
(***************************************************************************)
EXTENDS Naturals

CONSTANTS
    Total,      \* the number of exercises
    Module4     \* the numbers of those that need riscv64, which follow another

VARIABLES
    next,               \* the exercise to check
    PASS, FAIL, SKIP,
    darwin,             \* uname -s
    arithmetic_fails,   \* whether `set -e` heeds (( )): bash 4.1 and later
    riscv64_ready,
    exit                \* the exit status, or "running"

vars == <<next, PASS, FAIL, SKIP, darwin, arithmetic_fails, riscv64_ready, exit>>

Init ==
    /\ next = 1 /\ PASS = 0 /\ FAIL = 0 /\ SKIP = 0
    /\ darwin \in BOOLEAN /\ arithmetic_fails \in BOOLEAN
    /\ riscv64_ready = FALSE /\ exit = "running"

\* ((c++)) yields the old value of c, and its status is 1 if that is 0.
AfterIncrement(c) == IF c = 0 /\ arithmetic_fails THEN "1" ELSE "running"

NeedsSetup == next \in Module4 /\ ~riscv64_ready

\* ensure_riscv64_ready, before the first exercise of module 4, may give up.
Setup ==
    /\ exit = "running" /\ next <= Total /\ NeedsSetup
    /\ \/ riscv64_ready' = TRUE /\ UNCHANGED exit
       \/ ~darwin /\ exit' = "no riscv64" /\ UNCHANGED riscv64_ready
    /\ UNCHANGED <<next, PASS, FAIL, SKIP, darwin, arithmetic_fails>>

Check ==
    /\ exit = "running" /\ next <= Total /\ ~NeedsSetup
    /\ next' = next + 1
    /\ IF darwin /\ next \in Module4
       THEN SKIP' = SKIP + 1 /\ exit' = AfterIncrement(SKIP) /\ UNCHANGED <<PASS, FAIL>>
       ELSE \/ PASS' = PASS + 1 /\ exit' = AfterIncrement(PASS) /\ UNCHANGED <<FAIL, SKIP>>
            \/ FAIL' = FAIL + 1 /\ exit' = AfterIncrement(FAIL) /\ UNCHANGED <<PASS, SKIP>>
    /\ UNCHANGED <<darwin, arithmetic_fails, riscv64_ready>>

\* The summary.
Finish ==
    /\ exit = "running" /\ next > Total
    /\ exit' = IF FAIL = 0 THEN "0" ELSE "1"
    /\ UNCHANGED <<next, PASS, FAIL, SKIP, darwin, arithmetic_fails, riscv64_ready>>

Next == Setup \/ Check \/ Finish
Spec == Init /\ [][Next]_vars

-----------------------------------------------------------------------------
\* EveryExerciseChecked: "Checks each exercise's test status locally" (check.sh,
\* line 3): unless riscv64 cannot be set up, the script ends after its last
\* exercise, with 0 if and only if none failed.
EveryExerciseChecked ==
    exit \in {"0", "1"} =>
        /\ PASS + FAIL + SKIP = Total
        /\ exit = "0" <=> FAIL = 0
=============================================================================
