------------------------------- MODULE OneShot -------------------------------
(***************************************************************************)
(* main of src/cli/src/main.rs and the commands that end by themselves:    *)
(* list, check, run and hint.  The user edits the exercises meanwhile.     *)
(***************************************************************************)
EXTENDS Naturals, Sequences, FiniteSets

CONSTANTS
    Total,      \* the number of exercises
    Packages    \* their packages: package i is that of exercise i

VARIABLES
    command, name,  \* the arguments; NoName stands for none
    step,           \* where the command is
    solved,         \* whether each exercise passes its tests now
    broken,         \* history: exercises edited from passing to failing
    printed,        \* the verdicts printed so far, in the order of the list
    counted,        \* the local `done`
    praised,        \* whether "All passed!" was printed
    exit            \* the exit status

vars == <<command, name, step, solved, broken, printed, counted, praised, exit>>

Exercises == 0 .. Total - 1
NoName == "no name"
Batch == {"list", "check"}
Named == {"run", "hint"}

Init ==
    /\ command = "none" /\ name = NoName /\ step = "none"
    /\ solved \in [Exercises -> BOOLEAN] /\ broken = {}
    /\ printed = <<>> /\ counted = 0 /\ praised = FALSE /\ exit = 0

Ends(status) == step' = "ended" /\ exit' = status

\* main: exercises.toml is loaded before the command is looked at.
Start(loaded) ==
    /\ step = "none"
    /\ command' \in Batch \cup Named \cup {"help", "other"}
    /\ name' \in {NoName, "unknown"} \cup {Packages[i] : i \in DOMAIN Packages}
    /\ CASE ~loaded \/ command' = "other" -> Ends(1)
         [] loaded /\ command' = "help" -> Ends(0)
         [] OTHER -> step' = command' /\ UNCHANGED exit
    /\ UNCHANGED <<solved, broken, printed, counted, praised>>

Edit(e, passes) ==
    /\ solved' = [solved EXCEPT ![e] = passes]
    /\ broken' = IF solved[e] /\ ~passes THEN broken \cup {e} ELSE broken
    /\ UNCHANGED <<command, name, step, printed, counted, praised, exit>>

-----------------------------------------------------------------------------
\* list_mode, check_mode: test_quiet of one exercise after the other.
CountAll(passed) == counted + 1  \* mutant: a failure is counted as well
Counted(passed) == IF passed THEN counted + 1 ELSE counted

TestQuiet ==
    /\ step \in Batch /\ Len(printed) < Total
    /\ LET passed == solved[Len(printed)] IN
       /\ printed' = Append(printed, passed)
       /\ counted' = Counted(passed)
    /\ UNCHANGED <<command, name, step, solved, broken, praised, exit>>

Summary ==
    /\ step \in Batch /\ Len(printed) = Total
    /\ praised' = (step = "check" /\ counted = Total)
    /\ Ends(0)
    /\ UNCHANGED <<command, name, solved, broken, printed, counted>>

\* find_exercise: the first with this package; its message and exit(1) if none.
Found == {i \in DOMAIN Packages : Packages[i] = name}

NotFound ==
    /\ step \in Named /\ (name = NoName \/ Found = {})
    /\ Ends(1)
    /\ UNCHANGED <<command, name, solved, broken, printed, counted, praised>>

\* run_mode prints the verdict of one run, and the status stays 0.
Run ==
    /\ step = "run" /\ Found # {}
    /\ printed' = <<solved[(CHOOSE i \in Found : \A j \in Found : i <= j) - 1]>>
    /\ Ends(0)
    /\ UNCHANGED <<command, name, solved, broken, counted, praised>>

Hint ==
    /\ step = "hint" /\ Found # {}
    /\ Ends(0)
    /\ UNCHANGED <<command, name, solved, broken, printed, counted, praised>>

CommandStep == TestQuiet \/ Summary \/ NotFound \/ Run \/ Hint
Next ==
    \/ \E loaded \in BOOLEAN : Start(loaded)
    \/ CommandStep
    \/ \E e \in Exercises, passes \in BOOLEAN : Edit(e, passes)

\* cargo's runs end.
Fairness == WF_vars(CommandStep)

-----------------------------------------------------------------------------
\* CommandEnds: a command that starts ends.
CommandEnds == step \in Batch \cup Named ~> step = "ended"

\* ReportTrue: a batch ends with one verdict for each exercise; their sum is
\* printed, and "All passed!" only if every exercise passes or was broken
\* again by an edit, in whatever order it was saved.
ReportTrue ==
    step = "ended" =>
        /\ exit = 0 /\ command \in Batch =>
              /\ Len(printed) = Total
              /\ counted = Cardinality({i \in 1..Total : printed[i]})
        /\ praised => \A e \in Exercises : solved[e] \/ e \in broken
=============================================================================
