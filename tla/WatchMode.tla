------------------------------ MODULE WatchMode ------------------------------
(***************************************************************************)
(* watch_mode of src/cli/src/main.rs: it tests one exercise at a time, is  *)
(* told of saved files through a channel filled by the watcher's thread,   *)
(* reads keys, and jumps to the next unfinished exercise after a pass.     *)
(* The user edits the exercises at any moment, while a test runs included. *)
(*                                                                         *)
(* A run of cargo reads the sources at one instant between its start and   *)
(* its end.  The channel carries unit values and is only ever tested for   *)
(* emptiness, so fs_rx is a Boolean; inflight counts the notifications     *)
(* that the kernel and the watcher's thread have not sent on yet.  What    *)
(* is drawn is added by Panels.                                            *)
(***************************************************************************)
EXTENDS Naturals

CONSTANTS
    Total,        \* the number of exercises
    MaxInflight   \* bound: notifications on their way at one time

ASSUME WatchModeAssumption == Total \in Nat \ {0} /\ MaxInflight \in Nat \ {0}

Exercises == 0 .. Total - 1

VARIABLES
    solved,        \* whether each exercise's files pass its tests now
    inflight,      \* notifications the watcher's thread has still to send
    fs_rx,         \* whether the channel holds a notification
    pc,            \* where watch_mode is
    scanned,       \* the exercises checked so far by the first scan
    done, current, needs_retest,
    result,        \* the verdict of the run that has just ended
    last_result,   \* the verdict on the screen and the exercise it is of
    failed,        \* history: exercises whose latest run failed
    broken         \* history: exercises edited from passing to failing

session == <<scanned, done, current, needs_retest, result, last_result, failed>>
vars == <<solved, inflight, fs_rx, pc, session, broken>>

NoResult == [of |-> Total, passed |-> FALSE]

TypeOK ==
    /\ solved \in [Exercises -> BOOLEAN]
    /\ inflight \in 0 .. MaxInflight
    /\ fs_rx \in BOOLEAN
    /\ pc \in {"scan", "top", "compiling", "tested", "keys", "files",
               "settling", "congratulating", "ended"}
    /\ scanned \in 0 .. Total
    /\ done \in [Exercises -> BOOLEAN]
    /\ current \in 0 .. Total
    /\ needs_retest \in BOOLEAN
    /\ result \in BOOLEAN
    /\ last_result \in [of : 0 .. Total, passed : BOOLEAN]
    /\ failed \in SUBSET Exercises
    /\ broken \in SUBSET Exercises

Init ==
    /\ solved \in [Exercises -> BOOLEAN]
    /\ inflight = 0
    /\ fs_rx = FALSE
    /\ pc = "scan"
    /\ scanned = 0
    /\ done = [e \in Exercises |-> FALSE]
    /\ current = Total
    /\ needs_retest = TRUE
    /\ result = FALSE
    /\ last_result = NoResult
    /\ failed = {}
    /\ broken = {}

Ran(e, passed) == failed' = IF passed THEN failed \ {e} ELSE failed \cup {e}

-----------------------------------------------------------------------------
\* The user saves a file of exercise e.  Nobody listens during the scan.
Watching == pc \notin {"scan", "ended"}

Save(e, passes) ==
    /\ Watching => inflight < MaxInflight
    /\ solved' = [solved EXCEPT ![e] = passes]
    /\ inflight' = IF Watching THEN inflight + 1 ELSE inflight
    /\ broken' = IF solved[e] /\ ~passes THEN broken \cup {e} ELSE broken
    /\ UNCHANGED <<fs_rx, pc, session>>

\* The watcher's callback: fs_tx.send(()).
Notify ==
    /\ inflight > 0
    /\ inflight' = inflight - 1
    /\ fs_rx' = TRUE
    /\ UNCHANGED <<solved, pc, session, broken>>

\* The scan at the start: test_quiet of every exercise in turn.
ScanOne ==
    LET e == scanned IN
    /\ pc = "scan" /\ scanned < Total
    /\ scanned' = scanned + 1
    /\ done' = [done EXCEPT ![e] = solved[e]]
    /\ current' = IF ~solved[e] /\ current = Total THEN e ELSE current
    /\ Ran(e, solved[e])
    /\ UNCHANGED <<solved, inflight, fs_rx, pc, needs_retest, result, last_result, broken>>

\* Everything passed: say so and return.  Otherwise start the watcher.
ScanEnds ==
    /\ pc = "scan" /\ scanned = Total
    /\ pc' = IF current = Total THEN "ended" ELSE "top"
    /\ UNCHANGED <<solved, inflight, fs_rx, session, broken>>

-----------------------------------------------------------------------------
StartTest ==
    /\ pc = "top" /\ needs_retest
    /\ pc' = "compiling"
    /\ UNCHANGED <<solved, inflight, fs_rx, session, broken>>

\* cargo reads the files as they are now.
CargoReads ==
    /\ pc = "compiling"
    /\ result' = solved[current]
    /\ Ran(current, solved[current])
    /\ pc' = "tested"
    /\ UNCHANGED <<solved, inflight, fs_rx, scanned, done, current,
                   needs_retest, last_result, broken>>

\* The first unfinished exercise after `from`, around the end of the list and
\* up to `from` itself; Total stands for None.
NextWithoutWrap(d, from) ==  \* mutant: the search stops at the end of the list
    LET after == {e \in Exercises : e > from /\ ~d[e]}
    IN  IF after = {} THEN Total ELSE CHOOSE e \in after : \A f \in after : e <= f
NextAlways(d, from) == (from + 1) % Total  \* mutant: done is not looked at
find_next_incomplete(d, from) ==
    LET ahead == {i \in 1 .. Total : ~d[(from + i) % Total]}
    IN  IF ahead = {} THEN Total
        ELSE (from + (CHOOSE i \in ahead : \A j \in ahead : i <= j)) % Total

TestPassed ==
    LET now == [done EXCEPT ![current] = TRUE]
        next == find_next_incomplete(now, current) IN
    /\ pc = "tested" /\ result
    /\ done' = now
    /\ IF next = Total
       THEN /\ pc' = "congratulating"
            /\ UNCHANGED <<current, last_result>>
       ELSE /\ pc' = "top"
            /\ current' = next
            /\ last_result' = [of |-> current, passed |-> TRUE]
    /\ UNCHANGED <<solved, inflight, fs_rx, scanned, needs_retest, result, failed, broken>>

FailedDrains ==  \* mutant: what was saved during the test is taken for noise
    /\ pc = "tested" /\ ~result
    /\ last_result' = [of |-> current, passed |-> FALSE]
    /\ needs_retest' = FALSE
    /\ fs_rx' = FALSE
    /\ pc' = "keys"
    /\ UNCHANGED <<solved, inflight, scanned, done, current, result, failed, broken>>
TestFailed ==
    /\ pc = "tested" /\ ~result
    /\ last_result' = [of |-> current, passed |-> FALSE]
    /\ needs_retest' = FALSE
    /\ pc' = "keys"
    /\ UNCHANGED <<solved, inflight, fs_rx, scanned, done, current, result, failed, broken>>

-----------------------------------------------------------------------------
\* One turn of the event loop reads at most one key, then looks at the channel.
NoKey ==
    /\ pc = "keys"
    /\ pc' = "files"
    /\ UNCHANGED <<solved, inflight, fs_rx, session, broken>>

\* `n`, `p`, and `r` or Enter.
MoveOnly(to) ==  \* mutant: the exercise changes, the verdict does not
    /\ pc = "keys"
    /\ current' = to
    /\ pc' = "files"
    /\ UNCHANGED <<solved, inflight, fs_rx, scanned, done, needs_retest, result,
                   last_result, failed, broken>>
Move(to) ==
    /\ pc = "keys"
    /\ current' = to
    /\ needs_retest' = TRUE
    /\ pc' = "files"
    /\ UNCHANGED <<solved, inflight, fs_rx, scanned, done, result, last_result, failed, broken>>

KeyNext == Move((current + 1) % Total)
KeyPrevious == Move(IF current > 0 THEN current - 1 ELSE Total - 1)
KeyRetest == Move(current)

\* `q`, Esc or Ctrl-C, in the event loop or in wait_for_quit.
Quit ==
    /\ pc \in {"keys", "congratulating"}
    /\ pc' = "ended"
    /\ UNCHANGED <<solved, inflight, fs_rx, session, broken>>

\* The files were not touched: back to the top of the loop.
NoFileEvent ==
    /\ pc = "files" /\ ~fs_rx
    /\ pc' = IF needs_retest THEN "top" ELSE "keys"
    /\ UNCHANGED <<solved, inflight, fs_rx, session, broken>>

\* A notification: drain the channel, sleep, drain it again, then retest.
FileEvent ==
    /\ pc = "files" /\ fs_rx
    /\ fs_rx' = FALSE
    /\ pc' = "settling"
    /\ UNCHANGED <<solved, inflight, session, broken>>

Settled ==
    /\ pc = "settling"
    /\ fs_rx' = FALSE
    /\ needs_retest' = TRUE
    /\ pc' = "top"
    /\ UNCHANGED <<solved, inflight, scanned, done, current, result, last_result, failed, broken>>

-----------------------------------------------------------------------------
Program ==
    \/ ScanOne \/ ScanEnds
    \/ StartTest \/ CargoReads \/ TestPassed \/ TestFailed
    \/ NoKey \/ KeyNext \/ KeyPrevious \/ KeyRetest
    \/ NoFileEvent \/ FileEvent \/ Settled

Next ==
    \/ Program
    \/ Quit
    \/ Notify
    \/ \E e \in Exercises, passes \in BOOLEAN : Save(e, passes)

\* The program runs, a test run ends, and notifications are delivered; the
\* user need not save, nor press any key (event::poll times out).
Fairness == WF_vars(Program) /\ WF_vars(Notify)

Spec == Init /\ [][Next]_vars /\ Fairness

-----------------------------------------------------------------------------
\* VerdictOfCurrent: while the event loop waits for a key the verdict on the
\* screen is a failure of the exercise named in the header: moving or jumping
\* away never leaves another exercise's output on the screen.
VerdictOfCurrent ==
    pc = "keys" => last_result = [of |-> current, passed |-> FALSE]

\* NoSaveMissed: if the exercise on the screen passes by now, the save that
\* repaired it is still going to be noticed: no save is lost to the drains, to
\* the test that was running, or to the watcher's late start.
NoSaveMissed ==
    pc \in {"keys", "files"} /\ solved[current] =>
        inflight > 0 \/ fs_rx \/ needs_retest

\* CongratulationsEarned: "All exercises passed!" is shown only if every
\* exercise passes or was broken again by an edit after it had passed.
CongratulationsEarned ==
    pc = "congratulating" => \A e \in Exercises : solved[e] \/ e \in broken

\* SolvedSessionEnds: once every exercise passes for good, watch mode tests
\* its way through the unfinished ones to the congratulations, whichever keys
\* are pressed.
SolvedSessionEnds ==
    <>[](\A e \in Exercises : solved[e]) => <>(pc \in {"congratulating", "ended"})

\* ShownFailuresCount: "All {total} exercises passed!" (line 240) is not shown
\* when the latest test of some exercise failed on the screen.
ShownFailuresCount == pc = "congratulating" => failed = {}
=============================================================================
