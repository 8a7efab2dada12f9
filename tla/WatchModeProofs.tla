--------------------------- MODULE WatchModeProofs ---------------------------
(* Theorems about the CLI: WatchMode and what Panels draws of it, for every *)
(* number of exercises and of notifications on their way, and OneShot.     *)
EXTENDS MC_Cli, LeastElement, Sequences, FiniteSetTheorems, TLAPS

\* The loop: a test is always wanted on the way to one, and an old verdict
\* stays on the screen only while it is the verdict of the current exercise.
Loop ==
    /\ pc \in {"scan", "top", "compiling", "tested"} => needs_retest
    /\ pc \in {"keys", "files"} /\ ~needs_retest =>
          last_result = [of |-> current, passed |-> FALSE]
    /\ pc = "keys" => ~needs_retest
    /\ pc \notin {"scan", "ended"} => current \in Exercises

\* A failure that the files do not deserve any more has a notification on the
\* way from the moment cargo read the files.
Pending ==
    /\ pc = "tested" /\ ~result /\ solved[current] => inflight > 0 \/ fs_rx
    /\ NoSaveMissed

\* Whatever counts as done passed once, also between cargo's reading and the
\* record of its verdict.
Earned ==
    /\ \A e \in Exercises : done[e] => solved[e] \/ e \in broken
    /\ pc = "tested" /\ result => solved[current] \/ current \in broken
    /\ pc = "congratulating" => \A e \in Exercises : done[e]

Inv == TypeOK /\ Loop /\ Pending /\ Earned

\* Every exercise is at some distance in 1 .. Total after any other one,
\* around the end of the list.
LEMMA AroundTheList ==
    ASSUME NEW from \in Exercises, NEW e \in Exercises
    PROVE  \E i \in 1 .. Total : (from + i) % Total = e
  <1>. USE WatchModeAssumption DEF WatchModeAssumption, Exercises
  <1>1. CASE e > from
    <2>1. e - from \in 1 .. Total /\ from + (e - from) = e
      BY <1>1
    <2>2. e % Total = e
      OBVIOUS
    <2>. QED  BY <2>1, <2>2
  <1>2. CASE e <= from
    <2>1. Total - from + e \in 1 .. Total /\ from + (Total - from + e) = Total + e
      BY <1>2
    <2>2. (Total + e) % Total = e
      OBVIOUS
    <2>. QED  BY <2>1, <2>2
  <1>. QED  BY <1>1, <1>2

\* find_next_incomplete returns an exercise or None, and None only if nothing
\* is left.
LEMMA NextIncomplete ==
    ASSUME NEW d \in [Exercises -> BOOLEAN], NEW from \in Exercises
    PROVE  /\ find_next_incomplete(d, from) \in 0 .. Total
           /\ find_next_incomplete(d, from) = Total => \A e \in Exercises : d[e]
  <1>. DEFINE ahead == {i \in 1 .. Total : ~d[(from + i) % Total]}
  <1>1. CASE ahead = {}
    BY <1>1, AroundTheList, WatchModeAssumption
       DEF find_next_incomplete, WatchModeAssumption
  <1>2. CASE ahead # {}
    <2>1. PICK i \in ahead : \A j \in ahead : i <= j
      <3>1. ahead \subseteq Nat
        BY WatchModeAssumption DEF WatchModeAssumption
      <3>. HIDE DEF ahead
      <3>. QED  BY <1>2, <3>1, LeastNat
    <2>. DEFINE k == CHOOSE x \in ahead : \A j \in ahead : x <= j
    <2>2. k \in 1 .. Total
      BY <2>1
    <2>3. find_next_incomplete(d, from) = (from + k) % Total
      BY <1>2 DEF find_next_incomplete
    <2>. HIDE DEF k
    <2>4. (from + k) % Total \in 0 .. Total - 1
      BY <2>2, WatchModeAssumption DEF WatchModeAssumption, Exercises
    <2>. QED  BY <2>3, <2>4, WatchModeAssumption DEF WatchModeAssumption
  <1>. QED  BY <1>1, <1>2

-----------------------------------------------------------------------------
\* Every initial state satisfies the invariant.
LEMMA InitInv == Init => Inv
  <1>. SUFFICES ASSUME Init PROVE Inv
    OBVIOUS
  <1>. USE WatchModeAssumption DEF WatchModeAssumption, Init
  <1>1. TypeOK
    <2>1. last_result \in [of : 0 .. Total, passed : BOOLEAN] /\ current \in 0 .. Total
      BY DEF NoResult
    <2>2. done \in [Exercises -> BOOLEAN]
      OBVIOUS
    <2>3. inflight \in 0 .. MaxInflight /\ scanned \in 0 .. Total
      OBVIOUS
    <2>4. fs_rx \in BOOLEAN /\ needs_retest \in BOOLEAN /\ result \in BOOLEAN
      OBVIOUS
    <2>5. failed \in SUBSET Exercises /\ broken \in SUBSET Exercises
      OBVIOUS
    <2>. HIDE WatchModeAssumption DEF WatchModeAssumption
    <2>. QED  BY <2>1, <2>2, <2>3, <2>4, <2>5, Zenon DEF TypeOK
  <1>2. Loop /\ Pending
    BY DEF Loop, Pending, NoSaveMissed
  <1>3. Earned
    BY DEF Earned
  <1>. QED  BY <1>1, <1>2, <1>3 DEF Inv

\* A save of the current exercise is on its way in the state that it makes.
LEMMA SaveKeeps ==
    ASSUME Inv, NEW e \in Exercises, NEW passes \in BOOLEAN, Save(e, passes)
    PROVE  Inv'
  <1>. USE WatchModeAssumption
       DEF WatchModeAssumption, Inv, Save, session, Watching, Exercises
  <1>1. TypeOK'
    BY DEF TypeOK
  <1>2. Loop'
    BY DEF Loop, TypeOK
  <1>3. Pending'
    BY DEF Pending, NoSaveMissed, TypeOK, Loop
  <1>4. Earned'
    BY DEF Earned, TypeOK, Loop
  <1>. QED  BY <1>1, <1>2, <1>3, <1>4

\* A notification only moves on.
LEMMA NotifyKeeps == Inv /\ Notify => Inv'
  BY WatchModeAssumption
     DEF WatchModeAssumption, Inv, TypeOK, Loop, Pending, NoSaveMissed, Earned,
         Notify, session, Exercises

\* The scan records what it sees; no test has been reported yet.
LEMMA ScanKeeps == Inv /\ (ScanOne \/ ScanEnds) => Inv'
  <1>. USE WatchModeAssumption DEF WatchModeAssumption, Inv, Exercises
  <1>1. ASSUME Inv, ScanOne PROVE Inv'
    <2>. USE <1>1 DEF ScanOne
    <2>1. TypeOK'
      BY DEF TypeOK, Ran
    <2>2. Loop' /\ Pending'
      BY DEF TypeOK, Loop, Pending, NoSaveMissed
    <2>3. Earned'
      BY DEF TypeOK, Earned
    <2>. QED  BY <2>1, <2>2, <2>3
  <1>2. ASSUME Inv, ScanEnds PROVE Inv'
    BY <1>2 DEF ScanEnds, session, TypeOK, Loop, Pending, NoSaveMissed, Earned
  <1>. QED  BY <1>1, <1>2

\* A test run: what cargo read is what its verdict says.
LEMMA TestKeeps == Inv /\ (StartTest \/ CargoReads \/ TestPassed \/ TestFailed) => Inv'
  <1>. USE WatchModeAssumption DEF WatchModeAssumption, Inv
  <1>1. ASSUME Inv, StartTest PROVE Inv'
    BY <1>1 DEF StartTest, session, TypeOK, Loop, Pending, NoSaveMissed, Earned
  <1>2. ASSUME Inv, CargoReads PROVE Inv'
    <2>. USE <1>2 DEF CargoReads
    <2>1. current \in Exercises
      BY DEF Loop
    <2>2. TypeOK'
      BY <2>1 DEF TypeOK, Ran
    <2>3. Loop' /\ Pending' /\ Earned'
      BY <2>1 DEF TypeOK, Loop, Pending, NoSaveMissed, Earned
    <2>. QED  BY <2>2, <2>3
  <1>3. ASSUME Inv, TestPassed PROVE Inv'
    <2>. DEFINE now == [done EXCEPT ![current] = TRUE]
                next == find_next_incomplete(now, current)
    <2>1. current \in Exercises /\ now \in [Exercises -> BOOLEAN]
      BY <1>3 DEF TestPassed, Loop, TypeOK
    <2>2. /\ next \in 0 .. Total
          /\ next = Total => \A e \in Exercises : now[e]
      BY <2>1, NextIncomplete
    <2>3. /\ pc = "tested" /\ result /\ done' = now
          /\ IF next = Total
             THEN /\ pc' = "congratulating"
                  /\ UNCHANGED <<current, last_result>>
             ELSE /\ pc' = "top"
                  /\ current' = next
                  /\ last_result' = [of |-> current, passed |-> TRUE]
          /\ UNCHANGED <<solved, inflight, fs_rx, scanned, needs_retest, result, failed, broken>>
      BY <1>3 DEF TestPassed
    <2>4. \A e \in Exercises : now[e] = (done[e] \/ e = current)
      BY <1>3, <2>1 DEF TypeOK
    <2>. HIDE DEF next, now
    <2>5. TypeOK'
      <3>1. current' \in 0 .. Total /\ done' \in [Exercises -> BOOLEAN]
        BY <1>3, <2>1, <2>2, <2>3 DEF TypeOK
      <3>2. last_result' \in [of : 0 .. Total, passed : BOOLEAN]
        <4>1. last_result \in [of : 0 .. Total, passed : BOOLEAN] /\ current \in 0 .. Total
          BY <1>3 DEF TypeOK
        <4>2. [of |-> current, passed |-> TRUE] \in [of : 0 .. Total, passed : BOOLEAN]
          BY <4>1
        <4>3. \/ last_result' = last_result
              \/ last_result' = [of |-> current, passed |-> TRUE]
          BY <2>3
        <4>. QED  BY <4>1, <4>2, <4>3, Zenon
      <3>3. pc' \in {"top", "congratulating"}
        BY <2>3
      <3>. QED  BY <1>3, <2>3, <3>1, <3>2, <3>3 DEF TypeOK
    <2>6. Loop' /\ Pending'
      BY <1>3, <2>1, <2>2, <2>3 DEF TypeOK, Loop, Pending, NoSaveMissed, Exercises
    <2>7. Earned'
      BY <1>3, <2>1, <2>2, <2>3, <2>4 DEF Earned
    <2>. QED  BY <2>5, <2>6, <2>7
  <1>4. ASSUME Inv, TestFailed PROVE Inv'
    BY <1>4 DEF TestFailed, TypeOK, Loop, Pending, NoSaveMissed, Earned
  <1>. QED  BY <1>1, <1>2, <1>3, <1>4

\* A key leaves the verdict alone or asks for another test.
LEMMA KeyKeeps == Inv /\ (NoKey \/ KeyNext \/ KeyPrevious \/ KeyRetest \/ Quit) => Inv'
  <1>. USE WatchModeAssumption DEF WatchModeAssumption, Inv
  <1>1. ASSUME Inv, NoKey \/ Quit PROVE Inv'
    BY <1>1 DEF NoKey, Quit, session, TypeOK, Loop, Pending, NoSaveMissed, Earned
  <1>2. ASSUME Inv, NEW to \in Exercises, Move(to) PROVE Inv'
    BY <1>2 DEF Move, Exercises, TypeOK, Loop, Pending, NoSaveMissed, Earned
  <1>3. ASSUME Inv, KeyNext \/ KeyPrevious \/ KeyRetest PROVE Inv'
    <2>1. PICK to \in Exercises : Move(to)
      <3>1. current \in Exercises
        BY <1>3 DEF KeyNext, KeyPrevious, KeyRetest, Move, Loop
      <3>2. /\ (current + 1) % Total \in Exercises
            /\ (IF current > 0 THEN current - 1 ELSE Total - 1) \in Exercises
        BY <3>1 DEF Exercises
      <3>. QED  BY <1>3, <3>1, <3>2 DEF KeyNext, KeyPrevious, KeyRetest
    <2>. QED  BY <1>2, <1>3, <2>1
  <1>. QED  BY <1>1, <1>3

\* The drains are followed by a test.
LEMMA FilesKeep == Inv /\ (NoFileEvent \/ FileEvent \/ Settled) => Inv'
  <1>1. ASSUME Inv, NoFileEvent PROVE Inv'
    BY <1>1 DEF NoFileEvent, session, Inv, TypeOK, Loop, Pending, NoSaveMissed, Earned
  <1>2. ASSUME Inv, FileEvent PROVE Inv'
    BY <1>2 DEF FileEvent, session, Inv, TypeOK, Loop, Pending, NoSaveMissed, Earned
  <1>3. ASSUME Inv, Settled PROVE Inv'
    BY <1>3 DEF Settled, Inv, TypeOK, Loop, Pending, NoSaveMissed, Earned
  <1>. QED  BY <1>1, <1>2, <1>3

\* Every step preserves the invariant.
LEMMA StepInv == Inv /\ [Next]_vars => Inv'
  <1>1. ASSUME Inv, UNCHANGED vars PROVE Inv'
    BY <1>1 DEF vars, session, Inv, TypeOK, Loop, Pending, NoSaveMissed, Earned
  <1>. QED
    BY <1>1, SaveKeeps, NotifyKeeps, ScanKeeps, TestKeeps, KeyKeeps, FilesKeep
       DEF Next, Program

\* The inductive invariant holds in every reachable state.
THEOREM Invariance == Spec => []Inv
  <1>. QED  BY InitInv, StepInv, PTL DEF Spec

\* The type invariant; in particular no key and no jump leaves the list.
THEOREM TypeCorrect == Spec => []TypeOK
  <1>1. Inv => TypeOK
    BY DEF Inv
  <1>. QED  BY <1>1, Invariance, PTL

\* While keys are read, the verdict on the screen is the current exercise's.
THEOREM VerdictIsOfCurrent == Spec => []VerdictOfCurrent
  <1>1. Inv => VerdictOfCurrent
    BY DEF Inv, Loop, VerdictOfCurrent
  <1>. QED  BY <1>1, Invariance, PTL

\* No save is lost to the two drains, the running test or the late watcher.
THEOREM SavesAreNoticed == Spec => []NoSaveMissed
  <1>1. Inv => NoSaveMissed
    BY DEF Inv, Pending
  <1>. QED  BY <1>1, Invariance, PTL

\* The congratulations are shown only if every exercise passes or was broken
\* by an edit after it had passed.
THEOREM CongratulationsAreEarned == Spec => []CongratulationsEarned
  <1>1. Inv => CongratulationsEarned
    BY DEF Inv, Earned, CongratulationsEarned
  <1>. QED  BY <1>1, Invariance, PTL

-----------------------------------------------------------------------------
(* The screen. *)

\* What ScreenTells asks of the screen, in all of a turn of the event loop that
\* does not end in a test: the turn that a key begins returns to "keys" without
\* drawing.
Told ==
    /\ screen.of = current /\ screen.done = done
    /\ screen.view # "list" => screen.verdict = last_result
    /\ screen.hint => show_hint
    /\ screen.view = IF show_list /\ screen.view = "list" THEN "list" ELSE "verdict"
Shown == pc \in {"keys", "files"} /\ ~needs_retest => Told

\* On WatchMode's variables every step that draws is a step of WatchMode.
LEMMA PanelsStep == PanelsNext => Next
  BY DEF PanelsNext, DrawTesting, DrawPassed, DrawFailed, KeyHint, KeyList, DrawNothing,
         Next, Program

\* h and l draw the current state, and their flags.
LEMMA RedrawTells ==
    ASSUME UNCHANGED <<current, done, last_result>>,
           NEW hint \in BOOLEAN, NEW list \in BOOLEAN,
           hint => show_hint', list => show_list', screen' = full_redraw(hint, list)
    PROVE  Told'
  <1>1. /\ screen'.of = current /\ screen'.done = done
        /\ ~list => screen'.verdict = last_result
        /\ screen'.hint => hint
        /\ screen'.view = IF list THEN "list" ELSE "verdict"
    BY DEF full_redraw, Drawn
  <1>. QED  BY <1>1 DEF Told

LEMMA ShownStep ==
    ASSUME Inv, Shown, show_hint \in BOOLEAN, show_list \in BOOLEAN,
           [PanelsNext]_<<vars, panelVars>>
    PROVE  Shown' /\ show_hint' \in BOOLEAN /\ show_list' \in BOOLEAN
  <1>1. CASE DrawTesting
    BY <1>1 DEF DrawTesting, StartTest, Shown
  <1>2. CASE DrawPassed
    BY <1>2 DEF DrawPassed, TestPassed, Shown
  <1>3. CASE DrawFailed
    BY <1>3 DEF DrawFailed, TestFailed, Shown, Told, Drawn
  <1>4. CASE KeyHint
    BY <1>4, RedrawTells DEF KeyHint, NoKey, session, Shown
  <1>5. CASE KeyList
    BY <1>5, RedrawTells DEF KeyList, NoKey, session, Shown
  <1>6. CASE DrawNothing
    <2>. USE <1>6 DEF DrawNothing, panelVars, Shown
    <2>1. ASSUME UNCHANGED <<pc, session>> PROVE Shown'
      BY <2>1 DEF session, Told
    <2>2. CASE Notify \/ \E e \in Exercises, passes \in BOOLEAN : Save(e, passes)
      BY <2>1, <2>2 DEF Notify, Save
    <2>3. CASE NoKey \/ NoFileEvent
      BY <2>3 DEF NoKey, NoFileEvent, session, Inv, Loop, Told
    <2>4. CASE KeyNext \/ KeyPrevious \/ KeyRetest
      BY <2>4 DEF KeyNext, KeyPrevious, KeyRetest, Move
    <2>5. CASE ScanOne \/ ScanEnds \/ CargoReads \/ FileEvent \/ Settled \/ Quit
      BY <2>5 DEF ScanOne, ScanEnds, CargoReads, FileEvent, Settled, Quit
    <2>. QED  BY <2>2, <2>3, <2>4, <2>5
  <1>7. CASE UNCHANGED <<vars, panelVars>>
    BY <1>7 DEF vars, session, panelVars, Shown, Told
  <1>. QED  BY <1>1, <1>2, <1>3, <1>4, <1>5, <1>6, <1>7 DEF PanelsNext

\* While the event loop waits for a key the screen shows the exercise, the done
\* marks and the verdict of that moment: turns that draw nothing, saves and
\* notifications never leave an older screen behind.
THEOREM ScreenIsCurrent == PanelsSpec => []ScreenTells
  <1>. DEFINE Flags == show_hint \in BOOLEAN /\ show_list \in BOOLEAN
              PanelsInv == Inv /\ Shown /\ Flags
  <1>1. PanelsInit => PanelsInv
    BY InitInv DEF PanelsInit, Init, Shown
  <1>2. PanelsInv /\ [PanelsNext]_<<vars, panelVars>> => PanelsInv'
    BY StepInv, PanelsStep, ShownStep
  <1>3. PanelsInv => ScreenTells
    BY DEF Inv, Loop, Shown, Told, ScreenTells, VerdictOfCurrent
  <1>. QED  BY <1>1, <1>2, <1>3, PTL DEF PanelsSpec

-----------------------------------------------------------------------------
(* OneShot: the sum counts the verdicts printed. *)

\* The verdicts printed so far: counted is how many passed, and who passed
\* passes still or was broken since.
PassedAt(p) == {i \in 1..Len(p) : p[i]}
Reported ==
    /\ counted = Cardinality(PassedAt(printed))
    /\ \A i \in 1..Len(printed) : printed[i] => solved[i - 1] \/ (i - 1) \in broken

\* A batch reports what it has printed so far; the others print only at the end.
CmdInv ==
    /\ solved \in [Exercises -> BOOLEAN] /\ counted \in Nat
    /\ step \in {"none", "ended"} \cup Cmd!Batch \cup Cmd!Named
    /\ step # "ended" => ~praised /\ printed \in Seq(BOOLEAN)
    /\ step = "none" => printed = <<>> /\ counted = 0
    /\ step \in Cmd!Batch => command = step /\ Len(printed) <= Total
    /\ step \in Cmd!Named => command = step
    /\ step \in {"none"} \cup Cmd!Batch => Reported
    /\ Cmd!ReportTrue

LEMMA PassedAtIsFinite ==
    ASSUME NEW p \in Seq(BOOLEAN)
    PROVE  IsFiniteSet(PassedAt(p)) /\ PassedAt(p) \subseteq 1..Len(p)
<1>1. IsFiniteSet(1..Len(p))
  BY FS_Interval
<1>2. PassedAt(p) \subseteq 1..Len(p)
  BY DEF PassedAt
<1> QED BY <1>1, <1>2, FS_Subset

\* One more verdict counts if it is a pass.
LEMMA PassedAtAppend ==
    ASSUME NEW p \in Seq(BOOLEAN), NEW passed \in BOOLEAN
    PROVE  Cardinality(PassedAt(Append(p, passed))) =
              IF passed THEN Cardinality(PassedAt(p)) + 1 ELSE Cardinality(PassedAt(p))
<1> DEFINE u == Append(p, passed)
<1>1. /\ u \in Seq(BOOLEAN) /\ Len(u) = Len(p) + 1 /\ u[Len(p) + 1] = passed
      /\ \A i \in 1..Len(p) : u[i] = p[i]
  OBVIOUS
<1>2. Len(p) \in Nat
  OBVIOUS
<1> HIDE DEF u
<1>3. CASE passed
  <2>0. u[Len(p) + 1]
    BY <1>1, <1>3, Zenon
  <2>1. PassedAt(u) = PassedAt(p) \cup {Len(p) + 1}
    <3>1. 1..Len(u) = (1..Len(p)) \cup {Len(p) + 1}
      BY <1>1, <1>2
    <3>2. \A i \in 1..Len(p) : u[i] <=> p[i]
      BY <1>1
    <3> QED BY <2>0, <3>1, <3>2 DEF PassedAt
  <2>2. Len(p) + 1 \notin PassedAt(p)
    BY <1>2 DEF PassedAt
  <2> QED BY <1>3, <2>1, <2>2, PassedAtIsFinite, FS_AddElement DEF u
<1>4. CASE ~passed
  <2>1. PassedAt(u) = PassedAt(p)
    BY <1>1, <1>2, <1>4 DEF PassedAt
  <2> QED BY <1>4, <2>1 DEF u
<1> QED BY <1>3, <1>4

LEMMA CmdInit == Cmd!Init => CmdInv
<1> SUFFICES ASSUME Cmd!Init PROVE CmdInv
  OBVIOUS
<1>1. printed = <<>> /\ counted = 0 /\ step = "none" /\ praised = FALSE /\ solved \in [Exercises -> BOOLEAN]
  BY DEF Cmd!Init, Exercises, Cmd!Exercises
<1>2. Len(printed) = 0 /\ printed \in Seq(BOOLEAN) /\ PassedAt(printed) = {}
  BY <1>1 DEF PassedAt
<1>3. Reported
  BY <1>1, <1>2, FS_EmptySet DEF Reported
<1> QED BY <1>1, <1>2, <1>3 DEF CmdInv, Cmd!ReportTrue, Cmd!Batch, Cmd!Named

LEMMA CmdStep == CmdInv /\ [Cmd!Next]_Cmd!vars => CmdInv'
<1> SUFFICES ASSUME CmdInv, [Cmd!Next]_Cmd!vars PROVE CmdInv'
  OBVIOUS
<1> USE DEF CmdInv, Cmd!Batch, Cmd!Named
<1>0. Exercises = 0..(Total - 1) /\ Cmd!Exercises = Exercises /\ Total \in Nat \ {0}
  BY WatchModeAssumption DEF Exercises, Cmd!Exercises, WatchModeAssumption
<1>1. ASSUME NEW loaded \in BOOLEAN, Cmd!Start(loaded) PROVE CmdInv'
  <2>1. /\ step = "none" /\ UNCHANGED <<solved, broken, printed, counted, praised>>
        /\ \/ step' = "ended" /\ (exit' = 1 \/ command' = "help")
           \/ step' = command' /\ command' \in {"list", "check", "run", "hint"}
    BY <1>1 DEF Cmd!Start, Cmd!Ends
  <2>2. Reported'
    BY <2>1 DEF Reported
  <2>3. Len(printed') = 0
    BY <2>1
  <2>4. Cmd!ReportTrue'
    BY <2>1 DEF Cmd!ReportTrue
  <2> QED BY <1>0, <2>1, <2>2, <2>3, <2>4
<1>2. ASSUME NEW e \in Cmd!Exercises, NEW passes \in BOOLEAN, Cmd!Edit(e, passes) PROVE CmdInv'
  <2>1. /\ UNCHANGED <<command, name, step, printed, counted, praised, exit>>
        /\ solved' = [solved EXCEPT ![e] = passes]
        /\ broken' = IF solved[e] /\ ~passes THEN broken \cup {e} ELSE broken
    BY <1>2 DEF Cmd!Edit
  <2>2. \A x \in Exercises : solved[x] \/ x \in broken => solved'[x] \/ x \in broken'
    BY <1>0, <2>1
  <2>3. solved' \in [Exercises -> BOOLEAN]
    BY <1>0, <2>1
  <2>4. step \in Cmd!Batch => \A i \in 1..Len(printed) : i - 1 \in Exercises
    BY <1>0
  <2>5. step = "none" => Len(printed) = 0
    OBVIOUS
  <2>6. step \in {"none"} \cup Cmd!Batch => Reported'
    BY <2>1, <2>2, <2>4, <2>5 DEF Reported
  <2>7. Cmd!ReportTrue'
    BY <1>0, <2>1, <2>2 DEF Cmd!ReportTrue
  <2> QED BY <2>1, <2>3, <2>6, <2>7
<1>3. CASE Cmd!TestQuiet
  <2> DEFINE passed == solved[Len(printed)]
  <2>1. /\ step \in Cmd!Batch /\ Len(printed) < Total /\ printed' = Append(printed, passed)
        /\ counted' = (IF passed THEN counted + 1 ELSE counted)
        /\ UNCHANGED <<command, name, step, solved, broken, praised, exit>>
    BY <1>3 DEF Cmd!TestQuiet, Cmd!Counted
  <2>2. passed \in BOOLEAN /\ Len(printed) \in Nat
    BY <1>0, <2>1
  <2>3. /\ printed' \in Seq(BOOLEAN) /\ Len(printed') = Len(printed) + 1
        /\ printed'[Len(printed) + 1] = passed
        /\ \A i \in 1..Len(printed) : printed'[i] = printed[i]
    BY <2>1, <2>2
  <2>4. counted' = Cardinality(PassedAt(printed'))
    BY <2>1, <2>2, PassedAtAppend DEF Reported
  <2>5. Reported'
    <3>1. \A i \in 1..Len(printed') : printed'[i] => solved[i - 1] \/ (i - 1) \in broken
      <4> SUFFICES ASSUME NEW i \in 1..Len(printed'), printed'[i] PROVE solved[i - 1] \/ (i - 1) \in broken
        OBVIOUS
      <4>1. CASE i \in 1..Len(printed)
        BY <2>1, <2>3, <4>1 DEF Reported
      <4>2. CASE i = Len(printed) + 1
        BY <2>2, <2>3, <4>2
      <4> QED BY <2>2, <2>3, <4>1, <4>2
    <3> QED BY <2>1, <2>4, <3>1 DEF Reported
  <2>6. Cmd!ReportTrue'
    BY <2>1 DEF Cmd!ReportTrue
  <2> QED BY <1>0, <2>1, <2>2, <2>3, <2>5, <2>6
<1>4. CASE Cmd!Summary
  <2>1. /\ step \in Cmd!Batch /\ Len(printed) = Total /\ step' = "ended" /\ exit' = 0
        /\ praised' = (step = "check" /\ counted = Total)
        /\ UNCHANGED <<command, name, solved, broken, printed, counted>>
    BY <1>4 DEF Cmd!Summary, Cmd!Ends
  <2>2. counted = Cardinality(PassedAt(printed)) /\ PassedAt(printed) = {i \in 1..Total : printed[i]}
    BY <2>1 DEF Reported, PassedAt
  <2>3. ASSUME counted = Total PROVE \A e \in Exercises : solved[e] \/ e \in broken
    <3>1. IsFiniteSet(1..Total) /\ Cardinality(1..Total) = Total
      BY <1>0, FS_Interval
    <3>2. PassedAt(printed) = 1..Total
      BY <1>0, <2>1, <2>2, <2>3, <3>1, PassedAtIsFinite, FS_Subset
    <3>3. \A e \in Exercises : e + 1 \in 1..Total /\ (e + 1) - 1 = e
      BY <1>0
    <3> QED BY <2>1, <2>2, <3>2, <3>3 DEF Reported
  <2>4. Cmd!ReportTrue'
    BY <1>0, <2>1, <2>2, <2>3 DEF Cmd!ReportTrue
  <2> QED BY <2>1, <2>4
<1>5. CASE Cmd!NotFound
  BY <1>5 DEF Cmd!NotFound, Cmd!Ends, Cmd!ReportTrue
<1>6. CASE Cmd!Run
  <2>1. /\ step = "run" /\ step' = "ended" /\ command' = "run"
        /\ UNCHANGED <<solved, broken, counted, praised>>
    BY <1>6 DEF Cmd!Run, Cmd!Ends
  <2> QED BY <2>1 DEF Cmd!ReportTrue
<1>7. CASE Cmd!Hint
  BY <1>7 DEF Cmd!Hint, Cmd!Ends, Cmd!ReportTrue
<1>8. CASE UNCHANGED Cmd!vars
  BY <1>8 DEF Cmd!vars, Cmd!ReportTrue, Reported
<1> QED BY <1>1, <1>2, <1>3, <1>4, <1>5, <1>6, <1>7, <1>8 DEF Cmd!Next, Cmd!CommandStep

\* Whatever is saved while a batch runs: list and check print one verdict for
\* each exercise and the number of those that passed, and check praises only
\* if each passes or was broken again since, for every number of exercises.
THEOREM ReportsAreTrue == Cmd!Init /\ [][Cmd!Next]_Cmd!vars => []ReportTrue
<1>1. CmdInv => ReportTrue
  BY DEF CmdInv, ReportTrue
<1> QED BY <1>1, CmdInit, CmdStep, PTL
=============================================================================
