------------------------------- MODULE Panels --------------------------------
(***************************************************************************)
(* What watch_mode draws, and the keys h and l that draw it anew.  Every   *)
(* other step is one of WatchMode, and on WatchMode's variables these two  *)
(* keys are a turn of the event loop without a key.                        *)
(***************************************************************************)
EXTENDS WatchMode

VARIABLES
    show_hint, show_list,
    screen    \* the view last drawn, with the hint or not, the exercise of
              \* its header, its done marks and its verdict

panelVars == <<show_hint, show_list, screen>>

Blank == [view |-> "scan", hint |-> FALSE, of |-> Total,
          done |-> [e \in Exercises |-> FALSE], verdict |-> NoResult]

PanelsInit ==
    /\ Init
    /\ show_hint = FALSE /\ show_list = FALSE
    /\ screen = Blank

\* render_header, and what follows it.
Drawn(view, hint, marks, verdict) ==
    [view |-> view, hint |-> hint, of |-> current, done |-> marks, verdict |-> verdict]

full_redraw(hint, list) ==
    IF list THEN Drawn("list", FALSE, done, NoResult)
            ELSE Drawn("verdict", hint, done, last_result)

DrawTesting ==
    /\ StartTest
    /\ show_hint' = FALSE /\ show_list' = FALSE
    /\ screen' = Drawn("testing", FALSE, done, NoResult)

DrawPassed ==
    /\ TestPassed
    /\ screen' = Drawn(IF pc' = "congratulating" THEN pc' ELSE "passed", FALSE, done', NoResult)
    /\ UNCHANGED <<show_hint, show_list>>

DrawFailed ==
    /\ TestFailed
    /\ screen' = Drawn("verdict", FALSE, done, last_result')
    /\ UNCHANGED <<show_hint, show_list>>

\* h redraws without the list, whatever show_list is, and leaves it.
KeyHint ==
    /\ NoKey
    /\ show_hint' = ~show_hint
    /\ screen' = full_redraw(show_hint', FALSE)
    /\ UNCHANGED show_list

KeyList ==
    /\ NoKey
    /\ show_list' = ~show_list
    /\ screen' = full_redraw(show_hint, show_list')
    /\ UNCHANGED show_hint

DrawNothing ==
    /\ \/ ScanOne \/ ScanEnds \/ CargoReads
       \/ NoKey \/ KeyNext \/ KeyPrevious \/ KeyRetest
       \/ NoFileEvent \/ FileEvent \/ Settled
       \/ Quit \/ Notify
       \/ \E e \in Exercises, passes \in BOOLEAN : Save(e, passes)
    /\ UNCHANGED panelVars

PanelsNext == DrawTesting \/ DrawPassed \/ DrawFailed \/ KeyHint \/ KeyList \/ DrawNothing

PanelsSpec == PanelsInit /\ [][PanelsNext]_<<vars, panelVars>> /\ Fairness

-----------------------------------------------------------------------------
\* ScreenTells: while the event loop waits for a key the screen shows the
\* exercise, the done marks and, but for the list, the verdict of now, which is
\* a failure of this exercise; a hint or a list is there only if its flag is set.
ScreenTells ==
    pc = "keys" =>
        /\ screen.of = current /\ screen.done = done
        /\ screen.view # "list" => screen.verdict = last_result /\ VerdictOfCurrent
        /\ screen.hint => show_hint
        /\ screen.view = IF show_list /\ screen.view = "list" THEN "list" ELSE "verdict"

\* ListKeyLists: "`l` - View list of all exercises" (src/README.md, line 109): pressed
\* while no list is on the screen it brings the list.
ListKeyLists ==
    [][KeyList /\ screen.view # "list" => screen'.view = "list"]_<<vars, panelVars>>
=============================================================================
