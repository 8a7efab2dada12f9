-------------------------------- MODULE MC_Cli -------------------------------
(* The oscamp program: watch mode, or one of the other commands, on the     *)
(* exercises of one user.                                                   *)
EXTENDS Panels

VARIABLES watching, command, name, step, printed, counted, praised, exit

Cmd == INSTANCE OneShot WITH Packages <- <<"p1", "p2", "p3">>

cmdVars == <<command, name, step, printed, counted, praised, exit>>
sessionVars == <<inflight, fs_rx, pc, session, panelVars>>
cliVars == <<watching, vars, panelVars, cmdVars>>

CliInit == PanelsInit /\ watching \in BOOLEAN /\ Cmd!Init

CliNext ==
    /\ UNCHANGED watching
    /\ \/ watching /\ PanelsNext /\ UNCHANGED cmdVars
       \/ ~watching /\ Cmd!Next /\ UNCHANGED sessionVars

\* The fairness of the program that runs; a command stays unstarted in watch
\* mode, and its fairness asks nothing there.
CliSpec ==
    /\ CliInit /\ [][CliNext]_cliVars
    /\ WF_vars(watching /\ Program /\ PanelsNext) /\ WF_vars(Notify)
    /\ Cmd!Fairness

-----------------------------------------------------------------------------
\* WatchMode: a session in which all is solved ends.  OneShot: so does every
\* other command.
SessionEnds == (watching => SolvedSessionEnds) /\ Cmd!CommandEnds
\* OneShot: what the commands report is so.
ReportTrue == ~watching => Cmd!ReportTrue
=============================================================================
