-------------------------------- MODULE Pipes --------------------------------
(***************************************************************************)
(* The functions of src/exercises/01_concurrency_sync/04_process_pipe: a   *)
(* child process, the pipes to its stdin and from its stdout, each holding *)
(* a few chunks, and what the parent returns.  The i-th chunk of the       *)
(* input, or of what a command prints, is i; the child passes on those in  *)
(* chosen.  A panic of the parent is its return of "panic".                *)
(***************************************************************************)
EXTENDS Naturals, Sequences, FiniteSets

CONSTANTS
    PipeSize,    \* chunks a pipe holds
    ChildSize,   \* chunks the child holds between reading and writing
    MaxChunks    \* bound: chunks of an input

VARIABLES
    fn,        \* the function called
    parent,    \* its pc
    child,     \* the child's pc
    written, chunks,       \* chunks of the input written so far, and in all
    chosen,                \* those that the child passes on
    stdin, holds, stdout,  \* in the pipes and in the child
    open,                  \* the ends of pipes that are open
    output,                \* what the parent has read
    answer                 \* what the function returned

vars == <<fn, parent, child, written, chunks, chosen, stdin, holds, stdout, open, output, answer>>

Piping == {"pipe_through_cat", "pipe_through_grep"}
Capturing == {"run_command", "run_command_with_result"}
Functions == Piping \cup Capturing \cup {"get_exit_code"}

\* The end of the child: code() is an exit code, or None for a signal.
ExitCodes == {"0", "2"}
Signalled == "signalled"

Init ==
    /\ fn = "none" /\ parent = "idle" /\ child = "none"
    /\ written = 0 /\ chunks = 0 /\ chosen = {}
    /\ stdin = <<>> /\ holds = <<>> /\ stdout = <<>>
    /\ open = {} /\ output = <<>> /\ answer = <<>>

Answers(a) == parent' = "returned" /\ answer' = a

-----------------------------------------------------------------------------
(* The parent *)

\* spawn(), output() and status(): cat passes on all chunks; a command has
\* none to read, and holds what it prints from the beginning.
Spawn ==
    /\ parent = "idle" /\ fn' \in Functions
    /\ chunks' \in 0..MaxChunks /\ chosen' \in SUBSET (1..chunks')
    /\ fn' # "pipe_through_grep" => chosen' = 1..chunks'
    /\ child' = "running"
    /\ holds' = IF fn' \in Capturing THEN [i \in 1..chunks' |-> i] ELSE <<>>
    /\ written' = IF fn' \in Piping THEN 0 ELSE chunks'
    /\ open' = IF fn' \in Piping THEN {"stdin", "child_stdin", "stdout"} ELSE {"stdout"}
    /\ parent' = CASE fn' \in Piping -> "write" [] fn' \in Capturing -> "read" [] OTHER -> "wait"
    /\ UNCHANGED <<stdin, stdout, output, answer>>

\* The program is not found.
SpawnFails ==
    /\ parent = "idle" /\ fn' \in Functions
    /\ Answers(IF fn' = "run_command_with_result" THEN <<"Err">> ELSE <<"panic">>)
    /\ UNCHANGED <<child, written, chunks, chosen, stdin, holds, stdout, open, output>>

\* write_all: blocks while the pipe is full, fails when nobody reads it.
Write ==
    /\ parent = "write" /\ written < chunks
    /\ "child_stdin" \in open /\ Len(stdin) < PipeSize
    /\ written' = written + 1 /\ stdin' = Append(stdin, written')
    /\ UNCHANGED <<fn, parent, child, chunks, chosen, holds, stdout, open, output, answer>>

BrokenPipe ==
    /\ parent = "write" /\ written < chunks
    /\ "child_stdin" \notin open
    /\ Answers(<<"panic">>)
    /\ UNCHANGED <<fn, child, written, chunks, chosen, stdin, holds, stdout, open, output>>

\* drop(stdin).
DropStdin ==
    /\ parent = "write" /\ written = chunks
    /\ open' = open \ {"stdin"}
    /\ parent' = "read"
    /\ UNCHANGED <<fn, child, written, chunks, chosen, stdin, holds, stdout, output, answer>>

\* read_to_string ends when the pipe is empty and its other end closed.
Read ==
    /\ parent = "read" /\ stdout # <<>>
    /\ output' = Append(output, Head(stdout)) /\ stdout' = Tail(stdout)
    /\ UNCHANGED <<fn, parent, child, written, chunks, chosen, stdin, holds, open, answer>>

ReadOnce == output # <<>>  \* mutant: read() in place of read_to_string()
AtEnd == stdout = <<>> /\ "stdout" \notin open

ReadEnd ==
    /\ parent = "read" /\ AtEnd
    /\ parent' = "wait"
    /\ UNCHANGED <<fn, child, written, chunks, chosen, stdin, holds, stdout, open, output, answer>>

\* wait(): the output is returned whatever the exit status; an output that is
\* not UTF-8 is converted with losses, refused, or panics in read_to_string.
Wait(utf8) ==
    /\ parent = "wait" /\ child # "running"
    /\ Answers(CASE fn = "get_exit_code" -> IF child = Signalled THEN <<"code", "-1">> ELSE <<"code", child>>
                 [] fn = "run_command" -> <<IF utf8 THEN "Ok" ELSE "lossy", output>>
                 [] fn = "run_command_with_result" -> IF utf8 THEN <<"Ok", output>> ELSE <<"Err">>
                 [] OTHER -> IF utf8 THEN <<"Ok", output>> ELSE <<"panic">>)
    /\ fn = "pipe_through_cat" => utf8   \* cat was given a string
    /\ UNCHANGED <<fn, child, written, chunks, chosen, stdin, holds, stdout, open, output>>

-----------------------------------------------------------------------------
(* The child, which reads and writes in an order of its own *)

ChildReads ==
    /\ child = "running" /\ stdin # <<>> /\ Len(holds) < ChildSize
    /\ holds' = IF Head(stdin) \in chosen THEN Append(holds, Head(stdin)) ELSE holds
    /\ stdin' = Tail(stdin)
    /\ UNCHANGED <<fn, parent, child, written, chunks, chosen, stdout, open, output, answer>>

ChildWrites ==
    /\ child = "running" /\ holds # <<>> /\ Len(stdout) < PipeSize
    /\ stdout' = Append(stdout, Head(holds)) /\ holds' = Tail(holds)
    /\ UNCHANGED <<fn, parent, child, written, chunks, chosen, stdin, open, output, answer>>

\* At the end of its input, with all its output written ...
ChildExits ==
    /\ child = "running" /\ stdin = <<>> /\ "stdin" \notin open /\ holds = <<>>
    /\ child' \in ExitCodes \cup {Signalled}
    /\ fn \in Piping => child' = "0"
    /\ open' = open \ {"child_stdin", "stdout"}
    /\ UNCHANGED <<fn, parent, written, chunks, chosen, stdin, holds, stdout, output, answer>>

\* ... or, for a pattern that grep refuses, at once.
GrepQuits ==
    /\ fn = "pipe_through_grep" /\ child = "running"
    /\ chosen = {} /\ holds = <<>> /\ stdin = SubSeq([i \in 1..chunks |-> i], 1, written)
    /\ child' = "2"
    /\ open' = open \ {"child_stdin", "stdout"}
    /\ UNCHANGED <<fn, parent, written, chunks, chosen, stdin, holds, stdout, output, answer>>

ParentStep ==
    \/ Write \/ BrokenPipe \/ DropStdin \/ Read \/ ReadEnd
    \/ \E utf8 \in BOOLEAN : Wait(utf8)
ChildStep == ChildReads \/ ChildWrites \/ ChildExits

Next == Spawn \/ SpawnFails \/ ParentStep \/ ChildStep \/ GrepQuits

\* Both processes are scheduled again and again.
Fairness == WF_vars(ParentStep) /\ WF_vars(ChildStep)

-----------------------------------------------------------------------------
\* What is taken in before the parent reads: the two pipes and the child hold
\* the input, or the child and one pipe more than it passes on.
FitsPipes ==
    \/ fn \notin Piping
    \/ chunks <= 2 * PipeSize + ChildSize
    \/ Cardinality(chosen) < PipeSize + ChildSize

\* CallEnds: a call whose input fits comes to its end.
CallEnds ==
    parent \in {"write", "read", "wait"} /\ FitsPipes ~> parent = "returned"

\* PipeAnswers: what is returned is the chosen chunks in order, or a panic if
\* grep refused the pattern; -1 is returned for a signal only.
IsOutput(s) ==
    /\ \A i \in DOMAIN s : s[i] \in chosen /\ (i > 1 => s[i - 1] < s[i])
    /\ chosen = {s[i] : i \in DOMAIN s}

PipeAnswers ==
    answer # <<>> =>
        /\ answer[1] \in {"Ok", "lossy"} => IsOutput(answer[2])
        /\ answer = <<"panic">> /\ fn = "pipe_through_cat" => child = "none"
        /\ answer[1] = "code" => (answer[2] = "-1" <=> child = Signalled)
=============================================================================
