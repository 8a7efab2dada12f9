---------------------------- MODULE GreenThreads ----------------------------
(***************************************************************************)
(* The cooperative scheduler of src/exercises/04_context_switch/           *)
(* 02_green_threads.  One CPU runs one stack at a time; cpu says whose     *)
(* stack that really is, current whose the scheduler takes it for.  A step *)
(* is what the CPU does up to its next switch_context.                     *)
(*                                                                         *)
(* pc[i] is where thread i goes on when it is next on the CPU: for a       *)
(* thread that is not, the ra its TaskContext holds.                       *)
(***************************************************************************)
EXTENDS Naturals

CONSTANT MaxThreads   \* bound: green threads spawned

ASSUME MaxThreadsAssumption == MaxThreads \in Nat \ {0}

VARIABLES
    n,            \* threads.len()
    state,        \* state[i] of ThreadState; "Absent" from n on
    entry,        \* entry[i]: whether the user entry is still to be taken
    current,      \* Scheduler.current
    pending,      \* CURRENT_THREAD_ENTRY: whose entry, or None
    active,       \* whether the global SCHEDULER is set
    cpu,          \* the thread whose stack is in use
    pc,           \* where each thread goes on
    calls,        \* calls[i]: the entries thread i's wrapper has called
    overtaken     \* overtaken[i]: who got the CPU since i last had it

vars == <<n, state, entry, current, pending, active, cpu, pc, calls, overtaken>>

Ids == 0..MaxThreads
Green == 1..MaxThreads
None == MaxThreads + 1

\* new(): the main thread is thread 0, and it is running.
Init ==
    /\ n = 1
    /\ state = [i \in Ids |-> IF i = 0 THEN "Running" ELSE "Absent"]
    /\ entry = [i \in Ids |-> FALSE]
    /\ current = 0
    /\ pending = None
    /\ active = FALSE
    /\ cpu = 0
    /\ pc = [i \in Ids |-> IF i = 0 THEN "setup" ELSE "absent"]
    /\ calls = [i \in Ids |-> {}]
    /\ overtaken = [i \in Ids |-> {}]

\* spawn(entry), by main between two runs: ra is thread_wrapper.
Spawn ==
    /\ cpu = 0 /\ pc[0] = "setup"
    /\ n <= MaxThreads
    /\ n' = n + 1
    /\ state' = [state EXCEPT ![n] = "Ready"]
    /\ entry' = [entry EXCEPT ![n] = TRUE]
    /\ pc' = [pc EXCEPT ![n] = "wrapper"]
    /\ UNCHANGED <<current, pending, active, cpu, calls, overtaken>>

-----------------------------------------------------------------------------
(* schedule_next *)

\* How far from current the search meets thread i.
Distance(i) == (i + n - current) % n
FromZero(i) == i  \* mutant: the search begins at thread 0 each time
Order(i) == Distance(i)

Candidates(s) == {i \in 0..(n - 1) : i # current /\ s[i] = "Ready"}

NextReady(s) ==
    CHOOSE i \in Candidates(s) : \A j \in Candidates(s) : Order(i) <= Order(j)

\* The state of the thread that gives the CPU up.
AlwaysReady(s) == "Ready"  \* mutant: a finished thread is made Ready again
KeepFinished(s) == IF s[current] = "Finished" THEN "Finished" ELSE "Ready"
StateLeft(s) == KeepFinished(s)

\* The thread on the CPU calls schedule_next with states s and goes on at label
\* when it is switched back to, or at once if no other thread is Ready.
ScheduleNext(s, label) ==
    /\ pc' = [pc EXCEPT ![cpu] = label]
    /\ IF Candidates(s) = {}
       THEN /\ state' = s
            /\ UNCHANGED <<entry, current, pending, cpu, overtaken>>
       ELSE LET next == NextReady(s) IN
            /\ state' = [s EXCEPT ![current] = StateLeft(s), ![next] = "Running"]
            /\ entry' = [entry EXCEPT ![next] = FALSE]
            /\ pending' = IF entry[next] THEN next ELSE pending
            /\ current' = next
            /\ cpu' = next
            /\ overtaken' = [i \in Ids |-> IF i \in {cpu, next} THEN {}
                                           ELSE overtaken[i] \cup {next}]

-----------------------------------------------------------------------------
(* run *)

\* Sets SCHEDULER.
Run ==
    /\ cpu = 0 /\ pc[0] = "setup"
    /\ active' = TRUE
    /\ pc' = [pc EXCEPT ![0] = "loop"]
    /\ UNCHANGED <<n, state, entry, current, pending, cpu, calls, overtaken>>

AllFinished == \A i \in 1..(n - 1) : state[i] = "Finished"
SecondOn == \A i \in 2..(n - 1) : state[i] = "Finished"  \* mutant
LoopEnds == AllFinished

\* One turn of run()'s loop: another schedule_next, ...
RunTurn ==
    /\ cpu = 0 /\ pc[0] = "loop"
    /\ ~LoopEnds
    /\ ScheduleNext(state, "loop")
    /\ UNCHANGED <<n, active, calls>>

\* ... or, with all threads Finished, the return, which clears SCHEDULER.
RunReturn ==
    /\ cpu = 0 /\ pc[0] = "loop"
    /\ LoopEnds
    /\ active' = FALSE
    /\ pc' = [pc EXCEPT ![0] = "setup"]
    /\ UNCHANGED <<n, state, entry, current, pending, cpu, calls, overtaken>>

-----------------------------------------------------------------------------
(* a green thread *)

\* thread_wrapper takes CURRENT_THREAD_ENTRY and calls it, if there is one.
Wrapper(i) ==
    /\ cpu = i /\ pc[i] = "wrapper"
    /\ pending' = None
    /\ IF pending # None
       THEN /\ calls' = [calls EXCEPT ![i] = @ \cup {pending}]
            /\ pc' = [pc EXCEPT ![i] = "body"]
       ELSE /\ pc' = [pc EXCEPT ![i] = "finish"]
            /\ UNCHANGED calls
    /\ UNCHANGED <<n, state, entry, current, active, cpu, overtaken>>

\* The entry calls yield_now.
Yield(i) ==
    /\ cpu = i /\ pc[i] = "body"
    /\ active
    /\ ScheduleNext(state, "body")
    /\ UNCHANGED <<n, active, calls>>

\* The entry returns to thread_wrapper.
BodyReturns(i) ==
    /\ cpu = i /\ pc[i] = "body"
    /\ pc' = [pc EXCEPT ![i] = "finish"]
    /\ UNCHANGED <<n, state, entry, current, pending, active, cpu, calls, overtaken>>

\* thread_finished marks the current thread and schedules; were it ever to come
\* back, thread_wrapper would return to its own address.
Finish(i) ==
    /\ cpu = i /\ pc[i] = "finish"
    /\ IF active
       THEN ScheduleNext([state EXCEPT ![current] = "Finished"], "wrapper")
       ELSE /\ pc' = [pc EXCEPT ![i] = "wrapper"]
            /\ UNCHANGED <<state, entry, current, pending, cpu, overtaken>>
    /\ UNCHANGED <<n, active, calls>>

Next ==
    \/ Spawn \/ Run \/ RunTurn \/ RunReturn
    \/ \E i \in Green : Wrapper(i) \/ Yield(i) \/ BodyReturns(i) \/ Finish(i)

Spec == Init /\ [][Next]_vars

\* The CPU executes.  Main need not spawn or run, and an entry may yield for
\* ever.
Fairness ==
    /\ WF_vars(RunTurn) /\ WF_vars(RunReturn)
    /\ \A i \in Green :
          /\ WF_vars(Wrapper(i)) /\ WF_vars(Finish(i))
          /\ WF_vars(Yield(i) \/ BodyReturns(i))

FairSpec == Spec /\ Fairness

-----------------------------------------------------------------------------
\* OneRunning: the scheduler knows who runs: exactly one thread is Running, it
\* is current, and its stack is the one in use.  Otherwise switch_context would
\* save one thread's registers into another's context, and a Finished thread
\* could return into its own wrapper.
OneRunning ==
    /\ cpu = current
    /\ \A i \in Ids : state[i] = "Running" <=> i = cpu

\* OwnEntry: through the one global CURRENT_THREAD_ENTRY every wrapper gets the
\* entry of its own thread, never another's and never none.
OwnEntry ==
    /\ pc[cpu] = "wrapper" => pending = cpu
    /\ \A i \in Ids : calls[i] \subseteq {i}

\* FinishedRan: a thread is Finished only after its entry was called and has
\* returned, and when run returns that holds of every thread.
FinishedRan ==
    /\ \A i \in Green : state[i] = "Finished" => calls[i] = {i} /\ pc[i] # "body"
    /\ pc[0] = "setup" => \A i \in Green : calls[i] # {} => state[i] = "Finished"

\* NoOvertaking: while a thread is Ready nobody gets the CPU twice ("The
\* scheduler round-robins among ready threads", 02_green_threads, line 14).
NoOvertaking ==
    [][cpu' # cpu =>
          \A i \in Ids : state[i] = "Ready" /\ state'[i] = "Ready"
                            => cpu' \notin overtaken[i]]_vars

\* ReadyRuns: during run a Ready thread gets the CPU, whatever the others do,
\* yielding for ever included.
ReadyRuns == \A i \in Green : state[i] = "Ready" /\ active ~> cpu = i

\* RunReturns: run returns if every entry does: if none has the CPU again and
\* again without coming to its end.
EntriesReturn == \A i \in Green : <>[]~(cpu = i /\ pc[i] = "body")
RunReturns == EntriesReturn => (pc[0] = "loop" ~> pc[0] = "setup")
=============================================================================
