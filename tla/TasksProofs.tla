---------------------------- MODULE TasksProofs ----------------------------
(* Theorems about the threads, processes and tasks of MC_Tasks:            *)
(* GreenThreads for every number of green threads, StackCoroutine for any  *)
(* coroutines and stacks, Pipes, Channels and Futures for any input.       *)
EXTENDS MC_Tasks, LeastElement, SequenceTheorems, TLAPS

-----------------------------------------------------------------------------
(* GreenThreads. *)

\* What the variables have in common at every switch: main waits Ready in
\* run()'s loop while a green thread has the CPU, a thread has its entry until
\* it is first switched to, and the entry taken is pending until its wrapper
\* runs.
Counts == n \in 1..(MaxThreads + 1) /\ cpu \in 0..(n - 1) /\ cpu = current

States ==
    /\ state \in [Ids -> {"Ready", "Running", "Finished", "Absent"}]
    /\ \A i \in Ids : state[i] = "Running" <=> i = cpu
    /\ \A i \in Ids : state[i] = "Absent" <=> i >= n

Places ==
    /\ pc \in [Ids -> {"setup", "loop", "absent", "wrapper", "body", "finish"}]
    /\ pc[0] \in {"setup", "loop"}
    /\ active \in BOOLEAN
    /\ active <=> pc[0] = "loop"
    /\ pc[0] = "setup" => cpu = 0
    /\ cpu # 0 => state[0] = "Ready"
    /\ \A i \in Green : pc[i] \notin {"setup", "loop"}
    /\ state[0] # "Finished"

Entries ==
    /\ entry \in [Ids -> BOOLEAN]
    /\ \A i \in Ids : entry[i] => state[i] = "Ready" /\ i # 0
    /\ \A i \in Green : state[i] = "Ready" => (pc[i] = "wrapper" <=> entry[i])
    /\ pc[cpu] = "wrapper" => pending = cpu
    /\ pc[cpu] # "wrapper" => pending = None
    /\ calls \in [Ids -> SUBSET Ids]
    /\ \A i \in Ids : calls[i] \subseteq {i}

Inv == Counts /\ States /\ Places /\ Entries

\* schedule_next's search returns a thread it may switch to.
LEMMA NextIsCandidate ==
    ASSUME Counts, NEW s, Candidates(s) # {}
    PROVE  /\ NextReady(s) \in 0..(n - 1)
           /\ NextReady(s) # current
           /\ s[NextReady(s)] = "Ready"
           /\ \A j \in Candidates(s) : Distance(NextReady(s)) <= Distance(j)
  <1>1. n \in Nat \ {0} /\ current \in 0..(n - 1)
    BY MaxThreadsAssumption DEF Counts, MaxThreadsAssumption
  <1>2. \A i \in Candidates(s) : i \in 0..(n - 1) /\ i # current /\ s[i] = "Ready"
    BY DEF Candidates
  <1>3. \A i \in Candidates(s) : Order(i) \in Nat
    BY <1>1, <1>2 DEF Order, Distance
  <1>. DEFINE S == {Order(i) : i \in Candidates(s)}
  <1>4. PICK x \in S : \A y \in S : x <= y
    <2>1. S \subseteq Nat /\ S # {}
      BY <1>3
    <2>. HIDE DEF S
    <2>. QED  BY <2>1, LeastNat
  <1>5. \E i \in Candidates(s) : \A j \in Candidates(s) : Order(i) <= Order(j)
    BY <1>4
  <1>6. NextReady(s) \in Candidates(s)
        /\ \A j \in Candidates(s) : Order(NextReady(s)) <= Order(j)
    BY <1>5 DEF NextReady
  <1>. QED  BY <1>2, <1>6 DEF Order

LEMMA InvInit == Init => Inv
  <1>. SUFFICES ASSUME Init PROVE Inv
    OBVIOUS
  <1>. USE MaxThreadsAssumption DEF MaxThreadsAssumption, Init, Ids, Green
  <1>1. Counts
    BY DEF Counts
  <1>2. States
    BY DEF States
  <1>3. Places
    <2>1. 0 \in Ids /\ Green \subseteq Ids /\ pc[0] = "setup" /\ cpu = 0 /\ active = FALSE
      OBVIOUS
    <2>2. pc \in [Ids -> {"setup", "loop", "absent", "wrapper", "body", "finish"}]
      BY SMT
    <2>3. \A i \in Green : pc[i] = "absent"
      OBVIOUS
    <2>4. state[0] = "Running"
      BY <2>1
    <2>. HIDE DEF Init, Ids, Green
    <2>. QED  BY <2>1, <2>2, <2>3, <2>4 DEF Places
  <1>4. Entries
    <2>1. 0 \in Ids /\ Green \subseteq Ids /\ pc[0] = "setup" /\ cpu = 0 /\ pending = None
      OBVIOUS
    <2>2. entry \in [Ids -> BOOLEAN] /\ calls \in [Ids -> SUBSET Ids]
      BY Zenon
    <2>3. \A i \in Ids : ~entry[i] /\ calls[i] = {}
      OBVIOUS
    <2>4. \A i \in Green : state[i] = "Absent"
      OBVIOUS
    <2>. HIDE DEF Init, Ids, Green
    <2>. QED  BY <2>1, <2>2, <2>3, <2>4 DEF Entries
  <1>. QED  BY <1>1, <1>2, <1>3, <1>4 DEF Inv

LEMMA InvStep == Inv /\ [Next]_vars => Inv'
  <1>. SUFFICES ASSUME Inv, [Next]_vars PROVE Inv'
    OBVIOUS
  <1>. USE MaxThreadsAssumption DEF MaxThreadsAssumption, Inv, Ids, Green, None
  <1>1. n \in Nat /\ cpu \in Ids /\ current \in Ids /\ 0 \in Ids
    BY DEF Counts
  <1>2. ASSUME Spawn PROVE Inv'
    <2>. USE DEF Counts, States, Places, Entries
    <2>1. n \in Green /\ n # cpu /\ n # 0
      BY <1>2 DEF Spawn
    <2>2. Counts'
      <3>1. n' = n + 1 /\ n <= MaxThreads /\ n \in Nat /\ n >= 1
        BY <1>2 DEF Spawn
      <3>2. cpu' = cpu /\ current' = current
        BY <1>2 DEF Spawn
      <3>. QED  BY <3>1, <3>2
    <2>3. States'
      BY <1>2, <2>1 DEF Spawn
    <2>4. Places'
      BY <1>2, <2>1 DEF Spawn
    <2>5. Entries'
      BY <1>2, <2>1 DEF Spawn
    <2>. QED  BY <2>2, <2>3, <2>4, <2>5
  \* Main goes on at another label of its own; nothing else of Counts, States
  \* and Entries changes.
  <1>3. ASSUME NEW label \in {"setup", "loop"}, cpu = 0, pc[0] # "wrapper",
               pc' = [pc EXCEPT ![0] = label], active' = (label = "loop"),
               UNCHANGED <<n, state, entry, current, pending, cpu, calls>>
        PROVE  Inv'
    <2>1. pc'[0] = label /\ \A i \in Green : pc'[i] = pc[i]
      BY <1>1, <1>3 DEF Places
    <2>2. Counts' /\ States'
      BY <1>3 DEF Counts, States
    <2>3. Places'
      BY <1>1, <1>3, <2>1 DEF Places
    <2>4. Entries'
      BY <1>3, <2>1 DEF Entries
    <2>. QED  BY <2>2, <2>3, <2>4
  <1>4. ASSUME Run \/ RunReturn PROVE Inv'
    <2>1. CASE Run
      BY <1>3, <2>1 DEF Run
    <2>2. CASE RunReturn
      BY <1>3, <2>2 DEF RunReturn
    <2>. QED  BY <1>4, <2>1, <2>2
  \* s: the states schedule_next starts from; label: where the caller goes on.
  <1>5. ASSUME NEW s \in [Ids -> {"Ready", "Running", "Finished", "Absent"}],
               NEW label \in {"loop", "body", "wrapper"},
               \A i \in Ids : i # cpu => s[i] = state[i],
               s[cpu] \in {"Running", "Finished"},
               pc[cpu] # "wrapper", pc[0] = "loop",
               cpu = 0 <=> label = "loop",
               s[cpu] = "Finished" <=> label = "wrapper",
               Candidates(s) # {},
               ScheduleNext(s, label), UNCHANGED <<n, active, calls>>
        PROVE  Inv'
    <2>. DEFINE next == NextReady(s)
    <2>1. next \in 0..(n - 1) /\ next # cpu /\ s[next] = "Ready" /\ state[next] = "Ready"
      BY <1>1, <1>5, NextIsCandidate DEF Counts
    <2>2. /\ pc' = [pc EXCEPT ![cpu] = label]
          /\ state' = [s EXCEPT ![cpu] = IF s[cpu] = "Finished" THEN "Finished"
                                                               ELSE "Ready",
                                ![next] = "Running"]
          /\ entry' = [entry EXCEPT ![next] = FALSE]
          /\ pending' = IF entry[next] THEN next ELSE pending
          /\ current' = next /\ cpu' = next
      BY <1>5 DEF ScheduleNext, StateLeft, KeepFinished, Counts
    <2>3. Counts'
      BY <1>5, <2>1, <2>2 DEF Counts
    <2>4. /\ state'[next] = "Running"
          /\ state'[cpu] = IF label = "wrapper" THEN "Finished" ELSE "Ready"
          /\ \A i \in Ids : i # cpu /\ i # next => state'[i] = state[i]
      <3>1. next \in Ids /\ next # cpu
        BY <2>1 DEF Counts
      <3>2. DOMAIN s = Ids
        BY <1>5
      <3>. HIDE DEF next
      <3>3. state'[next] = "Running"
        BY <2>2, <3>1, <3>2
      <3>4. state'[cpu] = IF s[cpu] = "Finished" THEN "Finished" ELSE "Ready"
        BY <1>1, <2>2, <3>1, <3>2
      <3>5. \A i \in Ids : i # cpu /\ i # next => state'[i] = s[i]
        BY <2>2, <3>2
      <3>. QED  BY <1>5, <3>3, <3>4, <3>5
    <2>5. States'
      <3>1. state' \in [Ids -> {"Ready", "Running", "Finished", "Absent"}]
        BY <1>5, <2>2
      <3>. QED  BY <1>1, <1>5, <2>1, <2>2, <2>4, <3>1 DEF States, Counts
    <2>6. /\ pc'[cpu] = label
          /\ \A i \in Ids : i # cpu => pc'[i] = pc[i]
          /\ pc' \in [Ids -> {"setup", "loop", "absent", "wrapper", "body", "finish"}]
      BY <1>1, <2>2 DEF Places
    <2>7. Places'
      <3>1. CASE cpu = 0
        BY <1>1, <1>5, <2>1, <2>2, <2>4, <2>6, <3>1 DEF Places, Counts
      <3>2. CASE cpu # 0
        BY <1>1, <1>5, <2>1, <2>2, <2>4, <2>6, <3>2 DEF Places, Counts
      <3>. QED  BY <3>1, <3>2
    <2>8. Entries'
      <3>1. entry' \in [Ids -> BOOLEAN] /\ calls' \in [Ids -> SUBSET Ids]
              /\ \A i \in Ids : calls'[i] \subseteq {i}
        BY <1>5, <2>2 DEF Entries
      <3>2. \A i \in Ids : entry'[i] => i # next /\ entry[i]
        BY <1>1, <2>1, <2>2 DEF Entries, Counts
      <3>3. ~entry[cpu]
        BY <1>1 DEF Entries, States
      <3>4. \A i \in Ids : entry'[i] => state'[i] = "Ready" /\ i # 0
        BY <1>1, <2>1, <2>4, <3>2, <3>3 DEF Entries
      <3>5. \A i \in Green : state'[i] = "Ready" => (pc'[i] = "wrapper" <=> entry'[i])
        <4>. SUFFICES ASSUME NEW i \in Green, state'[i] = "Ready"
                      PROVE  pc'[i] = "wrapper" <=> entry'[i]
          OBVIOUS
        <4>1. i # next
          BY <2>4
        <4>2. CASE i = cpu
          BY <1>1, <1>5, <2>4, <2>6, <3>2, <3>3, <4>2
        <4>3. CASE i # cpu
          <5>1. entry'[i] = entry[i]
            BY <2>2, <4>1 DEF Entries
          <5>. QED  BY <2>4, <2>6, <4>1, <4>3, <5>1 DEF Entries
        <4>. QED  BY <4>2, <4>3
      <3>6. pending = None
        BY <1>5 DEF Entries
      <3>7. pc'[next] = pc[next] /\ cpu' = next
        BY <1>1, <2>1, <2>2, <2>6 DEF Counts
      <3>8. pc'[cpu'] = "wrapper" => pending' = cpu'
        BY <1>1, <2>1, <2>2, <3>7 DEF Entries, Places, Counts
      <3>9. pc'[cpu'] # "wrapper" => pending' = None
        BY <1>1, <2>1, <2>2, <3>6, <3>7 DEF Entries, Places, Counts
      <3>. QED  BY <3>1, <3>4, <3>5, <3>8, <3>9 DEF Entries
    <2>. QED  BY <2>3, <2>5, <2>7, <2>8
  <1>6. ASSUME RunTurn PROVE Inv'
    <2>1. CASE Candidates(state) = {}
      <3>1. state' = state /\ UNCHANGED <<n, entry, current, pending, active, cpu, calls>>
              /\ pc' = pc
        BY <1>6, <2>1 DEF RunTurn, ScheduleNext, Places
      <3>. QED  BY <3>1 DEF Counts, States, Places, Entries
    <2>2. CASE Candidates(state) # {}
      BY <1>1, <1>5, <1>6, <2>2 DEF RunTurn, States
    <2>. QED  BY <2>1, <2>2
  <1>7. ASSUME NEW i \in Green, Wrapper(i) PROVE Inv'
    <2>1. pending = i /\ i \in Ids /\ cpu = i /\ i # None
      BY <1>1, <1>7 DEF Wrapper, Entries
    <2>2. calls' = [calls EXCEPT ![i] = @ \cup {i}] /\ pc' = [pc EXCEPT ![i] = "body"]
      BY <1>7, <2>1 DEF Wrapper
    <2>3. Counts' /\ States'
      BY <1>7 DEF Wrapper, Counts, States
    <2>4. Places'
      BY <1>7, <2>1, <2>2 DEF Wrapper, Places
    <2>5. Entries'
      <3>1. pc'[i] = "body" /\ \A j \in Ids : j # i => pc'[j] = pc[j]
        BY <2>1, <2>2 DEF Places
      <3>2. state[i] = "Running" /\ state' = state /\ entry' = entry
              /\ cpu' = i /\ pending' = None
        BY <1>7, <2>1 DEF Wrapper, States
      <3>3. calls' \in [Ids -> SUBSET Ids] /\ \A j \in Ids : calls'[j] \subseteq {j}
        BY <2>1, <2>2 DEF Entries
      <3>4. \A j \in Green : state'[j] = "Ready" => (pc'[j] = "wrapper" <=> entry'[j])
        BY <3>1, <3>2 DEF Entries
      <3>. QED  BY <3>1, <3>2, <3>3, <3>4 DEF Entries
    <2>. QED  BY <2>3, <2>4, <2>5
  \* While a green thread has the CPU main is a candidate.
  <1>8. ASSUME NEW i \in Green, cpu = i,
               NEW s, s[0] = state[0]
        PROVE  0 \in Candidates(s)
    BY <1>8 DEF Candidates, Counts, Places
  <1>9. ASSUME NEW i \in Green, Yield(i) PROVE Inv'
    <2>1. Candidates(state) # {}
      BY <1>8, <1>9 DEF Yield
    <2>. QED  BY <1>1, <1>5, <1>9, <2>1 DEF Yield, States, Places
  <1>10. ASSUME NEW i \in Green, BodyReturns(i) PROVE Inv'
    <2>1. cpu = i /\ i \in Ids /\ pc[i] = "body" /\ pc' = [pc EXCEPT ![i] = "finish"]
            /\ UNCHANGED <<n, state, entry, current, pending, active, cpu, calls>>
      BY <1>10 DEF BodyReturns
    <2>2. pc'[i] = "finish" /\ \A j \in Ids : j # i => pc'[j] = pc[j]
      BY <2>1 DEF Places
    <2>3. Counts' /\ States'
      BY <2>1 DEF Counts, States
    <2>4. Places'
      BY <2>1, <2>2 DEF Places
    <2>5. Entries'
      BY <2>1, <2>2 DEF Entries, States
    <2>. QED  BY <2>3, <2>4, <2>5
  <1>11. ASSUME NEW i \in Green, Finish(i) PROVE Inv'
    <2>. DEFINE s == [state EXCEPT ![current] = "Finished"]
    <2>1. active /\ cpu = i /\ current = i /\ i \in Ids /\ i # 0
      BY <1>11 DEF Finish, Places, Counts
    <2>2. s[0] = state[0] /\ s[cpu] = "Finished"
            /\ \A j \in Ids : j # cpu => s[j] = state[j]
            /\ s \in [Ids -> {"Ready", "Running", "Finished", "Absent"}]
      BY <1>1, <2>1 DEF States
    <2>3. Candidates(s) # {}
      BY <1>8, <2>1, <2>2
    <2>4. ScheduleNext(s, "wrapper") /\ UNCHANGED <<n, active, calls>>
      BY <1>11, <2>1 DEF Finish
    <2>5. pc[cpu] # "wrapper" /\ pc[0] = "loop"
      BY <1>11, <2>1 DEF Finish, Places
    <2>. HIDE DEF s
    <2>. QED  BY <1>5, <2>1, <2>2, <2>3, <2>4, <2>5
  <1>12. CASE UNCHANGED vars
    BY <1>12 DEF vars, Counts, States, Places, Entries
  <1>. QED
    BY <1>2, <1>4, <1>6, <1>7, <1>9, <1>10, <1>11, <1>12 DEF Next

LEMMA Invariant == Spec => []Inv
  BY InvInit, InvStep, PTL DEF Spec

\* The scheduler and the CPU agree on who runs, for any number of threads:
\* switch_context never saves one thread's registers into another's context.
THEOREM SchedulerKnowsCpu == Spec => []OneRunning
  <1>1. Inv => OneRunning
    BY DEF Inv, Counts, States, OneRunning
  <1>. QED  BY <1>1, Invariant, PTL

\* Every wrapper finds its own thread's entry in CURRENT_THREAD_ENTRY: no
\* thread ever runs another's entry, or falls through without one.
THEOREM WrapperGetsOwnEntry == Spec => []OwnEntry
  <1>1. Inv => OwnEntry
    BY DEF Inv, Entries, OwnEntry
  <1>. QED  BY <1>1, Invariant, PTL

-----------------------------------------------------------------------------
\* What FinishedRan needs beyond Inv: an entry has been called wherever its
\* wrapper is past the call, and no thread has a history before it is spawned.
Ran ==
    /\ \A i \in Green : state[i] = "Finished" => calls[i] = {i} /\ pc[i] # "body"
    /\ \A i \in Green : pc[i] \in {"body", "finish"} => calls[i] = {i}
    /\ \A i \in Green : state[i] = "Absent" => calls[i] = {} /\ pc[i] = "absent"
    /\ pc[0] = "setup" => \A i \in Green : calls[i] # {} => state[i] = "Finished"

\* schedule_next neither finishes a thread nor revives one.
LEMMA SchedulingKeepsFinished ==
    ASSUME Inv, NEW s \in [Ids -> {"Ready", "Running", "Finished", "Absent"}],
           NEW label, ScheduleNext(s, label),
           NEW i \in Ids, state'[i] \in {"Finished", "Absent"}
    PROVE  s[i] = state'[i]
  <1>1. CASE Candidates(s) = {}
    BY <1>1 DEF ScheduleNext
  <1>2. CASE Candidates(s) # {}
    <2>. DEFINE next == NextReady(s)
    <2>1. state' = [s EXCEPT ![current] = StateLeft(s), ![next] = "Running"]
      BY <1>2 DEF ScheduleNext
    <2>. HIDE DEF next
    <2>2. i # next
      BY <2>1
    <2>3. CASE i = current
      BY <2>1, <2>2, <2>3 DEF StateLeft, KeepFinished
    <2>4. CASE i # current
      BY <2>1, <2>2, <2>4
    <2>. QED  BY <2>3, <2>4
  <1>. QED  BY <1>1, <1>2

LEMMA RanStep == Inv /\ Ran /\ [Next]_vars => Ran'
  <1>. SUFFICES ASSUME Inv, Ran, [Next]_vars PROVE Ran'
    OBVIOUS
  <1>. USE DEF Ids, Green
  <1>1. n \in 1..(MaxThreads + 1) /\ cpu \in Ids /\ current = cpu /\ 0 \in Ids
    BY MaxThreadsAssumption DEF Inv, Counts, MaxThreadsAssumption
  <1>2. DOMAIN pc = Ids /\ DOMAIN state = Ids /\ DOMAIN calls = Ids
    BY DEF Inv, States, Places, Entries
  <1>3. CASE Spawn
    <2>1. n \in Green /\ state[n] = "Absent" /\ calls[n] = {}
      BY <1>1, <1>3, MaxThreadsAssumption DEF Spawn, Inv, States, Ran, MaxThreadsAssumption
    <2>2. \A i \in Ids : i # n => state'[i] = state[i] /\ pc'[i] = pc[i]
      BY <1>2, <1>3 DEF Spawn
    <2>3. state'[n] = "Ready" /\ pc'[n] = "wrapper" /\ calls' = calls /\ n # 0
      BY <1>2, <1>3, <2>1 DEF Spawn
    <2>. QED  BY <2>1, <2>2, <2>3, <1>1 DEF Ran
  <1>4. CASE Run
    <2>1. pc'[0] = "loop" /\ \A i \in Green : pc'[i] = pc[i]
      BY <1>1, <1>2, <1>4 DEF Run
    <2>. QED  BY <1>4, <2>1 DEF Run, Ran
  <1>5. CASE RunReturn
    <2>1. \A i \in Green : pc'[i] = pc[i]
      BY <1>2, <1>5 DEF RunReturn
    <2>2. \A i \in Green : state[i] = "Finished" \/ calls[i] = {}
      <3>1. \A i \in Green : i < n => state[i] = "Finished"
        BY <1>1, <1>5 DEF RunReturn, LoopEnds, AllFinished
      <3>2. \A i \in Green : i >= n => state[i] = "Absent"
        BY DEF Inv, States
      <3>. QED  BY <1>1, <3>1, <3>2 DEF Ran
    <2>. QED  BY <1>5, <2>1, <2>2 DEF RunReturn, Ran
  \* A call of schedule_next that goes on at label.
  <1>6. ASSUME NEW s \in [Ids -> {"Ready", "Running", "Finished", "Absent"}],
               NEW label \in {"loop", "body", "wrapper"},
               ScheduleNext(s, label), calls' = calls, pc[0] = "loop",
               cpu = 0 => label = "loop",
               \A i \in Green : s[i] = "Finished" /\ state[i] # "Finished"
                                  => i = cpu /\ calls[i] = {i} /\ label = "wrapper",
               \A i \in Ids : s[i] = "Absent" => state[i] = "Absent",
               \A i \in Green : s[i] = "Finished" /\ i = cpu => label # "body",
               cpu # 0 /\ label = "body" => calls[cpu] = {cpu},
               label # "loop" => cpu # 0
        PROVE  Ran'
    <2>1. pc'[cpu] = label /\ \A i \in Ids : i # cpu => pc'[i] = pc[i]
      BY <1>1, <1>2, <1>6 DEF ScheduleNext
    <2>2. \A i \in Ids : state'[i] \in {"Finished", "Absent"} => s[i] = state'[i]
      BY <1>6, SchedulingKeepsFinished
    <2>3. pc'[0] = "loop"
      BY <1>1, <1>6, <2>1
    <2>4. ASSUME NEW i \in Green, state'[i] = "Finished"
          PROVE  calls'[i] = {i} /\ pc'[i] # "body"
      BY <1>6, <2>1, <2>2, <2>4 DEF Ran
    <2>5. ASSUME NEW i \in Green, pc'[i] \in {"body", "finish"}
          PROVE  calls'[i] = {i}
      BY <1>6, <2>1, <2>5 DEF Ran
    <2>6. ASSUME NEW i \in Green, state'[i] = "Absent"
          PROVE  calls'[i] = {} /\ pc'[i] = "absent"
      <3>1. state[i] = "Absent" /\ i # cpu
        BY <1>6, <2>2, <2>6 DEF Inv, States
      <3>. QED  BY <1>6, <2>1, <3>1 DEF Ran
    <2>. QED  BY <2>3, <2>4, <2>5, <2>6 DEF Ran
  <1>7. CASE RunTurn
    BY <1>6, <1>7, <1>1 DEF RunTurn, Inv, States
  <1>8. ASSUME NEW i \in Green, Wrapper(i) PROVE Ran'
    <2>1. pending = i /\ i # None /\ calls[i] \subseteq {i}
      BY <1>1, <1>8, MaxThreadsAssumption DEF Wrapper, Inv, Entries, None, MaxThreadsAssumption
    <2>2. calls' = [calls EXCEPT ![i] = @ \cup {i}] /\ pc' = [pc EXCEPT ![i] = "body"]
      BY <1>8, <2>1 DEF Wrapper
    <2>3. calls'[i] = {i} /\ pc'[i] = "body" /\ state' = state /\ state[i] = "Running"
      BY <1>1, <1>2, <1>8, <2>1, <2>2 DEF Wrapper, Inv, States
    <2>4. \A j \in Ids : j # i => calls'[j] = calls[j] /\ pc'[j] = pc[j]
      BY <1>2, <2>2
    <2>5. pc'[0] = "loop"
      BY <1>1, <1>8, <2>4 DEF Wrapper, Inv, Places
    <2>. QED  BY <2>3, <2>4, <2>5 DEF Ran
  <1>9. ASSUME NEW i \in Green, Yield(i) PROVE Ran'
    <2>1. state[i] = "Running" /\ pc[0] = "loop" /\ calls[i] = {i} /\ i # 0
      BY <1>1, <1>9 DEF Yield, Inv, States, Places, Ran
    <2>. QED  BY <1>6, <1>9, <2>1 DEF Yield, Inv, States
  <1>10. ASSUME NEW i \in Green, BodyReturns(i) PROVE Ran'
    <2>1. pc'[i] = "finish" /\ \A j \in Ids : j # i => pc'[j] = pc[j]
      BY <1>2, <1>10 DEF BodyReturns
    <2>2. calls' = calls /\ state' = state /\ pc[i] = "body" /\ state[i] = "Running"
      BY <1>1, <1>10 DEF BodyReturns, Inv, States
    <2>. QED  BY <1>1, <2>1, <2>2 DEF Ran
  <1>11. ASSUME NEW i \in Green, Finish(i) PROVE Ran'
    <2>. DEFINE s == [state EXCEPT ![current] = "Finished"]
    <2>1. active /\ pc[0] = "loop" /\ cpu = i /\ current = i /\ calls[i] = {i} /\ i # 0
      BY <1>1, <1>11 DEF Finish, Inv, Places, Ran
    <2>2. ScheduleNext(s, "wrapper") /\ calls' = calls
      BY <1>11, <2>1 DEF Finish
    <2>3. /\ s \in [Ids -> {"Ready", "Running", "Finished", "Absent"}]
          /\ \A j \in Ids : j # i => s[j] = state[j]
          /\ s[i] = "Finished"
      BY <1>2, <2>1 DEF Inv, States
    <2>. HIDE DEF s
    <2>4. \A j \in Green : s[j] = "Finished" /\ state[j] # "Finished" => j = cpu
      BY <2>1, <2>3
    <2>5. \A j \in Ids : s[j] = "Absent" => state[j] = "Absent"
      BY <2>1, <2>3
    <2>6. cpu # 0 /\ calls[cpu] = {cpu}
      BY <2>1
    <2>. QED  BY <1>6, <2>1, <2>2, <2>3, <2>4, <2>5, <2>6
  <1>12. CASE UNCHANGED vars
    BY <1>12 DEF vars, Ran
  <1>. QED
    BY <1>3, <1>4, <1>5, <1>7, <1>8, <1>9, <1>10, <1>11, <1>12 DEF Next

\* A thread is Finished only after its own entry was called and has returned,
\* and when run returns every thread whose entry was called has finished, for
\* any number of threads: no spawned work is lost or cut short.
THEOREM FinishedThreadsRan == Spec => []FinishedRan
  <1>1. Init => Ran
    <2>. SUFFICES ASSUME Init PROVE Ran
      OBVIOUS
    <2>1. \A i \in Green : state[i] = "Absent" /\ pc[i] = "absent" /\ calls[i] = {}
      BY DEF Init, Green, Ids
    <2>. QED  BY <2>1 DEF Ran
  <1>2. Ran => FinishedRan
    BY DEF Ran, FinishedRan
  <1>. QED  BY <1>1, <1>2, RanStep, Invariant, PTL DEF Spec

-----------------------------------------------------------------------------
(* Nobody is overtaken twice. *)

\* How far a search from thread i meets thread j.
Ring(i, j) == IF i <= j THEN j - i ELSE j - i + n

\* The threads that got the CPU since a Ready thread had it lie between it and
\* current, in the order of the search, or will never get it again; between two
\* runs nobody else is remembered than main.
OvertakenInv ==
    /\ overtaken \in [Ids -> SUBSET (0..(n - 1))]
    /\ pc[0] = "setup" =>
          \A i \in Ids : \A j \in overtaken[i] : j = 0 \/ state[j] = "Finished"
    /\ \A i \in Ids : \A j \in overtaken[i] :
          state[i] = "Ready" /\ pc[0] = "loop" =>
              state[j] = "Finished" \/ Ring(i, j) <= Ring(i, current)

NobodyOvertakes ==
    cpu' # cpu =>
        \A i \in Ids : state[i] = "Ready" /\ state'[i] = "Ready" => cpu' \notin overtaken[i]

LEMMA DistanceIsRing ==
    ASSUME Counts, NEW i \in 0..(n - 1)
    PROVE  Distance(i) = Ring(current, i)
  <1>1. n \in Nat \ {0} /\ current \in 0..(n - 1)
    BY MaxThreadsAssumption DEF Counts, MaxThreadsAssumption
  <1>2. \A x \in 0..(n - 1) : x % n = x /\ (x + n) % n = x
    BY <1>1
  <1>3. CASE current <= i
    <2>1. i - current \in 0..(n - 1) /\ i + n - current = (i - current) + n
      BY <1>1, <1>3
    <2>. QED  BY <1>2, <1>3, <2>1 DEF Distance, Ring
  <1>4. CASE i < current
    <2>1. i + n - current \in 0..(n - 1) /\ i - current + n = i + n - current /\ ~(current <= i)
      BY <1>1, <1>4
    <2>. QED  BY <1>2, <2>1 DEF Distance, Ring
  <1>. QED  BY <1>1, <1>3, <1>4

\* A search from current passes next before i: seen from i, next comes after
\* current.
LEMMA RingTurns ==
    ASSUME Counts, NEW i \in 0..(n - 1), NEW j \in 0..(n - 1),
           i # current, j # current, i # j,
           Distance(j) <= Distance(i)
    PROVE  Ring(i, current) < Ring(i, j)
  <1>1. n \in Nat \ {0} /\ current \in 0..(n - 1)
    BY MaxThreadsAssumption DEF Counts, MaxThreadsAssumption
  <1>2. Ring(current, j) <= Ring(current, i)
    BY DistanceIsRing
  <1>. QED  BY <1>1, <1>2 DEF Ring

\* s: the states schedule_next starts from, of which only that of the thread on
\* the CPU may be new, and Finished then.
LEMMA SwitchInOrder ==
    ASSUME Inv, OvertakenInv, pc[0] = "loop",
           NEW s \in [Ids -> {"Ready", "Running", "Finished", "Absent"}],
           \A i \in Ids : i # cpu => s[i] = state[i],
           s[cpu] \in {"Running", "Finished"},
           NEW label \in {"loop", "body", "wrapper"},
           cpu = 0 => label = "loop",
           Candidates(s) # {}, ScheduleNext(s, label), n' = n
    PROVE  OvertakenInv' /\ NobodyOvertakes
  <1>1. n \in Nat \ {0} /\ current \in 0..(n - 1) /\ cpu = current /\ 0..(n - 1) \subseteq Ids
        /\ 0 \in Ids
    BY MaxThreadsAssumption DEF Inv, Counts, MaxThreadsAssumption, Ids
  <1>2. PICK next : next = NextReady(s)  OBVIOUS
  <1>3. /\ next \in 0..(n - 1) /\ next # cpu /\ s[next] = "Ready" /\ state[next] = "Ready"
        /\ \A j \in Candidates(s) : Distance(next) <= Distance(j)
    BY <1>1, <1>2, NextIsCandidate DEF Inv
  <1>4. /\ state' = [s EXCEPT ![current] = StateLeft(s), ![next] = "Running"]
        /\ current' = next /\ cpu' = next
        /\ overtaken' = [i \in Ids |-> IF i \in {cpu, next} THEN {}
                                       ELSE overtaken[i] \cup {next}]
        /\ pc' = [pc EXCEPT ![cpu] = label]
    BY <1>2 DEF ScheduleNext
  <1>5. /\ state'[next] = "Running"
        /\ s[cpu] = "Finished" => state'[cpu] = "Finished"
        /\ \A i \in Ids : i # cpu /\ i # next => state'[i] = state[i]
    BY <1>1, <1>3, <1>4 DEF StateLeft, KeepFinished
  <1>6. \A i \in Ids : state[i] = "Finished" => state'[i] = "Finished"
    BY <1>1, <1>3, <1>5 DEF Inv, States
  <1>7. pc'[0] = "loop"
    BY <1>1, <1>4 DEF Inv, Places
  <1>8. ASSUME NEW i \in Ids, i # cpu, i # next, state[i] = "Ready"
        PROVE  Ring(i, current) < Ring(i, next) /\ i \in 0..(n - 1)
    <2>1. i \in 0..(n - 1)
      BY <1>1, <1>8 DEF Inv, States, Ids
    <2>2. i \in Candidates(s)
      BY <1>1, <1>8, <2>1 DEF Candidates
    <2>. QED  BY <1>1, <1>3, <1>8, <2>1, <2>2, RingTurns DEF Inv
  <1>9. overtaken' \in [Ids -> SUBSET (0..(n' - 1))]
    BY <1>3, <1>4 DEF OvertakenInv
  <1>10. ASSUME NEW i \in Ids, NEW j \in overtaken'[i], state'[i] = "Ready"
         PROVE  state'[j] = "Finished" \/ Ring(i, j)' <= Ring(i, current)'
    <2>1. i # cpu /\ i # next /\ state[i] = "Ready" /\ j \in overtaken[i] \cup {next}
      BY <1>4, <1>5, <1>10
    <2>2. Ring(i, current) < Ring(i, next) /\ i \in 0..(n - 1)
      BY <1>8, <2>1
    <2>3. CASE j = next
      BY <1>1, <1>3, <1>4, <2>2, <2>3 DEF Ring
    <2>4. CASE j \in overtaken[i]
      <3>1. state[j] = "Finished" \/ Ring(i, j) <= Ring(i, current)
        BY <2>1, <2>4 DEF OvertakenInv
      <3>2. j \in 0..(n - 1)
        BY <2>4 DEF OvertakenInv
      <3>3. CASE state[j] = "Finished"
        BY <1>1, <1>6, <3>2, <3>3
      <3>4. CASE Ring(i, j) <= Ring(i, current)
        BY <1>1, <1>3, <1>4, <2>2, <3>2, <3>4 DEF Ring
      <3>. QED  BY <3>1, <3>3, <3>4
    <2>. QED  BY <2>1, <2>3, <2>4
  <1>11. OvertakenInv'
    BY <1>7, <1>9, <1>10 DEF OvertakenInv
  <1>12. ASSUME NEW i \in Ids, state[i] = "Ready", state'[i] = "Ready", next \in overtaken[i]
         PROVE  FALSE
    <2>1. i # next
      BY <1>5, <1>12
    <2>2. i # cpu
      BY <1>12 DEF Inv, States
    <2>3. Ring(i, current) < Ring(i, next) /\ i \in 0..(n - 1)
      BY <1>8, <1>12, <2>1, <2>2
    <2>4. Ring(i, next) <= Ring(i, current)
      BY <1>3, <1>12 DEF OvertakenInv
    <2>. QED  BY <1>1, <1>3, <2>3, <2>4 DEF Ring
  <1>. QED  BY <1>4, <1>11, <1>12 DEF NobodyOvertakes

LEMMA OvertakenStep == Inv /\ OvertakenInv /\ [Next]_vars => OvertakenInv' /\ NobodyOvertakes
  <1>. SUFFICES ASSUME Inv, OvertakenInv, [Next]_vars PROVE OvertakenInv' /\ NobodyOvertakes
    OBVIOUS
  <1>1. n \in Nat \ {0} /\ current \in 0..(n - 1) /\ cpu = current /\ 0..(n - 1) \subseteq Ids
        /\ 0 \in Ids /\ \A i \in Green : i \in Ids /\ i # 0
    BY MaxThreadsAssumption DEF Inv, Counts, MaxThreadsAssumption, Ids, Green
  <1>2. ASSUME Spawn PROVE OvertakenInv' /\ NobodyOvertakes
    <2>1. /\ cpu' = cpu /\ n' = n + 1 /\ n <= MaxThreads /\ overtaken' = overtaken
          /\ state' = [state EXCEPT ![n] = "Ready"] /\ pc' = [pc EXCEPT ![n] = "wrapper"]
          /\ pc[0] = "setup"
      BY <1>2 DEF Spawn
    <2>2. n # 0 /\ pc'[0] = "setup"
      BY <1>1, <2>1 DEF Inv, Places
    <2>3. \A j \in 0..(n - 1) : state'[j] = state[j]
      BY <1>1, <2>1 DEF Inv, States
    <2>4. overtaken' \in [Ids -> SUBSET (0..(n' - 1))]
      <3>1. 0..(n - 1) \subseteq 0..(n' - 1)
        BY <1>1, <2>1
      <3>. QED  BY <2>1, <3>1 DEF OvertakenInv
    <2>5. \A i \in Ids : \A j \in overtaken'[i] : j = 0 \/ state'[j] = "Finished"
      BY <2>1, <2>3 DEF OvertakenInv
    <2>. QED  BY <2>1, <2>2, <2>4, <2>5 DEF OvertakenInv, NobodyOvertakes
  <1>3. ASSUME Run PROVE OvertakenInv' /\ NobodyOvertakes
    <2>1. /\ cpu = 0 /\ pc[0] = "setup" /\ pc'[0] = "loop"
          /\ UNCHANGED <<n, state, current, cpu, overtaken>>
      BY <1>1, <1>3 DEF Run, Inv, Places
    <2>2. ASSUME NEW i \in Ids, NEW j \in overtaken[i]
          PROVE  state[j] = "Finished" \/ Ring(i, j) <= Ring(i, current)
      <3>1. j = 0 \/ state[j] = "Finished"
        BY <2>1 DEF OvertakenInv
      <3>2. j = 0 => Ring(i, j) <= Ring(i, current)
        BY <1>1, <2>1 DEF Ring, Ids
      <3>. QED  BY <3>1, <3>2
    <2>. QED  BY <2>1, <2>2 DEF OvertakenInv, NobodyOvertakes, Ring
  <1>4. ASSUME RunReturn PROVE OvertakenInv' /\ NobodyOvertakes
    <2>1. /\ cpu = 0 /\ pc'[0] = "setup" /\ AllFinished
          /\ UNCHANGED <<n, state, current, cpu, overtaken>>
      BY <1>1, <1>4 DEF RunReturn, Inv, Places, LoopEnds
    <2>2. ASSUME NEW i \in Ids, NEW j \in overtaken[i] PROVE j = 0 \/ state[j] = "Finished"
      <3>1. j \in 0..(n - 1)
        BY DEF OvertakenInv
      <3>. QED  BY <1>1, <2>1, <3>1 DEF AllFinished
    <2>. QED  BY <2>1, <2>2 DEF OvertakenInv, NobodyOvertakes
  \* The steps of threads that keep the CPU and everything overtaken rests on.
  <1>5. ASSUME UNCHANGED <<n, state, current, cpu, overtaken>>, pc'[0] = pc[0]
        PROVE  OvertakenInv' /\ NobodyOvertakes
    BY <1>5 DEF OvertakenInv, NobodyOvertakes, Ring
  <1>6. ASSUME RunTurn PROVE OvertakenInv' /\ NobodyOvertakes
    <2>1. cpu = 0 /\ pc[0] = "loop" /\ ScheduleNext(state, "loop") /\ n' = n
      BY <1>6 DEF RunTurn
    <2>2. CASE Candidates(state) = {}
      BY <1>5, <2>1, <2>2 DEF ScheduleNext, Inv, Places
    <2>3. CASE Candidates(state) # {}
      BY <1>1, <2>1, <2>3, SwitchInOrder DEF Inv, States
    <2>. QED  BY <2>2, <2>3
  <1>7. ASSUME NEW i \in Green, Wrapper(i) \/ BodyReturns(i)
        PROVE  OvertakenInv' /\ NobodyOvertakes
    <2>1. UNCHANGED <<n, state, current, cpu, overtaken>>
      BY <1>7 DEF Wrapper, BodyReturns
    <2>2. pc'[0] = pc[0]
      BY <1>1, <1>7 DEF Wrapper, BodyReturns, Inv, Places
    <2>. QED  BY <1>5, <2>1, <2>2
  <1>8. ASSUME NEW i \in Green, cpu = i, NEW s, s[0] = state[0]
        PROVE  0 \in Candidates(s)
    BY <1>1, <1>8 DEF Candidates, Inv, Counts, Places
  <1>9. ASSUME NEW i \in Green, Yield(i) PROVE OvertakenInv' /\ NobodyOvertakes
    <2>1. /\ cpu = i /\ active /\ pc[0] = "loop" /\ ScheduleNext(state, "body") /\ n' = n
          /\ cpu # 0 /\ Candidates(state) # {}
      BY <1>1, <1>8, <1>9 DEF Yield, Inv, Places
    <2>. QED  BY <1>1, <2>1, SwitchInOrder DEF Inv, States
  <1>10. ASSUME NEW i \in Green, Finish(i) PROVE OvertakenInv' /\ NobodyOvertakes
    <2>1. /\ cpu = i /\ active /\ pc[0] = "loop" /\ n' = n /\ cpu # 0
          /\ ScheduleNext([state EXCEPT ![current] = "Finished"], "wrapper")
      BY <1>1, <1>10 DEF Finish, Inv, Places
    <2>2. PICK s : s = [state EXCEPT ![current] = "Finished"]  OBVIOUS
    <2>3. /\ s \in [Ids -> {"Ready", "Running", "Finished", "Absent"}]
          /\ s[cpu] = "Finished" /\ \A j \in Ids : j # cpu => s[j] = state[j]
          /\ s[0] = state[0]
      BY <1>1, <2>1, <2>2 DEF Inv, States
    <2>4. Candidates(s) # {}
      BY <1>8, <2>1, <2>3
    <2>. QED  BY <2>1, <2>2, <2>3, <2>4, SwitchInOrder
  <1>11. CASE UNCHANGED vars
    BY <1>5, <1>11 DEF vars
  <1>. QED
    BY <1>2, <1>3, <1>4, <1>6, <1>7, <1>9, <1>10, <1>11 DEF Next

\* Round robin, for any number of threads: while a thread is Ready, no other
\* gets the CPU twice (schedule_next's search from current + 1 on).
THEOREM NobodyIsOvertaken == Spec => NoOvertaking
  <1>1. Init => OvertakenInv
    <2>. SUFFICES ASSUME Init PROVE OvertakenInv
      OBVIOUS
    <2>1. overtaken \in [Ids -> SUBSET (0..(n - 1))] /\ \A i \in Ids : overtaken[i] = {}
      BY DEF Init
    <2>. QED  BY <2>1 DEF OvertakenInv
  <1>2. Inv /\ OvertakenInv /\ [Next]_vars => [NobodyOvertakes]_vars
    BY OvertakenStep
  <1>3. NobodyOvertakes =>
           (cpu' # cpu => \A i \in Ids : state[i] = "Ready" /\ state'[i] = "Ready"
                                            => cpu' \notin overtaken[i])
    BY DEF NobodyOvertakes
  <1>4. Spec => []OvertakenInv
    BY <1>1, OvertakenStep, Invariant, PTL DEF Spec
  <1>5. Spec => [][NobodyOvertakes]_vars
    BY <1>2, <1>4, Invariant, PTL DEF Spec
  <1>. QED  BY <1>5, PTL DEF NoOvertaking, NobodyOvertakes

-----------------------------------------------------------------------------
(* StackCoroutine: a context holds what its program left in the registers,  *)
(* at the offsets at which it is loaded again.                               *)

Programs == Coroutines \cup {Starter}

\* Registers with which c goes on: its own, or those of its entry, with the top
\* of its stack in sp.
Sound(c, r) ==
    /\ r = [x \in Coroutine!CalleeSaved |-> r[x]]
    /\ r["ra"] = <<"entry", c>> =>
          \E top \in RawTops, pad \in 0..15 :
              top - pad = r["sp"][1] /\ (top - pad) % 16 = 0

\* Who is not running finds its registers in its TaskContext.
CoroutineInv ==
    /\ running \in Programs
    /\ context = [c \in Programs |-> context[c]]
    /\ left = [c \in Programs |-> left[c]]
    /\ Sound(running, regs.regs)
    /\ \A c \in Programs : Sound(c, left[c])
    /\ \A c \in Programs \ {running} : \A i \in 1..14 :
          context[c][Coroutine!Offset(i)] = left[c][Coroutine!Fields[i]]

LEMMA FourteenFields ==
    /\ DOMAIN Coroutine!Fields = 1..14
    /\ Coroutine!CalleeSaved = {Coroutine!Fields[i] : i \in 1..14}
    /\ "ra" \in Coroutine!CalleeSaved /\ "sp" \in Coroutine!CalleeSaved
<1>1. DOMAIN Coroutine!Fields = 1..14 /\ Coroutine!Fields[1] = "sp" /\ Coroutine!Fields[2] = "ra"
  BY DEF Coroutine!Fields
<1>2. Coroutine!CalleeSaved = {Coroutine!Fields[i] : i \in 1..14}
  BY <1>1 DEF Coroutine!CalleeSaved, Coroutine!Range
<1> QED BY <1>1, <1>2

\* The instructions store and load each register at the offset of its field.
LEMMA OffsetsAre ==
    ASSUME NEW i \in 1..14
    PROVE  /\ Coroutine!Offset(i) \in Coroutine!Offsets
           /\ Coroutine!Offset(i) \div 8 + 1 = i
  BY FourteenFields DEF Coroutine!Offset, Coroutine!Offsets

LEMMA LoadFinds ==
    ASSUME NEW r \in Coroutine!CalleeSaved
    PROVE  \E i \in 1..14 : i = Coroutine!Index(Coroutine!Loads, r) /\ Coroutine!Fields[i] = r
  BY FourteenFields DEF Coroutine!Index, Coroutine!Loads

\* The registers an entry is given, and those a program has of its own.
LEMMA EntryIsSound ==
    ASSUME NEW c \in Coroutines, NEW top \in RawTops
    PROVE  Sound(c, Coroutine!Entry(c, top))
<1>1. PICK t \in Nat : t = top
  BY CoroutineAssumption
<1>2. Coroutine!Align16(Coroutine!Align16(t)) = t - (t % 16) /\ (t - (t % 16)) % 16 = 0
      /\ t % 16 \in 0..15
  BY DEF Coroutine!Align16
<1>3. Coroutine!Entry(c, top)["sp"] = <<t - (t % 16)>>
  BY <1>1, <1>2, FourteenFields DEF Coroutine!Entry
<1>4. Coroutine!Entry(c, top)
        = [x \in Coroutine!CalleeSaved |-> Coroutine!Entry(c, top)[x]]
  BY DEF Coroutine!Entry
<1> QED BY <1>1, <1>2, <1>3, <1>4 DEF Sound

LEMMA OwnIsSound ==
    ASSUME NEW c, NEW k
    PROVE  Sound(c, Coroutine!Own(c, k))
<1>1. Coroutine!Own(c, k)["ra"] = <<c, "ra", k>>
  BY FourteenFields DEF Coroutine!Own
<1>2. <<c, "ra", k>> # <<"entry", c>>
  BY DOMAIN <<c, "ra", k>> = 1..3, DOMAIN <<"entry", c>> = 1..2, 3 \in 1..3, 3 \notin 1..2
<1>3. Coroutine!Own(c, k) = [x \in Coroutine!CalleeSaved |-> Coroutine!Own(c, k)[x]]
  BY DEF Coroutine!Own
<1> QED BY <1>1, <1>2, <1>3 DEF Sound

LEMMA CoroutineInit == Coroutine!Init => CoroutineInv
<1> SUFFICES ASSUME Coroutine!Init PROVE CoroutineInv
  OBVIOUS
<1>1. PICK tops \in [Coroutines -> RawTops] :
        /\ running = Starter
        /\ regs = [regs |-> Coroutine!Own(Starter, 0), args |-> <<"old", "new">>]
        /\ left = [c \in Programs |->
                      IF c = Starter THEN regs.regs ELSE Coroutine!Entry(c, tops[c])]
        /\ context = [c \in Programs |->
                         [o \in Coroutine!Offsets |->
                             IF c = Starter THEN <<0>>
                             ELSE Coroutine!Entry(c, tops[c])[Coroutine!Fields[o \div 8 + 1]]]]
  BY DEF Coroutine!Init, Programs
<1>2. regs.regs = Coroutine!Own(Starter, 0) /\ Sound(Starter, regs.regs)
  BY <1>1, OwnIsSound
<1>3. \A c \in Programs : c # Starter => c \in Coroutines /\ tops[c] \in RawTops
  BY <1>1 DEF Programs
<1>4. ASSUME NEW c \in Programs PROVE Sound(c, left[c])
  <2>1. CASE c = Starter
    BY <1>1, <1>2, <2>1
  <2>2. CASE c # Starter
    BY <1>1, <1>3, <2>2, EntryIsSound
  <2> QED BY <2>1, <2>2
<1>5. ASSUME NEW c \in Programs \ {running}, NEW i \in 1..14
      PROVE  context[c][Coroutine!Offset(i)] = left[c][Coroutine!Fields[i]]
  BY <1>1, OffsetsAre
<1>6. running \in Programs
  BY <1>1 DEF Programs
<1>7. context = [c \in Programs |-> context[c]] /\ left = [c \in Programs |-> left[c]]
  BY <1>1
<1> QED BY <1>1, <1>2, <1>4, <1>5, <1>6, <1>7 DEF CoroutineInv

\* What ResumesWhereLeft says of a step.
Resumes ==
    running' # running =>
        /\ regs'.regs = left[running']
        /\ regs'.regs["ra"] = <<"entry", running'>> =>
              \E top \in RawTops, pad \in 0..15 :
                  top - pad = regs'.regs["sp"][1] /\ (top - pad) % 16 = 0
        /\ regs'.args = <<"zero", "zero">>

LEMMA CoroutineStep ==
    CoroutineInv /\ [Coroutine!Next]_Coroutine!vars => CoroutineInv' /\ Resumes
<1> SUFFICES ASSUME CoroutineInv, [Coroutine!Next]_Coroutine!vars
             PROVE  CoroutineInv' /\ Resumes
  OBVIOUS
<1>1. CASE UNCHANGED Coroutine!vars
  BY <1>1 DEF Coroutine!vars, CoroutineInv, Resumes, Sound
<1>2. CASE Coroutine!Work
  <2>1. PICK k \in {0, 1} :
          /\ regs' = [regs |-> Coroutine!Own(running, k), args |-> <<"old", "new">>]
          /\ UNCHANGED <<context, running, left>>
    BY <1>2 DEF Coroutine!Work
  <2>2. regs'.regs = Coroutine!Own(running, k)
    BY <2>1
  <2>3. Sound(running, regs'.regs)
    BY <2>2, OwnIsSound
  <2> QED BY <2>1, <2>3 DEF CoroutineInv, Resumes, Sound
<1>3. ASSUME NEW old \in Programs, NEW new \in Programs, Coroutine!SwitchContext(old, new)
      PROVE  CoroutineInv' /\ Resumes
  <2>1. /\ old = running /\ new # old /\ running' = new
        /\ context' = [context EXCEPT ![old] =
              [o \in Coroutine!Offsets |-> regs.regs[Coroutine!Fields[o \div 8 + 1]]]]
        /\ left' = [left EXCEPT ![old] = regs.regs]
    BY <1>3 DEF Coroutine!SwitchContext, Coroutine!Stored
  <2>2. /\ regs'.regs = [r \in Coroutine!CalleeSaved |->
               context[new][Coroutine!Offset(Coroutine!Index(Coroutine!Loads, r))]]
        /\ regs'.args = <<"zero", "zero">>
    BY <1>3 DEF Coroutine!SwitchContext
  <2>3. ASSUME NEW r \in Coroutine!CalleeSaved
        PROVE  context[new][Coroutine!Offset(Coroutine!Index(Coroutine!Loads, r))] = left[new][r]
    BY <2>1, LoadFinds DEF CoroutineInv
  <2>4. regs'.regs = left[new]
    <3>1. left[new] = [r \in Coroutine!CalleeSaved |-> left[new][r]]
      BY DEF CoroutineInv, Sound
    <3> QED BY <2>2, <2>3, <3>1
  <2>5. Sound(new, regs'.regs)
    BY <2>4 DEF CoroutineInv
  <2>6. /\ left'[old] = regs.regs
        /\ \A c \in Programs : c # old => left'[c] = left[c] /\ context'[c] = context[c]
        /\ context'[old] = [o \in Coroutine!Offsets |->
                               regs.regs[Coroutine!Fields[o \div 8 + 1]]]
    BY <2>1 DEF CoroutineInv
  <2>7. \A c \in Programs : Sound(c, left'[c])
    BY <2>1, <2>6 DEF CoroutineInv
  <2>8. ASSUME NEW c \in Programs \ {new}, NEW i \in 1..14
        PROVE  context'[c][Coroutine!Offset(i)] = left'[c][Coroutine!Fields[i]]
    <3>1. CASE c = old
      BY <2>6, <3>1, OffsetsAre
    <3>2. CASE c # old
      BY <2>1, <2>6, <3>2 DEF CoroutineInv
    <3> QED BY <3>1, <3>2
  <2>9. context' = [c \in Programs |-> context'[c]] /\ left' = [c \in Programs |-> left'[c]]
    BY <2>1 DEF CoroutineInv
  <2>10. CoroutineInv'
    BY <2>1, <2>5, <2>7, <2>8, <2>9 DEF CoroutineInv, Sound
  <2>11. Resumes
    BY <2>1, <2>2, <2>4, <2>5 DEF Resumes, Sound
  <2> QED BY <2>10, <2>11
<1> QED BY <1>1, <1>2, <1>3 DEF Coroutine!Next, Programs

\* Whoever is switched to finds its registers as it left them, or its entry and
\* an aligned stack, for any coroutines and stacks (switch_context, init).
THEOREM CoroutineResumes ==
    Coroutine!Init /\ [][Coroutine!Next]_Coroutine!vars => ResumesWhereLeft
<1>1. Coroutine!Init /\ [][Coroutine!Next]_Coroutine!vars => [][Resumes]_Coroutine!vars
  BY CoroutineInit, CoroutineStep, PTL
<1> QED BY <1>1, PTL DEF ResumesWhereLeft, Coroutine!ResumesWhereLeft, Resumes

-----------------------------------------------------------------------------
(* Sequences: moving a message from one queue to the next. *)

\* A message that moves from the head of one sequence to the end of the one
\* before leaves their concatenation as it was.
LEMMA HeadMoves ==
    ASSUME NEW S, NEW a \in Seq(S), NEW b \in Seq(S), b # <<>>
    PROVE  /\ Append(a, Head(b)) \o Tail(b) = a \o b
           /\ Append(a, Head(b)) \in Seq(S) /\ Tail(b) \in Seq(S)
<1>1. Head(b) \in S /\ Tail(b) \in Seq(S) /\ Len(b) # 0 /\ Len(Tail(b)) = Len(b) - 1
  OBVIOUS
<1>2. Append(a, Head(b)) \in Seq(S) /\ Len(Append(a, Head(b))) = Len(a) + 1
  BY <1>1
<1> DEFINE s == Append(a, Head(b)) \o Tail(b)
           u == a \o b
<1>3. s \in Seq(S) /\ u \in Seq(S) /\ Len(s) = Len(u) /\ Len(u) = Len(a) + Len(b)
  BY <1>1, <1>2
<1>4. \A i \in 1..Len(u) : s[i] = u[i]
  <2>1. SUFFICES ASSUME NEW i \in 1..Len(u) PROVE s[i] = u[i]
    OBVIOUS
  <2>2. CASE i <= Len(a)
    BY <1>1, <1>2, <1>3, <2>2
  <2>3. CASE i = Len(a) + 1
    BY <1>1, <1>2, <1>3, <2>3
  <2>4. CASE i > Len(a) + 1
    <3>1. s[i] = Tail(b)[i - (Len(a) + 1)]
      BY <1>1, <1>2, <1>3, <2>4
    <3>2. u[i] = b[i - Len(a)]
      BY <1>1, <1>2, <1>3, <2>4
    <3>3. i - (Len(a) + 1) \in 1..Len(Tail(b)) /\ i - (Len(a) + 1) + 1 = i - Len(a)
      BY <1>1, <1>3, <2>4
    <3> QED BY <1>1, <3>1, <3>2, <3>3
  <2> QED BY <1>3, <2>2, <2>3, <2>4
<1>5. s = u
  <2> HIDE DEF s, u
  <2> QED BY <1>3, <1>4
<1> QED BY <1>1, <1>2, <1>5

LEMMA AppendMoves ==
    ASSUME NEW S, NEW a \in Seq(S), NEW b \in Seq(S), NEW h \in S
    PROVE  a \o Append(b, h) = Append(a \o b, h)
OBVIOUS

-----------------------------------------------------------------------------
(* Pipes: what the parent has read, what is in the pipe and what the child  *)
(* holds, together, are the chosen chunks among those it took.             *)

\* What has left the child's input on its way to the parent, oldest first.
Flow == (output \o stdout) \o holds

\* s lists the chunks of a set, in the order of the input.
Lists(s, passed) ==
    /\ \A i \in DOMAIN s : s[i] \in passed /\ (i > 1 => s[i - 1] < s[i])
    /\ passed = {s[i] : i \in DOMAIN s}

\* The chunks that the child has read.
Taken == written - Len(stdin)

PipeTypes ==
    /\ parent \in {"idle", "write", "read", "wait", "returned"}
    /\ chunks \in Nat /\ written \in 0..chunks /\ chosen \subseteq 1..chunks
    /\ stdin \in Seq(Nat) /\ holds \in Seq(Nat) /\ stdout \in Seq(Nat) /\ output \in Seq(Nat)
    /\ Len(stdin) <= written

\* Which ends are open and which processes live, by where the parent is.
Ends ==
    /\ parent = "idle" => /\ child = "none" /\ stdin = <<>> /\ holds = <<>>
                          /\ stdout = <<>> /\ output = <<>>
    /\ parent # "returned" => answer = <<>>
    /\ parent = "returned" => child # "running"
    /\ parent \in {"write", "read", "wait"} => child # "none" /\ fn \in Pipe!Functions
    /\ parent = "write" => /\ fn \in Pipe!Piping /\ "stdin" \in open
                           /\ "child_stdin" \notin open => fn # "pipe_through_cat"
    /\ child # "none" /\ "stdin" \notin open => written = chunks
    /\ child \in {"none", "running", Pipe!Signalled} \cup Pipe!ExitCodes
    /\ child = "running" => "stdout" \in open /\ (fn \in Pipe!Piping => "child_stdin" \in open)

\* No chunk is lost, doubled or overtaken between the input and the parent.
Flows ==
    child # "none" /\ fn # "get_exit_code" =>
        /\ \A i \in 1..Len(stdin) : stdin[i] = Taken + i
        /\ Lists(Flow, chosen \cap 1..Taken)
        /\ child # "running" => holds = <<>> /\ (chosen = {} \/ Taken = chunks)
        /\ parent = "wait" => child # "running" /\ stdout = <<>>

PipeInv == PipeTypes /\ Ends /\ Flows /\ Pipe!PipeAnswers

LEMMA ListsAppend ==
    ASSUME NEW s \in Seq(Nat), NEW P \in SUBSET Nat, NEW h \in Nat, Lists(s, P),
           \A x \in P : x < h
    PROVE  Lists(Append(s, h), P \cup {h})
<1> DEFINE u == Append(s, h)
<1>1. /\ u \in Seq(Nat) /\ Len(u) = Len(s) + 1 /\ u[Len(u)] = h
      /\ \A i \in 1..Len(s) : u[i] = s[i]
  OBVIOUS
<1>0. DOMAIN s = 1..Len(s)
  OBVIOUS
<1>2. \A i \in 1..Len(s) : s[i] \in P /\ (i > 1 => s[i - 1] < s[i])
  BY <1>0, Zenon DEF Lists
<1>3. \A x \in P : \E i \in 1..Len(s) : x = s[i]
  BY <1>0 DEF Lists
<1> HIDE DEF u
<1>4. ASSUME NEW i \in 1..Len(u) PROVE u[i] \in P \cup {h} /\ (i > 1 => u[i - 1] < u[i])
  <2>1. CASE i \in 1..Len(s)
    <3>1. i > 1 => i - 1 \in 1..Len(s)
      BY <2>1
    <3> QED BY <1>1, <1>2, <2>1, <3>1
  <2>2. CASE i = Len(u)
    <3>1. i > 1 => i - 1 \in 1..Len(s)
      BY <1>1, <2>2
    <3> QED BY <1>1, <1>2, <2>2, <3>1
  <2> QED BY <1>1, <2>1, <2>2
<1>5. \A x \in P \cup {h} : \E i \in 1..Len(u) : x = u[i]
  BY <1>1, <1>3
<1>6. DOMAIN u = 1..Len(u)
  BY <1>1
<1> QED BY <1>4, <1>5, <1>6 DEF Lists, u

LEMMA ListsUpTo == ASSUME NEW k \in Nat PROVE Lists([i \in 1..k |-> i], 1..k)
<1>1. \A i \in 1..k : i > 1 => i - 1 \in 1..k /\ i - 1 < i
  OBVIOUS
<1> DEFINE s == [i \in 1..k |-> i]
<1>2. DOMAIN s = 1..k /\ \A i \in 1..k : s[i] = i
  OBVIOUS
<1>3. {s[i] : i \in 1..k} = 1..k
  BY <1>2
<1> HIDE DEF s
<1>4. \A i \in 1..k : s[i] \in 1..k /\ (i > 1 => s[i - 1] < s[i])
  BY <1>1, <1>2
<1>5. Lists(s, 1..k)
  BY <1>2, <1>3, <1>4 DEF Lists
<1> QED BY <1>5 DEF s

LEMMA ListsNothing == Lists(<<>>, {})
<1>1. DOMAIN <<>> = {}
  OBVIOUS
<1> QED BY <1>1 DEF Lists

\* The parent
LEMMA PipeParent ==
    ASSUME PipeInv, Pipe!Spawn \/ Pipe!SpawnFails \/ Pipe!ParentStep
    PROVE  PipeInv'
<1> USE DEF PipeInv
<1>1. CASE Pipe!Spawn
  <2> USE <1>1 DEF Pipe!Spawn
  <2>1. chunks' \in Nat /\ chosen' \subseteq 1..chunks'
    BY BoundsAssumption DEF BoundsAssumption
  <2>2. holds' \in Seq(Nat)
    <3>1. [i \in 1..chunks' |-> i] \in Seq(Nat)
      BY <2>1
    <3> QED BY <3>1
  <2>3. PipeTypes'
    BY <2>1, <2>2 DEF PipeTypes, Ends
  <2>4. Ends'
    BY <2>1 DEF Ends, Pipe!Functions, Pipe!Piping, Pipe!Capturing
  <2>5. Flows'
    <3> SUFFICES ASSUME fn' # "get_exit_code" PROVE Flows'
      BY DEF Flows
    <3>1. stdin' = <<>> /\ stdout' = <<>> /\ output' = <<>> /\ child' = "running" /\ parent' # "wait"
      BY DEF Ends, Pipe!Functions, Pipe!Piping, Pipe!Capturing
    <3>2. Flow' = holds' /\ Taken' = written'
      BY <2>2, <2>3, <3>1 DEF Flow, Taken, PipeTypes
    <3>3. CASE fn' \in Pipe!Capturing
      <4>1. holds' = [i \in 1..chunks' |-> i] /\ written' = chunks' /\ chosen' = 1..chunks'
        BY <3>3 DEF Pipe!Capturing, Pipe!Piping
      <4>2. Lists(Flow', chosen' \cap 1..Taken')
        <5>1. chosen' \cap 1..Taken' = 1..chunks'
          BY <3>2, <4>1
        <5> QED BY <2>1, <3>2, <4>1, <5>1, ListsUpTo
      <4> QED BY <3>1, <4>2 DEF Flows
    <3>4. CASE fn' \in Pipe!Piping
      <4>1. holds' = <<>> /\ written' = 0
        BY <3>4 DEF Pipe!Capturing, Pipe!Piping
      <4>2. Lists(Flow', chosen' \cap 1..Taken')
        <5>1. chosen' \cap 1..Taken' = {}
          BY <3>2, <4>1
        <5> QED BY <3>2, <4>1, <5>1, ListsNothing
      <4> QED BY <3>1, <4>2 DEF Flows
    <3> QED BY <3>3, <3>4 DEF Pipe!Functions
  <2>6. Pipe!PipeAnswers'
    BY DEF Ends, Pipe!PipeAnswers
  <2> QED BY <2>3, <2>4, <2>5, <2>6
<1>2. CASE Pipe!SpawnFails
  <2> USE <1>2 DEF Pipe!SpawnFails, Pipe!Answers
  <2>1. child' = "none" /\ child = "none" /\ answer' \in {<<"Err">>, <<"panic">>}
    BY DEF Ends
  <2>2. PipeTypes' /\ Ends' /\ Flows'
    BY <2>1 DEF PipeTypes, Ends, Flows
  <2>3. Pipe!PipeAnswers'
    BY <2>1 DEF Pipe!PipeAnswers
  <2> QED BY <2>2, <2>3
<1>3. CASE Pipe!Write
  <2> USE <1>3 DEF Pipe!Write
  <2>1. /\ written' = written + 1 /\ written' \in 0..chunks
        /\ stdin' \in Seq(Nat) /\ Len(stdin') = Len(stdin) + 1
        /\ stdin'[Len(stdin')] = written'
        /\ UNCHANGED <<fn, parent, child, chunks, chosen, holds, stdout, open, output, answer>>
    BY DEF PipeTypes
  <2>0. \A i \in 1..Len(stdin) : stdin'[i] = stdin[i]
    BY DEF PipeTypes
  <2>2. PipeTypes' /\ Ends'
    <3>1. PipeTypes'
      BY <2>1 DEF PipeTypes
    <3>2. Ends'
      BY <2>1 DEF Ends
    <3> QED BY <3>1, <3>2
  <2>3. Taken' = Taken /\ Flow' = Flow
    BY <2>1 DEF Taken, Flow, PipeTypes
  <2>4. ASSUME fn # "get_exit_code", child # "none"
        PROVE  \A i \in 1..Len(stdin') : stdin'[i] = Taken' + i
    <3>1. \A i \in 1..Len(stdin) : stdin[i] = Taken + i
      BY <2>4 DEF Flows
    <3>2. Len(stdin) \in Nat /\ written' = Taken + Len(stdin')
      BY <2>1 DEF Taken, PipeTypes
    <3> QED BY <2>0, <2>1, <2>3, <3>1, <3>2
  <2>5. child # "running" => chosen = {} \/ Taken = chunks
    <3>1. fn # "get_exit_code" /\ child # "none"
      BY DEF Ends, Pipe!Piping
    <3> QED BY <3>1 DEF Flows
  <2>6. Flows'
    BY <2>3, <2>4, <2>5 DEF Flows
  <2>7. Pipe!PipeAnswers'
    BY DEF Ends, Pipe!PipeAnswers
  <2> QED BY <2>2, <2>6, <2>7
<1>4. CASE Pipe!BrokenPipe
  <2> USE <1>4 DEF Pipe!BrokenPipe, Pipe!Answers
  <2>1. child # "running" /\ fn # "pipe_through_cat"
    BY DEF Ends
  <2>2. PipeTypes' /\ Ends'
    BY <2>1 DEF PipeTypes, Ends
  <2>3. Flows'
    BY DEF Flows, Flow, Taken
  <2>4. answer' = <<"panic">> /\ answer'[1] = "panic"
    OBVIOUS
  <2>5. Pipe!PipeAnswers'
    BY <2>1, <2>4 DEF Pipe!PipeAnswers
  <2> QED BY <2>2, <2>3, <2>5
<1>5. CASE Pipe!DropStdin
  <2> USE <1>5 DEF Pipe!DropStdin
  <2>1. PipeTypes' /\ Ends'
    BY DEF PipeTypes, Ends, Pipe!Functions
  <2>2. Flows'
    BY DEF Flows, Flow, Taken
  <2>3. Pipe!PipeAnswers'
    BY DEF Ends, Pipe!PipeAnswers
  <2> QED BY <2>1, <2>2, <2>3
<1>6. CASE Pipe!Read
  <2> USE <1>6 DEF Pipe!Read
  <2>1. output' \o stdout' = output \o stdout /\ output' \in Seq(Nat) /\ stdout' \in Seq(Nat)
    <3>1. output \in Seq(Nat) /\ stdout \in Seq(Nat) /\ stdout # <<>>
      BY DEF PipeTypes
    <3>2. output' = Append(output, Head(stdout)) /\ stdout' = Tail(stdout)
      OBVIOUS
    <3> QED BY ONLY <3>1, <3>2, HeadMoves
  <2>2. PipeTypes' /\ Ends'
    BY <2>1 DEF PipeTypes, Ends
  <2>3. Flow' = Flow /\ Taken' = Taken
    BY <2>1 DEF Flow, Taken
  <2>4. Flows'
    BY <2>3 DEF Flows
  <2>5. Pipe!PipeAnswers'
    BY DEF Ends, Pipe!PipeAnswers
  <2> QED BY <2>2, <2>4, <2>5
<1>7. CASE Pipe!ReadEnd
  <2> USE <1>7 DEF Pipe!ReadEnd, Pipe!AtEnd
  <2>1. child # "running"
    BY DEF Ends
  <2>2. PipeTypes' /\ Ends'
    BY DEF PipeTypes, Ends
  <2>3. Flows'
    BY <2>1 DEF Flows, Flow, Taken
  <2>4. Pipe!PipeAnswers'
    BY DEF Ends, Pipe!PipeAnswers
  <2> QED BY <2>2, <2>3, <2>4
<1>8. ASSUME NEW utf8 \in BOOLEAN, Pipe!Wait(utf8) PROVE PipeInv'
  <2> USE <1>8 DEF Pipe!Wait, Pipe!Answers
  <2>1. PipeTypes' /\ Ends'
    BY DEF PipeTypes, Ends
  <2>2. Flows'
    BY DEF Flows, Flow, Taken
  <2>3. fn # "get_exit_code" => Pipe!IsOutput(output)
    <3>1. SUFFICES ASSUME fn # "get_exit_code" PROVE Pipe!IsOutput(output)
      OBVIOUS
    <3>2. /\ holds = <<>> /\ stdout = <<>> /\ (chosen = {} \/ Taken = chunks)
          /\ Lists(Flow, chosen \cap 1..Taken)
      BY <3>1 DEF Flows, Ends
    <3>3. Flow = output
      BY <3>2, ConcatEmptySeq DEF Flow, PipeTypes
    <3>4. chosen \cap 1..Taken = chosen
      BY <3>2 DEF PipeTypes
    <3> QED BY <3>2, <3>3, <3>4 DEF Lists, Pipe!IsOutput
  <2>4. /\ answer'[1] \in {"Ok", "lossy"} => fn # "get_exit_code" /\ answer'[2] = output
        /\ ~(answer' = <<"panic">> /\ fn = "pipe_through_cat")
        /\ answer'[1] = "code" => (answer'[2] = "-1" <=> child = Pipe!Signalled)
    <3>1. fn \in Pipe!Functions
      BY DEF Ends
    <3>2. CASE fn = "get_exit_code"
      <4>1. child \in Pipe!ExitCodes \cup {Pipe!Signalled}
        BY DEF Ends
      <4> QED BY <3>2, <4>1 DEF Pipe!ExitCodes, Pipe!Signalled
    <3>3. CASE fn = "run_command"
      BY <3>3
    <3>4. CASE fn = "run_command_with_result"
      BY <3>4
    <3>5. CASE fn \in Pipe!Piping
      BY <3>5 DEF Pipe!Piping
    <3> QED BY <3>1, <3>2, <3>3, <3>4, <3>5 DEF Pipe!Functions, Pipe!Capturing
  <2>5. Pipe!IsOutput(output)' <=> Pipe!IsOutput(output)
    BY DEF Pipe!IsOutput
  <2>6. Pipe!PipeAnswers'
    BY <2>3, <2>4 DEF Pipe!PipeAnswers, Pipe!IsOutput
  <2> QED BY <2>1, <2>2, <2>6
<1> QED BY <1>1, <1>2, <1>3, <1>4, <1>5, <1>6, <1>7, <1>8 DEF Pipe!ParentStep

\* The child
LEMMA PipeChild ==
    ASSUME PipeInv, Pipe!ChildStep \/ Pipe!GrepQuits
    PROVE  PipeInv'
<1> USE DEF PipeInv
<1>0. child = "running"
  BY DEF Pipe!ChildStep, Pipe!ChildReads, Pipe!ChildWrites, Pipe!ChildExits, Pipe!GrepQuits
<1>1. parent \notin {"idle", "returned", "wait"} \/ fn = "get_exit_code"
  BY <1>0 DEF Ends, Flows
<1>2. answer = <<>> /\ answer' = <<>>
  BY <1>0 DEF Ends, Pipe!ChildStep, Pipe!ChildReads, Pipe!ChildWrites, Pipe!ChildExits, Pipe!GrepQuits
<1>3. Pipe!PipeAnswers'
  BY <1>2 DEF Pipe!PipeAnswers
<1>4. CASE Pipe!ChildReads
  <2> USE <1>4 DEF Pipe!ChildReads
  <2> DEFINE h == Head(stdin)
  <2>1. /\ stdin' \in Seq(Nat) /\ Len(stdin) # 0 /\ Len(stdin') = Len(stdin) - 1
        /\ h \in Nat /\ h = stdin[1]
        /\ UNCHANGED <<fn, parent, child, written, chunks, chosen, stdout, open, output, answer>>
    BY DEF PipeTypes
  <2>2. \A i \in 1..Len(stdin') : stdin'[i] = stdin[i + 1]
    BY DEF PipeTypes
  <2>3. PipeTypes'
    BY <2>1 DEF PipeTypes
  <2>4. Ends'
    BY <1>0, <2>1 DEF Ends
  <2>5. Taken' = Taken + 1 /\ Taken \in Nat /\ Len(stdin') \in Nat
    BY <2>1 DEF Taken, PipeTypes
  <2>6. Flows'
    <3> SUFFICES ASSUME fn # "get_exit_code" PROVE Flows'
      BY <2>1 DEF Flows
    <3>1. \A i \in 1..Len(stdin) : stdin[i] = Taken + i
      BY <1>0 DEF Flows
    <3>2. h = Taken + 1
      BY <2>1, <3>1
    <3>3. \A i \in 1..Len(stdin') : stdin'[i] = Taken' + i
      <4>1. \A i \in 1..Len(stdin') : i + 1 \in 1..Len(stdin)
        BY <2>1, <2>5
      <4> QED BY <2>2, <2>5, <3>1, <4>1
    <3>4. Lists(Flow', chosen' \cap 1..Taken')
      <4>1. Lists(Flow, chosen \cap 1..Taken) /\ Flow \in Seq(Nat)
        BY <1>0 DEF Flows, Flow, PipeTypes
      <4>2. CASE h \in chosen
        <5>1. Flow' = Append(Flow, h)
          <6>1. holds' = Append(holds, h)
            BY <4>2
          <6>2. output \o stdout \in Seq(Nat)
            BY DEF PipeTypes
          <6>3. (output \o stdout) \o Append(holds, h) = Append((output \o stdout) \o holds, h)
            <7>1. holds \in Seq(Nat) /\ h \in Nat
              BY <2>1 DEF PipeTypes
            <7> QED BY <6>2, <7>1, AppendMoves
          <6> QED BY <2>1, <6>1, <6>3 DEF Flow
        <5>2. chosen' \cap 1..Taken' = (chosen \cap 1..Taken) \cup {h}
          BY <2>1, <2>5, <3>2, <4>2
        <5>3. chosen \cap 1..Taken \in SUBSET Nat /\ \A x \in chosen \cap 1..Taken : x < h
          BY <2>5, <3>2
        <5> QED BY <2>1, <4>1, <5>1, <5>2, <5>3, ListsAppend
      <4>3. CASE h \notin chosen
        <5>1. Flow' = Flow
          BY <2>1, <4>3 DEF Flow
        <5>2. chosen' \cap 1..Taken' = chosen \cap 1..Taken
          BY <2>1, <2>5, <3>2, <4>3
        <5> QED BY <4>1, <5>1, <5>2
      <4> QED BY <4>2, <4>3
    <3> QED BY <1>0, <1>1, <2>1, <3>3, <3>4 DEF Flows
  <2> QED BY <1>3, <2>3, <2>4, <2>6
<1>5. CASE Pipe!ChildWrites
  <2> USE <1>5 DEF Pipe!ChildWrites
  <2>1. /\ UNCHANGED <<fn, parent, child, written, chunks, chosen, stdin, open, output, answer>>
        /\ stdout' = Append(stdout, Head(holds)) /\ holds' = Tail(holds)
        /\ Head(holds) \in Nat /\ stdout' \in Seq(Nat) /\ holds' \in Seq(Nat)
    BY DEF PipeTypes
  <2>2. PipeTypes'
    BY <2>1 DEF PipeTypes
  <2>3. Ends'
    BY <1>0, <2>1 DEF Ends
  <2>4. Flow' = Flow /\ Taken' = Taken
    <3>0. output \in Seq(Nat) /\ stdout \in Seq(Nat) /\ Head(holds) \in Nat
      BY <2>1 DEF PipeTypes
    <3>1. output \o stdout' = Append(output \o stdout, Head(holds))
      <4>1. output \o Append(stdout, Head(holds)) = Append(output \o stdout, Head(holds))
        BY <3>0, AppendMoves
      <4> QED BY <2>1, <4>1
    <3>2. output \o stdout \in Seq(Nat) /\ holds \in Seq(Nat) /\ holds # <<>>
      BY DEF PipeTypes
    <3>3. Append(output \o stdout, Head(holds)) \o Tail(holds) = (output \o stdout) \o holds
      <4>1. \A a, b \in Seq(Nat) : b # <<>> => Append(a, Head(b)) \o Tail(b) = a \o b
        BY HeadMoves
      <4> QED BY <3>2, <4>1, Zenon
    <3> QED BY <2>1, <3>1, <3>3 DEF Flow, Taken
  <2>5. Flows'
    BY <1>0, <1>1, <2>1, <2>4 DEF Flows
  <2> QED BY <1>3, <2>2, <2>3, <2>5
<1>6. CASE Pipe!ChildExits
  <2> USE <1>6 DEF Pipe!ChildExits
  <2>1. /\ UNCHANGED <<fn, parent, written, chunks, chosen, stdin, holds, stdout, output, answer>>
        /\ child' \in Pipe!ExitCodes \cup {Pipe!Signalled} /\ stdin = <<>> /\ holds = <<>>
        /\ "stdin" \notin open /\ open' = open \ {"child_stdin", "stdout"}
    OBVIOUS
  <2>2. PipeTypes' /\ child' \notin {"none", "running"}
    BY <2>1 DEF PipeTypes, Pipe!ExitCodes, Pipe!Signalled
  <2>3. parent # "write" /\ written = chunks /\ Taken = chunks
    <3>1. parent # "write" /\ written = chunks
      BY <1>0, <2>1 DEF Ends
    <3>2. Len(stdin) = 0 /\ written \in Nat
      BY <2>1 DEF PipeTypes
    <3> QED BY <3>1, <3>2 DEF Taken
  <2>4. Ends'
    BY <1>0, <2>1, <2>2, <2>3 DEF Ends
  <2>5. Flow' = Flow /\ Taken' = Taken
    BY <2>1 DEF Flow, Taken
  <2>6. Flows'
    BY <1>0, <1>1, <2>1, <2>2, <2>3, <2>5 DEF Flows
  <2> QED BY <1>3, <2>2, <2>4, <2>6
<1>7. CASE Pipe!GrepQuits
  <2> USE <1>7 DEF Pipe!GrepQuits
  <2>1. /\ UNCHANGED <<fn, parent, written, chunks, chosen, stdin, holds, stdout, output, answer>>
        /\ child' = "2" /\ chosen = {} /\ holds = <<>> /\ fn = "pipe_through_grep"
        /\ open' = open \ {"child_stdin", "stdout"}
    OBVIOUS
  <2>2. PipeTypes'
    BY <2>1 DEF PipeTypes
  <2>4. Ends'
    BY <1>0, <2>1 DEF Ends, Pipe!ExitCodes
  <2>5. Flow' = Flow /\ Taken' = Taken
    BY <2>1 DEF Flow, Taken
  <2>6. Flows'
    BY <1>0, <1>1, <2>1, <2>5 DEF Flows
  <2> QED BY <1>3, <2>2, <2>4, <2>6
<1> QED BY <1>4, <1>5, <1>6, <1>7 DEF Pipe!ChildStep

LEMMA PipeStep == PipeInv /\ [Pipe!Next]_Pipe!vars => PipeInv'
<1>1. ASSUME PipeInv, UNCHANGED Pipe!vars PROVE PipeInv'
  BY <1>1 DEF PipeInv, PipeTypes, Ends, Flows, Flow, Taken, Lists, Pipe!vars, Pipe!PipeAnswers, Pipe!IsOutput
<1> QED BY <1>1, PipeParent, PipeChild DEF Pipe!Next

LEMMA PipeInit == Pipe!Init => PipeInv
  BY DEF Pipe!Init, PipeInv, PipeTypes, Ends, Flows, Pipe!PipeAnswers

\* However parent and child take turns and wherever their writes block: what
\* pipe_through_cat, pipe_through_grep and the commands return is the chosen
\* chunks, each once and in order; cat's caller panics only if there is no cat;
\* and -1 stands for a signal only - for pipes of any size and any input.
THEOREM PipeReturnsOutput ==
    Pipe!Init /\ [][Pipe!Next]_Pipe!vars => []PipeAnswers
<1>1. PipeInv => PipeAnswers
  BY DEF PipeInv, PipeAnswers
<1> QED BY <1>1, PipeInit, PipeStep, PTL

-----------------------------------------------------------------------------
(* Channels: what is received and what is still in the channel, together,   *)
(* are the messages sent so far.                                            *)

Message == Nat \X Nat

\* s has each message of each producer up to count[p], once and in its order.
Carries(s, count) ==
    /\ \A k \in 1..Len(s) : \E p \in Channel!Producers : \E i \in 1..count[p] : s[k] = <<p, i>>
    /\ \A p \in Channel!Producers : \A i \in 1..count[p] : \E k \in 1..Len(s) : s[k] = <<p, i>>
    /\ \A k, l \in 1..Len(s) : k < l /\ s[k][1] = s[l][1] => s[k][2] < s[l][2]

\* Who has a sender: nobody that is not spawned, and the caller until all are.
Senders ==
    /\ main \in {"idle", "spawn", "receive", "returned", "cancelled"}
    /\ spawned \in Nat /\ tx \subseteq 0..spawned
    /\ sent \in [Channel!Producers -> Nat]
    /\ main = "idle" => spawned = 0 /\ tx = {}
    /\ main # "idle" => call \in Channel!Calls /\ spawned <= call.producers
    /\ main \in {"receive", "returned"} => spawned = call.producers /\ 0 \notin tx
    /\ main = "returned" => tx = {} /\ channel = <<>>

\* A producer sends all its messages before it drops its sender, and none
\* before it has one.
Sendings ==
    \A p \in Channel!Producers :
        /\ p > spawned => sent[p] = 0
        /\ main # "idle" => sent[p] <= call.items
        /\ main # "cancelled" /\ p <= spawned /\ p \notin tx => sent[p] = call.items

ChannelInv ==
    /\ channel \in Seq(Message) /\ received \in Seq(Message)
    /\ Senders /\ Sendings
    /\ main # "cancelled" => Carries(received \o channel, sent)

\* The next message of a producer comes after all its others.
LEMMA CarriesAppend ==
    ASSUME NEW s \in Seq(Message), NEW count \in [Channel!Producers -> Nat],
           NEW p \in Channel!Producers, Carries(s, count)
    PROVE  Carries(Append(s, <<p, count[p] + 1>>), [count EXCEPT ![p] = @ + 1])
<1> DEFINE m == <<p, count[p] + 1>>
           u == Append(s, m)
           c == [count EXCEPT ![p] = @ + 1]
<1>1. /\ Len(s) \in Nat /\ Len(u) = Len(s) + 1 /\ u[Len(s) + 1] = m
      /\ \A k \in 1..Len(s) : u[k] = s[k]
  OBVIOUS
<1>2. /\ \A q \in Channel!Producers : c[q] = IF q = p THEN count[p] + 1 ELSE count[q]
      /\ \A q \in Channel!Producers : count[q] \in Nat
  OBVIOUS
<1>3. m[1] = p /\ m[2] = count[p] + 1
  OBVIOUS
<1>4. /\ \A k \in 1..Len(s) : \E q \in Channel!Producers : \E i \in 1..count[q] : s[k] = <<q, i>>
      /\ \A q \in Channel!Producers : \A i \in 1..count[q] : \E k \in 1..Len(s) : s[k] = <<q, i>>
      /\ \A k, l \in 1..Len(s) : k < l /\ s[k][1] = s[l][1] => s[k][2] < s[l][2]
  BY Zenon DEF Carries
<1> HIDE DEF u, c
<1>5. ASSUME NEW k \in 1..Len(u)
      PROVE  \E q \in Channel!Producers : \E i \in 1..c[q] : u[k] = <<q, i>>
  <2>1. CASE k = Len(s) + 1
    <3>1. count[p] + 1 \in 1..c[p]
      BY <1>2
    <3> QED BY <1>1, <2>1, <3>1
  <2>2. CASE k \in 1..Len(s)
    <3>0. PICK q \in Channel!Producers : \E i \in 1..count[q] : s[k] = <<q, i>>
      BY <1>4, <2>2
    <3>1. PICK i \in 1..count[q] : s[k] = <<q, i>>
      BY <3>0
    <3>2. i \in 1..c[q]
      BY <1>2
    <3> QED BY <1>1, <2>2, <3>1, <3>2
  <2> QED BY <1>1, <2>1, <2>2
<1>6. ASSUME NEW q \in Channel!Producers, NEW i \in 1..c[q]
      PROVE  \E k \in 1..Len(u) : u[k] = <<q, i>>
  <2>1. CASE q = p /\ i = count[p] + 1
    BY <1>1, <2>1
  <2>2. CASE i \in 1..count[q]
    <3>1. PICK k \in 1..Len(s) : s[k] = <<q, i>>
      BY <1>4, <2>2
    <3> QED BY <1>1, <3>1
  <2> QED BY <1>2, <2>1, <2>2
<1>7. ASSUME NEW k \in 1..Len(u), NEW l \in 1..Len(u), k < l, u[k][1] = u[l][1]
      PROVE  u[k][2] < u[l][2]
  <2>0. k \in 1..Len(s)
    BY <1>1, <1>7
  <2>1. CASE l = Len(s) + 1
    <3>0. PICK q \in Channel!Producers : \E i \in 1..count[q] : s[k] = <<q, i>>
      BY <1>4, <2>0
    <3>1. PICK i \in 1..count[q] : s[k] = <<q, i>>
      BY <3>0
    <3>2. u[k] = <<q, i>> /\ u[l] = m
      BY <1>1, <2>0, <2>1, <3>1
    <3>3. q = p /\ u[k][2] = i /\ u[l][2] = count[p] + 1
      BY <1>3, <1>7, <3>2
    <3> QED BY <1>2, <3>3
  <2>2. CASE l \in 1..Len(s)
    BY <1>1, <1>4, <1>7, <2>0, <2>2
  <2> QED BY <1>1, <2>1, <2>2
<1>8. Carries(u, c)
  BY <1>5, <1>6, <1>7, Zenon DEF Carries
<1> QED BY <1>8 DEF u, c

LEMMA CarriesNothing ==
    ASSUME NEW count, \A p \in Channel!Producers : count[p] = 0
    PROVE  Carries(<<>>, count)
<1>1. Len(<<>>) = 0
  OBVIOUS
<1> QED BY <1>1 DEF Carries

LEMMA ChannelInit == Channel!Init => ChannelInv
<1> SUFFICES ASSUME Channel!Init PROVE ChannelInv
  OBVIOUS
<1>1. /\ channel = <<>> /\ received = <<>> /\ main = "idle" /\ spawned = 0 /\ tx = {}
      /\ sent = [p \in Channel!Producers |-> 0]
  BY DEF Channel!Init
<1>2. <<>> \in Seq(Message) /\ <<>> \o <<>> = <<>>
  OBVIOUS
<1>3. Carries(<<>>, sent)
  BY <1>1, CarriesNothing
<1>4. Senders
  BY <1>1 DEF Senders
<1>5. Sendings
  BY <1>1 DEF Sendings, Channel!Producers
<1> QED BY <1>1, <1>2, <1>3, <1>4, <1>5 DEF ChannelInv

LEMMA ChannelStep == ChannelInv /\ [Channel!Next]_Channel!vars => ChannelInv'
<1> SUFFICES ASSUME ChannelInv, [Channel!Next]_Channel!vars PROVE ChannelInv'
  OBVIOUS
<1> USE DEF ChannelInv
<1>0. /\ Channel!Producers = 1..MaxProducers /\ MaxProducers \in Nat \ {0}
      /\ \A c \in Channel!Calls : c.producers \in 0..MaxProducers /\ c.items \in Nat
      /\ \A c \in Channel!Calls : c.fn \in Channel!OneProducer => c.producers = 1
  BY BoundsAssumption DEF BoundsAssumption, Channel!Producers, Channel!Calls, Channel!OneProducer
\* Steps that touch neither what is sent nor what is received.
<1>1. ASSUME UNCHANGED <<sent, channel, received>>, Senders', Sendings', main' # "cancelled",
             main # "cancelled"
      PROVE  ChannelInv'
  BY <1>1
<1>2. CASE Channel!Call
  <2>1. /\ main = "idle" /\ main' = "spawn" /\ call' \in Channel!Calls /\ tx' = {0}
        /\ UNCHANGED <<spawned, sent, channel, received>>
    BY <1>2 DEF Channel!Call
  <2>2. Senders'
    BY <1>0, <2>1 DEF Senders
  <2>3. \A p \in Channel!Producers : sent[p] = 0 /\ p > 0
    BY <1>0, <2>1 DEF Senders, Sendings
  <2>4. Sendings'
    BY <1>0, <2>1, <2>3 DEF Senders, Sendings
  <2> QED BY <1>1, <2>1, <2>2, <2>4
<1>3. CASE Channel!SpawnWithTx
  <2>1. /\ main = "spawn" /\ call.fn \in Channel!OneProducer /\ spawned' = 1 /\ tx' = {1}
        /\ main' = "receive" /\ UNCHANGED <<call, sent, channel, received>>
    BY <1>3 DEF Channel!SpawnWithTx
  <2>2. Senders'
    BY <1>0, <2>1 DEF Senders
  <2>3. spawned <= 1
    BY <1>0, <2>1 DEF Senders
  <2>4. Sendings'
    BY <1>0, <2>1, <2>3 DEF Senders, Sendings
  <2> QED BY <1>1, <2>1, <2>2, <2>4
<1>4. CASE Channel!SpawnWithClone
  <2>1. /\ main = "spawn" /\ spawned < call.producers /\ spawned' = spawned + 1
        /\ tx' = tx \cup {spawned'} /\ UNCHANGED <<call, main, sent, channel, received>>
    BY <1>4 DEF Channel!SpawnWithClone
  <2>2. Senders'
    BY <1>0, <2>1 DEF Senders
  <2>3. Sendings'
    BY <1>0, <2>1 DEF Senders, Sendings
  <2> QED BY <1>1, <2>1, <2>2, <2>3
<1>5. CASE Channel!DropTx
  <2>1. /\ main = "spawn" /\ spawned = call.producers /\ tx' = tx \ {0} /\ main' = "receive"
        /\ UNCHANGED <<call, spawned, sent, channel, received>>
    BY <1>5 DEF Channel!DropTx, Channel!Dropped
  <2>2. Senders'
    BY <1>0, <2>1 DEF Senders
  <2>3. Sendings'
    BY <1>0, <2>1 DEF Senders, Sendings
  <2> QED BY <1>1, <2>1, <2>2, <2>3
<1>6. CASE Channel!Recv
  <2>1. /\ main = "receive" /\ channel # <<>> /\ received' = Append(received, Head(channel))
        /\ channel' = Tail(channel) /\ UNCHANGED <<call, main, spawned, tx, sent>>
    BY <1>6 DEF Channel!Recv
  <2>2. /\ received' \o channel' = received \o channel
        /\ received' \in Seq(Message) /\ channel' \in Seq(Message)
    <3>1. received \in Seq(Message) /\ channel \in Seq(Message) /\ channel # <<>>
      BY <2>1
    <3>2. received' = Append(received, Head(channel)) /\ channel' = Tail(channel)
      BY <2>1
    <3> HIDE DEF Message
    <3> QED BY ONLY <3>1, <3>2, HeadMoves
  <2>3. Senders' /\ Sendings'
    BY <2>1 DEF Senders, Sendings
  <2>4. Carries(received' \o channel', sent')
    BY <2>1, <2>2
  <2> QED BY <2>2, <2>3, <2>4
<1>7. CASE Channel!Return
  <2>1. /\ main = "receive" /\ channel = <<>> /\ tx = {} /\ main' = "returned"
        /\ UNCHANGED <<call, spawned, tx, sent, channel, received>>
    BY <1>7 DEF Channel!Return, Channel!Disconnected
  <2>2. Senders' /\ Sendings'
    BY <2>1 DEF Senders, Sendings
  <2> QED BY <1>1, <2>1, <2>2
<1>8. CASE Channel!Cancel
  <2>1. /\ main = "receive" /\ main' = "cancelled" /\ channel' = <<>>
        /\ UNCHANGED <<call, spawned, tx, sent, received>>
    BY <1>8 DEF Channel!Cancel
  <2>2. Senders' /\ Sendings'
    BY <2>1 DEF Senders, Sendings
  <2>3. <<>> \in Seq(Message)
    OBVIOUS
  <2> QED BY <2>1, <2>2, <2>3
<1>9. ASSUME NEW p \in Channel!Producers, Channel!Send(p) PROVE ChannelInv'
  <2>1. /\ p \in tx /\ sent[p] < call.items /\ main # "cancelled"
        /\ sent' = [sent EXCEPT ![p] = @ + 1] /\ channel' = Append(channel, <<p, sent'[p]>>)
        /\ UNCHANGED <<call, main, spawned, tx, received>>
    BY <1>9 DEF Channel!Send
  <2>2. main # "idle" /\ p <= spawned /\ p \in Nat /\ sent \in [Channel!Producers -> Nat]
    BY <1>0, <2>1 DEF Senders
  <2>3. sent'[p] = sent[p] + 1 /\ \A q \in Channel!Producers : q # p => sent'[q] = sent[q]
    BY <2>1, <2>2
  <2>4. <<p, sent[p] + 1>> \in Message
    BY <2>2 DEF Message
  <2>5. Senders'
    BY <2>1, <2>2 DEF Senders
  <2>6. Sendings'
    <3>1. call \in Channel!Calls /\ sent[p] \in Nat /\ call.items \in Nat
      BY <1>0, <2>2 DEF Senders
    <3>3. spawned \in Nat
      BY DEF Senders
    <3>2. ASSUME NEW q \in Channel!Producers
          PROVE  /\ q > spawned' => sent'[q] = 0
                 /\ sent'[q] <= call'.items
                 /\ q <= spawned' /\ q \notin tx' => sent'[q] = call'.items
      <4>1. CASE q = p
        <5>1. sent[p] < call.items /\ p \in tx /\ UNCHANGED <<call, spawned, tx>>
          BY <2>1
        <5>2. sent'[q] <= call.items
          BY <2>3, <3>1, <4>1, <5>1
        <5>3. ~(q > spawned)
          BY <1>0, <2>2, <4>1, <3>3
        <5> QED BY <4>1, <5>1, <5>2, <5>3
      <4>2. CASE q # p
        BY <2>1, <2>2, <2>3, <4>2 DEF Sendings
      <4> QED BY <4>1, <4>2
    <3> QED BY <3>2 DEF Sendings
  <2>7. channel' \in Seq(Message) /\ received \o channel' = Append(received \o channel, <<p, sent[p] + 1>>)
    <3>1. channel' = Append(channel, <<p, sent[p] + 1>>)
      BY <2>1, <2>3
    <3>2. channel \in Seq(Message) /\ received \in Seq(Message)
      OBVIOUS
    <3> DEFINE m == <<p, sent[p] + 1>>
    <3>3. m \in Message /\ channel' = Append(channel, m)
      BY <2>4, <3>1
    <3> HIDE DEF m, Message
    <3>4. channel' \in Seq(Message) /\ received \o channel' = Append(received \o channel, m)
      BY ONLY <3>2, <3>3, AppendMoves
    <3> QED BY <3>4 DEF m
  <2>8. received \o channel \in Seq(Message)
    OBVIOUS
  <2>9. Carries(Append(received \o channel, <<p, sent[p] + 1>>), sent')
    BY <2>1, <2>2, <2>8, CarriesAppend
  <2> QED BY <2>1, <2>5, <2>6, <2>7, <2>9
<1>10. ASSUME NEW p \in Channel!Producers, Channel!Finish(p) PROVE ChannelInv'
  <2>1. /\ p \in tx /\ (sent[p] = call.items \/ main = "cancelled") /\ tx' = tx \ {p}
        /\ UNCHANGED <<call, main, spawned, sent, channel, received>>
    BY <1>10 DEF Channel!Finish
  <2>2. Senders'
    BY <2>1 DEF Senders
  <2>3. Sendings'
    BY <2>1 DEF Sendings
  <2> QED BY <2>1, <2>2, <2>3
<1>11. CASE UNCHANGED Channel!vars
  <2>1. UNCHANGED <<call, main, spawned, tx, sent, channel, received>>
    BY <1>11 DEF Channel!vars
  <2>2. Senders' /\ Sendings'
    BY <2>1 DEF Senders, Sendings
  <2> QED BY <2>1, <2>2
<1> QED
  BY <1>2, <1>3, <1>4, <1>5, <1>6, <1>7, <1>8, <1>9, <1>10, <1>11 DEF Channel!Next, Channel!MainStep

\* When the receiver has returned, nothing is in the channel and all is sent.
LEMMA AllReceived == ChannelInv => ReceivesAll
<1> SUFFICES ASSUME ChannelInv, main = "returned" PROVE Channel!ReceivesAll
  BY DEF ReceivesAll, Channel!ReceivesAll
<1>1. received \in Seq(Message) /\ channel = <<>> /\ Carries(received \o channel, sent)
  BY DEF ChannelInv, Senders
<1>2. received \o channel = received
  BY <1>1, ConcatEmptySeq
<1>0. Carries(received, sent)
  BY <1>1, <1>2
<1>3. /\ \A k \in 1..Len(received) : \E p \in Channel!Producers : \E i \in 1..sent[p] : received[k] = <<p, i>>
      /\ \A p \in Channel!Producers : \A i \in 1..sent[p] : \E k \in 1..Len(received) : received[k] = <<p, i>>
      /\ \A k, l \in 1..Len(received) :
            k < l /\ received[k][1] = received[l][1] => received[k][2] < received[l][2]
  BY <1>0, Zenon DEF Carries
<1>4. /\ call.producers \in 0..MaxProducers /\ call.items \in Nat
      /\ Channel!Producers = 1..MaxProducers /\ MaxProducers \in Nat
      /\ spawned = call.producers /\ tx = {}
  BY BoundsAssumption
  DEF BoundsAssumption, ChannelInv, Senders, Channel!Producers, Channel!Calls, Channel!OneProducer
<1>5. \A p \in Channel!Producers : sent[p] = IF p <= call.producers THEN call.items ELSE 0
  BY <1>4 DEF ChannelInv, Sendings
<1>6. DOMAIN received = 1..Len(received)
  BY <1>1
<1>7. \A k \in 1..Len(received) : received[k] \in (1..call.producers) \X (1..call.items)
  <2> TAKE k \in 1..Len(received)
  <2>0. PICK p \in Channel!Producers : \E i \in 1..sent[p] : received[k] = <<p, i>>
    BY <1>3
  <2>1. PICK i \in 1..sent[p] : received[k] = <<p, i>>
    BY <2>0
  <2>2. p \in 1..call.producers /\ i \in 1..call.items
    BY <1>4, <1>5
  <2> QED BY <2>1, <2>2
<1>8. \A m \in (1..call.producers) \X (1..call.items) : \E k \in 1..Len(received) : received[k] = m
  <2>1. ASSUME NEW p \in 1..call.producers, NEW i \in 1..call.items
        PROVE  \E k \in 1..Len(received) : received[k] = <<p, i>>
    <3>1. p \in Channel!Producers /\ i \in 1..sent[p]
      BY <1>4, <1>5
    <3> QED BY <1>3, <3>1
  <2> TAKE m \in (1..call.producers) \X (1..call.items)
  <2>2. m[1] \in 1..call.producers /\ m[2] \in 1..call.items /\ m = <<m[1], m[2]>>
    OBVIOUS
  <2>3. \E k \in 1..Len(received) : received[k] = <<m[1], m[2]>>
    BY <2>1, <2>2
  <2> QED BY <2>2, <2>3
<1>9. {received[k] : k \in 1..Len(received)} = (1..call.producers) \X (1..call.items)
  BY <1>7, <1>8
<1> QED BY <1>3, <1>6, <1>9 DEF Channel!ReceivesAll

\* However the producers' sends, the receiver and the drops of senders
\* interleave: when a function of 03_channel or 03_async_channel returns, it has
\* received every message once and each producer's in its order, for any
\* number of producers and messages.
THEOREM AllMessagesArrive ==
    Channel!Init /\ [][Channel!Next]_Channel!vars => []ReceivesAll
<1> QED BY AllReceived, ChannelInit, ChannelStep, PTL

-----------------------------------------------------------------------------
(* Futures: the results come in the order of the handles, and of two timers *)
(* that wake one task the later does not fire first.                        *)

FutureTypes ==
    /\ at \in {"idle", "poll", "pending", "spawn", "await", "ready"} /\ left_n \in Nat
    /\ deadline \in [Future!Timers -> 0..Future!Never] /\ now \in Nat /\ now < Future!Never
    /\ registered \subseteq Future!Timers /\ fired \subseteq Future!Timers
    /\ results \in Seq(Nat)

\* Who is polled, and which timers wake him, by the function that was called.
Polled ==
    /\ at = "idle" => woken = {} /\ polling = {} /\ registered = {} /\ fired = {}
    /\ at \in {"spawn", "await"} => future \in Future!Joining
    /\ future \notin Future!Joining => woken \cup polling \subseteq {Future!Main}
    /\ future \in Future!Racing => registered \in {{}, {1, 2}}

InOrder ==
    /\ \A i \in 1..Len(results) : results[i] = i - 1
    /\ \A x \in fired : deadline[x] # Future!Never
    /\ future \in Future!Racing /\ 2 \in fired /\ 1 \notin fired => deadline[2] <= deadline[1]

FutureInv == FutureTypes /\ Polled /\ InOrder /\ Future!FuturesAnswer

LEMMA FutureConstants ==
    /\ Future!Never = 99 /\ Future!Main = 0 /\ Future!Tasks = 1..MaxCount
    /\ Future!Timers = Future!Tasks \cup {1, 2} /\ MaxCount \in Nat /\ Deadlines \subseteq 0..98
  BY BoundsAssumption DEF BoundsAssumption, Future!Never, Future!Main, Future!Tasks, Future!Timers

LEMMA DeadlinesAre ==
    ASSUME FutureTypes, NEW x \in Future!Timers
    PROVE  deadline[x] \in 0..Future!Never /\ deadline[x] \in Nat
<1>1. deadline[x] \in 0..Future!Never
  BY DEF FutureTypes
<1>2. Future!Never = 99
  BY FutureConstants
<1> HIDE DEF FutureTypes
<1> QED BY <1>1, <1>2

\* A timer that has elapsed had a deadline.
LEMMA ElapsedIsDue ==
    ASSUME FutureInv, NEW x \in Future!Timers, Future!Elapsed(x)
    PROVE  deadline[x] # Future!Never
  BY FutureConstants DEF FutureInv, FutureTypes, InOrder, Future!Elapsed

LEMMA FutureInit == Future!Init => FutureInv
<1> SUFFICES ASSUME Future!Init PROVE FutureInv
  OBVIOUS
<1>1. /\ at = "idle" /\ left_n = 0 /\ woken = {} /\ polling = {} /\ registered = {} /\ fired = {}
      /\ now = 1 /\ results = <<>> /\ deadline = [x \in Future!Timers |-> Future!Never] /\ future = "none"
  BY DEF Future!Init
<1>2. Len(results) = 0 /\ results \in Seq(Nat)
  BY <1>1
<1>3. FutureTypes
  BY <1>1, <1>2, FutureConstants DEF FutureTypes
<1> QED BY <1>1, <1>2, <1>3
     DEF FutureInv, Polled, InOrder, Future!FuturesAnswer, Future!Racing, Future!Joining

\* What a step leaves as it is when it only starts or suspends a poll.
LEMMA PollsOnly ==
    ASSUME FutureInv, UNCHANGED <<future, left_n, at, deadline, registered, fired, now, results, ready>>,
           Polled'
    PROVE  FutureInv'
  BY DEF FutureInv, FutureTypes, InOrder, Future!FuturesAnswer

LEMMA CallKeeps == ASSUME FutureInv, Future!Call PROVE FutureInv'
<1>1. /\ at = "idle" /\ at' \in {"poll", "spawn"} /\ (at' = "spawn" => future' \in Future!Joining)
      /\ left_n' \in {0, 1} \cup 0..MaxCount
      /\ deadline' \in [Future!Timers -> Deadlines \cup {Future!Never}] /\ woken' = {Future!Main}
      /\ UNCHANGED <<tasks, polling, registered, fired, now, done, awaited, results, ready>>
  BY DEF Future!Call
<1>2. fired = {} /\ registered = {} /\ polling = {}
  BY <1>1 DEF FutureInv, Polled
<1>3. FutureTypes'
  <2>1. Deadlines \cup {Future!Never} \subseteq 0..Future!Never
    BY FutureConstants
  <2>2. deadline' \in [Future!Timers -> 0..Future!Never]
    BY ONLY <1>1, <2>1
  <2>3. left_n' \in Nat
    BY <1>1, FutureConstants
  <2> QED BY <1>1, <2>2, <2>3 DEF FutureInv, FutureTypes
<1>4. Polled'
  BY <1>1, <1>2 DEF Polled
<1>5. InOrder'
  BY <1>1, <1>2 DEF FutureInv, InOrder
<1> QED BY <1>1, <1>3, <1>4, <1>5 DEF FutureInv, Future!FuturesAnswer

\* The timer that fires is not later than any other its task waits for.
LEMMA FireKeeps == ASSUME FutureInv, NEW x \in Future!Timers, Future!Fire(x) PROVE FutureInv'
<1>1. /\ x \in registered \ fired /\ deadline[x] # Future!Never
      /\ \A y \in registered \ fired : deadline[x] <= deadline[y]
      /\ fired' = fired \cup {x} /\ now' \in {now, deadline[x]}
      /\ woken' = woken \cup {Future!Owner(x)}
      /\ UNCHANGED <<future, left_n, at, tasks, polling, deadline, registered, done, awaited, results, ready>>
  BY DEF Future!Fire
<1>2. deadline[x] \in Nat /\ deadline[x] < Future!Never
  <2>1. deadline[x] \in 0..Future!Never /\ deadline[x] \in Nat
    BY DeadlinesAre DEF FutureInv
  <2>2. deadline[x] # Future!Never /\ Future!Never = 99
    BY <1>1, FutureConstants
  <2> QED BY ONLY <2>1, <2>2
<1>3. FutureTypes'
  <2>1. now' \in Nat /\ now' < Future!Never
    BY <1>1, <1>2 DEF FutureInv, FutureTypes
  <2>2. fired' \subseteq Future!Timers
    BY <1>1 DEF FutureInv, FutureTypes
  <2> QED BY <1>1, <2>1, <2>2 DEF FutureInv, FutureTypes
<1>4. Polled'
  BY <1>1 DEF FutureInv, Polled, Future!Owner
<1>5. InOrder'
  <2>1. ASSUME future \in Future!Racing, 2 \in fired', 1 \notin fired'
        PROVE  deadline[2] <= deadline[1]
    <3>1. CASE x = 2
      <4>1. registered = {1, 2}
        BY <1>1, <2>1 DEF FutureInv, Polled
      <4> QED BY <1>1, <2>1, <3>1, <4>1
    <3>2. CASE x # 2
      BY <1>1, <2>1, <3>2 DEF FutureInv, InOrder
    <3> QED BY <3>1, <3>2
  <2> QED BY <1>1, <2>1 DEF FutureInv, InOrder
<1> QED BY <1>1, <1>3, <1>4, <1>5 DEF FutureInv, Future!FuturesAnswer

\* A poll of task 0 that does not end it.
LEMMA MainPollKeeps ==
    ASSUME FutureInv, Future!CountDown \/ Future!ReturnPending \/ Future!Spawn \/ Future!Await
    PROVE  FutureInv'
<1> USE DEF FutureInv
<1>1. CASE Future!CountDown
  <2>1. /\ future \in Future!Counting /\ at = "poll" /\ at' = "pending" /\ left_n > 0 /\ left_n' = left_n - 1
        /\ woken' = woken \cup {Future!Main}
        /\ UNCHANGED <<future, tasks, polling, deadline, registered, fired, now, done, awaited, results, ready>>
    BY <1>1 DEF Future!CountDown
  <2> QED BY <2>1 DEF FutureTypes, Polled, InOrder, Future!FuturesAnswer
<1>2. CASE Future!ReturnPending
  <2>1. /\ at = "pending" /\ at' = "poll" /\ polling' = polling \ {Future!Main}
        /\ UNCHANGED <<future, left_n, tasks, woken, deadline, registered, fired, now, done, awaited, results, ready>>
    BY <1>2 DEF Future!ReturnPending, Future!Pending
  <2> QED BY <2>1 DEF FutureTypes, Polled, InOrder, Future!FuturesAnswer
<1>3. CASE Future!Spawn
  <2>1. /\ at = "spawn" /\ at' \in {"spawn", "await"}
        /\ UNCHANGED <<future, left_n, polling, deadline, registered, fired, now, done, awaited, results, ready>>
    BY <1>3 DEF Future!Spawn
  <2> QED BY <2>1 DEF FutureTypes, Polled, InOrder, Future!FuturesAnswer, Future!Joining, Future!Racing
<1>4. CASE Future!Await
  <2>1. /\ at = "await" /\ (polling' = polling \/ polling' = polling \ {Future!Main})
        /\ results' = results \/ results' = Append(results, (Len(results) + 1) - 1)
        /\ UNCHANGED <<future, left_n, at, tasks, woken, deadline, registered, fired, now, done, ready>>
    BY <1>4 DEF Future!Await, Future!NextHandle, Future!Pending
  <2>2. results' \in Seq(Nat) /\ \A i \in 1..Len(results') : results'[i] = i - 1
    <3>1. CASE results' = results
      BY <3>1 DEF FutureTypes, InOrder
    <3>2. CASE results' = Append(results, (Len(results) + 1) - 1)
      BY <3>2 DEF FutureTypes, InOrder
    <3> QED BY <2>1, <3>1, <3>2
  <2> QED BY <2>1, <2>2 DEF FutureTypes, Polled, InOrder, Future!FuturesAnswer, Future!Joining, Future!Racing
<1> QED BY <1>1, <1>2, <1>3, <1>4

\* A poll of task 0 that ends it: what is returned is what was asked for.
LEMMA ReadyKeeps ==
    ASSUME FutureInv, UNCHANGED <<future, left_n, woken, deadline, fired, now, results>>, at' = "ready",
           polling' = polling \ {Future!Main}, registered' = {}, Future!FuturesAnswer'
    PROVE  FutureInv'
  BY DEF FutureInv, FutureTypes, Polled, InOrder

LEMMA LiftoffKeeps == ASSUME FutureInv, Future!Liftoff PROVE FutureInv'
<1>1. /\ future \in Future!Counting /\ at' = "ready" /\ polling' = polling \ {Future!Main} /\ registered' = {}
      /\ UNCHANGED <<future, left_n, woken, deadline, fired, now, results>>
  BY DEF Future!Liftoff, Future!Ready
<1>2. Future!FuturesAnswer'
  BY <1>1 DEF Future!FuturesAnswer, Future!Counting
<1> QED BY <1>1, <1>2, ReadyKeeps

LEMMA AllAwaitedKeeps == ASSUME FutureInv, Future!AllAwaited PROVE FutureInv'
<1>1. /\ at = "await" /\ Len(results) = left_n
      /\ ready' = (IF future = "concurrent_squares" THEN [i \in 1..left_n |-> results[i] * results[i]] ELSE results)
      /\ at' = "ready" /\ polling' = polling \ {Future!Main} /\ registered' = {}
      /\ UNCHANGED <<future, left_n, woken, deadline, fired, now, results>>
  BY DEF Future!AllAwaited, Future!Ready
<1>2. results = [i \in 1..left_n |-> i - 1] /\ \A i \in 1..left_n : results[i] = i - 1
  <2>1. \A i \in 1..left_n : results[i] = i - 1
    BY <1>1 DEF FutureInv, InOrder
  <2>2. results \in Seq(Nat)
    BY DEF FutureInv, FutureTypes
  <2> QED BY <1>1, <2>1, <2>2
<1>3. [i \in 1..left_n |-> results[i] * results[i]] = [i \in 1..left_n |-> (i - 1) * (i - 1)]
  BY <1>2, Zenon
<1>4. future \in {"concurrent_squares", "parallel_sleep_tasks"}
  BY <1>1 DEF FutureInv, Polled, Future!Joining
<1>5. Future!FuturesAnswer'
  BY <1>1, <1>2, <1>3, <1>4 DEF Future!FuturesAnswer
<1> QED BY <1>1, <1>5, ReadyKeeps

LEMMA PollBothKeeps == ASSUME FutureInv, Future!PollBoth PROVE FutureInv'
<1>1. future \in Future!Racing /\ at = "poll" /\ UNCHANGED <<future, left_n, woken, deadline, fired, now, results>>
  BY DEF Future!PollBoth
<1>2. {1, 2} \subseteq Future!Timers
  BY FutureConstants
<1>3. CASE ~(Future!Elapsed(1) \/ Future!Elapsed(2))
  <2>1. registered' = {1, 2} /\ polling' = polling \ {Future!Main} /\ at' = at /\ ready' = ready
    BY <1>3 DEF Future!PollBoth, Future!Pending
  <2> QED BY <1>1, <1>2, <2>1 DEF FutureInv, FutureTypes, Polled, InOrder, Future!FuturesAnswer
<1>4. CASE Future!Elapsed(1) \/ Future!Elapsed(2)
  <2>1. /\ at' = "ready" /\ polling' = polling \ {Future!Main} /\ registered' = {}
        /\ IF future = "with_timeout" THEN ready' \in Future!Outcomes
           ELSE \E x \in {1, 2} : Future!Elapsed(x) /\ ready' = <<"res", x>>
    BY <1>4 DEF Future!PollBoth, Future!Ready
  <2>2. ASSUME future = "with_timeout"
        PROVE  IF ready' = <<"Some">> THEN deadline[1] # Future!Never ELSE deadline[2] <= deadline[1]
    <3>1. CASE Future!Elapsed(1)
      <4>1. ready' = <<"Some">>
        BY <2>1, <2>2, <3>1 DEF Future!Outcomes
      <4> QED BY <1>2, <3>1, <4>1, ElapsedIsDue
    <3>2. CASE ~Future!Elapsed(1)
      <4>1. ready' = <<"None">> /\ <<"None">> # <<"Some">>
        BY <2>1, <2>2, <3>2 DEF Future!Outcomes
      <4>2. deadline[1] \in Nat /\ deadline[2] \in Nat /\ now \in Nat
        <5>1. now \in Nat
          BY DEF FutureInv, FutureTypes
        <5> QED BY <1>2, <5>1, DeadlinesAre DEF FutureInv
      <4>3. 1 \notin fired /\ ~(deadline[1] < now) /\ (2 \in fired \/ deadline[2] < now)
        BY <1>4, <3>2 DEF Future!Elapsed
      <4>4. deadline[2] <= deadline[1]
        BY <1>1, <4>2, <4>3 DEF FutureInv, InOrder
      <4> QED BY <4>1, <4>4
    <3> QED BY <3>1, <3>2
  <2>3. ASSUME future = "race" PROVE deadline[ready'[2]] # Future!Never
    <3>1. PICK x \in {1, 2} : Future!Elapsed(x) /\ ready' = <<"res", x>>
      BY <2>1, <2>3
    <3> QED BY <1>2, <3>1, ElapsedIsDue
  <2>4. Future!FuturesAnswer'
    BY <1>1, <2>1, <2>2, <2>3 DEF Future!FuturesAnswer, Future!Racing
  <2> QED BY <1>1, <2>1, <2>4, ReadyKeeps
<1> QED BY <1>3, <1>4

LEMMA FutureStep == FutureInv /\ [Future!Next]_Future!vars => FutureInv'
<1> SUFFICES ASSUME FutureInv, [Future!Next]_Future!vars PROVE FutureInv'
  OBVIOUS
<1>1. ASSUME NEW t \in {Future!Main} \cup Future!Tasks, Future!StartPoll(t) PROVE FutureInv'
  <2>1. /\ t \in woken /\ woken' = woken \ {t} /\ polling' = polling \cup {t}
        /\ UNCHANGED <<future, left_n, at, deadline, registered, fired, now, results, ready>>
    BY <1>1 DEF Future!StartPoll
  <2>2. Polled'
    BY <2>1 DEF FutureInv, Polled
  <2> QED BY <2>1, <2>2, PollsOnly
<1>2. ASSUME NEW t \in Future!Tasks, Future!PollTask(t) PROVE FutureInv'
  <2>1. /\ t \in polling \ {Future!Main} /\ polling' = polling \ {t}
        /\ woken' \subseteq woken \cup {Future!Main} /\ registered' \subseteq registered \cup {t}
        /\ UNCHANGED <<future, left_n, at, deadline, fired, now, results, ready>>
    BY <1>2 DEF Future!PollTask, Future!Pending
  <2>2. at # "idle" /\ future \in Future!Joining
    BY <2>1 DEF FutureInv, Polled
  <2>3. Polled'
    BY <2>1, <2>2 DEF FutureInv, Polled, Future!Joining, Future!Racing
  <2>4. FutureTypes'
    BY <1>2, <2>1, FutureConstants DEF FutureInv, FutureTypes
  <2> QED BY <2>1, <2>3, <2>4 DEF FutureInv, InOrder, Future!FuturesAnswer
<1>3. CASE UNCHANGED Future!vars
  <2>1. UNCHANGED <<future, left_n, at, woken, polling, deadline, registered, fired, now, results, ready>>
    BY <1>3 DEF Future!vars
  <2>2. Polled'
    BY <2>1 DEF FutureInv, Polled
  <2> QED BY <2>1, <2>2, PollsOnly
<1> QED
  BY <1>1, <1>2, <1>3, CallKeeps, FireKeeps, MainPollKeeps, LiftoffKeeps, AllAwaitedKeeps, PollBothKeeps
  DEF Future!Next, Future!MainPoll

\* Whatever the runtime polls and whenever the timers fire: spawned tasks are
\* awaited in their order, with_timeout is None only if the timeout was not
\* later than the future, and neither it nor race returns what never is ready,
\* for any number of tasks and any deadlines.
THEOREM FuturesAnswerRight ==
    Future!Init /\ [][Future!Next]_Future!vars => []FuturesAnswer
<1>1. FutureInv => FuturesAnswer
  BY DEF FutureInv, FuturesAnswer
<1> QED BY <1>1, FutureInit, FutureStep, PTL
=============================================================================
