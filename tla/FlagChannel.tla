----------------------------- MODULE FlagChannel -----------------------------
(***************************************************************************)
(* FlagChannel of src/exercises/03_os_concurrency/02_atomic_ordering: a    *)
(* producer stores data, then ready; consumers spin on ready, then load    *)
(* data.  reset begins another round: whoever calls it has joined every    *)
(* other thread, and spawns the threads of the next round.                 *)
(***************************************************************************)
EXTENDS Naturals, Sequences, Functions

CONSTANTS
    Threads, Producer,   \* the thread that produces; the others consume
    Payloads,              \* what is produced; 0 is the initial value
    MaxProduces,         \* bound: calls of produce in a round
    MaxRounds            \* bound: rounds

VARIABLES
    history, view,   \* the memory: locations "data" and "ready"
    pc,
    round,
    produced,        \* the values of the produce calls begun in this round
    consumed              \* what each consumer's consume() returned (0: nothing yet)

vars == <<history, view, pc, round, produced, consumed>>

Memory == INSTANCE WeakMemory WITH Locations <- {"data", "ready"}

Consumers == Threads \ {Producer}

Goto(t, l) == pc' = [pc EXCEPT ![t] = l]

Init ==
    /\ Memory!MemoryInit([data |-> 0, ready |-> FALSE])
    /\ pc = [t \in Threads |-> "idle"]
    /\ round = 1
    /\ produced = <<>>
    /\ consumed = [t \in Threads |-> 0]

-----------------------------------------------------------------------------
\* produce(value): data.store(value, Relaxed) ...
ProduceData(value) ==
    LET t == Producer IN
    /\ pc[t] = "idle"
    /\ Len(produced) < MaxProduces
    /\ Memory!StoreRelaxed(t, "data", value)
    /\ produced' = Append(produced, value)
    /\ Goto(t, "flag")
    /\ UNCHANGED <<round, consumed>>

\* ... then ready.store(true, Release).
PublishRelaxed(t) == Memory!StoreRelaxed(t, "ready", TRUE)  \* mutant
Publish(t) == Memory!StoreRelease(t, "ready", TRUE)

ProduceFlag ==
    LET t == Producer IN
    /\ pc[t] = "flag"
    /\ Publish(t)
    /\ Goto(t, "idle")
    /\ UNCHANGED <<round, produced, consumed>>

ProducerEnds ==
    /\ pc[Producer] = "idle" /\ produced # <<>>
    /\ Goto(Producer, "end")
    /\ UNCHANGED <<history, view, round, produced, consumed>>

\* consume(): ready.load(Acquire) until it is true; a load that returns false
\* may still have seen a newer message than the one before ...
Spin(t) ==
    /\ t \in Consumers /\ pc[t] = "idle"
    /\ Memory!LoadAcquire(t, "ready", FALSE)
    /\ UNCHANGED <<pc, round, produced, consumed>>

SeesReady(t) ==
    /\ t \in Consumers /\ pc[t] = "idle"
    /\ Memory!LoadAcquire(t, "ready", TRUE)
    /\ Goto(t, "data")
    /\ UNCHANGED <<round, produced, consumed>>

\* ... then data.load(Relaxed).
ConsumeData(t) ==
    /\ pc[t] = "data"
    /\ \E value \in Payloads \cup {0} :
          /\ Memory!LoadRelaxed(t, "data", value)
          /\ consumed' = [consumed EXCEPT ![t] = value]
    /\ Goto(t, "end")
    /\ UNCHANGED <<round, produced>>

-----------------------------------------------------------------------------
\* reset() by a thread that joined the others: two Relaxed stores.
Join(t) ==
    /\ \A u \in Threads : pc[u] = "end"
    /\ round < MaxRounds
    /\ Memory!Synchronize(t, Threads)
    /\ Goto(t, "reset ready")
    /\ UNCHANGED <<round, produced, consumed>>

ResetReady(t) ==
    /\ pc[t] = "reset ready"
    /\ Memory!StoreRelaxed(t, "ready", FALSE)
    /\ Goto(t, "reset data")
    /\ UNCHANGED <<round, produced, consumed>>

ResetData(t) ==
    /\ pc[t] = "reset data"
    /\ Memory!StoreRelaxed(t, "data", 0)
    /\ Goto(t, "spawn")
    /\ UNCHANGED <<round, produced, consumed>>

\* The next round's threads happen after the one that spawns them.
Spawn(t) ==
    /\ pc[t] = "spawn"
    /\ view' = [u \in Threads |-> view[t]]
    /\ pc' = [u \in Threads |-> "idle"]
    /\ round' = round + 1
    /\ produced' = <<>>
    /\ consumed' = [u \in Threads |-> 0]
    /\ UNCHANGED history

Next ==
    \/ \E value \in Payloads : ProduceData(value)
    \/ ProduceFlag \/ ProducerEnds
    \/ \E t \in Threads :
          \/ Spin(t) \/ SeesReady(t) \/ ConsumeData(t)
          \/ Join(t) \/ ResetReady(t) \/ ResetData(t) \/ Spawn(t)

-----------------------------------------------------------------------------
\* ConsumesThisRound: consume() returns a value of the round it belongs to,
\* never the initial 0 nor the value of an earlier round.
ConsumesThisRound ==
    \A t \in Consumers :
        pc[t] = "end" => consumed[t] \in Range(produced)
=============================================================================
