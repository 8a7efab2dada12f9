------------------------------ MODULE MC_Locks -------------------------------
(* The locks, the atomic primitives and the functions that use threads,     *)
(* checked in one run: each initial state chooses the one component that    *)
(* the threads use.  For RwLock it also chooses which of Writers really     *)
(* call write(), so that one writer thread and several are covered.         *)
EXTENDS RwLock

CONSTANTS LockModulus, CounterModulus, Multipliers, MaxBehind, Producer, Payloads,
          MaxProduces, MaxRounds, None, MaxWorkers, MaxThreadRounds

\* The producer of FlagChannel is one of the threads.
ASSUME ChannelAssumption == Producer \in Threads

\* The counter counts modulo a positive number, a u64 times a u64.
ASSUME CounterAssumption == CounterModulus \in Nat \ {0} /\ Multipliers \subseteq Nat

\* The bounds of Threads count.
ASSUME WorkersAssumption == MaxWorkers \in Nat /\ MaxThreadRounds \in Nat

VARIABLES
    component, writers,
    at,                                              \* pc of what is not RwLock
    guarded, locked, lockData, lockReg, lockKnow, lockReleased,  \* SpinLock
    value, unseen, current, factor,                  \* AtomicCounter
    history, view, round, produced, consumed,        \* FlagChannel
    cell, cellView, won, got, joined,                \* OnceCell
    call, main, spawned, worker, rounds, mutex,      \* Threads
    counter, num, list, local, joins, answer

Spin == INSTANCE SpinLock WITH Modulus <- LockModulus, pc <- at,
            data <- lockData, reg <- lockReg, know <- lockKnow, released <- lockReleased
Counter == INSTANCE AtomicCounter WITH Modulus <- CounterModulus, pc <- at
Channel == INSTANCE FlagChannel WITH pc <- at
Once == INSTANCE OnceCell WITH history <- cell, view <- cellView, pc <- at,
            ValueOf <- [t \in Threads |-> t]
Spawned == INSTANCE Threads WITH MaxRounds <- MaxThreadRounds, joined <- joins

spinVars == <<guarded, locked, lockData, lockReg, lockKnow, lockReleased>>
counterVars == <<value, unseen, current, factor>>
channelVars == <<history, view, round, produced, consumed>>
onceVars == <<cell, cellView, won, got, joined>>
threadVars == <<call, main, spawned, worker, rounds, mutex, counter, num, list, local, joins, answer>>

MCInit ==
    /\ component \in {"rwlock", "spin", "counter", "channel", "once", "threads"}
    /\ Init /\ Spin!Init /\ Counter!Init /\ Channel!Init /\ Once!Init /\ Spawned!Init
    /\ writers \in SUBSET Writers \ {{}}
    /\ component # "rwlock" => writers = Writers
    /\ component # "spin" => ~guarded
    /\ component # "counter" => value = 0

RwLockNext == Next /\ \A t \in Threads \ writers : pc'[t] # "w_announce"

MCNext ==
    /\ UNCHANGED <<component, writers>>
    /\ \/ /\ component = "rwlock" /\ RwLockNext
          /\ UNCHANGED <<at, spinVars, counterVars, channelVars, onceVars, threadVars>>
       \/ /\ component = "spin" /\ Spin!Next
          /\ UNCHANGED <<vars, counterVars, channelVars, onceVars, threadVars>>
       \/ /\ component = "counter" /\ Counter!Next
          /\ UNCHANGED <<vars, spinVars, channelVars, onceVars, threadVars>>
       \/ /\ component = "channel" /\ Channel!Next
          /\ UNCHANGED <<vars, spinVars, counterVars, onceVars, threadVars>>
       \/ /\ component = "once" /\ Once!Next
          /\ UNCHANGED <<vars, spinVars, counterVars, channelVars, threadVars>>
       \/ /\ component = "threads" /\ Spawned!Next
          /\ UNCHANGED <<vars, at, spinVars, counterVars, channelVars, onceVars>>

mcVars == <<component, writers, vars, at, spinVars, counterVars, channelVars, onceVars, threadVars>>

\* A component that is not chosen stays in its initial state, in which none of
\* its fair actions is enabled: its fairness asks nothing.
MCSpec ==
    /\ MCInit /\ [][MCNext]_mcVars
    /\ Fairness /\ Spin!Fairness /\ Counter!Fairness /\ Spawned!Fairness

-----------------------------------------------------------------------------
\* OneWriterRuns: with a single writer thread the code keeps its promise to
\* writers: that writer gets the lock, however many readers come.
OneWriterRuns ==
    \A w \in Threads :
        writers = {w} /\ pc[w] = "w_load" ~> w \in WriteHolders

-----------------------------------------------------------------------------
\* The properties of the other components, stated and explained there.

\* SpinLock: the holder's accesses come after all earlier ones.
SpinDataRaceFree == component = "spin" => Spin!DataRaceFree
\* SpinLock: no increment made under the lock is lost.
IncrementsAtomically == Spin!IncrementsAtomically
\* AtomicCounter: fetch_multiply tries no more often than the others store.
RetriesBounded == Counter!RetriesBounded
\* FlagChannel: consume returns a value of its round.
ConsumesThisRound == component = "channel" => Channel!ConsumesThisRound
\* OnceCell: one init call wins, and who joined the winner gets its value.
OneValue == component = "once" => Once!OneInit /\ Once!JoinedGetsValue
\* OnceCell: "all threads see the initialized value".
GetSeesInitialized == component = "once" => Once!GetSeesInitialized
\* Threads: whatever is joined is done, and nothing of it is lost.
WorkJoined == component = "threads" => Spawned!WorkJoined
\* Nobody waits for ever, whatever is used: somebody takes a spin lock that is
\* wanted, fetch_multiply returns, and so do the functions that join threads.
ThreadsGoOn == Spin!SomebodyTakes /\ Counter!MultiplyReturns /\ Spawned!CallsEnd
=============================================================================
