----------------------------- MODULE LocksProofs -----------------------------
(* Theorems about the components that MC_Locks checks with RwLock, each for *)
(* any threads: SpinLock, with panics and both variants, OnceCell and       *)
(* FlagChannel over WeakMemory, AtomicCounter, and the functions of Threads.*)
EXTENDS MC_Locks, Sequences, LeastElement, FiniteSetTheorems, TLAPS

-----------------------------------------------------------------------------
(* SpinLock. *)

SpinCritical == {"holding", "storing", "stored"}
SpinPlaces == {"idle", "spinning", "panicked"} \cup SpinCritical

SpinTypes ==
    /\ locked \in BOOLEAN
    /\ at \in [Threads -> SpinPlaces]
    /\ DOMAIN lockReg = Threads
    /\ lockKnow \in [Threads -> SUBSET Threads]
    /\ lockReleased \subseteq Threads

\* The flag is set exactly while one thread holds the lock.
SpinExclusion ==
    /\ locked <=> Spin!Holders # {}
    /\ \A t, u \in Spin!Holders : t = u

\* A free lock has published every access made so far, so that whoever takes
\* it learns them all.
SpinPublished == ~locked => lockReleased = Threads

\* What the holder has loaded in `*data += 1` is still the value.
SpinRegFresh == \A t \in Threads : at[t] = "storing" => lockReg[t] = lockData

SpinInv == SpinTypes /\ SpinExclusion /\ SpinPublished /\ Spin!DataRaceFree /\ SpinRegFresh

-----------------------------------------------------------------------------
\* Who holds the lock after a thread has gone to l.
LEMMA SpinMoving ==
    ASSUME SpinTypes, NEW t \in Threads, NEW l \in SpinPlaces, Spin!Goto(t, l)
    PROVE  /\ at' \in [Threads -> SpinPlaces]
           /\ at'[t] = l
           /\ \A u \in Threads : u # t => at'[u] = at[u]
           /\ l \in SpinCritical => Spin!Holders' = Spin!Holders \cup {t}
           /\ l \notin SpinCritical => Spin!Holders' = Spin!Holders \ {t}
<1>1. /\ at' \in [Threads -> SpinPlaces]
      /\ at'[t] = l
      /\ \A u \in Threads : u # t => at'[u] = at[u]
    BY DEF SpinTypes, Spin!Goto
<1> QED BY <1>1 DEF Spin!Holders, SpinCritical

\* lock() and try_lock() that succeed: the flag was clear, so there was no
\* holder, and Acquire brings the taker all that was published.
LEMMA SpinTakeKeeps ==
    ASSUME SpinInv, NEW t \in Threads, Spin!Take(t)
    PROVE  SpinInv' /\ Spin!Ideal!BeginWrite(t)
<1>1. Spin!Holders = {} /\ lockReleased = Threads
    BY DEF Spin!Take, Spin!CanTake, Spin!TestUnlocked, SpinInv, SpinExclusion, SpinPublished
<1>2. /\ Spin!Holders' = {t}
      /\ at' \in [Threads -> SpinPlaces]
      /\ at'[t] = "holding" /\ \A u \in Threads : u # t => at'[u] = at[u]
    BY <1>1, SpinMoving DEF Spin!Take, SpinInv, SpinPlaces, SpinCritical
<1>3. lockKnow' \in [Threads -> SUBSET Threads] /\ lockKnow'[t] = Threads
    BY <1>1 DEF Spin!Take, Spin!Acquire, SpinInv, SpinTypes
<1>4. SpinTypes' /\ SpinExclusion' /\ SpinPublished'
    BY <1>2, <1>3 DEF Spin!Take, SpinInv, SpinTypes, SpinExclusion, SpinPublished
<1>5. Spin!DataRaceFree'
    BY <1>2, <1>3 DEF Spin!DataRaceFree
<1>6. SpinRegFresh'
    BY <1>2 DEF Spin!Take, SpinInv, SpinRegFresh
<1>7. Spin!Ideal!BeginWrite(t)
    BY <1>1, <1>2 DEF Spin!Take, Spin!Ideal!BeginWrite
<1> QED BY <1>4, <1>5, <1>6, <1>7 DEF SpinInv

\* An access by the holder: it stays the only one, and keeps knowing all.
LEMMA SpinAccessKeeps ==
    ASSUME SpinInv, NEW t \in Threads, t \in Spin!Holders, Spin!Access(t),
           NEW l \in SpinCritical, Spin!Goto(t, l), locked' = locked, DOMAIN lockReg' = Threads
    PROVE  SpinTypes' /\ SpinExclusion' /\ SpinPublished' /\ Spin!DataRaceFree' /\ Spin!Holders' = {t}
<1>1. locked /\ Spin!Holders = {t} /\ lockKnow[t] = Threads
    BY DEF SpinInv, SpinExclusion, Spin!DataRaceFree
<1>2. Spin!Holders' = {t} /\ at' \in [Threads -> SpinPlaces]
    BY <1>1, SpinMoving DEF SpinInv, SpinPlaces
<1>3. /\ lockKnow' \in [Threads -> SUBSET Threads]
      /\ lockKnow'[t] = Threads
      /\ lockReleased' \subseteq Threads
    BY <1>1 DEF Spin!Access, SpinInv, SpinTypes
<1> QED BY <1>1, <1>2, <1>3 DEF SpinInv, SpinTypes, SpinExclusion, SpinPublished, Spin!DataRaceFree

\* unlock(), the guard's drop and the drop while unwinding: Release publishes
\* what the holder knows, which is everything.
LEMMA SpinUnlockKeeps ==
    ASSUME SpinInv, NEW t \in Spin!Holders, NEW l \in SpinPlaces \ SpinCritical, Spin!Unlock(t, l)
    PROVE  SpinInv' /\ Spin!Ideal!EndWrite(t)
<1>1. t \in Threads /\ Spin!Holders = {t} /\ lockKnow[t] = Threads
    BY DEF SpinInv, SpinExclusion, Spin!DataRaceFree, Spin!Holders
<1>2. /\ Spin!Holders' = {}
      /\ at' \in [Threads -> SpinPlaces]
      /\ at'[t] = l /\ \A u \in Threads : u # t => at'[u] = at[u]
    BY <1>1, SpinMoving DEF Spin!Unlock, SpinInv
<1>3. SpinTypes' /\ SpinExclusion' /\ SpinPublished' /\ Spin!DataRaceFree'
    BY <1>1, <1>2
    DEF Spin!Unlock, Spin!Release, SpinInv, SpinTypes, SpinExclusion, SpinPublished, Spin!DataRaceFree
<1>4. SpinRegFresh'
    BY <1>2 DEF SpinRegFresh, Spin!Holders
<1>5. Spin!Ideal!EndWrite(t)
    BY <1>1, <1>2 DEF Spin!Unlock, Spin!Ideal!EndWrite
<1> QED BY <1>3, <1>4, <1>5 DEF SpinInv

-----------------------------------------------------------------------------
LEMMA SpinInvInit == Spin!Init => SpinInv
  BY DEF Spin!Init, SpinInv, SpinTypes, SpinExclusion, SpinPublished, Spin!DataRaceFree, SpinRegFresh,
         Spin!Holders, SpinPlaces, SpinCritical

\* Every step keeps the invariant and is a step of the ideal lock, or none.
LEMMA SpinStep ==
    ASSUME SpinInv, [Spin!Next]_Spin!vars
    PROVE  SpinInv' /\ [Spin!Ideal!Next]_Spin!Ideal!vars
<1>1. ASSUME NEW t \in Threads, Spin!CallLock(t)
      PROVE  SpinInv' /\ UNCHANGED Spin!Ideal!vars
  <2>1. /\ Spin!Holders' = Spin!Holders
        /\ at' \in [Threads -> SpinPlaces]
        /\ at'[t] = "spinning" /\ \A u \in Threads : u # t => at'[u] = at[u]
    BY <1>1, SpinMoving DEF Spin!CallLock, SpinInv, SpinPlaces, SpinCritical, Spin!Holders
  <2> QED
    BY <1>1, <2>1
    DEF Spin!CallLock, SpinInv, SpinTypes, SpinExclusion, SpinPublished, Spin!DataRaceFree, SpinRegFresh, Spin!Ideal!vars
<1>2. ASSUME NEW t \in Threads, Spin!SpinTake(t) \/ Spin!TryLock(t)
      PROVE  SpinInv' /\ Spin!Ideal!Next
    BY <1>2, SpinTakeKeeps DEF Spin!SpinTake, Spin!TryLock, Spin!Ideal!Next
<1>3. ASSUME NEW t \in Threads, Spin!LoadData(t)
      PROVE  SpinInv' /\ UNCHANGED Spin!Ideal!vars
  <2>1. t \in Spin!Holders /\ Spin!Holders = {t}
    BY <1>3 DEF Spin!LoadData, Spin!Holders, SpinInv, SpinExclusion
  <2>2. SpinTypes' /\ SpinExclusion' /\ SpinPublished' /\ Spin!DataRaceFree' /\ Spin!Holders' = {t}
    BY <1>3, <2>1, SpinAccessKeeps DEF Spin!LoadData, SpinCritical, SpinInv, SpinTypes
  <2>3. SpinRegFresh'
    BY <1>3, <2>1, <2>2 DEF Spin!LoadData, SpinRegFresh, Spin!Holders, SpinInv, SpinTypes
  <2> QED BY <1>3, <2>1, <2>2, <2>3 DEF Spin!LoadData, SpinInv, Spin!Ideal!vars
<1>4. ASSUME NEW t \in Threads, Spin!StoreData(t)
      PROVE  SpinInv' /\ Spin!Ideal!Next
  <2>1. t \in Spin!Holders /\ Spin!Holders = {t} /\ lockReg[t] = lockData
    BY <1>4 DEF Spin!StoreData, Spin!Holders, SpinInv, SpinExclusion, SpinRegFresh
  <2>2. SpinTypes' /\ SpinExclusion' /\ SpinPublished' /\ Spin!DataRaceFree' /\ Spin!Holders' = {t}
    BY <1>4, <2>1, SpinAccessKeeps DEF Spin!StoreData, SpinCritical, SpinInv, SpinTypes
  <2>3. at'[t] = "stored"
    BY <1>4 DEF Spin!StoreData, Spin!Goto, SpinInv, SpinTypes
  <2>4. SpinRegFresh'
    BY <2>2, <2>3 DEF SpinRegFresh, Spin!Holders
  <2>5. Spin!Ideal!Increment(t)
    BY <1>4, <2>1, <2>2 DEF Spin!StoreData, Spin!Ideal!Increment
  <2> QED BY <2>2, <2>4, <2>5 DEF SpinInv, Spin!Ideal!Next
<1>5. ASSUME NEW t \in Threads, Spin!Leave(t) \/ Spin!Panic(t)
      PROVE  SpinInv' /\ Spin!Ideal!Next
  <2>1. t \in Spin!Holders
    BY <1>5 DEF Spin!Leave, Spin!Panic, Spin!Holders
  <2> QED
    BY <1>5, <2>1, SpinUnlockKeeps DEF Spin!Leave, Spin!Panic, SpinPlaces, SpinCritical, Spin!Ideal!Next
<1>6. CASE UNCHANGED Spin!vars
    BY <1>6
    DEF Spin!vars, SpinInv, SpinTypes, SpinExclusion, SpinPublished, Spin!DataRaceFree, SpinRegFresh, Spin!Holders, Spin!Ideal!vars
<1> QED BY <1>1, <1>2, <1>3, <1>4, <1>5, <1>6 DEF Spin!Next

LEMMA SpinInvariant == Spin!Spec => []SpinInv
  BY SpinInvInit, SpinStep, PTL DEF Spin!Spec

-----------------------------------------------------------------------------
\* Both locks (03_spinlock and 04_spinlock_guard) order all accesses
\* by their Acquire and Release alone, for any number of threads that lock, try
\* to lock, unlock and panic.
THEOREM NoSpinDataRace == Spin!Spec => []SpinDataRaceFree
  <1>1. SpinInv => SpinDataRaceFree
    BY DEF SpinInv, SpinDataRaceFree
  <1>. QED  BY <1>1, SpinInvariant, PTL

\* `*data += 1` under the lock takes effect at once, in one thread at a time:
\* no increment is lost, whoever panics in between.
THEOREM SpinLockImplements == Spin!Spec => IncrementsAtomically
  <1>1. Spin!Init => Spin!Ideal!Init
    BY DEF Spin!Init, Spin!Ideal!Init, Spin!Holders
  <1>. QED
    BY <1>1, SpinInvariant, SpinStep, PTL DEF Spin!Spec, IncrementsAtomically, Spin!IncrementsAtomically, Spin!Ideal!Spec

-----------------------------------------------------------------------------
(* OnceCell. *)

OnceFields == {"initialized", "value"}
OnceView == [OnceFields -> {1, 2}]
OnceMessage == [val : BOOLEAN \cup Threads \cup {0}, view : OnceView]

OnceTypes ==
    /\ at \in [Threads -> {"idle", "publishing", "reading", "end"}]
    /\ won \in [Threads -> {"none", "true", "false"}]
    /\ joined \in [Threads -> SUBSET Threads]
    /\ cell \in [OnceFields -> Seq(OnceMessage)]
    /\ cellView \in [Threads -> OnceView]

\* Each location is written once at most after its initial value; views, of
\* threads and in messages, lead to messages that are there.
Cells ==
    /\ \A l \in OnceFields : Len(cell[l]) \in {1, 2}
    /\ cell["initialized"][1].val = FALSE
    /\ Len(cell["initialized"]) = 2 => cell["initialized"][2].val = TRUE
    /\ \A t \in Threads, k \in OnceFields : cellView[t][k] <= Len(cell[k])
    /\ \A l, k \in OnceFields : \A i \in 1 .. Len(cell[l]) : cell[l][i].view[k] <= Len(cell[k])

\* Nobody has won ...
Unwon ==
    /\ Len(cell["initialized"]) = 1
    /\ \A t \in Threads : at[t] # "publishing" /\ won[t] = "none"
    /\ Len(cell["value"]) = 1

\* ... or w has, and who joined it after its init returned sees both stores.
WonBy(w) ==
    /\ Len(cell["initialized"]) = 2
    /\ Once!Winners = {w}
    /\ cellView[w]["initialized"] = 2
    /\ won[w] # "true" => Len(cell["value"]) = 1
    /\ won[w] = "true" =>
          /\ Len(cell["value"]) = 2 /\ cell["value"][2].val = w
          /\ \A t \in Threads, k \in OnceFields :
                t = w \/ w \in joined[t] => cellView[t][k] = 2

\* A thread that is joined has ended: its init returns nothing any more.
JoinedEnded == \A t \in Threads : \A u \in joined[t] : at[u] = "end"

OnceInv ==
    /\ OnceTypes /\ Cells /\ JoinedEnded
    /\ Unwon \/ \E w \in Threads : WonBy(w)
    /\ \A t \in Threads : at[t] = "publishing" => won[t] = "none"

\* The positions of messages, where there are two at most.
LEMMA Between == \A a, b \in {1, 2} : \A j \in a .. b : j \in {1, 2} /\ a <= j /\ j <= b
  OBVIOUS
LEMMA OneFirst == \A b \in {1, 2} : 1 <= b
  OBVIOUS

\* Loads and joins: t's view grows, and nothing is stored.
OnceLooks(t) ==
    /\ cell' = cell
    /\ cellView' \in [Threads -> OnceView]
    /\ \A u \in Threads, k \in OnceFields :
          /\ cellView[u][k] <= cellView'[u][k]
          /\ cellView'[u][k] <= Len(cell[k])

LEMMA OnceAcquires ==
    ASSUME OnceInv, NEW t \in Threads, NEW l \in OnceFields, NEW x,
           Once!Memory!LoadAcquire(t, l, x)
    PROVE  OnceLooks(t) /\ \E i \in 1 .. Len(cell[l]) : cell[l][i].val = x
  <1>1. PICK i \in Once!Memory!Visible(t, l) :
          /\ cell[l][i].val = x
          /\ cellView' = [cellView EXCEPT ![t] =
                Once!Memory!Merge([cellView[t] EXCEPT ![l] = i], cell[l][i].view)]
          /\ cell' = cell
    BY DEF Once!Memory!LoadAcquire
  <1>2. /\ cellView[t] \in OnceView /\ cellView[t][l] \in {1, 2}
        /\ Len(cell[l]) \in {1, 2}
    BY DEF OnceInv, OnceTypes, OnceView, Cells
  <1>3. i \in 1 .. Len(cell[l]) /\ i \in {1, 2} /\ cellView[t][l] <= i
    BY <1>1, <1>2 DEF Once!Memory!Visible
  <1>4. /\ cell[l][i].view \in OnceView
        /\ \A k \in OnceFields : cell[l][i].view[k] <= Len(cell[k])
    <2>1. cell[l] \in Seq(OnceMessage) /\ i \in 1 .. Len(cell[l])
      BY <1>3 DEF OnceInv, OnceTypes
    <2>2. cell[l][i] \in OnceMessage
      BY <2>1
    <2>. QED  BY <1>3, <2>2 DEF OnceInv, OnceMessage, Cells
  <1>. DEFINE known == [cellView[t] EXCEPT ![l] = i]
              new == Once!Memory!Merge(known, cell[l][i].view)
  <1>5. /\ known \in OnceView
        /\ \A k \in OnceFields : cellView[t][k] <= known[k] /\ known[k] <= Len(cell[k])
    BY <1>2, <1>3 DEF OnceInv, Cells, OnceView
  <1>6. /\ new \in OnceView
        /\ \A k \in OnceFields : cellView[t][k] <= new[k] /\ new[k] <= Len(cell[k])
    <2>. HIDE DEF known
    <2>. QED  BY <1>2, <1>4, <1>5 DEF Once!Memory!Merge, Once!Memory!Later, OnceView, OnceFields
  <1>7. cell' = cell /\ cellView' = [cellView EXCEPT ![t] = new]
    BY <1>1
  <1>8. cell[l][i].val = x /\ i \in 1 .. Len(cell[l])
    BY <1>1, <1>3
  <1>9. cellView \in [Threads -> OnceView]
    BY DEF OnceInv, OnceTypes
  <1>. HIDE DEF new
  <1>10. cellView' \in [Threads -> OnceView]
    BY <1>6, <1>7, <1>9
  <1>11. ASSUME NEW u \in Threads, NEW k \in OnceFields
         PROVE  cellView[u][k] <= cellView'[u][k] /\ cellView'[u][k] <= Len(cell[k])
    <2>1. CASE u = t
      BY <1>6, <1>7, <1>9, <2>1
    <2>2. CASE u # t
      <3>1. cellView'[u] = cellView[u] /\ cellView[u][k] \in {1, 2}
        BY <1>7, <1>9, <2>2 DEF OnceView
      <3>. QED  BY <3>1 DEF OnceInv, Cells
    <2>. QED  BY <2>1, <2>2
  <1>. QED  BY <1>7, <1>8, <1>10, <1>11 DEF OnceLooks

LEMMA OnceRelaxes ==
    ASSUME OnceInv, NEW t \in Threads, NEW l \in OnceFields, NEW x,
           Once!Memory!LoadRelaxed(t, l, x)
    PROVE  OnceLooks(t)
  <1>1. PICK i \in Once!Memory!Visible(t, l) :
          cellView' = [cellView EXCEPT ![t][l] = i] /\ cell' = cell
    BY DEF Once!Memory!LoadRelaxed
  <1>2. /\ cellView \in [Threads -> OnceView]
        /\ cellView[t][l] \in {1, 2} /\ Len(cell[l]) \in {1, 2}
    BY DEF OnceInv, OnceTypes, OnceView, Cells
  <1>3. i \in {1, 2} /\ cellView[t][l] <= i /\ i <= Len(cell[l])
    <2>1. i \in cellView[t][l] .. Len(cell[l])
      BY <1>1 DEF Once!Memory!Visible
    <2>. QED  BY <1>2, <2>1, Between, Zenon
  <1>4. ASSUME NEW u \in Threads, NEW k \in OnceFields
        PROVE  /\ cellView'[u][k] = IF u = t /\ k = l THEN i ELSE cellView[u][k]
               /\ cellView[u][k] \in {1, 2} /\ cellView[u][k] <= Len(cell[k])
    BY <1>1, <1>2 DEF OnceView, OnceInv, Cells
  <1>5. cellView' \in [Threads -> OnceView]
    BY <1>1, <1>2, <1>3 DEF OnceView
  <1>6. \A u \in Threads, k \in OnceFields :
           cellView[u][k] <= cellView'[u][k] /\ cellView'[u][k] <= Len(cell[k])
    BY <1>2, <1>3, <1>4
  <1>. QED  BY <1>1, <1>5, <1>6 DEF OnceLooks

\* A join takes over all that the joined thread has seen.
LEMMA OnceJoins ==
    ASSUME OnceInv, NEW t \in Threads, NEW w \in Threads, Once!Memory!Synchronize(t, {w})
    PROVE  /\ OnceLooks(t)
           /\ \A k \in OnceFields : cellView[w][k] <= cellView'[t][k]
  <1>1. cellView \in [Threads -> OnceView]
    BY DEF OnceInv, OnceTypes
  <1>. DEFINE Seen(k) == {cellView[u][k] : u \in {w} \cup {t}}
              new == [k \in OnceFields |-> Once!Memory!Max(Seen(k))]
  <1>2. cellView' = [cellView EXCEPT ![t] = new] /\ cell' = cell
    BY DEF Once!Memory!Synchronize, OnceFields
  <1>3. ASSUME NEW k \in OnceFields
        PROVE  /\ new[k] \in {1, 2} /\ new[k] <= Len(cell[k])
               /\ cellView[t][k] <= new[k] /\ cellView[w][k] <= new[k]
    <2>1. /\ Seen(k) = {cellView[w][k], cellView[t][k]}
          /\ cellView[w][k] \in {1, 2} /\ cellView[t][k] \in {1, 2}
      BY <1>1 DEF OnceView
    <2>2. \E x \in Seen(k) : \A y \in Seen(k) : x >= y
      <3>1. CASE cellView[w][k] >= cellView[t][k]
        BY <2>1, <3>1
      <3>2. CASE cellView[t][k] >= cellView[w][k]
        BY <2>1, <3>2
      <3>. QED  BY <2>1, <3>1, <3>2
    <2>3. new[k] \in Seen(k) /\ \A y \in Seen(k) : new[k] >= y
      BY <2>2 DEF Once!Memory!Max
    <2>4. cellView[w][k] <= Len(cell[k]) /\ cellView[t][k] <= Len(cell[k])
      BY DEF OnceInv, Cells
    <2>. HIDE DEF new, Seen
    <2>. QED  BY <2>1, <2>3, <2>4
  <1>. HIDE DEF new
  <1>4. new \in OnceView
    <2>1. new = [k \in OnceFields |-> new[k]]
      BY DEF new
    <2>. QED  BY <1>3, <2>1 DEF OnceView
  <1>5. cellView' \in [Threads -> OnceView]
    BY <1>1, <1>2, <1>4
  <1>6. ASSUME NEW u \in Threads, NEW k \in OnceFields
        PROVE  cellView[u][k] <= cellView'[u][k] /\ cellView'[u][k] <= Len(cell[k])
    <2>1. CASE u = t
      BY <1>1, <1>2, <1>3, <2>1
    <2>2. CASE u # t
      <3>1. cellView'[u] = cellView[u] /\ cellView[u][k] \in {1, 2}
        BY <1>1, <1>2, <2>2 DEF OnceView
      <3>. QED  BY <3>1 DEF OnceInv, Cells
    <2>. QED  BY <2>1, <2>2
  <1>7. \A k \in OnceFields : cellView[w][k] <= cellView'[t][k]
    BY <1>1, <1>2, <1>3
  <1>. QED  BY <1>2, <1>5, <1>6, <1>7 DEF OnceLooks

\* A view that has grown to the last message stays there.
LEMMA OnceLooksKeep ==
    ASSUME OnceInv, NEW t \in Threads, OnceLooks(t)
    PROVE  /\ Cells'
           /\ \A u \in Threads, k \in OnceFields : cellView[u][k] = 2 => cellView'[u][k] = 2
  <1>1. Cells'
    BY DEF OnceLooks, OnceInv, Cells
  <1>2. ASSUME NEW u \in Threads, NEW k \in OnceFields, cellView[u][k] = 2
        PROVE  cellView'[u][k] = 2
    <2>1. cellView'[u][k] \in {1, 2} /\ 2 <= cellView'[u][k]
      BY <1>2 DEF OnceLooks, OnceView
    <2>. QED  BY <2>1
  <1>. QED  BY <1>1, <1>2

\* The steps of get, of an init that loses, and of joining.
LEMMA OnceLookKeeps ==
    ASSUME OnceInv, NEW t \in Threads, OnceLooks(t), OnceTypes', JoinedEnded',
           \A u \in Threads : at'[u] = "publishing" <=> at[u] = "publishing",
           \A u \in Threads : won'[u] = won[u] \/ (won[u] = "none" /\ won'[u] = "false" /\ at[u] = "idle"),
           Unwon => won' = won,
           \A w \in Threads : WonBy(w) /\ won[w] = "true" =>
               \A u \in Threads : w \in joined'[u] =>
                  \/ w \in joined[u]
                  \/ \A k \in OnceFields : cellView'[u][k] = 2
    PROVE  OnceInv'
  <1>1. cell' = cell /\ Cells'
    BY OnceLooksKeep DEF OnceLooks
  <1>2. \A u \in Threads : at'[u] = "publishing" => won'[u] = "none"
    BY DEF OnceInv
  <1>3. Unwon => Unwon'
    BY <1>1 DEF Unwon
  <1>4. ASSUME NEW w \in Threads, WonBy(w) PROVE WonBy(w)'
    <2>1. Once!Winners' = Once!Winners
      BY DEF Once!Winners
    <2>2. won'[w] = won[w]
      BY <1>4 DEF WonBy, Once!Winners, OnceInv
    <2>3. ASSUME won[w] = "true", NEW u \in Threads, NEW k \in OnceFields,
                 u = w \/ w \in joined'[u]
          PROVE  cellView'[u][k] = 2
      <3>1. CASE u = w \/ w \in joined[u]
        <4>1. cellView[u][k] = 2
          BY <1>4, <2>3, <3>1 DEF WonBy
        <4>. QED  BY <4>1, OnceLooksKeep
      <3>2. CASE ~(u = w \/ w \in joined[u])
        BY <1>4, <2>3, <3>2
      <3>. QED  BY <3>1, <3>2
    <2>4. cellView'[w]["initialized"] = 2
      BY <1>4, OnceLooksKeep DEF WonBy, OnceFields
    <2>. QED  BY <1>1, <1>4, <2>1, <2>2, <2>3, <2>4 DEF WonBy
  <1>. QED  BY <1>1, <1>2, <1>3, <1>4 DEF OnceInv

\* Only an exchange that finds the initial value wins.
LEMMA OnceWins ==
    ASSUME OnceInv, NEW t \in Threads, Once!InitWins(t)
    PROVE  OnceInv'
  <1>. DEFINE n == Len(cell["initialized"])
              last == cell["initialized"][n]
              known == Once!Memory!Merge(cellView[t], last.view)
  <1>1. /\ at[t] = "idle" /\ won[t] = "none" /\ last.val = FALSE
        /\ cell' = [cell EXCEPT !["initialized"] = Append(@, [val |-> TRUE, view |-> known])]
        /\ cellView' = [cellView EXCEPT ![t] = [known EXCEPT !["initialized"] = n + 1]]
        /\ at' = [at EXCEPT ![t] = "publishing"]
        /\ UNCHANGED <<won, joined>>
    BY DEF Once!InitWins, Once!TrySet, Once!Memory!Exchange, Once!Goto
  <1>2. /\ cell \in [OnceFields -> Seq(OnceMessage)] /\ cellView \in [Threads -> OnceView]
        /\ n \in {1, 2}
    BY DEF OnceInv, OnceTypes, Cells, OnceFields
  <1>3. n = 1 /\ Unwon
    <2>1. n = 2 => last.val = TRUE
      BY DEF OnceInv, Cells
    <2>. QED  BY <1>1, <1>2, <2>1 DEF OnceInv, WonBy
  <1>4. last \in OnceMessage
    BY <1>2, <1>3 DEF OnceFields
  <1>5. known \in OnceView /\ \A k \in OnceFields : known[k] = 1
    <2>1. \A k \in OnceFields : Len(cell[k]) = 1
      BY <1>3 DEF Unwon, OnceFields
    <2>2. \A k \in OnceFields : cellView[t][k] = 1
      BY <1>2, <2>1 DEF OnceInv, Cells, OnceView
    <2>3. \A k \in OnceFields : last.view[k] = 1
      BY <1>3, <1>4, <2>1 DEF OnceInv, Cells, OnceView, OnceMessage, OnceFields
    <2>. HIDE DEF last
    <2>. QED  BY <2>2, <2>3 DEF Once!Memory!Merge, Once!Memory!Later, OnceView, OnceFields
  <1>. HIDE DEF known, last
  <1>6. [val |-> TRUE, view |-> known] \in OnceMessage
    BY <1>5 DEF OnceMessage
  <1>7. /\ cell'["initialized"] = Append(cell["initialized"], [val |-> TRUE, view |-> known])
        /\ cell'["value"] = cell["value"]
        /\ cell' \in [OnceFields -> Seq(OnceMessage)]
    BY <1>1, <1>2, <1>6 DEF OnceFields
  <1>8. /\ Len(cell'["initialized"]) = 2 /\ Len(cell'["value"]) = 1
        /\ cell'["initialized"][1] = cell["initialized"][1]
        /\ cell'["initialized"][2] = [val |-> TRUE, view |-> known]
    BY <1>2, <1>3, <1>6, <1>7 DEF Unwon, OnceFields
  <1>9. /\ cellView' \in [Threads -> OnceView]
        /\ cellView'[t] = [known EXCEPT !["initialized"] = 2]
        /\ \A u \in Threads : u # t => cellView'[u] = cellView[u]
    <2>1. cellView' = [cellView EXCEPT ![t] = [known EXCEPT !["initialized"] = 2]]
      BY <1>1, <1>3
    <2>2. [known EXCEPT !["initialized"] = 2] \in OnceView
      BY <1>5 DEF OnceView
    <2>. QED  BY <1>2, <2>1, <2>2
  <1>10. OnceTypes'
    BY <1>1, <1>7, <1>9 DEF OnceInv, OnceTypes
  <1>11. Cells'
    <2>1. ASSUME NEW u \in Threads, NEW k \in OnceFields
          PROVE  cellView'[u][k] <= Len(cell'[k])
      BY <1>3, <1>5, <1>8, <1>9, <2>1 DEF OnceInv, Cells, OnceFields, OnceView, Unwon
    <2>2. ASSUME NEW l \in OnceFields, NEW k \in OnceFields, NEW i \in 1 .. Len(cell'[l])
          PROVE  cell'[l][i].view[k] <= Len(cell'[k])
      <3>1. CASE l = "initialized" /\ i = 2
        <4>1. cell'[l][i].view[k] = 1
          BY <1>5, <1>8, <3>1
        <4>2. Len(cell'[k]) \in {1, 2}
          BY <1>8 DEF OnceFields
        <4>. QED  BY <4>1, <4>2, OneFirst, Zenon
      <3>2. CASE ~(l = "initialized" /\ i = 2)
        <4>1. i = 1 /\ cell'[l][i] = cell[l][1] /\ 1 \in 1 .. Len(cell[l])
          BY <1>3, <1>7, <1>8, <2>2, <3>2 DEF OnceFields, Unwon
        <4>2. cell[l][1].view[k] <= Len(cell[k]) /\ Len(cell[k]) = 1
          BY <1>3, <4>1 DEF OnceInv, Cells, Unwon, OnceFields
        <4>3. Len(cell'[k]) \in {1, 2}
          BY <1>8 DEF OnceFields
        <4>4. cell[l][1].view[k] \in {1, 2}
          <5>1. cell[l] \in Seq(OnceMessage)
            BY <1>2
          <5>2. cell[l][1] \in OnceMessage
            BY <4>1, <5>1
          <5>. QED  BY <5>2 DEF OnceMessage, OnceView
        <4>5. cell[l][1].view[k] = 1
          BY <4>2, <4>4
        <4>. QED  BY <4>1, <4>3, <4>5, OneFirst, Zenon
      <3>. QED  BY <3>1, <3>2
    <2>. QED  BY <1>8, <2>1, <2>2 DEF OnceInv, Cells, OnceFields
  <1>12. WonBy(t)'
    <2>1. Once!Winners' = {t}
      BY <1>1, <1>3, <1>10 DEF Once!Winners, Unwon, OnceInv, OnceTypes
    <2>2. won'[t] = "none" /\ cellView'[t]["initialized"] = 2
      BY <1>1, <1>5, <1>9 DEF OnceView, OnceFields
    <2>. QED  BY <1>8, <2>1, <2>2 DEF WonBy
  <1>13. JoinedEnded'
    BY <1>1 DEF OnceInv, OnceTypes, JoinedEnded
  <1>. QED  BY <1>1, <1>3, <1>10, <1>11, <1>12, <1>13 DEF OnceInv, OnceTypes

\* The winner stores its value: nobody has joined it yet, so that nobody has to
\* see the store.
LEMMA OnceStores ==
    ASSUME OnceInv, NEW t \in Threads, Once!InitStores(t)
    PROVE  OnceInv'
  <1>1. /\ at[t] = "publishing" /\ won[t] = "none"
        /\ cell' = [cell EXCEPT !["value"] = Append(@, [val |-> t, view |-> cellView[t]])]
        /\ cellView' = [cellView EXCEPT ![t]["value"] = Len(cell["value"]) + 1]
        /\ won' = [won EXCEPT ![t] = "true"]
        /\ at' = [at EXCEPT ![t] = "idle"]
        /\ UNCHANGED joined
    BY DEF Once!InitStores, Once!Memory!StoreRelease, Once!Memory!Put, Once!Goto, OnceInv
  <1>2. /\ cell \in [OnceFields -> Seq(OnceMessage)] /\ cellView \in [Threads -> OnceView]
        /\ won \in [Threads -> {"none", "true", "false"}]
    BY DEF OnceInv, OnceTypes
  <1>3. WonBy(t)
    <2>1. PICK w \in Threads : WonBy(w)
      BY <1>1 DEF OnceInv, Unwon
    <2>2. t \in Once!Winners
      BY <1>1 DEF Once!Winners
    <2>. QED  BY <2>1, <2>2 DEF WonBy
  <1>4. Len(cell["initialized"]) = 2 /\ Len(cell["value"]) = 1
        /\ cellView[t]["initialized"] = 2
    BY <1>1, <1>3 DEF WonBy
  <1>. DEFINE m == [val |-> t, view |-> cellView[t]]
  <1>5. m \in OnceMessage
    BY <1>2 DEF OnceMessage
  <1>6. /\ cell'["initialized"] = cell["initialized"]
        /\ cell'["value"] = Append(cell["value"], m)
        /\ cell' \in [OnceFields -> Seq(OnceMessage)]
    BY <1>1, <1>2, <1>5 DEF OnceFields
  <1>. HIDE DEF m
  <1>7. /\ Len(cell'["initialized"]) = 2 /\ Len(cell'["value"]) = 2
        /\ cell'["value"][1] = cell["value"][1] /\ cell'["value"][2] = m
    BY <1>2, <1>4, <1>5, <1>6 DEF OnceFields
  <1>8. /\ cellView' \in [Threads -> OnceView]
        /\ cellView'[t]["value"] = 2 /\ cellView'[t]["initialized"] = 2
    <2>1. cellView' = [cellView EXCEPT ![t]["value"] = 2]
      BY <1>1, <1>4
    <2>. QED  BY <1>2, <1>4, <2>1 DEF OnceView, OnceFields
  <1>9. OnceTypes' /\ JoinedEnded'
    BY <1>1, <1>6, <1>8 DEF OnceInv, OnceTypes, JoinedEnded
  <1>10. Cells'
    <2>1. \A k \in OnceFields : Len(cell'[k]) = 2
      BY <1>7 DEF OnceFields
    <2>2. \A v \in OnceView : \A k \in OnceFields : v[k] <= Len(cell'[k])
      <3>1. \A x \in {1, 2} : x <= 2
        OBVIOUS
      <3>. QED  BY <2>1, <3>1 DEF OnceView
    <2>3. ASSUME NEW l \in OnceFields, NEW i \in 1 .. Len(cell'[l])
          PROVE  cell'[l][i].view \in OnceView
      <3>1. cell'[l] \in Seq(OnceMessage)
        BY <1>6
      <3>2. cell'[l][i] \in OnceMessage
        BY <2>3, <3>1
      <3>. QED  BY <3>2 DEF OnceMessage
    <2>4. \A u \in Threads, k \in OnceFields : cellView'[u][k] <= Len(cell'[k])
      BY <1>8, <2>2
    <2>5. \A l, k \in OnceFields : \A i \in 1 .. Len(cell'[l]) :
             cell'[l][i].view[k] <= Len(cell'[k])
      BY <2>2, <2>3
    <2>. QED  BY <1>6, <2>1, <2>4, <2>5 DEF OnceInv, Cells
  <1>11. WonBy(t)'
    <2>1. Once!Winners' = {t}
      BY <1>1, <1>2, <1>3, <1>9 DEF WonBy, Once!Winners, OnceInv, OnceTypes
    <2>2. \A u \in Threads : t \notin joined'[u]
      BY <1>1 DEF OnceInv, JoinedEnded
    <2>3. won'[t] = "true" /\ m.val = t
      BY <1>1, <1>2 DEF m
    <2>4. \A k \in OnceFields : cellView'[t][k] = 2
      BY <1>8 DEF OnceFields
    <2>. QED  BY <1>7, <1>8, <2>1, <2>2, <2>3, <2>4 DEF WonBy
  <1>12. \A u \in Threads : at'[u] = "publishing" => won'[u] = "none"
    BY <1>1, <1>2 DEF OnceInv, OnceTypes
  <1>. QED  BY <1>9, <1>10, <1>11, <1>12 DEF OnceInv

LEMMA OnceInvInit == Once!Init => OnceInv
  <1>. SUFFICES ASSUME Once!Init PROVE OnceInv
    OBVIOUS
  <1>. DEFINE initial == [initialized |-> FALSE, value |-> 0]
              m(l) == [val |-> initial[l], view |-> Once!Memory!Nothing]
  <1>1. /\ cell = [l \in OnceFields |-> <<m(l)>>]
        /\ cellView = [t \in Threads |-> Once!Memory!Nothing]
        /\ at = [t \in Threads |-> "idle"] /\ won = [t \in Threads |-> "none"]
        /\ joined = [t \in Threads |-> {}]
    BY DEF Once!Init, Once!Memory!MemoryInit, OnceFields
  <1>2. Once!Memory!Nothing \in OnceView /\ \A k \in OnceFields : Once!Memory!Nothing[k] = 1
    BY DEF Once!Memory!Nothing, OnceView, OnceFields
  <1>3. \A l \in OnceFields : m(l) \in OnceMessage /\ m(l).view = Once!Memory!Nothing
    <2>1. \A l \in OnceFields : initial[l] \in BOOLEAN \cup Threads \cup {0}
      <3>1. initial["initialized"] \in BOOLEAN /\ initial["value"] \in {0}
        OBVIOUS
      <3>. QED  BY <3>1 DEF OnceFields
    <2>. HIDE DEF initial
    <2>. QED  BY <1>2, <2>1 DEF OnceMessage
  <1>4. m("initialized").val = FALSE
    OBVIOUS
  <1>. HIDE DEF m
  <1>5. /\ \A l \in OnceFields : cell[l] = <<m(l)>> /\ Len(cell[l]) = 1 /\ cell[l][1] = m(l)
        /\ cell \in [OnceFields -> Seq(OnceMessage)]
    BY <1>1, <1>3
  <1>6. OnceTypes /\ JoinedEnded
    BY <1>1, <1>2, <1>5 DEF OnceTypes, JoinedEnded
  <1>7. Cells
    BY <1>1, <1>2, <1>3, <1>4, <1>5 DEF Cells, OnceFields
  <1>8. Unwon
    BY <1>1, <1>5 DEF Unwon, OnceFields
  <1>. QED  BY <1>1, <1>6, <1>7, <1>8 DEF OnceInv

LEMMA OnceStep == OnceInv /\ [Once!Next]_Once!vars => OnceInv'
  <1>. SUFFICES ASSUME OnceInv, [Once!Next]_Once!vars PROVE OnceInv'
    OBVIOUS
  <1>0. "initialized" \in OnceFields /\ "value" \in OnceFields
    BY DEF OnceFields
  <1>1. ASSUME NEW t \in Threads, Once!InitLoses(t) PROVE OnceInv'
    <2>1. /\ OnceLooks(t) /\ \E i \in 1 .. Len(cell["initialized"]) : cell["initialized"][i].val = TRUE
      <3>1. Once!Memory!LoadAcquire(t, "initialized", TRUE)
        BY <1>1 DEF Once!InitLoses
      <3>2. PICK x : x = TRUE
        OBVIOUS
      <3>3. Once!Memory!LoadAcquire(t, "initialized", x)
        BY <3>1, <3>2
      <3>4. /\ OnceLooks(t)
            /\ \E i \in 1 .. Len(cell["initialized"]) : cell["initialized"][i].val = x
        BY <1>0, <3>3, OnceAcquires
      <3>. QED  BY <3>2, <3>4
    <2>2. /\ at[t] = "idle" /\ won[t] = "none"
          /\ won' = [won EXCEPT ![t] = "false"] /\ UNCHANGED <<at, joined>>
      BY <1>1 DEF Once!InitLoses
    <2>3. ~Unwon
      <3>1. cell["initialized"][1].val = FALSE
        BY DEF OnceInv, Cells
      <3>. QED  BY <2>1, <3>1 DEF Unwon
    <2>4. OnceTypes' /\ JoinedEnded'
      BY <2>1, <2>2 DEF OnceLooks, OnceInv, OnceTypes, JoinedEnded
    <2>5. \A u \in Threads : won'[u] = won[u] \/ (won[u] = "none" /\ won'[u] = "false" /\ at[u] = "idle")
      BY <2>2 DEF OnceInv, OnceTypes
    <2>. QED  BY <2>1, <2>2, <2>3, <2>4, <2>5, OnceLookKeeps
  <1>2. ASSUME NEW t \in Threads, Once!GetNone(t) \/ Once!GetBegins(t) \/ Once!GetSome(t)
        PROVE  OnceInv'
    <2>1. OnceLooks(t)
      BY <1>0, <1>2, OnceAcquires, OnceRelaxes DEF Once!GetNone, Once!GetBegins, Once!GetSome
    <2>2. /\ UNCHANGED <<won, joined>>
          /\ at[t] \in {"idle", "reading"}
          /\ at' = at \/ \E l \in {"idle", "reading"} : at' = [at EXCEPT ![t] = l]
      BY <1>2 DEF Once!GetNone, Once!GetBegins, Once!GetSome, Once!Goto
    <2>3. OnceTypes' /\ JoinedEnded'
      BY <2>1, <2>2 DEF OnceLooks, OnceInv, OnceTypes, JoinedEnded
    <2>4. \A u \in Threads : at'[u] = "publishing" <=> at[u] = "publishing"
      BY <2>2 DEF OnceInv, OnceTypes
    <2>. QED  BY <2>1, <2>2, <2>3, <2>4, OnceLookKeeps
  <1>3. ASSUME NEW t \in Threads, Once!End(t) PROVE OnceInv'
    <2>1. /\ UNCHANGED <<cell, cellView, won, joined>>
          /\ at[t] = "idle" /\ at' = [at EXCEPT ![t] = "end"]
      BY <1>3 DEF Once!End, Once!Goto
    <2>2. OnceLooks(t)
      <3>1. \A u \in Threads, k \in OnceFields : cellView[u][k] \in {1, 2}
        BY DEF OnceInv, OnceTypes, OnceView
      <3>2. \A u \in Threads, k \in OnceFields : cellView[u][k] <= cellView[u][k]
        BY <3>1
      <3>. QED  BY <2>1, <3>2 DEF OnceLooks, OnceInv, OnceTypes, Cells
    <2>3. OnceTypes' /\ JoinedEnded'
      BY <2>1 DEF OnceInv, OnceTypes, JoinedEnded
    <2>4. \A u \in Threads : at'[u] = "publishing" <=> at[u] = "publishing"
      BY <2>1 DEF OnceInv, OnceTypes
    <2>. QED  BY <2>1, <2>2, <2>3, <2>4, OnceLookKeeps
  <1>4. ASSUME NEW t \in Threads, NEW u \in Threads, Once!Join(t, u) PROVE OnceInv'
    <2>1. OnceLooks(t) /\ \A k \in OnceFields : cellView[u][k] <= cellView'[t][k]
      BY <1>4, OnceJoins DEF Once!Join
    <2>2. /\ at[u] = "end" /\ UNCHANGED <<at, won>>
          /\ joined' = [joined EXCEPT ![t] = @ \cup {u} \cup joined[u]]
      BY <1>4 DEF Once!Join
    <2>3. OnceTypes' /\ JoinedEnded'
      BY <2>1, <2>2 DEF OnceLooks, OnceInv, OnceTypes, JoinedEnded
    <2>4. ASSUME NEW w \in Threads, WonBy(w), won[w] = "true",
                 NEW x \in Threads, w \in joined'[x], w \notin joined[x], NEW k \in OnceFields
          PROVE  cellView'[x][k] = 2
      <3>1. x = t /\ (w = u \/ w \in joined[u])
        BY <2>2, <2>4 DEF OnceInv, OnceTypes
      <3>2. cellView[u][k] = 2
        BY <2>4, <3>1 DEF WonBy
      <3>3. cellView'[t][k] \in {1, 2}
        BY <2>1 DEF OnceLooks, OnceView
      <3>4. 2 <= cellView'[t][k]
        BY <2>1, <3>2
      <3>. QED  BY <3>1, <3>3, <3>4
    <2>. QED  BY <2>1, <2>2, <2>3, <2>4, OnceLookKeeps
  <1>5. CASE UNCHANGED Once!vars
    BY <1>5
    DEF Once!vars, OnceInv, OnceTypes, Cells, JoinedEnded, Unwon, WonBy, Once!Winners
  <1>. QED  BY <1>1, <1>2, <1>3, <1>4, <1>5, OnceWins, OnceStores DEF Once!Next

\* However the threads interleave and however old the messages are that their
\* loads return: one init call wins, none fails before one has won, and who
\* joined the winner finds its value and nothing else.
THEOREM OnceCellHasOneValue == Once!Spec => []OneValue
  <1>1. ASSUME OnceInv PROVE OneValue
    <2>1. Once!OneInit
      <3>1. CASE Unwon
        BY <1>1, <3>1 DEF Unwon, Once!OneInit, Once!Winners
      <3>2. CASE \E w \in Threads : WonBy(w)
        BY <3>2 DEF WonBy, Once!OneInit
      <3>. QED  BY <1>1, <3>1, <3>2 DEF OnceInv
    <2>2. ASSUME NEW t \in Threads, NEW w \in Threads, won[w] = "true", t = w \/ w \in joined[t]
          PROVE  /\ Once!Memory!Readable(t, "initialized") = {TRUE}
                 /\ Once!Memory!Readable(t, "value") = {w}
      <3>1. WonBy(w)
        BY <1>1, <2>2 DEF OnceInv, Unwon, WonBy, Once!Winners
      <3>2. \A k \in OnceFields : cellView[t][k] = 2 /\ Len(cell[k]) = 2
        BY <2>2, <3>1 DEF WonBy, OnceFields
      <3>3. \A k \in OnceFields : Once!Memory!Readable(t, k) = {cell[k][2].val}
        <4>1. 2 .. 2 = {2}
          OBVIOUS
        <4>2. \A k \in OnceFields : Once!Memory!Visible(t, k) = {2}
          BY <3>2, <4>1 DEF Once!Memory!Visible
        <4>. QED  BY <4>2 DEF Once!Memory!Readable
      <3>4. cell["initialized"][2].val = TRUE /\ cell["value"][2].val = w
        BY <1>1, <2>2, <3>1 DEF WonBy, OnceInv, Cells
      <3>. QED  BY <3>3, <3>4 DEF OnceFields
    <2>. QED  BY <2>1, <2>2 DEF OneValue, Once!JoinedGetsValue
  <1>. QED  BY <1>1, OnceInvInit, OnceStep, PTL DEF Once!Spec

-----------------------------------------------------------------------------
(* FlagChannel.  What is stored in a round lies above the messages that all  *)
(* threads had seen when the round began: these are the round's base.        *)

ChannelFields == {"data", "ready"}
ChannelView == [ChannelFields -> Nat \ {0}]
ChannelMessage == [val : BOOLEAN \cup Payloads \cup {0}, view : ChannelView]
ResetPlaces == {"reset ready", "reset data", "spawn"}
ChannelPlaces == {"idle", "flag", "data", "end"} \cup ResetPlaces

ChannelTypes ==
    /\ history \in [ChannelFields -> Seq(ChannelMessage)]
    /\ view \in [Threads -> ChannelView]
    /\ at \in [Threads -> ChannelPlaces]
    /\ produced \in Seq(Payloads)
    /\ DOMAIN consumed = Threads

\* Views, those of threads and those in messages, are of messages there are.
ChannelBounds ==
    /\ \A t \in Threads, k \in ChannelFields : view[t][k] <= Len(history[k])
    /\ \A l, k \in ChannelFields : \A i \in 1 .. Len(history[l]) :
          history[l][i].view[k] <= Len(history[k])

\* During a round: a message above the base holds what the round produced,
\* and a ready message that holds true carries a view of one of those.
Running(base) ==
    /\ \A t \in Threads : at[t] \notin ResetPlaces
    /\ \A t \in Threads, k \in ChannelFields : base[k] <= view[t][k]
    /\ \A i \in 1 .. Len(history["data"]) :
          base["data"] < i => history["data"][i].val \in Channel!Range(produced)
    /\ \A i \in 1 .. Len(history["ready"]) :
          base["ready"] <= i /\ history["ready"][i].val = TRUE =>
              base["data"] < history["ready"][i].view["data"]
    /\ \A t \in Threads :
          at[t] \in {"flag", "data"} => base["data"] < view[t]["data"]

\* Between two rounds: r resets, alone, and sees what it stores.
Resetting(r) ==
    /\ at[r] \in ResetPlaces /\ \A t \in Threads \ {r} : at[t] = "end"
    /\ at[r] \in {"reset data", "spawn"} =>
          /\ view[r]["ready"] = Len(history["ready"])
          /\ history["ready"][Len(history["ready"])].val = FALSE
    /\ at[r] = "spawn" => view[r]["data"] = Len(history["data"])

ChannelInv ==
    /\ ChannelTypes /\ ChannelBounds /\ Channel!ConsumesThisRound
    /\ (\E base \in ChannelView : Running(base)) \/ \E r \in Threads : Resetting(r)

\* A load or a join: t's view grows, and nothing is stored.
ChannelLooks(t) ==
    /\ history' = history
    /\ view' \in [Threads -> ChannelView]
    /\ \A u \in Threads : u # t => view'[u] = view[u]
    /\ \A k \in ChannelFields : view[t][k] <= view'[t][k] /\ view'[t][k] <= Len(history[k])

\* Where every view and every length lie.
LEMMA ChannelViewsNat ==
    ASSUME ChannelTypes
    PROVE  /\ \A t \in Threads, k \in ChannelFields : view[t][k] \in Nat \ {0}
           /\ \A k \in ChannelFields : Len(history[k]) \in Nat
           /\ \A l, k \in ChannelFields : \A i \in 1 .. Len(history[l]) :
                 /\ history[l][i] \in ChannelMessage
                 /\ history[l][i].view \in ChannelView
                 /\ history[l][i].view[k] \in Nat \ {0}
  <1>1. \A l \in ChannelFields : history[l] \in Seq(ChannelMessage)
    BY DEF ChannelTypes
  <1>2. \A l \in ChannelFields : \A i \in 1 .. Len(history[l]) : history[l][i] \in ChannelMessage
    BY <1>1
  <1>. QED  BY <1>1, <1>2 DEF ChannelTypes, ChannelView, ChannelMessage

LEMMA ChannelAcquires ==
    ASSUME ChannelTypes, ChannelBounds, NEW t \in Threads, NEW l \in ChannelFields, NEW x,
           Channel!Memory!LoadAcquire(t, l, x)
    PROVE  /\ ChannelLooks(t)
           /\ \E i \in 1 .. Len(history[l]) :
                 /\ view[t][l] <= i /\ history[l][i].val = x
                 /\ \A k \in ChannelFields : history[l][i].view[k] <= view'[t][k]
  <1>1. PICK i \in Channel!Memory!Visible(t, l) :
          /\ history[l][i].val = x
          /\ view' = [view EXCEPT ![t] =
                Channel!Memory!Merge([view[t] EXCEPT ![l] = i], history[l][i].view)]
          /\ history' = history
    BY DEF Channel!Memory!LoadAcquire
  <1>2. i \in 1 .. Len(history[l]) /\ view[t][l] <= i
    BY <1>1, ChannelViewsNat DEF Channel!Memory!Visible
  <1>. DEFINE known == [view[t] EXCEPT ![l] = i]
              m == history[l][i].view
              new == Channel!Memory!Merge(known, m)
  <1>3. m \in ChannelView /\ \A k \in ChannelFields : m[k] \in Nat \ {0} /\ m[k] <= Len(history[k])
    BY <1>2, ChannelViewsNat DEF ChannelBounds
  <1>4. view[t] \in ChannelView /\ view \in [Threads -> ChannelView]
    BY DEF ChannelTypes
  <1>5. \A k \in ChannelFields :
          /\ known[k] \in Nat \ {0} /\ view[t][k] <= known[k] /\ known[k] <= Len(history[k])
    BY <1>2, <1>4, ChannelViewsNat DEF ChannelBounds, ChannelView
  <1>. HIDE DEF known, m
  <1>6. /\ new \in ChannelView
        /\ \A k \in ChannelFields :
              view[t][k] <= new[k] /\ m[k] <= new[k] /\ new[k] <= Len(history[k])
    <2>1. new = [k \in ChannelFields |-> Channel!Memory!Later(known[k], m[k])]
      BY DEF Channel!Memory!Merge, ChannelFields
    <2>. HIDE DEF new
    <2>. QED  BY <1>3, <1>5, <2>1, ChannelViewsNat DEF Channel!Memory!Later, ChannelView
  <1>7. view' = [view EXCEPT ![t] = new] /\ history' = history
    BY <1>1 DEF known, m
  <1>. HIDE DEF new
  <1>8. ChannelLooks(t)
    BY <1>4, <1>6, <1>7 DEF ChannelLooks
  <1>9. \A k \in ChannelFields : history[l][i].view[k] <= view'[t][k]
    BY <1>4, <1>6, <1>7 DEF m
  <1>. QED  BY <1>1, <1>2, <1>8, <1>9

LEMMA ChannelRelaxes ==
    ASSUME ChannelTypes, ChannelBounds, NEW t \in Threads, NEW l \in ChannelFields, NEW x,
           Channel!Memory!LoadRelaxed(t, l, x)
    PROVE  /\ ChannelLooks(t)
           /\ \E i \in 1 .. Len(history[l]) : view[t][l] <= i /\ history[l][i].val = x
  <1>1. PICK i \in Channel!Memory!Visible(t, l) :
          /\ history[l][i].val = x
          /\ view' = [view EXCEPT ![t][l] = i] /\ history' = history
    BY DEF Channel!Memory!LoadRelaxed
  <1>2. i \in 1 .. Len(history[l]) /\ view[t][l] <= i
    BY <1>1, ChannelViewsNat DEF Channel!Memory!Visible
  <1>3. view \in [Threads -> ChannelView]
    BY DEF ChannelTypes
  <1>4. ChannelLooks(t)
    BY <1>1, <1>2, <1>3, ChannelViewsNat DEF ChannelLooks, ChannelBounds, ChannelView
  <1>. QED  BY <1>1, <1>2, <1>4

\* A store appends its message, and its thread has then seen it.
LEMMA ChannelPuts ==
    ASSUME ChannelTypes, ChannelBounds, NEW t \in Threads, NEW l \in ChannelFields,
           NEW x \in BOOLEAN \cup Payloads \cup {0}, NEW published \in ChannelView,
           \A k \in ChannelFields : published[k] <= Len(history[k]),
           Channel!Memory!Put(t, l, x, published)
    PROVE  /\ history' \in [ChannelFields -> Seq(ChannelMessage)]
           /\ view' \in [Threads -> ChannelView]
           /\ ChannelBounds'
           /\ view'[t][l] = Len(history[l]) + 1 /\ Len(history'[l]) = Len(history[l]) + 1
           /\ \A u \in Threads, k \in ChannelFields :
                 u # t \/ k # l => view'[u][k] = view[u][k]
           /\ \A k \in ChannelFields : k # l => history'[k] = history[k]
           /\ \A i \in 1 .. Len(history[l]) : history'[l][i] = history[l][i]
           /\ history'[l][Len(history[l]) + 1] = [val |-> x, view |-> published]
  <1>. DEFINE n == Len(history[l]) + 1
              m == [val |-> x, view |-> published]
  <1>1. /\ history' = [history EXCEPT ![l] = Append(@, m)]
        /\ view' = [view EXCEPT ![t][l] = n]
    BY DEF Channel!Memory!Put
  <1>2. m \in ChannelMessage
    BY DEF ChannelMessage
  <1>3. /\ history \in [ChannelFields -> Seq(ChannelMessage)]
        /\ view \in [Threads -> ChannelView]
        /\ history[l] \in Seq(ChannelMessage) /\ n \in Nat \ {0}
    BY ChannelViewsNat DEF ChannelTypes
  <1>4. m.view = published
    OBVIOUS
  <1>. HIDE DEF m
  <1>5. /\ history'[l] = Append(history[l], m)
        /\ \A k \in ChannelFields : k # l => history'[k] = history[k]
        /\ history' \in [ChannelFields -> Seq(ChannelMessage)]
    BY <1>1, <1>2, <1>3
  <1>6. /\ Len(history'[l]) = n /\ history'[l][n] = m
        /\ \A i \in 1 .. Len(history[l]) : history'[l][i] = history[l][i]
    BY <1>2, <1>3, <1>5
  <1>7. /\ view' \in [Threads -> ChannelView] /\ view'[t][l] = n
        /\ \A u \in Threads, k \in ChannelFields : u # t \/ k # l => view'[u][k] = view[u][k]
    BY <1>1, <1>3 DEF ChannelView
  <1>8. \A k \in ChannelFields :
           /\ Len(history[k]) \in Nat /\ Len(history'[k]) \in Nat
           /\ Len(history[k]) <= Len(history'[k])
    BY <1>5, <1>6, ChannelViewsNat
  <1>9. ChannelBounds'
    <2>1. ASSUME NEW u \in Threads, NEW k \in ChannelFields
          PROVE  view'[u][k] <= Len(history'[k])
      BY <1>6, <1>7, <1>8, ChannelViewsNat DEF ChannelBounds
    <2>2. ASSUME NEW j \in ChannelFields, NEW k \in ChannelFields,
                 NEW i \in 1 .. Len(history'[j])
          PROVE  history'[j][i].view[k] <= Len(history'[k])
      <3>1. CASE j = l /\ i = n
        <4>1. history'[j][i].view[k] = published[k] /\ published[k] \in Nat
          BY <1>4, <1>6, <3>1 DEF ChannelView
        <4>. QED  BY <1>8, <4>1
      <3>2. CASE ~(j = l /\ i = n)
        <4>1. i \in 1 .. Len(history[j]) /\ history'[j][i] = history[j][i]
          <5>1. CASE j = l
            <6>1. i \in 1 .. n /\ i # n
              BY <1>6, <2>2, <3>2, <5>1
            <6>2. i \in 1 .. Len(history[l])
              BY <6>1, ChannelViewsNat
            <6>. QED  BY <1>6, <5>1, <6>2
          <5>2. CASE j # l
            BY <1>5, <2>2, <5>2
          <5>. QED  BY <5>1, <5>2
        <4>2. history[j][i].view[k] \in Nat /\ history[j][i].view[k] <= Len(history[k])
          BY <4>1, ChannelViewsNat DEF ChannelBounds
        <4>. QED  BY <1>8, <4>1, <4>2
      <3>. QED  BY <3>1, <3>2
    <2>. QED  BY <2>1, <2>2 DEF ChannelBounds
  <1>. QED  BY <1>5, <1>6, <1>7, <1>9 DEF m

\* Who joins every thread takes over the greatest of their views.
LEMMA ChannelJoins ==
    ASSUME ChannelTypes, ChannelBounds, NEW t \in Threads,
           Channel!Memory!Synchronize(t, Threads)
    PROVE  ChannelLooks(t)
  <1>. DEFINE Seen(k) == {view[u][k] : u \in Threads \cup {t}}
              new == [k \in ChannelFields |-> Channel!Memory!Max(Seen(k))]
  <1>1. view' = [view EXCEPT ![t] = new] /\ history' = history
    BY DEF Channel!Memory!Synchronize, ChannelFields
  <1>2. ASSUME NEW k \in ChannelFields
        PROVE  new[k] \in Nat \ {0} /\ view[t][k] <= new[k] /\ new[k] <= Len(history[k])
    <2>1. /\ Seen(k) \subseteq Nat \ {0} /\ view[t][k] \in Seen(k)
          /\ Len(history[k]) \in Nat /\ \A x \in Seen(k) : x <= Len(history[k])
      BY ChannelViewsNat DEF ChannelBounds
    <2>. HIDE DEF Seen
    <2>2. \E x \in Seen(k) : \A y \in Seen(k) : y <= x
      BY <2>1, GreatestNat
    <2>3. \E x \in Seen(k) : \A y \in Seen(k) : x >= y
      BY <2>1, <2>2
    <2>4. new[k] \in Seen(k) /\ \A y \in Seen(k) : new[k] >= y
      BY <2>3 DEF Channel!Memory!Max
    <2>. HIDE DEF new
    <2>. QED  BY <2>1, <2>4
  <1>3. new \in ChannelView
    <2>1. new = [k \in ChannelFields |-> new[k]]
      OBVIOUS
    <2>. HIDE DEF new
    <2>. QED  BY <1>2, <2>1 DEF ChannelView
  <1>4. view \in [Threads -> ChannelView]
    BY DEF ChannelTypes
  <1>. HIDE DEF new
  <1>. QED  BY <1>1, <1>2, <1>3, <1>4 DEF ChannelLooks

LEMMA ChannelLooksGrow ==
    ASSUME ChannelTypes, ChannelBounds, NEW t \in Threads, ChannelLooks(t)
    PROVE  /\ ChannelBounds'
           /\ \A u \in Threads, k \in ChannelFields :
                 /\ view[u][k] \in Nat \ {0} /\ view'[u][k] \in Nat \ {0}
                 /\ view[u][k] <= view'[u][k]
  <1>1. \A u \in Threads, k \in ChannelFields :
           view[u][k] \in Nat \ {0} /\ view'[u][k] \in Nat \ {0}
    BY DEF ChannelTypes, ChannelLooks, ChannelView
  <1>2. ASSUME NEW u \in Threads, NEW k \in ChannelFields
        PROVE  view[u][k] <= view'[u][k] /\ view'[u][k] <= Len(history[k])
    BY <1>1 DEF ChannelLooks, ChannelBounds
  <1>. QED  BY <1>1, <1>2 DEF ChannelLooks, ChannelBounds

\* A round goes on while nothing is stored and no value is taken up that it
\* has not produced.
LEMMA RoundGoesOn ==
    ASSUME ChannelTypes, ChannelBounds, NEW base \in ChannelView, Running(base),
           NEW t \in Threads, ChannelLooks(t), produced' = produced,
           \A u \in Threads : at'[u] \notin ResetPlaces,
           \A u \in Threads : at'[u] \in {"flag", "data"} =>
               at[u] \in {"flag", "data"} \/ base["data"] < view'[u]["data"]
    PROVE  Running(base)'
  <1>1. \A k \in ChannelFields : base[k] \in Nat \ {0}
    BY DEF ChannelView
  <1>2. \A u \in Threads, k \in ChannelFields : base[k] <= view'[u][k]
    BY <1>1, ChannelLooksGrow DEF Running
  <1>3. ASSUME NEW u \in Threads, at'[u] \in {"flag", "data"}
        PROVE  base["data"] < view'[u]["data"]
    <2>1. CASE at[u] \in {"flag", "data"}
      BY <1>1, <2>1, ChannelLooksGrow DEF Running, ChannelFields
    <2>. QED  BY <1>3, <2>1
  <1>. QED  BY <1>2, <1>3 DEF Running, ChannelLooks

\* A thread that is not "end" and not resetting runs in a round.
LEMMA InARound ==
    ASSUME ChannelInv, NEW t \in Threads, at[t] \notin ResetPlaces, at[t] # "end"
    PROVE  \E base \in ChannelView : Running(base)
  BY DEF ChannelInv, Resetting

LEMMA ChannelNothing ==
    ASSUME ChannelTypes, ChannelBounds
    PROVE  /\ Channel!Memory!Nothing \in ChannelView
           /\ \A k \in ChannelFields : Channel!Memory!Nothing[k] <= Len(history[k])
  <1>1. \A k \in ChannelFields : Channel!Memory!Nothing[k] = 1
    BY DEF Channel!Memory!Nothing, ChannelFields
  <1>2. \A k \in ChannelFields : 1 <= Len(history[k])
    BY ChannelAssumption, ChannelViewsNat DEF ChannelBounds
  <1>. QED  BY <1>1, <1>2 DEF Channel!Memory!Nothing, ChannelView, ChannelFields

LEMMA ChannelProduces ==
    ASSUME ChannelInv, NEW sent \in Payloads, Channel!ProduceData(sent)
    PROVE  ChannelInv'
  <1>1. /\ at[Producer] = "idle" /\ Producer \in Threads
        /\ Channel!Memory!Put(Producer, "data", sent, Channel!Memory!Nothing)
        /\ produced' = Append(produced, sent)
        /\ at' = [at EXCEPT ![Producer] = "flag"]
        /\ consumed' = consumed
    BY ChannelAssumption DEF Channel!ProduceData, Channel!Memory!StoreRelaxed, Channel!Goto
  <1>2. ChannelTypes /\ ChannelBounds /\ "data" \in ChannelFields /\ "ready" \in ChannelFields
    BY DEF ChannelInv, ChannelFields
  <1>3. PICK base \in ChannelView : Running(base)
    BY <1>1, InARound DEF ResetPlaces
  <1>. DEFINE n == Len(history["data"])
              m == [val |-> sent, view |-> Channel!Memory!Nothing]
  <1>4. /\ history' \in [ChannelFields -> Seq(ChannelMessage)]
        /\ view' \in [Threads -> ChannelView] /\ ChannelBounds'
        /\ view'[Producer]["data"] = n + 1 /\ Len(history'["data"]) = n + 1
        /\ \A u \in Threads, k \in ChannelFields :
              u # Producer \/ k # "data" => view'[u][k] = view[u][k]
        /\ history'["ready"] = history["ready"]
        /\ \A i \in 1 .. n : history'["data"][i] = history["data"][i]
        /\ history'["data"][n + 1] = m
    BY <1>1, <1>2, ChannelPuts, ChannelNothing
  <1>5. m.val = sent
    OBVIOUS
  <1>. HIDE DEF m
  <1>6. /\ produced \in Seq(Payloads) /\ at \in [Threads -> ChannelPlaces]
        /\ \A k \in ChannelFields : base[k] \in Nat \ {0} /\ base[k] <= view[Producer][k]
        /\ n \in Nat /\ view[Producer]["data"] \in Nat /\ view[Producer]["data"] <= n
    BY <1>1, <1>2, <1>3, ChannelViewsNat DEF ChannelTypes, ChannelView, Running, ChannelBounds
  <1>7. /\ produced' \in Seq(Payloads)
        /\ \A x : x \in Channel!Range(produced) => x \in Channel!Range(produced')
        /\ sent \in Channel!Range(produced')
    <2>1. /\ Len(produced') = Len(produced) + 1 /\ produced' \in Seq(Payloads)
          /\ produced'[Len(produced) + 1] = sent
          /\ \A i \in 1 .. Len(produced) : produced'[i] = produced[i]
      BY <1>1, <1>6
    <2>2. DOMAIN produced = 1 .. Len(produced) /\ DOMAIN produced' = 1 .. Len(produced')
      BY <1>6, <2>1
    <2>3. Len(produced) \in Nat
      BY <1>6
    <2>4. \A i \in 1 .. Len(produced) : i \in 1 .. Len(produced')
      BY <2>1, <2>3
    <2>5. Len(produced) + 1 \in 1 .. Len(produced')
      BY <2>1, <2>3
    <2>. QED  BY <2>1, <2>2, <2>4, <2>5 DEF Channel!Range
  <1>8. ChannelTypes'
    BY <1>1, <1>2, <1>4, <1>6, <1>7 DEF ChannelTypes, ChannelPlaces
  <1>9. Channel!ConsumesThisRound'
    BY <1>1, <1>6, <1>7 DEF ChannelInv, Channel!ConsumesThisRound, Channel!Consumers
  <1>10. Running(base)'
    <2>1. \A u \in Threads : at'[u] \notin ResetPlaces
      BY <1>1, <1>3, <1>6 DEF Running, ResetPlaces
    <2>2. \A u \in Threads, k \in ChannelFields : base[k] <= view'[u][k]
      BY <1>3, <1>4, <1>6 DEF Running
    <2>3. ASSUME NEW i \in 1 .. Len(history'["data"]), base["data"] < i
          PROVE  history'["data"][i].val \in Channel!Range(produced')
      <3>1. CASE i = n + 1
        BY <1>4, <1>5, <1>7, <3>1
      <3>2. CASE i # n + 1
        <4>1. i \in 1 .. n
          BY <1>4, <1>6, <3>2
        <4>. QED  BY <1>3, <1>4, <1>7, <2>3, <4>1 DEF Running
      <3>. QED  BY <3>1, <3>2
    <2>4. \A u \in Threads : at'[u] \in {"flag", "data"} => base["data"] < view'[u]["data"]
      <3>1. base["data"] < n + 1
        BY <1>2, <1>6
      <3>. QED  BY <1>1, <1>2, <1>3, <1>4, <1>6, <3>1 DEF Running
    <2>. QED  BY <1>3, <1>4, <2>1, <2>2, <2>3, <2>4 DEF Running
  <1>. QED  BY <1>4, <1>8, <1>9, <1>10 DEF ChannelInv

LEMMA ChannelPublishes ==
    ASSUME ChannelInv, Channel!ProduceFlag
    PROVE  ChannelInv'
  <1>0. PICK x : x = TRUE
    OBVIOUS
  <1>1. /\ at[Producer] = "flag" /\ Producer \in Threads
        /\ Channel!Memory!Put(Producer, "ready", x, view[Producer])
        /\ at' = [at EXCEPT ![Producer] = "idle"]
        /\ consumed' = consumed /\ produced' = produced
    BY <1>0, ChannelAssumption
    DEF Channel!ProduceFlag, Channel!Publish, Channel!Memory!StoreRelease, Channel!Goto
  <1>2. ChannelTypes /\ ChannelBounds /\ "data" \in ChannelFields /\ "ready" \in ChannelFields
    BY DEF ChannelInv, ChannelFields
  <1>3. PICK base \in ChannelView : Running(base)
    BY <1>1, InARound DEF ResetPlaces
  <1>. DEFINE n == Len(history["ready"])
              m == [val |-> x, view |-> view[Producer]]
  <1>4. /\ history' \in [ChannelFields -> Seq(ChannelMessage)]
        /\ view' \in [Threads -> ChannelView] /\ ChannelBounds'
        /\ view'[Producer]["ready"] = n + 1 /\ Len(history'["ready"]) = n + 1
        /\ \A u \in Threads, k \in ChannelFields :
              u # Producer \/ k # "ready" => view'[u][k] = view[u][k]
        /\ history'["data"] = history["data"]
        /\ \A i \in 1 .. n : history'["ready"][i] = history["ready"][i]
        /\ history'["ready"][n + 1] = m
    <2>1. x \in BOOLEAN \cup Payloads \cup {0}
      BY <1>0
    <2>2. view[Producer] \in ChannelView /\ \A k \in ChannelFields : view[Producer][k] <= Len(history[k])
      BY <1>1, <1>2 DEF ChannelTypes, ChannelBounds
    <2>. QED  BY <1>1, <1>2, <2>1, <2>2, ChannelPuts
  <1>5. m.view["data"] = view[Producer]["data"]
    OBVIOUS
  <1>. HIDE DEF m
  <1>6. /\ at \in [Threads -> ChannelPlaces] /\ n \in Nat
        /\ \A u \in Threads, k \in ChannelFields :
              base[k] \in Nat \ {0} /\ base[k] <= view[u][k]
        /\ view[Producer]["ready"] \in Nat /\ view[Producer]["ready"] <= n
        /\ base["data"] < view[Producer]["data"]
    BY <1>1, <1>2, <1>3, ChannelViewsNat DEF ChannelTypes, ChannelView, Running, ChannelBounds
  <1>7. ChannelTypes'
    BY <1>1, <1>2, <1>4, <1>6 DEF ChannelTypes, ChannelPlaces
  <1>8. Channel!ConsumesThisRound'
    BY <1>1, <1>6 DEF ChannelInv, Channel!ConsumesThisRound, Channel!Consumers
  <1>9. Running(base)'
    <2>1. \A u \in Threads : at'[u] \notin ResetPlaces
      BY <1>1, <1>3, <1>6 DEF Running, ResetPlaces
    <2>2. \A u \in Threads, k \in ChannelFields : base[k] <= view'[u][k]
      <3>1. base["ready"] <= n + 1
        BY <1>1, <1>2, <1>6
      <3>. QED  BY <1>4, <1>6, <3>1
    <2>3. ASSUME NEW i \in 1 .. Len(history'["ready"]),
                 base["ready"] <= i, history'["ready"][i].val = TRUE
          PROVE  base["data"] < history'["ready"][i].view["data"]
      <3>1. CASE i = n + 1
        BY <1>4, <1>5, <1>6, <3>1
      <3>2. CASE i # n + 1
        <4>1. i \in 1 .. n
          BY <1>4, <1>6, <3>2
        <4>2. history'["ready"][i] = history["ready"][i]
          BY <1>4, <4>1
        <4>. QED  BY <1>3, <2>3, <4>1, <4>2 DEF Running
      <3>. QED  BY <3>1, <3>2
    <2>4. \A u \in Threads : at'[u] \in {"flag", "data"} => base["data"] < view'[u]["data"]
      BY <1>1, <1>2, <1>3, <1>4, <1>6 DEF Running
    <2>. QED  BY <1>1, <1>3, <1>4, <2>1, <2>2, <2>3, <2>4 DEF Running
  <1>. QED  BY <1>4, <1>7, <1>8, <1>9 DEF ChannelInv

\* The producer's end, and the loads of a consumer.
LEMMA ChannelReads ==
    ASSUME ChannelInv, NEW t \in Threads,
           \/ Channel!ProducerEnds /\ t = Producer
           \/ Channel!Spin(t) \/ Channel!SeesReady(t) \/ Channel!ConsumeData(t)
    PROVE  ChannelInv'
  <1>1. ChannelTypes /\ ChannelBounds /\ "data" \in ChannelFields /\ "ready" \in ChannelFields
    BY DEF ChannelInv, ChannelFields
  <1>2. at[t] \in {"idle", "data"} /\ produced' = produced
    BY DEF Channel!ProducerEnds, Channel!Spin, Channel!SeesReady, Channel!ConsumeData
  <1>3. PICK base \in ChannelView : Running(base)
    BY <1>2, InARound DEF ResetPlaces
  <1>4. /\ at \in [Threads -> ChannelPlaces] /\ view \in [Threads -> ChannelView]
        /\ DOMAIN consumed = Threads
        /\ \A k \in ChannelFields : base[k] \in Nat \ {0}
        /\ \A k \in ChannelFields : view[t][k] \in Nat \ {0} /\ base[k] <= view[t][k]
    BY <1>1, <1>3, ChannelViewsNat DEF ChannelTypes, ChannelView, Running
  <1>5. \A u \in Threads : at[u] \notin ResetPlaces
    BY <1>3 DEF Running
  <1>6. SUFFICES
          /\ ChannelLooks(t)
          /\ \/ at' = at
             \/ at' = [at EXCEPT ![t] = "end"]
             \/ at' = [at EXCEPT ![t] = "data"] /\ base["data"] < view'[t]["data"]
          /\ DOMAIN consumed' = Threads
          /\ Channel!ConsumesThisRound'
    <2>1. ChannelTypes'
      BY <1>1, <1>2, <1>4, <1>6 DEF ChannelTypes, ChannelLooks, ChannelPlaces
    <2>2. \A u \in Threads : at'[u] \notin ResetPlaces
      BY <1>4, <1>5, <1>6 DEF ResetPlaces
    <2>3. \A u \in Threads : at'[u] \in {"flag", "data"} =>
             at[u] \in {"flag", "data"} \/ base["data"] < view'[u]["data"]
      BY <1>4, <1>6
    <2>4. Running(base)'
      BY <1>1, <1>2, <1>3, <1>6, <2>2, <2>3, RoundGoesOn
    <2>. QED  BY <1>1, <1>6, <2>1, <2>4, ChannelLooksGrow DEF ChannelInv
  <1>7. CASE Channel!ProducerEnds /\ t = Producer
    <2>1. ChannelLooks(t)
      <3>1. \A k \in ChannelFields : view[t][k] <= view[t][k]
        BY <1>4
      <3>. QED  BY <1>1, <1>4, <1>7, <3>1 DEF Channel!ProducerEnds, ChannelLooks, ChannelBounds
    <2>2. at' = [at EXCEPT ![t] = "end"] /\ consumed' = consumed
      BY <1>7 DEF Channel!ProducerEnds, Channel!Goto
    <2>3. Channel!ConsumesThisRound'
      BY <1>2, <1>4, <1>7, <2>2 DEF ChannelInv, Channel!ConsumesThisRound, Channel!Consumers
    <2>. QED  BY <1>4, <2>1, <2>2, <2>3
  <1>8. CASE Channel!Spin(t)
    <2>1. Channel!Memory!LoadAcquire(t, "ready", FALSE) /\ UNCHANGED <<at, consumed>>
      BY <1>8 DEF Channel!Spin
    <2>2. ChannelLooks(t)
      BY <1>1, <2>1, ChannelAcquires
    <2>. QED  BY <1>2, <1>4, <2>1, <2>2
         DEF ChannelInv, Channel!ConsumesThisRound, Channel!Consumers
  <1>9. CASE Channel!SeesReady(t)
    <2>0. PICK x : x = TRUE
      OBVIOUS
    <2>1. /\ Channel!Memory!LoadAcquire(t, "ready", x)
          /\ at' = [at EXCEPT ![t] = "data"] /\ consumed' = consumed
      BY <1>9, <2>0 DEF Channel!SeesReady, Channel!Goto
    <2>2. /\ ChannelLooks(t)
          /\ \E i \in 1 .. Len(history["ready"]) :
                /\ view[t]["ready"] <= i /\ history["ready"][i].val = x
                /\ \A k \in ChannelFields : history["ready"][i].view[k] <= view'[t][k]
      BY <1>1, <2>1, ChannelAcquires
    <2>3. PICK i \in 1 .. Len(history["ready"]) :
             /\ view[t]["ready"] <= i /\ history["ready"][i].val = x
             /\ \A k \in ChannelFields : history["ready"][i].view[k] <= view'[t][k]
      BY <2>2
    <2>4. base["ready"] <= i
      BY <1>1, <1>4, <2>3, ChannelViewsNat
    <2>5. base["data"] < history["ready"][i].view["data"]
      BY <1>3, <2>0, <2>3, <2>4 DEF Running
    <2>6. /\ history["ready"][i].view["data"] <= view'[t]["data"]
          /\ history["ready"][i].view["data"] \in Nat /\ view'[t]["data"] \in Nat
      BY <1>1, <2>2, <2>3, ChannelLooksGrow, ChannelViewsNat
    <2>7. base["data"] < view'[t]["data"]
      BY <1>1, <1>4, <2>5, <2>6
    <2>8. Channel!ConsumesThisRound'
      BY <1>2, <1>4, <2>1 DEF ChannelInv, Channel!ConsumesThisRound, Channel!Consumers
    <2>. QED  BY <1>4, <2>1, <2>2, <2>7, <2>8
  <1>10. CASE Channel!ConsumeData(t)
    <2>1. PICK x : /\ Channel!Memory!LoadRelaxed(t, "data", x)
                   /\ consumed' = [consumed EXCEPT ![t] = x]
      BY <1>10 DEF Channel!ConsumeData
    <2>2. at[t] = "data" /\ at' = [at EXCEPT ![t] = "end"]
      BY <1>10 DEF Channel!ConsumeData, Channel!Goto
    <2>3. /\ ChannelLooks(t)
          /\ \E i \in 1 .. Len(history["data"]) :
                view[t]["data"] <= i /\ history["data"][i].val = x
      BY <1>1, <2>1, ChannelRelaxes
    <2>4. PICK i \in 1 .. Len(history["data"]) :
             view[t]["data"] <= i /\ history["data"][i].val = x
      BY <2>3
    <2>5. base["data"] < view[t]["data"]
      BY <1>3, <2>2 DEF Running
    <2>6. base["data"] < i
      BY <1>1, <1>4, <2>4, <2>5, ChannelViewsNat
    <2>7. x \in Channel!Range(produced)
      BY <1>3, <2>4, <2>6 DEF Running
    <2>8. Channel!ConsumesThisRound'
      BY <1>2, <1>4, <2>1, <2>2, <2>7
      DEF ChannelInv, Channel!ConsumesThisRound, Channel!Consumers
    <2>. QED  BY <1>4, <2>1, <2>2, <2>3, <2>8
  <1>. QED  BY <1>7, <1>8, <1>9, <1>10

LEMMA ChannelJoinsAll ==
    ASSUME ChannelInv, NEW t \in Threads, Channel!Join(t)
    PROVE  ChannelInv'
  <1>1. /\ \A u \in Threads : at[u] = "end"
        /\ Channel!Memory!Synchronize(t, Threads)
        /\ at' = [at EXCEPT ![t] = "reset ready"] /\ UNCHANGED <<produced, consumed>>
    BY DEF Channel!Join, Channel!Goto
  <1>2. ChannelTypes /\ ChannelBounds /\ at \in [Threads -> ChannelPlaces]
    BY DEF ChannelInv, ChannelTypes
  <1>3. ChannelLooks(t) /\ ChannelBounds'
    BY <1>1, <1>2, ChannelJoins, ChannelLooksGrow
  <1>4. ChannelTypes'
    BY <1>1, <1>2, <1>3 DEF ChannelTypes, ChannelLooks, ChannelPlaces, ResetPlaces
  <1>5. Resetting(t)'
    BY <1>1, <1>2 DEF Resetting, ResetPlaces
  <1>6. Channel!ConsumesThisRound'
    BY <1>1, <1>2 DEF ChannelInv, Channel!ConsumesThisRound, Channel!Consumers
  <1>. QED  BY <1>3, <1>4, <1>5, <1>6 DEF ChannelInv

\* The resetting thread's stores; nobody else moves.
LEMMA ChannelResets ==
    ASSUME ChannelInv, NEW t \in Threads, Channel!ResetReady(t) \/ Channel!ResetData(t)
    PROVE  ChannelInv'
  <1>1. ChannelTypes /\ ChannelBounds /\ "data" \in ChannelFields /\ "ready" \in ChannelFields
        /\ at \in [Threads -> ChannelPlaces]
    BY DEF ChannelInv, ChannelFields, ChannelTypes
  <1>2. Resetting(t) /\ UNCHANGED <<produced, consumed>>
    <2>1. at[t] \in ResetPlaces /\ UNCHANGED <<produced, consumed>>
      BY DEF Channel!ResetReady, Channel!ResetData, ResetPlaces
    <2>2. at[t] # "end"
      BY <2>1 DEF ResetPlaces
    <2>. QED  BY <2>1, <2>2 DEF ChannelInv, Running, Resetting
  <1>3. CASE Channel!ResetReady(t)
    <2>0. PICK x : x = FALSE
      OBVIOUS
    <2>1. /\ Channel!Memory!Put(t, "ready", x, Channel!Memory!Nothing)
          /\ at' = [at EXCEPT ![t] = "reset data"]
      BY <1>3, <2>0 DEF Channel!ResetReady, Channel!Memory!StoreRelaxed, Channel!Goto
    <2>. DEFINE n == Len(history["ready"])
                m == [val |-> x, view |-> Channel!Memory!Nothing]
    <2>2. /\ history' \in [ChannelFields -> Seq(ChannelMessage)]
          /\ view' \in [Threads -> ChannelView] /\ ChannelBounds'
          /\ view'[t]["ready"] = n + 1 /\ Len(history'["ready"]) = n + 1
          /\ history'["ready"][n + 1] = m
      <3>1. x \in BOOLEAN \cup Payloads \cup {0}
        BY <2>0
      <3>. QED  BY <1>1, <2>1, <3>1, ChannelPuts, ChannelNothing
    <2>3. m.val = FALSE
      BY <2>0
    <2>. HIDE DEF m
    <2>4. Resetting(t)'
      BY <1>1, <1>2, <2>1, <2>2, <2>3 DEF Resetting, ResetPlaces
    <2>5. ChannelTypes'
      BY <1>1, <1>2, <2>1, <2>2 DEF ChannelTypes, ChannelPlaces, ResetPlaces
    <2>6. Channel!ConsumesThisRound'
      BY <1>1, <1>2, <2>1 DEF ChannelInv, Channel!ConsumesThisRound, Channel!Consumers
    <2>. QED  BY <2>2, <2>4, <2>5, <2>6 DEF ChannelInv
  <1>4. CASE Channel!ResetData(t)
    <2>1. /\ Channel!Memory!Put(t, "data", 0, Channel!Memory!Nothing)
          /\ at[t] = "reset data" /\ at' = [at EXCEPT ![t] = "spawn"]
      BY <1>4 DEF Channel!ResetData, Channel!Memory!StoreRelaxed, Channel!Goto
    <2>2. /\ history' \in [ChannelFields -> Seq(ChannelMessage)]
          /\ view' \in [Threads -> ChannelView] /\ ChannelBounds'
          /\ view'[t]["data"] = Len(history["data"]) + 1
          /\ Len(history'["data"]) = Len(history["data"]) + 1
          /\ view'[t]["ready"] = view[t]["ready"] /\ history'["ready"] = history["ready"]
      <3>1. PICK x : x = 0
        OBVIOUS
      <3>2. x \in BOOLEAN \cup Payloads \cup {0} /\ Channel!Memory!Put(t, "data", x, Channel!Memory!Nothing)
        BY <2>1, <3>1
      <3>3. /\ history' \in [ChannelFields -> Seq(ChannelMessage)]
            /\ view' \in [Threads -> ChannelView] /\ ChannelBounds'
            /\ view'[t]["data"] = Len(history["data"]) + 1
            /\ Len(history'["data"]) = Len(history["data"]) + 1
            /\ \A u \in Threads, k \in ChannelFields : u # t \/ k # "data" => view'[u][k] = view[u][k]
            /\ \A k \in ChannelFields : k # "data" => history'[k] = history[k]
        BY <1>1, <3>2, ChannelPuts, ChannelNothing
      <3>4. "ready" # "data"
        OBVIOUS
      <3>. QED  BY <1>1, <3>3, <3>4
    <2>3. Resetting(t)'
      BY <1>1, <1>2, <2>1, <2>2 DEF Resetting, ResetPlaces
    <2>4. ChannelTypes'
      BY <1>1, <1>2, <2>1, <2>2 DEF ChannelTypes, ChannelPlaces, ResetPlaces
    <2>5. Channel!ConsumesThisRound'
      BY <1>1, <1>2, <2>1 DEF ChannelInv, Channel!ConsumesThisRound, Channel!Consumers
    <2>. QED  BY <2>2, <2>3, <2>4, <2>5 DEF ChannelInv
  <1>. QED  BY <1>3, <1>4

\* What the spawning thread has seen, all there is, is the next round's base.
LEMMA ChannelSpawns ==
    ASSUME ChannelInv, NEW t \in Threads, Channel!Spawn(t)
    PROVE  ChannelInv'
  <1>1. /\ at[t] = "spawn" /\ view' = [u \in Threads |-> view[t]]
        /\ at' = [u \in Threads |-> "idle"] /\ produced' = << >>
        /\ consumed' = [u \in Threads |-> 0] /\ history' = history
    BY DEF Channel!Spawn
  <1>2. ChannelTypes /\ ChannelBounds
    BY DEF ChannelInv
  <1>3. /\ \A k \in ChannelFields : view[t][k] = Len(history[k])
        /\ history["ready"][Len(history["ready"])].val = FALSE
    <2>1. Resetting(t)
      BY <1>1 DEF ChannelInv, Running, Resetting, ResetPlaces
    <2>. QED  BY <1>1, <2>1 DEF Resetting, ChannelFields
  <1>4. PICK base \in ChannelView : base = view[t] /\ \A k \in ChannelFields : base[k] \in Nat \ {0}
    BY <1>2, ChannelViewsNat DEF ChannelTypes
  <1>5. ChannelTypes' /\ ChannelBounds'
    <2>1. ChannelTypes'
      BY <1>1, <1>2, <1>4 DEF ChannelTypes, ChannelPlaces
    <2>2. \A u \in Threads, k \in ChannelFields : view'[u][k] <= Len(history'[k])
      BY <1>1, <1>2 DEF ChannelBounds
    <2>. QED  BY <1>1, <1>2, <2>1, <2>2 DEF ChannelBounds
  <1>6. Channel!ConsumesThisRound'
    BY <1>1 DEF Channel!ConsumesThisRound, Channel!Consumers
  <1>7. /\ \A i \in 1 .. Len(history["data"]) : ~(base["data"] < i)
        /\ \A i \in 1 .. Len(history["ready"]) :
              base["ready"] <= i => i = Len(history["ready"])
    <2>1. \A k \in ChannelFields : Len(history[k]) \in Nat /\ base[k] = Len(history[k])
      BY <1>2, <1>3, <1>4, ChannelViewsNat
    <2>. QED  BY <2>1 DEF ChannelFields
  <1>8. \A u \in Threads : view'[u] = base /\ at'[u] = "idle"
    BY <1>1, <1>4
  <1>9. \A k \in ChannelFields : base[k] <= base[k]
    BY <1>4
  <1>10. /\ \A u \in Threads : at'[u] \notin ResetPlaces
         /\ \A u \in Threads, k \in ChannelFields : base[k] <= view'[u][k]
         /\ \A u \in Threads : at'[u] \notin {"flag", "data"}
    BY <1>8, <1>9 DEF ResetPlaces
  <1>11. Running(base)'
    BY <1>1, <1>3, <1>7, <1>10 DEF Running
  <1>. QED  BY <1>4, <1>5, <1>6, <1>11 DEF ChannelInv

LEMMA ChannelInvInit == Channel!Init => ChannelInv
  <1>. SUFFICES ASSUME Channel!Init PROVE ChannelInv
    OBVIOUS
  <1>. DEFINE initial == [data |-> 0, ready |-> FALSE]
              none == Channel!Memory!Nothing
              m(l) == [val |-> initial[l], view |-> none]
  <1>1. /\ history = [l \in ChannelFields |-> <<m(l)>>]
        /\ view = [t \in Threads |-> none] /\ at = [t \in Threads |-> "idle"]
        /\ produced = << >> /\ consumed = [t \in Threads |-> 0]
    BY DEF Channel!Init, Channel!Memory!MemoryInit, ChannelFields
  <1>2. none \in ChannelView /\ \A k \in ChannelFields : none[k] = 1
    BY DEF Channel!Memory!Nothing, ChannelView, ChannelFields
  <1>3. \A l \in ChannelFields : m(l) \in ChannelMessage /\ m(l).view = none
    <2>1. \A l \in ChannelFields : initial[l] \in BOOLEAN \cup Payloads \cup {0}
      <3>1. initial["data"] \in {0} /\ initial["ready"] \in BOOLEAN
        OBVIOUS
      <3>. QED  BY <3>1 DEF ChannelFields
    <2>. HIDE DEF initial, none
    <2>. QED  BY <1>2, <2>1 DEF ChannelMessage
  <1>4. m("ready").val = FALSE
    OBVIOUS
  <1>. HIDE DEF m, none
  <1>5. /\ \A l \in ChannelFields : Len(history[l]) = 1 /\ history[l][1] = m(l)
        /\ history \in [ChannelFields -> Seq(ChannelMessage)]
    BY <1>1, <1>3
  <1>6. \A l \in ChannelFields : \A i \in 1 .. Len(history[l]) : i = 1
    <2>1. \A i \in 1 .. 1 : i = 1
      OBVIOUS
    <2>. QED  BY <1>5, <2>1, Zenon
  <1>7. ChannelTypes /\ ChannelBounds
    <2>1. 1 <= 1
      OBVIOUS
    <2>. QED  BY <1>1, <1>2, <1>3, <1>5, <1>6, <2>1 DEF ChannelTypes, ChannelBounds, ChannelPlaces
  <1>8. Channel!ConsumesThisRound
    BY <1>1 DEF Channel!ConsumesThisRound, Channel!Consumers
  <1>9. Running(none)
    <2>1. ~(1 < 1) /\ 1 <= 1
      OBVIOUS
    <2>2. history["ready"][1].val = FALSE
      BY <1>4, <1>5 DEF ChannelFields
    <2>3. \A i \in 1 .. Len(history["ready"]) : history["ready"][i].val = FALSE
      BY <1>6, <2>2 DEF ChannelFields
    <2>. QED  BY <1>1, <1>2, <1>6, <2>1, <2>3 DEF Running, ResetPlaces, ChannelFields
  <1>. QED  BY <1>2, <1>7, <1>8, <1>9 DEF ChannelInv

LEMMA ChannelStep == ChannelInv /\ [Channel!Next]_Channel!vars => ChannelInv'
  <1>. SUFFICES ASSUME ChannelInv, [Channel!Next]_Channel!vars PROVE ChannelInv'
    OBVIOUS
  <1>1. CASE Channel!ProducerEnds
    BY <1>1, ChannelAssumption, ChannelReads
  <1>2. CASE UNCHANGED Channel!vars
    BY <1>2
    DEF Channel!vars, ChannelInv, ChannelTypes, ChannelBounds, Running, Resetting,
        Channel!ConsumesThisRound
  <1>. QED
    BY <1>1, <1>2, ChannelProduces, ChannelPublishes, ChannelReads, ChannelJoinsAll,
       ChannelResets, ChannelSpawns
    DEF Channel!Next

\* Whatever the memory lets the loads return, a consumer gets a value of its
\* own round, however many rounds, consumers and calls of produce there are.
THEOREM ConsumersGetTheirRound ==
    Channel!Init /\ [][Channel!Next]_Channel!vars => []ConsumesThisRound
  <1>1. ChannelInv => ConsumesThisRound
    BY DEF ChannelInv, ConsumesThisRound
  <1>. QED  BY <1>1, ChannelInvInit, ChannelStep, PTL

-----------------------------------------------------------------------------
(* AtomicCounter. *)

CounterValues == 0 .. CounterModulus - 1

\* Of what a thread has not seen at least the latest value is left.
CounterTypes ==
    /\ value \in CounterValues
    /\ unseen \in [Threads -> Seq(CounterValues)]
    /\ \A t \in Threads : Len(unseen[t]) >= 1
    /\ DOMAIN at = Threads
    /\ current \in [Threads -> Nat] /\ factor \in [Threads -> Nat]

LEMMA CounterInit == Counter!Init => CounterTypes
  BY CounterAssumption DEF Counter!Init, CounterTypes, CounterAssumption, Counter!Values, CounterValues

\* A load takes away what lies before the value it returns.
LEMMA LoadSees ==
    ASSUME CounterTypes, NEW t \in Threads, NEW i \in 1 .. Len(unseen[t]), Counter!Load(t, i)
    PROVE  /\ value' = value /\ unseen' \in [Threads -> Seq(CounterValues)]
           /\ Len(unseen'[t]) = Len(unseen[t]) - i + 1
           /\ Head(unseen'[t]) = unseen[t][i] /\ unseen[t][i] \in CounterValues
           /\ \A u \in Threads : u # t => unseen'[u] = unseen[u]
<1> DEFINE s == unseen[t]
<1>1. s \in Seq(CounterValues) /\ Len(s) \in Nat /\ i \in Nat /\ 1 <= i /\ i <= Len(s)
  BY DEF CounterTypes
<1>2. /\ SubSeq(s, i, Len(s)) \in Seq(CounterValues)
      /\ Len(SubSeq(s, i, Len(s))) = Len(s) - i + 1
      /\ SubSeq(s, i, Len(s))[1] = s[i]
  BY ONLY <1>1
<1>3. Head(SubSeq(s, i, Len(s))) = s[i] /\ s[i] \in CounterValues
  BY ONLY <1>1, <1>2
<1>4. unseen' = [unseen EXCEPT ![t] = SubSeq(s, i, Len(s))] /\ value' = value
  BY DEF Counter!Load
<1> QED BY <1>1, <1>2, <1>3, <1>4 DEF CounterTypes

\* A store is one more value for the others, if it is another one.
LEMMA WriteIsSeen ==
    ASSUME CounterTypes, NEW t \in Threads, NEW new \in CounterValues, Counter!Write(t, new)
    PROVE  /\ value' = new /\ unseen' \in [Threads -> Seq(CounterValues)]
           /\ Len(unseen'[t]) = 1
           /\ \A u \in Threads : u # t =>
                 /\ Head(unseen'[u]) = Head(unseen[u]) /\ Len(unseen'[u]) >= 1
                 /\ Len(unseen'[u]) = Len(unseen[u]) + (IF new = value THEN 0 ELSE 1)
<1>1. /\ value' = new
      /\ unseen' = [u \in Threads |-> IF u = t THEN <<new>>
                                      ELSE IF new = value THEN unseen[u] ELSE Append(unseen[u], new)]
  BY DEF Counter!Write
<1>2. ASSUME NEW u \in Threads
      PROVE  /\ unseen[u] \in Seq(CounterValues) /\ Len(unseen[u]) \in Nat /\ Len(unseen[u]) >= 1
             /\ Append(unseen[u], new) \in Seq(CounterValues)
             /\ Len(Append(unseen[u], new)) = Len(unseen[u]) + 1
             /\ Head(Append(unseen[u], new)) = Head(unseen[u])
  <2>1. unseen[u] \in Seq(CounterValues) /\ Len(unseen[u]) >= 1
    BY DEF CounterTypes
  <2> QED BY ONLY <2>1, new \in CounterValues
<1>3. <<new>> \in Seq(CounterValues) /\ Len(<<new>>) = 1
  OBVIOUS
<1>4. unseen' \in [Threads -> Seq(CounterValues)] /\ Len(unseen'[t]) = 1
  BY ONLY <1>1, <1>2, <1>3, t \in Threads
<1>5. ASSUME NEW u \in Threads, u # t
      PROVE  /\ Head(unseen'[u]) = Head(unseen[u]) /\ Len(unseen'[u]) >= 1
             /\ Len(unseen'[u]) = Len(unseen[u]) + (IF new = value THEN 0 ELSE 1)
  <2>1. CASE new = value
    <3>1. unseen'[u] = unseen[u]
      BY ONLY <1>1, <1>5, <2>1
    <3> QED BY ONLY <1>2, <2>1, <3>1, u \in Threads
  <2>2. CASE new # value
    <3>1. unseen'[u] = Append(unseen[u], new)
      BY ONLY <1>1, <1>5, <2>2
    <3> QED BY ONLY <1>2, <2>2, <3>1, u \in Threads
  <2> QED BY ONLY <2>1, <2>2
<1> QED BY ONLY <1>1, <1>4, <1>5

\* What a step of thread t does to a thread that is in the loop and stays there.
Nearer ==
    \A u \in Threads : at[u] = "loop" /\ at'[u] = "loop" =>
        /\ Counter!AttemptsLeft(u)' <= Counter!AttemptsLeft(u) + (IF value' = value THEN 0 ELSE 1)
        /\ Counter!Retry(u) => Counter!AttemptsLeft(u)' < Counter!AttemptsLeft(u)

LEMMA RetryNearer ==
    ASSUME CounterTypes, NEW t \in Threads, Counter!Retry(t)
    PROVE  CounterTypes' /\ Counter!AttemptsLeft(t)' < Counter!AttemptsLeft(t)
<1>1. PICK i \in 1 .. Len(unseen[t]) :
          /\ unseen[t][i] # current[t] /\ Counter!Load(t, i)
          /\ current' = [current EXCEPT ![t] = unseen[t][i]]
  BY DEF Counter!Retry
<1>2. at' = at /\ factor' = factor
  BY DEF Counter!Retry
<1>3. /\ value' = value /\ unseen' \in [Threads -> Seq(CounterValues)]
      /\ Len(unseen'[t]) = Len(unseen[t]) - i + 1
      /\ Head(unseen'[t]) = unseen[t][i] /\ unseen[t][i] \in CounterValues
      /\ \A u \in Threads : u # t => unseen'[u] = unseen[u]
  BY <1>1, LoadSees
<1>4. current'[t] = unseen[t][i]
  BY <1>1 DEF CounterTypes
<1>5. Len(unseen[t]) \in Nat /\ i \in Nat /\ 1 <= i /\ i <= Len(unseen[t])
  BY DEF CounterTypes
<1>6. CounterTypes'
  <2>1. \A u \in Threads : Len(unseen'[u]) >= 1
    <3>1. Len(unseen'[t]) >= 1
      BY ONLY <1>3, <1>5
    <3>2. \A u \in Threads : u # t => Len(unseen'[u]) >= 1
      BY <1>3 DEF CounterTypes
    <3> QED BY ONLY <3>1, <3>2
  <2>2. CounterValues \subseteq Nat
    BY DEF CounterValues
  <2>3. current' \in [Threads -> Nat]
    BY <1>1, <1>3, <2>2 DEF CounterTypes
  <2>4. value' \in CounterValues' /\ unseen' \in [Threads -> Seq(CounterValues')]
    BY <1>3 DEF CounterTypes, CounterValues
  <2> QED BY <1>2, <2>1, <2>3, <2>4 DEF CounterTypes
<1>7. Counter!AttemptsLeft(t)' = Len(unseen[t]) - i + 1
  BY <1>3, <1>4, <1>5 DEF Counter!AttemptsLeft
<1>8. CASE i = 1
  <2>1. Head(unseen[t]) = unseen[t][1]
    BY <1>5 DEF CounterTypes
  <2>2. Counter!AttemptsLeft(t) = Len(unseen[t]) + 1
    BY <1>1, <1>8, <2>1 DEF Counter!AttemptsLeft
  <2> QED BY <1>5, <1>6, <1>7, <1>8, <2>2
<1>9. CASE i > 1
  <2>1. Counter!AttemptsLeft(t) \in Nat /\ Counter!AttemptsLeft(t) >= Len(unseen[t])
    <3>1. CASE current[t] = Head(unseen[t])
      BY <1>5, <3>1 DEF Counter!AttemptsLeft
    <3>2. CASE current[t] # Head(unseen[t])
      BY <1>5, <3>2 DEF Counter!AttemptsLeft
    <3> QED BY <3>1, <3>2
  <2> QED BY <1>5, <1>6, <1>7, <1>9, <2>1
<1> QED BY <1>5, <1>8, <1>9

\* A store of t leaves who is in the loop where it is, or one value behind.
LEMMA WriteNearer ==
    ASSUME CounterTypes, NEW t \in Threads, NEW new \in CounterValues, Counter!Write(t, new),
           at[t] # "loop" \/ at'[t] # "loop",
           DOMAIN at' = Threads, current' \in [Threads -> Nat], factor' \in [Threads -> Nat],
           \A u \in Threads : u # t => current'[u] = current[u]
    PROVE  CounterTypes' /\ Nearer
<1>1. /\ value' = new /\ unseen' \in [Threads -> Seq(CounterValues)] /\ Len(unseen'[t]) = 1
      /\ \A u \in Threads : u # t =>
            /\ Head(unseen'[u]) = Head(unseen[u]) /\ Len(unseen'[u]) >= 1
            /\ Len(unseen'[u]) = Len(unseen[u]) + (IF new = value THEN 0 ELSE 1)
  BY WriteIsSeen
<1>2. CounterTypes'
  <2>1. \A u \in Threads : Len(unseen'[u]) >= 1
    <3>1. Len(unseen'[t]) >= 1
      BY ONLY <1>1
    <3> QED BY ONLY <1>1, <3>1
  <2>2. value' \in CounterValues' /\ unseen' \in [Threads -> Seq(CounterValues')]
    BY <1>1 DEF CounterValues
  <2> QED BY <2>1, <2>2 DEF CounterTypes
<1>3. ASSUME NEW u \in Threads, at[u] = "loop", at'[u] = "loop"
      PROVE  /\ Counter!AttemptsLeft(u)' <= Counter!AttemptsLeft(u) + (IF value' = value THEN 0 ELSE 1)
             /\ Counter!Retry(u) => Counter!AttemptsLeft(u)' < Counter!AttemptsLeft(u)
  <2>1. u # t
    BY <1>3
  <2>2. Len(unseen[u]) \in Nat
    BY DEF CounterTypes
  <2>3. Counter!AttemptsLeft(u)' = Counter!AttemptsLeft(u) + (IF value' = value THEN 0 ELSE 1)
    <3> DEFINE behind == IF current[u] = Head(unseen[u]) THEN 0 ELSE 1
               more == IF value' = value THEN 0 ELSE 1
    <3>1. Counter!AttemptsLeft(u) = Len(unseen[u]) + behind
      BY DEF Counter!AttemptsLeft
    <3>2. current'[u] = current[u] /\ Head(unseen'[u]) = Head(unseen[u])
          /\ Len(unseen'[u]) = Len(unseen[u]) + more
      BY <1>1, <2>1
    <3>3. Counter!AttemptsLeft(u)' = Len(unseen'[u]) + behind
      BY <3>2 DEF Counter!AttemptsLeft
    <3>4. behind \in Nat /\ more \in Nat
      OBVIOUS
    <3> HIDE DEF behind, more
    <3>5. Counter!AttemptsLeft(u)' = Counter!AttemptsLeft(u) + more
      BY ONLY <2>2, <3>1, <3>2, <3>3, <3>4
    <3> QED BY ONLY <3>5 DEF more
  <2>4. Counter!AttemptsLeft(u) \in Nat
    <3>1. CASE current[u] = Head(unseen[u])
      BY <2>2, <3>1 DEF Counter!AttemptsLeft
    <3>2. CASE current[u] # Head(unseen[u])
      BY <2>2, <3>2 DEF Counter!AttemptsLeft
    <3> QED BY <3>1, <3>2
  <2>5. Counter!Retry(u) => Counter!AttemptsLeft(u)' < Counter!AttemptsLeft(u)
    BY RetryNearer
  <2> QED BY <2>3, <2>4, <2>5
<1> QED BY <1>2, <1>3 DEF Nearer

\* Nothing that a thread in the loop goes by changes.
LEMMA OthersStay ==
    ASSUME CounterTypes, NEW t \in Threads, value' = value,
           \A u \in Threads : u # t => unseen'[u] = unseen[u] /\ current'[u] = current[u],
           at[t] = "loop" /\ at'[t] = "loop" =>
              Counter!AttemptsLeft(t)' <= Counter!AttemptsLeft(t)
    PROVE  Nearer
<1>1. ASSUME NEW u \in Threads PROVE Counter!AttemptsLeft(u) \in Nat
  BY DEF CounterTypes, Counter!AttemptsLeft
<1>2. ASSUME NEW u \in Threads, at[u] = "loop", at'[u] = "loop"
      PROVE  Counter!AttemptsLeft(u)' <= Counter!AttemptsLeft(u)
  <2>1. u # t => Counter!AttemptsLeft(u)' = Counter!AttemptsLeft(u)
    BY DEF Counter!AttemptsLeft
  <2> QED BY <1>1, <1>2, <2>1
<1> QED BY <1>1, <1>2, RetryNearer DEF Nearer

LEMMA CounterStep ==
    CounterTypes /\ [Counter!Next]_Counter!vars => CounterTypes' /\ Nearer
<1> SUFFICES ASSUME CounterTypes, [Counter!Next]_Counter!vars PROVE CounterTypes' /\ Nearer
  OBVIOUS
<1>0. CounterModulus \in Nat /\ CounterModulus > 0 /\ Multipliers \subseteq Nat
      /\ \A x \in Nat : x % CounterModulus \in CounterValues
  <2>1. CounterModulus \in Nat /\ CounterModulus > 0 /\ Multipliers \subseteq Nat
    BY CounterAssumption DEF CounterAssumption
  <2> QED BY <2>1 DEF CounterValues
<1>1. CASE UNCHANGED Counter!vars
  <2>1. UNCHANGED <<value, unseen, at, current, factor>>
    BY <1>1 DEF Counter!vars
  <2>2. CounterTypes'
    BY <2>1 DEF CounterTypes, CounterValues
  <2>3. \A u \in Threads : Counter!AttemptsLeft(u)' = Counter!AttemptsLeft(u)
                           /\ Counter!AttemptsLeft(u) \in Nat
    BY <2>1 DEF Counter!AttemptsLeft, CounterTypes
  <2> QED BY <2>1, <2>2, <2>3, RetryNearer DEF Nearer
<1>2. ASSUME NEW t \in Threads,
             \/ Counter!Increment(t) \/ Counter!Decrement(t)
             \/ \E expected, new \in Counter!Values : Counter!CompareAndSwap(t, expected, new)
      PROVE  CounterTypes' /\ Nearer
  <2>1. PICK new \in CounterValues : Counter!Write(t, new)
    <3>1. value + 1 \in Nat /\ value + (CounterModulus - 1) \in Nat
      BY <1>0 DEF CounterTypes, CounterValues
    <3> QED
      BY <1>0, <1>2, <3>1
      DEF Counter!Increment, Counter!Decrement, Counter!Add, Counter!CompareAndSwap, Counter!Values,
          CounterValues
  <2>2. at[t] = "idle" /\ UNCHANGED <<at, current, factor>>
    BY <1>2 DEF Counter!Increment, Counter!Decrement, Counter!Add, Counter!CompareAndSwap
  <2>3. /\ DOMAIN at' = Threads /\ current' \in [Threads -> Nat] /\ factor' \in [Threads -> Nat]
        /\ \A u \in Threads : u # t => current'[u] = current[u]
    BY <2>2 DEF CounterTypes
  <2> QED BY <2>1, <2>2, <2>3, WriteNearer
<1>3. ASSUME NEW t \in Threads, NEW m \in Multipliers, Counter!FetchMultiply(t, m)
      PROVE  CounterTypes' /\ Nearer
  <2>1. PICK i \in 1 .. Len(unseen[t]) :
            Counter!Load(t, i) /\ current' = [current EXCEPT ![t] = unseen[t][i]]
    BY <1>3 DEF Counter!FetchMultiply
  <2>2. factor' = [factor EXCEPT ![t] = m] /\ at' = [at EXCEPT ![t] = "loop"] /\ at[t] = "idle"
    BY <1>3 DEF Counter!FetchMultiply
  <2>3. /\ value' = value /\ unseen' \in [Threads -> Seq(CounterValues)]
        /\ Len(unseen'[t]) = Len(unseen[t]) - i + 1
        /\ unseen[t][i] \in CounterValues
        /\ \A u \in Threads : u # t => unseen'[u] = unseen[u]
    BY <2>1, LoadSees
  <2>4. CounterTypes'
    <3>1. \A u \in Threads : Len(unseen'[u]) >= 1
      <4>1. Len(unseen[t]) \in Nat /\ i \in Nat /\ i <= Len(unseen[t])
        BY DEF CounterTypes
      <4>2. Len(unseen'[t]) >= 1
        BY ONLY <2>3, <4>1
      <4>3. \A u \in Threads : u # t => Len(unseen'[u]) >= 1
        BY <2>3 DEF CounterTypes
      <4> QED BY ONLY <4>2, <4>3
    <3>2. current' \in [Threads -> Nat] /\ factor' \in [Threads -> Nat] /\ DOMAIN at' = Threads
      BY <1>0, <2>1, <2>2, <2>3 DEF CounterTypes, CounterValues
    <3>3. value' \in CounterValues' /\ unseen' \in [Threads -> Seq(CounterValues')]
      BY <2>3 DEF CounterTypes, CounterValues
    <3> QED BY <3>1, <3>2, <3>3 DEF CounterTypes
  <2>5. \A u \in Threads : u # t => unseen'[u] = unseen[u] /\ current'[u] = current[u]
    BY <2>1, <2>3 DEF CounterTypes
  <2> QED BY <2>2, <2>3, <2>4, <2>5, OthersStay
<1>4. ASSUME NEW t \in Threads, Counter!Multiply(t) PROVE CounterTypes' /\ Nearer
  <2>1. Counter!Write(t, (current[t] * factor[t]) % CounterModulus)
    BY <1>4 DEF Counter!Multiply, Counter!Product
  <2>2. (current[t] * factor[t]) % CounterModulus \in CounterValues
    <3>1. current[t] \in Nat /\ factor[t] \in Nat
      BY DEF CounterTypes
    <3>2. current[t] * factor[t] \in Nat
      BY ONLY <3>1
    <3> QED BY ONLY <1>0, <3>2
  <2>3. /\ at' = [at EXCEPT ![t] = "idle"] /\ current' = [current EXCEPT ![t] = 0]
        /\ factor' = [factor EXCEPT ![t] = 0]
    BY <1>4 DEF Counter!Multiply, Counter!Leave
  <2>4. /\ DOMAIN at' = Threads /\ current' \in [Threads -> Nat] /\ factor' \in [Threads -> Nat]
        /\ at'[t] # "loop" /\ \A u \in Threads : u # t => current'[u] = current[u]
    BY <2>3 DEF CounterTypes
  <2> QED BY <2>1, <2>2, <2>4, WriteNearer
<1>5. ASSUME NEW t \in Threads, Counter!Retry(t) PROVE CounterTypes' /\ Nearer
  <2>1. CounterTypes' /\ Counter!AttemptsLeft(t)' < Counter!AttemptsLeft(t)
    BY <1>5, RetryNearer
  <2>2. PICK i \in 1 .. Len(unseen[t]) :
            Counter!Load(t, i) /\ current' = [current EXCEPT ![t] = unseen[t][i]]
    BY <1>5 DEF Counter!Retry
  <2>3. value' = value /\ \A u \in Threads : u # t => unseen'[u] = unseen[u]
    BY <2>2, LoadSees
  <2>4. \A u \in Threads : u # t => current'[u] = current[u]
    BY <2>2 DEF CounterTypes
  <2>5. Counter!AttemptsLeft(t) \in Nat /\ Counter!AttemptsLeft(t)' \in Nat
    BY <2>1 DEF CounterTypes, Counter!AttemptsLeft
  <2> QED BY <2>1, <2>3, <2>4, <2>5, OthersStay
<1>6. ASSUME NEW t \in Threads, Counter!Overflow(t) PROVE CounterTypes' /\ Nearer
  <2>1. /\ at' = [at EXCEPT ![t] = "panicked"] /\ current' = [current EXCEPT ![t] = 0]
        /\ factor' = [factor EXCEPT ![t] = 0] /\ UNCHANGED <<value, unseen>>
    BY <1>6 DEF Counter!Overflow, Counter!Leave
  <2>2. CounterTypes'
    BY <2>1 DEF CounterTypes, CounterValues
  <2>3. at'[t] # "loop" /\ \A u \in Threads : u # t => unseen'[u] = unseen[u] /\ current'[u] = current[u]
    BY <2>1 DEF CounterTypes
  <2> QED BY <2>1, <2>2, <2>3, OthersStay
<1>7. ASSUME NEW t \in Threads, Counter!Propagate(t) PROVE CounterTypes' /\ Nearer
  <2>1. /\ Len(unseen[t]) > 1 /\ unseen' = [unseen EXCEPT ![t] = Tail(unseen[t])]
        /\ UNCHANGED <<value, at, current, factor>>
    BY <1>7 DEF Counter!Propagate
  <2>2. /\ Tail(unseen[t]) \in Seq(CounterValues) /\ Len(unseen[t]) \in Nat
        /\ Len(Tail(unseen[t])) = Len(unseen[t]) - 1
    <3>1. unseen[t] \in Seq(CounterValues)
      BY DEF CounterTypes
    <3> QED BY ONLY <2>1, <3>1
  <2>3. CounterTypes'
    BY <2>1, <2>2 DEF CounterTypes, CounterValues
  <2>4. unseen'[t] = Tail(unseen[t]) /\ \A u \in Threads : u # t => unseen'[u] = unseen[u]
    BY <2>1 DEF CounterTypes
  <2>5. Counter!AttemptsLeft(t)' <= Counter!AttemptsLeft(t)
    <3>1. Len(unseen'[t]) = Len(unseen[t]) - 1
      BY <2>2, <2>4
    <3> DEFINE behind == IF current[t] = Head(unseen[t]) THEN 0 ELSE 1
    <3>2. Counter!AttemptsLeft(t) = Len(unseen[t]) + behind
      BY DEF Counter!AttemptsLeft
    <3>3. Counter!AttemptsLeft(t)' = Len(unseen'[t]) + behind'
      BY DEF Counter!AttemptsLeft
    <3>4. behind \in 0..1 /\ behind' \in 0..1
      OBVIOUS
    <3> HIDE DEF behind
    <3> QED BY ONLY <2>2, <3>1, <3>2, <3>3, <3>4
  <2> QED BY <2>1, <2>3, <2>4, <2>5, OthersStay
<1> QED BY <1>1, <1>2, <1>3, <1>4, <1>5, <1>6, <1>7 DEF Counter!Next

\* fetch_multiply fails no more often than there are stores it has not seen, for
\* any number of threads, any width of the counter, and loads however late.
THEOREM MultiplyRetriesBounded ==
    Counter!Init /\ [][Counter!Next]_Counter!vars => RetriesBounded
<1>1. CounterTypes /\ [Counter!Next]_Counter!vars => CounterTypes' /\ [Nearer]_Counter!vars
  BY CounterStep
<1>2. Counter!Init /\ [][Counter!Next]_Counter!vars => [][Nearer]_Counter!vars
  <2> HIDE DEF Nearer
  <2> QED BY <1>1, CounterInit, PTL
<1>3. [Nearer]_Counter!vars => [\A t \in Threads : at[t] = "loop" /\ at'[t] = "loop" =>
          /\ Counter!AttemptsLeft(t)' <= Counter!AttemptsLeft(t) + (IF value' = value THEN 0 ELSE 1)
          /\ Counter!Retry(t) => Counter!AttemptsLeft(t)' < Counter!AttemptsLeft(t)]_Counter!vars
  BY Zenon DEF Nearer
<1> QED BY <1>2, <1>3, PTL DEF RetriesBounded, Counter!RetriesBounded

-----------------------------------------------------------------------------
(* Threads: the counter is the number of rounds done, the list has each     *)
(* worker that did its round, and who is joined is over.                    *)

ThreadTypes ==
    /\ main \in {"idle", "spawn", "join", "scope", "returned", "panicked"}
    /\ spawned \in 0..MaxWorkers /\ joins \in 0..spawned
    /\ worker \in [Spawned!Workers -> {"none", "run", "locked", "finished", "panicked"}]
    /\ rounds \in [Spawned!Workers -> Nat] /\ local \in [Spawned!Workers -> Nat]
    /\ num \in [Spawned!Workers -> Nat] /\ counter \in Nat
    /\ main # "returned" => list \in Seq(Nat)

\* A call that can be made, and how many workers it has spawned and joined.
Called ==
    /\ call.n \in 0..MaxWorkers /\ call.rounds \in 0..MaxThreadRounds
    /\ call.fn \in Spawned!Single => call.n = 1
    /\ call.fn \in Spawned!Single \cup Spawned!Double \cup {"concurrent_collect"} => call.rounds = 1
    /\ call.panics \subseteq 1..call.n
    /\ call.fn \notin Spawned!CanPanic => call.panics = {}
    /\ main = "idle" => call.fn = "none" /\ counter = 0 /\ list = <<>> /\ spawned = 0
    /\ main \in {"idle", "spawn"} => joins = 0
    /\ main \notin {"idle", "spawn"} => spawned = call.n
    /\ spawned <= call.n
    /\ main = "join" => \A w \in 1..joins : worker[w] = "finished"
    /\ main = "scope" => \E w \in 1..call.n : worker[w] = "panicked"

\* How far a worker is: who holds the mutex has read the latest counter.
Working ==
    \A w \in Spawned!Workers :
        /\ worker[w] = "none" <=> w > spawned
        /\ worker[w] = "none" => rounds[w] = 0 /\ local[w] = 0
        /\ worker[w] = "run" =>
              /\ rounds[w] <= call.rounds
              /\ call.fn \in Spawned!Single \cup Spawned!Double => rounds[w] = 0
        /\ worker[w] = "locked" =>
              /\ call.fn \in Spawned!Locking /\ mutex = w
              /\ num[w] = counter /\ rounds[w] < call.rounds
        /\ worker[w] \in {"finished", "panicked"} => rounds[w] = call.rounds
        /\ worker[w] = "panicked" => w \in call.panics
        /\ worker[w] = "finished" => w \notin call.panics
        /\ call.fn = "increment_thread_local" => local[w] = rounds[w]

\* The rounds done, of all workers.
RoundsDone == {p \in Spawned!Workers \X (1..MaxThreadRounds) : p[2] <= rounds[p[1]]}

Counted == call.fn = "concurrent_counter" => counter = Cardinality(RoundsDone)

Listed ==
    call.fn = "concurrent_collect" /\ main # "returned" =>
        /\ \A k \in 1..Len(list) : \E w \in Spawned!Workers : rounds[w] = 1 /\ list[k] = w - 1
        /\ \A w \in Spawned!Workers : rounds[w] = 1 => \E k \in 1..Len(list) : list[k] = w - 1
        /\ \A k, l \in 1..Len(list) : list[k] = list[l] => k = l

ThreadInv ==
    ThreadTypes /\ Called /\ Working /\ Counted /\ Listed /\ Spawned!WorkJoined

LEMMA WorkersAre == Spawned!Workers = 1..MaxWorkers /\ MaxWorkers \in Nat /\ MaxThreadRounds \in Nat
  BY WorkersAssumption DEF Spawned!Workers, WorkersAssumption

LEMMA ThreadInit == Spawned!Init => ThreadInv
<1> SUFFICES ASSUME Spawned!Init PROVE ThreadInv
  OBVIOUS
<1> USE WorkersAre DEF Spawned!Init
<1>1. ThreadTypes
  BY DEF ThreadTypes, Spawned!Nobody
<1>2. Called
  BY DEF Called, Spawned!Single, Spawned!Double, Spawned!CanPanic
<1>3. Working
  BY DEF Working
<1>4. Counted /\ Listed /\ Spawned!WorkJoined
  BY DEF Counted, Listed, Spawned!WorkJoined
<1> QED BY <1>1, <1>2, <1>3, <1>4 DEF ThreadInv

\* One more round of one worker is one more in the sum of all.
LEMMA OneMoreRound ==
    ASSUME ThreadTypes, NEW w \in Spawned!Workers, rounds[w] < MaxThreadRounds,
           rounds' = [rounds EXCEPT ![w] = @ + 1]
    PROVE  Cardinality(RoundsDone') = Cardinality(RoundsDone) + 1
<1> DEFINE new == <<w, rounds[w] + 1>>
<1>1. IsFiniteSet(RoundsDone)
  <2>1. IsFiniteSet(Spawned!Workers \X (1..MaxThreadRounds))
    <3>1. IsFiniteSet(1..MaxWorkers) /\ IsFiniteSet(1..MaxThreadRounds)
      BY WorkersAre, FS_Interval
    <3> QED BY <3>1, WorkersAre, FS_Product
  <2> QED BY <2>1, FS_Subset DEF RoundsDone
<1>2. rounds[w] \in Nat /\ rounds'[w] = rounds[w] + 1
      /\ \A u \in Spawned!Workers : u # w => rounds'[u] = rounds[u]
  BY DEF ThreadTypes
<1>3. \A u \in Spawned!Workers : rounds[u] \in Nat
  BY DEF ThreadTypes
<1>4. ASSUME NEW u \in Spawned!Workers, NEW r \in 1..MaxThreadRounds
      PROVE  <<u, r>> \in RoundsDone' <=> <<u, r>> \in RoundsDone \cup {new}
  <2>1. <<u, r>> \in RoundsDone' <=> r <= rounds'[u]
    BY <1>4 DEF RoundsDone
  <2>2. <<u, r>> \in RoundsDone <=> r <= rounds[u]
    BY <1>4 DEF RoundsDone
  <2>3. <<u, r>> = new <=> u = w /\ r = rounds[w] + 1
    OBVIOUS
  <2>4. r \in Nat
    BY WorkersAre
  <2> QED BY <1>2, <1>3, <1>4, <2>1, <2>2, <2>3, <2>4
<1>5. new \in Spawned!Workers \X (1..MaxThreadRounds) /\ new \notin RoundsDone
  BY <1>2, WorkersAre DEF RoundsDone
<1>6. RoundsDone' = RoundsDone \cup {new}
  <2>1. RoundsDone' \subseteq Spawned!Workers \X (1..MaxThreadRounds)
    BY DEF RoundsDone, Spawned!Workers
  <2>2. RoundsDone \subseteq Spawned!Workers \X (1..MaxThreadRounds)
    BY DEF RoundsDone
  <2> HIDE DEF new
  <2>3. ASSUME NEW p \in Spawned!Workers \X (1..MaxThreadRounds)
        PROVE  p \in RoundsDone' <=> p \in RoundsDone \cup {new}
    BY <1>4
  <2> QED BY <1>5, <2>1, <2>2, <2>3
<1> HIDE DEF new
<1> QED BY <1>1, <1>5, <1>6, FS_AddElement

LEMMA CallKeepsThreads == ASSUME ThreadInv, Spawned!Call PROVE ThreadInv'
<1> USE WorkersAre DEF Spawned!Call
<1>0. ThreadTypes /\ Called /\ Working /\ main = "idle" /\ main' = "spawn"
  BY DEF ThreadInv
<1>1. /\ call'.n \in 0..MaxWorkers /\ call'.rounds \in 0..MaxThreadRounds
      /\ call'.fn \in Spawned!Single => call'.n = 1
      /\ call'.fn \in Spawned!Double => call'.n = 2
      /\ call'.fn \in Spawned!Single \cup Spawned!Double \cup {"concurrent_collect"} => call'.rounds = 1
      /\ call'.panics \subseteq 1..(IF call'.fn \in Spawned!CanPanic THEN call'.n ELSE 0)
  BY DEF Spawned!Calls
<1>2. ThreadTypes'
  BY <1>0 DEF ThreadTypes
<1>3. Called'
  <2>1. call'.panics \subseteq 1..call'.n /\ (call'.fn \notin Spawned!CanPanic => call'.panics = {})
    BY <1>1
  <2> QED BY <1>0, <1>1, <2>1 DEF Called, ThreadTypes
<1>4. /\ \A w \in Spawned!Workers : worker[w] = "none" /\ rounds[w] = 0 /\ local[w] = 0
      /\ counter = 0 /\ list = <<>>
  BY <1>0 DEF Called, Working
<1>5. Working'
  BY <1>0, <1>4 DEF Working, Called
<1>6. Counted'
  <2>1. RoundsDone = {}
    BY <1>4 DEF RoundsDone
  <2>2. RoundsDone' = {}
    BY <2>1 DEF RoundsDone, Spawned!Workers
  <2> QED BY <1>4, <2>2, FS_EmptySet DEF Counted
<1>7. Listed'
  BY <1>4 DEF Listed, Spawned!Workers
<1>8. Spawned!WorkJoined'
  BY <1>0 DEF Spawned!WorkJoined
<1> QED BY <1>2, <1>3, <1>5, <1>6, <1>7, <1>8 DEF ThreadInv

\* Steps of the caller before it returns or panics leave the sums as they are.
LEMMA SameSums ==
    ASSUME ThreadInv, UNCHANGED <<call, rounds, counter, list>>, main # "returned"
    PROVE  Counted' /\ Listed'
<1>1. RoundsDone' = RoundsDone
  BY DEF RoundsDone, Spawned!Workers
<1>2. Counted'
  BY <1>1 DEF ThreadInv, Counted
<1>3. Listed'
  BY DEF ThreadInv, Listed, Spawned!Workers
<1> QED BY <1>2, <1>3

\* ... and keep their types.
LEMMA SameTypes ==
    ASSUME ThreadTypes, UNCHANGED <<rounds, local, num, counter, list>>, main # "returned",
           main' \in {"idle", "spawn", "join", "scope", "returned", "panicked"},
           spawned' \in 0..MaxWorkers, joins' \in 0..spawned',
           worker' \in [Spawned!Workers -> {"none", "run", "locked", "finished", "panicked"}]
    PROVE  ThreadTypes'
BY DEF ThreadTypes, Spawned!Workers

LEMMA SpawnKeeps == ASSUME ThreadInv, Spawned!Spawn PROVE ThreadInv'
<1> USE WorkersAre DEF Spawned!Spawn
<1>0. ThreadTypes /\ Called /\ Working /\ main = "spawn"
  BY DEF ThreadInv
<1>1. Counted' /\ Listed'
  BY SameSums
<1>2. CASE spawned < call.n
  <2>1. /\ spawned' = spawned + 1 /\ spawned' \in Spawned!Workers /\ main' = "spawn"
        /\ worker' = [worker EXCEPT ![spawned'] = "run"]
        /\ UNCHANGED <<call, rounds, mutex, counter, num, list, local, joins, answer>>
    BY <1>0, <1>2 DEF ThreadTypes, Called
  <2>2. ThreadTypes'
    <3>1. joins' \in 0..spawned' /\ spawned' \in 0..MaxWorkers
      BY <1>0, <2>1 DEF ThreadTypes
    <3>2. worker' \in [Spawned!Workers -> {"none", "run", "locked", "finished", "panicked"}]
      BY <1>0, <2>1 DEF ThreadTypes
    <3> QED BY ONLY <1>0, <2>1, <3>1, <3>2, SameTypes
  <2>3. Called'
    <3>1. spawned' <= call.n
      BY ONLY <1>0, <1>2, <2>1 DEF Called, ThreadTypes
    <3>2. joins = 0 /\ call.n \in 0..MaxWorkers
      BY ONLY <1>0 DEF Called
    <3> QED BY ONLY <1>0, <2>1, <3>1, <3>2 DEF Called
  <2>4. Working'
    <3>1. \A w \in Spawned!Workers : w # spawned' => worker'[w] = worker[w]
      BY <1>0, <2>1 DEF ThreadTypes
    <3>2. worker'[spawned'] = "run"
      BY <1>0, <2>1 DEF ThreadTypes
    <3>3. worker[spawned'] = "none" /\ rounds[spawned'] = 0 /\ local[spawned'] = 0
      <4>1. spawned' > spawned
        BY ONLY <1>0, <2>1 DEF ThreadTypes
      <4>2. worker[spawned'] = "none"
        BY ONLY <1>0, <2>1, <4>1 DEF Working
      <4> QED BY ONLY <1>0, <2>1, <4>2 DEF Working
    <3>4. call.rounds \in Nat
      BY <1>0 DEF Called
    <3>5. spawned \in Nat /\ \A w \in Spawned!Workers : w \in Nat
      BY ONLY <1>0, WorkersAre DEF ThreadTypes
    <3>6. \A w \in Spawned!Workers : w # spawned' => (w > spawned' <=> w > spawned)
      BY ONLY <2>1, <3>5
    <3>7. Spawned!Workers' = Spawned!Workers
      BY ONLY DEF Spawned!Workers
    <3> QED BY ONLY <1>0, <2>1, <3>1, <3>2, <3>3, <3>4, <3>5, <3>6, <3>7 DEF Working
  <2>5. Spawned!WorkJoined'
    BY <2>1 DEF Spawned!WorkJoined
  <2> QED BY <1>1, <2>2, <2>3, <2>4, <2>5 DEF ThreadInv
<1>3. CASE ~(spawned < call.n)
  <2>1. main' = "join" /\ UNCHANGED <<call, spawned, worker, rounds, mutex, counter, num, list, local, joins, answer>>
    BY <1>3
  <2>2. ThreadTypes'
    BY <1>0, <2>1 DEF ThreadTypes
  <2>3. Called'
    BY <1>0, <1>3, <2>1 DEF Called, ThreadTypes
  <2>4. Working'
    BY <1>0, <2>1 DEF Working, Spawned!Workers
  <2>5. Spawned!WorkJoined'
    BY <2>1 DEF Spawned!WorkJoined
  <2> QED BY <1>1, <2>2, <2>3, <2>4, <2>5 DEF ThreadInv
<1> QED BY <1>2, <1>3

\* Join, JoinPanicked and ScopeEnds change main and joins, and nothing else
\* that the invariant speaks of but the answer.
LEMMA JoinKeeps ==
    ASSUME ThreadInv, Spawned!Join \/ Spawned!JoinPanicked \/ Spawned!ScopeEnds
    PROVE  ThreadInv'
<1> USE WorkersAre
<1>0. ThreadTypes /\ Called /\ Working /\ main \in {"join", "scope"}
  BY DEF ThreadInv, Spawned!Join, Spawned!JoinPanicked, Spawned!ScopeEnds
<1>1. UNCHANGED <<call, spawned, worker, rounds, mutex, counter, num, list, local>>
  BY DEF Spawned!Join, Spawned!JoinPanicked, Spawned!ScopeEnds
<1>2. Counted' /\ Listed'
  BY <1>0, <1>1, SameSums
<1>3. Working'
  BY <1>0, <1>1 DEF Working, Spawned!Workers
<1>4. CASE Spawned!Join
  <2>1. /\ main = "join" /\ main' = "join" /\ joins < call.n /\ worker[joins + 1] = "finished"
        /\ joins' = joins + 1
    BY <1>4 DEF Spawned!Join, Spawned!Next1
  <2>2. ThreadTypes'
    <3>1. joins' \in 0..spawned' /\ spawned' \in 0..MaxWorkers
      BY <1>0, <1>1, <2>1 DEF ThreadTypes, Called
    <3>2. worker' \in [Spawned!Workers -> {"none", "run", "locked", "finished", "panicked"}]
      BY <1>0, <1>1 DEF ThreadTypes
    <3> QED BY ONLY <1>0, <1>1, <2>1, <3>1, <3>2, SameTypes
  <2>4. Called'
    <3>1. \A w \in 1..joins' : worker[w] = "finished"
      <4>1. \A w \in 1..joins : worker[w] = "finished"
        BY <1>0, <2>1 DEF Called
      <4>2. \A w \in 1..joins' : w \in 1..joins \/ w = joins + 1
        BY <1>0, <2>1 DEF ThreadTypes
      <4> QED BY <2>1, <4>1, <4>2
    <3> QED BY ONLY <1>0, <1>1, <2>1, <3>1 DEF Called
  <2>3. Spawned!WorkJoined'
    BY <2>1 DEF Spawned!WorkJoined
  <2> QED BY <1>2, <1>3, <2>2, <2>3, <2>4 DEF ThreadInv
<1>5. CASE Spawned!JoinPanicked
  <2>1. /\ main = "join" /\ joins < call.n /\ worker[joins + 1] = "panicked"
        /\ joins' = joins + 1
        /\ \/ call.fn = "handle_panic" /\ main' = "returned" /\ answer' = "Err"
           \/ call.fn = "scoped_slice_sum" /\ main' = "scope"
           \/ call.fn # "scoped_slice_sum" /\ main' = "panicked"
    BY <1>5 DEF Spawned!JoinPanicked, Spawned!Next1
  <2>2. joins + 1 \in 1..call.n /\ spawned = call.n
    BY <1>0, <2>1 DEF ThreadTypes, Called
  <2>3. ThreadTypes'
    <3>1. joins' \in 0..spawned' /\ spawned' \in 0..MaxWorkers
      BY <1>0, <1>1, <2>1, <2>2 DEF ThreadTypes
    <3>2. worker' \in [Spawned!Workers -> {"none", "run", "locked", "finished", "panicked"}]
      BY <1>0, <1>1 DEF ThreadTypes
    <3>3. main' \in {"idle", "spawn", "join", "scope", "returned", "panicked"} /\ main # "returned"
      BY <2>1
    <3> QED BY ONLY <1>0, <1>1, <3>1, <3>2, <3>3, SameTypes
  <2>5. main' \in {"returned", "scope", "panicked"}
    BY <2>1
  <2>6. Called'
    BY <1>0, <1>1, <2>1, <2>2, <2>5 DEF Called
  <2>4. Spawned!WorkJoined'
    <3>1. CASE main' = "returned"
      <4>1. call.fn = "handle_panic" /\ answer' = "Err" /\ call.n = 1 /\ joins + 1 = 1
        <5>1. call.fn = "handle_panic" /\ answer' = "Err"
          BY <2>1, <3>1
        <5>2. call.n = 1
          BY <1>0, <5>1 DEF Called, Spawned!Single
        <5> QED BY <1>0, <2>2, <5>1, <5>2 DEF ThreadTypes
      <4>2. 1 \in Spawned!Workers /\ rounds[1] = call.rounds /\ 1 \in call.panics
        BY <1>0, <2>1, <2>2, <4>1 DEF Working, Called
      <4> QED BY <1>1, <2>1, <3>1, <4>1, <4>2 DEF Spawned!WorkJoined, Spawned!AllDone, Spawned!Over
    <3>2. CASE main' # "returned"
      BY <1>1, <2>1, <2>2, <3>2 DEF Spawned!WorkJoined
    <3> QED BY <3>1, <3>2
  <2> QED BY <1>2, <1>3, <2>3, <2>4, <2>6 DEF ThreadInv
<1>6. CASE Spawned!ScopeEnds
  <2>1. /\ main = "scope" /\ \A w \in 1..spawned : Spawned!Over(w)
        /\ main' = "panicked" /\ joins' = joins
    BY <1>6 DEF Spawned!ScopeEnds
  <2>2. ThreadTypes' /\ Called'
    BY <1>0, <1>1, <2>1 DEF ThreadTypes, Called
  <2>3. Spawned!WorkJoined'
    BY <1>0, <1>1, <2>1 DEF Spawned!WorkJoined, Called, Spawned!Over
  <2> QED BY <1>2, <1>3, <2>2, <2>3 DEF ThreadInv
<1> QED BY <1>4, <1>5, <1>6

\* Who returned, or panicked in a scope, has no worker that could go on.
LEMMA OverWhenReturned ==
    ASSUME ThreadInv, main = "returned" \/ (main = "panicked" /\ call.fn = "scoped_slice_sum"),
           NEW w \in Spawned!Workers
    PROVE  worker[w] \notin {"run", "locked"}
<1>1. CASE w > spawned
  BY <1>1 DEF ThreadInv, Working
<1>2. CASE ~(w > spawned)
  <2>1. w \in 1..call.n
    BY <1>2, WorkersAre DEF ThreadInv, ThreadTypes, Called
  <2> QED BY <2>1 DEF ThreadInv, Spawned!WorkJoined, Spawned!AllDone, Spawned!Over
<1> QED BY <1>1, <1>2

\* A worker's step neither ends nor undoes what the caller relies on.
LEMMA WorkerJoins ==
    ASSUME ThreadInv, NEW w \in Spawned!Workers, worker[w] \in {"run", "locked"},
           UNCHANGED <<call, main, spawned, joins>>, NEW p,
           worker' = [worker EXCEPT ![w] = p],
           p \in {"none", "run", "locked", "finished", "panicked"}
    PROVE  Called' /\ Spawned!WorkJoined' /\ main \notin {"idle", "returned"}
<1>0. ThreadTypes /\ Called /\ Working
  BY DEF ThreadInv
<1>1. main # "returned" /\ ~(main = "panicked" /\ call.fn = "scoped_slice_sum")
  BY OverWhenReturned
<1>2. main # "idle"
  <2>1. w > 0 /\ ~(w > spawned)
    BY <1>0, WorkersAre DEF Working
  <2> QED BY <1>0, <2>1 DEF Called
<1>3. \A u \in Spawned!Workers :
          worker[u] \in {"finished", "panicked"} => u # w /\ worker'[u] = worker[u]
  BY <1>0 DEF ThreadTypes
<1>4. call.n \in 0..MaxWorkers /\ joins \in 0..spawned /\ spawned <= call.n /\ spawned \in Nat
  BY <1>0, WorkersAre DEF Called, ThreadTypes
<1>5. \A u \in 1..joins : u \in Spawned!Workers
  BY <1>4, WorkersAre
<1>6. \A u \in 1..call.n : u \in Spawned!Workers
  BY <1>4, WorkersAre
<1>7. Called'
  BY <1>0, <1>2, <1>3, <1>5, <1>6 DEF Called
<1>8. Spawned!WorkJoined'
  <2>1. Spawned!WorkJoined
    BY DEF ThreadInv
  <2> QED BY <1>1, <1>3, <1>6, <2>1 DEF Spawned!WorkJoined
<1> QED BY <1>1, <1>2, <1>7, <1>8

\* A worker that computes on its own.
LEMMA ComputeKeeps == ASSUME ThreadInv, NEW w \in Spawned!Workers, Spawned!Compute(w) PROVE ThreadInv'
<1> USE DEF Spawned!Compute
<1>0. ThreadTypes /\ Called /\ Working
  BY DEF ThreadInv
<1>1. PICK p \in {"finished", "panicked"} :
          /\ worker' = [worker EXCEPT ![w] = p]
          /\ p = "panicked" <=> w \in call.panics
  BY Zenon
<1>2. Called' /\ Spawned!WorkJoined' /\ main \notin {"idle", "returned"}
  BY ONLY ThreadInv, <1>1, WorkerJoins, Spawned!Compute(w) DEF Spawned!Compute
<1>3. rounds[w] = 0 /\ call.rounds = 1 /\ rounds' = [rounds EXCEPT ![w] = @ + 1]
  BY <1>0 DEF Working, Called
<1>4. ThreadTypes'
  BY <1>0, <1>1, <1>3 DEF ThreadTypes, Spawned!Workers
<1>5. Working'
  <2>1. worker'[w] = p /\ rounds'[w] = 1 /\ ~(w > spawned)
    BY <1>0, <1>1, <1>3 DEF ThreadTypes, Working
  <2>2. \A u \in Spawned!Workers : u # w => worker'[u] = worker[u] /\ rounds'[u] = rounds[u]
    BY <1>0, <1>1, <1>3 DEF ThreadTypes
  <2>3. UNCHANGED <<call, spawned, mutex, counter, num, local>>
    OBVIOUS
  <2>4. call.fn # "increment_thread_local"
    BY DEF Spawned!Single, Spawned!Double
  <2> QED BY ONLY <1>0, <1>1, <1>3, <2>1, <2>2, <2>3, <2>4 DEF Working, Spawned!Workers
<1>6. Counted' /\ Listed'
  BY DEF Counted, Listed, Spawned!Single, Spawned!Double
<1> QED BY <1>2, <1>4, <1>5, <1>6 DEF ThreadInv

LEMMA LockKeeps == ASSUME ThreadInv, NEW w \in Spawned!Workers, Spawned!Lock(w) PROVE ThreadInv'
<1> USE DEF Spawned!Lock
<1>0. ThreadTypes /\ Called /\ Working
  BY DEF ThreadInv
<1>1. /\ worker' = [worker EXCEPT ![w] = "locked"] /\ num' = [num EXCEPT ![w] = counter]
      /\ mutex = Spawned!Nobody /\ mutex' = w /\ rounds[w] < call.rounds /\ worker[w] = "run"
      /\ UNCHANGED <<call, main, spawned, rounds, counter, list, local, joins>>
  BY DEF Spawned!Locked
<1>2. Called' /\ Spawned!WorkJoined' /\ main \notin {"idle", "returned"}
  BY ONLY ThreadInv, <1>1, WorkerJoins
<1>3. ThreadTypes'
  BY <1>0, <1>1 DEF ThreadTypes, Spawned!Workers
<1>4. Working'
  <2>1. worker'[w] = "locked" /\ num'[w] = counter /\ ~(w > spawned)
    BY <1>0, <1>1 DEF ThreadTypes, Working
  <2>2. \A u \in Spawned!Workers : u # w => worker'[u] = worker[u] /\ num'[u] = num[u]
    BY <1>0, <1>1 DEF ThreadTypes
  <2>3. \A u \in Spawned!Workers : worker[u] # "locked"
    BY <1>0, <1>1, WorkersAre DEF Working, Spawned!Nobody
  <2> QED BY <1>0, <1>1, <2>1, <2>2, <2>3 DEF Working, Spawned!Workers
<1>5. Counted' /\ Listed'
  BY <1>1, <1>2, SameSums
<1> QED BY <1>2, <1>3, <1>4, <1>5 DEF ThreadInv

\* Only one worker is between lock and update: the counter it read is the
\* latest, and what it pushes is not in the list yet.
LEMMA UpdateKeeps == ASSUME ThreadInv, NEW w \in Spawned!Workers, Spawned!Update(w) PROVE ThreadInv'
<1> USE DEF Spawned!Update
<1>0. ThreadTypes /\ Called /\ Working /\ Counted /\ Listed
  BY DEF ThreadInv
<1>1. /\ worker' = [worker EXCEPT ![w] = "run"] /\ rounds' = [rounds EXCEPT ![w] = @ + 1]
      /\ worker[w] = "locked" /\ mutex' = Spawned!Nobody
      /\ UNCHANGED <<call, main, spawned, num, local, joins>>
  OBVIOUS
<1>2. Called' /\ Spawned!WorkJoined' /\ main \notin {"idle", "returned"}
  BY ONLY ThreadInv, <1>1, WorkerJoins
<1>3. /\ call.fn \in Spawned!Locking /\ mutex = w /\ num[w] = counter /\ rounds[w] < call.rounds
      /\ \A u \in Spawned!Workers : worker[u] = "locked" => u = w
      /\ rounds[w] \in Nat /\ call.rounds \in 0..MaxThreadRounds /\ counter \in Nat /\ list \in Seq(Nat)
  BY <1>0, <1>1, <1>2 DEF Working, ThreadTypes, Called
<1>4. w - 1 \in Nat
  BY WorkersAre
<1>5. \/ call.fn = "concurrent_counter" /\ counter' = counter + 1 /\ list' = list
      \/ call.fn # "concurrent_counter" /\ list' = Append(list, w - 1) /\ counter' = counter
  BY <1>3
<1>6. ThreadTypes'
  <2>1. counter' \in Nat /\ list' \in Seq(Nat)
    <3>1. counter + 1 \in Nat /\ Append(list, w - 1) \in Seq(Nat)
      BY ONLY <1>3, <1>4
    <3> QED BY ONLY <1>3, <1>5, <3>1
  <2>2. /\ worker' \in [Spawned!Workers -> {"none", "run", "locked", "finished", "panicked"}]
        /\ rounds' \in [Spawned!Workers -> Nat]
    BY <1>0, <1>1 DEF ThreadTypes
  <2> QED BY ONLY <1>0, <1>1, <2>1, <2>2 DEF ThreadTypes, Spawned!Workers
<1>7. Working'
  <2>1. worker'[w] = "run" /\ rounds'[w] = rounds[w] + 1 /\ ~(w > spawned)
    BY <1>0, <1>1 DEF ThreadTypes, Working
  <2>2. \A u \in Spawned!Workers : u # w => worker'[u] = worker[u] /\ rounds'[u] = rounds[u]
    BY <1>0, <1>1 DEF ThreadTypes
  <2>3. rounds[w] + 1 <= call.rounds
    BY <1>3 DEF Called
  <2>4. call.fn \notin Spawned!Single \cup Spawned!Double /\ call.fn # "increment_thread_local"
    BY <1>3 DEF Spawned!Locking, Spawned!Single, Spawned!Double
  <2> QED BY ONLY <1>0, <1>1, <1>3, <2>1, <2>2, <2>3, <2>4 DEF Working, Spawned!Workers
<1>8. Counted'
  <2>1. ASSUME call.fn = "concurrent_counter" PROVE counter' = Cardinality(RoundsDone')
    <3>1. rounds[w] < MaxThreadRounds
      BY <1>3, WorkersAre
    <3>2. Cardinality(RoundsDone') = Cardinality(RoundsDone) + 1
      BY ONLY <1>0, <1>1, <3>1, OneMoreRound
    <3> QED BY <1>0, <1>5, <2>1, <3>2 DEF Counted
  <2> QED BY ONLY <1>1, <2>1 DEF Counted
<1>9. Listed'
  <2>0. CASE call.fn # "concurrent_collect"
    <3>1. call'.fn # "concurrent_collect"
      BY ONLY <1>1, <2>0
    <3> QED BY ONLY <3>1, Zenon DEF Listed
  <2>1. SUFFICES ASSUME call.fn = "concurrent_collect" PROVE Listed'
    BY <2>0
  <2>2. list' = Append(list, w - 1) /\ rounds[w] = 0
    BY <1>0, <1>3, <1>5, <2>1 DEF Called
  <2>3. /\ Len(list') = Len(list) + 1 /\ list'[Len(list')] = w - 1 /\ Len(list) \in Nat
        /\ \A k \in 1..Len(list) : list'[k] = list[k]
    BY <1>3, <1>4, <2>2
  <2>4. rounds'[w] = 1 /\ \A u \in Spawned!Workers : u # w => rounds'[u] = rounds[u]
    BY <1>0, <1>1, <2>2 DEF ThreadTypes
  <2>5. \A k \in 1..Len(list) : \E u \in Spawned!Workers : rounds[u] = 1 /\ list[k] = u - 1
    BY <1>0, <1>2, <2>1 DEF Listed
  <2>6. \A u \in Spawned!Workers : rounds[u] = 1 => \E k \in 1..Len(list) : list[k] = u - 1
    BY <1>0, <1>2, <2>1 DEF Listed
  <2>7. \A k, l \in 1..Len(list) : list[k] = list[l] => k = l
    BY <1>0, <1>2, <2>1 DEF Listed
  <2>8. \A k \in 1..Len(list') : k \in 1..Len(list) \/ k = Len(list')
    BY <2>3
  <2>9. \A k \in 1..Len(list) : list[k] # w - 1
    BY <2>2, <2>5, WorkersAre
  <2>10. \A k \in 1..Len(list') : \E u \in Spawned!Workers : rounds'[u] = 1 /\ list'[k] = u - 1
    BY ONLY <2>2, <2>3, <2>4, <2>5, <2>8
  <2>11. \A u \in Spawned!Workers : rounds'[u] = 1 => \E k \in 1..Len(list') : list'[k] = u - 1
    BY ONLY <2>3, <2>4, <2>6
  <2>12. \A k, l \in 1..Len(list') : list'[k] = list'[l] => k = l
    BY ONLY <2>3, <2>7, <2>8, <2>9
  <2> QED BY ONLY <2>10, <2>11, <2>12 DEF Listed, Spawned!Workers
<1> QED BY <1>2, <1>6, <1>7, <1>8, <1>9 DEF ThreadInv

LEMMA IncrementKeeps == ASSUME ThreadInv, NEW w \in Spawned!Workers, Spawned!Increment(w) PROVE ThreadInv'
<1> USE DEF Spawned!Increment
<1>0. ThreadTypes /\ Called /\ Working /\ worker[w] = "run"
  BY DEF ThreadInv
<1>1. worker' = [worker EXCEPT ![w] = "run"]
  BY <1>0 DEF ThreadTypes
<1>2. Called' /\ Spawned!WorkJoined' /\ main \notin {"idle", "returned"}
  BY ONLY ThreadInv, <1>0, <1>1, WorkerJoins, Spawned!Increment(w) DEF Spawned!Increment
<1>3. ThreadTypes'
  BY <1>0 DEF ThreadTypes, Spawned!Workers
<1>4. Working'
  <2>1. rounds'[w] = rounds[w] + 1 /\ local'[w] = local[w] + 1 /\ ~(w > spawned)
        /\ local[w] = rounds[w]
    BY <1>0 DEF ThreadTypes, Working
  <2>2. \A u \in Spawned!Workers : u # w => rounds'[u] = rounds[u] /\ local'[u] = local[u]
    BY <1>0 DEF ThreadTypes
  <2>3. rounds[w] \in Nat /\ call.rounds \in Nat /\ rounds[w] + 1 <= call.rounds
    BY <1>0 DEF ThreadTypes, Called
  <2>4. call.fn \notin Spawned!Single \cup Spawned!Double
    BY DEF Spawned!Single, Spawned!Double
  <2>5. UNCHANGED <<call, spawned, worker, mutex, counter, num>>
    OBVIOUS
  <2> QED BY ONLY <1>0, <2>1, <2>2, <2>3, <2>4, <2>5 DEF Working, Spawned!Workers
<1>5. Counted' /\ Listed'
  BY DEF Counted, Listed
<1> QED BY <1>2, <1>3, <1>4, <1>5 DEF ThreadInv

LEMMA FinishKeeps == ASSUME ThreadInv, NEW w \in Spawned!Workers, Spawned!Finish(w) PROVE ThreadInv'
<1> USE DEF Spawned!Finish
<1>0. ThreadTypes /\ Called /\ Working /\ worker[w] = "run"
  BY DEF ThreadInv
<1>1. worker' = [worker EXCEPT ![w] = "finished"]
  OBVIOUS
<1>2. Called' /\ Spawned!WorkJoined' /\ main \notin {"idle", "returned"}
  BY ONLY ThreadInv, <1>0, <1>1, WorkerJoins, Spawned!Finish(w) DEF Spawned!Finish
<1>3. ThreadTypes'
  BY <1>0 DEF ThreadTypes, Spawned!Workers
<1>4. Working'
  <2>1. worker'[w] = "finished" /\ ~(w > spawned)
    BY <1>0 DEF ThreadTypes, Working
  <2>2. \A u \in Spawned!Workers : u # w => worker'[u] = worker[u]
    BY <1>0 DEF ThreadTypes
  <2>3. call.panics = {}
    BY <1>0 DEF Called, Spawned!CanPanic
  <2>4. UNCHANGED <<call, spawned, rounds, mutex, counter, num, local>> /\ rounds[w] = call.rounds
    OBVIOUS
  <2> QED BY ONLY <1>0, <2>1, <2>2, <2>3, <2>4 DEF Working, Spawned!Workers
<1>5. Counted' /\ Listed'
  BY <1>2, SameSums
<1> QED BY <1>2, <1>3, <1>4, <1>5 DEF ThreadInv

\* Sorting a list of different numbers that are those below n gives them in
\* their order.
LEMMA SortedNumbers ==
    ASSUME NEW s \in Seq(Nat), NEW n \in Nat, NEW t \in Spawned!Sorted(s),
           \A k \in 1..Len(s) : s[k] \in 0..(n - 1),
           \A x \in 0..(n - 1) : \E k \in 1..Len(s) : s[k] = x,
           \A k, l \in 1..Len(s) : s[k] = s[l] => k = l
    PROVE  t = [i \in 1..n |-> i - 1]
<1> DEFINE L == Len(s)
<1>0. L \in Nat /\ DOMAIN s = 1..L
  OBVIOUS
<1>1. PICK p \in [1..L -> 1..L] :
          /\ \A i, j \in 1..L : p[i] = p[j] => i = j
          /\ \A k \in 1..L : \E i \in 1..L : p[i] = k
          /\ t = [i \in 1..L |-> s[p[i]]]
  <2>1. t \in Spawned!Permuted(s)
    BY DEF Spawned!Sorted
  <2>2. PICK q \in [DOMAIN s -> DOMAIN s] :
            /\ \A i, j \in DOMAIN s : q[i] = q[j] => i = j
            /\ \A k \in DOMAIN s : \E i \in DOMAIN s : q[i] = k
            /\ t = [i \in DOMAIN s |-> s[q[i]]]
    BY ONLY <2>1, Zenon DEF Spawned!Permuted
  <2> HIDE DEF L
  <2>3. /\ q \in [1..L -> 1..L]
        /\ \A i, j \in 1..L : q[i] = q[j] => i = j
        /\ \A k \in 1..L : \E i \in 1..L : q[i] = k
        /\ t = [i \in 1..L |-> s[q[i]]]
    BY ONLY <1>0, <2>2
  <2> QED BY ONLY <2>3
<1>2. \A i, j \in 1..L : i < j => t[i] <= t[j]
  BY <1>0 DEF Spawned!Sorted
<1>3. \A i \in 1..L : t[i] \in 0..(n - 1)
  BY <1>1
<1>4. \A x \in 0..(n - 1) : \E i \in 1..L : t[i] = x
  <2>1. ASSUME NEW x \in 0..(n - 1) PROVE \E i \in 1..L : t[i] = x
    <3>1. PICK k \in 1..L : s[k] = x
      OBVIOUS
    <3>2. PICK i \in 1..L : p[i] = k
      BY <1>1
    <3> QED BY <1>1, <3>1, <3>2
  <2> QED BY <2>1
<1>5. \A i, j \in 1..L : i < j => t[i] < t[j]
  <2>1. \A i, j \in 1..L : t[i] = t[j] => i = j
    <3>1. \A i \in 1..L : t[i] = s[p[i]] /\ p[i] \in 1..L
      BY ONLY <1>1
    <3>2. \A k, l \in 1..L : s[k] = s[l] => k = l
      OBVIOUS
    <3> HIDE DEF L
    <3> QED BY ONLY <1>1, <3>1, <3>2
  <2> QED BY <1>2, <1>3, <2>1
<1> HIDE DEF L
<1>6. \A i \in 1..L : t[i] = i - 1
  <2> DEFINE Wrong == {i \in 1..L : t[i] # i - 1}
  <2>1. SUFFICES ASSUME Wrong # {} PROVE FALSE
    OBVIOUS
  <2>2. PICK i \in Wrong : \A j \in Wrong : i <= j
    <3>1. Wrong \subseteq Nat
      BY <1>0
    <3> HIDE DEF Wrong
    <3> QED BY <2>1, <3>1, LeastNat
  <2>3. i \in 1..L /\ t[i] # i - 1 /\ \A j \in 1..L : j < i => t[j] = j - 1
    BY <1>0, <2>2
  <2>0. i \in Nat /\ i >= 1 /\ t[i] \in Int /\ t[i] >= 0 /\ t[i] <= n - 1
    BY ONLY <1>0, <1>3, <2>3, n \in Nat
  <2>4. t[i] > i - 1
    <3>1. CASE i = 1
      BY ONLY <2>0, <2>3, <3>1
    <3>2. CASE i # 1
      <4>1. i - 1 \in 1..L /\ i - 1 < i
        BY <1>0, <2>3, <3>2
      <4>2. t[i - 1] = i - 2 /\ t[i - 1] < t[i]
        BY <1>5, <2>3, <4>1
      <4> QED BY ONLY <2>0, <2>3, <4>2
    <3> QED BY <3>1, <3>2
  <2>5. i - 1 \in 0..(n - 1)
    BY ONLY <2>0, <2>4, n \in Nat
  <2>6. PICK m \in 1..L : t[m] = i - 1
    BY <1>4, <2>5
  <2>7. ~(m < i)
    BY <1>0, <2>3, <2>6
  <2>8. m # i
    BY <2>3, <2>6
  <2>9. i < m
    BY <1>0, <2>3, <2>7, <2>8
  <2>10. t[i] < t[m]
    BY <1>5, <2>3, <2>9
  <2> QED BY <1>3, <2>3, <2>4, <2>6, <2>10
<1>7. L = n
  <2>1. L <= n
    BY <1>0, <1>3, <1>6
  <2>2. n <= L
    <3>1. CASE n = 0
      BY <1>0, <3>1
    <3>2. CASE n > 0
      <4>1. PICK m \in 1..L : t[m] = n - 1
        <5>1. n - 1 \in 0..(n - 1)
          BY ONLY <3>2, n \in Nat
        <5> QED BY ONLY <1>4, <5>1
      <4> QED BY <1>0, <1>6, <3>2, <4>1
    <3> QED BY <3>1, <3>2
  <2> QED BY <1>0, <2>1, <2>2
<1>8. t = [i \in 1..L |-> t[i]]
  BY <1>1
<1> QED BY <1>6, <1>7, <1>8

\* All workers have done all their rounds when the caller has joined them.
LEMMA ReturnKeeps == ASSUME ThreadInv, Spawned!Return PROVE ThreadInv'
<1>0. ThreadTypes /\ Called /\ Working /\ Counted /\ Listed
  BY DEF ThreadInv
<1>1. /\ main = "join" /\ joins = call.n /\ main' = "returned" /\ answer' = "Ok"
      /\ list' \in Spawned!Sorted(list)
      /\ UNCHANGED <<call, spawned, worker, rounds, mutex, counter, num, local, joins>>
  BY DEF Spawned!Return
<1>2. call.n \in 0..MaxWorkers /\ call.n \in Nat /\ spawned = call.n /\ list \in Seq(Nat)
      /\ call.rounds \in 0..MaxThreadRounds
  BY <1>0, <1>1, WorkersAre DEF Called, ThreadTypes
<1>3. \A w \in 1..call.n : /\ w \in Spawned!Workers /\ worker[w] = "finished"
                           /\ rounds[w] = call.rounds /\ w \notin call.panics
  BY <1>0, <1>1, <1>2, WorkersAre DEF Called, Working
<1>4. \A w \in Spawned!Workers : w \notin 1..call.n => rounds[w] = 0
  BY <1>0, <1>2, WorkersAre DEF Working
<1>5. call.fn = "concurrent_counter" => counter = call.n * call.rounds
  <2>1. SUFFICES ASSUME call.fn = "concurrent_counter" PROVE counter = call.n * call.rounds
    OBVIOUS
  <2>2. RoundsDone = (1..call.n) \X (1..call.rounds)
    <3>1. ASSUME NEW w \in Spawned!Workers, NEW r \in 1..MaxThreadRounds
          PROVE  r <= rounds[w] <=> w \in 1..call.n /\ r \in 1..call.rounds
      BY <1>2, <1>3, <1>4, WorkersAre
    <3>2. (1..call.n) \X (1..call.rounds) \subseteq Spawned!Workers \X (1..MaxThreadRounds)
      BY <1>2, WorkersAre
    <3> QED BY <3>1, <3>2 DEF RoundsDone
  <2>3. /\ IsFiniteSet(1..call.n) /\ Cardinality(1..call.n) = call.n
        /\ IsFiniteSet(1..call.rounds) /\ Cardinality(1..call.rounds) = call.rounds
    <3>1. call.n \in Int /\ call.rounds \in Int /\ call.n >= 0 /\ call.rounds >= 0
      BY <1>2, WorkersAre
    <3>2. /\ IsFiniteSet(1..call.n) /\ Cardinality(1..call.n) = IF 1 > call.n THEN 0 ELSE call.n - 1 + 1
          /\ IsFiniteSet(1..call.rounds)
          /\ Cardinality(1..call.rounds) = IF 1 > call.rounds THEN 0 ELSE call.rounds - 1 + 1
      <4>1. \A b \in Int : /\ IsFiniteSet(1..b)
                            /\ Cardinality(1..b) = IF 1 > b THEN 0 ELSE b - 1 + 1
        BY ONLY FS_Interval, 1 \in Int
      <4> QED BY ONLY <3>1, <4>1
    <3> QED BY <3>1, <3>2
  <2>4. Cardinality(RoundsDone) = call.n * call.rounds
    BY <2>2, <2>3, FS_Product
  <2> QED BY <1>0, <2>1, <2>4 DEF Counted
<1>6. call.fn = "concurrent_collect" => list' = [i \in 1..call.n |-> i - 1]
  <2>1. SUFFICES ASSUME call.fn = "concurrent_collect" PROVE list' = [i \in 1..call.n |-> i - 1]
    OBVIOUS
  <2>2. call.rounds = 1
    BY <1>0, <2>1 DEF Called
  <2>3. \A w \in Spawned!Workers : rounds[w] = 1 <=> w \in 1..call.n
    BY <1>3, <1>4, <2>2
  <2>4. /\ \A k \in 1..Len(list) : \E w \in Spawned!Workers : rounds[w] = 1 /\ list[k] = w - 1
        /\ \A w \in Spawned!Workers : rounds[w] = 1 => \E k \in 1..Len(list) : list[k] = w - 1
        /\ \A k, l \in 1..Len(list) : list[k] = list[l] => k = l
    BY <1>0, <1>1, <2>1 DEF Listed
  <2>5. \A k \in 1..Len(list) : list[k] \in 0..(call.n - 1)
    <3>1. \A w \in 1..call.n : w - 1 \in 0..(call.n - 1)
      BY <1>2
    <3> QED BY <2>3, <2>4, <3>1
  <2>6. \A x \in 0..(call.n - 1) : \E k \in 1..Len(list) : list[k] = x
    <3>1. ASSUME NEW x \in 0..(call.n - 1) PROVE \E k \in 1..Len(list) : list[k] = x
      <4>1. x + 1 \in 1..call.n /\ (x + 1) - 1 = x
        BY <1>2
      <4>2. PICK k \in 1..Len(list) : list[k] = (x + 1) - 1
        BY <1>3, <2>3, <2>4, <4>1
      <4> QED BY <4>1, <4>2
    <3> QED BY <3>1
  <2>7. \A k, l \in 1..Len(list) : list[k] = list[l] => k = l
    BY <2>4
  <2> QED BY ONLY <1>1, <1>2, <2>5, <2>6, <2>7, SortedNumbers
<1>7. Spawned!WorkJoined'
  <2>1. call.fn = "increment_thread_local" => \A w \in 1..call.n : local[w] = call.rounds
    BY <1>0, <1>3 DEF Working
  <2>2. call.panics = {}
    BY <1>0, <1>3 DEF Called
  <2> QED
    BY ONLY <1>1, <1>3, <1>5, <1>6, <2>1, <2>2
    DEF Spawned!WorkJoined, Spawned!AllDone, Spawned!Over
<1>8. ThreadTypes'
  BY <1>0, <1>1 DEF ThreadTypes, Spawned!Workers
<1>9. Called'
  BY <1>0, <1>1 DEF Called
<1>10. Working' /\ Counted' /\ Listed'
  <2>1. Working'
    BY <1>0, <1>1 DEF Working, Spawned!Workers
  <2>2. RoundsDone' = RoundsDone
    BY <1>1 DEF RoundsDone, Spawned!Workers
  <2>3. Counted'
    BY <1>0, <1>1, <2>2 DEF Counted
  <2> QED BY <1>1, <2>1, <2>3 DEF Listed
<1> QED BY <1>7, <1>8, <1>9, <1>10 DEF ThreadInv

LEMMA ThreadStep == ThreadInv /\ [Spawned!Next]_Spawned!vars => ThreadInv'
<1>1. ASSUME ThreadInv, UNCHANGED Spawned!vars PROVE ThreadInv'
  BY <1>1 DEF ThreadInv, Spawned!vars, ThreadTypes, Called, Working, Counted, Listed, RoundsDone,
              Spawned!WorkJoined, Spawned!AllDone, Spawned!Over, Spawned!Workers
<1> QED
  BY <1>1, CallKeepsThreads, SpawnKeeps, JoinKeeps, ReturnKeeps, ComputeKeeps, LockKeeps,
     UpdateKeeps, IncrementKeeps, FinishKeeps
  DEF Spawned!Next, Spawned!MainStep, Spawned!WorkerStep

\* However the workers interleave and whichever of them panics: a function of
\* 01_thread_spawn or 02_mutex_counter that returns has joined all its workers,
\* the counter and the list have all they did, and Err tells of a panic; a scope
\* that panics leaves no worker behind - for any number of workers and rounds.
THEOREM NothingJoinedIsLost ==
    Spawned!Init /\ [][Spawned!Next]_Spawned!vars => []WorkJoined
<1>1. ThreadInv => WorkJoined
  BY DEF ThreadInv, WorkJoined
<1> QED BY <1>1, ThreadInit, ThreadStep, PTL
=============================================================================
