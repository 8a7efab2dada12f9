---------------------------- MODULE RwLockProofs ----------------------------
(* Theorems about RwLock for every finite set of threads, every reader     *)
(* limit and every modulus.                                                *)
EXTENDS RwLock, FiniteSetTheorems, TLAPS

-----------------------------------------------------------------------------
(* The word's operations stay in the word. *)

LEMMA WordOps ==
    ASSUME NEW s \in Word
    PROVE  /\ SetWaiting(s) \in Word
           /\ AddReader(s) \in Word
           /\ SubReader(s) \in Word
           /\ ClearWriter(s) \in Word
  <1>. USE RwLockAssumption DEF Word, RwLockAssumption
  <1>1. SetWaiting(s) \in Word
    BY DEF SetWaiting
  <1>2. AddReader(s) \in Word
    <2>1. CASE s.readers < ReaderMask
      BY <2>1 DEF AddReader
    <2>2. CASE ~(s.readers < ReaderMask)
      <3>1. 0 \in 0..ReaderMask
        OBVIOUS
      <3>2. (~s.holding) \in BOOLEAN
        OBVIOUS
      <3>3. (IF s.holding THEN ~s.waiting ELSE s.waiting) \in BOOLEAN
        OBVIOUS
      <3>. QED  BY <2>2, <3>1, <3>2, <3>3, Zenon DEF AddReader
    <2>. QED  BY <2>1, <2>2
  <1>3. SubReader(s) \in Word
    <2>1. CASE s.readers > 0
      BY <2>1 DEF SubReader
    <2>2. CASE ~(s.readers > 0)
      <3>1. ReaderMask \in 0..ReaderMask
        OBVIOUS
      <3>2. (~s.holding) \in BOOLEAN
        OBVIOUS
      <3>3. (IF s.holding THEN s.waiting ELSE ~s.waiting) \in BOOLEAN
        OBVIOUS
      <3>. QED  BY <2>2, <3>1, <3>2, <3>3, Zenon DEF SubReader
    <2>. QED  BY <2>1, <2>2
  <1>4. ClearWriter(s) \in Word
    BY DEF ClearWriter
  <1>. QED  BY <1>1, <1>2, <1>3, <1>4

LEMMA WordConstants == Free \in Word /\ Held \in Word
  <1>1. 0 \in 0..ReaderMask
    BY RwLockAssumption DEF RwLockAssumption
  <1>2. Free \in Word
    BY <1>1 DEF Word, Free
  <1>3. Held \in Word
    BY <1>1 DEF Word, Held
  <1>. QED  BY <1>2, <1>3

LEMMA TypeInit == Init => TypeOK
  BY RwLockAssumption, WordConstants DEF Init, TypeOK, Labels, Accesses

LEMMA TypeStep == TypeOK /\ [Next]_vars => TypeOK'
  <1> SUFFICES ASSUME TypeOK, [Next]_vars PROVE TypeOK'
    OBVIOUS
  <1> USE DEF TypeOK, Labels
  <1>1. ASSUME NEW t \in Threads, NEW k \in {"r", "w"}, Access(t, k)
        PROVE  know' \in [Threads -> SUBSET Accesses] /\ released' \in SUBSET Accesses
    BY <1>1 DEF Access, Accesses
  <1>2. ASSUME NEW t \in Threads
        PROVE  Acquire(t) \in [Threads -> SUBSET Accesses] /\ Release(t) \in SUBSET Accesses
    BY DEF Acquire, Release
  <1>3. ASSUME NEW t \in Threads, CallRead(t) \/ CallWrite(t) PROVE TypeOK'
    BY <1>3 DEF CallRead, CallWrite, Goto
  <1>4. ASSUME NEW t \in Threads, ReadLoad(t) \/ WriteLoad(t) PROVE TypeOK'
    BY <1>4, <1>2 DEF ReadLoad, WriteLoad, Goto
  <1>5. ASSUME NEW t \in Threads, ReadCas(t) PROVE TypeOK'
    BY <1>5, <1>2, WordOps, WordConstants DEF ReadCas, Goto
  <1>6. ASSUME NEW t \in Threads, NEW e, NEW l \in {"w_cas_free", "w_load"},
               WriteCas(t, e, l)
        PROVE  TypeOK'
    BY <1>6, <1>2, WordConstants DEF WriteCas, Goto
  <1>7. ASSUME NEW t \in Threads, WriteCasWaiting(t) \/ WriteCasFree(t) PROVE TypeOK'
    BY <1>7, <1>6 DEF WriteCasWaiting, WriteCasFree
  <1>8. ASSUME NEW t \in Threads, WriteAnnounce(t) PROVE TypeOK'
    BY <1>8, <1>2, WordOps DEF WriteAnnounce, Goto
  <1>9. ASSUME NEW t \in Threads, ReadData(t) PROVE TypeOK'
    BY <1>9, <1>1 DEF ReadData
  <1>10. ASSUME NEW t \in Threads, DropRead(t) \/ DropWrite(t) PROVE TypeOK'
    BY <1>10, <1>2, WordOps DEF DropRead, DropWrite, Goto
  <1>11. ASSUME NEW t \in Threads, LoadData(t) PROVE TypeOK'
    BY <1>11, <1>1 DEF LoadData, Goto
  <1>12. ASSUME NEW t \in Threads, StoreData(t) PROVE TypeOK'
    <2>1. Succ(reg[t]) \in 0..(Modulus - 1) /\ 0 \in 0..(Modulus - 1)
      BY RwLockAssumption DEF Succ
    <2>. QED  BY <1>12, <1>1, <2>1 DEF StoreData, Goto
  <1>13. CASE UNCHANGED vars
    BY <1>13 DEF vars
  <1>. QED
    BY <1>3, <1>4, <1>5, <1>7, <1>8, <1>9, <1>10, <1>11, <1>12, <1>13
    DEF Next, Trying, Leaving

\* Every variable keeps its type; the word stays a count and two flags, though
\* read() adds to it and drops subtract from it without a lock.
THEOREM Typing == Spec => []TypeOK
  BY TypeInit, TypeStep, PTL DEF Spec

-----------------------------------------------------------------------------
(* Mutual exclusion.  What makes it inductive is that the word's count is  *)
(* the number of read guards and that a thread only tries its              *)
(* compare_exchange with a value that admits it.                           *)

SeenAdmits ==
    \A t \in Threads :
        /\ pc[t] = "r_cas" => ~ReaderBlocked(seen[t])
        /\ pc[t] = "w_cas_waiting" => ~WriterBlocked(seen[t])

LockInv == TypeOK /\ SeenAdmits /\ CountAccurate /\ Exclusion /\ NoOrphanWaiting

\* How the three sets of threads change when t goes to label l.
LEMMA Moves ==
    ASSUME TypeOK, NEW t \in Threads, NEW l, Goto(t, l)
    PROVE  /\ ReadHolders' = IF l = "reading" THEN ReadHolders \cup {t}
                                              ELSE ReadHolders \ {t}
           /\ WriteHolders' = IF l \in {"writing", "storing", "written"}
                              THEN WriteHolders \cup {t} ELSE WriteHolders \ {t}
           /\ WaitingWriters' = IF l \in {"w_load", "w_cas_waiting", "w_cas_free"}
                                THEN WaitingWriters \cup {t}
                                ELSE WaitingWriters \ {t}
  <1>1. pc' = [pc EXCEPT ![t] = l] /\ pc \in [Threads -> Labels]
    BY DEF Goto, TypeOK
  <1>2. pc'[t] = l /\ \A u \in Threads \ {t} : pc'[u] = pc[u]
    BY <1>1
  <1>3. ReadHolders' = IF l = "reading" THEN ReadHolders \cup {t}
                                        ELSE ReadHolders \ {t}
    BY <1>2 DEF ReadHolders
  <1>4. WriteHolders' = IF l \in {"writing", "storing", "written"}
                        THEN WriteHolders \cup {t} ELSE WriteHolders \ {t}
    BY <1>2 DEF WriteHolders
  <1>5. WaitingWriters' = IF l \in {"w_load", "w_cas_waiting", "w_cas_free"}
                          THEN WaitingWriters \cup {t} ELSE WaitingWriters \ {t}
    BY <1>2 DEF WaitingWriters
  <1>. QED  BY <1>3, <1>4, <1>5

\* The holders are finite sets and their sizes move by one.
LEMMA Counting ==
    ASSUME NEW t \in Threads
    PROVE  /\ Cardinality(ReadHolders) \in Nat
           /\ Cardinality(ReadHolders) = 0 <=> ReadHolders = {}
           /\ t \in ReadHolders =>
                 /\ Cardinality(ReadHolders) > 0
                 /\ Cardinality(ReadHolders \ {t}) = Cardinality(ReadHolders) - 1
           /\ t \notin ReadHolders =>
                 Cardinality(ReadHolders \cup {t}) = Cardinality(ReadHolders) + 1
  <1>1. IsFiniteSet(ReadHolders)
    BY RwLockAssumption, FS_Subset DEF ReadHolders, RwLockAssumption
  <1>2. Cardinality(ReadHolders) \in Nat
    BY <1>1, FS_CardinalityType
  <1>3. Cardinality(ReadHolders) = 0 <=> ReadHolders = {}
    BY <1>1, FS_EmptySet
  <1>4. ASSUME t \notin ReadHolders
        PROVE  Cardinality(ReadHolders \cup {t}) = Cardinality(ReadHolders) + 1
    BY <1>1, <1>4, FS_AddElement
  <1>5. ASSUME t \in ReadHolders
        PROVE  /\ Cardinality(ReadHolders) > 0
               /\ Cardinality(ReadHolders \ {t}) = Cardinality(ReadHolders) - 1
    <2>1. Cardinality(ReadHolders \ {t}) = Cardinality(ReadHolders) - 1
      BY <1>1, <1>5, FS_RemoveElement
    <2>2. Cardinality(ReadHolders) # 0
      BY <1>3, <1>5
    <2>. QED  BY <1>2, <2>1, <2>2
  <1>. QED  BY <1>2, <1>3, <1>4, <1>5

\* A step that keeps the word and the guards keeps what the word says of them.
LEMMA Quiet ==
    ASSUME CountAccurate, Exclusion, NoOrphanWaiting,
           state' = state, ReadHolders' = ReadHolders,
           WriteHolders' = WriteHolders, WaitingWriters \subseteq WaitingWriters'
    PROVE  CountAccurate' /\ Exclusion' /\ NoOrphanWaiting'
  BY DEF CountAccurate, Exclusion, NoOrphanWaiting

LEMMA LockInit == Init => LockInv
  <1>. SUFFICES ASSUME Init PROVE LockInv
    OBVIOUS
  <1>1. ReadHolders = {} /\ WriteHolders = {}
    BY DEF Init, ReadHolders, WriteHolders
  <1>2. CountAccurate /\ Exclusion /\ NoOrphanWaiting
    BY <1>1, FS_EmptySet DEF Init, Free, CountAccurate, Exclusion, NoOrphanWaiting
  <1>3. TypeOK
    BY TypeInit
  <1>. QED  BY <1>2, <1>3 DEF LockInv, SeenAdmits, Init

LEMMA LockStep == LockInv /\ [Next]_vars => LockInv'
  <1>. SUFFICES ASSUME LockInv, [Next]_vars PROVE LockInv'
    OBVIOUS
  <1>. USE DEF LockInv
  <1>1. TypeOK'
    BY TypeStep
  <1>. DEFINE Same == /\ state' = state
                      /\ ReadHolders' = ReadHolders
                      /\ WriteHolders' = WriteHolders
                      /\ WaitingWriters \subseteq WaitingWriters'
  <1>2. ASSUME Same, SeenAdmits' PROVE LockInv'
    BY <1>1, <1>2, Quiet
  <1>3. ASSUME NEW t \in Threads, CallRead(t) \/ CallWrite(t) PROVE LockInv'
    <2>1. ReadHolders' = ReadHolders /\ WriteHolders' = WriteHolders
            /\ WaitingWriters' = WaitingWriters
      BY <1>3, Moves DEF CallRead, CallWrite, ReadHolders, WriteHolders, WaitingWriters
    <2>2. SeenAdmits'
      BY <1>3 DEF SeenAdmits, CallRead, CallWrite, Goto, TypeOK
    <2>. QED  BY <1>2, <1>3, <2>1, <2>2 DEF CallRead, CallWrite
  <1>4. ASSUME NEW t \in Threads, ReadLoad(t) PROVE LockInv'
    <2>1. Same
      BY <1>4, Moves DEF ReadLoad, ReadHolders, WriteHolders, WaitingWriters
    <2>2. SeenAdmits'
      BY <1>4 DEF SeenAdmits, ReadLoad, Goto, TypeOK
    <2>. QED  BY <1>2, <2>1, <2>2
  <1>5. ASSUME NEW t \in Threads, WriteLoad(t) PROVE LockInv'
    <2>1. Same
      BY <1>5, Moves DEF WriteLoad, ReadHolders, WriteHolders, WaitingWriters
    <2>2. SeenAdmits'
      BY <1>5 DEF SeenAdmits, WriteLoad, Goto, TypeOK
    <2>. QED  BY <1>2, <2>1, <2>2
  <1>6. ASSUME NEW t \in Threads, ReadCas(t) PROVE LockInv'
    <2>1. CASE state # seen[t]
      <3>1. Same
        BY <1>6, <2>1, Moves DEF ReadCas, ReadHolders, WriteHolders, WaitingWriters
      <3>2. SeenAdmits'
        BY <1>6, <2>1 DEF SeenAdmits, ReadCas, Goto, TypeOK
      <3>. QED  BY <1>2, <3>1, <3>2
    <2>2. CASE state = seen[t]
      <3>1. state' = [state EXCEPT !.readers = @ + 1] /\ ~state.holding /\ ~state.waiting
        <4>1. ~ReaderBlocked(state)
          BY <1>6, <2>2 DEF ReadCas, SeenAdmits
        <4>2. state.readers < ReaderMask
          BY <4>1, RwLockAssumption
          DEF ReaderBlocked, RwLockAssumption, TypeOK, Word
        <4>. QED  BY <1>6, <2>2, <4>1, <4>2 DEF ReadCas, AddReader, ReaderBlocked
      <3>2. /\ state'.readers = state.readers + 1
            /\ state'.holding = state.holding
            /\ state'.waiting = state.waiting
        BY <3>1 DEF TypeOK, Word
      <3>3. /\ t \notin ReadHolders
            /\ ReadHolders' = ReadHolders \cup {t}
            /\ WriteHolders' = WriteHolders
        BY <1>6, <2>2, Moves DEF ReadCas, ReadHolders, WriteHolders
      <3>4. WriteHolders = {}
        BY <3>1 DEF CountAccurate
      <3>5. CountAccurate'
        BY <3>2, <3>3, Counting DEF CountAccurate
      <3>6. Exclusion' /\ NoOrphanWaiting'
        BY <3>1, <3>2, <3>3, <3>4 DEF Exclusion, NoOrphanWaiting
      <3>7. SeenAdmits'
        BY <1>6, <2>2 DEF SeenAdmits, ReadCas, Goto, TypeOK
      <3>. QED  BY <1>1, <3>5, <3>6, <3>7
    <2>. QED  BY <2>1, <2>2
  <1>7. ASSUME NEW t \in Threads, ReadData(t) PROVE LockInv'
    <2>1. Same /\ SeenAdmits'
      BY <1>7 DEF ReadData, ReadHolders, WriteHolders, WaitingWriters, SeenAdmits
    <2>. QED  BY <1>2, <2>1
  <1>8. ASSUME NEW t \in Threads, DropRead(t) PROVE LockInv'
    <2>1. /\ t \in ReadHolders
          /\ ReadHolders' = ReadHolders \ {t}
          /\ WriteHolders' = WriteHolders
          /\ WaitingWriters' = WaitingWriters
      BY <1>8, Moves DEF DropRead, ReadHolders, WriteHolders, WaitingWriters
    <2>2. state.readers > 0
      BY <2>1, Counting DEF CountAccurate
    <2>3. /\ state'.readers = state.readers - 1
          /\ state'.holding = state.holding
          /\ state'.waiting = state.waiting
      BY <1>8, <2>2 DEF DropRead, SubReader, TypeOK, Word
    <2>4. CountAccurate'
      BY <2>1, <2>3, Counting DEF CountAccurate
    <2>5. Exclusion' /\ NoOrphanWaiting'
      BY <2>1, <2>3 DEF Exclusion, NoOrphanWaiting
    <2>6. SeenAdmits'
      BY <1>8 DEF SeenAdmits, DropRead, Goto, TypeOK
    <2>. QED  BY <1>1, <2>4, <2>5, <2>6
  <1>9. ASSUME NEW t \in Threads, WriteAnnounce(t) PROVE LockInv'
    <2>1. /\ ReadHolders' = ReadHolders
          /\ WriteHolders' = WriteHolders
          /\ t \in WaitingWriters'
      BY <1>9, Moves DEF WriteAnnounce, ReadHolders, WriteHolders
    <2>2. state'.readers = state.readers /\ state'.holding = state.holding
      BY <1>9 DEF WriteAnnounce, SetWaiting, TypeOK, Word
    <2>3. CountAccurate' /\ Exclusion' /\ NoOrphanWaiting'
      BY <2>1, <2>2 DEF CountAccurate, Exclusion, NoOrphanWaiting
    <2>4. SeenAdmits'
      BY <1>9 DEF SeenAdmits, WriteAnnounce, Goto, TypeOK
    <2>. QED  BY <1>1, <2>3, <2>4
  <1>10. ASSUME NEW t \in Threads, NEW e \in Word, ~WriterBlocked(e),
                NEW l \in {"w_cas_free", "w_load"},
                pc[t] \in {"w_cas_waiting", "w_cas_free"}, WriteCas(t, e, l)
         PROVE  LockInv'
    <2>1. SeenAdmits'
      BY <1>10 DEF SeenAdmits, WriteCas, Goto, TypeOK
    <2>2. CASE state # e
      <3>1. Same
        BY <1>10, <2>2, Moves DEF WriteCas, ReadHolders, WriteHolders, WaitingWriters
      <3>. QED  BY <1>2, <2>1, <3>1
    <2>3. CASE state = e
      <3>1. state' = Held /\ ReadHolders = {} /\ WriteHolders = {}
        BY <1>10, <2>3, Counting
        DEF WriteCas, CountAccurate, WriterBlocked
      <3>2. ReadHolders' = {} /\ WriteHolders' = {t}
        BY <1>10, <2>3, <3>1, Moves DEF WriteCas
      <3>3. CountAccurate'
        BY <3>1, <3>2, FS_EmptySet DEF CountAccurate, Held
      <3>4. Exclusion' /\ NoOrphanWaiting'
        BY <3>1, <3>2 DEF Exclusion, NoOrphanWaiting, Held
      <3>. QED  BY <1>1, <2>1, <3>3, <3>4
    <2>. QED  BY <2>2, <2>3
  <1>11. ASSUME NEW t \in Threads, WriteCasWaiting(t) PROVE LockInv'
    <2>1. SetWaiting(seen[t]) \in Word
      BY WordOps DEF TypeOK
    <2>2. ~WriterBlocked(SetWaiting(seen[t]))
      BY <1>11 DEF WriteCasWaiting, SeenAdmits, SetWaiting, WriterBlocked, TypeOK, Word
    <2>. QED  BY <1>10, <1>11, <2>1, <2>2 DEF WriteCasWaiting
  <1>12. ASSUME NEW t \in Threads, WriteCasFree(t) PROVE LockInv'
    <2>1. Free \in Word /\ ~WriterBlocked(Free)
      BY WordConstants DEF Free, WriterBlocked
    <2>. QED  BY <1>10, <1>12, <2>1 DEF WriteCasFree
  <1>13. ASSUME NEW t \in Threads, LoadData(t) PROVE LockInv'
    <2>1. Same
      BY <1>13, Moves DEF LoadData, ReadHolders, WriteHolders, WaitingWriters
    <2>2. SeenAdmits'
      BY <1>13 DEF SeenAdmits, LoadData, Goto, TypeOK
    <2>. QED  BY <1>2, <2>1, <2>2
  <1>14. ASSUME NEW t \in Threads, StoreData(t) PROVE LockInv'
    <2>1. Same
      BY <1>14, Moves DEF StoreData, ReadHolders, WriteHolders, WaitingWriters
    <2>2. SeenAdmits'
      BY <1>14 DEF SeenAdmits, StoreData, Goto, TypeOK
    <2>. QED  BY <1>2, <2>1, <2>2
  <1>15. ASSUME NEW t \in Threads, DropWrite(t) PROVE LockInv'
    <2>1. /\ t \in WriteHolders
          /\ WriteHolders' = WriteHolders \ {t}
          /\ ReadHolders' = ReadHolders
      BY <1>15, Moves DEF DropWrite, ReadHolders, WriteHolders
    <2>2. WriteHolders' = {} /\ ReadHolders' = {}
      BY <2>1 DEF Exclusion
    <2>3. state' = [state EXCEPT !.holding = FALSE, !.waiting = FALSE]
      BY <1>15 DEF DropWrite, ClearWriter
    <2>4. ~state'.holding /\ ~state'.waiting /\ state'.readers = state.readers
      BY <2>3 DEF TypeOK, Word
    <2>5. CountAccurate' /\ Exclusion' /\ NoOrphanWaiting'
      BY <2>1, <2>2, <2>4 DEF CountAccurate, Exclusion, NoOrphanWaiting
    <2>6. SeenAdmits'
      BY <1>15 DEF SeenAdmits, DropWrite, Goto, TypeOK
    <2>. QED  BY <1>1, <2>5, <2>6
  <1>16. CASE UNCHANGED vars
    <2>1. Same /\ SeenAdmits'
      BY <1>16 DEF vars, ReadHolders, WriteHolders, WaitingWriters, SeenAdmits
    <2>. QED  BY <1>2, <2>1
  <1>. QED
    BY <1>3, <1>4, <1>5, <1>6, <1>7, <1>8, <1>9, <1>11, <1>12, <1>13, <1>14,
       <1>15, <1>16
    DEF Next, Trying, Leaving

LEMMA LockInvariant == Spec => []LockInv
  BY LockInit, LockStep, PTL DEF Spec

\* A write guard is the only guard: two threads in write(), or one in read()
\* and one in write(), never both return, for any number of threads.
THEOREM MutualExclusion == Spec => []Exclusion
  <1>1. LockInv => Exclusion
    BY DEF LockInv
  <1>. QED  BY <1>1, LockInvariant, PTL

\* The word's count and WRITER_HOLDING always agree with the guards alive, so
\* fetch_sub never borrows from the flags and s + 1 never carries into them.
THEOREM WordIsAccurate == Spec => []CountAccurate
  <1>1. LockInv => CountAccurate
    BY DEF LockInv
  <1>. QED  BY <1>1, LockInvariant, PTL

\* WRITER_WAITING never outlives the writers in the loop of write(): readers
\* are never turned away by a bit that nobody will clear.
THEOREM WaitingIsOwned == Spec => []NoOrphanWaiting
  <1>1. LockInv => NoOrphanWaiting
    BY DEF LockInv
  <1>. QED  BY <1>1, LockInvariant, PTL

-----------------------------------------------------------------------------
(* Freedom from data races.  An access that the word has not published was *)
(* made under a guard that still lives, so a thread the lock admits learns *)
(* every conflicting access from its Acquire.                              *)

Published ==
    \A t \in Threads :
        /\ <<t, "w">> \notin released => t \in WriteHolders
        /\ <<t, "r">> \notin released => t \in ReadHolders \cup WriteHolders

KnowsOwn == \A t \in Threads : <<t, "r">> \in know[t]

RaceInv == Published /\ KnowsOwn /\ DataRaceFree

LEMMA RaceInit == Init => RaceInv
  BY DEF Init, RaceInv, Published, KnowsOwn, DataRaceFree, Accesses, ReadHolders,
         WriteHolders

\* Learning and publishing more, with the same guards, keeps RaceInv.
LEMMA Learning ==
    ASSUME TypeOK, RaceInv, released \subseteq released',
           \A u \in Threads : know[u] \subseteq know'[u],
           ReadHolders' = ReadHolders, WriteHolders' = WriteHolders
    PROVE  RaceInv'
  BY DEF RaceInv, Published, KnowsOwn, DataRaceFree, ReadHolders, WriteHolders

LEMMA Acquiring ==
    ASSUME TypeOK, NEW t \in Threads, know' = Acquire(t)
    PROVE  /\ \A u \in Threads : know[u] \subseteq know'[u]
           /\ know'[t] = know[t] \cup released
  BY DEF Acquire, TypeOK

LEMMA RaceStep == LockInv /\ RaceInv /\ [Next]_vars => RaceInv'
  <1>. SUFFICES ASSUME LockInv, RaceInv, [Next]_vars PROVE RaceInv'
    OBVIOUS
  <1>. USE DEF LockInv
  <1>1. ASSUME NEW t \in Threads, CallRead(t) \/ CallWrite(t) PROVE RaceInv'
    <2>1. ReadHolders' = ReadHolders /\ WriteHolders' = WriteHolders
      BY <1>1, Moves DEF CallRead, CallWrite, ReadHolders, WriteHolders
    <2>. QED  BY <1>1, <2>1, Learning DEF CallRead, CallWrite
  <1>2. ASSUME NEW t \in Threads, ReadLoad(t) \/ WriteLoad(t) PROVE RaceInv'
    <2>1. ReadHolders' = ReadHolders /\ WriteHolders' = WriteHolders
      BY <1>2, Moves DEF ReadLoad, WriteLoad, ReadHolders, WriteHolders
    <2>. QED  BY <1>2, <2>1, Learning, Acquiring DEF ReadLoad, WriteLoad
  <1>3. ASSUME NEW t \in Threads, ReadCas(t) PROVE RaceInv'
    <2>1. CASE state # seen[t]
      <3>1. ReadHolders' = ReadHolders /\ WriteHolders' = WriteHolders
        BY <1>3, <2>1, Moves DEF ReadCas, ReadHolders, WriteHolders
      <3>. QED  BY <1>3, <2>1, <3>1, Learning, Acquiring DEF ReadCas
    <2>2. CASE state = seen[t]
      <3>1. WriteHolders = {}
        BY <1>3, <2>2 DEF ReadCas, SeenAdmits, ReaderBlocked, CountAccurate
      <3>2. ReadHolders' = ReadHolders \cup {t} /\ WriteHolders' = {}
        BY <1>3, <2>2, <3>1, Moves DEF ReadCas
      <3>3. /\ \A u \in Threads : know[u] \subseteq know'[u]
            /\ released \subseteq know'[t]
            /\ released \subseteq released'
        BY <1>3, <2>2, Acquiring DEF ReadCas
      <3>4. Threads \X {"w"} \subseteq released
        <4>1. \A u \in Threads : <<u, "w">> \in released
          BY <3>1 DEF RaceInv, Published
        <4>. QED  BY <4>1
      <3>. QED  BY <3>1, <3>2, <3>3, <3>4
                DEF RaceInv, Published, KnowsOwn, DataRaceFree, ReadHolders
    <2>. QED  BY <2>1, <2>2
  <1>4. ASSUME NEW t \in Threads, ReadData(t) PROVE RaceInv'
    <2>1. /\ t \in ReadHolders /\ WriteHolders = {}
          /\ ReadHolders' = ReadHolders /\ WriteHolders' = WriteHolders
      BY <1>4 DEF ReadData, ReadHolders, WriteHolders, Exclusion
    <2>. QED  BY <1>4, <2>1 DEF ReadData, Access, RaceInv, Published, KnowsOwn,
                                DataRaceFree, ReadHolders, TypeOK
  <1>5. ASSUME NEW t \in Threads, DropRead(t) PROVE RaceInv'
    <2>1. /\ t \in ReadHolders /\ WriteHolders = {}
          /\ ReadHolders' = ReadHolders \ {t} /\ WriteHolders' = {}
      <3>1. t \in ReadHolders
        BY <1>5 DEF DropRead, ReadHolders
      <3>2. WriteHolders = {}
        BY <3>1 DEF Exclusion
      <3>. QED  BY <1>5, <3>1, <3>2, Moves DEF DropRead
    <2>2. <<t, "r">> \in released' /\ <<t, "w">> \in released'
      BY <1>5, <2>1 DEF DropRead, Release, RaceInv, KnowsOwn, DataRaceFree
    <2>3. released \subseteq released' /\ know' = know
      BY <1>5 DEF DropRead, Release
    <2>. QED  BY <2>1, <2>2, <2>3 DEF RaceInv, Published, KnowsOwn, DataRaceFree
  <1>6. ASSUME NEW t \in Threads, WriteAnnounce(t) PROVE RaceInv'
    <2>1. ReadHolders' = ReadHolders /\ WriteHolders' = WriteHolders
      BY <1>6, Moves DEF WriteAnnounce, ReadHolders, WriteHolders
    <2>. QED  BY <1>6, <2>1, Learning DEF WriteAnnounce, Release
  <1>7. ASSUME NEW t \in Threads, NEW e \in Word, ~WriterBlocked(e),
               NEW l \in {"w_cas_free", "w_load"},
               pc[t] \in {"w_cas_waiting", "w_cas_free"}, WriteCas(t, e, l)
        PROVE  RaceInv'
    <2>1. CASE state # e
      <3>1. ReadHolders' = ReadHolders /\ WriteHolders' = WriteHolders
        BY <1>7, <2>1, Moves DEF WriteCas, ReadHolders, WriteHolders
      <3>. QED  BY <1>7, <2>1, <3>1, Learning, Acquiring DEF WriteCas
    <2>2. CASE state = e
      <3>1. ReadHolders = {} /\ WriteHolders = {}
        BY <1>7, <2>2, Counting DEF CountAccurate, WriterBlocked
      <3>2. ReadHolders' = {} /\ WriteHolders' = {t}
        BY <1>7, <2>2, <3>1, Moves DEF WriteCas
      <3>3. Accesses \subseteq released
        <4>1. \A u \in Threads : <<u, "r">> \in released /\ <<u, "w">> \in released
          BY <3>1 DEF RaceInv, Published
        <4>2. \A a \in Accesses : \E u \in Threads : a = <<u, "r">> \/ a = <<u, "w">>
          BY DEF Accesses
        <4>. QED  BY <4>1, <4>2
      <3>4. /\ \A u \in Threads : know[u] \subseteq know'[u]
            /\ released \subseteq know'[t]
            /\ released \subseteq released'
        BY <1>7, <2>2, Acquiring DEF WriteCas
      <3>. QED  BY <3>2, <3>3, <3>4
                DEF RaceInv, Published, KnowsOwn, DataRaceFree, Accesses
    <2>. QED  BY <2>1, <2>2
  <1>8. ASSUME NEW t \in Threads, WriteCasWaiting(t) \/ WriteCasFree(t) PROVE RaceInv'
    <2>1. Free \in Word /\ SetWaiting(seen[t]) \in Word /\ ~WriterBlocked(Free)
      BY WordConstants, WordOps DEF TypeOK, Free, WriterBlocked
    <2>2. CASE WriteCasWaiting(t)
      <3>1. ~WriterBlocked(SetWaiting(seen[t]))
        BY <2>2 DEF WriteCasWaiting, SeenAdmits, SetWaiting, WriterBlocked, TypeOK, Word
      <3>. QED  BY <1>7, <2>1, <2>2, <3>1 DEF WriteCasWaiting
    <2>3. CASE WriteCasFree(t)
      BY <1>7, <2>1, <2>3 DEF WriteCasFree
    <2>. QED  BY <1>8, <2>2, <2>3
  <1>9. ASSUME NEW t \in Threads, NEW k \in {"r", "w"}, t \in WriteHolders,
               Access(t, k), ReadHolders' = ReadHolders, WriteHolders' = WriteHolders
        PROVE  RaceInv'
    <2>1. WriteHolders = {t} /\ ReadHolders = {}
      BY <1>9 DEF Exclusion
    <2>2. Accesses \subseteq know[t]
      BY <1>9 DEF RaceInv, DataRaceFree
    <2>. QED  BY <1>9, <2>1, <2>2 DEF Access, RaceInv, Published, KnowsOwn,
                                      DataRaceFree, TypeOK
  <1>10. ASSUME NEW t \in Threads, LoadData(t) \/ StoreData(t) PROVE RaceInv'
    <2>1. /\ t \in WriteHolders
          /\ ReadHolders' = ReadHolders /\ WriteHolders' = WriteHolders
      BY <1>10, Moves DEF LoadData, StoreData, ReadHolders, WriteHolders
    <2>. QED  BY <1>9, <1>10, <2>1 DEF LoadData, StoreData
  <1>11. ASSUME NEW t \in Threads, DropWrite(t) PROVE RaceInv'
    <2>1. t \in WriteHolders
      BY <1>11 DEF DropWrite, WriteHolders
    <2>2. WriteHolders' = {} /\ ReadHolders' = {}
      BY <1>11, <2>1, Moves DEF DropWrite, Exclusion
    <2>3. Accesses \subseteq released' /\ know' = know
      BY <1>11, <2>1 DEF DropWrite, Release, RaceInv, DataRaceFree
    <2>. QED  BY <2>2, <2>3 DEF RaceInv, Published, KnowsOwn, DataRaceFree, Accesses
  <1>12. CASE UNCHANGED vars
    BY <1>12, Learning DEF vars, ReadHolders, WriteHolders
  <1>. QED
    BY <1>1, <1>2, <1>3, <1>4, <1>5, <1>6, <1>8, <1>10, <1>11, <1>12
    DEF Next, Trying, Leaving

\* No two conflicting accesses to the UnsafeCell race: the code's Acquire and
\* Release orderings alone order each guard's accesses after those it conflicts
\* with, for any number of threads.
THEOREM NoDataRace == Spec => []DataRaceFree
  <1>1. RaceInv => DataRaceFree
    BY DEF RaceInv
  <1>. QED  BY <1>1, LockInvariant, RaceInit, RaceStep, PTL DEF Spec

-----------------------------------------------------------------------------
(* The lock implements the ideal readers-writer register.                  *)

\* What a writer has loaded in `*g += 1` is still the value when it stores.
RegFresh == \A t \in Threads : pc[t] = "storing" => reg[t] = data

LEMMA RegStep == LockInv /\ RegFresh /\ [Next]_vars => RegFresh'
  <1>. SUFFICES ASSUME LockInv, RegFresh, [Next]_vars PROVE RegFresh'
    OBVIOUS
  <1>. USE DEF LockInv, RegFresh, TypeOK
  <1>1. ASSUME NEW t \in Threads, NEW l \in Labels \ {"storing"}, Goto(t, l),
               data' = data, reg' = reg
        PROVE  RegFresh'
    BY <1>1 DEF Goto
  <1>2. ASSUME NEW t \in Threads,
               CallRead(t) \/ CallWrite(t) \/ DropRead(t) \/ DropWrite(t)
                 \/ WriteAnnounce(t)
        PROVE  RegFresh'
    BY <1>1, <1>2
    DEF CallRead, CallWrite, DropRead, DropWrite, WriteAnnounce, Labels
  <1>3. ASSUME NEW t \in Threads, ReadLoad(t) \/ WriteLoad(t) \/ ReadCas(t)
                 \/ WriteCasWaiting(t) \/ WriteCasFree(t)
        PROVE  RegFresh'
    BY <1>1, <1>3
    DEF ReadLoad, WriteLoad, ReadCas, WriteCasWaiting, WriteCasFree, WriteCas, Labels
  <1>4. ASSUME NEW t \in Threads, ReadData(t) PROVE RegFresh'
    BY <1>4 DEF ReadData
  <1>5. ASSUME NEW t \in Threads, LoadData(t) PROVE RegFresh'
    BY <1>5 DEF LoadData, Goto
  <1>6. ASSUME NEW t \in Threads, StoreData(t) PROVE RegFresh'
    <2>1. WriteHolders = {t}
      BY <1>6 DEF StoreData, WriteHolders, Exclusion
    <2>2. \A u \in Threads : pc'[u] # "storing"
      BY <1>6, <2>1 DEF StoreData, Goto, WriteHolders
    <2>. QED  BY <2>2
  <1>7. CASE UNCHANGED vars
    BY <1>7 DEF vars
  <1>. QED
    BY <1>2, <1>3, <1>4, <1>5, <1>6, <1>7 DEF Next, Trying, Leaving

LEMMA IdealStep == LockInv /\ RegFresh /\ [Next]_vars => [Ideal!Next]_Ideal!vars
  <1>. SUFFICES ASSUME LockInv, RegFresh, [Next]_vars
                PROVE  Ideal!Next \/ UNCHANGED Ideal!vars
    OBVIOUS
  <1>. USE DEF LockInv
  <1>. DEFINE Stutter == /\ ReadHolders' = ReadHolders
                         /\ WriteHolders' = WriteHolders
                         /\ data' = data
  <1>1. ASSUME Stutter PROVE UNCHANGED Ideal!vars
    BY <1>1 DEF Ideal!vars
  <1>2. ASSUME NEW t \in Threads,
               CallRead(t) \/ CallWrite(t) \/ ReadLoad(t) \/ WriteLoad(t)
                 \/ WriteAnnounce(t)
        PROVE  Stutter
    BY <1>2, Moves DEF CallRead, CallWrite, ReadLoad, WriteLoad, WriteAnnounce,
                       ReadHolders, WriteHolders
  <1>3. ASSUME NEW t \in Threads, ReadData(t) \/ LoadData(t) PROVE Stutter
    BY <1>3, Moves DEF ReadData, LoadData, ReadHolders, WriteHolders
  <1>4. ASSUME NEW t \in Threads, ReadCas(t) PROVE Stutter \/ Ideal!BeginRead(t)
    <2>1. CASE state # seen[t]
      BY <1>4, <2>1, Moves DEF ReadCas, ReadHolders, WriteHolders
    <2>2. CASE state = seen[t]
      <3>1. WriteHolders = {} /\ t \notin ReadHolders
        BY <1>4, <2>2 DEF ReadCas, SeenAdmits, ReaderBlocked, CountAccurate, ReadHolders
      <3>2. ReadHolders' = ReadHolders \cup {t} /\ WriteHolders' = {} /\ data' = data
        BY <1>4, <2>2, <3>1, Moves DEF ReadCas
      <3>. QED  BY <3>1, <3>2 DEF Ideal!BeginRead
    <2>. QED  BY <2>1, <2>2
  <1>5. ASSUME NEW t \in Threads, DropRead(t) PROVE Ideal!EndRead(t)
    BY <1>5, Moves DEF DropRead, ReadHolders, WriteHolders, Ideal!EndRead
  <1>6. ASSUME NEW t \in Threads, WriteCasWaiting(t) \/ WriteCasFree(t)
        PROVE  Stutter \/ Ideal!BeginWrite(t)
    <2>1. PICK e : /\ ~WriterBlocked(e)
                   /\ WriteCas(t, e, "w_cas_free") \/ WriteCas(t, e, "w_load")
                   /\ pc[t] \in {"w_cas_waiting", "w_cas_free"}
      <3>1. CASE WriteCasWaiting(t)
        <4>1. ~WriterBlocked(SetWaiting(seen[t]))
          BY <3>1 DEF WriteCasWaiting, SeenAdmits, SetWaiting, WriterBlocked, TypeOK, Word
        <4>. QED  BY <3>1, <4>1 DEF WriteCasWaiting
      <3>2. CASE WriteCasFree(t)
        <4>1. ~WriterBlocked(Free)
          BY DEF Free, WriterBlocked
        <4>. QED  BY <3>2, <4>1 DEF WriteCasFree
      <3>. QED  BY <1>6, <3>1, <3>2
    <2>2. CASE state # e
      BY <2>1, <2>2, Moves DEF WriteCas, ReadHolders, WriteHolders
    <2>3. CASE state = e
      <3>1. ReadHolders = {} /\ WriteHolders = {}
        BY <2>1, <2>3, Counting DEF CountAccurate, WriterBlocked
      <3>2. ReadHolders' = {} /\ WriteHolders' = {t} /\ data' = data
        BY <2>1, <2>3, <3>1, Moves DEF WriteCas
      <3>. QED  BY <3>1, <3>2 DEF Ideal!BeginWrite
    <2>. QED  BY <2>2, <2>3
  <1>7. ASSUME NEW t \in Threads, StoreData(t) PROVE Ideal!Increment(t)
    <2>1. t \in WriteHolders /\ ReadHolders' = ReadHolders /\ WriteHolders' = WriteHolders
      BY <1>7, Moves DEF StoreData, ReadHolders, WriteHolders
    <2>2. data' = (data + 1) % Modulus
      BY <1>7 DEF StoreData, Succ, RegFresh
    <2>. QED  BY <2>1, <2>2 DEF Ideal!Increment
  <1>8. ASSUME NEW t \in Threads, DropWrite(t) PROVE Ideal!EndWrite(t)
    <2>1. t \in WriteHolders
      BY <1>8 DEF DropWrite, WriteHolders
    <2>. QED  BY <1>8, <2>1, Moves DEF DropWrite, Exclusion, Ideal!EndWrite
  <1>9. CASE UNCHANGED vars
    BY <1>1, <1>9 DEF vars, ReadHolders, WriteHolders
  <1>. QED
    BY <1>1, <1>2, <1>3, <1>4, <1>5, <1>6, <1>7, <1>8, <1>9
    DEF Next, Trying, Leaving, Ideal!Next

\* The compare_exchange loops, the drops and the two-step `*g += 1` implement
\* the ideal readers-writer register: guards are granted only when the ideal
\* lock grants them, and no increment is lost.
THEOREM Implements == Spec => ImplementsReadersWriter
  <1>1. Init => RegFresh
    BY DEF Init, RegFresh
  <1>2. Init => Ideal!Init
    BY DEF Init, Ideal!Init, ReadHolders, WriteHolders
  <1>. QED
    BY <1>1, <1>2, LockInvariant, RegStep, IdealStep, PTL
    DEF Spec, ImplementsReadersWriter, Ideal!Spec
=============================================================================
