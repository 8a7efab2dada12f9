------------------------------- MODULE FdTable -------------------------------
(***************************************************************************)
(* FdTable of src/exercises/02_no_std_dev/05_fd_table: a vector whose      *)
(* index is the descriptor.  An Option is a set of at most one element.    *)
(***************************************************************************)
EXTENDS Naturals, FiniteSets

CONSTANTS
    Files,
    MaxFds   \* bound: the length of the vector

VARIABLES
    files, len,   \* Vec<Option<Arc<dyn File>>>: its slots, from 0, and its length
    result        \* the last call and what it returned

vars == <<files, len, result>>

None == {}
Some(file) == {file}

Init ==
    /\ files = [fd \in {} |-> None]
    /\ len = 0
    /\ result = <<"new">>

-----------------------------------------------------------------------------
\* alloc(file): the first slot that holds None ...
AnyVacancy(fd) == fd \in DOMAIN files /\ files[fd] = None  \* mutant: not the first
FirstVacancy(fd) ==
    /\ fd \in DOMAIN files /\ files[fd] = None
    /\ \A g \in 0..fd-1 : files[g] # None

Reuse(file) ==
    \E fd \in 0..len-1 :
        /\ FirstVacancy(fd)
        /\ files' = [files EXCEPT ![fd] = Some(file)]
        /\ result' = <<"alloc", fd>>
        /\ UNCHANGED len

\* ... or, when no slot does, a new one at the end.
Push(file) ==
    /\ len < MaxFds
    /\ \A fd \in 0..len-1 : files[fd] # None
    /\ files' = [fd \in 0..len |-> IF fd = len THEN Some(file) ELSE files[fd]]
    /\ len' = len + 1
    /\ result' = <<"alloc", len>>

\* get(fd): a clone of the slot, None outside of the vector.
Get(fd) ==
    /\ result' = <<"get", IF fd < len THEN files[fd] ELSE None>>
    /\ UNCHANGED <<files, len>>

InUse == {fd \in DOMAIN files : files[fd] # None}

\* close(fd): the vector keeps its length.
Close(fd) ==
    \/ /\ fd \in InUse
       /\ files' = [files EXCEPT ![fd] = None]
       /\ result' = <<"close", TRUE>>
       /\ UNCHANGED len
    \/ /\ fd \notin InUse
       /\ result' = <<"close", FALSE>>
       /\ UNCHANGED <<files, len>>

Count ==
    /\ result' = <<"count", Cardinality(InUse)>>
    /\ UNCHANGED <<files, len>>

Next ==
    \/ \E file \in Files : Reuse(file) \/ Push(file)
    \/ \E fd \in 0..MaxFds : Get(fd) \/ Close(fd)
    \/ Count

Spec == Init /\ [][Next]_vars

-----------------------------------------------------------------------------
Table == INSTANCE Descriptors WITH open <- [fd \in InUse |-> files[fd]]

\* The table is a partial map: alloc returns the smallest descriptor that is
\* not in use, closed or never handed out, get and close fail on the others,
\* and no call changes what another descriptor leads to.
ImplementsDescriptors == Table!Spec
=============================================================================
