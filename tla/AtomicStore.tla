------------------------------ MODULE AtomicStore ------------------------------
(***************************************************************************)
(* What the metadata store promises its users: each path is a register     *)
(* that holds nothing or one whole record.  A save replaces the record in  *)
(* one step and a load returns the whole record of that moment.  Records   *)
(* reach the disk later, at a moment that no user can choose or observe: a *)
(* power failure may undo any number of saves, but each register then      *)
(* holds what it held before some of them: nothing or a whole record.      *)
(***************************************************************************)
CONSTANTS
    Paths,   \* the files of the store
    Procs,   \* the processes that use it
    Records, \* whole records
    Absent,  \* no file
    SwarmPath \* the file that a resuming process loads

VARIABLES
    reg,     \* path -> [now |-> the record, disk |-> the record on disk]
    view     \* process -> what it saved or loaded last

Value == Records \union {Absent}

StoreInit ==
    /\ reg = [path \in Paths |-> [now |-> Absent, disk |-> Absent]]
    /\ view = [p \in Procs |-> Absent]

\* A process settles on a record it is going to save.
Choose(p) ==
    /\ \E record \in Records : view' = [view EXCEPT ![p] = record]
    /\ UNCHANGED reg

Save(p, path) ==
    /\ view[p] \in Records
    /\ reg' = [reg EXCEPT ![path].now = view[p]]
    /\ UNCHANGED view

Load(p) ==
    /\ reg[SwarmPath].now \in Records
    /\ view' = [view EXCEPT ![p] = reg[SwarmPath].now]
    /\ UNCHANGED reg

\* The record reaches the disk, some time after it was saved.
Settle(path) ==
    /\ reg' = [reg EXCEPT ![path].disk = reg[path].now]
    /\ UNCHANGED view

\* Every path falls back to the record that is on disk.
PowerFailure ==
    /\ reg' = [path \in Paths |-> [now |-> reg[path].disk, disk |-> reg[path].disk]]
    /\ UNCHANGED view

StoreNext ==
    \/ \E p \in Procs : Choose(p) \/ Load(p) \/ \E path \in Paths : Save(p, path)
    \/ \E path \in Paths : Settle(path)
    \/ PowerFailure

StoreSpec == StoreInit /\ [][StoreNext]_<<reg, view>>
=============================================================================
