---------------------------- MODULE DriverAccess ----------------------------
(***************************************************************************)
(* Who may use a device: the open and release operations of the driver     *)
(* (netl7driver.c) on /proc/NetL7/..., for files opened for writing.  The  *)
(* driver remembers the process that opened the device as its owner.       *)
(*                                                                         *)
(* The kernel (external) lets several processes hold one open file (fork), *)
(* and calls release when the last of them has closed it.                  *)
(***************************************************************************)
EXTENDS Naturals, FiniteSets

CONSTANTS
    Process,
    File,     \* open files, reused when they are released
    Nobody,   \* owner_pid 0
    MaxOpen   \* bound: files one process opens without closing one

ASSUME DriverAssumption ==
    /\ Nobody \notin Process
    /\ MaxOpen \in Nat /\ MaxOpen > 0

VARIABLES
    owner,    \* dev->owner_pid
    opener,   \* per file, the process that opened it
    holders,  \* per file, the processes that have it open
    nested    \* history: a process has opened the device a second time

vars == <<owner, opener, holders, nested>>

Init ==
    /\ owner = Nobody
    /\ opener = [f \in File |-> Nobody]
    /\ holders = [f \in File |-> {}]
    /\ nested = FALSE

OpenedBy(p) == {f \in File : opener[f] = p}

-----------------------------------------------------------------------------
Opened(p, f) ==
    /\ opener[f] = Nobody
    /\ Cardinality(OpenedBy(p)) < MaxOpen
    /\ owner' = p
    /\ opener' = [opener EXCEPT ![f] = p]
    /\ holders' = [holders EXCEPT ![f] = {p}]
    /\ nested' = (nested \/ OpenedBy(p) # {})

(* The device is given to whoever opens it last. *)
OpenAlways(p, f) == Opened(p, f)

(* nlm_device_open, with FMODE_WRITE: for the first process, and for the   *)
(* owner again ("recursive"); -EBUSY for the others.                       *)
Open(p, f) ==
    /\ owner \in {Nobody, p}
    /\ Opened(p, f)

(* A child process has the open files of its parent. *)
Fork(p, child) ==
    /\ p # child
    /\ \A f \in File : child \notin holders[f]
    /\ \E f \in File : p \in holders[f]
    /\ holders' = [f \in File |-> IF p \in holders[f] THEN holders[f] \cup {child} ELSE holders[f]]
    /\ UNCHANGED <<owner, opener, nested>>

(* One of several processes closes the file: the driver is not called. *)
CloseShared(p, f) ==
    /\ p \in holders[f]
    /\ holders[f] # {p}
    /\ holders' = [holders EXCEPT ![f] = @ \ {p}]
    /\ UNCHANGED <<owner, opener, nested>>

Released(p, f, newOwner) ==
    /\ holders[f] = {p}
    /\ holders' = [holders EXCEPT ![f] = {}]
    /\ opener' = [opener EXCEPT ![f] = Nobody]
    /\ owner' = newOwner
    /\ UNCHANGED nested

(* Only the owner itself gives the device back. *)
ReleaseByOwner(p, f) == Released(p, f, IF owner = p THEN Nobody ELSE owner)

(* The last process closes the file: nlm_device_close. *)
Release(p, f) == Released(p, f, Nobody)

Next ==
    \/ \E p \in Process, f \in File : Open(p, f) \/ CloseShared(p, f) \/ Release(p, f)
    \/ \E p, child \in Process : Fork(p, child)

Spec == Init /\ [][Next]_vars

-----------------------------------------------------------------------------
(* The device is owned only while a file that its owner opened is open: it *)
(* is never left busy, whoever of the processes that share the file closes *)
(* it last.                                                                *)
OwnerHasFile == owner # Nobody => OpenedBy(owner) # {}

(* "Multiple writers are blocked out in the file open call": unless the    *)
(* owner has opened the device again and closed one of its files, all      *)
(* files that are open for writing were opened by the owner, also while    *)
(* processes it has forked hold them.                                      *)
ExclusiveAccess ==
    ~nested => \A f \in File : opener[f] \in {Nobody, owner}
=============================================================================
