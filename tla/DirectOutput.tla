---------------------------- MODULE DirectOutput ----------------------------
(***************************************************************************)
(* Result delivery without a manager thread: the threads share the         *)
(* device's output ring of result descriptors (RDs) and each of them scans *)
(* it for its own results in nlm_get_all_search_results, holding           *)
(* hw_output_fifo_lock.  An RD that was delivered is marked in place; the  *)
(* ring's read pointer moves only when a scan has met no RD that is still  *)
(* somebody else's, so the same RD may be scanned many times.              *)
(*                                                                         *)
(* Each thread has one flow at a time, in a flow slot it uses again and    *)
(* again.  The device (external) reports matches, an error, and the end of *)
(* the flow; by an erratum of the device the code works around, it may     *)
(* also report end-anchored matches after the error.                       *)
(***************************************************************************)
EXTENDS ResultRing, FiniteSets

CONSTANTS
    None,
    MaxRoom,  \* bound: n_buf_entries of one call
    Erratum   \* threads whose flows get matches after an error

ASSUME OutputAssumption ==
    /\ None \notin Thread
    /\ MaxRoom \in Nat /\ MaxRoom > 0
    /\ Erratum \subseteq Thread

VARIABLES
    scan,   \* the call that holds hw_output_fifo_lock
    flow,   \* per thread, its flow slot: [live, errored]
    search  \* per thread, what the device does with the flow

directVars == <<ring, wrt, rd, scan, flow, search, sent, got>>

(* A match, a packet's or flow's result with an error, the result of the   *)
(* job that ends the flow, and a match the flow's error has made invalid.  *)
Kind == {"match", "error", "end", "stray"}

FlowRd == [thread : Thread, seq : 0 .. SeqMod - 1, kind : Kind]

NoScan == [by |-> None, at |-> 0, end |-> 0, room |-> 0, blocked |-> FALSE]

DirectInit ==
    /\ ring = [i \in Index |-> Processed]
    /\ wrt = 0
    /\ rd = 0
    /\ scan = NoScan
    /\ flow = [t \in Thread |-> [live |-> TRUE, errored |-> FALSE]]
    /\ search = [t \in Thread |-> "running"]
    /\ sent = [t \in Thread |-> 0]
    /\ got = [t \in Thread |-> 0]

-----------------------------------------------------------------------------
(* The device writes an RD and then moves its write pointer. *)
Report(t, kind) ==
    /\ ~RingFull
    /\ \/ /\ search[t] = "running"
          /\ kind \in {"match", "error", "end"}
       \/ /\ search[t] = "failed"
          /\ kind \in IF t \in Erratum THEN {"stray", "end"} ELSE {"end"}
    /\ search' = [search EXCEPT ![t] = CASE kind = "error" -> "failed"
                                         [] kind = "end" -> "ended"
                                         [] OTHER -> @]
    /\ sent' = [sent EXCEPT ![t] = IF kind = "stray" THEN @ ELSE (@ + 1) % SeqMod]
    /\ ring' = [ring EXCEPT ![wrt] = [thread |-> t, seq |-> sent'[t], kind |-> kind]]
    /\ wrt' = Wrap(wrt + 1)
    /\ UNCHANGED <<rd, scan, flow, got>>

(* The thread creates a flow again, in the slot that was freed last. *)
CreateFlow(t) ==
    /\ ~flow[t].live
    /\ scan.by # t
    /\ flow' = [flow EXCEPT ![t] = [live |-> TRUE, errored |-> FALSE]]
    /\ search' = [search EXCEPT ![t] = "running"]
    /\ UNCHANGED <<ring, wrt, rd, scan, sent, got>>

-----------------------------------------------------------------------------
(* nlm_get_all_search_results takes the lock and reads both pointers. *)
BeginScan(t, room) ==
    /\ scan.by = None
    /\ rd # wrt
    /\ scan' = [by |-> t, at |-> rd, end |-> wrt, room |-> room, blocked |-> FALSE]
    /\ UNCHANGED <<ring, wrt, rd, flow, search, sent, got>>

ScanGoesOn == scan.by # None /\ scan.at # scan.end /\ scan.room > 0

ScannedRd == ring[scan.at]

ScanOn == [scan EXCEPT !.at = Wrap(@ + 1)]

(* consume_rd_for_thread: an RD that was processed before. *)
ScanProcessed ==
    /\ ScanGoesOn
    /\ ScannedRd = Processed
    /\ scan' = ScanOn
    /\ UNCHANGED <<ring, wrt, rd, flow, search, sent, got>>

(* Another thread's RD is passed like a processed one. *)
PassForeignFreely ==
    /\ ScanGoesOn
    /\ ScannedRd # Processed
    /\ ScannedRd.thread # scan.by
    /\ scan' = ScanOn
    /\ UNCHANGED <<ring, wrt, rd, flow, search, sent, got>>

(* consume_rd_for_thread: another thread's RD keeps the pointer back. *)
PassForeign ==
    /\ ScanGoesOn
    /\ ScannedRd # Processed
    /\ ScannedRd.thread # scan.by
    /\ scan' = [ScanOn EXCEPT !.blocked = TRUE]
    /\ UNCHANGED <<ring, wrt, rd, flow, search, sent, got>>

(* Only end-anchored matches are ignored; those that come after the flow's *)
(* error are the stray ones.                                               *)
Ignored(r) == r.kind = "stray" /\ flow[r.thread].errored

(* populate_results: a match of a flow that has errored is dropped, which  *)
(* leaves the RD as it is.                                                 *)
Ignore ==
    /\ ScanGoesOn
    /\ ScannedRd # Processed
    /\ ScannedRd.thread = scan.by
    /\ Ignored(ScannedRd)
    /\ scan' = ScanOn
    /\ UNCHANGED <<ring, wrt, rd, flow, search, sent, got>>

(* populate_results: copy the result to the user's buffer, mark the RD.    *)
(* The scan stays at the RD that filled the buffer.                        *)
Deliver ==
    /\ ScanGoesOn
    /\ ScannedRd # Processed
    /\ ScannedRd.thread = scan.by
    /\ ~Ignored(ScannedRd)
    /\ got' = [got EXCEPT ![scan.by] = IF ScannedRd.kind = "stray" THEN @ ELSE ScannedRd.seq]
    /\ flow' = [flow EXCEPT ![scan.by] =
                  [live    |-> @.live /\ ScannedRd.kind # "end",
                   errored |-> @.errored \/ ScannedRd.kind = "error"]]
    /\ ring' = [ring EXCEPT ![scan.at] = Processed]
    /\ scan' = [scan EXCEPT !.room = @ - 1,
                            !.at = IF scan.room = 1 THEN @ ELSE Wrap(@ + 1)]
    /\ UNCHANGED <<wrt, rd, search, sent>>

(* The pointer does not move past the last RD that was looked at unless    *)
(* the user's buffer was filled.                                           *)
EndScanEarly ==
    /\ scan.by # None
    /\ ~ScanGoesOn
    /\ rd' = IF scan.blocked \/ scan.room > 0 THEN rd ELSE scan.at
    /\ scan' = NoScan
    /\ UNCHANGED <<ring, wrt, flow, search, sent, got>>

(* The pointer moves one further than the scan has come. *)
EndScanSkips ==
    /\ scan.by # None
    /\ ~ScanGoesOn
    /\ rd' = IF scan.blocked THEN rd
             ELSE IF scan.at = wrt THEN wrt ELSE Wrap(scan.at + 1)
    /\ scan' = NoScan
    /\ UNCHANGED <<ring, wrt, flow, search, sent, got>>

(* Move the pointer if nothing was left behind; release the lock. *)
EndScan ==
    /\ scan.by # None
    /\ ~ScanGoesOn
    /\ rd' = IF scan.blocked THEN rd ELSE scan.at
    /\ scan' = NoScan
    /\ UNCHANGED <<ring, wrt, flow, search, sent, got>>

Call == ScanProcessed \/ PassForeign \/ Ignore \/ Deliver \/ EndScan

DirectNext ==
    \/ Call
    \/ \E t \in Thread, n \in 1 .. MaxRoom : BeginScan(t, n)
    \/ \E t \in Thread, kind \in Kind : Report(t, kind)
    \/ \E t \in Thread : CreateFlow(t)

(* Calls return and every thread keeps polling; the spin lock makes no     *)
(* promise, but a thread that polls for ever gets it infinitely often.     *)
DirectFairness ==
    /\ WF_directVars(Call)
    /\ \A t \in Thread : SF_directVars(\E n \in 1 .. MaxRoom : BeginScan(t, n))

DirectSpec == DirectInit /\ [][DirectNext]_directVars /\ DirectFairness

-----------------------------------------------------------------------------
DirectTypeOK ==
    /\ ring \in [Index -> FlowRd \cup {Processed}]
    /\ wrt \in Index
    /\ rd \in Index
    /\ scan \in [by : Thread \cup {None}, at : Index, end : Index,
                 room : 0 .. MaxRoom, blocked : BOOLEAN]
    /\ flow \in [Thread -> [live : BOOLEAN, errored : BOOLEAN]]
    /\ search \in [Thread -> {"running", "failed", "ended"}]
    /\ sent \in [Thread -> 0 .. SeqMod - 1]
    /\ got \in [Thread -> 0 .. SeqMod - 1]

(* The places of the RDs with results of thread t that were not delivered. *)
Undelivered(t) ==
    {k \in 0 .. Occupied - 1 : /\ ring[Slot(k)] # Processed
                               /\ ring[Slot(k)].thread = t
                               /\ ring[Slot(k)].kind # "stray"}

(* However the scans of the threads interleave and wherever they stop:     *)
(* the results between the pointers that were not delivered to thread t    *)
(* are exactly those it has not got, in the order the device sent them.    *)
(* So none is lost, repeated or overtaken.                                 *)
ScannedInOrderOnce ==
    /\ DirectTypeOK
    /\ \A t \in Thread :
        LET number(k) == Ahead(t, ring[Slot(k)].seq)
            missing == 1 .. Ahead(t, sent[t]) IN
        /\ \A k \in Undelivered(t) : number(k) \in missing
        /\ \A k, l \in Undelivered(t) : k < l => number(k) < number(l)
        /\ \A n \in missing : \E k \in Undelivered(t) : number(k) = n

(* Each result reaches its thread, although the pointer stands still while *)
(* the other threads' results are in the ring, and scans stop where the    *)
(* buffer of their caller is full.                                         *)
EveryFlowResultDelivered ==
    \A t \in Thread, s \in 0 .. SeqMod - 1 : (sent[t] = s) ~> (got[t] = s)

(* What the code says of an RD that keeps a scan from moving the read      *)
(* pointer, "some other ring will come in and take care of it": the ring   *)
(* does not stay full, so the device is not held up for good. With two     *)
(* threads in Erratum it is: each of them leaves an ignored match of its   *)
(* own unmarked and stops at that of the other.                            *)
PointerMovesOn == RingFull ~> ~RingFull

(* That is so as long as at most one thread has flows with matches after   *)
(* an error: it passes its own ignored matches, and the others' RDs are    *)
(* all marked in the end.                                                  *)
RingDrains == Cardinality(Erratum) <= 1 => PointerMovesOn

=============================================================================
