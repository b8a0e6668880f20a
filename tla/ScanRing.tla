------------------------------ MODULE ScanRing ------------------------------
(***************************************************************************)
(* The scan-line ring of src/pkusb.c: the worker thread an overlapped      *)
(* ReadFile starts (read_worker), CancelIo, GetOverlappedResult, and the   *)
(* consumer that TLB.dll runs on the other side, as tests/ringtest.c       *)
(* transcribes it.  The loop of src/pkring.c is the same one.              *)
(*                                                                         *)
(* A packet is its number in the stream; a slot holds the number of the    *)
(* packet last stored in it, 0 for none.  Byte counts, the log and the     *)
(* socket itself are left out; a failing call on the socket is Fail.       *)
(***************************************************************************)
EXTENDS Integers

CONSTANTS
  N,             \* packets in the ring, header word 0x0c (409 observed)
  Burst,         \* RING_BURST
  Thresh,        \* header word 0x28 (3 observed)
  MaxReads,      \* bound: overlapped reads the application posts
  MaxPackets,    \* bound: packets the bridge hands over
  HeaderOK,      \* the control block passes read_worker's validation
  Primed,        \* the consumer awaits one packet event before it looks
  WaitExpires    \* GetOverlappedResult's 30 s wait may run out

ASSUME RingAssumption ==
  /\ N \in Nat /\ Thresh \in 2..(N - 1)
  /\ Burst \in Nat \ {0}
  /\ MaxReads \in Nat /\ MaxPackets \in Nat
  /\ HeaderOK \in BOOLEAN /\ Primed \in BOOLEAN /\ WaitExpires \in BOOLEAN

Reads == 1..MaxReads
Index == 0..(N - 1)

VARIABLES
  (* the control block and the data area *)
  slot, reading, writing, inprog, overflow, stopFlag, packetEvent,
  (* the shim: g_cancel, one worker and one OVERLAPPED per read; w, want and
     got are locals of the worker that holds g_imglock *)
  cancel, worker, pending, w, want, got,
  (* the application: reads posted, cancelled, told to be finished; its
     consumer thread *)
  posted, cancelled, told, consumer,
  (* history: last packet received by the shim, last packet the consumer
     accounted for, last one it read out of a slot *)
  head, taken, delivered

header   == <<reading, writing, inprog, overflow, stopFlag, packetEvent>>
locals   == <<w, want, got>>
app      == <<posted, cancelled, told>>
history  == <<head, taken, delivered>>
vars     == <<slot, header, cancel, worker, pending, locals, app, consumer,
              history>>

WorkerStates == {"none", "failed", "start", "loop", "ask", "recv", "publish",
                 "signal", "out", "leaving", "done"}
Holding == {"loop", "ask", "recv", "publish", "signal", "out"}  \* g_imglock
ConsumerStates == {"idle", "spin", "first", "look", "wait", "reset", "read"}

TypeOK ==
  /\ slot \in [Index -> Nat]
  /\ reading \in Index /\ writing \in Index
  /\ inprog \in BOOLEAN /\ overflow \in BOOLEAN
  /\ stopFlag \in BOOLEAN /\ packetEvent \in BOOLEAN
  /\ cancel \in BOOLEAN
  /\ worker \in [Reads -> WorkerStates]
  /\ pending \in [Reads -> BOOLEAN]
  /\ w \in Index /\ want \in Nat /\ got \in Nat
  /\ posted \in 0..MaxReads
  /\ cancelled \in SUBSET Reads /\ told \in SUBSET Reads
  /\ consumer \in ConsumerStates
  /\ head \in Nat /\ taken \in Nat /\ delivered \in Nat

Init ==
  /\ slot = [i \in Index |-> 0]
  /\ reading = 0 /\ writing = 0
  /\ inprog = FALSE /\ overflow = FALSE
  /\ stopFlag = FALSE /\ packetEvent = FALSE
  /\ cancel = FALSE
  /\ worker = [r \in Reads |-> "none"]
  /\ pending = [r \in Reads |-> FALSE]
  /\ w = 0 /\ want = 0 /\ got = 0
  /\ posted = 0 /\ cancelled = {} /\ told = {}
  /\ consumer = "idle"
  /\ head = 0 /\ taken = 0 /\ delivered = 0

(* Packets between two indices of the ring, as both sides compute it; the
   consumer's formula differs from the producer's when they are equal. *)
UsedBetween(rd, wr) == IF wr >= rd THEN wr - rd ELSE N - rd + wr
MustWaitAvail(rd, wr) == IF rd >= wr THEN N - rd + wr ELSE wr - rd

Used == UsedBetween(reading, writing)

(* What the worker's loop reads at its head.  An unexpected control block is
   replaced by a ring of one packet with no Reading and no Writing word. *)
NPkt  == IF HeaderOK THEN N ELSE 1
LoopW == IF HeaderOK THEN writing ELSE 0
FreePToTheBrim == IF HeaderOK THEN N - Used ELSE 0          \* mutant of FreeP
FreeP == IF HeaderOK THEN (N - 1) - Used ELSE 0
MinOf(a, b) == IF a < b THEN a ELSE b
BurstPastTheEnd == MinOf(FreeP, Burst)                  \* mutant of BurstSize
BurstSize == MinOf(MinOf(FreeP, NPkt - LoopW), Burst)

-----------------------------------------------------------------------------
(* The application's calls into the shim. *)

(* my_ReadFile on a freshly written control block.  The application posts a
   read when every earlier one was refused or reported finished. *)
PostRead ==
  /\ posted < MaxReads /\ consumer = "idle"
  /\ \A r \in 1..posted : worker[r] = "failed" \/ r \in told
  /\ posted' = posted + 1
  /\ pending' = [pending EXCEPT ![posted + 1] = TRUE]
  /\ cancel' = FALSE
  /\ reading' = 0 /\ writing' = 0
  /\ stopFlag' = FALSE /\ packetEvent' = FALSE
  /\ taken' = head
  /\ \/ /\ worker' = [worker EXCEPT ![posted + 1] = "start"]
        /\ consumer' = "spin"
     \/ /\ worker' = [worker EXCEPT ![posted + 1] = "failed"]
        /\ UNCHANGED consumer                  \* CreateThread refused
  /\ UNCHANGED <<slot, inprog, overflow, locals, cancelled, told, head,
                 delivered>>

(* Mutant of CancelIo: retires the read itself, behind the worker's back. *)
CancelIoCompletes ==
  /\ posted > 0 /\ posted \notin cancelled /\ worker[posted] # "failed"
  /\ cancel' = TRUE
  /\ cancelled' = cancelled \union {posted}
  /\ pending' = [pending EXCEPT ![posted] = FALSE]
  /\ UNCHANGED <<slot, header, worker, locals, posted, told, consumer, history>>

(* my_CancelIo: only a flag. *)
CancelIo ==
  /\ posted > 0 /\ posted \notin cancelled /\ worker[posted] # "failed"
  /\ cancel' = TRUE
  /\ cancelled' = cancelled \union {posted}
  /\ UNCHANGED <<slot, header, worker, pending, locals, posted, told,
                 consumer, history>>

(* The application raises StopTransfer in the control block. *)
StopTransfer ==
  /\ inprog /\ ~stopFlag
  /\ stopFlag' = TRUE
  /\ UNCHANGED <<slot, reading, writing, inprog, overflow, packetEvent,
                 cancel, worker, pending, locals, app, consumer, history>>

(* my_GetOverlappedResult returning TRUE: the read completed, or the call
   waited for it and the wait ran out. *)
ReportFinished(r) ==
  /\ r <= posted /\ r \notin told /\ worker[r] # "failed"
  /\ ~pending[r] \/ WaitExpires
  /\ told' = told \union {r}
  /\ UNCHANGED <<slot, header, cancel, worker, pending, locals, posted,
                 cancelled, consumer, history>>

-----------------------------------------------------------------------------
(* read_worker. *)

Goto(r, to) == worker' = [worker EXCEPT ![r] = to]

(* EnterCriticalSection, the connection is up, TransferInProgress goes up. *)
EnterRing(r) ==
  /\ worker[r] = "start"
  /\ \A q \in Reads : worker[q] \notin Holding
  /\ inprog' = TRUE /\ overflow' = FALSE
  /\ Goto(r, "loop")
  /\ UNCHANGED <<slot, reading, writing, stopFlag, packetEvent, cancel,
                 pending, locals, app, consumer, history>>

(* The same, when the image socket cannot be connected. *)
ConnectFails(r) ==
  /\ worker[r] = "start"
  /\ \A q \in Reads : worker[q] \notin Holding
  /\ Goto(r, "out")
  /\ UNCHANGED <<slot, header, cancel, pending, locals, app, consumer,
                 history>>

(* Mutants of LeaveLoop: only one of the two requests is looked at. *)
LeaveLoopOnStop(r) ==
  /\ worker[r] = "loop" /\ stopFlag
  /\ Goto(r, "out")
  /\ UNCHANGED <<slot, header, cancel, pending, locals, app, consumer,
                 history>>
LeaveLoopOnCancel(r) ==
  /\ worker[r] = "loop" /\ cancel
  /\ Goto(r, "out")
  /\ UNCHANGED <<slot, header, cancel, pending, locals, app, consumer,
                 history>>

LeaveLoop(r) ==
  /\ worker[r] = "loop"
  /\ cancel \/ stopFlag
  /\ Goto(r, "out")
  /\ UNCHANGED <<slot, header, cancel, pending, locals, app, consumer,
                 history>>

(* No free packet: raise OverFlow, sleep, look again. *)
RingFull(r) ==
  /\ worker[r] = "loop" /\ ~cancel /\ ~stopFlag
  /\ FreeP = 0
  /\ overflow' = TRUE
  /\ UNCHANGED <<slot, reading, writing, inprog, stopFlag, packetEvent,
                 cancel, worker, pending, locals, app, consumer, history>>

(* Snapshot the indices and request a burst from the bridge. *)
AskBurst(r) ==
  /\ worker[r] = "loop" /\ ~cancel /\ ~stopFlag
  /\ FreeP > 0
  /\ overflow' = FALSE
  /\ w' = LoopW /\ want' = BurstSize /\ got' = 0
  /\ Goto(r, "ask")
  /\ UNCHANGED <<slot, reading, writing, inprog, stopFlag, packetEvent,
                 cancel, pending, app, consumer, history>>

(* The bridge answers with less than a packet: sleep, look again. *)
AnsweredEmpty(r) ==
  /\ worker[r] = "ask"
  /\ Goto(r, "loop")
  /\ UNCHANGED <<slot, header, cancel, pending, locals, app, consumer,
                 history>>

(* The bridge answers with k whole packets, at most what was asked for. *)
Answered(r) ==
  /\ worker[r] = "ask"
  /\ \E k \in 1..want :
       /\ head + k <= MaxPackets
       /\ want' = k
  /\ Goto(r, "recv")
  /\ UNCHANGED <<slot, header, cancel, pending, w, got, app, consumer,
                 history>>

(* Mutant of RecvPacket: one recv per burst instead of the loop around it. *)
RecvOnce(r) ==
  /\ worker[r] = "recv" /\ got < want
  /\ head' = head + 1
  /\ slot' = [slot EXCEPT ![w + got] = head + 1]
  /\ got' = got + 1
  /\ Goto(r, "publish")
  /\ UNCHANGED <<header, cancel, pending, w, want, app, consumer, taken,
                 delivered>>

(* One more packet lands in the ring, at the worker's own index. *)
RecvPacket(r) ==
  /\ worker[r] = "recv" /\ got < want
  /\ head' = head + 1
  /\ slot' = [slot EXCEPT ![w + got] = head + 1]
  /\ got' = got + 1
  /\ Goto(r, IF got + 1 = want THEN "publish" ELSE "recv")
  /\ UNCHANGED <<header, cancel, pending, w, want, app, consumer, taken,
                 delivered>>

(* Mutant of PublishBurst: the wrap is off by one. *)
PublishWrapsLate(r) ==
  /\ worker[r] = "publish"
  /\ writing' = IF w + want > N THEN w + want - N ELSE w + want
  /\ Goto(r, "signal")
  /\ UNCHANGED <<slot, reading, inprog, overflow, stopFlag, packetEvent,
                 cancel, pending, locals, app, consumer, history>>

(* Advance Writing over the whole burst. *)
PublishBurst(r) ==
  /\ worker[r] = "publish"
  /\ writing' = IF w + want >= N THEN w + want - N ELSE w + want
  /\ Goto(r, "signal")
  /\ UNCHANGED <<slot, reading, inprog, overflow, stopFlag, packetEvent,
                 cancel, pending, locals, app, consumer, history>>

(* Mutants of SignalPacket: wake the consumer of an empty ring only; never. *)
SignalWhenEmpty(r) ==
  /\ worker[r] = "signal"
  /\ packetEvent' = (packetEvent \/ reading = w)
  /\ Goto(r, "loop")
  /\ UNCHANGED <<slot, reading, writing, inprog, overflow, stopFlag, cancel,
                 pending, locals, app, consumer, history>>
NoSignal(r) ==
  /\ worker[r] = "signal"
  /\ Goto(r, "loop")
  /\ UNCHANGED <<slot, header, cancel, pending, locals, app, consumer,
                 history>>

(* SetEvent(EventScanPacketReady), then the next iteration. *)
SignalPacket(r) ==
  /\ worker[r] = "signal"
  /\ packetEvent' = TRUE
  /\ Goto(r, "loop")
  /\ UNCHANGED <<slot, reading, writing, inprog, overflow, stopFlag, cancel,
                 pending, locals, app, consumer, history>>

(* A send or a receive on the image socket fails. *)
Fail(r) ==
  /\ worker[r] \in {"ask", "recv"}
  /\ Goto(r, "out")
  /\ UNCHANGED <<slot, header, cancel, pending, locals, app, consumer,
                 history>>

(* Drop TransferInProgress and the lock. *)
EndTransfer(r) ==
  /\ worker[r] = "out"
  /\ inprog' = FALSE
  /\ Goto(r, "leaving")
  /\ UNCHANGED <<slot, reading, writing, overflow, stopFlag, packetEvent,
                 cancel, pending, locals, app, consumer, history>>

(* complete_ovl, the last thing the thread does. *)
CompleteRead(r) ==
  /\ worker[r] = "leaving"
  /\ pending' = [pending EXCEPT ![r] = FALSE]
  /\ Goto(r, "done")
  /\ UNCHANGED <<slot, header, cancel, locals, app, consumer, history>>

WorkerStep(r) ==
  \/ EnterRing(r) \/ LeaveLoop(r) \/ RingFull(r) \/ AskBurst(r)
  \/ AnsweredEmpty(r) \/ Answered(r) \/ RecvPacket(r)
  \/ PublishBurst(r) \/ SignalPacket(r) \/ EndTransfer(r) \/ CompleteRead(r)

SocketFails(r) == ConnectFails(r) \/ Fail(r)

-----------------------------------------------------------------------------
(* The consumer thread of TLB.dll. *)

(* uiGetCorrections' opening spin on TransferInProgress. *)
SpinDone ==
  /\ consumer = "spin" /\ inprog
  /\ consumer' = IF Primed THEN "first" ELSE "look"
  /\ UNCHANGED <<slot, header, cancel, worker, pending, locals, app, history>>

(* A wait on EventScanPacketReady is satisfied... *)
Wake ==
  /\ consumer \in {"first", "wait"} /\ packetEvent
  /\ consumer' = "reset"
  /\ UNCHANGED <<slot, header, cancel, worker, pending, locals, app, history>>

(* ...or, after the first one, runs out. *)
WaitTimesOut ==
  /\ consumer = "wait"
  /\ consumer' = "look"
  /\ UNCHANGED <<slot, header, cancel, worker, pending, locals, app, history>>

ResetPacketEvent ==
  /\ consumer = "reset"
  /\ packetEvent' = FALSE
  /\ consumer' = "look"
  /\ UNCHANGED <<slot, reading, writing, inprog, overflow, stopFlag, cancel,
                 worker, pending, locals, app, history>>

(* Evaluate MustWait on a snapshot of the two indices. *)
Look ==
  /\ consumer = "look"
  /\ consumer' = IF MustWaitAvail(reading, writing) < Thresh
                 THEN "wait" ELSE "read"
  /\ UNCHANGED <<slot, header, cancel, worker, pending, locals, app, history>>

(* Read the packet at Reading to its end and advance Reading. *)
TakePacket ==
  /\ consumer = "read"
  /\ delivered' = slot[reading]
  /\ taken' = taken + 1
  /\ reading' = IF reading + 1 >= N THEN 0 ELSE reading + 1
  /\ consumer' = "look"
  /\ UNCHANGED <<slot, writing, inprog, overflow, stopFlag, packetEvent,
                 cancel, worker, pending, locals, app, head>>

(* The application winds its consumer down once it stopped the scan or was
   told that it is over. *)
Quit ==
  /\ consumer \in {"spin", "first", "look", "wait"}
  /\ stopFlag \/ posted \in cancelled \/ posted \in told
  /\ consumer' = "idle"
  /\ UNCHANGED <<slot, header, cancel, worker, pending, locals, app, history>>

ConsumerStep == SpinDone \/ Wake \/ ResetPacketEvent \/ Look \/ TakePacket

-----------------------------------------------------------------------------
Next ==
  \/ PostRead \/ CancelIo \/ StopTransfer
  \/ \E r \in Reads : ReportFinished(r) \/ WorkerStep(r) \/ SocketFails(r)
  \/ ConsumerStep \/ WaitTimesOut \/ Quit

Spec == Init /\ [][Next]_vars

(* The worker thread and the consumer thread are scheduled, and the bridge
   answers every request (it bounds its own wait at 20 s).  Nothing obliges
   the application to call, a socket to fail or a wait to time out. *)
Fairness ==
  /\ \A r \in Reads : WF_vars(WorkerStep(r))
  /\ WF_vars(ConsumerStep)

FairSpec == Spec /\ Fairness

-----------------------------------------------------------------------------
(* The slots the worker may be storing into right now. *)
InBurst(i) == /\ \E r \in Reads : worker[r] \in {"ask", "recv", "publish"}
              /\ w <= i /\ i < w + want

(* Distance of slot i from Reading, going up the ring. *)
Ahead(i) == IF i >= reading THEN i - reading ELSE N - reading + i

(* A burst in flight is confined to free slots: it neither runs past the end
   of the data area nor reaches a packet the consumer has not taken, however
   old the snapshot of Reading it was sized by is.  (pkusb.c "never fill the
   last slot"; ringtest "producer never overruns Reading".) *)
NoOverrun ==
  /\ \A i \in Index : InBurst(i) => Ahead(i) >= Used
  /\ (\E r \in Reads : worker[r] \in {"ask", "recv", "publish"})
       => w + want <= N

(* Whenever the consumer has decided to read the slot at Reading, that slot
   holds the very next packet of the stream: nothing is read before it is
   published, twice, or out of order, and nothing is overwritten unread. *)
TakesNextPacket == consumer = "read" => slot[reading] = taken + 1

(* The packet event cannot be lost: a consumer asleep while enough packets
   are published finds the event set, or the worker is about to set it, so
   the wait never depends on its timeout. *)
NoLostWakeup ==
  consumer = "wait" /\ Used >= Thresh
    => packetEvent \/ \E r \in Reads : worker[r] = "signal"

(* A read that the application was told is finished no longer touches what they
   share: the data area, Writing, OverFlow, TransferInProgress and the packet
   event are written by the thread that holds g_imglock, and only for a read
   that is still pending, before the step and after.  (pkusb.c: "only now:
   cancelled == scan over".)  Posting a read hands over a fresh control block,
   which the application has written. *)
TouchesShared ==
  \/ slot' # slot \/ inprog' # inprog \/ overflow' # overflow
  \/ ~packetEvent /\ packetEvent'
  \/ writing' # writing /\ posted' = posted
Pending(r) == pending[r] /\ r \notin told
TouchesOnlyWhilePending ==
  [][ TouchesShared
        => \E r \in Reads : /\ worker[r] \in Holding \/ worker'[r] \in Holding
                            /\ Pending(r) /\ Pending(r)' ]_vars

(* The ring implements the bounded FIFO of ScanQueue. *)
Queue == INSTANCE ScanQueue WITH sent <- taken + Used
QueueSpec == Queue!Spec

(* CancelIo retires the read it was meant for: "Retire the pending read for
   real" (my_CancelIo). *)
CancelRetires == \A r \in Reads : r \in cancelled ~> ~pending[r]

(* StopTransfer ends the transfer. *)
StopEndsTransfer == stopFlag ~> ~inprog \/ ~stopFlag

(* Published packets reach an active consumer: with at least Thresh of them
   in the ring the next one is taken, on the event alone. *)
Drains ==
  \A p \in 0..MaxPackets :
    (consumer \notin {"idle", "spin"} /\ taken = p /\ Used >= Thresh)
      ~> (taken # p \/ consumer = "idle")

=============================================================================
