--------------------------- MODULE ScanRing_proofs ---------------------------
(***************************************************************************)
(* Proofs about ScanRing, for every size of the ring, burst, threshold,    *)
(* number of reads and number of packets.  They assume the two conditions  *)
(* under which the protocol of the ring works: the consumer awaits one     *)
(* packet event before its first look (Primed), and a read is reported     *)
(* finished only when it is (~WaitExpires).  The code keeps neither in    *)
(* all cases; README.md says where.                                        *)
(***************************************************************************)
EXTENDS ScanRing, TLAPS

Filling == {"ask", "recv", "publish"}
Live == {"start", "loop", "ask", "recv", "publish", "signal", "out", "leaving"}

(* Reads and their workers: only the newest read can have a live worker, it
   is pending while it has, and only completed reads are told finished. *)
ReadsInv ==
  /\ \A r \in Reads : worker[r] = "none" <=> r > posted
  /\ \A r \in Reads : worker[r] \in Live => r = posted /\ pending[r]
  /\ \A r \in Reads : r <= posted /\ ~pending[r] => worker[r] = "done"
  /\ \A r \in told : worker[r] = "done"

(* The burst in flight: where it starts, how much fits, what has landed. *)
BurstInv ==
  \A r \in Reads :
    /\ worker[r] \in Filling =>
         /\ w = writing /\ w + want <= N /\ Used + want <= N - 1
         /\ want >= 1 /\ got <= want
         /\ head = taken + Used + got
         /\ \A i \in Index : w <= i /\ i < w + got
                               => slot[i] = taken + Used + 1 + (i - w)
    /\ worker[r] = "ask" => got = 0
    /\ worker[r] = "publish" => got = want
    /\ worker[r] \in {"start", "loop", "signal"} => head = taken + Used

(* What lies between Reading and Writing is the stream, without a gap. *)
ContentInv ==
  /\ head >= taken + Used
  /\ \A i \in Index : Ahead(i) < Used => slot[i] = taken + 1 + Ahead(i)

(* The consumer never looks at an empty ring, which MustWait takes for a
   full one; when it reads, at least Thresh packets are there. *)
ConsumerInv ==
  /\ packetEvent \/ consumer \in {"look", "wait", "reset", "read"}
       \/ (\E r \in Reads : worker[r] = "signal")
       => Used >= 1
  /\ consumer = "read" => Used >= 2

RingInv ==
  TypeOK /\ ReadsInv /\ BurstInv /\ ContentInv /\ ConsumerInv /\ NoLostWakeup

-----------------------------------------------------------------------------
(* Arithmetic of the ring. *)

(* The number of unread packets, and how far a slot is ahead of Reading, are
   indices themselves. *)
LEMMA Distances ==
  ASSUME TypeOK
  PROVE  /\ Used \in 0..(N - 1)
         /\ \A i \in Index : Ahead(i) \in 0..(N - 1)
  BY RingAssumption DEF TypeOK, Used, UsedBetween, Ahead, Index

(* They do not move while neither index does. *)
LEMMA SameIndices ==
  ASSUME UNCHANGED <<reading, writing>>
  PROVE  Used' = Used /\ \A i \in Index : Ahead(i)' = Ahead(i)
  BY DEF Used, UsedBetween, Ahead

(* Taking a packet brings every unread slot one nearer. *)
LEMMA TakeDistances ==
  ASSUME TypeOK, TakePacket, Used >= 1
  PROVE  /\ Used' = Used - 1
         /\ \A i \in Index : Ahead(i)' < Used' => Ahead(i) = Ahead(i)' + 1
         /\ Ahead(reading) = 0
  <1>1. /\ reading \in Index /\ writing \in Index /\ writing' = writing
        /\ reading' = IF reading + 1 >= N THEN 0 ELSE reading + 1
    BY DEF TypeOK, TakePacket
  <1>2. Used' = Used - 1
    BY <1>1, RingAssumption DEF Used, UsedBetween, Index
  <1>3. ASSUME NEW i \in Index, Ahead(i)' < Used'
        PROVE  Ahead(i) = Ahead(i)' + 1
    <2>1. CASE reading + 1 >= N
      BY <1>1, <1>2, <1>3, <2>1, RingAssumption
      DEF Used, UsedBetween, Ahead, Index
    <2>2. CASE ~(reading + 1 >= N)
      BY <1>1, <1>2, <1>3, <2>2, RingAssumption
      DEF Used, UsedBetween, Ahead, Index
    <2> QED BY <2>1, <2>2
  <1> QED BY <1>1, <1>2, <1>3, RingAssumption DEF Ahead, Index

(* A burst that starts at Writing and fits occupies exactly the slots that
   publishing it adds to the unread ones. *)
LEMMA PublishDistances ==
  ASSUME TypeOK, want >= 1, w = writing, w + want <= N, Used + want <= N - 1,
         UNCHANGED reading,
         writing' = IF w + want >= N THEN w + want - N ELSE w + want
  PROVE  /\ writing' \in Index
         /\ Used' = Used + want
         /\ \A i \in Index : Ahead(i)' = Ahead(i)
         /\ \A i \in Index :
              Used <= Ahead(i) /\ Ahead(i) < Used + want
                => w <= i /\ i < w + want /\ i - w = Ahead(i) - Used
  <1>1. /\ reading \in Index /\ writing \in Index /\ want \in Nat
        /\ w \in Index
    BY DEF TypeOK
  <1>2. writing' \in Index
    BY <1>1, RingAssumption DEF Index
  <1>3. Used' = Used + want
    BY <1>1, RingAssumption DEF Used, UsedBetween, Index
  <1>4. \A i \in Index : Ahead(i)' = Ahead(i)
    BY DEF Ahead
  <1>5. ASSUME NEW i \in Index, Used <= Ahead(i), Ahead(i) < Used + want
        PROVE  w <= i /\ i < w + want /\ i - w = Ahead(i) - Used
    <2>1. CASE writing >= reading
      BY <1>1, <1>5, <2>1, RingAssumption DEF Used, UsedBetween, Ahead, Index
    <2>2. CASE ~(writing >= reading)
      BY <1>1, <1>5, <2>2, RingAssumption DEF Used, UsedBetween, Ahead, Index
    <2> QED BY <2>1, <2>2
  <1> QED BY <1>2, <1>3, <1>4, <1>5

(* The slots of a burst that fits are not among the unread ones. *)
LEMMA BurstIsFree ==
  ASSUME TypeOK, w = writing, w + want <= N, Used + want <= N - 1,
         NEW i \in Index, w <= i, i < w + want
  PROVE  Ahead(i) = Used + (i - w)
  BY RingAssumption DEF TypeOK, Used, UsedBetween, Ahead, Index

-----------------------------------------------------------------------------
(* The steps. *)

LEMMA InitInv == Init => RingInv
  <1> SUFFICES ASSUME Init PROVE RingInv
    OBVIOUS
  <1> USE RingAssumption DEF Init
  <1>0. 0 \in Index /\ 0 \in 0..MaxReads
    BY DEF Index
  <1>1. TypeOK
    BY <1>0 DEF TypeOK, WorkerStates, ConsumerStates
  <1>2. ReadsInv /\ BurstInv
    BY DEF ReadsInv, BurstInv, Filling, Live, Reads
  <1>3. Used = 0
    BY DEF Used, UsedBetween
  <1>4. ContentInv /\ ConsumerInv /\ NoLostWakeup
    BY <1>3, Distances, <1>1 DEF ContentInv, ConsumerInv, NoLostWakeup, Reads
  <1> QED BY <1>1, <1>2, <1>4 DEF RingInv

(* A new read resets both indices: it may, because no worker is alive. *)
LEMMA PostReadStep ==
  ASSUME ~WaitExpires, RingInv, PostRead
  PROVE  RingInv'
  <1> USE RingAssumption DEF PostRead
  <1>1. TypeOK'
    <2>1. 0 \in Index /\ posted + 1 \in 0..MaxReads
      BY DEF RingInv, TypeOK, Index
    <2> QED BY <2>1 DEF RingInv, TypeOK, WorkerStates, ConsumerStates, locals
  <1>2. \A r \in Reads : worker[r] \in {"none", "failed", "done"}
    BY DEF RingInv, ReadsInv, TypeOK, Reads, WorkerStates, Live
  <1>3. \A r \in Reads : worker'[r] \in {"none", "failed", "done", "start"}
    BY <1>2 DEF RingInv, TypeOK, Reads
  <1>4. ReadsInv'
    <2>1. \A r \in Reads : r # posted + 1 =>
             worker'[r] = worker[r] /\ pending'[r] = pending[r]
      BY DEF RingInv, TypeOK, Reads
    <2>2. posted + 1 \in Reads /\ pending'[posted + 1] = TRUE
          /\ worker'[posted + 1] \in {"start", "failed"}
          /\ worker[posted + 1] = "none"
      BY DEF RingInv, TypeOK, ReadsInv, Reads
    <2> QED BY <1>2, <2>1, <2>2
            DEF RingInv, TypeOK, ReadsInv, Reads, Live, locals
  <1>5. Used' = 0
    BY DEF Used, UsedBetween
  <1>6. BurstInv'
    BY <1>3, <1>5 DEF BurstInv, Filling, RingInv, TypeOK
  <1>7. ContentInv' /\ ConsumerInv' /\ NoLostWakeup'
    <2>1. \A i \in Index : Ahead(i)' \in Nat
      BY DEF Ahead, Index
    <2>2. ContentInv'
      BY <1>5, <2>1 DEF ContentInv, RingInv, TypeOK
    <2>3. ConsumerInv' /\ NoLostWakeup'
      BY <1>3, <1>5 DEF ConsumerInv, NoLostWakeup
    <2> QED BY <2>2, <2>3
  <1> QED BY <1>1, <1>4, <1>6, <1>7 DEF RingInv

(* The application's other calls touch neither the ring nor a worker. *)
LEMMA AppStep ==
  ASSUME ~WaitExpires, RingInv,
         \/ CancelIo
         \/ StopTransfer
         \/ \E r \in Reads : ReportFinished(r)
  PROVE  RingInv'
  <1> USE SameIndices DEF RingInv, TypeOK, ReadsInv, BurstInv, ContentInv,
                          ConsumerInv, NoLostWakeup, header, locals, app, history
  <1>1. CASE CancelIo
    BY <1>1 DEF CancelIo, Reads
  <1>2. CASE StopTransfer
    BY <1>2 DEF StopTransfer
  <1>3. ASSUME NEW r \in Reads, ReportFinished(r) PROVE RingInv'
    BY <1>3 DEF ReportFinished
  <1> QED BY <1>1, <1>2, <1>3

(* The worker's steps that move no packet. *)
LEMMA WorkerControlStep ==
  ASSUME RingInv, NEW r \in Reads,
         \/ EnterRing(r) \/ ConnectFails(r) \/ LeaveLoop(r) \/ RingFull(r)
         \/ AnsweredEmpty(r) \/ Answered(r) \/ SignalPacket(r) \/ Fail(r)
         \/ EndTransfer(r) \/ CompleteRead(r)
  PROVE  RingInv'
  <1> USE SameIndices, Distances
      DEF RingInv, TypeOK, ReadsInv, BurstInv, ContentInv, ConsumerInv,
          NoLostWakeup, WorkerStates, Live, Filling, Goto, header, locals, app,
          history
  <1>1. CASE EnterRing(r)
    BY <1>1 DEF EnterRing
  <1>2. CASE ConnectFails(r)
    BY <1>2 DEF ConnectFails
  <1>3. CASE LeaveLoop(r)
    BY <1>3 DEF LeaveLoop
  <1>4. CASE RingFull(r)
    BY <1>4 DEF RingFull
  <1>5. CASE AnsweredEmpty(r)
    BY <1>5 DEF AnsweredEmpty
  <1>6. CASE Answered(r)
    <2>1. PICK k \in 1..want : want' = k
      BY <1>6 DEF Answered
    <2>2. worker[r] = "ask" /\ worker' = [worker EXCEPT ![r] = "recv"]
          /\ got = 0 /\ got' = 0
      BY <1>6 DEF Answered
    <2>3. TypeOK' /\ ReadsInv'
      BY <1>6, <2>1, <2>2 DEF Answered
    <2>4. BurstInv'
      <3>1. /\ k >= 1 /\ w + k <= N /\ Used + k <= N - 1 /\ w = writing
            /\ head = taken + Used
        <4>1. /\ want >= 1 /\ w + want <= N /\ Used + want <= N - 1
              /\ w = writing /\ head = taken + Used + got
          BY <2>2
        <4>2. want \in Nat /\ w \in Nat /\ N \in Nat /\ k \in Nat /\ k <= want
              /\ k >= 1 /\ Used \in Nat /\ taken \in Nat
          BY <2>1, RingAssumption DEF Index
        <4> QED BY ONLY <2>2, <4>1, <4>2
      <3>2. \A q \in Reads : q # r => worker'[q] = worker[q]
                                      /\ worker[q] \notin Live
        BY <2>2
      <3>3. Used' = Used /\ UNCHANGED <<slot, w, writing, head, taken>>
        BY <1>6 DEF Answered
      <3> QED BY <2>1, <2>2, <3>1, <3>2, <3>3
    <2>5. ContentInv' /\ ConsumerInv' /\ NoLostWakeup'
      BY <1>6, <2>2 DEF Answered
    <2> QED BY <2>3, <2>4, <2>5
  <1>7. CASE SignalPacket(r)
    BY <1>7 DEF SignalPacket
  <1>8. CASE Fail(r)
    BY <1>8 DEF Fail
  <1>9. CASE EndTransfer(r)
    BY <1>9 DEF EndTransfer
  <1>10. CASE CompleteRead(r)
    BY <1>10 DEF CompleteRead
  <1> QED BY <1>1, <1>2, <1>3, <1>4, <1>5, <1>6, <1>7, <1>8, <1>9, <1>10

(* The burst asked for fits below the end of the data area and leaves one
   slot free. *)
LEMMA AskBurstStep ==
  ASSUME RingInv, NEW r \in Reads, AskBurst(r)
  PROVE  RingInv'
  <1>1. TypeOK /\ worker[r] = "loop" /\ head = taken + Used
    BY DEF AskBurst, RingInv, BurstInv
  <1>2. HeaderOK /\ LoopW = writing /\ FreeP = (N - 1) - Used /\ FreeP > 0
    BY DEF AskBurst, FreeP, LoopW
  <1>3. /\ w' = writing /\ got' = 0 /\ want' \in Nat /\ want' >= 1
        /\ w' + want' <= N /\ Used + want' <= N - 1
    <2>1. /\ writing \in 0..(N - 1) /\ Used \in 0..(N - 1) /\ N \in Nat
          /\ Burst \in Nat \ {0} /\ FreeP >= 1
      BY <1>1, <1>2, Distances, RingAssumption DEF TypeOK, Index
    <2>2. w' = writing /\ got' = 0 /\ want' = BurstSize
      BY <1>2 DEF AskBurst
    <2>3. BurstSize = MinOf(MinOf((N - 1) - Used, N - writing), Burst)
      BY <1>2 DEF BurstSize, NPkt
    <2> QED BY <1>2, <2>1, <2>2, <2>3 DEF MinOf
  <1>4. /\ worker' = [worker EXCEPT ![r] = "ask"]
        /\ UNCHANGED <<slot, reading, writing, packetEvent, pending, posted,
                       told, cancelled, consumer, head, taken>>
    BY DEF AskBurst, Goto, app, history
  <1>5. Used' = Used /\ \A i \in Index : Ahead(i)' = Ahead(i)
    BY <1>4, SameIndices
  <1>6. TypeOK'
    <2>1. w' \in Index /\ want' \in Nat /\ got' \in Nat
      BY <1>1, <1>3 DEF TypeOK
    <2>2. worker' \in [Reads -> WorkerStates]
      BY <1>1, <1>4 DEF TypeOK, WorkerStates
    <2>3. /\ overflow' = FALSE
          /\ UNCHANGED <<inprog, stopFlag, cancel, delivered>>
      BY DEF AskBurst, history
    <2> QED BY <1>1, <1>4, <2>1, <2>2, <2>3 DEF TypeOK
  <1>7. ReadsInv'
    BY <1>1, <1>4 DEF RingInv, ReadsInv, TypeOK, Live
  <1>8. BurstInv'
    <2>1. \A q \in Reads : q # r => worker'[q] \notin Live
      BY <1>1, <1>4 DEF RingInv, ReadsInv, TypeOK, Live
    <2>2. \A i \in Index : ~(w' <= i /\ i < w' + got')
      BY <1>1, <1>3 DEF TypeOK, Index
    <2>3. head' = taken' + Used' + got'
      BY <1>1, <1>3, <1>4, <1>5, Distances DEF TypeOK
    <2>4. want' >= got'
      BY <1>3
    <2>5. worker'[r] = "ask"
      BY <1>1, <1>4 DEF TypeOK
    <2> QED BY <1>3, <1>4, <1>5, <2>1, <2>2, <2>3, <2>4, <2>5
            DEF BurstInv, Filling, Live
  <1>9. ContentInv' /\ ConsumerInv' /\ NoLostWakeup'
    BY <1>1, <1>4, <1>5
    DEF RingInv, TypeOK, ContentInv, ConsumerInv, NoLostWakeup
  <1> QED BY <1>6, <1>7, <1>8, <1>9 DEF RingInv

(* A packet lands in a free slot, and carries the next number. *)
LEMMA RecvPacketStep ==
  ASSUME RingInv, NEW r \in Reads, RecvPacket(r)
  PROVE  RingInv'
  <1>1. /\ TypeOK /\ worker[r] = "recv" /\ got < want
        /\ w = writing /\ w + want <= N /\ Used + want <= N - 1 /\ want >= 1
        /\ head = taken + Used + got
    BY DEF RecvPacket, RingInv, BurstInv, Filling
  <1>2. /\ slot' = [slot EXCEPT ![w + got] = head + 1]
        /\ head' = head + 1 /\ got' = got + 1
        /\ worker' = [worker EXCEPT ![r] = IF got + 1 = want THEN "publish"
                                                           ELSE "recv"]
        /\ UNCHANGED <<reading, writing, packetEvent, pending, w, want, posted,
                       told, cancelled, consumer, taken>>
    BY DEF RecvPacket, Goto, header, app
  <1>3. w + got \in Index
    BY <1>1, RingAssumption DEF TypeOK, Index
  <1>4. Used' = Used /\ \A i \in Index : Ahead(i)' = Ahead(i)
    BY <1>2, SameIndices
  <1>5. TypeOK'
    BY <1>1, <1>2, <1>3 DEF TypeOK, RecvPacket, WorkerStates, header, history
  <1>6. ReadsInv'
    BY <1>1, <1>2 DEF RingInv, ReadsInv, TypeOK, Live
  <1>7. Used \in 0..(N - 1)
    BY <1>1, Distances
  <1>8. BurstInv'
    <2>1. \A q \in Reads : q # r => worker'[q] \notin Live
      BY <1>1, <1>2 DEF RingInv, ReadsInv, TypeOK, Live
    <2>2. got' <= want' /\ head' = taken' + Used' + got'
      BY <1>1, <1>2, <1>4, <1>7 DEF TypeOK
    <2>3. ASSUME NEW i \in Index, w' <= i, i < w' + got'
          PROVE  slot'[i] = taken' + Used' + 1 + (i - w')
      <3>1. CASE i = w + got
        BY <1>1, <1>2, <1>3, <1>4, <1>7, <3>1 DEF TypeOK, Index
      <3>2. CASE i # w + got
        <4>1. i < w + got /\ slot'[i] = slot[i]
          BY <1>1, <1>2, <1>3, <2>3, <3>2 DEF TypeOK, Index
        <4>2. slot[i] = taken + Used + 1 + (i - w)
          BY <1>1, <1>2, <2>3, <4>1 DEF RingInv, BurstInv, Filling
        <4> QED BY <1>2, <1>4, <4>1, <4>2
      <3> QED BY <3>1, <3>2
    <2>4. /\ worker'[r] \in {"recv", "publish"}
          /\ worker'[r] = "publish" => got' = want'
      BY <1>1, <1>2 DEF TypeOK
    <2> QED BY <1>1, <1>2, <1>4, <2>1, <2>2, <2>3, <2>4
            DEF BurstInv, Filling, Live
  <1>9. ContentInv'
    <2>1. head' >= taken' + Used'
      BY <1>1, <1>2, <1>4, <1>7 DEF TypeOK
    <2>2. ASSUME NEW i \in Index, Ahead(i)' < Used'
          PROVE  slot'[i] = taken' + 1 + Ahead(i)'
      <3>1. i # w + got
        <4> SUFFICES ASSUME i = w + got PROVE FALSE
          OBVIOUS
        <4>1. Ahead(i) = Used + (i - w)
          BY <1>1, <1>3, BurstIsFree DEF TypeOK, Index
        <4> QED BY <1>1, <1>4, <1>7, <2>2, <4>1 DEF TypeOK, Index
      <3> QED BY <1>1, <1>2, <1>4, <2>2, <3>1 DEF RingInv, ContentInv, TypeOK
    <2> QED BY <2>1, <2>2 DEF ContentInv
  <1>10. ConsumerInv' /\ NoLostWakeup'
    BY <1>1, <1>2, <1>4 DEF RingInv, TypeOK, ConsumerInv, NoLostWakeup
  <1> QED BY <1>5, <1>6, <1>8, <1>9, <1>10 DEF RingInv

(* Publishing turns exactly the slots of the burst into unread ones. *)
LEMMA PublishBurstStep ==
  ASSUME RingInv, NEW r \in Reads, PublishBurst(r)
  PROVE  RingInv'
  <1>1. /\ TypeOK /\ worker[r] = "publish" /\ got = want
        /\ w = writing /\ w + want <= N /\ Used + want <= N - 1 /\ want >= 1
        /\ head = taken + Used + got
    BY DEF PublishBurst, RingInv, BurstInv, Filling
  <1>2. /\ worker' = [worker EXCEPT ![r] = "signal"]
        /\ UNCHANGED <<slot, reading, packetEvent, pending, w, want, got,
                       posted, told, cancelled, consumer, head, taken>>
    BY DEF PublishBurst, Goto, locals, app, history
  <1>3. /\ writing' \in Index /\ Used' = Used + want
        /\ \A i \in Index : Ahead(i)' = Ahead(i)
        /\ \A i \in Index :
             Used <= Ahead(i) /\ Ahead(i) < Used + want
               => w <= i /\ i < w + want /\ i - w = Ahead(i) - Used
    BY <1>1, PublishDistances DEF PublishBurst
  <1>4. Used \in Nat /\ (\A i \in Index : Ahead(i) \in Nat) /\ want \in Nat
        /\ taken \in Nat /\ (\A i \in Index : i \in Nat) /\ w \in Nat
    BY <1>1, Distances DEF TypeOK, Index
  <1>5. TypeOK'
    BY <1>1, <1>2, <1>3 DEF TypeOK, PublishBurst, WorkerStates, history
  <1>6. ReadsInv'
    BY <1>1, <1>2 DEF RingInv, ReadsInv, TypeOK, Live
  <1>7. BurstInv'
    <2>1. \A q \in Reads : q # r => worker'[q] \notin Live
      BY <1>1, <1>2 DEF RingInv, ReadsInv, TypeOK, Live
    <2>2. worker'[r] = "signal" /\ head' = taken' + Used'
      BY <1>1, <1>2, <1>3, <1>4 DEF TypeOK
    <2> QED BY <2>1, <2>2 DEF BurstInv, Filling, Live
  <1>8. ContentInv'
    <2>1. ASSUME NEW i \in Index, Ahead(i)' < Used'
          PROVE  slot'[i] = taken' + 1 + Ahead(i)'
      <3>1. CASE Ahead(i) < Used
        BY <1>2, <1>3, <3>1 DEF RingInv, ContentInv
      <3>2. CASE ~(Ahead(i) < Used)
        <4>1. w <= i /\ i < w + got /\ i - w = Ahead(i) - Used
          BY <1>1, <1>3, <1>4, <2>1, <3>2
        <4>2. slot[i] = taken + Used + 1 + (i - w)
          BY <1>1, <4>1 DEF RingInv, BurstInv, Filling
        <4> QED BY <1>2, <1>3, <1>4, <4>1, <4>2
      <3> QED BY <3>1, <3>2
    <2> QED BY <1>1, <1>2, <1>3, <1>4, <2>1 DEF ContentInv
  <1>9. ConsumerInv' /\ NoLostWakeup'
    <2>1. Used' >= 1
      BY <1>1, <1>3, <1>4
    <2>2. consumer = "read" => Used' >= 2
      BY <1>1, <1>3, <1>4 DEF RingInv, ConsumerInv
    <2>3. worker'[r] = "signal"
      BY <1>1, <1>2 DEF TypeOK
    <2> QED BY <1>2, <2>1, <2>2, <2>3 DEF ConsumerInv, NoLostWakeup
  <1> QED BY <1>5, <1>6, <1>7, <1>8, <1>9 DEF RingInv

(* The consumer's steps that leave Reading alone.  Look is where an empty
   ring would be taken for a full one. *)
LEMMA ConsumerControlStep ==
  ASSUME Primed, RingInv,
         SpinDone \/ Wake \/ WaitTimesOut \/ ResetPacketEvent \/ Look \/ Quit
  PROVE  RingInv'
  <1> USE SameIndices DEF RingInv, TypeOK, ReadsInv, BurstInv, ContentInv,
                          ConsumerInv, NoLostWakeup, ConsumerStates, header,
                          locals, app, history
  <1>1. CASE SpinDone
    BY <1>1 DEF SpinDone
  <1>2. CASE Wake
    BY <1>2 DEF Wake
  <1>3. CASE WaitTimesOut
    BY <1>3 DEF WaitTimesOut
  <1>4. CASE ResetPacketEvent
    BY <1>4 DEF ResetPacketEvent
  <1>5. CASE Look
    <2>1. MustWaitAvail(reading, writing) = Used
      BY <1>5, RingAssumption DEF Look, MustWaitAvail, Used, UsedBetween, Index
    <2>2. CASE Used < Thresh
      BY <1>5, <2>1, <2>2, Distances, RingAssumption DEF Look
    <2>3. CASE ~(Used < Thresh)
      BY <1>5, <2>1, <2>3, Distances, RingAssumption DEF Look
    <2> QED BY <2>2, <2>3
  <1>6. CASE Quit
    BY <1>6 DEF Quit
  <1> QED BY <1>1, <1>2, <1>3, <1>4, <1>5, <1>6

(* Taking a packet leaves at least one behind. *)
LEMMA TakePacketStep ==
  ASSUME RingInv, TakePacket
  PROVE  RingInv'
  <1>1. TypeOK /\ Used >= 2 /\ Used \in 0..(N - 1)
    BY Distances DEF RingInv, ConsumerInv, TakePacket
  <1>2. /\ consumer' = "look" /\ taken' = taken + 1
        /\ UNCHANGED <<slot, writing, packetEvent, worker, pending, w, want,
                       got, posted, told, cancelled, head>>
    BY DEF TakePacket, locals, app
  <1>3. /\ Used' = Used - 1
        /\ \A i \in Index : Ahead(i)' < Used' => Ahead(i) = Ahead(i)' + 1
    BY <1>1, TakeDistances
  <1>4. TypeOK'
    <2>1. reading' \in Index
      BY <1>1, RingAssumption DEF TakePacket, TypeOK, Index
    <2>2. delivered' \in Nat /\ taken' \in Nat
      BY <1>1 DEF TakePacket, TypeOK
    <2>3. UNCHANGED <<inprog, overflow, stopFlag, cancel>>
      BY DEF TakePacket
    <2> QED BY <1>1, <1>2, <2>1, <2>2, <2>3 DEF TypeOK, ConsumerStates
  <1>5. ReadsInv'
    BY <1>2 DEF RingInv, ReadsInv
  <1>6. taken' + Used' = taken + Used
    BY <1>1, <1>2, <1>3 DEF TypeOK
  <1>7. BurstInv'
    <2>1. w \in Nat /\ want \in Nat /\ got \in Nat /\ taken \in Nat
          /\ N \in Nat /\ \A i \in Index : i \in Nat
      BY <1>1, RingAssumption DEF TypeOK, Index
    <2>2. taken' + Used' + 1 = taken + Used + 1
          /\ Used' + want <= Used + want
      BY <1>1, <1>2, <1>3, <2>1
    <2> QED BY <1>1, <1>2, <1>3, <1>6, <2>1, <2>2 DEF RingInv, BurstInv
  <1>8. ContentInv'
    <2>1. ASSUME NEW i \in Index, Ahead(i)' < Used'
          PROVE  slot'[i] = taken' + 1 + Ahead(i)'
      <3>1. Ahead(i) = Ahead(i)' + 1 /\ Ahead(i) \in 0..(N - 1)
        BY <1>1, <1>3, <2>1, Distances
      <3>2. Ahead(i)' \in Int
        <4>1. reading' \in Int /\ i \in Int /\ N \in Int
          BY <1>4, RingAssumption DEF TypeOK, Index
        <4> QED BY <4>1 DEF Ahead
      <3>3. Ahead(i) < Used
        BY <1>1, <1>3, <2>1, <3>1, <3>2
      <3>4. slot[i] = taken + 1 + Ahead(i)
        BY <3>3 DEF RingInv, ContentInv
      <3> QED BY <1>1, <1>2, <3>1, <3>2, <3>4 DEF TypeOK
    <2> QED BY <1>2, <1>6, <2>1 DEF RingInv, ContentInv
  <1>9. ConsumerInv' /\ NoLostWakeup'
    BY <1>1, <1>2, <1>3 DEF ConsumerInv, NoLostWakeup
  <1> QED BY <1>4, <1>5, <1>7, <1>8, <1>9 DEF RingInv

LEMMA StepInv ==
  ASSUME Primed, ~WaitExpires, RingInv, [Next]_vars
  PROVE  RingInv'
  <1>1. ASSUME NEW r \in Reads, WorkerStep(r) \/ SocketFails(r)
        PROVE  RingInv'
    BY <1>1, WorkerControlStep, AskBurstStep, RecvPacketStep, PublishBurstStep
       DEF WorkerStep, SocketFails
  <1>2. CASE ConsumerStep \/ WaitTimesOut \/ Quit
    BY <1>2, ConsumerControlStep, TakePacketStep DEF ConsumerStep
  <1>3. CASE UNCHANGED vars
    <2>1. UNCHANGED <<slot, reading, writing, packetEvent, worker, pending, w,
                      want, got, posted, told, cancelled, consumer, head,
                      taken, delivered, inprog, overflow, stopFlag, cancel>>
      BY <1>3 DEF vars, header, locals, app, history
    <2> QED BY <2>1, SameIndices
            DEF RingInv, TypeOK, ReadsInv, BurstInv, ContentInv, ConsumerInv,
                NoLostWakeup
  <1> QED BY <1>1, <1>2, <1>3, PostReadStep, AppStep DEF Next

(* RingInv is invariant. *)
THEOREM RingCorrect ==
  ASSUME Primed, ~WaitExpires
  PROVE  Spec => []RingInv
  <1>1. Init => RingInv
    BY InitInv
  <1>2. RingInv /\ [Next]_vars => RingInv'
    BY StepInv
  <1> QED BY <1>1, <1>2, PTL DEF Spec

-----------------------------------------------------------------------------
(* Every value stays in its range: in particular Reading and Writing wrap. *)
THEOREM TypeCorrect ==
  ASSUME Primed, ~WaitExpires
  PROVE  Spec => []TypeOK
  <1>1. RingInv => TypeOK
    BY DEF RingInv
  <1> QED BY <1>1, RingCorrect, PTL

(* The packet the consumer reads is the next one of the stream. *)
THEOREM InOrder ==
  ASSUME Primed, ~WaitExpires
  PROVE  Spec => []TakesNextPacket
  <1>1. RingInv => TakesNextPacket
    <2> SUFFICES ASSUME RingInv, consumer = "read"
                 PROVE  slot[reading] = taken + 1
      BY DEF TakesNextPacket
    <2>1. TypeOK /\ Used >= 2 /\ Used \in 0..(N - 1) /\ reading \in Index
      BY Distances DEF RingInv, ConsumerInv, TypeOK
    <2>2. Ahead(reading) = 0
      BY <2>1 DEF Ahead, Index
    <2>3. slot[reading] = taken + 1 + 0
      BY <2>1, <2>2 DEF RingInv, ContentInv
    <2> QED BY <2>1, <2>3 DEF TypeOK
  <1> QED BY <1>1, RingCorrect, PTL

(* A burst in flight never reaches an unread packet or leaves the buffer. *)
THEOREM NeverOverruns ==
  ASSUME Primed, ~WaitExpires
  PROVE  Spec => []NoOverrun
  <1>1. RingInv => NoOverrun
    <2> SUFFICES ASSUME RingInv, NEW r \in Reads,
                        worker[r] \in {"ask", "recv", "publish"}
                 PROVE  /\ w + want <= N
                        /\ \A i \in Index : w <= i /\ i < w + want
                                              => Ahead(i) >= Used
      BY DEF NoOverrun, InBurst
    <2>1. /\ TypeOK /\ w = writing /\ w + want <= N /\ Used + want <= N - 1
      BY DEF RingInv, BurstInv, Filling
    <2>2. ASSUME NEW i \in Index, w <= i, i < w + want
          PROVE  Ahead(i) >= Used
      <3>1. Ahead(i) = Used + (i - w)
        BY <2>1, <2>2, BurstIsFree
      <3>2. w \in Nat /\ i \in Nat /\ Used \in Nat
        BY <2>1, Distances DEF TypeOK, Index
      <3> QED BY <2>2, <3>1, <3>2
    <2> QED BY <2>1, <2>2
  <1> QED BY <1>1, RingCorrect, PTL

(* No wake-up of the consumer is lost. *)
THEOREM WakeupKept ==
  ASSUME Primed, ~WaitExpires
  PROVE  Spec => []NoLostWakeup
  <1>1. RingInv => NoLostWakeup
    BY DEF RingInv
  <1> QED BY <1>1, RingCorrect, PTL

(* A read reported finished no longer touches the buffer. *)
THEOREM QuietOnceFinished ==
  ASSUME Primed, ~WaitExpires
  PROVE  Spec => TouchesOnlyWhilePending
  <1>1. RingInv /\ [Next]_vars
          => [ TouchesShared
                 => \E r \in Reads :
                       /\ worker[r] \in Holding \/ worker'[r] \in Holding
                       /\ Pending(r) /\ Pending(r)' ]_vars
    <2> SUFFICES ASSUME RingInv, Next, TouchesShared
                 PROVE  \E r \in Reads :
                          /\ worker[r] \in Holding \/ worker'[r] \in Holding
                          /\ Pending(r) /\ Pending(r)'
      OBVIOUS
    <2>a. ~PostRead /\ ~CancelIo /\ ~StopTransfer
      BY DEF TouchesShared, PostRead, CancelIo, StopTransfer, header, app, RingInv,
             TypeOK
    <2>b. ~ConsumerStep /\ ~WaitTimesOut /\ ~Quit
      <3>1. ~SpinDone /\ ~Wake /\ ~Look /\ ~WaitTimesOut /\ ~Quit
        BY DEF TouchesShared, SpinDone, Wake, Look, WaitTimesOut, Quit, header
      <3>2. ~ResetPacketEvent /\ ~TakePacket
        BY DEF TouchesShared, ResetPacketEvent, TakePacket
      <3> QED BY <3>1, <3>2 DEF ConsumerStep
    <2>c. PICK r \in Reads : ReportFinished(r) \/ WorkerStep(r) \/ SocketFails(r)
      BY <2>a, <2>b DEF Next
    <2>d. ~ReportFinished(r) /\ ~SocketFails(r)
      BY DEF TouchesShared, ReportFinished, SocketFails, ConnectFails, Fail, header
    <2>e. ~LeaveLoop(r) /\ ~AnsweredEmpty(r) /\ ~Answered(r) /\ ~CompleteRead(r)
      BY DEF TouchesShared, LeaveLoop, AnsweredEmpty, Answered, CompleteRead, header
    <2>1. \/ EnterRing(r) \/ RingFull(r) \/ AskBurst(r) \/ RecvPacket(r)
          \/ PublishBurst(r) \/ SignalPacket(r) \/ EndTransfer(r)
      BY <2>c, <2>d, <2>e DEF WorkerStep
    <2>2. /\ worker[r] \in {"start", "loop", "recv", "publish", "signal", "out"}
          /\ UNCHANGED <<pending, told>>
      BY <2>1 DEF EnterRing, RingFull, AskBurst, RecvPacket, PublishBurst,
                  SignalPacket, EndTransfer, app
    <2>3. worker[r] = "start" => worker'[r] = "loop"
      BY <2>1 DEF EnterRing, RingFull, AskBurst, RecvPacket, PublishBurst,
                  SignalPacket, EndTransfer, Goto, RingInv, TypeOK
    <2>4. pending[r] /\ r \notin told
      BY <2>2 DEF RingInv, ReadsInv, Live
    <2> QED BY <2>2, <2>3, <2>4 DEF Holding, Pending
  <1> QED BY <1>1, RingCorrect, PTL DEF Spec, TouchesOnlyWhilePending

-----------------------------------------------------------------------------
(* The ring implements the bounded FIFO: publishing a burst appends it,
   TakePacket hands out the oldest packet, a new read starts afresh, and
   every other step is invisible. *)
THEOREM ImplementsQueue ==
  ASSUME Primed, ~WaitExpires
  PROVE  Spec => QueueSpec
  <1> DEFINE sent == taken + Used
  <1>1. Init => Queue!Init
    BY RingAssumption DEF Init, Queue!Init, Used, UsedBetween
  <1>2. RingInv /\ [Next]_vars => [Queue!Next]_Queue!vars
    <2> SUFFICES ASSUME RingInv, [Next]_vars
                 PROVE  Queue!Next \/ UNCHANGED Queue!vars
      OBVIOUS
    <2>0. /\ TypeOK /\ Used \in 0..(N - 1) /\ taken \in Nat /\ head \in Nat
          /\ want \in Nat /\ N \in Nat
      BY Distances, RingAssumption DEF RingInv, TypeOK
    <2>1. CASE PostRead
      <3>1. taken' = head /\ Used' = 0 /\ UNCHANGED delivered
        BY <2>1 DEF PostRead, Used, UsedBetween
      <3>2. head >= sent
        BY DEF RingInv, ContentInv
      <3>3. sent' = head
        BY <2>0, <3>1
      <3>4. Queue!Restart
        BY <3>1, <3>2, <3>3 DEF Queue!Restart
      <3> QED BY <3>4 DEF Queue!Next
    <2>2. CASE TakePacket
      <3>1. /\ Used >= 2 /\ reading \in Index
        BY <2>0, <2>2 DEF RingInv, ConsumerInv, TakePacket, TypeOK
      <3>2. Used' = Used - 1 /\ Ahead(reading) = 0
        BY <2>0, <2>2, <3>1, TakeDistances
      <3>3. slot[reading] = taken + 1
        BY <2>0, <3>1, <3>2 DEF RingInv, ContentInv
      <3>4. taken' = taken + 1 /\ delivered' = taken + 1
        BY <2>2, <3>3 DEF TakePacket
      <3>5. sent' = sent /\ taken < sent
        BY <2>0, <3>1, <3>2, <3>4
      <3>6. Queue!Take
        BY <3>4, <3>5 DEF Queue!Take
      <3> QED BY <3>6 DEF Queue!Next
    <2>3. ASSUME NEW r \in Reads, PublishBurst(r)
          PROVE  Queue!Next
      <3>1. /\ w = writing /\ w + want <= N /\ Used + want <= N - 1 /\ want >= 1
        BY <2>3 DEF PublishBurst, RingInv, BurstInv, Filling
      <3>2. Used' = Used + want
        BY <2>0, <2>3, <3>1, PublishDistances DEF PublishBurst
      <3>3. UNCHANGED <<taken, delivered>>
        BY <2>3 DEF PublishBurst, history
      <3>4. sent' = sent + want
        BY <2>0, <3>2, <3>3
      <3>5. sent' > sent /\ sent' - taken <= N - 1
        BY <2>0, <3>1, <3>4
      <3>6. Queue!Publish
        BY <3>3, <3>5 DEF Queue!Publish
      <3> QED BY <3>6 DEF Queue!Next
    <2>4. CASE ~PostRead /\ ~TakePacket /\ \A r \in Reads : ~PublishBurst(r)
      <3>1. UNCHANGED <<reading, writing, taken, delivered>>
        BY <2>4
        DEF Next, WorkerStep, SocketFails, ConsumerStep, CancelIo,
            StopTransfer, ReportFinished, EnterRing, ConnectFails, LeaveLoop,
            RingFull, AskBurst, AnsweredEmpty, Answered, RecvPacket,
            SignalPacket, Fail, EndTransfer, CompleteRead, SpinDone, Wake,
            ResetPacketEvent, Look, WaitTimesOut, Quit, vars, header, history
      <3>2. sent' = sent
        BY <3>1, SameIndices
      <3> QED BY <3>1, <3>2 DEF Queue!vars
    <2> QED BY <2>1, <2>2, <2>3, <2>4
  <1> QED BY <1>1, <1>2, RingCorrect, PTL DEF Spec, QueueSpec, Queue!Spec
=============================================================================
