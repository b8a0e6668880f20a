-------------------------- MODULE ImageStream_proofs --------------------------
(***************************************************************************)
(* Proofs about ImageStream, for any line length, read sizes, buffer and   *)
(* bounds; those that need a condition on how the stream is used name it.  *)
(***************************************************************************)
EXTENDS ImageStream, SequenceTheorems, WellFoundedInduction, TLAPS

(* TypeOK, one flag at a time, and the room that threads about to spawn a
   reader have reserved. *)
Arming == {"arm", "stop", "join", "clear", "align", "start", "raise", "spawn"}
Flags ==
  /\ lamp \in BOOLEAN /\ reading \in BOOLEAN /\ served \in BOOLEAN
  /\ align \in BOOLEAN /\ streamed \in BOOLEAN /\ lastread \in BOOLEAN
  /\ torn \in BOOLEAN
Numbers ==
  /\ triggers \in 0..MaxTriggers /\ faults \in 0..MaxFaults
  /\ emitted \in 0..MaxUnits /\ scanStart \in 0..MaxUnits
  /\ last \in 0..MaxUnits /\ mark \in 0..MaxUnits /\ armed \in 0..MaxUnits
Places ==
  /\ client \in {"scanning", "gone"} /\ h \in {"ok", "dead", "none"}
  /\ trig \in Arming \union {"idle", "close", "drop", "open"}
  /\ read \in {"idle", "start", "raise", "spawn", "check", "align", "wait",
               "take", "send", "mark", "stamp"}
  /\ want \in Wants \union {0}
Workers ==
  /\ flying \subseteq Threads
  /\ imgthread \in 0..MaxStarts /\ joining \in 0..MaxStarts
  /\ reader \in [Threads -> {"none", "submit", "run", "retire", "gone"}]
  /\ watchdog \in [Threads -> {"none", "sleep", "stop", "clear", "gone"}]
  /\ starts \in Nat
Reserved ==
  /\ starts + (IF trig \in Arming THEN 1 ELSE 0)
            + (IF read \in {"start", "raise", "spawn"} THEN 1 ELSE 0)
       <= MaxStarts
Data ==
  /\ reply \in Seq(1..MaxUnits)
  /\ imgbuf \in Seq(1..MaxUnits) /\ Len(imgbuf) <= MaxBuf
  /\ wire \in Seq(1..MaxUnits) /\ Len(wire) <= MaxWire
Typed == Flags /\ Numbers /\ Places /\ Workers /\ Reserved /\ Data

-----------------------------------------------------------------------------
LEMMA TypedInit == Init => Typed
  <1> SUFFICES ASSUME Init PROVE Typed
    OBVIOUS
  <1> USE StreamAssumption DEF Init
  <1>1. Flags
    BY DEF Flags
  <1>2. Numbers
    BY DEF Numbers
  <1>3. Places
    BY DEF Places
  <1>4. Workers /\ Reserved
    BY DEF Workers, Reserved, Arming, Threads
  <1>5. Data
    BY DEF Data
  <1> QED
    BY <1>1, <1>2, <1>3, <1>4, <1>5 DEF Typed

LEMMA TypedIsTypeOK == Typed => TypeOK
  <1>1. Flags => {lamp, reading, served, align, streamed, lastread, torn}
                   \subseteq BOOLEAN
    BY DEF Flags
  <1>2. Numbers => {last, mark, armed} \subseteq 0..MaxUnits
    BY DEF Numbers
  <1>3. Workers /\ Reserved => starts \in 0..MaxStarts
    BY StreamAssumption DEF Workers, Reserved
  <1> QED
    BY <1>1, <1>2, <1>3
  DEF TypeOK, Typed, Flags, Numbers, Places, Workers, Data, Arming, Threads

(* Flags and places change one by one. *)
LEMMA FlagsStep == Typed /\ [Next]_vars => Flags'
  <1> SUFFICES ASSUME Typed, [Next]_vars PROVE Flags'
    OBVIOUS
  <1> USE DEF Typed, Flags, outside, usb, threads, clock, command, image,
              history, device
  <1>1. CASE SendTrigger \/ RequestRead \/ Capture \/ Callback \/ StreamOn
    BY <1>1 DEF SendTrigger, RequestRead, Capture, Callback, StreamOn
  <1>2. CASE CommandStep
    BY <1>2 DEF CommandStep, Reopen, CloseHandle, DropBuffer, OpenAgain,
       ArmDuringTransfer, ArmStops, StopReading, Joined, ClearBuffer, SetAlign,
       TriggerStart, TriggerRaise, TriggerSpawn, SpawnThreads
  <1>3. CASE ImageStep
    BY <1>3 DEF ImageStep, ReadStart, ReadRaise, ReadSpawn, CheckAlign,
       AlignToLine, AlignGivesUp, WaitEnds, TakeReply, SendReply, SendFails,
       MarkServed, StampRead, SpawnThreads
  <1>4. ASSUME NEW t \in Threads,
               ReaderStep(t) \/ EventLoopFails(t) \/ WatchdogStep(t)
        PROVE  Flags'
    BY <1>4 DEF ReaderStep, Submit, SubmitFails, SubmitOnNone, Retire,
         ReaderEnds, EventLoopFails, WatchdogStep, WatchdogEnds, WatchdogFires,
         WatchdogLampOff, WatchdogClears
  <1>5. CASE Vanish \/ ClientLeaves \/ UNCHANGED vars
    BY <1>5 DEF Vanish, ClientLeaves, vars
  <1> QED
    BY <1>1, <1>2, <1>3, <1>4, <1>5 DEF Next

LEMMA PlacesStep == Typed /\ [Next]_vars => Places'
  <1> SUFFICES ASSUME Typed, [Next]_vars PROVE Places'
    OBVIOUS
  <1> USE DEF Typed, Places, Arming, outside, usb, threads, clock, command,
              image, history, device
  <1>1. CASE SendTrigger \/ RequestRead \/ Capture \/ Callback \/ StreamOn
    BY <1>1 DEF SendTrigger, RequestRead, Capture, Callback, StreamOn
  <1>2. CASE CommandStep
    BY <1>2 DEF CommandStep, Reopen, CloseHandle, DropBuffer, OpenAgain,
       ArmDuringTransfer, ArmStops, StopReading, Joined, ClearBuffer, SetAlign,
       TriggerStart, TriggerRaise, TriggerSpawn, SpawnThreads
  <1>3. CASE ImageStep
    BY <1>3 DEF ImageStep, ReadStart, ReadRaise, ReadSpawn, CheckAlign,
       AlignToLine, AlignGivesUp, WaitEnds, TakeReply, SendReply, SendFails,
       MarkServed, StampRead, SpawnThreads
  <1>4. ASSUME NEW t \in Threads,
               ReaderStep(t) \/ EventLoopFails(t) \/ WatchdogStep(t)
        PROVE  Places'
    BY <1>4 DEF ReaderStep, Submit, SubmitFails, SubmitOnNone, Retire,
         ReaderEnds, EventLoopFails, WatchdogStep, WatchdogEnds, WatchdogFires,
         WatchdogLampOff, WatchdogClears
  <1>5. CASE Vanish \/ ClientLeaves \/ UNCHANGED vars
    BY <1>5 DEF Vanish, ClientLeaves, vars
  <1> QED
    BY <1>1, <1>2, <1>3, <1>4, <1>5 DEF Next

LEMMA ReservedStep == Typed /\ [Next]_vars => Reserved'
  <1> SUFFICES ASSUME Typed, [Next]_vars PROVE Reserved'
    OBVIOUS
  <1> USE StreamAssumption
      DEF Typed, Places, Reserved, Arming, Workers, outside, usb, threads, clock,
          command, image, history, device, Threads
  <1>1. CASE SendTrigger \/ RequestRead
    BY <1>1 DEF SendTrigger, RequestRead, Spawning, Commanding, Awaiting
  <1>2. CASE Capture \/ Callback \/ StreamOn
    BY <1>2 DEF Capture, Callback, StreamOn
  <1>3. CASE CommandStep
    <2>1. CASE TriggerSpawn
      BY <1>3, <2>1 DEF TriggerSpawn, SpawnThreads
    <2>2. CASE ~TriggerSpawn
      BY <1>3, <2>2 DEF CommandStep, Reopen, CloseHandle, DropBuffer,
         OpenAgain, ArmDuringTransfer, ArmStops, StopReading, Joined,
         ClearBuffer, SetAlign, TriggerStart, TriggerRaise
    <2> QED
      BY <2>1, <2>2
  <1>4. CASE ImageStep
    <2>1. CASE ReadSpawn
      BY <1>4, <2>1 DEF ReadSpawn, SpawnThreads
    <2>2. CASE ~ReadSpawn
      BY <1>4, <2>2 DEF ImageStep, ReadStart, ReadRaise, CheckAlign,
         AlignToLine, AlignGivesUp, WaitEnds, TakeReply, SendReply, SendFails,
         MarkServed, StampRead
    <2> QED
      BY <2>1, <2>2
  <1>5. ASSUME NEW t \in Threads,
               ReaderStep(t) \/ EventLoopFails(t) \/ WatchdogStep(t)
        PROVE  Reserved'
    BY <1>5 DEF ReaderStep, Submit, SubmitFails, SubmitOnNone, Retire,
         ReaderEnds, EventLoopFails, WatchdogStep, WatchdogEnds, WatchdogFires,
         WatchdogLampOff, WatchdogClears
  <1>6. CASE Vanish \/ ClientLeaves \/ UNCHANGED vars
    BY <1>6 DEF Vanish, ClientLeaves, vars
  <1> QED
    BY <1>1, <1>2, <1>3, <1>4, <1>5, <1>6 DEF Next

LEMMA WorkersStep == Typed /\ [Next]_vars => Workers'
  <1> SUFFICES ASSUME Typed, [Next]_vars PROVE Workers'
    OBVIOUS
  <1> USE StreamAssumption
      DEF Typed, Places, Workers, Reserved, Arming, outside, usb, threads, clock,
          command, image, history, device, Threads
  <1>1. CASE SendTrigger \/ RequestRead
    BY <1>1 DEF SendTrigger, RequestRead, Spawning, Commanding, Awaiting
  <1>2. CASE Capture \/ Callback \/ StreamOn
    BY <1>2 DEF Capture, Callback, StreamOn
  <1>3. CASE CommandStep
    <2>1. CASE TriggerSpawn
      BY <1>3, <2>1 DEF TriggerSpawn, SpawnThreads
    <2>2. CASE Reopen \/ CloseHandle \/ DropBuffer \/ OpenAgain
      <3>1. /\ flying' \in {flying, {}}
            /\ UNCHANGED <<imgthread, joining, starts, reader, watchdog>>
        BY <2>2 DEF Reopen, CloseHandle, DropBuffer, OpenAgain
      <3> QED
        BY <3>1
    <2>3. CASE ArmDuringTransfer \/ ArmStops \/ StopReading \/ Joined
      <3>1. CASE Joined
        <4>1. /\ imgthread' = 0 /\ joining' = 0
              /\ UNCHANGED <<flying, starts, reader, watchdog>>
          BY <3>1 DEF Joined
        <4> QED
          BY <4>1
      <3> QED
        BY <2>3, <3>1 DEF ArmDuringTransfer, ArmStops, StopReading
    <2>4. CASE ClearBuffer \/ SetAlign \/ TriggerStart \/ TriggerRaise
      BY <2>4 DEF ClearBuffer, SetAlign, TriggerStart, TriggerRaise
    <2> QED
      BY <1>3, <2>1, <2>2, <2>3, <2>4 DEF CommandStep
  <1>4. CASE ImageStep
    <2>1. CASE ReadSpawn
      <3>1. starts + 1 \in 1..MaxStarts
        BY <2>1 DEF ReadSpawn
      <3>2. /\ imgthread' = starts + 1 /\ starts' = starts + 1
            /\ reader' = [reader EXCEPT ![starts + 1] = "submit"]
            /\ watchdog' = [watchdog EXCEPT ![starts + 1] = "sleep"]
            /\ UNCHANGED <<flying, joining>>
        BY <2>1 DEF ReadSpawn, SpawnThreads
      <3> QED
        BY <3>1, <3>2
    <2>2. CASE ~ReadSpawn
      BY <1>4, <2>2 DEF ImageStep, ReadStart, ReadRaise, CheckAlign,
         AlignToLine, AlignGivesUp, WaitEnds, TakeReply, SendReply, SendFails,
         MarkServed, StampRead
    <2> QED
      BY <2>1, <2>2
  <1>5. ASSUME NEW t \in Threads,
               ReaderStep(t) \/ EventLoopFails(t) \/ WatchdogStep(t)
        PROVE  Workers'
    BY <1>5 DEF ReaderStep, Submit, SubmitFails, SubmitOnNone, Retire,
         ReaderEnds, EventLoopFails, WatchdogStep, WatchdogEnds, WatchdogFires,
         WatchdogLampOff, WatchdogClears
  <1>6. CASE Vanish \/ ClientLeaves \/ UNCHANGED vars
    BY <1>6 DEF Vanish, ClientLeaves, vars
  <1> QED
    BY <1>1, <1>2, <1>3, <1>4, <1>5, <1>6 DEF Next

-----------------------------------------------------------------------------
(* What the actions do to the sequences: a contiguous part of one, one element
   more, or one after the other. *)
Part(s, t) ==
  \E k \in Nat : Len(s) + k <= Len(t) /\ \A i \in 1..Len(s) : s[i] = t[i + k]

LEMMA Nothing == ASSUME NEW t \in Seq(1..MaxUnits)
                 PROVE  <<>> \in Seq(1..MaxUnits) /\ Part(<<>>, t)
  <1>1. 0 \in Nat /\ Len(<<>>) + 0 <= Len(t)
    OBVIOUS
  <1> QED
    BY <1>1 DEF Part

LEMMA Itself == ASSUME NEW t \in Seq(1..MaxUnits) PROVE Part(t, t)
  <1>1. 0 \in Nat /\ Len(t) + 0 <= Len(t)
    OBVIOUS
  <1>2. \A i \in 1..Len(t) : i + 0 = i
    OBVIOUS
  <1> QED
    BY <1>1, <1>2 DEF Part

LEMMA SubSeqIsPart ==
  ASSUME NEW t \in Seq(1..MaxUnits), NEW m \in Nat \ {0}, NEW n \in 0..Len(t)
  PROVE  SubSeq(t, m, n) \in Seq(1..MaxUnits) /\ Part(SubSeq(t, m, n), t)
  <1> DEFINE s == SubSeq(t, m, n)
  <1>1. CASE m <= n
    <2>1. /\ s \in Seq(1..MaxUnits) /\ Len(s) = n - m + 1
          /\ \A i \in 1..(n - m + 1) : s[i] = t[m + i - 1]
      <3>1. \A i \in m..n : t[i] \in 1..MaxUnits
        <4>1. m..n \subseteq 1..Len(t)
          BY LenProperties
        <4> QED
          BY <4>1, ElementOfSeq
      <3> QED
        BY <1>1, <3>1, SubSeqProperties
    <2>2. m - 1 \in Nat /\ Len(s) + (m - 1) <= Len(t)
      BY <2>1
    <2>3. \A i \in 1..Len(s) : s[i] = t[i + (m - 1)]
      <3> HIDE DEF s
      <3>1. \A i \in 1..Len(s) : m + i - 1 = i + (m - 1)
        BY <2>1
      <3> QED
        BY <2>1, <3>1
    <2> QED
      BY <2>1, <2>2, <2>3 DEF Part
  <1>2. CASE m > n
    <2>1. s = <<>>
      BY <1>2, SubSeqEmpty
    <2> QED
      BY <2>1, Nothing
  <1> QED
    BY <1>1, <1>2

LEMMA TailIsPart ==
  ASSUME NEW t \in Seq(1..MaxUnits), t # <<>>
  PROVE  /\ Head(t) \in 1..MaxUnits /\ Head(t) = t[1]
         /\ Tail(t) \in Seq(1..MaxUnits)
         /\ Len(Tail(t)) = Len(t) - 1
         /\ Part(Tail(t), t)
         /\ \A i \in 1..Len(Tail(t)) : Tail(t)[i] = t[i + 1]
  <1>1. Len(t) # 0 /\ Len(t) \in Nat
    OBVIOUS
  <1>2. /\ Tail(t) \in Seq(1..MaxUnits) /\ Len(Tail(t)) = Len(t) - 1
        /\ \A i \in 1..Len(Tail(t)) : Tail(t)[i] = t[i + 1]
        /\ Head(t) \in 1..MaxUnits
    BY HeadTailProperties
  <1>3. 1 \in Nat /\ Len(Tail(t)) + 1 <= Len(t)
    BY <1>1, <1>2
  <1>4. Part(Tail(t), t)
    BY <1>2, <1>3 DEF Part
  <1>5. Head(t) = t[1]
    OBVIOUS
  <1> QED
    BY <1>2, <1>4, <1>5

LEMMA MinOfNaturals ==
  ASSUME NEW S, S \subseteq Nat, S # {}
  PROVE  Min(S) \in S /\ \A y \in S : Min(S) <= y
  <1>1. PICK x \in S : \A y \in S : ~(<<y, x>> \in OpToRel(<, Nat))
    BY NatLessThanWellFounded, WFMin
  <1>2. \A y \in S : x <= y
    <2>1. SUFFICES ASSUME NEW y \in S, y < x PROVE FALSE
      OBVIOUS
    <2>2. <<y, x>> \in Nat \X Nat /\ <<y, x>>[1] < <<y, x>>[2]
      BY <2>1
    <2> QED
      BY <1>1, <2>2 DEF OpToRel
  <1> QED
    BY <1>2 DEF Min

LEMMA FromLineStartIsPart ==
  ASSUME NEW s \in Seq(1..MaxUnits)
  PROVE  FromLineStart(s) \in Seq(1..MaxUnits) /\ Part(FromLineStart(s), s)
  <1>1. CASE Markers(s) = {}
    BY <1>1, Nothing DEF FromLineStart
  <1>2. CASE Markers(s) # {}
    <2>1. Markers(s) \subseteq 1..Len(s)
      BY DEF Markers
    <2>2. Min(Markers(s)) \in Nat \ {0}
      BY <1>2, <2>1, MinOfNaturals
    <2>3. FromLineStart(s) \in Seq(1..MaxUnits) /\ Part(FromLineStart(s), s)
      <3>1. Len(s) \in 0..Len(s)
        BY LenProperties
      <3>2. FromLineStart(s) = SubSeq(s, Min(Markers(s)), Len(s))
        BY <1>2 DEF FromLineStart
      <3> QED
        BY <2>2, <3>1, <3>2, SubSeqIsPart
    <2> QED
      BY <2>3
  <1> QED
    BY <1>1, <1>2

(* What a step does to the data: it drops some, or captures, delivers, serves
   or sends a piece, or delivers everything as the handle is closed. *)
flow == <<reply, imgbuf, wire, last, emitted>>
Drops ==
  /\ Part(imgbuf', imgbuf) /\ Part(wire', wire)
  /\ {imgbuf', wire'} \subseteq Seq(1..MaxUnits)
  /\ UNCHANGED <<reply, last, emitted>>
Captures ==
  /\ emitted < MaxUnits /\ Len(wire) < MaxWire
  /\ emitted' = emitted + 1 /\ wire' = Append(wire, emitted + 1)
  /\ UNCHANGED <<reply, imgbuf, last>>
Delivers ==
  /\ wire # <<>> /\ Len(imgbuf) < MaxBuf
  /\ wire' = Tail(wire) /\ imgbuf' = Append(imgbuf, Head(wire))
  /\ UNCHANGED <<reply, last, emitted>>
Serves ==
  /\ Len(imgbuf) >= want
  /\ reply' = SubSeq(imgbuf, 1, want)
  /\ imgbuf' = SubSeq(imgbuf, want + 1, Len(imgbuf))
  /\ UNCHANGED <<wire, last, emitted>>
Sends ==
  /\ reply' = <<>>
  /\ last' = last \/ (reply # <<>> /\ last' = reply[Len(reply)])
  /\ UNCHANGED <<imgbuf, wire, emitted>>
Flushes ==
  /\ Len(imgbuf) + Len(wire) <= MaxBuf
  /\ imgbuf' = imgbuf \o wire /\ wire' = <<>>
  /\ UNCHANGED <<reply, last, emitted>>
Moves == Drops \/ Captures \/ Delivers \/ Serves \/ Sends \/ Flushes
           \/ (reply' = <<>> /\ UNCHANGED <<imgbuf, wire, last, emitted>>)

LEMMA EveryStepMoves == Typed /\ [Next]_vars => Moves
  <1> SUFFICES ASSUME Typed, [Next]_vars PROVE Moves
    OBVIOUS
  <1> USE DEF outside, usb, threads, clock, command, image, history, device
  <1>1. /\ reply \in Seq(1..MaxUnits) /\ imgbuf \in Seq(1..MaxUnits)
        /\ wire \in Seq(1..MaxUnits)
    BY DEF Typed, Data
  <1>2. ASSUME UNCHANGED flow PROVE Moves
    BY <1>1, <1>2, Itself DEF flow, Moves, Drops
  <1>3. ASSUME imgbuf' = <<>>, UNCHANGED <<reply, wire, last, emitted>>
        PROVE  Moves
    BY <1>1, <1>3, Itself, Nothing DEF Moves, Drops
  <1>4. CASE SendTrigger \/ RequestRead \/ StreamOn \/ Vanish \/ ClientLeaves
             \/ UNCHANGED vars
    BY <1>2, <1>4 DEF SendTrigger, RequestRead, StreamOn, Vanish,
         ClientLeaves, vars, flow
  <1>5. CASE Capture
    BY <1>5 DEF Capture, Moves, Captures
  <1>6. CASE Callback
    <2>1. CASE imgbuf' = Append(imgbuf, Head(wire)) /\ Len(imgbuf) < MaxBuf
      BY <1>6, <2>1 DEF Callback, Moves, Delivers
    <2>2. CASE UNCHANGED imgbuf
      <3>1. wire' = Tail(wire) /\ wire # <<>> /\ UNCHANGED <<reply, last, emitted>>
        BY <1>6 DEF Callback
      <3> QED
        BY <1>1, <2>2, <3>1, Itself, TailIsPart DEF Moves, Drops
    <2> QED
      BY <1>6, <2>1, <2>2 DEF Callback
  <1>7. CASE CommandStep
    <2>1. CASE ClearBuffer \/ DropBuffer
      BY <1>3, <2>1 DEF ClearBuffer, DropBuffer
    <2>2. CASE CloseHandle
      <3>1. wire' = <<>> /\ UNCHANGED <<reply, last, emitted>>
        BY <2>2 DEF CloseHandle
      <3>2. CASE reading /\ Len(imgbuf) + Len(wire) <= MaxBuf
        BY <2>2, <3>1, <3>2 DEF CloseHandle, Moves, Flushes
      <3>3. CASE ~(reading /\ Len(imgbuf) + Len(wire) <= MaxBuf)
        <4>1. UNCHANGED imgbuf
          BY <2>2, <3>3 DEF CloseHandle
        <4> QED
          BY <1>1, <3>1, <4>1, Itself, Nothing DEF Moves, Drops
      <3> QED
        BY <3>2, <3>3
    <2>3. CASE ~(ClearBuffer \/ DropBuffer \/ CloseHandle)
      BY <1>2, <1>7, <2>3 DEF CommandStep, Reopen, OpenAgain,
         ArmDuringTransfer, ArmStops, StopReading, Joined, SetAlign,
         TriggerStart, TriggerRaise, TriggerSpawn, SpawnThreads, flow
    <2> QED
      BY <2>1, <2>2, <2>3
  <1>8. CASE ImageStep
    <2>1. CASE AlignToLine
      <3>1. imgbuf' = FromLineStart(imgbuf) /\ UNCHANGED <<reply, wire, last, emitted>>
        BY <2>1 DEF AlignToLine
      <3> QED
        BY <1>1, <3>1, Itself, FromLineStartIsPart DEF Moves, Drops
    <2>2. CASE TakeReply
      BY <2>2 DEF TakeReply, Moves, Serves
    <2>3. CASE SendReply
      BY <2>3 DEF SendReply, Moves, Sends
    <2>4. CASE SendFails
      BY <2>4 DEF SendFails, Moves
    <2>5. CASE ~(AlignToLine \/ TakeReply \/ SendReply \/ SendFails)
      BY <1>2, <1>8, <2>5 DEF ImageStep, ReadStart, ReadRaise, ReadSpawn,
         CheckAlign, AlignGivesUp, WaitEnds, MarkServed, StampRead,
         SpawnThreads, flow
    <2> QED
      BY <2>1, <2>2, <2>3, <2>4, <2>5
  <1>9. ASSUME NEW t \in Threads,
               ReaderStep(t) \/ EventLoopFails(t) \/ WatchdogStep(t)
        PROVE  Moves
    <2>1. CASE WatchdogClears(t)
      BY <1>3, <2>1 DEF WatchdogClears
    <2>2. CASE ~WatchdogClears(t)
      BY <1>2, <1>9, <2>2 DEF ReaderStep, Submit, SubmitFails, SubmitOnNone,
         Retire, ReaderEnds, EventLoopFails, WatchdogStep, WatchdogEnds,
         WatchdogFires, WatchdogLampOff, flow
    <2> QED
      BY <2>1, <2>2
  <1> QED
    BY <1>4, <1>5, <1>6, <1>7, <1>8, <1>9 DEF Next

LEMMA PartFits ==
  ASSUME NEW s \in Seq(1..MaxUnits), NEW t \in Seq(1..MaxUnits), Part(s, t)
  PROVE  Len(s) <= Len(t)
  BY DEF Part

LEMMA DataStep == Typed /\ [Next]_vars => Data'
  <1> SUFFICES ASSUME Typed, Moves PROVE Data'
    BY EveryStepMoves
  <1>1. /\ reply \in Seq(1..MaxUnits) /\ imgbuf \in Seq(1..MaxUnits)
        /\ wire \in Seq(1..MaxUnits)
        /\ Len(imgbuf) <= MaxBuf /\ Len(wire) <= MaxWire
    BY DEF Typed, Data
  <1>2. /\ Len(imgbuf) \in Nat /\ Len(wire) \in Nat
        /\ MaxBuf \in Nat /\ MaxWire \in Nat /\ MaxUnits \in Nat
        /\ <<>> \in Seq(1..MaxUnits) /\ Len(<<>>) = 0
    BY <1>1, LenProperties, EmptySeq, StreamAssumption
  <1>3. CASE Drops
    <2>1. Len(imgbuf') <= Len(imgbuf) /\ Len(wire') <= Len(wire)
      BY <1>1, <1>3, PartFits DEF Drops
    <2>2. Len(imgbuf') \in Nat /\ Len(wire') \in Nat
      BY <1>3, LenProperties DEF Drops
    <2>3. Len(imgbuf') <= MaxBuf /\ Len(wire') <= MaxWire
      BY <1>1, <1>2, <2>1, <2>2
    <2> QED
      BY <1>1, <1>3, <2>3 DEF Drops, Data
  <1>4. CASE Captures
    <2>1. emitted + 1 \in 1..MaxUnits
      BY <1>2, <1>4 DEF Captures, Typed, Numbers
    <2>2. wire' \in Seq(1..MaxUnits) /\ Len(wire') = Len(wire) + 1
      BY <1>1, <1>4, <2>1, AppendProperties DEF Captures
    <2> QED
      BY <1>1, <1>2, <1>4, <2>2 DEF Captures, Data
  <1>5. CASE Delivers
    <2>1. /\ Head(wire) \in 1..MaxUnits /\ wire' \in Seq(1..MaxUnits)
          /\ Len(wire') = Len(wire) - 1
      BY <1>1, <1>5, HeadTailProperties DEF Delivers
    <2>2. imgbuf' \in Seq(1..MaxUnits) /\ Len(imgbuf') = Len(imgbuf) + 1
      BY <1>1, <1>5, <2>1, AppendProperties DEF Delivers
    <2> QED
      BY <1>1, <1>2, <1>5, <2>1, <2>2 DEF Delivers, Data
  <1>6. CASE Serves
    <2>1. want \in Nat
      BY StreamAssumption DEF Typed, Places
    <2>2. want \in 0..Len(imgbuf) /\ want + 1 \in Nat \ {0}
      BY <1>2, <1>6, <2>1 DEF Serves
    <2>3. /\ reply' \in Seq(1..MaxUnits) /\ imgbuf' \in Seq(1..MaxUnits)
          /\ Part(imgbuf', imgbuf)
      BY <1>1, <1>2, <1>6, <2>2, SubSeqIsPart DEF Serves
    <2>4. Len(imgbuf') <= MaxBuf
      BY <1>1, <1>2, <2>3, PartFits, LenProperties
    <2> QED
      BY <1>1, <1>6, <2>3, <2>4 DEF Serves, Data
  <1>7. CASE Sends \/ (reply' = <<>> /\ UNCHANGED <<imgbuf, wire, last, emitted>>)
    BY <1>1, <1>2, <1>7 DEF Sends, Data
  <1>8. CASE Flushes
    <2>1. imgbuf' \in Seq(1..MaxUnits) /\ Len(imgbuf') = Len(imgbuf) + Len(wire)
      BY <1>1, <1>8, ConcatProperties DEF Flushes
    <2> QED
      BY <1>1, <1>2, <1>8, <2>1 DEF Flushes, Data
  <1> QED
    BY <1>3, <1>4, <1>5, <1>6, <1>7, <1>8 DEF Moves

LEMMA NumbersStep == Typed /\ [Next]_vars => Numbers'
  <1> SUFFICES ASSUME Typed, [Next]_vars PROVE Numbers'
    OBVIOUS
  <1> USE StreamAssumption
      DEF Typed, Numbers, outside, usb, threads, clock, command, image,
          history, device, Fault
  <1>1. CASE SendTrigger \/ RequestRead \/ Capture \/ Callback \/ StreamOn
    BY <1>1 DEF SendTrigger, RequestRead, Capture, Callback, StreamOn
  <1>2. CASE CommandStep
    BY <1>2 DEF CommandStep, Reopen, CloseHandle, DropBuffer, OpenAgain,
       ArmDuringTransfer, ArmStops, StopReading, Joined, ClearBuffer, SetAlign,
       TriggerStart, TriggerRaise, TriggerSpawn, SpawnThreads
  <1>3. CASE ImageStep
    <2>1. CASE SendReply
      <3>1. reply # <<>> => reply[Len(reply)] \in 1..MaxUnits
        BY LenProperties, ElementOfSeq, EmptySeq DEF Data
      <3> QED
        BY <2>1, <3>1 DEF SendReply
    <2>2. CASE ~SendReply
      BY <1>3, <2>2 DEF ImageStep, ReadStart, ReadRaise, ReadSpawn, CheckAlign,
         AlignToLine, AlignGivesUp, WaitEnds, TakeReply, SendFails, MarkServed,
         StampRead, SpawnThreads
    <2> QED
      BY <2>1, <2>2
  <1>4. ASSUME NEW t \in Threads,
               ReaderStep(t) \/ EventLoopFails(t) \/ WatchdogStep(t)
        PROVE  Numbers'
    BY <1>4 DEF ReaderStep, Submit, SubmitFails, SubmitOnNone, Retire,
         ReaderEnds, EventLoopFails, WatchdogStep, WatchdogEnds, WatchdogFires,
         WatchdogLampOff, WatchdogClears
  <1>5. CASE Vanish \/ ClientLeaves \/ UNCHANGED vars
    BY <1>5 DEF Vanish, ClientLeaves, vars
  <1> QED
    BY <1>1, <1>2, <1>3, <1>4, <1>5 DEF Next

LEMMA AlwaysTyped == Spec => []Typed
  <1>1. Typed /\ [Next]_vars => Typed'
    BY FlagsStep, NumbersStep, PlacesStep, WorkersStep, ReservedStep, DataStep
    DEF Typed
  <1> QED
    BY TypedInit, <1>1, PTL DEF Spec

(* Every variable keeps its type, buffers and counters their bounds, whatever
   the read sizes and the bounds are, with and without failures: MAX_BUF holds
   even when the handle is closed with transfers in flight, and no more readers
   are spawned than triggers and reads can account for. *)
THEOREM TypeCorrect == Spec => []TypeOK
  BY AlwaysTyped, TypedIsTypeOK, PTL

-----------------------------------------------------------------------------
(* StreamInOrder, compared pairwise: what is dropped from the middle of the
   flow leaves the rest in order, which neighbours alone do not tell. *)
Ascends(s) == \A i, j \in 1..Len(s) : i < j => s[i] < s[j]
Before(s, t) == \A i \in 1..Len(s) : \A j \in 1..Len(t) : s[i] < t[j]
Within(s, low, high) == \A i \in 1..Len(s) : low < s[i] /\ s[i] <= high
OrderInv ==
  /\ Ascends(reply) /\ Ascends(imgbuf) /\ Ascends(wire)
  /\ Before(reply, imgbuf) /\ Before(reply, wire) /\ Before(imgbuf, wire)
  /\ Within(reply, last, emitted) /\ Within(imgbuf, last, emitted)
  /\ Within(wire, last, emitted) /\ last <= emitted

Stream == Seq(1..MaxUnits)

(* A part of an ordered sequence is ordered, and lies where the whole lies. *)
LEMMA PartOfOrdered ==
  ASSUME NEW s \in Stream, NEW t \in Stream, Part(s, t)
  PROVE  /\ Ascends(t) => Ascends(s)
         /\ \A u \in Stream : Before(t, u) => Before(s, u)
         /\ \A u \in Stream : Before(u, t) => Before(u, s)
         /\ \A low, high \in Int : Within(t, low, high) => Within(s, low, high)
  <1>1. PICK k \in Nat : /\ Len(s) + k <= Len(t)
                         /\ \A i \in 1..Len(s) : s[i] = t[i + k]
    BY DEF Part
  <1>2. Len(s) \in Nat /\ Len(t) \in Nat
    BY LenProperties DEF Stream
  <1>3. \A i \in 1..Len(s) : i + k \in 1..Len(t)
    BY <1>1, <1>2
  <1>4. Ascends(t) => Ascends(s)
    <2>1. \A i, j \in 1..Len(s) : i < j => i + k < j + k
      BY <1>2
    <2> QED
      BY <1>1, <1>3, <2>1 DEF Ascends
  <1>5. \A u \in Stream : Before(t, u) => Before(s, u)
    BY <1>1, <1>3 DEF Before
  <1>6. \A u \in Stream : Before(u, t) => Before(u, s)
    BY <1>1, <1>3 DEF Before
  <1>7. \A low, high \in Int : Within(t, low, high) => Within(s, low, high)
    BY <1>1, <1>3 DEF Within
  <1> QED
    BY <1>4, <1>5, <1>6, <1>7

LEMMA EmptyOrdered ==
  /\ Ascends(<<>>)
  /\ \A u : Before(<<>>, u) /\ Before(u, <<>>)
  /\ \A low, high : Within(<<>>, low, high)
  BY DEF Ascends, Before, Within

LEMMA AppendOrdered ==
  ASSUME NEW s \in Stream, NEW n \in 1..MaxUnits
  PROVE  LET a == Append(s, n) IN
         /\ Ascends(s) /\ (\A i \in 1..Len(s) : s[i] < n) => Ascends(a)
         /\ \A u \in Stream :
              /\ Before(u, s) /\ (\A i \in 1..Len(u) : u[i] < n) => Before(u, a)
              /\ Before(s, u) /\ (\A i \in 1..Len(u) : n < u[i]) => Before(a, u)
         /\ \A low, high \in Int :
              Within(s, low, high) /\ low < n /\ n <= high => Within(a, low, high)
  <1> DEFINE a == Append(s, n)
  <1>1. /\ Len(s) \in Nat /\ Len(a) = Len(s) + 1
        /\ \A i \in 1..Len(s) : a[i] = s[i]
        /\ a[Len(s) + 1] = n
    BY AppendProperties, LenProperties DEF Stream
  <1>2. \A i \in 1..Len(a) : i \in 1..Len(s) \/ i = Len(s) + 1
    BY <1>1
  <1> HIDE DEF a
  <1>3. ASSUME Ascends(s), \A i \in 1..Len(s) : s[i] < n
        PROVE  Ascends(a)
    <2> SUFFICES ASSUME NEW i \in 1..Len(a), NEW j \in 1..Len(a), i < j
                 PROVE  a[i] < a[j]
      BY DEF Ascends
    <2>1. i \in 1..Len(s)
      BY <1>1, <1>2
    <2> QED
      BY <1>1, <1>2, <1>3, <2>1 DEF Ascends
  <1>4. ASSUME NEW u \in Stream
        PROVE  /\ Before(u, s) /\ (\A i \in 1..Len(u) : u[i] < n) => Before(u, a)
               /\ Before(s, u) /\ (\A i \in 1..Len(u) : n < u[i]) => Before(a, u)
    BY <1>1, <1>2 DEF Before
  <1>5. \A low, high \in Int :
          Within(s, low, high) /\ low < n /\ n <= high => Within(a, low, high)
    BY <1>1, <1>2 DEF Within
  <1> QED
    BY <1>3, <1>4, <1>5 DEF a

LEMMA ConcatOrdered ==
  ASSUME NEW S, S \subseteq Int, NEW s \in Seq(S), NEW t \in Seq(S),
         Ascends(s), Ascends(t), Before(s, t)
  PROVE  Ascends(s \o t)
  <1> DEFINE c == s \o t
  <1>1. /\ Len(s) \in Nat /\ Len(t) \in Nat
        /\ Len(c) = Len(s) + Len(t)
        /\ \A i \in 1..Len(s) + Len(t) :
             c[i] = IF i <= Len(s) THEN s[i] ELSE t[i - Len(s)]
    BY ConcatProperties, LenProperties
  <1> HIDE DEF c
  <1>2. ASSUME NEW i \in 1..Len(c), NEW j \in 1..Len(c), i < j
        PROVE  c[i] < c[j]
    <2>1. CASE j <= Len(s)
      <3>1. i \in 1..Len(s) /\ j \in 1..Len(s) /\ c[i] = s[i] /\ c[j] = s[j]
        BY <1>1, <1>2, <2>1
      <3> QED
        BY <1>2, <3>1 DEF Ascends
    <2>2. CASE i <= Len(s) /\ j > Len(s)
      <3>1. i \in 1..Len(s) /\ j - Len(s) \in 1..Len(t)
        BY <1>1, <2>2
      <3>2. c[i] = s[i] /\ c[j] = t[j - Len(s)]
        BY <1>1, <2>2
      <3> QED
        BY <3>1, <3>2 DEF Before
    <2>3. CASE i > Len(s)
      <3>1. /\ i - Len(s) \in 1..Len(t) /\ j - Len(s) \in 1..Len(t)
            /\ i - Len(s) < j - Len(s) /\ j > Len(s)
        BY <1>1, <1>2, <2>3
      <3>2. c[i] = t[i - Len(s)] /\ c[j] = t[j - Len(s)]
        BY <1>1, <2>3, <3>1
      <3> QED
        BY <3>1, <3>2 DEF Ascends
    <2> QED
      BY <1>1, <2>1, <2>2, <2>3
  <1> QED
    BY <1>2 DEF Ascends, c

LEMMA OrderInit == Init => OrderInv
  <1> SUFFICES ASSUME Init PROVE OrderInv
    OBVIOUS
  <1>1. /\ reply = <<>> /\ imgbuf = <<>> /\ wire = <<>>
        /\ last = 0 /\ emitted = 0
    BY DEF Init
  <1> QED
    BY <1>1, EmptyOrdered DEF OrderInv

(* Where what is buffered and on the wire after a step comes from. *)
LEMMA NewFlow ==
  ASSUME Typed, Moves
  PROVE  /\ \A i \in 1..Len(imgbuf') :
              \/ \E k \in 1..Len(imgbuf) : imgbuf'[i] = imgbuf[k]
              \/ \E k \in 1..Len(wire) : imgbuf'[i] = wire[k]
         /\ \A i \in 1..Len(wire') :
              \/ \E k \in 1..Len(wire) : wire'[i] = wire[k]
              \/ wire'[i] = emitted' /\ emitted' = emitted + 1
  <1>1. /\ reply \in Stream /\ imgbuf \in Stream /\ wire \in Stream
        /\ Len(imgbuf) \in Nat /\ Len(wire) \in Nat
    BY LenProperties DEF Typed, Data, Stream
  <1>2. ASSUME NEW s \in Stream, NEW t \in Stream, Part(s, t)
        PROVE  \A i \in 1..Len(s) : \E k \in 1..Len(t) : s[i] = t[k]
    <2>1. PICK k \in Nat : /\ Len(s) + k <= Len(t)
                           /\ \A i \in 1..Len(s) : s[i] = t[i + k]
      BY <1>2 DEF Part
    <2>2. \A i \in 1..Len(s) : i + k \in 1..Len(t)
      BY <2>1, LenProperties DEF Stream
    <2> QED
      BY <2>1, <2>2
  <1>3. CASE Drops
    BY <1>1, <1>2, <1>3 DEF Drops, Stream
  <1>4. CASE Captures
    <2>1. emitted + 1 \in 1..MaxUnits
      BY <1>4, StreamAssumption DEF Captures, Typed, Numbers
    <2>2. /\ Len(wire') = Len(wire) + 1 /\ wire'[Len(wire) + 1] = emitted + 1
          /\ \A i \in 1..Len(wire) : wire'[i] = wire[i]
          /\ imgbuf' = imgbuf /\ emitted' = emitted + 1
      BY <1>1, <1>4, <2>1, AppendProperties DEF Captures, Stream
    <2>3. \A i \in 1..Len(wire') : i \in 1..Len(wire) \/ i = Len(wire) + 1
      BY <1>1, <2>2
    <2> QED
      BY <2>2, <2>3
  <1>5. CASE Delivers
    <2>1. /\ wire' \in Stream /\ Part(wire', wire) /\ Head(wire) = wire[1]
          /\ Head(wire) \in 1..MaxUnits /\ 1 \in 1..Len(wire)
      <3>1. Len(wire) \in Nat \ {0}
        BY <1>1, <1>5, EmptySeq DEF Delivers, Stream
      <3> QED
        BY <1>1, <1>5, <3>1, TailIsPart DEF Delivers, Stream
    <2>2. /\ Len(imgbuf') = Len(imgbuf) + 1 /\ imgbuf'[Len(imgbuf) + 1] = wire[1]
          /\ \A i \in 1..Len(imgbuf) : imgbuf'[i] = imgbuf[i]
      BY <1>1, <1>5, <2>1, AppendProperties DEF Delivers, Stream
    <2>3. \A i \in 1..Len(imgbuf') : i \in 1..Len(imgbuf) \/ i = Len(imgbuf) + 1
      BY <1>1, <2>2
    <2> QED
      BY <1>1, <1>2, <2>1, <2>2, <2>3
  <1>6. CASE Serves
    <2>1. /\ want + 1 \in Nat \ {0} /\ Len(imgbuf) \in 0..Len(imgbuf)
      BY <1>1, StreamAssumption DEF Typed, Places
    <2>2. imgbuf' \in Stream /\ Part(imgbuf', imgbuf) /\ wire' = wire
      BY <1>1, <1>6, <2>1, SubSeqIsPart DEF Serves, Stream
    <2> QED
      BY <1>1, <1>2, <2>2
  <1>7. CASE Sends \/ (reply' = <<>> /\ UNCHANGED <<imgbuf, wire, last, emitted>>)
    BY <1>7 DEF Sends
  <1>8. CASE Flushes
    <2>1. /\ Len(imgbuf') = Len(imgbuf) + Len(wire) /\ Len(wire') = 0
          /\ \A i \in 1..Len(imgbuf) + Len(wire) :
               imgbuf'[i] = IF i <= Len(imgbuf) THEN imgbuf[i]
                            ELSE wire[i - Len(imgbuf)]
      BY <1>1, <1>8, ConcatProperties DEF Flushes, Stream
    <2>2. \A i \in 1..Len(imgbuf') :
            i \in 1..Len(imgbuf) \/ i - Len(imgbuf) \in 1..Len(wire)
      BY <1>1, <2>1
    <2> QED
      BY <1>1, <2>1, <2>2
  <1> QED
    BY <1>3, <1>4, <1>5, <1>6, <1>7, <1>8 DEF Moves

LEMMA OrderStep == Typed /\ OrderInv /\ Moves => OrderInv'
  <1> SUFFICES ASSUME Typed, OrderInv, Moves PROVE OrderInv'
    OBVIOUS
  <1>1. /\ reply \in Stream /\ imgbuf \in Stream /\ wire \in Stream
        /\ last \in Int /\ emitted \in Int
    BY StreamAssumption DEF Typed, Data, Numbers, Stream
  <1>2. CASE Drops
    <2>1. /\ imgbuf' \in Stream /\ wire' \in Stream
          /\ Part(imgbuf', imgbuf) /\ Part(wire', wire)
          /\ UNCHANGED <<reply, last, emitted>>
      BY <1>2 DEF Drops, Stream
    <2>2. /\ Ascends(imgbuf') /\ Before(reply, imgbuf') /\ Before(imgbuf', wire)
          /\ Within(imgbuf', last, emitted)
      BY <1>1, <2>1, PartOfOrdered DEF OrderInv
    <2>3. /\ Ascends(wire') /\ Before(reply, wire') /\ Before(imgbuf', wire')
          /\ Within(wire', last, emitted)
      BY <1>1, <2>1, <2>2, PartOfOrdered DEF OrderInv
    <2> QED
      BY <2>1, <2>2, <2>3 DEF OrderInv
  <1>3. CASE Captures
    <2> DEFINE n == emitted + 1
    <2>1. /\ n \in 1..MaxUnits /\ wire' = Append(wire, n) /\ emitted' = n
          /\ UNCHANGED <<reply, imgbuf, last>> /\ emitted < n
      BY <1>3, StreamAssumption DEF Captures, Typed, Numbers
    <2> HIDE DEF n
    <2>2. \A s \in Stream : Within(s, last, emitted) =>
            /\ \A i \in 1..Len(s) : s[i] < n
            /\ Within(s, last, n)
      <3> SUFFICES ASSUME NEW s \in Stream, NEW i \in 1..Len(s),
                          last < s[i] /\ s[i] <= emitted
                   PROVE  s[i] < n /\ s[i] <= n
        BY DEF Within
      <3>1. s[i] \in Int
        <4>1. s[i] \in 1..MaxUnits
          BY ElementOfSeq DEF Stream
        <4> QED
          BY <4>1
      <3> QED
        BY <1>1, <2>1, <3>1
    <2>3. /\ Ascends(wire') /\ Before(reply, wire') /\ Before(imgbuf, wire')
      BY <1>1, <2>1, <2>2, AppendOrdered DEF OrderInv
    <2>4. last < n /\ n <= n /\ n \in Int
      BY <1>1, <2>1 DEF OrderInv
    <2>5. Within(wire', last, n)
      <3>1. Within(wire, last, n)
        BY <1>1, <2>2 DEF OrderInv
      <3> QED
        BY <1>1, <2>1, <2>4, <3>1, AppendOrdered
    <2>6. Within(reply, last, n) /\ Within(imgbuf, last, n) /\ last <= n
      BY <1>1, <2>2, <2>4 DEF OrderInv
    <2> QED
      BY <2>1, <2>3, <2>5, <2>6 DEF OrderInv
  <1>4. CASE Delivers
    <2> DEFINE n == Head(wire)
    <2>1. /\ n \in 1..MaxUnits /\ n = wire[1] /\ wire' \in Stream
          /\ Part(wire', wire) /\ 1 \in 1..Len(wire)
          /\ \A i \in 1..Len(wire') : /\ wire'[i] = wire[i + 1]
                                      /\ i + 1 \in 1..Len(wire) /\ 1 < i + 1
          /\ imgbuf' = Append(imgbuf, n)
          /\ UNCHANGED <<reply, last, emitted>>
      <3>1. wire # <<>> /\ wire' = Tail(wire)
        BY <1>4 DEF Delivers
      <3>2. Len(wire) \in Nat \ {0}
        BY <1>1, <3>1, EmptySeq DEF Stream
      <3>3. /\ n \in 1..MaxUnits /\ n = wire[1] /\ wire' \in Stream
            /\ Len(wire') = Len(wire) - 1 /\ Part(wire', wire)
            /\ \A i \in 1..Len(wire') : wire'[i] = wire[i + 1]
        BY <1>1, <3>1, TailIsPart DEF Stream
      <3>4. \A i \in 1..Len(wire') : i + 1 \in 1..Len(wire) /\ 1 < i + 1
        BY <3>2, <3>3
      <3> QED
        BY <1>4, <3>2, <3>3, <3>4 DEF Delivers
    <2> HIDE DEF n
    <2>2. /\ Ascends(wire') /\ Before(reply, wire') /\ Before(imgbuf, wire')
          /\ Within(wire', last, emitted)
      BY <1>1, <2>1, PartOfOrdered DEF OrderInv
    <2>3. \A i \in 1..Len(wire') : n < wire'[i]
      BY <2>1 DEF OrderInv, Ascends
    <2>4. /\ \A i \in 1..Len(imgbuf) : imgbuf[i] < n
          /\ \A i \in 1..Len(reply) : reply[i] < n
          /\ last < n /\ n <= emitted
      BY <2>1 DEF OrderInv, Before, Within
    <2>5. /\ Ascends(imgbuf') /\ Before(reply, imgbuf') /\ Before(imgbuf', wire')
          /\ Within(imgbuf', last, emitted)
      BY <1>1, <2>1, <2>2, <2>3, <2>4, AppendOrdered DEF OrderInv
    <2> QED
      BY <2>1, <2>2, <2>5 DEF OrderInv
  <1>5. CASE Serves
    <2> DEFINE rest == SubSeq(imgbuf, want + 1, Len(imgbuf))
               first == SubSeq(imgbuf, 1, want)
    <2>1. want \in 0..Len(imgbuf) /\ Len(imgbuf) \in Nat
      BY <1>1, <1>5, StreamAssumption, LenProperties
      DEF Serves, Typed, Places, Stream
    <2>2. /\ first \in Stream /\ Part(first, imgbuf)
          /\ rest \in Stream /\ Part(rest, imgbuf)
      <3>1. /\ 1 \in Nat \ {0} /\ want + 1 \in Nat \ {0}
            /\ Len(imgbuf) \in 0..Len(imgbuf)
        BY <2>1
      <3> QED
        BY <1>1, <2>1, <3>1, SubSeqIsPart DEF Stream
    <2>3. Before(first, rest)
      <3>1. /\ Len(first) = want /\ Len(rest) = Len(imgbuf) - want
            /\ \A i \in 1..want : first[i] = imgbuf[i]
            /\ \A i \in 1..(Len(imgbuf) - want) : rest[i] = imgbuf[want + i]
        <4>1. \A i \in 1..Len(imgbuf) : imgbuf[i] \in 1..MaxUnits
          BY <1>1, ElementOfSeq DEF Stream
        <4>2. /\ Len(first) = (IF 1 <= want THEN want - 1 + 1 ELSE 0)
              /\ \A i \in 1..(want - 1 + 1) : first[i] = imgbuf[1 + i - 1]
          <5>1. \A i \in 1..want : imgbuf[i] \in 1..MaxUnits
            BY <2>1, <4>1
          <5> QED
            BY <2>1, <5>1, SubSeqProperties
        <4>3. /\ Len(rest) = (IF want + 1 <= Len(imgbuf)
                               THEN Len(imgbuf) - (want + 1) + 1 ELSE 0)
              /\ \A i \in 1..(Len(imgbuf) - (want + 1) + 1) :
                    rest[i] = imgbuf[(want + 1) + i - 1]
          <5>1. \A i \in (want + 1)..Len(imgbuf) : imgbuf[i] \in 1..MaxUnits
            BY <2>1, <4>1
          <5> QED
            BY <2>1, <5>1, SubSeqProperties
        <4> HIDE DEF first, rest
        <4>4. \A i \in Int : 1 + i - 1 = i /\ (want + 1) + i - 1 = want + i
          BY <2>1
        <4>5. want - 1 + 1 = want /\ Len(imgbuf) - (want + 1) + 1 = Len(imgbuf) - want
          BY <2>1
        <4>6. Len(first) = want /\ Len(rest) = Len(imgbuf) - want
          BY <2>1, <4>2, <4>3
        <4>7. \A i \in 1..want : first[i] = imgbuf[i]
          BY <4>2, <4>4, <4>5
        <4>8. \A i \in 1..(Len(imgbuf) - want) : rest[i] = imgbuf[want + i]
          <5> TAKE i \in 1..(Len(imgbuf) - want)
          <5>1. rest[i] = imgbuf[(want + 1) + i - 1]
            BY <4>3, <4>5
          <5>2. (want + 1) + i - 1 = want + i
            BY <4>4
          <5> QED
            BY <5>1, <5>2
        <4> QED
          BY <4>6, <4>7, <4>8
      <3> HIDE DEF first, rest
      <3>2. \A i \in 1..want : \A j \in 1..(Len(imgbuf) - want) :
              /\ i \in 1..Len(imgbuf) /\ want + j \in 1..Len(imgbuf)
              /\ i < want + j
        BY <2>1
      <3> QED
        BY <3>1, <3>2 DEF OrderInv, Ascends, Before
    <2>4. /\ reply' = first /\ imgbuf' = rest
          /\ UNCHANGED <<wire, last, emitted>>
      BY <1>5 DEF Serves
    <2> HIDE DEF first, rest
    <2>5. /\ Ascends(first) /\ Before(first, wire) /\ Within(first, last, emitted)
          /\ Ascends(rest) /\ Before(rest, wire) /\ Within(rest, last, emitted)
      BY <1>1, <2>2, PartOfOrdered DEF OrderInv
    <2> QED
      BY <2>3, <2>4, <2>5 DEF OrderInv
  <1>6. CASE Sends
    <2>1. CASE last' = last
      BY <1>6, <2>1, EmptyOrdered DEF Sends, OrderInv
    <2>2. CASE reply # <<>> /\ last' = reply[Len(reply)]
      <3>1. Len(reply) \in 1..Len(reply)
        <4>1. Len(reply) \in Nat \ {0}
          BY <1>1, <2>2, EmptySeq DEF Stream
        <4> QED
          BY <4>1
      <3>2. /\ Within(imgbuf, last', emitted) /\ Within(wire, last', emitted)
            /\ last' <= emitted
        BY <2>2, <3>1 DEF OrderInv, Before, Within
      <3> QED
        BY <1>6, <3>2, EmptyOrdered DEF Sends, OrderInv
    <2> QED
      BY <1>6, <2>1, <2>2 DEF Sends
  <1>7. CASE reply' = <<>> /\ UNCHANGED <<imgbuf, wire, last, emitted>>
    BY <1>7, EmptyOrdered DEF OrderInv
  <1>8. CASE Flushes
    <2>1. /\ imgbuf' = imgbuf \o wire /\ wire' = <<>>
          /\ UNCHANGED <<reply, last, emitted>>
      BY <1>8 DEF Flushes
    <2>2. Ascends(imgbuf')
      <3>1. 1..MaxUnits \subseteq Int
        OBVIOUS
      <3> QED
        BY <1>1, <2>1, <3>1, ConcatOrdered DEF OrderInv, Stream
    <2>3. Before(reply, imgbuf') /\ Within(imgbuf', last, emitted)
      <3>1. \A i \in 1..Len(imgbuf') :
              \/ \E k \in 1..Len(imgbuf) : imgbuf'[i] = imgbuf[k]
              \/ \E k \in 1..Len(wire) : imgbuf'[i] = wire[k]
        <4>1. /\ Len(imgbuf) \in Nat /\ Len(wire) \in Nat
              /\ Len(imgbuf') = Len(imgbuf) + Len(wire)
              /\ \A i \in 1..Len(imgbuf) + Len(wire) :
                   imgbuf'[i] = IF i <= Len(imgbuf) THEN imgbuf[i]
                                ELSE wire[i - Len(imgbuf)]
          BY <1>1, <2>1, ConcatProperties, LenProperties DEF Stream
        <4>2. \A i \in 1..Len(imgbuf') :
                i \in 1..Len(imgbuf) \/ i - Len(imgbuf) \in 1..Len(wire)
          BY <4>1
        <4> QED
          BY <4>1, <4>2
      <3> QED
        BY <2>1, <3>1 DEF OrderInv, Before, Within
    <2> QED
      BY <2>1, <2>2, <2>3, EmptyOrdered DEF OrderInv
  <1> QED
    BY <1>2, <1>3, <1>4, <1>5, <1>6, <1>7, <1>8 DEF Moves

LEMMA AlwaysOrdered == Spec => [](Typed /\ OrderInv)
  <1>1. OrderInv /\ Typed /\ [Next]_vars => OrderInv'
    BY EveryStepMoves, OrderStep
  <1> QED
    BY AlwaysTyped, OrderInit, <1>1, PTL DEF Spec

LEMMA OrderedIsInOrder == Typed /\ OrderInv => StreamInOrder
  <1> SUFFICES ASSUME Typed, OrderInv PROVE StreamInOrder
    OBVIOUS
  <1> DEFINE begin == <<last>>
             end == <<emitted + 1>>
             sent == begin \o reply
             buffered == sent \o imgbuf
             flying_too == buffered \o wire
             all == flying_too \o end
  <1>1. /\ reply \in Seq(Int) /\ imgbuf \in Seq(Int) /\ wire \in Seq(Int)
        /\ last \in Int /\ emitted \in Int
    BY StreamAssumption DEF Typed, Data, Numbers
  <1>2. end \in Seq(Int) /\ Len(end) = 1 /\ end[1] = emitted + 1
    BY <1>1
  <1>3. begin \in Seq(Int) /\ Len(begin) = 1 /\ begin[1] = last
    BY <1>1
  <1>4. Ascends(end) /\ Ascends(begin)
    BY <1>2, <1>3 DEF Ascends
  <1> HIDE DEF begin, end
  <1>5. ASSUME NEW s \in Seq(Int), Within(s, last, emitted)
        PROVE  Before(begin, s) /\ Before(s, end)
    <2>1. \A i \in 1..Len(s) : s[i] \in Int
      BY ElementOfSeq
    <2>2. \A i \in 1..Len(s) : last < s[i] /\ s[i] < emitted + 1
      BY <1>1, <1>5, <2>1 DEF Within
    <2> QED
      BY <1>2, <1>3, <2>2 DEF Before
  <1>6. Before(begin, end)
    <2>1. last < emitted + 1
      BY <1>1 DEF OrderInv
    <2> QED
      BY <1>2, <1>3, <2>1 DEF Before
  <1>7. ASSUME NEW r \in Seq(Int), NEW s \in Seq(Int), NEW t \in Seq(Int),
               Before(r, t), Before(s, t)
        PROVE  Before(r \o s, t)
    <2>1. /\ Len(r) \in Nat /\ Len(s) \in Nat
          /\ Len(r \o s) = Len(r) + Len(s)
          /\ \A i \in 1..Len(r) + Len(s) :
               (r \o s)[i] = IF i <= Len(r) THEN r[i] ELSE s[i - Len(r)]
      BY ConcatProperties, LenProperties
    <2>2. \A i \in 1..Len(r) + Len(s) :
            \/ i \in 1..Len(r) /\ (r \o s)[i] = r[i]
            \/ i - Len(r) \in 1..Len(s) /\ (r \o s)[i] = s[i - Len(r)]
      BY <2>1
    <2>3. ASSUME NEW i \in 1..Len(r \o s), NEW j \in 1..Len(t)
          PROVE  (r \o s)[i] < t[j]
      <3>1. r[i] < t[j] \/ i \notin 1..Len(r)
        BY <1>7 DEF Before
      <3>2. s[i - Len(r)] < t[j] \/ i - Len(r) \notin 1..Len(s)
        BY <1>7 DEF Before
      <3> QED
        BY <2>1, <2>2, <3>1, <3>2
    <2> QED
      BY <2>3 DEF Before
  <1>8. sent \in Seq(Int) /\ Ascends(sent)
    BY <1>1, <1>3, <1>4, <1>5, ConcatOrdered, ConcatProperties DEF OrderInv
  <1>9. Before(sent, imgbuf) /\ Before(sent, wire) /\ Before(sent, end)
    BY <1>1, <1>2, <1>3, <1>5, <1>6, <1>7 DEF OrderInv
  <1> HIDE DEF sent
  <1>10. buffered \in Seq(Int) /\ Ascends(buffered)
    BY <1>1, <1>8, <1>9, ConcatOrdered, ConcatProperties DEF OrderInv
  <1>11. Before(buffered, wire) /\ Before(buffered, end)
    BY <1>1, <1>2, <1>5, <1>7, <1>8, <1>9 DEF OrderInv
  <1> HIDE DEF buffered
  <1>12. /\ flying_too \in Seq(Int) /\ Ascends(flying_too)
         /\ Before(flying_too, end)
    BY <1>1, <1>2, <1>5, <1>7, <1>10, <1>11, ConcatOrdered, ConcatProperties
    DEF OrderInv
  <1> HIDE DEF flying_too
  <1>13. all \in Seq(Int) /\ Ascends(all)
    BY <1>2, <1>4, <1>12, ConcatOrdered, ConcatProperties
  <1>14. all = <<last>> \o reply \o imgbuf \o wire \o <<emitted + 1>>
    BY DEF all, flying_too, buffered, sent, begin, end
  <1> HIDE DEF all
  <1>15. Rising(all)
    <2>1. Len(all) \in Nat
      BY <1>13, LenProperties
    <2>2. \A i \in 1..(Len(all) - 1) :
            i \in 1..Len(all) /\ i + 1 \in 1..Len(all) /\ i < i + 1
      BY <2>1
    <2> QED
      BY <1>13, <2>2 DEF Rising, Ascends
  <1> QED
    BY <1>14, <1>15 DEF StreamInOrder

(* Whatever readers, triggers, watchdogs, failures and reopens interleave, the
   data served, about to be served, buffered and on the wire is in the
   scanner's own order, without a repetition. *)
THEOREM ServedInOrder == Spec => []StreamInOrder
  BY AlwaysOrdered, OrderedIsInOrder, PTL

-----------------------------------------------------------------------------
(* Without failures the flag is never up with nobody left to read: a reader
   only retires once it sees the flag down, and whoever raises it again spawns
   another. *)
ReadersInv ==
  /\ h = "ok" /\ trig \notin {"close", "drop", "open"}
  /\ \A t \in Threads : reader[t] = "run" => t \in flying
  /\ reading => \/ trig = "spawn" \/ read = "spawn"
                \/ \E t \in Threads : reader[t] \in {"submit", "run"}

LEMMA ReadersStep ==
  ASSUME MaxFaults = 0
  PROVE  Typed /\ ReadersInv /\ [Next]_vars => ReadersInv'
  <1> SUFFICES ASSUME Typed, ReadersInv, [Next]_vars PROVE ReadersInv'
    OBVIOUS
  <1> USE DEF ReadersInv, outside, usb, threads, clock, command, image,
              history, device
  <1>1. /\ ~Fault /\ reader \in [Threads -> {"none", "submit", "run", "retire", "gone"}]
        /\ reading \in BOOLEAN
    BY DEF Typed, Numbers, Workers, Flags, Fault
  <1>2. CASE SendTrigger \/ RequestRead \/ Capture \/ Callback \/ StreamOn
    BY <1>2 DEF SendTrigger, RequestRead, Capture, Callback, StreamOn
  <1>3. ASSUME SpawnThreads, starts + 1 \in Threads, UNCHANGED <<h, flying>>,
               trig' \notin {"close", "drop", "open"}
        PROVE  ReadersInv'
    <2>1. reader' = [reader EXCEPT ![starts + 1] = "submit"]
      BY <1>3 DEF SpawnThreads
    <2>2. reader'[starts + 1] = "submit"
      BY <1>1, <1>3, <2>1
    <2> QED
      BY <1>1, <1>3, <2>1, <2>2
  <1>4. trig = "spawn" \/ read = "spawn" => starts + 1 \in Threads
    BY StreamAssumption DEF Typed, Workers, Reserved, Arming, Threads
  <1>5. CASE CommandStep
    <2>1. CASE TriggerSpawn
      BY <1>3, <1>4, <2>1 DEF TriggerSpawn
    <2>2. CASE ~TriggerSpawn
      BY <1>5, <2>2 DEF CommandStep, Reopen, CloseHandle, DropBuffer,
         OpenAgain, ArmDuringTransfer, ArmStops, StopReading, Joined,
         ClearBuffer, SetAlign, TriggerStart, TriggerRaise
    <2> QED
      BY <2>1, <2>2
  <1>6. CASE ImageStep
    <2>1. CASE ReadSpawn
      BY <1>3, <1>4, <2>1 DEF ReadSpawn
    <2>2. CASE ~ReadSpawn
      BY <1>6, <2>2 DEF ImageStep, ReadStart, ReadRaise, CheckAlign,
         AlignToLine, AlignGivesUp, WaitEnds, TakeReply, SendReply, SendFails,
         MarkServed, StampRead
    <2> QED
      BY <2>1, <2>2
  <1>7. ASSUME NEW t \in Threads,
               ReaderStep(t) \/ EventLoopFails(t) \/ WatchdogStep(t)
        PROVE  ReadersInv'
    <2>1. CASE Submit(t)
      <3>1. /\ reader' = [reader EXCEPT ![t] = "run"]
            /\ flying' = flying \union {t} /\ UNCHANGED <<h, trig, read, reading>>
        BY <2>1 DEF Submit
      <3>2. reader'[t] = "run"
        BY <1>1, <3>1
      <3> QED
        BY <1>1, <3>1, <3>2
    <2>2. CASE Retire(t)
      <3>1. ~reading /\ UNCHANGED <<h, trig, read, reading, flying>>
            /\ reader' = [reader EXCEPT ![t] = "retire"]
        BY <2>2 DEF Retire
      <3> QED
        BY <1>1, <3>1
    <2>3. CASE ReaderEnds(t)
      <3>1. /\ reader[t] = "retire" /\ reader' = [reader EXCEPT ![t] = "gone"]
            /\ flying' \in {flying, flying \ {t}}
            /\ UNCHANGED <<h, trig, read, reading>>
        BY <2>3 DEF ReaderEnds
      <3>2. \A u \in Threads : u # t => reader'[u] = reader[u]
        BY <1>1, <3>1
      <3>3. reader'[t] = "gone"
        BY <1>1, <3>1
      <3> QED
        BY <3>1, <3>2, <3>3
    <2>4. CASE WatchdogStep(t)
      BY <2>4 DEF WatchdogStep, WatchdogEnds, WatchdogFires, WatchdogLampOff,
         WatchdogClears
    <2> QED
      BY <1>1, <1>7, <2>1, <2>2, <2>3, <2>4
      DEF ReaderStep, SubmitFails, SubmitOnNone, EventLoopFails
  <1>8. CASE Vanish \/ ClientLeaves \/ UNCHANGED vars
    BY <1>1, <1>8 DEF Vanish, ClientLeaves, vars
  <1> QED
    BY <1>2, <1>5, <1>6, <1>7, <1>8 DEF Next

(* As long as the USB stack does not fail, image data that is supposed to be
   read is read by some thread, however triggers, reads and watchdogs overlap. *)
THEOREM FlagHasReader ==
  ASSUME MaxFaults = 0
  PROVE  Spec => []ReadingHasReader
  <1>1. Init => ReadersInv
    BY DEF Init, ReadersInv
  <1>2. Typed /\ ReadersInv /\ [Next]_vars => ReadersInv'
    BY ReadersStep
  <1>3. ReadersInv => ReadingHasReader
    BY DEF ReadersInv, ReadingHasReader, Alive
  <1> QED
    BY AlwaysTyped, <1>1, <1>2, <1>3, PTL DEF Spec

-----------------------------------------------------------------------------
(* An undisturbed session: no read across a resetting trigger, a client that
   keeps asking, no failures. *)
Undisturbed == Overlap = FALSE /\ Prompt /\ Idles = FALSE /\ MaxFaults = 0

(* Then the test of served at the head of arm_stream still holds up to
   start_stream, and no read comes between. *)
Settled == {"idle", "stamp"}
ResetInv ==
  /\ trig \in Arming /\ ~served => read \in Settled
  /\ trig \in Arming \ {"arm"} => ~served

LEMMA ResetStep ==
  ASSUME Overlap = FALSE, Prompt
  PROVE  Typed /\ ResetInv /\ [Next]_vars => ResetInv'
  <1> SUFFICES ASSUME Typed, ResetInv, [Next]_vars PROVE ResetInv'
    OBVIOUS
  <1> USE DEF ResetInv, Settled, Arming, outside, usb, threads, clock, command,
              image, history, device
  <1>1. served \in BOOLEAN
    BY DEF Typed, Flags
  <1>2. CASE SendTrigger \/ RequestRead \/ Capture \/ Callback \/ StreamOn
    BY <1>1, <1>2 DEF SendTrigger, RequestRead, Capture, Callback, StreamOn,
         Commanding, Awaiting
  <1>3. CASE CommandStep
    BY <1>1, <1>3 DEF CommandStep, Reopen, CloseHandle, DropBuffer, OpenAgain,
       ArmDuringTransfer, ArmStops, StopReading, Joined, ClearBuffer, SetAlign,
       TriggerStart, TriggerRaise, TriggerSpawn, SpawnThreads
  <1>4. CASE ImageStep
    BY <1>1, <1>4 DEF ImageStep, ReadStart, ReadRaise, ReadSpawn, CheckAlign,
       AlignToLine, AlignGivesUp, WaitEnds, TakeReply, SendReply, SendFails,
       MarkServed, StampRead, SpawnThreads
  <1>5. ASSUME NEW t \in Threads,
               ReaderStep(t) \/ EventLoopFails(t) \/ WatchdogStep(t)
        PROVE  ResetInv'
    BY <1>5 DEF ReaderStep, Submit, SubmitFails, SubmitOnNone, Retire,
         ReaderEnds, EventLoopFails, WatchdogStep, WatchdogEnds, WatchdogFires,
         WatchdogLampOff, WatchdogClears
  <1>6. CASE Vanish \/ ClientLeaves \/ UNCHANGED vars
    BY <1>6 DEF Vanish, ClientLeaves, vars
  <1> QED
    BY <1>2, <1>3, <1>4, <1>5, <1>6 DEF Next

(* And there is one reader at a time, imgthread, and from the join on none:
   what it had in flight is back before the buffer is cleared. *)
Stopped == {"clear", "align", "start", "raise"}
OneReader ==
  /\ \A t \in Threads : Alive(t) \/ t \in flying => t = imgthread
  /\ \A t \in flying : reader[t] \in {"run", "retire"}
  /\ \A t \in Threads : reader[t] = "retire" => ~reading
  /\ \A t \in Threads : watchdog[t] \notin {"stop", "clear"}
  /\ trig = "join" => joining = imgthread
  /\ trig \in Stopped \union {"join"} => ~reading
  /\ trig \in Stopped \union {"spawn"} => imgthread = 0
  /\ read \in {"raise", "spawn"} => imgthread = 0
  /\ trig = "spawn" \/ read = "spawn" => reading
  /\ read = "raise" => ~reading
  /\ ~reading => trig \in Stopped \union {"join"} \/ imgthread = 0
  /\ read \notin Settled => trig \in {"idle", "arm"}
  /\ flying = {} => wire = <<>>
  /\ client = "scanning"

LEMMA OneReaderInit == Init => OneReader
  BY DEF Init, OneReader, Stopped, Settled, Alive

LEMMA OneReaderStep ==
  ASSUME Undisturbed
  PROVE  Typed /\ ReadersInv /\ ResetInv /\ OneReader /\ [Next]_vars => OneReader'
  <1> SUFFICES ASSUME Typed, ReadersInv, ResetInv, OneReader, [Next]_vars
               PROVE  OneReader'
    OBVIOUS
  <1> USE DEF OneReader, Stopped, Settled, Alive, outside, usb, threads, clock,
              command, image, history, device
  <1>1. /\ ~Fault /\ ~Idles /\ ~Overlap /\ reading \in BOOLEAN
        /\ reader \in [Threads -> {"none", "submit", "run", "retire", "gone"}]
        /\ watchdog \in [Threads -> {"none", "sleep", "stop", "clear", "gone"}]
        /\ flying \subseteq Threads /\ 0 \notin Threads
    BY StreamAssumption
    DEF Typed, Numbers, Workers, Flags, Fault, Undisturbed, Threads
  <1>2. h = "ok" /\ trig \notin {"close", "drop", "open"}
    BY DEF ReadersInv
  <1>3. ASSUME SpawnThreads, starts + 1 \in Threads,
               imgthread = 0, reading, wire = <<>>, flying = {},
               trig' \in {"idle", "arm"}, read' \notin {"raise", "spawn"},
               UNCHANGED <<flying, reading, joining, wire, client>>
        PROVE  OneReader'
    <2>1. /\ reader' = [reader EXCEPT ![starts + 1] = "submit"]
          /\ watchdog' = [watchdog EXCEPT ![starts + 1] = "sleep"]
          /\ imgthread' = starts + 1
      BY <1>3 DEF SpawnThreads
    <2>2. \A t \in Threads : ~Alive(t)
      BY <1>1, <1>3
    <2>3. \A t \in Threads : /\ t # starts + 1 => reader'[t] = reader[t]
                             /\ t # starts + 1 => watchdog'[t] = watchdog[t]
                             /\ t = starts + 1 => reader'[t] = "submit"
                             /\ t = starts + 1 => watchdog'[t] = "sleep"
      BY <1>1, <2>1
    <2> QED
      BY <1>3, <2>1, <2>2, <2>3
  <1>4. trig = "spawn" \/ read = "spawn" => starts + 1 \in Threads
    BY StreamAssumption DEF Typed, Workers, Reserved, Arming, Threads
  <1>5. imgthread = 0 => flying = {} /\ wire = <<>>
    BY <1>1
  <1>6. CASE SendTrigger \/ StreamOn
    BY <1>1, <1>6 DEF SendTrigger, StreamOn
  <1>7. CASE RequestRead
    <2>1. trig \in {"idle", "arm"}
      BY <1>1, <1>2, <1>7 DEF RequestRead, Commanding, ResetInv, Arming, Typed,
         Places
    <2> QED
      BY <1>7, <2>1 DEF RequestRead
  <1>8. CASE Capture \/ Callback
    <2>1. flying # {} /\ UNCHANGED <<flying, reader, watchdog, imgthread, joining,
                                    reading, trig, read, client>>
      BY <1>8 DEF Capture, Callback
    <2> QED
      BY <2>1
  <1>9. CASE CommandStep
    <2>1. CASE TriggerSpawn
      BY <1>3, <1>4, <1>5, <2>1 DEF TriggerSpawn
    <2>2. CASE Joined
      <3>1. joining = imgthread /\ ~reading /\ read \in Settled
        BY <2>2 DEF Joined
      <3>2. \A t \in Threads : ~Alive(t)
        BY <1>1, <2>2, <3>1 DEF Joined
      <3>3. flying = {} /\ wire = <<>>
        BY <1>1, <3>2
      <3> QED
        BY <1>1, <2>2, <3>1, <3>2, <3>3 DEF Joined
    <2>3. CASE TriggerStart
      BY <1>1, <2>3 DEF TriggerStart
    <2>4. CASE StopReading
      BY <1>1, <2>4 DEF StopReading
    <2>5. CASE ArmDuringTransfer \/ ArmStops
      BY <1>1, <2>5 DEF ArmDuringTransfer, ArmStops, ResetInv, Arming
    <2>6. CASE ClearBuffer \/ SetAlign
      BY <1>1, <2>6 DEF ClearBuffer, SetAlign
    <2>7. CASE TriggerRaise
      <3>1. \A t \in Threads : ~Alive(t)
        BY <1>1, <2>7 DEF TriggerRaise
      <3> QED
        BY <1>1, <2>7, <3>1 DEF TriggerRaise
    <2> QED
      BY <1>2, <1>9, <2>1, <2>2, <2>3, <2>4, <2>5, <2>6, <2>7
      DEF CommandStep, Reopen, CloseHandle, DropBuffer, OpenAgain
  <1>10. CASE ImageStep
    <2>1. CASE ReadSpawn
      BY <1>3, <1>4, <1>5, <2>1 DEF ReadSpawn
    <2>2. CASE ReadStart
      BY <1>1, <2>2 DEF ReadStart
    <2>3. CASE ReadRaise
      <3>1. \A t \in Threads : ~Alive(t)
        BY <1>1, <2>3 DEF ReadRaise
      <3> QED
        BY <1>1, <2>3, <3>1 DEF ReadRaise
    <2>4. CASE ~ReadSpawn /\ ~ReadStart /\ ~ReadRaise
      BY <1>10, <2>4 DEF ImageStep, CheckAlign, AlignToLine, AlignGivesUp,
         WaitEnds, TakeReply, SendReply, SendFails, MarkServed, StampRead
    <2> QED
      BY <2>1, <2>2, <2>3, <2>4
  <1>11. ASSUME NEW t \in Threads,
                ReaderStep(t) \/ EventLoopFails(t) \/ WatchdogStep(t)
         PROVE  OneReader'
    <2>1. CASE Submit(t)
      <3>1. /\ reader' = [reader EXCEPT ![t] = "run"] /\ reader[t] = "submit"
            /\ flying' = flying \union {t}
            /\ UNCHANGED <<trig, read, reading, imgthread, joining, watchdog,
                           wire, client>>
        BY <2>1 DEF Submit
      <3>2. \A u \in Threads : /\ u # t => reader'[u] = reader[u]
                               /\ u = t => reader'[u] = "run"
        BY <1>1, <3>1
      <3> QED
        BY <1>1, <3>1, <3>2
    <2>2. CASE Retire(t)
      <3>1. t \in flying
        BY <2>2 DEF Retire, ReadersInv
      <3>2. /\ ~reading /\ reader' = [reader EXCEPT ![t] = "retire"]
            /\ reader[t] = "run"
            /\ UNCHANGED <<trig, read, reading, imgthread, joining, watchdog,
                           wire, flying, client>>
        BY <2>2, <3>1 DEF Retire
      <3>3. \A u \in Threads : /\ u # t => reader'[u] = reader[u]
                               /\ u = t => reader'[u] = "retire"
        BY <1>1, <3>2
      <3> QED
        BY <1>1, <3>1, <3>2, <3>3
    <2>3. CASE ReaderEnds(t)
      <3>1. /\ reader[t] = "retire" /\ reader' = [reader EXCEPT ![t] = "gone"]
            /\ flying' = flying \ {t} /\ wire = <<>>
            /\ UNCHANGED <<trig, read, reading, imgthread, joining, watchdog,
                           wire, client>>
        BY <2>3 DEF ReaderEnds
      <3>2. \A u \in Threads : /\ u # t => reader'[u] = reader[u]
                               /\ u = t => reader'[u] = "gone"
        BY <1>1, <3>1
      <3> QED
        BY <1>1, <3>1, <3>2
    <2>4. CASE WatchdogStep(t)
      BY <1>1, <2>4 DEF WatchdogStep, WatchdogEnds, WatchdogFires,
         WatchdogLampOff, WatchdogClears
    <2> QED
      BY <1>1, <1>2, <1>11, <2>1, <2>2, <2>3, <2>4
      DEF ReaderStep, SubmitFails, SubmitOnNone, EventLoopFails
  <1>12. CASE Vanish \/ ClientLeaves \/ UNCHANGED vars
    BY <1>1, <1>12 DEF Vanish, ClientLeaves, vars
  <1> QED
    BY <1>6, <1>7, <1>8, <1>9, <1>10, <1>11, <1>12 DEF Next

(* All of the session's structure at once. *)
SessionInv == Typed /\ OrderInv /\ ReadersInv /\ ResetInv /\ OneReader

LEMMA AlwaysSession ==
  ASSUME Undisturbed
  PROVE  Spec => []SessionInv
  <1>1. Init => ReadersInv /\ ResetInv /\ OneReader
    BY OneReaderInit DEF Init, ReadersInv, ResetInv, Arming, Settled
  <1>2. Typed /\ ReadersInv /\ [Next]_vars => ReadersInv'
    BY ReadersStep DEF Undisturbed
  <1>3. Typed /\ ResetInv /\ [Next]_vars => ResetInv'
    BY ResetStep DEF Undisturbed
  <1>4. Typed /\ ReadersInv /\ ResetInv /\ OneReader /\ [Next]_vars
          => OneReader'
    BY OneReaderStep
  <1> QED
    BY AlwaysOrdered, <1>1, <1>2, <1>3, <1>4, PTL DEF Spec, SessionInv

(* No reader is left when the buffer is cleared, hence nothing on the wire that
   was captured before the trigger. *)
LEMMA ClearedIsQuiet ==
  ASSUME SessionInv, imgthread = 0 PROVE flying = {} /\ wire = <<>>
  <1>1. flying \subseteq Threads /\ 0 \notin Threads
    BY StreamAssumption DEF SessionInv, Typed, Workers, Threads
  <1> QED
    BY <1>1 DEF SessionInv, OneReader

FreshInv ==
  /\ armed <= mark /\ mark <= emitted
  /\ Within(imgbuf, armed, emitted) /\ Within(wire, armed, emitted)

LEMMA FreshStep ==
  ASSUME Undisturbed
  PROVE  SessionInv /\ FreshInv /\ [Next]_vars => FreshInv'
  <1> SUFFICES ASSUME SessionInv, FreshInv, [Next]_vars PROVE FreshInv'
    OBVIOUS
  <1>1. /\ armed \in Int /\ mark \in Int /\ emitted \in Int /\ last \in Int
        /\ reply \in Stream /\ imgbuf \in Stream /\ wire \in Stream
    BY StreamAssumption DEF SessionInv, Typed, Numbers, Data, Stream
  <1>2. trig \notin {"close", "drop", "open"} /\ Moves
    BY EveryStepMoves DEF SessionInv, ReadersInv
  <1>3. CASE ClearBuffer
    <2>1. /\ imgbuf' = <<>> /\ wire' = <<>> /\ armed' = mark
          /\ mark' = mark /\ emitted' = emitted
      <3>1. imgthread = 0
        BY <1>3 DEF ClearBuffer, SessionInv, OneReader, Stopped
      <3>2. wire = <<>>
        BY <3>1, ClearedIsQuiet
      <3> QED
        BY <1>3, <3>2 DEF ClearBuffer, usb, history, outside
    <2> QED
      BY <1>1, <2>1, EmptyOrdered DEF FreshInv
  <1>4. CASE ~ClearBuffer
    <2>1. /\ armed' = armed
          /\ mark' \in {mark, emitted}
          /\ emitted' = emitted \/ (mark' = mark /\ emitted' = emitted + 1)
      <3> USE DEF outside, usb, threads, clock, command, image, history, device
      <3>1. CASE SendTrigger \/ RequestRead \/ Capture \/ Callback \/ StreamOn
        BY <3>1 DEF SendTrigger, RequestRead, Capture, Callback, StreamOn
      <3>2. CASE CommandStep
        BY <1>4, <3>2 DEF CommandStep, Reopen, CloseHandle, DropBuffer,
           OpenAgain, ArmDuringTransfer, ArmStops, StopReading, Joined,
           SetAlign, TriggerStart, TriggerRaise, TriggerSpawn, SpawnThreads
      <3>3. CASE ImageStep
        BY <3>3 DEF ImageStep, ReadStart, ReadRaise, ReadSpawn, CheckAlign,
           AlignToLine, AlignGivesUp, WaitEnds, TakeReply, SendReply,
           SendFails, MarkServed, StampRead, SpawnThreads
      <3>4. ASSUME NEW t \in Threads,
                   ReaderStep(t) \/ EventLoopFails(t) \/ WatchdogStep(t)
            PROVE  UNCHANGED <<armed, mark, emitted>>
        BY <3>4 DEF ReaderStep, Submit, SubmitFails, SubmitOnNone, Retire,
           ReaderEnds, EventLoopFails, WatchdogStep, WatchdogEnds,
           WatchdogFires, WatchdogLampOff, WatchdogClears
      <3>5. CASE Vanish \/ ClientLeaves \/ UNCHANGED vars
        BY <3>5 DEF Vanish, ClientLeaves, vars
      <3> QED
        BY <3>1, <3>2, <3>3, <3>4, <3>5 DEF Next
    <2>2. /\ armed' <= mark' /\ mark' <= emitted' /\ emitted <= emitted'
          /\ emitted' \in Int
      BY <1>1, <2>1 DEF FreshInv
    <2>3. /\ \A i \in 1..Len(imgbuf') :
               \/ \E k \in 1..Len(imgbuf) : imgbuf'[i] = imgbuf[k]
               \/ \E k \in 1..Len(wire) : imgbuf'[i] = wire[k]
          /\ \A i \in 1..Len(wire') :
               \/ \E k \in 1..Len(wire) : wire'[i] = wire[k]
               \/ wire'[i] = emitted' /\ emitted' = emitted + 1
      BY <1>1, <1>2, NewFlow DEF SessionInv
    <2>4. \A s \in {imgbuf, wire} : \A i \in 1..Len(s) :
            s[i] \in Int /\ armed < s[i] /\ s[i] <= emitted
      <3>1. \A s \in {imgbuf, wire} : \A i \in 1..Len(s) : s[i] \in 1..MaxUnits
        BY <1>1, ElementOfSeq DEF Stream
      <3> QED
        BY <3>1 DEF FreshInv, Within
    <2>5. Within(imgbuf', armed', emitted')
      <3> SUFFICES ASSUME NEW i \in 1..Len(imgbuf')
                   PROVE  armed' < imgbuf'[i] /\ imgbuf'[i] <= emitted'
        BY DEF Within
      <3>1. /\ imgbuf'[i] \in Int /\ armed < imgbuf'[i] /\ imgbuf'[i] <= emitted
        BY <2>3, <2>4
      <3> QED
        BY <1>1, <2>1, <2>2, <3>1
    <2>6. Within(wire', armed', emitted')
      BY <1>1, <2>1, <2>2, <2>3, <2>4 DEF Within, FreshInv
    <2> QED
      BY <2>2, <2>5, <2>6 DEF FreshInv
  <1> QED
    BY <1>3, <1>4

(* In an undisturbed session nothing captured before the trigger that emptied
   the buffer gets into it afterwards: not from a transfer that was in flight,
   nor from a reader that outlived the stop. *)
THEOREM BufferIsFresh ==
  ASSUME Undisturbed
  PROVE  Spec => []NothingPredatesClear
  <1>1. Init => FreshInv
    BY EmptyOrdered DEF Init, FreshInv
  <1>2. SessionInv /\ FreshInv /\ [Next]_vars => FreshInv'
    BY FreshStep
  <1>3. FreshInv => NothingPredatesClear
    BY DEF FreshInv, Within, NothingPredatesClear
  <1> QED
    BY AlwaysSession, <1>1, <1>2, <1>3, PTL DEF Spec

-----------------------------------------------------------------------------
(* What is being served, buffered and on the wire is the stream without a gap
   from base on, except between the withdrawal of the flag and the clearing. *)
base == emitted - Len(reply) - Len(imgbuf) - Len(wire)
Contiguous ==
  /\ \A i \in 1..Len(reply) : reply[i] = base + i
  /\ \A i \in 1..Len(imgbuf) : imgbuf[i] = base + Len(reply) + i
  /\ \A i \in 1..Len(wire) : wire[i] = base + Len(reply) + Len(imgbuf) + i
Clearing == {"join", "clear"}
Outside == {"idle", "arm", "stop", "start", "raise", "spawn"}
Quiet == {"stamp", "idle", "start", "raise", "spawn", "check"}
Aligned == {"align", "wait", "take", "send", "mark"}
Begun == served \/ read = "mark"         \* bytes of the transfer were sent
TransferInv ==
  /\ read # "send" => reply = <<>>
  /\ served \/ read \in Aligned => ~align
  /\ served => read # "align"
  /\ ~torn /\ trig \notin Clearing =>
       /\ Contiguous
       /\ Begun => base = last
       /\ ~Begun /\ trig # "align" /\ ~align /\ read # "align"
            => LineStart(base + 1)

LEMMA TransferInit == Init => TransferInv
  <1> SUFFICES ASSUME Init PROVE TransferInv
    OBVIOUS
  <1>1. /\ reply = <<>> /\ imgbuf = <<>> /\ wire = <<>> /\ emitted = 0
        /\ read = "idle" /\ ~served
    BY DEF Init
  <1>2. Len(reply) = 0 /\ Len(imgbuf) = 0 /\ Len(wire) = 0
    BY <1>1, EmptySeq
  <1>3. base + 1 = 1
    BY <1>1, <1>2 DEF base
  <1>4. LineStart(base + 1)
    BY <1>3 DEF LineStart
  <1>5. Contiguous
    BY <1>2 DEF Contiguous
  <1> QED
    BY <1>1, <1>4, <1>5 DEF TransferInv, Aligned, Begun

(* Steps that leave the flow alone. *)
LEMMA FlowKept ==
  ASSUME UNCHANGED <<reply, imgbuf, wire, emitted>>
  PROVE  /\ base' = base /\ (Contiguous <=> Contiguous')
         /\ LineStart(base + 1) <=> LineStart(base + 1)'
  BY DEF base, Contiguous, LineStart

LEMMA TransferStep ==
  ASSUME Undisturbed
  PROVE  SessionInv /\ TransferInv /\ [Next]_vars => TransferInv'
  <1> SUFFICES ASSUME SessionInv, TransferInv, [Next]_vars PROVE TransferInv'
    OBVIOUS
  <1>1. /\ emitted \in Int /\ last \in Int /\ want \in Nat
        /\ reply \in Stream /\ imgbuf \in Stream /\ wire \in Stream
        /\ Len(reply) \in Nat /\ Len(imgbuf) \in Nat /\ Len(wire) \in Nat
        /\ served \in BOOLEAN /\ align \in BOOLEAN /\ torn \in BOOLEAN
        /\ reading \in BOOLEAN
    BY StreamAssumption, LenProperties
    DEF SessionInv, Typed, Numbers, Places, Data, Flags, Stream
  <1>2. base \in Int
    BY <1>1 DEF base
  <1>3. /\ ~Fault /\ ~Idles /\ trig \notin {"close", "drop", "open"} /\ h = "ok"
        /\ trig \in Arming \ {"arm"} => ~served
        /\ trig \in Arming /\ ~served => read \in {"idle", "stamp"}
        /\ client = "scanning"
    BY DEF Undisturbed, SessionInv, Typed, Numbers, Fault, ReadersInv, ResetInv,
       Settled, OneReader
  <1> USE DEF Aligned, Begun, outside, usb, threads, clock, command, image,
              history, device
  <1>4. ASSUME UNCHANGED <<reply, imgbuf, wire, emitted, last, torn, served, align>>,
               \/ read' = read
               \/ read \in Quiet /\ read' \in Quiet
               \/ read = "wait" /\ read' = "take",
               \/ trig' = trig
               \/ trig \in Outside /\ trig' \in Outside
               \/ trig' = "join"
        PROVE  TransferInv'
    <2>1. /\ base' = base /\ (Contiguous <=> Contiguous')
          /\ LineStart(base + 1) <=> LineStart(base + 1)'
      BY <1>4, FlowKept
    <2>2. /\ read' = "send" <=> read = "send"
          /\ read' \in Aligned => read \in Aligned
          /\ read' = "align" <=> read = "align"
          /\ read' = "mark" <=> read = "mark"
      BY <1>4 DEF Quiet
    <2>3. trig' \notin Clearing =>
            trig \notin Clearing /\ (trig' = "align" <=> trig = "align")
      BY <1>4 DEF Clearing, Outside
    <2>4. (read # "send" => reply = <<>>)'
      BY <1>4, <2>2 DEF TransferInv
    <2>5. (served \/ read \in Aligned => ~align)'
      BY <1>4, <2>2 DEF TransferInv
    <2>6. (served => read # "align")'
      BY <1>4, <2>2 DEF TransferInv
    <2>7. (~torn /\ trig \notin Clearing =>
             /\ Contiguous
             /\ Begun => base = last
             /\ ~Begun /\ trig # "align" /\ ~align /\ read # "align"
                  => LineStart(base + 1))'
      BY <1>4, <2>1, <2>2, <2>3 DEF TransferInv
    <2> QED
      BY <2>4, <2>5, <2>6, <2>7 DEF TransferInv
  <1>5. CASE SendTrigger \/ RequestRead \/ StreamOn
    <2>1. CASE SendTrigger
      BY <1>4, <2>1 DEF SendTrigger, Outside
    <2>2. CASE RequestRead
      BY <1>4, <2>2 DEF RequestRead, Quiet
    <2>3. CASE StreamOn
      BY <1>4, <2>3 DEF StreamOn
    <2> QED
      BY <1>5, <2>1, <2>2, <2>3
  <1>6. CASE CommandStep
    <2>1. CASE Joined
      <3>1. read \in {"idle", "stamp"} /\ reply = <<>>
        BY <1>3, <2>1 DEF Joined, Arming, TransferInv
      <3> QED
        BY <2>1, <3>1 DEF Joined, TransferInv, Clearing
    <2>2. CASE ClearBuffer
      <3>1. wire = <<>>
        BY <2>2, ClearedIsQuiet DEF ClearBuffer, SessionInv, OneReader, Stopped
      <3>2. /\ imgbuf' = <<>> /\ wire' = <<>> /\ reply' = <<>> /\ trig' = "align"
            /\ read' \in {"idle", "stamp"} /\ ~served'
        BY <1>3, <2>2, <3>1 DEF ClearBuffer, Arming, TransferInv
      <3> QED
        BY <3>2 DEF TransferInv, Contiguous
    <2>3. CASE SetAlign
      <3>1. read \in {"idle", "stamp"} /\ ~served
        BY <1>3, <2>3 DEF SetAlign, Arming
      <3> QED
        <4>1. /\ UNCHANGED <<reply, imgbuf, wire, emitted, torn, served, read>>
              /\ trig = "align" /\ align'
          BY <2>3 DEF SetAlign
        <4>2. Contiguous <=> Contiguous'
          BY <4>1, FlowKept
        <4> QED
          BY <3>1, <4>1, <4>2 DEF TransferInv, Clearing
    <2>4. CASE ArmDuringTransfer \/ ArmStops \/ StopReading \/ TriggerStart
               \/ TriggerRaise \/ TriggerSpawn
      <3>1. /\ UNCHANGED <<reply, imgbuf, wire, emitted, last, torn, served,
                            align, read>>
            /\ trig \in Outside /\ (trig' \in Outside \/ trig' = "join")
        BY <2>4 DEF ArmDuringTransfer, ArmStops, StopReading, TriggerStart,
           TriggerRaise, TriggerSpawn, SpawnThreads, Outside
      <3> QED
        BY <1>4, <3>1
    <2> QED
      BY <1>3, <1>6, <2>1, <2>2, <2>3, <2>4
      DEF CommandStep, Reopen, CloseHandle, DropBuffer, OpenAgain
  <1>7. CASE ReadStart \/ ReadRaise \/ ReadSpawn \/ WaitEnds \/ StampRead
    <2>1. /\ UNCHANGED <<reply, imgbuf, wire, emitted, last, torn, served,
                          align, trig>>
          /\ \/ read \in Quiet /\ read' \in Quiet
             \/ read = "wait" /\ read' = "take"
      BY <1>7 DEF ReadStart, ReadRaise, ReadSpawn, WaitEnds, StampRead,
         SpawnThreads, Quiet
    <2> QED
      BY <1>4, <2>1
  <1>8. CASE CheckAlign
    <2>1. /\ UNCHANGED <<reply, imgbuf, wire, emitted, last, torn, served, trig>>
          /\ read = "check" /\ ~align'
          /\ read' = IF align THEN "align" ELSE "wait"
      BY <1>8 DEF CheckAlign
    <2>2. /\ base' = base /\ (Contiguous <=> Contiguous')
          /\ LineStart(base + 1) <=> LineStart(base + 1)'
      BY <2>1, FlowKept
    <2>3. read' # "send" /\ reply' = <<>> /\ (served => read' = "wait")
      BY <2>1 DEF TransferInv
    <2>4. (~torn /\ trig \notin Clearing =>
             /\ Contiguous
             /\ Begun => base = last
             /\ ~Begun /\ trig # "align" /\ ~align /\ read # "align"
                  => LineStart(base + 1))'
      BY <2>1, <2>2 DEF TransferInv
    <2> QED
      BY <2>1, <2>3, <2>4 DEF TransferInv
  <1>9. ASSUME NEW t \in Threads,
               ReaderStep(t) \/ EventLoopFails(t) \/ WatchdogStep(t)
        PROVE  TransferInv'
    <2>1. ~WatchdogFires(t) /\ ~WatchdogLampOff(t) /\ ~WatchdogClears(t)
      BY <1>3 DEF WatchdogFires, WatchdogLampOff, WatchdogClears, SessionInv,
         OneReader
    <2> QED
      BY <1>3, <1>4, <1>9, <2>1 DEF ReaderStep, Submit, SubmitFails,
         SubmitOnNone, Retire, ReaderEnds, EventLoopFails, WatchdogStep,
         WatchdogEnds
  <1>10. CASE Vanish \/ ClientLeaves \/ UNCHANGED vars
    BY <1>3, <1>4, <1>10 DEF Vanish, ClientLeaves, vars
  <1>11. CASE Capture
    <2>1. emitted + 1 \in 1..MaxUnits
      BY <1>11, StreamAssumption DEF Capture, SessionInv, Typed, Numbers
    <2>2. /\ Len(wire') = Len(wire) + 1 /\ wire'[Len(wire) + 1] = emitted + 1
          /\ \A i \in 1..Len(wire) : wire'[i] = wire[i]
          /\ emitted' = emitted + 1
          /\ UNCHANGED <<reply, imgbuf, last, torn, served, align, read, trig>>
      BY <1>1, <1>11, <2>1, AppendProperties DEF Capture, Stream
    <2>3. base' = base
      BY <1>1, <2>2 DEF base
    <2>4. base + Len(reply) + Len(imgbuf) + (Len(wire) + 1) = emitted + 1
      BY <1>1 DEF base
    <2>5. Contiguous => Contiguous'
      <3>1. \A i \in 1..Len(wire') : i \in 1..Len(wire) \/ i = Len(wire) + 1
        BY <1>1, <2>2
      <3> QED
        BY <2>2, <2>3, <2>4, <3>1 DEF Contiguous
    <2> QED
      BY <2>2, <2>3, <2>5 DEF TransferInv, Clearing
  <1>12. CASE Callback
    <2>1. /\ wire # <<>> /\ wire' = Tail(wire)
          /\ UNCHANGED <<reply, last, emitted, served, align, read, trig>>
      BY <1>12 DEF Callback
    <2>2. CASE torn'
      BY <2>1, <2>2 DEF TransferInv
    <2>3. CASE ~reading
      <3>1. trig = "join"
        <4>1. flying # {}
          BY <2>1 DEF SessionInv, OneReader
        <4>2. imgthread # 0
          BY <4>1, ClearedIsQuiet
        <4> QED
          BY <2>3, <4>2 DEF SessionInv, OneReader, Stopped
      <3> QED
        BY <2>1, <3>1 DEF TransferInv, Clearing
    <2>4. CASE reading /\ ~torn'
      <3>1. imgbuf' = Append(imgbuf, Head(wire)) /\ torn' = torn
        BY <1>12, <2>4 DEF Callback
      <3>2. /\ Head(wire) \in 1..MaxUnits /\ Head(wire) = wire[1]
            /\ Len(wire') = Len(wire) - 1 /\ Len(wire) # 0
            /\ \A i \in 1..Len(wire') : wire'[i] = wire[i + 1]
        BY <1>1, <2>1, TailIsPart, EmptySeq DEF Stream
      <3>3. /\ Len(imgbuf') = Len(imgbuf) + 1 /\ imgbuf'[Len(imgbuf) + 1] = wire[1]
            /\ \A i \in 1..Len(imgbuf) : imgbuf'[i] = imgbuf[i]
        BY <1>1, <3>1, <3>2, AppendProperties DEF Stream
      <3>4. base' = base
        BY <1>1, <2>1, <3>2, <3>3 DEF base
      <3>5. Contiguous => Contiguous'
        <4>1. ASSUME Contiguous
              PROVE  \A i \in 1..Len(imgbuf') : imgbuf'[i] = base + Len(reply) + i
          <5>1. wire[1] = base + Len(reply) + (Len(imgbuf) + 1)
            <6>1. 1 \in 1..Len(wire)
              BY <1>1, <3>2
            <6> QED
              BY <1>1, <1>2, <4>1, <6>1 DEF Contiguous
          <5>2. \A i \in 1..Len(imgbuf') : i \in 1..Len(imgbuf) \/ i = Len(imgbuf) + 1
            BY <1>1, <3>3
          <5> QED
            BY <3>3, <4>1, <5>1, <5>2 DEF Contiguous
        <4>2. ASSUME Contiguous
              PROVE  \A i \in 1..Len(wire') :
                       wire'[i] = base + Len(reply) + (Len(imgbuf) + 1) + i
          <5> TAKE i \in 1..Len(wire')
          <5>1. i + 1 \in 1..Len(wire)
            BY <1>1, <3>2
          <5>2. wire[i + 1] = base + Len(reply) + Len(imgbuf) + (i + 1)
            BY <4>2, <5>1 DEF Contiguous
          <5> QED
            BY <1>1, <1>2, <3>2, <5>2
        <4> QED
          BY <2>1, <3>3, <3>4, <4>1, <4>2 DEF Contiguous
      <3> QED
        BY <2>1, <3>1, <3>4, <3>5 DEF TransferInv, Clearing
    <2> QED
      BY <1>1, <2>2, <2>3, <2>4
  <1>13. CASE AlignGivesUp
    BY <1>3, <1>13 DEF AlignGivesUp
  <1>14. CASE AlignToLine
    <2>1. /\ read = "align" /\ reply = <<>> /\ Len(reply) = 0 /\ ~served
          /\ imgbuf' = FromLineStart(imgbuf)
          /\ UNCHANGED <<reply, wire, emitted, last, torn, served, align, trig>>
      BY <1>14, EmptySeq DEF AlignToLine, TransferInv
    <2>2. CASE Markers(imgbuf) = {}
      <3>1. imgbuf' = <<>> /\ Len(imgbuf') = 0 /\ read' = "align"
        BY <1>14, <2>1, <2>2, EmptySeq DEF FromLineStart, AlignToLine
      <3>2. base' = base + Len(imgbuf)
        BY <1>1, <2>1, <3>1 DEF base
      <3>3. Contiguous => Contiguous'
        <4> SUFFICES ASSUME Contiguous, NEW i \in 1..Len(wire)
                     PROVE  wire[i] = base' + Len(reply) + Len(imgbuf') + i
          BY <2>1, <3>1 DEF Contiguous
        <4>1. wire[i] = base + Len(reply) + Len(imgbuf) + i
          BY DEF Contiguous
        <4> QED
          BY <1>1, <1>2, <2>1, <3>1, <3>2, <4>1
      <3> QED
        BY <2>1, <3>1, <3>3 DEF TransferInv, Clearing
    <2>3. CASE Markers(imgbuf) # {}
      <3> DEFINE m == Min(Markers(imgbuf))
      <3>1. m \in 1..Len(imgbuf) /\ LineStart(imgbuf[m])
        <4>1. Markers(imgbuf) \subseteq Nat
          BY <1>1 DEF Markers
        <4>2. m \in Markers(imgbuf)
          BY <2>3, <4>1, MinOfNaturals
        <4> QED
          BY <4>2 DEF Markers
      <3> HIDE DEF m
      <3>2. imgbuf' = SubSeq(imgbuf, m, Len(imgbuf)) /\ read' = "wait"
        BY <1>14, <2>1, <2>3 DEF FromLineStart, AlignToLine, m
      <3>3. /\ Len(imgbuf') = Len(imgbuf) - m + 1
            /\ \A i \in 1..(Len(imgbuf) - m + 1) : imgbuf'[i] = imgbuf[m + i - 1]
        <4>1. \A i \in m..Len(imgbuf) : imgbuf[i] \in 1..MaxUnits
          <5>1. m..Len(imgbuf) \subseteq 1..Len(imgbuf)
            BY <1>1, <3>1
          <5> QED
            BY <1>1, <5>1, ElementOfSeq DEF Stream
        <4> QED
          BY <1>1, <3>1, <3>2, <4>1, SubSeqProperties
      <3>4. base' = base + m - 1
        BY <1>1, <2>1, <3>1, <3>3 DEF base
      <3>5. ASSUME Contiguous PROVE Contiguous'
        <4>1. \A i \in 1..Len(imgbuf') : imgbuf'[i] = base' + Len(reply) + i
          <5> TAKE i \in 1..Len(imgbuf')
          <5>1. m + i - 1 \in 1..Len(imgbuf) /\ imgbuf'[i] = imgbuf[m + i - 1]
            BY <1>1, <3>1, <3>3
          <5>2. imgbuf[m + i - 1] = base + Len(reply) + (m + i - 1)
            BY <3>5, <5>1 DEF Contiguous
          <5> QED
            BY <1>1, <1>2, <3>1, <3>4, <5>1, <5>2
        <4>2. \A i \in 1..Len(wire) : wire[i] = base' + Len(reply) + Len(imgbuf') + i
          <5> TAKE i \in 1..Len(wire)
          <5>1. wire[i] = base + Len(reply) + Len(imgbuf) + i
            BY <3>5 DEF Contiguous
          <5> QED
            BY <1>1, <1>2, <3>1, <3>3, <3>4, <5>1
        <4> QED
          BY <2>1, <4>1, <4>2 DEF Contiguous
      <3>6. Contiguous => LineStart(base' + 1)
        <4>1. Contiguous => imgbuf[m] = base + Len(reply) + m
          BY <3>1 DEF Contiguous
        <4>2. base + Len(reply) + m = base' + 1
          BY <1>1, <1>2, <2>1, <3>1, <3>4
        <4> QED
          BY <3>1, <4>1, <4>2
      <3> QED
        BY <2>1, <3>2, <3>5, <3>6 DEF TransferInv, Clearing
    <2> QED
      BY <2>2, <2>3
  <1>15. CASE TakeReply
    <2>1. /\ read = "take" /\ read' = "send" /\ reply = <<>> /\ Len(reply) = 0
          /\ UNCHANGED <<wire, emitted, last, torn, served, align, trig>>
      BY <1>15, EmptySeq DEF TakeReply, TransferInv
    <2>2. CASE Len(imgbuf) < want
      <3>1. UNCHANGED <<reply, imgbuf>>
        BY <1>1, <1>15, <2>1, <2>2 DEF TakeReply
      <3> QED
        BY <2>1, <3>1, FlowKept DEF TransferInv, Clearing
    <2>3. CASE Len(imgbuf) >= want
      <3>1. /\ reply' = SubSeq(imgbuf, 1, want)
            /\ imgbuf' = SubSeq(imgbuf, want + 1, Len(imgbuf))
        BY <1>15, <2>3 DEF TakeReply
      <3>2. \A i \in 1..Len(imgbuf) : imgbuf[i] \in 1..MaxUnits
        BY <1>1, ElementOfSeq DEF Stream
      <3>3. /\ Len(reply') = (IF 1 <= want THEN want - 1 + 1 ELSE 0)
            /\ \A i \in 1..(want - 1 + 1) : reply'[i] = imgbuf[1 + i - 1]
        <4>1. \A i \in 1..want : imgbuf[i] \in 1..MaxUnits
          BY <1>1, <2>3, <3>2
        <4> QED
          BY <1>1, <3>1, <4>1, SubSeqProperties
      <3>4. /\ Len(imgbuf') = (IF want + 1 <= Len(imgbuf)
                               THEN Len(imgbuf) - (want + 1) + 1 ELSE 0)
            /\ \A i \in 1..(Len(imgbuf) - (want + 1) + 1) :
                  imgbuf'[i] = imgbuf[(want + 1) + i - 1]
        <4>1. \A i \in (want + 1)..Len(imgbuf) : imgbuf[i] \in 1..MaxUnits
          BY <1>1, <2>3, <3>2
        <4> QED
          BY <1>1, <3>1, <4>1, SubSeqProperties
      <3>5. Len(reply') = want /\ Len(imgbuf') = Len(imgbuf) - want
        BY <1>1, <2>3, <3>3, <3>4
      <3>6. base' = base
        BY <1>1, <2>1, <3>5 DEF base
      <3>7. ASSUME Contiguous PROVE Contiguous'
        <4>1. \A i \in 1..Len(reply') : reply'[i] = base + i
          <5> TAKE i \in 1..Len(reply')
          <5>1. /\ i \in 1..(want - 1 + 1) /\ 1 + i - 1 = i /\ i \in 1..Len(imgbuf)
                /\ i \in Int
            BY <1>1, <2>3, <3>5
          <5>2. reply'[i] = imgbuf[i]
            BY <3>3, <5>1
          <5>3. imgbuf[i] = base + Len(reply) + i
            BY <3>7, <5>1 DEF Contiguous
          <5> QED
            BY <1>2, <2>1, <5>1, <5>2, <5>3
        <4>2. \A i \in 1..Len(imgbuf') : imgbuf'[i] = base + want + i
          <5> TAKE i \in 1..Len(imgbuf')
          <5>1. /\ i \in 1..(Len(imgbuf) - (want + 1) + 1)
                /\ (want + 1) + i - 1 = want + i /\ want + i \in 1..Len(imgbuf)
                /\ i \in Int
            BY <1>1, <2>3, <3>5
          <5>2. imgbuf'[i] = imgbuf[want + i]
            BY <3>4, <5>1
          <5>3. imgbuf[want + i] = base + Len(reply) + (want + i)
            BY <3>7, <5>1 DEF Contiguous
          <5> QED
            BY <1>1, <1>2, <2>1, <5>1, <5>2, <5>3
        <4>3. \A i \in 1..Len(wire) : wire[i] = base + Len(reply') + Len(imgbuf') + i
          <5> TAKE i \in 1..Len(wire)
          <5>1. wire[i] = base + Len(reply) + Len(imgbuf) + i
            BY <3>7 DEF Contiguous
          <5> QED
            BY <1>1, <1>2, <2>1, <3>5, <5>1
        <4> QED
          BY <2>1, <3>5, <3>6, <4>1, <4>2, <4>3 DEF Contiguous
      <3> QED
        BY <2>1, <3>6, <3>7 DEF TransferInv, Clearing
    <2> QED
      BY <1>1, <2>2, <2>3
  <1>16. CASE SendReply
    <2>1. /\ read = "send" /\ reply' = <<>> /\ Len(reply') = 0
          /\ UNCHANGED <<imgbuf, wire, emitted, torn, served, align, trig>>
          /\ ~align
      BY <1>16, EmptySeq DEF SendReply, TransferInv
    <2>2. CASE reply = <<>>
      <3>1. read' = "stamp" /\ UNCHANGED <<reply, last>>
        BY <1>16, <2>1, <2>2 DEF SendReply
      <3> QED
        BY <2>1, <3>1, FlowKept DEF TransferInv, Clearing
    <2>3. CASE reply # <<>>
      <3>1. /\ read' = "mark" /\ last' = reply[Len(reply)]
            /\ Len(reply) \in 1..Len(reply)
        <4>1. Len(reply) \in Nat \ {0}
          BY <1>1, <2>3, EmptySeq DEF Stream
        <4> QED
          BY <1>16, <2>3, <4>1 DEF SendReply
      <3>2. base' = base + Len(reply)
        BY <1>1, <2>1 DEF base
      <3>3. ASSUME Contiguous PROVE Contiguous' /\ base' = last'
        <4>1. last' = base + Len(reply)
          BY <3>1, <3>3 DEF Contiguous
        <4>2. \A i \in 1..Len(imgbuf) : imgbuf[i] = base' + Len(reply') + i
          <5> TAKE i \in 1..Len(imgbuf)
          <5>1. imgbuf[i] = base + Len(reply) + i
            BY <3>3 DEF Contiguous
          <5> QED
            BY <1>1, <1>2, <2>1, <3>2, <5>1
        <4>3. \A i \in 1..Len(wire) : wire[i] = base' + Len(reply') + Len(imgbuf) + i
          <5> TAKE i \in 1..Len(wire)
          <5>1. wire[i] = base + Len(reply) + Len(imgbuf) + i
            BY <3>3 DEF Contiguous
          <5> QED
            BY <1>1, <1>2, <2>1, <3>2, <5>1
        <4> QED
          BY <2>1, <3>2, <4>1, <4>2, <4>3 DEF Contiguous
      <3> QED
        BY <2>1, <3>1, <3>3 DEF TransferInv, Clearing
    <2> QED
      BY <2>2, <2>3
  <1>17. CASE MarkServed
    <2>1. /\ read = "mark" /\ read' = "stamp" /\ served'
          /\ UNCHANGED <<reply, imgbuf, wire, emitted, last, torn, align, trig>>
      BY <1>17 DEF MarkServed
    <2>2. base' = base /\ (Contiguous <=> Contiguous')
      BY <2>1, FlowKept
    <2> QED
      BY <2>1, <2>2 DEF TransferInv, Clearing
  <1>18. ~SendFails
    BY <1>3 DEF SendFails
  <1> QED
    BY <1>5, <1>6, <1>7, <1>8, <1>9, <1>10, <1>11, <1>12, <1>13, <1>14, <1>15,
       <1>16, <1>17, <1>18
    DEF Next, ImageStep

LEMMA AlwaysTransfer ==
  ASSUME Undisturbed
  PROVE  Spec => [](SessionInv /\ TransferInv)
  <1>1. SessionInv /\ TransferInv /\ [Next]_vars => TransferInv'
    BY TransferStep
  <1> QED
    BY AlwaysSession, TransferInit, <1>1, PTL DEF Spec

(* In an undisturbed session the client gets one scan's data without a hole,
   however many triggers arrive while it reads, as long as the buffer does not
   overflow. *)
THEOREM TransfersAreWhole ==
  ASSUME Undisturbed
  PROVE  Spec => []NoHoleInTransfer
  <1>1. SessionInv /\ TransferInv => NoHoleInTransfer
    <2> SUFFICES ASSUME SessionInv, TransferInv, ~torn, read = "send", reply # <<>>
                 PROVE  GapFree(reply) /\ (served => reply[1] = last + 1)
      BY DEF NoHoleInTransfer
    <2>1. trig \notin Clearing
      BY DEF SessionInv, OneReader, Clearing, Settled
    <2>2. Contiguous /\ (served => base = last)
      BY <2>1 DEF TransferInv, Begun
    <2>3. /\ reply \in Stream /\ Len(reply) \in Nat /\ base \in Int
          /\ 1 \in 1..Len(reply)
      <3>1. /\ reply \in Stream /\ imgbuf \in Stream /\ wire \in Stream
            /\ emitted \in Int
        BY StreamAssumption DEF SessionInv, Typed, Data, Numbers, Stream
      <3>2. /\ Len(reply) \in Nat \ {0} /\ Len(imgbuf) \in Nat
            /\ Len(wire) \in Nat
        BY <3>1, EmptySeq, LenProperties DEF Stream
      <3> QED
        BY <3>1, <3>2 DEF base
    <2>4. \A i \in 1..(Len(reply) - 1) : reply[i + 1] = reply[i] + 1
      <3> TAKE i \in 1..(Len(reply) - 1)
      <3>1. i \in 1..Len(reply) /\ i + 1 \in 1..Len(reply) /\ i \in Int
        BY <2>3
      <3>2. reply[i] = base + i /\ reply[i + 1] = base + (i + 1)
        BY <2>2, <3>1 DEF Contiguous
      <3> QED
        BY <2>3, <3>1, <3>2
    <2>5. reply[1] = base + 1
      BY <2>2, <2>3 DEF Contiguous
    <2> QED
      BY <2>2, <2>4, <2>5 DEF GapFree
  <1> QED
    BY AlwaysTransfer, <1>1, PTL

(* In an undisturbed session the first bytes of a transfer begin a scan line,
   whatever the length of a line and of the reads. *)
THEOREM TransfersStartOnLine ==
  ASSUME Undisturbed
  PROVE  Spec => []TransferStartsOnLine
  <1>1. SessionInv /\ TransferInv => TransferStartsOnLine
    <2> SUFFICES ASSUME SessionInv, TransferInv, ~torn, read = "send",
                        reply # <<>>, ~served
                 PROVE  LineStart(reply[1])
      BY DEF TransferStartsOnLine
    <2>1. trig \notin Clearing /\ trig # "align"
      BY DEF SessionInv, OneReader, Clearing, Settled
    <2>2. Contiguous /\ LineStart(base + 1)
      BY <2>1 DEF TransferInv, Aligned, Begun
    <2>3. 1 \in 1..Len(reply)
      <3>1. reply \in Stream
        BY DEF SessionInv, Typed, Data, Stream
      <3>2. Len(reply) \in Nat \ {0}
        BY <3>1, EmptySeq DEF Stream
      <3> QED
        BY <3>2
    <2> QED
      BY <2>2, <2>3 DEF Contiguous
  <1> QED
    BY AlwaysTransfer, <1>1, PTL
=============================================================================
