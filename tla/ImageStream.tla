----------------------------- MODULE ImageStream -----------------------------
(***************************************************************************)
(* The image path of the bridge, server/pakonusb.py: the reader threads    *)
(* that drain endpoint 0x86 into imgbuf, the thread that serves READ_EP6   *)
(* from it, the scan trigger's arm_stream on the command thread, and the   *)
(* idle watchdogs.  Threads interleave between the tests and assignments   *)
(* they meet in; each imglock section is one step, and so are the few runs *)
(* of statements README names.  The scanner may leave the bus: the command *)
(* thread then reopens it.                                                 *)
(*                                                                         *)
(* A unit of image data is its number in the scanner's byte stream, which  *)
(* free-runs; unit n begins a scan line iff n % Line = 1.  Times are left  *)
(* out: a deadline is an alternative that may be taken.                    *)
(***************************************************************************)
EXTENDS Integers, Sequences, FiniteSetsExt

CONSTANTS
  Line,          \* units in a scan line
  Wants,         \* sizes of the reads the shim asks for
  MaxBuf,        \* MAX_BUF
  MaxWire,       \* units filled in by the device, callback still to run
  MaxUnits,      \* bound: units the scanner emits
  MaxTriggers,   \* bound: trigger commands
  MaxStarts,     \* bound: times start_stream spawns its two threads
  Overlap,       \* reads may be outstanding while a trigger is handled
                 \* although nothing has been served yet
  Prompt,        \* the image thread notes that it has served something before
                 \* the client's next trigger is looked at
  Idles,         \* the client may stay silent until a watchdog fires
  MaxFaults      \* bound: the USB stack fails, the scanner leaves the bus, a
                 \* line marker does not turn up

ASSUME StreamAssumption ==
  /\ Line \in Nat \ {0} /\ Wants \subseteq Nat \ {0}
  /\ MaxBuf \in Nat /\ MaxWire \in Nat /\ MaxUnits \in Nat
  /\ MaxTriggers \in Nat /\ MaxStarts \in Nat /\ MaxFaults \in Nat
  /\ {Overlap, Prompt, Idles} \subseteq BOOLEAN

Threads == 1..MaxStarts
LineStart(n) == n % Line = 1 % Line

VARIABLES
  (* the client (TLX, through the shim) and the scanner *)
  client,        \* "scanning", "gone"
  triggers,      \* triggers sent
  emitted,       \* last unit captured by a USB transfer
  scanStart,     \* last unit that precedes the current scan's first trigger
  lamp,
  (* USB transfers *)
  wire,          \* units captured, their callbacks still to run, in order
  flying,        \* readers whose transfers are in flight
  h,             \* the device handle: "ok", "dead" (the device left), "none"
  faults,        \* bound: see MaxFaults
  (* the Scanner object *)
  imgbuf, reading, served, align, imgthread, streamed, lastread,
  starts, reader, watchdog,
  (* the command thread inside cmd(trigger); the image thread inside handle *)
  trig, joining, read, want, reply,
  (* history: last unit sent; a hole was torn by the valve or a watchdog;
     last unit captured before the latest trigger, and before the latest one
     that emptied the buffer *)
  last, torn, mark, armed

outside == <<client, triggers, emitted, scanStart, lamp>>
device  == <<h, faults>>
usb     == <<wire, flying, device>>
threads == <<starts, reader, watchdog, imgthread>>
clock   == <<streamed, lastread>>
command == <<trig, joining>>
image   == <<read, want, reply>>
history == <<last, torn, mark, armed>>
vars    == <<outside, usb, imgbuf, reading, served, align, threads, clock,
             command, image, history>>

TypeOK ==
  /\ client \in {"scanning", "gone"} /\ triggers \in 0..MaxTriggers
  /\ emitted \in 0..MaxUnits /\ scanStart \in 0..MaxUnits
  /\ wire \in Seq(1..MaxUnits) /\ Len(wire) <= MaxWire
  /\ flying \subseteq Threads
  /\ h \in {"ok", "dead", "none"} /\ faults \in 0..MaxFaults
  /\ imgbuf \in Seq(1..MaxUnits) /\ Len(imgbuf) <= MaxBuf
  /\ {lamp, reading, served, align, streamed, lastread, torn} \subseteq BOOLEAN
  /\ starts \in 0..MaxStarts /\ imgthread \in 0..MaxStarts
  /\ reader \in [Threads -> {"none", "submit", "run", "retire", "gone"}]
  /\ watchdog \in [Threads -> {"none", "sleep", "stop", "clear", "gone"}]
  /\ trig \in {"idle", "arm", "stop", "join", "clear", "align", "start",
               "raise", "spawn", "close", "drop", "open"}
  /\ joining \in 0..MaxStarts
  /\ read \in {"idle", "start", "raise", "spawn", "check", "align", "wait",
               "take", "send", "mark", "stamp"}
  /\ want \in Wants \union {0} /\ reply \in Seq(1..MaxUnits)
  /\ {last, mark, armed} \subseteq 0..MaxUnits

Init ==
  /\ client = "scanning" /\ triggers = 0 /\ emitted = 0 /\ scanStart = 0
  /\ lamp = FALSE /\ wire = <<>> /\ flying = {}
  /\ h = "ok" /\ faults \in 0..MaxFaults
  /\ imgbuf = <<>> /\ reading = FALSE /\ served = FALSE /\ align = FALSE
  /\ imgthread = 0 /\ streamed = FALSE /\ lastread = FALSE
  /\ starts = 0
  /\ reader = [t \in Threads |-> "none"]
  /\ watchdog = [t \in Threads |-> "none"]
  /\ trig = "idle" /\ joining = 0
  /\ read = "idle" /\ want = 0 /\ reply = <<>>
  /\ last = 0 /\ torn = FALSE /\ mark = 0 /\ armed = 0

Fault == faults < MaxFaults /\ faults' = faults + 1

Alive(t) == reader[t] \in {"submit", "run", "retire"}

(* The command thread is not inside arm_stream. *)
Commanding == trig \in {"idle", "close", "drop", "open"}

(* The client awaits the answer to a read. *)
Awaiting == read \notin {"idle", "mark", "stamp"}

(* Threads that may yet spawn a reader: keeps the count within MaxStarts. *)
Spawning == (IF Commanding THEN 0 ELSE 1) + (IF Awaiting THEN 1 ELSE 0)

-----------------------------------------------------------------------------
(* The command thread: cmd() with a trigger in it, then arm_stream. *)

(* The trigger reaches the scanner.  It is either the first of a new scan,
   which the client begins with no read outstanding and the lamp lit, or a
   further one of the scan in progress. *)
SendTrigger ==
  /\ client = "scanning" /\ trig = "idle" /\ triggers < MaxTriggers
  /\ starts + Spawning < MaxStarts
  /\ Overlap \/ served \/ ~Awaiting
  /\ Prompt => served \/ read # "mark"
  /\ h = "ok"
  /\ triggers' = triggers + 1
  /\ \/ /\ ~Awaiting
        /\ scanStart' = emitted /\ lamp' = TRUE
     \/ /\ triggers > 0
        /\ UNCHANGED <<scanStart, lamp>>
  /\ mark' = emitted
  /\ trig' = "arm"
  /\ UNCHANGED <<client, emitted, usb, imgbuf, reading, served, align,
                 threads, clock, joining, image, last, torn, armed>>

(* A bug in ArmStops: the trigger always resets, as an earlier arm_stream did. *)
ArmStopsRegardless ==
  /\ trig = "arm"
  /\ trig' = "stop"
  /\ UNCHANGED <<outside, usb, imgbuf, reading, served, align, threads, clock,
                 joining, image, history>>

(* The test at the head of arm_stream: a transfer under way is left alone. *)
ArmDuringTransfer ==
  /\ trig = "arm" /\ served
  /\ lastread' = TRUE
  /\ trig' = "idle"
  /\ UNCHANGED <<outside, usb, imgbuf, reading, served, align, threads,
                 streamed, joining, image, history>>

ArmStops ==
  /\ trig = "arm" /\ ~served
  /\ trig' = "stop"
  /\ UNCHANGED <<outside, usb, imgbuf, reading, served, align, threads, clock,
                 joining, image, history>>

(* A bug in StopReading: a stream whose reader has ended counts as stopped. *)
StopReadingIfAlive ==
  /\ trig = "stop"
  /\ joining' = imgthread
  /\ reading' = (reading /\ imgthread # 0 /\ ~Alive(imgthread))
  /\ trig' = "join"
  /\ UNCHANGED <<outside, usb, imgbuf, served, align, threads, clock, image,
                 history>>

(* stop_stream: note the reader, withdraw the flag... *)
StopReading ==
  /\ trig = "stop"
  /\ joining' = imgthread
  /\ reading' = FALSE
  /\ trig' = "join"
  /\ UNCHANGED <<outside, usb, imgbuf, served, align, threads, clock, image,
                 history>>

(* A bug in Joined: the reader is not waited for. *)
JoinedAtOnce ==
  /\ trig = "join"
  /\ imgthread' = 0 /\ joining' = 0
  /\ served' = FALSE
  /\ trig' = "clear"
  /\ UNCHANGED <<outside, usb, imgbuf, reading, align, starts, reader,
                 watchdog, clock, image, history>>

(* ...join it (it retires within 2 s, the join waits 3, callbacks take far
   less; a reader that finds the flag up again does not retire at all)... *)
Joined ==
  /\ trig = "join"
  /\ joining # 0 => ~Alive(joining) \/ (reading /\ wire = <<>>)
  /\ imgthread' = 0 /\ joining' = 0
  /\ served' = FALSE
  /\ trig' = "clear"
  /\ UNCHANGED <<outside, usb, imgbuf, reading, align, starts, reader,
                 watchdog, clock, image, history>>

(* ...and empty the buffer. *)
ClearBuffer ==
  /\ trig = "clear"
  /\ imgbuf' = <<>> /\ armed' = mark
  /\ trig' = "align"
  /\ UNCHANGED <<outside, usb, reading, served, align, threads, clock,
                 joining, image, last, torn, mark>>

(* A bug in SetAlign: the next read is not told to align. *)
SetNoAlign ==
  /\ trig = "align"
  /\ streamed' = FALSE /\ lastread' = TRUE
  /\ trig' = "start"
  /\ UNCHANGED <<outside, usb, imgbuf, reading, served, align, threads, joining,
                 image, history>>

(* The rest of arm_stream up to start_stream. *)
SetAlign ==
  /\ trig = "align"
  /\ streamed' = FALSE /\ lastread' = TRUE
  /\ align' = TRUE
  /\ trig' = "start"
  /\ UNCHANGED <<outside, usb, imgbuf, reading, served, threads, joining,
                 image, history>>

(* start_stream: its test... *)
TriggerStart ==
  /\ trig = "start"
  /\ trig' = IF reading THEN "idle" ELSE "raise"
  /\ UNCHANGED <<outside, usb, imgbuf, reading, served, align, threads, clock,
                 joining, image, history>>

(* ...and its set. *)
TriggerRaise ==
  /\ trig = "raise"
  /\ reading' = TRUE
  /\ trig' = "spawn"
  /\ UNCHANGED <<outside, usb, imgbuf, served, align, threads, clock, joining,
                 image, history>>

(* start_stream's two threads. *)
SpawnThreads ==
  /\ starts' = starts + 1 /\ imgthread' = starts + 1
  /\ reader' = [reader EXCEPT ![starts + 1] = "submit"]
  /\ watchdog' = [watchdog EXCEPT ![starts + 1] = "sleep"]

TriggerSpawn ==
  /\ trig = "spawn"
  /\ SpawnThreads
  /\ trig' = "idle"
  /\ UNCHANGED <<outside, usb, imgbuf, reading, served, align, clock, joining,
                 image, history>>

-----------------------------------------------------------------------------
(* The command thread: reopen, on the first request after the scanner left. *)

(* A bus reset or a power cycle: what was in flight comes back with an error
   and cannot be resubmitted; the scanner's lamp is out. *)
Vanish ==
  /\ h = "ok" /\ Fault
  /\ h' = "dead" /\ flying' = {} /\ lamp' = FALSE
  /\ UNCHANGED <<client, triggers, emitted, scanStart, wire, imgbuf, reading,
                 served, align, threads, clock, command, image, history>>

Reopen ==
  /\ trig = "idle" /\ h # "ok" /\ client = "scanning"
  /\ reading' = FALSE
  /\ trig' = "close"
  /\ UNCHANGED <<outside, usb, imgbuf, served, align, threads, clock, joining,
                 image, history>>

(* Closing the handle cancels what is in flight and runs its callbacks. *)
CloseHandle ==
  /\ trig = "close"
  /\ h' = "none" /\ flying' = {} /\ wire' = <<>>
  /\ imgbuf' = IF reading /\ Len(imgbuf) + Len(wire) <= MaxBuf
               THEN imgbuf \o wire ELSE imgbuf
  /\ trig' = "drop"
  /\ UNCHANGED <<outside, faults, reading, served, align, threads, clock,
                 joining, image, history>>

(* "anything buffered predates the reset" *)
DropBuffer ==
  /\ trig = "drop"
  /\ imgbuf' = <<>> /\ torn' = TRUE
  /\ trig' = "open"
  /\ UNCHANGED <<outside, usb, reading, served, align, threads, clock, joining,
                 image, last, mark, armed>>

(* open succeeds, or not yet. *)
OpenAgain ==
  /\ trig = "open"
  /\ \/ h' = "ok" /\ UNCHANGED faults
     \/ UNCHANGED h /\ Fault
  /\ trig' = "idle"
  /\ UNCHANGED <<outside, wire, flying, imgbuf, reading, served, align, threads,
                 clock, joining, image, history>>

CommandStep ==
  \/ Reopen \/ CloseHandle \/ DropBuffer \/ OpenAgain
  \/ ArmDuringTransfer \/ ArmStops \/ StopReading \/ Joined \/ ClearBuffer
  \/ SetAlign \/ TriggerStart \/ TriggerRaise \/ TriggerSpawn

-----------------------------------------------------------------------------
(* The image thread: the READ_EP6 branch of handle. *)

(* A request arrives; begin_read stamps it. *)
RequestRead ==
  /\ client = "scanning" /\ read = "idle"
  /\ starts + Spawning < MaxStarts
  /\ Overlap \/ (triggers > 0 /\ (Commanding \/ served))
  /\ want' \in Wants
  /\ lastread' = TRUE
  /\ read' = "start"
  /\ UNCHANGED <<outside, usb, imgbuf, reading, served, align, threads,
                 streamed, command, reply, history>>

(* start_stream again, on this thread. *)
ReadStart ==
  /\ read = "start"
  /\ read' = IF reading THEN "check" ELSE "raise"
  /\ UNCHANGED <<outside, usb, imgbuf, reading, served, align, threads, clock,
                 command, want, reply, history>>

ReadRaise ==
  /\ read = "raise"
  /\ reading' = TRUE
  /\ read' = "spawn"
  /\ UNCHANGED <<outside, usb, imgbuf, served, align, threads, clock, command,
                 want, reply, history>>

ReadSpawn ==
  /\ read = "spawn"
  /\ SpawnThreads
  /\ read' = "check"
  /\ UNCHANGED <<outside, usb, imgbuf, reading, served, align, clock, command,
                 want, reply, history>>

CheckAlign ==
  /\ read = "check"
  /\ align' = FALSE
  /\ read' = IF align THEN "align" ELSE "wait"
  /\ UNCHANGED <<outside, usb, imgbuf, reading, served, threads, clock,
                 command, want, reply, history>>

(* The line starts in a buffer, and the buffer from the first of them on. *)
Markers(s) == {i \in 1..Len(s) : LineStart(s[i])}
FromLineStart(s) ==
  IF Markers(s) = {} THEN <<>> ELSE SubSeq(s, Min(Markers(s)), Len(s))

(* align_to_line, with enough data to find a marker: drop what precedes it, or
   everything and look again. *)
AlignToLine ==
  /\ read = "align" /\ Len(imgbuf) >= Line
  /\ imgbuf' = FromLineStart(imgbuf)
  /\ read' = IF Markers(imgbuf) = {} THEN "align" ELSE "wait"
  /\ UNCHANGED <<outside, usb, reading, served, align, threads, clock,
                 command, want, reply, history>>

(* No marker within five seconds. *)
AlignGivesUp ==
  /\ read = "align" /\ Fault
  /\ read' = "wait"
  /\ UNCHANGED <<outside, wire, flying, h, imgbuf, reading, served, align, threads, clock,
                 command, want, reply, history>>

(* Enough is there, or the 20 s are over. *)
WaitEnds ==
  /\ read = "wait"
  /\ read' = "take"
  /\ UNCHANGED <<outside, usb, imgbuf, reading, served, align, threads, clock,
                 command, want, reply, history>>

(* A bug in TakeReply: what is served stays in the buffer. *)
TakeReplyCopies ==
  /\ read = "take"
  /\ reply' = IF Len(imgbuf) >= want THEN SubSeq(imgbuf, 1, want) ELSE <<>>
  /\ read' = "send"
  /\ UNCHANGED <<outside, usb, imgbuf, reading, served, align, threads, clock,
                 command, want, history>>

(* All that was asked for, or nothing. *)
TakeReply ==
  /\ read = "take"
  /\ IF Len(imgbuf) >= want
     THEN /\ reply' = SubSeq(imgbuf, 1, want)
          /\ imgbuf' = SubSeq(imgbuf, want + 1, Len(imgbuf))
     ELSE reply' = <<>> /\ UNCHANGED imgbuf
  /\ read' = "send"
  /\ UNCHANGED <<outside, usb, reading, served, align, threads, clock,
                 command, want, history>>

(* sendall: from here on the client holds the bytes... *)
SendReply ==
  /\ read = "send"
  /\ last' = IF reply = <<>> THEN last ELSE reply[Len(reply)]
  /\ read' = IF reply = <<>> THEN "stamp" ELSE "mark"
  /\ reply' = <<>> /\ want' = 0
  /\ UNCHANGED <<outside, usb, imgbuf, reading, served, align, threads, clock,
                 command, torn, mark, armed>>

(* ...or there is no client any more: what was taken is lost, and the exception
   ends the connection. *)
SendFails ==
  /\ read = "send" /\ client = "gone"
  /\ reply' = <<>> /\ want' = 0
  /\ read' = "idle"
  /\ UNCHANGED <<outside, usb, imgbuf, reading, served, align, threads, clock,
                 command, history>>

(* ...only now the transfer counts as under way... *)
MarkServed ==
  /\ read = "mark"
  /\ served' = TRUE
  /\ read' = "stamp"
  /\ UNCHANGED <<outside, usb, imgbuf, reading, align, threads, clock, command,
                 want, reply, history>>

(* ...and the answer is stamped. *)
StampRead ==
  /\ read = "stamp"
  /\ lastread' = TRUE
  /\ read' = "idle"
  /\ UNCHANGED <<outside, usb, imgbuf, reading, served, align, threads, streamed,
                 command, want, reply, history>>

ImageStep ==
  \/ ReadStart \/ ReadRaise \/ ReadSpawn \/ CheckAlign \/ AlignToLine
  \/ AlignGivesUp \/ WaitEnds \/ TakeReply
  \/ SendReply \/ SendFails \/ MarkServed \/ StampRead

-----------------------------------------------------------------------------
(* USB transfers and the reader threads. *)

(* The scanner fills a transfer in flight. *)
Capture ==
  /\ flying # {} /\ Len(wire) < MaxWire /\ emitted < MaxUnits
  /\ emitted' = emitted + 1
  /\ wire' = Append(wire, emitted + 1)
  /\ UNCHANGED <<client, triggers, scanStart, lamp, flying, device, imgbuf,
                 reading, served, align, threads, clock, command, image,
                 history>>

(* A bug in Callback: no safety valve. *)
CallbackUnbounded ==
  /\ wire # <<>> /\ \E t \in Threads : reader[t] \in {"run", "retire"}
  /\ wire' = Tail(wire)
  /\ IF reading
     THEN streamed' = TRUE /\ imgbuf' = Append(imgbuf, Head(wire))
     ELSE UNCHANGED <<streamed, imgbuf>>
  /\ UNCHANGED <<outside, flying, device, reading, served, align, threads,
                 lastread, command, image, history>>

(* cb: runs in whichever reader's event loop; looks at the shared flag. *)
Callback ==
  /\ wire # <<>> /\ \E t \in Threads : reader[t] \in {"run", "retire"}
  /\ wire' = Tail(wire)
  /\ IF reading
     THEN /\ streamed' = TRUE
          /\ IF Len(imgbuf) < MaxBuf
             THEN imgbuf' = Append(imgbuf, Head(wire)) /\ UNCHANGED torn
             ELSE torn' = TRUE /\ UNCHANGED imgbuf
     ELSE UNCHANGED <<streamed, imgbuf, torn>>
  /\ UNCHANGED <<outside, flying, device, reading, served, align, threads,
                 lastread, command, image, last, mark, armed>>

(* The scanner streams on past the bound: what it sends is counted in imgtotal
   and no longer followed. *)
StreamOn ==
  /\ emitted = MaxUnits /\ flying # {} /\ reading /\ ~streamed
  /\ \E t \in Threads : reader[t] \in {"run", "retire"}
  /\ streamed' = TRUE
  /\ UNCHANGED <<outside, usb, imgbuf, reading, served, align, threads,
                 lastread, command, image, history>>

(* The initial submissions. *)
Submit(t) ==
  /\ reader[t] = "submit" /\ h = "ok"
  /\ flying' = flying \union {t}
  /\ reader' = [reader EXCEPT ![t] = "run"]
  /\ UNCHANGED <<outside, wire, device, imgbuf, reading, served, align, starts,
                 watchdog, imgthread, clock, command, image, history>>

(* One of them fails: the flag is withdrawn, those before it stay in flight. *)
SubmitFails(t) ==
  /\ reader[t] = "submit"
  /\ \/ h = "dead" /\ UNCHANGED <<faults, flying>>
     \/ h = "ok" /\ Fault /\ flying' \in {flying, flying \union {t}}
  /\ reading' = FALSE
  /\ reader' = [reader EXCEPT ![t] = "gone"]
  /\ UNCHANGED <<outside, wire, h, imgbuf, served, align, starts, watchdog,
                 imgthread, clock, command, image, history>>

(* reopen took the handle away: an AttributeError ends the thread, and the flag
   stays up. *)
SubmitOnNone(t) ==
  /\ reader[t] = "submit" /\ h = "none"
  /\ reader' = [reader EXCEPT ![t] = "gone"]
  /\ UNCHANGED <<outside, usb, imgbuf, reading, served, align, starts,
                 watchdog, imgthread, clock, command, image, history>>

(* A bug in Retire: an interrupted event loop ends the reader. *)
RetireInterrupted(t) ==
  /\ reader[t] = "run"
  /\ reader' = [reader EXCEPT ![t] = "retire"]
  /\ UNCHANGED <<outside, usb, imgbuf, reading, served, align, starts, watchdog,
                 imgthread, clock, command, image, history>>

(* The loop sees the flag withdrawn, or no transfer left in flight. *)
Retire(t) ==
  /\ reader[t] = "run" /\ (~reading \/ (t \notin flying /\ wire = <<>>))
  /\ reader' = [reader EXCEPT ![t] = "retire"]
  /\ UNCHANGED <<outside, usb, imgbuf, reading, served, align, starts,
                 watchdog, imgthread, clock, command, image, history>>

(* The event loop fails, while the reader runs or while it retires its
   transfers. *)
EventLoopFails(t) ==
  /\ reader[t] \in {"run", "retire"} /\ Fault
  /\ reader' = [reader EXCEPT ![t] = IF @ = "run" THEN "retire" ELSE "gone"]
  /\ UNCHANGED <<outside, wire, flying, h, imgbuf, reading, served, align,
                 starts, watchdog, imgthread, clock, command, image, history>>

(* Every transfer came back and was not resubmitted; or the flag is up again,
   the callbacks resubmit what was cancelled and the 2 s end. *)
ReaderEnds(t) ==
  /\ reader[t] = "retire" /\ wire = <<>>
  /\ flying' = IF reading THEN flying ELSE flying \ {t}
  /\ reader' = [reader EXCEPT ![t] = "gone"]
  /\ UNCHANGED <<outside, wire, device, imgbuf, reading, served, align, starts,
                 watchdog, imgthread, clock, command, image, history>>

ReaderStep(t) ==
  \/ Submit(t) \/ SubmitFails(t) \/ SubmitOnNone(t)
  \/ Retire(t) \/ ReaderEnds(t)

(* A bug in WatchdogEnds: it looks once and is done. *)
WatchdogEndsEarly(t) ==
  /\ watchdog[t] = "sleep"
  /\ watchdog' = [watchdog EXCEPT ![t] = "gone"]
  /\ UNCHANGED <<outside, usb, imgbuf, reading, served, align, starts, reader,
                 imgthread, clock, command, image, history>>

-----------------------------------------------------------------------------
(* idle_watchdog. *)

WatchdogEnds(t) ==
  /\ watchdog[t] = "sleep" /\ ~reading
  /\ watchdog' = [watchdog EXCEPT ![t] = "gone"]
  /\ UNCHANGED <<outside, usb, imgbuf, reading, served, align, starts, reader,
                 imgthread, clock, command, image, history>>

(* Data has flowed and nothing was asked for in 45 (or 120) s: no request is
   in progress, since a read is answered within 25 s. *)
WatchdogFires(t) ==
  /\ watchdog[t] = "sleep" /\ reading /\ streamed /\ lastread
  /\ read = "idle" /\ trig = "idle" /\ Idles
  /\ reading' = FALSE /\ torn' = TRUE
  /\ watchdog' = [watchdog EXCEPT ![t] = "stop"]
  /\ UNCHANGED <<outside, usb, imgbuf, served, align, starts, reader,
                 imgthread, clock, command, image, last, mark, armed>>

(* lamp_off and safe_stop. *)
WatchdogLampOff(t) ==
  /\ watchdog[t] = "stop"
  /\ lamp' = FALSE
  /\ watchdog' = [watchdog EXCEPT ![t] = "clear"]
  /\ UNCHANGED <<client, triggers, emitted, scanStart, usb, imgbuf, reading,
                 served, align, starts, reader, imgthread, clock, command,
                 image, history>>

WatchdogClears(t) ==
  /\ watchdog[t] = "clear"
  /\ streamed' = FALSE /\ lastread' = FALSE
  /\ imgbuf' = <<>>
  /\ watchdog' = [watchdog EXCEPT ![t] = "gone"]
  /\ UNCHANGED <<outside, usb, reading, served, align, starts, reader,
                 imgthread, command, image, history>>

WatchdogStep(t) ==
  \/ WatchdogEnds(t) \/ WatchdogFires(t) \/ WatchdogLampOff(t)
  \/ WatchdogClears(t)

(* The client dies or abandons the session. *)
ClientLeaves ==
  /\ client = "scanning" /\ Idles
  /\ client' = "gone"
  /\ UNCHANGED <<triggers, emitted, scanStart, lamp, usb, imgbuf, reading,
                 served, align, threads, clock, command, image, history>>

-----------------------------------------------------------------------------
Next ==
  \/ SendTrigger \/ CommandStep
  \/ RequestRead \/ ImageStep
  \/ Capture \/ Callback \/ StreamOn
  \/ \E t \in Threads :
       ReaderStep(t) \/ EventLoopFails(t) \/ WatchdogStep(t)
  \/ Vanish \/ ClientLeaves

Spec == Init /\ [][Next]_vars

(* Threads are scheduled and the scanner streams. *)
Fairness ==
  /\ WF_vars(CommandStep) /\ WF_vars(ImageStep)
  /\ WF_vars(Capture) /\ WF_vars(Callback) /\ WF_vars(StreamOn)
  /\ \A t \in Threads : WF_vars(ReaderStep(t)) /\ WF_vars(WatchdogStep(t))

FairSpec == Spec /\ Fairness

-----------------------------------------------------------------------------
Rising(s) == \A i \in 1..(Len(s) - 1) : s[i] < s[i + 1]
GapFree(s) == \A i \in 1..(Len(s) - 1) : s[i + 1] = s[i] + 1

(* Nothing is ever served twice or out of order, whatever readers, stops and
   restarts interleave: what was sent, what is being sent, what is buffered
   and what is on the wire follow each other in the stream. *)
StreamInOrder == Rising(<<last>> \o reply \o imgbuf \o wire \o <<emitted + 1>>)

(* A transfer under way has no hole: once bytes were served, every reply
   continues exactly where the last one ended, however many triggers arrive,
   unless the overflow valve or a watchdog threw data away.  (arm_stream: "Only
   reset when no transfer is running yet", since clearing mid-transfer "punched
   a ~15 KB hole into a stream TLB was already tracking line by line".) *)
NoHoleInTransfer ==
  ~torn /\ read = "send" /\ reply # <<>>
    => GapFree(reply) /\ (served => reply[1] = last + 1)

(* The first bytes of a transfer begin a scan line. *)
TransferStartsOnLine ==
  ~torn /\ read = "send" /\ reply # <<>> /\ ~served => LineStart(reply[1])

(* Once a trigger emptied the buffer, nothing captured before that trigger
   gets into it: "a transfer submitted before a trigger must not land in the
   buffer after it" (cb). *)
NothingPredatesClear == \A i \in 1..Len(imgbuf) : imgbuf[i] > armed

(* What the client is handed was captured in the current scan: "so a later
   scan cannot be handed bytes captured before it" (stop_stream). *)
ServedIsCurrent ==
  read = "send" => \A i \in 1..Len(reply) : reply[i] > scanStart

(* While data is supposed to be read, some thread reads it. *)
ReadingHasReader ==
  reading => trig = "spawn" \/ read = "spawn" \/ \E t \in Threads : Alive(t)

(* A client that goes away mid-scan does not leave the lamp burning ("Without
   this an aborted scan leaves the lamp burning", idle_watchdog), once image
   data has been streaming and was being read, and unless a watchdog is in the
   middle of stopping an earlier stream, and once nothing fails any more. *)
StreamingLampGoesOff ==
  (/\ faults = MaxFaults
   /\ client = "gone" /\ lamp /\ reading /\ streamed /\ lastread
   /\ trig = "idle" /\ read = "idle"
   /\ \A t \in Threads : watchdog[t] \notin {"stop", "clear"}) ~> ~lamp

(* Once nothing fails any more, a trigger that arms the stream gets it read,
   whatever state the failures before it left the flag and the threads in: "the
   stream starts here" (arm_stream). *)
ArmedStreamIsRead ==
  (trig = "start" /\ h = "ok" /\ faults = MaxFaults)
    ~> \E t \in Threads : reader[t] = "run"
=============================================================================
