---------------------------- MODULE DeviceSession -----------------------------
(***************************************************************************)
(* server/pakonusb.py: the requests of the client between the socket and   *)
(* the scanner.  handle serves each connection in a thread of its own;     *)
(* __call__ reopens a lost device and retries; cmd clamps LED currents by  *)
(* the lamp state and the board learnt from the traffic (ppb.py); vendor   *)
(* keeps the EEPROM read-only; on Ctrl-C main switches the lamp off and    *)
(* stops the motor while the daemon threads still run.                     *)
(*                                                                         *)
(* A use of self.h is one step with the USB transfer it makes.  Image      *)
(* reads are in ImageStream, the DX override in DxSynth.                   *)
(***************************************************************************)
EXTENDS Integers, Sequences

CONSTANTS
  Conns,          \* client connections, a thread each
  Kinds,          \* kinds of packets the client sends once it has probed
  VendorRequests, \* control transfers the client may ask for
  UsbErrors,      \* whether a transfer may fail with the device present
  MaxVanish,      \* bound: times the device leaves the bus
  MaxSessions     \* bound: times a client starts probing

Main == "main"
Threads == Conns \union {Main}
None == -1

(* PPB addresses of the motor controller: the two applications, and all that
   the client pings, in its order; the lamp controller is 4 below. *)
PICM_APPLICATION == {36, 68}
PICM_CANDIDATES == <<68, 70, 36, 38>>

ASSUME SessionAssumption ==
  /\ {Main, "free"} \cap Conns = {} /\ UsbErrors \in BOOLEAN
  /\ MaxVanish \in Nat /\ MaxSessions \in Nat \ {0}

VARIABLES
  (* the scanner: its board; which incarnation is on the bus; lamp; drive *)
  board, dev, lamp, drive, replies,
  (* the bridge *)
  h, lock, ir_on, picm, lastpoll,
  (* each thread: where it is, its request, its attempt and its reply *)
  pc, req, tries, reply,
  (* main's progress through its exit; the client's through its probe *)
  exit, probe, sessions,
  (* history: LED writes above the limit; EEPROM writes; the incarnation whose
     lamp was last written, None if that write failed or went unrecognised;
     requests during which the device was there all the time; a client's command
     reached the scanner after Ctrl-C; a packet of main's own failed, or was
     addressed to nobody *)
  over, touched, litIn, clean, late, stopFailed

scanner == <<board, dev, lamp, drive, replies>>
bridge  == <<h, lock, ir_on, picm, lastpoll>>
threads == <<pc, req, tries, reply>>
client  == <<probe, sessions>>
history == <<over, touched, litIn, clean, late, stopFailed>>
vars    == <<scanner, bridge, threads, exit, client, history>>

-----------------------------------------------------------------------------
(* The firmware's ceilings, and the strictest of them. *)
Row(r, g, b, ir) == [R |-> r, G |-> g, B |-> b, IR |-> ir]
LED_CEILINGS ==
  [a \in PICM_APPLICATION |->
     IF a = 68 THEN [on |-> Row(8, 24, 24, 8), off |-> Row(4, 20, 20, 0)]
               ELSE [on |-> Row(8, 8, 8, 8),   off |-> Row(6, 8, 8, 0)]]
LED_STRICTEST == Row(4, 8, 8, 0)

(* A bug in led_ceilings: the lamp is taken to be in its imaging state. *)
led_ceilings_loose == LED_CEILINGS[picm]["on"]
led_ceilings == IF ir_on = "unknown" THEN LED_STRICTEST
                                     ELSE LED_CEILINGS[picm][ir_on]

(* Requests: PPB packets, with the currents of an LED write, and control
   transfers.  A client asks for more current than any row allows. *)
Ctl(r, i, b, d) == [req |-> r, idx |-> i, bit |-> b, dir |-> d]
Request(kind, to, arg) ==
  [kind |-> kind, to |-> to, arg |-> arg,
   row |-> Row(0, 0, 0, 0), ctl |-> Ctl("none", "none", 0, "none")]
LedRequest(to) == [Request("leds", to, "") EXCEPT !.row = Row(255, 255, 255, 255)]
VendorRequest(v) == [Request("vendor", 0, "") EXCEPT !.ctl = v]
Picl(m) == m - 4
Packets ==
  {Request("lamp", Picl(board), a) : a \in {"off", "visible", "ir"}}
    \union {LedRequest(Picl(board)), Request("go", board, ""),
            Request("rate", board, "run")}
ClientRequests == {r \in Packets : r.kind \in Kinds}
                    \union {VendorRequest(v) : v \in VendorRequests}
NoRequest == Request("none", 0, "")

(* The EEPROM policy; a bug: the write opcode is looked for at the EEPROM's
   index only. *)
ReadOnly(v) == v.idx = "eeprom" => \/ v.req = "setup" /\ v.bit = 1
                                   \/ v.req = "read" /\ v.dir = "in"
allowed_elsewhere(v) == ReadOnly(v)
allowed(v) == v.req # "write" /\ ReadOnly(v)

(* What would change the EEPROM. *)
Writes(v) == \/ v.req = "write"
             \/ v.idx = "eeprom" /\ v.req = "setup" /\ v.bit = 0
             \/ v.idx = "eeprom" /\ v.req = "read" /\ v.dir = "out"

Reply(r, what) == [of |-> r, what |-> what]
NoReply == Reply(NoRequest, "none")
Places == {"idle", "call", "reopen", "open", "cmd", "write", "read",
           "answer", "dead"}

TypeOK ==
  /\ board \in PICM_APPLICATION /\ picm \in PICM_APPLICATION
  /\ dev.gen \in 0..MaxVanish /\ {dev.on, dev.loaded} \subseteq BOOLEAN
  /\ lamp \in {"off", "visible", "ir"}
  /\ drive.rate \in {"zero", "run"} /\ {drive.turns, drive.armed} \subseteq BOOLEAN
  /\ h \in {None} \union 0..MaxVanish /\ lock \in Threads \union {"free"}
  /\ ir_on \in {"unknown", "off", "on"}
  /\ \A t \in Threads : pc[t] \in Places /\ tries[t] \in {1, 2}
  /\ exit \in 0..6 /\ sessions \in 1..MaxSessions /\ probe \in 0..4
  /\ over \subseteq {"stale", "known"}

Init ==
  /\ board \in PICM_APPLICATION
  /\ dev = [gen |-> 0, on |-> TRUE, loaded |-> TRUE]
  /\ lamp = "off" /\ drive = [rate |-> "zero", turns |-> FALSE, armed |-> FALSE]
  /\ replies = <<>>
  /\ h = 0 /\ lock = "free" /\ ir_on = "unknown" /\ picm = 36
  /\ lastpoll = [a \in {PICM_CANDIDATES[i] : i \in 1..4} |-> "none"]
  /\ pc = [t \in Threads |-> "idle"] /\ req = [t \in Threads |-> NoRequest]
  /\ tries = [t \in Threads |-> 1] /\ reply = [t \in Threads |-> NoReply]
  /\ exit = 0 /\ probe = 1 /\ sessions = 1
  /\ over = {} /\ touched = FALSE /\ litIn = None
  /\ clean = [c \in Conns |-> FALSE] /\ late = FALSE
  /\ stopFailed = FALSE

Usable == dev.on /\ dev.loaded /\ h = dev.gen
Running == exit < 6
Goto(t, place) == pc' = [pc EXCEPT ![t] = place]

-----------------------------------------------------------------------------
(* The client.  It probes for the controller pair before anything else, from
   one thread.  Requests begun after Ctrl-C are left out. *)
SendRequest(c) ==
  /\ exit = 0 /\ pc[c] = "idle"
  /\ \/ /\ probe \in 1..4 /\ \A o \in Conns : pc[o] = "idle"
        /\ req' = [req EXCEPT ![c] = Request("ping", PICM_CANDIDATES[probe], "")]
     \/ /\ probe = 0
        /\ \E r \in ClientRequests : req' = [req EXCEPT ![c] = r]
  /\ Goto(c, "call")
  /\ clean' = [clean EXCEPT ![c] = dev.on]
  /\ UNCHANGED <<scanner, bridge, tries, reply, exit, client, over, touched,
                 litIn, late, stopFailed>>

(* The client is started again. *)
Restart ==
  /\ exit = 0 /\ sessions < MaxSessions /\ \A c \in Conns : pc[c] = "idle"
  /\ sessions' = sessions + 1 /\ probe' = 1
  /\ UNCHANGED <<scanner, bridge, threads, exit, history>>

-----------------------------------------------------------------------------
(* __call__ and reopen *)

(* A request does not go on with no handle; a bug: it does. *)
EnterUnguarded(c) ==
  /\ Running /\ pc[c] = "call" /\ Goto(c, "cmd")
  /\ UNCHANGED <<scanner, bridge, req, tries, reply, exit, client, history>>
Enter(c) ==
  /\ Running /\ pc[c] = "call"
  /\ Goto(c, IF h = None THEN "reopen" ELSE "cmd")
  /\ UNCHANGED <<scanner, bridge, req, tries, reply, exit, client, history>>

CloseHandle(c) ==
  /\ Running /\ pc[c] = "reopen"
  /\ h' = None /\ Goto(c, "open")
  /\ UNCHANGED <<scanner, lock, ir_on, picm, lastpoll, req, tries, reply,
                 exit, client, history>>

(* open(): the scanner is there, or is an unloaded one that takes the
   firmware, or not. *)
OpenHandle(c) ==
  /\ Running /\ pc[c] = "open" /\ dev.on
  /\ dev' = [dev EXCEPT !.loaded = TRUE]
  /\ h' = dev.gen /\ Goto(c, "cmd")
  /\ UNCHANGED <<board, lamp, drive, replies, lock, ir_on, picm, lastpoll, req,
                 tries, reply, exit, client, history>>

OpenFails(c) ==
  /\ Running /\ pc[c] = "open"
  /\ ~dev.on \/ ~dev.loaded
  /\ clean' = [clean EXCEPT ![c] = FALSE]
  /\ reply' = [reply EXCEPT ![c] = NoReply] /\ Goto(c, "answer")
  /\ UNCHANGED <<scanner, bridge, req, tries, exit, client, over, touched,
                 litIn, late, stopFailed>>

-----------------------------------------------------------------------------
(* cmd and vendor *)

(* note_lamp, before the packet is sent. *)
NoteLamp(r) ==
  ir_on' = CASE r.kind = "lamp" /\ r.to = Picl(picm)
                  -> (IF r.arg = "ir" THEN "on" ELSE "off")
             [] OTHER -> ir_on

(* clamp_leds: the packet leaves with the currents of the row that applies. *)
Prepare(t) ==
  /\ Running /\ pc[t] = "cmd" /\ req[t].kind # "vendor"
  /\ NoteLamp(req[t])
  /\ req' = IF req[t].kind = "leds" THEN [req EXCEPT ![t].row = led_ceilings]
                                    ELSE req
  /\ Goto(t, "write")
  /\ UNCHANGED <<scanner, h, lock, picm, lastpoll, tries, reply, exit, client,
                 history>>

PrepareVendor(c) ==
  /\ Running /\ pc[c] = "cmd" /\ req[c].kind = "vendor"
  /\ IF allowed(req[c].ctl)
     THEN Goto(c, "write") /\ UNCHANGED <<reply, clean>>
     ELSE /\ reply' = [reply EXCEPT ![c] = Reply(req[c], "blocked")]
          /\ Goto(c, "answer") /\ UNCHANGED clean
  /\ UNCHANGED <<scanner, bridge, req, tries, exit, client, over, touched,
                 litIn, late, stopFailed>>

(* The scanner carries a packet out.  A bare stop leaves the drive turning: it
   halts when it idles after a GO at rate zero. *)
Known == /\ exit = 0 /\ picm = board
         /\ ir_on # "unknown" => litIn = dev.gen
Exceeds(row) ==
  \E ch \in DOMAIN row :
    row[ch] > LED_CEILINGS[board][IF lamp = "ir" THEN "on" ELSE "off"][ch]
AnsweredBy(r) == IF r.to \in {board, Picl(board)} THEN "ack" ELSE "nak"

Obeyed(r) ==
  /\ replies' = IF r.kind = "vendor" THEN replies
                ELSE Append(replies, Reply(r, AnsweredBy(r)))
  /\ lamp' = IF r.kind = "lamp" /\ r.to = Picl(board) THEN r.arg ELSE lamp
  /\ drive' = CASE r.kind = "rate" /\ r.to = board -> [drive EXCEPT !.rate = r.arg]
                [] r.kind = "go" /\ r.to = board
                     -> [drive EXCEPT !.turns = TRUE, !.armed = drive.rate = "zero"]
                [] r.kind = "idle" /\ r.to = board
                     -> [drive EXCEPT !.turns = @ /\ ~drive.armed]
                [] OTHER -> drive
  /\ over' = IF r.kind = "leds" /\ Exceeds(r.row)
             THEN over \union {IF Known THEN "known" ELSE "stale"} ELSE over
  /\ litIn' = CASE r.kind = "lamp" /\ picm = board -> dev.gen
                [] r.kind = "lamp" /\ picm # board -> None
                [] OTHER -> litIn
  /\ touched' = (touched \/ (r.kind = "vendor" /\ Writes(r.ctl)))
  /\ UNCHANGED <<board, dev>>

(* A thread whose transfer raised: main goes on to its next packet; a client
   thread that met NO_DEVICE reopens once, and gives up after that (a bug: at
   once); one that met anything but a USB error dies. *)
NextOfMain(t) == t = Main /\ Goto(t, "idle") /\ stopFailed' = TRUE
                 /\ UNCHANGED <<tries, reply, clean>>
Refused(t) == reply' = [reply EXCEPT ![t] = NoReply] /\ Goto(t, "answer")
LostForGood(t) ==
  \/ NextOfMain(t)
  \/ t # Main /\ Refused(t) /\ UNCHANGED <<tries, clean, stopFailed>>
Lost(t) ==
  \/ NextOfMain(t)
  \/ /\ t # Main /\ tries[t] = 1
     /\ tries' = [tries EXCEPT ![t] = 2] /\ Goto(t, "reopen")
     /\ UNCHANGED <<reply, clean, stopFailed>>
  \/ /\ t # Main /\ tries[t] = 2 /\ Refused(t)
     /\ UNCHANGED <<tries, clean, stopFailed>>
Died(t) == NextOfMain(t) \/ (/\ t # Main /\ Goto(t, "dead")
                             /\ UNCHANGED <<tries, reply, clean, stopFailed>>)
GaveUp(t) ==
  \/ NextOfMain(t)
  \/ /\ t # Main /\ Refused(t) /\ clean' = [clean EXCEPT ![t] = FALSE]
     /\ UNCHANGED <<tries, stopFailed>>
NotLit(t) == litIn' = IF req[t].kind = "lamp" THEN None ELSE litIn

(* The lock is held from the write to the end of the read; bugs: not taken;
   kept by a thread whose read failed. *)
LockFreeAlways == TRUE
LockFree == lock = "free"
LockKept == lock
LockAfterFailure == "free"

(* bulkWrite, or the control transfer of vendor. *)
Write(t) ==
  /\ Running /\ pc[t] = "write" /\ LockFree
  /\ \/ /\ \/ h = None /\ Died(t)
           \/ h # None /\ ~Usable /\ Lost(t)
           \/ UsbErrors /\ Usable /\ GaveUp(t)
        /\ NotLit(t)
        /\ UNCHANGED <<scanner, lock, over, touched, late>>
     \/ /\ Usable /\ Obeyed(req[t])
        /\ late' = (late \/ (t # Main /\ exit > 0))
        /\ IF req[t].kind = "vendor"
           THEN /\ reply' = [reply EXCEPT ![t] = Reply(req[t], "ack")]
                /\ Goto(t, "answer") /\ UNCHANGED lock
           ELSE lock' = t /\ Goto(t, "read") /\ UNCHANGED reply
        /\ UNCHANGED <<tries, clean, stopFailed>>
  /\ UNCHANGED <<h, ir_on, picm, lastpoll, req, exit, client>>

(* bulkRead: whatever reply is next in the endpoint; or the reply is lost.  One
   that is only late would stay in the endpoint; that is left out. *)
Read(t) ==
  /\ Running /\ pc[t] = "read"
  /\ \/ /\ \/ h = None /\ Died(t) /\ UNCHANGED replies
           \/ h # None /\ ~Usable /\ Lost(t) /\ UNCHANGED replies
           \/ /\ Usable /\ (UsbErrors \/ replies = <<>>) /\ GaveUp(t)
              /\ replies' = <<>>
        /\ lock' = LockAfterFailure
     \/ /\ Usable /\ replies # <<>>
        /\ replies' = Tail(replies) /\ lock' = "free"
        /\ IF t = Main
           THEN /\ Goto(t, "idle") /\ UNCHANGED reply
                /\ stopFailed' = (stopFailed \/ Head(replies).what # "ack")
           ELSE /\ Goto(t, "answer") /\ UNCHANGED stopFailed
                /\ reply' = [reply EXCEPT ![t] = Head(replies)]
        /\ UNCHANGED <<tries, clean>>
  /\ UNCHANGED <<board, dev, lamp, drive, h, ir_on, picm, lastpoll, req, exit,
                 client, over, touched, litIn, late>>

-----------------------------------------------------------------------------
(* handle: the answer goes out, then the packet is decoded for the log, unless
   it is a poll with the same reply as the last; decoding latches the board. *)
Quiet(c) == req[c].kind = "ping" /\ lastpoll[req[c].to] = reply[c].what

(* A bug in note_address: a bootloader address is latched too. *)
note_any_address(a) == a
note_address(a) == IF a \in PICM_APPLICATION THEN a ELSE picm

Answer(c) ==
  /\ Running /\ pc[c] = "answer"
  /\ lastpoll' = IF req[c].kind = "ping"
                 THEN [lastpoll EXCEPT ![req[c].to] = reply[c].what] ELSE lastpoll
  /\ picm' = IF req[c].kind = "vendor" \/ Quiet(c) THEN picm
                                                   ELSE note_address(req[c].to)
  /\ probe' = CASE req[c].kind # "ping" -> probe
                [] req[c].kind = "ping" /\ reply[c].what = "ack" -> 0
                [] req[c].kind = "ping" /\ reply[c].what = "nak" /\ probe < 4
                     -> probe + 1
                [] OTHER -> 1
  /\ Goto(c, "idle")
  /\ req' = [req EXCEPT ![c] = NoRequest] /\ reply' = [reply EXCEPT ![c] = NoReply]
  /\ tries' = [tries EXCEPT ![c] = 1] /\ clean' = [clean EXCEPT ![c] = FALSE]
  /\ UNCHANGED <<scanner, h, lock, ir_on, exit, sessions, over, touched, litIn,
                 late, stopFailed>>

-----------------------------------------------------------------------------
(* main's finally: lamp_off, then safe_stop unless there is no handle; the
   daemon threads die with the process. *)

(* Rate zero, go, idle, all three to the controller that is the board's when
   safe_stop begins; those to the lamp controller are left out, it has no motor.
   A bug: a bare stop. *)
StopAddress == IF exit <= 2 THEN picm ELSE req[Main].to
LampOff(to) == Request("lamp", to, "off")
Halt(kind) == Request(kind, StopAddress, IF kind = "rate" THEN "zero" ELSE "")
StopOrderBare ==
  <<LampOff(Picl(picm)), Halt("idle"), Halt("rate"), Halt("go")>>
StopOrder == <<LampOff(Picl(picm)), Halt("rate"), Halt("go"), Halt("idle")>>

Interrupt ==
  /\ exit = 0 /\ exit' = 1
  /\ UNCHANGED <<scanner, bridge, threads, client, history>>

StopPacket ==
  /\ exit \in 1..4 /\ pc[Main] = "idle"
  /\ exit = 2 => h # None
  /\ req' = [req EXCEPT ![Main] = StopOrder[exit]]
  /\ exit' = exit + 1 /\ Goto(Main, "cmd")
  /\ UNCHANGED <<scanner, bridge, tries, reply, client, history>>

CloseDevice ==
  /\ pc[Main] = "idle" /\ (exit = 5 \/ (exit = 2 /\ h = None))
  /\ exit' = 6
  /\ UNCHANGED <<scanner, bridge, threads, client, history>>

-----------------------------------------------------------------------------
(* The device leaves the bus: a reset, or a power cycle, which also drops the
   firmware; either way it comes up dark and still. *)
Vanish ==
  /\ Running /\ dev.on /\ dev.gen < MaxVanish
  /\ \E on, loaded \in BOOLEAN :
       dev' = [gen |-> dev.gen + 1, on |-> on, loaded |-> loaded]
  /\ lamp' = "off" /\ drive' = [rate |-> "zero", turns |-> FALSE, armed |-> FALSE]
  /\ replies' = <<>> /\ clean' = [c \in Conns |-> FALSE]
  /\ UNCHANGED <<board, bridge, threads, exit, client, over, touched, litIn,
                 late, stopFailed>>

Returns ==
  /\ Running /\ ~dev.on
  /\ dev' = [dev EXCEPT !.on = TRUE]
  /\ UNCHANGED <<board, lamp, drive, replies, bridge, threads, exit, client,
                 history>>

Serve(c) == \/ Enter(c) \/ CloseHandle(c) \/ OpenHandle(c) \/ OpenFails(c)
            \/ PrepareVendor(c) \/ Answer(c)
Transfer(t) == Prepare(t) \/ Write(t) \/ Read(t)

Next ==
  \/ \E c \in Conns : SendRequest(c) \/ Serve(c)
  \/ \E t \in Threads : Transfer(t)
  \/ Restart \/ Interrupt \/ StopPacket \/ CloseDevice \/ Vanish \/ Returns

Spec == Init /\ [][Next]_vars

(* The threads run; a thread waiting for the lock gets it some day, for whoever
   gives it back must send an answer and receive a request before it takes it
   again.  Nothing obliges the client, the user or the device. *)
Fairness == /\ \A c \in Conns : SF_vars(Serve(c) \/ Transfer(c))
            /\ WF_vars(Transfer(Main) \/ StopPacket \/ CloseDevice)
FairSpec == Spec /\ Fairness

-----------------------------------------------------------------------------
(* "Unknown board or unknown lamp state -> the strictest row, never the
   loosest" (led_ceilings): once the board is known, no LED current above the firmware's
   own ceiling reaches the scanner, as long as the last lamp write was seen for
   one and obeyed by this incarnation of the scanner, and before Ctrl-C. *)
CeilingWhileKnown == "known" \notin over

(* Nothing that would change the EEPROM gets past the policy. *)
EepromUntouched == ~touched

(* The reply a client gets is the one to its own command, until the device
   first leaves the bus. *)
OwnReply ==
  dev.gen = 0 =>
    \A c \in Conns : pc[c] = "answer" /\ reply[c].what # "none"
      => reply[c].of = req[c]

(* "Requests must not reach bulkWrite/controlRead with" no handle (__call__):
   no client thread dies of one. *)
NoBareHandle == \A c \in Conns : pc[c] # "dead"

(* A device that left the bus and came back is picked up by the very next
   request: one made while the device is there, and stays, is not refused. *)
Recovers ==
  \A c \in Conns : pc[c] = "answer" /\ clean[c] => reply[c].what # "none"

(* Once the process has ended the lamp is off and the drive halted, if the
   scanner took main's packets and no client thread still commanded it. *)
HaltedAtExit ==
  exit = 6 /\ ~late /\ ~stopFailed => lamp = "off" /\ ~drive.turns

(* Once the probe has found the controllers, the bridge takes them for the
   ones this scanner answers on. *)
BoardLatched ==
  probe = 0 /\ (\A c \in Conns : pc[c] # "answer") => picm = board

(* Every request is answered, or its connection dropped, while the bridge runs:
   the lock is always given back and reopening ends. *)
Answered ==
  \A c \in Conns : pc[c] = "call" ~> (pc[c] \in {"idle", "dead"} \/ exit = 6)
=============================================================================
