------------------------- MODULE DeviceSession_proofs -------------------------
(***************************************************************************)
(* Proofs about DeviceSession, for any set of connections and of control   *)
(* transfers, any number of re-enumerations and of probes, and whether or  *)
(* not transfers fail with the device present.                             *)
(***************************************************************************)
EXTENDS DeviceSession, TLAPS

(* What a request and a reply are made of.  The argument of a lamp packet is a
   state of the lamp, that of a rate packet a rate. *)
Rows == [R : Nat, G : Nat, B : Nat, IR : Nat]
Ctls == VendorRequests \union {Ctl("none", "none", 0, "none")}
LampStates == {"off", "visible", "ir"}
Rates == {"zero", "run"}
PacketKinds == {"none", "ping", "lamp", "leds", "go", "rate", "idle", "vendor"}
Requests ==
  {r \in [kind : PacketKinds, to : Int, arg : LampStates \union Rates \union {""},
          row : Rows, ctl : Ctls] :
     /\ r.kind = "lamp" => r.arg \in LampStates
     /\ r.kind = "rate" => r.arg \in Rates}
Replies == [of : Requests, what : {"none", "ack", "nak", "blocked"}]

(* TypeOK with the parts it leaves to the shape of the actions. *)
ThreadsTyped ==
  /\ pc \in [Threads -> Places]
  /\ req \in [Threads -> Requests]
  /\ tries \in [Threads -> {1, 2}]
  /\ reply \in [Threads -> Replies]
ScannerTyped ==
  /\ board \in PICM_APPLICATION
  /\ dev \in [gen : 0..MaxVanish, on : BOOLEAN, loaded : BOOLEAN]
  /\ lamp \in LampStates
  /\ drive \in [rate : Rates, turns : BOOLEAN, armed : BOOLEAN]
  /\ replies \in Seq(Replies)
BridgeTyped ==
  /\ h \in {None} \union 0..MaxVanish
  /\ lock \in Threads \union {"free"}
  /\ ir_on \in {"unknown", "off", "on"}
  /\ picm \in PICM_APPLICATION
RestTyped ==
  /\ exit \in 0..6 /\ probe \in 0..4 /\ sessions \in 1..MaxSessions
  /\ over \subseteq {"stale", "known"}
Typed == ThreadsTyped /\ ScannerTyped /\ BridgeTyped /\ RestTyped

-----------------------------------------------------------------------------
LEMMA ThreadsSplit ==
  /\ Main \in Threads /\ Conns \subseteq Threads
  /\ \A c \in Conns : c # Main
  BY SessionAssumption DEF Threads

LEMMA MadeRequest ==
  ASSUME NEW k \in PacketKinds, NEW a \in Int,
         NEW x \in LampStates \union Rates \union {""},
         k = "lamp" => x \in LampStates, k = "rate" => x \in Rates
  PROVE  Request(k, a, x) \in Requests
  BY DEF Request, Requests, Row, Rows, Ctls

LEMMA NoRequestTyped == NoRequest \in Requests
  <1>1. "none" \in PacketKinds /\ 0 \in Int
    BY DEF PacketKinds
  <1> QED
    BY <1>1, MadeRequest DEF NoRequest

LEMMA NoReplyTyped == NoReply \in Replies
  BY NoRequestTyped DEF NoReply, Replies, Reply

LEMMA ClampedTyped ==
  ASSUME NEW r \in Requests, NEW row \in Rows
  PROVE  [r EXCEPT !.row = row] \in Requests
  <1>1. r \in [kind : PacketKinds, to : Int,
               arg : LampStates \union Rates \union {""}, row : Rows, ctl : Ctls]
    BY DEF Requests
  <1> QED
    BY <1>1 DEF Requests

LEMMA ClientRequestTyped ==
  ASSUME board \in PICM_APPLICATION, NEW r \in ClientRequests
  PROVE  r \in Requests
  <1>1. board \in Int /\ Picl(board) \in Int
    BY DEF PICM_APPLICATION, Picl
  <1>2. \A a \in LampStates : Request("lamp", Picl(board), a) \in Requests
    BY <1>1, MadeRequest DEF PacketKinds
  <1>3. LedRequest(Picl(board)) \in Requests
    <2>1. Request("leds", Picl(board), "") \in Requests
      BY <1>1, MadeRequest DEF PacketKinds
    <2>2. Row(255, 255, 255, 255) \in Rows
      BY DEF Row, Rows
    <2> QED
      BY <2>1, <2>2, ClampedTyped DEF LedRequest
  <1>4. /\ Request("go", board, "") \in Requests
        /\ Request("rate", board, "run") \in Requests
    BY <1>1, MadeRequest DEF PacketKinds, Rates
  <1>5. ASSUME NEW v \in VendorRequests
        PROVE  VendorRequest(v) \in Requests
    <2>1. Request("vendor", 0, "") \in Requests
      <3>1. "vendor" \in PacketKinds /\ 0 \in Int
        BY DEF PacketKinds
      <3> QED
        BY <3>1, MadeRequest
    <2> QED
      BY <2>1 DEF VendorRequest, Requests, Ctls
  <1> QED
    BY <1>2, <1>3, <1>4, <1>5 DEF ClientRequests, Packets, LampStates

LEMMA CeilingsTyped ==
  ASSUME picm \in PICM_APPLICATION, ir_on \in {"unknown", "off", "on"}
  PROVE  led_ceilings \in Rows
  BY DEF led_ceilings, LED_CEILINGS, LED_STRICTEST, Row, Rows, PICM_APPLICATION

-----------------------------------------------------------------------------
LEMMA TypedInit == Init => Typed
  <1> SUFFICES ASSUME Init PROVE Typed
    OBVIOUS
  <1>1. ThreadsTyped
    BY NoRequestTyped, NoReplyTyped DEF Init, ThreadsTyped, Places
  <1>2. ScannerTyped
    BY SessionAssumption DEF Init, ScannerTyped, LampStates, Rates
  <1>3. BridgeTyped
    BY SessionAssumption DEF Init, BridgeTyped, PICM_APPLICATION
  <1>4. RestTyped
    BY SessionAssumption DEF Init, RestTyped
  <1> QED
    BY <1>1, <1>2, <1>3, <1>4 DEF Typed

LEMMA TypedStep == Typed /\ [Next]_vars => Typed'
  <1> SUFFICES ASSUME Typed, [Next]_vars PROVE Typed'
    OBVIOUS
  <1> USE DEF threads, scanner, bridge, client, history
  <1>1. CASE UNCHANGED vars
    BY <1>1 DEF vars, Typed, ThreadsTyped, ScannerTyped, BridgeTyped, RestTyped
  <1>2. ASSUME NEW c \in Conns, SendRequest(c) PROVE Typed'
    <2>1. PICK r \in Requests : req' = [req EXCEPT ![c] = r]
      <3>1. ASSUME NEW i \in 1..4
            PROVE  Request("ping", PICM_CANDIDATES[i], "") \in Requests
        <4>1. PICM_CANDIDATES[i] \in Int
          BY DEF PICM_CANDIDATES
        <4> QED
          BY <4>1, MadeRequest DEF PacketKinds
      <3> QED
        BY <1>2, <3>1, ClientRequestTyped DEF SendRequest, Typed, ScannerTyped
    <2>2. ThreadsTyped'
      BY <1>2, <2>1, ThreadsSplit
      DEF SendRequest, Goto, Typed, ThreadsTyped, Places
    <2> QED
      BY <1>2, <2>2 DEF SendRequest, Typed, ScannerTyped, BridgeTyped, RestTyped
  <1>3. ASSUME NEW c \in Conns, Serve(c) PROVE Typed'
    <2> USE ThreadsSplit, SessionAssumption DEF Goto, Places
    <2>1. CASE Enter(c)
      BY <2>1 DEF Enter, Typed, ThreadsTyped, ScannerTyped, BridgeTyped, RestTyped
    <2>2. CASE CloseHandle(c)
      BY <2>2 DEF CloseHandle, Typed, ThreadsTyped, ScannerTyped, BridgeTyped,
                  RestTyped
    <2>3. CASE OpenHandle(c)
      <3>1. ScannerTyped'
        BY <2>3 DEF OpenHandle, Typed, ScannerTyped
      <3>2. h' \in 0..MaxVanish
        BY <2>3 DEF OpenHandle, Typed, ScannerTyped
      <3>3. ThreadsTyped'
        BY <2>3 DEF OpenHandle, Typed, ThreadsTyped
      <3> QED
        BY <2>3, <3>1, <3>2, <3>3
        DEF OpenHandle, Typed, ThreadsTyped, BridgeTyped, RestTyped
    <2>4. CASE OpenFails(c)
      BY <2>4, NoReplyTyped DEF OpenFails, Typed, ThreadsTyped, ScannerTyped,
                  BridgeTyped, RestTyped
    <2>5. CASE PrepareVendor(c)
      <3>1. Reply(req[c], "blocked") \in Replies
        BY DEF Reply, Replies, Typed, ThreadsTyped
      <3> QED
        <4>1. ThreadsTyped'
          BY <2>5, <3>1 DEF PrepareVendor, Typed, ThreadsTyped
        <4> QED
          BY <2>5, <4>1 DEF PrepareVendor, Typed, ScannerTyped, BridgeTyped,
                            RestTyped
    <2>6. CASE Answer(c)
      <3>1. picm' \in PICM_APPLICATION
        BY <2>6 DEF Answer, note_address, Typed, BridgeTyped
      <3>2. probe' \in 0..4
        BY <2>6 DEF Answer, Typed, RestTyped
      <3>3. ThreadsTyped'
        BY <2>6, NoRequestTyped, NoReplyTyped DEF Answer, Typed, ThreadsTyped
      <3> QED
        BY <2>6, <3>1, <3>2, <3>3 DEF Answer, Typed, ScannerTyped, BridgeTyped,
                  RestTyped
    <2> QED
      BY <1>3, <2>1, <2>2, <2>3, <2>4, <2>5, <2>6 DEF Serve
  <1>4. ASSUME NEW t \in Threads, Transfer(t) PROVE Typed'
    <2>1. CASE Prepare(t)
      <3>1. ir_on' \in {"unknown", "off", "on"}
        BY <2>1 DEF Prepare, NoteLamp, Typed, BridgeTyped
      <3>2. [req[t] EXCEPT !.row = led_ceilings] \in Requests
        BY CeilingsTyped, ClampedTyped DEF Typed, ThreadsTyped, BridgeTyped
      <3>3. req' \in [Threads -> Requests]
        BY <2>1, <3>2 DEF Prepare, Typed, ThreadsTyped
      <3> QED
        BY <2>1, <3>1, <3>3 DEF Prepare, Goto, Places, Typed, ThreadsTyped,
                  ScannerTyped, BridgeTyped, RestTyped
    <2>2. CASE Write(t)
      <3>1. ThreadsTyped'
        <4>1. Reply(req[t], "ack") \in Replies
          BY DEF Reply, Replies, Typed, ThreadsTyped
        <4> QED
          BY <2>2, <4>1, NoReplyTyped
          DEF Write, Lost, Died, GaveUp, NextOfMain, Refused, Goto, Places,
              Typed, ThreadsTyped
      <3>2. ScannerTyped'
        <4>1. CASE UNCHANGED scanner
          BY <4>1 DEF Typed, ScannerTyped
        <4>2. CASE Obeyed(req[t])
          <5>1. Reply(req[t], AnsweredBy(req[t])) \in Replies
            BY DEF Reply, Replies, AnsweredBy, Typed, ThreadsTyped
          <5>2. replies' \in Seq(Replies)
            <6> DEFINE answer == Reply(req[t], AnsweredBy(req[t]))
            <6>1. replies \in Seq(Replies) /\ answer \in Replies
              BY <5>1 DEF Typed, ScannerTyped
            <6>2. replies' = replies \/ replies' = Append(replies, answer)
              BY <4>2 DEF Obeyed
            <6> HIDE DEF answer
            <6> QED
              BY <6>1, <6>2
          <5>3. lamp' \in LampStates
            BY <4>2 DEF Obeyed, Typed, ThreadsTyped, ScannerTyped, Requests
          <5>4. drive' \in [rate : Rates, turns : BOOLEAN, armed : BOOLEAN]
            BY <4>2 DEF Obeyed, Typed, ThreadsTyped, ScannerTyped, Requests
          <5> QED
            BY <4>2, <5>2, <5>3, <5>4 DEF Obeyed, Typed, ScannerTyped
        <4> QED
          BY <2>2, <4>1, <4>2 DEF Write
      <3>3. over' \subseteq {"stale", "known"}
        BY <2>2 DEF Write, Obeyed, Typed, RestTyped
      <3> QED
        BY <2>2, <3>1, <3>2, <3>3 DEF Write, Typed, BridgeTyped, RestTyped
    <2>3. CASE Read(t)
      <3>1. replies' \in Seq(Replies)
        <4>1. replies \in Seq(Replies)
          BY DEF Typed, ScannerTyped
        <4>2. \/ replies' = replies \/ replies' = <<>>
              \/ replies # <<>> /\ replies' = Tail(replies)
          BY <2>3 DEF Read
        <4>3. <<>> \in Seq(Replies)
          OBVIOUS
        <4>4. replies # <<>> => Tail(replies) \in Seq(Replies)
          BY <4>1
        <4> QED
          BY <4>1, <4>2, <4>3, <4>4
      <3>2. ThreadsTyped'
        <4>1. replies # <<>> => Head(replies) \in Replies
          BY DEF Typed, ScannerTyped
        <4> QED
          BY <2>3, <4>1, NoReplyTyped
          DEF Read, Lost, Died, GaveUp, NextOfMain, Refused, Goto, Places,
              Typed, ThreadsTyped
      <3> QED
        BY <2>3, <3>1, <3>2
        DEF Read, LockAfterFailure, Typed, ScannerTyped, BridgeTyped, RestTyped
    <2> QED
      BY <1>4, <2>1, <2>2, <2>3 DEF Transfer
  <1>5. CASE StopPacket
    <2>1. StopAddress \in Int /\ Picl(picm) \in Int
      <3>1. req[Main].to \in Int
        BY ThreadsSplit DEF Requests, Typed, ThreadsTyped
      <3>2. picm \in Int
        BY DEF PICM_APPLICATION, Typed, BridgeTyped
      <3> QED
        BY <3>1, <3>2 DEF StopAddress, Picl
    <2>2. LampOff(Picl(picm)) \in Requests
      BY <2>1, MadeRequest DEF LampOff, PacketKinds, LampStates
    <2>3. /\ Halt("rate") \in Requests /\ Halt("go") \in Requests
          /\ Halt("idle") \in Requests
      BY <2>1, MadeRequest DEF Halt, PacketKinds, Rates
    <2>4. StopOrder[exit] \in Requests
      BY <1>5, <2>2, <2>3 DEF StopOrder, StopPacket
    <2>5. ThreadsTyped'
      BY <1>5, <2>4, ThreadsSplit DEF StopPacket, Goto, Places, Typed, ThreadsTyped
    <2> QED
      BY <1>5, <2>5 DEF StopPacket, Typed, ScannerTyped, BridgeTyped, RestTyped
  <1>6. CASE Restart \/ Interrupt \/ CloseDevice \/ Vanish \/ Returns
    <2> USE SessionAssumption
           DEF Typed, ThreadsTyped, ScannerTyped, BridgeTyped, RestTyped
    <2>1. CASE Restart
      BY <2>1 DEF Restart
    <2>2. CASE Interrupt
      BY <2>2 DEF Interrupt
    <2>3. CASE CloseDevice
      BY <2>3 DEF CloseDevice
    <2>4. CASE Vanish
      BY <2>4 DEF Vanish, LampStates, Rates
    <2>5. CASE Returns
      BY <2>5 DEF Returns
    <2> QED
      BY <1>6, <2>1, <2>2, <2>3, <2>4, <2>5
  <1> QED
    BY <1>1, <1>2, <1>3, <1>4, <1>5, <1>6 DEF Next

LEMMA TypedAlways == Spec => []Typed
  BY TypedInit, TypedStep, PTL DEF Spec

(* The bridge's state keeps its types: in particular the latched board is one
   of the two applications, so the table of ceilings is never indexed outside
   it, whatever addresses the traffic carries. *)
THEOREM TypeCorrect == Spec => []TypeOK
  <1>1. Typed => TypeOK
    BY DEF Typed, ThreadsTyped, ScannerTyped, BridgeTyped, RestTyped, TypeOK,
           LampStates, Rates
  <1> QED
    BY <1>1, TypedAlways, PTL

-----------------------------------------------------------------------------
(* The EEPROM: nothing was written so far, and a control transfer that is about
   to be sent has passed the policy. *)
EepromInv ==
  /\ ~touched
  /\ \A t \in Threads :
       pc[t] = "write" /\ req[t].kind = "vendor" => allowed(req[t].ctl)

(* What the policy lets through never writes. *)
LEMMA PolicySound ==
  ASSUME NEW v, allowed(v)
  PROVE  ~Writes(v)
  BY DEF allowed, ReadOnly, Writes

LEMMA EepromStep == Typed /\ EepromInv /\ [Next]_vars => EepromInv'
  <1> SUFFICES ASSUME Typed, EepromInv, [Next]_vars PROVE EepromInv'
    OBVIOUS
  <1> USE DEF threads, scanner, bridge, client, history
  <1>1. CASE UNCHANGED vars
    BY <1>1 DEF vars, EepromInv, allowed, ReadOnly
  <1>2. ASSUME NEW c \in Conns, SendRequest(c) PROVE EepromInv'
    <2>1. \A t \in Threads : pc'[t] = "write" => pc[t] = "write" /\ req'[t] = req[t]
      BY <1>2, ThreadsSplit DEF SendRequest, Goto, Typed, ThreadsTyped
    <2>2. touched' = touched
      BY <1>2 DEF SendRequest
    <2> QED
      BY <2>1, <2>2 DEF EepromInv, allowed, ReadOnly
  <1>3. ASSUME NEW c \in Conns, Serve(c) PROVE EepromInv'
    <2> USE ThreadsSplit DEF Goto, EepromInv, Typed, ThreadsTyped, allowed, ReadOnly
    <2>1. CASE Enter(c)
      BY <2>1 DEF Enter
    <2>2. CASE CloseHandle(c)
      BY <2>2 DEF CloseHandle
    <2>3. CASE OpenHandle(c)
      BY <2>3 DEF OpenHandle
    <2>4. CASE OpenFails(c)
      BY <2>4 DEF OpenFails
    <2>5. CASE PrepareVendor(c)
      <3>1. /\ \A t \in Threads \ {c} : pc'[t] = pc[t]
            /\ pc'[c] = "write" => allowed(req[c].ctl)
            /\ UNCHANGED <<req, touched>>
        BY <2>5 DEF PrepareVendor
      <3> QED
        BY <3>1
    <2>6. CASE Answer(c)
      BY <2>6 DEF Answer
    <2> QED
      BY <1>3, <2>1, <2>2, <2>3, <2>4, <2>5, <2>6 DEF Serve
  <1>4. ASSUME NEW t \in Threads, Transfer(t) PROVE EepromInv'
    <2>1. CASE Prepare(t)
      <3>1. req'[t].kind = req[t].kind /\ \A u \in Threads \ {t} : req'[u] = req[u]
        BY <2>1 DEF Prepare, Typed, ThreadsTyped, Requests
      <3>2. req[t].kind # "vendor" /\ touched' = touched
        BY <2>1 DEF Prepare
      <3>3. \A u \in Threads \ {t} : pc'[u] = pc[u]
        BY <2>1 DEF Prepare, Goto, Typed, ThreadsTyped
      <3> QED
        BY <3>1, <3>2, <3>3 DEF EepromInv, allowed, ReadOnly
    <2>2. CASE Write(t)
      <3>1. ~touched'
        BY <2>2, PolicySound DEF Write, Obeyed, EepromInv
      <3>2. \A u \in Threads : pc'[u] = "write" => pc[u] = "write"
        BY <2>2 DEF Write, Lost, Died, GaveUp, NextOfMain, Refused, Goto, Typed,
                    ThreadsTyped
      <3> QED
        BY <2>2, <3>1, <3>2 DEF Write, EepromInv, allowed, ReadOnly
    <2>3. CASE Read(t)
      <3>1. \A u \in Threads : pc'[u] = "write" => pc[u] = "write"
        BY <2>3 DEF Read, Lost, Died, GaveUp, NextOfMain, Refused, Goto, Typed,
                    ThreadsTyped
      <3> QED
        BY <2>3, <3>1 DEF Read, EepromInv, allowed, ReadOnly
    <2> QED
      BY <1>4, <2>1, <2>2, <2>3 DEF Transfer
  <1>5. CASE StopPacket
    <2>1. \A t \in Threads : pc'[t] = "write" => pc[t] = "write" /\ req'[t] = req[t]
      BY <1>5, ThreadsSplit DEF StopPacket, Goto, Typed, ThreadsTyped
    <2> QED
      BY <1>5, <2>1 DEF StopPacket, EepromInv, allowed, ReadOnly
  <1>6. CASE Restart \/ Interrupt \/ CloseDevice \/ Vanish \/ Returns
    BY <1>6 DEF Restart, Interrupt, CloseDevice, Vanish, Returns, EepromInv,
                allowed, ReadOnly
  <1> QED
    BY <1>1, <1>2, <1>3, <1>4, <1>5, <1>6 DEF Next

(* The calibration EEPROM is never written, whatever control transfers clients
   ask for, on however many connections, in whatever order. *)
THEOREM EepromSafe == Spec => []EepromUntouched
  <1>1. Init => EepromInv
    BY DEF Init, EepromInv
  <1>2. EepromInv => EepromUntouched
    BY DEF EepromInv, EepromUntouched
  <1> QED
    BY <1>1, <1>2, EepromStep, TypedAlways, PTL DEF Spec

-----------------------------------------------------------------------------
(* The lock: while the device has not left the bus, the thread that holds it is
   the one that awaits a reply, the endpoint then holds that reply and nothing
   else, and it is empty when nobody holds the lock. *)
OwnInv ==
  dev.gen = 0 =>
    /\ dev.on /\ dev.loaded /\ h = 0
    /\ \A t \in Threads : pc[t] \notin {"reopen", "open"}
    /\ \A t \in Threads : pc[t] = "read" <=> lock = t
    /\ lock = "free" => replies = <<>>
    /\ \A t \in Threads :
         pc[t] = "read" => replies = <<Reply(req[t], AnsweredBy(req[t]))>>
    /\ \A c \in Conns :
         pc[c] = "answer" /\ reply[c].what # "none" => reply[c].of = req[c]

LEMMA FreeIsNoThread == "free" \notin Threads
  BY SessionAssumption DEF Threads, Main

LEMMA OwnInit == Init => OwnInv
  <1> SUFFICES ASSUME Init PROVE OwnInv
    OBVIOUS
  <1>1. \A t \in Threads : pc[t] = "idle" /\ lock # t
    BY FreeIsNoThread DEF Init
  <1>2. dev.on /\ dev.loaded /\ h = 0 /\ replies = <<>>
    BY DEF Init
  <1> QED
    BY <1>1, <1>2, ThreadsSplit DEF OwnInv

LEMMA OwnStep == Typed /\ OwnInv /\ [Next]_vars => OwnInv'
  <1> SUFFICES ASSUME Typed, OwnInv, [Next]_vars, dev'.gen = 0
      PROVE  OwnInv'
    BY DEF OwnInv
  <1>0. ThreadsTyped /\ dev \in [gen : 0..MaxVanish, on : BOOLEAN, loaded : BOOLEAN]
    BY DEF Typed, ScannerTyped
  <1> USE ThreadsSplit DEF threads, scanner, bridge, client, history, AnsweredBy
  <1>1. CASE UNCHANGED vars
    BY <1>1 DEF vars, OwnInv
  <1>2. ASSUME NEW c \in Conns, SendRequest(c) PROVE OwnInv'
    BY <1>0, <1>2 DEF SendRequest, Goto, OwnInv, ThreadsTyped
  <1>3. ASSUME NEW c \in Conns, Serve(c) PROVE OwnInv'
    <2> USE <1>0 DEF Goto, OwnInv, ThreadsTyped
    <2>1. CASE Enter(c)
      BY <2>1 DEF Enter, None
    <2>2. CASE CloseHandle(c)
      BY <2>2 DEF CloseHandle
    <2>3. CASE OpenHandle(c)
      BY <2>3 DEF OpenHandle
    <2>4. CASE OpenFails(c)
      BY <2>4 DEF OpenFails
    <2>5. CASE PrepareVendor(c)
      BY <2>5 DEF PrepareVendor, Reply
    <2>6. CASE Answer(c)
      BY <2>6 DEF Answer
    <2> QED
      BY <1>3, <2>1, <2>2, <2>3, <2>4, <2>5, <2>6 DEF Serve
  <1>4. ASSUME NEW t \in Threads, Transfer(t) PROVE OwnInv'
    <2>1. CASE Prepare(t)
      <3>1. /\ pc' = [pc EXCEPT ![t] = "write"] /\ pc[t] = "cmd"
            /\ \A u \in Threads \ {t} : req'[u] = req[u]
            /\ UNCHANGED <<dev, board, h, lock, replies, reply>>
        BY <1>0, <2>1 DEF Prepare, Goto, ThreadsTyped
      <3> QED
        BY <1>0, <3>1 DEF OwnInv, ThreadsTyped
    <2>2. CASE Write(t)
      <3>1. Usable /\ h # None /\ lock = "free" /\ replies = <<>>
        BY <2>2 DEF Write, LockFree, Obeyed, OwnInv, Usable, None
      <3>2. CASE GaveUp(t) /\ UNCHANGED <<dev, board, h, lock, replies, req>>
        BY <1>0, <2>2, <3>1, <3>2
        DEF Write, GaveUp, NextOfMain, Refused, NoReply, Reply, Goto, OwnInv,
            ThreadsTyped
      <3>3. CASE /\ Obeyed(req[t]) /\ req[t].kind = "vendor"
                 /\ reply' = [reply EXCEPT ![t] = Reply(req[t], "ack")]
                 /\ Goto(t, "answer") /\ UNCHANGED <<lock, h, req>>
        BY <1>0, <2>2, <3>1, <3>3
        DEF Write, Obeyed, Reply, Goto, OwnInv, ThreadsTyped
      <3>4. CASE /\ Obeyed(req[t]) /\ req[t].kind # "vendor"
                 /\ lock' = t /\ Goto(t, "read") /\ UNCHANGED <<reply, h, req>>
        <4>1. replies' = <<Reply(req[t], AnsweredBy(req[t]))>>
          BY <3>1, <3>4 DEF Obeyed
        <4>2. UNCHANGED <<dev, board>> /\ pc[t] = "write"
          BY <2>2, <3>4 DEF Obeyed, Write
        <4>3. \A u \in Threads : pc[u] # "read"
          BY <3>1, <4>2, FreeIsNoThread DEF OwnInv
        <4> QED
          BY <1>0, <3>1, <3>4, <4>1, <4>2, <4>3, FreeIsNoThread
          DEF Goto, OwnInv, ThreadsTyped
      <3> QED
        BY <2>2, <3>1, <3>2, <3>3, <3>4 DEF Write
    <2>3. CASE Read(t)
      <3>1. /\ lock = t /\ replies = <<Reply(req[t], AnsweredBy(req[t]))>>
            /\ Usable /\ h # None
            /\ \A u \in Threads \ {t} : pc[u] # "read"
        BY <2>3 DEF Read, OwnInv, Usable, None
      <3>2. /\ UNCHANGED <<dev, board, h, req>> /\ lock' = "free"
            /\ replies' = <<>>
        BY <2>3, <3>1 DEF Read, LockAfterFailure
      <3>3. Head(replies).of = req[t]
        BY <3>1 DEF Reply
      <3>4. /\ pc' \in {[pc EXCEPT ![t] = "idle"], [pc EXCEPT ![t] = "answer"]}
            /\ \A u \in Threads \ {t} : reply'[u] = reply[u]
            /\ t # Main /\ reply'[t].what # "none" => reply'[t].of = req[t]
        BY <1>0, <2>3, <3>1, <3>3
        DEF Read, GaveUp, NextOfMain, Refused, NoReply, Reply, Goto, ThreadsTyped
      <3> QED
        BY <1>0, <3>1, <3>2, <3>4, FreeIsNoThread DEF OwnInv, ThreadsTyped
    <2> QED
      BY <1>4, <2>1, <2>2, <2>3 DEF Transfer
  <1>5. CASE StopPacket
    BY <1>0, <1>5 DEF StopPacket, Goto, OwnInv, ThreadsTyped
  <1>6. CASE Restart \/ Interrupt \/ CloseDevice
    BY <1>6 DEF Restart, Interrupt, CloseDevice, OwnInv
  <1>7. CASE Vanish
    <2>1. dev'.gen = dev.gen + 1
      BY <1>7 DEF Vanish
    <2> QED
      BY <1>0, <2>1
  <1>8. CASE Returns
    BY <1>0, <1>8 DEF Returns, OwnInv
  <1> QED
    BY <1>1, <1>2, <1>3, <1>4, <1>5, <1>6, <1>7, <1>8 DEF Next

(* A client never gets the reply to somebody else's command as long as the
   device stays on the bus, however many connections share it and whatever
   transfers fail: one lock over the write and the read is enough.  (A reply that
   arrives after its timeout is outside the model.) *)
THEOREM RepliesMatch == Spec => []OwnReply
  <1>1. OwnInv => OwnReply
    BY DEF OwnInv, OwnReply
  <1> QED
    BY <1>1, OwnInit, OwnStep, TypedAlways, PTL DEF Spec

-----------------------------------------------------------------------------
(* The ceilings, for a client with one connection.  As long as the last lamp
   write is known to have reached this incarnation of the scanner, ir_on tells
   what the lamp is, except between the note of a lamp packet and its write; and
   the currents of a packet about to be written are those of the row that applies
   now. *)
InWrite(c, kind) == pc[c] = "write" /\ req[c].kind = kind
LampNoted(c) ==
  /\ litIn \in Int /\ litIn <= dev.gen
  /\ litIn = dev.gen /\ ~InWrite(c, "lamp")
       => ir_on # "unknown" /\ (ir_on = "on" => lamp = "ir")
  /\ picm = board /\ InWrite(c, "lamp")
       => ir_on = IF req[c].arg = "ir" THEN "on" ELSE "off"
  /\ pc[c] # "idle" /\ req[c].kind = "lamp" => req[c].to = Picl(board)
CeilingInv(c) ==
  /\ "known" \notin over
  /\ exit = 0 => /\ pc[Main] = "idle"
                 /\ LampNoted(c)
                 /\ InWrite(c, "leds") => req[c].row = led_ceilings

(* The row chosen under the lamp state that holds is within the ceiling. *)
LEMMA RowWithin ==
  ASSUME board \in PICM_APPLICATION, picm = board,
         ir_on \in {"unknown", "off", "on"}, ir_on = "on" => lamp = "ir"
  PROVE  ~Exceeds(led_ceilings)
  <1>1. CASE board = 68
    BY <1>1 DEF Exceeds, led_ceilings, LED_CEILINGS, LED_STRICTEST, Row,
                PICM_APPLICATION
  <1>2. CASE board = 36
    BY <1>2 DEF Exceeds, led_ceilings, LED_CEILINGS, LED_STRICTEST, Row,
                PICM_APPLICATION
  <1> QED
    BY <1>1, <1>2 DEF PICM_APPLICATION

LEMMA LampAddress ==
  \A r \in ClientRequests : r.kind = "lamp" => r.to = Picl(board)
  <1>1. ASSUME NEW r \in Packets, r.kind = "lamp"
        PROVE  r.to = Picl(board)
    <2>1. CASE r \in {Request("lamp", Picl(board), a) : a \in {"off", "visible", "ir"}}
      BY <2>1 DEF Request
    <2>2. CASE r = LedRequest(Picl(board))
      <3>1. r.kind = "leds"
        BY <2>2 DEF LedRequest, Request
      <3> QED
        BY <1>1, <3>1
    <2>3. CASE r \in {Request("go", board, ""), Request("rate", board, "run")}
      <3>1. Request("go", board, "").kind = "go"
        BY DEF Request
      <3>2. Request("rate", board, "run").kind = "rate"
        BY DEF Request
      <3> QED
        BY <1>1, <2>3, <3>1, <3>2
    <2> QED
      BY <2>1, <2>2, <2>3 DEF Packets
  <1>2. \A v : VendorRequest(v).kind = "vendor"
    BY DEF VendorRequest, Request
  <1> QED
    BY <1>1, <1>2 DEF ClientRequests

LEMMA CeilingStep ==
  ASSUME NEW c, Conns = {c}, Typed, CeilingInv(c), [Next]_vars
  PROVE  CeilingInv(c)'
  <1> DEFINE Kept == UNCHANGED <<board, dev, lamp, ir_on, litIn, over>>
  <1>0. /\ ThreadsTyped /\ BridgeTyped /\ board \in PICM_APPLICATION
        /\ dev \in [gen : 0..MaxVanish, on : BOOLEAN, loaded : BOOLEAN]
        /\ c \in Threads /\ Main \in Threads /\ c # Main /\ Threads = {c, Main}
        /\ exit \in 0..6
    BY ThreadsSplit DEF Typed, ScannerTyped, RestTyped, Threads
  <1> USE DEF threads, scanner, bridge, client, history
  <1>1. CASE UNCHANGED vars
    BY <1>1 DEF vars, CeilingInv, LampNoted, InWrite, led_ceilings
  <1>2. CASE SendRequest(c)
    <2>1. Kept /\ UNCHANGED <<picm, exit>> /\ pc[c] = "idle" /\ pc'[c] = "call"
          /\ pc'[Main] = pc[Main]
      BY <1>0, <1>2 DEF SendRequest, Goto, ThreadsTyped
    <2>2. req'[c].kind = "lamp" => req'[c].to = Picl(board)
      <3>1. \A a : Request("ping", a, "").kind = "ping"
        BY DEF Request
      <3>2. PICK r : /\ req' = [req EXCEPT ![c] = r]
                     /\ r.kind = "lamp" => r.to = Picl(board)
        BY <1>2, <3>1, LampAddress DEF SendRequest
      <3> QED
        BY <1>0, <3>2 DEF ThreadsTyped
    <2> QED
      BY <2>1, <2>2 DEF CeilingInv, LampNoted, InWrite, Picl
  <1>3. CASE Serve(c)
    <2>1. CASE Answer(c)
      <3>1. Kept /\ UNCHANGED exit /\ pc[c] = "answer" /\ pc'[c] = "idle"
            /\ pc'[Main] = pc[Main]
        BY <1>0, <2>1 DEF Answer, Goto, ThreadsTyped
      <3> QED
        BY <3>1 DEF CeilingInv, LampNoted, InWrite
    <2>2. ASSUME ~Answer(c) PROVE CeilingInv(c)'
      <3>1. UNCHANGED <<board, lamp, ir_on, litIn, over, picm, exit, req>>
            /\ dev'.gen = dev.gen
        BY <1>0, <1>3, <2>2 DEF Serve, Enter, CloseHandle, OpenHandle, OpenFails,
                                PrepareVendor
      <3>2. /\ pc'[Main] = pc[Main] /\ pc[c] \notin {"idle", "write"}
            /\ pc'[c] = "write" => req[c].kind = "vendor"
        BY <1>0, <1>3, <2>2 DEF Serve, Enter, CloseHandle, OpenHandle, OpenFails,
                                PrepareVendor, Goto, ThreadsTyped
      <3> QED
        BY <3>1, <3>2 DEF CeilingInv, LampNoted, InWrite
    <2> QED
      BY <2>1, <2>2
  <1>4. CASE Transfer(Main)
    <2>1. exit # 0 /\ exit' = exit
      BY <1>4 DEF Transfer, Prepare, Write, Read, CeilingInv
    <2>2. "known" \notin over'
      BY <1>4, <2>1 DEF Transfer, Prepare, Write, Read, Obeyed, Known, CeilingInv
    <2> QED
      BY <2>1, <2>2 DEF CeilingInv
  <1>5. CASE Prepare(c)
    <2>1. UNCHANGED <<board, dev, lamp, litIn, over, picm, exit>>
          /\ pc[c] = "cmd" /\ pc'[c] = "write" /\ pc'[Main] = pc[Main]
          /\ NoteLamp(req[c])
      BY <1>0, <1>5 DEF Prepare, Goto, ThreadsTyped
    <2>2. /\ req'[c].kind = req[c].kind /\ req'[c].to = req[c].to
          /\ req'[c].arg = req[c].arg
          /\ req[c].kind = "leds" => req'[c].row = led_ceilings
      BY <1>0, <1>5 DEF Prepare, ThreadsTyped, Requests
    <2>3. CASE req[c].kind = "lamp"
      BY <2>1, <2>2, <2>3 DEF CeilingInv, LampNoted, InWrite, NoteLamp, Picl
    <2>4. CASE req[c].kind # "lamp"
      <3>1. ir_on' = ir_on
        BY <2>1, <2>4 DEF NoteLamp
      <3>2. led_ceilings' = led_ceilings
        BY <2>1, <3>1 DEF led_ceilings
      <3> QED
        BY <2>1, <2>2, <2>4, <3>1, <3>2 DEF CeilingInv, LampNoted, InWrite
    <2> QED
      BY <2>3, <2>4
  <1>6. CASE Write(c)
    <2>1. /\ UNCHANGED <<board, dev, ir_on, picm, exit, req>>
          /\ pc[c] = "write" /\ pc'[c] # "write" /\ pc'[Main] = pc[Main]
      BY <1>0, <1>6 DEF Write, Obeyed, Lost, Died, GaveUp, NextOfMain, Refused,
                        Goto, ThreadsTyped
    <2>2. CASE NotLit(c) /\ UNCHANGED <<lamp, over>>
      BY <1>0, <2>1, <2>2 DEF NotLit, CeilingInv, LampNoted, InWrite, None, Picl
    <2>3. CASE Obeyed(req[c])
      <3>1. "known" \notin over'
        <4>1. CASE req[c].kind = "leds" /\ Known
          <5>1. req[c].row = led_ceilings /\ (ir_on = "on" => lamp = "ir")
                /\ picm = board
            BY <2>1, <4>1 DEF Known, CeilingInv, LampNoted, InWrite
          <5>2. ~Exceeds(req[c].row)
            BY <1>0, <5>1, RowWithin DEF BridgeTyped
          <5> QED
            BY <2>3, <5>2 DEF Obeyed, CeilingInv
        <4>2. CASE ~(req[c].kind = "leds" /\ Known)
          BY <2>3, <4>2 DEF Obeyed, CeilingInv
        <4> QED
          BY <4>1, <4>2
      <3>2. exit = 0 => LampNoted(c)'
        <4>1. CASE req[c].kind = "lamp"
          BY <1>0, <2>1, <2>3, <4>1
          DEF Obeyed, CeilingInv, LampNoted, InWrite, None, Picl
        <4>2. CASE req[c].kind # "lamp"
          <5>1. lamp' = lamp /\ litIn' = litIn
            BY <2>3, <4>2 DEF Obeyed
          <5> QED
            BY <2>1, <4>2, <5>1 DEF CeilingInv, LampNoted, InWrite
        <4> QED
          BY <4>1, <4>2
      <3> QED
        BY <2>1, <3>1, <3>2 DEF CeilingInv, InWrite
    <2> QED
      BY <1>6, <2>2, <2>3 DEF Write
  <1>7. CASE Read(c)
    <2>1. Kept /\ UNCHANGED <<picm, exit, req>> /\ pc[c] = "read"
          /\ pc'[c] # "write" /\ pc'[Main] = pc[Main]
      BY <1>0, <1>7 DEF Read, Lost, Died, GaveUp, NextOfMain, Refused, Goto,
                        ThreadsTyped
    <2> QED
      BY <2>1 DEF CeilingInv, LampNoted, InWrite
  <1>8. CASE StopPacket \/ Interrupt \/ CloseDevice
    <2>1. exit' # 0 /\ over' = over
      BY <1>0, <1>8 DEF StopPacket, Interrupt, CloseDevice
    <2> QED
      BY <2>1 DEF CeilingInv
  <1>9. CASE Vanish
    <2>1. dev'.gen = dev.gen + 1 /\ dev.gen \in Int
          /\ UNCHANGED <<board, ir_on, litIn, over, picm, exit, pc, req>>
      BY <1>0, <1>9 DEF Vanish
    <2>2. led_ceilings' = led_ceilings
      BY <2>1 DEF led_ceilings
    <2> QED
      BY <2>1, <2>2 DEF CeilingInv, LampNoted, InWrite
  <1>10. CASE Restart \/ Returns
    <2>1. UNCHANGED <<board, lamp, ir_on, litIn, over, picm, exit, pc, req>>
          /\ dev'.gen = dev.gen
      BY <1>0, <1>10 DEF Restart, Returns
    <2>2. led_ceilings' = led_ceilings
      BY <2>1 DEF led_ceilings
    <2> QED
      BY <2>1, <2>2 DEF CeilingInv, LampNoted, InWrite
  <1> QED
    BY <1>0, <1>1, <1>2, <1>3, <1>4, <1>5, <1>6, <1>7, <1>8, <1>9, <1>10
    DEF Next, Transfer

(* With one connection, no LED current above the firmware's ceiling reaches a
   scanner whose board is known and whose last lamp write is known to have been
   obeyed, for any sequence of packets, failures and re-enumerations. *)
THEOREM CeilingKept ==
  ASSUME NEW c, Conns = {c}
  PROVE  Spec => []CeilingWhileKnown
  <1>1. Init => CeilingInv(c)
    <2> SUFFICES ASSUME Init PROVE CeilingInv(c)
      OBVIOUS
    <2>1. pc[c] = "idle" /\ pc[Main] = "idle"
      BY ThreadsSplit DEF Init
    <2> QED
      BY <2>1 DEF Init, CeilingInv, LampNoted, InWrite, None
  <1>2. Typed /\ CeilingInv(c) /\ [Next]_vars => CeilingInv(c)'
    BY CeilingStep
  <1>3. CeilingInv(c) => CeilingWhileKnown
    BY DEF CeilingInv, CeilingWhileKnown
  <1> QED
    BY <1>1, <1>2, <1>3, TypedAlways, PTL DEF Spec
-----------------------------------------------------------------------------
(* The handle, for a client with one connection: only its own thread takes it
   away, and does not go on before it has one again. *)
HandleInv(c) ==
  /\ pc[c] # "dead"
  /\ h = None => pc[c] \notin {"cmd", "write", "read"}

(* Who is who with one connection. *)
LEMMA OneConnection ==
  ASSUME NEW c, Conns = {c}
  PROVE  Threads = {c, Main} /\ c # Main
  BY ThreadsSplit DEF Threads

LEMMA HandleStep ==
  ASSUME NEW c, Conns = {c}, Typed, HandleInv(c), [Next]_vars
  PROVE  HandleInv(c)'
  <1>0. /\ ThreadsTyped /\ Threads = {c, Main} /\ c # Main
        /\ dev.gen \in Nat /\ None \notin Nat
    BY OneConnection DEF Typed, ScannerTyped, None
  <1> USE <1>0 DEF HandleInv, Goto, ThreadsTyped, threads, scanner, bridge, client,
                   history
  <1>1. CASE UNCHANGED vars
    BY <1>1 DEF vars
  <1>2. CASE SendRequest(c)
    BY <1>2 DEF SendRequest
  <1>3. CASE Serve(c)
    <2>1. CASE Enter(c)
      BY <2>1 DEF Enter
    <2>2. CASE CloseHandle(c)
      BY <2>2 DEF CloseHandle
    <2>3. CASE OpenHandle(c)
      BY <2>3 DEF OpenHandle
    <2>4. CASE OpenFails(c)
      BY <2>4 DEF OpenFails
    <2>5. CASE PrepareVendor(c)
      BY <2>5 DEF PrepareVendor
    <2>6. CASE Answer(c)
      BY <2>6 DEF Answer
    <2> QED
      BY <1>3, <2>1, <2>2, <2>3, <2>4, <2>5, <2>6 DEF Serve
  <1>4. CASE Transfer(c)
    <2>1. CASE Prepare(c)
      BY <2>1 DEF Prepare
    <2>2. CASE Write(c)
      BY <2>2 DEF Write, Lost, Died, GaveUp, NextOfMain, Refused
    <2>3. CASE Read(c)
      BY <2>3 DEF Read, Lost, Died, GaveUp, NextOfMain, Refused
    <2> QED
      BY <1>4, <2>1, <2>2, <2>3 DEF Transfer
  <1>5. CASE Transfer(Main)
    <2>1. pc'[c] = pc[c] /\ h' = h
      BY <1>5 DEF Transfer, Prepare, Write, Read, Lost, Died, GaveUp, NextOfMain,
                  Refused
    <2> QED
      BY <2>1
  <1>6. CASE StopPacket
    BY <1>6 DEF StopPacket
  <1>7. CASE Restart \/ Interrupt \/ CloseDevice \/ Vanish \/ Returns
    BY <1>7 DEF Restart, Interrupt, CloseDevice, Vanish, Returns
  <1> QED
    BY <1>0, <1>1, <1>2, <1>3, <1>4, <1>5, <1>6, <1>7 DEF Next

(* With one connection no request reaches a transfer without a handle, so that
   its thread never dies of one, whatever the device does. *)
THEOREM HandleGuarded ==
  ASSUME NEW c, Conns = {c}
  PROVE  Spec => []NoBareHandle
  <1>1. Init => HandleInv(c)
    BY ThreadsSplit DEF Init, HandleInv, None
  <1>2. Typed /\ HandleInv(c) /\ [Next]_vars => HandleInv(c)'
    BY HandleStep
  <1>3. HandleInv(c) => NoBareHandle
    BY DEF HandleInv, NoBareHandle
  <1> QED
    BY <1>1, <1>2, <1>3, TypedAlways, PTL DEF Spec

-----------------------------------------------------------------------------
(* Recovery, for a client with one connection: on its second attempt a request
   that found the device there all the time has a handle that works. *)
Delivered == [of : Requests, what : {"ack", "nak"}]
RecoverInv(c) ==
  /\ clean \in [Conns -> BOOLEAN] /\ replies \in Seq(Delivered)
  /\ pc[c] \in {"idle", "call"} => tries[c] = 1
  /\ clean[c] => dev.on
  /\ clean[c] /\ tries[c] = 2 /\ pc[c] \in {"cmd", "write", "read"} => Usable
  /\ clean[c] /\ pc[c] = "answer" => reply[c].what # "none"

LEMMA DeliveredStep ==
  ASSUME ThreadsTyped, NEW t \in Threads, replies \in Seq(Delivered),
         Write(t) \/ Read(t)
  PROVE  replies' \in Seq(Delivered)
  <1>1. CASE Write(t)
    <2> DEFINE answer == Reply(req[t], AnsweredBy(req[t]))
    <2>1. answer \in Delivered
      BY DEF Reply, Delivered, AnsweredBy, ThreadsTyped
    <2>2. replies' = replies \/ replies' = Append(replies, answer)
      BY <1>1 DEF Write, Obeyed, scanner
    <2> HIDE DEF answer
    <2> QED
      BY <2>1, <2>2
  <1>2. CASE Read(t)
    <2>1. \/ replies' = replies \/ replies' = <<>>
          \/ replies # <<>> /\ replies' = Tail(replies)
      BY <1>2 DEF Read
    <2>2. replies # <<>> => Tail(replies) \in Seq(Delivered)
      OBVIOUS
    <2>3. <<>> \in Seq(Delivered)
      OBVIOUS
    <2> QED
      BY <2>1, <2>2, <2>3
  <1> QED
    BY <1>1, <1>2

LEMMA RecoverStep ==
  ASSUME NEW c, Conns = {c}, Typed, RecoverInv(c), [Next]_vars
  PROVE  RecoverInv(c)'
  <1>0. /\ ThreadsTyped /\ Threads = {c, Main} /\ c # Main
        /\ dev \in [gen : 0..MaxVanish, on : BOOLEAN, loaded : BOOLEAN]
    BY OneConnection DEF Typed, ScannerTyped
  <1>00. clean \in [Conns -> BOOLEAN] /\ replies \in Seq(Delivered)
    BY DEF RecoverInv
  <1> USE <1>0, <1>00 DEF Goto, ThreadsTyped, threads, scanner, bridge, client, history
  <1>1. CASE UNCHANGED vars
    BY <1>1 DEF vars, RecoverInv, Usable
  <1>2. CASE SendRequest(c)
    BY <1>2 DEF SendRequest, RecoverInv, Usable
  <1>3. CASE Serve(c)
    <2> USE DEF RecoverInv, Usable
    <2>1. CASE Enter(c)
      BY <2>1 DEF Enter
    <2>2. CASE CloseHandle(c)
      BY <2>2 DEF CloseHandle
    <2>3. CASE OpenHandle(c)
      <3>1. /\ dev'.on /\ dev'.loaded /\ h' = dev'.gen /\ pc'[c] = "cmd"
            /\ UNCHANGED <<clean, replies, tries, reply>>
        BY <2>3 DEF OpenHandle
      <3> QED
        BY <3>1
    <2>4. CASE OpenFails(c)
      BY <2>4 DEF OpenFails
    <2>5. CASE PrepareVendor(c)
      BY <2>5 DEF PrepareVendor, Reply
    <2>6. CASE Answer(c)
      <3>1. /\ clean' = [clean EXCEPT ![c] = FALSE] /\ replies' = replies
            /\ pc' = [pc EXCEPT ![c] = "idle"]
            /\ tries' = [tries EXCEPT ![c] = 1]
        BY <2>6 DEF Answer
      <3> QED
        BY <3>1
    <2> QED
      BY <1>3, <2>1, <2>2, <2>3, <2>4, <2>5, <2>6 DEF Serve
  <1>4. CASE Prepare(c)
    BY <1>4 DEF Prepare, RecoverInv, Usable
  <1>5. CASE Write(c)
    <2>1. replies' \in Seq(Delivered)
      BY <1>5, DeliveredStep
    <2>2. UNCHANGED <<dev, h>> /\ pc[c] = "write"
      BY <1>5 DEF Write, Obeyed
    <2>3. CASE /\ Usable /\ UNCHANGED <<tries, clean>>
               /\ \/ /\ reply' = [reply EXCEPT ![c] = Reply(req[c], "ack")]
                     /\ Goto(c, "answer")
                  \/ Goto(c, "read") /\ UNCHANGED reply
      <3>1. pc'[c] = "read" \/ (pc'[c] = "answer" /\ reply'[c].what = "ack")
        BY <2>3 DEF Reply
      <3> QED
        BY <2>1, <2>2, <2>3, <3>1 DEF RecoverInv, Usable
    <2>4. CASE Lost(c) /\ ~Usable
      BY <2>1, <2>2, <2>4 DEF Lost, NextOfMain, Refused, RecoverInv, Usable
    <2>5. CASE Died(c)
      BY <2>1, <2>2, <2>5 DEF Died, NextOfMain, RecoverInv, Usable
    <2>6. CASE GaveUp(c)
      BY <2>1, <2>2, <2>6 DEF GaveUp, NextOfMain, Refused, RecoverInv, Usable
    <2> QED
      BY <1>5, <2>3, <2>4, <2>5, <2>6 DEF Write
  <1>6. CASE Read(c)
    <2>1. replies' \in Seq(Delivered)
      BY <1>6, DeliveredStep
    <2>2. UNCHANGED <<dev, h>> /\ pc[c] = "read"
      BY <1>6 DEF Read
    <2>3. CASE /\ Usable /\ replies # <<>> /\ UNCHANGED <<tries, clean>>
               /\ Goto(c, "answer")
               /\ reply' = [reply EXCEPT ![c] = Head(replies)]
      <3>1. Head(replies) \in Delivered
        BY <2>3
      <3>2. Head(replies).what # "none"
        BY <3>1 DEF Delivered
      <3> QED
        BY <2>1, <2>2, <2>3, <3>2 DEF RecoverInv, Usable
    <2>4. CASE Lost(c) /\ ~Usable
      BY <2>1, <2>2, <2>4 DEF Lost, NextOfMain, Refused, RecoverInv, Usable
    <2>5. CASE Died(c)
      BY <2>1, <2>2, <2>5 DEF Died, NextOfMain, RecoverInv, Usable
    <2>6. CASE GaveUp(c)
      BY <2>1, <2>2, <2>6 DEF GaveUp, NextOfMain, Refused, RecoverInv, Usable
    <2> QED
      BY <1>6, <2>3, <2>4, <2>5, <2>6 DEF Read
  <1>7. CASE Transfer(Main)
    <2>1. /\ UNCHANGED <<dev, h, clean>> /\ pc'[c] = pc[c]
          /\ tries'[c] = tries[c] /\ reply'[c] = reply[c]
      BY <1>7 DEF Transfer, Prepare, Write, Read, Obeyed, Lost, Died, GaveUp,
                  NextOfMain, Refused
    <2>2. replies' \in Seq(Delivered)
      BY <1>7, DeliveredStep DEF Transfer, Prepare
    <2> QED
      BY <2>1, <2>2 DEF RecoverInv, Usable
  <1>8. CASE StopPacket
    BY <1>8 DEF StopPacket, RecoverInv, Usable
  <1>9. CASE Restart \/ Interrupt \/ CloseDevice
    BY <1>9 DEF Restart, Interrupt, CloseDevice, RecoverInv, Usable
  <1>10. CASE Vanish
    <2>1. clean' = [d \in Conns |-> FALSE] /\ replies' = <<>>
          /\ UNCHANGED <<pc, tries>>
      BY <1>10 DEF Vanish
    <2> QED
      BY <2>1 DEF RecoverInv
  <1>11. CASE Returns
    BY <1>11 DEF Returns, RecoverInv, Usable
  <1> QED
    BY <1>0, <1>1, <1>2, <1>3, <1>4, <1>5, <1>6, <1>7, <1>8, <1>9, <1>10, <1>11
    DEF Next, Transfer

(* With one connection, a request during which the device was on the bus all the
   time is answered by it, or given up for an error of its own: never because
   the bridge still held on to an earlier incarnation. *)
THEOREM PickedUpAgain ==
  ASSUME NEW c, Conns = {c}
  PROVE  Spec => []Recovers
  <1>1. Init => RecoverInv(c)
    BY ThreadsSplit DEF Init, RecoverInv
  <1>2. Typed /\ RecoverInv(c) /\ [Next]_vars => RecoverInv(c)'
    BY RecoverStep
  <1>3. RecoverInv(c) => Recovers
    BY DEF RecoverInv, Recovers
  <1> QED
    BY <1>1, <1>2, <1>3, TypedAlways, PTL DEF Spec

-----------------------------------------------------------------------------
(* The exit, for a client with one connection.  A scanner that the bridge has no
   good handle of has obeyed nothing since it came up... *)
Dark == lamp = "off" /\ ~drive.turns /\ drive.rate = "zero"
LinkInv(c) ==
  /\ h <= dev.gen
  /\ h = dev.gen => dev.on /\ dev.loaded
  /\ h # dev.gen => Dark /\ replies = <<>>
  /\ pc[c] \in {"reopen", "open"} => h # dev.gen

(* ...what is in the endpoint is the reply to the command of the thread that
   holds the lock... *)
EndpointInv ==
  /\ \A t \in Threads : pc[t] = "read" <=> lock = t
  /\ lock = "free" => replies = <<>>
  /\ \A t \in Threads : pc[t] = "read" =>
       replies \in {<<>>, <<Reply(req[t], AnsweredBy(req[t]))>>}

(* ...and of main's packets, the one under way is known by how far the exit is;
   one that was carried out, or whose reply is about to say so, has had its
   effect, and a GO at rate zero was in time to arm the stop. *)
LampAddresses == {Picl(a) : a \in PICM_APPLICATION}
Done(k) ==
  \/ exit > k
  \/ exit = k /\ pc[Main] = "idle"
  \/ exit = k /\ pc[Main] = "read" /\ AnsweredBy(req[Main]) = "ack"
Packet(kind, addresses) == req[Main].kind = kind /\ req[Main].to \in addresses
PacketInv ==
  /\ pc[Main] \in {"idle", "cmd", "write", "read"}
  /\ exit \in {0, 1, 6} => pc[Main] = "idle"
  /\ exit \in 3..5 => req[Main].to \in PICM_APPLICATION
  /\ pc[Main] # "idle" =>
       /\ exit = 2 => Packet("lamp", LampAddresses) /\ req[Main].arg = "off"
       /\ exit = 3 => Packet("rate", PICM_APPLICATION) /\ req[Main].arg = "zero"
       /\ exit = 4 => Packet("go", PICM_APPLICATION)
       /\ exit = 5 => Packet("idle", PICM_APPLICATION)
Progress ==
  /\ Done(2) => lamp = "off"
  /\ Done(3) => drive.rate = "zero"
  /\ Done(4) => drive.armed \/ ~drive.turns
  /\ Done(5) => ~drive.turns
ExitInv(c) ==
  /\ LinkInv(c) /\ EndpointInv /\ PacketInv
  /\ ~late /\ ~stopFailed => Progress

LEMMA LinkStep ==
  ASSUME NEW c, Conns = {c}, Typed, LinkInv(c), EndpointInv, [Next]_vars
  PROVE  LinkInv(c)'
  <1>0. /\ ThreadsTyped /\ Threads = {c, Main} /\ c # Main
        /\ dev \in [gen : 0..MaxVanish, on : BOOLEAN, loaded : BOOLEAN]
        /\ h \in {-1} \union 0..MaxVanish
    BY OneConnection DEF Typed, ScannerTyped, BridgeTyped, None
  <1> USE <1>0 DEF Goto, ThreadsTyped, threads, scanner, bridge, client, history
  <1>1. ASSUME UNCHANGED <<dev, h, lamp, drive, replies>>,
               pc'[c] \in {"reopen", "open"} =>
                 pc[c] \in {"reopen", "open"} \/ h # dev.gen
        PROVE  LinkInv(c)'
    BY <1>1 DEF LinkInv, Dark
  <1>2. CASE SendRequest(c) \/ UNCHANGED vars
    BY <1>1, <1>2 DEF SendRequest, vars
  <1>3. CASE Serve(c)
    <2>1. CASE Enter(c)
      BY <1>1, <2>1 DEF Enter, None
    <2>2. CASE CloseHandle(c)
      BY <2>2 DEF CloseHandle, LinkInv, Dark, None
    <2>3. CASE OpenHandle(c)
      <3>1. /\ dev'.on /\ dev'.loaded /\ dev'.gen = dev.gen /\ h' = dev.gen
            /\ pc'[c] = "cmd"
        BY <2>3 DEF OpenHandle
      <3> QED
        BY <3>1 DEF LinkInv
    <2>4. CASE OpenFails(c) \/ PrepareVendor(c) \/ Answer(c)
      BY <1>1, <2>4 DEF OpenFails, PrepareVendor, Answer
    <2> QED
      BY <1>3, <2>1, <2>2, <2>3, <2>4 DEF Serve
  <1>4. ASSUME NEW t \in Threads, Prepare(t)
        PROVE  LinkInv(c)'
    BY <1>1, <1>4 DEF Prepare
  <1>5. ASSUME NEW t \in Threads, Write(t)
        PROVE  LinkInv(c)'
    <2>1. pc'[c] \in {"reopen", "open"} => pc[c] \in {"reopen", "open"} \/ ~Usable
      BY <1>5 DEF Write, Lost, Died, GaveUp, NextOfMain, Refused
    <2>2. ~Usable => h # dev.gen
      BY DEF Usable, LinkInv
    <2>3. CASE Usable /\ h' = h /\ dev' = dev
      BY <2>1, <2>2, <2>3 DEF Usable, LinkInv
    <2>4. CASE UNCHANGED <<dev, h, lamp, drive, replies>>
      BY <1>1, <2>1, <2>2, <2>4
    <2> QED
      BY <1>5, <2>3, <2>4 DEF Write, Obeyed
  <1>6. ASSUME NEW t \in Threads, Read(t)
        PROVE  LinkInv(c)'
    <2>1. pc'[c] \in {"reopen", "open"} => pc[c] \in {"reopen", "open"} \/ ~Usable
      BY <1>6 DEF Read, Lost, Died, GaveUp, NextOfMain, Refused
    <2>2. ~Usable => h # dev.gen
      BY DEF Usable, LinkInv
    <2>3. CASE Usable /\ h' = h /\ dev' = dev
      BY <2>1, <2>2, <2>3 DEF Usable, LinkInv
    <2>4. CASE UNCHANGED <<dev, h, lamp, drive, replies>>
      BY <1>1, <2>1, <2>2, <2>4
    <2> QED
      BY <1>6, <2>3, <2>4 DEF Read
  <1>7. CASE StopPacket \/ Restart \/ Interrupt \/ CloseDevice
    BY <1>1, <1>7 DEF StopPacket, Restart, Interrupt, CloseDevice
  <1>8. CASE Vanish
    <2>1. /\ dev'.gen = dev.gen + 1 /\ h' = h /\ replies' = <<>> /\ Dark'
      BY <1>8 DEF Vanish, Dark
    <2> QED
      BY <2>1 DEF LinkInv
  <1>9. CASE Returns
    BY <1>9 DEF Returns, LinkInv, Dark
  <1> QED
    BY <1>0, <1>2, <1>3, <1>4, <1>5, <1>6, <1>7, <1>8, <1>9 DEF Next, Transfer

LEMMA EndpointStep ==
  ASSUME NEW c, Conns = {c}, Typed, LinkInv(c), EndpointInv, [Next]_vars
  PROVE  EndpointInv'
  <1>0. ThreadsTyped /\ Threads = {c, Main} /\ c # Main
    BY OneConnection DEF Typed
  <1> USE <1>0 DEF Goto, ThreadsTyped, threads, scanner, bridge, client, history
  <1>1. ASSUME UNCHANGED <<board, lock, replies>>,
               \A t \in Threads :
                 /\ pc'[t] = "read" <=> pc[t] = "read"
                 /\ pc[t] = "read" => req'[t] = req[t]
        PROVE  EndpointInv'
    BY <1>1 DEF EndpointInv, AnsweredBy, Picl
  <1>2. CASE SendRequest(c) \/ UNCHANGED vars
    BY <1>1, <1>2 DEF SendRequest, vars
  <1>3. CASE Serve(c)
    BY <1>1, <1>3 DEF Serve, Enter, CloseHandle, OpenHandle, OpenFails,
                      PrepareVendor, Answer
  <1>4. ASSUME NEW t \in Threads, Prepare(t)
        PROVE  EndpointInv'
    BY <1>1, <1>4 DEF Prepare
  <1>5. ASSUME NEW t \in Threads, Write(t)
        PROVE  EndpointInv'
    <2>1. /\ lock = "free" /\ replies = <<>> /\ pc[t] = "write" /\ req' = req
          /\ board' = board /\ \A u \in Threads : pc[u] # "read"
      BY <1>5, FreeIsNoThread DEF Write, LockFree, EndpointInv, Obeyed
    <2>2. CASE /\ UNCHANGED <<lock, replies>>
               /\ \A u \in Threads : pc'[u] # "read"
      BY <1>1, <2>1, <2>2
    <2>3. CASE /\ replies' = Append(replies, Reply(req[t], AnsweredBy(req[t])))
               /\ lock' = t /\ Goto(t, "read")
      <3>1. replies' = <<Reply(req[t], AnsweredBy(req[t]))>>
        BY <2>1, <2>3
      <3> QED
        BY <2>1, <2>3, <3>1, FreeIsNoThread DEF EndpointInv, AnsweredBy, Picl
    <2>4. CASE /\ Died(t) \/ Lost(t) \/ GaveUp(t)
               /\ UNCHANGED <<lock, replies>>
      <3>1. \A u \in Threads : pc'[u] # "read"
        BY <2>1, <2>4 DEF Lost, Died, GaveUp, NextOfMain, Refused
      <3> QED
        BY <2>2, <2>4, <3>1
    <2>5. CASE Goto(t, "answer") /\ UNCHANGED <<lock, replies>>
      BY <2>1, <2>2, <2>5
    <2> QED
      BY <1>5, <2>3, <2>4, <2>5 DEF Write, Obeyed
  <1>6. ASSUME NEW t \in Threads, Read(t)
        PROVE  EndpointInv'
    <2>1. /\ lock = t /\ pc[t] = "read" /\ lock' = "free" /\ UNCHANGED <<req, board>>
          /\ \A u \in Threads : u # t => pc[u] # "read" /\ pc'[u] = pc[u]
          /\ pc'[t] # "read"
      BY <1>6 DEF Read, LockAfterFailure, EndpointInv, Lost, Died, GaveUp,
                  NextOfMain, Refused
    <2>2. replies' = <<>>
      <3>1. \A x : Tail(<<x>>) = <<>>
        OBVIOUS
      <3>2. ~Usable => replies = <<>>
        BY DEF Usable, LinkInv
      <3>3. h = None => ~Usable
        <4>1. dev.gen \in Nat /\ None \notin Nat
          BY DEF Typed, ScannerTyped, None
        <4> QED
          BY <4>1 DEF Usable
      <3>4. replies # <<>> => replies = <<Reply(req[t], AnsweredBy(req[t]))>>
        BY <2>1 DEF EndpointInv
      <3>5. \/ ~Usable /\ replies' = replies
            \/ replies' = <<>>
            \/ replies # <<>> /\ replies' = Tail(replies)
        BY <1>6, <3>3 DEF Read
      <3>6. CASE replies = <<>>
        BY <3>5, <3>6
      <3>7. CASE replies # <<>>
        <4> DEFINE answer == Reply(req[t], AnsweredBy(req[t]))
        <4>1. replies = <<answer>>
          BY <3>4, <3>7
        <4> HIDE DEF answer
        <4>2. Tail(<<answer>>) = <<>>
          BY <3>1
        <4> QED
          BY <3>2, <3>5, <3>7, <4>1, <4>2
      <3> QED
        BY <3>6, <3>7
    <2> QED
      BY <2>1, <2>2, FreeIsNoThread DEF EndpointInv
  <1>7. CASE StopPacket \/ Restart \/ Interrupt \/ CloseDevice \/ Returns
    BY <1>1, <1>7 DEF StopPacket, Restart, Interrupt, CloseDevice, Returns
  <1>8. CASE Vanish
    <2>1. UNCHANGED <<board, lock, pc, req>> /\ replies' = <<>>
      BY <1>8 DEF Vanish
    <2> QED
      BY <2>1 DEF EndpointInv
  <1> QED
    BY <1>0, <1>2, <1>3, <1>4, <1>5, <1>6, <1>7, <1>8 DEF Next, Transfer


(* Addresses that were acknowledged are those of this scanner. *)
LEMMA AckedAddress ==
  ASSUME board \in PICM_APPLICATION, NEW r, AnsweredBy(r) = "ack"
  PROVE  /\ r.to \in LampAddresses => r.to = Picl(board)
         /\ r.to \in PICM_APPLICATION => r.to = board
  BY DEF AnsweredBy, LampAddresses, PICM_APPLICATION, Picl

(* What main sends is a packet. *)
LEMMA MainsPacket ==
  ASSUME PacketInv, exit \in 0..6, pc[Main] # "idle"
  PROVE  exit \in 2..5 /\ req[Main].kind # "vendor"
  <1>1. exit = 2 \/ exit = 3 \/ exit = 4 \/ exit = 5
    <2>1. exit # 0 /\ exit # 1 /\ exit # 6
      BY DEF PacketInv
    <2> QED
      BY <2>1
  <1>2. CASE exit = 2
    BY <1>2 DEF PacketInv, Packet
  <1>3. CASE exit = 3
    BY <1>3 DEF PacketInv, Packet
  <1>4. CASE exit = 4
    BY <1>4 DEF PacketInv, Packet
  <1>5. CASE exit = 5
    BY <1>5 DEF PacketInv, Packet
  <1> QED
    BY <1>1, <1>2, <1>3, <1>4, <1>5

LEMMA HaltFields ==
  ASSUME NEW k
  PROVE  Halt(k).kind = k /\ Halt(k).to = StopAddress
  <1> DEFINE arg == IF k = "rate" THEN "zero" ELSE ""
  <1>1. Halt(k) = Request(k, StopAddress, arg)
    BY DEF Halt
  <1> HIDE DEF arg
  <1> QED
    BY <1>1 DEF Request

LEMMA PacketStep ==
  ASSUME Typed, PacketInv, [Next]_vars
  PROVE  PacketInv'
  <1>0. /\ ThreadsTyped /\ Main \in Threads /\ Main \notin Conns /\ exit \in 0..6
        /\ picm \in PICM_APPLICATION
    BY ThreadsSplit DEF Typed, RestTyped, BridgeTyped
  <1> USE <1>0 DEF Goto, ThreadsTyped, threads, scanner, bridge, client, history
  <1>1. ASSUME UNCHANGED exit,
               pc'[Main] = pc[Main] \/ {pc[Main], pc'[Main]} \subseteq {"cmd", "write", "read"}
                 \/ pc'[Main] = "idle",
               /\ req'[Main].kind = req[Main].kind /\ req'[Main].to = req[Main].to
               /\ req'[Main].arg = req[Main].arg
        PROVE  PacketInv'
    BY <1>1 DEF PacketInv, Packet
  <1>2. ASSUME NEW c \in Conns, SendRequest(c) \/ Serve(c)
        PROVE  PacketInv'
    <2>1. /\ exit' = exit /\ pc'[Main] = pc[Main] /\ req'[Main] = req[Main]
      BY <1>2 DEF SendRequest, Serve, Enter, CloseHandle, OpenHandle, OpenFails,
                  PrepareVendor, Answer
    <2> QED
      BY <1>1, <2>1
  <1>3. ASSUME NEW t \in Threads, Prepare(t)
        PROVE  PacketInv'
    <2>1. /\ req'[Main].kind = req[Main].kind /\ req'[Main].to = req[Main].to
          /\ req'[Main].arg = req[Main].arg
      BY <1>3 DEF Prepare, Requests
    <2>2. /\ exit' = exit
          /\ \/ pc'[Main] = pc[Main]
             \/ pc[Main] = "cmd" /\ pc'[Main] = "write"
      BY <1>3 DEF Prepare
    <2> QED
      BY <1>1, <2>1, <2>2
  <1>4. ASSUME NEW t \in Threads, Write(t) \/ Read(t)
        PROVE  PacketInv'
    <2>1. exit' = exit /\ req' = req
      BY <1>4 DEF Write, Read
    <2>2. t # Main => pc'[Main] = pc[Main]
      BY <1>4 DEF Write, Read, Lost, Died, GaveUp, NextOfMain, Refused
    <2>3. t = Main => /\ pc[Main] \in {"write", "read"}
                      /\ pc'[Main] \in {"idle", "read"} \/ req[Main].kind = "vendor"
      BY <1>4 DEF Write, Read, Lost, Died, GaveUp, NextOfMain, Refused
    <2>4. t = Main => req[Main].kind # "vendor"
      BY <2>3, MainsPacket
    <2> QED
      BY <1>1, <2>1, <2>2, <2>3, <2>4
  <1>5. CASE StopPacket
    <2>1. /\ exit \in 1..4 /\ exit' = exit + 1 /\ pc[Main] = "idle"
          /\ pc'[Main] = "cmd" /\ req'[Main] = StopOrder[exit]
      BY <1>5 DEF StopPacket
    <2>2. CASE exit = 1
      BY <2>1, <2>2 DEF StopOrder, LampOff, Request, PacketInv, Packet,
                        LampAddresses
    <2> DEFINE Sent(k) == req'[Main].kind = k /\ req'[Main].to = StopAddress
    <2>9. exit \in 2..4 => StopAddress \in PICM_APPLICATION
      <3>1. CASE exit = 2
        BY <3>1 DEF StopAddress
      <3>2. CASE exit = 3 \/ exit = 4
        <4>1. req[Main].to \in PICM_APPLICATION
          BY <3>2 DEF PacketInv
        <4> QED
          BY <3>2, <4>1 DEF StopAddress
      <3> QED
        BY <3>1, <3>2
    <2>3. CASE exit = 2
      <3>1. Sent("rate") /\ req'[Main].arg = "zero"
        BY <2>1, <2>3 DEF StopOrder, Halt, Request
      <3>2. exit' = 3
        BY <2>1, <2>3
      <3> QED
        BY <2>1, <2>9, <2>3, <3>1, <3>2 DEF PacketInv, Packet
    <2>4. CASE exit = 3
      <3>1. Sent("go")
        BY <2>1, <2>4, HaltFields DEF StopOrder
      <3>2. exit' = 4
        BY <2>1, <2>4
      <3> QED
        BY <2>1, <2>9, <2>4, <3>1, <3>2 DEF PacketInv, Packet
    <2>5. CASE exit = 4
      <3>1. Sent("idle")
        BY <2>1, <2>5, HaltFields DEF StopOrder
      <3>2. exit' = 5
        BY <2>1, <2>5
      <3> QED
        BY <2>1, <2>9, <2>5, <3>1, <3>2 DEF PacketInv, Packet
    <2> QED
      BY <2>1, <2>2, <2>3, <2>4, <2>5
  <1>6. CASE Interrupt \/ CloseDevice
    <2>1. /\ pc[Main] = "idle" /\ UNCHANGED <<pc, req>>
          /\ exit' \in {1, 6}
      BY <1>6 DEF Interrupt, CloseDevice, PacketInv
    <2> QED
      BY <2>1 DEF PacketInv
  <1>7. CASE Restart \/ Vanish \/ Returns \/ UNCHANGED vars
    BY <1>1, <1>7 DEF Restart, Vanish, Returns, vars
  <1> QED
    BY <1>2, <1>3, <1>4, <1>5, <1>6, <1>7 DEF Next, Transfer

LEMMA ProgressStep ==
  ASSUME NEW c, Conns = {c}, Typed, ExitInv(c), [Next]_vars, ~late', ~stopFailed'
  PROVE  Progress'
  <1>0. /\ ThreadsTyped /\ Threads = {c, Main} /\ c # Main /\ exit \in 0..6
        /\ board \in PICM_APPLICATION /\ Main \in Threads
        /\ drive \in [rate : Rates, turns : BOOLEAN, armed : BOOLEAN]
    BY OneConnection DEF Typed, RestTyped, ScannerTyped
  <1> USE <1>0 DEF Goto, ThreadsTyped, threads, scanner, bridge, client, history
  <1>00. ~late /\ ~stopFailed /\ Progress
    <2> DEFINE Kept == (late => late') /\ (stopFailed => stopFailed')
    <2>1. ASSUME SendRequest(c) \/ Serve(c) PROVE Kept
      <3>1. CASE SendRequest(c)
        BY <3>1 DEF SendRequest
      <3>2. CASE Enter(c) \/ CloseHandle(c) \/ OpenHandle(c)
        BY <3>2 DEF Enter, CloseHandle, OpenHandle
      <3>3. CASE OpenFails(c) \/ PrepareVendor(c) \/ Answer(c)
        BY <3>3 DEF OpenFails, PrepareVendor, Answer
      <3> QED
        BY <2>1, <3>1, <3>2, <3>3 DEF Serve
    <2>2. ASSUME NEW t \in Threads, Prepare(t) PROVE Kept
      BY <2>2 DEF Prepare
    <2>3. ASSUME NEW t \in Threads, Write(t) PROVE Kept
      <3>1. late => late'
        <4>1. late' = late \/ late' = (late \/ (t # Main /\ exit > 0))
          BY <2>3 DEF Write
        <4> QED
          BY <4>1
      <3>2. stopFailed => stopFailed'
        BY <2>3 DEF Write, Lost, Died, GaveUp, NextOfMain
      <3> QED
        BY <3>1, <3>2
    <2>4. ASSUME NEW t \in Threads, Read(t) PROVE Kept
      <3>1. late' = late
        BY <2>4 DEF Read
      <3>2. stopFailed => stopFailed'
        BY <2>4 DEF Read, Lost, Died, GaveUp, NextOfMain
      <3> QED
        BY <3>1, <3>2
    <2>5. ASSUME Restart \/ Interrupt \/ StopPacket \/ CloseDevice \/ Vanish
                   \/ Returns \/ UNCHANGED vars
          PROVE  Kept
      BY <2>5 DEF Restart, Interrupt, StopPacket, CloseDevice, Vanish, Returns, vars
    <2>6. Kept
      BY <2>1, <2>2, <2>3, <2>4, <2>5 DEF Next, Transfer
    <2> QED
      BY <2>6 DEF ExitInv
  <1>1. ASSUME UNCHANGED <<board, lamp, drive>>,
               \A k \in 2..5 : Done(k)' => Done(k)
        PROVE  Progress'
    <2>1. Done(2)' => Done(2)
      BY <1>1
    <2>2. Done(3)' => Done(3)
      BY <1>1
    <2>3. Done(4)' => Done(4)
      BY <1>1
    <2>4. Done(5)' => Done(5)
      BY <1>1
    <2> QED
      BY <1>00, <1>1, <2>1, <2>2, <2>3, <2>4 DEF Progress
  <1>2. ASSUME UNCHANGED <<board, lamp, drive, exit>>, pc'[Main] = pc[Main],
               pc[Main] = "read" => req'[Main] = req[Main]
        PROVE  Progress'
    BY <1>1, <1>2 DEF Done, AnsweredBy, Picl
  <1>3. CASE SendRequest(c) \/ Serve(c) \/ Prepare(c)
    BY <1>2, <1>3 DEF SendRequest, Serve, Enter, CloseHandle, OpenHandle,
       OpenFails, PrepareVendor, Answer, Prepare
  <1>4. CASE Prepare(Main)
    BY <1>1, <1>4 DEF Prepare, Done
  <1>5. CASE Write(c)
    <2>1. CASE UNCHANGED <<scanner, exit, req>> /\ pc'[Main] = pc[Main]
      BY <1>2, <2>1
    <2>2. CASE late' = (late \/ (c # Main /\ exit > 0)) /\ exit' = exit
      <3>1. exit' = 0
        <4>1. ~(exit > 0)
          BY <2>2
        <4> QED
          BY <2>2, <4>1
      <3> QED
        BY <3>1 DEF Progress, Done
    <2>3. pc'[Main] = pc[Main]
      BY <1>5 DEF Write, Lost, Died, GaveUp, NextOfMain, Refused
    <2> QED
      BY <1>5, <2>1, <2>2, <2>3 DEF Write
  <1>6. CASE Write(Main)
    <2>1. /\ Obeyed(req[Main]) /\ pc'[Main] = "read" /\ UNCHANGED <<exit, req>>
          /\ pc[Main] = "write"
      <3>1. req[Main].kind # "vendor"
        BY <1>6, MainsPacket DEF Write, ExitInv
      <3> QED
        BY <1>6, <3>1 DEF Write, Lost, Died, GaveUp, NextOfMain
    <2>2. /\ board' = board /\ exit \in 2..5
      BY <2>1, MainsPacket DEF Obeyed, ExitInv
    <2>3. \A k \in 2..5 :
            Done(k)' <=> exit > k \/ (exit = k /\ AnsweredBy(req[Main]) = "ack")
      BY <2>1, <2>2 DEF Done, AnsweredBy, Picl
    <2>4. \A k \in 2..5 : exit > k => Done(k)
      BY DEF Done
    <2>5. CASE exit = 2
      <3>1. req[Main].kind = "lamp" /\ req[Main].arg = "off"
            /\ req[Main].to \in LampAddresses
        BY <2>1, <2>5 DEF ExitInv, PacketInv, Packet
      <3>2. Done(2)' => lamp' = "off"
        BY <2>1, <2>3, <2>5, <3>1, AckedAddress DEF Obeyed
      <3>3. ~Done(3)' /\ ~Done(4)' /\ ~Done(5)'
        BY <2>3, <2>5
      <3> QED
        BY <3>2, <3>3 DEF Progress
    <2>6. CASE exit = 3
      <3>1. req[Main].kind = "rate" /\ req[Main].arg = "zero"
            /\ req[Main].to \in PICM_APPLICATION
        BY <2>1, <2>6 DEF ExitInv, PacketInv, Packet
      <3>2. lamp' = "off"
        BY <1>00, <2>1, <2>4, <2>6, <3>1 DEF Obeyed, Progress
      <3>3. Done(3)' => drive'.rate = "zero"
        BY <2>1, <2>3, <2>6, <3>1, AckedAddress DEF Obeyed
      <3>4. ~Done(4)' /\ ~Done(5)'
        BY <2>3, <2>6
      <3> QED
        BY <3>2, <3>3, <3>4 DEF Progress
    <2>7. CASE exit = 4
      <3>1. req[Main].kind = "go" /\ req[Main].to \in PICM_APPLICATION
        BY <2>1, <2>7 DEF ExitInv, PacketInv, Packet
      <3>2. lamp' = "off" /\ drive.rate = "zero"
        BY <1>00, <2>1, <2>4, <2>7, <3>1 DEF Obeyed, Progress
      <3>3. AnsweredBy(req[Main]) = "ack" => req[Main].to = board
        BY <3>1, AckedAddress
      <3>4. drive' = IF req[Main].to = board
                     THEN [drive EXCEPT !.turns = TRUE, !.armed = drive.rate = "zero"]
                     ELSE drive
        BY <2>1, <3>1 DEF Obeyed
      <3>5. drive'.rate = "zero"
        BY <3>2, <3>4
      <3>7. Done(4)' => drive'.armed
        <4>1. Done(4)' => req[Main].to = board
          BY <2>3, <2>7, <3>3
        <4>2. req[Main].to = board => drive'.armed = (drive.rate = "zero")
          BY <3>4
        <4> QED
          BY <3>2, <4>1, <4>2
      <3>6. ~Done(5)'
        BY <2>3, <2>7
      <3> QED
        BY <3>2, <3>5, <3>6, <3>7 DEF Progress
    <2>8. CASE exit = 5
      <3>1. req[Main].kind = "idle" /\ req[Main].to \in PICM_APPLICATION
        BY <2>1, <2>8 DEF ExitInv, PacketInv, Packet
      <3>2. lamp' = "off" /\ drive.rate = "zero" /\ (drive.armed \/ ~drive.turns)
        BY <1>00, <2>1, <2>4, <2>8, <3>1 DEF Obeyed, Progress
      <3>3. AnsweredBy(req[Main]) = "ack" => req[Main].to = board
        BY <3>1, AckedAddress
      <3>4. drive' = IF req[Main].to = board
                     THEN [drive EXCEPT !.turns = @ /\ ~drive.armed]
                     ELSE drive
        BY <2>1, <3>1 DEF Obeyed
      <3>5. /\ drive'.rate = "zero" /\ drive'.armed = drive.armed
            /\ drive'.turns => drive.turns
        BY <3>2, <3>4
      <3>6. Done(5)' => ~drive'.turns
        <4>1. Done(5)' => req[Main].to = board
          BY <2>3, <2>8, <3>3
        <4>2. req[Main].to = board => drive'.turns = (drive.turns /\ ~drive.armed)
          BY <3>4
        <4> QED
          BY <3>2, <3>4, <4>1, <4>2
      <3> QED
        BY <3>2, <3>5, <3>6 DEF Progress
    <2> QED
      BY <2>2, <2>5, <2>6, <2>7, <2>8
  <1>7. CASE Read(c)
    <2>1. pc'[Main] = pc[Main]
      BY <1>7 DEF Read, Lost, Died, GaveUp, NextOfMain, Refused
    <2> QED
      BY <1>2, <1>7, <2>1 DEF Read
  <1>8. CASE Read(Main)
    <2>1. /\ UNCHANGED <<board, lamp, drive, exit, req>> /\ pc[Main] = "read"
          /\ replies # <<>> /\ Head(replies).what = "ack"
      BY <1>8 DEF Read, Lost, Died, GaveUp, NextOfMain
    <2>2. replies = <<Reply(req[Main], AnsweredBy(req[Main]))>>
      BY <2>1 DEF ExitInv, EndpointInv
    <2>3. AnsweredBy(req[Main]) = "ack"
      BY <2>1, <2>2 DEF Reply
    <2>4. \A k \in 2..5 : Done(k)' => Done(k)
      BY <2>1, <2>3 DEF Done
    <2> QED
      BY <1>1, <2>1, <2>4
  <1>9. CASE StopPacket
    <2>1. /\ exit \in 1..4 /\ exit' = exit + 1 /\ pc[Main] = "idle"
          /\ pc'[Main] = "cmd" /\ UNCHANGED <<board, lamp, drive>>
      BY <1>9 DEF StopPacket
    <2>2. \A k \in 2..5 : Done(k)' => Done(k)
      BY <2>1 DEF Done
    <2> QED
      BY <1>1, <2>1, <2>2
  <1>10. CASE Interrupt
    BY <1>10 DEF Interrupt, Progress, Done
  <1>11. CASE CloseDevice
    <2>1. /\ exit' = 6 /\ pc[Main] = "idle" /\ (exit = 5 \/ (exit = 2 /\ h = None))
          /\ UNCHANGED <<lamp, drive>>
      BY <1>11 DEF CloseDevice
    <2>2. CASE exit = 5
      <3>1. Done(2) /\ Done(3) /\ Done(4) /\ Done(5)
        BY <1>11, <2>2 DEF Done, CloseDevice
      <3> QED
        BY <1>00, <2>1, <3>1 DEF Progress
    <2>3. CASE exit = 2 /\ h = None
      <3>1. h # dev.gen
        BY <2>3 DEF None, Typed, ScannerTyped
      <3> QED
        BY <2>1, <3>1 DEF Progress, ExitInv, LinkInv, Dark
    <2> QED
      BY <1>11, <2>2, <2>3 DEF CloseDevice
  <1>12. CASE Vanish
    <2>1. lamp' = "off" /\ drive'.rate = "zero" /\ ~drive'.turns
      BY <1>12 DEF Vanish
    <2> QED
      BY <2>1 DEF Progress
  <1>13. CASE Restart \/ Returns \/ UNCHANGED vars
    BY <1>2, <1>13 DEF Restart, Returns, vars
  <1> QED
    BY <1>0, <1>3, <1>4, <1>5, <1>6, <1>7, <1>8, <1>9, <1>10, <1>11, <1>12, <1>13
    DEF Next, Transfer

(* With one connection, a process that was stopped leaves the lamp off and the
   drive halted, if the scanner acknowledged main's packets and obeyed no client
   after the interrupt: also when the scanner re-enumerates in the middle of it,
   when the handle is gone and the halt is left out, and when the lamp packet had
   gone to the wrong controller (which would not have acknowledged it). *)
THEOREM StoppedAtExit ==
  ASSUME NEW c, Conns = {c}
  PROVE  Spec => []HaltedAtExit
  <1>1. Init => ExitInv(c)
    <2> SUFFICES ASSUME Init PROVE ExitInv(c)
      OBVIOUS
    <2>1. \A t \in Threads : pc[t] = "idle" /\ lock # t
      BY FreeIsNoThread DEF Init
    <2>2. /\ dev.gen = 0 /\ dev.on /\ dev.loaded /\ h = 0 /\ replies = <<>>
          /\ exit = 0
      BY DEF Init
    <2>3. pc[c] = "idle" /\ pc[Main] = "idle"
      BY <2>1, ThreadsSplit
    <2>4. LinkInv(c)
      BY <2>2, <2>3 DEF LinkInv
    <2>5. EndpointInv
      BY <2>1, <2>2 DEF EndpointInv
    <2>6. PacketInv
      BY <2>2, <2>3 DEF PacketInv
    <2>7. Progress
      BY <2>2 DEF Progress, Done
    <2> QED
      BY <2>4, <2>5, <2>6, <2>7 DEF ExitInv
  <1>2. Typed /\ ExitInv(c) /\ [Next]_vars => ExitInv(c)'
    <2> SUFFICES ASSUME Typed, ExitInv(c), [Next]_vars PROVE ExitInv(c)'
      OBVIOUS
    <2>1. LinkInv(c)'
      BY LinkStep DEF ExitInv
    <2>2. EndpointInv'
      BY EndpointStep DEF ExitInv
    <2>3. PacketInv'
      BY PacketStep DEF ExitInv
    <2>4. ~late' /\ ~stopFailed' => Progress'
      BY ProgressStep
    <2> QED
      BY <2>1, <2>2, <2>3, <2>4 DEF ExitInv
  <1>3. ExitInv(c) => HaltedAtExit
    BY DEF ExitInv, Progress, Done, HaltedAtExit
  <1> QED
    BY <1>1, <1>2, <1>3, TypedAlways, PTL DEF Spec
===============================================================================
