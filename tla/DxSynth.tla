------------------------------- MODULE DxSynth --------------------------------
(***************************************************************************)
(* server/dxsynth.py: the module that rewrites READ_SENSOR replies so that *)
(* the OEM engine sees a DX code every half frame.  DxSynth's state is     *)
(* driven by the commands the engine sends (scan trigger, scan stop, motor *)
(* go and idle) and by the replies of the controller, which carry its      *)
(* position counter modulo Wrap and, now and then, a film edge.            *)
(*                                                                         *)
(* Positions are counts since the trigger.  The prompting cadence          *)
(* (_retime) is left out: the interval may elapse at any poll.             *)
(***************************************************************************)
EXTENDS DxConfig, LineSync

CONSTANTS
  Wrap,          \* the position counter is a 16-bit one: 2^16
  PitchLines,    \* PICTURE_PITCH_LINES
  DefaultPitch,  \* DEFAULT_PITCH
  EdgeWait,      \* EDGE_WAIT_PITCHES
  Divisors,      \* KNOWN_DIVISORS
  Dirs,          \* config files the user may have in place
  Known,         \* whether the scan parameters are in SCAN_PARAMS
  Captures,      \* image data the stream may be aligned on
  VisibleUnit,   \* line size per divisor with three channels: 1500
  InfraredUnit,  \* and with four: 1000
  Steps,         \* counts the transport advances at a time
  LastFeed,      \* bound: the film passes the sensor by then, or never
  MaxGap,        \* bound: counts between two sensor reads
  MaxCounter,    \* bound: counts of one strip
  MaxTriggers    \* bound: scan triggers

ASSUME DxAssumption ==
  /\ Wrap \in Nat \ {0} /\ Wrap % 2 = 0
  /\ PitchLines \in Nat \ {0} /\ DefaultPitch \in Nat \ {0, 1}
  /\ EdgeWait \in Nat /\ Known \subseteq BOOLEAN /\ Divisors \subseteq Nat \ {0, 1}
  /\ {VisibleUnit, InfraredUnit} \subseteq Nat \ {0}
  /\ Steps \subseteq Nat /\ MaxGap \in Nat /\ LastFeed \in Nat
  /\ MaxCounter \in Nat /\ MaxTriggers \in Nat

(* What the user wrote is a text the parser's regular expressions take apart. *)
ASSUME TextAssumption ==
  \A dir \in Dirs : \A text \in dir.main \union dir.legacy : IsText(text)

NoLine == [bytes |-> 0, under |-> "unknown", right |-> TRUE]

VARIABLES
  (* the scanner: counts since the trigger, where the leading edge passed the
     input sensor, whether that was reported; the lamp's IR bit *)
  counter, film, reported, irOn,
  (* DxSynth *)
  cfg, active, moving, frame_raw, pos_hi, pos_last, next_code,
  film_start_sent, film_edge, params_divisor, line, ir_pass, faking,
  (* what the engine received since the trigger: codes, film starts, the last
     entry that carried no more than the film code *)
  codes, starts, plain,
  (* history: triggers; true counter at the last read that was used; last
     frame sent in this roll; a trigger came since the transport last stopped;
     the strip is the first of its roll; its codes are placed by the edge *)
  triggers, lastRead, roll, opened, firstStrip, anchored

scanner == <<counter, film, reported, irOn>>
scan    == <<cfg, active, moving, params_divisor, line, ir_pass>>
strip   == <<frame_raw, pos_hi, pos_last, next_code, film_start_sent,
             film_edge>>
engine  == <<codes, starts, plain>>
history == <<triggers, lastRead, roll, opened, firstStrip, anchored>>
vars    == <<scanner, scan, strip, faking, engine, history>>

IrStates == {"unknown", "off", "on"}

TypeOK ==
  /\ cfg # NoConfig => cfg.start \in 0..127 /\ cfg.lead \in {None} \union 0..8
  /\ counter \in 0..MaxCounter /\ film \in -1..MaxCounter
  /\ params_divisor \in Divisors \union {0}
  /\ {reported, active, moving, film_start_sent, faking, opened,
      firstStrip, anchored} \subseteq BOOLEAN
  /\ {irOn, ir_pass} \subseteq IrStates
  /\ frame_raw \in Nat
  /\ pos_hi \in Nat /\ pos_hi % Wrap = 0 /\ pos_last \in -1..(Wrap - 1)
  /\ next_code \in Nat \union {None} /\ film_edge \in Nat \union {None}
  /\ \A i \in 1..Len(codes) :
       /\ codes[i].pos \in 0..(Wrap - 1) /\ codes[i].flag \in {0, 1}
       /\ \A b \in 1..4 : codes[i].data[b] \in 0..255
  /\ \A i \in 1..Len(starts) : starts[i] \in 0..(Wrap - 1)
  /\ plain # <<>> => \A b \in 1..4 : plain[b] \in 0..255
  /\ triggers \in 0..MaxTriggers /\ lastRead \in 0..MaxCounter
  /\ roll \in -1..127

Init ==
  /\ counter = 0 /\ film = None /\ reported = FALSE
  /\ irOn = "unknown"
  /\ cfg = NoConfig /\ active = FALSE /\ moving = FALSE
  /\ frame_raw = 0 /\ pos_hi = 0 /\ pos_last = None /\ next_code = None
  /\ film_start_sent = FALSE /\ film_edge = None
  /\ params_divisor = 0 /\ line = NoLine /\ ir_pass = "unknown"
  /\ faking = FALSE
  /\ codes = <<>> /\ starts = <<>> /\ plain = <<>>
  /\ triggers = 0 /\ lastRead = 0 /\ roll = None
  /\ opened = FALSE /\ firstStrip = TRUE /\ anchored = FALSE

-----------------------------------------------------------------------------
(* frame_pitch and what follows from it. *)

(* measured(): both of its branches return the line size. *)
measured == line.bytes
StreamDivisor ==
  scan_divisor(measured, ir_pass = "on", VisibleUnit, InfraredUnit, Divisors)

frame_pitch ==
  CASE cfg # NoConfig /\ cfg.pitch # 0 -> cfg.pitch
    [] (cfg = NoConfig \/ cfg.pitch = 0) /\ params_divisor # 0
         -> PitchLines * params_divisor
    [] (cfg = NoConfig \/ cfg.pitch = 0) /\ params_divisor = 0
         -> IF StreamDivisor # 0 THEN PitchLines * StreamDivisor
                                 ELSE DefaultPitch

AtLeastOne(n) == IF n < 1 THEN 1 ELSE n
half_pitch_now == AtLeastOne(frame_pitch \div 2)

(* Half frames to start early: what the file says; otherwise the scan
   parameters and picture_lead say none. *)
picture_lead == 0
lead_now(c) == IF c.lead # None THEN c.lead ELSE picture_lead

-----------------------------------------------------------------------------
(* on_command *)

(* Bugs in NewStrip: every trigger starts a roll; the transport is not asked. *)
NeverNewStrip == FALSE
AnyNewStrip == active

(* A trigger with the transport running is the next strip of the roll. *)
NewStrip == active /\ moving

FrameAtStart(c) ==
  IF c.numbers THEN Max({0, c.start - lead_now(c)}) ELSE c.start

(* A bug in FilmStartAtTrigger: not re-armed for the next strip. *)
FilmStartKept == film_start_sent
FilmStartAtTrigger == FALSE

(* The engine triggers a scan before it starts the transport for it; once the
   transport runs, a trigger is for the next strip. *)
TriggerBeforeMotor == opened \/ ~moving

(* The user's config file and the scan settings, which stay what they are in
   the middle of a roll.  A value outside the table leaves no divisor. *)
Settings ==
  IF opened THEN {[file |-> cfg, divisor |-> params_divisor]}
  ELSE [file : {load(dir) : dir \in Dirs},
        divisor : {d \in Divisors : TRUE \in Known}
                    \union {d \in {0} : FALSE \in Known}]

(* The 0x91 trigger: its payload names the configuration, if it is one of the
   table; the config file is read again; the controller's counter restarts. *)
Trigger ==
  /\ triggers < MaxTriggers /\ TriggerBeforeMotor
  /\ \E set \in Settings :
       /\ cfg' = set.file /\ params_divisor' = set.divisor
       /\ active' = (set.file # NoConfig)
       /\ IF set.file = NoConfig
          THEN UNCHANGED <<strip, faking, firstStrip, anchored>>
          ELSE /\ frame_raw' = IF NewStrip THEN frame_raw
                               ELSE FrameAtStart(set.file)
               /\ pos_hi' = 0 /\ pos_last' = None /\ next_code' = None
               /\ film_edge' = None /\ film_start_sent' = FilmStartAtTrigger
               /\ faking' = FALSE
               /\ firstStrip' = ~moving /\ anchored' = FALSE
  /\ triggers' = triggers + 1 /\ opened' = TRUE
  /\ counter' = 0 /\ film' = None /\ reported' = FALSE /\ lastRead' = 0
  /\ codes' = <<>> /\ starts' = <<>> /\ plain' = <<>>
  /\ UNCHANGED <<irOn, moving, line, ir_pass, roll>>

ScanStop ==
  /\ active' = FALSE /\ faking' = FALSE /\ moving' = FALSE
  /\ roll' = None /\ opened' = FALSE
  /\ UNCHANGED <<scanner, cfg, params_divisor, line, ir_pass, strip, engine,
                 triggers, lastRead, firstStrip, anchored>>

MotorGo ==
  /\ ~moving
  /\ ir_pass' = IF active THEN irOn ELSE ir_pass
  /\ moving' = TRUE
  /\ UNCHANGED <<scanner, cfg, active, params_divisor, line, strip, faking,
                 engine, history>>

MotorIdle ==
  /\ moving
  /\ moving' = FALSE
  /\ roll' = None /\ opened' = FALSE
  /\ UNCHANGED <<scanner, cfg, active, params_divisor, line, ir_pass, strip,
                 faking, engine, triggers, lastRead, firstStrip, anchored>>

-----------------------------------------------------------------------------
(* on_response: everything but a sensor read may raise the service flag. *)

(* A bug in _fake_event: only the first code of a strip is prompted for. *)
_fake_first ==
  /\ active /\ cfg.numbers /\ moving /\ ~faking /\ codes = <<>>
  /\ faking' = TRUE
  /\ UNCHANGED <<scanner, scan, strip, engine, history>>

_fake_event ==
  /\ active /\ cfg.numbers /\ moving /\ ~faking
  /\ faking' = TRUE
  /\ UNCHANGED <<scanner, scan, strip, engine, history>>

(* A sensor reply: the counter, and at most one edge event, of the input
   sensor or of a station further down. *)
Position == counter % Wrap
Event(station, edge) == [station |-> station, edge |-> edge]
Replies ==
  {Event("none", None), Event("other", Position)}
  \union (IF film = None \/ reported THEN {} ELSE {Event("input", film % Wrap)})

(* The counter unwrapped; and a bug in it. *)
NeverUnwrapped == pos_hi
Unwrapped ==
  IF pos_last # None /\ Position < pos_last - Wrap \div 2
  THEN pos_hi + Wrap ELSE pos_hi
Now == Unwrapped + Position

(* Only the input sensor anchors, once per strip, with the transport running. *)
LatchedEdge(r) ==
  IF r.station = "input" /\ moving /\ film_edge = None THEN pos_hi + r.edge
                                                       ELSE film_edge

(* The first code of a strip: a fixed distance past the edge, moved on by
   whole frames until the slot shift fits; or, with no edge in EdgeWait
   pitches, the next point of the counter's own grid; or not yet. *)
Place(next, frame) == [next |-> next, frame |-> frame]
Anchored(edge) ==
  LET first == edge + EdgeToStart(frame_pitch) - lead_now(cfg) * half_pitch_now
      frames == CHOOSE k \in 0..9 :
                  /\ first + k * frame_pitch >= ShiftOf(frame_pitch)
                  /\ k > 0 => first + (k - 1) * frame_pitch
                                < ShiftOf(frame_pitch)
  IN  Place(first + frames * frame_pitch, frame_raw + 2 * frames)

Grid(edge) ==
  CASE next_code # None -> Place(next_code, frame_raw)
    [] next_code = None /\ edge # None -> Anchored(edge)
    [] next_code = None /\ edge = None
         -> IF Now < frame_pitch * EdgeWait THEN Place(None, frame_raw)
            ELSE Place(((Now + half_pitch_now - 1) \div half_pitch_now)
                         * half_pitch_now, frame_raw)

(* Which slot a code takes, and where its event must say it is; a bug: the
   engine's own shift of the half-frame slot is forgotten. *)
Flag(frame) == IF frame % 2 = 1 THEN cfg.aFlag ELSE 1 - cfg.aFlag
SentUnshifted(g) == g.next
SentAt(g) ==
  g.next - (IF Flag(g.frame) = 1 THEN ShiftOf(frame_pitch) ELSE 0)

Entry(frame) == encode_entry(cfg.code[1], cfg.code[2], frame)
Code(g) == [pos |-> SentAt(g) % Wrap, flag |-> Flag(g.frame),
            data |-> [Entry(g.frame) EXCEPT ![1] = IF Flag(g.frame) = 1 THEN 1 ELSE 2]]

(* The reply says nothing new to the engine; a bug: frame numbers of more than
   seven bits are sent. *)
NothingDueYet(g) == g.next = None \/ Now < g.next
NothingDue(g) == g.next = None \/ Now < g.next \/ g.frame > 127
Waits(g) ==
  /\ next_code' = g.next /\ frame_raw' = g.frame
  /\ UNCHANGED <<film_start_sent, engine, roll>>

(* A code whose shifted position would precede the scan is skipped whole,
   and the film start not spent on it. *)
Skips(g) ==
  /\ next_code' = g.next + half_pitch_now /\ frame_raw' = g.frame + 1
  /\ UNCHANGED <<film_start_sent, engine, roll>>

(* A code goes out, the first of a strip with the film start before it. *)
Emits(g) ==
  /\ next_code' = g.next + half_pitch_now /\ frame_raw' = g.frame + 1
  /\ film_start_sent' = TRUE
  /\ codes' = Append(codes, Code(g))
  /\ starts' = IF film_start_sent THEN starts
               ELSE Append(starts, (IF g.next < cfg.filmLead THEN 0
                                    ELSE g.next - cfg.filmLead) % Wrap)
  /\ roll' = g.frame
  /\ UNCHANGED plain

(* A sensor read in the middle of a strip. *)
_film_reply(r) ==
  LET g == Grid(LatchedEdge(r)) IN
  /\ pos_hi' = Unwrapped /\ pos_last' = Position /\ film_edge' = LatchedEdge(r)
  /\ lastRead' = counter
  /\ anchored' = (anchored \/ (next_code = None /\ LatchedEdge(r) # None))
  /\ CASE NothingDue(g) -> Waits(g)
       [] ~NothingDue(g) /\ SentAt(g) < 0 -> Skips(g)
       [] ~NothingDue(g) /\ SentAt(g) >= 0 -> Emits(g)

on_response_film(r) ==
  /\ active /\ cfg.numbers /\ moving
  /\ faking' = FALSE
  /\ _film_reply(r)
  /\ UNCHANGED <<scan, triggers, opened, firstStrip>>

(* A sensor read that is passed on as it is: the module is off, has nothing to
   inject, or the reply is too short for an entry. *)
on_response_other ==
  /\ faking' = (faking /\ ~active)
  /\ UNCHANGED <<scan, strip, engine, history>>

(* A sensor read that gets the film code only, at the number the roll began
   with. *)
on_response_code(r) ==
  /\ active /\ ~cfg.numbers /\ synthesise(cfg)
  /\ faking' = FALSE /\ film_edge' = LatchedEdge(r)
  /\ plain' = Entry(frame_raw)
  /\ UNCHANGED <<scan, frame_raw, pos_hi, pos_last, next_code,
                 film_start_sent, codes, starts, history>>

(* The engine reads the sensor: prompted by the service flag, or because the
   controller raised its own. *)
ReadSensor ==
  \E r \in Replies :
    /\ on_response_film(r) \/ on_response_code(r) \/ on_response_other
    /\ reported' = (reported \/ r.station = "input")
    /\ UNCHANGED <<counter, film, irOn>>

PromptedRead ==
  /\ faking
  /\ \E r \in Replies :
       /\ on_response_film(r)
       /\ reported' = (reported \/ r.station = "input")
       /\ UNCHANGED <<counter, film, irOn>>

-----------------------------------------------------------------------------
(* The scanner, the image stream and the user. *)

Advance ==
  /\ moving
  /\ \E s \in Steps : /\ counter + s <= MaxCounter
                      /\ counter + s - lastRead <= MaxGap
                      /\ counter' = counter + s
  /\ UNCHANGED <<film, reported, irOn, scan, strip, faking,
                 engine, history>>

FilmArrives ==
  /\ moving /\ film = None /\ counter <= LastFeed
  /\ film' = counter
  /\ UNCHANGED <<counter, reported, irOn, scan, strip, faking,
                 engine, history>>

(* note_lamp sees a lamp write; followed only while the module has to guess
   the pitch, and so is the next. *)
LampWrite ==
  /\ FALSE \in Known /\ ~moving
  /\ irOn' \in {"off", "on"}
  /\ UNCHANGED <<counter, film, reported, scan, strip, faking,
                 engine, history>>

(* What align_to_line makes of captures in which line_sync sees lines: the line
   size, and whether it is the capture's own, the data is cut where a line
   begins and tools/framing.py would say the same. *)
Measured(c) ==
  LET found == line_sync(c.marks)
  IN  [bytes |-> IF found = NoSync THEN 0 ELSE 2 * found.period,
       right |-> \/ found = NoSync
                 \/ /\ found = [phase |-> c.phase, period |-> c.period]
                    /\ report(c.marks) \in {NoSync, found}]
Measurements == {m \in {Measured(c) : c \in Captures} : m.bytes # 0}

(* align_to_line, on the image thread. *)
MeasureLine ==
  /\ params_divisor = 0 /\ FALSE \in Known
  /\ \E l \in Measurements :
       line' = [bytes |-> l.bytes, right |-> l.right, under |-> irOn]
  /\ UNCHANGED <<scanner, cfg, active, moving, params_divisor, ir_pass, strip,
                 faking, engine, history>>

-----------------------------------------------------------------------------
Next ==
  \/ Trigger \/ ScanStop \/ MotorGo \/ MotorIdle
  \/ _fake_event \/ ReadSensor
  \/ Advance \/ FilmArrives \/ LampWrite \/ MeasureLine

Spec == Init /\ [][Next]_vars

(* The engine polls at 20 Hz and reads the sensor when it sees the service
   flag; a reply that is cut short drops the flag again, so not every prompted
   read may be one.  Nothing obliges the transport or the controller. *)
Fairness == WF_vars(_fake_event) /\ SF_vars(PromptedRead)

FairSpec == Spec /\ Fairness

-----------------------------------------------------------------------------
(* The pitch of the scan as far as the module is told: by the user, or by a
   trigger it knows.  0 when it has to guess. *)
ToldPitch == IF cfg = NoConfig THEN 0
             ELSE IF cfg.pitch # 0 THEN cfg.pitch ELSE PitchLines * params_divisor

(* Where the engine takes a code to be: it moves what comes from the half-
   frame slot, and e0 (flag 1) names that slot. *)
EnginePos(c) == c.pos + (IF c.flag = 1 THEN ShiftOf(ToldPitch) ELSE 0)
EngineFrame(c) == decode_entry(c.data).frame

(* The engine's numbering pass accepts what it gets: consecutive codes of a
   strip lie one half pitch apart on its counter and their frame values step
   by one (DX-OVERRIDE.md, "What the engine then requires"). *)
EvenCodes ==
  ToldPitch # 0 =>
    \A i \in 1..(Len(codes) - 1) :
      /\ EngineFrame(codes[i + 1]) = EngineFrame(codes[i]) + 1
      /\ (EnginePos(codes[i + 1]) - EnginePos(codes[i])) % Wrap
           = AtLeastOne(ToldPitch \div 2) % Wrap

(* What the module injects is what was meant: every entry passes the engine's
   parser with the film code of the user's file, and carries the frame it was
   built for, a code in the roll and a plain entry the one the roll began with,
   so that nothing the parser of the file lets through makes encode_entry raise
   in the middle of a scan.  (With the slots swapped by a_flag = 0 byte 0
   contradicts the frame number.) *)
Genuine(data) ==
  LET e == decode_entry(data)
  IN  e.valid /\ <<e.product, e.generation>> = cfg.code
EntriesValid ==
  cfg # NoConfig =>
    /\ cfg.aFlag = 1 => \A i \in 1..Len(codes) : Genuine(codes[i].data)
    /\ codes # <<>> /\ roll # None => EngineFrame(codes[Len(codes)]) = roll
    /\ plain # <<>> => Genuine(plain) /\ decode_entry(plain).frame = cfg.start

(* Numbering needs a film start: the engine has exactly one as soon as it has
   a code of the strip, and none before. *)
FilmStartPrecedes == Len(starts) = (IF codes = <<>> THEN 0 ELSE 1)

(* No two codes of a roll carry the same frame number, and the numbers grow,
   across all its strips: what keeps one file per picture. *)
LabelsAscend ==
  [][ roll # None /\ Len(codes') > Len(codes) => roll' > roll ]_vars

(* In the first strip of a roll the code carrying the configured start label
   sits at the fixed distance from where the film's edge really was, and every
   other code follows from it. *)
AnchoredLabels ==
  firstStrip /\ anchored /\ ToldPitch # 0 =>
    \A i \in 1..Len(codes) :
      (EnginePos(codes[i]) - film - EdgeToStart(ToldPitch)
        - (EngineFrame(codes[i]) - cfg.start)
            * AtLeastOne(ToldPitch \div 2)) % Wrap = 0

(* The unwrapped counter is the true one, and the edge that places the codes
   is the film's. *)
CounterTracks ==
  active => /\ pos_last # None => pos_hi + pos_last = lastRead
            /\ anchored => film_edge = film

(* The line size the pitch is guessed from is the scan's own, whatever noise
   sets the markers' bit elsewhere, and the image data handed to the engine is
   cut where a line begins: "the FIRST set bit is not necessarily a line start"
   (line_sync). *)
LineMeasured == line.right

(* A capture it can be asked of: the lines outvote the noise, or line_sync says
   it sees none. *)
Readable(c) ==
  \/ \E lines \in 1..Cardinality(c.marks) :
       Legible(c.marks, c.phase, c.period, lines)
  \/ line_sync(c.marks) = NoSync

(* The codes catch up with the film: however rarely the controller raises its
   own flag, every code whose position has passed goes out.  (One reply takes
   one code; the counter is bounded, so the film does not outrun them.) *)
Due == active /\ cfg.numbers /\ moving /\ next_code # None
         /\ next_code <= counter /\ frame_raw <= 127
CodesKeepComing == Due ~> ~Due
=============================================================================
