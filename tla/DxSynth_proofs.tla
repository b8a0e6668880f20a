---------------------------- MODULE DxSynth_proofs ----------------------------
(***************************************************************************)
(* Proofs about DxSynth, for any configuration directory, film transport,  *)
(* counter width and number of strips.  What needs a condition on the      *)
(* transport or on the file names it: Slow, Soon, Whole.                   *)
(***************************************************************************)
EXTENDS DxSynth, LineSync_proofs, WellFoundedInduction, FiniteSetTheorems, TLAPS

-----------------------------------------------------------------------------
(* Arithmetic the solver does not find on its own. *)
LEMMA Product == \A a, b \in Nat : a * b \in Nat
  OBVIOUS

LEMMA Divided ==
  ASSUME NEW a \in Nat, NEW b \in Nat \ {0}
  PROVE  a \div b \in Nat /\ a % b \in 0..(b - 1) /\ a = b * (a \div b) + (a % b)
  OBVIOUS

LEMMA MultipleDivides ==
  ASSUME NEW k \in Nat, NEW b \in Nat \ {0}
  PROVE  (k * b) % b = 0
  OBVIOUS

LEMMA RoundedTyped ==
  ASSUME NEW x \in Nat
  PROVE  /\ ShiftOf(x) \in 0..x
         /\ EdgeToStart(x) \in Nat
  BY DEF ShiftOf, EdgeToStart, Rounded

LEMMA MaxOfIndices ==
  ASSUME NEW n \in Nat, NEW S, S \subseteq 1..n, S # {}
  PROVE  Max(S) \in S
  <1>1. S \subseteq 0..n
    OBVIOUS
  <1> QED
    BY <1>1, MaxOf

-----------------------------------------------------------------------------
(* What the parser lets through. *)
Configs ==
  [filmCode : BOOLEAN, code : (0..127) \X (0..15), start : 0..127,
   numbers : BOOLEAN, pitch : Nat, aFlag : {0, 1}, filmLead : Nat,
   lead : {None} \union 0..8]

LEMMA NoConfigIsNone == NoConfig \notin Configs
  BY DEF NoConfig, Configs, None

(* A key's last line is a line of it. *)
LEMMA LastLine ==
  ASSUME NEW text, IsText(text), NEW key, Has(text, key),
         \A i \in DOMAIN text : ValueOK(text[i])
  PROVE  \E i \in DOMAIN text :
           /\ text[i].key = key /\ ValueOK(text[i])
           /\ \A default : Value(text, key, default) = text[i].value
  <1> DEFINE i == Max(Setting(text, key))
  <1>1. Len(text) \in Nat /\ DOMAIN text = 1..Len(text)
    BY DEF IsText
  <1>2. Setting(text, key) \subseteq 1..Len(text) /\ Setting(text, key) # {}
    BY <1>1 DEF Setting, Has
  <1>3. i \in Setting(text, key)
    BY <1>1, <1>2, MaxOfIndices
  <1>4. \A default : Value(text, key, default) = text[i].value
    BY DEF Value
  <1> HIDE DEF i
  <1>5. i \in DOMAIN text /\ text[i].key = key
    BY <1>3 DEF Setting
  <1> QED
    BY <1>4, <1>5

LEMMA ParsedTyped ==
  ASSUME NEW text, IsText(text)
  PROVE  parse(text) = NoConfig \/ parse(text) \in Configs
  <1> SUFFICES ASSUME parse(text) # NoConfig PROVE Settled(text) \in Configs
    BY DEF parse
  <1>1. /\ \A i \in DOMAIN text : ValueOK(text[i])
        /\ Has(text, "product") = Has(text, "generation")
        /\ Settled(text).filmCode =>
             Encodable(Settled(text).code, Settled(text).start)
    BY DEF parse
  <1>2. Value(text, "product", 0) \in 0..127 /\ Value(text, "generation", 0) \in 0..15
    <2>1. CASE Has(text, "product")
      <3>1. Settled(text).filmCode
        BY <1>1, <2>1 DEF Settled
      <3> QED
        BY <1>1, <3>1 DEF Settled, Encodable
    <2>2. CASE ~Has(text, "product")
      BY <1>1, <2>2 DEF Value
    <2> QED
      BY <2>1, <2>2
  <1>3. parse_frame_label(Value(text, "start", Label(1, FALSE))) \in 0..127
    <2>1. CASE Has(text, "start")
      <3>1. PICK i \in DOMAIN text :
              /\ text[i].key = "start" /\ ValueOK(text[i])
              /\ \A default : Value(text, "start", default) = text[i].value
        BY <1>1, <2>1, LastLine
      <3> QED
        BY <3>1 DEF ValueOK
    <2>2. CASE ~Has(text, "start")
      BY <2>2 DEF Value, Label, parse_frame_label
    <2> QED
      BY <2>1, <2>2
  <1>4. Value(text, "pitch", 0) \in Nat
    <2>1. CASE Has(text, "pitch")
      <3>1. PICK i \in DOMAIN text :
              /\ text[i].key = "pitch" /\ ValueOK(text[i])
              /\ \A default : Value(text, "pitch", default) = text[i].value
        BY <1>1, <2>1, LastLine
      <3> QED
        BY <3>1 DEF ValueOK, IsText
    <2>2. CASE ~Has(text, "pitch")
      BY <2>2 DEF Value
    <2> QED
      BY <2>1, <2>2
  <1>5. Value(text, "film_lead", 0) \in Nat
    <2>1. CASE Has(text, "film_lead")
      <3>1. PICK i \in DOMAIN text :
              /\ text[i].key = "film_lead" /\ ValueOK(text[i])
              /\ \A default : Value(text, "film_lead", default) = text[i].value
        BY <1>1, <2>1, LastLine
      <3> QED
        BY <3>1 DEF ValueOK, IsText
    <2>2. CASE ~Has(text, "film_lead")
      BY <2>2 DEF Value
    <2> QED
      BY <2>1, <2>2
  <1>6. Value(text, "a_flag", 1) \in {0, 1}
    <2>1. CASE Has(text, "a_flag")
      <3>1. PICK i \in DOMAIN text :
              /\ text[i].key = "a_flag" /\ ValueOK(text[i])
              /\ \A default : Value(text, "a_flag", default) = text[i].value
        BY <1>1, <2>1, LastLine
      <3> QED
        BY <3>1 DEF ValueOK
    <2>2. CASE ~Has(text, "a_flag")
      BY <2>2 DEF Value
    <2> QED
      BY <2>1, <2>2
  <1>7. Value(text, "lead", None) \in {None} \union 0..8
    <2>1. CASE Has(text, "lead")
      <3>1. PICK i \in DOMAIN text :
              /\ text[i].key = "lead" /\ ValueOK(text[i])
              /\ \A default : Value(text, "lead", default) = text[i].value
        BY <1>1, <2>1, LastLine
      <3> QED
        BY <3>1 DEF ValueOK
    <2>2. CASE ~Has(text, "lead")
      BY <2>2 DEF Value
    <2> QED
      BY <2>1, <2>2
  <1>8. (Has(text, "product") /\ Has(text, "generation")) \in BOOLEAN
        /\ (Value(text, "override_numbers", "yes") \in Yes) \in BOOLEAN
    OBVIOUS
  <1> QED
    BY <1>2, <1>3, <1>4, <1>5, <1>6, <1>7, <1>8 DEF Settled, Configs

LEMMA LoadTyped ==
  ASSUME NEW dir \in Dirs
  PROVE  load(dir) = NoConfig \/ load(dir) \in Configs
  <1> DEFINE found == IF dir.main # {} \/ dir.explicit THEN dir.main ELSE dir.legacy
  <1>1. CASE found = {}
    BY <1>1 DEF load
  <1>2. CASE found # {}
    <2> DEFINE text == CHOOSE t \in found : TRUE
    <2>1. text \in dir.main \union dir.legacy
      BY <1>2
    <2>2. load(dir) = parse(text)
      BY <1>2 DEF load
    <2> HIDE DEF text
    <2> QED
      BY <2>1, <2>2, TextAssumption, ParsedTyped
  <1> QED
    BY <1>1, <1>2

-----------------------------------------------------------------------------
(* The state's types. *)
Bytes == [1..4 -> 0..255]
Codes == [pos : 0..(Wrap - 1), flag : {0, 1}, data : Bytes]
Multiples == {k * Wrap : k \in Nat}

ConfigTyped ==
  /\ cfg = NoConfig \/ cfg \in Configs
  /\ active => cfg \in Configs
FlagsTyped ==
  /\ active \in BOOLEAN /\ moving \in BOOLEAN /\ reported \in BOOLEAN
  /\ faking \in BOOLEAN /\ film_start_sent \in BOOLEAN /\ opened \in BOOLEAN
  /\ firstStrip \in BOOLEAN /\ anchored \in BOOLEAN
ScanTyped ==
  /\ irOn \in IrStates /\ ir_pass \in IrStates
  /\ params_divisor \in Divisors \union {0}
  /\ triggers \in 0..MaxTriggers
PositionTyped ==
  /\ counter \in 0..MaxCounter /\ film \in {None} \union 0..MaxCounter
  /\ lastRead \in 0..MaxCounter
  /\ pos_hi \in Multiples /\ pos_last \in {None} \union 0..(Wrap - 1)
StripTyped ==
  /\ frame_raw \in Nat /\ next_code \in Nat \union {None}
  /\ film_edge \in Nat \union {None} /\ roll \in {None} \union 0..127
EngineTyped ==
  /\ codes \in Seq(Codes) /\ starts \in Seq(0..(Wrap - 1))
  /\ plain \in Bytes \union {<<>>}
Typed ==
  ConfigTyped /\ FlagsTyped /\ ScanTyped /\ PositionTyped /\ StripTyped /\ EngineTyped

LEMMA WrapTyped == Wrap \in Nat \ {0} /\ Wrap % 2 = 0
  BY DxAssumption

LEMMA PosHiTyped ==
  ASSUME NEW p \in Multiples
  PROVE  p \in Nat /\ p % Wrap = 0 /\ p + Wrap \in Multiples
  <1>1. PICK k \in Nat : p = k * Wrap
    BY DEF Multiples
  <1>2. k * Wrap \in Nat /\ p + Wrap = (k + 1) * Wrap
    BY <1>1, WrapTyped
  <1>3. p % Wrap = 0
    BY <1>1, WrapTyped, MultipleDivides
  <1>4. p + Wrap \in Multiples
    <2>1. k + 1 \in Nat
      OBVIOUS
    <2> QED
      BY <1>2, <2>1 DEF Multiples
  <1> QED
    BY <1>1, <1>2, <1>3, <1>4

LEMMA ZeroIsMultiple == 0 \in Multiples
  BY WrapTyped DEF Multiples

LEMMA TypesSuffice == Typed => TypeOK
  <1> SUFFICES ASSUME Typed PROVE TypeOK
    OBVIOUS
  <1>1. cfg # NoConfig => cfg.start \in 0..127 /\ cfg.lead \in {None} \union 0..8
    BY DEF Typed, ConfigTyped, Configs
  <1>2. /\ counter \in 0..MaxCounter /\ film \in -1..MaxCounter
        /\ lastRead \in 0..MaxCounter /\ pos_last \in -1..(Wrap - 1)
    BY WrapTyped, DxAssumption DEF Typed, PositionTyped, None
  <1>3. pos_hi \in Nat /\ pos_hi % Wrap = 0
    BY PosHiTyped DEF Typed, PositionTyped
  <1>4. \A i \in 1..Len(codes) :
          /\ codes[i].pos \in 0..(Wrap - 1) /\ codes[i].flag \in {0, 1}
          /\ \A b \in 1..4 : codes[i].data[b] \in 0..255
    <2> SUFFICES ASSUME NEW i \in 1..Len(codes)
                 PROVE  codes[i] \in Codes
      BY DEF Codes, Bytes
    <2> QED
      BY DEF Typed, EngineTyped
  <1>5. \A i \in 1..Len(starts) : starts[i] \in 0..(Wrap - 1)
    <2> SUFFICES ASSUME NEW i \in 1..Len(starts)
                 PROVE  starts[i] \in 0..(Wrap - 1)
      OBVIOUS
    <2> DEFINE S == 0..(Wrap - 1)
    <2>1. starts \in Seq(S)
      BY DEF Typed, EngineTyped
    <2> HIDE DEF S
    <2>2. starts[i] \in S
      BY <2>1
    <2> QED
      BY <2>2 DEF S
  <1>6. plain # <<>> => \A b \in 1..4 : plain[b] \in 0..255
    BY DEF Typed, EngineTyped, Bytes
  <1>7. roll \in -1..127
    BY DEF Typed, StripTyped, None
  <1>8. /\ params_divisor \in Divisors \union {0}
        /\ {reported, active, moving, film_start_sent, faking, opened,
            firstStrip, anchored} \subseteq BOOLEAN
        /\ {irOn, ir_pass} \subseteq IrStates
        /\ triggers \in 0..MaxTriggers
    BY DEF Typed, FlagsTyped, ScanTyped
  <1>9. /\ frame_raw \in Nat /\ next_code \in Nat \union {None}
        /\ film_edge \in Nat \union {None}
    BY DEF Typed, StripTyped
  <1> QED
    BY ONLY <1>1, <1>2, <1>3, <1>4, <1>5, <1>6, <1>7, <1>8, <1>9, Zenon
    DEF TypeOK

(* The parts of a strip's position are numbers. *)
LEMMA PitchTyped ==
  ASSUME Typed
  PROVE  frame_pitch \in Nat \ {0} /\ half_pitch_now \in Nat \ {0}
  <1>1. cfg # NoConfig => cfg.pitch \in Nat
    BY DEF Typed, ConfigTyped, Configs
  <1>2. StreamDivisor \in Divisors \union {0}
    BY DEF StreamDivisor, scan_divisor
  <1>3. \A d \in Divisors \union {0} : d # 0 => PitchLines * d \in Nat \ {0}
    <2> SUFFICES ASSUME NEW d \in Divisors, d # 0 PROVE PitchLines * d \in Nat \ {0}
      OBVIOUS
    <2>1. d \in Nat \ {0} /\ PitchLines \in Nat \ {0}
      BY DxAssumption
    <2> QED
      BY <2>1
  <1>4. frame_pitch \in Nat \ {0}
    BY <1>1, <1>2, <1>3, DxAssumption DEF frame_pitch, Typed, ScanTyped
  <1>5. half_pitch_now \in Nat \ {0}
    BY <1>4 DEF half_pitch_now, AtLeastOne
  <1> QED
    BY <1>4, <1>5

LEMMA NowTyped ==
  ASSUME Typed
  PROVE  /\ Position \in 0..(Wrap - 1) /\ Unwrapped \in Multiples
         /\ Unwrapped \in Nat /\ Now \in Nat
  <1>1. Position \in 0..(Wrap - 1)
    BY WrapTyped, Divided DEF Position, Typed, PositionTyped
  <1>2. Unwrapped \in Multiples
    BY PosHiTyped DEF Unwrapped, Typed, PositionTyped
  <1>3. Unwrapped \in Nat
    BY <1>2, PosHiTyped
  <1> QED
    BY <1>1, <1>2, <1>3, WrapTyped DEF Now

LEMMA EdgeTyped ==
  ASSUME Typed, NEW r \in Replies
  PROVE  LatchedEdge(r) \in Nat \union {None}
  <1>1. pos_hi \in Nat
    BY PosHiTyped DEF Typed, PositionTyped
  <1>2. r.station = "input" => r.edge \in Nat
    <2> SUFFICES ASSUME r.station = "input" PROVE r.edge \in Nat
      OBVIOUS
    <2>1. r = Event("input", film % Wrap) /\ film # None
      BY DEF Replies, Event
    <2>2. film \in Nat
      BY <2>1 DEF Typed, PositionTyped
    <2> QED
      BY <2>1, <2>2, WrapTyped, Divided DEF Event
  <1> QED
    BY <1>1, <1>2 DEF LatchedEdge, Typed, StripTyped

LEMMA EntryTyped ==
  ASSUME Typed, cfg \in Configs, NEW frame \in Nat
  PROVE  Entry(frame) \in Bytes
  <1> DEFINE d == Fields(cfg.code[1], cfg.code[2], frame)
  <1>1. cfg.code[1] \in 0..127 /\ cfg.code[2] \in 0..15
    BY DEF Configs
  <1>2. /\ d[1] \in 0..1 /\ d[2] \in 0..252 /\ d[3] \in 0..255 /\ d[4] \in 0..31
        /\ d = <<d[1], d[2], d[3], d[4]>>
    BY <1>1 DEF Fields
  <1> HIDE DEF d
  <1>3. Entry(frame) = [d EXCEPT ![2] = IF ParityOdd(d) THEN d[2] + 1 ELSE d[2]]
    BY DEF Entry, encode_entry, d
  <1>4. d \in Bytes
    BY <1>2 DEF Bytes
  <1> QED
    BY <1>2, <1>3, <1>4 DEF Bytes

-----------------------------------------------------------------------------
(* Moving the first code on by whole frames ends: an edge's first code lies
   fewer than nine of them before the slot shift, for the longest lead. *)
LEMMA LeadBound ==
  ASSUME Typed, cfg \in Configs
  PROVE  /\ lead_now(cfg) * half_pitch_now \in Nat
         /\ lead_now(cfg) * half_pitch_now + ShiftOf(frame_pitch) <= 9 * frame_pitch
  <1> DEFINE p == frame_pitch
             half == half_pitch_now
             l == lead_now(cfg)
  <1>1. p \in Nat \ {0} /\ half \in Nat \ {0}
    BY PitchTyped
  <1>2. half = 1 \/ 2 * half <= p
    BY <1>1 DEF half_pitch_now, AtLeastOne
  <1>3. l \in 0..8
    BY DEF Configs, lead_now, picture_lead
  <1>4. ShiftOf(p) <= p /\ ShiftOf(p) \in Nat
    BY <1>1, RoundedTyped
  <1>5. half = 1 => 8 * half + ShiftOf(p) <= 9 * p
    BY <1>1, <1>4
  <1>6. 8 * half + ShiftOf(p) <= 9 * p
    BY <1>1, <1>2, <1>4, <1>5
  <1> HIDE DEF p, half, l
  <1>7. l * half \in Nat /\ l * half <= 8 * half
    BY <1>1, <1>3
  <1>8. l * half + ShiftOf(p) <= 9 * p
    BY <1>1, <1>4, <1>6, <1>7
  <1> QED
    BY <1>7, <1>8 DEF p, half, l

LEMMA MovedOn ==
  ASSUME NEW first \in Int, NEW p \in Nat \ {0}, NEW s \in Int,
         first + 9 * p >= s
  PROVE  \E k \in 0..9 : /\ first + k * p >= s
                         /\ k > 0 => first + (k - 1) * p < s
  <1>1. CASE first >= s
    BY <1>1
  <1>2. CASE first < s /\ first + 4 * p >= s
    <2>1. CASE first + p >= s
      BY <1>2, <2>1
    <2>2. CASE first + p < s /\ first + 2 * p >= s
      BY <1>2, <2>2
    <2>3. CASE first + 2 * p < s /\ first + 3 * p >= s
      BY <1>2, <2>3
    <2>4. CASE first + 3 * p < s /\ first + 4 * p >= s
      BY <1>2, <2>4
    <2> QED
      BY <1>2, <2>1, <2>2, <2>3, <2>4
  <1>3. CASE first + 4 * p < s
    <2>1. CASE first + 5 * p >= s
      BY <1>3, <2>1
    <2>2. CASE first + 5 * p < s /\ first + 6 * p >= s
      BY <1>3, <2>2
    <2>3. CASE first + 6 * p < s /\ first + 7 * p >= s
      BY <1>3, <2>3
    <2>4. CASE first + 7 * p < s /\ first + 8 * p >= s
      BY <1>3, <2>4
    <2>5. CASE first + 8 * p < s /\ first + 9 * p >= s
      BY <1>3, <2>5
    <2> QED
      BY <2>1, <2>2, <2>3, <2>4, <2>5
  <1> QED
    BY <1>1, <1>2, <1>3

LEMMA AnchoredTyped ==
  ASSUME Typed, cfg \in Configs, NEW edge \in Nat
  PROVE  /\ Anchored(edge).next \in Nat /\ Anchored(edge).next >= ShiftOf(frame_pitch)
         /\ Anchored(edge).frame \in Nat /\ Anchored(edge).frame >= frame_raw
  <1> DEFINE p == frame_pitch
             s == ShiftOf(p)
             first == edge + EdgeToStart(p) - lead_now(cfg) * half_pitch_now
             Fits(k) == /\ first + k * p >= s
                        /\ k > 0 => first + (k - 1) * p < s
             frames == CHOOSE k \in 0..9 : Fits(k)
  <1>1. p \in Nat \ {0}
    BY PitchTyped
  <1>2. s \in Nat /\ EdgeToStart(p) \in Nat
    BY <1>1, RoundedTyped
  <1>3. first \in Int /\ first + 9 * p >= s
    BY <1>1, <1>2, LeadBound
  <1>0. /\ Anchored(edge).next = first + frames * p
        /\ Anchored(edge).frame = frame_raw + 2 * frames
    BY DEF Anchored, Place
  <1> HIDE DEF p, s, first
  <1>4. \E k \in 0..9 : Fits(k)
    BY <1>1, <1>2, <1>3, MovedOn
  <1>5. frames \in 0..9 /\ Fits(frames)
    BY <1>4
  <1> HIDE DEF frames
  <1>6. first + frames * p >= s /\ first + frames * p \in Int
    BY <1>1, <1>2, <1>3, <1>5
  <1>7. first + frames * p \in Nat
    BY <1>2, <1>6
  <1>8. frame_raw \in Nat
    BY DEF Typed, StripTyped
  <1> QED
    BY <1>0, <1>5, <1>6, <1>7, <1>8 DEF p, s

LEMMA GridTyped ==
  ASSUME Typed, cfg \in Configs, NEW edge \in Nat \union {None}
  PROVE  /\ Grid(edge).next \in Nat \union {None}
         /\ Grid(edge).frame \in Nat /\ Grid(edge).frame >= frame_raw
         /\ next_code # None => Grid(edge) = Place(next_code, frame_raw)
         /\ next_code = None /\ edge # None => Grid(edge).next # None
         /\ next_code = None /\ edge = None =>
              \/ Grid(edge).next = None /\ Now < frame_pitch * EdgeWait
              \/ /\ Grid(edge).next \in Nat /\ Grid(edge).next >= Now
                 /\ Now >= frame_pitch * EdgeWait
  <1>0. frame_raw \in Nat /\ next_code \in Nat \union {None}
    BY DEF Typed, StripTyped
  <1>1. CASE next_code # None
    BY <1>0, <1>1 DEF Grid, Place
  <1>2. CASE next_code = None /\ edge # None
    <2>1. Grid(edge) = Anchored(edge) /\ edge \in Nat
      BY <1>2 DEF Grid
    <2> QED
      BY <1>2, <2>1, AnchoredTyped DEF None
  <1>3. CASE next_code = None /\ edge = None
    <2> DEFINE h == half_pitch_now
               q == (Now + h - 1) \div h
    <2>1. h \in Nat \ {0} /\ Now \in Nat /\ frame_pitch * EdgeWait \in Nat
      BY PitchTyped, NowTyped, DxAssumption, Product
    <2>2. CASE Now < frame_pitch * EdgeWait
      BY <1>0, <1>3, <2>2 DEF Grid, Place
    <2>3. CASE ~(Now < frame_pitch * EdgeWait)
      <3>0. Grid(edge) = Place(q * h, frame_raw)
        BY <1>3, <2>3 DEF Grid
      <3> HIDE DEF h
      <3>1. Now + h - 1 \in Nat
        BY <2>1
      <3>2. /\ q \in Nat /\ (Now + h - 1) % h \in 0..(h - 1)
            /\ Now + h - 1 = h * q + ((Now + h - 1) % h)
        BY <2>1, <3>1, Divided
      <3> HIDE DEF q
      <3>3. q * h \in Nat /\ h * q = q * h
        BY <2>1, <3>2
      <3>4. q * h >= Now
        BY <2>1, <3>2, <3>3
      <3> QED
        BY <1>0, <1>3, <2>1, <2>3, <3>0, <3>3, <3>4 DEF Place, None
    <2> QED
      BY <2>2, <2>3
  <1> QED
    BY <1>1, <1>2, <1>3

-----------------------------------------------------------------------------
LEMMA SettingsTyped ==
  ASSUME Typed, NEW set \in Settings
  PROVE  /\ set.file = NoConfig \/ set.file \in Configs
         /\ set.divisor \in Divisors \union {0}
         /\ opened => set.file = cfg
  <1>1. CASE opened
    <2>1. set = [file |-> cfg, divisor |-> params_divisor]
      BY <1>1 DEF Settings
    <2> QED
      BY <2>1 DEF Typed, ConfigTyped, ScanTyped
  <1>2. CASE ~opened
    <2> DEFINE D == {d \in Divisors : TRUE \in Known}
                      \union {d \in {0} : FALSE \in Known}
               F == {load(dir) : dir \in Dirs}
    <2>1. D \subseteq Divisors \union {0}
      OBVIOUS
    <2> HIDE DEF D
    <2>2. set \in [file : F, divisor : D]
      BY <1>2 DEF Settings, D
    <2>3. set.file \in F /\ set.divisor \in D
      BY <2>2
    <2>4. PICK dir \in Dirs : set.file = load(dir)
      BY <2>3
    <2> QED
      BY <1>2, <2>1, <2>3, <2>4, LoadTyped
  <1> QED
    BY <1>1, <1>2

LEMMA CodeTyped ==
  ASSUME Typed, cfg \in Configs, NEW g, g.frame \in 0..127, g.next \in Nat,
         SentAt(g) >= 0
  PROVE  /\ Code(g) \in Codes /\ SentAt(g) \in Nat
         /\ (IF g.next < cfg.filmLead THEN 0 ELSE g.next - cfg.filmLead) % Wrap
              \in 0..(Wrap - 1)
  <1>1. frame_pitch \in Nat /\ ShiftOf(frame_pitch) \in Nat
    BY PitchTyped, RoundedTyped
  <1>2. Flag(g.frame) \in {0, 1}
    BY DEF Flag, Configs
  <1>3. SentAt(g) \in Nat
    BY <1>1 DEF SentAt
  <1>4. SentAt(g) % Wrap \in 0..(Wrap - 1)
    BY <1>3, WrapTyped, Divided
  <1>5. Entry(g.frame) \in Bytes
    BY EntryTyped
  <1>6. [Entry(g.frame) EXCEPT ![1] = IF Flag(g.frame) = 1 THEN 1 ELSE 2] \in Bytes
    <2> DEFINE b == IF Flag(g.frame) = 1 THEN 1 ELSE 2
    <2>1. b \in 0..255
      OBVIOUS
    <2> HIDE DEF b
    <2>2. \A e \in Bytes : [e EXCEPT ![1] = b] \in Bytes
      BY <2>1 DEF Bytes
    <2> QED
      BY <1>5, <2>2 DEF b
  <1>7. Code(g) \in Codes
    BY <1>2, <1>4, <1>6 DEF Code, Codes
  <1>8. cfg.filmLead \in Nat
    BY DEF Configs
  <1>9. (IF g.next < cfg.filmLead THEN 0 ELSE g.next - cfg.filmLead) \in Nat
    BY <1>8
  <1> QED
    BY <1>3, <1>7, <1>9, WrapTyped, Divided

(* A film reply, in the parts the invariants need. *)
LEMMA FilmReply ==
  ASSUME Typed, NEW r \in Replies, on_response_film(r)
  PROVE  LET edge == LatchedEdge(r)
             g == Grid(edge)
         IN  /\ cfg \in Configs /\ edge \in Nat \union {None}
             /\ g.next \in Nat \union {None}
             /\ g.frame \in Nat /\ g.frame >= frame_raw
             /\ \/ Waits(g)
                \/ g.next \in Nat /\ SentAt(g) < 0 /\ Skips(g)
                \/ /\ g.next \in Nat /\ g.frame <= 127 /\ SentAt(g) >= 0
                   /\ SentAt(g) \in Nat /\ Code(g) \in Codes /\ Emits(g)
  <1> DEFINE edge == LatchedEdge(r)
             g == Grid(edge)
  <1>1. cfg \in Configs
    BY DEF on_response_film, Typed, ConfigTyped
  <1>2. edge \in Nat \union {None}
    BY EdgeTyped
  <1>3. g.next \in Nat \union {None} /\ g.frame \in Nat /\ g.frame >= frame_raw
    BY <1>1, <1>2, GridTyped
  <1>4. \/ NothingDue(g) /\ Waits(g)
        \/ ~NothingDue(g) /\ SentAt(g) < 0 /\ Skips(g)
        \/ ~NothingDue(g) /\ SentAt(g) >= 0 /\ Emits(g)
    <2>1. (CASE NothingDue(g) -> Waits(g)
             [] ~NothingDue(g) /\ SentAt(g) < 0 -> Skips(g)
             [] ~NothingDue(g) /\ SentAt(g) >= 0 -> Emits(g))
      BY DEF on_response_film, _film_reply
    <2> HIDE DEF g
    <2>2. ~NothingDue(g) => SentAt(g) \in Int
      <3>1. frame_pitch \in Nat /\ ShiftOf(frame_pitch) \in Nat
        BY PitchTyped, RoundedTyped
      <3> QED
        BY <1>3, <3>1 DEF NothingDue, SentAt
    <2>3. ~NothingDue(g) /\ SentAt(g) < 0 => ~(SentAt(g) >= 0)
      BY <2>2
    <2>4. ~NothingDue(g) => SentAt(g) < 0 \/ SentAt(g) >= 0
      BY <2>2
    <2> QED
      BY <2>1, <2>3, <2>4, Zenon
  <1> HIDE DEF edge, g
  <1>5. ~NothingDue(g) => g.next \in Nat /\ g.frame \in 0..127
    BY <1>3 DEF NothingDue
  <1>6. ~NothingDue(g) /\ SentAt(g) >= 0 => SentAt(g) \in Nat /\ Code(g) \in Codes
    BY <1>1, <1>5, CodeTyped
  <1>7. \/ Waits(g)
        \/ g.next \in Nat /\ SentAt(g) < 0 /\ Skips(g)
        \/ /\ g.next \in Nat /\ g.frame <= 127 /\ SentAt(g) >= 0
           /\ SentAt(g) \in Nat /\ Code(g) \in Codes /\ Emits(g)
    BY <1>4, <1>5, <1>6
  <1> QED
    BY <1>1, <1>2, <1>3, <1>7 DEF edge, g

LEMMA TypedStep ==
  ASSUME Typed, [Next]_vars
  PROVE  Typed'
  <1> USE DEF Typed, scanner, scan, strip, engine, history
  <1>1. CASE Trigger
    <2>0. PICK set \in Settings :
            /\ cfg' = set.file /\ params_divisor' = set.divisor
            /\ active' = (set.file # NoConfig)
            /\ IF set.file = NoConfig
               THEN UNCHANGED <<strip, faking, firstStrip, anchored>>
               ELSE /\ frame_raw' = IF NewStrip THEN frame_raw
                                    ELSE FrameAtStart(set.file)
                    /\ pos_hi' = 0 /\ pos_last' = None /\ next_code' = None
                    /\ film_edge' = None /\ film_start_sent' = FilmStartAtTrigger
                    /\ faking' = FALSE
                    /\ firstStrip' = ~moving /\ anchored' = FALSE
      BY <1>1 DEF Trigger
    <2>1. /\ set.file = NoConfig \/ set.file \in Configs
          /\ set.divisor \in Divisors \union {0}
      BY SettingsTyped
    <2>2. set.file \in Configs => FrameAtStart(set.file) \in Nat
      <3> SUFFICES ASSUME set.file \in Configs PROVE FrameAtStart(set.file) \in Nat
        OBVIOUS
      <3> DEFINE d == set.file.start - lead_now(set.file)
      <3>1. set.file.start \in 0..127 /\ d \in Int
        BY DEF Configs, lead_now, picture_lead
      <3>2. \E m \in {0, d} : \A y \in {0, d} : m >= y
        BY <3>1
      <3>3. /\ Max({0, d}) \in {0, d} /\ \A y \in {0, d} : Max({0, d}) >= y
        BY <3>2 DEF Max
      <3> QED
        BY <3>1, <3>3 DEF FrameAtStart
    <2>3. ConfigTyped'
      BY <2>0, <2>1 DEF ConfigTyped
    <2>4. ScanTyped'
      BY <1>1, <2>0, <2>1, DxAssumption DEF ScanTyped, Trigger
    <2>8. FlagsTyped'
      <3>1. (~moving) \in BOOLEAN /\ (set.file # NoConfig) \in BOOLEAN
        OBVIOUS
      <3>2. /\ opened' = TRUE /\ reported' = FALSE /\ moving' = moving
        BY <1>1 DEF Trigger
      <3>3. /\ film_start_sent' \in {film_start_sent, FALSE}
            /\ faking' \in {faking, FALSE} /\ anchored' \in {anchored, FALSE}
            /\ firstStrip' \in {firstStrip, ~moving}
            /\ active' = (set.file # NoConfig)
        BY <2>0 DEF FilmStartAtTrigger
      <3> QED
        BY <3>1, <3>2, <3>3 DEF FlagsTyped
    <2>5. PositionTyped'
      BY <1>1, <2>0, ZeroIsMultiple, DxAssumption DEF PositionTyped, Trigger
    <2>6. StripTyped'
      BY <1>1, <2>0, <2>1, <2>2 DEF StripTyped, Trigger
    <2>7. EngineTyped'
      BY <1>1 DEF EngineTyped, Trigger
    <2> QED
      BY <2>3, <2>4, <2>5, <2>6, <2>7, <2>8
  <1>2. CASE ScanStop \/ MotorIdle
    <2>1. FlagsTyped'
      BY <1>2 DEF ScanStop, MotorIdle, FlagsTyped
    <2> QED
      BY <1>2, <2>1 DEF ScanStop, MotorIdle, ConfigTyped, ScanTyped, PositionTyped,
                        StripTyped, EngineTyped
  <1>3. CASE MotorGo
    <2>1. FlagsTyped'
      BY <1>3 DEF MotorGo, FlagsTyped
    <2> QED
      BY <1>3, <2>1 DEF MotorGo, ConfigTyped, ScanTyped, PositionTyped, StripTyped,
                        EngineTyped
  <1>4. CASE _fake_event \/ LampWrite \/ MeasureLine \/ UNCHANGED vars
    <2>1. FlagsTyped'
      BY <1>4 DEF _fake_event, LampWrite, MeasureLine, vars, FlagsTyped
    <2>2. ScanTyped'
      BY <1>4 DEF _fake_event, LampWrite, MeasureLine, vars, IrStates, ScanTyped
    <2>3. UNCHANGED <<cfg, active, strip, engine, roll, counter, film, lastRead>>
      BY <1>4 DEF _fake_event, LampWrite, MeasureLine, vars
    <2> QED
      BY <2>1, <2>2, <2>3 DEF ConfigTyped, PositionTyped, StripTyped, EngineTyped
  <1>5. CASE Advance
    <2>1. PICK s \in Steps : counter + s <= MaxCounter /\ counter' = counter + s
      BY <1>5 DEF Advance
    <2>2. counter' \in 0..MaxCounter
      BY <2>1, DxAssumption DEF PositionTyped
    <2>3. FlagsTyped'
      BY <1>5 DEF Advance, FlagsTyped
    <2> QED
      BY <1>5, <2>2, <2>3 DEF Advance, ConfigTyped, ScanTyped, PositionTyped,
                              StripTyped, EngineTyped
  <1>6. CASE FilmArrives
    <2>1. FlagsTyped'
      BY <1>6 DEF FilmArrives, FlagsTyped
    <2> QED
      BY <1>6, <2>1 DEF FilmArrives, ConfigTyped, ScanTyped, PositionTyped,
                        StripTyped, EngineTyped
  <1>7. ASSUME NEW r \in Replies,
               on_response_film(r) \/ on_response_code(r) \/ on_response_other,
               reported' = (reported \/ r.station = "input"),
               UNCHANGED <<counter, film, irOn>>
        PROVE  Typed'
    <2>1. CASE on_response_film(r)
      <3> DEFINE g == Grid(LatchedEdge(r))
      <3>1. /\ LatchedEdge(r) \in Nat \union {None}
            /\ g.next \in Nat \union {None} /\ g.frame \in Nat
            /\ \/ Waits(g)
               \/ g.next \in Nat /\ Skips(g)
               \/ /\ g.next \in Nat /\ g.frame <= 127 /\ SentAt(g) >= 0
                  /\ SentAt(g) \in Nat /\ Code(g) \in Codes /\ Emits(g)
        BY <2>1, FilmReply
      <3>2. /\ pos_hi' = Unwrapped /\ pos_last' = Position
            /\ film_edge' = LatchedEdge(r) /\ lastRead' = counter
            /\ anchored' = (anchored \/ (next_code = None /\ LatchedEdge(r) # None))
            /\ faking' = FALSE /\ UNCHANGED <<scan, triggers, opened, firstStrip>>
        BY <2>1 DEF on_response_film, _film_reply
      <3> HIDE DEF g
      <3>9. FlagsTyped'
        <4>1. film_start_sent' = film_start_sent \/ film_start_sent' = TRUE
          BY <3>1 DEF Waits, Skips, Emits
        <4>2. anchored' \in BOOLEAN /\ reported' \in BOOLEAN
          BY <1>7, <3>2 DEF FlagsTyped
        <4> QED
          BY <3>2, <4>1, <4>2 DEF FlagsTyped
      <3>10. ScanTyped'
        BY <1>7, <3>2 DEF ScanTyped
      <3>3. half_pitch_now \in Nat
        BY PitchTyped
      <3>4. ConfigTyped'
        BY <3>2 DEF ConfigTyped
      <3>5. PositionTyped'
        BY <1>7, <3>2, NowTyped DEF PositionTyped
      <3>6. CASE Waits(g)
        BY <3>1, <3>2, <3>4, <3>5, <3>6, <3>9, <3>10
        DEF Waits, StripTyped, EngineTyped
      <3>7. CASE g.next \in Nat /\ Skips(g)
        <4>1. /\ next_code' = g.next + half_pitch_now /\ frame_raw' = g.frame + 1
              /\ UNCHANGED <<film_start_sent, engine, roll>>
          BY <3>7 DEF Skips
        <4>2. next_code' \in Nat /\ frame_raw' \in Nat
          BY <3>1, <3>3, <3>7, <4>1
        <4> QED
          BY <3>1, <3>2, <3>4, <3>5, <3>9, <3>10, <4>1, <4>2
          DEF StripTyped, EngineTyped
      <3>8. CASE /\ g.next \in Nat /\ g.frame <= 127 /\ SentAt(g) >= 0
                 /\ SentAt(g) \in Nat /\ Code(g) \in Codes /\ Emits(g)
        <4>1. codes' \in Seq(Codes)
          BY <3>8 DEF Emits, EngineTyped
        <4>2. starts' \in Seq(0..(Wrap - 1))
          <5> DEFINE at == (IF g.next < cfg.filmLead THEN 0
                            ELSE g.next - cfg.filmLead) % Wrap
                     W == 0..(Wrap - 1)
          <5>1. cfg \in Configs
            BY <2>1, FilmReply
          <5>2. at \in W
            BY <3>1, <3>8, <5>1, CodeTyped
          <5>3. starts' = IF film_start_sent THEN starts ELSE Append(starts, at)
            BY <3>8 DEF Emits
          <5>4. starts \in Seq(W)
            BY DEF EngineTyped
          <5> HIDE DEF at, W
          <5>5. starts' \in Seq(W)
            BY <5>2, <5>3, <5>4
          <5> QED
            BY <5>5 DEF W
        <4>3. EngineTyped'
          BY <3>8, <4>1, <4>2 DEF Emits, EngineTyped
        <4>4. StripTyped'
          <5>1. /\ next_code' = g.next + half_pitch_now /\ roll' = g.frame
                /\ frame_raw' = g.frame + 1
            BY <3>8 DEF Emits
          <5>0. g.frame \in Nat /\ g.frame <= 127 /\ g.next \in Nat
            BY <3>1, <3>8
          <5>2. next_code' \in Nat /\ frame_raw' \in Nat /\ roll' \in 0..127
            BY <3>3, <5>0, <5>1
          <5> QED
            BY <3>1, <3>2, <5>2 DEF StripTyped
        <4> QED
          BY <3>4, <3>5, <3>9, <3>10, <4>3, <4>4
      <3> QED
        BY <3>1, <3>6, <3>7, <3>8
    <2>2. CASE on_response_code(r)
      <3>1. plain' \in Bytes
        <4>1. cfg \in Configs /\ frame_raw \in Nat
          BY <2>2 DEF on_response_code, ConfigTyped, StripTyped
        <4> QED
          BY <2>2, <4>1, EntryTyped DEF on_response_code
      <3>2. film_edge' \in Nat \union {None}
        BY <2>2, EdgeTyped DEF on_response_code
      <3>3. FlagsTyped'
        BY <1>7, <2>2 DEF on_response_code, FlagsTyped
      <3> QED
        BY <1>7, <2>2, <3>1, <3>2, <3>3 DEF on_response_code, ConfigTyped, ScanTyped,
           PositionTyped, StripTyped, EngineTyped
    <2>3. CASE on_response_other
      <3>1. FlagsTyped'
        BY <1>7, <2>3 DEF on_response_other, FlagsTyped
      <3> QED
        BY <1>7, <2>3, <3>1 DEF on_response_other, ConfigTyped, ScanTyped,
           PositionTyped, StripTyped, EngineTyped
    <2> QED
      BY <1>7, <2>1, <2>2, <2>3
  <1>8. CASE ReadSensor
    BY <1>7, <1>8 DEF ReadSensor
  <1> QED
    BY <1>1, <1>2, <1>3, <1>4, <1>5, <1>6, <1>8 DEF Next

LEMMA TypedInit == Init => Typed
  <1> SUFFICES ASSUME Init PROVE Typed
    OBVIOUS
  <1> USE DEF Init
  <1>1. ConfigTyped /\ StripTyped
    BY DEF ConfigTyped, StripTyped
  <1>3. ScanTyped
    BY DxAssumption DEF ScanTyped, IrStates
  <1>4. FlagsTyped
    BY DEF FlagsTyped
  <1>2. PositionTyped /\ EngineTyped
    BY ZeroIsMultiple, DxAssumption DEF PositionTyped, EngineTyped
  <1> QED
    BY <1>1, <1>2, <1>3, <1>4 DEF Typed

LEMMA TypedAlways == Spec => []Typed
  BY TypedInit, TypedStep, PTL DEF Spec

(* The module's state keeps its types for every configuration file, transport
   and sequence of commands: what it sends stays in the engine's ranges. *)
THEOREM TypeCorrect == Spec => []TypeOK
  BY TypedAlways, TypesSuffice, PTL

-----------------------------------------------------------------------------
(* A film start goes out with the first code, and film_start_sent remembers. *)
StartInv ==
  /\ codes = <<>> => starts = <<>>
  /\ codes # <<>> => Len(starts) = 1
  /\ active => (film_start_sent <=> codes # <<>>)

LEMMA StartStep ==
  ASSUME Typed, StartInv, [Next]_vars
  PROVE  StartInv'
  <1> USE DEF StartInv, scanner, scan, strip, engine, history
  <1>1. CASE Trigger
    <2>1. codes' = <<>> /\ starts' = <<>>
      BY <1>1 DEF Trigger
    <2>2. active' => film_start_sent' = FALSE
      BY <1>1 DEF Trigger, FilmStartAtTrigger
    <2> QED
      BY <2>1, <2>2
  <1>2. ASSUME UNCHANGED <<codes, starts, film_start_sent>>, active' => active
        PROVE  StartInv'
    BY <1>2
  <1>3. CASE ScanStop \/ MotorGo \/ MotorIdle
    BY <1>2, <1>3 DEF ScanStop, MotorGo, MotorIdle
  <1>4. CASE _fake_event \/ Advance \/ FilmArrives
    <2>1. UNCHANGED <<codes, starts, film_start_sent, active>>
      BY <1>4 DEF _fake_event, Advance, FilmArrives
    <2> QED
      BY <1>2, <2>1
  <1>5. CASE LampWrite \/ MeasureLine \/ UNCHANGED vars
    <2>1. UNCHANGED <<codes, starts, film_start_sent, active>>
      BY <1>5 DEF LampWrite, MeasureLine, vars
    <2> QED
      BY <1>2, <2>1
  <1>6. CASE ReadSensor
    <2>1. PICK r \in Replies :
            on_response_film(r) \/ on_response_code(r) \/ on_response_other
      BY <1>6 DEF ReadSensor
    <2>2. CASE on_response_code(r) \/ on_response_other
      BY <1>2, <2>2 DEF on_response_code, on_response_other
    <2>3. CASE on_response_film(r)
      <3> DEFINE g == Grid(LatchedEdge(r))
      <3>1. /\ active' = active /\ active
            /\ Waits(g) \/ Skips(g) \/ (Code(g) \in Codes /\ Emits(g))
        BY <2>3, FilmReply DEF on_response_film
      <3> HIDE DEF g
      <3>2. CASE Waits(g) \/ Skips(g)
        BY <1>2, <3>1, <3>2 DEF Waits, Skips
      <3>3. CASE Code(g) \in Codes /\ Emits(g)
        <4>1. film_start_sent' = TRUE /\ codes' = Append(codes, Code(g))
          BY <3>3 DEF Emits
        <4>2. codes' # <<>>
          BY <3>3, <4>1 DEF Typed, EngineTyped
        <4>3. film_start_sent => Len(starts') = 1
          BY <3>1, <3>3 DEF Emits
        <4>4. ~film_start_sent => Len(starts') = 1
          <5> SUFFICES ASSUME ~film_start_sent PROVE Len(starts') = 1
            OBVIOUS
          <5>1. starts = <<>>
            BY <3>1
          <5>2. \A x : Len(Append(<<>>, x)) = 1
            OBVIOUS
          <5> QED
            BY <3>3, <5>1, <5>2 DEF Emits
        <4> QED
          BY <4>1, <4>2, <4>3, <4>4
      <3> QED
        BY <3>1, <3>2, <3>3
    <2> QED
      BY <2>1, <2>2, <2>3
  <1> QED
    BY <1>1, <1>3, <1>4, <1>5, <1>6 DEF Next

(* The engine gets one film start with the first code of every strip, for every
   configuration and sequence of commands and reads. *)
THEOREM FilmStartOnce == Spec => []FilmStartPrecedes
  <1>1. Init => StartInv
    BY DEF Init, StartInv
  <1>2. StartInv => FilmStartPrecedes
    BY DEF StartInv, FilmStartPrecedes
  <1> QED
    BY <1>1, <1>2, StartStep, TypedAlways, PTL DEF Spec

-----------------------------------------------------------------------------
(* In the middle of a roll the frame counter is past the last frame sent; only
   what ends the roll, or a trigger that is not for its next strip, sets it. *)
RollInv ==
  roll # None =>
    /\ active /\ moving
    /\ frame_raw > roll

LEMMA RollStep ==
  ASSUME Typed, RollInv, [Next]_vars
  PROVE  RollInv' /\ (roll # None /\ Len(codes') > Len(codes) => roll' > roll)
  <1> DEFINE Grows == roll # None /\ Len(codes') > Len(codes) => roll' > roll
  <1> USE DEF scanner, scan, strip, engine, history
  <1>0. codes \in Seq(Codes) /\ Len(codes) \in Nat
    BY DEF Typed, EngineTyped
  <1>1. ASSUME UNCHANGED <<codes, roll, active, moving, frame_raw>>
        PROVE  RollInv' /\ Grows
    BY <1>0, <1>1 DEF RollInv
  <1>2. ASSUME roll' = None, codes' = codes
        PROVE  RollInv' /\ Grows
    BY <1>0, <1>2 DEF RollInv
  <1>3. CASE Trigger
    <2>1. Grows
      <3>1. Len(codes') = 0
        BY <1>3 DEF Trigger
      <3> QED
        BY <1>0, <3>1
    <2>2. roll' = roll /\ moving' = moving /\ opened' = TRUE
      BY <1>3 DEF Trigger
    <2>3. roll # None => active' /\ frame_raw' = frame_raw
      <3> SUFFICES ASSUME roll # None PROVE active' /\ frame_raw' = frame_raw
        OBVIOUS
      <3>1. PICK set \in Settings :
              /\ active' = (set.file # NoConfig)
              /\ set.file # NoConfig =>
                   frame_raw' = IF NewStrip THEN frame_raw ELSE FrameAtStart(set.file)
        BY <1>3 DEF Trigger
      <3>2. active /\ moving /\ opened
        BY <1>3 DEF RollInv, Trigger, TriggerBeforeMotor
      <3>3. set.file = cfg /\ cfg \in Configs
        BY <3>2, SettingsTyped DEF Typed, ConfigTyped
      <3> QED
        BY <3>1, <3>2, <3>3, NoConfigIsNone DEF NewStrip
    <2> QED
      BY <2>1, <2>2, <2>3 DEF RollInv
  <1>4. CASE ScanStop \/ MotorIdle
    BY <1>2, <1>4 DEF ScanStop, MotorIdle
  <1>5. CASE MotorGo
    <2>1. roll = None
      BY <1>5 DEF MotorGo, RollInv
    <2> QED
      BY <1>2, <1>5, <2>1 DEF MotorGo
  <1>6. CASE _fake_event \/ Advance \/ FilmArrives
    BY <1>1, <1>6 DEF _fake_event, Advance, FilmArrives
  <1>7. CASE LampWrite \/ MeasureLine \/ UNCHANGED vars
    BY <1>1, <1>7 DEF LampWrite, MeasureLine, vars
  <1>8. CASE ReadSensor
    <2>1. PICK r \in Replies :
            on_response_film(r) \/ on_response_code(r) \/ on_response_other
      BY <1>8 DEF ReadSensor
    <2>2. CASE on_response_code(r) \/ on_response_other
      BY <1>1, <2>2 DEF on_response_code, on_response_other
    <2>3. CASE on_response_film(r)
      <3> DEFINE g == Grid(LatchedEdge(r))
      <3>1. /\ active /\ moving /\ UNCHANGED <<active, moving>>
            /\ g.frame \in Nat /\ g.frame >= frame_raw
            /\ Waits(g) \/ Skips(g) \/ (g.frame <= 127 /\ Emits(g))
        BY <2>3, FilmReply DEF on_response_film
      <3> HIDE DEF g
      <3>2. /\ frame_raw \in Nat /\ roll \in {None} \union 0..127
            /\ roll # None => frame_raw > roll
        BY DEF Typed, StripTyped, RollInv
      <3>3. CASE Waits(g) \/ Skips(g)
        <4>1. codes' = codes /\ roll' = roll /\ frame_raw' >= frame_raw
              /\ frame_raw' \in Nat
          BY <3>1, <3>2, <3>3 DEF Waits, Skips
        <4>2. roll # None => frame_raw' > roll
          BY <3>2, <4>1
        <4> QED
          BY <1>0, <3>1, <4>1, <4>2 DEF RollInv
      <3>4. CASE g.frame <= 127 /\ Emits(g)
        <4>1. roll' = g.frame /\ frame_raw' = g.frame + 1
          BY <3>4 DEF Emits
        <4>2. Grows
          <5>1. g.frame \in Nat /\ g.frame >= frame_raw
            BY <3>1
          <5>2. roll # None => g.frame > roll
            BY <3>2, <5>1
          <5> QED
            BY <4>1, <5>2
        <4>3. frame_raw' > roll' /\ active' /\ moving'
          BY <3>1, <4>1
        <4> QED
          BY <4>2, <4>3 DEF RollInv
      <3> QED
        BY <3>1, <3>3, <3>4
    <2> QED
      BY <2>1, <2>2, <2>3
  <1> QED
    BY <1>3, <1>4, <1>5, <1>6, <1>7, <1>8 DEF Next

(* Across the strips of a roll no frame number comes twice, and they grow, for
   every configuration file and however many strips. *)
THEOREM LabelsGrow == Spec => LabelsAscend
  <1>1. Init => RollInv
    BY DEF Init, RollInv
  <1>2. Typed /\ RollInv /\ [Next]_vars =>
          RollInv' /\ [roll # None /\ Len(codes') > Len(codes) => roll' > roll]_vars
    BY RollStep
  <1> QED
    BY <1>1, <1>2, TypedAlways, PTL DEF Spec, LabelsAscend

-----------------------------------------------------------------------------
(* The counter is unwrapped rightly if the transport does not cover half its
   range between two reads.  The edge is placed rightly if it comes, and a strip
   without one gives up waiting, before the counter first wraps. *)
Pitches == {load(dir).pitch : dir \in {d \in Dirs : load(d) # NoConfig}}
             \union {PitchLines * d : d \in Divisors} \union {DefaultPitch}
Slow == 2 * MaxGap < Wrap
Soon == LastFeed < Wrap /\ \A p \in Pitches : p * EdgeWait <= Wrap

-----------------------------------------------------------------------------
ReadInv ==
  /\ lastRead <= counter /\ counter <= lastRead + MaxGap
  /\ active /\ pos_last = None => pos_hi = 0 /\ lastRead = 0
  /\ active /\ pos_last # None => pos_hi + pos_last = lastRead
EdgeInv ==
  /\ cfg # NoConfig => \E dir \in Dirs : cfg = load(dir)
  /\ film <= LastFeed
  /\ active /\ anchored => film # None /\ film_edge = film
  /\ active /\ cfg.numbers /\ next_code = None => film_edge = None /\ pos_hi = 0

LEMMA Scaled ==
  ASSUME NEW a \in Nat, NEW b \in Nat, NEW w \in Nat, a < b
  PROVE  a * w \in Nat /\ b * w \in Nat /\ a * w + w <= b * w
  <1>1. PICK d \in Nat : b = a + 1 + d
    <2>1. b - a - 1 \in Nat /\ b = a + 1 + (b - a - 1)
      OBVIOUS
    <2> QED
      BY <2>1
  <1>2. b * w = a * w + w + d * w
    BY <1>1
  <1>3. d * w \in Nat /\ a * w \in Nat
    OBVIOUS
  <1> QED
    BY <1>2, <1>3

LEMMA UnwrapExact ==
  ASSUME NEW k \in Nat, NEW W \in Nat \ {0}, W % 2 = 0, NEW L \in 0..(W - 1),
         NEW c \in Nat, NEW gap \in Nat, 2 * gap < W,
         k * W + L <= c, c <= k * W + L + gap
  PROVE  c = (IF c % W < L - (W \div 2) THEN k * W + W ELSE k * W) + (c % W)
  <1> DEFINE q == c \div W
             P == c % W
             H == W \div 2
  <1>1. q \in Nat /\ P \in 0..(W - 1) /\ c = W * q + P
    BY Divided
  <1>2. W = 2 * H /\ H \in Nat
    OBVIOUS
  <1> HIDE DEF q, P, H
  <1>3. k * W \in Nat /\ q * W \in Nat /\ W * q = q * W
    BY <1>1
  <1>4. q = k \/ q = k + 1
    <2>1. CASE q < k
      <3>1. q * W + W <= k * W
        BY <1>1, <2>1, Scaled
      <3> QED
        BY <1>1, <1>3, <3>1
    <2>2. CASE k + 1 < q
      <3>1. (k + 1) * W + W <= q * W
        BY <1>1, <2>2, Scaled
      <3>2. (k + 1) * W = k * W + W
        OBVIOUS
      <3> QED
        BY <1>1, <1>2, <1>3, <3>1, <3>2
    <2> QED
      BY <1>1, <2>1, <2>2
  <1>5. CASE q = k
    <2>1. P >= L
      BY <1>1, <1>3, <1>5
    <2>2. ~(P < L - H)
      BY <1>1, <1>2, <2>1
    <2> QED
      BY <1>1, <1>3, <1>5, <2>2 DEF P, H
  <1>6. CASE q = k + 1
    <2>1. q * W = k * W + W
      BY <1>6
    <2>2. c = k * W + W + P
      BY <1>1, <1>3, <2>1
    <2>3. P < L - H
      BY <1>1, <1>2, <1>3, <2>2
    <2> QED
      BY <2>2, <2>3 DEF P, H
  <1> QED
    BY <1>4, <1>5, <1>6

(* The next read unwraps to the true counter. *)
LEMMA NowIsCounter ==
  ASSUME Typed, ReadInv, active, Slow
  PROVE  Now = counter
  <1>0. /\ counter \in Nat /\ lastRead \in Nat /\ MaxGap \in Nat
        /\ pos_last \in {None} \union 0..(Wrap - 1)
    BY DxAssumption DEF Typed, PositionTyped
  <1>1. PICK k \in Nat : pos_hi = k * Wrap
    BY DEF Typed, PositionTyped, Multiples
  <1>2. CASE pos_last = None
    <2>1. pos_hi = 0 /\ counter <= MaxGap
      BY <1>0, <1>2 DEF ReadInv
    <2>2. counter % Wrap = counter
      BY <1>0, <2>1, WrapTyped DEF Slow
    <2>3. Unwrapped = 0 /\ Position = counter
      BY <1>2, <2>1, <2>2 DEF Unwrapped, Position
    <2> QED
      BY <1>0, <2>3 DEF Now
  <1>3. CASE pos_last # None
    <2>1. pos_last \in 0..(Wrap - 1) /\ pos_hi + pos_last = lastRead
      BY <1>0, <1>3 DEF ReadInv
    <2>2. k * Wrap + pos_last <= counter /\ counter <= k * Wrap + pos_last + MaxGap
      BY <1>1, <2>1 DEF ReadInv
    <2>3. counter = (IF counter % Wrap < pos_last - (Wrap \div 2)
                     THEN k * Wrap + Wrap ELSE k * Wrap) + (counter % Wrap)
      BY <1>0, <2>1, <2>2, WrapTyped, UnwrapExact DEF Slow
    <2> QED
      BY <1>1, <1>3, <2>3 DEF Now, Unwrapped, Position
  <1> QED
    BY <1>2, <1>3

LEMMA ReadStep ==
  ASSUME Typed, ReadInv, Slow, [Next]_vars
  PROVE  ReadInv'
  <1> USE DEF scanner, scan, strip, engine, history
  <1>0. /\ counter \in Nat /\ lastRead \in Nat /\ MaxGap \in Nat
    BY DxAssumption DEF Typed, PositionTyped
  <1>1. ASSUME UNCHANGED <<counter, lastRead, pos_hi, pos_last>>, active' => active
        PROVE  ReadInv'
    BY <1>1 DEF ReadInv
  <1>2. CASE Trigger
    <2>1. lastRead' = 0 /\ counter' = 0
      BY <1>2 DEF Trigger
    <2>2. active' => pos_hi' = 0 /\ pos_last' = None
      BY <1>2 DEF Trigger
    <2> QED
      BY <1>0, <2>1, <2>2 DEF ReadInv
  <1>3. CASE ScanStop \/ MotorGo \/ MotorIdle
    <2>1. UNCHANGED <<counter, lastRead, pos_hi, pos_last>> /\ (active' => active)
      BY <1>3 DEF ScanStop, MotorGo, MotorIdle
    <2> QED
      BY <1>1, <2>1
  <1>4. CASE _fake_event \/ FilmArrives \/ LampWrite \/ MeasureLine \/ UNCHANGED vars
    <2>1. UNCHANGED <<counter, lastRead, pos_hi, pos_last, active>>
      BY <1>4 DEF _fake_event, FilmArrives, LampWrite, MeasureLine, vars
    <2> QED
      BY <1>1, <2>1
  <1>5. CASE Advance
    <2>1. PICK s \in Steps : counter + s - lastRead <= MaxGap /\ counter' = counter + s
      BY <1>5 DEF Advance
    <2>2. s \in Nat
      BY DxAssumption
    <2>3. lastRead' <= counter' /\ counter' <= lastRead' + MaxGap
      BY <1>0, <1>5, <2>1, <2>2 DEF Advance, ReadInv
    <2>4. UNCHANGED <<active, pos_hi, pos_last, lastRead>>
      BY <1>5 DEF Advance
    <2> QED
      BY <2>3, <2>4 DEF ReadInv
  <1>6. CASE ReadSensor
    <2>1. PICK r \in Replies :
            on_response_film(r) \/ on_response_code(r) \/ on_response_other
      BY <1>6 DEF ReadSensor
    <2>2. counter' = counter
      BY <1>6 DEF ReadSensor
    <2>3. CASE on_response_code(r) \/ on_response_other
      <3>1. UNCHANGED <<lastRead, pos_hi, pos_last, active>>
        BY <2>3 DEF on_response_code, on_response_other
      <3> QED
        BY <1>1, <2>2, <3>1
    <2>4. CASE on_response_film(r)
      <3>1. /\ active /\ pos_hi' = Unwrapped /\ pos_last' = Position
            /\ lastRead' = counter
        BY <2>4 DEF on_response_film, _film_reply
      <3>2. Now = counter /\ Position \in 0..(Wrap - 1)
        BY <3>1, NowIsCounter, NowTyped
      <3>3. pos_hi' + pos_last' = lastRead' /\ pos_last' # None
        BY <3>1, <3>2, WrapTyped DEF Now, None
      <3> QED
        BY <1>0, <2>2, <3>1, <3>3 DEF ReadInv
    <2> QED
      BY <2>1, <2>3, <2>4
  <1> QED
    BY <1>2, <1>3, <1>4, <1>5, <1>6 DEF Next

(* A read that leaves the strip without a code is one before the first wrap. *)
LEMMA WaitsEarly ==
  ASSUME Typed, ReadInv, EdgeInv, active, Slow, Soon, Now < frame_pitch * EdgeWait
  PROVE  Unwrapped = 0
  <1>1. frame_pitch \in Pitches
    <2>0. cfg # NoConfig
      BY NoConfigIsNone DEF Typed, ConfigTyped
    <2>1. PICK dir \in Dirs : cfg = load(dir)
      BY <2>0 DEF EdgeInv
    <2>2. cfg.pitch \in Pitches
      BY <2>0, <2>1 DEF Pitches
    <2>3. \A d \in Divisors : PitchLines * d \in Pitches
      BY DEF Pitches
    <2>4. DefaultPitch \in Pitches
      BY DEF Pitches
    <2>5. StreamDivisor \in Divisors \union {0}
      BY DEF StreamDivisor, scan_divisor
    <2>6. params_divisor \in Divisors \union {0}
      BY DEF Typed, ScanTyped
    <2> QED
      BY <2>2, <2>3, <2>4, <2>5, <2>6 DEF frame_pitch
  <1>2. frame_pitch * EdgeWait <= Wrap
    BY <1>1 DEF Soon
  <1>3. frame_pitch * EdgeWait \in Nat
    BY PitchTyped, DxAssumption, Product
  <1>4. Unwrapped < Wrap
    BY <1>2, <1>3, NowTyped, WrapTyped DEF Now
  <1>5. PICK k \in Nat : Unwrapped = k * Wrap
    BY NowTyped DEF Multiples
  <1>6. k = 0
    <2>1. 0 < k => 0 * Wrap + Wrap <= k * Wrap
      BY WrapTyped, Scaled
    <2> QED
      BY <1>4, <1>5, <2>1, WrapTyped
  <1> QED
    BY <1>5, <1>6, WrapTyped

LEMMA EdgeStep ==
  ASSUME Typed, ReadInv, EdgeInv, Slow, Soon, [Next]_vars
  PROVE  EdgeInv'
  <1> USE DEF scanner, scan, strip, engine, history
  <1>0. film \in {None} \union Nat /\ counter \in Nat /\ LastFeed \in Nat
    BY DxAssumption DEF Typed, PositionTyped
  <1>1. ASSUME UNCHANGED <<cfg, film, anchored, film_edge, next_code, pos_hi>>,
               active' => active
        PROVE  EdgeInv'
    BY <1>1 DEF EdgeInv
  <1>2. CASE Trigger
    <2>1. film' <= LastFeed
      BY <1>0, <1>2 DEF Trigger, None
    <2>2. PICK set \in Settings : cfg' = set.file
      BY <1>2 DEF Trigger
    <2>3. cfg' # NoConfig => \E dir \in Dirs : cfg' = load(dir)
      <3>1. CASE opened
        <4>1. set.file = cfg
          BY <3>1, SettingsTyped
        <4> QED
          BY <2>2, <4>1 DEF EdgeInv
      <3>2. CASE ~opened
        <4> DEFINE D == {d \in Divisors : TRUE \in Known}
                          \union {d \in {0} : FALSE \in Known}
                   F == {load(dir) : dir \in Dirs}
        <4>1. set \in [file : F, divisor : D]
          BY <3>2 DEF Settings
        <4>2. set.file \in F
          BY <4>1
        <4> QED
          BY <2>2, <4>2
      <3> QED
        BY <3>1, <3>2
    <2>4. active' => anchored' = FALSE /\ film_edge' = None /\ pos_hi' = 0
      BY <1>2 DEF Trigger
    <2> QED
      BY <2>1, <2>3, <2>4 DEF EdgeInv
  <1>3. CASE ScanStop \/ MotorGo \/ MotorIdle
    <2>1. /\ UNCHANGED <<cfg, film, anchored, film_edge, next_code, pos_hi>>
          /\ active' => active
      BY <1>3 DEF ScanStop, MotorGo, MotorIdle
    <2> QED
      BY <1>1, <2>1
  <1>4. CASE _fake_event \/ Advance \/ LampWrite \/ MeasureLine \/ UNCHANGED vars
    <2>1. UNCHANGED <<cfg, film, anchored, film_edge, next_code, pos_hi, active>>
      BY <1>4 DEF _fake_event, Advance, LampWrite, MeasureLine, vars
    <2> QED
      BY <1>1, <2>1
  <1>5. CASE FilmArrives
    <2>1. /\ film = None /\ film' = counter /\ counter <= LastFeed
          /\ UNCHANGED <<cfg, anchored, film_edge, next_code, pos_hi, active>>
      BY <1>5 DEF FilmArrives
    <2> QED
      BY <2>1 DEF EdgeInv
  <1>6. CASE ReadSensor
    <2>1. PICK r \in Replies :
            on_response_film(r) \/ on_response_code(r) \/ on_response_other
      BY <1>6 DEF ReadSensor
    <2>2. film' = film
      BY <1>6 DEF ReadSensor
    <2>3. CASE on_response_other
      <3>1. UNCHANGED <<cfg, anchored, film_edge, next_code, pos_hi, active>>
        BY <2>3 DEF on_response_other
      <3> QED
        BY <1>1, <2>2, <3>1
    <2>4. CASE on_response_code(r)
      <3>1. /\ UNCHANGED <<cfg, anchored, next_code, pos_hi, active>>
            /\ ~cfg.numbers /\ film_edge' = LatchedEdge(r)
        BY <2>4 DEF on_response_code
      <3>2. film_edge # None => film_edge' = film_edge
        BY <3>1 DEF LatchedEdge
      <3> QED
        BY <1>0, <2>2, <3>1, <3>2 DEF EdgeInv
    <2>5. CASE on_response_film(r)
      <3> DEFINE edge == LatchedEdge(r)
                 g == Grid(edge)
      <3>1. /\ active /\ active' = active /\ cfg' = cfg /\ cfg.numbers
            /\ film_edge' = edge /\ pos_hi' = Unwrapped
            /\ anchored' = (anchored \/ (next_code = None /\ edge # None))
        BY <2>5 DEF on_response_film, _film_reply
      <3>2. /\ cfg \in Configs /\ edge \in Nat \union {None}
            /\ \/ Waits(g)
               \/ g.next \in Nat /\ Skips(g)
               \/ g.next \in Nat /\ Emits(g)
        BY <2>5, FilmReply
      <3>3. film_edge # None => edge = film_edge
        BY DEF LatchedEdge
      <3>4. next_code = None /\ edge # None => film # None /\ edge = film
        <4> SUFFICES ASSUME next_code = None, edge # None
                     PROVE  film # None /\ edge = film
          OBVIOUS
        <4>1. film_edge = None /\ pos_hi = 0
          BY <3>1 DEF EdgeInv
        <4>2. r.station = "input" /\ edge = pos_hi + r.edge
          BY <4>1 DEF LatchedEdge
        <4>3. r = Event("input", film % Wrap) /\ film # None
          BY <4>2 DEF Replies, Event
        <4>4. film \in Nat /\ film < Wrap
          <5>1. film \in Nat
            BY <1>0, <4>3
          <5>2. film <= LastFeed /\ LastFeed < Wrap
            BY DEF EdgeInv, Soon
          <5> QED
            BY <1>0, <5>1, <5>2, WrapTyped
        <4>5. film % Wrap = film
          BY <4>4, WrapTyped
        <4> QED
          BY <4>1, <4>2, <4>3, <4>4, <4>5 DEF Event
      <3>5. anchored' => film # None /\ edge = film
        BY <3>1, <3>3, <3>4 DEF EdgeInv
      <3>6. next_code' = None => g.next = None
        <4>1. half_pitch_now \in Nat
          BY PitchTyped
        <4>2. g.next \in Nat => g.next + half_pitch_now # None
          BY <4>1 DEF None
        <4> HIDE DEF g
        <4> QED
          BY <3>2, <4>2 DEF Waits, Skips, Emits
      <3>7. g.next = None => edge = None /\ Unwrapped = 0
        <4> SUFFICES ASSUME g.next = None PROVE edge = None /\ Unwrapped = 0
          OBVIOUS
        <4>1. next_code = None
          BY <3>2, GridTyped DEF Place
        <4>2. edge = None
          BY <3>2, <4>1, GridTyped
        <4>3. Now < frame_pitch * EdgeWait
          BY <3>2, <4>1, <4>2, GridTyped DEF None
        <4> QED
          BY <3>1, <4>2, <4>3, WaitsEarly
      <3> QED
        BY <2>2, <3>1, <3>5, <3>6, <3>7 DEF EdgeInv
    <2> QED
      BY <2>1, <2>3, <2>4, <2>5
  <1> QED
    BY <1>2, <1>3, <1>4, <1>5, <1>6 DEF Next

(* If the transport covers less than half the counter's range between two reads
   of the sensor, and an edge or the fallback comes before it first wraps, the
   unwrapped counter is the scanner's own, and the edge the codes are placed by
   is the film's, for every width of the counter and every configuration. *)
THEOREM CounterUnwrapped ==
  ASSUME Slow, Soon
  PROVE  Spec => []CounterTracks
  <1>1. Init => ReadInv /\ EdgeInv
    BY DxAssumption DEF Init, ReadInv, EdgeInv, None
  <1>2. Typed /\ ReadInv /\ EdgeInv /\ [Next]_vars => ReadInv' /\ EdgeInv'
    BY ReadStep, EdgeStep
  <1>3. ReadInv /\ EdgeInv => CounterTracks
    BY DEF ReadInv, EdgeInv, CounterTracks
  <1> QED
    BY <1>1, <1>2, <1>3, TypedAlways, PTL DEF Spec

-----------------------------------------------------------------------------
(* Positions are compared modulo the counter's range. *)
LEMMA Remainder ==
  ASSUME NEW a \in Int, NEW b \in Nat \ {0}
  PROVE  a \div b \in Int /\ a % b \in 0..(b - 1) /\ a = b * (a \div b) + (a % b)
  OBVIOUS

LEMMA SameRemainder ==
  ASSUME NEW a \in Int, NEW z \in Int, NEW w \in Nat \ {0}
  PROVE  (a + z * w) % w = a % w
  <1> DEFINE b == a + z * w
             q == a \div w
             r == a % w
             p == b \div w
             s == b % w
  <1>1. q \in Int /\ r \in 0..(w - 1) /\ a = w * q + r
    BY Remainder
  <1>2. b \in Int
    OBVIOUS
  <1>3. p \in Int /\ s \in 0..(w - 1) /\ b = w * p + s
    BY <1>2, Remainder
  <1>4. b = a + z * w
    OBVIOUS
  <1> HIDE DEF b, q, r, p, s
  <1>5. (q + z) * w = q * w + z * w /\ w * q = q * w /\ w * p = p * w
    BY <1>1, <1>3
  <1>6. q + z = p
    <2>1. PICK n \in Int : n = q + z - p
      BY <1>1, <1>3
    <2>2. n * w = (q + z) * w - p * w
      BY <1>1, <1>3, <2>1
    <2>3. n * w = s - r
      BY <1>1, <1>3, <1>4, <1>5, <2>2
    <2>4. n = 0
      <3>1. CASE n >= 1
        <4>1. n * w >= w
          BY <3>1
        <4> QED
          BY <1>1, <1>3, <2>3, <4>1
      <3>2. CASE n <= -1
        <4>1. n * w <= -w
          BY <3>2
        <4> QED
          BY <1>1, <1>3, <2>3, <4>1
      <3> QED
        BY <3>1, <3>2
    <2> QED
      BY <1>1, <1>3, <2>1, <2>4
  <1>7. r = s
    <2>1. (q + z) * w = p * w
      BY <1>6
    <2> QED
      BY <1>1, <1>3, <1>4, <1>5, <2>1
  <1> QED
    BY <1>7 DEF b, r, s

LEMMA Congruent ==
  ASSUME NEW a \in Int, NEW z \in Int
  PROVE  z * Wrap \in Int /\ (a + z * Wrap) % Wrap = a % Wrap
  <1>1. Wrap \in Nat \ {0}
    BY WrapTyped
  <1>2. (a + z * Wrap) % Wrap = a % Wrap
    BY <1>1, SameRemainder
  <1> QED
    BY <1>1, <1>2

(* What the engine makes of a code: the frame it was built for and, up to the
   counter's range, the position of its place on the grid. *)
LEMMA FrameDecoded ==
  ASSUME Typed, cfg \in Configs, NEW g, g.frame \in 0..127
  PROVE  EngineFrame(Code(g)) = g.frame
  <1> DEFINE f == g.frame
             d == Fields(cfg.code[1], cfg.code[2], f)
             b == IF Flag(f) = 1 THEN 1 ELSE 2
             high == (cfg.code[1] % 4) * 32 + (cfg.code[2] % 16)
  <1>0. cfg.code[1] \in 0..127 /\ cfg.code[2] \in 0..15
    BY DEF Configs
  <1>1. /\ d[2] = (f % 64) * 4 /\ d[3] = 2 * high + ((f \div 64) % 2)
        /\ high \in Nat /\ DOMAIN d = 1..4
    BY <1>0 DEF Fields
  <1>2. Entry(f) = [d EXCEPT ![2] = IF ParityOdd(d) THEN d[2] + 1 ELSE d[2]]
    BY DEF Entry, encode_entry
  <1>3. Code(g).data = [Entry(f) EXCEPT ![1] = b]
    BY DEF Code
  <1>4. EngineFrame(Code(g)) = (Code(g).data[2] \div 4) + (Code(g).data[3] % 2) * 64
    BY DEF EngineFrame, decode_entry
  <1> HIDE DEF d, b, high
  <1>5. /\ Code(g).data[3] = d[3]
        /\ Code(g).data[2] = d[2] \/ Code(g).data[2] = d[2] + 1
    BY <1>1, <1>2, <1>3
  <1>6. Code(g).data[2] \div 4 = f % 64
    BY <1>1, <1>5
  <1>7. Code(g).data[3] % 2 = f \div 64
    <2>1. f \div 64 \in 0..1 /\ (f \div 64) % 2 = f \div 64
      OBVIOUS
    <2> QED
      BY <1>1, <1>5, <2>1
  <1> QED
    BY <1>4, <1>6, <1>7

LEMMA PositionKept ==
  ASSUME Typed, cfg \in Configs, NEW g, g.frame \in 0..127, g.next \in Nat,
         SentAt(g) \in Nat, ToldPitch = frame_pitch
  PROVE  \E q \in Int : EnginePos(Code(g)) = g.next + q * Wrap
  <1> DEFINE s == IF Flag(g.frame) = 1 THEN ShiftOf(frame_pitch) ELSE 0
             n == SentAt(g)
             q == n \div Wrap
  <1>1. s \in Nat
    BY PitchTyped, RoundedTyped
  <1>2. n = g.next - s
    BY DEF SentAt
  <1>3. EnginePos(Code(g)) = (n % Wrap) + s
    BY DEF EnginePos, Code
  <1>4. q \in Nat /\ n % Wrap \in 0..(Wrap - 1) /\ n = Wrap * q + (n % Wrap)
    BY WrapTyped, Divided
  <1> HIDE DEF s, n, q
  <1>5. -q \in Int /\ (-q) * Wrap = -(Wrap * q)
    BY <1>4, WrapTyped
  <1>6. Wrap * q \in Int
    BY <1>4, WrapTyped
  <1>7. EnginePos(Code(g)) = g.next + (-q) * Wrap
    BY <1>1, <1>2, <1>3, <1>4, <1>5, <1>6
  <1> QED
    BY <1>5, <1>7

LEMMA ToldIsPitch ==
  ASSUME Typed, cfg \in Configs, ToldPitch # 0
  PROVE  ToldPitch = frame_pitch
  <1>1. cfg.pitch = 0 => params_divisor # 0
    <2>1. PitchLines * 0 = 0
      BY DxAssumption
    <2> QED
      BY <2>1, NoConfigIsNone DEF ToldPitch
  <1> QED
    BY <1>1, NoConfigIsNone DEF ToldPitch, frame_pitch

-----------------------------------------------------------------------------
(* What EvenCodes says of the codes sent so far, and of the last of them: it sits
   half a pitch before the next place on the grid, up to the counter's range, and
   carries the frame before the next one. *)
Half(pitch) == AtLeastOne(pitch \div 2)
EngineAt(c, pitch) == c.pos + (IF c.flag = 1 THEN ShiftOf(pitch) ELSE 0)
Even(cs, pitch) ==
  \A i \in 1..(Len(cs) - 1) :
    /\ EngineFrame(cs[i + 1]) = EngineFrame(cs[i]) + 1
    /\ (EngineAt(cs[i + 1], pitch) - EngineAt(cs[i], pitch)) % Wrap
         = Half(pitch) % Wrap
LastSent(cs, pitch, next, frame) ==
  /\ EngineFrame(cs[Len(cs)]) = frame - 1
  /\ \E q \in Int : EngineAt(cs[Len(cs)], pitch) = next - Half(pitch) + q * Wrap

LEMMA Evenly == EvenCodes <=> (ToldPitch # 0 => Even(codes, ToldPitch))
  BY DEF EvenCodes, Even, EnginePos, EngineAt, Half

(* Once placed, the grid is past the slot shift, so that no code after the first
   is skipped. *)
Told == cfg # NoConfig /\ ToldPitch # 0
EvenInv ==
  Told =>
    /\ Even(codes, ToldPitch)
    /\ active /\ next_code # None => next_code >= ShiftOf(ToldPitch)
    /\ active /\ codes # <<>> =>
         next_code # None /\ LastSent(codes, ToldPitch, next_code, frame_raw)

(* With a pitch told, a film reply with a code to send does send it, and what
   the engine reads from it is as meant. *)
LEMMA ToldReply ==
  ASSUME Typed, EvenInv, Told, EdgeWait >= 1, NEW r \in Replies, on_response_film(r)
  PROVE  LET g == Grid(LatchedEdge(r))
         IN  /\ active /\ cfg \in Configs /\ ToldPitch = frame_pitch
             /\ g.next \in Nat => g.next >= ShiftOf(ToldPitch)
             /\ next_code # None => g.next = next_code /\ g.frame = frame_raw
             /\ \/ Waits(g)
                \/ /\ g.next \in Nat /\ g.frame \in Nat /\ Emits(g)
                   /\ Code(g) \in Codes /\ EngineFrame(Code(g)) = g.frame
                   /\ \E q \in Int : EngineAt(Code(g), ToldPitch) = g.next + q * Wrap
  <1> DEFINE edge == LatchedEdge(r)
             g == Grid(edge)
  <1>1. /\ cfg \in Configs /\ edge \in Nat \union {None}
        /\ g.next \in Nat \union {None} /\ g.frame \in Nat
        /\ \/ Waits(g)
           \/ g.next \in Nat /\ SentAt(g) < 0 /\ Skips(g)
           \/ g.next \in Nat /\ g.frame <= 127 /\ SentAt(g) \in Nat /\ Emits(g)
              /\ Code(g) \in Codes
    BY FilmReply
  <1>2. active
    BY DEF on_response_film
  <1>3. ToldPitch = frame_pitch
    BY <1>1, ToldIsPitch DEF Told
  <1>4. frame_pitch \in Nat \ {0} /\ ShiftOf(frame_pitch) \in 0..frame_pitch
    BY PitchTyped, RoundedTyped
  <1>5. next_code # None => g.next = next_code /\ g.frame = frame_raw
    <2>1. next_code # None => g = Place(next_code, frame_raw)
      BY <1>1, GridTyped
    <2> HIDE DEF g
    <2> QED
      BY <2>1 DEF Place
  <1>6. g.next \in Nat => g.next >= ShiftOf(ToldPitch)
    <2> SUFFICES ASSUME g.next \in Nat PROVE g.next >= ShiftOf(ToldPitch)
      OBVIOUS
    <2>1. CASE next_code # None
      BY <1>2, <1>5, <2>1 DEF EvenInv
    <2>2. CASE next_code = None /\ edge # None
      <3>1. g = Anchored(edge) /\ edge \in Nat
        BY <1>1, <2>2 DEF Grid
      <3> QED
        BY <1>1, <1>3, <3>1, AnchoredTyped
    <2>3. CASE next_code = None /\ edge = None
      <3>1. g.next >= Now /\ Now >= frame_pitch * EdgeWait
        BY <1>1, <2>3, GridTyped DEF None
      <3>2. frame_pitch * EdgeWait >= frame_pitch /\ frame_pitch * EdgeWait \in Nat
        BY <1>4, DxAssumption
      <3>3. Now \in Nat
        BY NowTyped
      <3> HIDE DEF g
      <3> QED
        BY <1>3, <1>4, <3>1, <3>2, <3>3
    <2> QED
      BY <2>1, <2>2, <2>3
  <1>7. g.next \in Nat => ~(SentAt(g) < 0)
    <2> HIDE DEF g
    <2> QED
      BY <1>3, <1>4, <1>6 DEF SentAt
  <1>8. \/ Waits(g)
        \/ /\ g.next \in Nat /\ g.frame \in 0..127 /\ SentAt(g) \in Nat /\ Emits(g)
           /\ Code(g) \in Codes
    <2> HIDE DEF g
    <2> QED
      BY <1>1, <1>7
  <1> HIDE DEF g, edge
  <1>9. g.next \in Nat /\ g.frame \in 0..127 /\ SentAt(g) \in Nat =>
          /\ EngineFrame(Code(g)) = g.frame
          /\ \E q \in Int : EngineAt(Code(g), ToldPitch) = g.next + q * Wrap
    BY <1>1, <1>3, FrameDecoded, PositionKept DEF EnginePos, EngineAt
  <1>10. \/ Waits(g)
         \/ /\ g.next \in Nat /\ g.frame \in Nat /\ Emits(g)
            /\ Code(g) \in Codes /\ EngineFrame(Code(g)) = g.frame
            /\ \E q \in Int : EngineAt(Code(g), ToldPitch) = g.next + q * Wrap
    BY <1>1, <1>8, <1>9
  <1> QED
    BY <1>1, <1>2, <1>3, <1>5, <1>6, <1>10 DEF g, edge

(* Two codes half a pitch apart on the grid are so on the engine's counter. *)
LEMMA Apart ==
  ASSUME NEW a, NEW b, NEW n \in Int, NEW h \in Nat, NEW p \in Int, NEW q \in Int,
         a = n - h + p * Wrap, b = n + q * Wrap
  PROVE  (b - a) % Wrap = h % Wrap
  <1>1. Wrap \in Int
    BY WrapTyped
  <1>2. p * Wrap \in Int /\ q * Wrap \in Int /\ (q - p) * Wrap = q * Wrap - p * Wrap
    BY <1>1
  <1>3. b - a = h + (q - p) * Wrap
    BY <1>2
  <1> QED
    BY <1>3, Congruent

LEMMA EvenAppend ==
  ASSUME NEW cs \in Seq(Codes), NEW c \in Codes, NEW pitch \in Nat, NEW next \in Nat,
         NEW frame \in Nat, EngineFrame(c) = frame, Even(cs, pitch),
         \E q \in Int : EngineAt(c, pitch) = next + q * Wrap,
         cs # <<>> => LastSent(cs, pitch, next, frame)
  PROVE  /\ Even(Append(cs, c), pitch)
         /\ LastSent(Append(cs, c), pitch, next + Half(pitch), frame + 1)
  <1> DEFINE ds == Append(cs, c)
             h == Half(pitch)
  <1>1. /\ Len(cs) \in Nat /\ Len(ds) = Len(cs) + 1 /\ ds[Len(ds)] = c
        /\ \A i \in 1..Len(cs) : ds[i] = cs[i]
    OBVIOUS
  <1>2. h \in Nat
    BY DEF Half, AtLeastOne
  <1>3. PICK q \in Int : EngineAt(c, pitch) = next + q * Wrap
    OBVIOUS
  <1> HIDE DEF ds, h
  <1>4. LastSent(ds, pitch, next + h, frame + 1)
    <2>1. q * Wrap \in Int
      BY WrapTyped
    <2>2. next + q * Wrap = (next + h) - h + q * Wrap
      BY <1>2, <2>1
    <2> QED
      BY <1>1, <1>3, <2>2 DEF LastSent, h
  <1>5. Even(ds, pitch)
    <2> SUFFICES ASSUME NEW i \in 1..(Len(ds) - 1)
                 PROVE  /\ EngineFrame(ds[i + 1]) = EngineFrame(ds[i]) + 1
                        /\ (EngineAt(ds[i + 1], pitch) - EngineAt(ds[i], pitch)) % Wrap
                             = h % Wrap
      BY DEF Even, h
    <2>1. CASE i < Len(cs)
      <3>1. i \in 1..(Len(cs) - 1) /\ ds[i] = cs[i] /\ ds[i + 1] = cs[i + 1]
        BY <1>1, <2>1
      <3> QED
        BY <3>1 DEF Even, h
    <2>2. CASE i = Len(cs)
      <3>1. ds[i + 1] = c /\ ds[i] = cs[Len(cs)] /\ cs # <<>>
        BY <1>1, <2>2
      <3>2. EngineFrame(cs[Len(cs)]) = frame - 1
        BY <3>1 DEF LastSent
      <3>3. PICK p \in Int :
              EngineAt(cs[Len(cs)], pitch) = next - h + p * Wrap
        BY <3>1 DEF LastSent, h
      <3>4. (EngineAt(c, pitch) - EngineAt(cs[Len(cs)], pitch)) % Wrap = h % Wrap
        BY <1>2, <1>3, <3>3, Apart
      <3> QED
        BY <3>1, <3>2, <3>4
    <2> QED
      BY <1>1, <2>1, <2>2
  <1> QED
    BY <1>4, <1>5 DEF ds, h

LEMMA EvenStep ==
  ASSUME Typed, EvenInv, EdgeWait >= 1, [Next]_vars
  PROVE  EvenInv'
  <1> USE DEF scanner, scan, strip, engine, history
  <1>1. ASSUME UNCHANGED <<cfg, params_divisor, codes, next_code, frame_raw>>,
               active' => active
        PROVE  EvenInv'
    BY <1>1 DEF EvenInv, Told, ToldPitch
  <1>2. CASE Trigger
    <2>1. codes' = <<>> /\ (active' => next_code' = None)
      BY <1>2 DEF Trigger
    <2>2. \A pitch : Even(<<>>, pitch)
      BY DEF Even
    <2> QED
      BY <2>1, <2>2 DEF EvenInv
  <1>3. CASE ScanStop \/ MotorGo \/ MotorIdle
    <2>1. /\ UNCHANGED <<cfg, params_divisor, codes, next_code, frame_raw>>
          /\ active' => active
      BY <1>3 DEF ScanStop, MotorGo, MotorIdle
    <2> QED
      BY <1>1, <2>1
  <1>4. CASE _fake_event \/ Advance \/ FilmArrives \/ LampWrite \/ MeasureLine
               \/ UNCHANGED vars
    <2>1. UNCHANGED <<cfg, params_divisor, codes, next_code, frame_raw, active>>
      BY <1>4 DEF _fake_event, Advance, FilmArrives, LampWrite, MeasureLine, vars
    <2> QED
      BY <1>1, <2>1
  <1>5. CASE ReadSensor
    <2>1. PICK r \in Replies :
            on_response_film(r) \/ on_response_code(r) \/ on_response_other
      BY <1>5 DEF ReadSensor
    <2>2. CASE on_response_code(r) \/ on_response_other
      <3>1. UNCHANGED <<cfg, params_divisor, codes, next_code, frame_raw, active>>
        BY <2>2 DEF on_response_code, on_response_other
      <3> QED
        BY <1>1, <3>1
    <2>3. CASE on_response_film(r)
      <3> DEFINE g == Grid(LatchedEdge(r))
      <3>1. UNCHANGED <<cfg, params_divisor, active>>
        BY <2>3 DEF on_response_film
      <3>2. (Told' <=> Told) /\ ToldPitch' = ToldPitch
        BY <3>1 DEF Told, ToldPitch
      <3> SUFFICES ASSUME Told
                   PROVE  /\ Even(codes', ToldPitch)
                          /\ next_code' # None => next_code' >= ShiftOf(ToldPitch)
                          /\ codes' # <<>> =>
                               /\ next_code' # None
                               /\ LastSent(codes', ToldPitch, next_code', frame_raw')
        BY <3>2 DEF EvenInv
      <3>3. /\ active /\ cfg \in Configs /\ ToldPitch = frame_pitch
            /\ g.next \in Nat => g.next >= ShiftOf(ToldPitch)
            /\ next_code # None => g.next = next_code /\ g.frame = frame_raw
            /\ \/ Waits(g)
               \/ /\ g.next \in Nat /\ g.frame \in Nat /\ Emits(g)
                  /\ Code(g) \in Codes /\ EngineFrame(Code(g)) = g.frame
                  /\ \E q \in Int : EngineAt(Code(g), ToldPitch) = g.next + q * Wrap
        BY <2>3, ToldReply
      <3>4. g.next \in Nat \union {None}
        BY <2>3, FilmReply
      <3>5. codes \in Seq(Codes) /\ Even(codes, ToldPitch)
            /\ (codes # <<>> =>
                  next_code # None /\ LastSent(codes, ToldPitch, next_code, frame_raw))
        BY <3>3 DEF EvenInv, Typed, EngineTyped
      <3> HIDE DEF g
      <3>6. CASE Waits(g)
        BY <3>3, <3>4, <3>5, <3>6 DEF Waits
      <3>7. CASE /\ g.next \in Nat /\ g.frame \in Nat /\ Emits(g)
                 /\ Code(g) \in Codes /\ EngineFrame(Code(g)) = g.frame
                 /\ \E q \in Int : EngineAt(Code(g), ToldPitch) = g.next + q * Wrap
        <4>1. /\ next_code' = g.next + Half(ToldPitch) /\ frame_raw' = g.frame + 1
              /\ codes' = Append(codes, Code(g))
          BY <3>3, <3>7 DEF Emits, half_pitch_now, Half
        <4>2. Code(g) \in Codes
          BY <3>7
        <4>3. ToldPitch \in Nat /\ ShiftOf(ToldPitch) \in Nat /\ Half(ToldPitch) \in Nat
          BY <3>3, PitchTyped, RoundedTyped DEF Half, AtLeastOne
        <4>4. codes # <<>> => LastSent(codes, ToldPitch, g.next, g.frame)
          BY <3>3, <3>5
        <4>5. /\ Even(codes', ToldPitch)
              /\ LastSent(codes', ToldPitch, next_code', frame_raw')
          BY <3>5, <3>7, <4>1, <4>2, <4>3, <4>4, EvenAppend
        <4>6. next_code' >= ShiftOf(ToldPitch) /\ next_code' \in Nat
          BY <3>3, <3>7, <4>1, <4>3
        <4> QED
          BY <4>5, <4>6 DEF None
      <3> QED
        BY <3>3, <3>6, <3>7
    <2> QED
      BY <2>1, <2>2, <2>3
  <1> QED
    BY <1>2, <1>3, <1>4, <1>5 DEF Next

(* The engine's numbering pass accepts every strip: whenever the pitch is told,
   the codes of a strip lie one half pitch apart on its counter and their frame
   values step by one, for every pitch, lead and width of the counter, wherever
   the counter wraps and whether an edge or the fallback places the first. *)
THEOREM CodesEven ==
  ASSUME EdgeWait >= 1
  PROVE  Spec => []EvenCodes
  <1>1. Init => EvenInv
    BY DEF Init, EvenInv, Told
  <1>2. EvenInv => EvenCodes
    BY Evenly DEF EvenInv, Told, ToldPitch
  <1> QED
    BY <1>1, <1>2, EvenStep, TypedAlways, PTL DEF Spec

-----------------------------------------------------------------------------
(* Pitches that halve, and a start label that is not nearer to zero than the
   codes start early: what the labels need to mean what the file says. *)
Whole ==
  /\ \A d \in Divisors : (PitchLines * d) % 2 = 0
  /\ \A dir \in Dirs : load(dir) # NoConfig =>
       load(dir).pitch % 2 = 0 /\ load(dir).start >= lead_now(load(dir))

(* Where the grid is when it carries this frame, and codes that are on it. *)
OnGrid(origin, start, pitch, frame) == origin + (frame - start) * Half(pitch)
On(cs, origin, start, pitch) ==
  \A i \in 1..Len(cs) : \E q \in Int :
    EngineAt(cs[i], pitch)
      = OnGrid(origin, start, pitch, EngineFrame(cs[i])) + q * Wrap
Origin == film + EdgeToStart(ToldPitch)
OriginInv ==
  Told /\ firstStrip =>
    /\ active /\ next_code = None => frame_raw = FrameAtStart(cfg)
    /\ anchored =>
         /\ film # None
         /\ active => /\ next_code # None
                      /\ next_code = OnGrid(Origin, cfg.start, ToldPitch, frame_raw)
         /\ On(codes, Origin, cfg.start, ToldPitch)

LEMMA NextOnGrid ==
  ASSUME NEW origin \in Int, NEW start \in Int, NEW pitch \in Nat, NEW frame \in Int
  PROVE  /\ OnGrid(origin, start, pitch, frame + 1)
              = OnGrid(origin, start, pitch, frame) + Half(pitch)
         /\ OnGrid(origin, start, pitch, frame) \in Int
         /\ Half(pitch) \in Nat
  <1> DEFINE h == Half(pitch)
  <1>1. h \in Nat
    BY DEF Half, AtLeastOne
  <1> HIDE DEF h
  <1>2. (frame + 1 - start) * h = (frame - start) * h + h
    BY <1>1
  <1>3. (frame - start) * h \in Int
    BY <1>1
  <1>4. /\ OnGrid(origin, start, pitch, frame + 1) = origin + (frame + 1 - start) * h
        /\ OnGrid(origin, start, pitch, frame) = origin + (frame - start) * h
    BY DEF OnGrid, h
  <1> QED
    BY <1>1, <1>2, <1>3, <1>4 DEF h

LEMMA OnAppend ==
  ASSUME NEW cs \in Seq(Codes), NEW c \in Codes, NEW origin, NEW start, NEW pitch,
         On(cs, origin, start, pitch),
         \E q \in Int : EngineAt(c, pitch)
                          = OnGrid(origin, start, pitch, EngineFrame(c)) + q * Wrap
  PROVE  On(Append(cs, c), origin, start, pitch)
  <1> DEFINE ds == Append(cs, c)
  <1>1. /\ Len(cs) \in Nat /\ Len(ds) = Len(cs) + 1 /\ ds[Len(ds)] = c
        /\ \A i \in 1..Len(cs) : ds[i] = cs[i]
    OBVIOUS
  <1> HIDE DEF ds
  <1> SUFFICES ASSUME NEW i \in 1..Len(ds)
               PROVE  \E q \in Int : EngineAt(ds[i], pitch)
                        = OnGrid(origin, start, pitch, EngineFrame(ds[i])) + q * Wrap
    BY DEF On, ds
  <1>2. CASE i \in 1..Len(cs)
    <2>1. ds[i] = cs[i]
      BY <1>1, <1>2
    <2> QED
      BY <1>2, <2>1 DEF On
  <1>3. CASE i = Len(ds)
    BY <1>1, <1>3
  <1> QED
    BY <1>1, <1>2, <1>3

(* The first code that an edge places is on the grid of the film's edge. *)
LEMMA AnchorOnGrid ==
  ASSUME Typed, EdgeInv, Told, Whole, cfg \in Configs, cfg.numbers,
         frame_raw = FrameAtStart(cfg), NEW edge \in Nat
  PROVE  Anchored(edge).next
           = OnGrid(edge + EdgeToStart(ToldPitch), cfg.start, ToldPitch,
                    Anchored(edge).frame)
  <1> DEFINE p == frame_pitch
             h == half_pitch_now
             l == lead_now(cfg)
             E == EdgeToStart(p)
             first == edge + E - l * h
             Fits(k) == /\ first + k * p >= ShiftOf(p)
                        /\ k > 0 => first + (k - 1) * p < ShiftOf(p)
             frames == CHOOSE k \in 0..9 : Fits(k)
  <1>1. ToldPitch = p /\ p \in Nat \ {0} /\ h \in Nat /\ h = Half(p)
    BY ToldIsPitch, PitchTyped DEF Told, half_pitch_now, Half
  <1>2. p = 2 * h
    <2>1. PICK dir \in Dirs : cfg = load(dir)
      BY DEF EdgeInv, Told
    <2>2. cfg.pitch % 2 = 0
      BY <2>1, NoConfigIsNone DEF Whole
    <2>3. params_divisor # 0 => (PitchLines * params_divisor) % 2 = 0
      BY DEF Whole, Typed, ScanTyped
    <2>4. cfg.pitch = 0 => params_divisor # 0
      <3>1. PitchLines * 0 = 0
        BY DxAssumption
      <3> QED
        BY <3>1 DEF Told, ToldPitch
    <2>5. p % 2 = 0
      BY <2>2, <2>3, <2>4 DEF frame_pitch, Told
    <2> HIDE DEF p
    <2> QED
      BY <1>1, <2>5 DEF Half, AtLeastOne
  <1>3. l \in 0..8 /\ cfg.start \in 0..127 /\ cfg.start >= l
    <2>1. PICK dir \in Dirs : cfg = load(dir)
      BY DEF EdgeInv, Told
    <2>2. cfg.start >= l
      BY <2>1, NoConfigIsNone DEF Whole
    <2> QED
      BY <2>2 DEF Configs, lead_now, picture_lead
  <1>4. frame_raw = cfg.start - l
    <2> DEFINE d == cfg.start - l
    <2>1. d \in Nat
      BY <1>3
    <2> HIDE DEF d
    <2>2. \A y \in {0, d} : d >= y
      BY <2>1
    <2>3. Max({0, d}) \in {0, d} /\ \A y \in {0, d} : Max({0, d}) >= y
      BY <2>2 DEF Max
    <2>4. Max({0, d}) = d
      BY <2>1, <2>3
    <2> QED
      BY <2>4 DEF FrameAtStart, d
  <1>5. E \in Nat /\ ShiftOf(p) \in Nat
    BY <1>1, RoundedTyped
  <1>6. l * h + ShiftOf(p) <= 9 * p /\ l * h \in Nat
    BY LeadBound
  <1>0. /\ Anchored(edge).next = first + frames * p
        /\ Anchored(edge).frame = frame_raw + 2 * frames
    BY DEF Anchored, Place
  <1> HIDE DEF p, h, l, E
  <1>7. first \in Int /\ first + 9 * p >= ShiftOf(p)
    BY <1>1, <1>5, <1>6
  <1> HIDE DEF first
  <1>8. \E k \in 0..9 : Fits(k)
    BY <1>1, <1>5, <1>7, MovedOn
  <1>9. frames \in 0..9
    BY <1>8
  <1> HIDE DEF frames
  <1>10. OnGrid(edge + E, cfg.start, p, frame_raw + 2 * frames)
           = edge + E + (2 * frames - l) * h
    <2> DEFINE s == cfg.start
    <2>1. s \in Int /\ l \in Int /\ frames \in Int /\ frame_raw = s - l
      BY <1>3, <1>4, <1>9
    <2> HIDE DEF s
    <2> DEFINE f == frame_raw + 2 * frames
    <2> HIDE DEF f
    <2>2. OnGrid(edge + E, s, p, f) = edge + E + (f - s) * h
      BY <1>1 DEF OnGrid
    <2>3. f - s = 2 * frames - l
      BY <2>1 DEF f
    <2> QED
      BY <2>2, <2>3, Zenon DEF f, s
  <1>11. frames * p = 2 * frames * h /\ (2 * frames - l) * h = 2 * frames * h - l * h
    BY <1>1, <1>2, <1>3, <1>9
  <1>12. 2 * frames * h \in Int
    BY <1>1, <1>9
  <1>13. first + frames * p = edge + E + (2 * frames - l) * h
    BY <1>5, <1>6, <1>11, <1>12 DEF first
  <1> QED
    BY <1>0, <1>1, <1>10, <1>13 DEF E

LEMMA OriginStep ==
  ASSUME Typed, EvenInv, EdgeInv, EdgeInv', OriginInv, Whole, EdgeWait >= 1,
         [Next]_vars
  PROVE  OriginInv'
  <1> USE DEF scanner, scan, strip, engine, history
  <1>1. ASSUME UNCHANGED <<cfg, params_divisor, codes, next_code, frame_raw,
                           firstStrip, anchored, film>>, active' => active
        PROVE  OriginInv'
    BY <1>1 DEF OriginInv, Told, ToldPitch, Origin, FrameAtStart, lead_now,
                picture_lead
  <1>2. CASE Trigger
    <2>0. PICK set \in Settings :
            /\ cfg' = set.file /\ active' = (set.file # NoConfig)
            /\ set.file # NoConfig =>
                 /\ frame_raw' = IF NewStrip THEN frame_raw
                                 ELSE FrameAtStart(set.file)
                 /\ firstStrip' = ~moving /\ anchored' = FALSE
      BY <1>2 DEF Trigger
    <2>1. Told' => set.file # NoConfig
      BY <2>0 DEF Told
    <2>2. Told' /\ firstStrip' => frame_raw' = FrameAtStart(cfg)'
      BY <2>0, <2>1 DEF NewStrip, FrameAtStart, lead_now, picture_lead
    <2> QED
      BY <2>0, <2>1, <2>2 DEF OriginInv
  <1>3. CASE ScanStop \/ MotorGo \/ MotorIdle
    <2>1. /\ UNCHANGED <<cfg, params_divisor, codes, next_code, frame_raw,
                         firstStrip, anchored, film>>
          /\ active' => active
      BY <1>3 DEF ScanStop, MotorGo, MotorIdle
    <2> QED
      BY <1>1, <2>1
  <1>4. CASE _fake_event \/ Advance \/ LampWrite \/ MeasureLine \/ UNCHANGED vars
    <2>1. UNCHANGED <<cfg, params_divisor, codes, next_code, frame_raw,
                      firstStrip, anchored, film, active>>
      BY <1>4 DEF _fake_event, Advance, LampWrite, MeasureLine, vars
    <2> QED
      BY <1>1, <2>1
  <1>5. CASE FilmArrives
    <2>1. /\ film = None
          /\ UNCHANGED <<cfg, params_divisor, codes, next_code, frame_raw,
                         firstStrip, anchored, active>>
      BY <1>5 DEF FilmArrives
    <2>2. (Told' <=> Told) /\ FrameAtStart(cfg)' = FrameAtStart(cfg)
      BY <2>1 DEF Told, ToldPitch, FrameAtStart, lead_now, picture_lead
    <2>3. Told /\ firstStrip => ~anchored
      BY <2>1 DEF OriginInv
    <2> QED
      BY <2>1, <2>2, <2>3 DEF OriginInv
  <1>6. CASE ReadSensor
    <2>1. PICK r \in Replies :
            on_response_film(r) \/ on_response_code(r) \/ on_response_other
      BY <1>6 DEF ReadSensor
    <2>0. film' = film
      BY <1>6 DEF ReadSensor
    <2>2. CASE on_response_code(r) \/ on_response_other
      <3>1. UNCHANGED <<cfg, params_divisor, codes, next_code, frame_raw,
                        firstStrip, anchored, active>>
        BY <2>2 DEF on_response_code, on_response_other
      <3> QED
        BY <1>1, <2>0, <3>1
    <2>3. CASE on_response_film(r)
      <3> DEFINE edge == LatchedEdge(r)
                 g == Grid(edge)
      <3>1. /\ UNCHANGED <<cfg, params_divisor, active, firstStrip>>
            /\ cfg.numbers /\ film_edge' = edge
            /\ anchored' = (anchored \/ (next_code = None /\ edge # None))
        BY <2>3 DEF on_response_film, _film_reply
      <3>2. /\ Told' <=> Told
            /\ ToldPitch' = ToldPitch /\ Origin' = Origin
            /\ FrameAtStart(cfg)' = FrameAtStart(cfg)
        BY <2>0, <3>1 DEF Told, ToldPitch, Origin, FrameAtStart, lead_now,
                          picture_lead
      <3> SUFFICES ASSUME Told, firstStrip PROVE OriginInv'
        BY <3>1, <3>2 DEF OriginInv
      <3>3. /\ active /\ cfg \in Configs /\ ToldPitch = frame_pitch
            /\ next_code # None => g.next = next_code /\ g.frame = frame_raw
            /\ \/ Waits(g)
               \/ /\ g.next \in Nat /\ g.frame \in Nat /\ Emits(g)
                  /\ Code(g) \in Codes /\ EngineFrame(Code(g)) = g.frame
                  /\ \E q \in Int : EngineAt(Code(g), ToldPitch) = g.next + q * Wrap
        BY <2>3, ToldReply
      <3>4. edge \in Nat \union {None} /\ g.frame \in Nat
        BY <2>3, FilmReply
      <3>5. anchored' => film # None /\ edge = film /\ film \in Nat
        <4>1. anchored' => film # None /\ edge = film
          BY <2>0, <3>1, <3>3 DEF EdgeInv
        <4> QED
          BY <4>1 DEF Typed, PositionTyped
      <3>6. anchored' => /\ g.next # None
                         /\ g.next = OnGrid(Origin, cfg.start, ToldPitch, g.frame)
                         /\ On(codes, Origin, cfg.start, ToldPitch)
        <4> SUFFICES ASSUME anchored'
                     PROVE  /\ g.next # None
                            /\ g.next = OnGrid(Origin, cfg.start, ToldPitch, g.frame)
                            /\ On(codes, Origin, cfg.start, ToldPitch)
          OBVIOUS
        <4>1. CASE anchored
          BY <3>3, <4>1 DEF OriginInv
        <4>2. CASE ~anchored
          <5>1. next_code = None /\ edge # None
            BY <3>1, <4>2
          <5>2. codes = <<>>
            BY <3>3, <5>1 DEF EvenInv
          <5>3. On(codes, Origin, cfg.start, ToldPitch)
            BY <5>2 DEF On
          <5>4. g = Anchored(edge) /\ edge \in Nat
            BY <3>4, <5>1 DEF Grid
          <5>5. frame_raw = FrameAtStart(cfg)
            BY <3>3, <5>1 DEF OriginInv
          <5>6. Anchored(edge).next
                  = OnGrid(edge + EdgeToStart(ToldPitch), cfg.start, ToldPitch,
                           Anchored(edge).frame)
            BY <3>1, <3>3, <5>4, <5>5, AnchorOnGrid
          <5>7. Anchored(edge).next # None
            BY <3>3, <5>4, AnchoredTyped DEF None
          <5> QED
            BY <3>5, <5>3, <5>4, <5>6, <5>7 DEF Origin
        <4> QED
          BY <4>1, <4>2
      <3>7. next_code' = None => Waits(g) /\ g.next = None
        <4>1. half_pitch_now \in Nat
          BY PitchTyped
        <4>2. g.next \in Nat => g.next + half_pitch_now # None
          BY <4>1 DEF None
        <4> HIDE DEF g
        <4> QED
          BY <3>3, <4>2 DEF Waits, Emits
      <3>8. next_code' = None => frame_raw' = FrameAtStart(cfg)
        <4> SUFFICES ASSUME next_code' = None PROVE frame_raw' = FrameAtStart(cfg)
          OBVIOUS
        <4>1. next_code = None /\ g.next = None
          BY <3>3, <3>7
        <4>2. edge = None
          BY <3>3, <3>4, <4>1, GridTyped
        <4>3. g = Place(None, frame_raw)
          BY <4>1, <4>2, <3>3, GridTyped, NowTyped DEF Grid, Place, None
        <4> QED
          BY <3>3, <3>7, <4>1, <4>3 DEF OriginInv, Waits, Place
      <3> SUFFICES ASSUME anchored'
                   PROVE  /\ next_code' # None
                          /\ next_code' = OnGrid(Origin, cfg.start, ToldPitch, frame_raw')
                          /\ On(codes', Origin, cfg.start, ToldPitch)
        BY <2>0, <3>1, <3>2, <3>3, <3>5, <3>8 DEF OriginInv
      <3>9. /\ Origin \in Int /\ cfg.start \in Int /\ ToldPitch \in Nat
        BY <3>3, <3>5, PitchTyped, RoundedTyped DEF Origin, Configs
      <3> HIDE DEF g, edge
      <3>10. CASE Waits(g)
        BY <3>6, <3>10 DEF Waits
      <3>11. CASE /\ g.next \in Nat /\ g.frame \in Nat /\ Emits(g)
                  /\ Code(g) \in Codes /\ EngineFrame(Code(g)) = g.frame
                  /\ \E q \in Int : EngineAt(Code(g), ToldPitch) = g.next + q * Wrap
        <4>1. /\ next_code' = g.next + Half(ToldPitch) /\ frame_raw' = g.frame + 1
              /\ codes' = Append(codes, Code(g))
          BY <3>3, <3>11 DEF Emits, half_pitch_now, Half
        <4>2. next_code' = OnGrid(Origin, cfg.start, ToldPitch, frame_raw')
          <5>1. OnGrid(Origin, cfg.start, ToldPitch, g.frame + 1)
                  = OnGrid(Origin, cfg.start, ToldPitch, g.frame)
                      + Half(ToldPitch)
            <6>1. g.frame \in Int
              BY <3>4
            <6> QED
              BY <3>9, <6>1, NextOnGrid
          <5>2. Half(ToldPitch) \in Nat
            BY <3>9 DEF Half, AtLeastOne
          <5> QED
            BY <3>6, <4>1, <5>1, <5>2
        <4>3. next_code' # None
          <5>1. Half(ToldPitch) \in Nat
            BY <3>9 DEF Half, AtLeastOne
          <5> QED
            BY <3>11, <4>1, <5>1 DEF None
        <4>4. codes \in Seq(Codes)
          BY DEF Typed, EngineTyped
        <4>5. On(codes', Origin, cfg.start, ToldPitch)
          BY <3>6, <3>11, <4>1, <4>4, OnAppend
        <4> QED
          BY <4>2, <4>3, <4>5
      <3> QED
        BY <3>3, <3>10, <3>11
    <2> QED
      BY <2>1, <2>2, <2>3
  <1> QED
    BY <1>2, <1>3, <1>4, <1>5, <1>6 DEF Next

LEMMA OriginSuffices ==
  ASSUME Typed, OriginInv, cfg \in Configs
  PROVE  AnchoredLabels
  <1> SUFFICES ASSUME firstStrip, anchored, ToldPitch # 0, NEW i \in 1..Len(codes)
               PROVE  (EnginePos(codes[i]) - film - EdgeToStart(ToldPitch)
                        - (EngineFrame(codes[i]) - cfg.start)
                            * AtLeastOne(ToldPitch \div 2)) % Wrap = 0
    BY DEF AnchoredLabels
  <1> DEFINE f == EngineFrame(codes[i])
             h == Half(ToldPitch)
             e == EngineAt(codes[i], ToldPitch)
             E == EdgeToStart(ToldPitch)
             s == cfg.start
  <1>0. Told
    BY NoConfigIsNone DEF Told
  <1>1. PICK q \in Int : e = film + E + (f - s) * h + q * Wrap
    BY <1>0 DEF OriginInv, On, OnGrid, Origin
  <1>2. ToldPitch \in Nat
    BY <1>0, ToldIsPitch, PitchTyped DEF Told
  <1>3. h \in Nat /\ E \in Nat
    <2>1. h \in Nat
      BY <1>2 DEF Half, AtLeastOne
    <2>2. E \in Nat
      BY <1>2, RoundedTyped
    <2> QED
      BY <2>1, <2>2
  <1>4. film \in Int /\ s \in Int
    <2>1. film \in {None} \union Nat
      BY DEF Typed, PositionTyped
    <2>2. film \in Int
      BY <2>1 DEF None
    <2>3. s \in 0..127
      BY DEF Configs
    <2> HIDE DEF s
    <2> QED
      BY <2>2, <2>3
  <1>5. f \in Int
    <2>1. codes[i] \in Codes
      BY DEF Typed, EngineTyped
    <2>2. codes[i].data[2] \in 0..255 /\ codes[i].data[3] \in 0..255
      BY <2>1 DEF Codes, Bytes
    <2> DEFINE d2 == codes[i].data[2]
               d3 == codes[i].data[3]
    <2>3. f = (d2 \div 4) + (d3 % 2) * 64
      BY DEF EngineFrame, decode_entry
    <2> HIDE DEF d2, d3
    <2>5. d2 \in 0..255 /\ d3 \in 0..255
      BY <2>2 DEF d2, d3
    <2>4. (d2 \div 4) \in Int /\ (d3 % 2) \in Int
      BY <2>5
    <2> QED
      BY <2>3, <2>4
  <1>6. EnginePos(codes[i]) = e
    BY DEF EnginePos, EngineAt
  <1>7. h = AtLeastOne(ToldPitch \div 2)
    BY DEF Half
  <1> HIDE DEF f, h, e, E, s
  <1>8. (f - s) * h \in Int /\ q * Wrap \in Int
    BY <1>3, <1>4, <1>5, WrapTyped
  <1>9. e - film - E - (f - s) * h = 0 + q * Wrap
    BY <1>1, <1>3, <1>4, <1>8
  <1>10. (0 + q * Wrap) % Wrap = 0 % Wrap /\ 0 % Wrap = 0
    <2>1. 0 % Wrap = 0
      BY WrapTyped
    <2>2. (0 + q * Wrap) % Wrap = 0 % Wrap
      <3>1. 0 \in Int /\ q \in Int
        OBVIOUS
      <3> QED
        BY ONLY <3>1, Congruent
    <2> QED
      BY <2>1, <2>2
  <1> QED
    BY <1>6, <1>7, <1>9, <1>10 DEF f, E, s

(* In the first strip of a roll every code lies where its label says it does,
   measured from where the film's edge really passed, for every pitch that
   halves and every lead up to the start label, however often the first code was
   moved on and the counter wrapped. *)
THEOREM LabelsAnchored ==
  ASSUME Slow, Soon, Whole, EdgeWait >= 1
  PROVE  Spec => []AnchoredLabels
  <1>1. Init => ReadInv /\ EdgeInv /\ EvenInv /\ OriginInv
    BY DxAssumption DEF Init, ReadInv, EdgeInv, EvenInv, OriginInv, Told, None
  <1>2. Typed /\ ReadInv /\ EdgeInv /\ EvenInv /\ OriginInv /\ [Next]_vars
          => ReadInv' /\ EdgeInv' /\ EvenInv' /\ OriginInv'
    BY ReadStep, EdgeStep, EvenStep, OriginStep
  <1>3. Typed /\ OriginInv => AnchoredLabels
    <2> SUFFICES ASSUME Typed, OriginInv PROVE AnchoredLabels
      OBVIOUS
    <2>1. cfg = NoConfig => AnchoredLabels
      BY DEF AnchoredLabels, ToldPitch
    <2> QED
      BY <2>1, OriginSuffices DEF Typed, ConfigTyped
  <1> QED
    BY <1>1, <1>2, <1>3, TypedAlways, PTL DEF Spec

-----------------------------------------------------------------------------
(* Parity.  The spare bit is an even byte's bit 0: setting it adds one to the
   bits that are set. *)
SetBits(v) == {i \in 0..7 : Bit(v, i) = 1}

LEMMA BitsAbove ==
  ASSUME NEW v \in 0..254, v % 2 = 0, NEW i \in 1..7
  PROVE  Bit(v + 1, i) = Bit(v, i)
  <1>1. \A n \in {2, 4, 8, 16, 32, 64, 128} : (v + 1) \div n = v \div n
    <2> SUFFICES ASSUME NEW n \in {2, 4, 8, 16, 32, 64, 128}
                 PROVE  (v + 1) \div n = v \div n
      OBVIOUS
    <2>1. CASE n = 2
      BY <2>1
    <2>2. CASE n = 4
      BY <2>2
    <2>3. CASE n = 8
      BY <2>3
    <2>4. CASE n = 16
      BY <2>4
    <2>5. CASE n = 32
      BY <2>5
    <2>6. CASE n = 64
      BY <2>6
    <2>7. CASE n = 128
      BY <2>7
    <2> QED
      BY <2>1, <2>2, <2>3, <2>4, <2>5, <2>6, <2>7
  <1>2. 2^i \in {2, 4, 8, 16, 32, 64, 128}
    <2>1. /\ 2^1 = 2 /\ 2^2 = 4 /\ 2^3 = 8 /\ 2^4 = 16 /\ 2^5 = 32 /\ 2^6 = 64
          /\ 2^7 = 128
      OBVIOUS
    <2>2. i = 1 \/ i = 2 \/ i = 3 \/ i = 4 \/ i = 5 \/ i = 6 \/ i = 7
      OBVIOUS
    <2>3. i = 1 => 2^i = 2
      BY ONLY <2>1, Zenon
    <2>4. i = 2 => 2^i = 4
      BY ONLY <2>1, Zenon
    <2>5. i = 3 => 2^i = 8
      BY ONLY <2>1, Zenon
    <2>6. i = 4 => 2^i = 16
      BY ONLY <2>1, Zenon
    <2>7. i = 5 => 2^i = 32
      BY ONLY <2>1, Zenon
    <2>8. i = 6 => 2^i = 64
      BY ONLY <2>1, Zenon
    <2>9. i = 7 => 2^i = 128
      BY ONLY <2>1, Zenon
    <2> QED
      BY ONLY <2>2, <2>3, <2>4, <2>5, <2>6, <2>7, <2>8, <2>9
  <1> QED
    BY <1>1, <1>2 DEF Bit

LEMMA BitsCounted ==
  ASSUME NEW v
  PROVE  /\ IsFiniteSet(SetBits(v))
         /\ popcount(v) \in Nat /\ popcount(v) = Cardinality(SetBits(v))
  <1>1. IsFiniteSet(0..7)
    <2>1. 0 \in Int /\ 7 \in Int
      OBVIOUS
    <2> QED
      BY ONLY <2>1, FS_Interval, Zenon
  <1>2. SetBits(v) \subseteq 0..7
    BY DEF SetBits
  <1>3. IsFiniteSet(SetBits(v))
    BY <1>1, <1>2, FS_Subset
  <1> QED
    BY <1>3, FS_CardinalityType DEF popcount, SetBits

LEMMA SpareBit ==
  ASSUME NEW v \in 0..254, v % 2 = 0
  PROVE  popcount(v + 1) = popcount(v) + 1
  <1>1. Bit(v, 0) = 0 /\ Bit(v + 1, 0) = 1
    <2>1. 2^0 = 1
      OBVIOUS
    <2>2. v \div 1 = v /\ (v + 1) \div 1 = v + 1 /\ (v + 1) % 2 = 1
      OBVIOUS
    <2> QED
      BY <2>1, <2>2 DEF Bit
  <1>2. \A i \in 0..7 : i = 0 \/ i \in 1..7
    OBVIOUS
  <1>3. \A i \in 1..7 : Bit(v + 1, i) = Bit(v, i)
    BY BitsAbove
  <1>4. SetBits(v + 1) = SetBits(v) \union {0} /\ 0 \notin SetBits(v)
    BY <1>1, <1>2, <1>3 DEF SetBits
  <1>5. IsFiniteSet(SetBits(v))
    BY BitsCounted
  <1>6. Cardinality(SetBits(v) \union {0}) = Cardinality(SetBits(v)) + 1
    BY <1>4, <1>5, FS_AddElement
  <1> QED
    BY <1>4, <1>6, BitsCounted

(* The engine's parser accepts the entry and reads this back from it. *)
Decodes(data, product, generation, frame) ==
  LET e == decode_entry(data)
  IN  e.valid /\ e.product = product /\ e.generation = generation /\ e.frame = frame

(* What encode_entry builds passes the parser, with what it was built from:
   with the frame's parity in byte 0, or anything that has it. *)
LEMMA EntryDecoded ==
  ASSUME NEW product \in 0..127, NEW generation \in 0..15, NEW frame \in 0..127,
         NEW b \in Nat, b % 2 = frame % 2
  PROVE  Decodes([encode_entry(product, generation, frame) EXCEPT ![1] = b],
                 product, generation, frame)
  <1> DEFINE f == Fields(product, generation, frame)
             s == IF ParityOdd(f) THEN f[2] + 1 ELSE f[2]
             d == [encode_entry(product, generation, frame) EXCEPT ![1] = b]
             e == decode_entry(d)
  <1>1. /\ f[2] = (frame % 64) * 4 /\ f[4] = (product \div 4) % 32
        /\ f[3] = (product % 4) * 64 + (generation % 16) * 2 + ((frame \div 64) % 2)
        /\ DOMAIN f = 1..4
    BY DEF Fields
  <1>2. d = [[f EXCEPT ![2] = s] EXCEPT ![1] = b]
    BY DEF encode_entry
  <1> HIDE DEF f, d
  <1>3. d[1] = b /\ d[2] = s /\ d[3] = f[3] /\ d[4] = f[4]
    BY <1>1, <1>2
  <1>4. s \in {f[2], f[2] + 1} /\ f[2] \in 0..252 /\ f[2] % 2 = 0
    BY <1>1
  <1>5. ~ParityOdd(d)
    <2> DEFINE two == popcount(f[2])
               three == popcount(f[3])
               four == popcount(f[4] % 32)
    <2>1. two \in Nat /\ three \in Nat /\ four \in Nat
      BY BitsCounted
    <2>2. ParityOdd(f) <=> (two + three + four) % 2 = 1
      BY DEF ParityOdd
    <2>3. ParityOdd(d) <=> (popcount(s) + three + four) % 2 = 1
      BY <1>3 DEF ParityOdd
    <2>4. popcount(s) = IF ParityOdd(f) THEN two + 1 ELSE two
      BY <1>4, SpareBit
    <2> HIDE DEF two, three, four, s
    <2>5. CASE ParityOdd(f)
      <3>1. popcount(s) + three + four = (two + three + four) + 1
        BY <2>1, <2>4, <2>5
      <3> QED
        BY <2>1, <2>2, <2>3, <2>5, <3>1
    <2>6. CASE ~ParityOdd(f)
      BY <2>2, <2>3, <2>4, <2>6
    <2> QED
      BY <2>5, <2>6
  <1> HIDE DEF s
  <1>6. Bit(d[3], 5) = 0 /\ Bit(d[2], 1) = 0
    <2>1. 2^5 = 32 /\ 2^1 = 2
      OBVIOUS
    <2>2. (f[3] \div 32) % 2 = 0
      <3> DEFINE low == (generation % 16) * 2 + ((frame \div 64) % 2)
                 high == product % 4
      <3>1. low \in 0..31 /\ high \in 0..3 /\ f[3] = high * 64 + low
        BY <1>1
      <3> HIDE DEF low, high
      <3>2. f[3] \div 32 = high * 2
        BY <3>1
      <3> QED
        BY <3>1, <3>2
    <2>3. (s \div 2) % 2 = 0
      BY <1>1, <1>4
    <2> QED
      BY <1>3, <2>1, <2>2, <2>3 DEF Bit
  <1>7. e.frame = frame
    <2>1. s \div 4 = frame % 64
      BY <1>1, <1>4
    <2>2. f[3] % 2 = (frame \div 64) % 2
      <3> DEFINE high == (product % 4) * 32 + (generation % 16)
                 low == (frame \div 64) % 2
      <3>1. f[3] = 2 * high + low /\ high \in Nat /\ low \in 0..1
        BY <1>1
      <3> HIDE DEF high, low
      <3>2. f[3] % 2 = low
        BY <3>1
      <3> QED
        BY <3>2 DEF low
    <2>3. (frame % 64) + ((frame \div 64) % 2) * 64 = frame
      OBVIOUS
    <2> QED
      BY <1>3, <2>1, <2>2, <2>3 DEF decode_entry
  <1>8. e.product = product
    <2> DEFINE low == (generation % 16) * 2 + ((frame \div 64) % 2)
               high == product % 4
    <2>1. low \in 0..63 /\ high \in 0..3 /\ f[3] = high * 64 + low
      BY <1>1
    <2> HIDE DEF low
    <2>2. f[3] \div 64 = high
      BY <2>1
    <2>3. high + (((product \div 4) % 32) % 32) * 4 = product
      OBVIOUS
    <2> QED
      BY <1>1, <1>3, <2>2, <2>3 DEF decode_entry
  <1>9. e.generation = generation
    <2> DEFINE low == (frame \div 64) % 2
               mid == generation % 16
               high == product % 4
    <2>1. low \in 0..1 /\ mid = generation /\ high \in 0..3
          /\ f[3] = high * 64 + mid * 2 + low
      BY <1>1
    <2> HIDE DEF low, mid, high
    <2>2. f[3] \div 2 = high * 32 + mid
      BY <2>1
    <2>3. (high * 32 + mid) % 16 = mid
      BY <2>1
    <2> QED
      BY <1>3, <2>1, <2>2, <2>3 DEF decode_entry
  <1>10. e.valid
    <2>1. d[1] % 2 = e.frame % 2
      BY <1>3, <1>7
    <2>2. e.valid = /\ ~ParityOdd(d) /\ Bit(d[3], 5) = 0 /\ Bit(d[2], 1) = 0
                    /\ d[1] % 2 = e.frame % 2
      BY Zenon DEF decode_entry
    <2> QED
      BY <1>5, <1>6, <2>1, <2>2
  <1> QED
    BY <1>7, <1>8, <1>9, <1>10 DEF d, Decodes

(* An entry for the user's film code and any frame of the roll. *)
LEMMA EntryGenuine ==
  ASSUME Typed, cfg \in Configs, NEW frame \in 0..127
  PROVE  Genuine(Entry(frame)) /\ decode_entry(Entry(frame)).frame = frame
  <1> DEFINE product == cfg.code[1]
             generation == cfg.code[2]
             b == frame % 2
  <1>1. /\ product \in 0..127 /\ generation \in 0..15
        /\ cfg.code = <<product, generation>>
    BY DEF Configs
  <1>2. Entry(frame) = [Entry(frame) EXCEPT ![1] = b]
    <2>1. Entry(frame) \in Bytes
      BY EntryTyped
    <2>2. Entry(frame)[1] = b
      BY DEF Entry, encode_entry, Fields
    <2> QED
      BY <2>1, <2>2 DEF Bytes
  <1>3. Entry(frame) = encode_entry(product, generation, frame)
    BY DEF Entry
  <1>4. b \in Nat /\ b % 2 = frame % 2
    OBVIOUS
  <1> HIDE DEF product, generation, b
  <1>5. frame \in 0..127
    OBVIOUS
  <1>6. Decodes([encode_entry(product, generation, frame) EXCEPT ![1] = b],
                product, generation, frame)
    BY ONLY <1>1, <1>4, <1>5, EntryDecoded, Zenon
  <1>7. Decodes(Entry(frame), product, generation, frame)
    BY ONLY <1>2, <1>3, <1>6, Zenon
  <1> QED
    BY <1>1, <1>7 DEF Genuine, Decodes

(* A code's byte 0 names the slot, which has the frame's parity unless a_flag
   swaps the slots. *)
LEMMA CodeGenuine ==
  ASSUME Typed, cfg \in Configs, cfg.aFlag = 1, NEW g, g.frame \in 0..127
  PROVE  Genuine(Code(g).data)
  <1> DEFINE product == cfg.code[1]
             generation == cfg.code[2]
             frame == g.frame
             b == IF Flag(frame) = 1 THEN 1 ELSE 2
  <1>1. /\ product \in 0..127 /\ generation \in 0..15
        /\ cfg.code = <<product, generation>>
    BY DEF Configs
  <1>2. b \in Nat /\ b % 2 = frame % 2
    <2>1. CASE frame % 2 = 1
      BY <2>1 DEF Flag
    <2>2. CASE frame % 2 = 0
      BY <2>2 DEF Flag
    <2> QED
      BY <2>1, <2>2
  <1>3. Code(g).data = [encode_entry(product, generation, frame) EXCEPT ![1] = b]
    BY DEF Code, Entry
  <1>4. frame \in 0..127
    OBVIOUS
  <1> HIDE DEF product, generation, frame, b
  <1>5. Decodes([encode_entry(product, generation, frame) EXCEPT ![1] = b],
                product, generation, frame)
    BY ONLY <1>1, <1>2, <1>4, EntryDecoded, Zenon
  <1>6. Decodes(Code(g).data, product, generation, frame)
    BY ONLY <1>3, <1>5, Zenon
  <1> QED
    BY <1>1, <1>6 DEF Genuine, Decodes

(* A plain entry carries frame_raw, which stays at the start label while the
   numbers are not the module's to give. *)
StartKept == active /\ ~cfg.numbers => frame_raw = cfg.start

LEMMA StartKeptStep ==
  ASSUME Typed, StartKept, [Next]_vars
  PROVE  StartKept'
  <1> USE DEF scanner, scan, strip, engine, history
  <1>1. ASSUME UNCHANGED <<cfg, frame_raw>>, active' => active
        PROVE  StartKept'
    BY <1>1 DEF StartKept
  <1>2. CASE Trigger
    <2>1. PICK set \in Settings :
            /\ cfg' = set.file /\ active' = (set.file # NoConfig)
            /\ set.file # NoConfig =>
                 frame_raw' = IF NewStrip THEN frame_raw ELSE FrameAtStart(set.file)
      BY <1>2 DEF Trigger
    <2> SUFFICES ASSUME set.file # NoConfig, ~set.file.numbers
                 PROVE  frame_raw' = set.file.start
      BY <2>1 DEF StartKept
    <2>2. CASE NewStrip
      <3>1. active /\ opened
        BY <1>2, <2>2 DEF NewStrip, Trigger, TriggerBeforeMotor
      <3>2. set.file = cfg
        BY <3>1, SettingsTyped
      <3> QED
        BY <2>1, <2>2, <3>1, <3>2 DEF StartKept
    <2>3. CASE ~NewStrip
      BY <2>1, <2>3 DEF FrameAtStart
    <2> QED
      BY <2>2, <2>3
  <1>3. CASE ScanStop \/ MotorGo \/ MotorIdle
    BY <1>1, <1>3 DEF ScanStop, MotorGo, MotorIdle
  <1>4. CASE _fake_event \/ Advance \/ FilmArrives
    BY <1>1, <1>4 DEF _fake_event, Advance, FilmArrives
  <1>5. CASE LampWrite \/ MeasureLine \/ UNCHANGED vars
    <2>1. UNCHANGED <<cfg, frame_raw, active>>
      BY <1>5 DEF LampWrite, MeasureLine, vars
    <2> QED
      BY <2>1 DEF StartKept
  <1>6. CASE ReadSensor
    <2>1. PICK r \in Replies :
            on_response_film(r) \/ on_response_code(r) \/ on_response_other
      BY <1>6 DEF ReadSensor
    <2>2. CASE on_response_code(r) \/ on_response_other
      BY <1>1, <2>2 DEF on_response_code, on_response_other
    <2>3. CASE on_response_film(r)
      <3>1. cfg.numbers /\ cfg' = cfg
        BY <2>3 DEF on_response_film
      <3> QED
        BY <3>1 DEF StartKept
    <2> QED
      BY <2>1, <2>2, <2>3
  <1> QED
    BY <1>2, <1>3, <1>4, <1>5, <1>6 DEF Next

LEMMA EntriesStep ==
  ASSUME Typed, StartKept, EntriesValid, [Next]_vars
  PROVE  EntriesValid'
  <1> USE DEF scanner, scan, strip, engine, history
  <1>1. ASSUME UNCHANGED <<cfg, codes, plain>>, roll' \in {roll, None}
        PROVE  EntriesValid'
    BY <1>1 DEF EntriesValid, Genuine, EngineFrame
  <1>2. CASE Trigger
    <2>1. codes' = <<>> /\ plain' = <<>> /\ Len(codes') = 0
      BY <1>2 DEF Trigger
    <2> QED
      BY <2>1 DEF EntriesValid
  <1>3. CASE ScanStop \/ MotorGo \/ MotorIdle
    BY <1>1, <1>3 DEF ScanStop, MotorGo, MotorIdle
  <1>4. CASE _fake_event \/ Advance \/ FilmArrives
    BY <1>1, <1>4 DEF _fake_event, Advance, FilmArrives
  <1>5. CASE LampWrite \/ MeasureLine \/ UNCHANGED vars
    BY <1>1, <1>5 DEF LampWrite, MeasureLine, vars
  <1>6. CASE ReadSensor
    <2>1. PICK r \in Replies :
            on_response_film(r) \/ on_response_code(r) \/ on_response_other
      BY <1>6 DEF ReadSensor
    <2>2. CASE on_response_other
      BY <1>1, <2>2 DEF on_response_other
    <2>3. CASE on_response_code(r)
      <3>1. /\ active /\ ~cfg.numbers /\ plain' = Entry(frame_raw)
            /\ cfg' = cfg /\ codes' = codes /\ roll' = roll
        BY <2>3 DEF on_response_code
      <3>2. cfg \in Configs /\ frame_raw = cfg.start /\ cfg # NoConfig
        BY <3>1, NoConfigIsNone DEF Typed, ConfigTyped, StartKept
      <3>3. cfg.start \in 0..127
        BY <3>2 DEF Configs
      <3>4. Genuine(Entry(frame_raw)) /\ decode_entry(Entry(frame_raw)).frame = cfg.start
        BY <3>2, <3>3, EntryGenuine
      <3>5. /\ cfg.aFlag = 1 => \A i \in 1..Len(codes) : Genuine(codes[i].data)
            /\ codes # <<>> /\ roll # None => EngineFrame(codes[Len(codes)]) = roll
        BY <3>2 DEF EntriesValid
      <3> QED
        BY <3>1, <3>4, <3>5 DEF EntriesValid, Genuine, EngineFrame
    <2>4. CASE on_response_film(r)
      <3> DEFINE g == Grid(LatchedEdge(r))
      <3>1. /\ cfg \in Configs /\ cfg' = cfg
            /\ g.frame \in Nat
            /\ Waits(g) \/ Skips(g) \/ (g.frame <= 127 /\ Emits(g))
        BY <2>4, FilmReply DEF on_response_film
      <3> HIDE DEF g
      <3>2. CASE Waits(g) \/ Skips(g)
        BY <1>1, <3>1, <3>2 DEF Waits, Skips
      <3>3. CASE g.frame <= 127 /\ Emits(g)
        <4>1. codes' = Append(codes, Code(g)) /\ roll' = g.frame /\ plain' = plain
          BY <3>3 DEF Emits
        <4>2. g.frame \in 0..127
          BY <3>1, <3>3
        <4>3. codes \in Seq(Codes) /\ Len(codes) \in Nat
          BY DEF Typed, EngineTyped
        <4>4. /\ Len(codes') = Len(codes) + 1 /\ codes'[Len(codes')] = Code(g)
              /\ \A i \in 1..Len(codes) : codes'[i] = codes[i]
          <5>1. \A s \in Seq(Codes) : \A c :
                  /\ Len(Append(s, c)) = Len(s) + 1
                  /\ Append(s, c)[Len(s) + 1] = c
                  /\ \A i \in 1..Len(s) : Append(s, c)[i] = s[i]
            OBVIOUS
          <5> QED
            BY <4>1, <4>3, <5>1
        <4>5. cfg # NoConfig
          BY <3>1, NoConfigIsNone
        <4>6. cfg.aFlag = 1 => \A i \in 1..Len(codes') : Genuine(codes'[i].data)
          <5> SUFFICES ASSUME cfg.aFlag = 1, NEW i \in 1..Len(codes')
                       PROVE  Genuine(codes'[i].data)
            OBVIOUS
          <5>1. CASE i = Len(codes')
            BY <3>1, <4>2, <4>4, <5>1, CodeGenuine
          <5>2. CASE i # Len(codes')
            <6>1. i \in 1..Len(codes)
              BY <4>3, <4>4, <5>2
            <6> QED
              BY <4>4, <4>5, <6>1 DEF EntriesValid
          <5> QED
            BY <5>1, <5>2
        <4>7. EngineFrame(codes'[Len(codes')]) = roll'
          BY <3>1, <4>1, <4>2, <4>4, FrameDecoded
        <4>8. plain # <<>> => Genuine(plain) /\ decode_entry(plain).frame = cfg.start
          BY <4>5 DEF EntriesValid
        <4> QED
          BY <3>1, <4>1, <4>6, <4>7, <4>8 DEF EntriesValid, Genuine, EngineFrame
      <3> QED
        BY <3>1, <3>2, <3>3
    <2> QED
      BY <2>1, <2>2, <2>3, <2>4
  <1> QED
    BY <1>2, <1>3, <1>4, <1>5, <1>6 DEF Next

(* What the module injects is what was meant, for every configuration file the
   parser lets through and every roll: the engine's parser accepts each entry
   and reads the film code and the frame back from it. *)
THEOREM EntriesMeant == Spec => []EntriesValid
  <1>1. Init => StartKept /\ EntriesValid
    BY DEF Init, StartKept, EntriesValid
  <1>2. Typed /\ StartKept /\ EntriesValid /\ [Next]_vars
          => StartKept' /\ EntriesValid'
    BY StartKeptStep, EntriesStep
  <1> QED
    BY <1>1, <1>2, TypedAlways, PTL DEF Spec

-----------------------------------------------------------------------------
(* The pitch that is guessed comes from the scan's own lines. *)
LEMMA MeasuredRight ==
  ASSUME NEW c, Readable(c)
  PROVE  Measured(c).right
  <1> DEFINE found == line_sync(c.marks)
             lines == [phase |-> c.phase, period |-> c.period]
  <1>1. found = NoSync
        \/ /\ found = lines
           /\ report(c.marks) \in {NoSync, found}
    <2>1. CASE line_sync(c.marks) = NoSync
      BY <2>1
    <2>2. CASE \E n \in 1..Cardinality(c.marks) : Legible(c.marks, c.phase, c.period, n)
      <3>1. PICK n \in 1..Cardinality(c.marks) : Legible(c.marks, c.phase, c.period, n)
        BY <2>2
      <3>2. n \in Nat
        OBVIOUS
      <3>3. found \in {NoSync, lines} /\ report(c.marks) \in {NoSync, lines}
        BY <3>1, <3>2, LinesFound
      <3> QED
        BY <3>3
    <2> QED
      BY <2>1, <2>2 DEF Readable
  <1> QED
    BY <1>1 DEF Measured

(* Whatever noise sets the markers' bit, and wherever in a line the capture
   begins, the line size taken for the pitch is the scan's own and the image is
   cut where a line begins, for every capture the markers outvote the noise in. *)
THEOREM LineKnown ==
  ASSUME \A c \in Captures : Readable(c)
  PROVE  Spec => []LineMeasured
  <1> USE DEF scanner, scan, strip, engine, history
  <1>1. Init => LineMeasured
    BY DEF Init, NoLine, LineMeasured
  <1>2. LineMeasured /\ [Next]_vars => LineMeasured'
    <2> SUFFICES ASSUME LineMeasured, [Next]_vars PROVE LineMeasured'
      OBVIOUS
    <2>1. ASSUME line' = line PROVE LineMeasured'
      BY <2>1 DEF LineMeasured
    <2>2. CASE MeasureLine
      <3>1. PICK l \in Measurements :
              line' = [bytes |-> l.bytes, right |-> l.right, under |-> irOn]
        BY <2>2 DEF MeasureLine
      <3>2. PICK c \in Captures : l = Measured(c)
        BY DEF Measurements
      <3>3. l.right
        BY <3>2, MeasuredRight
      <3>4. line'.right = l.right
        BY <3>1
      <3> QED
        BY <3>3, <3>4, Zenon DEF LineMeasured
    <2>3. CASE Trigger \/ ScanStop \/ MotorGo \/ MotorIdle \/ _fake_event \/ Advance
      BY <2>1, <2>3 DEF Trigger, ScanStop, MotorGo, MotorIdle, _fake_event, Advance
    <2>4. CASE FilmArrives \/ LampWrite \/ UNCHANGED vars
      BY <2>1, <2>4 DEF FilmArrives, LampWrite, vars
    <2>5. CASE ReadSensor
      BY <2>1, <2>5 DEF ReadSensor, on_response_film, on_response_code, on_response_other
    <2> QED
      BY <2>2, <2>3, <2>4, <2>5 DEF Next
  <1> QED
    BY <1>1, <1>2, PTL DEF Spec
=============================================================================
