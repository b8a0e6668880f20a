------------------------------- MODULE DxConfig -------------------------------
(***************************************************************************)
(* The DX override's configuration file: DxConfig.parse and DxSynth.load   *)
(* of server/dxsynth.py.  The text of a file is a sequence of lines, each  *)
(* a key with a value whose tokens are told apart already; a line that is  *)
(* no key = value, has an unknown key or a number that is none has the key *)
(* "junk".  Comments and blank lines are no lines.                         *)
(***************************************************************************)
EXTENDS DxCode, Sequences, FiniteSetsExt

None == -1

Line(key, value) == [key |-> key, value |-> value]
Label(number, a) == [number |-> number, a |-> a]        \* "12", "12A"

(* What the parser reads: the values are of the kinds their keys ask for. *)
IsText(text) ==
  /\ text \in Seq({text[i] : i \in DOMAIN text})
  /\ \A i \in DOMAIN text :
       /\ text[i].key \in {"product", "generation", "pitch", "film_lead", "lead"}
            => text[i].value \in Int
       /\ text[i].key = "start"
            => text[i].value.number \in Nat /\ text[i].value.a \in BOOLEAN

(* Half frames, as the engine stores them. *)
parse_frame_label(label) == 2 * label.number + (IF label.a THEN 1 ELSE 0)

Yes == {"yes", "true", "on", "1"}
No == {"no", "false", "off", "0"}

(* What each key's own checks let through. *)
ValueOK(line) ==
  CASE line.key \in {"product", "generation"} -> TRUE
    [] line.key = "start" -> parse_frame_label(line.value) \in 0..127
    [] line.key = "override_numbers" -> line.value \in Yes \union No
    [] line.key \in {"pitch", "film_lead"} -> line.value >= 0
    [] line.key = "a_flag" -> line.value \in {0, 1}
    [] line.key = "lead" -> line.value \in 0..8
    [] OTHER -> FALSE

(* A key's last line counts; a key without one keeps its default. *)
Setting(text, key) == {i \in DOMAIN text : text[i].key = key}
Has(text, key) == Setting(text, key) # {}
Value(text, key, default) ==
  IF Has(text, key) THEN text[Max(Setting(text, key))].value ELSE default

(* With no film code an entry carries the unknown one, (0, 0). *)
Settled(text) ==
  [ filmCode |-> Has(text, "product") /\ Has(text, "generation"),
    code     |-> <<Value(text, "product", 0), Value(text, "generation", 0)>>,
    start    |-> parse_frame_label(Value(text, "start", Label(1, FALSE))),
    numbers  |-> Value(text, "override_numbers", "yes") \in Yes,
    pitch    |-> Value(text, "pitch", 0),
    aFlag    |-> Value(text, "a_flag", 1),
    filmLead |-> Value(text, "film_lead", 0),
    lead     |-> Value(text, "lead", None) ]

NoConfig == [start |-> None]

(* The range check, made when a film code is configured: what encode_entry
   refuses, the parser refuses. *)
Encodable(code, frame) ==
  code[1] \in 0..127 /\ code[2] \in 0..15 /\ frame \in 0..127

(* A bug in parse: the film code is believed. *)
parse_unchecked(text) ==
  IF /\ \A i \in DOMAIN text : ValueOK(text[i])
     /\ Has(text, "product") = Has(text, "generation")
  THEN Settled(text) ELSE NoConfig

parse(text) ==
  IF /\ \A i \in DOMAIN text : ValueOK(text[i])
     /\ LET cfg == Settled(text)
        IN  cfg.filmCode => Encodable(cfg.code, cfg.start)
     /\ Has(text, "product") = Has(text, "generation")
  THEN Settled(text) ELSE NoConfig

synthesise(cfg) == cfg.filmCode \/ cfg.numbers

(* The user's directory: the file, and the one of the feature's former name,
   each there (a set of one text) or not; or a file named outright, which has
   no former name.  What is there but refused turns the module off. *)
load(dir) ==
  LET found == IF dir.main # {} \/ dir.explicit THEN dir.main ELSE dir.legacy
  IN  IF found = {} THEN NoConfig ELSE parse(CHOOSE t \in found : TRUE)
=============================================================================
