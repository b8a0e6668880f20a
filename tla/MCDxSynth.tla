------------------------------ MODULE MCDxSynth ------------------------------
(* Instances of DxSynth for TLC: a 5-bit position counter and pitches of a    *)
(* few counts, with config files that cross the 6-bit and the 7-bit border    *)
(* of the frame number, and scan lines of a few samples.                      *)
EXTENDS DxSynth

Dir(main, legacy) == [main |-> main, legacy |-> legacy, explicit |-> FALSE]
Nothing == Dir({}, {})
Only(text) == Dir({text}, {})

Kodak == <<Line("product", 79), Line("generation", 11)>>

(* Numbers with a film code; with a lead, a pitch and a start given twice, under
   the old name; numbers alone past seven bits, with the slots swapped, in a
   file named outright; the film code alone; files that are refused, one of
   them hiding the file under the old name. *)
FromOne == <<Line("film_lead", 1)>> \o Kodak
NearSixBits ==
  Kodak \o <<Line("start", Label(5, TRUE)), Line("start", Label(31, FALSE)),
             Line("lead", 1), Line("pitch", 6), Line("film_lead", 1)>>
PastSevenBits ==
  <<Line("start", Label(62, TRUE)), Line("a_flag", 0), Line("film_lead", 1)>>
CodeAlone ==
  Kodak \o <<Line("start", Label(63, TRUE)), Line("override_numbers", "off")>>
TooLarge == <<Line("product", 128), Line("generation", 11)>>
HalfACode == <<Line("product", 79)>>
Unknown == <<Line("junk", 0)>>

StripDirs ==
  {Nothing, Only(FromOne), Dir({}, {NearSixBits}),
   [Only(PastSevenBits) EXCEPT !.explicit = TRUE], Only(CodeAlone)}
    \union {Dir({t}, {FromOne}) : t \in {TooLarge, HalfACode, Unknown}}

FromOneA == <<Line("start", Label(1, TRUE)), Line("film_lead", 1)>> \o Kodak
TraceOnly == <<Line("override_numbers", "no")>>
GuessDirs == {Nothing, Only(FromOneA), Only(TraceOnly)}

(* Lines of six samples: eight with as much noise as the method allows, five
   begun anywhere with less; and a cluster of noise. *)
Marks(phase, period, lines, noise) ==
  [phase |-> phase, period |-> period,
   marks |-> Capture(phase, period, lines, noise)]
NoisyCaptures ==
  {Marks(4, 6, 8, {i, j}) : i, j \in 0..47}
    \union {Marks(phase, 6, 5, {i}) : phase \in 0..5, i \in 0..29}
    \union {Marks(phase, 6, 8, 20..40) : phase \in 0..5}
NoCaptures == {}

(* The captures are such as the line size can be asked of. *)
ASSUME MCReadable == \A c \in Captures : Readable(c)
==============================================================================
