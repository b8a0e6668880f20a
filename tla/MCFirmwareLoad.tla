--------------------------- MODULE MCFirmwareLoad ----------------------------
(* Instances of FirmwareLoad for TLC: two cells of each kind, a stage-2 loader *)
(* in internal RAM, images whose records mix both kinds.                       *)
EXTENDS FirmwareLoad

Data(cell) == [kind |-> "data", cell |-> cell]
Line(kind) == [kind |-> kind, cell |-> "i1"]

Image == << Data("i1"), Data("e1"), Line("segment"), Data("i2"), Data("e2"),
            Line("end"), Data("e1") >>

MCText ==
  [f \in {5, 7, 8, Stage2} |->
     CASE f = Stage2 -> << Data("i1"), Line("end") >>
       [] f = 8 -> << Data("i1"), Line("bad"), Line("end") >>
       [] OTHER -> Image]

Board(cpucs, bcd, rev) == [cpucs |-> cpucs, bcd |-> bcd, rev |-> rev]
MCBoards ==
  { Board("CPUCS_FX2", 7, 7), Board("CPUCS_FX2", 7, 255),
    Board("CPUCS_EZUSB", 7, 9), Board("CPUCS_EZUSB", 8, 7) }

File(image, case) == [image |-> image, case |-> case]
MCDirs ==
  { {File(5, "lower"), File(7, "lower")}, {File(5, "capital"), File(7, "upper")},
    {File(5, "lower")}, {File(7, "upper")}, {File(8, "lower")}, {} }

(* What the proof of BootSpec takes from the hex files holds of these. *)
ASSUME MCResetVector == ResetVector
==============================================================================
