---------------------------- MODULE FirmwareLoad -----------------------------
(***************************************************************************)
(* server/pakonload.py and the part of server/pakonusb.py that calls it:   *)
(* Scanner.open finds the scanner without firmware, load_firmware uploads  *)
(* a second-stage loader, asks the board who it is, selects an application *)
(* image, uploads and starts it, and waits for the scanner to come back    *)
(* under its other product id.  The scanner may lose power and any control *)
(* transfer may fail; the next request tries again.                        *)
(*                                                                         *)
(* A record of a hex file is the memory cell it fills, in external or in   *)
(* internal RAM; its bytes are the image they belong to.  The script of an *)
(* upload is a sequence of control transfers, one action each.  Revisions  *)
(* are their low byte; an image is the digit in its file's name.           *)
(***************************************************************************)
EXTENDS Integers, Sequences, FiniteSetsExt

CONSTANTS
  Loaders,       \* threads that may call Scanner.open
  External,      \* cells above MAX_INTERNAL: written by the stage-2 loader
  Internal,      \* cells the controller itself can write
  Text,          \* the lines of each hex file, by image
  Boards,        \* [cpucs, bcd, rev]: the reset register the controller has,
                 \* its USB bcdDevice, the wRevision of its personality
  Dirs,          \* firmware directories: sets of [image, case]
  MaxFaults,     \* bound: control transfers that fail
  MaxCycles      \* bound: power cycles

(* Values of a cell or of the processor that are no application image. *)
Stage2 == 100
Blank  == 101    \* never written
Junk   == 102    \* the processor executes parts of several programs
Nothing == 103   \* the processor is held, or has no program
NoImage == 104
NoRev   == 256    \* no revision was read

Kinds == {"data", "end", "segment", "bad"}
Images == DOMAIN Text \ {Stage2}
Cells == External \union Internal

(* The reset registers: a board has one of them. *)
Registers == {"CPUCS_EZUSB", "CPUCS_FX2"}

ASSUME FirmwareAssumption ==
  /\ External \intersect Internal = {}
  /\ Cells \intersect (Registers \union {"init"}) = {}
  /\ \A i \in DOMAIN Text : Text[i] \in Seq([kind : Kinds, cell : Cells])
  /\ Stage2 \in DOMAIN Text /\ Images \subseteq 0..9
  /\ \A d \in Dirs : \A f \in d :
       f.image \in Images /\ f.case \in {"lower", "capital", "upper"}
  /\ \A b \in Boards : b.cpucs \in Registers /\ {b.bcd, b.rev} \subseteq 0..255
  /\ MaxFaults \in Nat /\ MaxCycles \in Nat

VARIABLES
  (* the scanner *)
  board,
  bus,           \* what the USB bus shows: "absent", "unloaded", "loaded"
  epoch,         \* enumerations so far; a handle is good for one of them
  mem, held, running,
  (* the host *)
  dir,           \* the firmware directory
  pc, handle, todo,
  (* bounds *)
  faults, cycles

scanner == <<bus, epoch, mem, held, running>>
host    == <<pc, handle, todo>>
fixed   == <<board, dir>>
bounds  == <<faults, cycles>>
vars    == <<fixed, scanner, host, bounds>>

-----------------------------------------------------------------------------
(* Hex files *)

(* What of a sequence is at these positions.  (SelectSeq, in a form that the
   provers can open.) *)
Kept(s, places) ==
  LET upto[n \in 0..Len(s)] ==
        IF n = 0 THEN <<>>
        ELSE IF n \in places THEN Append(upto[n - 1], s[n])
        ELSE upto[n - 1]
  IN  upto[Len(s)]

(* parse_ihex: the data records before the first end record, in order. *)
Upto(lines) ==
  LET ends == {i \in DOMAIN lines : lines[i].kind = "end"}
  IN  IF ends = {} THEN lines ELSE SubSeq(lines, 1, Min(ends) - 1)
parse_ihex[image \in DOMAIN Text] ==
  LET lines == Upto(Text[image])
      data == Kept(lines, {i \in DOMAIN lines : lines[i].kind = "data"})
  IN  [i \in DOMAIN data |-> data[i].cell]

(* bytes.fromhex raises ValueError on one of its lines. *)
Unreadable(image) == \E i \in DOMAIN Upto(Text[image]) :
                       Text[image][i].kind = "bad"

(* The image files a glob for "[Pp]akon[0-9].hex" finds. *)
Globbed == {f \in dir : f.case # "upper"}
FirstGlobbed ==
  LET capitals == {f.image : f \in {g \in Globbed : g.case = "capital"}}
  IN  IF capitals # {} THEN Min(capitals)
      ELSE Min({f.image : f \in Globbed})

(* A bug in find_firmware_file: strict is not looked at. *)
find_firmware_file_loose(rev, strict) ==
  IF rev # NoRev /\ rev % 16 \in {f.image : f \in dir} THEN rev % 16
  ELSE IF rev = NoRev \/ Globbed = {} THEN NoImage ELSE FirstGlobbed

(* The file a revision names, however its name is capitalised; or else, unless
   strict, the first that looks like one. *)
find_firmware_file(rev, strict) ==
  IF rev # NoRev /\ rev % 16 \in {f.image : f \in dir} THEN rev % 16
  ELSE IF rev = NoRev \/ strict \/ Globbed = {} THEN NoImage ELSE FirstGlobbed

-----------------------------------------------------------------------------
(* Control transfers *)

Write(request, at, data) == [request |-> request, at |-> at, data |-> data]

reset_8051(hold) ==
  << Write("A0", "CPUCS_EZUSB", hold), Write("A0", "CPUCS_FX2", hold) >>

(* The records of an image that lie in a region, as writes. *)
Pass(image, request, region) ==
  LET records == parse_ihex[image]
      cells == Kept(records, {i \in DOMAIN records : records[i] \in region})
  IN  [i \in DOMAIN cells |-> Write(request, cells[i], image)]

(* A bug in download_records: the processor is not halted in between. *)
download_records_running(image) ==
  Pass(image, "A3", External) \o Pass(image, "A0", Internal)

(* External RAM while the stage-2 loader runs, then internal RAM with the
   processor halted. *)
download_records(image) ==
  Pass(image, "A3", External) \o reset_8051(1) \o Pass(image, "A0", Internal)

Stage2Script ==
  reset_8051(1) \o download_records(Stage2) \o reset_8051(0)
    \o << Write("A4", "init", Stage2) >>
AppScript(image) ==
  download_records(image) \o reset_8051(1) \o reset_8051(0)

(* What the processor executes when it is let go with memory m. *)
Program(m) ==
  LET whole == {i \in DOMAIN Text :
                  \A k \in DOMAIN parse_ihex[i] : m[parse_ihex[i][k]] = i}
  IN  IF whole = {} THEN Junk ELSE CHOOSE i \in whole : TRUE

-----------------------------------------------------------------------------
TypeOK ==
  /\ board \in Boards /\ dir \in Dirs
  /\ bus \in {"absent", "unloaded", "loaded"} /\ epoch \in 0..(2 + 2 * MaxCycles)
  /\ mem \in [Cells -> DOMAIN Text \union {Blank}] /\ held \in BOOLEAN
  /\ running \in DOMAIN Text \union {Junk, Nothing}
  /\ pc \in [Loaders -> {"idle", "load", "stage2", "personality", "app", "wait",
                         "check", "open", "unclaimed"}]
  /\ handle \in [Loaders -> 0..epoch]
  /\ \A l \in Loaders : (todo[l] # <<>>) = (pc[l] \in {"stage2", "app"})
  /\ bus = "loaded" => running \in Images
  /\ faults \in 0..MaxFaults /\ cycles \in 0..MaxCycles

Init ==
  /\ board \in Boards /\ dir \in Dirs
  /\ bus = "unloaded" /\ epoch = 1
  /\ mem = [c \in Cells |-> Blank] /\ held = FALSE /\ running = Nothing
  /\ pc = [l \in Loaders |-> "idle"] /\ handle = [l \in Loaders |-> 0]
  /\ todo = [l \in Loaders |-> <<>>]
  /\ faults = 0 /\ cycles = 0

Goto(l, label) == pc' = [pc EXCEPT ![l] = label]

(* A bug in Abandon: the rest of the script stays. *)
AbandonHalfway(l, label) == Goto(l, label) /\ UNCHANGED todo

(* load_firmware returns, whatever it returns; the script is dropped. *)
Abandon(l, label) == Goto(l, label) /\ todo' = [todo EXCEPT ![l] = <<>>]

-----------------------------------------------------------------------------
(* Scanner.open *)

(* A request finds no handle: __call__ reopens. *)
open(l) ==
  /\ pc[l] = "idle" /\ bus # "absent"
  /\ Goto(l, IF bus = "loaded" THEN "open" ELSE "load")
  /\ handle' = [handle EXCEPT ![l] = IF bus = "loaded" THEN epoch ELSE 0]
  /\ UNCHANGED <<fixed, scanner, todo, bounds>>

(* The second look, after load_firmware came back, with success or without. *)
open_after_load(l) ==
  /\ pc[l] = "check"
  /\ Goto(l, IF bus = "loaded" THEN "open" ELSE "idle")
  /\ handle' = [handle EXCEPT ![l] = IF bus = "loaded" THEN epoch ELSE 0]
  /\ UNCHANGED <<fixed, scanner, todo, bounds>>

(* claimInterface fails: reopen reports failure, but the handle stays. *)
claim_fails(l) ==
  /\ pc[l] \in {"idle", "check"} /\ bus = "loaded" /\ faults < MaxFaults
  /\ Goto(l, "unclaimed")
  /\ handle' = [handle EXCEPT ![l] = epoch]
  /\ faults' = faults + 1
  /\ UNCHANGED <<fixed, scanner, todo, cycles>>

(* A request on a handle whose device has gone: NO_DEVICE, and reopen. *)
reopen(l) ==
  /\ pc[l] \in {"open", "unclaimed"} /\ (handle[l] # epoch \/ bus = "absent")
  /\ Goto(l, "idle")
  /\ handle' = [handle EXCEPT ![l] = 0]
  /\ UNCHANGED <<fixed, scanner, todo, bounds>>

-----------------------------------------------------------------------------
(* load_firmware *)

(* Up to the first transfer: already loaded, or no device, or no candidate. *)
probe(l) ==
  /\ pc[l] = "load"
  /\ IF bus = "unloaded" /\ Globbed # {}
     THEN /\ handle' = [handle EXCEPT ![l] = epoch]
          /\ todo' = [todo EXCEPT ![l] = Stage2Script]
          /\ Goto(l, "stage2")
     ELSE Goto(l, "check") /\ UNCHANGED <<handle, todo>>
  /\ UNCHANGED <<fixed, scanner, bounds>>

(* The loader's code services A3 and A4; the controller itself only A0. *)
Answered(l) ==
  /\ handle[l] = epoch /\ bus = "unloaded"
  /\ Head(todo[l]).request # "A0" => running = Stage2

(* What a transfer does: the reset register holds the processor or lets it go;
   writing code that is being executed leaves it executing something else. *)
Effect(w) ==
  /\ held' = IF w.at = board.cpucs THEN w.data = 1 ELSE held
  /\ mem' = IF w.at \in Cells THEN [mem EXCEPT ![w.at] = w.data] ELSE mem
  /\ running' = CASE w.at = board.cpucs /\ w.data = 1 -> Nothing
                  [] w.at = board.cpucs /\ w.data = 0 /\ held -> Program(mem)
                  [] w.at \in Internal /\ running # Nothing -> Junk
                  [] OTHER -> running

AfterScript == [stage2 |-> "personality", app |-> "wait"]

control_write(l) ==
  /\ todo[l] # <<>> /\ Answered(l)
  /\ Effect(Head(todo[l]))
  /\ todo' = [todo EXCEPT ![l] = Tail(@)]
  /\ IF Len(todo[l]) = 1 THEN Goto(l, AfterScript[pc[l]]) ELSE UNCHANGED pc
  /\ UNCHANGED <<fixed, bus, epoch, handle, bounds>>

(* A transfer fails: nothing answers, or it goes wrong, be it after it was
   carried out.  In the last stage that is taken for the scanner dropping off
   the bus; before, the error escapes load_firmware and open. *)
control_fails(l) ==
  /\ todo[l] # <<>>
  /\ \/ ~Answered(l) /\ UNCHANGED <<faults, held, mem, running>>
     \/ /\ Answered(l) /\ faults < MaxFaults /\ faults' = faults + 1
        /\ Effect(Head(todo[l])) \/ UNCHANGED <<held, mem, running>>
  /\ Abandon(l, IF pc[l] = "app" THEN "wait" ELSE "idle")
  /\ UNCHANGED <<fixed, bus, epoch, handle, cycles>>

(* The application image: what the personality names, or else what bcdDevice
   does.  An unreadable file raises before anything of it is sent. *)
Selected(rev) ==
  LET named == find_firmware_file(rev, TRUE)
  IN  IF named # NoImage THEN named ELSE find_firmware_file(board.bcd, FALSE)

Upload(l, image) ==
  IF image = NoImage THEN Abandon(l, "check")
  ELSE IF Unreadable(image) THEN Abandon(l, "idle")
  ELSE Goto(l, "app") /\ todo' = [todo EXCEPT ![l] = AppScript(image)]

Implausible == {0, 255}

read_personality(l) ==
  /\ pc[l] = "personality" /\ handle[l] = epoch /\ bus = "unloaded"
  /\ Upload(l, Selected(IF board.rev \in Implausible THEN NoRev ELSE board.rev))
  /\ UNCHANGED <<fixed, scanner, handle, bounds>>

(* The read fails, which is no error. *)
personality_fails(l) ==
  /\ pc[l] = "personality"
  /\ \/ (handle[l] # epoch \/ bus # "unloaded") /\ UNCHANGED faults
     \/ handle[l] = epoch /\ faults < MaxFaults /\ faults' = faults + 1
  /\ Upload(l, Selected(NoRev))
  /\ UNCHANGED <<fixed, scanner, handle, cycles>>

(* A bug in wait_ends: no deadline. *)
wait_ends_back(l) ==
  /\ pc[l] = "wait" /\ bus = "loaded"
  /\ Goto(l, "check")
  /\ UNCHANGED <<fixed, scanner, handle, todo, bounds>>

(* The scanner is back, or the eight seconds are over: they are enough for a
   scanner that was started to leave the bus, but maybe not to return. *)
wait_ends(l) ==
  /\ pc[l] = "wait"
  /\ ~(bus = "unloaded" /\ running \in Images)
  /\ Goto(l, "check")
  /\ UNCHANGED <<fixed, scanner, handle, todo, bounds>>

LoaderStep(l) ==
  \/ open(l) \/ open_after_load(l) \/ claim_fails(l) \/ reopen(l)
  \/ probe(l) \/ control_write(l) \/ control_fails(l)
  \/ read_personality(l) \/ personality_fails(l) \/ wait_ends(l)

-----------------------------------------------------------------------------
(* The scanner *)

(* The application leaves the bus and comes back as another device. *)
Disconnect ==
  /\ bus = "unloaded" /\ running \in Images
  /\ bus' = "absent"
  /\ UNCHANGED <<fixed, epoch, mem, held, running, host, bounds>>

Enumerate ==
  /\ bus = "absent" /\ running \in Images
  /\ bus' = "loaded" /\ epoch' = epoch + 1
  /\ UNCHANGED <<fixed, mem, held, running, host, bounds>>

(* "Firmware lives in RAM, so it is gone after every power cycle." *)
PowerOff ==
  /\ cycles < MaxCycles
  /\ (bus # "absent" \/ running # Nothing)
  /\ cycles' = cycles + 1
  /\ bus' = "absent"
  /\ mem' = [c \in Cells |-> Blank] /\ held' = FALSE /\ running' = Nothing
  /\ UNCHANGED <<fixed, epoch, host, faults>>

PowerOn ==
  /\ bus = "absent" /\ running = Nothing
  /\ bus' = "unloaded" /\ epoch' = epoch + 1
  /\ UNCHANGED <<fixed, mem, held, running, host, bounds>>

-----------------------------------------------------------------------------
Next ==
  \/ \E l \in Loaders : LoaderStep(l)
  \/ Disconnect \/ Enumerate \/ PowerOff \/ PowerOn

Spec == Init /\ [][Next]_vars

(* The client keeps sending requests, the threads run, and an application that
   was started re-enumerates.  Nobody is obliged to switch the scanner on. *)
Fairness ==
  /\ \A l \in Loaders : WF_vars(LoaderStep(l))
  /\ WF_vars(Disconnect) /\ WF_vars(Enumerate)

FairSpec == Spec /\ Fairness

-----------------------------------------------------------------------------
(* Every program begins in the cell the processor begins in. *)
ResetVector ==
  \E c \in Internal : \A i \in DOMAIN Text :
    \E k \in DOMAIN parse_ihex[i] : parse_ihex[i][k] = c

(* The processor never executes a mixture: neither an image of which a part is
   missing or left over from another upload, however uploads fail and are
   retried, nor code that is overwritten under it ("halt CPU before touching
   internal RAM", download_records). *)
NeverRunsJunk == running # Junk

(* The images that suit the board: those its revisions name; without a file for
   bcdDevice, which alone can always be read, any at all. *)
Suitable ==
  LET files == {f.image : f \in dir}
  IN  IF board.bcd % 16 \in files THEN {board.rev % 16, board.bcd % 16} \intersect files
      ELSE files

Using(l) == pc[l] \in {"open", "unclaimed"}

Boot == INSTANCE FirmwareBoot WITH
          suitable <- Suitable,
          app <- IF running \in Images THEN running ELSE Nothing,
          lost <- cycles,
          users <- {l \in Loaders : Using(l) /\ handle[l] = epoch
                                      /\ bus = "loaded"}

(* The upload in all its steps looks like one step from no firmware to a whole
   image that suits the board; a started application is never stopped but by
   cutting the power, and only a started one is handed out. *)
BootSpec == Boot!Spec

(* A scanner that is on is eventually in use, or switched off again: no failed
   attempt leaves it, or the host, in a state the next attempt cannot start
   from.  (It takes an image file that is found and can be read.) *)
Usable == Globbed # {} /\ \A i \in Suitable : ~Unreadable(i)
Reconnects ==
  bus = "unloaded" /\ Usable
    ~> (\E l \in Loaders : Using(l)) \/ (bus = "absent" /\ running = Nothing)
=============================================================================
