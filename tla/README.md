# Verification of the Pakon TLX bridge

The repository lets Kodak's 2001 Windows client (TLX: `TLB.dll` and friends,
under Wine) drive a Pakon F-135 film scanner that is plugged into a Mac. Three
programs take part:

```
 TLX client / TLB.dll  --WinAPI-->  src/pkusb.c (shim DLL)  --TCP 5140-->
     server/pakonusb.py (bridge)  --libusb-->  FX2 firmware, PICL, PICM controllers
```

The shim pretends to be the vendor's driver, the bridge owns the USB device.
The client, the firmware and the two controllers are not in the repository;
they appear here only through how the code uses them.

This directory holds TLA+ models of the parts that are hard to test, TLC
configurations for small instances, and machine-checked proofs for the ring
between shim and client, the image stream, the dispatch of requests, the DX
override, the firmware loader and the installation of the shim.

## 1. Inventory

| Part | Source | State | Operations | Modules |
|---|---|---|---|---|
| Scan-line ring | `src/pkusb.c` 214-402, `src/pkring.c`, consumer in `tests/ringtest.c` | the control block shared with the client (Reading, Writing, TransferInProgress, OverFlow, stop), the data area, `g_cancel`, one OVERLAPPED and worker per read | ReadFile, CancelIo, GetOverlappedResult, StopTransfer, the worker's loop, the consumer's loop | `ScanRing`, `ScanQueue`, `ScanRing_proofs` |
| Image stream | `server/pakonusb.py` 275-300, 399-455, 510-650, 745-817 | `imgbuf`, `reading`, `served`, `align`, `imgthread`, `lastread`, transfers in flight, the handle they are submitted on | the trigger's `arm_stream`/`stop_stream`/`start_stream`, READ_EP6, reader thread and its callback, idle watchdog, `reopen` under a running reader | `ImageStream`, `ImageStream_proofs` |
| Request dispatch | `server/pakonusb.py` 238-300, 323-397, 457-507, 661-724, 735-902; `server/ppb.py` | the handle `h`, the lock, `ir_on`, the latched board, `lastpoll` | `handle`, `__call__`, `reopen`, `cmd`, `vendor`, `lamp_off`, `safe_stop`, `main`'s exit | `DeviceSession`, `MCDeviceSession`, `DeviceSession_proofs` |
| DX override | `server/dxsynth.py`; `line_sync`, `align_to_line` and `note_lamp` of `server/pakonusb.py`; `tools/framing.py` | what is known of the scan (config, active, moving, pitch sources), of the strip (unwrapped counter, edge, next code, frame number), the service flag it fakes | `on_command`, `on_response`, `_fake_event`, `_film_reply`, `parse`, `load`, the measuring of a line | `DxSynth`, `DxConfig`, `DxCode`, `LineSync`, `MCDxSynth`, `DxSynth_proofs`, `LineSync_proofs` |
| Firmware loader | `server/pakonload.py`; `open`, `reopen` of `server/pakonusb.py` | none that lasts: the script it is at, the device it found; the scanner's memory and processor | choice of the image, two uploads in two passes each, personality, wait for re-enumeration | `FirmwareLoad`, `FirmwareBoot`, `MCFirmwareLoad`, `FirmwareLoad_proofs` |
| Shim transport, hooks | `src/pkusb.c` (rest), `src/pkunlock.c` | a socket per call site, the patched import tables, `g_done` | open, DeviceIoControl, install | `ShimInstall`, `MCShimInstall`, `ShimInstall_proofs` (install only) |
| Trace decoding | `server/ppb.py`, `server/pknames.py`, `tools/tlxtrace.py` | the latched board address (in `DeviceSession`) | text | none |
| EEPROM dump | `tools/eedump.py` | none | a loop of reads | none |
| Set-up and launcher | `run.sh`, `setup/` | files, registry, processes | sequential scripts | none |

How they interact. The client's image thread posts one overlapped read for a
whole scan; the shim's worker turns it into READ_EP6 requests of at most
`RING_BURST` packets and publishes what it receives. All other requests are
PPB packets and control transfers, one connection and one bridge thread each.
The scan trigger (`0x91`) is the hinge: in one command it goes through the LED
clamp, starts a roll or a strip in `DxSynth`, reaches the controller, and then
`arm_stream` clears and restarts the image stream, while an image read of the
previous scan may still be running on another thread. The bridge's threads
share one Python object with two locks (`lock` round a command's write and
read, `imglock` round the buffer); everything else is plain attributes.

What is hard, and what makes each part correct:

* *Ring.* Producer and consumer run on stale snapshots of each other's index,
  equal indices mean empty to one formula and full to the other, the shim may
  be stopped, cancelled or disconnected at any point. Correct: nothing is
  overwritten unread, read early, twice or out of order; no wake-up is lost; a
  finished read touches nothing.
* *Image stream.* Clearing at the wrong moment tears a hole into a transfer,
  not clearing serves the last scan's data; readers, callbacks, watchdogs and
  triggers overlap. Correct: order, no hole, line-aligned start, nothing from
  before the trigger, some thread reads while data is expected, the lamp does
  not stay on.
* *Dispatch.* The device may leave the bus inside any exchange; threads reopen
  it; safety limits (LED ceilings, read-only EEPROM, lamp and motor off at the
  end) rest on state learnt from traffic. Correct: limits hold, replies are
  not mixed up, requests are answered, the device is found again.
* *Firmware.* The scanner runs a program of its own while it is overwritten; the
  internal pass destroys the loader that the external pass needs; any error of
  the last transfers is taken for the disconnect that is expected there; power
  may go at any point. Correct: the processor is never let go on a mixture, an
  upload looks like one step to an image that suits the board, and whatever
  failed, a later request gets the scanner back.
* *Shim installation.* `install` runs on the loader's, the watcher's and the
  engine's threads without a lock. Correct: a module is patched once, and what
  the shim passes on to is Windows. It is not (section 4).
* *DX override.* Codes are placed on a wrapping counter by an edge that comes
  when it likes, numbering must carry over strips but not rolls. Correct: even
  spacing, valid entries, one film start, ascending numbers, labels fixed to
  the film.

The full list of hazards, each at its line, is in `PROJECT.json`.

## 2. The modules

**`ScanRing`**: the worker's program counter follows `read_worker` from
`start` (taking `g_imglock`) through `loop`, `ask`, `recv`, `publish`,
`signal` to `out`, `leaving`, `done`; the consumer's follows `ringtest.c`. A
packet is its number in the stream and a slot holds the number of the packet
stored there. Any socket failure is `Fail`. Three constants are conditions and
not sizes: `HeaderOK` (the control block passes validation), `Primed` (the
consumer awaits one packet event before its first look), `WaitExpires` (the
30 s in GetOverlappedResult run out). `ScanQueue` is what a client relies on: a
bounded FIFO of which only the numbers sent and received are visible;
`ScanRing!QueueSpec` is the refinement, with `sent <- taken + Used`.

**`ImageStream`**: a unit of data is its number in the scanner's free-running
byte stream, `LineStart` says which begin a line. The command thread
(`trig`), the image thread (`read`), a reader and a watchdog per
`start_stream`, the USB callbacks and the client are processes. An `imglock`
section is one step, and so is each of the tests and assignments two threads meet
in: the test of `served` (406) and what follows it, `start_stream`'s test (628)
and set (630), `sendall` (797-799) and `served` (802), the test and reset of
`align` apart from the clearing. Four runs of adjoining statements are one step
although nothing locks them: `stop_stream`'s read of `imgthread` and withdrawal
of the flag (618-619, `StopReading`); the end of its join with the two resets
after it (620-623, `Joined`); the assignment and the two starts of
`start_stream` (631-633, `SpawnThreads`); and the callback's tests of `reading`
with the append between them (530-540, `Callback`). In the first three another
thread would have to be in `arm_stream` or `begin_read` at the same time, which
only `Overlap = TRUE` allows or two connections that trigger at once; in the last
the flag would have to fall in the middle of a callback, and then either the
command thread goes on to join that reader, whose callback it is, or a watchdog
took it down, and of such sessions only order and liveness are checked. Times are alternatives. Three constants are
conditions: `Overlap`, reads may be outstanding at a resetting trigger;
`Prompt`, `served` is up before the client's next trigger is handled; `Idles`,
the client may fall silent or leave, with an answer on its way too
(`SendFails`). `MaxFaults` counts
failures: a submission that is refused, an event loop that raises, a marker that
does not turn up, a scanner that leaves the bus. The command thread then walks
`reopen` (`Reopen`, `CloseHandle`, `DropBuffer`, `OpenAgain`) while readers
submit on the handle being closed (`SubmitOnNone`) or wait for its callbacks.

**`DeviceSession`**: each connection's thread walks `call`, `reopen`, `open`,
`cmd`, `write`, `read`, `answer`; `main` uses the last ones for its exit
packets. The device has an incarnation number, so a handle of an older one is
NO_DEVICE. Controllers answer in order through `replies`. The client probes
first, in TLB's order, then sends lamp, LED, motor and control requests with
the largest currents it can. A packet with register and payload is reduced to
its kind, address and argument. Image reads are in `ImageStream`, the DX
rewriting in `DxSynth`.

**`DxSynth`, `DxCode`**: the actions are `on_command`'s cases and
`on_response` split by reply, driven by a scanner whose counter and film edge
are the truth that `CounterTracks` and `AnchoredLabels` compare with. `DxCode`
is the bit layout of an entry and the derivation of the pitch, with integer
arithmetic for the masks and shifts; the wrap of the counter is `% Wrap`.

**`DxConfig`**: a configuration file is a sequence of key and value, a directory
the readable texts under the file's name and its legacy name. `parse` refuses
what the code raises on, `load` falls back as it does. A file is there or
missing: other errors of the file system, and bytes that are no text, for which
`on_command` would raise, are not among the alternatives. `IsText` says what its
regular expressions and `int` let through.

**`LineSync`**: a capture is the set of samples whose marker bit is set.
`line_sync` is the bridge's vote over gaps and phases; `report` is the one of
`tools/framing.py`, which breaks ties the other way.

**`FirmwareLoad`**: `parse_ihex`, `find_firmware_file` and the two passes of
`download_records` are operators that build a script of control transfers; each
transfer is one action on the scanner's memory cells and its processor, so that
what is executed is defined by what is in memory when the reset register is
cleared. `load_firmware` walks from its first probe to the wait for
re-enumeration, `Scanner.open` and `reopen` around it. **`FirmwareBoot`** is the
promise: a scanner without firmware goes in one step to running one whole image
that suits its board, runs it until it loses power, and only such a scanner is
handed out; its `lost` counts the losses of power, so that a loader that stopped
a running application would not pass for one. `FirmwareLoad!BootSpec` is the
refinement.

**`ShimInstall`**: `already`'s test and its taking of a slot, `patch_one`'s save
and its replacement, are steps of their own of the threads that call `install`.

The `MC` modules give TLC the sets a `.cfg` cannot write.
The definitions marked external in `PROJECT.json` stand for the client, the
controllers, the film, the USB bus, the scanner's processor and power, and the
Windows loader.

## 3. The runs

| Run | Module | States | What it shows |
|---|---|---|---|
| `ring` | ScanRing | 0.1 M | type, no overrun, next packet, no lost wake-up, nothing touched after completion, refinement of `ScanQueue`; cancel retires, stop ends, packets drain on the event alone; two reads, four packets of ring, six of stream |
| `stream_serving` | ImageStream | 108 k | six safety properties over three triggers and three reader generations |
| `stream_faults` | ImageStream | 0.30 M | with one failure or loss of the scanner, watchdogs, reopens and a client that leaves: order, the lamp of a stream that was read goes off, the next trigger that arms the stream gets it read |
| `stream_latch` | ImageStream | violation | the second scan of a session is served data from before it |
| `dx_strips` | MCDxSynth | 0.8 M | two strips, eight states of the configuration directory with good and refused files at the 6- and 7-bit borders, counter of five bits that wraps; seven properties |
| `dx_guess` | MCDxSynth | 0.24 M | unknown scan parameters, line sizes measured in noisy captures; the size is the stream's own, codes keep coming |
| `firmware` | MCFirmwareLoad | 47 k | four boards, six firmware directories: the processor is never let go on a mixture, the upload implements `FirmwareBoot`, no failure keeps a later attempt from succeeding |
| `session_serving` | MCDeviceSession | 3.8 M | limits, recovery and exit with one connection, two client sessions, two re-enumerations, failing transfers |
| `session_pair` | MCDeviceSession | 0.35 M | two connections: replies are not swapped, every request ends |
| `session_handles` | MCDeviceSession | violation | two threads that reopen at once leave one without a handle |
| `session_board` | MCDeviceSession | violation | a second session after a failed ping takes the wrong controller for the scanner's |
| `shim_install` | MCShimInstall | violation | the watcher and an engine thread patch one module twice |

The bounds and why they are enough. *Ring*: four slots hold every relation of
the two indices (empty, one, threshold, full) and six packets go round it once
and a half, with bursts cut by the end of the area; two reads are the most that
overlap, since a third would wait for `g_imglock` like the second. *Stream*: a
line of two units distinguishes aligned from not, a buffer of two or four units
overflows, and three generations of readers let an old one survive a stop and a
start. With failures two units and two triggers are enough: the client, both
readers and both watchdogs can each be anywhere when the one failure comes.
*Session*: one re-enumeration makes a handle stale, a second hits the
retry; two sessions are needed for a probe whose replies are repeats; two
threads for every interleaving of one reopen with another's request. *DX*: a
counter of 32 with pitches of four to six wraps within a strip, one gap of six
counts passes several codes at once, two triggers make a roll of two strips or
two rolls. The noise in a capture is such that three times the noisy samples are
fewer than the lines less one; with more, the vote itself fails. *Firmware*: two
cells on each side of `MAX_INTERNAL` make an upload that can be half written in
either pass; three failures hit both uploads and the retry; two power cycles
separate the host's handle, script and result from the scanner's enumeration.
*Install*: two modules, two imports and two threads beside the loader's tell a
module patched twice from two modules patched once.

`CHECK_DEADLOCK FALSE` is set where the system may really stop: the streams and
requests are bounded, the user may interrupt, and a client need not ask again.

### Fairness

* Ring: the worker and the consumer are scheduled, and the bridge answers each
  request (it does, with data or without, within `EP6_DEADLINE`). Nothing
  obliges the client to cancel or stop.
* Stream: threads are scheduled, the steps of a reopen among them, the scanner
  free-runs while it is on the bus and libusb delivers callbacks. Nothing obliges
  the client to read or trigger.
* Session: each thread is scheduled. Waiting for the lock is strongly fair:
  whoever gives it back has to send an answer and receive another request
  before it takes it again. Device, user and client are free.
* DX: the engine polls at 20 Hz and reads the sensor when it sees the service
  flag. The prompted read is strongly fair because a reply that is cut short
  drops the flag again. Neither transport nor controller is obliged.
* Firmware: the loader's thread is scheduled, and the client asks again after a
  refusal (TLB polls). A scanner whose new firmware was started leaves the bus
  and comes back, though not necessarily within the eight seconds. Nobody is
  obliged to switch it on, and `Reconnects` is about one that stays on.

### Conditions under which properties hold

Some properties hold only for a restricted use; the restriction is a constant
and setting it otherwise makes TLC print the counterexample.

* `TakesNextPacket`, with `Primed = FALSE`: a consumer as in `ringtest.c` looks
  as soon as TransferInProgress is up; equal indices give it N packets.
* `CancelRetires` and `TouchesOnlyWhilePending`, with `WaitExpires = TRUE`: the
  30 s wait reports a running read as finished, and the next ReadFile clears
  the cancel the old worker has not seen.
* `Drains`, with `HeaderOK = FALSE`: the fallback ring of one packet never
  holds one.
* `NoHoleInTransfer` and `TransferStartsOnLine`, with `Overlap = TRUE` or
  `Prompt = FALSE`: a read answered between `arm_stream`'s test and its clear, or
  a trigger handled between `sendall` and `served = True`, which finds the flag
  still down. Both clear the buffer in the middle of a transfer, against lines
  404-405 ("Only reset when no transfer is running yet"). The engine is seen to
  trigger with no read outstanding, and its next trigger has to come through
  the socket and the lock while the image thread has one assignment to make.
* `NothingPredatesClear`, with `Overlap = TRUE`: a second reader spawned during
  the join. It also needs `Idles = FALSE`: a reader that a watchdog let go may
  outlive a restart.
* `ReadingHasReader`, with failures: a reader that dies in the middle of a
  transfer is not replaced, because a trigger after serving began leaves the
  stream as it is. What holds with failures is `ArmedStreamIsRead`: the next
  trigger that arms the stream gets it read.
* `NeverRunsJunk`, with two loaders: two connections that meet a scanner without
  firmware both upload, without a lock, and the processor is let go on a mixture.
* Firmware inputs: `parse_ihex` (line 94) takes a file that ends without its end
  record and does not verify checksums, so a truncated file is uploaded as it is;
  the glob does not find upper-case names, and its guess, which may be another
  board's image, is taken only if there is no file for bcdDevice and the
  personality names none or cannot be read. The instances contain these
  directories; `Suitable` says what is promised for them.
* `BootSpec` takes it that every image fills the cell the processor begins in
  (`ResetVector`): an 8051 starts at address 0, so a program that is one has code
  there. An image without that cell would run the rest of the one before it.
* A `claimInterface` that fails leaves the handle opened but unclaimed, and the
  next request uses it; it fails and is reopened then.
* `CeilingWhileKnown` is conditional in itself: the last lamp write reached
  this incarnation of the scanner and was recognised, before Ctrl-C, with one
  connection. `ir_on` is noted before the write and survives a re-enumeration;
  the row is chosen before the lock is taken.
* `HaltedAtExit` is about exits whose packets the scanner took and that no
  client thread overtook: daemon threads still run during `main`'s `finally`.
* `OwnReply` is about the time before the device first leaves the bus; a reopen
  by one thread inside another's exchange leaves a reply behind.
* The spacing and anchoring of DX codes are stated for scans whose pitch is
  told by the user or by known scan parameters; a guessed pitch may change in
  the middle of a strip. `TriggerBeforeMotor` assumes the engine's own order.
  `a_flag = 0` makes byte 0 contradict the frame's parity, so the half of
  `EntriesValid` that says a code passes the engine's parser is about the default. It also needs the file to stay what it is during a roll: if
  it is changed to `override_numbers = no` after number 127, `encode_entry`
  raises for 128. `AnchoredLabels` needs `start` at least as large as `lead`,
  which `FrameAtStart` otherwise clips at frame 0, and an even pitch, because the
  codes are half of it apart while whole frames are skipped by all of it; the
  theorem names both (`Whole`), and the instances keep to them.

## 4. Findings

`stream_latch`: `served` is cleared only by `stop_stream`, which `arm_stream`
calls only while `served` is false. After a first scan the trigger of the next
one neither clears nor aligns.

`session_handles`: the check of `h` in `__call__` and the `h = None` of
`reopen` are on different threads without a lock.

`session_board`: `ppb.decode`, which latches the board, is called by `handle`
only for poll replies that differ from the last one.

`shim_install`: the comment above `install` (`pkusb.c` 586-587) calls it
idempotent and lists the threads that call it. `already` tests a slot and takes
it in two steps, so two of them can both patch a module; the second saves the
shim's function as the real one. The race is all that is missing: `InstallAlone`
(section 5) proves the property for one thread at a time.

## 5. What is proved

`ScanRing_proofs` proves, for every ring size, burst, threshold, number of reads
and number of packets, under `Primed` and `~WaitExpires`:

* `RingCorrect`: `Spec => []RingInv`.
* `TypeCorrect`, `InOrder`, `NeverOverruns`, `WakeupKept`: the four invariants
  of `ring`.
* `QuietOnceFinished`: the action property `TouchesOnlyWhilePending`, which is
  about all the worker writes: data area, Writing, OverFlow, TransferInProgress and
  the packet event.
* `ImplementsQueue`: `ScanRing` implements `ScanQueue`.

The argument. `NoOverrun` and `TakesNextPacket` are not inductive: that a burst
fits is decided at `AskBurst` and used several steps later, after the consumer
moved; that a slot holds the next packet depends on all slots before it.
`RingInv` therefore adds: `ReadsInv`, only the newest read can have a live
worker, it is pending while it has one, and only completed reads are told
finished; `BurstInv`, for a worker in its burst, where it writes, that the burst
fits below the end and leaves one slot free *now* (consumption only lowers
`Used`, so an old snapshot stays safe), and that the slots already filled
continue the stream; `ContentInv`, the slots from Reading to Writing hold
consecutive packet numbers; `ConsumerInv`, the consumer never looks at an empty
ring, which the formula would take for a full one. One lemma for each action
that disturbs more than control (`AskBurst`, `RecvPacket`, `PublishBurst`,
`TakePacket`), one for all steps that only move control. The modular
arithmetic of indices is isolated in `Distances`, `TakeDistances`,
`PublishDistances` and `BurstIsFree`.

The two premises are where the code relies on its user: the event a client
waits for before its first look, and a scan that ends within 30 s of its
cancel. With `HeaderOK = FALSE` the theorems hold too, vacuously as far as data
is concerned.

`DeviceSession_proofs` proves, for any set of connections and of control
transfers, any number of re-enumerations and client sessions, and whether or not
transfers fail with the device present:

* `TypeCorrect`: `TypeOK`, through `Typed`, which adds the shape of requests and
  replies; the later proofs rest on it.
* `EepromSafe`: `EepromUntouched`. `EepromInv` adds that a control transfer at
  its write has passed `allowed`, and `PolicySound` that what `allowed` passes
  does not write.
* `RepliesMatch`: `OwnReply`. `OwnInv` says what the lock protects: its holder
  is the thread that awaits a reply, the endpoint then holds just that reply,
  and nothing when the lock is free. A reply after its timeout is outside the
  model, hence outside the theorem.
* `CeilingKept`: `CeilingWhileKnown`, for one connection. `CeilingInv` adds what
  `ir_on` is worth: if the last lamp write is known to have reached this
  incarnation, it tells the lamp's state, except between the note and the write
  of a lamp packet (`LampNoted`); and the currents in a packet about to go out
  are those of the row that applies at that moment.

The assumption on the constants (`SessionAssumption`) says only that
connections are not `main` and that bounds are numbers.

With one connection, too:

* `HandleGuarded`: `NoBareHandle`. `HandleInv` is where in a request a thread may
  be while `h` is None.
* `PickedUpAgain`: `Recovers`. `RecoverInv` relates the incarnation of the handle
  to what the thread saw of the bus since its request began.
* `StoppedAtExit`: `HaltedAtExit`. `ExitInv` says how far the exit has got
  (`Progress`), which packet main has under way (`PacketInv`), whose reply the
  endpoint holds (`EndpointInv`), and that a scanner the handle does not belong
  to is dark and still (`LinkInv`): what main's packets did, or leaving the bus
  did instead.

With two connections `NoBareHandle` is refuted (section 4), so these premises are
the code's, not the proof's.

`ImageStream_proofs` proves, for any line length, sizes of reads, buffer, number
of units, triggers and reader generations:

* `TypeCorrect`: `TypeOK`, from `Typed`; that the buffer keeps to its bound while
  a handle is closed under it, and that readers to be spawned have room
  reserved.
* `ServedInOrder`: `StreamInOrder`, whatever fails. `OrderInv` says that what was
  served last, each reply, the buffer, each callback and the wire follow one
  another, stated pairwise.
* `FlagHasReader`: `ReadingHasReader`, without failures. `ReadersInv` adds
  that a running reader has a transfer in flight, and that behind the flag there
  is a reader that submits or runs, or a thread about to spawn one.
* `BufferIsFresh`, `TransfersAreWhole`, `TransfersStartOnLine`:
  `NothingPredatesClear`, `NoHoleInTransfer`, `TransferStartsOnLine`, in an
  undisturbed session (`Undisturbed`: no overlapping reads, `Prompt`, no idle
  client, no failure). `ResetInv` carries what `arm_stream` tested to where it
  starts the stream, across an answer still being stamped. `OneReader` says that at most one reader is live, `ClearedIsQuiet`
  that nothing is in flight when the buffer is cleared, `FreshInv` that all that
  follows is newer than the trigger, and `TransferInv` that from the first unit
  served the transfer, the buffer, the callbacks and the wire are one contiguous
  run that begins on a line.

`DxSynth_proofs` proves, for any configuration directory, counter width, table of
scan parameters, transport and number of strips (`TextAssumption`: the files are
texts the parser's expressions take apart):

* `TypeCorrect`: `TypeOK`, from `Typed`. That `load` yields ranges needs the last
  line of a key, the greatest of a finite set of indices, which exists by
  well-foundedness (`MaxOfIndices`).
* `FilmStartOnce`: `FilmStartPrecedes`, from `StartInv`: a strip without
  a code has no film start, one with a code has one, and the flag tells which.
* `LabelsGrow`: `LabelsAscend`, from `RollInv`: while a roll
  goes on, the next label is above the last one sent.
* `CounterUnwrapped`: `CounterTracks`, from `ReadInv` and `EdgeInv`, if the
  transport covers less than half the counter's range between two reads (`Slow`),
  and an edge or the fallback comes before the first wrap (`Soon`).
* `CodesEven`: `EvenCodes`, if the fallback waits at all. `EvenInv` relates the
  last code sent to the next place on the grid, modulo the counter's range; the
  range being even is what lets halves be compared.
* `LabelsAnchored`: `AnchoredLabels`, under `Slow`, `Soon` and `Whole` (above).
  `OriginInv` says that every code lies on the grid whose origin is the film's
  edge; that whole frames skipped before the first code keep it there is
  `AnchorOnGrid`.
* `EntriesMeant`: `EntriesValid`, with no premise. `EntryDecoded` is the heart: what
  `encode_entry` builds is accepted by the engine's parser and read back, for
  every film code, every frame of seven bits and any byte 0 of the frame's parity.
  The parity of an entry is a cardinality, so the spare bit has to be shown to
  add exactly one to it (`SpareBit`). `StartKept` says that a plain entry's number
  stays the start label, through the strips of a roll.
* `LineKnown`: `LineMeasured`, if each capture is `Readable`: in it the markers
  outvote the noise, or `line_sync` sees no lines. `MCDxSynth` assumes the same of
  its captures, and TLC evaluates it.

`LineSync_proofs` proves the vote itself (`LinesFound`), for every line size,
phase, number of lines and noise: three times the noisy samples being fewer than
the lines less one, `line_sync` and `tools/framing.py` find the true period and
phase, or decline. The argument counts. A noisy sample falls between two line
starts at most, and since those are a period apart (`StartsApart`) no two starts
are spoiled by the same sample (`SpoiledFew`, an injection). All starts but the
last and the spoiled ones vote for the line size (`GapVotes`); only noise and
spoiled starts can vote for another (`OtherGapVotes`), and they are at most twice
the noise. A value with more votes than each other is what both ways of breaking
ties return (`Outvoted`).

`FirmwareLoad_proofs` proves, for any hex files, boards, firmware directories,
number of loads, power cycles and failures:

* `TypeCorrect`: `TypeOK`, for any number of loaders. `TypeInv` adds that the
  enumerations follow from the cycles of power and the scanner's state, which is
  what bounds them.
* `WholePrograms`: `NeverRunsJunk`, for one loader.
* `ImplementsBoot`: `BootSpec`, for one loader and images that all fill the cell
  the processor begins in (`ResetVector`, above).

The argument. What the processor executes depends on every cell written since
power came, so the invariants speak of the script that is still to be sent.
`GoodScript` says of a script that its cells are those of one image, that cells
of the internal memory are written only after both reset registers are held, and
that a register is released only when the script so far covers the image;
`GoesLast`, that after a release neither that register nor any cell is written.
That the two passes of `download_records` make such a script of any file is shown
once; that dropping the first transfer keeps it so is the step of every upload.
`ScriptInv` says that what has been sent of the script is in memory (`Playing`);
`HeldInv`, that a held processor runs nothing; `StartedInv`, that once the
application runs and the scanner is still on the bus, what is left to send writes
neither the internal memory nor the register. Each transfer is then a stutter of
`FirmwareBoot`, except the one that lets the processor go on the application.
Two loaders upload at once (section 3), which is why there is one.

`ShimInstall_proofs` proves, for any target modules, distinct imports, slots of
`g_done` and threads (`Tables`, what the tables in the source give):

* `TypeCorrect`: `TypeOK`, with no further premise.
* `InstallAlone`: `PassesOn`, if one thread at a time is in `install`
  (`Exclusive`), in whatever order modules are loaded and however often it is
  called. `shim_install` refutes `PassesOn` without that premise: the proof says
  that a lock round `install` is all its comment needs. `InstallInv` adds that the
  slots of `g_done` are taken in order, that a module in none of them still has the
  table it was loaded with, and that of the module being patched the imports not
  yet reached are Windows' own.

Every invariant, action property and refinement the passing runs check is proved,
under the premises named. Model-checked only are the liveness properties
(`CancelRetires`, `StopEndsTransfer`, `Drains`, `StreamingLampGoesOff`,
`ArmedStreamIsRead`, `CodesKeepComing`, `Answered`, `Reconnects`: fairness and
ENABLED are outside the prover). `ServedIsCurrent`, `BoardLatched` and
`PassesOn` (of unlocked threads) are refuted.

## 6. Not modelled

* Pixel data, image dimensions, log text, the capture file.
* The shim's command socket: requests are serialised by `g_lock`, except the
  connect in `CreateFile` (`pkusb.c` 148), which a thread makes without it. The
  redirection of log files, the error hook and the unlock of film modes patch
  code once.
* The text of trace decoding, `eedump`, set-up and launcher scripts.
* `firmware_status`, which reports and changes nothing.
* Composition of `ImageStream` with `DeviceSession`: the reopen under a running
  reader is in `ImageStream`, but there only the command thread reopens, and the
  watchdog's lamp packet is one step rather than a walk through `cmd`.
* The cadence of prompts (`_retime`): a prompt may come at any poll.
* A reply that comes after its 3 s timeout.
* Real time: deadlines are alternatives that may always be taken.

## 7. Plan

Done: ring, image stream, request dispatch, DX override, firmware loader
and installation of the shim (models, runs, proofs).

Next, in this order:

1. `ShimTransport`: the request socket (connect, reconnect, a request per
   thread) and an abstract driver interface (open, control, read, cancel) that
   it implements together with `ScanRing`.
2. `Bridge`: `ImageStream` and `DeviceSession` composed over a shared handle, for
   two connections that reopen under a running reader, and Ctrl-C against a
   running scan.
3. Fewer premises: what of `CeilingKept` and `PickedUpAgain` survives a second
   connection, and of `FlagHasReader` a failure.
