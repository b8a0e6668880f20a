----------------------------- MODULE ScanQueue -----------------------------
(***************************************************************************)
(* What the scan-line ring promises the scanner application: a bounded     *)
(* FIFO.  Packets of the image stream are numbered in the order the bridge *)
(* hands them over; the application receives the published ones one at a   *)
(* time, in that order, each exactly once, and at most N - 1 of them are   *)
(* outstanding ("never fill the last slot", docs/PROTOCOL.md section 3).   *)
(* A new image read discards what the previous one left unread.            *)
(***************************************************************************)
EXTENDS Integers

CONSTANT N                  \* packets in the ring, header word 0x0c

VARIABLES
  sent,                     \* number of the last packet published
  taken,                    \* number of the last packet accounted for
  delivered                 \* number of the last packet the app received

vars == <<sent, taken, delivered>>

Init == sent = 0 /\ taken = 0 /\ delivered = 0

(* The producer publishes a batch, never more than fits. *)
Publish ==
  /\ sent' > sent
  /\ sent' - taken <= N - 1
  /\ UNCHANGED <<taken, delivered>>

(* The application receives the oldest unread packet and no other. *)
Take ==
  /\ taken < sent
  /\ taken' = taken + 1
  /\ delivered' = taken + 1
  /\ UNCHANGED sent

(* A new read starts empty, after everything handed over so far. *)
Restart ==
  /\ sent' >= sent
  /\ taken' = sent'
  /\ UNCHANGED delivered

Next == Publish \/ Take \/ Restart

Spec == Init /\ [][Next]_vars
=============================================================================
