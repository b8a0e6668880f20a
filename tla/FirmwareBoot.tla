---------------------------- MODULE FirmwareBoot -----------------------------
(***************************************************************************)
(* What the firmware loader promises: a scanner without firmware goes, in  *)
(* one step, to running one whole application image that suits its board;  *)
(* it keeps running it until it loses power; and whoever was given the     *)
(* device was given one that runs its application.                         *)
(***************************************************************************)
EXTENDS Naturals

CONSTANTS Loaders, Nothing

VARIABLES
  suitable,      \* the application images that suit the board
  app,           \* the image the scanner runs, or Nothing
  users,         \* the loaders whose handle is good
  lost           \* how often the power was cut

vars == <<suitable, app, users, lost>>

Init == app = Nothing /\ users = {} /\ lost = 0

Start ==
  /\ app = Nothing /\ app' \in suitable
  /\ UNCHANGED <<suitable, users, lost>>

PowerOff ==
  /\ lost' = lost + 1
  /\ app' = Nothing /\ users' = {}
  /\ UNCHANGED suitable

Acquire(l) ==
  /\ app # Nothing
  /\ users' = users \union {l}
  /\ UNCHANGED <<suitable, app, lost>>

Release(l) ==
  /\ users' = users \ {l}
  /\ UNCHANGED <<suitable, app, lost>>

Next == Start \/ PowerOff \/ \E l \in Loaders : Acquire(l) \/ Release(l)

Spec == Init /\ [][Next]_vars
=============================================================================
