------------------------------- MODULE LineSync -------------------------------
(***************************************************************************)
(* How the bridge (line_sync in server/pakonusb.py) and the tool that      *)
(* checks its captures (report in tools/framing.py) find the scan lines in *)
(* raw image data.  A capture is the set of its samples, numbered from 0,  *)
(* whose bit 0 is set: one at the start of every line, and noise.          *)
(***************************************************************************)
EXTENDS Integers, FiniteSets, FiniteSetsExt

CONSTANTS
  MinMarkers,    \* markers line_sync wants to see: 8
  MinReported,   \* markers report wants to see: 10
  MinPeriod      \* a shorter period is a noise cluster: 1000 samples

ASSUME LineSyncAssumption ==
  MinMarkers \in Nat \ {0, 1} /\ MinReported \in Nat \ {0, 1} /\ MinPeriod \in Nat

NoSync == [phase |-> -1, period |-> -1]

(* The samples from each marker but the last to the next one. *)
Gaps(marks) ==
  [a \in marks \ {Max(marks)} |-> Min({b \in marks : b > a}) - a]

(* Where a function takes the values it takes most often. *)
Count(f, k) == Cardinality({i \in DOMAIN f : f[i] = k})
Favoured(f) ==
  LET top == Max({Count(f, f[i]) : i \in DOMAIN f})
  IN  {i \in DOMAIN f : Count(f, f[i]) = top}

(* Counter.most_common(1): of the values met most often, the first met. *)
MostCommon(f) == f[Min(Favoured(f))]

(* numpy's argmax over sorted values: of those met most often, the least. *)
LeastMostCommon(f) == Min({f[i] : i \in Favoured(f)})

Phases(marks, period) == [a \in marks |-> a % period]

(* A bug in line_sync: the first set bit is taken for a line start. *)
line_sync_first(marks) ==
  LET period == MostCommon(Gaps(marks))
  IN  IF Cardinality(marks) < MinMarkers \/ period < MinPeriod THEN NoSync
      ELSE [phase |-> Min(marks) % period, period |-> period]

line_sync(marks) ==
  LET period == MostCommon(Gaps(marks))
  IN  IF Cardinality(marks) < MinMarkers \/ period < MinPeriod THEN NoSync
      ELSE [phase |-> MostCommon(Phases(marks, period)), period |-> period]

report(marks) ==
  LET period == LeastMostCommon(Gaps(marks))
  IN  IF Cardinality(marks) < MinReported THEN NoSync
      ELSE [phase |-> LeastMostCommon(Phases(marks, period)), period |-> period]

(* A capture of so many lines that begins in the middle of one, with noise. *)
Starts(phase, period, lines) == {phase + k * period : k \in 0..(lines - 1)}
Capture(phase, period, lines, noise) ==
  Starts(phase, period, lines) \union
    (noise \intersect 0..(lines * period - 1))

(* A capture of so many lines in which the markers outvote the noise: each noisy
   sample splits one gap between markers and makes two of its own. *)
Legible(marks, phase, period, lines) ==
  LET starts == Starts(phase, period, lines)
  IN  /\ period \in Nat \ {0} /\ phase \in 0..(period - 1)
      /\ starts \subseteq marks /\ marks \subseteq 0..(lines * period - 1)
      /\ 3 * Cardinality(marks \ starts) < lines - 1
=============================================================================
