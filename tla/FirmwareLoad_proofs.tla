------------------------ MODULE FirmwareLoad_proofs -------------------------
(***************************************************************************)
(* What holds of FirmwareLoad whatever the hex files, the boards and the   *)
(* directories: the types, for any number of loaders, and, for one loader, *)
(* that the processor never executes a mixture and that an upload in all   *)
(* its steps is one step of FirmwareBoot.                                  *)
(*                                                                         *)
(* First what the functions on hex files return, then what makes a script  *)
(* of control transfers safe to carry out and to break off anywhere, and   *)
(* that both scripts of load_firmware are made so; the invariant then says *)
(* how much of such a script has been carried out.                         *)
(***************************************************************************)
EXTENDS FirmwareLoad, SequenceTheorems, WellFoundedInduction, TLAPS

-----------------------------------------------------------------------------
(* Numbers: what holds of all of them by induction, said of a set. *)
LEMMA Least ==
  ASSUME NEW S, S \subseteq Nat, S # {}
  PROVE  \E m \in S : \A n \in S : m <= n
  <1> DEFINE R == OpToRel(<, Nat)
  <1>1. IsWellFoundedOn(R, Nat)
    BY NatLessThanWellFounded
  <1> HIDE DEF R
  <1>2. PICK m \in S : \A n \in S : ~ (<<n, m>> \in R)
    BY <1>1, WFMin
  <1>3. \A n \in S : ~ (n < m)
    <2> SUFFICES ASSUME NEW n \in S, n < m PROVE FALSE
      OBVIOUS
    <2>1. <<n, m>> \in R
      BY DEF R, OpToRel
    <2> QED
      BY <1>2, <2>1
  <1> QED
    BY <1>3

LEMMA Induction ==
  ASSUME NEW S, NEW k \in Nat, 0 \in S, \A n \in 1..k : n - 1 \in S => n \in S
  PROVE  0..k \subseteq S
  <1> DEFINE Out == {n \in 0..k : n \notin S}
  <1> SUFFICES ASSUME Out # {} PROVE FALSE
    OBVIOUS
  <1>0. Out \subseteq Nat
    OBVIOUS
  <1>1. PICK m \in Out : \A n \in Out : m <= n
    <2> HIDE DEF Out
    <2> QED
      BY <1>0, Least
  <1>2. m \in 1..k /\ m - 1 \in 0..k
    BY <1>1
  <1>3. m - 1 \in S
    BY <1>1, <1>2
  <1> QED
    BY <1>1, <1>2, <1>3

LEMMA MinIsIn ==
  ASSUME NEW S, S \subseteq Nat, S # {}
  PROVE  Min(S) \in S
  BY Least DEF Min

-----------------------------------------------------------------------------
(* Kept defines a function, and it leaves just what is at the places. *)
LEMMA KeptExists ==
  ASSUME NEW T, NEW s \in Seq(T), NEW places
  PROVE  \E f : /\ f[0] = <<>>
                /\ \A n \in 1..Len(s) :
                     f[n] = IF n \in places THEN Append(f[n - 1], s[n]) ELSE f[n - 1]
                /\ Kept(s, places) = f[Len(s)]
  <1> DEFINE Step(f, n) == IF n = 0 THEN <<>>
                           ELSE IF n \in places THEN Append(f[n - 1], s[n])
                           ELSE f[n - 1]
             Exists(k) == \E f : f = [n \in 0..k |-> Step(f, n)]
             S == {k \in 0..Len(s) : Exists(k)}
  <1>1. Len(s) \in Nat
    OBVIOUS
  <1>2. 0 \in S
    <2> DEFINE f == [n \in 0..0 |-> <<>>]
    <2>1. \A n \in 0..0 : Step(f, n) = <<>>
      OBVIOUS
    <2>2. f = [n \in 0..0 |-> Step(f, n)]
      BY <2>1
    <2> HIDE DEF f, Step
    <2>3. Exists(0)
      BY <2>2
    <2> QED
      BY <1>1, <2>3
  <1>3. ASSUME NEW k \in 1..Len(s), k - 1 \in S PROVE k \in S
    <2>1. PICK f : f = [n \in 0..(k - 1) |-> Step(f, n)]
      BY <1>3
    <2> DEFINE g == [n \in 0..k |-> IF n = k THEN Step(f, k) ELSE f[n]]
    <2>2. \A n \in 0..k : Step(g, n) = Step(f, n)
      <3> SUFFICES ASSUME NEW n \in 0..k PROVE Step(g, n) = Step(f, n)
        OBVIOUS
      <3>1. n # 0 => n - 1 \in 0..k /\ n - 1 # k
        BY <1>1
      <3>2. n # 0 => g[n - 1] = f[n - 1]
        BY <3>1
      <3> HIDE DEF g
      <3> QED
        BY <3>2
    <2>3. \A n \in 0..(k - 1) : f[n] = Step(f, n)
      <3> DEFINE h == [n \in 0..(k - 1) |-> Step(f, n)]
      <3>1. \A n \in 0..(k - 1) : h[n] = Step(f, n)
        OBVIOUS
      <3>2. f = h
        BY <2>1
      <3> HIDE DEF h, Step
      <3> QED
        BY <3>1, <3>2
    <2>4. \A n \in 0..k : g[n] = Step(f, n)
      <3> SUFFICES ASSUME NEW n \in 0..k PROVE g[n] = Step(f, n)
        OBVIOUS
      <3>1. n # k => n \in 0..(k - 1)
        BY <1>1
      <3> HIDE DEF Step
      <3> QED
        BY <2>3, <3>1
    <2>5. g = [n \in 0..k |-> Step(g, n)]
      <3>1. \A n \in 0..k : g[n] = Step(g, n)
        BY <2>2, <2>4
      <3>2. g = [n \in 0..k |-> g[n]]
        OBVIOUS
      <3> HIDE DEF g, Step
      <3> QED
        BY <3>1, <3>2
    <2> HIDE DEF g, Step
    <2> QED
      BY <2>5
  <1> HIDE DEF S
  <1>4. Len(s) \in S
    <2>1. 0..Len(s) \subseteq S
      BY ONLY <1>1, <1>2, <1>3, Induction
    <2> QED
      BY <1>1, <2>1
  <1> DEFINE f == CHOOSE g : g = [n \in 0..Len(s) |-> Step(g, n)]
  <1>5. f = [n \in 0..Len(s) |-> Step(f, n)]
    BY <1>4 DEF S
  <1>6. Kept(s, places) = f[Len(s)]
    BY DEF Kept
  <1> HIDE DEF f
  <1>7. \A n \in 0..Len(s) : f[n] = Step(f, n)
    <2> DEFINE h == [n \in 0..Len(s) |-> Step(f, n)]
    <2>1. \A n \in 0..Len(s) : h[n] = Step(f, n)
      OBVIOUS
    <2>2. f = h
      BY <1>5
    <2> HIDE DEF h, Step
    <2> QED
      BY <2>1, <2>2
  <1>8. f[0] = <<>>
    BY <1>1, <1>7
  <1>9. \A n \in 1..Len(s) :
          f[n] = IF n \in places THEN Append(f[n - 1], s[n]) ELSE f[n - 1]
    BY <1>1, <1>7
  <1> QED
    BY <1>6, <1>8, <1>9

LEMMA KeptIs ==
  ASSUME NEW T, NEW s \in Seq(T), NEW places
  PROVE  /\ Kept(s, places) \in Seq(T)
         /\ \A i \in 1..Len(Kept(s, places)) :
              \E n \in 1..Len(s) : n \in places /\ Kept(s, places)[i] = s[n]
         /\ \A n \in 1..Len(s) : n \in places =>
              \E i \in 1..Len(Kept(s, places)) : Kept(s, places)[i] = s[n]
  <1>1. PICK f : /\ f[0] = <<>>
                 /\ \A n \in 1..Len(s) :
                      f[n] = IF n \in places THEN Append(f[n - 1], s[n])
                             ELSE f[n - 1]
                 /\ Kept(s, places) = f[Len(s)]
    BY KeptExists
  <1> DEFINE From(t, k) == /\ t \in Seq(T)
                           /\ \A i \in 1..Len(t) :
                                \E n \in 1..k : n \in places /\ t[i] = s[n]
                           /\ \A n \in 1..k : n \in places =>
                                \E i \in 1..Len(t) : t[i] = s[n]
             S == {k \in 0..Len(s) : From(f[k], k)}
  <1> HIDE DEF From
  <1>2. f[0] = <<>> /\ Len(s) \in Nat
    BY <1>1
  <1>4. 0 \in S
    <2>1. From(f[0], 0)
      BY <1>2 DEF From
    <2> QED
      BY <1>2, <2>1
  <1>5. ASSUME NEW k \in 1..Len(s), k - 1 \in S PROVE k \in S
    <2> DEFINE t == f[k - 1]
               u == Append(t, s[k])
    <2>1. From(t, k - 1) /\ s[k] \in T
      BY <1>5
    <2> HIDE DEF t
    <2>4. /\ t \in Seq(T)
          /\ \A i \in 1..Len(t) : \E n \in 1..(k - 1) : n \in places /\ t[i] = s[n]
          /\ \A n \in 1..(k - 1) : n \in places => \E i \in 1..Len(t) : t[i] = s[n]
      BY <2>1 DEF From
    <2>2. CASE k \notin places
      <3>1. f[k] = t
        BY <1>1, <2>2 DEF t
      <3>2. From(t, k)
        <4>1. \A n \in 1..k : n \in places => n \in 1..(k - 1)
          BY <1>2, <2>2
        <4>2. \A n \in 1..(k - 1) : n \in 1..k
          BY <1>2
        <4> QED
          BY <2>4, <4>1, <4>2 DEF From
      <3> QED
        BY <3>1, <3>2
    <2>3. CASE k \in places
      <3>1. f[k] = u
        BY <1>1, <2>3 DEF t
      <3>2. /\ u \in Seq(T) /\ Len(t) \in Nat /\ Len(u) = Len(t) + 1
            /\ u[Len(u)] = s[k] /\ \A i \in 1..Len(t) : u[i] = t[i]
        BY <2>1, <2>4
      <3> HIDE DEF u
      <3>3. \A i \in 1..Len(u) : \E n \in 1..k : n \in places /\ u[i] = s[n]
        <4> SUFFICES ASSUME NEW i \in 1..Len(u)
                     PROVE  \E n \in 1..k : n \in places /\ u[i] = s[n]
          OBVIOUS
        <4>1. CASE i = Len(u)
          BY <2>3, <3>2, <4>1
        <4>2. CASE i \in 1..Len(t)
          <5>1. PICK n \in 1..(k - 1) : n \in places /\ t[i] = s[n]
            BY <2>4, <4>2
          <5> QED
            BY <3>2, <4>2, <5>1
        <4> QED
          BY <3>2, <4>1, <4>2
      <3>4. \A n \in 1..k : n \in places => \E i \in 1..Len(u) : u[i] = s[n]
        <4> SUFFICES ASSUME NEW n \in 1..k, n \in places
                     PROVE  \E i \in 1..Len(u) : u[i] = s[n]
          OBVIOUS
        <4>1. CASE n = k
          <5>1. Len(u) \in 1..Len(u)
            BY <3>2
          <5> QED
            BY <3>2, <4>1, <5>1
        <4>2. CASE n \in 1..(k - 1)
          <5>1. PICK i \in 1..Len(t) : t[i] = s[n]
            BY <2>4, <4>2
          <5>2. i \in 1..Len(u)
            BY <3>2
          <5> QED
            BY <3>2, <5>1, <5>2
        <4> QED
          BY <4>1, <4>2
      <3>5. From(u, k)
        BY <3>2, <3>3, <3>4 DEF From
      <3> QED
        BY <3>1, <3>5
    <2> HIDE DEF S
    <2> QED
      BY <2>2, <2>3
  <1> HIDE DEF S
  <1>6. Len(s) \in S
    <2> DEFINE m == Len(s)
    <2>1. m \in Nat
      BY <1>2
    <2>2. \A k \in 1..m : k - 1 \in S => k \in S
      BY <1>5
    <2> HIDE DEF m
    <2>3. 0..m \subseteq S
      BY ONLY <1>4, <2>1, <2>2, Induction
    <2>4. m \in 0..m
      BY <2>1
    <2> QED
      BY ONLY <2>3, <2>4 DEF m
  <1> QED
    BY <1>1, <1>6 DEF S, From

-----------------------------------------------------------------------------
(* Scripts.  What makes one safe to carry out, wherever it is broken off: it
   writes cells of one image only; it writes code where the processor cannot be
   executing it, after holding both reset registers; and it lets the processor
   go only when all cells of the image are written. *)
Requests == {"A0", "A3", "A4"}
Writes == [request : Requests, at : Cells \union Registers \union {"init"},
           data : DOMAIN Text \union {0, 1}]
Covers(s, n, image) ==
  \A k \in DOMAIN parse_ihex[image] :
    \E j \in 1..n : s[j].at = parse_ihex[image][k]
HeldBefore(s, i, r) ==
  \E j \in 1..(i - 1) : /\ s[j].at = r /\ s[j].data = 1
                        /\ \A m \in (j + 1)..(i - 1) : s[m].at # r
GoodScript(s, image) ==
  /\ s \in Seq(Writes) /\ s # <<>>
  /\ \A i \in 1..Len(s) :
       /\ s[i].at \in Cells => s[i].data = image
       /\ s[i].at \in Registers => s[i].data \in {0, 1}
       /\ s[i].at \in Internal => \A r \in Registers : HeldBefore(s, i, r)
       /\ s[i].at \in Registers /\ s[i].data = 0 => Covers(s, i - 1, image)

LEMMA AsSequence ==
  ASSUME NEW T, NEW n \in Nat, NEW f \in [1..n -> T]
  PROVE  f \in Seq(T) /\ Len(f) = n
  OBVIOUS

LEMMA ParsedIs ==
  ASSUME NEW image \in DOMAIN Text
  PROVE  parse_ihex[image] \in Seq(Cells)
  <1> DEFINE Line == [kind : Kinds, cell : Cells]
             lines == Upto(Text[image])
             data == Kept(lines, {i \in DOMAIN lines : lines[i].kind = "data"})
  <1>1. Text[image] \in Seq(Line)
    BY FirmwareAssumption
  <1>2. lines \in Seq(Line)
    <2> DEFINE t == Text[image]
               ends == {i \in DOMAIN t : t[i].kind = "end"}
    <2>1. ends # {} => SubSeq(t, 1, Min(ends) - 1) \in Seq(Line)
      <3> SUFFICES ASSUME ends # {} PROVE SubSeq(t, 1, Min(ends) - 1) \in Seq(Line)
        OBVIOUS
      <3>1. ends \subseteq Nat /\ ends \subseteq 1..Len(t)
        BY <1>1
      <3>2. Min(ends) \in ends
        <4> HIDE DEF ends
        <4> QED
          BY <3>1, MinIsIn
      <3> DEFINE m == Min(ends)
      <3>3. m \in 1..Len(t)
        BY <3>1, <3>2
      <3> HIDE DEF m, ends
      <3> HIDE DEF t, Line
      <3>4. \A i \in 1..(m - 1) : t[i] \in Line
        <4>1. Len(t) \in Nat /\ \A i \in 1..(m - 1) : i \in 1..Len(t)
          BY <1>1, <3>3 DEF t
        <4> QED
          BY <1>1, <4>1, ElementOfSeq DEF t
      <3>5. m - 1 \in Int
        BY <3>3
      <3>6. SubSeq(t, 1, m - 1) \in Seq(Line)
        BY ONLY <3>4, <3>5, SubSeqProperties
      <3> QED
        BY <3>6 DEF m
    <2> QED
      BY <1>1, <2>1 DEF Upto
  <1> HIDE DEF lines
  <1>3. data \in Seq(Line)
    BY <1>2, KeptIs
  <1> HIDE DEF data
  <1>4. [i \in DOMAIN data |-> data[i].cell] \in Seq(Cells)
    <2>1. Len(data) \in Nat /\ DOMAIN data = 1..Len(data)
      BY <1>3
    <2>2. \A i \in DOMAIN data : data[i].cell \in Cells
      <3>1. \A i \in 1..Len(data) : data[i] \in Line
        <4> HIDE DEF Line
        <4> QED
          BY <1>3, ElementOfSeq
      <3> QED
        BY <2>1, <3>1
    <2> HIDE DEF Line
    <2>3. [i \in DOMAIN data |-> data[i].cell] \in [1..Len(data) -> Cells]
      BY <2>1, <2>2
    <2> QED
      BY ONLY <2>1, <2>3, AsSequence
  <1>5. parse_ihex[image] = [i \in DOMAIN data |-> data[i].cell]
    BY DEF parse_ihex, data, lines
  <1> QED
    BY <1>4, <1>5

LEMMA PassIs ==
  ASSUME NEW image \in DOMAIN Text, NEW request \in Requests, NEW region
  PROVE  /\ Pass(image, request, region) \in Seq(Writes)
         /\ \A i \in 1..Len(Pass(image, request, region)) :
              /\ Pass(image, request, region)[i].at \in Cells \intersect region
              /\ Pass(image, request, region)[i].data = image
         /\ \A k \in DOMAIN parse_ihex[image] : parse_ihex[image][k] \in region =>
              \E i \in 1..Len(Pass(image, request, region)) :
                Pass(image, request, region)[i].at = parse_ihex[image][k]
  <1> DEFINE records == parse_ihex[image]
             places == {i \in DOMAIN records : records[i] \in region}
             cells == Kept(records, places)
             p == [i \in DOMAIN cells |-> Write(request, cells[i], image)]
  <1>1. records \in Seq(Cells)
    BY ParsedIs
  <1>2. Pass(image, request, region) = p
    BY DEF Pass
  <1> HIDE DEF records
  <1>3. /\ cells \in Seq(Cells)
        /\ \A i \in 1..Len(cells) :
             \E n \in 1..Len(records) : n \in places /\ cells[i] = records[n]
        /\ \A n \in 1..Len(records) : n \in places =>
             \E i \in 1..Len(cells) : cells[i] = records[n]
    <2> HIDE DEF places
    <2> QED
      BY <1>1, KeptIs
  <1> HIDE DEF cells
  <1>4. \A i \in 1..Len(cells) : cells[i] \in Cells \intersect region
    BY <1>1, <1>3
  <1>5. \A i \in 1..Len(cells) : Write(request, cells[i], image) \in Writes
    BY <1>4 DEF Writes, Write
  <1>6. p \in Seq(Writes) /\ Len(p) = Len(cells) /\ DOMAIN cells = 1..Len(cells)
    <2>1. Len(cells) \in Nat /\ DOMAIN cells = 1..Len(cells)
      BY <1>3
    <2>2. p \in [1..Len(cells) -> Writes]
      BY <1>5, <2>1
    <2> HIDE DEF p
    <2> QED
      BY <2>1, <2>2, AsSequence
  <1>7. \A i \in 1..Len(p) : p[i].at = cells[i] /\ p[i].data = image
    BY <1>6 DEF Write
  <1>8. \A k \in DOMAIN records : k \in 1..Len(records)
    BY <1>1
  <1>9. \A k \in DOMAIN records : records[k] \in region =>
          \E i \in 1..Len(p) : p[i].at = records[k]
    <2> SUFFICES ASSUME NEW k \in DOMAIN records, records[k] \in region
                 PROVE  \E i \in 1..Len(p) : p[i].at = records[k]
      OBVIOUS
    <2>1. k \in places
      OBVIOUS
    <2>2. PICK i \in 1..Len(cells) : cells[i] = records[k]
      BY <1>3, <1>8, <2>1
    <2> HIDE DEF p
    <2> QED
      BY <1>6, <1>7, <2>2
  <1> HIDE DEF p
  <1> QED
    BY <1>2, <1>4, <1>6, <1>7, <1>9 DEF records

LEMMA ResetIs ==
  ASSUME NEW hold \in {0, 1}
  PROVE  /\ reset_8051(hold) \in Seq(Writes) /\ Len(reset_8051(hold)) = 2
         /\ \A i \in 1..2 : reset_8051(hold)[i].at \in Registers
                            /\ reset_8051(hold)[i].data = hold
         /\ reset_8051(hold)[1].at = "CPUCS_EZUSB"
         /\ reset_8051(hold)[2].at = "CPUCS_FX2"
  <1> DEFINE a == Write("A0", "CPUCS_EZUSB", hold)
             b == Write("A0", "CPUCS_FX2", hold)
  <1>1. a \in Writes /\ b \in Writes
    BY DEF Write, Writes, Requests, Registers
  <1>2. /\ a.at = "CPUCS_EZUSB" /\ a.data = hold
        /\ b.at = "CPUCS_FX2" /\ b.data = hold
    BY DEF Write
  <1>3. reset_8051(hold) = <<a, b>>
    BY DEF reset_8051
  <1> HIDE DEF a, b
  <1> QED
    BY <1>1, <1>2, <1>3 DEF Registers

LEMMA Joined ==
  ASSUME NEW s \in Seq(Writes), NEW t \in Seq(Writes)
  PROVE  /\ s \o t \in Seq(Writes) /\ Len(s \o t) = Len(s) + Len(t)
         /\ Len(s) \in Nat /\ Len(t) \in Nat
         /\ \A i \in 1..Len(s) : (s \o t)[i] = s[i]
         /\ \A i \in 1..Len(t) : (s \o t)[Len(s) + i] = t[i]
         /\ \A i \in 1..Len(s \o t) : \/ i \in 1..Len(s)
                                      \/ \E k \in 1..Len(t) : i = Len(s) + k
  <1>1. Len(s) \in Nat /\ Len(t) \in Nat /\ Len(s \o t) = Len(s) + Len(t)
    OBVIOUS
  <1>2. \A i \in 1..Len(s \o t) : i \notin 1..Len(s) =>
          i - Len(s) \in 1..Len(t) /\ i = Len(s) + (i - Len(s))
    BY <1>1
  <1>3. /\ s \o t \in Seq(Writes)
        /\ \A i \in 1..Len(s) : (s \o t)[i] = s[i]
        /\ \A i \in 1..Len(t) : (s \o t)[Len(s) + i] = t[i]
    OBVIOUS
  <1> QED
    BY <1>1, <1>2, <1>3

(* Transfers that write no cell. *)
Plain(t) ==
  /\ t \in Seq(Writes)
  /\ \A i \in 1..Len(t) : /\ t[i].at \notin Cells
                          /\ t[i].at \in Registers => t[i].data \in {0, 1}
Releases(t) == \E i \in 1..Len(t) : t[i].at \in Registers /\ t[i].data = 0

LEMMA Apart ==
  /\ External \subseteq Cells /\ Internal \subseteq Cells
  /\ \A c \in External : c \notin Internal
  /\ \A c \in Cells : c \notin Registers /\ c # "init"
  BY FirmwareAssumption DEF Cells

(* A script may be continued by transfers that write no cell, and let the
   processor go only if it covers the image. *)
LEMMA Extend ==
  ASSUME NEW s, NEW t, NEW image \in DOMAIN Text, GoodScript(s, image), Plain(t),
         Releases(t) => Covers(s, Len(s), image)
  PROVE  /\ GoodScript(s \o t, image)
         /\ Covers(s, Len(s), image) => Covers(s \o t, Len(s \o t), image)
  <1> DEFINE u == s \o t
             a == Len(s)
  <1>1. s \in Seq(Writes) /\ t \in Seq(Writes) /\ s # <<>>
    BY DEF GoodScript, Plain
  <1>2. /\ u \in Seq(Writes) /\ Len(u) = a + Len(t) /\ a \in Nat /\ Len(t) \in Nat
        /\ \A i \in 1..a : u[i] = s[i]
        /\ \A i \in 1..Len(t) : u[a + i] = t[i]
        /\ \A i \in 1..Len(u) : i \in 1..a \/ \E k \in 1..Len(t) : i = a + k
    BY <1>1, Joined
  <1>3. a # 0
    BY <1>1
  <1> HIDE DEF u, a
  <1>4. u # <<>>
    BY <1>2, <1>3
  <1>5. \A n \in 0..a, m \in 0..Len(u) :
          n <= m /\ Covers(s, n, image) => Covers(u, m, image)
    <2> SUFFICES ASSUME NEW n \in 0..a, NEW m \in 0..Len(u), n <= m,
                        Covers(s, n, image)
                 PROVE  Covers(u, m, image)
      OBVIOUS
    <2>1. \A j \in 1..n : j \in 1..m /\ u[j] = s[j]
      BY <1>2
    <2> QED
      BY <2>1 DEF Covers
  <1>6. ASSUME NEW i \in 1..Len(u)
        PROVE  /\ u[i].at \in Cells => u[i].data = image
               /\ u[i].at \in Registers => u[i].data \in {0, 1}
               /\ u[i].at \in Internal => \A r \in Registers : HeldBefore(u, i, r)
               /\ u[i].at \in Registers /\ u[i].data = 0 => Covers(u, i - 1, image)
    <2>1. CASE i \in 1..a
      <3>1. u[i] = s[i] /\ i \in 1..Len(s) /\ i - 1 \in 0..a /\ i - 1 \in 0..Len(u)
        BY <1>2, <2>1 DEF a
      <3>2. \A r : HeldBefore(s, i, r) => HeldBefore(u, i, r)
        <4>1. \A m \in 1..(i - 1) : u[m] = s[m]
          BY <1>2, <2>1
        <4>2. \A j \in 1..(i - 1) : \A m \in (j + 1)..(i - 1) : m \in 1..(i - 1)
          BY <2>1
        <4> QED
          BY <4>1, <4>2 DEF HeldBefore
      <3>3. Covers(s, i - 1, image) => Covers(u, i - 1, image)
        BY <1>5, <3>1
      <3> QED
        BY <3>1, <3>2, <3>3 DEF GoodScript
    <2>2. ASSUME NEW k \in 1..Len(t), i = a + k
          PROVE  /\ u[i].at \in Cells => u[i].data = image
                 /\ u[i].at \in Registers => u[i].data \in {0, 1}
                 /\ u[i].at \in Internal => \A r \in Registers : HeldBefore(u, i, r)
                 /\ u[i].at \in Registers /\ u[i].data = 0 => Covers(u, i - 1, image)
      <3>1. u[i] = t[k]
        BY <1>2, <2>2
      <3>2. u[i].at \notin Cells /\ u[i].at \notin Internal
        BY <3>1, Apart DEF Plain
      <3>3. a \in 0..a /\ i - 1 \in 0..Len(u) /\ a <= i - 1
        BY <1>2, <2>2
      <3>4. t[k].at \in Registers /\ t[k].data = 0 => Covers(u, i - 1, image)
        BY <1>5, <3>3 DEF Releases, a
      <3> QED
        BY <3>1, <3>2, <3>4 DEF Plain
    <2> QED
      BY <1>2, <2>1, <2>2
  <1>7. GoodScript(u, image)
    BY <1>2, <1>4, <1>6 DEF GoodScript
  <1>8. Covers(s, a, image) => Covers(u, Len(u), image)
    BY <1>2, <1>5
  <1> QED
    BY <1>7, <1>8 DEF u, a

(* A script may be preceded by transfers that write no cell and do not let the
   processor go. *)
LEMMA Prepend ==
  ASSUME NEW s, NEW t, NEW image \in DOMAIN Text, GoodScript(s, image), Plain(t),
         ~Releases(t)
  PROVE  /\ GoodScript(t \o s, image)
         /\ Covers(s, Len(s), image) => Covers(t \o s, Len(t \o s), image)
  <1> DEFINE u == t \o s
             a == Len(t)
  <1>1. s \in Seq(Writes) /\ t \in Seq(Writes) /\ s # <<>>
    BY DEF GoodScript, Plain
  <1>2. /\ u \in Seq(Writes) /\ Len(u) = a + Len(s) /\ a \in Nat /\ Len(s) \in Nat
        /\ \A i \in 1..a : u[i] = t[i]
        /\ \A i \in 1..Len(s) : u[a + i] = s[i]
        /\ \A i \in 1..Len(u) : i \in 1..a \/ \E k \in 1..Len(s) : i = a + k
    BY <1>1, Joined
  <1>3. Len(s) # 0
    BY <1>1
  <1> HIDE DEF u, a
  <1>4. u # <<>>
    BY <1>2, <1>3
  <1>5. \A n \in 0..Len(s) : Covers(s, n, image) => Covers(u, a + n, image)
    <2> SUFFICES ASSUME NEW n \in 0..Len(s), Covers(s, n, image)
                 PROVE  Covers(u, a + n, image)
      OBVIOUS
    <2>1. \A j \in 1..n : a + j \in 1..(a + n) /\ u[a + j] = s[j]
      BY <1>2
    <2> QED
      BY <2>1 DEF Covers
  <1>6. ASSUME NEW i \in 1..Len(u)
        PROVE  /\ u[i].at \in Cells => u[i].data = image
               /\ u[i].at \in Registers => u[i].data \in {0, 1}
               /\ u[i].at \in Internal => \A r \in Registers : HeldBefore(u, i, r)
               /\ u[i].at \in Registers /\ u[i].data = 0 => Covers(u, i - 1, image)
    <2>1. CASE i \in 1..a
      <3>1. u[i] = t[i] /\ i \in 1..Len(t)
        BY <1>2, <2>1 DEF a
      <3>2. u[i].at \notin Cells /\ u[i].at \notin Internal
        BY <3>1, Apart DEF Plain
      <3> QED
        BY <3>1, <3>2 DEF Plain, Releases
    <2>2. ASSUME NEW k \in 1..Len(s), i = a + k
          PROVE  /\ u[i].at \in Cells => u[i].data = image
                 /\ u[i].at \in Registers => u[i].data \in {0, 1}
                 /\ u[i].at \in Internal => \A r \in Registers : HeldBefore(u, i, r)
                 /\ u[i].at \in Registers /\ u[i].data = 0 => Covers(u, i - 1, image)
      <3>1. u[i] = s[k]
        BY <1>2, <2>2
      <3>2. ASSUME NEW r, HeldBefore(s, k, r) PROVE HeldBefore(u, i, r)
        <4>1. PICK j \in 1..(k - 1) : /\ s[j].at = r /\ s[j].data = 1
                                      /\ \A m \in (j + 1)..(k - 1) : s[m].at # r
          BY <3>2 DEF HeldBefore
        <4>2. a + j \in 1..(i - 1) /\ u[a + j] = s[j]
          BY <1>2, <2>2
        <4>3. \A m \in (a + j + 1)..(i - 1) : u[m].at # r
          <5> SUFFICES ASSUME NEW m \in (a + j + 1)..(i - 1) PROVE u[m].at # r
            OBVIOUS
          <5>1. m - a \in (j + 1)..(k - 1) /\ m - a \in 1..Len(s) /\ a + (m - a) = m
            BY <1>2, <2>2
          <5>2. u[m] = s[m - a]
            BY <1>2, <5>1
          <5> QED
            BY <4>1, <5>1, <5>2
        <4> QED
          BY <4>1, <4>2, <4>3 DEF HeldBefore
      <3>3. k - 1 \in 0..Len(s) /\ a + (k - 1) = i - 1
        BY <1>2, <2>2
      <3>4. Covers(s, k - 1, image) => Covers(u, i - 1, image)
        BY <1>5, <3>3
      <3> QED
        BY <3>1, <3>2, <3>4 DEF GoodScript
    <2> QED
      BY <1>2, <2>1, <2>2
  <1>7. GoodScript(u, image)
    BY <1>2, <1>4, <1>6 DEF GoodScript
  <1>8. Covers(s, Len(s), image) => Covers(u, Len(u), image)
    <2>1. Len(s) \in 0..Len(s)
      BY <1>2
    <2> QED
      BY <1>2, <1>5, <2>1
  <1> QED
    BY <1>7, <1>8 DEF u

LEMMA ResetPlain ==
  ASSUME NEW hold \in {0, 1}
  PROVE  /\ Plain(reset_8051(hold))
         /\ hold = 1 => ~Releases(reset_8051(hold))
  <1>1. \A r \in Registers : r \notin Cells
    BY Apart
  <1> QED
    BY <1>1, ResetIs DEF Plain, Releases

(* What download_records sends is safe, and it is the whole image. *)
LEMMA DownloadIs ==
  ASSUME NEW image \in DOMAIN Text
  PROVE  /\ GoodScript(download_records(image), image)
         /\ Covers(download_records(image), Len(download_records(image)), image)
  <1> DEFINE ext == Pass(image, "A3", External)
             int == Pass(image, "A0", Internal)
             hold == reset_8051(1)
             u == (ext \o hold) \o int
             a == Len(ext)
  <1>1. /\ ext \in Seq(Writes)
        /\ \A i \in 1..Len(ext) : ext[i].at \in External /\ ext[i].data = image
        /\ \A k \in DOMAIN parse_ihex[image] : parse_ihex[image][k] \in External =>
             \E i \in 1..Len(ext) : ext[i].at = parse_ihex[image][k]
    <2>1. "A3" \in Requests
      BY DEF Requests
    <2>2. /\ ext \in Seq(Writes)
          /\ \A i \in 1..Len(ext) : /\ ext[i].at \in Cells \intersect External
                                   /\ ext[i].data = image
          /\ \A k \in DOMAIN parse_ihex[image] : parse_ihex[image][k] \in External =>
               \E i \in 1..Len(ext) : ext[i].at = parse_ihex[image][k]
      BY ONLY <2>1, PassIs, image \in DOMAIN Text
    <2> HIDE DEF ext
    <2> QED
      BY <2>2
  <1>2. /\ int \in Seq(Writes)
        /\ \A i \in 1..Len(int) : int[i].at \in Internal /\ int[i].data = image
        /\ \A k \in DOMAIN parse_ihex[image] : parse_ihex[image][k] \in Internal =>
             \E i \in 1..Len(int) : int[i].at = parse_ihex[image][k]
    <2>1. "A0" \in Requests
      BY DEF Requests
    <2>2. /\ int \in Seq(Writes)
          /\ \A i \in 1..Len(int) : /\ int[i].at \in Cells \intersect Internal
                                   /\ int[i].data = image
          /\ \A k \in DOMAIN parse_ihex[image] : parse_ihex[image][k] \in Internal =>
               \E i \in 1..Len(int) : int[i].at = parse_ihex[image][k]
      BY ONLY <2>1, PassIs, image \in DOMAIN Text
    <2> HIDE DEF int
    <2> QED
      BY <2>2
  <1>3. /\ hold \in Seq(Writes) /\ Len(hold) = 2
        /\ \A i \in 1..2 : hold[i].at \in Registers /\ hold[i].data = 1
        /\ hold[1].at = "CPUCS_EZUSB" /\ hold[2].at = "CPUCS_FX2"
    BY ResetIs
  <1>4. download_records(image) = u
    BY DEF download_records
  <1> HIDE DEF ext, int, hold
  <1>5. /\ ext \o hold \in Seq(Writes) /\ Len(ext \o hold) = a + 2
        /\ a \in Nat
        /\ \A i \in 1..a : (ext \o hold)[i] = ext[i]
        /\ (ext \o hold)[a + 1] = hold[1] /\ (ext \o hold)[a + 2] = hold[2]
    <2>1. Len(hold) = 2 /\ 1 \in 1..Len(hold) /\ 2 \in 1..Len(hold)
      BY <1>3
    <2>2. /\ ext \o hold \in Seq(Writes) /\ Len(ext \o hold) = Len(ext) + Len(hold)
          /\ Len(ext) \in Nat
          /\ \A i \in 1..Len(ext) : (ext \o hold)[i] = ext[i]
          /\ \A i \in 1..Len(hold) : (ext \o hold)[Len(ext) + i] = hold[i]
      BY ONLY <1>1, <1>3, Joined
    <2> QED
      BY <2>1, <2>2
  <1>6. /\ u \in Seq(Writes) /\ Len(u) = a + 2 + Len(int)
        /\ a + 2 \in Nat /\ Len(int) \in Nat
        /\ \A i \in 1..(a + 2) : u[i] = (ext \o hold)[i]
        /\ \A i \in 1..Len(int) : u[a + 2 + i] = int[i]
        /\ \A i \in 1..Len(u) : i \in 1..(a + 2) \/ \E k \in 1..Len(int) : i = a + 2 + k
    <2> DEFINE e == ext \o hold
    <2>1. e \in Seq(Writes) /\ Len(e) = a + 2 /\ a + 2 \in Nat
      BY <1>5
    <2> HIDE DEF e, a
    <2>2. /\ e \o int \in Seq(Writes) /\ Len(e \o int) = a + 2 + Len(int)
          /\ Len(int) \in Nat
          /\ \A i \in 1..(a + 2) : (e \o int)[i] = e[i]
          /\ \A i \in 1..Len(int) : (e \o int)[a + 2 + i] = int[i]
          /\ \A i \in 1..Len(e \o int) :
               i \in 1..(a + 2) \/ \E k \in 1..Len(int) : i = a + 2 + k
      <3>1. /\ e \o int \in Seq(Writes) /\ Len(e \o int) = Len(e) + Len(int)
            /\ Len(int) \in Nat
            /\ \A i \in 1..Len(e) : (e \o int)[i] = e[i]
            /\ \A i \in 1..Len(int) : (e \o int)[Len(e) + i] = int[i]
            /\ \A i \in 1..Len(e \o int) :
                 i \in 1..Len(e) \/ \E k \in 1..Len(int) : i = Len(e) + k
        BY ONLY <1>2, <2>1, Joined
      <3>2. Len(e) = a + 2
        BY <2>1
      <3> QED
        BY ONLY <3>1, <3>2
    <2> QED
      BY <2>1, <2>2 DEF e
  <1> HIDE DEF u, a
  <1>7. /\ \A i \in 1..a : u[i] = ext[i]
        /\ u[a + 1] = hold[1] /\ u[a + 2] = hold[2]
    <2>1. a + 1 \in 1..(a + 2) /\ a + 2 \in 1..(a + 2)
          /\ \A i \in 1..a : i \in 1..(a + 2)
      BY <1>5
    <2> QED
      BY <1>5, <1>6, <2>1 DEF a
  <1>8. \A i \in 1..Len(u) : \/ i \in 1..a \/ i = a + 1 \/ i = a + 2
                             \/ \E k \in 1..Len(int) : i = a + 2 + k
    BY <1>5, <1>6
  <1>9. \A k \in 1..Len(int) : u[a + 2 + k].at \in Internal /\ u[a + 2 + k].data = image
    BY <1>2, <1>6
  <1>10. \A i \in 1..a : u[i].at \in External /\ u[i].data = image
    BY <1>1, <1>7 DEF a
  <1>11. /\ u[a + 1].at = "CPUCS_EZUSB" /\ u[a + 1].data = 1
         /\ u[a + 2].at = "CPUCS_FX2" /\ u[a + 2].data = 1
    BY <1>3, <1>7
  <1>12. ASSUME NEW k \in 1..Len(int), NEW r \in Registers
         PROVE  HeldBefore(u, a + 2 + k, r)
    <2>1. \A m \in (a + 3)..(a + 2 + k - 1) : u[m].at # r
      <3> SUFFICES ASSUME NEW m \in (a + 3)..(a + 2 + k - 1) PROVE u[m].at # r
        OBVIOUS
      <3>1. m - (a + 2) \in 1..Len(int) /\ a + 2 + (m - (a + 2)) = m
        BY <1>5, <1>6
      <3>2. u[m].at \in Internal
        BY <1>9, <3>1
      <3> QED
        BY <3>2, Apart
    <2>2. CASE r = "CPUCS_FX2"
      <3>1. a + 2 \in 1..(a + 2 + k - 1) /\ a + 2 + 1 = a + 3
        BY <1>5, <1>6
      <3> QED
        <4>1. \A m \in (a + 2 + 1)..(a + 2 + k - 1) : u[m].at # r
          BY ONLY <2>1, <3>1
        <4>2. u[a + 2].at = r /\ u[a + 2].data = 1
          BY <1>11, <2>2
        <4> QED
          BY ONLY <3>1, <4>1, <4>2 DEF HeldBefore
    <2>3. CASE r = "CPUCS_EZUSB"
      <3>1. a + 1 \in 1..(a + 2 + k - 1)
        BY <1>5, <1>6
      <3>2. \A m \in (a + 1 + 1)..(a + 2 + k - 1) : m = a + 2 \/ m \in (a + 3)..(a + 2 + k - 1)
        BY <1>5, <1>6
      <3>3. u[a + 2].at # r
        BY <1>11, <2>3
      <3>4. \A m \in (a + 1 + 1)..(a + 2 + k - 1) : u[m].at # r
        BY <2>1, <3>2, <3>3
      <3> QED
        <4>1. u[a + 1].at = r /\ u[a + 1].data = 1
          BY <1>11, <2>3
        <4>2. a \in Nat /\ k \in Nat
          BY <1>5, <1>6
        <4> QED
          BY ONLY <3>1, <3>4, <4>1, <4>2 DEF HeldBefore
    <2> QED
      BY <2>2, <2>3 DEF Registers
  <1>13. ASSUME NEW i \in 1..Len(u)
         PROVE  /\ u[i].at \in Cells => u[i].data = image
                /\ u[i].at \in Registers => u[i].data \in {0, 1}
                /\ u[i].at \in Internal => \A r \in Registers : HeldBefore(u, i, r)
                /\ u[i].at \in Registers /\ u[i].data = 0 => Covers(u, i - 1, image)
    <2>1. CASE i \in 1..a
      <3>1. u[i].at \in External /\ u[i].data = image
        BY <1>10, <2>1
      <3>2. u[i].at \notin Internal /\ u[i].at \notin Registers
        BY <3>1, Apart
      <3> QED
        BY <3>1, <3>2
    <2>2. CASE i = a + 1 \/ i = a + 2
      <3>1. u[i].at \in Registers /\ u[i].data = 1
        BY <1>11, <2>2 DEF Registers
      <3>2. u[i].at \notin Internal /\ u[i].at \notin Cells
        BY <3>1, Apart
      <3> QED
        BY <3>1, <3>2
    <2>3. ASSUME NEW k \in 1..Len(int), i = a + 2 + k
          PROVE  /\ u[i].at \in Internal /\ u[i].data = image
                 /\ \A r \in Registers : HeldBefore(u, i, r)
      BY <1>9, <1>12, <2>3
    <2>4. (\E k \in 1..Len(int) : i = a + 2 + k) => u[i].at \notin Registers
      BY <2>3, Apart
    <2> QED
      BY <1>8, <2>1, <2>2, <2>3, <2>4
  <1>14. u # <<>>
    BY <1>5, <1>6
  <1>15. GoodScript(u, image)
    BY <1>6, <1>13, <1>14 DEF GoodScript
  <1>16. Covers(u, Len(u), image)
    <2> SUFFICES ASSUME NEW k \in DOMAIN parse_ihex[image]
                 PROVE  \E j \in 1..Len(u) : u[j].at = parse_ihex[image][k]
      BY DEF Covers
    <2>1. parse_ihex[image][k] \in Cells
      BY ParsedIs, ElementOfSeq, LenProperties
    <2>2. CASE parse_ihex[image][k] \in External
      <3>1. PICK i \in 1..Len(ext) : ext[i].at = parse_ihex[image][k]
        BY <1>1, <2>2
      <3>2. i \in 1..Len(u) /\ u[i] = ext[i]
        BY <1>6, <1>7 DEF a
      <3> QED
        BY <3>1, <3>2
    <2>3. CASE parse_ihex[image][k] \in Internal
      <3>1. PICK i \in 1..Len(int) : int[i].at = parse_ihex[image][k]
        BY <1>2, <2>3
      <3>2. a + 2 + i \in 1..Len(u) /\ u[a + 2 + i] = int[i]
        BY <1>6
      <3> QED
        BY <3>1, <3>2
    <2> QED
      BY <2>1, <2>2, <2>3 DEF Cells
  <1> QED
    BY <1>4, <1>15, <1>16

(* The two scripts load_firmware plays. *)
LEMMA Stage2Good == GoodScript(Stage2Script, Stage2)
  <1> DEFINE d == download_records(Stage2)
             hold == reset_8051(1)
             go == reset_8051(0)
             last == << Write("A4", "init", Stage2) >>
  <1>1. Stage2 \in DOMAIN Text
    BY FirmwareAssumption
  <1>2. Plain(last) /\ ~Releases(last)
    <2>1. Write("A4", "init", Stage2) \in Writes
      BY <1>1 DEF Write, Writes, Requests
    <2>2. "init" \notin Cells /\ "init" \notin Registers
      BY Apart DEF Registers
    <2>3. Write("A4", "init", Stage2).at = "init"
      BY DEF Write
    <2> QED
      BY <2>1, <2>2, <2>3 DEF Plain, Releases
  <1>3. Plain(hold) /\ ~Releases(hold) /\ Plain(go)
    BY ResetPlain
  <1>4. GoodScript(d, Stage2) /\ Covers(d, Len(d), Stage2)
    BY <1>1, DownloadIs
  <1>5. Stage2Script = ((hold \o d) \o go) \o last
    BY DEF Stage2Script
  <1> HIDE DEF d, hold, go, last
  <1>6. GoodScript(hold \o d, Stage2) /\ Covers(hold \o d, Len(hold \o d), Stage2)
    BY <1>1, <1>3, <1>4, Prepend
  <1>7. GoodScript((hold \o d) \o go, Stage2)
    BY <1>1, <1>3, <1>6, Extend
  <1>8. GoodScript(((hold \o d) \o go) \o last, Stage2)
    BY <1>1, <1>2, <1>7, Extend
  <1> QED
    BY <1>5, <1>8

LEMMA AppGood ==
  ASSUME NEW image \in DOMAIN Text
  PROVE  GoodScript(AppScript(image), image)
  <1> DEFINE d == download_records(image)
             hold == reset_8051(1)
             go == reset_8051(0)
  <1>1. Plain(hold) /\ ~Releases(hold) /\ Plain(go)
    BY ResetPlain
  <1>2. GoodScript(d, image) /\ Covers(d, Len(d), image)
    BY DownloadIs
  <1>3. AppScript(image) = (d \o hold) \o go
    BY DEF AppScript
  <1> HIDE DEF d, hold, go
  <1>4. GoodScript(d \o hold, image) /\ Covers(d \o hold, Len(d \o hold), image)
    BY <1>1, <1>2, Extend
  <1>5. GoodScript((d \o hold) \o go, image)
    BY <1>1, <1>4, Extend
  <1> QED
    BY <1>3, <1>5

-----------------------------------------------------------------------------
(* The image that is selected is one of the files, and one that suits. *)
LEMMA ImagesAre ==
  /\ Images \subseteq Nat /\ Images \subseteq DOMAIN Text /\ Stage2 \in DOMAIN Text
  /\ Images \union {Stage2} = DOMAIN Text
  /\ \A i \in Images : i # Junk /\ i # Nothing /\ i # NoImage /\ i # Stage2
  /\ \A i \in DOMAIN Text : i # Junk /\ i # Nothing
  <1>1. \A i \in Images : i \in 0..9
    BY FirmwareAssumption
  <1>2. \A i \in DOMAIN Text : i \in Images \/ i = Stage2
    BY DEF Images
  <1>3. \A i \in Images : i # Junk /\ i # Nothing /\ i # NoImage /\ i # Stage2
    BY <1>1 DEF Junk, Nothing, NoImage, Stage2
  <1>4. Stage2 # Junk /\ Stage2 # Nothing
    BY DEF Junk, Nothing, Stage2
  <1>5. Images \subseteq DOMAIN Text /\ Stage2 \in DOMAIN Text
    BY FirmwareAssumption DEF Images
  <1>6. Images \subseteq Nat
    BY <1>1
  <1>7. \A i \in DOMAIN Text : i # Junk /\ i # Nothing
    BY <1>2, <1>3, <1>4
  <1>8. Images \union {Stage2} = DOMAIN Text
    BY <1>2, <1>5
  <1> QED
    BY <1>3, <1>5, <1>6, <1>7, <1>8

LEMMA FirstIs ==
  ASSUME dir \in Dirs, Globbed # {}
  PROVE  FirstGlobbed \in {f.image : f \in dir}
  <1> DEFINE capitals == {f.image : f \in {g \in Globbed : g.case = "capital"}}
             all == {f.image : f \in Globbed}
  <1>1. \A f \in Globbed : f \in dir /\ f.image \in Nat
    BY FirmwareAssumption, ImagesAre DEF Globbed
  <1>2. capitals \subseteq Nat /\ all \subseteq Nat /\ all # {}
    BY <1>1
  <1>3. capitals \subseteq {f.image : f \in dir} /\ all \subseteq {f.image : f \in dir}
    BY <1>1
  <1>4. FirstGlobbed = IF capitals # {} THEN Min(capitals) ELSE Min(all)
    BY DEF FirstGlobbed
  <1> HIDE DEF capitals, all
  <1>5. FirstGlobbed \in capitals \/ FirstGlobbed \in all
    BY <1>2, <1>4, MinIsIn
  <1> QED
    BY <1>3, <1>5

LEMMA SelectedIs ==
  ASSUME dir \in Dirs, board \in Boards, NEW rev \in {NoRev, board.rev}
  PROVE  /\ Selected(rev) \in Images \union {NoImage}
         /\ Selected(rev) # NoImage => Selected(rev) \in Suitable
  <1> DEFINE files == {f.image : f \in dir}
             named == find_firmware_file(rev, TRUE)
             guess == find_firmware_file(board.bcd, FALSE)
  <1>1. files \subseteq Images
    BY FirmwareAssumption
  <1>2. board.bcd # NoRev /\ board.rev # NoRev
    <2>1. {board.bcd, board.rev} \subseteq 0..255
      BY FirmwareAssumption
    <2> QED
      BY <2>1 DEF NoRev
  <1>3. \/ named = NoImage
        \/ rev = board.rev /\ named = rev % 16 /\ named \in files
    BY DEF find_firmware_file
  <1>4. IF board.bcd % 16 \in files THEN guess = board.bcd % 16
        ELSE guess = NoImage \/ guess \in files
    <2>1. Globbed # {} => FirstGlobbed \in files
      BY FirstIs
    <2> QED
      BY <1>2, <2>1 DEF find_firmware_file
  <1>5. Selected(rev) = IF named # NoImage THEN named ELSE guess
    BY DEF Selected
  <1>6. Suitable = IF board.bcd % 16 \in files
                   THEN {board.rev % 16, board.bcd % 16} \intersect files ELSE files
    BY DEF Suitable
  <1> HIDE DEF files, named, guess
  <1> QED
    BY <1>1, <1>3, <1>4, <1>5, <1>6

-----------------------------------------------------------------------------
(* Types.  To know how often the scanner enumerates, know how often it may have
   done so by now: twice per time it is switched on, of which the second is
   still to come while it is not loaded. *)
Transfers == {w \in Writes : w.at \in Cells => w.data \in DOMAIN Text}
Labels == {"idle", "load", "stage2", "personality", "app", "wait",
           "check", "open", "unclaimed"}
FixedType == board \in Boards /\ dir \in Dirs
ScannerType ==
  /\ bus \in {"absent", "unloaded", "loaded"}
  /\ mem \in [Cells -> DOMAIN Text \union {Blank}] /\ held \in BOOLEAN
  /\ running \in DOMAIN Text \union {Junk, Nothing}
  /\ bus = "loaded" => running \in Images
  /\ bus = "absent" => running \in Images \union {Nothing}
HostType ==
  /\ pc \in [Loaders -> Labels]
  /\ handle \in [Loaders -> 0..epoch]
  /\ todo \in [Loaders -> Seq(Transfers)]
  /\ \A l \in Loaders : todo[l] # <<>> <=> pc[l] \in {"stage2", "app"}
Enumerations ==
  IF bus = "loaded" THEN 2 ELSE IF bus = "unloaded" \/ running \in Images THEN 1 ELSE 0
CountType ==
  /\ epoch \in Nat /\ epoch <= 2 * cycles + Enumerations
  /\ faults \in 0..MaxFaults /\ cycles \in 0..MaxCycles
TypeInv == FixedType /\ ScannerType /\ HostType /\ CountType

LEMMA TypeInvGives ==
  ASSUME TypeInv PROVE TypeOK
  <1>1. MaxCycles \in Nat /\ Enumerations \in 0..2
    BY FirmwareAssumption DEF Enumerations
  <1>2. epoch \in 0..(2 + 2 * MaxCycles)
    BY <1>1 DEF TypeInv, CountType
  <1>3. \A l \in Loaders : (todo[l] # <<>>) = (pc[l] \in {"stage2", "app"})
    BY DEF TypeInv, HostType
  <1> QED
    BY <1>2, <1>3
    DEF TypeInv, FixedType, ScannerType, HostType, CountType, TypeOK, Labels

LEMMA ScriptsAre ==
  ASSUME NEW s, NEW image \in DOMAIN Text, GoodScript(s, image)
  PROVE  s \in Seq(Transfers) /\ s # <<>>
  <1>1. s \in Seq(Writes) /\ s # <<>>
    BY DEF GoodScript
  <1>2. Len(s) \in Nat /\ s \in [1..Len(s) -> Writes]
    BY <1>1
  <1>3. \A i \in 1..Len(s) : s[i] \in Transfers
    <2> SUFFICES ASSUME NEW i \in 1..Len(s) PROVE s[i] \in Transfers
      OBVIOUS
    <2>1. s[i] \in Writes
      BY <1>1, ElementOfSeq
    <2>2. s[i].at \in Cells => s[i].data = image
      BY DEF GoodScript
    <2> QED
      BY <2>1, <2>2 DEF Transfers
  <1>4. s \in [1..Len(s) -> Transfers]
    BY <1>2, <1>3
  <1> QED
    BY ONLY <1>1, <1>2, <1>4, AsSequence

LEMMA RunsWhat ==
  ASSUME NEW m
  PROVE  Program(m) \in DOMAIN Text \union {Junk}
  <1> DEFINE whole == {i \in DOMAIN Text :
                         \A k \in DOMAIN parse_ihex[i] : m[parse_ihex[i][k]] = i}
  <1>1. Program(m) = IF whole = {} THEN Junk ELSE CHOOSE i \in whole : TRUE
    BY DEF Program
  <1>2. whole \subseteq DOMAIN Text
    OBVIOUS
  <1> HIDE DEF whole
  <1> QED
    BY <1>1, <1>2

LEMMA EffectType ==
  ASSUME TypeInv, bus = "unloaded", UNCHANGED bus, NEW w \in Transfers, Effect(w)
  PROVE  ScannerType'
  <1>1. /\ mem \in [Cells -> DOMAIN Text \union {Blank}] /\ held \in BOOLEAN
        /\ running \in DOMAIN Text \union {Junk, Nothing}
    BY DEF TypeInv, ScannerType
  <1>2. w.at \in Cells => w.data \in DOMAIN Text
    BY DEF Transfers
  <1>3. held' \in BOOLEAN
    <2>1. held' = held \/ held' = (w.data = 1)
      BY DEF Effect
    <2>2. (w.data = 1) \in BOOLEAN
      OBVIOUS
    <2> QED
      BY <1>1, <2>1, <2>2
  <1>4. mem' \in [Cells -> DOMAIN Text \union {Blank}]
    BY <1>1, <1>2 DEF Effect
  <1>5. running' \in DOMAIN Text \union {Junk, Nothing}
    <2>1. running' \in {Nothing, Program(mem), Junk, running}
      BY DEF Effect
    <2> QED
      BY <1>1, <2>1, RunsWhat
  <1> QED
    BY <1>3, <1>4, <1>5 DEF ScannerType

(* What an upload that is chosen leaves in the host. *)
LEMMA UploadType ==
  ASSUME TypeInv, NEW l \in Loaders, NEW rev \in {NoRev, board.rev},
         Upload(l, Selected(rev)), UNCHANGED <<handle, epoch>>
  PROVE  HostType'
  <1>1. /\ pc \in [Loaders -> Labels] /\ handle \in [Loaders -> 0..epoch]
        /\ todo \in [Loaders -> Seq(Transfers)]
        /\ \A k \in Loaders : todo[k] # <<>> <=> pc[k] \in {"stage2", "app"}
    BY DEF TypeInv, HostType
  <1>2. CASE \E label \in {"check", "idle"} : Abandon(l, label)
    <2>1. PICK label \in {"check", "idle"} : Abandon(l, label)
      BY <1>2
    <2>2. label \in Labels /\ label \notin {"stage2", "app"}
      BY DEF Labels
    <2>3. /\ pc' = [pc EXCEPT ![l] = label] /\ todo' = [todo EXCEPT ![l] = <<>>]
      BY <2>1 DEF Abandon, Goto
    <2> QED
      BY <1>1, <2>2, <2>3 DEF HostType
  <1>3. CASE ~ \E label \in {"check", "idle"} : Abandon(l, label)
    <2> DEFINE image == Selected(rev)
               s == AppScript(image)
    <2>1. /\ image # NoImage
          /\ Goto(l, "app") /\ todo' = [todo EXCEPT ![l] = s]
      BY <1>3 DEF Upload
    <2>2. image \in DOMAIN Text
      BY <2>1, SelectedIs, ImagesAre DEF TypeInv, FixedType
    <2>3. s \in Seq(Transfers) /\ s # <<>>
      <3>1. GoodScript(s, image)
        BY <2>2, AppGood
      <3> QED
        BY <2>2, <3>1, ScriptsAre
    <2>4. pc' = [pc EXCEPT ![l] = "app"]
      BY <2>1 DEF Goto
    <2> HIDE DEF s, image
    <2> QED
      BY <1>1, <2>1, <2>3, <2>4 DEF HostType, Labels
  <1> QED
    BY <1>2, <1>3

LEMMA TypeStep ==
  ASSUME TypeInv, [Next]_vars
  PROVE  TypeInv'
  <1> USE DEF TypeInv
  <1>0. FixedType'
    <2>1. UNCHANGED <<board, dir>>
      BY DEF Next, LoaderStep, open, open_after_load, claim_fails, reopen, probe,
             control_write, control_fails, read_personality, personality_fails,
             wait_ends, Disconnect, Enumerate, PowerOff, PowerOn, vars, fixed
    <2> QED
      BY <2>1 DEF FixedType
  <1>1. ASSUME NEW l \in Loaders, LoaderStep(l)
        PROVE  ScannerType' /\ HostType' /\ CountType'
    <2>0. /\ pc \in [Loaders -> Labels] /\ handle \in [Loaders -> 0..epoch]
          /\ todo \in [Loaders -> Seq(Transfers)]
          /\ \A k \in Loaders : todo[k] # <<>> <=> pc[k] \in {"stage2", "app"}
          /\ epoch \in Nat
      BY DEF HostType, CountType
    <2>1. ASSUME UNCHANGED scanner PROVE ScannerType'
      BY <2>1 DEF ScannerType, scanner
    <2>2. ASSUME UNCHANGED scanner, UNCHANGED cycles, faults' \in 0..MaxFaults
          PROVE  CountType'
      BY <2>2 DEF CountType, Enumerations, scanner
    <2>3. faults \in 0..MaxFaults /\ MaxFaults \in Nat
      BY FirmwareAssumption DEF CountType
    <2>4. \A label \in Labels : \A n \in 0..epoch :
            label \notin {"stage2", "app"} /\ pc[l] \notin {"stage2", "app"}
              /\ Goto(l, label) /\ UNCHANGED <<todo, epoch>>
              /\ (handle' = [handle EXCEPT ![l] = n] \/ UNCHANGED handle)
            => HostType'
      BY <2>0 DEF HostType, Goto
    <2>5. ASSUME open(l) \/ open_after_load(l) \/ claim_fails(l) \/ reopen(l)
                 \/ wait_ends(l)
          PROVE  ScannerType' /\ HostType' /\ CountType'
      <3>1. /\ UNCHANGED <<scanner, todo, epoch, cycles>> /\ pc[l] \notin {"stage2", "app"}
            /\ faults' \in 0..MaxFaults
            /\ \E label \in {"open", "load", "idle", "unclaimed", "check"} : Goto(l, label)
            /\ \E n \in {0, epoch} : handle' = [handle EXCEPT ![l] = n] \/ UNCHANGED handle
        BY <2>3, <2>5
        DEF open, open_after_load, claim_fails, reopen, wait_ends, scanner, bounds
      <3>2. {"open", "load", "idle", "unclaimed", "check"} \subseteq Labels
            /\ {0, epoch} \subseteq 0..epoch
        BY <2>0 DEF Labels
      <3>3. HostType'
        BY <2>4, <3>1, <3>2
      <3> QED
        BY <2>1, <2>2, <3>1, <3>3
    <2>6. CASE probe(l)
      <3>1. UNCHANGED <<scanner, epoch, cycles, faults>> /\ pc[l] = "load"
        BY <2>6 DEF probe, scanner, bounds
      <3>2. CASE Goto(l, "check") /\ UNCHANGED <<handle, todo>>
        <4>1. "check" \in Labels /\ 0 \in 0..epoch
          BY <2>0 DEF Labels
        <4> QED
          BY <2>1, <2>2, <2>3, <2>4, <3>1, <3>2, <4>1
      <3>3. CASE ~ (Goto(l, "check") /\ UNCHANGED <<handle, todo>>)
        <4>1. /\ handle' = [handle EXCEPT ![l] = epoch]
              /\ todo' = [todo EXCEPT ![l] = Stage2Script]
              /\ pc' = [pc EXCEPT ![l] = "stage2"]
          BY <2>6, <3>3 DEF probe, Goto
        <4>2. Stage2Script \in Seq(Transfers) /\ Stage2Script # <<>>
          BY Stage2Good, ScriptsAre, ImagesAre
        <4>3. HostType'
          BY <2>0, <3>1, <4>1, <4>2 DEF HostType, Labels
        <4> QED
          BY <2>1, <2>2, <2>3, <3>1, <4>3
      <3> QED
        BY <3>2, <3>3
    <2>7. CASE control_write(l)
      <3>1. /\ todo[l] # <<>> /\ bus = "unloaded" /\ UNCHANGED <<bus, epoch, handle, faults, cycles>>
            /\ Effect(Head(todo[l])) /\ todo' = [todo EXCEPT ![l] = Tail(todo[l])]
        BY <2>7 DEF control_write, Answered, bounds
      <3>2. /\ Head(todo[l]) \in Transfers /\ Tail(todo[l]) \in Seq(Transfers)
            /\ Tail(todo[l]) = <<>> <=> Len(todo[l]) = 1
        <4>1. todo[l] \in Seq(Transfers)
          BY <2>0
        <4>2. Len(todo[l]) \in Nat /\ Len(Tail(todo[l])) = Len(todo[l]) - 1
          BY ONLY <3>1, <4>1, HeadTailProperties, LenProperties
        <4>3. Head(todo[l]) \in Transfers /\ Tail(todo[l]) \in Seq(Transfers)
          BY ONLY <3>1, <4>1, HeadTailProperties
        <4>4. Tail(todo[l]) = <<>> <=> Len(Tail(todo[l])) = 0
          BY ONLY <4>3, EmptySeq
        <4> QED
          BY ONLY <4>2, <4>3, <4>4
      <3>3. ScannerType'
        BY <3>1, <3>2, EffectType
      <3>4. CountType'
        BY <3>1 DEF CountType, Enumerations
      <3>5. HostType'
        <4>1. CASE Len(todo[l]) = 1
          <5>1. pc[l] \in {"stage2", "app"}
            BY <2>0, <3>1
          <5>2. AfterScript[pc[l]] \in {"personality", "wait"}
            BY <5>1 DEF AfterScript
          <5>3. pc' = [pc EXCEPT ![l] = AfterScript[pc[l]]]
            BY <2>7, <4>1 DEF control_write, Goto
          <5> QED
            BY <2>0, <3>1, <3>2, <4>1, <5>2, <5>3 DEF HostType, Labels
        <4>2. CASE Len(todo[l]) # 1
          <5>1. UNCHANGED pc
            BY <2>7, <4>2 DEF control_write
          <5> QED
            BY <2>0, <3>1, <3>2, <4>2, <5>1 DEF HostType
        <4> QED
          BY <4>1, <4>2
      <3> QED
        BY <3>3, <3>4, <3>5
    <2>8. CASE control_fails(l)
      <3>1. /\ todo[l] # <<>> /\ UNCHANGED <<bus, epoch, handle, cycles>>
            /\ faults' \in 0..MaxFaults
            /\ \/ UNCHANGED <<held, mem, running>>
               \/ bus = "unloaded" /\ Effect(Head(todo[l]))
            /\ todo' = [todo EXCEPT ![l] = <<>>]
            /\ pc' = [pc EXCEPT ![l] = IF pc[l] = "app" THEN "wait" ELSE "idle"]
        <4>1. faults' \in 0..MaxFaults
          BY <2>3, <2>8 DEF control_fails
        <4>2. \/ UNCHANGED <<held, mem, running>>
              \/ bus = "unloaded" /\ Effect(Head(todo[l]))
          BY <2>8 DEF control_fails, Answered
        <4> HIDE DEF Effect
        <4>3. /\ todo[l] # <<>> /\ UNCHANGED <<bus, epoch, handle, cycles>>
              /\ Abandon(l, IF pc[l] = "app" THEN "wait" ELSE "idle")
          BY <2>8 DEF control_fails
        <4> QED
          BY <4>1, <4>2, <4>3 DEF Abandon, Goto
      <3>2. Head(todo[l]) \in Transfers
        <4>1. todo[l] \in Seq(Transfers)
          BY <2>0
        <4> HIDE DEF Transfers
        <4> QED
          BY <3>1, <4>1
      <3>3. ScannerType'
        <4>1. CASE UNCHANGED <<held, mem, running>>
          BY <3>1, <4>1 DEF ScannerType
        <4>2. CASE bus = "unloaded" /\ Effect(Head(todo[l]))
          BY <3>1, <3>2, <4>2, EffectType
        <4> QED
          BY <3>1, <4>1, <4>2
      <3>4. CountType'
        <4>1. Enumerations' = Enumerations
          BY <3>1 DEF Enumerations
        <4> QED
          BY <3>1, <4>1 DEF CountType
      <3>5. HostType'
        BY <2>0, <3>1 DEF HostType, Labels
      <3> QED
        BY <3>3, <3>4, <3>5
    <2>9. CASE read_personality(l) \/ personality_fails(l)
      <3>1. /\ UNCHANGED <<scanner, handle, epoch, cycles>> /\ faults' \in 0..MaxFaults
            /\ \E rev \in {NoRev, board.rev} : Upload(l, Selected(rev))
        BY <2>3, <2>9 DEF read_personality, personality_fails, scanner, bounds
      <3>2. HostType'
        BY <3>1, UploadType
      <3> QED
        BY <2>1, <2>2, <3>1, <3>2
    <2> QED
      BY <1>1, <2>5, <2>6, <2>7, <2>8, <2>9 DEF LoaderStep
  <1>2. CASE Disconnect \/ Enumerate \/ PowerOff \/ PowerOn
    <2>1. UNCHANGED host /\ epoch' \in {epoch, epoch + 1}
      BY <1>2 DEF Disconnect, Enumerate, PowerOff, PowerOn
    <2>2. HostType'
      <3>1. epoch \in Nat /\ \A n \in 0..epoch : n \in 0..epoch'
        BY <2>1 DEF CountType
      <3> QED
        BY <2>1, <3>1 DEF HostType, host
    <2>3. Nothing \notin Images
      BY ImagesAre
    <2>4. MaxCycles \in Nat
      BY FirmwareAssumption
    <2>5. CASE Disconnect
      <3>1. ScannerType'
        BY <2>5 DEF ScannerType, Disconnect
      <3>2. CountType'
        BY <2>5 DEF CountType, Enumerations, Disconnect, bounds
      <3> QED
        BY <1>0, <2>2, <3>1, <3>2
    <2>6. CASE Enumerate
      <3>1. ScannerType'
        BY <2>6 DEF ScannerType, Enumerate
      <3>2. CountType'
        BY <2>6 DEF CountType, Enumerations, Enumerate, bounds
      <3> QED
        BY <1>0, <2>2, <3>1, <3>2
    <2>7. CASE PowerOff
      <3>1. ScannerType'
        BY <2>7 DEF ScannerType, PowerOff
      <3>2. CountType'
        <4>1. epoch' = epoch /\ cycles' = cycles + 1 /\ cycles' \in 0..MaxCycles
          BY <2>4, <2>7 DEF PowerOff, CountType
        <4>2. faults' = faults /\ Enumerations' = 0
          BY <2>3, <2>7 DEF PowerOff, Enumerations
        <4>3. Enumerations \in 0..2
          BY DEF Enumerations
        <4> QED
          BY <4>1, <4>2, <4>3 DEF CountType
      <3> QED
        BY <1>0, <2>2, <3>1, <3>2
    <2>8. CASE PowerOn
      <3>1. ScannerType'
        BY <2>8 DEF ScannerType, PowerOn
      <3>2. CountType'
        BY <2>3, <2>8 DEF CountType, Enumerations, PowerOn, bounds
      <3> QED
        BY <1>0, <2>2, <3>1, <3>2
    <2> QED
      BY <1>2, <2>5, <2>6, <2>7, <2>8
  <1>3. CASE UNCHANGED vars
    <2>1. UNCHANGED <<board, dir, bus, epoch, mem, held, running, pc, handle, todo, faults, cycles>>
      BY <1>3 DEF vars, fixed, scanner, host, bounds
    <2> QED
      BY <2>1 DEF FixedType, ScannerType, HostType, CountType, Enumerations
  <1> QED
    BY <1>0, <1>1, <1>2, <1>3 DEF Next

LEMMA TypeInit == Init => TypeInv
  <1> SUFFICES ASSUME Init PROVE TypeInv
    OBVIOUS
  <1>1. FixedType /\ ScannerType
    BY DEF Init, FixedType, ScannerType
  <1>2. HostType
    BY EmptySeq DEF Init, HostType, Labels
  <1>3. CountType
    BY FirmwareAssumption DEF Init, CountType, Enumerations
  <1> QED
    BY <1>1, <1>2, <1>3 DEF TypeInv

LEMMA Typed == Spec => []TypeInv
  BY TypeInit, TypeStep, PTL DEF Spec

(* TypeOK, for any number of loaders. *)
THEOREM TypeCorrect == Spec => []TypeOK
  BY Typed, TypeInvGives, PTL

-----------------------------------------------------------------------------
(* One loader: what a half-played script has done.  A program is let go with
   its last register; what follows leaves it alone. *)
OneLoader == \A k, l \in Loaders : k = l

Releases1(w) == w.at \in Registers /\ w.data = 0
GoesLast(s) ==
  \A i \in 1..Len(s) : Releases1(s[i]) =>
    \A m \in (i + 1)..Len(s) : s[m].at # s[i].at /\ s[m].at \notin Cells

Playing(l, image, s, n) ==
  /\ image \in IF pc[l] = "stage2" THEN {Stage2} ELSE Suitable
  /\ GoodScript(s, image) /\ GoesLast(s)
  /\ n \in 0..(Len(s) - 1)
  /\ Len(todo[l]) = Len(s) - n
  /\ \A i \in 1..(Len(s) - n) : todo[l][i] = s[n + i]
  /\ \A j \in 1..n : s[j].at \in Cells => mem[s[j].at] = image
  /\ HeldBefore(s, n + 1, board.cpucs) => held /\ running = Nothing

ScriptInv ==
  \A l \in Loaders : pc[l] \in {"stage2", "app"} /\ handle[l] = epoch /\ bus = "unloaded" =>
    \E image \in DOMAIN Text :
      \E s \in {Stage2Script, AppScript(image)} :
        \E n \in 0..(Len(s) - 1) : Playing(l, image, s, n)

HeldInv == held => running = Nothing

StartedInv ==
  bus = "unloaded" /\ running \in Images =>
    \A l \in Loaders :
      \/ pc[l] = "wait"
      \/ /\ pc[l] = "app"
         /\ \A i \in 1..Len(todo[l]) : todo[l][i].at \notin Internal \union {board.cpucs}

LoadInv == TypeInv /\ ScriptInv /\ HeldInv /\ NeverRunsJunk
StartInv == LoadInv /\ StartedInv

LEMMA LastJoined ==
  ASSUME NEW s \in Seq(Writes), NEW t \in Seq(Writes)
  PROVE  /\ ~Releases(s) /\ GoesLast(t) => GoesLast(s \o t)
         /\ GoesLast(s) /\ (\A i \in 1..Len(t) : t[i].at \notin Registers \union Cells)
              => GoesLast(s \o t)
         /\ ~Releases(s) /\ ~Releases(t) => ~Releases(s \o t)
  <1> DEFINE u == s \o t
             a == Len(s)
  <1>1. /\ u \in Seq(Writes) /\ Len(u) = a + Len(t) /\ a \in Nat /\ Len(t) \in Nat
        /\ \A i \in 1..a : u[i] = s[i]
        /\ \A i \in 1..Len(t) : u[a + i] = t[i]
        /\ \A i \in 1..Len(u) : i \in 1..a \/ \E k \in 1..Len(t) : i = a + k
    BY Joined
  <1> HIDE DEF u
  <1>2. ASSUME ~Releases(s), GoesLast(t) PROVE GoesLast(u)
    <2> SUFFICES ASSUME NEW i \in 1..Len(u), Releases1(u[i]), NEW m \in (i + 1)..Len(u)
                 PROVE  u[m].at # u[i].at /\ u[m].at \notin Cells
      BY DEF GoesLast
    <2>1. i \notin 1..a
      BY <1>1, <1>2 DEF Releases, Releases1
    <2>2. PICK k \in 1..Len(t) : i = a + k
      BY <1>1, <2>1
    <2>3. m - a \in (k + 1)..Len(t) /\ m - a \in 1..Len(t) /\ a + (m - a) = m
      BY <1>1, <2>2
    <2>4. u[i] = t[k] /\ u[m] = t[m - a]
      BY <1>1, <2>2, <2>3
    <2> QED
      BY <1>2, <2>3, <2>4 DEF GoesLast
  <1>3. ASSUME GoesLast(s), \A i \in 1..Len(t) : t[i].at \notin Registers \union Cells
        PROVE  GoesLast(u)
    <2> SUFFICES ASSUME NEW i \in 1..Len(u), Releases1(u[i]), NEW m \in (i + 1)..Len(u)
                 PROVE  u[m].at # u[i].at /\ u[m].at \notin Cells
      BY DEF GoesLast
    <2>1. i \in 1..a
      BY <1>1, <1>3 DEF Releases1
    <2>2. CASE m \in 1..a
      <3>1. m \in (i + 1)..Len(s) /\ u[m] = s[m] /\ u[i] = s[i]
        BY <1>1, <2>1, <2>2
      <3> QED
        BY <1>3, <2>1, <3>1 DEF GoesLast
    <2>3. CASE m \notin 1..a
      <3>1. m - a \in 1..Len(t) /\ a + (m - a) = m
        BY <1>1, <2>1, <2>3
      <3>2. u[m] = t[m - a]
        BY <1>1, <3>1
      <3> QED
        BY <1>3, <3>1, <3>2 DEF Releases1
    <2> QED
      BY <2>2, <2>3
  <1>4. ASSUME ~Releases(s), ~Releases(t) PROVE ~Releases(u)
    BY <1>1, <1>4 DEF Releases
  <1> QED
    BY <1>2, <1>3, <1>4 DEF u

LEMMA ScriptsGoLast ==
  /\ GoesLast(Stage2Script)
  /\ \A image \in DOMAIN Text : GoesLast(AppScript(image))
  <1> DEFINE hold == reset_8051(1)
             go == reset_8051(0)
             last == << Write("A4", "init", Stage2) >>
  <1>1. /\ hold \in Seq(Writes) /\ ~Releases(hold)
        /\ go \in Seq(Writes) /\ GoesLast(go)
    <2>1. hold \in Seq(Writes) /\ ~Releases(hold) /\ go \in Seq(Writes)
      BY ResetPlain DEF Plain
    <2>2. GoesLast(go)
      <3>1. /\ Len(go) = 2 /\ go[1].at # go[2].at
            /\ \A i \in 1..2 : go[i].at \notin Cells
        BY ResetIs, Apart
      <3>2. \A i \in 1..2 : \A m \in (i + 1)..2 : i = 1 /\ m = 2
        OBVIOUS
      <3> HIDE DEF go
      <3> QED
        BY <3>1, <3>2 DEF GoesLast
    <2> QED
      BY <2>1, <2>2
  <1>2. last \in Seq(Writes) /\ \A i \in 1..Len(last) : last[i].at \notin Registers \union Cells
    <2>1. Write("A4", "init", Stage2) \in Writes
      BY ImagesAre DEF Write, Writes, Requests
    <2>2. "init" \notin Cells /\ "init" \notin Registers
      BY Apart DEF Registers
    <2>3. Write("A4", "init", Stage2).at = "init"
      BY DEF Write
    <2> QED
      BY <2>1, <2>2, <2>3
  <1>3. ASSUME NEW image \in DOMAIN Text
        PROVE  download_records(image) \in Seq(Writes) /\ ~Releases(download_records(image))
    <2> DEFINE ext == Pass(image, "A3", External)
               int == Pass(image, "A0", Internal)
    <2>1. ext \in Seq(Writes) /\ ~Releases(ext) /\ int \in Seq(Writes) /\ ~Releases(int)
      <3>1. "A3" \in Requests /\ "A0" \in Requests
        BY DEF Requests
      <3>2. /\ ext \in Seq(Writes) /\ \A i \in 1..Len(ext) : ext[i].at \in Cells
            /\ int \in Seq(Writes) /\ \A i \in 1..Len(int) : int[i].at \in Cells
        BY <3>1, PassIs
      <3> HIDE DEF ext, int
      <3> QED
        BY <3>2, Apart DEF Releases
    <2>2. download_records(image) = (ext \o hold) \o int
      BY DEF download_records
    <2> HIDE DEF ext, int, hold
    <2>3. ext \o hold \in Seq(Writes) /\ ~Releases(ext \o hold)
      BY <1>1, <2>1, LastJoined, Joined
    <2>4. (ext \o hold) \o int \in Seq(Writes) /\ ~Releases((ext \o hold) \o int)
      BY <2>1, <2>3, LastJoined, Joined
    <2> QED
      BY <2>2, <2>4
  <1>4. GoesLast(Stage2Script)
    <2> DEFINE d == download_records(Stage2)
    <2>1. d \in Seq(Writes) /\ ~Releases(d)
      BY <1>3, ImagesAre
    <2>2. Stage2Script = ((hold \o d) \o go) \o last
      BY DEF Stage2Script
    <2> HIDE DEF d, hold, go, last
    <2>3. hold \o d \in Seq(Writes) /\ ~Releases(hold \o d)
      BY <1>1, <2>1, LastJoined, Joined
    <2>4. (hold \o d) \o go \in Seq(Writes) /\ GoesLast((hold \o d) \o go)
      BY <1>1, <2>3, LastJoined, Joined
    <2> QED
      BY <1>2, <2>2, <2>4, LastJoined
  <1>5. ASSUME NEW image \in DOMAIN Text PROVE GoesLast(AppScript(image))
    <2> DEFINE d == download_records(image)
    <2>1. d \in Seq(Writes) /\ ~Releases(d)
      BY <1>3
    <2>2. AppScript(image) = (d \o hold) \o go
      BY DEF AppScript
    <2> HIDE DEF d, hold, go
    <2>3. d \o hold \in Seq(Writes) /\ ~Releases(d \o hold)
      BY <1>1, <2>1, LastJoined, Joined
    <2> QED
      BY <1>1, <2>2, <2>3, LastJoined
  <1> QED
    BY <1>4, <1>5

(* One transfer of a script. *)
LEMMA Transfer ==
  ASSUME TypeInv, HeldInv, NEW l \in Loaders, NEW image \in DOMAIN Text, NEW s,
         NEW n \in 0..(Len(s) - 1), Playing(l, image, s, n), Effect(s[n + 1])
  PROVE  /\ \A j \in 1..(n + 1) : s[j].at \in Cells => mem'[s[j].at] = image
         /\ HeldBefore(s, n + 2, board.cpucs) => held' /\ running' = Nothing
         /\ HeldInv'
         /\ \/ running' = running /\ s[n + 1].at # board.cpucs
                 /\ (s[n + 1].at \in Internal => running = Nothing)
            \/ running' = Nothing /\ s[n + 1].at = board.cpucs /\ s[n + 1].data = 1
            \/ /\ running' = running /\ s[n + 1].at = board.cpucs /\ s[n + 1].data = 0
            \/ /\ running' = Program(mem) /\ running = Nothing
               /\ s[n + 1].at = board.cpucs /\ s[n + 1].data = 0
               /\ Covers(s, n, image)
               /\ \A k \in DOMAIN parse_ihex[image] : mem[parse_ihex[image][k]] = image
  <1> DEFINE w == s[n + 1]
  <1>1. /\ s \in Seq(Writes) /\ Len(s) \in Nat /\ n \in Nat /\ n + 1 \in 1..Len(s)
        /\ board.cpucs \in Registers /\ board.cpucs \notin Cells
        /\ mem \in [Cells -> DOMAIN Text \union {Blank}] /\ held \in BOOLEAN
    <2>1. s \in Seq(Writes)
      BY DEF Playing, GoodScript
    <2>2. Len(s) \in Nat
      BY <2>1
    <2>3. board.cpucs \in Registers
      BY FirmwareAssumption DEF TypeInv, FixedType
    <2> QED
      BY <2>1, <2>2, <2>3, Apart DEF TypeInv, ScannerType
  <1>2. /\ w.at \in Cells => w.data = image
        /\ w.at \in Registers => w.data \in {0, 1}
        /\ w.at \in Internal => HeldBefore(s, n + 1, board.cpucs)
        /\ w.at \in Registers /\ w.data = 0 => Covers(s, n, image)
    <2>1. n + 1 - 1 = n
      BY <1>1
    <2> QED
      BY <1>1, <2>1 DEF Playing, GoodScript
  <1>3. w.at \in Internal => held /\ running = Nothing
    BY <1>2 DEF Playing
  <1>4. /\ held' = IF w.at = board.cpucs THEN w.data = 1 ELSE held
        /\ mem' = IF w.at \in Cells THEN [mem EXCEPT ![w.at] = w.data] ELSE mem
        /\ running' = CASE w.at = board.cpucs /\ w.data = 1 -> Nothing
                        [] w.at = board.cpucs /\ w.data = 0 /\ held -> Program(mem)
                        [] w.at \in Internal /\ running # Nothing -> Junk
                        [] OTHER -> running
    BY DEF Effect
  <1>5. \A j \in 1..n : s[j].at \in Cells => mem[s[j].at] = image
    BY DEF Playing
  <1>6. \A j \in 1..(n + 1) : s[j].at \in Cells => mem'[s[j].at] = image
    <2> SUFFICES ASSUME NEW j \in 1..(n + 1), s[j].at \in Cells
                 PROVE  mem'[s[j].at] = image
      OBVIOUS
    <2>1. CASE s[j].at = w.at
      BY <1>1, <1>2, <1>4, <2>1
    <2>2. CASE s[j].at # w.at
      <3>1. j \in 1..n
        BY <1>1, <2>2
      <3> QED
        BY <1>1, <1>4, <1>5, <2>2, <3>1
    <2> QED
      BY <2>1, <2>2
  <1>7. Covers(s, n, image) =>
          \A k \in DOMAIN parse_ihex[image] : mem[parse_ihex[image][k]] = image
    <2> SUFFICES ASSUME Covers(s, n, image), NEW k \in DOMAIN parse_ihex[image]
                 PROVE  mem[parse_ihex[image][k]] = image
      OBVIOUS
    <2>1. PICK j \in 1..n : s[j].at = parse_ihex[image][k]
      BY DEF Covers
    <2>2. parse_ihex[image][k] \in Cells
      BY ParsedIs, ElementOfSeq, LenProperties
    <2> QED
      BY <1>5, <2>1, <2>2
  <1> HIDE DEF w
  <1>8. CASE w.at = board.cpucs /\ w.data = 1
    <2>1. held' = TRUE /\ running' = Nothing
      <3>1. held' = (w.data = 1)
        BY <1>4, <1>8, Zenon
      <3>2. running' = Nothing
        <4>1. w.at \notin Internal /\ w.data # 0
          BY <1>1, <1>8, Apart
        <4> QED
          BY <1>4, <1>8, <4>1
      <3> QED
        BY <1>8, <3>1, <3>2, Zenon
    <2> QED
      BY <1>6, <1>8, <2>1 DEF w, HeldInv
  <1>9. CASE w.at = board.cpucs /\ w.data # 1
    <2>1. w.data = 0 /\ Covers(s, n, image) /\ held' = FALSE
      BY <1>1, <1>2, <1>4, <1>9
    <2>2. ~HeldBefore(s, n + 2, board.cpucs)
      <3> SUFFICES ASSUME NEW j \in 1..(n + 1), s[j].at = board.cpucs, s[j].data = 1,
                          \A m \in (j + 1)..(n + 1) : s[m].at # board.cpucs
                   PROVE  FALSE
        <4>1. n + 2 - 1 = n + 1
          BY <1>1
        <4> QED
          BY <4>1 DEF HeldBefore
      <3>1. j # n + 1
        BY <1>9 DEF w
      <3>2. n + 1 \in (j + 1)..(n + 1)
        BY <1>1, <3>1
      <3> QED
        BY <1>9, <3>2 DEF w
    <2>3. \/ running' = running
          \/ running' = Program(mem) /\ held
      <3>1. w.at \notin Internal
        BY <1>1, <1>9, Apart
      <3> QED
        BY <1>4, <1>9, <2>1, <3>1
    <2>4. held => running = Nothing
      BY DEF HeldInv
    <2> QED
      BY <1>6, <1>7, <1>9, <2>1, <2>2, <2>3, <2>4 DEF w, HeldInv
  <1>10. CASE w.at # board.cpucs
    <2>1. held' = held /\ running' = running
      BY <1>3, <1>4, <1>10
    <2>2. HeldBefore(s, n + 2, board.cpucs) => HeldBefore(s, n + 1, board.cpucs)
      <3> SUFFICES ASSUME NEW j \in 1..(n + 1), s[j].at = board.cpucs, s[j].data = 1,
                          \A m \in (j + 1)..(n + 1) : s[m].at # board.cpucs
                   PROVE  HeldBefore(s, n + 1, board.cpucs)
        <4>1. n + 2 - 1 = n + 1
          BY <1>1
        <4> QED
          BY <4>1 DEF HeldBefore
      <3>1. j # n + 1
        BY <1>10 DEF w
      <3>2. /\ n + 1 - 1 = n /\ j \in 1..n
            /\ \A m \in (j + 1)..n : m \in (j + 1)..(n + 1)
        BY <1>1, <3>1
      <3> QED
        BY <3>2 DEF HeldBefore
    <2> QED
      BY <1>3, <1>6, <1>10, <2>1, <2>2 DEF w, HeldInv, Playing
  <1> QED
    BY <1>8, <1>9, <1>10

LEMMA SuitableAre ==
  ASSUME TypeInv
  PROVE  Suitable \subseteq Images
  <1> DEFINE files == {f.image : f \in dir}
  <1>1. files \subseteq Images
    BY FirmwareAssumption DEF TypeInv, FixedType
  <1>2. Suitable \subseteq files
    BY DEF Suitable
  <1> QED
    BY <1>1, <1>2

(* A script that is begun. *)
LEMMA Begins ==
  ASSUME NEW l \in Loaders, NEW image \in DOMAIN Text,
         NEW s \in {Stage2Script, AppScript(image)},
         GoodScript(s, image), (todo[l])' = s,
         (image \in IF pc[l] = "stage2" THEN {Stage2} ELSE Suitable)'
  PROVE  0 \in 0..(Len(s) - 1) /\ Playing(l, image, s, 0)'
  <1>1. s \in Seq(Writes) /\ s # <<>>
    BY DEF GoodScript
  <1>2. Len(s) \in Nat /\ Len(s) # 0
    BY <1>1
  <1>3. 0 \in 0..(Len(s) - 1) /\ Len(s) - 0 = Len(s) /\ \A i \in 1..Len(s) : 0 + i = i
    BY <1>2
  <1>4. GoesLast(s)
    BY ScriptsGoLast
  <1>5. \A r : ~HeldBefore(s, 0 + 1, r)
    BY DEF HeldBefore
  <1> QED
    BY <1>3, <1>4, <1>5 DEF Playing

LEMMA LoadStep ==
  ASSUME LoadInv, OneLoader, [Next]_vars
  PROVE  LoadInv'
  <1> USE DEF LoadInv
  <1>0. TypeInv'
    BY TypeStep
  <1>1. UNCHANGED <<board, dir>>
    BY DEF Next, LoaderStep, open, open_after_load, claim_fails, reopen, probe,
           control_write, control_fails, read_personality, personality_fails,
           wait_ends, Disconnect, Enumerate, PowerOff, PowerOn, vars, fixed
  <1>2. Suitable' = Suitable
    BY <1>1 DEF Suitable
  <1>3. \A l \in Loaders : handle[l] \in 0..epoch /\ epoch \in Nat
    BY DEF TypeInv, HostType, CountType
  <1>4. pc \in [Loaders -> Labels] /\ todo \in [Loaders -> Seq(Transfers)]
    BY DEF TypeInv, HostType
  <1>5. ASSUME NEW l \in Loaders, LoaderStep(l)
        PROVE  ScriptInv' /\ HeldInv' /\ NeverRunsJunk'
    <2>1. \A k \in Loaders : k = l
      BY DEF OneLoader
    <2>2. ASSUME UNCHANGED scanner PROVE HeldInv' /\ NeverRunsJunk'
      BY <2>2 DEF scanner, HeldInv, NeverRunsJunk
    <2>3. ASSUME pc[l]' \notin {"stage2", "app"} PROVE ScriptInv'
      BY <2>1, <2>3 DEF ScriptInv
    <2>4. ASSUME NEW image \in DOMAIN Text, NEW s \in {Stage2Script, AppScript(image)},
                 NEW n \in 0..(Len(s) - 1), Playing(l, image, s, n)'
          PROVE  ScriptInv'
      BY <2>1, <2>4 DEF ScriptInv
    <2>5. CASE open(l) \/ open_after_load(l) \/ claim_fails(l) \/ reopen(l)
               \/ wait_ends(l)
      <3>1. /\ UNCHANGED scanner
            /\ \E label \in {"open", "load", "idle", "unclaimed", "check"} : Goto(l, label)
        BY <2>5
        DEF open, open_after_load, claim_fails, reopen, wait_ends
      <3>2. pc[l]' \notin {"stage2", "app"}
        BY <1>4, <3>1 DEF Goto
      <3> QED
        BY <2>2, <2>3, <3>1, <3>2
    <2>6. CASE probe(l)
      <3>1. UNCHANGED scanner
        BY <2>6 DEF probe
      <3>2. CASE Goto(l, "check")
        BY <1>4, <2>2, <2>3, <3>1, <3>2 DEF Goto
      <3>3. CASE ~Goto(l, "check")
        <4>1. (todo[l])' = Stage2Script /\ pc[l]' = "stage2"
          BY <1>4, <2>6, <3>3 DEF probe, Goto
        <4>2. (Stage2 \in IF pc[l] = "stage2" THEN {Stage2} ELSE Suitable)'
          BY <4>1
        <4>3. 0 \in 0..(Len(Stage2Script) - 1) /\ Playing(l, Stage2, Stage2Script, 0)'
          BY <4>1, <4>2, Begins, Stage2Good, ImagesAre
        <4>4. ScriptInv'
          BY <2>4, <4>3, ImagesAre
        <4> QED
          BY <2>2, <3>1, <4>4
      <3> QED
        BY <3>2, <3>3
    <2>7. CASE read_personality(l) \/ personality_fails(l)
      <3>1. PICK rev \in {NoRev, board.rev} : Upload(l, Selected(rev))
        BY <2>7 DEF read_personality, personality_fails
      <3>2. UNCHANGED scanner
        BY <2>7 DEF read_personality, personality_fails
      <3>3. CASE \E label \in {"check", "idle"} : Abandon(l, label)
        <4>1. pc[l]' \notin {"stage2", "app"}
          BY <1>4, <3>3 DEF Abandon, Goto
        <4> QED
          BY <2>2, <2>3, <3>2, <4>1
      <3>4. CASE ~ \E label \in {"check", "idle"} : Abandon(l, label)
        <4>1. /\ Selected(rev) # NoImage
              /\ Goto(l, "app") /\ todo' = [todo EXCEPT ![l] = AppScript(Selected(rev))]
          BY <3>1, <3>4 DEF Upload
        <4>2. Selected(rev) \in Suitable /\ Selected(rev) \in DOMAIN Text
          BY <4>1, SelectedIs, ImagesAre DEF TypeInv, FixedType
        <4>3. PICK image \in DOMAIN Text : image = Selected(rev)
          BY <4>2
        <4>4. (todo[l])' = AppScript(image) /\ pc[l]' = "app"
          BY <1>4, <4>1, <4>3 DEF Goto
        <4>5. (image \in IF pc[l] = "stage2" THEN {Stage2} ELSE Suitable)'
          BY <1>2, <4>2, <4>3, <4>4
        <4>6. 0 \in 0..(Len(AppScript(image)) - 1)
              /\ Playing(l, image, AppScript(image), 0)'
          BY <4>4, <4>5, Begins, AppGood
        <4>7. ScriptInv'
          BY <2>4, <4>6
        <4> QED
          BY <2>2, <3>2, <4>7
      <3> QED
        BY <3>3, <3>4
    <2>8. ASSUME todo[l] # <<>>, Answered(l), Effect(Head(todo[l]))
          PROVE  /\ HeldInv' /\ NeverRunsJunk'
                 /\ \E image \in DOMAIN Text : \E s \in {Stage2Script, AppScript(image)} :
                      \E n \in 0..(Len(s) - 1) :
                        /\ Playing(l, image, s, n) /\ s \in Seq(Writes)
                        /\ \A j \in 1..(n + 1) : s[j].at \in Cells => mem'[s[j].at] = image
                        /\ HeldBefore(s, n + 2, board.cpucs) => held' /\ running' = Nothing
      <3>1. pc[l] \in {"stage2", "app"} /\ handle[l] = epoch /\ bus = "unloaded"
        BY <2>8 DEF Answered, TypeInv, HostType
      <3>a. PICK image \in DOMAIN Text : \E s \in {Stage2Script, AppScript(image)} :
              \E n \in 0..(Len(s) - 1) : Playing(l, image, s, n)
        BY <3>1 DEF ScriptInv
      <3>2. PICK s \in {Stage2Script, AppScript(image)} :
              \E n \in 0..(Len(s) - 1) : Playing(l, image, s, n)
        BY <3>a
      <3>3. PICK n \in 0..(Len(s) - 1) : Playing(l, image, s, n)
        BY <3>2
      <3>4. s \in Seq(Writes)
        BY <3>3 DEF Playing, GoodScript
      <3>5. Head(todo[l]) = s[n + 1]
        <4>1. todo[l] \in Seq(Transfers)
          BY <1>4
        <4>2. Head(todo[l]) = todo[l][1]
          BY ONLY <4>1, <2>8
        <4>3. Len(s) \in Nat /\ 1 \in 1..(Len(s) - n)
          BY <3>4
        <4> QED
          BY <3>3, <4>2, <4>3 DEF Playing
      <3>6. Effect(s[n + 1])
        BY <2>8, <3>5
      <3>7. NeverRunsJunk'
        <4>1. \/ running' = running \/ running' = Nothing
              \/ /\ running' = Program(mem)
                 /\ \A k \in DOMAIN parse_ihex[image] : mem[parse_ihex[image][k]] = image
          BY <3>3, <3>6, Transfer
        <4>2. CASE \A k \in DOMAIN parse_ihex[image] : mem[parse_ihex[image][k]] = image
          <5> DEFINE whole == {i \in DOMAIN Text :
                                 \A k \in DOMAIN parse_ihex[i] : mem[parse_ihex[i][k]] = i}
          <5>1. image \in whole
            BY <4>2
          <5>2. Program(mem) = IF whole = {} THEN Junk ELSE CHOOSE i \in whole : TRUE
            BY DEF Program
          <5>3. whole \subseteq DOMAIN Text
            OBVIOUS
          <5> HIDE DEF whole
          <5>4. Program(mem) \in DOMAIN Text
            BY <5>1, <5>2, <5>3
          <5>5. Program(mem) # Junk
            BY <5>4, ImagesAre
          <5> QED
            BY <4>1, <5>5 DEF NeverRunsJunk, Nothing, Junk
        <4> QED
          BY <4>1, <4>2 DEF NeverRunsJunk, Nothing, Junk
      <3>8. /\ HeldInv'
            /\ \A j \in 1..(n + 1) : s[j].at \in Cells => mem'[s[j].at] = image
            /\ HeldBefore(s, n + 2, board.cpucs) => held' /\ running' = Nothing
        BY <3>3, <3>6, Transfer
      <3> QED
        BY <3>3, <3>4, <3>7, <3>8
    <2>9. CASE control_write(l)
      <3>1. /\ todo[l] # <<>> /\ Answered(l) /\ Effect(Head(todo[l]))
            /\ todo' = [todo EXCEPT ![l] = Tail(todo[l])]
        BY <2>9 DEF control_write
      <3>a. PICK image \in DOMAIN Text : \E s \in {Stage2Script, AppScript(image)} :
              \E n \in 0..(Len(s) - 1) :
                 /\ Playing(l, image, s, n) /\ s \in Seq(Writes)
                 /\ \A j \in 1..(n + 1) : s[j].at \in Cells => mem'[s[j].at] = image
                 /\ HeldBefore(s, n + 2, board.cpucs) => held' /\ running' = Nothing
        BY <2>8, <3>1
      <3>2. PICK s \in {Stage2Script, AppScript(image)} :
              \E n \in 0..(Len(s) - 1) :
                 /\ Playing(l, image, s, n) /\ s \in Seq(Writes)
                 /\ \A j \in 1..(n + 1) : s[j].at \in Cells => mem'[s[j].at] = image
                 /\ HeldBefore(s, n + 2, board.cpucs) => held' /\ running' = Nothing
        BY <3>a
      <3>3. PICK n \in 0..(Len(s) - 1) :
                 /\ Playing(l, image, s, n) /\ s \in Seq(Writes)
                 /\ \A j \in 1..(n + 1) : s[j].at \in Cells => mem'[s[j].at] = image
                 /\ HeldBefore(s, n + 2, board.cpucs) => held' /\ running' = Nothing
        BY <3>2
      <3>4. todo[l] \in Seq(Transfers) /\ Len(s) \in Nat /\ n \in Nat
        BY <1>4, <3>3
      <3>5. /\ Len(Tail(todo[l])) = Len(todo[l]) - 1
            /\ \A i \in 1..Len(Tail(todo[l])) : Tail(todo[l])[i] = todo[l][i + 1]
        BY ONLY <3>1, <3>4, HeadTailProperties
      <3>6. (todo[l])' = Tail(todo[l])
        BY <1>4, <3>1
      <3>7. CASE Len(todo[l]) = 1
        <4>1. pc[l] \in {"stage2", "app"}
          BY <3>1 DEF TypeInv, HostType
        <4>2. pc[l]' = AfterScript[pc[l]]
          BY <1>4, <2>9, <3>7 DEF control_write, Goto
        <4>3. pc[l]' \notin {"stage2", "app"}
          BY <4>1, <4>2 DEF AfterScript
        <4> QED
          BY <2>3, <2>8, <3>1, <4>3
      <3>8. CASE Len(todo[l]) # 1
        <4>1. UNCHANGED pc
          BY <2>9, <3>8 DEF control_write
        <4>2. Len(todo[l]) = Len(s) - n
          BY <3>3 DEF Playing
        <4>3. n + 1 \in 0..(Len(s) - 1)
          BY <3>4, <3>8, <4>2
        <4>4. Playing(l, image, s, n + 1)'
          <5>1. (image \in IF pc[l] = "stage2" THEN {Stage2} ELSE Suitable)'
            BY <1>2, <3>3, <4>1 DEF Playing
          <5>2. GoodScript(s, image) /\ GoesLast(s)
            BY <3>3 DEF Playing
          <5>3. Len(todo[l])' = Len(s) - (n + 1)
            BY <3>4, <3>5, <3>6, <4>2
          <5>4. \A i \in 1..(Len(s) - (n + 1)) : (todo[l])'[i] = s[n + 1 + i]
            <6> SUFFICES ASSUME NEW i \in 1..(Len(s) - (n + 1))
                         PROVE  (todo[l])'[i] = s[n + 1 + i]
              OBVIOUS
            <6>1. i \in 1..Len(Tail(todo[l])) /\ i + 1 \in 1..(Len(s) - n)
                  /\ n + (i + 1) = n + 1 + i
              BY <3>4, <3>5, <4>2
            <6>2. todo[l][i + 1] = s[n + (i + 1)]
              BY <3>3, <6>1 DEF Playing
            <6> QED
              BY <3>5, <3>6, <6>1, <6>2
          <5>5. (HeldBefore(s, (n + 1) + 1, board.cpucs) => held /\ running = Nothing)'
            <6>1. (n + 1) + 1 = n + 2
              BY <3>4
            <6> QED
              BY <1>1, <3>3, <6>1
          <5> QED
            BY <3>3, <4>3, <5>1, <5>2, <5>3, <5>4, <5>5 DEF Playing
        <4>5. ScriptInv'
          BY <2>4, <4>3, <4>4
        <4> QED
          BY <2>8, <3>1, <4>5
      <3> QED
        BY <3>7, <3>8
    <2>10. CASE control_fails(l)
      <3>1. /\ todo[l] # <<>>
            /\ \/ UNCHANGED <<held, mem, running>>
               \/ Answered(l) /\ Effect(Head(todo[l]))
        BY <2>10 DEF control_fails
      <3>2. Abandon(l, IF pc[l] = "app" THEN "wait" ELSE "idle")
        BY <2>10 DEF control_fails
      <3>3. pc[l]' \notin {"stage2", "app"}
        BY <1>4, <3>2 DEF Abandon, Goto
      <3>4. HeldInv' /\ NeverRunsJunk'
        <4>1. CASE UNCHANGED <<held, mem, running>>
          BY <4>1 DEF HeldInv, NeverRunsJunk
        <4>2. CASE Answered(l) /\ Effect(Head(todo[l]))
          BY <2>8, <3>1, <4>2
        <4> QED
          BY <3>1, <4>1, <4>2
      <3> QED
        BY <2>3, <3>3, <3>4
    <2> QED
      BY <1>5, <2>5, <2>6, <2>7, <2>9, <2>10 DEF LoaderStep
  <1>6. CASE Disconnect \/ Enumerate \/ PowerOff \/ PowerOn
    <2>1. HeldInv' /\ NeverRunsJunk'
      BY <1>6 DEF Disconnect, Enumerate, PowerOff, PowerOn, HeldInv, NeverRunsJunk,
                  Nothing, Junk
    <2>2. UNCHANGED host /\ (bus' # "unloaded" \/ epoch' = epoch + 1)
      BY <1>6 DEF Disconnect, Enumerate, PowerOff, PowerOn
    <2>3. ScriptInv'
      <3> SUFFICES ASSUME NEW l \in Loaders, handle[l]' = epoch', bus' = "unloaded"
                   PROVE  FALSE
        BY DEF ScriptInv
      <3>1. handle[l]' = handle[l] /\ epoch' = epoch + 1
        BY <2>2 DEF host
      <3>2. handle[l] \in 0..epoch /\ epoch \in Nat
        BY <1>3
      <3>3. handle[l] = epoch + 1
        BY <3>1
      <3> QED
        BY ONLY <3>2, <3>3
    <2> QED
      BY <1>0, <2>1, <2>3
  <1>7. CASE UNCHANGED vars
    <2>1. UNCHANGED <<bus, epoch, mem, held, running, pc, handle, todo>>
      BY <1>7 DEF vars, scanner, host
    <2>2. HeldInv' /\ NeverRunsJunk'
      BY <2>1 DEF HeldInv, NeverRunsJunk
    <2>3. ASSUME NEW l, NEW image, NEW s, NEW n, Playing(l, image, s, n)
          PROVE  Playing(l, image, s, n)'
      BY <1>1, <1>2, <2>1, <2>3 DEF Playing
    <2>4. ScriptInv'
      BY <2>1, <2>3 DEF ScriptInv
    <2> QED
      BY <1>0, <2>2, <2>4
  <1> QED
    BY <1>0, <1>5, <1>6, <1>7 DEF Next

LEMMA LoadInit == Init => LoadInv
  <1> SUFFICES ASSUME Init PROVE LoadInv
    OBVIOUS
  <1>1. TypeInv
    BY TypeInit
  <1>2. ScriptInv
    BY DEF Init, ScriptInv
  <1>3. HeldInv /\ NeverRunsJunk
    BY DEF Init, HeldInv, NeverRunsJunk, Nothing, Junk
  <1> QED
    BY <1>1, <1>2, <1>3 DEF LoadInv

(* NeverRunsJunk, for any hex files, boards and directories. *)
THEOREM WholePrograms ==
  ASSUME OneLoader
  PROVE  Spec => []NeverRunsJunk
  <1>1. LoadInv /\ [Next]_vars => LoadInv'
    BY LoadStep
  <1>2. LoadInv => NeverRunsJunk
    BY DEF LoadInv
  <1> QED
    BY <1>1, <1>2, LoadInit, PTL DEF Spec

(* With a cell that every program fills, memory holds one whole program at a
   time. *)
LEMMA OneProgram ==
  ASSUME ResetVector, NEW m, NEW image \in DOMAIN Text,
         \A k \in DOMAIN parse_ihex[image] : m[parse_ihex[image][k]] = image
  PROVE  Program(m) = image
  <1> DEFINE whole == {i \in DOMAIN Text :
                         \A k \in DOMAIN parse_ihex[i] : m[parse_ihex[i][k]] = i}
  <1>1. PICK c \in Internal : \A i \in DOMAIN Text :
          \E k \in DOMAIN parse_ihex[i] : parse_ihex[i][k] = c
    BY DEF ResetVector
  <1>2. \A i \in whole : m[c] = i
    BY <1>1
  <1>3. image \in whole
    OBVIOUS
  <1>4. Program(m) = IF whole = {} THEN Junk ELSE CHOOSE i \in whole : TRUE
    BY DEF Program
  <1> HIDE DEF whole
  <1> QED
    BY <1>2, <1>3, <1>4

(* A transfer starts an application only as the last that matters of its
   upload, and no transfer stops one. *)
LEMMA Transferred ==
  ASSUME StartInv, ResetVector, NEW l \in Loaders,
         todo[l] # <<>>, Answered(l), Effect(Head(todo[l]))
  PROVE  /\ running \in Images => running' = running
         /\ running' \in Images /\ running \notin Images =>
              /\ running' \in Suitable /\ pc[l] = "app"
              /\ \A i \in 1..Len(Tail(todo[l])) :
                   Tail(todo[l])[i].at \notin Internal \union {board.cpucs}
  <1> USE DEF StartInv, LoadInv
  <1>1. pc[l] \in {"stage2", "app"} /\ handle[l] = epoch /\ bus = "unloaded"
    BY DEF Answered, TypeInv, HostType
  <1>2. PICK image \in DOMAIN Text : \E s \in {Stage2Script, AppScript(image)} :
          \E n \in 0..(Len(s) - 1) : Playing(l, image, s, n)
    BY <1>1 DEF ScriptInv
  <1>3. PICK s \in {Stage2Script, AppScript(image)} :
          \E n \in 0..(Len(s) - 1) : Playing(l, image, s, n)
    BY <1>2
  <1>4. PICK n \in 0..(Len(s) - 1) : Playing(l, image, s, n)
    BY <1>3
  <1>5. s \in Seq(Writes) /\ Len(s) \in Nat /\ n \in Nat
    BY <1>4 DEF Playing, GoodScript
  <1>6. /\ todo[l] \in Seq(Transfers) /\ Len(todo[l]) = Len(s) - n
        /\ \A i \in 1..(Len(s) - n) : todo[l][i] = s[n + i]
    BY <1>4 DEF Playing, TypeInv, HostType
  <1>7. Head(todo[l]) = s[n + 1] /\ Head(todo[l]) = todo[l][1] /\ 1 \in 1..Len(todo[l])
    <2>1. Head(todo[l]) = todo[l][1]
      BY ONLY <1>6
    <2>2. 1 \in 1..(Len(s) - n)
      BY <1>5
    <2> QED
      BY <1>6, <2>1, <2>2
  <1>8. Effect(s[n + 1])
    BY <1>7
  <1>9. CASE running \in Images
    <2>1. todo[l][1].at \notin Internal \union {board.cpucs}
      BY <1>1, <1>7, <1>9 DEF StartedInv
    <2>2. s[n + 1].at # board.cpucs
      BY <1>7, <2>1
    <2>3. running' = running
      BY <1>4, <1>8, <2>2, Transfer
    <2> QED
      BY <1>9, <2>3
  <1>10. CASE running' \in Images /\ running \notin Images
    <2>1. /\ running' = Program(mem) /\ s[n + 1].at = board.cpucs /\ s[n + 1].data = 0
          /\ \A k \in DOMAIN parse_ihex[image] : mem[parse_ihex[image][k]] = image
      <3>1. Nothing \notin Images
        BY ImagesAre
      <3> QED
        BY <1>4, <1>8, <1>10, <3>1, Transfer
    <2>2. running' = image
      BY <2>1, OneProgram
    <2>3. image # Stage2
      BY <1>10, <2>2, ImagesAre
    <2>4. image \in Suitable /\ pc[l] = "app"
      BY <1>1, <1>4, <2>3 DEF Playing
    <2>5. board.cpucs \in Registers
      BY FirmwareAssumption DEF TypeInv, FixedType
    <2>6. \A m \in (n + 2)..Len(s) : s[m].at # board.cpucs /\ s[m].at \notin Cells
      <3>1. n + 1 \in 1..Len(s) /\ (n + 1) + 1 = n + 2
        BY <1>5
      <3>2. Releases1(s[n + 1])
        BY <2>1, <2>5 DEF Releases1
      <3>3. \A m \in ((n + 1) + 1)..Len(s) : s[m].at # s[n + 1].at /\ s[m].at \notin Cells
        BY <1>4, <3>1, <3>2 DEF Playing, GoesLast
      <3> QED
        BY <2>1, <3>1, <3>3
    <2>7. ASSUME NEW i \in 1..Len(Tail(todo[l]))
          PROVE  Tail(todo[l])[i].at \notin Internal \union {board.cpucs}
      <3>1. /\ Len(Tail(todo[l])) = Len(todo[l]) - 1
            /\ \A k \in 1..Len(Tail(todo[l])) : Tail(todo[l])[k] = todo[l][k + 1]
        BY ONLY <1>6, todo[l] # <<>>, HeadTailProperties
      <3>2. i + 1 \in 1..(Len(s) - n) /\ n + (i + 1) \in (n + 2)..Len(s)
        BY <1>5, <1>6, <2>7, <3>1
      <3>3. Tail(todo[l])[i] = s[n + (i + 1)]
        BY <1>6, <2>7, <3>1, <3>2
      <3> QED
        BY <2>6, <3>2, <3>3, Apart
    <2> QED
      BY <1>10, <2>2, <2>4, <2>7
  <1> QED
    BY <1>9, <1>10

LEMMA StartStep ==
  ASSUME StartInv, OneLoader, ResetVector, [Next]_vars
  PROVE  StartInv'
  <1> USE DEF StartInv
  <1>0. LoadInv'
    BY LoadStep
  <1>1. /\ UNCHANGED <<board, dir>>
        /\ board.cpucs' = board.cpucs
    BY DEF Next, LoaderStep, open, open_after_load, claim_fails, reopen, probe,
           control_write, control_fails, read_personality, personality_fails,
           wait_ends, Disconnect, Enumerate, PowerOff, PowerOn, vars, fixed
  <1>2. pc \in [Loaders -> Labels] /\ todo \in [Loaders -> Seq(Transfers)]
    BY DEF LoadInv, TypeInv, HostType
  <1>3. SUFFICES ASSUME bus' = "unloaded", running' \in Images PROVE StartedInv'
    BY <1>0 DEF StartedInv
  <1>4. ASSUME NEW l \in Loaders, LoaderStep(l)
        PROVE  StartedInv'
    <2>1. \A k \in Loaders : k = l
      BY DEF OneLoader
    <2>2. /\ pc[l]' = "wait" => StartedInv'
          /\ /\ pc[l]' = "app"
             /\ \A i \in 1..Len(todo[l]') : todo[l]'[i].at \notin Internal \union {board.cpucs}
             => StartedInv'
      BY <1>1, <2>1 DEF StartedInv
    <2>3. bus = "unloaded"
      BY <1>3, <1>4
      DEF LoaderStep, open, open_after_load, claim_fails, reopen, probe,
          control_write, control_fails, read_personality, personality_fails,
          wait_ends, scanner
    <2>4. running \in Images => pc[l] \in {"wait", "app"}
      BY <2>3 DEF StartedInv
    <2>5. CASE open(l) \/ open_after_load(l) \/ claim_fails(l) \/ reopen(l)
               \/ probe(l) \/ read_personality(l) \/ personality_fails(l) \/ wait_ends(l)
      <3>1. running \in Images
        BY <1>3, <2>5
        DEF open, open_after_load, claim_fails, reopen, probe,
            read_personality, personality_fails, wait_ends, scanner
      <3> QED
        BY <2>3, <2>4, <2>5, <3>1
        DEF open, open_after_load, claim_fails, reopen, probe,
            read_personality, personality_fails, wait_ends
    <2>6. CASE control_write(l)
      <3>1. /\ todo[l] # <<>> /\ Answered(l) /\ Effect(Head(todo[l]))
            /\ todo' = [todo EXCEPT ![l] = Tail(todo[l])]
        BY <2>6 DEF control_write
      <3>2. pc[l] \in {"stage2", "app"}
        BY <3>1 DEF LoadInv, TypeInv, HostType
      <3>3. /\ pc[l] = "app"
            /\ \A i \in 1..Len(Tail(todo[l])) :
                 Tail(todo[l])[i].at \notin Internal \union {board.cpucs}
        <4>1. CASE running \in Images
          <5>1. /\ pc[l] = "app"
                /\ \A i \in 1..Len(todo[l]) : todo[l][i].at \notin Internal \union {board.cpucs}
            BY <2>3, <3>2, <4>1 DEF StartedInv
          <5>2. todo[l] \in Seq(Transfers)
            BY <1>2
          <5>3. /\ Len(Tail(todo[l])) = Len(todo[l]) - 1 /\ Len(todo[l]) \in Nat
                /\ \A k \in 1..Len(Tail(todo[l])) : Tail(todo[l])[k] = todo[l][k + 1]
            BY ONLY <5>2, <3>1, HeadTailProperties, LenProperties
          <5>4. \A k \in 1..Len(Tail(todo[l])) : k + 1 \in 1..Len(todo[l])
            BY <5>3
          <5> QED
            BY <5>1, <5>3, <5>4
        <4>2. CASE running \notin Images
          BY <1>3, <3>1, <4>2, Transferred
        <4> QED
          BY <4>1, <4>2
      <3>4. (todo[l])' = Tail(todo[l])
        BY <1>2, <3>1
      <3>5. CASE Len(todo[l]) = 1
        <4>1. pc[l]' = AfterScript["app"]
          BY <1>2, <2>6, <3>3, <3>5 DEF control_write, Goto
        <4> QED
          BY <2>2, <4>1 DEF AfterScript
      <3>6. CASE Len(todo[l]) # 1
        <4>1. pc[l]' = "app"
          BY <2>6, <3>3, <3>6 DEF control_write
        <4> QED
          BY <2>2, <3>3, <3>4, <4>1
      <3> QED
        BY <3>5, <3>6
    <2>7. CASE control_fails(l)
      <3>1. /\ todo[l] # <<>>
            /\ \/ UNCHANGED <<held, mem, running>>
               \/ Answered(l) /\ Effect(Head(todo[l]))
            /\ Abandon(l, IF pc[l] = "app" THEN "wait" ELSE "idle")
        BY <2>7 DEF control_fails
      <3>2. pc[l] \in {"stage2", "app"}
        BY <3>1 DEF LoadInv, TypeInv, HostType
      <3>3. pc[l] = "app"
        <4>1. CASE running \in Images
          BY <2>4, <3>2, <4>1
        <4>2. CASE running \notin Images
          BY <1>3, <3>1, <4>2, Transferred
        <4> QED
          BY <4>1, <4>2
      <3>4. pc[l]' = "wait"
        BY <1>2, <3>1, <3>3 DEF Abandon, Goto
      <3> QED
        BY <2>2, <3>4
    <2> QED
      BY <1>4, <2>5, <2>6, <2>7 DEF LoaderStep
  <1>5. CASE Disconnect \/ Enumerate \/ PowerOff \/ PowerOn
    BY <1>3, <1>5, ImagesAre DEF Disconnect, Enumerate, PowerOff, PowerOn
  <1>6. CASE UNCHANGED vars
    <2>1. UNCHANGED <<bus, running, pc, todo>>
      BY <1>6 DEF vars, scanner, host
    <2> QED
      BY <1>1, <2>1 DEF StartedInv
  <1> QED
    BY <1>4, <1>5, <1>6 DEF Next

LEMMA StartInit == Init => StartInv
  <1>1. Init => StartedInv
    BY ImagesAre DEF Init, StartedInv
  <1> QED
    BY <1>1, LoadInit DEF StartInv

(* The refinement. *)
Users == {l \in Loaders : Using(l) /\ handle[l] = epoch /\ bus = "loaded"}
App == IF running \in Images THEN running ELSE Nothing

LEMMA BootStep ==
  ASSUME StartInv, OneLoader, ResetVector, [Next]_vars
  PROVE  [Boot!Next]_(Boot!vars)
  <1> DEFINE Stays == /\ Suitable' = Suitable /\ App' = App
                      /\ Users' = Users /\ cycles' = cycles
  <1>1. UNCHANGED <<board, dir>>
    BY DEF Next, LoaderStep, open, open_after_load, claim_fails, reopen, probe,
           control_write, control_fails, read_personality, personality_fails,
           wait_ends, Disconnect, Enumerate, PowerOff, PowerOn, vars, fixed
  <1>2. Suitable' = Suitable
    BY <1>1 DEF Suitable
  <1>3. SUFFICES ASSUME ~Stays PROVE Boot!Next
    <2>1. Stays => UNCHANGED Boot!vars
      BY DEF Boot!vars, Users, App
    <2> QED
      BY <1>3, <2>1
  <1>4. /\ pc \in [Loaders -> Labels] /\ handle \in [Loaders -> 0..epoch] /\ epoch \in Nat
        /\ bus = "loaded" => running \in Images
    BY DEF StartInv, LoadInv, TypeInv, HostType, CountType, ScannerType
  <1>5. Nothing \notin Images /\ \A i \in Images : i # Nothing
    BY ImagesAre
  <1>6. ASSUME NEW l \in Loaders, LoaderStep(l)
        PROVE  Boot!Next
    <2>1. \A k \in Loaders : k = l
      BY DEF OneLoader
    <2>2. ASSUME UNCHANGED scanner, cycles' = cycles,
                 Users' = Users \union {l}, bus = "loaded"
          PROVE  Boot!Next
      <3>1. App' = App /\ App # Nothing
        BY <1>4, <1>5, <2>2 DEF App, scanner
      <3>2. Boot!Acquire(l)
        BY <1>2, <2>2, <3>1 DEF Boot!Acquire, Users, App
      <3> QED
        BY <3>2 DEF Boot!Next
    <2>3. ASSUME UNCHANGED scanner, cycles' = cycles, pc[l]' \notin {"open", "unclaimed"}
          PROVE  Boot!Next
      <3>1. App' = App
        BY <2>3 DEF App, scanner
      <3>2. Users' = Users \ {l}
        BY <2>1, <2>3 DEF Users, Using, scanner
      <3>3. Boot!Release(l)
        BY <1>2, <2>3, <3>1, <3>2 DEF Boot!Release, Users, App
      <3> QED
        BY <3>3 DEF Boot!Next
    <2>4. CASE open(l) \/ open_after_load(l) \/ claim_fails(l)
      <3>1. UNCHANGED scanner /\ cycles' = cycles
        BY <2>4 DEF open, open_after_load, claim_fails, bounds
      <3>2. CASE bus = "loaded"
        <4>1. pc[l]' \in {"open", "unclaimed"} /\ handle[l]' = epoch
          BY <1>4, <2>4, <3>2 DEF open, open_after_load, claim_fails, Goto
        <4>2. Users' = Users \union {l}
          BY <2>1, <3>1, <3>2, <4>1 DEF Users, Using, scanner
        <4> QED
          BY <2>2, <3>1, <3>2, <4>2
      <3>3. CASE bus # "loaded"
        <4>1. pc[l]' \notin {"open", "unclaimed"}
          BY <1>4, <2>4, <3>3 DEF open, open_after_load, claim_fails, Goto
        <4> QED
          BY <2>3, <3>1, <4>1
      <3> QED
        BY <3>2, <3>3
    <2>5. CASE reopen(l) \/ probe(l) \/ wait_ends(l)
      <3>1. UNCHANGED scanner /\ cycles' = cycles
        BY <2>5 DEF reopen, probe, wait_ends, bounds
      <3>2. \E label \in {"idle", "check", "stage2"} : Goto(l, label)
        BY <2>5 DEF reopen, probe, wait_ends
      <3>3. pc[l]' \notin {"open", "unclaimed"}
        BY <1>4, <3>2 DEF Goto
      <3> QED
        BY <2>3, <3>1, <3>3
    <2>6. CASE read_personality(l) \/ personality_fails(l)
      <3>1. UNCHANGED scanner /\ cycles' = cycles
        BY <2>6 DEF read_personality, personality_fails, bounds
      <3>2. PICK rev : Upload(l, Selected(rev))
        BY <2>6 DEF read_personality, personality_fails
      <3>3. \E label \in {"idle", "check", "app"} : Goto(l, label)
        BY <3>2 DEF Upload, Abandon
      <3>4. pc[l]' \notin {"open", "unclaimed"}
        BY <1>4, <3>3 DEF Goto
      <3> QED
        BY <2>3, <3>1, <3>4
    <2>7. CASE control_write(l) \/ control_fails(l)
      <3>1. /\ todo[l] # <<>> /\ cycles' = cycles /\ UNCHANGED <<bus, epoch, handle>>
            /\ \/ UNCHANGED <<held, mem, running>>
               \/ Answered(l) /\ Effect(Head(todo[l]))
        BY <2>7 DEF control_write, control_fails, bounds
      <3>2. pc[l] \in {"stage2", "app"}
        BY <3>1 DEF StartInv, LoadInv, TypeInv, HostType
      <3>3. pc[l]' \notin {"open", "unclaimed"}
        <4>1. CASE control_write(l)
          <5>1. AfterScript[pc[l]] \in {"personality", "wait"}
            BY <3>2 DEF AfterScript
          <5>2. pc[l]' = pc[l] \/ pc[l]' = AfterScript[pc[l]]
            BY <1>4, <4>1 DEF control_write, Goto
          <5> QED
            BY <3>2, <5>1, <5>2
        <4>2. CASE control_fails(l)
          BY <1>4, <4>2 DEF control_fails, Abandon, Goto
        <4> QED
          BY <2>7, <4>1, <4>2
      <3>4. CASE UNCHANGED <<held, mem, running>>
        BY <2>3, <3>1, <3>3, <3>4 DEF scanner
      <3>5. CASE Answered(l) /\ Effect(Head(todo[l]))
        <4>1. Users = {} /\ Users' = {}
          BY <3>1, <3>5 DEF Answered, Users
        <4>2. App' # App
          BY <1>2, <1>3, <3>1, <4>1
        <4>3. /\ running \in Images => running' = running
              /\ running' \in Images /\ running \notin Images => running' \in Suitable
          BY <3>1, <3>5, Transferred
        <4>4. running \notin Images /\ running' \in Images
          BY <4>2, <4>3 DEF App
        <4>5. App = Nothing /\ App' \in Suitable
          BY <4>3, <4>4 DEF App
        <4>6. Boot!Start
          BY <1>2, <3>1, <4>1, <4>5 DEF Boot!Start, Users, App
        <4> QED
          BY <4>6 DEF Boot!Next
      <3> QED
        BY <3>1, <3>4, <3>5
    <2> QED
      BY <1>6, <2>4, <2>5, <2>6, <2>7 DEF LoaderStep
  <1>7. CASE Disconnect \/ Enumerate \/ PowerOn
    <2>1. UNCHANGED <<pc, handle, running, cycles>> /\ App' = App
      BY <1>7 DEF Disconnect, Enumerate, PowerOn, host, bounds, App
    <2>2. bus # "loaded"
      BY <1>7 DEF Disconnect, Enumerate, PowerOn
    <2>3. \/ bus' # "loaded" 
          \/ epoch' = epoch + 1
      BY <1>7 DEF Disconnect, Enumerate, PowerOn
    <2>4. \A l \in Loaders : handle[l] # epoch + 1
      BY <1>4
    <2>5. Users = {} /\ Users' = {}
      BY <2>1, <2>2, <2>3, <2>4 DEF Users
    <2> QED
      BY <1>2, <1>3, <2>1, <2>5
  <1>8. CASE PowerOff
    <2>1. App' = Nothing /\ cycles' = cycles + 1
      BY <1>5, <1>8 DEF PowerOff, App
    <2>2. Users' = {}
      BY <1>8 DEF PowerOff, Users
    <2>3. Boot!PowerOff
      BY <1>2, <2>1, <2>2 DEF Boot!PowerOff, Users, App
    <2> QED
      BY <2>3 DEF Boot!Next
  <1>9. CASE UNCHANGED vars
    <2>1. UNCHANGED <<bus, epoch, running, pc, handle, cycles>>
      BY <1>9 DEF vars, scanner, host, bounds
    <2>2. Stays
      BY <1>2, <2>1 DEF Users, App, Using
    <2> QED
      BY <1>3, <2>2
  <1> QED
    BY <1>6, <1>7, <1>8, <1>9 DEF Next

(* BootSpec, for any hex files that begin where the processor does. *)
THEOREM ImplementsBoot ==
  ASSUME OneLoader, ResetVector
  PROVE  Spec => BootSpec
  <1>1. Init => Boot!Init
    BY ImagesAre DEF Init, Boot!Init, Using
  <1>2. StartInv /\ [Next]_vars => StartInv'
    BY StartStep
  <1>3. StartInv /\ [Next]_vars => [Boot!Next]_(Boot!vars)
    BY BootStep
  <1> QED
    BY <1>1, <1>2, <1>3, StartInit, PTL DEF Spec, BootSpec, Boot!Spec
=============================================================================
