-------------------------------- MODULE DxCode --------------------------------
(***************************************************************************)
(* The arithmetic of server/dxsynth.py: the four data bytes of a DX entry, *)
(* as encode_entry builds them and TLB's parser (decode_entry) reads them, *)
(* and the derivation of the frame pitch from a scan's line size.  Bit     *)
(* operations on bytes are spelled as integer arithmetic.                  *)
(***************************************************************************)
EXTENDS Integers, FiniteSets

Bit(v, i) == (v \div 2^i) % 2
popcount(v) == Cardinality({i \in 0..7 : Bit(v, i) = 1})

ParityOdd(d) == (popcount(d[2]) + popcount(d[3]) + popcount(d[4] % 32)) % 2 = 1

(* The entry before its parity is made even by the spare bit of byte 1. *)
Fields(product, generation, frame) ==
  << frame % 2,
     (frame % 64) * 4,
     (product % 4) * 64 + (generation % 16) * 2 + ((frame \div 64) % 2),
     (product \div 4) % 32 >>

encode_entry(product, generation, frame) ==
  LET d == Fields(product, generation, frame)
  IN  [d EXCEPT ![2] = IF ParityOdd(d) THEN @ + 1 ELSE @]

decode_entry(d) ==
  LET frame == (d[2] \div 4) + (d[3] % 2) * 64
  IN  [product    |-> (d[3] \div 64) + (d[4] % 32) * 4,
       generation |-> (d[3] \div 2) % 16,
       frame      |-> frame,
       valid      |-> /\ ~ParityOdd(d) /\ Bit(d[3], 5) = 0 /\ Bit(d[2], 1) = 0
                      /\ d[1] % 2 = frame % 2]

(* x * num / den rounded to the nearest integer, a tie to the even one. *)
Rounded(x, num, den) ==
  LET q == (x * num) \div den
      twice == 2 * ((x * num) % den)
  IN  IF twice > den \/ (twice = den /\ q % 2 = 1) THEN q + 1 ELSE q

ShiftOf(pitch) == Rounded(pitch, 70997, 100000)        \* A_SLOT_SHIFT
EdgeToStart(pitch) == Rounded(pitch, 81, 100)          \* EDGE_TO_START_CODE

(* The line size read as three channels (unit three bytes of it) and as four
   (unit four), of which only the divisors the scanner has count; the lamp
   breaks a tie. *)
scan_divisor(bytes, ir, three, four, known) ==
  LET visible == Rounded(bytes, 1, three)
      infrared == Rounded(bytes, 1, four)
  IN  CASE bytes = 0 -> 0
        [] bytes # 0 /\ visible \in known /\ infrared \in known
             -> IF ir THEN infrared ELSE visible
        [] bytes # 0 /\ visible \in known /\ infrared \notin known -> visible
        [] bytes # 0 /\ visible \notin known /\ infrared \in known -> infrared
        [] OTHER -> 0
=============================================================================
