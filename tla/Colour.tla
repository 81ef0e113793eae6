------------------------------- MODULE Colour -------------------------------
(***************************************************************************)
(* The conversion of apc_color_conversions.c that the Alexa front end      *)
(* uses: hue, saturation and value to red, green and blue, and these to    *)
(* bytes.                                                                  *)
(*                                                                         *)
(* A hue is in degrees, a saturation or value a multiple of 1/N, and what  *)
(* is computed from them a multiple of 1/Full: the arithmetic is exact, as *)
(* that of the code is when N is a power of 2 and a hue a multiple of 15.  *)
(***************************************************************************)
EXTENDS Integers, Sequences

CONSTANT N

ASSUME ColourAssumption == N \in Nat \ {0}

Full == 60 * N * N   \* PER_UPPER_LIMIT

NoColour == <<>>

Abs(n) == IF n < 0 THEN -n ELSE n

\* RealIsWithinBounds
HsvValid(c) == c.h \in 0 .. 360 /\ c.s \in 0 .. N /\ c.v \in 0 .. N
RgbValid(c) == \A i \in 1 .. 3 : c[i] \in 0 .. Full

\* RgbF_Create, as long as there is memory.
RgbF(r, g, b) == IF RgbValid(<<r, g, b>>) THEN <<r, g, b>> ELSE NoColour

\* Had the sectors from 120 and from 180 degrees been exchanged.
RgbFromHsvSwapped(col) ==
  LET c == 60 * col.v * col.s
      x == col.v * col.s * (60 - Abs((col.h % 120) - 60))
      m == 60 * col.v * N - c
      sector == col.h \div 60 IN
  IF ~HsvValid(col) THEN NoColour
  ELSE CASE sector = 0 -> RgbF(c + m, x + m, m)
         [] sector = 1 -> RgbF(x + m, c + m, m)
         [] sector = 2 -> RgbF(m, x + m, c + m)
         [] sector = 3 -> RgbF(m, c + m, x + m)
         [] sector = 4 -> RgbF(x + m, m, c + m)
         [] sector = 5 -> RgbF(c + m, m, x + m)
         [] OTHER      -> RgbF(m, m, m)

\* RgbF_CreateFromHsv: 360 degrees are no sector.
RgbFromHsv(col) ==
  LET c == 60 * col.v * col.s
      x == col.v * col.s * (60 - Abs((col.h % 120) - 60))
      m == 60 * col.v * N - c
      sector == col.h \div 60 IN
  IF ~HsvValid(col) THEN NoColour
  ELSE CASE sector = 0 -> RgbF(c + m, x + m, m)
         [] sector = 1 -> RgbF(x + m, c + m, m)
         [] sector = 2 -> RgbF(m, c + m, x + m)
         [] sector = 3 -> RgbF(m, x + m, c + m)
         [] sector = 4 -> RgbF(x + m, m, c + m)
         [] sector = 5 -> RgbF(c + m, m, x + m)
         [] OTHER      -> RgbF(m, m, m)

\* RgbI_CreateFromRealForm: rounded to bytes.
RgbI(c) ==
  IF RgbValid(c) THEN [i \in 1 .. 3 |-> (2 * 255 * c[i] + Full) \div (2 * Full)]
  ELSE NoColour

-----------------------------------------------------------------------------
(* The definition of the conversion without sectors, to compare with: each *)
(* component is the value, less the chroma where the hue is away from it.  *)

Least(S) == CHOOSE n \in S : \A k \in S : n <= k

Component(col, from) ==
  LET k == (col.h + from) % 360
      away == Least({k, 240 - k, 60}) IN
  60 * col.v * N - col.v * col.s * (IF away < 0 THEN 0 ELSE away)

Reference(col) == <<Component(col, 300), Component(col, 180), Component(col, 60)>>
=============================================================================
