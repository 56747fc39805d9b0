------------------------------- MODULE Codec -------------------------------
(***************************************************************************)
(* The conversions between values and 16-bit words of codec.ts.            *)
(*                                                                         *)
(* Values and multipliers are counted in thousandths, so that fractions    *)
(* and the rounding to two digits are integers here; true is One and false *)
(* is 0.  A number of the program stands for the decimal that it prints as:*)
(* where its own double is a hair off that decimal, a tie may round to the *)
(* other side, and no property tells the sides apart.                      *)
(*                                                                         *)
(* A float of 32 bits is a multiple of the gap between its neighbours.     *)
(* Gaps and magnitudes are counted in the smallest gap, the quantum.  Its  *)
(* bits without the sign are a number, the pattern, that counts the floats *)
(* from zero up: Half of them between two powers of two.                   *)
(***************************************************************************)
EXTENDS Integers, Sequences

CONSTANTS
  Half,  \* floats between two powers of two: 2^23
  Gaps,  \* the gaps, in quanta: 1, 2, 4, ... 2^253
  Unit,  \* quanta in one: 2^149
  None   \* null

ASSUME FloatAssumption ==
  /\ Half \in Nat \ {0} /\ Unit \in Nat \ {0}
  /\ Gaps \in Seq(Nat \ {0}) /\ Gaps # << >> /\ Gaps[1] = 1
  /\ \A i \in 2..Len(Gaps) : Gaps[i] = 2 * Gaps[i - 1]
  /\ \A j \in 2..Len(Gaps) : \A i \in 1..(j - 1) : Gaps[j] % (2 * Gaps[i]) = 0
  /\ ((Len(Gaps) + 1) * Half - 1) \div 65536 < 32768

One == 1000
Cent == 10

IntegerTypes == {"UCHAR", "INT8", "INT16", "UINT16", "BITFLAG"}
DataTypes == IntegerTypes \cup {"FLOAT", "BOOL"}

\* Words of a register.
Size(register) == IF register.datatype = "FLOAT" THEN 2 ELSE 1

WordValues == {n \in Nat : n < 65536}

-----------------------------------------------------------------------------
(* Integers *)

Abs(n) == IF n >= 0 THEN n ELSE -n

\* Math.trunc
Trunc(n) == IF n >= 0 THEN n \div One ELSE -((-n) \div One)

MaskInteger(value, modulus) == value % modulus

Signed(value, modulus) ==
  LET masked == MaskInteger(value, modulus)
  IN IF masked >= modulus \div 2 THEN masked - modulus ELSE masked

\* Faulty variant: fractions are dropped.
RoundDown(n, d) == n \div d

\* n / d rounded to an integer, a half to the even one.
RoundHalfEven(n, d) ==
  LET lower == n \div d
      twice == 2 * (n % d)
  IN IF twice < d \/ (twice = d /\ lower % 2 = 0) THEN lower ELSE lower + 1

\* n / d thousandths rounded to two digits.
TwoDigits(n, d) == Cent * RoundHalfEven(n, d * Cent)

\* The integers that a type's encoder accepts.
InRange(datatype, n) ==
  /\ datatype = "UCHAR" => n >= 0 /\ n <= 255
  /\ datatype = "INT8" => n >= -128 /\ n <= 127
  /\ datatype = "INT16" => n >= -32768 /\ n <= 32767
  /\ datatype = "UINT16" => n >= 0 /\ n <= 65535

\* The value divided by the multiplier, as an encoder does first.
Scaled(register, value) == RoundHalfEven(value, register.multiplier)

\* An integer times the multiplier.
Multiplied(register, n) ==
  IF register.multiplier = One THEN n * One ELSE TwoDigits(n * register.multiplier, 1)

-----------------------------------------------------------------------------
(* Floats *)

\* The floats around n / d quanta have the i-th gap.
HasGap(n, d, i) ==
  /\ n < d * Gaps[i] * (2 * Half)
  /\ i = 1 \/ d * Gaps[i] * Half <= n

GapIndex(n, d) == CHOOSE i \in DOMAIN Gaps : HasGap(n, d, i)

\* The float nearest to n / d quanta, a half to the even pattern.  A carry into
\* the next power of two needs no care: its pattern is the next one.
Pattern(n, d) == LET i == GapIndex(n, d) IN (i - 1) * Half + RoundHalfEven(n, d * Gaps[i])

\* The pattern of infinity; those above it are not numbers.
Infinite == (Len(Gaps) + 1) * Half

\* What the bits count, in quanta.
Magnitude(pattern) ==
  LET i == IF pattern < 2 * Half THEN 1 ELSE pattern \div Half
  IN (pattern - (i - 1) * Half) * Gaps[i]

\* Narrowing keeps a finite number finite.
FitsFloat32(n, d) ==
  /\ \E i \in DOMAIN Gaps : HasGap(n, d, i)
  /\ Pattern(n, d) < Infinite

\* Low word first, the sign on top of the high one.
EncodeFloat32(pattern, negative) ==
  <<pattern % 65536, pattern \div 65536 + (IF negative THEN 32768 ELSE 0)>>

EncodeFloat(register, value) ==
  EncodeFloat32(Pattern(Abs(value) * Unit, register.multiplier), value < 0)

\* Null for infinities and what is not a number.
DecodeFloat(register, words) ==
  LET pattern == (words[2] % 32768) * 65536 + words[1]
      value == TwoDigits(Magnitude(pattern) * register.multiplier, Unit)
  IN IF pattern >= Infinite THEN None ELSE IF words[2] >= 32768 THEN -value ELSE value

-----------------------------------------------------------------------------
(* Values *)

Encodable(register, value) ==
  /\ register.datatype = "FLOAT" => FitsFloat32(Abs(value) * Unit, register.multiplier)
  /\ InRange(register.datatype, Scaled(register, value))

EncodeValue(register, value) ==
  CASE register.datatype = "FLOAT" -> EncodeFloat(register, value)
    [] register.datatype = "BOOL" -> <<IF value = 0 THEN 0 ELSE 1>>
    [] register.datatype = "BITFLAG" -> <<MaskInteger(Trunc(value), 256)>>
    [] register.datatype \in {"UCHAR", "INT8"} -> <<MaskInteger(Scaled(register, value), 256)>>
    [] OTHER -> <<MaskInteger(Scaled(register, value), 65536)>>

DecodeValue(register, words) ==
  CASE register.datatype = "FLOAT" -> DecodeFloat(register, words)
    [] register.datatype = "BOOL" -> One * (MaskInteger(words[1], 256) % 2)
    [] register.datatype = "BITFLAG" -> One * MaskInteger(words[1], 256)
    [] register.datatype = "UCHAR" -> Multiplied(register, MaskInteger(words[1], 256))
    [] register.datatype = "INT8" -> Multiplied(register, Signed(words[1], 256))
    [] register.datatype = "INT16" -> Multiplied(register, Signed(words[1], 65536))
    [] OTHER -> Multiplied(register, words[1])
=============================================================================
