------------------------------- MODULE Words -------------------------------
(***************************************************************************)
(* Machine words.  The code computes on uint32_t and int32_t; here a byte  *)
(* has ByteBits bits (8 in the code) and a word is four bytes, so that TLC *)
(* can enumerate whole words when ByteBits is 1 or 2.  A word is a number  *)
(* in 0 .. W-1; ToWord is the truncation every mv_int / mv_uint performs   *)
(* and Signed the int32_t view of the same bits.                           *)
(***************************************************************************)
EXTENDS Integers

CONSTANTS
  ByteBits,       \* bits of a byte: 8 in the code
  BitAnd(_, _)    \* the bitwise "and" of two words

ByteBase == 2 ^ ByteBits
HalfBase == ByteBase * ByteBase
W        == HalfBase * HalfBase
WordBits == 4 * ByteBits

Byte == 0 .. ByteBase - 1
Word == 0 .. W - 1

(***************************************************************************)
(* BitAnd is pinned from the low bit up.  TLAPS has no facts about "^", so *)
(* that powers of two are positive is stated as well; TLC evaluates both.  *)
(***************************************************************************)
ASSUME WordsAssumption ==
  /\ ByteBits \in Nat \ {0}
  /\ ByteBase \in Nat \ {0, 1}
  /\ \A k \in 0 .. WordBits - 1 : 2 ^ k \in Nat \ {0}
  /\ \A a, b \in Word :
       /\ BitAnd(a, b) \in Word
       /\ BitAnd(a, b) = 2 * BitAnd(a \div 2, b \div 2) + (a % 2) * (b % 2)

ToWord(n) == n % W

SignExtend(n, base) == IF 2 * n >= base THEN n - base ELSE n

Signed(w) == SignExtend(w, W)

Truth(b) == IF b THEN 1 ELSE 0

(* Bits expressed through "and": no borrow or carry escapes the word.      *)
BitOr(a, b)  == a + b - BitAnd(a, b)
BitXor(a, b) == a + b - 2 * BitAnd(a, b)
BitNor(a, b) == W - 1 - BitOr(a, b)

Magnitude(n) == IF n < 0 THEN -n ELSE n

(* C's division: the quotient is truncated towards zero.                   *)
Quotient(a, b) ==
  LET q == Magnitude(a) \div Magnitude(b)
  IN  IF (a < 0) = (b < 0) THEN q ELSE -q

Remainder(a, b) == a - b * Quotient(a, b)

(* "n bytes of w from lane k up" is what (w >> 8k) & mask selects, and     *)
(* PutLanes what (w & ~(mask << 8k)) | (v << 8k) leaves behind.            *)
LaneBase(k) ==
  CASE k = 0 -> 1
    [] k = 1 -> ByteBase
    [] k = 2 -> HalfBase
    [] k = 3 -> HalfBase * ByteBase
    [] k = 4 -> W

(* They are powers; stated for TLAPS, as above.                            *)
ASSUME PowersAssumption == \A k \in 0 .. 4 : ByteBase ^ k = LaneBase(k)

GetLanes(w, k, n) == (w \div LaneBase(k)) % LaneBase(n)

(* Mutant of PutLanes: the stored value is not cut to its width.           *)
PutLanesUncut(w, k, n, v) == w - GetLanes(w, k, n) * LaneBase(k) + v * LaneBase(k)

PutLanes(w, k, n, v) ==
  w - GetLanes(w, k, n) * LaneBase(k) + (v % LaneBase(n)) * LaneBase(k)
=============================================================================
