---------------------------- MODULE MiniramBins -----------------------------
(***************************************************************************)
(* The size classes ("bins") of cth::dt::basic_miniram                     *)
(* (cth/incl/cth/data/inl/miniram.inl).  A size is turned into a small     *)
(* floating point number with MantissaBits bits of mantissa, the class it  *)
(* belongs to.  Free blocks are filed under the class below their size,    *)
(* requests are looked up from the class above theirs.                     *)
(***************************************************************************)
EXTENDS Naturals, FiniteSetsExt

CONSTANTS MantissaBits          \* MANTISSA_BITS, 3 in the code

ASSUME MantissaAssumption == MantissaBits \in Nat \ {0}

MantissaValue == 2 ^ MantissaBits

(* highest_bit(): the position of the leading 1 of n > 0. *)
HighestBit(n) == CHOOSE b \in 0 .. n : 2 ^ b <= n /\ n < 2 ^ (b + 1)

(* The mantissa of n, below its leading bit, is n's bits from Shift(n) up. *)
Shift(n) == HighestBit(n) - MantissaBits

(* floor_to_float() *)
FloorToFloat(n) ==
    IF n < MantissaValue THEN n
    ELSE (Shift(n) + 1) * MantissaValue + ((n \div 2 ^ Shift(n)) % MantissaValue)

(* Mutation: every size is rounded up, representable or not. *)
CeilAlwaysUp(n) == IF n < MantissaValue THEN n ELSE FloorToFloat(n) + 1

(* ceil_to_float(): a mantissa that overflows carries into the exponent. *)
CeilToFloat(n) ==
    IF n < MantissaValue THEN n
    ELSE FloorToFloat(n) + (IF n % 2 ^ Shift(n) # 0 THEN 1 ELSE 0)

(* to_uint(): the smallest size of a class. *)
ToUint(b) ==
    IF b < MantissaValue THEN b
    ELSE ((b % MantissaValue) + MantissaValue) * 2 ^ ((b \div MantissaValue) - 1)

(* Classes are kept in two levels: leaves, MantissaValue to a top bin. *)
TopBin(b) == b \div MantissaValue

-----------------------------------------------------------------------------
(* Properties of the size classes.                                         *)

(* The classes around n: ToUint(b) has at least b \div MantissaValue bits,   *)
(* so no other class is near n.                                            *)
ClassesAround(n) ==
    0 .. IF n < MantissaValue THEN MantissaValue
         ELSE (HighestBit(n) + 1) * MantissaValue

(* Reference definitions: the largest class whose smallest size is at most *)
(* n, the smallest class whose smallest size is at least n.                *)
LargestClassBelow(n) == Max({b \in ClassesAround(n) : ToUint(b) <= n})

SmallestClassAbove(n) == Min({b \in ClassesAround(n) : ToUint(b) >= n})
=============================================================================
