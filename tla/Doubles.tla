------------------------------ MODULE Doubles -------------------------------
(***************************************************************************)
(* Number(ts_ns): a time in nanoseconds is an integer of 64 bits.  In a    *)
(* page it becomes the nearest double, the even one of two.                *)
(***************************************************************************)
EXTENDS Integers

CONSTANT Spacing    \* of the doubles near a ts_ns of today (256)

ASSUME SpacingAssumption == Spacing \in Nat \ {0}

Number(ts) ==
  LET q == ts \div Spacing
      r == 2 * (ts % Spacing)
  IN  Spacing * (IF r < Spacing THEN q ELSE IF r > Spacing THEN q + 1 ELSE q + (q % 2))
=============================================================================
