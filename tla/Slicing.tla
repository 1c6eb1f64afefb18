------------------------------- MODULE Slicing -------------------------------
(***************************************************************************)
(* The arithmetic of one bisection round: PartitionInstantiator.slice, the *)
(* function that places querySize points in an interval of machine cycles. *)
(* A queryArray is a function with domain 0..querySize-1, as in Solidity.  *)
(***************************************************************************)
EXTENDS Integers

\* Mutants of Slice: its last assignment is missing; its loop runs once too often.
SliceNoLastPoint(querySize, leftPoint, rightPoint) ==
  LET last == querySize - 1
      divisionLength == (rightPoint - leftPoint) \div last
  IN  [i \in 0..last |-> leftPoint + i * divisionLength]

SliceOnePointMore(querySize, leftPoint, rightPoint) ==
  LET last == querySize - 1
      divisionLength == (rightPoint - leftPoint) \div last
  IN  [i \in 0..querySize |-> IF i >= last THEN rightPoint ELSE leftPoint + i * divisionLength]

-----------------------------------------------------------------------------
\* The distance between two separators when the interval has room for jumps
\* longer than one cycle.
DivisionLength(querySize, leftPoint, rightPoint) ==
  (rightPoint - leftPoint) \div (querySize - 1)

\* The queryArray that slice writes. Short intervals are walked cycle by cycle
\* and padded with rightPoint; long ones are cut in equal pieces, the last piece
\* taking the remainder of the division.
Slice(querySize, leftPoint, rightPoint) ==
  LET last == querySize - 1
      Short(i) == IF leftPoint + i < rightPoint THEN leftPoint + i ELSE rightPoint
      Long(i)  == leftPoint + i * DivisionLength(querySize, leftPoint, rightPoint)
      Separator(i) == IF rightPoint - leftPoint < 2 * last THEN Short(i) ELSE Long(i)
  IN  [i \in 0..last |-> IF i = last THEN rightPoint ELSE Separator(i)]

-----------------------------------------------------------------------------
\* s cuts the interval from l to r in q - 1 pieces: the end points are kept ("leftPoint
\* rightPoint are always the first and last points in queryArray"), and the
\* separators never go back or leave the interval.
OrderedCut(s, q, l, r) ==
  /\ s \in [0..(q - 1) -> l..r]
  /\ s[0] = l
  /\ s[q - 1] = r
  /\ \A i \in 0..(q - 2) : s[i] <= s[i + 1]

\* No piece of an interval longer than one cycle is the whole interval.
ShorterPieces(s, q, l, r) ==
  r - l > 1 => \A i \in 0..(q - 2) : s[i + 1] - s[i] < r - l
=============================================================================
