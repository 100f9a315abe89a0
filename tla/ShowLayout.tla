----------------------------- MODULE ShowLayout -----------------------------
(***************************************************************************)
(* The grid of the device window (CustomWidgets/showlayout).  ranges is a  *)
(* table of brackets, currentRange the one the number of devices is taken  *)
(* to be in; every change of the number moves it by one entry of the table *)
(* at most, and a way down takes two steps per entry, the first of which   *)
(* leaves an empty bracket.  The layouts of the table are never read: the  *)
(* ends of the bracket are used as columns and rows.                       *)
(*                                                                         *)
(* Beyond the last entry adjustLayout reads the key of end(); Largest, the *)
(* bound of the number of devices, is not beyond it.                       *)
(***************************************************************************)
EXTENDS Integers, FiniteSets, FiniteSetsExt

CONSTANTS Keys,      \* keys of ranges
          Largest,   \* bound: devices
          Start,     \* the number before there is any
          Columns    \* columns and rows of the first grid

ASSUME KeysAssumption == Keys \subseteq Nat \ {0} /\ IsFiniteSet(Keys) /\ Keys # {}
ASSUME LargestAssumption == Largest \in Nat /\ \E k \in Keys : Largest <= k
ASSUME FirstAssumption == 1 \in Keys   \* currentRange begins with it
ASSUME ColumnsAssumption == Columns \in Nat \ {0}

VARIABLES
  total,     \* the number of devices
  min, max,  \* currentRange
  grid       \* columns and rows of showSrc

gridVars == <<total, min, max, grid>>

GridInit ==
  /\ total = Start /\ min = 0 /\ max = 1
  /\ grid = [cols |-> Columns, rows |-> Columns]

-----------------------------------------------------------------------------
First == Min(Keys)
NextKey(k) == Min({n \in Keys : n > k})
PrevKey(k) == Max({n \in Keys : n < k})

\* What-if: the first entry is not gone back to.
MayShrinkShort(n) == n <= min /\ max # First /\ PrevKey(max) # First

\* adjustLayout, with the new number n.
MayShrink(n) == n <= min /\ max # First
MayGrow(n) == n > min /\ n > max

Moves(lo, hi) == min' = lo /\ max' = hi /\ grid' = [cols |-> lo, rows |-> hi]

adjustLayout(n) ==
  \/ MayShrink(n) /\ Moves(PrevKey(max), min)
  \/ MayGrow(n) /\ Moves(max, NextKey(max))
  \/ ~MayShrink(n) /\ ~MayGrow(n) /\ UNCHANGED <<min, max, grid>>

updateTotal(n) ==
  /\ n # total /\ total' = n
  /\ adjustLayout(n)

GridNext == \E n \in 0 .. Largest : updateTotal(n)

GridSpec == GridInit /\ [][GridNext]_gridVars

-----------------------------------------------------------------------------
\* Properties

InBracket(k) == total <= k /\ \A n \in Keys : n < k => total > n

(* As long as the number of devices stays in one bracket and goes on to     *)
(* change, however it came there, the layout gets to that bracket, with a  *)
(* cell for every device, and stays.                                       *)
GridSettles ==
  \A k \in Keys :
    <>[]InBracket(k) /\ []<><<TRUE>>_total =>
      <>[](max = k /\ (min < total \/ k = First) /\ total <= grid.cols * grid.rows)
=============================================================================
