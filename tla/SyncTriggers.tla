---------------------------- MODULE SyncTriggers ----------------------------
(***************************************************************************)
(* Xext/sync/sync.c: the tests of the SYNC extension and its arithmetic.   *)
(* Int64 is any range of a two's complement width; a result that does not  *)
(* fit wraps around.                                                       *)
(***************************************************************************)
EXTENDS Integers

CONSTANTS MinInt, MaxInt    \* LLONG_MIN and LLONG_MAX

ASSUME IntAssumption == /\ MinInt \in Int /\ MaxInt \in Int
                        /\ MinInt = -MaxInt - 1 /\ MaxInt > 0

Int64 == MinInt..MaxInt

Wrap(x) == ((x - MinInt) % (MaxInt - MinInt + 1)) + MinInt

\* checked_int64_add: the sum overflows if the operands have the same sign
\* and the result has not.
Overflows(a, b) == (a < 0) = (b < 0) /\ (a < 0) # (Wrap(a + b) < 0)

PositiveTests == {"PositiveTransition", "PositiveComparison"}
NegativeTests == {"NegativeTransition", "NegativeComparison"}
Comparisons == {"PositiveComparison", "NegativeComparison"}
Tests == PositiveTests \cup NegativeTests

\* (*pTrigger->CheckTrigger)(pTrigger, old), when the object has the value
\* new; the value of a fence is 1 if it is triggered and 0 otherwise.
CheckTrigger(t, old, new) ==
    CASE t.check = "PositiveComparison" -> new >= t.test
      [] t.check = "NegativeComparison" -> new <= t.test
      [] t.check = "PositiveTransition" -> old < t.test /\ new >= t.test
      [] t.check = "NegativeTransition" -> old > t.test /\ new <= t.test
      [] t.check = "Fence" -> new = 1
=============================================================================
