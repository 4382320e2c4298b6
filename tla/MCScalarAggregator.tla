------------------------- MODULE MCScalarAggregator -------------------------
(***************************************************************************)
(* Three rules on two outputs for TLC.  Flows, in half seconds: short and  *)
(* long, early and late ones, some at the border of a window, and gaps     *)
(* that roll the databases on or initialise them again.                    *)
(***************************************************************************)
EXTENDS ScalarAggregator

MCRules ==
  <<[out |-> 1, uniq |-> FALSE], [out |-> 1, uniq |-> TRUE],
    [out |-> 2, uniq |-> FALSE]>>

Flow(first, last, rate, key) ==
  [first |-> first, last |-> last,
   value |-> rate * (IF first = last THEN 1 ELSE last - first), key |-> key]

MCInputs ==
  {Flow(8, 10, 1, "x"), Flow(10, 14, 2, "y"), Flow(12, 18, 1, "x"),
   Flow(24, 26, 1, "y"), Flow(16, 18, 1, "y"), Flow(8, 34, 1, "x"),
   Flow(36, 38, 1, "x"), Flow(36, 56, 1, "y"), Flow(12, 12, 3, "x")}
=============================================================================
