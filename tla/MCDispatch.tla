---------------------------- MODULE MCDispatch ----------------------------
(* Dispatch with small limits: a cap on a short window and one on a long   *)
(* one, as the campaign's day and week.                                    *)
EXTENDS Dispatch, TLC

SmallLimits == {[span |-> 0, cap |-> 1], [span |-> 2, cap |-> 2]}

NoneLeft == {NoTime}

Interchangeable == Permutations(Workers) \cup Permutations(Buyers)
===========================================================================
