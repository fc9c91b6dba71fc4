------------------------- MODULE MCStandardInverse -------------------------
(* StandardInverse with an inverse curve for the trip time. *)
EXTENDS StandardInverse

InverseCurve(average) == IF average = 0 THEN MaxTime ELSE 6 \div average
=============================================================================
