------------------------------- MODULE MCApi -------------------------------
(* Five signals: two have the same time, and their prices lie at, and a paisa  *)
(* beside, midpoints above an even and above an odd multiple of the interval.  *)
EXTENDS Api

Signal(at, price, side) == [ts |-> at, price |-> price, side |-> side]

FiveSignals == {Signal(1, 2242500, "LONG"), Signal(2, 2242499, "SHORT"),
                Signal(2, 2247500, "SHORT"), Signal(3, 2247501, "LONG"),
                Signal(4, 2245000, "LONG")}

Lines == <<"tick", "refused", "tick", "blank", "tick">>
=============================================================================
