---------------------------- MODULE MCIngestion ----------------------------
(* Small instances of Ingestion: the window is two ticks of the clock. *)
EXTENDS Ingestion

CONSTANTS l1, l2

TwoTicks  == {l1, l2}

\* five per cent up from 100 is a spike
Up        == {100, 105}

NoFile    == << >>
\* the lines of a session recorded earlier, with a spike within the window
SpikeFile == << [ts |-> 0, ltp |-> 100], [ts |-> 1, ltp |-> 105], [ts |-> 3, ltp |-> 105] >>
=============================================================================
