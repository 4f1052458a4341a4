-------------------------------- MODULE Api --------------------------------
(***************************************************************************)
(* What clients of the API see while trades are being committed: a listing *)
(* of trades, a summary of them, a benchmark. None of the three changes    *)
(* what the others read, so one of them at a time is enough, and the       *)
(* benchmark, which reads no trades, is followed on an empty table.        *)
(***************************************************************************)
EXTENDS Trading, Benchmark

vars == <<trades, reader, benchmark>>

\* What the two parts keep has its shape: pages only ever show committed trades,
\* every line is counted once at the most, and no collector outgrows its bound.
TypeOK == TradingTypeOK /\ BenchmarkTypeOK

Init == TradingInit /\ BenchmarkInit

Next == \/ TradingNext /\ phase = "idle" /\ UNCHANGED benchmark
        \/ BenchmarkNext /\ trades = {} /\ reading = "none" /\ UNCHANGED <<trades, reader>>

Spec == Init /\ [][Next]_vars
=============================================================================
