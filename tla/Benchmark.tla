----------------------------- MODULE Benchmark -----------------------------
(***************************************************************************)
(* The measurement of tick-to-signal latency: the collector of each API    *)
(* process, the replay request that fills it, and scripts/benchmark.py,    *)
(* which posts a replay, asks for the statistics and passes judgement on   *)
(* the 99th percentile.                                                    *)
(*                                                                         *)
(* The API runs as several processes with a collector each, and any of     *)
(* them may serve a request. Between benchmarks the collectors are not     *)
(* followed: a benchmark begins with whatever they hold.                   *)
(***************************************************************************)
EXTENDS Integers, Sequences, FiniteSets

CONSTANTS
  Processes,   \* the workers of the API server
  Latencies,   \* the milliseconds a tick may take
  MaxSamples,  \* _MAX_SAMPLES
  File,        \* the lines of the replay file: "tick", "refused" or "blank"
  Strays       \* bound: live ticks and resets during a benchmark

ASSUME BenchmarkAssumption ==
  /\ Latencies \subseteq Nat
  /\ MaxSamples \in Nat \ {0}
  /\ File \in Seq({"tick", "refused", "blank"})
  /\ Strays \in Nat

VARIABLES
  samples,    \* the collector of each process
  phase,      \* what the benchmark waits for
  host,       \* the process its replay runs in
  line,       \* the line the replay is at
  processed,  \* ticks_processed
  errors,     \* errors
  reply,      \* sla_met in the replay's own answer
  verdict,    \* sla_met as the script sees it
  stray,      \* what is left of the bound
  slow,       \* history: ticks of the replay that took longer than the target
  unspoilt    \* history: its samples are all in the host's collector

counts == <<line, processed, errors>>
verdicts == <<reply, verdict>>
benchmark == <<samples, phase, host, counts, verdicts, stray, slow, unspoilt>>

Collectors == UNION {[1 .. n -> Latencies] : n \in 0 .. MaxSamples}

BenchmarkTypeOK ==
  /\ samples \in [Processes -> Seq(Latencies)]
  /\ \A p \in Processes : Len(samples[p]) <= MaxSamples
  /\ phase \in {"idle", "replay", "get", "judged"}
  /\ host \in Processes
  /\ line \in 1 .. Len(File) + 1
  /\ processed + errors <= line - 1 /\ {processed, errors} \subseteq Nat
  /\ {reply, verdict, unspoilt} \subseteq BOOLEAN
  /\ stray \in 0 .. Strays
  /\ slow \in 0 .. processed

NoCollectors == [p \in Processes |-> <<>>]
NoCounts == line = 1 /\ processed = 0 /\ errors = 0 /\ slow = 0

BenchmarkInit ==
  /\ samples = NoCollectors
  /\ phase = "idle" /\ host \in Processes
  /\ NoCounts
  /\ reply = FALSE /\ verdict = FALSE /\ stray = Strays /\ unspoilt = TRUE

-----------------------------------------------------------------------------
(* LatencyCollector *)

Target == 50   \* milliseconds

Full(p) == Len(samples[p]) = MaxSamples

\* faulty variant: a deque without maxlen
RecordUnbounded(p, ms) == samples' = [samples EXCEPT ![p] = Append(@, ms)]

\* deque(maxlen): the oldest sample makes room
Record(p, ms) ==
  samples' = [samples EXCEPT ![p] = Append(IF Full(p) THEN Tail(@) ELSE @, ms)]

\* The k-th smallest sample
Ranked(s, k) ==
  CHOOSE ms \in {s[i] : i \in DOMAIN s} :
    /\ Cardinality({i \in DOMAIN s : s[i] < ms}) < k
    /\ k <= Cardinality({i \in DOMAIN s : s[i] <= ms})

\* numpy.percentile, in hundredths: linear between the two nearest ranks
Percentile(s, pct) ==
  LET at == pct * (Len(s) - 1)
      lo == at \div 100 + 1
      up == IF lo < Len(s) THEN lo + 1 ELSE lo
  IN  100 * Ranked(s, lo) + (at % 100) * (Ranked(s, up) - Ranked(s, lo))

\* No samples, no breach
SlaMet(s) == s = <<>> \/ Percentile(s, 99) <= 100 * Target

-----------------------------------------------------------------------------
(* The replay request and the script *)

\* POST /debug/replay?reset_metrics=true, to a process of the server's choice
Post(p) ==
  /\ phase = "idle"
  /\ \E earlier \in [Processes \ {p} -> Collectors] :
       samples' = [q \in Processes |-> IF q = p THEN <<>> ELSE earlier[q]]
  /\ phase' = "replay" /\ host' = p
  /\ UNCHANGED <<counts, verdicts, stray, slow, unspoilt>>

NextLine == line' = line + 1
Fed(what) == phase = "replay" /\ line <= Len(File) /\ File[line] = what

SkipBlank ==
  /\ Fed("blank")
  /\ NextLine
  /\ UNCHANGED <<samples, phase, host, processed, errors, verdicts, stray, slow, unspoilt>>

\* no JSON, a field missing, a price that is not positive and finite, a time
\* more than five minutes ahead: the line never reaches the pipeline
Refuse ==
  /\ Fed("refused")
  /\ NextLine /\ errors' = errors + 1
  /\ UNCHANGED <<samples, phase, host, processed, verdicts, stray, slow, unspoilt>>

OneIf(b) == IF b THEN 1 ELSE 0

\* faulty variant: a tick the pipeline drops is not recorded
FeedRecordingSuccess(ms) ==
  /\ Fed("tick")
  /\ Record(host, ms) \/ UNCHANGED samples
  /\ NextLine /\ processed' = processed + 1
  /\ slow' = slow + OneIf(ms > Target)
  /\ UNCHANGED <<phase, host, errors, verdicts, stray, unspoilt>>

\* ingest_tick records every tick and returns for every tick: one that is dropped
\* because a call to Redis raised is measured and counts as processed
Feed(ms) ==
  /\ Fed("tick")
  /\ Record(host, ms)
  /\ NextLine /\ processed' = processed + 1
  /\ slow' = slow + OneIf(ms > Target)
  /\ unspoilt' = (unspoilt /\ ~Full(host))
  /\ UNCHANGED <<phase, host, errors, verdicts, stray>>

Answer ==
  /\ phase = "replay" /\ line = Len(File) + 1
  /\ reply' = SlaMet(samples[host])
  /\ phase' = "get"
  /\ UNCHANGED <<samples, host, counts, verdict, stray, slow, unspoilt>>

\* GET /metrics/latency, answered by any process; the script compares p99 itself
Get(p) ==
  /\ phase = "get"
  /\ verdict' = SlaMet(samples[p])
  /\ unspoilt' = (unspoilt /\ p = host)
  /\ phase' = "judged"
  /\ UNCHANGED <<samples, host, counts, reply, stray, slow>>

\* ... or the request fails, and what the replay answered has to do
GetFails ==
  /\ phase = "get"
  /\ verdict' = reply
  /\ phase' = "judged"
  /\ UNCHANGED <<samples, host, counts, reply, stray, slow, unspoilt>>

\* with a verdict, or without one when the replay takes longer than the script waits
Exit ==
  /\ phase \in {"replay", "judged"}
  /\ phase' = "idle" /\ samples' = NoCollectors
  /\ line' = 1 /\ processed' = 0 /\ errors' = 0 /\ slow' = 0
  /\ reply' = FALSE /\ verdict' = FALSE /\ stray' = Strays /\ unspoilt' = TRUE
  /\ UNCHANGED host

Astray == phase \in {"replay", "get"} /\ stray > 0 /\ stray' = stray - 1

\* The feed consumer of a process, or another replay there
LiveTick(p, ms) ==
  /\ Astray
  /\ Record(p, ms)
  /\ unspoilt' = (unspoilt /\ ~(p = host /\ Full(p)))
  /\ UNCHANGED <<phase, host, counts, verdicts, slow>>

\* POST /metrics/reset by another client, or its replay
Reset(p) ==
  /\ Astray
  /\ samples' = [samples EXCEPT ![p] = <<>>]
  /\ unspoilt' = (unspoilt /\ p # host)
  /\ UNCHANGED <<phase, host, counts, verdicts, slow>>

BenchmarkNext ==
  \/ SkipBlank \/ Refuse \/ Answer \/ GetFails \/ Exit
  \/ \E ms \in Latencies : Feed(ms)
  \/ \E p \in Processes : Post(p) \/ Get(p) \/ Reset(p)
                          \/ \E ms \in Latencies : LiveTick(p, ms)

-----------------------------------------------------------------------------
(* Properties *)

\* A passed benchmark had at most one slow tick in a hundred, and one that failed
\* had a slow sample: this much holds of the script's verdict if the statistics
\* come from the process that served its replay, and nothing reset or overran the
\* collector in between. Live ticks, dropped ticks, refused lines and a failing
\* request for the statistics do not matter (replay, LatencyCollector.stats,
\* run_benchmark).
VerdictIsEarned ==
  phase = "judged" /\ unspoilt =>
    IF verdict THEN slow <= (Len(samples[host]) + 98) \div 100
               ELSE \E i \in DOMAIN samples[host] : samples[host][i] > Target
=============================================================================
