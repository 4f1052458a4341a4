----------------------- MODULE CircuitBreakerProofs -----------------------
(***************************************************************************)
(* What one CircuitBreaker guarantees, for every threshold, reset period   *)
(* and set of threads: its type under every interleaving of statements,    *)
(* and, as long as no two methods overlap, that it trips in time and       *)
(* spaces its probes, in whatever order late answers come.                 *)
(***************************************************************************)
EXTENDS CircuitBreaker, TLAPS

Locations == Reading \cup Waiting \cup Recording

LEMMA ReadingStep ==
  ASSUME TypeOK, NEW t \in Threads, Read(t) \/ State(t) \/ Answer(t)
  PROVE  TypeOK'
<1> USE BreakerAssumption DEF TypeOK, Breakers, Reading, Waiting, Recording, Goes, Overlaps, Alone
<1>1. CASE Read(t)
  BY <1>1 DEF Read
<1>2. CASE Elapsed(t)
  BY <1>2 DEF Elapsed
<1>3. CASE Halve(t)
  BY <1>3 DEF Halve
<1>4. CASE Refuse(t)
  BY <1>4 DEF Refuse
<1>5. CASE Send(t)
  <2>1. t \notin Watchers
    BY <1>5, ThreadsAssumption DEF Send
  <2>2. QED
    BY <1>5, <2>1 DEF Send
<1>6. CASE Accepted(t)
  <2>1. t \notin Watchers
    BY <1>6 DEF Accepted
  <2>2. CASE Goes(t, "sent", "reset")
    BY <1>6, <2>1, <2>2 DEF Accepted
  <2>3. CASE Goes(t, "hurt", "reset")
    BY <1>6, <2>1, <2>3 DEF Accepted
  <2>4. QED
    BY <1>6, <2>2, <2>3 DEF Accepted
<1>7. CASE NotAccepted(t)
  <2>1. t \notin Watchers
    BY <1>7 DEF NotAccepted
  <2>2. QED
    BY <1>7, <2>1 DEF NotAccepted
<1>8. QED
  BY <1>1, <1>2, <1>3, <1>4, <1>5, <1>6, <1>7 DEF State, Answer

LEMMA RecordingStep ==
  ASSUME TypeOK, NEW t \in Threads, Success(t) \/ Failure(t)
  PROVE  TypeOK'
<1> USE BreakerAssumption DEF TypeOK, Breakers, Reading, Waiting, Recording, Goes, Overlaps, Alone
<1>0. t \notin Watchers
  BY DEF Success, Failure, Reset, Close, Count, Store, Test, Compare, Trip, Stamp
<1>1. CASE Reset(t)
  BY <1>0, <1>1 DEF Reset
<1>2. CASE Close(t)
  BY <1>0, <1>2 DEF Close
<1>3. CASE Count(t)
  BY <1>0, <1>3 DEF Count
<1>4. CASE Store(t)
  BY <1>0, <1>4 DEF Store
<1>5. CASE Test(t)
  BY <1>0, <1>5 DEF Test
<1>6. CASE Compare(t)
  BY <1>0, <1>6 DEF Compare
<1>7. CASE Trip(t)
  BY <1>0, <1>7 DEF Trip
<1>8. CASE Stamp(t)
  BY <1>0, <1>8 DEF Stamp
<1>9. QED
  BY <1>1, <1>2, <1>3, <1>4, <1>5, <1>6, <1>7, <1>8 DEF Success, Failure

LEMMA TypeStep == TypeOK /\ [Next]_vars => TypeOK'
<1> SUFFICES ASSUME TypeOK, [Next]_vars PROVE TypeOK'
  OBVIOUS
<1>1. ASSUME NEW t \in Threads, Read(t) \/ State(t) \/ Answer(t) PROVE TypeOK'
  BY <1>1, ReadingStep
<1>2. ASSUME NEW t \in Threads, Success(t) \/ Failure(t) PROVE TypeOK'
  BY <1>2, RecordingStep
<1>3. CASE Tick
  BY <1>3, BreakerAssumption DEF Tick, TypeOK, Breakers, Older, Later
<1>4. CASE EndpointTurns
  <2>1. pc' \in [Threads -> Locations]
    BY <1>4 DEF EndpointTurns, TypeOK, Locations, Waiting
  <2>2. \A t \in Watchers : pc'[t] \in Reading
    BY <1>4 DEF EndpointTurns, TypeOK, Reading, Threads
  <2>3. QED
    BY <1>4, <2>1, <2>2 DEF EndpointTurns, TypeOK, Locations
<1>5. CASE UNCHANGED vars
  BY <1>5 DEF vars, TypeOK
<1>6. QED
  BY <1>1, <1>2, <1>3, <1>4, <1>5 DEF Next

LEMMA InitType == Init => TypeOK
<1> SUFFICES ASSUME Init PROVE TypeOK
  OBVIOUS
<1>1. breaker \in Breakers /\ sinceCall \in 0 .. ResetAfter
  BY BreakerAssumption DEF Init, NewBreaker, Breakers
<1>2. pc \in [Threads -> Reading]
  BY DEF Init, Reading
<1>3. copy \in [Threads -> 0 .. Threshold]
  BY BreakerAssumption DEF Init
<1>4. \A t \in Watchers : pc[t] \in Reading
  BY <1>2 DEF Threads
<1>5. QED
  BY <1>1, <1>2, <1>3, <1>4 DEF Init, TypeOK

\* The breaker object keeps its type, however the statements of its threads
\* interleave.
THEOREM BreakerTypeCorrect == Spec => []TypeOK
  BY InitType, TypeStep, PTL DEF Spec

-----------------------------------------------------------------------------
(* One thread inside a method at a time *)

InStep == breaker.state = "closed" <=> breaker.failures < Threshold

\* What the only thread inside a method finds before each of its statements
Finds(t) ==
  /\ pc[t] = "elapsed" => InStep /\ breaker.state = "open"
  /\ pc[t] = "halve" => InStep /\ breaker.state = "open" /\ breaker.since = ResetAfter
  /\ pc[t] = "return" => InStep
  /\ pc[t] = "close" => breaker.failures = 0
  /\ pc[t] = "store" => InStep /\ copy[t] = breaker.failures
  /\ pc[t] = "test" => (breaker.state # "closed" => breaker.failures = Threshold)
  /\ pc[t] = "compare" => /\ breaker.state # "half_open"
                          /\ breaker.state = "open" => breaker.failures = Threshold
  /\ pc[t] = "trip" => breaker.failures = Threshold
  /\ pc[t] = "stamp" => breaker.failures = Threshold /\ breaker.state = "open"

Serial ==
  /\ \A t, u \in Threads : Inside(t) /\ Inside(u) => t = u
  /\ \A t \in Threads : Finds(t)
  /\ AtRest => InStep

Orderly == ~raced => Serial

\* A step of the only thread inside need only be looked at where it is
LEMMA OneInside ==
  ASSUME TypeOK, NEW t \in Threads, NEW from, NEW to, Goes(t, from, to), Alone(t),
         Finds(t)', Inside(t)' \/ InStep'
  PROVE  Serial'
<1>1. \A u \in Threads : u # t => pc'[u] = pc[u] /\ ~Inside(u)
  BY DEF TypeOK, Goes, Alone
<1>2. \A u \in Threads : u # t => ~Inside(u)'
  BY <1>1 DEF Inside
<1>3. \A u \in Threads : Finds(u)'
  BY <1>2 DEF Inside, Finds
<1>4. QED
  BY <1>2, <1>3 DEF Serial, AtRest

LEMMA ReadsAreOrderly ==
  ASSUME TypeOK, Orderly, NEW t \in Threads, Read(t) \/ State(t), ~raced'
  PROVE  Serial'
<1>1. Serial /\ Alone(t)
  BY DEF Orderly, Overlaps, Read, State, Elapsed, Halve, Refuse, Send
<1>2. Finds(t)
  BY <1>1 DEF Serial
<1>3. ~Inside(t) => InStep
  BY <1>1 DEF Serial, AtRest, Alone
<1>4. /\ t \in DOMAIN pc
      /\ breaker.since \in 0 .. ResetAfter /\ ResetAfter \in Nat
  BY BreakerAssumption DEF TypeOK, Breakers
<1>5. CASE Read(t)
  <2>1. Finds(t)' /\ Inside(t)'
    BY <1>3, <1>4, <1>5 DEF Read, Goes, Finds, Inside, InStep
  <2>2. QED
    BY <1>1, <1>5, <2>1, OneInside DEF Read
<1>6. CASE Elapsed(t)
  <2>1. Finds(t)' /\ Inside(t)'
    BY <1>2, <1>4, <1>6 DEF Elapsed, Goes, Finds, Inside, InStep
  <2>2. QED
    BY <1>1, <1>6, <2>1, OneInside DEF Elapsed
<1>7. CASE Halve(t)
  <2>1. Finds(t)' /\ Inside(t)'
    BY <1>2, <1>4, <1>7 DEF Halve, Goes, Finds, Inside, InStep, TypeOK, Breakers
  <2>2. QED
    BY <1>1, <1>7, <2>1, OneInside DEF Halve
<1>8. CASE Refuse(t)
  <2>1. Finds(t)' /\ InStep'
    BY <1>2, <1>4, <1>8 DEF Refuse, Goes, Finds, InStep
  <2>2. QED
    BY <1>1, <1>8, <2>1, OneInside DEF Refuse
<1>9. CASE Send(t)
  <2>1. Finds(t)' /\ InStep'
    BY <1>2, <1>4, <1>9 DEF Send, Goes, Finds, InStep
  <2>2. QED
    BY <1>1, <1>9, <2>1, OneInside DEF Send
<1>10. QED
  BY <1>5, <1>6, <1>7, <1>8, <1>9 DEF State

LEMMA SuccessesAreOrderly ==
  ASSUME TypeOK, Orderly, NEW t \in Threads, Success(t), ~raced'
  PROVE  Serial'
<1>1. /\ t \in DOMAIN pc /\ Threshold \in Nat \ {0}
      /\ breaker \in Breakers
  BY BreakerAssumption DEF TypeOK
<1>2. CASE Reset(t)
  <2>1. Finds(t)' /\ Inside(t)'
    BY <1>1, <1>2 DEF Reset, Goes, Finds, Inside, Breakers
  <2>2. Alone(t)
    BY <1>2 DEF Reset
  <2>3. QED
    BY <1>2, <2>1, <2>2, OneInside DEF Reset
<1>3. CASE Close(t)
  <2>1. Finds(t) /\ Alone(t)
    BY <1>3 DEF Close, Overlaps, Orderly, Serial
  <2>2. Finds(t)' /\ InStep'
    BY <1>1, <1>3, <2>1 DEF Close, Goes, Finds, InStep, Breakers
  <2>3. QED
    BY <1>3, <2>1, <2>2, OneInside DEF Close
<1>4. QED
  BY <1>2, <1>3 DEF Success

LEMMA FailuresAreOrderly ==
  ASSUME TypeOK, Orderly, NEW t \in Threads, Failure(t), ~raced'
  PROVE  Serial'
<1>1. Serial /\ Alone(t)
  BY DEF Orderly, Overlaps, Failure, Count, Store, Test, Compare, Trip, Stamp
<1>2. Finds(t)
  BY <1>1 DEF Serial
<1>3. ~Inside(t) => InStep
  BY <1>1 DEF Serial, AtRest, Alone
<1>4. /\ t \in DOMAIN pc /\ t \in DOMAIN copy
      /\ Threshold \in Nat \ {0}
      /\ breaker \in Breakers
      /\ breaker.failures \in 0 .. Threshold
      /\ breaker.state \in {"closed", "open", "half_open"}
  BY BreakerAssumption DEF TypeOK, Breakers
<1>5. CASE Count(t)
  <2>1. Finds(t)' /\ Inside(t)'
    BY <1>3, <1>4, <1>5 DEF Count, Goes, Finds, Inside, InStep
  <2>2. QED
    BY <1>1, <1>5, <2>1, OneInside DEF Count
<1>6. CASE Store(t)
  <2>1. /\ breaker'.state = breaker.state
        /\ breaker'.failures = IF copy[t] < Threshold THEN copy[t] + 1 ELSE copy[t]
        /\ pc'[t] = "test"
    BY <1>4, <1>6 DEF Store, Goes, Breakers
  <2>2. Finds(t)' /\ Inside(t)'
    BY <1>2, <1>4, <1>6, <2>1 DEF Store, Goes, Finds, Inside, InStep
  <2>3. QED
    BY <1>1, <1>6, <2>2, OneInside DEF Store
<1>7. CASE Test(t)
  <2>1. Finds(t)' /\ Inside(t)'
    BY <1>2, <1>4, <1>7 DEF Test, Goes, Finds, Inside, InStep
  <2>2. QED
    BY <1>1, <1>7, <2>1, OneInside DEF Test
<1>8. CASE Compare(t)
  <2>1. Finds(t)' /\ (Inside(t)' \/ InStep')
    BY <1>2, <1>4, <1>8 DEF Compare, Goes, Finds, Inside, InStep
  <2>2. QED
    BY <1>1, <1>8, <2>1, OneInside DEF Compare
<1>9. CASE Trip(t)
  <2>1. Finds(t)' /\ Inside(t)'
    BY <1>2, <1>4, <1>9 DEF Trip, Goes, Finds, Inside, Breakers
  <2>2. QED
    BY <1>1, <1>9, <2>1, OneInside DEF Trip
<1>10. CASE Stamp(t)
  <2>1. Finds(t)' /\ InStep'
    BY <1>2, <1>4, <1>10 DEF Stamp, Goes, Finds, InStep, Breakers
  <2>2. QED
    BY <1>1, <1>10, <2>1, OneInside DEF Stamp
<1>11. QED
  BY <1>5, <1>6, <1>7, <1>8, <1>9, <1>10 DEF Failure

\* A step that leaves every thread inside or outside and the count alone
LEMMA NobodyInside ==
  ASSUME TypeOK, Serial,
         \A t \in Threads : pc'[t] = pc[t] \/ (~Inside(t) /\ ~Inside(t)'),
         copy' = copy, breaker'.state = breaker.state, breaker'.failures = breaker.failures,
         breaker.since = ResetAfter => breaker'.since = ResetAfter
  PROVE  Serial'
<1>1. \A t \in Threads : Inside(t)' <=> Inside(t)
  BY DEF Inside
<1>2. \A t \in Threads : Finds(t)'
  <2> TAKE t \in Threads
  <2>1. CASE pc'[t] = pc[t]
    BY <2>1 DEF Serial, Finds, InStep
  <2>2. CASE ~Inside(t)'
    BY <2>2 DEF Finds, Inside
  <2>3. QED
    BY <2>1, <2>2
<1>3. AtRest' => InStep'
  BY <1>1 DEF Serial, AtRest, InStep
<1>4. QED
  BY <1>1, <1>2, <1>3 DEF Serial

LEMMA OrderlyStep == TypeOK /\ Orderly /\ [Next]_vars => Orderly'
<1> SUFFICES ASSUME TypeOK, Orderly, [Next]_vars, ~raced' PROVE Serial'
  BY DEF Orderly
<1>1. ASSUME NEW t \in Threads, Read(t) \/ State(t) PROVE Serial'
  BY <1>1, ReadsAreOrderly
<1>2. ASSUME NEW t \in Threads, Success(t) PROVE Serial'
  BY <1>2, SuccessesAreOrderly
<1>3. ASSUME NEW t \in Threads, Failure(t) PROVE Serial'
  BY <1>3, FailuresAreOrderly
<1>4. ASSUME NEW t \in Threads, Answer(t) PROVE Serial'
  <2>1. Serial /\ UNCHANGED <<breaker, copy>>
    BY <1>4 DEF Orderly, Answer, Accepted, NotAccepted
  <2>2. \A u \in Threads : pc'[u] = pc[u] \/ (~Inside(u) /\ ~Inside(u)')
    BY <1>4 DEF Answer, Accepted, NotAccepted, Goes, TypeOK, Inside
  <2>3. QED
    BY <2>1, <2>2, NobodyInside
<1>5. CASE Tick
  <2>1. Serial
    BY <1>5 DEF Orderly, Tick
  <2>2. /\ breaker'.state = breaker.state /\ breaker'.failures = breaker.failures
        /\ breaker.since = ResetAfter => breaker'.since = ResetAfter
    BY <1>5, BreakerAssumption DEF Tick, Older, Later, TypeOK, Breakers
  <2>3. QED
    BY <1>5, <2>1, <2>2, NobodyInside DEF Tick
<1>6. CASE EndpointTurns
  <2>1. Serial
    BY <1>6 DEF Orderly, EndpointTurns
  <2>2. \A u \in Threads : pc'[u] = pc[u] \/ (~Inside(u) /\ ~Inside(u)')
    BY <1>6 DEF EndpointTurns, TypeOK, Inside
  <2>3. QED
    BY <1>6, <2>1, <2>2, NobodyInside DEF EndpointTurns
<1>7. CASE UNCHANGED vars
  BY <1>7, NobodyInside DEF vars, Orderly
<1>8. QED
  BY <1>1, <1>2, <1>3, <1>4, <1>5, <1>6, <1>7 DEF Next

LEMMA InitOrderly == Init => Orderly
  BY BreakerAssumption DEF Init, Orderly, Serial, Inside, Finds, AtRest, InStep, NewBreaker

\* With any number of threads, as long as no two methods overlap and again after
\* a clean success, the breaker at rest is closed exactly while the failures
\* since the last success are fewer than the threshold (on_success, on_failure).
THEOREM TripsAtThreshold == Spec => []TrippedAtThreshold
<1>1. Orderly => TrippedAtThreshold
  BY DEF Orderly, Serial, TrippedAtThreshold, InStep
<1>2. QED
  BY <1>1, InitOrderly, OrderlyStep, BreakerTypeCorrect, PTL DEF Spec

-----------------------------------------------------------------------------
(* What keeps probes apart *)

\* Unless an answer is just being recorded, an orderly breaker has not been open
\* for longer than the last request was started ago, and a half-open one that
\* nobody calls is a whole reset period past that request.
Apart ==
  (\A t \in Threads : pc[t] \notin {"close", "stamp"}) =>
    /\ breaker.state = "open" => breaker.since <= sinceCall
    /\ breaker.state = "half_open" /\ Calling = {} => sinceCall = ResetAfter

Spaced == ~raced => Apart

LEMMA ReadsAreSpaced ==
  ASSUME TypeOK, Orderly, Spaced, NEW t \in Threads, Read(t) \/ State(t), ~raced'
  PROVE  Apart'
<1>1. Serial /\ Apart /\ Finds(t) /\ Alone(t)
  BY DEF Orderly, Spaced, Serial, Overlaps, Read, State, Elapsed, Halve, Refuse, Send
<1>2. /\ t \in DOMAIN pc /\ pc[t] \in Reading
      /\ \A u \in Threads : u # t => pc'[u] = pc[u] /\ pc[u] \notin {"close", "stamp"}
  BY <1>1 DEF Alone, Inside, TypeOK, Goes, Read, State, Elapsed, Halve, Refuse, Send, Reading
<1>3. \A u \in Threads : pc[u] \notin {"close", "stamp"}
  BY <1>2 DEF Reading
<1>4. /\ breaker.since \in 0 .. ResetAfter /\ sinceCall \in 0 .. ResetAfter
      /\ ResetAfter \in Nat
  BY BreakerAssumption DEF TypeOK, Breakers
<1>5. CASE Send(t)
  <2>1. t \in Calling'
    BY <1>5, <1>2 DEF Send, Goes, Calling, Reading
  <2>2. breaker' = breaker /\ breaker.state # "open"
    BY <1>5 DEF Send
  <2>3. QED
    BY <2>1, <2>2 DEF Apart
<1>6. CASE Halve(t)
  <2>1. breaker.state = "open" /\ breaker.since = ResetAfter
    BY <1>1, <1>6 DEF Halve, Goes, Finds
  <2>2. sinceCall' = ResetAfter
    BY <1>1, <1>3, <1>4, <1>6, <2>1 DEF Apart, Halve
  <2>3. breaker'.state = "half_open"
    BY <1>6 DEF Halve, TypeOK, Breakers
  <2>4. QED
    BY <2>2, <2>3 DEF Apart
<1>7. CASE Read(t) \/ Elapsed(t) \/ Refuse(t)
  <2>1. breaker' = breaker /\ sinceCall' = sinceCall /\ pc'[t] \in Reading
    BY <1>2, <1>7 DEF Read, Elapsed, Refuse, Goes, Reading
  <2>2. Calling' = Calling
    BY <1>2, <2>1, ThreadsAssumption DEF Calling, Threads
  <2>3. QED
    BY <1>1, <1>3, <2>1, <2>2 DEF Apart
<1>8. QED
  BY <1>5, <1>6, <1>7 DEF State

LEMMA AnswersAreSpaced ==
  ASSUME TypeOK, Spaced, ~raced, breaker' = breaker, sinceCall' = sinceCall,
         \A u \in Threads : \/ pc'[u] = pc[u]
                            \/ pc[u] \in Waiting /\ pc'[u] \in {"hurt", "reset", "count"}
  PROVE  Apart'
<1>1. Calling' = Calling
  BY DEF Calling, Threads, Waiting, Reading
<1>2. \A u \in Threads : pc'[u] \notin {"close", "stamp"} => pc[u] \notin {"close", "stamp"}
  BY DEF Waiting
<1>3. QED
  BY <1>1, <1>2 DEF Spaced, Apart

LEMMA RecordingIsSpaced ==
  ASSUME TypeOK, Orderly, Spaced, NEW t \in Threads, Success(t) \/ Failure(t), ~raced'
  PROVE  Apart'
<1>1. /\ t \in DOMAIN pc
      /\ breaker \in Breakers /\ sinceCall \in 0 .. ResetAfter /\ ResetAfter \in Nat
      /\ sinceCall' = sinceCall
  BY BreakerAssumption DEF TypeOK, Success, Reset, Close, Failure, Count, Store, Test, Compare,
     Trip, Stamp
<1>2. CASE Reset(t)
  BY <1>1, <1>2 DEF Reset, Goes, Apart
<1>3. CASE Close(t)
  <2>1. breaker'.state = "closed"
    BY <1>1, <1>3 DEF Close, Breakers
  <2>2. QED
    BY <2>1 DEF Apart
<1>4. CASE Trip(t)
  BY <1>1, <1>4 DEF Trip, Goes, Apart
<1>5. CASE Stamp(t)
  <2>1. Finds(t)
    BY <1>5 DEF Orderly, Serial, Stamp, Overlaps
  <2>2. breaker'.state = "open" /\ breaker'.since = 0
    BY <1>1, <1>5, <2>1 DEF Stamp, Goes, Finds, Breakers
  <2>3. QED
    BY <1>1, <2>2 DEF Apart
<1>6. CASE Count(t) \/ Store(t) \/ Test(t) \/ Compare(t)
  <2>1. Apart /\ Finds(t) /\ Alone(t)
    BY <1>6 DEF Orderly, Serial, Spaced, Count, Store, Test, Compare, Overlaps
  <2>2. breaker'.state = breaker.state /\ breaker'.since = breaker.since
    BY <1>1, <1>6 DEF Count, Store, Test, Compare, Breakers
  <2>3. /\ pc[t] \in Recording \ {"close", "stamp"}
        /\ \A u \in Threads : u # t => pc'[u] = pc[u]
    BY <1>1, <1>6 DEF Count, Store, Test, Compare, Goes, Recording, TypeOK
  <2>4. \A u \in Threads : pc[u] \notin {"close", "stamp"}
    BY <2>1, <2>3 DEF Alone, Inside
  <2>5. CASE pc'[t] = "out"
    <3>1. Compare(t)
      BY <1>1, <1>6, <2>5 DEF Count, Store, Test, Compare, Goes
    <3>2. breaker.state # "half_open"
      BY <2>1, <3>1 DEF Compare, Goes, Finds
    <3>3. QED
      BY <2>1, <2>2, <2>4, <3>2, <1>1 DEF Apart
  <2>6. CASE pc'[t] # "out"
    <3>1. pc'[t] \notin Reading
      BY <1>1, <1>6, <2>6 DEF Count, Store, Test, Compare, Goes, Reading
    <3>2. Calling' = Calling
      BY <2>3, <3>1 DEF Calling, Reading, Recording, Threads
    <3>3. QED
      BY <2>1, <2>2, <2>4, <3>2, <1>1 DEF Apart
  <2>7. QED
    BY <2>5, <2>6
<1>7. QED
  BY <1>2, <1>3, <1>4, <1>5, <1>6 DEF Success, Failure

LEMMA SpacedStep == TypeOK /\ Orderly /\ Spaced /\ [Next]_vars => Spaced'
<1> SUFFICES ASSUME TypeOK, Orderly, Spaced, [Next]_vars, ~raced' PROVE Apart'
  BY DEF Spaced
<1>1. ASSUME NEW t \in Threads, Read(t) \/ State(t) PROVE Apart'
  BY <1>1, ReadsAreSpaced
<1>2. ASSUME NEW t \in Threads, Success(t) \/ Failure(t) PROVE Apart'
  BY <1>2, RecordingIsSpaced
<1>3. ASSUME NEW t \in Threads, Answer(t) PROVE Apart'
  <2>1. /\ ~raced /\ breaker' = breaker /\ sinceCall' = sinceCall
        /\ \A u \in Threads : \/ pc'[u] = pc[u]
                              \/ pc[u] \in Waiting /\ pc'[u] \in {"hurt", "reset", "count"}
    BY <1>3 DEF Answer, Accepted, NotAccepted, Goes, TypeOK, Waiting
  <2>2. QED
    BY <2>1, AnswersAreSpaced
<1>4. CASE Tick
  <2>1. /\ Apart /\ pc' = pc /\ breaker'.state = breaker.state
        /\ breaker'.since = Later(breaker.since) /\ sinceCall' = Later(sinceCall)
    BY <1>4 DEF Tick, Spaced, Older, TypeOK, Breakers
  <2>2. /\ breaker.since \in 0 .. ResetAfter /\ sinceCall \in 0 .. ResetAfter
        /\ ResetAfter \in Nat
    BY BreakerAssumption DEF TypeOK, Breakers
  <2>3. /\ breaker.since <= sinceCall => breaker'.since <= sinceCall'
        /\ sinceCall = ResetAfter => sinceCall' = ResetAfter
    BY <2>1, <2>2 DEF Later
  <2>4. Calling' = Calling
    BY <2>1 DEF Calling
  <2>5. QED
    BY <2>1, <2>3, <2>4 DEF Apart
<1>5. CASE EndpointTurns
  <2>1. /\ ~raced /\ breaker' = breaker /\ sinceCall' = sinceCall
        /\ \A u \in Threads : \/ pc'[u] = pc[u]
                              \/ pc[u] \in Waiting /\ pc'[u] \in {"hurt", "reset", "count"}
    BY <1>5 DEF EndpointTurns, TypeOK, Waiting
  <2>2. QED
    BY <2>1, AnswersAreSpaced
<1>6. CASE UNCHANGED vars
  BY <1>6 DEF vars, Spaced, Apart, Calling
<1>7. QED
  BY <1>1, <1>2, <1>3, <1>4, <1>5, <1>6 DEF Next

LEMMA InitSpaced == Init => Spaced
  BY DEF Init, Spaced, Apart, NewBreaker

LEMMA StartsAreSpaced ==
  ASSUME TypeOK, Orderly, Spaced, [Next]_vars,
         ~raced, Starts, breaker.failures = Threshold, Calling = {}
  PROVE  sinceCall >= ResetAfter
<1>1. PICK c \in Callers : pc[c] = "return" /\ pc'[c] \in Waiting
  BY DEF Starts
<1>2. Send(c)
  BY <1>1 DEF Next, vars, Read, State, Elapsed, Halve, Refuse, Send, Answer, Accepted, NotAccepted,
     Success, Reset, Close, Failure, Count, Store, Test, Compare, Trip, Stamp, Tick,
     EndpointTurns, Goes, TypeOK, Threads, Waiting
<1>3. breaker.state = "half_open"
  BY <1>1, <1>2, BreakerAssumption DEF Orderly, Serial, Finds, InStep, Send, TypeOK, Breakers, Threads
<1>4. \A t \in Threads : pc[t] \notin {"close", "stamp"}
  BY <1>1 DEF Orderly, Serial, Inside, Threads
<1>5. sinceCall = ResetAfter
  BY <1>3, <1>4 DEF Spaced, Apart
<1>6. QED
  BY <1>5, BreakerAssumption

\* With any number of threads, as long as no two methods overlap and again after
\* a clean success, a tripped breaker lets two requests through within one reset
\* period only while the answer to a request is awaited or being recorded: a
\* single thread sends one probe per period (before_call, and the instant
\* on_failure records).
THEOREM OneProbePerReset == Spec => ProbesAreSpaced
<1>1. TypeOK /\ Orderly /\ Spaced /\ [Next]_vars
        => [~raced /\ Starts /\ breaker.failures = Threshold
              => sinceCall >= ResetAfter \/ Calling # {}]_vars
  BY StartsAreSpaced
<1>2. QED
  BY <1>1, InitOrderly, OrderlyStep, InitSpaced, SpacedStep, BreakerTypeCorrect, PTL
     DEF Spec, ProbesAreSpaced

\* In a process with one thread, as each of the deployed worker's is, no two
\* methods overlap: there the two theorems about orderly breakers need no premise.
THEOREM OneThreadNeverRaces ==
  ASSUME \A t, u \in Threads : t = u
  PROVE  Spec => []~raced
<1>1. \A t \in Threads : Alone(t)
  BY DEF Alone
<1>2. Init => ~raced
  BY DEF Init
<1>3. ~raced /\ [Next]_vars => ~raced'
  BY <1>1 DEF Next, vars, Read, State, Elapsed, Halve, Refuse, Send, Answer, Accepted, NotAccepted,
     Success, Reset, Close, Failure, Count, Store, Test, Compare, Trip, Stamp, Tick,
     EndpointTurns, Overlaps
<1>4. QED
  BY <1>2, <1>3, PTL DEF Spec
=============================================================================
