----------------------- MODULE WebhookRetriesProofs -----------------------
(***************************************************************************)
(* No breaker outlasts an outage by more than one request and one reset    *)
(* period, and no chain makes more attempts than it may, for any number of *)
(* worker processes, trades, retries and outages, and for requests of any  *)
(* length.                                                                 *)
(***************************************************************************)
EXTENDS WebhookRetries, FiniteSetTheorems, TLAPS

\* The part of the type the argument needs.
ClocksOK ==
  /\ breakers \in [Workers -> Breakers]
  /\ sending \in [Workers -> SUBSET Trades]
  /\ lasted \in [Workers -> 0 .. RequestTime]
  /\ hurt \subseteq Workers
  /\ sinceUp \in 0 .. Wake
  /\ up \in BOOLEAN

\* A request that has seen the endpoint down has been under way since then.
HurtInOutage ==
  up => \A w \in hurt : sinceUp <= lasted[w]

\* A failure is recorded while the endpoint is down or at the end of such a
\* request: an open breaker was opened at most a request after it came up.
OpenedInWake ==
  up => \A w \in Workers : breakers[w].state = "open" => sinceUp <= breakers[w].since + RequestTime

\* A worker without a request has none that the outage could hurt.
HurtIsBusy == \A w \in hurt : ~Idle(w)

Inv == ClocksOK /\ HurtInOutage /\ OpenedInWake /\ HurtIsBusy

Numbers == /\ ResetAfter \in Nat \ {0} /\ RequestTime \in Nat /\ Threshold \in Nat \ {0}
           /\ Wake = ResetAfter + RequestTime

LEMMA NumbersOK == Numbers
  BY BreakerAssumption, RetriesAssumption DEF Numbers, Wake

LEMMA SeenType == ASSUME NEW b \in Breakers PROVE Seen(b) \in Breakers
  BY BreakerAssumption DEF Breakers, Seen

LEMMA SuccessType == ASSUME NEW b \in Breakers PROVE OnSuccess(b) \in Breakers
  BY BreakerAssumption DEF Breakers, OnSuccess

LEMMA FailureType == ASSUME NEW b \in Breakers PROVE OnFailure(b) \in Breakers
  BY BreakerAssumption DEF Breakers, OnFailure

LEMMA OlderType == ASSUME NEW b \in Breakers PROVE Older(b) \in Breakers
  BY BreakerAssumption DEF Breakers, Older, Later

\* Only a failure opens a breaker or sets its time.
LEMMA SeenKeeps ==
  ASSUME NEW b \in Breakers
  PROVE  Seen(b).state = "open" => b.state = "open" /\ Seen(b).since = b.since
  BY DEF Breakers, Seen

LEMMA FailureStamps ==
  ASSUME NEW b \in Breakers
  PROVE  \/ OnFailure(b).state = "open" /\ OnFailure(b).since = 0
         \/ OnFailure(b).state = b.state /\ OnFailure(b).since = b.since
  BY DEF Breakers, OnFailure

\* Time passes for the breaker and for the recovered endpoint alike.
LEMMA OlderOrder ==
  ASSUME NEW b \in Breakers, NEW n \in 0 .. Wake, n <= b.since + RequestTime
  PROVE  (IF n < Wake THEN n + 1 ELSE n) <= Older(b).since + RequestTime
<1>1. /\ b.since \in 0 .. ResetAfter
      /\ Older(b).since = IF b.since < ResetAfter THEN b.since + 1 ELSE b.since
  BY DEF Breakers, Older, Later
<1>2. QED
  BY <1>1, NumbersOK DEF Numbers

LEMMA InitInv == Init => Inv
<1> SUFFICES ASSUME Init PROVE Inv
  OBVIOUS
<1>1. NewBreaker \in Breakers /\ NewBreaker.state = "closed"
  BY BreakerAssumption DEF NewBreaker, Breakers
<1>2. 0 \in 0 .. RequestTime /\ Wake \in 0 .. Wake
  BY NumbersOK DEF Numbers
<1>3. ClocksOK
  BY <1>1, <1>2 DEF Init, ClocksOK
<1>4. HurtInOutage /\ OpenedInWake /\ HurtIsBusy
  BY <1>1 DEF Init, HurtInOutage, OpenedInWake, HurtIsBusy
<1>5. QED
  BY <1>3, <1>4 DEF Inv

LEMMA Unmoved ==
  ASSUME Inv, UNCHANGED <<breakers, requests, endpoint>>
  PROVE  Inv'
  BY DEF Inv, ClocksOK, HurtInOutage, OpenedInWake, HurtIsBusy, Idle, endpoint, requests

LEMMA SendInv ==
  ASSUME Inv, NEW t \in Trades, NEW w \in Workers, Send(w, t)
  PROVE  Inv'
<1>a. ClocksOK /\ HurtInOutage /\ OpenedInWake /\ HurtIsBusy
  BY DEF Inv
<1>1. /\ breakers' = [breakers EXCEPT ![w] = Seen(breakers[w])]
      /\ sending' = [sending EXCEPT ![w] = {t}]
      /\ hurt' = IF up THEN hurt ELSE hurt \cup {w}
      /\ UNCHANGED <<lasted, up, sinceUp>>
  BY DEF Send, endpoint
<1>2. breakers[w] \in Breakers /\ Seen(breakers[w]) \in Breakers
  BY <1>a, SeenType DEF ClocksOK
<1>3. ClocksOK'
  BY <1>a, <1>1, <1>2 DEF ClocksOK
<1>4. HurtInOutage'
  BY <1>a, <1>1 DEF HurtInOutage
<1>5. OpenedInWake'
  <2>1. \A v \in Workers : breakers'[v].state = "open"
          => breakers[v].state = "open" /\ breakers'[v].since = breakers[v].since
    BY <1>a, <1>1, <1>2, SeenKeeps DEF ClocksOK
  <2>2. QED
    BY <1>a, <1>1, <2>1 DEF OpenedInWake
<1>6. HurtIsBusy'
  BY <1>a, <1>1 DEF HurtIsBusy, Idle, ClocksOK
<1>7. QED
  BY <1>3, <1>4, <1>5, <1>6 DEF Inv

LEMMA DoneInv ==
  ASSUME Inv, NEW w \in Workers, Done(w), UNCHANGED endpoint,
         NEW b \in Breakers, breakers' = [breakers EXCEPT ![w] = b],
         up /\ b.state = "open" => sinceUp <= b.since + RequestTime
  PROVE  Inv'
<1>a. ClocksOK /\ HurtInOutage /\ OpenedInWake /\ HurtIsBusy
  BY DEF Inv
<1>1. /\ sending' = [sending EXCEPT ![w] = {}]
      /\ lasted' = [lasted EXCEPT ![w] = 0]
      /\ hurt' = hurt \ {w}
      /\ UNCHANGED <<up, sinceUp>>
  BY DEF Done, endpoint
<1>2. ClocksOK'
  BY <1>a, <1>1, NumbersOK DEF ClocksOK, Numbers
<1>3. HurtInOutage'
  BY <1>a, <1>1 DEF HurtInOutage, ClocksOK
<1>4. OpenedInWake'
  BY <1>a, <1>1 DEF OpenedInWake, ClocksOK
<1>5. HurtIsBusy'
  BY <1>a, <1>1 DEF HurtIsBusy, Idle, ClocksOK
<1>6. QED
  BY <1>2, <1>3, <1>4, <1>5 DEF Inv

LEMMA NotAcceptedInv ==
  ASSUME Inv, NEW t \in Trades, NEW w \in Workers, NotAccepted(w, t)
  PROVE  Inv'
<1>a. ClocksOK /\ HurtInOutage /\ OpenedInWake /\ HurtIsBusy
  BY DEF Inv
<1> DEFINE b == OnFailure(breakers[w])
<1>1. breakers[w] \in Breakers /\ b \in Breakers
  BY <1>a, FailureType DEF ClocksOK
<1>2. /\ breakers' = [breakers EXCEPT ![w] = b] /\ Done(w) /\ UNCHANGED endpoint
      /\ w \in hurt
  BY DEF NotAccepted
<1>3. up => sinceUp <= lasted[w] /\ lasted[w] <= RequestTime
  BY <1>a, <1>2, NumbersOK DEF HurtInOutage, ClocksOK, Numbers
<1>4. lasted[w] \in 0 .. RequestTime /\ sinceUp \in 0 .. Wake
  BY <1>a DEF ClocksOK
<1>5. CASE b.state = "open" /\ b.since = 0
  <2>1. up => sinceUp <= b.since + RequestTime
    BY <1>3, <1>4, <1>5, NumbersOK DEF Numbers
  <2> HIDE DEF b
  <2>2. QED
    BY <1>1, <1>2, <2>1, DoneInv
<1>6. CASE b.state = breakers[w].state /\ b.since = breakers[w].since
  <2>1. up /\ b.state = "open" => sinceUp <= b.since + RequestTime
    BY <1>a, <1>6 DEF OpenedInWake
  <2> HIDE DEF b
  <2>2. QED
    BY <1>1, <1>2, <2>1, DoneInv
<1>7. QED
  BY <1>1, <1>5, <1>6, FailureStamps

LEMMA TickInv ==
  ASSUME Inv, Tick
  PROVE  Inv'
<1>a. ClocksOK /\ HurtInOutage /\ OpenedInWake /\ HurtIsBusy
  BY DEF Inv
<1>1. /\ \A w \in Workers : Idle(w) \/ lasted[w] < RequestTime
      /\ breakers' = [w \in Workers |-> Older(breakers[w])]
      /\ lasted' = [w \in Workers |-> IF Idle(w) THEN lasted[w] ELSE lasted[w] + 1]
      /\ sinceUp' = IF up /\ sinceUp < Wake THEN sinceUp + 1 ELSE sinceUp
      /\ UNCHANGED <<sending, hurt, up>>
  BY DEF Tick
<1>2. /\ \A w \in Workers : breakers[w] \in Breakers /\ Older(breakers[w]) \in Breakers
      /\ \A w \in Workers : lasted[w] \in 0 .. RequestTime
      /\ sinceUp \in 0 .. Wake
  BY <1>a, OlderType DEF ClocksOK
<1>3. \A w \in Workers : lasted'[w] \in 0 .. RequestTime
  BY <1>1, <1>2, NumbersOK DEF Numbers
<1>4. sinceUp' \in 0 .. Wake
  BY <1>1, <1>2, NumbersOK DEF Numbers
<1>5. ClocksOK'
  BY <1>a, <1>1, <1>2, <1>3, <1>4 DEF ClocksOK
<1>6. HurtInOutage'
  <2> SUFFICES ASSUME up, NEW w \in hurt PROVE sinceUp' <= lasted'[w]
    BY <1>1 DEF HurtInOutage
  <2>1. w \in Workers /\ ~Idle(w) /\ sinceUp <= lasted[w]
    BY <1>a DEF HurtInOutage, HurtIsBusy, ClocksOK
  <2>2. lasted'[w] = lasted[w] + 1
    BY <1>1, <2>1
  <2>3. QED
    BY <1>1, <1>2, <2>1, <2>2, NumbersOK DEF Numbers
<1>7. OpenedInWake'
  <2> SUFFICES ASSUME up, NEW w \in Workers, breakers'[w].state = "open"
               PROVE  sinceUp' <= breakers'[w].since + RequestTime
    BY <1>1 DEF OpenedInWake
  <2>1. breakers[w].state = "open" /\ breakers'[w] = Older(breakers[w])
    BY <1>1, <1>2 DEF Older, Breakers
  <2>2. sinceUp <= breakers[w].since + RequestTime
    BY <1>a, <2>1 DEF OpenedInWake
  <2>3. QED
    BY <1>1, <1>2, <2>1, <2>2, OlderOrder
<1>8. HurtIsBusy'
  BY <1>a, <1>1 DEF HurtIsBusy, Idle
<1>9. QED
  BY <1>5, <1>6, <1>7, <1>8 DEF Inv

LEMMA NextInv == Inv /\ [Next]_vars => Inv'
<1> SUFFICES ASSUME Inv, [Next]_vars PROVE Inv'
  OBVIOUS
<1>a. ClocksOK /\ HurtInOutage /\ OpenedInWake /\ HurtIsBusy
  BY DEF Inv
<1>1. ASSUME NEW t \in Trades, Enqueue(t) PROVE Inv'
  BY <1>1, Unmoved DEF Enqueue
<1>2. ASSUME NEW t \in Trades, NEW w \in Workers, Refused(w, t) PROVE Inv'
  BY <1>2, Unmoved DEF Refused
<1>3. ASSUME NEW t \in Trades, NEW w \in Workers, Accepted(w, t) PROVE Inv'
  <2> DEFINE b == OnSuccess(breakers[w])
  <2>1. b \in Breakers /\ b.state = "closed"
    BY <1>a, SuccessType DEF ClocksOK, OnSuccess
  <2>2. breakers' = [breakers EXCEPT ![w] = b] /\ Done(w) /\ UNCHANGED endpoint
    BY <1>3 DEF Accepted
  <2> HIDE DEF b
  <2>3. QED
    BY <2>1, <2>2, DoneInv
<1>4. ASSUME NEW t \in Trades, NEW w \in Workers, Send(w, t) \/ NotAccepted(w, t) PROVE Inv'
  BY <1>4, SendInv, NotAcceptedInv
<1>5. CASE Tick
  BY <1>5, TickInv
<1>6. CASE GoDown
  <2>1. ClocksOK' /\ HurtIsBusy'
    BY <1>a, <1>6 DEF GoDown, ClocksOK, HurtIsBusy, Idle
  <2>2. QED
    BY <1>6, <2>1 DEF GoDown, Inv, HurtInOutage, OpenedInWake
<1>7. CASE ComeUp
  <2>1. /\ sinceUp' = 0 /\ up' = TRUE
        /\ UNCHANGED <<breakers, sending, lasted, hurt>>
    BY <1>7 DEF ComeUp, requests
  <2>2. \A w \in Workers : breakers[w].since \in 0 .. ResetAfter /\ lasted[w] \in 0 .. RequestTime
    BY <1>a DEF ClocksOK, Breakers
  <2>3. HurtInOutage' /\ OpenedInWake'
    BY <1>a, <2>1, <2>2, NumbersOK DEF HurtInOutage, OpenedInWake, ClocksOK, Numbers
  <2>4. ClocksOK' /\ HurtIsBusy'
    BY <1>a, <2>1, NumbersOK DEF ClocksOK, HurtIsBusy, Idle, Numbers
  <2>5. QED
    BY <2>3, <2>4 DEF Inv
<1>8. CASE UNCHANGED vars
  BY <1>8, Unmoved DEF vars
<1>9. QED
  BY <1>1, <1>2, <1>3, <1>4, <1>5, <1>6, <1>7, <1>8 DEF Next, Start, Answer

-----------------------------------------------------------------------------
\* A refusing breaker has been open for less than the reset time.
LEMMA RefusalIsRecent ==
  ASSUME NEW b \in Breakers, Refuses(b)
  PROVE  b.state = "open" /\ b.since < ResetAfter
  BY BreakerAssumption DEF Breakers, Refuses, Seen

StageOK == stage \in [Trades -> Stages]

LEMMA InitStage == Init => StageOK
  BY DEF Init, StageOK, Stages

\* How each step moves the stages: a trade starts, is accepted, is retried or
\* given up, or nothing moves.
LEMMA StageMoves ==
  ASSUME [Next]_vars
  PROVE  \/ stage' = stage
         \/ \E t \in Trades, s \in Stages : stage' = [stage EXCEPT ![t] = s]
<1>1. ASSUME NEW t \in Trades, Retry(t)
      PROVE  \E s \in Stages : stage' = [stage EXCEPT ![t] = s]
  BY <1>1 DEF Retry, Stages
<1>2. QED
  BY <1>1 DEF Next, Start, Answer, vars, trades, Enqueue, Refused, Send, Accepted, NotAccepted,
              Tick, GoDown, ComeUp, Stages

LEMMA StageStep == StageOK /\ [Next]_vars => StageOK'
  BY StageMoves DEF StageOK

LEMMA LossStep ==
  ASSUME Inv, StageOK, [Next]_vars, NEW t \in Trades, Loses(t)
  PROVE  ~up \/ sinceUp < Wake
<1>a. /\ breakers \in [Workers -> Breakers] /\ sinceUp \in 0 .. Wake
      /\ lasted \in [Workers -> 0 .. RequestTime]
  BY DEF Inv, ClocksOK
<1>1. ASSUME NEW u \in Trades, NEW w \in Workers, Refused(w, u)
      PROVE  ~up \/ sinceUp < Wake
  <2>1. breakers[w] \in Breakers /\ breakers[w].since \in 0 .. ResetAfter
    BY <1>a DEF Breakers
  <2>2. breakers[w].state = "open" /\ breakers[w].since < ResetAfter
    BY <1>1, <2>1, RefusalIsRecent DEF Refused
  <2>3. up => sinceUp <= breakers[w].since + RequestTime
    BY <2>2 DEF Inv, OpenedInWake
  <2>4. QED
    BY <1>a, <2>1, <2>2, <2>3, NumbersOK DEF Numbers
<1>2. ASSUME NEW u \in Trades, NEW w \in Workers, NotAccepted(w, u)
      PROVE  ~up \/ sinceUp < Wake
  <2>1. up => sinceUp <= lasted[w]
    BY <1>2 DEF NotAccepted, Inv, HurtInOutage
  <2>2. lasted[w] \in 0 .. RequestTime
    BY <1>a
  <2>3. QED
    BY <1>a, <2>1, <2>2, NumbersOK DEF Numbers
<1>3. ASSUME NEW u \in Trades, Enqueue(u) PROVE FALSE
  BY <1>3 DEF Enqueue, Loses, StageOK
<1>4. ASSUME NEW u \in Trades, NEW w \in Workers, Accepted(w, u) \/ Send(w, u) PROVE FALSE
  BY <1>4 DEF Accepted, Send, Loses, StageOK
<1>5. ASSUME UNCHANGED <<stage, attempt>> PROVE FALSE
  BY <1>5 DEF Loses
<1>6. QED
  BY <1>1, <1>2, <1>3, <1>4, <1>5 DEF Next, Start, Answer, vars, trades, Tick, GoDown, ComeUp

\* An attempt is lost only while the endpoint is down or has been up for less
\* than one request and one reset period, however long requests may take
\* (before_call, the POST, on_failure, and the retry of the task).
THEOREM BreakersOutlastNoOutage == Spec => AttemptsAreLostInOutages
<1>1. Inv /\ StageOK /\ [Next]_vars
        => [\A t \in Trades : Loses(t) => ~up \/ sinceUp < Wake]_vars
  BY LossStep
<1>2. QED
  BY <1>1, InitInv, NextInv, InitStage, StageStep, PTL DEF Spec, AttemptsAreLostInOutages

-----------------------------------------------------------------------------
\* The provers know no powers; the library has those of two as numbers of subsets.
LEMMA PowersOfTwo == ASSUME NEW n \in Nat PROVE 2 ^ n \in Nat
<1>1. IsFiniteSet(1 .. n) /\ Cardinality(1 .. n) = n
  BY FS_Interval
<1>2. /\ IsFiniteSet(SUBSET (1 .. n))
      /\ Cardinality(SUBSET (1 .. n)) = 2 ^ Cardinality(1 .. n)
  BY <1>1, FS_SUBSET, Zenon
<1>3. Cardinality(SUBSET (1 .. n)) \in Nat
  BY <1>2, FS_CardinalityType
<1>4. QED
  BY <1>1, <1>2, <1>3, Zenon

ChainsOK ==
  /\ attempt \in [Trades -> Attempts]
  /\ wait \in [Trades -> Nat]
  /\ outages \in Nat

\* A chain that goes on has an attempt left.
LEMMA RetryCounts ==
  ASSUME ChainsOK, NEW t \in Trades, Retry(t)
  PROVE  attempt' \in [Trades -> Attempts] /\ wait' \in [Trades -> Nat]
<1>1. attempt \in [Trades -> Attempts] /\ wait \in [Trades -> Nat]
  BY DEF ChainsOK
<1>2. attempt[t] \in 0 .. MaxRetries /\ MaxRetries \in Nat
  BY <1>1, RetriesAssumption DEF Attempts
<1>3. CASE attempt[t] >= MaxRetries
  BY <1>1, <1>3 DEF Retry
<1>4. CASE ~ (attempt[t] >= MaxRetries)
  <2>1. PICK pause : pause = 2 ^ attempt[t]
    OBVIOUS
  <2>2. pause \in Nat
    <3>1. attempt[t] \in Nat
      BY <1>2
    <3>2. QED
      BY <2>1, <3>1, PowersOfTwo, Zenon
  <2>3. wait' = [wait EXCEPT ![t] = pause] /\ attempt' = [attempt EXCEPT ![t] = @ + 1]
    BY <1>4, <2>1, Zenon DEF Retry
  <2>4. attempt[t] + 1 \in Attempts
    BY <1>2, <1>4 DEF Attempts
  <2>5. QED
    BY <1>1, <2>2, <2>3, <2>4
<1>5. QED
  BY <1>3, <1>4

LEMMA NextChains == ChainsOK /\ [Next]_vars => ChainsOK'
<1> SUFFICES ASSUME ChainsOK, [Next]_vars PROVE ChainsOK'
  OBVIOUS
<1>1. ASSUME UNCHANGED <<attempt, wait, outages>> PROVE ChainsOK'
  BY <1>1 DEF ChainsOK
<1>2. ASSUME NEW t \in Trades, NEW w \in Workers, Refused(w, t) \/ NotAccepted(w, t)
      PROVE  ChainsOK'
  <2>1. Retry(t) /\ UNCHANGED outages
    BY <1>2 DEF Refused, NotAccepted, endpoint
  <2>2. QED
    BY <2>1, RetryCounts DEF ChainsOK
<1>3. CASE Tick
  <2>1. /\ wait' = [t \in Trades |-> IF wait[t] > 0 THEN wait[t] - 1 ELSE 0]
        /\ UNCHANGED <<attempt, outages>>
    BY <1>3 DEF Tick
  <2>2. \A t \in Trades : (IF wait[t] > 0 THEN wait[t] - 1 ELSE 0) \in Nat
    BY DEF ChainsOK
  <2>3. QED
    BY <2>1, <2>2 DEF ChainsOK
<1>4. CASE GoDown
  <2>1. outages' \in Nat /\ UNCHANGED <<attempt, wait>>
    BY <1>4 DEF GoDown, ChainsOK, trades
  <2>2. QED
    BY <2>1 DEF ChainsOK
<1>5. CASE ComeUp
  BY <1>1, <1>5 DEF ComeUp, trades
<1>6. ASSUME NEW t \in Trades, Enqueue(t) PROVE ChainsOK'
  BY <1>1, <1>6 DEF Enqueue, endpoint
<1>7. ASSUME NEW t \in Trades, NEW w \in Workers, Accepted(w, t) \/ Send(w, t) PROVE ChainsOK'
  BY <1>1, <1>7 DEF Accepted, Send, endpoint
<1>8. CASE UNCHANGED vars
  BY <1>1, <1>8 DEF vars, trades, endpoint
<1>9. QED
  BY <1>2, <1>3, <1>4, <1>5, <1>6, <1>7, <1>8 DEF Next, Start, Answer

\* No chain counts beyond max_retries, its countdown is a whole number of ticks, and
\* every breaker is in one of its states (send_trade_notification, CircuitBreaker).
THEOREM RetriesTypeCorrect == Spec => []TypeOK
<1>1. Init => ChainsOK
  BY RetriesAssumption DEF Init, ChainsOK, Attempts
<1>2. Inv /\ StageOK /\ ChainsOK => TypeOK
  BY DEF Inv, ClocksOK, StageOK, ChainsOK, TypeOK
<1>3. QED
  BY <1>1, <1>2, NextChains, InitInv, NextInv, InitStage, StageStep, PTL DEF Spec
=============================================================================
