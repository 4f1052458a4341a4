-------------------------- MODULE WebhookRetries --------------------------
(***************************************************************************)
(* The retry chains of send_trade_notification against the circuit         *)
(* breakers.  Every worker process has its own breaker (the module-level   *)
(* _breaker of the webhook client); a chain's next attempt may run in any  *)
(* of them.  An attempt the breaker refuses is an attempt like any other   *)
(* to the task: it waits for the next one, and after the last one the      *)
(* trade is handed to the dead letter.                                     *)
(*                                                                         *)
(* A worker process runs one task at a time, so that each method of its    *)
(* breaker is one step.  The request between them takes time: it may have  *)
(* begun in an outage and fail when the endpoint is well again.            *)
(*                                                                         *)
(* A tick is NOTIFICATION_BACKOFF_BASE_SECONDS.  Losing messages, workers  *)
(* and claims is the subject of Notifications; here all work.              *)
(***************************************************************************)
EXTENDS Breaker

CONSTANTS
  Trades,
  Workers,
  MaxRetries,   \* NOTIFICATION_MAX_RETRIES
  RequestTime,  \* the longest a request goes on: WEBHOOK_TIMEOUT_SECONDS for each wait of it
  Outages       \* bound: how many times the endpoint goes down

ASSUME RetriesAssumption == MaxRetries \in Nat /\ RequestTime \in Nat /\ Outages \in Nat

Attempts == 0 .. MaxRetries

\* how long after its end an outage can be felt
Wake == ResetAfter + RequestTime

VARIABLES
  breakers,   \* the breaker of each worker process
  sending,    \* of each worker: the trade whose request is under way, if any
  lasted,     \* of each worker: how long that request has been under way
  hurt,       \* the workers whose request has seen the endpoint down
  stage,      \* of each trade: not made yet, being retried, or how it ended
  attempt,    \* self.request.retries of its next attempt
  wait,       \* ticks until the countdown of that attempt is over
  up,         \* the endpoint accepts requests
  sinceUp,    \* history: time since the endpoint last came up
  outages     \* what is left of the bound

trades   == <<stage, attempt, wait>>
requests == <<sending, lasted, hurt>>
endpoint == <<up, sinceUp, outages>>
vars     == <<breakers, trades, requests, endpoint>>

Stages == {"none", "pending", "sending", "accepted", "abandoned"}

TypeOK ==
  /\ breakers \in [Workers -> Breakers]
  /\ sending \in [Workers -> SUBSET Trades]
  /\ lasted \in [Workers -> 0 .. RequestTime]
  /\ hurt \subseteq Workers
  /\ stage \in [Trades -> Stages]
  /\ attempt \in [Trades -> Attempts]
  /\ wait \in [Trades -> Nat]
  /\ up \in BOOLEAN
  /\ sinceUp \in 0 .. Wake
  /\ outages \in Nat

Init ==
  /\ breakers = [w \in Workers |-> NewBreaker]
  /\ sending = [w \in Workers |-> {}]
  /\ lasted = [w \in Workers |-> 0]
  /\ hurt = {}
  /\ stage = [t \in Trades |-> "none"]
  /\ attempt = [t \in Trades |-> 0]
  /\ wait = [t \in Trades |-> 0]
  /\ up = TRUE
  /\ sinceUp = Wake
  /\ outages = Outages

-----------------------------------------------------------------------------
(* Faulty variants, for testing the properties *)

\* attempt > max_retries
RetryOnceMore(t) ==
  IF attempt[t] > MaxRetries
  THEN /\ stage' = [stage EXCEPT ![t] = "abandoned"]
       /\ UNCHANGED <<attempt, wait>>
  ELSE /\ stage' = [stage EXCEPT ![t] = "pending"]
       /\ wait' = [wait EXCEPT ![t] = 2 ^ attempt[t]]
       /\ attempt' = [attempt EXCEPT ![t] = @ + 1]

\* the number of the attempt is not carried over to the next one
RetryForEver(t) ==
  /\ stage' = [stage EXCEPT ![t] = "pending"]
  /\ wait' = [wait EXCEPT ![t] = 2 ^ attempt[t]]
  /\ UNCHANGED attempt

-----------------------------------------------------------------------------
(* The tasks *)

\* handle_signal enqueues the first attempt
Enqueue(t) ==
  /\ stage[t] = "none"
  /\ stage' = [stage EXCEPT ![t] = "pending"]
  /\ UNCHANGED <<breakers, requests, attempt, wait, endpoint>>

\* the handler of a failed attempt: count down to the next one, or give up
Retry(t) ==
  IF attempt[t] >= MaxRetries
  THEN /\ stage' = [stage EXCEPT ![t] = "abandoned"]
       /\ UNCHANGED <<attempt, wait>>
  ELSE /\ stage' = [stage EXCEPT ![t] = "pending"]
       /\ wait' = [wait EXCEPT ![t] = 2 ^ attempt[t]]
       /\ attempt' = [attempt EXCEPT ![t] = @ + 1]

Idle(w) == sending[w] = {}
Runs(w, t) == Idle(w) /\ stage[t] = "pending" /\ wait[t] = 0

\* CircuitOpenError
Refused(w, t) ==
  /\ Runs(w, t)
  /\ Refuses(breakers[w])
  /\ Retry(t)
  /\ UNCHANGED <<breakers, requests, endpoint>>

\* before_call lets the task through, and the POST is on its way
Send(w, t) ==
  /\ Runs(w, t)
  /\ ~Refuses(breakers[w])
  /\ breakers' = [breakers EXCEPT ![w] = Seen(@)]
  /\ sending' = [sending EXCEPT ![w] = {t}]
  /\ hurt' = IF up THEN hurt ELSE hurt \cup {w}
  /\ stage' = [stage EXCEPT ![t] = "sending"]
  /\ UNCHANGED <<lasted, attempt, wait, endpoint>>

Done(w) ==
  /\ sending' = [sending EXCEPT ![w] = {}]
  /\ lasted' = [lasted EXCEPT ![w] = 0]
  /\ hurt' = hurt \ {w}

\* 2xx: the endpoint is up when it answers
Accepted(w, t) ==
  /\ sending[w] = {t}
  /\ up
  /\ breakers' = [breakers EXCEPT ![w] = OnSuccess(@)]
  /\ stage' = [stage EXCEPT ![t] = "accepted"]
  /\ Done(w)
  /\ UNCHANGED <<attempt, wait, endpoint>>

\* httpx.HTTPError: the endpoint was down at some moment of the request
NotAccepted(w, t) ==
  /\ sending[w] = {t}
  /\ w \in hurt
  /\ breakers' = [breakers EXCEPT ![w] = OnFailure(@)]
  /\ Retry(t)
  /\ Done(w)
  /\ UNCHANGED endpoint

\* A countdown is the least time to wait: an attempt that is due may stay
\* queued while time passes. A request that has lasted its time has ended.
Tick ==
  /\ \A w \in Workers : Idle(w) \/ lasted[w] < RequestTime
  /\ breakers' = [w \in Workers |-> Older(breakers[w])]
  /\ lasted' = [w \in Workers |-> IF Idle(w) THEN lasted[w] ELSE lasted[w] + 1]
  /\ wait' = [t \in Trades |-> IF wait[t] > 0 THEN wait[t] - 1 ELSE 0]
  /\ sinceUp' = IF up /\ sinceUp < Wake THEN sinceUp + 1 ELSE sinceUp
  /\ UNCHANGED <<sending, hurt, stage, attempt, up, outages>>

GoDown ==
  /\ up
  /\ outages > 0
  /\ outages' = outages - 1
  /\ up' = FALSE
  /\ hurt' = hurt \cup {w \in Workers : ~Idle(w)}
  /\ UNCHANGED <<breakers, trades, sending, lasted, sinceUp>>

ComeUp ==
  /\ ~up
  /\ up' = TRUE
  /\ sinceUp' = 0
  /\ UNCHANGED <<breakers, trades, requests, outages>>

Start(w, t)  == Refused(w, t) \/ Send(w, t)
Answer(w, t) == Accepted(w, t) \/ NotAccepted(w, t)

Next ==
  \/ \E t \in Trades : Enqueue(t) \/ \E w \in Workers : Start(w, t) \/ Answer(w, t)
  \/ Tick \/ GoDown \/ ComeUp

Spec == Init /\ [][Next]_vars

\* Time passes, a queued attempt is run by some worker, and a request ends. The
\* endpoint owes nothing: it may stay down.
FairSpec ==
  /\ Spec
  /\ WF_vars(Tick)
  /\ \A t \in Trades : WF_vars(\E w \in Workers : Start(w, t))
  /\ \A w \in Workers : WF_vars(\E t \in Trades : Answer(w, t))

-----------------------------------------------------------------------------
(* Properties *)

\* A chain loses an attempt only while the endpoint is down, or for as long
\* after it came up again as one request and one reset_after_seconds take: a
\* request that has seen the outage may still fail and open its breaker then, but
\* no breaker, in whichever process, refuses a healthy endpoint for longer.
Loses(t) == \/ attempt'[t] # attempt[t]
            \/ stage[t] \in {"pending", "sending"} /\ stage'[t] = "abandoned"
AttemptsAreLostInOutages ==
  [][ \A t \in Trades : Loses(t) => ~up \/ sinceUp < Wake ]_vars

\* Every notification that was enqueued ends, accepted or abandoned, after at
\* most MaxRetries + 1 attempts, however long the endpoint stays down.
EveryChainEnds ==
  \A t \in Trades : stage[t] = "pending" ~> stage[t] \in {"accepted", "abandoned"}
=============================================================================
