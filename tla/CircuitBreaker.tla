-------------------------- MODULE CircuitBreaker --------------------------
(***************************************************************************)
(* One CircuitBreaker shared by the threads of a process, as               *)
(* send_webhook_notification uses it: before_call, the POST, then          *)
(* on_success or on_failure.  Nothing locks the object, so a thread can be *)
(* preempted between any two reads or writes of its attributes: each step  *)
(* below is one of them, named after the statement it stands for, and pc   *)
(* is the statement a thread executes next.  Line 76, _failures += 1, is a *)
(* read and a write; line 77 reads two attributes.                         *)
(*                                                                         *)
(* The worker that the compose file starts runs one task at a time in each *)
(* of its processes, where no two methods overlap.  The class says that it *)
(* is safe for threads, so both are looked at: raced tells them apart.     *)
(***************************************************************************)
EXTENDS Breaker

CONSTANTS
  Callers,     \* threads that send notifications
  Watchers     \* threads that only ask for the status

ASSUME ThreadsAssumption == Callers \cap Watchers = {}

Threads == Callers \cup Watchers

VARIABLES
  breaker,     \* the CircuitBreaker object
  pc,          \* the next statement of each thread
  copy,        \* the count a thread has read and not written back yet
  healthy,     \* whether the endpoint accepts what it is sent
  raced,       \* history: two methods overlapped since the last clean success
  sinceCall    \* history: time since a request was last started

vars == <<breaker, pc, copy, healthy, raced, sinceCall>>

Reading == {"out", "elapsed", "halve", "return"}
Waiting == {"sent", "hurt"}
Recording == {"reset", "close", "count", "store", "test", "compare", "trip", "stamp"}

TypeOK ==
  /\ breaker \in Breakers
  /\ pc \in [Threads -> Reading \cup Waiting \cup Recording]
  /\ \A t \in Watchers : pc[t] \in Reading
  /\ copy \in [Threads -> 0 .. Threshold]
  /\ healthy \in BOOLEAN
  /\ raced \in BOOLEAN
  /\ sinceCall \in 0 .. ResetAfter

Init ==
  /\ breaker = NewBreaker
  /\ pc = [t \in Threads |-> "out"]
  /\ copy = [t \in Threads |-> 0]
  /\ healthy = TRUE
  /\ raced = FALSE
  /\ sinceCall = ResetAfter

-----------------------------------------------------------------------------
\* t has begun a method and not ended it
Inside(t) == pc[t] \notin {"out", "sent", "hurt", "reset", "count"}
Alone(t) == \A u \in Threads \ {t} : ~Inside(u)

Goes(t, from, to) == pc[t] = from /\ pc' = [pc EXCEPT ![t] = to]
Overlaps(t) == raced' = (raced \/ ~Alone(t))

\* Faulty variants of the steps below, for testing the properties: a success
\* leaves the count as it is, the state is half open one tick too early or never,
\* a failed probe is no failure, _opened_at is set to the end of the period.
ResetNothing(t) ==
  /\ Goes(t, "reset", "close")
  /\ raced' = ~Alone(t)
  /\ UNCHANGED <<breaker, copy, healthy, sinceCall>>

ElapsedTooEarly(t) ==
  /\ Goes(t, "elapsed", IF breaker.since + 1 >= ResetAfter THEN "halve" ELSE "return")
  /\ Overlaps(t)
  /\ UNCHANGED <<breaker, copy, healthy, sinceCall>>

ElapsedNever(t) ==
  /\ Goes(t, "elapsed", "return")
  /\ Overlaps(t)
  /\ UNCHANGED <<breaker, copy, healthy, sinceCall>>

TestForgiving(t) ==
  /\ Goes(t, "test", IF breaker.state = "half_open" THEN "out" ELSE "compare")
  /\ Overlaps(t)
  /\ UNCHANGED <<breaker, copy, healthy, sinceCall>>

StampDeadline(t) ==
  /\ Goes(t, "stamp", "out")
  /\ breaker' = [breaker EXCEPT !.since = 0 - ResetAfter]
  /\ Overlaps(t)
  /\ UNCHANGED <<copy, healthy, sinceCall>>

-----------------------------------------------------------------------------
(* before_call and status: the property "state" *)

\* if self._state == OPEN
Read(t) ==
  /\ Goes(t, "out", IF breaker.state = "open" THEN "elapsed" ELSE "return")
  /\ Overlaps(t)
  /\ UNCHANGED <<breaker, copy, healthy, sinceCall>>

\* if time.monotonic() - self._opened_at >= self._reset_after
Elapsed(t) ==
  /\ Goes(t, "elapsed", IF breaker.since >= ResetAfter THEN "halve" ELSE "return")
  /\ Overlaps(t)
  /\ UNCHANGED <<breaker, copy, healthy, sinceCall>>

\* self._state = HALF_OPEN, whatever it is by now
Halve(t) ==
  /\ Goes(t, "halve", "return")
  /\ breaker' = [breaker EXCEPT !.state = "half_open"]
  /\ Overlaps(t)
  /\ UNCHANGED <<copy, healthy, sinceCall>>

\* return self._state, which is read again: "open" raises CircuitOpenError
Refuse(t) ==
  /\ Goes(t, "return", "out")
  /\ t \in Watchers \/ breaker.state = "open"
  /\ Overlaps(t)
  /\ UNCHANGED <<breaker, copy, healthy, sinceCall>>

\* ... anything else lets the caller through, and the POST is on its way
Send(c) ==
  /\ c \in Callers /\ breaker.state # "open"
  /\ Goes(c, "return", IF healthy THEN "sent" ELSE "hurt")
  /\ sinceCall' = 0
  /\ Overlaps(c)
  /\ UNCHANGED <<breaker, copy, healthy>>

(* The answer: on_success or on_failure is called *)

\* 2xx
Accepted(c) ==
  /\ healthy
  /\ Goes(c, "sent", "reset") \/ Goes(c, "hurt", "reset")
  /\ UNCHANGED <<breaker, copy, healthy, raced, sinceCall>>

\* any other status, a timeout or a network error: the endpoint was not well
\* at some moment of the request
NotAccepted(c) ==
  /\ Goes(c, "hurt", "count")
  /\ UNCHANGED <<breaker, copy, healthy, raced, sinceCall>>

(* on_success *)

\* self._failures = 0: what overlapped before has no effect any more, unless
\* another thread is still inside a method
Reset(t) ==
  /\ Goes(t, "reset", "close")
  /\ breaker' = [breaker EXCEPT !.failures = 0]
  /\ raced' = ~Alone(t)
  /\ UNCHANGED <<copy, healthy, sinceCall>>

\* self._state = CLOSED
Close(t) ==
  /\ Goes(t, "close", "out")
  /\ breaker' = [breaker EXCEPT !.state = "closed"]
  /\ Overlaps(t)
  /\ UNCHANGED <<copy, healthy, sinceCall>>

(* on_failure *)

\* self._failures += 1: the read
Count(t) ==
  /\ Goes(t, "count", "store")
  /\ copy' = [copy EXCEPT ![t] = breaker.failures]
  /\ Overlaps(t)
  /\ UNCHANGED <<breaker, healthy, sinceCall>>

\* ... and the write
Store(t) ==
  /\ Goes(t, "store", "test")
  /\ breaker' = [breaker EXCEPT !.failures = IF copy[t] < Threshold THEN copy[t] + 1 ELSE copy[t]]
  /\ copy' = [copy EXCEPT ![t] = 0]
  /\ Overlaps(t)
  /\ UNCHANGED <<healthy, sinceCall>>

\* if self._state == HALF_OPEN
Test(t) ==
  /\ Goes(t, "test", IF breaker.state = "half_open" THEN "trip" ELSE "compare")
  /\ Overlaps(t)
  /\ UNCHANGED <<breaker, copy, healthy, sinceCall>>

\* or self._failures >= self._threshold
Compare(t) ==
  /\ Goes(t, "compare", IF breaker.failures >= Threshold THEN "trip" ELSE "out")
  /\ Overlaps(t)
  /\ UNCHANGED <<breaker, copy, healthy, sinceCall>>

\* self._state = OPEN
Trip(t) ==
  /\ Goes(t, "trip", "stamp")
  /\ breaker' = [breaker EXCEPT !.state = "open"]
  /\ Overlaps(t)
  /\ UNCHANGED <<copy, healthy, sinceCall>>

\* self._opened_at = time.monotonic()
Stamp(t) ==
  /\ Goes(t, "stamp", "out")
  /\ breaker' = [breaker EXCEPT !.since = 0]
  /\ Overlaps(t)
  /\ UNCHANGED <<copy, healthy, sinceCall>>

-----------------------------------------------------------------------------
Tick ==
  /\ breaker' = Older(breaker)
  /\ sinceCall' = Later(sinceCall)
  /\ UNCHANGED <<pc, copy, healthy, raced>>

\* A request that is under way when the endpoint fails may fail with it
EndpointTurns ==
  /\ healthy' = ~healthy
  /\ pc' = [t \in Threads |-> IF healthy /\ pc[t] = "sent" THEN "hurt" ELSE pc[t]]
  /\ UNCHANGED <<breaker, copy, raced, sinceCall>>

State(t)   == Elapsed(t) \/ Halve(t) \/ Refuse(t) \/ Send(t)
Success(t) == Reset(t) \/ Close(t)
Failure(t) == Count(t) \/ Store(t) \/ Test(t) \/ Compare(t) \/ Trip(t) \/ Stamp(t)
Answer(c)  == Accepted(c) \/ NotAccepted(c)

Next ==
  \/ \E t \in Threads : Read(t) \/ State(t) \/ Answer(t) \/ Success(t) \/ Failure(t)
  \/ Tick
  \/ EndpointTurns

Spec == Init /\ [][Next]_vars

\* Time passes, a thread inside a method goes on, a request is answered or times
\* out, and there is always a trade to notify.
FairSpec ==
  /\ Spec
  /\ WF_vars(Tick)
  /\ \A t \in Threads : WF_vars(State(t) \/ Success(t) \/ Failure(t))
  /\ \A c \in Callers : WF_vars(Read(c)) /\ WF_vars(Answer(c))

-----------------------------------------------------------------------------
(* Properties *)

\* As long as no two methods overlap (as in the deployed worker), and again
\* after a success that nobody overlapped, the breaker at rest has left
\* "closed" exactly when the failures since the last success have reached the
\* threshold, in whatever order late answers come (on_success, on_failure).
AtRest == \A t \in Threads : ~Inside(t)
TrippedAtThreshold ==
  ~raced /\ AtRest => (breaker.state = "closed" <=> breaker.failures < Threshold)

\* ... and while the breaker is tripped a request starts at least
\* reset_after_seconds after the one before it, unless the answer to a request
\* is still awaited or being recorded: before_call lets every caller of a
\* half-open breaker through, so that "one probe request allowed" holds for one
\* caller at a time.
Starts == \E c \in Callers : pc[c] = "return" /\ pc'[c] \in Waiting
Calling == {c \in Callers : pc[c] \notin Reading}
ProbesAreSpaced ==
  [][ ~raced /\ Starts /\ breaker.failures = Threshold
        => sinceCall >= ResetAfter \/ Calling # {} ]_vars

\* However the statements of threads interleave, an endpoint that recovers for
\* good is used again for good: no lost count, late failure or stale write leaves
\* the breaker open or half open (the property "state" alone leaves OPEN).
ClosesAfterRecovery == <>[]healthy => <>[](breaker.state = "closed")

\* However they interleave, an endpoint that stays down has the breaker opened
\* again and again: increments of _failures may get lost, but not for ever, and
\* no probe leaves it half open (on_failure).
OpensInOutages == <>[]~healthy => []<>(breaker.state = "open")
=============================================================================
