------------------------------ MODULE Breaker ------------------------------
(***************************************************************************)
(* The state of one CircuitBreaker object, and what each method makes of   *)
(* it from its first statement to its last when no other method overlaps   *)
(* it: so it is in a process with one thread.  CircuitBreaker has the      *)
(* statements one by one.  A breaker is a record                           *)
(*                                                                         *)
(*   state     _state                                                      *)
(*   failures  _failures; it is only ever compared with the threshold, so  *)
(*             it stops growing there                                      *)
(*   since     the time since _opened_at, in ticks; it is only ever        *)
(*             compared with reset_after_seconds, so it stops there        *)
(***************************************************************************)
EXTENDS Integers

CONSTANTS
  Threshold,    \* WEBHOOK_CIRCUIT_BREAKER_THRESHOLD
  ResetAfter    \* WEBHOOK_CIRCUIT_BREAKER_RESET_SECONDS, in ticks

ASSUME BreakerAssumption == Threshold \in Nat \ {0} /\ ResetAfter \in Nat \ {0}

Breakers == [state    : {"closed", "open", "half_open"},
             failures : 0 .. Threshold,
             since    : 0 .. ResetAfter]

\* __init__; _opened_at = 0.0 lies before every use of the breaker
NewBreaker == [state |-> "closed", failures |-> 0, since |-> ResetAfter]

\* a clock that stops at its last interesting reading
Later(n) == IF n < ResetAfter THEN n + 1 ELSE n
Older(b) == [b EXCEPT !.since = Later(@)]

\* A faulty variant for testing the properties: _state is read where the
\* property should be
SeenRaw(b) == b

\* the property "state": reading it is what turns an open breaker half open
Seen(b) ==
  IF b.state = "open" /\ b.since >= ResetAfter
  THEN [b EXCEPT !.state = "half_open"]
  ELSE b

\* before_call raises CircuitOpenError
Refuses(b) == Seen(b).state = "open"

OnSuccess(b) == [state |-> "closed", failures |-> 0, since |-> b.since]

OnFailure(b) ==
  IF b.state = "half_open" \/ b.failures + 1 >= Threshold
  THEN [state |-> "open", failures |-> Threshold, since |-> 0]
  ELSE [b EXCEPT !.failures = @ + 1]
=============================================================================
