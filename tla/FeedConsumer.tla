---------------------------- MODULE FeedConsumer ----------------------------
(***************************************************************************)
(* DhanFeedConsumer: the connection loop with its backoff, the watchdog,   *)
(* stop(), and the cancellation by the application's shutdown.             *)
(*                                                                         *)
(* The loop is a task that gives way only where it awaits: while           *)
(* connecting, while polling the session, and during the backoff.  What it *)
(* does between two awaits is one step.                                    *)
(*                                                                         *)
(* A tick of the clock is RECONNECT_BASE_S.                                *)
(***************************************************************************)
EXTENDS Integers

CONSTANTS
  MaxDelay,       \* RECONNECT_MAX_S
  ReconnectAfter, \* WATCHDOG_RECONNECT_S
  ClockOffset     \* what datetime.timestamp() shows when loop.time() shows 0

ASSUME ConsumerAssumption ==
  /\ MaxDelay \in Nat \ {0}
  /\ ReconnectAfter \in Nat \ {0}
  /\ ClockOffset \in Nat

VARIABLES
  loop,      \* where start() is: not called, at the head of the while, awaiting, or over
  state,     \* the published state
  running,   \* _running
  delay,     \* _reconnect_delay
  wait,      \* what is left of the present wait
  forced,    \* _force_reconnect is set
  watchdog,  \* the watchdog task: none, running, or over
  seen,      \* _last_tick_time is not zero
  silence,   \* time since _last_tick_time
  installed, \* whether the dhanhq package can be imported
  failures,  \* history: failures in a row since the feed was last connected
  told       \* history: stop() was called, or the task of start() cancelled

session == <<running, watchdog, seen, silence, installed, told>>
vars == <<loop, state, delay, wait, forced, failures, session>>

TypeOK ==
  /\ loop \in {"new", "head", "connecting", "connected", "waiting", "over"}
  /\ state \in {"stopped", "connecting", "connected", "reconnecting"}
  /\ running \in BOOLEAN
  /\ delay \in 1 .. MaxDelay
  /\ wait \in 0 .. MaxDelay
  /\ forced \in BOOLEAN
  /\ watchdog \in {"none", "running", "over"}
  /\ seen \in BOOLEAN
  /\ silence \in 0 .. ReconnectAfter
  /\ installed \in BOOLEAN
  /\ failures \in 0 .. MaxDelay
  /\ told \in BOOLEAN

Init ==
  /\ loop = "new" /\ state = "stopped" /\ running = FALSE
  /\ delay = 1 /\ wait = 0 /\ forced = FALSE
  /\ watchdog = "none" /\ seen = FALSE /\ silence = 0
  /\ installed \in BOOLEAN
  /\ failures = 0 /\ told = FALSE

-----------------------------------------------------------------------------
Smaller(m, n) == IF m < n THEN m ELSE n

\* failures are counted until the delay has certainly reached its cap
OneMore(n) == IF n < MaxDelay THEN n + 1 ELSE n

\* The end of a round: leave the loop if stopped, else wait for the delay
WaitOrLeave ==
  IF running THEN loop' = "waiting" /\ wait' = delay
             ELSE loop' = "over" /\ UNCHANGED wait

\* Faulty variants of the actions below, for testing the properties: the delay is
\* not reset, the loop does not look at _running, it ends itself at the longest
\* delay, the delay has no cap.
ConnectKeepingDelay ==
  /\ loop = "connecting" /\ installed
  /\ loop' = "connected" /\ state' = "connected" /\ failures' = 0
  /\ UNCHANGED <<delay, wait, forced, session>>

ConnectingUnchecked ==
  /\ loop = "head"
  /\ state' = "connecting"
  /\ forced' = FALSE
  /\ loop' = "connecting"
  /\ wait' = IF installed THEN wait ELSE MaxDelay
  /\ UNCHANGED <<delay, failures, session>>

WaitOverGivingUp ==
  /\ loop = "waiting"
  /\ forced \/ wait = 0
  /\ loop' = IF delay = MaxDelay THEN "over" ELSE "head"
  /\ delay' = Smaller(2 * delay, MaxDelay)
  /\ UNCHANGED <<state, wait, forced, failures, session>>

WaitOverUncapped ==
  /\ loop = "waiting"
  /\ forced \/ wait = 0
  /\ loop' = "head"
  /\ delay' = 2 * delay
  /\ UNCHANGED <<state, wait, forced, failures, session>>

-----------------------------------------------------------------------------
(* The connection loop *)

StartUp ==
  /\ loop = "new"
  /\ running' = TRUE
  /\ watchdog' = "running"
  /\ loop' = "head"
  /\ UNCHANGED <<state, delay, wait, forced, failures, seen, silence, installed, told>>

Connecting ==
  /\ loop = "head" /\ running
  /\ state' = "connecting"
  /\ forced' = FALSE
  /\ loop' = "connecting"
  /\ wait' = IF installed THEN wait ELSE MaxDelay
  /\ UNCHANGED <<delay, failures, session>>

Leave ==
  /\ loop = "head" /\ ~running
  /\ loop' = "over"
  /\ UNCHANGED <<state, delay, wait, forced, failures, session>>

\* feed.connect() succeeds
Connect ==
  /\ loop = "connecting" /\ installed
  /\ loop' = "connected" /\ state' = "connected" /\ delay' = 1
  /\ failures' = 0
  /\ UNCHANGED <<wait, forced, session>>

\* feed.connect() or get_instrument_data() raises
Disconnect ==
  /\ loop \in {"connecting", "connected"} /\ installed
  /\ state' = "reconnecting"
  /\ failures' = OneMore(failures)
  /\ WaitOrLeave
  /\ UNCHANGED <<delay, forced, session>>

\* Without the package a session is a wait of MaxDelay, and ends cleanly
NoPackage ==
  /\ loop = "connecting" /\ ~installed /\ wait = 0
  /\ delay' = 1
  /\ IF running THEN loop' = "waiting" /\ wait' = 1
                ELSE loop' = "over" /\ UNCHANGED wait
  /\ UNCHANGED <<state, forced, failures, session>>

\* the timeout, or the forced reconnect, ends the backoff
WaitOver ==
  /\ loop = "waiting"
  /\ forced \/ wait = 0
  /\ loop' = "head"
  /\ delay' = Smaller(2 * delay, MaxDelay)
  /\ UNCHANGED <<state, wait, forced, failures, session>>

\* the session polls a tick; _handle_tick notes its time
HandleTick ==
  /\ loop = "connected"
  /\ seen' = TRUE /\ silence' = 0
  /\ UNCHANGED <<loop, state, delay, wait, forced, failures, running, watchdog, installed, told>>

-----------------------------------------------------------------------------
(* The watchdog, the clock, and those who end it all *)

\* loop.time() - _last_tick_time: the two are readings of different clocks
Measured == silence - ClockOffset

Watch ==
  /\ watchdog = "running"
  /\ running /\ seen
  /\ forced' = (forced \/ Measured >= ReconnectAfter)
  /\ UNCHANGED <<loop, state, delay, wait, failures, session>>

Tick ==
  /\ wait' = IF wait > 0 THEN wait - 1 ELSE 0
  /\ silence' = IF seen /\ silence < ReconnectAfter THEN silence + 1 ELSE silence
  /\ UNCHANGED <<loop, state, delay, forced, failures, running, watchdog, seen, installed, told>>

\* stop(): the loop is not cancelled, only told
Stop ==
  /\ running
  /\ running' = FALSE /\ state' = "stopped" /\ watchdog' = "over"
  /\ told' = TRUE
  /\ UNCHANGED <<loop, delay, wait, forced, failures, seen, silence, installed>>

\* The application shuts down: it cancels the task of start()
Cancel ==
  /\ loop \in {"head", "connecting", "connected", "waiting"}
  /\ loop' = "over"
  /\ told' = TRUE
  /\ UNCHANGED <<state, delay, wait, forced, failures, running, watchdog, seen, silence, installed>>

Next ==
  \/ StartUp \/ Connecting \/ Leave \/ Connect \/ Disconnect \/ NoPackage
  \/ WaitOver \/ HandleTick \/ Watch \/ Tick \/ Stop \/ Cancel

Spec == Init /\ [][Next]_vars

\* The tasks are scheduled and time passes. Neither the broker's answers nor
\* ticks are owed, but a connection attempt ends one way or the other; a session
\* may last for ever.
FairSpec ==
  /\ Spec
  /\ WF_vars(StartUp) /\ WF_vars(Connecting) /\ WF_vars(Leave)
  /\ WF_vars(loop = "connecting" /\ (Connect \/ Disconnect)) /\ WF_vars(NoPackage)
  /\ WF_vars(WaitOver) /\ WF_vars(Watch) /\ WF_vars(Tick)

-----------------------------------------------------------------------------
(* Properties *)

\* The wait before the next attempt is the one the schedule gives for the number
\* of failures in a row: 1, 2, 4, ... up to the cap, and 1 again once the feed
\* has been connected (_connection_loop and _connect).
BackoffSchedule ==
  loop = "waiting" =>
    /\ failures = 0 => delay = 1
    /\ failures > 0 => delay = Smaller(2 ^ (failures - 1), MaxDelay)
    /\ wait <= delay

\* A consumer that nobody stops and nobody cancels is connected or tries to connect
\* again and again, however often it fails: it never gives up of its own accord
\* (_connection_loop, "keeps trying until stop() is called").
KeepsTrying == []<>(loop \in {"connecting", "connected"}) \/ <>told

\* A stop() that meets the loop in its back-off ends it: it does not connect once
\* more, whatever wakes it (the head of _connection_loop). Of a stop() during a
\* session nothing is claimed, since the loop looks at _running only between sessions.
StopEndsTheWait == (loop = "waiting" /\ ~running) ~> loop = "over"

\* "Watchdog task: logs WARNING after 30s of silence, reconnects after 5min"
\* (consumer.py): a feed silent for so long is connected anew, ticks again, or
\* has been stopped.
SilentFeedIsReconnected ==
  (loop = "connected" /\ running /\ seen /\ silence = ReconnectAfter)
    ~> (silence < ReconnectAfter \/ loop # "connected" \/ ~running)
=============================================================================
