----------------------------- MODULE Ingestion -----------------------------
(***************************************************************************)
(* From a price tick to a trade: ingest_tick and what it calls, for one    *)
(* security.                                                               *)
(*                                                                         *)
(*   live feed    every tick received starts a task of its own; tasks      *)
(*                interleave at each call to Redis                         *)
(*   replay       POST /debug/replay feeds the lines of a file, one after  *)
(*                the other, into the same ingest_tick                     *)
(*   Redis        the price window (a sorted set with a TTL) and the       *)
(*                cooldown key                                             *)
(*   dispatch     a background task per signal stores the trade            *)
(*                                                                         *)
(* The sorted set is the set of its members, an entry's score being its    *)
(* timestamp.  Redis runs one command at a time; the ZADD and the          *)
(* ZREMRANGEBYSCORE of append are two of them, sent together but not as a  *)
(* transaction.  The clock of the TTLs and of live ticks is the real one;  *)
(* the timestamps of a file are whatever the file says.                    *)
(***************************************************************************)
EXTENDS Integers, Sequences

CONSTANTS
  LiveTicks,     \* bound: the ticks the feed delivers, each one a task
  Replayer,      \* the task of the replay request's current line
  Prices,        \* prices the feed may report
  File,          \* the lines of the replay file, records of ts and ltp
  Replays,       \* bound: replay requests, one at a time
  Window,        \* WINDOW_SECONDS
  Cooldown,      \* COOLDOWN_SECONDS
  KeyTTL,        \* KEY_TTL_SECONDS
  Lag,           \* assumption: how long a live tick may be on its way
  Start, End,    \* bound: the clock runs from Start to End
  Faults         \* bound: calls to Redis or Postgres that fail, processes that end

ASSUME TimesAssumption ==
  /\ {Window, Cooldown, KeyTTL} \subseteq Nat \ {0}
  /\ {Lag, Start, End, Faults, Replays} \subseteq Nat
  /\ Lag < Window /\ Window <= KeyTTL
  /\ Start <= End

ASSUME TicksAssumption ==
  /\ Replayer \notin LiveTicks
  /\ Prices \subseteq Nat
  /\ File \in Seq([ts : Nat, ltp : Nat])

Tasks   == LiveTicks \cup {Replayer}
Entries == [ts : Nat, ltp : Nat]
Signals == [tick : Entries, ref : Entries, at : Start .. End]

VARIABLES
  now,          \* the real clock
  window,       \* Redis: the members of price_window:<id>
  ttl,          \* Redis: what is left of the time to live of that key
  cooldown,     \* Redis: what is left of cooldown:<id>, 0 if there is none
  pc,           \* the next step of each task
  tick,         \* the tick each task is about
  ref,          \* P(t-60) as the task read it; a set, empty for None
  dispatched,   \* signals whose trade is still to be stored
  trades,       \* Postgres: the signals that became trades
  line,         \* the replay request's current line, 0 if there is no request
  replays,      \* what is left of the bound
  faults,       \* what is left of the bound
  sinceSignal,  \* history: time since a signal was last emitted
  started       \* history: timestamps of live ticks seen

redis   == <<window, ttl, cooldown>>
tasks   == <<pc, tick, ref>>
signals == <<dispatched, trades, sinceSignal>>
request == <<line, replays>>
vars == <<now, redis, tasks, signals, request, faults, started>>

TypeOK ==
  /\ now \in Start .. End
  /\ window \subseteq Entries
  /\ ttl \in 0 .. KeyTTL
  /\ cooldown \in 0 .. Cooldown
  /\ pc \in [Tasks -> {"free", "add", "evict", "read", "claim", "done"}]
  /\ tick \in [Tasks -> Entries]
  /\ ref \in [Tasks -> SUBSET Entries]
  /\ dispatched \cup trades \subseteq Signals
  /\ line \in 0 .. Len(File) + 1
  /\ replays \in 0 .. Replays
  /\ faults \in 0 .. Faults
  /\ sinceSignal \in 0 .. Cooldown
  /\ started \subseteq Start .. End

NoTick == [ts |-> 0, ltp |-> 0]

Init ==
  /\ now = Start
  /\ window = {} /\ ttl = 0 /\ cooldown = 0
  /\ pc = [k \in Tasks |-> "free"]
  /\ tick = [k \in Tasks |-> NoTick]
  /\ ref = [k \in Tasks |-> {}]
  /\ dispatched = {} /\ trades = {}
  /\ line = 0 /\ replays = Replays
  /\ faults = Faults
  /\ sinceSignal = Cooldown
  /\ started = {}

-----------------------------------------------------------------------------
(* The window, the threshold, the end of a task *)

\* zrangebyscore from the boundary, one entry: the earliest. Entries with the
\* same score are ordered by their text, so any of them may be the first.
References(win, ts) ==
  { e \in win : /\ e.ts >= ts - Window
                /\ \A f \in win : f.ts >= ts - Window => e.ts <= f.ts }

\* at least five per cent, up or down; no signal on a reference of zero
IsSpike(p, r) ==
  /\ r # 0
  /\ \/ 100 * (p - r) >= 5 * r
     \/ 100 * (p - r) <= -5 * r

\* ingest_tick returns
Finish(k) == /\ pc' = [pc EXCEPT ![k] = "done"]
             /\ ref' = [ref EXCEPT ![k] = {}]

-----------------------------------------------------------------------------
(* Faulty variants, for testing the properties *)

\* SET without NX
ClaimWithoutNX(k) ==
  /\ pc[k] = "claim"
  /\ \E r \in ref[k] :
       /\ IsSpike(tick[k].ltp, r.ltp)
       /\ dispatched' = dispatched \cup {[tick |-> tick[k], ref |-> r, at |-> now]}
       /\ cooldown' = Cooldown
       /\ sinceSignal' = 0
       /\ Finish(k)
  /\ UNCHANGED <<now, window, ttl, tick, trades, request, faults, started>>

\* the cooldown is set again by every suppressed spike
SuppressAndProlong(k) ==
  /\ pc[k] = "claim"
  /\ cooldown > 0
  /\ \E r \in ref[k] : IsSpike(tick[k].ltp, r.ltp)
  /\ cooldown' = Cooldown
  /\ Finish(k)
  /\ UNCHANGED <<now, window, ttl, tick, signals, request, faults, started>>

\* eviction leaves the boundary to the read
EvictBefore(k) ==
  /\ pc[k] = "evict"
  /\ window' = { e \in window : e.ts >= tick[k].ts - Window }
  /\ ttl' = IF window' = {} THEN 0 ELSE KeyTTL
  /\ pc' = [pc EXCEPT ![k] = "read"]
  /\ UNCHANGED <<now, cooldown, tick, ref, signals, request, faults, started>>

\* the time to live is extended where it should be set
EvictAndExtend(k) ==
  /\ pc[k] = "evict"
  /\ window' = { e \in window : e.ts > tick[k].ts - Window }
  /\ ttl' = ttl + KeyTTL
  /\ pc' = [pc EXCEPT ![k] = "read"]
  /\ UNCHANGED <<now, cooldown, tick, ref, signals, request, faults, started>>

-----------------------------------------------------------------------------
(* Ticks come in *)

\* _handle_tick stamps the tick with the current time and starts a task
Receive(k, p) ==
  /\ pc[k] = "free"
  /\ tick' = [tick EXCEPT ![k] = [ts |-> now, ltp |-> p]]
  /\ pc' = [pc EXCEPT ![k] = "add"]
  /\ started' = started \cup {now}
  /\ UNCHANGED <<now, redis, ref, signals, request, faults>>

\* The request begins; with reset_window it flushes the window, but not the
\* cooldown. A flush that fails is logged only.
StartReplay(flushed) ==
  /\ replays > 0
  /\ line = 0
  /\ replays' = replays - 1
  /\ line' = 1
  /\ window' = IF flushed THEN {} ELSE window
  /\ ttl' = IF flushed THEN 0 ELSE ttl
  /\ UNCHANGED <<now, cooldown, tasks, signals, faults, started>>

\* the next line goes into ingest_tick
FeedLine ==
  /\ line \in 1 .. Len(File)
  /\ pc[Replayer] = "free"
  /\ tick' = [tick EXCEPT ![Replayer] = File[line]]
  /\ pc' = [pc EXCEPT ![Replayer] = "add"]
  /\ UNCHANGED <<now, redis, ref, signals, request, faults, started>>

\* ingest_tick returned: the line is processed
LineDone ==
  /\ pc[Replayer] = "done"
  /\ line' = line + 1
  /\ pc' = [pc EXCEPT ![Replayer] = "free"]
  /\ UNCHANGED <<now, redis, tick, ref, signals, replays, faults, started>>

EndReplay ==
  /\ line = Len(File) + 1
  /\ line' = 0
  /\ UNCHANGED <<now, redis, tasks, signals, replays, faults, started>>

-----------------------------------------------------------------------------
(* ingest_tick *)

\* PriceWindow.append: ZADD. A key it creates lives without a time limit until the
\* EXPIRE of the next step; the model gives it one at once, and no property tells.
Add(k) ==
  /\ pc[k] = "add"
  /\ window' = window \cup {tick[k]}
  /\ ttl' = IF window = {} THEN KeyTTL ELSE ttl
  /\ pc' = [pc EXCEPT ![k] = "evict"]
  /\ UNCHANGED <<now, cooldown, tick, ref, signals, request, faults, started>>

\* PriceWindow.append: ZREMRANGEBYSCORE up to and with the boundary, EXPIRE
Evict(k) ==
  /\ pc[k] = "evict"
  /\ window' = { e \in window : e.ts > tick[k].ts - Window }
  /\ ttl' = IF window' = {} THEN 0 ELSE KeyTTL
  /\ pc' = [pc EXCEPT ![k] = "read"]
  /\ UNCHANGED <<now, cooldown, tick, ref, signals, request, faults, started>>

\* get_price_at_t_minus_60; without a reference, detect returns None
Read(k) ==
  /\ pc[k] = "read"
  /\ LET found == References(window, tick[k].ts) IN
       IF found = {}
       THEN Finish(k)
       ELSE \E r \in found : /\ ref' = [ref EXCEPT ![k] = {r}]
                             /\ pc' = [pc EXCEPT ![k] = "claim"]
  /\ UNCHANGED <<now, redis, tick, signals, request, faults, started>>

\* within the normal range
NoSpike(k) ==
  /\ pc[k] = "claim"
  /\ \A r \in ref[k] : ~IsSpike(tick[k].ltp, r.ltp)
  /\ Finish(k)
  /\ UNCHANGED <<now, redis, tick, signals, request, faults, started>>

\* set_cooldown finds the key: the signal is suppressed
Suppress(k) ==
  /\ pc[k] = "claim"
  /\ cooldown > 0
  /\ \E r \in ref[k] : IsSpike(tick[k].ltp, r.ltp)
  /\ Finish(k)
  /\ UNCHANGED <<now, redis, tick, signals, request, faults, started>>

\* set_cooldown claims the key: the signal is emitted and dispatched
Emit(k) ==
  /\ pc[k] = "claim"
  /\ cooldown = 0
  /\ \E r \in ref[k] :
       /\ IsSpike(tick[k].ltp, r.ltp)
       /\ dispatched' = dispatched \cup {[tick |-> tick[k], ref |-> r, at |-> now]}
  /\ cooldown' = Cooldown
  /\ sinceSignal' = 0
  /\ Finish(k)
  /\ UNCHANGED <<now, window, ttl, tick, trades, request, faults, started>>

\* A call to Redis raises: ingest_tick logs the error and drops the tick. The
\* command may have been executed.
RedisFails(k) ==
  /\ faults > 0
  /\ faults' = faults - 1
  /\ pc[k] \in {"add", "evict", "read", "claim"}
  /\ window' \in {window, IF pc[k] = "add" THEN window \cup {tick[k]} ELSE window}
  /\ ttl' = IF window = {} /\ window' # {} THEN KeyTTL ELSE ttl
  /\ cooldown' \in {cooldown} \cup
       (IF pc[k] = "claim" /\ cooldown = 0 /\ \E r \in ref[k] : IsSpike(tick[k].ltp, r.ltp)
        THEN {Cooldown} ELSE {})
  /\ Finish(k)
  /\ UNCHANGED <<now, tick, signals, request, started>>

-----------------------------------------------------------------------------
(* The background task and the passing of time *)

\* _dispatch_signal and handle_signal: the trade is committed
Store(s) ==
  /\ s \in dispatched
  /\ dispatched' = dispatched \ {s}
  /\ trades' = trades \cup {s}
  /\ UNCHANGED <<now, redis, tasks, sinceSignal, request, faults, started>>

\* handle_signal rolls back, or the session cannot be opened: logged only
StoreFails(s) ==
  /\ s \in dispatched
  /\ faults > 0
  /\ faults' = faults - 1
  /\ dispatched' = dispatched \ {s}
  /\ UNCHANGED <<now, redis, tasks, trades, sinceSignal, request, started>>

\* An API process ends, in a crash or a shutdown, and with it tasks and signals:
\* nobody keeps or awaits them. Window and cooldown are Redis's and stay.
ProcessEnds(K, S) ==
  /\ faults > 0
  /\ faults' = faults - 1
  /\ pc' = [k \in Tasks |-> IF k \notin K THEN pc[k] ELSE IF k = Replayer THEN "free" ELSE "done"]
  /\ ref' = [k \in Tasks |-> IF k \in K THEN {} ELSE ref[k]]
  /\ line' = IF Replayer \in K THEN 0 ELSE line
  /\ dispatched' = dispatched \ S
  /\ UNCHANGED <<now, redis, tick, trades, sinceSignal, replays, started>>

OnItsWay(k) == pc[k] \in {"add", "evict", "read", "claim"}

\* The commands of one append reach Redis together; a live tick is processed
\* within Lag.
Tick ==
  /\ now < End
  /\ \A k \in Tasks : pc[k] # "evict"
  /\ \A k \in LiveTicks : OnItsWay(k) => now < tick[k].ts + Lag
  /\ now' = now + 1
  /\ ttl' = IF ttl > 0 THEN ttl - 1 ELSE 0
  /\ window' = IF ttl = 1 THEN {} ELSE window
  /\ cooldown' = IF cooldown > 0 THEN cooldown - 1 ELSE 0
  /\ sinceSignal' = IF sinceSignal < Cooldown THEN sinceSignal + 1 ELSE sinceSignal
  /\ UNCHANGED <<tasks, dispatched, trades, request, faults, started>>

Ingest(k) == \/ Add(k) \/ Evict(k) \/ Read(k)
             \/ NoSpike(k) \/ Suppress(k) \/ Emit(k) \/ RedisFails(k)

Next ==
  \/ \E k \in LiveTicks, p \in Prices : Receive(k, p)
  \/ \E flushed \in BOOLEAN : StartReplay(flushed)
  \/ FeedLine \/ LineDone \/ EndReplay
  \/ \E k \in Tasks : Ingest(k)
  \/ \E s \in dispatched : Store(s) \/ StoreFails(s)
  \/ \E K \in SUBSET {k \in Tasks : pc[k] # "free"}, S \in SUBSET dispatched : ProcessEnds(K, S)
  \/ Tick

Spec == Init /\ [][Next]_vars

-----------------------------------------------------------------------------
(* Properties *)

\* Only the live feed, or only replays, so far.
OneSource == started = {} \/ replays = Replays

\* As long as one source feeds the security, the price a tick is compared with
\* was reported less than 60 seconds before it, and not after it (append,
\* get_price_at_t_minus_60): although append is no transaction and a late
\* task's boundary lies behind one already applied, no task loses its own entry
\* to another's eviction before it has read its reference, and the entry exactly
\* 60 seconds old, which the read would take, is always gone by then. A replay
\* beside the live feed breaks this: live ticks evict its lines, and its reset
\* empties the window under them.
ReferenceIsEarlier ==
  OneSource => \A k \in Tasks : pc[k] = "claim" =>
    \A r \in ref[k] : tick[k].ts - Window < r.ts /\ r.ts <= tick[k].ts

Emits == \E s \in dispatched' : s \notin dispatched

\* At most one signal per cooldown, however many ticks are in flight, from the
\* feed and from a replay, and whatever Redis fails to answer.
SignalsAreApart == [][ Emits => sinceSignal >= Cooldown ]_vars

\* A spike is suppressed only in favour of a trade, stored or about to be, of a
\* signal within the cooldown; without any only after a failure: a claim of the
\* cooldown that went unanswered, a trade that could not be stored, a process that
\* ended before it was (set_cooldown, _dispatch_signal).
Suppresses(k) ==
  /\ pc[k] = "claim" /\ pc'[k] = "done"
  /\ \E r \in ref[k] : IsSpike(tick[k].ltp, r.ltp)
  /\ ~Emits
SuppressionHasACause ==
  [][ \A k \in Tasks : Suppresses(k) =>
        (\E s \in dispatched \cup trades : now < s.at + Cooldown) \/ faults' < Faults ]_vars

\* "The first 60 seconds of live data produce no signals" (README, detector).
NoSignalOnColdStart ==
  \A s \in dispatched \cup trades : \E u \in started : u <= s.tick.ts - Window
=============================================================================
