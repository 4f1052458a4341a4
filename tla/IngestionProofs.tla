-------------------------- MODULE IngestionProofs --------------------------
(***************************************************************************)
(* What holds for any number of ticks in flight, any file, window and      *)
(* price, and any number of failing calls: the types; that signals are a   *)
(* cooldown apart; that a spike is suppressed in favour of a trade; that   *)
(* references are recent.                                                  *)
(***************************************************************************)
EXTENDS Ingestion, SequenceTheorems, TLAPS

\* The key outlives the time that is still to pass since the last signal.
CooldownCovers ==
  /\ cooldown \in 0 .. Cooldown
  /\ sinceSignal \in 0 .. Cooldown
  /\ cooldown + sinceSignal >= Cooldown

LEMMA CooldownNat == Cooldown \in Nat /\ 0 \in 0 .. Cooldown /\ Cooldown \in 0 .. Cooldown
  BY TimesAssumption

LEMMA InitCovers == Init => CooldownCovers
  BY CooldownNat DEF Init, CooldownCovers

LEMMA Unmoved ==
  ASSUME CooldownCovers, cooldown' = cooldown, sinceSignal' = sinceSignal
  PROVE  CooldownCovers'
  BY DEF CooldownCovers

LEMMA NextCovers == CooldownCovers /\ [Next]_vars => CooldownCovers'
<1> SUFFICES ASSUME CooldownCovers, [Next]_vars PROVE CooldownCovers'
  OBVIOUS
<1>1. ASSUME NEW k \in LiveTicks, NEW p \in Prices, Receive(k, p) PROVE CooldownCovers'
  BY <1>1, Unmoved DEF Receive, redis, signals
<1>2. ASSUME NEW flushed \in BOOLEAN, StartReplay(flushed) PROVE CooldownCovers'
  BY <1>2, Unmoved DEF StartReplay, signals
<1>3. CASE FeedLine \/ LineDone \/ EndReplay
  BY <1>3, Unmoved DEF FeedLine, LineDone, EndReplay, redis, signals
<1>4. ASSUME NEW k \in Tasks, Add(k) \/ Evict(k) \/ Read(k) \/ NoSpike(k) \/ Suppress(k)
      PROVE  CooldownCovers'
  BY <1>4, Unmoved DEF Add, Evict, Read, NoSpike, Suppress, redis, signals
<1>5. ASSUME NEW k \in Tasks, Emit(k) PROVE CooldownCovers'
  <2>1. cooldown' = Cooldown /\ sinceSignal' = 0
    BY <1>5 DEF Emit
  <2>2. QED
    BY <2>1, CooldownNat DEF CooldownCovers
<1>6. ASSUME NEW k \in Tasks, RedisFails(k) PROVE CooldownCovers'
  <2>1. (cooldown' = cooldown \/ cooldown' = Cooldown) /\ sinceSignal' = sinceSignal
    BY <1>6 DEF RedisFails, signals
  <2>2. CASE cooldown' = cooldown
    BY <2>1, <2>2, Unmoved
  <2>3. CASE cooldown' = Cooldown
    BY <2>1, <2>3, CooldownNat DEF CooldownCovers
  <2>4. QED
    BY <2>1, <2>2, <2>3
<1>7. ASSUME NEW s \in dispatched, Store(s) \/ StoreFails(s) PROVE CooldownCovers'
  BY <1>7, Unmoved DEF Store, StoreFails, redis
<1>8. ASSUME NEW K, NEW S, ProcessEnds(K, S) PROVE CooldownCovers'
  BY <1>8, Unmoved DEF ProcessEnds, redis
<1>9. CASE Tick
  <2>1. /\ cooldown' = IF cooldown > 0 THEN cooldown - 1 ELSE 0
        /\ sinceSignal' = IF sinceSignal < Cooldown THEN sinceSignal + 1 ELSE sinceSignal
    BY <1>9 DEF Tick
  <2>2. QED
    BY <2>1, CooldownNat DEF CooldownCovers
<1>10. CASE UNCHANGED vars
  BY <1>10, Unmoved DEF vars, redis, signals
<1>11. QED
  BY <1>1, <1>2, <1>3, <1>4, <1>5, <1>6, <1>7, <1>8, <1>9, <1>10 DEF Next, Ingest

-----------------------------------------------------------------------------
\* Only a task that has just claimed the cooldown emits.
LEMMA EmitsOnClaim ==
  ASSUME [Next]_vars, Emits
  PROVE  cooldown = 0
<1>1. ASSUME dispatched' \subseteq dispatched PROVE FALSE
  BY <1>1 DEF Emits
<1>2. ASSUME NEW k \in Tasks, Emit(k) PROVE cooldown = 0
  BY <1>2 DEF Emit
<1>3. ASSUME NEW k \in Tasks,
             Add(k) \/ Evict(k) \/ Read(k) \/ NoSpike(k) \/ Suppress(k) \/ RedisFails(k)
      PROVE  dispatched' = dispatched
  BY <1>3 DEF Add, Evict, Read, NoSpike, Suppress, RedisFails, signals
<1>4. ASSUME NEW s \in dispatched, Store(s) \/ StoreFails(s)
      PROVE  dispatched' \subseteq dispatched
  BY <1>4 DEF Store, StoreFails
<1>5. ASSUME NEW K, NEW S, ProcessEnds(K, S) PROVE dispatched' \subseteq dispatched
  BY <1>5 DEF ProcessEnds
<1>6. ASSUME \/ \E k \in LiveTicks, p \in Prices : Receive(k, p)
             \/ \E flushed \in BOOLEAN : StartReplay(flushed)
             \/ FeedLine \/ LineDone \/ EndReplay \/ Tick \/ UNCHANGED vars
      PROVE  dispatched' = dispatched
  BY <1>6 DEF Receive, StartReplay, FeedLine, LineDone, EndReplay, Tick, vars, signals
<1>7. QED
  BY <1>1, <1>2, <1>3, <1>4, <1>5, <1>6 DEF Next, Ingest

LEMMA EmissionsAreApart ==
  ASSUME CooldownCovers, [Next]_vars, Emits
  PROVE  sinceSignal >= Cooldown
  BY EmitsOnClaim, CooldownNat DEF CooldownCovers

\* Two signals are never closer than the cooldown (set_cooldown's SET NX EX).
THEOREM OneSignalPerCooldown == Spec => SignalsAreApart
<1>1. CooldownCovers /\ [Next]_vars => [Emits => sinceSignal >= Cooldown]_vars
  BY EmissionsAreApart
<1>2. QED
  BY <1>1, InitCovers, NextCovers, PTL DEF Spec, SignalsAreApart

-----------------------------------------------------------------------------
(* Types *)

\* The replay is at a line of its file while its tick is in the pipeline.
LineInFile == pc[Replayer] # "free" => line \in 1 .. Len(File)

Typed == TypeOK /\ LineInFile

LEMMA Constants ==
  /\ Window \in Nat /\ Window > 0 /\ Cooldown \in Nat /\ Cooldown > 0
  /\ KeyTTL \in Nat /\ KeyTTL > 0 /\ KeyTTL >= Window
  /\ Lag \in Nat /\ Lag < Window
  /\ Start \in Nat /\ End \in Nat /\ Start <= End
  /\ Replays \in Nat /\ Faults \in Nat
  /\ Len(File) \in Nat
  /\ \A i \in 1 .. Len(File) : File[i] \in Entries
  /\ Replayer \in Tasks /\ LiveTicks \subseteq Tasks
  /\ Prices \subseteq Nat
<1>1. File \in Seq(Entries)
  BY TicksAssumption DEF Entries
<1>2. /\ Len(File) \in Nat
      /\ \A i \in 1 .. Len(File) : File[i] \in Entries
  BY <1>1, LenProperties, ElementOfSeq
<1>3. QED
  BY <1>2, TimesAssumption, TicksAssumption DEF Tasks

LEMMA InitTyped == Init => Typed
<1> SUFFICES ASSUME Init PROVE Typed
  OBVIOUS
<1>1. NoTick \in Entries
  BY DEF NoTick, Entries
<1>2. TypeOK
  BY <1>1, Constants DEF Init, TypeOK
<1>3. LineInFile
  BY Constants DEF Init, LineInFile
<1> QED
  BY <1>2, <1>3 DEF Typed

\* The steps of ingest_tick keep the types.
LEMMA IngestTyped ==
  ASSUME Typed, NEW k \in Tasks, Ingest(k)
  PROVE  Typed'
<1> USE Constants DEF Typed, TypeOK, LineInFile, Finish, tasks, signals, redis, request
<1>1. CASE Add(k)
  BY <1>1 DEF Add
<1>2. CASE Evict(k)
  BY <1>2 DEF Evict
<1>3. CASE Read(k)
  <2>1. References(window, tick[k].ts) \subseteq Entries
    BY DEF References
  <2>2. QED
    BY <1>3, <2>1 DEF Read
<1>4. CASE NoSpike(k)
  BY <1>4 DEF NoSpike
<1>5. CASE Suppress(k)
  BY <1>5 DEF Suppress
<1>6. CASE Emit(k)
  <2>1. PICK r \in ref[k] : dispatched' = dispatched \cup {[tick |-> tick[k], ref |-> r, at |-> now]}
    BY <1>6 DEF Emit
  <2>2. [tick |-> tick[k], ref |-> r, at |-> now] \in Signals
    BY DEF Signals
  <2>3. QED
    BY <1>6, <2>1, <2>2 DEF Emit
<1>7. CASE RedisFails(k)
  <2>1. window' \subseteq Entries /\ ttl' \in 0 .. KeyTTL /\ cooldown' \in 0 .. Cooldown
    BY <1>7 DEF RedisFails
  <2>2. QED
    BY <1>7, <2>1 DEF RedisFails
<1> QED
  BY <1>1, <1>2, <1>3, <1>4, <1>5, <1>6, <1>7 DEF Ingest

LEMMA NextTyped == Typed /\ [Next]_vars => Typed'
<1> SUFFICES ASSUME Typed, [Next]_vars PROVE Typed'
  OBVIOUS
<1> USE Constants DEF Typed, TypeOK, LineInFile, tasks, signals, redis, request
<1>1. ASSUME NEW k \in LiveTicks, NEW p \in Prices, Receive(k, p) PROVE Typed'
  <2>1. [ts |-> now, ltp |-> p] \in Entries
    BY DEF Entries
  <2>2. k # Replayer
    BY TicksAssumption
  <2>3. QED
    BY <1>1, <2>1, <2>2 DEF Receive
<1>2. ASSUME NEW flushed \in BOOLEAN, StartReplay(flushed) PROVE Typed'
  BY <1>2 DEF StartReplay
<1>3. CASE FeedLine
  BY <1>3 DEF FeedLine
<1>4. CASE LineDone
  BY <1>4 DEF LineDone
<1>5. CASE EndReplay
  BY <1>5 DEF EndReplay
<1>6. ASSUME NEW s \in dispatched, Store(s) \/ StoreFails(s) PROVE Typed'
  <2>1. /\ dispatched' \cup trades' \subseteq Signals
        /\ faults' \in 0 .. Faults
    BY <1>6 DEF Store, StoreFails
  <2>2. UNCHANGED <<now, redis, tasks, sinceSignal, request, started>>
    BY <1>6 DEF Store, StoreFails
  <2>3. QED
    BY <2>1, <2>2
<1>7. ASSUME NEW K, NEW S, ProcessEnds(K, S) PROVE Typed'
  BY <1>7 DEF ProcessEnds
<1>8. CASE Tick
  BY <1>8 DEF Tick
<1>9. CASE UNCHANGED vars
  BY <1>9 DEF vars
<1> QED
  BY <1>1, <1>2, <1>3, <1>4, <1>5, <1>6, <1>7, <1>8, <1>9, IngestTyped DEF Next

\* Clock, window, key, tasks, signals and the replay's line keep their shape.
THEOREM IngestionTypeCorrect == Spec => []TypeOK
<1>1. Typed => TypeOK
  BY DEF Typed
<1>2. QED
  BY <1>1, InitTyped, NextTyped, PTL DEF Spec

-----------------------------------------------------------------------------
(* References are earlier *)

\* A live tick is from the past, and not from long ago while on its way.
Timely == \A k \in LiveTicks :
  /\ pc[k] # "free" => tick[k].ts <= now
  /\ OnItsWay(k) => now <= tick[k].ts + Lag

Earlier(k) == \A r \in ref[k] : tick[k].ts - Window < r.ts /\ r.ts <= tick[k].ts
Kept(k)    == tick[k] \in window
Evicted(k) == \A e \in window : e.ts > tick[k].ts - Window

\* A live task's own entry stays in the window until the task has read its
\* reference; once it has evicted what is too old for it, nothing that old comes
\* back; and the key lives long enough for it to read.
ReadsLive(k) ==
  /\ pc[k] \in {"evict", "read"} => Kept(k)
  /\ pc[k] = "read" => Evicted(k) /\ KeyTTL + tick[k].ts <= ttl + now
  /\ pc[k] = "claim" => Earlier(k)

LiveReads ==
  replays = Replays => line = 0 /\ \A k \in LiveTicks : ReadsLive(k)

\* A replay without live ticks is alone, but its key may expire before it reads.
ReadsAlone ==
  /\ pc[Replayer] = "evict" => Kept(Replayer)
  /\ pc[Replayer] = "read" => window = {} \/ (Kept(Replayer) /\ Evicted(Replayer))
  /\ pc[Replayer] = "claim" => Earlier(Replayer)

ReplayReads ==
  started = {} => ReadsAlone /\ \A k \in LiveTicks : pc[k] = "free"

\* What a step of ingest_tick leaves alone.
LEMMA IngestMoves ==
  ASSUME Typed, NEW k \in Tasks, Ingest(k)
  PROVE  /\ UNCHANGED <<now, tick, line, replays, started>>
         /\ OnItsWay(k) /\ pc'[k] \in {"evict", "read", "claim", "done"}
         /\ \A j \in Tasks \ {k} : pc'[j] = pc[j] /\ ref'[j] = ref[j]
<1> USE DEF Typed, TypeOK, Finish, redis, request, OnItsWay
<1>1. CASE Add(k)
  BY <1>1 DEF Add
<1>2. CASE Evict(k)
  BY <1>2 DEF Evict
<1>3. CASE Read(k)
  BY <1>3 DEF Read
<1>4. CASE NoSpike(k) \/ Suppress(k) \/ Emit(k)
  BY <1>4 DEF NoSpike, Suppress, Emit
<1>5. CASE RedisFails(k)
  BY <1>5 DEF RedisFails
<1> QED
  BY <1>1, <1>2, <1>3, <1>4, <1>5 DEF Ingest

LEMMA NextTimely == Typed /\ Timely /\ [Next]_vars => Timely'
<1> SUFFICES ASSUME Typed, Timely, [Next]_vars PROVE Timely'
  OBVIOUS
<1> USE Constants, TicksAssumption DEF Typed, TypeOK, Timely, OnItsWay, tasks, Entries
<1>1. ASSUME NEW k \in LiveTicks, NEW p \in Prices, Receive(k, p) PROVE Timely'
  BY <1>1 DEF Receive
<1>2. ASSUME NEW k \in Tasks, Ingest(k) PROVE Timely'
  BY <1>2, IngestMoves
<1>3. CASE FeedLine \/ LineDone
  <2>1. now' = now /\ \A k \in LiveTicks : pc'[k] = pc[k] /\ tick'[k] = tick[k]
    BY <1>3 DEF FeedLine, LineDone
  <2>2. QED
    BY <2>1
<1>4. ASSUME NEW K \in SUBSET {k \in Tasks : pc[k] # "free"}, NEW S, ProcessEnds(K, S)
      PROVE  Timely'
  <2>1. /\ tick' = tick /\ now' = now
        /\ \A k \in LiveTicks : pc'[k] = pc[k] \/ (pc[k] # "free" /\ pc'[k] = "done")
    BY <1>4 DEF ProcessEnds
  <2>2. QED
    BY <2>1
<1>5. CASE Tick
  BY <1>5 DEF Tick
<1>6. ASSUME \/ \E flushed \in BOOLEAN : StartReplay(flushed)
             \/ EndReplay \/ UNCHANGED vars
             \/ \E s \in dispatched : Store(s) \/ StoreFails(s)
      PROVE  Timely'
  BY <1>6 DEF StartReplay, EndReplay, Store, StoreFails, vars
<1> QED
  BY <1>1, <1>2, <1>3, <1>4, <1>5, <1>6 DEF Next

\* The reference a task reads from a window with its own entry and nothing older
\* than its boundary was reported within the window before it.
LEMMA ReferencesAreEarlier ==
  ASSUME Typed, NEW k \in Tasks, Kept(k), Evicted(k),
         NEW r \in References(window, tick[k].ts)
  PROVE  tick[k].ts - Window < r.ts /\ r.ts <= tick[k].ts
<1>1. tick[k] \in window /\ window \subseteq Entries
  BY DEF Kept, Typed, TypeOK
<1>2. tick[k].ts \in Nat /\ Window \in Nat /\ tick[k].ts >= tick[k].ts - Window
  BY <1>1, Constants DEF Entries
<1>3. r \in window /\ \A e \in window : e.ts >= tick[k].ts - Window => r.ts <= e.ts
  BY DEF References
<1>4. QED
  BY <1>1, <1>2, <1>3 DEF Evicted

\* A live task on its way is at a tick younger than the window.
LEMMA LiveTicksAreRecent ==
  ASSUME Typed, Timely, NEW i \in LiveTicks, OnItsWay(i)
  PROVE  tick[i].ts > now - Window /\ tick[i].ts <= now
<1>1. tick[i] \in Entries /\ now \in Nat
  BY Constants DEF Typed, TypeOK
<1>2. tick[i].ts <= now /\ now <= tick[i].ts + Lag
  BY DEF Timely, OnItsWay
<1>3. tick[i].ts \in Nat
  BY <1>1 DEF Entries
<1>4. QED
  BY <1>1, <1>2, <1>3, Constants

LEMMA IngestReadsLive ==
  ASSUME Typed, Timely, LiveReads, NEW k \in Tasks, Ingest(k)
  PROVE  LiveReads'
<1> SUFFICES ASSUME replays = Replays, line = 0, \A j \in LiveTicks : ReadsLive(j),
                    NEW j \in LiveTicks
             PROVE  ReadsLive(j)'
  BY IngestMoves DEF LiveReads
<1>a. /\ now \in Nat /\ ttl \in Nat /\ ttl <= KeyTTL
      /\ KeyTTL \in Nat /\ Window \in Nat /\ KeyTTL >= Window
  BY Constants DEF Typed, TypeOK
<1>b. /\ \A i \in LiveTicks : tick[i].ts \in Nat
      /\ \A e \in window : e.ts \in Nat
  BY Constants DEF Typed, TypeOK, Entries
<1>c. pc \in [Tasks -> {"free", "add", "evict", "read", "claim", "done"}]
      /\ ref \in [Tasks -> SUBSET Entries] /\ LiveTicks \subseteq Tasks
  BY Constants DEF Typed, TypeOK
<1>1. k \in LiveTicks /\ OnItsWay(k) /\ UNCHANGED <<now, tick>>
  <2>1. pc[Replayer] = "free"
    BY Constants DEF Typed, LineInFile
  <2>2. QED
    BY <2>1, IngestMoves DEF OnItsWay, Tasks
<1> USE <1>a, <1>b, <1>c DEF OnItsWay
<1>2. \A i \in LiveTicks \ {k} : pc'[i] = pc[i] /\ ref'[i] = ref[i]
  BY IngestMoves
<1>3. \A i \in LiveTicks : OnItsWay(i) => tick[i].ts > now - Window /\ tick[i].ts <= now
  BY LiveTicksAreRecent
<1>4. CASE Add(k)
  <2>1. window' = window \cup {tick[k]} /\ ttl' \in {ttl, KeyTTL} /\ pc'[k] = "evict"
    BY <1>4 DEF Add
  <2>2. pc'[j] \in {"evict", "read"} => Kept(j)'
    BY <1>1, <1>2, <2>1 DEF ReadsLive, Kept
  <2>3. pc'[j] = "read" => Evicted(j)' /\ KeyTTL + tick'[j].ts <= ttl' + now'
    <3> SUFFICES ASSUME pc'[j] = "read" PROVE Evicted(j)' /\ KeyTTL + tick'[j].ts <= ttl' + now'
      OBVIOUS
    <3>1. pc[j] = "read"
      BY <1>1, <1>2, <2>1
    <3>2. tick[j].ts <= now /\ tick[k].ts > tick[j].ts - Window
      BY <1>1, <1>3, <3>1
    <3>3. Evicted(j)'
      BY <1>1, <2>1, <3>1, <3>2 DEF ReadsLive, Evicted
    <3>4. KeyTTL + tick'[j].ts <= ttl' + now'
      BY <1>1, <2>1, <3>1, <3>2 DEF ReadsLive
    <3>5. QED
      BY <3>3, <3>4
  <2>4. pc'[j] = "claim" => Earlier(j)'
    BY <1>1, <1>2, <2>1 DEF ReadsLive, Earlier
  <2>5. QED
    BY <2>2, <2>3, <2>4 DEF ReadsLive
<1>5. CASE Evict(k)
  <2>1. /\ window' = { e \in window : e.ts > tick[k].ts - Window }
        /\ pc[k] = "evict" /\ pc'[k] = "read"
    BY <1>5 DEF Evict
  <2>2. pc'[j] \in {"evict", "read"} => Kept(j)'
    <3> SUFFICES ASSUME pc'[j] \in {"evict", "read"} PROVE Kept(j)'
      OBVIOUS
    <3>1. pc[j] \in {"evict", "read"} /\ tick[j].ts > tick[k].ts - Window
      BY <1>1, <1>2, <1>3, <2>1
    <3>2. QED
      BY <1>1, <2>1, <3>1 DEF ReadsLive, Kept
  <2>3. pc'[j] = "read" => Evicted(j)'
    BY <1>1, <1>2, <2>1 DEF ReadsLive, Evicted
  <2>4. pc'[j] = "read" => KeyTTL + tick'[j].ts <= ttl' + now'
    <3>1. pc'[j] = "read" => ttl' = KeyTTL
      BY <1>5, <2>2 DEF Evict, Kept
    <3>2. OnItsWay(j)' => OnItsWay(j)
      BY <1>1, <1>2, <2>1
    <3>3. QED
      BY <1>1, <1>3, <3>1, <3>2
  <2>5. pc'[j] = "claim" => Earlier(j)'
    BY <1>1, <1>2, <2>1 DEF ReadsLive, Earlier
  <2>6. QED
    BY <2>2, <2>3, <2>4, <2>5 DEF ReadsLive
<1>6. CASE Read(k)
  <2>1. UNCHANGED <<window, ttl>> /\ pc[k] = "read" /\ pc'[k] \in {"done", "claim"}
    BY <1>6 DEF Read, Finish, redis
  <2>2. CASE j = k
    <3>1. Kept(k) /\ Evicted(k)
      BY <2>1, <2>2 DEF ReadsLive
    <3>2. pc'[k] = "claim" => \E r \in References(window, tick[k].ts) : ref'[k] = {r}
      BY <1>6 DEF Read, Finish
    <3>3. pc'[k] = "claim" => Earlier(k)'
      BY <1>1, <3>1, <3>2, ReferencesAreEarlier DEF Earlier
    <3>4. QED
      BY <2>1, <2>2, <3>3 DEF ReadsLive
  <2>3. CASE j # k
    BY <1>1, <1>2, <2>1, <2>3 DEF ReadsLive, Kept, Evicted, Earlier
  <2>4. QED
    BY <2>2, <2>3
<1>7. CASE NoSpike(k) \/ Suppress(k) \/ Emit(k)
  <2>1. UNCHANGED <<window, ttl>> /\ pc'[k] = "done"
    BY <1>7 DEF NoSpike, Suppress, Emit, Finish, redis
  <2>2. QED
    BY <1>1, <1>2, <2>1 DEF ReadsLive, Kept, Evicted, Earlier
<1>8. CASE RedisFails(k)
  <2>1. /\ window' \in {window, window \cup {tick[k]}} /\ pc'[k] = "done"
        /\ ttl' \in {ttl, KeyTTL}
    BY <1>8 DEF RedisFails, Finish
  <2>2. pc'[j] \in {"evict", "read"} => Kept(j)'
    BY <1>1, <1>2, <2>1 DEF ReadsLive, Kept
  <2>3. pc'[j] = "read" => Evicted(j)' /\ KeyTTL + tick'[j].ts <= ttl' + now'
    <3> SUFFICES ASSUME pc'[j] = "read" PROVE Evicted(j)' /\ KeyTTL + tick'[j].ts <= ttl' + now'
      OBVIOUS
    <3>1. pc[j] = "read"
      BY <1>1, <1>2, <2>1
    <3>2. pc[j] = "read" /\ tick[j].ts <= now /\ tick[k].ts > tick[j].ts - Window
      BY <1>1, <1>3, <3>1
    <3>3. Evicted(j)'
      BY <1>1, <2>1, <3>2 DEF ReadsLive, Evicted
    <3>4. KeyTTL + tick'[j].ts <= ttl' + now'
      BY <1>1, <2>1, <3>2 DEF ReadsLive
    <3>5. QED
      BY <3>3, <3>4
  <2>4. pc'[j] = "claim" => Earlier(j)'
    BY <1>1, <1>2, <2>1 DEF ReadsLive, Earlier
  <2>5. QED
    BY <2>2, <2>3, <2>4 DEF ReadsLive
<1> QED
  BY <1>4, <1>5, <1>6, <1>7, <1>8 DEF Ingest

LEMMA TickReadsLive ==
  ASSUME Typed, Timely, LiveReads, Tick
  PROVE  LiveReads'
<1> SUFFICES ASSUME replays = Replays, line = 0, \A j \in LiveTicks : ReadsLive(j),
                    NEW j \in LiveTicks
             PROVE  ReadsLive(j)'
  BY DEF LiveReads, Tick, request
<1> USE Constants DEF Typed, TypeOK, Entries, OnItsWay
<1>1. /\ UNCHANGED <<pc, tick, ref>> /\ now' = now + 1 /\ pc[j] # "evict"
      /\ ttl' = IF ttl > 0 THEN ttl - 1 ELSE 0
      /\ window' = IF ttl = 1 THEN {} ELSE window
  BY DEF Tick, tasks
<1>2. CASE pc[j] = "read"
  <2>1. now < tick[j].ts + Lag /\ KeyTTL + tick[j].ts <= ttl + now
    BY <1>2 DEF Tick, ReadsLive
  <2>2. ttl > 1
    BY <2>1
  <2>3. UNCHANGED window /\ ttl' + now' = ttl + now
    BY <1>1, <2>2
  <2>4. Kept(j)' /\ Evicted(j)'
    BY <1>1, <1>2, <2>3 DEF ReadsLive, Kept, Evicted
  <2>5. QED
    BY <1>1, <1>2, <2>1, <2>3, <2>4 DEF ReadsLive
<1>3. CASE pc[j] # "read"
  BY <1>1, <1>3 DEF ReadsLive, Earlier
<1> QED
  BY <1>2, <1>3

LEMMA NextReadsLive == Typed /\ Timely /\ LiveReads /\ [Next]_vars => LiveReads'
<1> SUFFICES ASSUME Typed, Timely, LiveReads, [Next]_vars PROVE LiveReads'
  OBVIOUS
<1> USE Constants, TicksAssumption
    DEF Typed, TypeOK, LineInFile, LiveReads, ReadsLive, Kept, Evicted, Earlier,
        tasks, redis, request
<1>1. ASSUME NEW k \in LiveTicks, NEW p \in Prices, Receive(k, p) PROVE LiveReads'
  BY <1>1 DEF Receive
<1>2. ASSUME NEW flushed \in BOOLEAN, StartReplay(flushed) PROVE LiveReads'
  BY <1>2 DEF StartReplay
<1>3. CASE FeedLine
  BY <1>3 DEF FeedLine
<1>4. CASE LineDone
  BY <1>4 DEF LineDone
<1>5. CASE EndReplay
  BY <1>5 DEF EndReplay
<1>6. ASSUME NEW s \in dispatched, Store(s) \/ StoreFails(s) PROVE LiveReads'
  BY <1>6 DEF Store, StoreFails
<1>7. ASSUME NEW K, NEW S, ProcessEnds(K, S) PROVE LiveReads'
  <2>1. UNCHANGED <<now, window, ttl, tick, replays>> /\ line' \in {0, line}
    BY <1>7 DEF ProcessEnds
  <2>2. \A k \in LiveTicks : pc'[k] = "done" \/ (pc'[k] = pc[k] /\ ref'[k] = ref[k])
    BY <1>7 DEF ProcessEnds
  <2>3. QED
    BY <2>1, <2>2
<1>8. CASE UNCHANGED vars
  BY <1>8 DEF vars
<1> QED
  BY <1>1, <1>2, <1>3, <1>4, <1>5, <1>6, <1>7, <1>8, IngestReadsLive, TickReadsLive DEF Next

\* Without live ticks only the replay's task takes the steps of ingest_tick.
LEMMA IngestReadsAlone ==
  ASSUME Typed, ReplayReads, NEW k \in Tasks, Ingest(k)
  PROVE  ReplayReads'
<1> SUFFICES ASSUME started = {}, \A j \in LiveTicks : pc[j] = "free", ReadsAlone
             PROVE  /\ \A j \in LiveTicks : pc'[j] = "free"
                    /\ ReadsAlone'
  BY IngestMoves DEF ReplayReads
<1>1. k = Replayer /\ UNCHANGED <<now, tick>>
  BY IngestMoves DEF Tasks, OnItsWay
<1>2. \A j \in LiveTicks : pc'[j] = "free"
  BY <1>1, IngestMoves, TicksAssumption DEF Tasks
<1> USE Constants DEF Typed, TypeOK, Entries
<1>3. CASE Add(k)
  BY <1>1, <1>3 DEF Add, ReadsAlone, Kept
<1>4. CASE Evict(k)
  BY <1>1, <1>4 DEF Evict, ReadsAlone, Kept, Evicted
<1>5. CASE Read(k)
  <2>1. pc[k] = "read" /\ window' = window /\ pc'[k] \in {"done", "claim"}
    BY <1>5 DEF Read, Finish, redis
  <2>2. pc'[k] = "claim" => \E r \in References(window, tick[k].ts) : ref'[k] = {r}
    BY <1>5 DEF Read, Finish
  <2>3. References(window, tick[k].ts) # {} => Kept(k) /\ Evicted(k)
    BY <1>1, <2>1 DEF ReadsAlone, References
  <2>4. pc'[k] = "claim" => Earlier(k)'
    BY <1>1, <2>2, <2>3, ReferencesAreEarlier DEF Earlier
  <2>5. QED
    BY <1>1, <1>2, <2>1, <2>4 DEF ReadsAlone
<1>6. CASE NoSpike(k) \/ Suppress(k) \/ Emit(k) \/ RedisFails(k)
  <2>1. pc'[k] = "done"
    BY <1>6 DEF NoSpike, Suppress, Emit, RedisFails, Finish
  <2>2. QED
    BY <1>1, <1>2, <2>1 DEF ReadsAlone
<1> QED
  BY <1>2, <1>3, <1>4, <1>5, <1>6 DEF Ingest

LEMMA NextReadsAlone == Typed /\ ReplayReads /\ [Next]_vars => ReplayReads'
<1> SUFFICES ASSUME Typed, ReplayReads, [Next]_vars PROVE ReplayReads'
  OBVIOUS
<1> USE Constants, TicksAssumption
    DEF Typed, TypeOK, LineInFile, ReplayReads, ReadsAlone, Kept, Evicted, Earlier,
        tasks, redis, request
<1>1. ASSUME NEW k \in LiveTicks, NEW p \in Prices, Receive(k, p) PROVE ReplayReads'
  BY <1>1 DEF Receive
<1>2. ASSUME NEW flushed \in BOOLEAN, StartReplay(flushed) PROVE ReplayReads'
  BY <1>2 DEF StartReplay
<1>3. CASE FeedLine
  BY <1>3 DEF FeedLine
<1>4. CASE LineDone
  BY <1>4 DEF LineDone
<1>5. CASE EndReplay
  BY <1>5 DEF EndReplay
<1>6. ASSUME NEW s \in dispatched, Store(s) \/ StoreFails(s) PROVE ReplayReads'
  <2>1. UNCHANGED <<window, pc, tick, ref, started>>
    BY <1>6 DEF Store, StoreFails
  <2>2. QED
    BY <2>1
<1>7. ASSUME NEW K \in SUBSET {k \in Tasks : pc[k] # "free"}, NEW S, ProcessEnds(K, S)
      PROVE  ReplayReads'
  <2>1. UNCHANGED <<window, tick, started>>
    BY <1>7 DEF ProcessEnds
  <2>2. pc'[Replayer] = "free" \/ (pc'[Replayer] = pc[Replayer] /\ ref'[Replayer] = ref[Replayer])
    BY <1>7 DEF ProcessEnds
  <2>3. \A k \in LiveTicks : pc[k] = "free" => pc'[k] = "free"
    BY <1>7 DEF ProcessEnds
  <2>4. QED
    BY <2>1, <2>2, <2>3
<1>8. CASE Tick
  <2>1. UNCHANGED <<pc, tick, ref, started>> /\ window' \in {{}, window} /\ pc[Replayer] # "evict"
    BY <1>8 DEF Tick
  <2>2. QED
    BY <2>1
<1>9. CASE UNCHANGED vars
  BY <1>9 DEF vars
<1> QED
  BY <1>1, <1>2, <1>3, <1>4, <1>5, <1>6, <1>7, <1>8, <1>9, IngestReadsAlone DEF Next

\* With one source, a tick is only compared with a price reported less than the
\* window before it and not after it (append, get_price_at_t_minus_60).
THEOREM ReferencesAreRecent == Spec => []ReferenceIsEarlier
<1>1. Init => Timely /\ LiveReads /\ ReplayReads
  BY Constants, TicksAssumption
  DEF Init, Timely, OnItsWay, LiveReads, ReadsLive, ReplayReads, ReadsAlone, Tasks
<1>2. ASSUME Typed, LiveReads, ReplayReads PROVE ReferenceIsEarlier
  <2>1. ASSUME OneSource, NEW k \in Tasks, pc[k] = "claim" PROVE Earlier(k)
    <3>1. CASE started = {}
      BY <1>2, <2>1, <3>1 DEF ReplayReads, ReadsAlone, Tasks
    <3>2. CASE replays = Replays
      <4>1. k \in LiveTicks
        BY <1>2, <2>1, <3>2 DEF Typed, LineInFile, LiveReads, Tasks
      <4>2. QED
        BY <1>2, <2>1, <3>2, <4>1 DEF LiveReads, ReadsLive
    <3>3. QED
      BY <2>1, <3>1, <3>2 DEF OneSource
  <2>2. QED
    BY <2>1 DEF ReferenceIsEarlier, Earlier
<1>3. QED
  BY <1>1, <1>2, InitTyped, NextTyped, NextTimely, NextReadsLive, NextReadsAlone, PTL DEF Spec

-----------------------------------------------------------------------------
(* A suppression has a cause *)

\* While the cooldown key lives, it is the key of a signal whose trade is stored
\* or about to be, unless something failed.
Covered ==
  cooldown > 0 =>
    \/ faults < Faults
    \/ \E s \in dispatched \cup trades : now + cooldown <= s.at + Cooldown

LEMMA NextCovered == Typed /\ Covered /\ [Next]_vars => Covered'
<1> SUFFICES ASSUME Typed, Covered, [Next]_vars PROVE Covered'
  OBVIOUS
<1> USE Constants DEF Typed, TypeOK, tasks, redis, request, signals
<1>1. ASSUME UNCHANGED <<now, cooldown, dispatched, trades, faults>> PROVE Covered'
  BY <1>1 DEF Covered
<1>2. ASSUME faults' = faults - 1 PROVE Covered'
  BY <1>2 DEF Covered
<1>3. ASSUME NEW k \in Tasks, Emit(k) PROVE Covered'
  <2>1. PICK r \in ref[k] : dispatched' = dispatched \cup {[tick |-> tick[k], ref |-> r, at |-> now]}
    BY <1>3 DEF Emit
  <2> DEFINE s == [tick |-> tick[k], ref |-> r, at |-> now]
  <2>2. s \in dispatched' /\ s.at = now
    BY <2>1
  <2>3. cooldown' = Cooldown /\ now' = now
    BY <1>3 DEF Emit
  <2>4. QED
    BY <2>2, <2>3 DEF Covered
<1>4. ASSUME NEW s \in dispatched, Store(s) PROVE Covered'
  <2>1. dispatched' \cup trades' = dispatched \cup trades
    BY <1>4 DEF Store
  <2>2. UNCHANGED <<now, cooldown, faults>>
    BY <1>4 DEF Store
  <2>3. QED
    BY <2>1, <2>2 DEF Covered
<1>5. CASE Tick
  <2>1. /\ now' = now + 1 /\ UNCHANGED <<dispatched, trades, faults>>
        /\ cooldown' = IF cooldown > 0 THEN cooldown - 1 ELSE 0
    BY <1>5 DEF Tick
  <2>2. ASSUME cooldown > 0 PROVE now' + cooldown' = now + cooldown
    BY <2>1, <2>2
  <2>3. QED
    BY <2>1, <2>2 DEF Covered
<1>6. ASSUME NEW k \in Tasks, Add(k) \/ Evict(k) \/ Read(k) \/ NoSpike(k) \/ Suppress(k)
      PROVE  Covered'
  BY <1>1, <1>6 DEF Add, Evict, Read, NoSpike, Suppress
<1>7. ASSUME NEW k \in Tasks, RedisFails(k) PROVE Covered'
  BY <1>2, <1>7 DEF RedisFails
<1>8. ASSUME NEW s \in dispatched, StoreFails(s) PROVE Covered'
  BY <1>2, <1>8 DEF StoreFails
<1>9. ASSUME NEW K, NEW S, ProcessEnds(K, S) PROVE Covered'
  BY <1>2, <1>9 DEF ProcessEnds
<1>10. ASSUME \/ \E k \in LiveTicks, p \in Prices : Receive(k, p)
              \/ \E flushed \in BOOLEAN : StartReplay(flushed)
              \/ FeedLine \/ LineDone \/ EndReplay \/ UNCHANGED vars
       PROVE  Covered'
  BY <1>1, <1>10 DEF Receive, StartReplay, FeedLine, LineDone, EndReplay, vars
<1> QED
  BY <1>3, <1>4, <1>5, <1>6, <1>7, <1>8, <1>9, <1>10 DEF Next, Ingest

LEMMA SuppressesOnClaim ==
  ASSUME Typed, Covered, [Next]_vars, NEW k \in Tasks, Suppresses(k)
  PROVE  (\E s \in dispatched \cup trades : now < s.at + Cooldown) \/ faults' < Faults
<1> USE Constants DEF Typed, TypeOK, tasks, redis, request, signals
<1> DEFINE Caused == (\E s \in dispatched \cup trades : now < s.at + Cooldown) \/ faults' < Faults
<1>1. pc[k] = "claim" /\ pc'[k] = "done"
  BY DEF Suppresses
<1>2. ASSUME faults' = faults - 1 PROVE Caused
  BY <1>2
<1>3. CASE Suppress(k)
  <2>1. cooldown > 0 /\ faults' = faults
    BY <1>3 DEF Suppress
  <2>2. \A s \in dispatched \cup trades : s.at \in Int
    BY DEF Signals
  <2>3. QED
    BY <2>1, <2>2 DEF Covered
<1>4. CASE Emit(k)
  <2>1. PICK r \in ref[k] : dispatched' = dispatched \cup {[tick |-> tick[k], ref |-> r, at |-> now]}
    BY <1>4 DEF Emit
  <2>2. [tick |-> tick[k], ref |-> r, at |-> now] \in dispatched
    BY <2>1 DEF Suppresses, Emits
  <2>3. QED
    BY <2>2
<1>5. CASE RedisFails(k)
  BY <1>2, <1>5 DEF RedisFails
<1>6. ASSUME NEW K, NEW S, ProcessEnds(K, S) PROVE Caused
  BY <1>2, <1>6 DEF ProcessEnds
<1>7. ~Add(k) /\ ~Evict(k) /\ ~Read(k)
  BY <1>1 DEF Add, Evict, Read
<1>8. ~NoSpike(k)
  BY DEF Suppresses, NoSpike
<1>9. ASSUME NEW j \in Tasks \ {k}, Ingest(j) PROVE FALSE
  BY <1>1, <1>9, IngestMoves
<1>10. ASSUME NEW j \in LiveTicks, NEW p \in Prices, Receive(j, p) PROVE FALSE
  BY <1>1, <1>10 DEF Receive
<1>11. ASSUME \/ \E flushed \in BOOLEAN : StartReplay(flushed)
              \/ FeedLine \/ LineDone \/ EndReplay \/ UNCHANGED vars \/ Tick
              \/ \E s \in dispatched : Store(s) \/ StoreFails(s)
       PROVE  FALSE
  BY <1>1, <1>11 DEF StartReplay, FeedLine, LineDone, EndReplay, Tick, Store, StoreFails, vars
<1> QED
  BY <1>3, <1>4, <1>5, <1>6, <1>7, <1>8, <1>9, <1>10, <1>11 DEF Next, Ingest

\* A spike is given up only for a trade, stored or about to be, of a signal within
\* the cooldown, or after a failure (set_cooldown, _dispatch_signal).
THEOREM SuppressionsAreCaused == Spec => SuppressionHasACause
<1>1. Init => Covered
  BY DEF Init, Covered
<1>2. Typed /\ Covered /\ [Next]_vars =>
        [ \A k \in Tasks : Suppresses(k) =>
            (\E s \in dispatched \cup trades : now < s.at + Cooldown) \/ faults' < Faults ]_vars
  BY SuppressesOnClaim
<1>3. QED
  BY <1>1, <1>2, InitTyped, NextTyped, NextCovered, PTL DEF Spec, SuppressionHasACause
=============================================================================
