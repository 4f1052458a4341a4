------------------------- MODULE FeedConsumerProofs -------------------------
(***************************************************************************)
(* The backoff of the feed consumer, for every cap: after any number of    *)
(* failures in a row, interrupted waits included, the delay is the one of  *)
(* the schedule.                                                           *)
(***************************************************************************)
EXTENDS FeedConsumer, FiniteSetTheorems, TLAPS

-----------------------------------------------------------------------------
(* Powers of two. The provers know none; the library has them as numbers   *)
(* of subsets.                                                             *)

Power(n) == 2 ^ n

LEMMA Subsets ==
  ASSUME NEW n \in Nat
  PROVE  /\ IsFiniteSet(SUBSET (1 .. n)) /\ Cardinality(SUBSET (1 .. n)) = Power(n)
         /\ Power(n) \in Nat
<1>1. IsFiniteSet(1 .. n) /\ Cardinality(1 .. n) = n
  BY FS_Interval
<1>2. /\ IsFiniteSet(SUBSET (1 .. n))
      /\ Cardinality(SUBSET (1 .. n)) = 2 ^ Cardinality(1 .. n)
  BY <1>1, FS_SUBSET, Zenon
<1>3. Cardinality(SUBSET (1 .. n)) = Power(n)
  BY <1>1, <1>2, Zenon DEF Power
<1>4. QED
  BY <1>2, <1>3, FS_CardinalityType

LEMMA PowerOfZero == Power(0) = 1
<1>1. SUBSET (1 .. 0) = {{}}
  OBVIOUS
<1>2. Cardinality({{}}) = 1
  BY FS_Singleton
<1>3. Cardinality(SUBSET (1 .. 0)) = Power(0)
  BY Subsets
<1>4. QED
  BY <1>1, <1>2, <1>3

\* One number more doubles the subsets: those without it and those with it.
LEMMA PowersDouble == ASSUME NEW n \in Nat PROVE Power(n + 1) = 2 * Power(n)
<1> DEFINE A == SUBSET (1 .. n)
           B == {S \cup {n + 1} : S \in A}
           f == [S \in A |-> S \cup {n + 1}]
<1>1. n + 1 \notin 1 .. n
  OBVIOUS
<1>2. IsFiniteSet(A) /\ Cardinality(A) = Power(n) /\ Power(n) \in Nat
  BY Subsets
<1>3. f \in Bijection(A, B)
  <2>1. f \in [A -> B] /\ \A T \in B : \E S \in A : f[S] = T
    OBVIOUS
  <2>2. ASSUME NEW S \in A, NEW T \in A, f[S] = f[T] PROVE S = T
    <3>1. S \cup {n + 1} = T \cup {n + 1} /\ n + 1 \notin S /\ n + 1 \notin T
      BY <1>1, <2>2
    <3>2. QED
      BY <3>1
  <2>3. QED
    BY <2>1, <2>2 DEF Bijection, Injection, Surjection, IsInjective
<1>4. IsFiniteSet(B) /\ Cardinality(B) = Cardinality(A)
  BY <1>2, <1>3, FS_Bijection DEF ExistsBijection
<1>5. A \cap B = {}
  BY <1>1
<1>6. A \cup B = SUBSET (1 .. n + 1)
  <2>1. ASSUME NEW S \in SUBSET (1 .. n + 1) PROVE S \in A \cup B
    <3>1. CASE n + 1 \in S
      <4>1. S \ {n + 1} \in A /\ S = (S \ {n + 1}) \cup {n + 1}
        BY <3>1
      <4>2. QED
        BY <4>1
    <3>2. CASE n + 1 \notin S
      <4>1. \A i \in 1 .. n + 1 : i # n + 1 => i \in 1 .. n
        OBVIOUS
      <4>2. QED
        BY <3>2, <4>1
    <3>3. QED
      BY <3>1, <3>2
  <2>2. n + 1 \in 1 .. n + 1 /\ 1 .. n \subseteq 1 .. n + 1
    OBVIOUS
  <2>3. QED
    BY <2>1, <2>2
<1>7. Cardinality(A \cup B) = Cardinality(A) + Cardinality(B) - Cardinality(A \cap B)
  <2> HIDE DEF A, B
  <2>1. QED
    BY <1>2, <1>4, FS_Union
<1>8. Cardinality(SUBSET (1 .. n + 1)) = Power(n + 1)
  <2>1. n + 1 \in Nat
    OBVIOUS
  <2>2. QED
    BY <2>1, Subsets
<1> HIDE DEF A, B, f
<1>9. Cardinality(A \cap B) = 0
  BY <1>5, FS_EmptySet
<1>10. Power(n + 1) = Cardinality(A) + Cardinality(B) - 0
  BY <1>6, <1>7, <1>8, <1>9
<1>11. QED
  BY <1>2, <1>4, <1>10

\* The empty set and the singletons are some of the subsets.
LEMMA PowersGrow == ASSUME NEW n \in Nat PROVE Power(n) >= n + 1
<1> DEFINE B == {{i} : i \in 1 .. n}
           f == [i \in 1 .. n |-> {i}]
<1>1. IsFiniteSet(1 .. n) /\ Cardinality(1 .. n) = n
  BY FS_Interval
<1>2. f \in Bijection(1 .. n, B)
  BY DEF Bijection, Injection, Surjection, IsInjective
<1>3. IsFiniteSet(B) /\ Cardinality(B) = n
  BY <1>1, <1>2, FS_Bijection DEF ExistsBijection
<1>4. {} \notin B /\ B \cup {{}} \in SUBSET SUBSET (1 .. n)
  OBVIOUS
<1> HIDE DEF B, f
<1>5. Cardinality(B \cup {{}}) = n + 1
  BY <1>3, <1>4, FS_AddElement
<1>6. IsFiniteSet(SUBSET (1 .. n)) /\ Cardinality(SUBSET (1 .. n)) = Power(n) /\ Power(n) \in Nat
  BY Subsets
<1>7. Cardinality(B \cup {{}}) <= Cardinality(SUBSET (1 .. n))
  BY <1>4, <1>6, FS_Subset
<1>8. QED
  BY <1>5, <1>6, <1>7

-----------------------------------------------------------------------------
(* The schedule *)

\* The delay after n failures in a row
Schedule(n) == Smaller(Power(n - 1), MaxDelay)

\* It begins with 1, doubles until the cap, and has reached it when failures are no
\* longer counted.
LEMMA ScheduleDoubles ==
  /\ Schedule(1) = 1
  /\ \A n \in Nat \ {0} : Schedule(n + 1) = Smaller(2 * Schedule(n), MaxDelay)
  /\ Schedule(MaxDelay) = MaxDelay /\ Schedule(MaxDelay + 1) = MaxDelay
<1>1. MaxDelay \in Nat \ {0}
  BY ConsumerAssumption
<1>2. Schedule(1) = 1
  <2>1. Power(1 - 1) = 1
    BY PowerOfZero
  <2>2. QED
    BY <1>1, <2>1 DEF Schedule, Smaller
<1>3. ASSUME NEW n \in Nat \ {0}
      PROVE  Schedule(n + 1) = Smaller(2 * Schedule(n), MaxDelay)
  <2>1. n - 1 \in Nat /\ (n - 1) + 1 = n /\ (n + 1) - 1 = n
    OBVIOUS
  <2>2. Power(n) = 2 * Power(n - 1) /\ Power(n - 1) \in Nat
    BY <2>1, PowersDouble, Subsets
  <2>3. Schedule(n + 1) = Smaller(Power(n), MaxDelay)
    BY <2>1 DEF Schedule
  <2>4. QED
    BY <1>1, <2>2, <2>3 DEF Schedule, Smaller
<1>4. MaxDelay - 1 \in Nat /\ (MaxDelay - 1) + 1 = MaxDelay /\ (MaxDelay + 1) - 1 = MaxDelay
  BY <1>1
<1>5. /\ Power(MaxDelay - 1) >= MaxDelay /\ Power(MaxDelay - 1) \in Nat
      /\ Power(MaxDelay) >= MaxDelay + 1 /\ Power(MaxDelay) \in Nat
  BY <1>1, <1>4, PowersGrow, Subsets
<1>6. Schedule(MaxDelay) = MaxDelay
  BY <1>1, <1>5 DEF Schedule, Smaller
<1>7. Schedule(MaxDelay + 1) = MaxDelay
  <2>1. Schedule(MaxDelay + 1) = Smaller(Power(MaxDelay), MaxDelay)
    BY <1>4 DEF Schedule
  <2>2. QED
    BY <1>1, <1>5, <2>1 DEF Smaller
<1>8. QED
  BY <1>2, <1>3, <1>6, <1>7

\* The delay of the next wait is known throughout the round that leads to it.
Scheduled ==
  /\ installed /\ loop \in {"new", "head", "connecting"} => delay = Schedule(failures + 1)
  /\ installed /\ loop = "waiting" => failures > 0 /\ delay = Schedule(failures)
  /\ loop = "connected" => installed /\ delay = 1 /\ failures = 0
  /\ ~installed => failures = 0 /\ (loop = "waiting" => delay = 1)
  /\ loop = "waiting" => wait <= delay

-----------------------------------------------------------------------------
LEMMA NextTyped == TypeOK /\ [Next]_vars => TypeOK'
<1> SUFFICES ASSUME TypeOK, [Next]_vars PROVE TypeOK'
  OBVIOUS
<1>1. MaxDelay \in Nat \ {0} /\ ReconnectAfter \in Nat \ {0}
  BY ConsumerAssumption
<1>2. /\ delay \in 1 .. MaxDelay /\ wait \in 0 .. MaxDelay
      /\ silence \in 0 .. ReconnectAfter /\ failures \in 0 .. MaxDelay
  BY DEF TypeOK
<1>3. /\ Smaller(2 * delay, MaxDelay) \in 1 .. MaxDelay
      /\ OneMore(failures) \in 0 .. MaxDelay
      /\ 1 \in 1 .. MaxDelay /\ 1 \in 0 .. MaxDelay /\ 0 \in 0 .. MaxDelay
      /\ MaxDelay \in 0 .. MaxDelay /\ delay \in 0 .. MaxDelay
      /\ 0 \in 0 .. ReconnectAfter
  BY <1>1, <1>2 DEF Smaller, OneMore
<1>4. CASE StartUp
  BY <1>4 DEF StartUp, TypeOK
<1>5. CASE Connecting
  BY <1>3, <1>5 DEF Connecting, TypeOK, session
<1>6. CASE Leave \/ Cancel
  BY <1>6 DEF Leave, Cancel, TypeOK, session
<1>7. CASE Connect
  BY <1>3, <1>7 DEF Connect, TypeOK, session
<1>8. CASE Disconnect
  BY <1>3, <1>8 DEF Disconnect, WaitOrLeave, TypeOK, session
<1>9. CASE NoPackage
  BY <1>3, <1>9 DEF NoPackage, TypeOK, session
<1>10. CASE WaitOver
  BY <1>3, <1>10 DEF WaitOver, TypeOK, session
<1>11. CASE HandleTick
  BY <1>3, <1>11 DEF HandleTick, TypeOK
<1>12. CASE Watch
  <2>1. forced' \in BOOLEAN
    BY <1>12 DEF Watch, TypeOK
  <2>2. QED
    BY <1>12, <2>1 DEF Watch, TypeOK, session
<1>13. CASE Tick
  <2>1. wait' \in 0 .. MaxDelay /\ silence' \in 0 .. ReconnectAfter
    BY <1>1, <1>2, <1>13 DEF Tick
  <2>2. QED
    BY <1>13, <2>1 DEF Tick, TypeOK
<1>14. CASE Stop
  BY <1>14 DEF Stop, TypeOK
<1>15. CASE UNCHANGED vars
  BY <1>15 DEF vars, session, TypeOK
<1>16. QED
  BY <1>4, <1>5, <1>6, <1>7, <1>8, <1>9, <1>10, <1>11, <1>12, <1>13, <1>14, <1>15 DEF Next

LEMMA NextScheduled == TypeOK /\ Scheduled /\ [Next]_vars => Scheduled'
<1> SUFFICES ASSUME TypeOK, Scheduled, [Next]_vars PROVE Scheduled'
  OBVIOUS
<1>1. /\ MaxDelay \in Nat \ {0}
      /\ delay \in 1 .. MaxDelay /\ wait \in 0 .. MaxDelay /\ failures \in 0 .. MaxDelay
  BY ConsumerAssumption DEF TypeOK
<1>2. CASE StartUp
  BY <1>2 DEF StartUp, Scheduled
<1>3. CASE Connecting
  BY <1>3 DEF Connecting, Scheduled, session
<1>4. CASE Leave \/ Cancel
  BY <1>4 DEF Leave, Cancel, Scheduled, session
<1>5. CASE Connect
  BY <1>5 DEF Connect, Scheduled, session
<1>6. CASE Disconnect
  <2>1. /\ installed /\ UNCHANGED installed /\ loop \in {"connecting", "connected"} /\ delay' = delay
        /\ failures' = OneMore(failures)
        /\ loop' = "over" \/ (loop' = "waiting" /\ wait' = delay)
    <3>1. installed /\ loop \in {"connecting", "connected"}
      BY <1>6 DEF Disconnect
    <3>2. UNCHANGED <<installed, delay>> /\ failures' = OneMore(failures)
      BY <1>6 DEF Disconnect, session
    <3>3. loop' = "over" \/ (loop' = "waiting" /\ wait' = delay)
      BY <1>6 DEF Disconnect, WaitOrLeave
    <3>4. QED
      BY <3>1, <3>2, <3>3
  <2>2. delay = Schedule(failures + 1)
    <3>1. loop = "connected" => delay = 1 /\ failures + 1 = 1
      BY <2>1 DEF Scheduled
    <3>2. loop = "connecting" => delay = Schedule(failures + 1)
      BY <2>1 DEF Scheduled
    <3>3. QED
      BY <2>1, <3>1, <3>2, ScheduleDoubles
  <2>3. failures' > 0 /\ Schedule(failures') = Schedule(failures + 1)
    <3>1. CASE failures < MaxDelay
      BY <1>1, <2>1, <3>1 DEF OneMore
    <3>2. CASE failures = MaxDelay
      BY <1>1, <2>1, <3>2, ScheduleDoubles DEF OneMore
    <3>3. QED
      BY <1>1, <3>1, <3>2
  <2>4. delay' = Schedule(failures')
    BY <2>1, <2>2, <2>3
  <2>5. loop' = "waiting" => wait' <= delay'
    BY <1>1, <2>1
  <2>6. QED
    BY <2>1, <2>3, <2>4, <2>5 DEF Scheduled
<1>7. CASE NoPackage
  BY <1>7 DEF NoPackage, Scheduled, session
<1>8. CASE WaitOver
  <2>1. /\ loop = "waiting" /\ loop' = "head" /\ delay' = Smaller(2 * delay, MaxDelay)
        /\ failures' = failures /\ installed' = installed
    BY <1>8 DEF WaitOver, session
  <2>2. installed => failures \in Nat \ {0} /\ delay = Schedule(failures)
    BY <1>1, <2>1 DEF Scheduled
  <2>3. installed => delay' = Schedule(failures' + 1)
    BY <2>1, <2>2, ScheduleDoubles
  <2>4. QED
    BY <2>1, <2>3 DEF Scheduled
<1>9. CASE Tick
  <2>1. wait' <= wait /\ wait' \in Nat
    BY <1>1, <1>9 DEF Tick
  <2>2. /\ UNCHANGED <<loop, delay, failures, installed>>
    BY <1>9 DEF Tick
  <2>3. loop' = "waiting" => wait' <= delay'
    BY <1>1, <2>1, <2>2 DEF Scheduled
  <2>4. QED
    BY <2>2, <2>3 DEF Scheduled
<1>10. CASE UNCHANGED <<loop, delay, wait, failures, installed>>
  BY <1>10 DEF Scheduled
<1>11. QED
  BY <1>2, <1>3, <1>4, <1>5, <1>6, <1>7, <1>8, <1>9, <1>10
     DEF Next, HandleTick, Watch, Stop, vars, session

LEMMA AlwaysScheduled == Spec => [](TypeOK /\ Scheduled)
<1>1. Init => TypeOK /\ Scheduled
  <2> SUFFICES ASSUME Init PROVE TypeOK /\ Scheduled
    OBVIOUS
  <2>1. MaxDelay \in Nat \ {0} /\ ReconnectAfter \in Nat \ {0}
    BY ConsumerAssumption
  <2>2. delay \in 1 .. MaxDelay /\ wait \in 0 .. MaxDelay /\ failures \in 0 .. MaxDelay
        /\ silence \in 0 .. ReconnectAfter
    BY <2>1 DEF Init
  <2>3. TypeOK
    BY <2>2 DEF Init, TypeOK
  <2>4. failures + 1 = 1
    BY DEF Init
  <2>5. Scheduled
    BY <2>4, ScheduleDoubles DEF Init, Scheduled
  <2>6. QED
    BY <2>3, <2>5
<1>2. QED
  BY <1>1, NextTyped, NextScheduled, PTL DEF Spec

\* The published state, the tasks and the delay keep their shapes; above all, the delay
\* and every wait stay within the cap (DhanFeedConsumer).
THEOREM ConsumerTypeCorrect == Spec => []TypeOK
  BY AlwaysScheduled, PTL

\* Every wait is the one the schedule gives for the failures in a row
\* (_connection_loop, _connect).
THEOREM BackoffIsScheduled == Spec => []BackoffSchedule
<1>1. ASSUME TypeOK, Scheduled, loop = "waiting"
      PROVE  /\ failures = 0 => delay = 1
             /\ failures > 0 => delay = Schedule(failures)
             /\ wait <= delay
  BY <1>1 DEF TypeOK, Scheduled
<1>2. TypeOK /\ Scheduled => BackoffSchedule
  BY <1>1, Zenon DEF BackoffSchedule, Schedule, Power
<1>3. QED
  BY <1>2, AlwaysScheduled, PTL
=============================================================================
