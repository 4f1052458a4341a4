------------------------ MODULE NotificationsRefinement ------------------------
(***************************************************************************)
(* Notifications implements NotificationDelivery, and the bound on the     *)
(* messages of a trade follows from the promise. When Redis restarts and   *)
(* forgets, the claim is no lock any more; the bound stays, and so does    *)
(* what is said of the flags of a trade and of its queued messages.        *)
(***************************************************************************)
EXTENDS NotificationsProofs, NotificationsRestart, FiniteSetTheorems

-----------------------------------------------------------------------------
(* The promise bounds the messages *)

CountsOK ==
  /\ Right \subseteq Trades
  /\ delivered \in [Trades -> Nat]
  /\ fails \in [Trades -> Nat]
  /\ again \in [Trades -> Nat]

PromiseInv == CountsOK /\ Promise!OneMessagePerRight

LEMMA PromiseInit == Promise!Init => PromiseInv
  BY DEF Promise!Init, PromiseInv, CountsOK, Promise!OneMessagePerRight

LEMMA PromiseStep == PromiseInv /\ [Promise!Next]_(Promise!vars) => PromiseInv'
<1> SUFFICES ASSUME PromiseInv, [Promise!Next]_(Promise!vars) PROVE PromiseInv'
  OBVIOUS
<1> USE DEF PromiseInv, CountsOK, Promise!OneMessagePerRight, Promise!Plus
<1>1. ASSUME NEW t \in Trades, Promise!Place(t) \/ Promise!Waste(t) \/ Promise!Report(t) \/ Promise!GiveUp(t)
      PROVE  PromiseInv'
  BY <1>1 DEF Promise!Place, Promise!Waste, Promise!Report, Promise!GiveUp
<1>2. ASSUME NEW t \in Trades, Promise!Deliver(t) PROVE PromiseInv'
  <2>1. CountsOK'
    BY <1>2 DEF Promise!Deliver
  <2>2. ASSUME NEW u \in Trades
        PROVE  delivered'[u] + (IF u \in Right' THEN 1 ELSE 0) <= 1 + again'[u]
    <3>1. CASE u = t
      BY <1>2, <3>1 DEF Promise!Deliver
    <3>2. CASE u # t
      <4>1. /\ delivered'[u] = delivered[u] /\ again'[u] = again[u]
            /\ u \in Right' <=> u \in Right
        BY <1>2, <3>2 DEF Promise!Deliver
      <4> QED
        BY <4>1
    <3> QED
      BY <3>1, <3>2
  <2> QED
    BY <2>1, <2>2
<1>3. ASSUME NEW t \in Trades, Promise!DeliverUnanswered(t) PROVE PromiseInv'
  <2>1. CountsOK'
    BY <1>3 DEF Promise!DeliverUnanswered
  <2>2. ASSUME NEW u \in Trades
        PROVE  delivered'[u] + (IF u \in Right' THEN 1 ELSE 0) <= 1 + again'[u]
    <3>1. CASE u = t
      BY <1>3, <3>1 DEF Promise!DeliverUnanswered
    <3>2. CASE u # t
      <4>1. /\ delivered'[u] = delivered[u] /\ again'[u] = again[u]
            /\ u \in Right' <=> u \in Right
        BY <1>3, <3>2 DEF Promise!DeliverUnanswered
      <4> QED
        BY <4>1
    <3> QED
      BY <3>1, <3>2
  <2> QED
    BY <2>1, <2>2
<1>4. ASSUME NEW t \in Trades, Promise!Miss(t) PROVE PromiseInv'
  BY <1>4 DEF Promise!Miss
<1>5. ASSUME NEW t \in Trades, Promise!ReportFails(t) PROVE PromiseInv'
  <2>1. CountsOK'
    BY <1>5 DEF Promise!ReportFails
  <2>2. ASSUME NEW u \in Trades
        PROVE  delivered'[u] + (IF u \in Right' THEN 1 ELSE 0) <= 1 + again'[u]
    <3>1. CASE u = t
      BY <1>5, <3>1 DEF Promise!ReportFails
    <3>2. CASE u # t
      <4>1. /\ delivered'[u] = delivered[u] /\ again'[u] = again[u]
            /\ u \in Right' <=> u \in Right
        BY <1>5, <3>2 DEF Promise!ReportFails
      <4> QED
        BY <4>1
    <3> QED
      BY <3>1, <3>2
  <2> QED
    BY <2>1, <2>2
<1>6. ASSUME NEW t \in Trades, Promise!Expire(t) PROVE PromiseInv'
  <2>1. CountsOK'
    BY <1>6 DEF Promise!Expire
  <2>2. ASSUME NEW u \in Trades
        PROVE  delivered'[u] + (IF u \in Right' THEN 1 ELSE 0) <= 1 + again'[u]
    <3>1. CASE u = t
      BY <1>6, <3>1 DEF Promise!Expire
    <3>2. CASE u # t
      <4>1. /\ delivered'[u] = delivered[u] /\ again'[u] = again[u]
            /\ u \in Right' <=> u \in Right
        BY <1>6, <3>2 DEF Promise!Expire
      <4> QED
        BY <4>1
    <3> QED
      BY <3>1, <3>2
  <2> QED
    BY <2>1, <2>2
<1>7. CASE UNCHANGED Promise!vars
  BY <1>7 DEF Promise!vars
<1> QED
  BY <1>1, <1>2, <1>3, <1>4, <1>5, <1>6, <1>7 DEF Promise!Next

\* Whatever happens to a trade, its user gets at most one message for each time
\* the right to send it existed.
THEOREM RightsBoundMessages == Promise!Spec => []Promise!OneMessagePerRight
<1>1. PromiseInv => Promise!OneMessagePerRight
  BY DEF PromiseInv
<1> QED
  BY <1>1, PromiseInit, PromiseStep, PTL DEF Promise!Spec

-----------------------------------------------------------------------------
(* Notifications keeps it *)

RefInv == /\ TypeInv /\ OneHolder /\ QueuedIsCommitted
          /\ MarkFollowsPost /\ AttemptsAreCounted

\* the worker is between its claim and the answer of the endpoint, or failing
Unsent(w) == pc[w] \in {"fetch", "post", "except"}

LEMMA RightByKey ==
  Right = {t \in Trades : t \notin key \/ \E w \in Workers : Unsent(w) /\ job[w].trade = t}
  BY DEF Right, MayMessage, Holds, Claimed, At, Unsent

LEMMA RightByKeyPrime ==
  Right' = {t \in Trades : t \notin key' \/ \E w \in Workers : Unsent(w)' /\ job'[w].trade = t}
  BY DEF Right, MayMessage, Holds, Claimed, At, Unsent

\* a step that moves no worker in or out of its claim, and no key, is invisible
LEMMA RightKept ==
  ASSUME UNCHANGED key,
         \A w \in Workers : /\ Unsent(w)' <=> Unsent(w)
                            /\ Unsent(w) => job'[w].trade = job[w].trade
  PROVE  Right' = Right
  BY RightByKey, RightByKeyPrime

\* the worker w, which has no rival, decides alone about the right of its trade
LEMMA RightOfHolder ==
  ASSUME RefInv, NEW w \in Workers, pc[w] \in {"fetch", "post", "mark", "except"},
         \A v \in Workers \ {w} : pc'[v] = pc[v] /\ job'[v] = job[v],
         key' \ {job[w].trade} = key \ {job[w].trade},
         Unsent(w)' => job'[w].trade = job[w].trade
  PROVE  LET t == job[w].trade IN
         /\ t \in Trades /\ t \in stored
         /\ t \in Right <=> Unsent(w)
         /\ t \in Right' <=> (t \notin key' \/ Unsent(w)')
         /\ Right' \ {t} = Right \ {t}
<1> DEFINE t == job[w].trade
<1>1. t \in Trades /\ t \in stored
  BY TradesAssumption DEF RefInv, TypeInv, TypeOK, JobOK, QueuedIsCommitted
<1>2. t \in key /\ \A v \in Workers \ {w} : Unsent(v) => job[v].trade # t
  BY <1>1 DEF RefInv, OneHolder, Holds, Claimed, Unsent
<1>3. t \in Right <=> Unsent(w)
  BY <1>1, <1>2, RightByKey
<1>4. t \in Right' <=> (t \notin key' \/ Unsent(w)')
  BY <1>1, <1>2, RightByKeyPrime DEF Unsent
<1>5. ASSUME NEW u \in Trades \ {t} PROVE u \in Right' <=> u \in Right
  <2>1. u \in key' <=> u \in key
    OBVIOUS
  <2>2. (\E v \in Workers : Unsent(v)' /\ job'[v].trade = u)
          <=> (\E v \in Workers : Unsent(v) /\ job[v].trade = u)
    BY DEF Unsent
  <2> QED
    BY <2>1, <2>2, RightByKey, RightByKeyPrime
<1>6. Right \subseteq Trades /\ Right' \subseteq Trades
  BY RightByKey, RightByKeyPrime
<1> QED
  BY <1>1, <1>3, <1>4, <1>5, <1>6

\* what the promise sees of a state
view == <<stored, Right, delivered, fails, again, sent, failed>>

LEMMA Simulation == RefInv /\ [Next]_vars => [Promise!Next]_(Promise!vars)
<1> SUFFICES ASSUME RefInv, [Next]_vars
             PROVE  Promise!Next \/ UNCHANGED view
  BY DEF Promise!vars, view
<1> USE DEF db, queues, workers, history, Goto, At, Unsent, view
<1>a. job \in [Workers -> Jobs] /\ pc \in [Workers -> PCs]
  BY DEF RefInv, TypeInv, TypeOK
<1>b. key \subseteq Trades /\ Right \subseteq Trades
  BY RightByKey DEF RefInv, TypeInv, TypeOK
<1>1. ASSUME NEW t \in Trades, Commit(t)
      PROVE  Promise!Next \/ UNCHANGED view
  <2>1. Right' = Right
    BY <1>1, RightKept DEF Commit
  <2>2. Promise!Place(t)
    BY <1>1, <2>1 DEF Commit, Promise!Place
  <2> QED
    BY <2>2 DEF Promise!Next
<1>2. ASSUME NEW t \in Trades, Enqueue(t)
      PROVE  Promise!Next \/ UNCHANGED view
  <2>1. Right' = Right
    BY <1>a, <1>2, RightKept DEF Enqueue
  <2> QED
    BY <1>2, <2>1 DEF Enqueue
<1>3. ASSUME NEW t \in Trades, EnqueueFails(t)
      PROVE  Promise!Next \/ UNCHANGED view
  <2>1. Right' = Right
    BY <1>a, <1>3, RightKept DEF EnqueueFails
  <2> QED
    BY <1>3, <2>1 DEF EnqueueFails
<1>4. ASSUME NEW t \in Trades, GracePasses(t)
      PROVE  Promise!Next \/ UNCHANGED view
  <2>1. Right' = Right
    BY <1>a, <1>4, RightKept DEF GracePasses
  <2> QED
    BY <1>4, <2>1 DEF GracePasses
<1>5. ASSUME NEW t \in Trades, Expire(t)
      PROVE  Promise!Next \/ UNCHANGED view
  <2>1. t \notin Right /\ Right' = Right \cup {t}
    BY <1>a, <1>b, <1>5, RightByKey, RightByKeyPrime DEF Expire, Holds, Claimed
  <2>2. Promise!Expire(t)
    BY <1>5, <2>1 DEF Expire, Promise!Expire, Promise!Plus
  <2> QED
    BY <2>2 DEF Promise!Next
<1>6. ASSUME NEW w \in Workers, NEW t \in Trades, NEW k \in Attempts, TakeSend(w, t, k)
      PROVE  Promise!Next \/ UNCHANGED view
  <2>1. Right' = Right
    BY <1>a, <1>6, RightKept DEF TakeSend
  <2> QED
    BY <1>6, <2>1 DEF TakeSend
<1>7. ASSUME NEW w \in Workers, NEW t \in Trades, TakeDead(w, t)
      PROVE  Promise!Next \/ UNCHANGED view
  <2>1. Right' = Right
    BY <1>a, <1>7, RightKept DEF TakeDead
  <2> QED
    BY <1>7, <2>1 DEF TakeDead
<1>8. ASSUME NEW w \in Workers, TakeRound(w)
      PROVE  Promise!Next \/ UNCHANGED view
  <2>1. Right' = Right
    BY <1>a, <1>8, RightKept DEF TakeRound
  <2> QED
    BY <1>8, <2>1 DEF TakeRound
<1>9. ASSUME NEW w \in Workers, Claim(w)
      PROVE  Promise!Next \/ UNCHANGED view
  <2>1. Right' = Right
    BY <1>a, <1>9, RightByKey, RightByKeyPrime DEF Claim
  <2> QED
    BY <1>9, <2>1 DEF Claim
<1>10. ASSUME NEW w \in Workers, ClaimFails(w)
       PROVE  Promise!Next \/ UNCHANGED view
  <2> DEFINE t == job[w].trade
  <2>1. t \in Trades
    BY <1>a, <1>10 DEF ClaimFails, RefInv, TypeInv, JobOK
  <2>2. CASE key' = key
    <3>1. Right' = Right
      BY <1>a, <1>10, <2>2, RightKept DEF ClaimFails
    <3> QED
      BY <1>10, <3>1 DEF ClaimFails
  <2>3. CASE t \notin key /\ key' = key \cup {t}
    <3>1. t \in Right /\ Right' = Right \ {t}
      <4>1. \A v \in Workers : Unsent(v) => job[v].trade # t
        BY <2>1, <2>3 DEF RefInv, OneHolder, Holds, Claimed
      <4>2. \A v \in Workers : (Unsent(v)' <=> Unsent(v)) /\ job'[v] = job[v]
        BY <1>a, <1>10 DEF ClaimFails
      <4> QED
        BY <2>1, <2>3, <4>1, <4>2, RightByKey, RightByKeyPrime
    <3>2. Promise!Waste(t)
      BY <1>10, <3>1 DEF ClaimFails, Promise!Waste
    <3> QED
      BY <2>1, <3>2 DEF Promise!Next
  <2> QED
    BY <1>10, <2>2, <2>3 DEF ClaimFails
<1>11. ASSUME NEW w \in Workers, Fetch(w)
       PROVE  Promise!Next \/ UNCHANGED view
  <2>1. job[w].trade \in stored
    BY <1>a, <1>11, TradesAssumption DEF Fetch, RefInv, TypeInv, JobOK, QueuedIsCommitted
  <2>2. Right' = Right
    BY <1>a, <1>11, <2>1, RightKept DEF Fetch
  <2> QED
    BY <1>11, <2>2 DEF Fetch
<1>12. ASSUME NEW w \in Workers, FetchFails(w)
       PROVE  Promise!Next \/ UNCHANGED view
  <2> DEFINE t == job[w].trade
  <2>1. Right' = Right
    BY <1>a, <1>12, RightKept DEF FetchFails, Raise
  <2>2. t \in Trades /\ t \in stored /\ t \in Right
    BY <1>a, <1>12, RightOfHolder DEF FetchFails, Raise
  <2>3. Promise!Miss(t)
    BY <1>12, <2>1, <2>2 DEF FetchFails, Raise, Promise!Miss, Promise!Plus
  <2> QED
    BY <2>2, <2>3 DEF Promise!Next
<1>13. ASSUME NEW w \in Workers, Post(w)
       PROVE  Promise!Next \/ UNCHANGED view
  <2> DEFINE t == job[w].trade
  <2>1. t \in key
    BY <1>a, <1>13 DEF Post, RefInv, TypeInv, JobOK, OneHolder, Holds, Claimed
  <2>2. t \in Trades /\ t \in stored /\ t \in Right /\ Right' = Right \ {t}
    BY <1>a, <1>b, <1>13, <2>1, RightOfHolder DEF Post
  <2>3. Promise!Deliver(t)
    BY <1>13, <2>2 DEF Post, Promise!Deliver, Promise!Plus
  <2> QED
    BY <2>2, <2>3 DEF Promise!Next
<1>14. ASSUME NEW w \in Workers, PostRefused(w)
       PROVE  Promise!Next \/ UNCHANGED view
  <2> DEFINE t == job[w].trade
  <2>1. Right' = Right
    BY <1>a, <1>14, RightKept DEF PostRefused, Raise
  <2>2. t \in Trades /\ t \in stored /\ t \in Right
    BY <1>a, <1>14, RightOfHolder DEF PostRefused, Raise
  <2>3. Promise!Miss(t)
    BY <1>14, <2>1, <2>2 DEF PostRefused, Raise, Promise!Miss, Promise!Plus
  <2> QED
    BY <2>2, <2>3 DEF Promise!Next
<1>15. ASSUME NEW w \in Workers, PostUnanswered(w)
       PROVE  Promise!Next \/ UNCHANGED view
  <2> DEFINE t == job[w].trade
  <2>1. Right' = Right
    BY <1>a, <1>15, RightKept DEF PostUnanswered, Raise
  <2>2. t \in Trades /\ t \in stored /\ t \in Right
    BY <1>a, <1>15, RightOfHolder DEF PostUnanswered, Raise
  <2>3. Promise!DeliverUnanswered(t)
    BY <1>15, <2>1, <2>2 DEF PostUnanswered, Raise, Promise!DeliverUnanswered, Promise!Plus
  <2> QED
    BY <2>2, <2>3 DEF Promise!Next
<1>16. ASSUME NEW w \in Workers, MarkSent(w)
       PROVE  Promise!Next \/ UNCHANGED view
  <2> DEFINE t == job[w].trade
  <2>1. Right' = Right
    BY <1>a, <1>16, RightKept DEF MarkSent
  <2>2. t \in Trades /\ delivered[t] > 0
    BY <1>a, <1>16 DEF MarkSent, RefInv, TypeInv, JobOK, MarkFollowsPost
  <2>3. Promise!Report(t)
    BY <1>16, <2>1, <2>2 DEF MarkSent, Promise!Report
  <2> QED
    BY <2>2, <2>3 DEF Promise!Next
<1>17. ASSUME NEW w \in Workers, MarkSentFails(w)
       PROVE  Promise!Next \/ UNCHANGED view
  <2> DEFINE t == job[w].trade
  <2>1. t \in Trades /\ t \in stored /\ t \notin Right /\ Right' = Right \cup {t}
    BY <1>a, <1>b, <1>17, RightOfHolder DEF MarkSentFails, Raise
  <2>2. delivered[t] > 0
    BY <1>a, <1>17 DEF MarkSentFails, RefInv, MarkFollowsPost
  <2>3. Promise!ReportFails(t)
    BY <1>17, <2>1, <2>2 DEF MarkSentFails, Raise, Promise!ReportFails, Promise!Plus
  <2> QED
    BY <2>1, <2>3 DEF Promise!Next
<1>18. ASSUME NEW w \in Workers, Release(w)
       PROVE  Promise!Next \/ UNCHANGED view
  <2> DEFINE t == job[w].trade
  <2>1. t \notin key' /\ key' \ {t} = key \ {t}
    BY <1>18 DEF Release
  <2>2. t \in Right /\ t \in Right' /\ Right' \ {t} = Right \ {t}
    BY <1>a, <1>18, <2>1, RightOfHolder DEF Release
  <2>3. Right' = Right
    BY <2>2
  <2> QED
    BY <1>18, <2>3 DEF Release
<1>19. ASSUME NEW w \in Workers, ReleaseFails(w)
       PROVE  Promise!Next \/ UNCHANGED view
  <2> DEFINE t == job[w].trade
  <2>1. t \in Trades /\ t \in Right /\ (Right' = Right \/ Right' = Right \ {t})
    <3>1. key' \ {t} = key \ {t}
      BY <1>19 DEF ReleaseFails
    <3>2. t \in Trades /\ t \in Right /\ Right' \ {t} = Right \ {t}
      BY <1>a, <1>19, <3>1, RightOfHolder DEF ReleaseFails
    <3> QED
      BY <3>2
  <2>2. CASE Right' = Right
    BY <1>19, <2>2 DEF ReleaseFails
  <2>3. CASE Right' = Right \ {t}
    BY <1>19, <2>1, <2>3 DEF ReleaseFails, Promise!Waste, Promise!Next
  <2> QED
    BY <2>1, <2>2, <2>3
<1>20. ASSUME NEW w \in Workers, Publish(w)
       PROVE  Promise!Next \/ UNCHANGED view
  <2>1. Right' = Right
    BY <1>a, <1>20, RightKept DEF Publish
  <2> QED
    BY <1>20, <2>1 DEF Publish
<1>21. ASSUME NEW w \in Workers, Bury(w)
       PROVE  Promise!Next \/ UNCHANGED view
  <2> DEFINE t == job[w].trade
  <2>1. Right' = Right
    BY <1>a, <1>21, RightKept DEF Bury
  <2>2. t \in Trades /\ t \in stored /\ fails[t] > MaxRetries
    BY <1>a, <1>21, TradesAssumption
       DEF Bury, RefInv, TypeInv, JobOK, QueuedIsCommitted, AttemptsAreCounted
  <2>3. Promise!GiveUp(t)
    BY <1>21, <2>1, <2>2 DEF Bury, Promise!GiveUp
  <2> QED
    BY <2>2, <2>3 DEF Promise!Next
<1>22. ASSUME NEW w \in Workers, Scan(w)
       PROVE  Promise!Next \/ UNCHANGED view
  <2>1. Right' = Right
    BY <1>a, <1>22, RightKept DEF Scan
  <2> QED
    BY <1>22, <2>1 DEF Scan
<1>23. ASSUME NEW w \in Workers, EndsInVain(w)
       PROVE  Promise!Next \/ UNCHANGED view
  <2>1. Right' = Right
    BY <1>a, <1>23, RightKept DEF EndsInVain
  <2> QED
    BY <1>23, <2>1 DEF EndsInVain
<1>24. ASSUME NEW w \in Workers, NEW t \in Trades, Requeue(w, t)
       PROVE  Promise!Next \/ UNCHANGED view
  <2>1. Right' = Right
    BY <1>a, <1>24, RightKept DEF Requeue
  <2> QED
    BY <1>24, <2>1 DEF Requeue
<1>25. ASSUME NEW w \in Workers, NEW t \in Trades, RequeueFails(w, t)
       PROVE  Promise!Next \/ UNCHANGED view
  <2>1. Right' = Right
    BY <1>a, <1>25, RightKept DEF RequeueFails
  <2> QED
    BY <1>25, <2>1 DEF RequeueFails
<1>26. ASSUME NEW w \in Workers, EndRound(w)
       PROVE  Promise!Next \/ UNCHANGED view
  <2>1. Right' = Right
    BY <1>a, <1>26, RightKept DEF EndRound
  <2> QED
    BY <1>26, <2>1 DEF EndRound
<1>27. ASSUME NEW w \in Workers, Ack(w)
       PROVE  Promise!Next \/ UNCHANGED view
  <2>1. Right' = Right
    BY <1>a, <1>27, RightKept DEF Ack
  <2> QED
    BY <1>27, <2>1 DEF Ack
<1>28. ASSUME NEW w \in Workers, Crash(w)
       PROVE  Promise!Next \/ UNCHANGED view
  <2> DEFINE t == job[w].trade
  <2>1. CASE Unsent(w)
    <3>1. t \in key
      BY <1>a, <1>28, <2>1 DEF RefInv, TypeInv, JobOK, OneHolder, Holds, Claimed
    <3>2. t \in Trades /\ t \in Right /\ Right' = Right \ {t}
      BY <1>a, <1>b, <1>28, <2>1, <3>1, RightOfHolder DEF Crash
    <3>3. Promise!Waste(t)
      BY <1>28, <3>2 DEF Crash, Promise!Waste
    <3> QED
      BY <3>2, <3>3 DEF Promise!Next
  <2>2. CASE ~Unsent(w)
    <3>1. Right' = Right
      BY <1>a, <1>28, <2>2, RightKept DEF Crash
    <3> QED
      BY <1>28, <3>1 DEF Crash
  <2> QED
    BY <2>1, <2>2
<1>29. CASE Beat
  <2>1. Right' = Right
    BY <1>a, <1>29, RightKept DEF Beat
  <2> QED
    BY <1>29, <2>1 DEF Beat
<1>30. CASE UNCHANGED vars
  <2>1. Right' = Right
    BY <1>30, RightKept DEF vars
  <2> QED
    BY <1>30, <2>1 DEF vars
<1> QED
  BY <1>1, <1>2, <1>3, <1>4, <1>5, <1>6, <1>7, <1>8, <1>9, <1>10,
     <1>11, <1>12, <1>13, <1>14, <1>15, <1>16, <1>17, <1>18, <1>19, <1>20,
     <1>21, <1>22, <1>23, <1>24, <1>25, <1>26, <1>27, <1>28, <1>29, <1>30
     DEF Next, Take, Proceed, Fail

LEMMA Invariance == Spec => []RefInv
<1>1. Init => RefInv
  BY TypeInit, AttemptsInit
     DEF Init, RefInv, OneHolder, Holds, Claimed, QueuedIsCommitted, Idle,
         MarkFollowsPost, SentWasDelivered, At
<1>2. RefInv /\ [Next]_vars => RefInv'
  BY TypeStep, OneHolderStep, CommittedStep, DeliveredStep, AttemptsStep DEF RefInv
<1> QED
  BY <1>1, <1>2, PTL DEF Spec

\* The queues, the workers and the claim key together do what is promised about
\* each trade: every step is a step of NotificationDelivery or invisible to it.
THEOREM Refinement == Spec => KeepsThePromise
<1>1. Init => Promise!Init
  <2>1. Init => Right = Trades
    BY RightByKey DEF Init
  <2> QED
    BY <2>1 DEF Init, Promise!Init
<1> QED
  BY <1>1, Simulation, Invariance, PTL DEF Spec, KeepsThePromise, Promise!Spec

\* A user gets at most one message more than there were lost answers, failed
\* updates and expired claims, however many tasks of the trade were queued.
THEOREM DuplicatesAreBounded == Spec => []DuplicatesHaveACause
<1>1. Promise!Spec => []Promise!OneMessagePerRight
  BY RightsBoundMessages
<1>2. RefInv /\ Promise!OneMessagePerRight => DuplicatesHaveACause
  <2> SUFFICES ASSUME RefInv, Promise!OneMessagePerRight, NEW t \in Trades
               PROVE  delivered[t] <= 1 + again[t]
    BY DEF DuplicatesHaveACause
  <2>1. delivered[t] \in Nat /\ again[t] \in Nat
    BY DEF RefInv, TypeInv, TypeOK
  <2>2. delivered[t] + (IF t \in Right THEN 1 ELSE 0) <= 1 + again[t]
    BY DEF Promise!OneMessagePerRight
  <2> QED
    BY <2>1, <2>2
<1> QED
  BY <1>1, <1>2, Invariance, Refinement, PTL DEF KeepsThePromise

-----------------------------------------------------------------------------
(* Restarts of Redis *)

Snapshots == [key : SUBSET Trades, sends : [Trades \X Attempts -> Nat],
              deads : [Trades -> Nat], rounds : Nat]

SavedOK == saved \in Snapshots

\* The workers that have a right to message the user of t and have not used it. Without
\* the lock there may be several.
Senders(t) == {w \in Workers : Unsent(w) /\ job[w].trade = t}

Free(t) == IF t \in key THEN 0 ELSE 1

\* Each message sent, each right in a worker's hands, and the right that a free key
\* gives, is the first or was given back.
RightsCounted(t) ==
  /\ IsFiniteSet(Senders(t))
  /\ delivered[t] + Cardinality(Senders(t)) + Free(t) <= 1 + again[t]

EveryRightCounted == \A t \in Trades : RightsCounted(t)

\* a step that moves no right
LEMMA CountKept ==
  ASSUME NEW t \in Trades, RightsCounted(t), delivered'[t] = delivered[t], again'[t] = again[t],
         t \in key' <=> t \in key,
         \A w \in Workers : /\ Unsent(w)' <=> Unsent(w)
                            /\ Unsent(w) => job'[w].trade = job[w].trade
  PROVE  RightsCounted(t)'
<1>1. Senders(t)' = Senders(t)
  BY DEF Senders
<1>2. Free(t)' = Free(t)
  BY DEF Free
<1>3. QED
  BY <1>1, <1>2 DEF RightsCounted

One(b) == IF b THEN 1 ELSE 0

\* the worker w takes, uses or gives up a right of trade t
LEMMA CountMoved ==
  ASSUME TypeOK, TypeOK', EveryRightCounted, NEW w \in Workers, NEW t \in Trades,
         \A v \in Workers \ {w} : pc'[v] = pc[v] /\ job'[v] = job[v],
         job[w].trade = t, Unsent(w)' => job'[w].trade = t,
         \A u \in Trades \ {t} : /\ delivered'[u] = delivered[u] /\ again'[u] = again[u]
                                 /\ u \in key' <=> u \in key,
         delivered'[t] + One(Unsent(w)') + Free(t)' + again[t]
           <= delivered[t] + One(Unsent(w)) + Free(t) + again'[t]
  PROVE  EveryRightCounted'
<1>1. ASSUME NEW u \in Trades \ {t} PROVE RightsCounted(u)'
  <2>1. Senders(u)' = Senders(u)
    BY DEF Senders, Unsent
  <2>2. Free(u)' = Free(u)
    BY DEF Free
  <2>3. QED
    BY <2>1, <2>2 DEF RightsCounted, EveryRightCounted
<1>2. RightsCounted(t)'
  <2> DEFINE S == Senders(t) \ {w}
  <2>1. IsFiniteSet(Senders(t)) /\ delivered[t] + Cardinality(Senders(t)) + Free(t) <= 1 + again[t]
    BY DEF EveryRightCounted, RightsCounted
  <2>2. IsFiniteSet(S) /\ Cardinality(S) \in Nat /\ w \notin S
    BY <2>1, FS_Subset, FS_CardinalityType
  <2>3. Senders(t) = IF Unsent(w) THEN S \cup {w} ELSE S
    BY DEF Senders
  <2>4. Senders(t)' = IF Unsent(w)' THEN S \cup {w} ELSE S
    BY DEF Senders, Unsent
  <2> HIDE DEF S
  <2>5. IsFiniteSet(S \cup {w}) /\ Cardinality(S \cup {w}) = Cardinality(S) + 1
    BY <2>2, FS_AddElement
  <2>6. Cardinality(Senders(t)) = Cardinality(S) + One(Unsent(w))
    BY <2>2, <2>3, <2>5 DEF One
  <2>7. IsFiniteSet(Senders(t)') /\ Cardinality(Senders(t)') = Cardinality(S) + One(Unsent(w)')
    BY <2>2, <2>4, <2>5 DEF One
  <2>8. /\ delivered[t] \in Nat /\ again[t] \in Nat /\ Free(t) \in {0, 1}
        /\ delivered'[t] \in Nat /\ again'[t] \in Nat /\ Free(t)' \in {0, 1}
    BY DEF TypeOK, Free
  <2>9. One(Unsent(w)) \in {0, 1} /\ One(Unsent(w)') \in {0, 1}
    BY DEF One
  <2>10. delivered'[t] + Cardinality(Senders(t)') + Free(t)' <= 1 + again'[t]
    BY <2>1, <2>2, <2>6, <2>7, <2>8, <2>9
  <2>11. QED
    BY <2>7, <2>10 DEF RightsCounted
<1>3. QED
  BY <1>1, <1>2 DEF EveryRightCounted

LEMMA CountsInit == Init => EveryRightCounted
<1> SUFFICES ASSUME Init, NEW t \in Trades PROVE RightsCounted(t)
  BY DEF EveryRightCounted
<1>1. Senders(t) = {} /\ Free(t) = 1 /\ delivered[t] = 0 /\ again[t] = 0
  BY DEF Init, Senders, Unsent, Free
<1>2. QED
  BY <1>1, FS_EmptySet DEF RightsCounted

\* the steps of the app, the queues and the rounds, and every other step that moves
\* no worker in or out of its right
LEMMA CountsKept ==
  ASSUME EveryRightCounted, UNCHANGED <<key, delivered, again>>,
         \A w \in Workers : /\ Unsent(w)' <=> Unsent(w)
                            /\ Unsent(w) => job'[w].trade = job[w].trade
  PROVE  EveryRightCounted'
<1>1. ASSUME NEW t \in Trades PROVE RightsCounted(t)'
  BY CountKept DEF EveryRightCounted
<1>2. QED
  BY <1>1 DEF EveryRightCounted

LEMMA CountsStep ==
  TypeInv /\ EveryRightCounted /\ [Next]_vars /\ budget'["crash"] = budget["crash"]
    => EveryRightCounted'
<1> SUFFICES ASSUME TypeInv, EveryRightCounted, [Next]_vars,
                    budget'["crash"] = budget["crash"]
             PROVE  EveryRightCounted'
  OBVIOUS
<1> USE DEF db, queues, workers, history, Goto, At
<1>a. job \in [Workers -> Jobs] /\ pc \in [Workers -> PCs]
  BY DEF TypeInv, TypeOK
<1>b. TypeOK /\ TypeOK'
  BY TypeStep DEF TypeInv
<1>c. /\ delivered \in [Trades -> Nat] /\ again \in [Trades -> Nat]
      /\ \A t \in Trades : Free(t) \in {0, 1} /\ Free(t)' \in {0, 1}
  BY <1>b DEF TypeOK, Free
<1>1. ASSUME NEW t \in Trades, Commit(t) \/ Enqueue(t) \/ EnqueueFails(t) \/ GracePasses(t)
      PROVE  EveryRightCounted'
  BY <1>1, CountsKept DEF Commit, Enqueue, EnqueueFails, GracePasses, Unsent
<1>2. ASSUME NEW t \in Trades, Expire(t)
      PROVE  EveryRightCounted'
  <2>1. ASSUME NEW u \in Trades PROVE RightsCounted(u)'
    <3>1. Senders(u)' = Senders(u) /\ delivered'[u] = delivered[u]
      BY <1>2 DEF Expire, Senders, Unsent
    <3>2. CASE u = t
      <4>1. Free(t) = 0 /\ Free(t)' = 1 /\ again'[t] = again[t] + 1
        BY <1>2, <1>c DEF Expire, Free
      <4>2. Cardinality(Senders(t)) \in Nat
        BY FS_CardinalityType DEF EveryRightCounted, RightsCounted
      <4>3. QED
        BY <1>c, <3>1, <3>2, <4>1, <4>2 DEF EveryRightCounted, RightsCounted
    <3>3. CASE u # t
      <4>1. Free(u)' = Free(u) /\ again'[u] = again[u]
        BY <1>2, <1>c, <3>3 DEF Expire, Free
      <4>2. QED
        BY <3>1, <4>1 DEF EveryRightCounted, RightsCounted
    <3>4. QED
      BY <3>2, <3>3
  <2>2. QED
    BY <2>1 DEF EveryRightCounted
<1>3. ASSUME NEW w \in Workers, Take(w)
      PROVE  EveryRightCounted'
  <2>1. UNCHANGED <<key, delivered, again>>
    BY <1>3 DEF Take, TakeSend, TakeDead, TakeRound
  <2>2. \A v \in Workers : /\ Unsent(v)' <=> Unsent(v)
                           /\ Unsent(v) => job'[v].trade = job[v].trade
    BY <1>a, <1>3 DEF Take, TakeSend, TakeDead, TakeRound, Unsent
  <2>3. QED
    BY <2>1, <2>2, CountsKept
<1>4. ASSUME NEW w \in Workers,
             \/ MarkSent(w) \/ Publish(w) \/ Bury(w) \/ Scan(w) \/ EndRound(w) \/ Ack(w)
             \/ EndsInVain(w)
             \/ \E t \in Trades : Requeue(w, t) \/ RequeueFails(w, t)
      PROVE  EveryRightCounted'
  <2>1. UNCHANGED <<key, delivered, again>>
    BY <1>4 DEF MarkSent, Publish, Bury, Scan, EndRound, Ack, EndsInVain, Requeue, RequeueFails
  <2>2. \A v \in Workers : /\ Unsent(v)' <=> Unsent(v)
                           /\ Unsent(v) => job'[v].trade = job[v].trade
    BY <1>a, <1>4 DEF MarkSent, Publish, Bury, Scan, EndRound, Ack, EndsInVain, Requeue,
                      RequeueFails, Unsent
  <2>3. QED
    BY <2>1, <2>2, CountsKept
<1>5. ASSUME NEW w \in Workers, NEW t \in Trades, job[w].trade = t,
             \/ Claim(w) \/ ClaimFails(w) \/ Fetch(w) \/ FetchFails(w) \/ Post(w)
             \/ PostRefused(w) \/ PostUnanswered(w) \/ MarkSentFails(w) \/ Release(w)
             \/ ReleaseFails(w)
      PROVE  EveryRightCounted'
  <2>1. /\ job' = job
        /\ \A v \in Workers \ {w} : pc'[v] = pc[v]
        /\ \A u \in Trades \ {t} : /\ delivered'[u] = delivered[u] /\ again'[u] = again[u]
                                   /\ u \in key' <=> u \in key
    BY <1>a, <1>c, <1>5
       DEF Claim, ClaimFails, Fetch, FetchFails, Post, PostRefused, PostUnanswered,
           MarkSentFails, Release, ReleaseFails, Raise
  <2>2. delivered'[t] + One(Unsent(w)') + Free(t)' + again[t]
          <= delivered[t] + One(Unsent(w)) + Free(t) + again'[t]
    <3>1. CASE Claim(w)
      BY <1>a, <1>c, <1>5, <3>1 DEF Claim, Free, One, Unsent
    <3>2. CASE ClaimFails(w)
      BY <1>a, <1>c, <1>5, <3>2 DEF ClaimFails, Free, One, Unsent
    <3>3. CASE Fetch(w)
      BY <1>a, <1>c, <1>5, <3>3 DEF Fetch, Free, One, Unsent
    <3>4. CASE FetchFails(w)
      BY <1>a, <1>c, <1>5, <3>4 DEF FetchFails, Raise, Free, One, Unsent
    <3>5. CASE Post(w)
      BY <1>a, <1>c, <1>5, <3>5 DEF Post, Free, One, Unsent
    <3>6. CASE PostRefused(w)
      BY <1>a, <1>c, <1>5, <3>6 DEF PostRefused, Raise, Free, One, Unsent
    <3>7. CASE PostUnanswered(w)
      BY <1>a, <1>c, <1>5, <3>7 DEF PostUnanswered, Raise, Free, One, Unsent
    <3>8. CASE MarkSentFails(w)
      BY <1>a, <1>c, <1>5, <3>8 DEF MarkSentFails, Raise, Free, One, Unsent
    <3>9. CASE Release(w)
      BY <1>a, <1>c, <1>5, <3>9 DEF Release, Free, One, Unsent
    <3>10. CASE ReleaseFails(w)
      BY <1>a, <1>c, <1>5, <3>10 DEF ReleaseFails, Free, One, Unsent
    <3>11. QED
      BY <1>5, <3>1, <3>2, <3>3, <3>4, <3>5, <3>6, <3>7, <3>8, <3>9, <3>10
  <2>3. QED
    BY <1>b, <1>5, <2>1, <2>2, CountMoved
<1>6. ASSUME NEW w \in Workers, pc[w] \in {"claim", "fetch", "post", "mark", "except"}
      PROVE  job[w].trade \in Trades
  BY <1>6 DEF TypeInv, JobOK
<1>7. ASSUME NEW w \in Workers, Crash(w)
      PROVE  FALSE
  BY <1>b, <1>7 DEF Crash, Spend, TypeOK, BudgetKinds
<1>8. CASE Beat
  BY <1>8, CountsKept DEF Beat, Unsent
<1>9. CASE UNCHANGED vars
  BY <1>9, CountsKept DEF vars, Unsent
<1>10. ASSUME NEW w \in Workers, Proceed(w) \/ Fail(w)
       PROVE  EveryRightCounted'
  <2>1. CASE \/ Claim(w) \/ ClaimFails(w) \/ Fetch(w) \/ FetchFails(w) \/ Post(w)
             \/ PostRefused(w) \/ PostUnanswered(w) \/ MarkSentFails(w) \/ Release(w)
             \/ ReleaseFails(w)
    <3>1. pc[w] \in {"claim", "fetch", "post", "mark", "except"}
      BY <2>1 DEF Claim, ClaimFails, Fetch, FetchFails, Post, PostRefused, PostUnanswered,
                  MarkSentFails, Release, ReleaseFails
    <3>2. QED
      BY <1>5, <1>6, <2>1, <3>1
  <2>2. QED
    BY <1>4, <1>7, <1>10, <2>1 DEF Proceed, Fail
<1>11. QED
  BY <1>1, <1>2, <1>3, <1>8, <1>9, <1>10 DEF Next

\* what Redis may come back with is what the queues and the claims may be
LEMMA ContentsType == TypeInv => Contents \in Snapshots /\ Empty \in Snapshots
<1> SUFFICES ASSUME TypeInv PROVE Contents \in Snapshots /\ Empty \in Snapshots
  OBVIOUS
<1>1. ASSUME NEW n \in Nat, NEW busy PROVE Stored(n, busy) \in Nat
  BY OneMoreType DEF Stored
<1>2. ASSUME NEW t \in Trades, NEW k \in Attempts PROVE sends[<<t, k>>] \in Nat
  BY DEF TypeInv, TypeOK
<1>3. Contents.sends \in [Trades \X Attempts -> Nat]
  BY <1>1, <1>2 DEF Contents
<1>4. Contents \in Snapshots
  BY <1>1, <1>3 DEF Contents, Snapshots, TypeInv, TypeOK
<1>5. QED
  BY <1>4 DEF Empty, Snapshots

RestartInv == TypeInv /\ SavedOK /\ EveryRightCounted

LEMMA RestartStep == RestartInv /\ [NextR]_varsR => RestartInv'
<1> SUFFICES ASSUME RestartInv, [NextR]_varsR PROVE RestartInv'
  OBVIOUS
<1> USE DEF RestartInv
<1>1. CASE Proceeds
  <2>1. TypeInv' /\ EveryRightCounted'
    BY <1>1, TypeStep, CountsStep DEF Proceeds
  <2>2. SavedOK'
    BY <1>1, ContentsType DEF Proceeds, SavedOK
  <2>3. QED
    BY <2>1, <2>2
<1>2. CASE Save
  <2>1. [Next]_vars /\ UNCHANGED budget
    BY <1>2 DEF Save, vars
  <2>2. TypeInv' /\ EveryRightCounted'
    BY <2>1, TypeStep, CountsStep
  <2>3. SavedOK'
    BY <1>2, ContentsType DEF Save, SavedOK
  <2>4. QED
    BY <2>2, <2>3
<1>3. CASE RedisRestarts
  <2>1. /\ saved.key \subseteq Trades
        /\ saved.sends \in [Trades \X Attempts -> Nat]
        /\ saved.deads \in [Trades -> Nat]
        /\ saved.rounds \in Nat
    BY DEF SavedOK, Snapshots
  <2>2. budget' \in [BudgetKinds -> Nat]
    BY <1>3, SpendType DEF RedisRestarts, TypeInv, BudgetKinds
  <2>3. again' \in [Trades -> Nat]
    BY <1>3 DEF RedisRestarts, TypeInv, TypeOK
  <2>4. TypeOK'
    BY <1>3, <2>1, <2>2, <2>3 DEF RedisRestarts, TypeInv, TypeOK, db, workers
  <2>5. JobOK'
    BY <1>3 DEF RedisRestarts, TypeInv, JobOK, workers
  <2>6. SavedOK'
    BY <1>3, ContentsType DEF RedisRestarts, SavedOK
  <2>7. ASSUME NEW t \in Trades PROVE RightsCounted(t)'
    <3>1. Senders(t)' = Senders(t) /\ delivered'[t] = delivered[t]
      BY <1>3 DEF RedisRestarts, Senders, Unsent, workers
    <3>2. /\ delivered[t] \in Nat /\ again[t] \in Nat
          /\ IsFiniteSet(Senders(t)) /\ Cardinality(Senders(t)) \in Nat
          /\ delivered[t] + Cardinality(Senders(t)) + Free(t) <= 1 + again[t]
      BY FS_CardinalityType DEF EveryRightCounted, RightsCounted, TypeInv, TypeOK
    <3>3. Free(t) + again'[t] >= Free(t)' + again[t]
      BY <1>3, <3>2 DEF RedisRestarts, Free
    <3>4. Free(t) \in {0, 1} /\ Free(t)' \in {0, 1} /\ again'[t] \in Nat
      BY <2>3 DEF Free
    <3>5. QED
      BY <3>1, <3>2, <3>3, <3>4 DEF RightsCounted
  <2>8. QED
    BY <2>4, <2>5, <2>6, <2>7 DEF TypeInv, EveryRightCounted
<1>4. CASE UNCHANGED varsR
  <2>1. [Next]_vars /\ UNCHANGED <<budget, saved>>
    BY <1>4 DEF varsR, vars
  <2>2. QED
    BY <2>1, TypeStep, CountsStep DEF SavedOK
<1>5. QED
  BY <1>1, <1>2, <1>3, <1>4 DEF NextR

\* A restart of Redis that forgets claims and brings back acknowledged messages can
\* make a second task of a trade send, and each message too many still has its cause:
\* a claim lost, a lost answer, a failed update or an expiry.
THEOREM RestartDuplicatesAreBounded == SpecR => []DuplicatesHaveACause
<1>1. InitR => RestartInv
  BY TypeInit, CountsInit, ContentsType DEF InitR, RestartInv, SavedOK
<1>2. RestartInv => DuplicatesHaveACause
  <2> SUFFICES ASSUME RestartInv, NEW t \in Trades PROVE delivered[t] <= 1 + again[t]
    BY DEF DuplicatesHaveACause
  <2>1. /\ delivered[t] \in Nat /\ again[t] \in Nat /\ Free(t) \in {0, 1}
        /\ Cardinality(Senders(t)) \in Nat
        /\ delivered[t] + Cardinality(Senders(t)) + Free(t) <= 1 + again[t]
    BY FS_CardinalityType
       DEF RestartInv, EveryRightCounted, RightsCounted, TypeInv, TypeOK, Free
  <2>2. QED
    BY <2>1
<1>3. QED
  BY <1>1, <1>2, RestartStep, PTL DEF SpecR

-----------------------------------------------------------------------------
(* What a restart brings back *)

\* The messages of d are about committed trades and come after the failed attempts
\* they count.
Earned(d) ==
  /\ \A t \in Trades, k \in Attempts : d.sends[<<t, k>>] > 0 => t \in stored /\ fails[t] >= k
  /\ \A t \in Trades : d.deads[t] > 0 => t \in stored /\ fails[t] > MaxRetries

OutcomesInv ==
  /\ RestartInv /\ QueuedIsCommitted /\ MarkFollowsPost /\ AttemptsAreCounted
  /\ Earned(saved)

\* Postgres keeps the trades, and what has failed has failed.
LEMMA HistoryGrows ==
  ASSUME TypeInv, [Next]_vars
  PROVE  stored \subseteq stored' /\ \A t \in Trades : fails'[t] \in Nat /\ fails'[t] >= fails[t]
<1> USE DEF db, queues, workers, history
<1>1. ASSUME stored \subseteq stored', UNCHANGED fails
      PROVE  stored \subseteq stored' /\ \A t \in Trades : fails'[t] \in Nat /\ fails'[t] >= fails[t]
  BY <1>1 DEF TypeInv, TypeOK
<1>2. ASSUME NEW t \in Trades,
             Commit(t) \/ Enqueue(t) \/ EnqueueFails(t) \/ GracePasses(t) \/ Expire(t)
      PROVE  stored \subseteq stored' /\ UNCHANGED fails
  BY <1>2 DEF Commit, Enqueue, EnqueueFails, GracePasses, Expire
<1>3. ASSUME NEW w \in Workers, Take(w)
      PROVE  stored \subseteq stored' /\ UNCHANGED fails
  BY <1>3 DEF Take, TakeSend, TakeDead, TakeRound
<1>4. ASSUME NEW w \in Workers, Proceed(w)
      PROVE  stored \subseteq stored' /\ UNCHANGED fails
  <2>1. CASE Claim(w) \/ Fetch(w) \/ Post(w) \/ MarkSent(w) \/ Release(w) \/ Publish(w)
    BY <2>1 DEF Claim, Fetch, Post, MarkSent, Release, Publish
  <2>2. CASE Bury(w) \/ Scan(w) \/ EndRound(w) \/ Ack(w) \/ \E t \in Trades : Requeue(w, t)
    BY <2>2 DEF Bury, Scan, EndRound, Ack, Requeue
  <2>3. QED
    BY <1>4, <2>1, <2>2 DEF Proceed
<1>5. ASSUME NEW w \in Workers,
             \/ Crash(w) \/ ClaimFails(w) \/ ReleaseFails(w) \/ EndsInVain(w)
             \/ \E t \in Trades : RequeueFails(w, t)
      PROVE  stored \subseteq stored' /\ UNCHANGED fails
  BY <1>5 DEF Crash, ClaimFails, ReleaseFails, EndsInVain, RequeueFails
<1>6. ASSUME NEW w \in Workers,
             FetchFails(w) \/ PostRefused(w) \/ PostUnanswered(w) \/ MarkSentFails(w)
      PROVE  stored \subseteq stored' /\ \A t \in Trades : fails'[t] \in Nat /\ fails'[t] >= fails[t]
  <2>1. UNCHANGED stored /\ Raise(w) /\ pc[w] \in {"fetch", "post", "mark"}
    BY <1>6 DEF FetchFails, PostRefused, PostUnanswered, MarkSentFails, At
  <2>2. job[w].trade \in Trades
    BY <2>1 DEF TypeInv, JobOK
  <2>3. fails' \in [Trades -> Nat] /\ \A t \in Trades : fails'[t] >= fails[t]
    BY <2>1, <2>2, RaiseCounts
  <2>4. QED
    BY <2>1, <2>3
<1>7. CASE Beat
  BY <1>1, <1>7 DEF Beat
<1>8. CASE UNCHANGED vars
  BY <1>1, <1>8 DEF vars
<1>9. QED
  BY <1>1, <1>2, <1>3, <1>4, <1>5, <1>6, <1>7, <1>8 DEF Next, Fail

\* What is queued or being processed has been earned, so what Redis writes to disk has.
LEMMA ContentsEarned ==
  ASSUME TypeInv, QueuedIsCommitted, AttemptsAreCounted
  PROVE  Earned(Contents)
<1>1. \A n \in Nat : Stored(n, FALSE) = n
  BY DEF Stored
<1>2. ASSUME NEW t \in Trades, NEW k \in Attempts, Contents.sends[<<t, k>>] > 0
      PROVE  t \in stored /\ fails[t] >= k
  <2>1. Contents.sends[<<t, k>>] = Stored(sends[<<t, k>>], Processing("send", t, k))
    BY DEF Contents
  <2>2. CASE Processing("send", t, k)
    <3>1. PICK w \in Workers : job[w].kind = "send" /\ job[w].trade = t /\ job[w].attempt = k
      BY <2>2 DEF Processing
    <3>2. t # None
      BY TradesAssumption
    <3>3. QED
      BY <3>1, <3>2 DEF QueuedIsCommitted, AttemptsAreCounted
  <2>3. CASE ~Processing("send", t, k)
    <3>1. sends[<<t, k>>] > 0
      BY <1>2, <2>1, <2>3 DEF Stored
    <3>2. QED
      BY <3>1 DEF QueuedIsCommitted, AttemptsAreCounted
  <2>4. QED
    BY <2>2, <2>3
<1>3. ASSUME NEW t \in Trades, Contents.deads[t] > 0
      PROVE  t \in stored /\ fails[t] > MaxRetries
  <2>1. Contents.deads[t] = Stored(deads[t], Processing("dead", t, 0))
    BY DEF Contents
  <2>2. CASE Processing("dead", t, 0)
    <3>1. PICK w \in Workers : job[w].kind = "dead" /\ job[w].trade = t
      BY <2>2 DEF Processing
    <3>2. t # None
      BY TradesAssumption
    <3>3. QED
      BY <3>1, <3>2 DEF QueuedIsCommitted, AttemptsAreCounted
  <2>3. CASE ~Processing("dead", t, 0)
    <3>1. deads[t] > 0
      BY <1>3, <2>1, <2>3 DEF Stored
    <3>2. QED
      BY <3>1 DEF QueuedIsCommitted, AttemptsAreCounted, FailedWasExhausted
  <2>4. QED
    BY <2>2, <2>3
<1>4. QED
  BY <1>2, <1>3 DEF Earned

LEMMA EmptyEarned == Earned(Empty)
  BY DEF Earned, Empty

\* What has been earned stays so.
LEMMA StaysEarned ==
  ASSUME TypeInv, NEW d, Earned(d), stored \subseteq stored',
         \A t \in Trades : fails'[t] \in Nat /\ fails'[t] >= fails[t]
  PROVE  /\ \A t \in Trades, k \in Attempts :
              d.sends[<<t, k>>] > 0 => t \in stored' /\ fails'[t] >= k
         /\ \A t \in Trades : d.deads[t] > 0 => t \in stored' /\ fails'[t] > MaxRetries
<1>1. /\ \A t \in Trades : fails[t] \in Nat
      /\ MaxRetries \in Nat /\ Attempts \subseteq Nat
  BY MaxRetriesAssumption DEF TypeInv, TypeOK, Attempts
<1>2. QED
  BY <1>1 DEF Earned

LEMMA OutcomesStep == OutcomesInv /\ [NextR]_varsR => OutcomesInv'
<1> SUFFICES ASSUME OutcomesInv, [NextR]_varsR PROVE OutcomesInv'
  OBVIOUS
<1>1. /\ RestartInv /\ RestartInv' /\ TypeInv
      /\ QueuedIsCommitted /\ MarkFollowsPost /\ AttemptsAreCounted /\ Earned(saved)
  BY RestartStep DEF OutcomesInv, RestartInv
<1>2. ASSUME [Next]_vars
      PROVE  /\ QueuedIsCommitted' /\ MarkFollowsPost' /\ AttemptsAreCounted'
             /\ stored \subseteq stored'
             /\ \A t \in Trades : fails'[t] \in Nat /\ fails'[t] >= fails[t]
  BY <1>1, <1>2, CommittedStep, DeliveredStep, AttemptsStep, HistoryGrows
<1>3. ASSUME [Next]_vars, saved' \in {saved, Empty, Contents} PROVE OutcomesInv'
  <2>1. Earned(saved')
    BY <1>1, <1>3, ContentsEarned, EmptyEarned
  <2>2. Earned(saved)'
    BY <1>1, <1>2, <1>3, <2>1, StaysEarned DEF Earned
  <2>3. QED
    BY <1>1, <1>2, <1>3, <2>2 DEF OutcomesInv
<1>4. CASE Proceeds
  BY <1>3, <1>4 DEF Proceeds
<1>5. CASE Save
  <2>1. UNCHANGED vars /\ saved' = Contents
    BY <1>5 DEF Save
  <2>2. QED
    BY <1>3, <2>1
<1>6. CASE RedisRestarts
  <2>1. /\ UNCHANGED <<stored, sent, failed, handling, pc, job, todo, delivered, fails>>
        /\ sends' = saved.sends /\ deads' = saved.deads /\ saved' = Empty
    BY <1>6 DEF RedisRestarts, db, workers
  <2>2. QueuedIsCommitted'
    BY <1>1, <2>1 DEF QueuedIsCommitted, Earned
  <2>3. MarkFollowsPost'
    BY <1>1, <2>1 DEF MarkFollowsPost, SentWasDelivered, At
  <2>4. AttemptsAreCounted'
    BY <1>1, <2>1 DEF AttemptsAreCounted, FailedWasExhausted, Earned
  <2>5. Earned(saved)'
    BY <2>1, EmptyEarned DEF Earned
  <2>6. QED
    BY <1>1, <2>2, <2>3, <2>4, <2>5 DEF OutcomesInv
<1>7. CASE UNCHANGED varsR
  <2>1. UNCHANGED vars /\ saved' = saved
    BY <1>7 DEF varsR
  <2>2. QED
    BY <1>3, <2>1
<1>8. QED
  BY <1>4, <1>5, <1>6, <1>7 DEF NextR

LEMMA AlwaysOutcomes == SpecR => []OutcomesInv
<1>1. InitR => OutcomesInv
  <2> SUFFICES ASSUME InitR PROVE OutcomesInv
    OBVIOUS
  <2>1. Init /\ saved = Empty
    BY DEF InitR
  <2>2. RestartInv
    BY <2>1, TypeInit, CountsInit, ContentsType DEF RestartInv, SavedOK
  <2>3. QueuedIsCommitted /\ MarkFollowsPost /\ AttemptsAreCounted
    BY <2>1, AttemptsInit DEF Init, QueuedIsCommitted, Idle, MarkFollowsPost, SentWasDelivered, At
  <2>4. QED
    BY <2>1, <2>2, <2>3, EmptyEarned DEF OutcomesInv
<1>2. QED
  BY <1>1, OutcomesStep, PTL DEF SpecR

\* Also the messages a restart brings back are about committed trades, as a trade
\* that was committed stays in Postgres.
THEOREM RestartedQueueFollowsCommit == SpecR => []QueuedIsCommitted
<1>1. OutcomesInv => QueuedIsCommitted
  BY DEF OutcomesInv
<1>2. QED
  BY <1>1, AlwaysOutcomes, PTL

\* No restart makes the tasks mark a trade whose message the endpoint never accepted.
THEOREM RestartedSentIsEarned == SpecR => []SentWasDelivered
<1>1. OutcomesInv => SentWasDelivered
  BY DEF OutcomesInv, MarkFollowsPost
<1>2. QED
  BY <1>1, AlwaysOutcomes, PTL

\* A trade is dead-lettered or marked as failed only after its last retry failed, also
\* when attempts and dead letters acknowledged long ago come back.
THEOREM RestartedFailureIsEarned == SpecR => []FailedWasExhausted
<1>1. OutcomesInv => FailedWasExhausted
  BY DEF OutcomesInv, AttemptsAreCounted
<1>2. QED
  BY <1>1, AlwaysOutcomes, PTL
=============================================================================
