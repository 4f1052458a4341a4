------------------------- MODULE NotificationsProofs -------------------------
(* Theorems about Notifications, for every value of its constants. *)
EXTENDS Notifications, TLAPS

-----------------------------------------------------------------------------
(* The helpers *)

LEMMA OneMoreType == ASSUME NEW n \in Nat PROVE OneMore(n) \in Nat /\ OneMore(n) > 0
  BY BoundsAssumption DEF OneMore

LEMMA SpendType ==
  ASSUME NEW kind \in BudgetKinds, TypeOK, Spend(kind)
  PROVE  budget' \in [BudgetKinds -> Nat]
  BY DEF TypeOK, Spend

LEMMA PutSendType ==
  ASSUME NEW t \in Trades, NEW k \in Attempts, TypeOK, PutSend(t, k)
  PROVE  sends' \in [Trades \X Attempts -> Nat]
<1>1. OneMore(sends[<<t, k>>]) \in Nat
  BY OneMoreType DEF TypeOK
<1> QED
  BY <1>1 DEF TypeOK, PutSend

LEMMA PutDeadType ==
  ASSUME NEW t \in Trades, TypeOK, PutDead(t)
  PROVE  deads' \in [Trades -> Nat]
<1>1. OneMore(deads[t]) \in Nat
  BY OneMoreType DEF TypeOK
<1> QED
  BY <1>1 DEF TypeOK, PutDead

\* a queue that grows, grows by the message put into it
LEMMA PutSendAdds ==
  ASSUME NEW t \in Trades, NEW k \in Attempts, TypeOK, PutSend(t, k)
  PROVE  \A u \in Trades, l \in Attempts :
           sends'[<<u, l>>] > 0 => sends[<<u, l>>] > 0 \/ (u = t /\ l = k)
  BY DEF TypeOK, PutSend

LEMMA PutDeadAdds ==
  ASSUME NEW t \in Trades, TypeOK, PutDead(t)
  PROVE  \A u \in Trades : deads'[u] > 0 => deads[u] > 0 \/ u = t
  BY DEF TypeOK, PutDead

-----------------------------------------------------------------------------
(* Types *)

TypeInv == TypeOK /\ JobOK

LEMMA TypeInit == Init => TypeInv
  BY MaxRetriesAssumption, BoundsAssumption
     DEF Init, TypeInv, TypeOK, JobOK, Idle, Jobs, Attempts, PCs

LEMMA TypeStep == TypeInv /\ [Next]_vars => TypeInv'
<1> SUFFICES ASSUME TypeInv, [Next]_vars PROVE TypeInv'
  OBVIOUS
<1> USE MaxRetriesAssumption DEF TypeInv, TypeOK, JobOK, Jobs, PCs, Goto, At, Idle,
            db, queues, workers, history
<1>a. 0 \in Attempts
  BY DEF Attempts
<1>1. ASSUME NEW t \in Trades, Commit(t)
      PROVE  TypeInv'
  BY <1>a, <1>1 DEF Commit
<1>2. ASSUME NEW t \in Trades, Enqueue(t)
      PROVE  TypeInv'
  <2>1. sends' \in [Trades \X Attempts -> Nat]
    BY <1>a, <1>2, PutSendType DEF Enqueue
  <2> QED
    BY <1>a, <1>2, <2>1 DEF Enqueue
<1>3. ASSUME NEW t \in Trades, EnqueueFails(t)
      PROVE  TypeInv'
  <2>1. budget' \in [BudgetKinds -> Nat]
    BY <1>a, <1>3, SpendType DEF EnqueueFails, BudgetKinds
  <2> QED
    BY <1>a, <1>3, <2>1 DEF EnqueueFails
<1>4. ASSUME NEW t \in Trades, GracePasses(t)
      PROVE  TypeInv'
  BY <1>a, <1>4 DEF GracePasses
<1>5. ASSUME NEW t \in Trades, Expire(t)
      PROVE  TypeInv'
  <2>1. budget' \in [BudgetKinds -> Nat]
    BY <1>a, <1>5, SpendType DEF Expire, BudgetKinds
  <2> QED
    BY <1>a, <1>5, <2>1 DEF Expire
<1>6. ASSUME NEW w \in Workers, NEW t \in Trades, NEW k \in Attempts, TakeSend(w, t, k)
      PROVE  TypeInv'
  <2>1. sends[<<t, k>>] \in Nat
    BY <1>a, <1>6, Zenon
  <2>2. sends[<<t, k>>] - 1 \in Nat
    BY <1>a, <1>6, <2>1 DEF TakeSend
  <2>3. sends' \in [Trades \X Attempts -> Nat]
    BY <1>a, <1>6, <2>2 DEF TakeSend
  <2> QED
    BY <1>a, <1>6, <2>1, <2>2, <2>3 DEF TakeSend
<1>7. ASSUME NEW w \in Workers, NEW t \in Trades, TakeDead(w, t)
      PROVE  TypeInv'
  BY <1>a, <1>7 DEF TakeDead
<1>8. ASSUME NEW w \in Workers, TakeRound(w)
      PROVE  TypeInv'
  BY <1>a, <1>8 DEF TakeRound
<1>9. ASSUME NEW w \in Workers, Claim(w)
      PROVE  TypeInv'
  BY <1>a, <1>9 DEF Claim
<1>10. ASSUME NEW w \in Workers, Fetch(w)
       PROVE  TypeInv'
  BY <1>a, <1>10 DEF Fetch
<1>11. ASSUME NEW w \in Workers, Post(w)
       PROVE  TypeInv'
  BY <1>a, <1>11 DEF Post
<1>12. ASSUME NEW w \in Workers, MarkSent(w)
       PROVE  TypeInv'
  BY <1>a, <1>12 DEF MarkSent
<1>13. ASSUME NEW w \in Workers, Release(w)
       PROVE  TypeInv'
  BY <1>a, <1>13 DEF Release
<1>14. ASSUME NEW w \in Workers, Publish(w)
       PROVE  TypeInv'
  <2>1. job[w].trade \in Trades /\ job[w].attempt \in Attempts
    BY <1>a, <1>14 DEF Publish
  <2>2. job[w].attempt >= MaxRetries \/ job[w].attempt + 1 \in Attempts
    BY <1>a, <1>14, <2>1 DEF Attempts
  <2>3. sends' \in [Trades \X Attempts -> Nat]
    BY <1>a, <1>14, <2>1, <2>2, PutSendType DEF Publish
  <2>4. deads' \in [Trades -> Nat]
    BY <1>a, <1>14, <2>1, PutDeadType DEF Publish
  <2> QED
    BY <1>a, <1>14, <2>1, <2>2, <2>3, <2>4 DEF Publish
<1>15. ASSUME NEW w \in Workers, Bury(w)
       PROVE  TypeInv'
  BY <1>a, <1>15 DEF Bury
<1>16. ASSUME NEW w \in Workers, Scan(w)
       PROVE  TypeInv'
  BY <1>a, <1>16 DEF Scan, Oldest, Unnotified
<1>17. ASSUME NEW w \in Workers, EndRound(w)
       PROVE  TypeInv'
  BY <1>a, <1>17 DEF EndRound
<1>18. ASSUME NEW w \in Workers, Ack(w)
       PROVE  TypeInv'
  BY <1>a, <1>18 DEF Ack
<1>19. ASSUME NEW w \in Workers, NEW t \in Trades, Requeue(w, t)
       PROVE  TypeInv'
  <2>1. sends' \in [Trades \X Attempts -> Nat]
    BY <1>a, <1>19, PutSendType DEF Requeue
  <2> QED
    BY <1>a, <1>19, <2>1 DEF Requeue
<1>20. ASSUME NEW w \in Workers, Crash(w)
       PROVE  TypeInv'
  <2>1. budget' \in [BudgetKinds -> Nat]
    BY <1>a, <1>20, SpendType DEF Crash, BudgetKinds
  <2>2. job[w].attempt \in Attempts /\ (job[w].kind \in {"send", "dead"} => job[w].trade \in Trades)
    BY <1>a, <1>20, Zenon
  <2>3. sends' \in [Trades \X Attempts -> Nat]
    BY <1>a, <1>20, <2>2, PutSendType DEF Crash
  <2>4. deads' \in [Trades -> Nat]
    BY <1>a, <1>20, <2>2, PutDeadType DEF Crash
  <2>5. rounds' \in Nat
    BY <1>a, <1>20, OneMoreType DEF Crash
  <2> QED
    BY <1>a, <1>20, <2>1, <2>2, <2>3, <2>4, <2>5 DEF Crash
<1>21. ASSUME NEW w \in Workers, ClaimFails(w)
       PROVE  TypeInv'
  <2>1. budget' \in [BudgetKinds -> Nat]
    BY <1>a, <1>21, SpendType DEF ClaimFails, BudgetKinds
  <2> QED
    BY <1>a, <1>21, <2>1 DEF ClaimFails
<1>22. ASSUME NEW w \in Workers, FetchFails(w)
       PROVE  TypeInv'
  <2>1. budget' \in [BudgetKinds -> Nat]
    BY <1>a, <1>22, SpendType DEF FetchFails, BudgetKinds
  <2> QED
    BY <1>a, <1>22, <2>1 DEF FetchFails, Raise
<1>23. ASSUME NEW w \in Workers, PostRefused(w)
       PROVE  TypeInv'
  <2>1. budget' \in [BudgetKinds -> Nat]
    BY <1>a, <1>23, SpendType DEF PostRefused, BudgetKinds
  <2> QED
    BY <1>a, <1>23, <2>1 DEF PostRefused, Raise
<1>24. ASSUME NEW w \in Workers, PostUnanswered(w)
       PROVE  TypeInv'
  <2>1. budget' \in [BudgetKinds -> Nat]
    BY <1>a, <1>24, SpendType DEF PostUnanswered, BudgetKinds
  <2> QED
    BY <1>a, <1>24, <2>1 DEF PostUnanswered, Raise
<1>25. ASSUME NEW w \in Workers, MarkSentFails(w)
       PROVE  TypeInv'
  <2>1. budget' \in [BudgetKinds -> Nat]
    BY <1>a, <1>25, SpendType DEF MarkSentFails, BudgetKinds
  <2> QED
    BY <1>a, <1>25, <2>1 DEF MarkSentFails, Raise
<1>26. ASSUME NEW w \in Workers, ReleaseFails(w)
       PROVE  TypeInv'
  <2>1. budget' \in [BudgetKinds -> Nat]
    BY <1>a, <1>26, SpendType DEF ReleaseFails, BudgetKinds
  <2> QED
    BY <1>a, <1>26, <2>1 DEF ReleaseFails
<1>27. ASSUME NEW w \in Workers, EndsInVain(w)
       PROVE  TypeInv'
  <2>1. budget' \in [BudgetKinds -> Nat]
    BY <1>a, <1>27, SpendType DEF EndsInVain, BudgetKinds
  <2> QED
    BY <1>a, <1>27, <2>1 DEF EndsInVain
<1>28. ASSUME NEW w \in Workers, NEW t \in Trades, RequeueFails(w, t)
       PROVE  TypeInv'
  <2>1. budget' \in [BudgetKinds -> Nat]
    BY <1>a, <1>28, SpendType DEF RequeueFails, BudgetKinds
  <2> QED
    BY <1>a, <1>28, <2>1 DEF RequeueFails
<1>29. CASE Beat
  BY <1>a, <1>29 DEF Beat
<1>30. CASE UNCHANGED vars
  BY <1>30 DEF vars
<1> QED
  BY <1>1, <1>2, <1>3, <1>4, <1>5, <1>6, <1>7, <1>8, <1>9, <1>10, <1>11, <1>12,
     <1>13, <1>14, <1>15, <1>16, <1>17, <1>18, <1>19, <1>20, <1>21, <1>22,
     <1>23, <1>24, <1>25, <1>26, <1>27, <1>28, <1>29, <1>30
     DEF Next, Take, Proceed, Fail

\* Every variable keeps its type, for any number of trades, workers and retries.
THEOREM TypeCorrect == Spec => []TypeOK
<1>1. TypeInv => TypeOK
  BY DEF TypeInv
<1> QED
  BY <1>1, TypeInit, TypeStep, PTL DEF Spec

-----------------------------------------------------------------------------
(* The claim key *)

LEMMA OneHolderStep == TypeInv /\ OneHolder /\ [Next]_vars => OneHolder'
<1> SUFFICES ASSUME TypeInv /\ OneHolder, [Next]_vars PROVE OneHolder'
  OBVIOUS
<1> USE DEF OneHolder, db, queues, workers, history, Goto, At, TypeInv,
            TypeOK, JobOK, Holds, Claimed, Idle, Jobs, Raise
<1>1. ASSUME NEW t \in Trades, Commit(t) \/ Enqueue(t) \/ EnqueueFails(t) \/ GracePasses(t)
      PROVE  OneHolder'
  BY <1>1 DEF Commit, Enqueue, EnqueueFails, GracePasses
<1>2. ASSUME NEW t \in Trades, Expire(t)
      PROVE  OneHolder'
  BY <1>2 DEF Expire
<1>3. ASSUME NEW w \in Workers, NEW t \in Trades,
              NEW k \in Attempts, TakeSend(w, t, k)
      PROVE  OneHolder'
  BY <1>3 DEF TakeSend
<1>4. ASSUME NEW w \in Workers, NEW t \in Trades, TakeDead(w, t)
      PROVE  OneHolder'
  BY <1>4 DEF TakeDead
<1>5. ASSUME NEW w \in Workers, TakeRound(w)
      PROVE  OneHolder'
  BY <1>5 DEF TakeRound
<1>6. ASSUME NEW w \in Workers, Claim(w)
      PROVE  OneHolder'
  BY <1>6 DEF Claim
<1>7. ASSUME NEW w \in Workers, ClaimFails(w)
      PROVE  OneHolder'
  BY <1>7 DEF ClaimFails
<1>8. ASSUME NEW w \in Workers, Fetch(w)
      PROVE  OneHolder'
  BY <1>8 DEF Fetch
<1>9. ASSUME NEW w \in Workers, FetchFails(w)
      PROVE  OneHolder'
  BY <1>9 DEF FetchFails
<1>10. ASSUME NEW w \in Workers, Post(w)
       PROVE  OneHolder'
  BY <1>10 DEF Post
<1>11. ASSUME NEW w \in Workers, PostRefused(w)
       PROVE  OneHolder'
  BY <1>11 DEF PostRefused
<1>12. ASSUME NEW w \in Workers, PostUnanswered(w)
       PROVE  OneHolder'
  BY <1>12 DEF PostUnanswered
<1>13. ASSUME NEW w \in Workers, MarkSent(w)
       PROVE  OneHolder'
  BY <1>13 DEF MarkSent
<1>14. ASSUME NEW w \in Workers, MarkSentFails(w)
       PROVE  OneHolder'
  BY <1>14 DEF MarkSentFails
<1>15. ASSUME NEW w \in Workers, Release(w)
       PROVE  OneHolder'
  BY <1>15 DEF Release
<1>16. ASSUME NEW w \in Workers, ReleaseFails(w)
       PROVE  OneHolder'
  BY <1>16 DEF ReleaseFails
<1>17. ASSUME NEW w \in Workers, Publish(w)
       PROVE  OneHolder'
  BY <1>17 DEF Publish
<1>18. ASSUME NEW w \in Workers, Bury(w)
       PROVE  OneHolder'
  BY <1>18 DEF Bury
<1>19. ASSUME NEW w \in Workers, Scan(w)
       PROVE  OneHolder'
  BY <1>19 DEF Scan
<1>20. ASSUME NEW w \in Workers, EndsInVain(w)
       PROVE  OneHolder'
  BY <1>20 DEF EndsInVain
<1>21. ASSUME NEW w \in Workers, NEW t \in Trades, Requeue(w, t)
       PROVE  OneHolder'
  BY <1>21 DEF Requeue
<1>22. ASSUME NEW w \in Workers, NEW t \in Trades, RequeueFails(w, t)
       PROVE  OneHolder'
  BY <1>22 DEF RequeueFails
<1>23. ASSUME NEW w \in Workers, EndRound(w)
       PROVE  OneHolder'
  BY <1>23 DEF EndRound
<1>24. ASSUME NEW w \in Workers, Ack(w)
       PROVE  OneHolder'
  BY <1>24 DEF Ack
<1>25. ASSUME NEW w \in Workers, Crash(w)
       PROVE  OneHolder'
  BY <1>25 DEF Crash
<1>26. CASE Beat
  BY <1>26 DEF Beat
<1>27. CASE UNCHANGED vars
  BY <1>27 DEF vars
<1> QED
  BY <1>1, <1>2, <1>3, <1>4, <1>5, <1>6, <1>7, <1>8, <1>9, <1>10,
     <1>11, <1>12, <1>13, <1>14, <1>15, <1>16, <1>17, <1>18, <1>19, <1>20,
     <1>21, <1>22, <1>23, <1>24, <1>25, <1>26, <1>27
     DEF Next, Take, Proceed, Fail

\* The claim key is a lock: never two tasks of one trade past the claim, and
\* the key present as long as there is one, for any number of workers, crashes,
\* redeliveries and duplicate enqueues.
THEOREM ClaimIsExclusive == Spec => []OneHolder
<1>1. Init => OneHolder
  BY DEF Init, OneHolder, Holds, Claimed
<1> QED
  BY <1>1, TypeInit, TypeStep, OneHolderStep, PTL DEF Spec

-----------------------------------------------------------------------------
(* The queue *)

LEMMA CommittedStep == TypeInv /\ QueuedIsCommitted /\ [Next]_vars => QueuedIsCommitted'
<1> SUFFICES ASSUME TypeInv /\ QueuedIsCommitted, [Next]_vars PROVE QueuedIsCommitted'
  OBVIOUS
<1> USE DEF QueuedIsCommitted, db, queues, workers, history, Goto, At,
            TypeInv, TypeOK, JobOK, Idle, Jobs, Raise, Oldest, Unnotified,
            NextOf
<1>1. ASSUME NEW t \in Trades, Commit(t) \/ Enqueue(t) \/ EnqueueFails(t) \/ GracePasses(t)
      PROVE  QueuedIsCommitted'
  <2>1. CASE Enqueue(t)
    <3>1. 0 \in Attempts
      BY MaxRetriesAssumption DEF Attempts
    <3>2. t \in stored /\ PutSend(t, 0)
      BY <2>1 DEF Enqueue
    <3>3. \A u \in Trades, l \in Attempts : sends'[<<u, l>>] > 0 => u \in stored
      BY <3>1, <3>2, PutSendAdds
    <3> QED
      BY <2>1, <3>3 DEF Enqueue
  <2>2. CASE ~Enqueue(t)
    BY <1>1, <2>2 DEF Commit, EnqueueFails, GracePasses
  <2> QED
    BY <2>1, <2>2
<1>2. ASSUME NEW t \in Trades, Expire(t)
      PROVE  QueuedIsCommitted'
  BY <1>2 DEF Expire
<1>3. ASSUME NEW w \in Workers, NEW t \in Trades,
              NEW k \in Attempts, TakeSend(w, t, k)
      PROVE  QueuedIsCommitted'
  BY <1>3 DEF TakeSend
<1>4. ASSUME NEW w \in Workers, NEW t \in Trades, TakeDead(w, t)
      PROVE  QueuedIsCommitted'
  BY <1>4 DEF TakeDead
<1>5. ASSUME NEW w \in Workers, TakeRound(w)
      PROVE  QueuedIsCommitted'
  BY <1>5 DEF TakeRound
<1>6. ASSUME NEW w \in Workers, Claim(w)
      PROVE  QueuedIsCommitted'
  BY <1>6 DEF Claim
<1>7. ASSUME NEW w \in Workers, ClaimFails(w)
      PROVE  QueuedIsCommitted'
  BY <1>7 DEF ClaimFails
<1>8. ASSUME NEW w \in Workers, Fetch(w)
      PROVE  QueuedIsCommitted'
  BY <1>8 DEF Fetch
<1>9. ASSUME NEW w \in Workers, FetchFails(w)
      PROVE  QueuedIsCommitted'
  BY <1>9 DEF FetchFails
<1>10. ASSUME NEW w \in Workers, Post(w)
       PROVE  QueuedIsCommitted'
  BY <1>10 DEF Post
<1>11. ASSUME NEW w \in Workers, PostRefused(w)
       PROVE  QueuedIsCommitted'
  BY <1>11 DEF PostRefused
<1>12. ASSUME NEW w \in Workers, PostUnanswered(w)
       PROVE  QueuedIsCommitted'
  BY <1>12 DEF PostUnanswered
<1>13. ASSUME NEW w \in Workers, MarkSent(w)
       PROVE  QueuedIsCommitted'
  BY <1>13 DEF MarkSent
<1>14. ASSUME NEW w \in Workers, MarkSentFails(w)
       PROVE  QueuedIsCommitted'
  BY <1>14 DEF MarkSentFails
<1>15. ASSUME NEW w \in Workers, Release(w)
       PROVE  QueuedIsCommitted'
  BY <1>15 DEF Release
<1>16. ASSUME NEW w \in Workers, ReleaseFails(w)
       PROVE  QueuedIsCommitted'
  BY <1>16 DEF ReleaseFails
<1>17. ASSUME NEW w \in Workers, Publish(w)
       PROVE  QueuedIsCommitted'
  <2>1. job[w].trade \in Trades /\ job[w].trade \in stored /\ job[w].attempt \in Attempts
    BY <1>17, TradesAssumption DEF Publish
  <2>2. job[w].attempt >= MaxRetries \/ job[w].attempt + 1 \in Attempts
    BY <2>1, MaxRetriesAssumption DEF Attempts
  <2>3. \A u \in Trades, l \in Attempts : sends'[<<u, l>>] > 0 => u \in stored
    BY <1>17, <2>1, <2>2, PutSendAdds DEF Publish
  <2>4. \A u \in Trades : deads'[u] > 0 => u \in stored
    BY <1>17, <2>1, PutDeadAdds DEF Publish
  <2> QED
    BY <1>17, <2>3, <2>4 DEF Publish
<1>18. ASSUME NEW w \in Workers, Bury(w)
       PROVE  QueuedIsCommitted'
  BY <1>18 DEF Bury
<1>19. ASSUME NEW w \in Workers, Scan(w)
       PROVE  QueuedIsCommitted'
  BY <1>19 DEF Scan
<1>20. ASSUME NEW w \in Workers, EndsInVain(w)
       PROVE  QueuedIsCommitted'
  BY <1>20 DEF EndsInVain
<1>21. ASSUME NEW w \in Workers, NEW t \in Trades, Requeue(w, t)
       PROVE  QueuedIsCommitted'
  <2>1. 0 \in Attempts
    BY MaxRetriesAssumption DEF Attempts
  <2>2. t \in stored /\ PutSend(t, 0)
    BY <1>21 DEF Requeue, NextOf
  <2>3. \A u \in Trades, l \in Attempts : sends'[<<u, l>>] > 0 => u \in stored
    BY <2>1, <2>2, PutSendAdds
  <2> QED
    BY <1>21, <2>3 DEF Requeue
<1>22. ASSUME NEW w \in Workers, NEW t \in Trades, RequeueFails(w, t)
       PROVE  QueuedIsCommitted'
  BY <1>22 DEF RequeueFails
<1>23. ASSUME NEW w \in Workers, EndRound(w)
       PROVE  QueuedIsCommitted'
  BY <1>23 DEF EndRound
<1>24. ASSUME NEW w \in Workers, Ack(w)
       PROVE  QueuedIsCommitted'
  BY <1>24 DEF Ack
<1>25. ASSUME NEW w \in Workers, Crash(w)
       PROVE  QueuedIsCommitted'
  <2>0. job[w] \in Jobs /\ (job[w].trade # None => job[w].trade \in stored)
    BY <1>25 DEF Crash
  <2>1. /\ job[w].attempt \in Attempts
        /\ job[w].kind \in {"send", "dead"} => job[w].trade \in stored
    BY <2>0, TradesAssumption
  <2>a. \/ job[w].kind = "send" /\ PutSend(job[w].trade, job[w].attempt)
        \/ UNCHANGED sends
    BY <1>25 DEF Crash
  <2>2. \A u \in Trades, l \in Attempts : sends'[<<u, l>>] > 0 => u \in stored
    <3>1. CASE job[w].kind = "send" /\ PutSend(job[w].trade, job[w].attempt)
      <4>1. job[w].trade \in Trades /\ TypeOK
        BY <3>1
      <4>2. \A u \in Trades, l \in Attempts :
              sends'[<<u, l>>] > 0 => sends[<<u, l>>] > 0 \/ u = job[w].trade
        BY <2>1, <3>1, <4>1, PutSendAdds
      <4> QED
        BY <2>1, <3>1, <4>2
    <3>2. CASE UNCHANGED sends
      BY <3>2
    <3> QED
      BY <2>a, <3>1, <3>2
  <2>3. \A u \in Trades : deads'[u] > 0 => u \in stored
    BY <1>25, <2>1, PutDeadAdds DEF Crash
  <2> QED
    BY <1>25, <2>2, <2>3 DEF Crash
<1>26. CASE Beat
  BY <1>26 DEF Beat
<1>27. CASE UNCHANGED vars
  BY <1>27 DEF vars
<1> QED
  BY <1>1, <1>2, <1>3, <1>4, <1>5, <1>6, <1>7, <1>8, <1>9, <1>10,
     <1>11, <1>12, <1>13, <1>14, <1>15, <1>16, <1>17, <1>18, <1>19, <1>20,
     <1>21, <1>22, <1>23, <1>24, <1>25, <1>26, <1>27
     DEF Next, Take, Proceed, Fail

\* Every task about a trade follows the commit of its row.
THEOREM QueueFollowsCommit == Spec => []QueuedIsCommitted
<1>1. Init => QueuedIsCommitted
  BY DEF Init, QueuedIsCommitted, Idle
<1> QED
  BY <1>1, TypeInit, TypeStep, CommittedStep, PTL DEF Spec

-----------------------------------------------------------------------------
(* The outcomes *)

LEMMA DeliveredStep == TypeInv /\ MarkFollowsPost /\ [Next]_vars => MarkFollowsPost'
<1> SUFFICES ASSUME TypeInv /\ MarkFollowsPost, [Next]_vars PROVE MarkFollowsPost'
  OBVIOUS
<1> USE DEF MarkFollowsPost, SentWasDelivered, db, queues, workers, history,
            Goto, At,             TypeInv, TypeOK, JobOK, Idle, Jobs, Raise
<1>1. ASSUME NEW t \in Trades, Commit(t) \/ Enqueue(t) \/ EnqueueFails(t) \/ GracePasses(t)
      PROVE  MarkFollowsPost'
  BY <1>1 DEF Commit, Enqueue, EnqueueFails, GracePasses
<1>2. ASSUME NEW t \in Trades, Expire(t)
      PROVE  MarkFollowsPost'
  BY <1>2 DEF Expire
<1>3. ASSUME NEW w \in Workers, NEW t \in Trades,
              NEW k \in Attempts, TakeSend(w, t, k)
      PROVE  MarkFollowsPost'
  BY <1>3 DEF TakeSend
<1>4. ASSUME NEW w \in Workers, NEW t \in Trades, TakeDead(w, t)
      PROVE  MarkFollowsPost'
  BY <1>4 DEF TakeDead
<1>5. ASSUME NEW w \in Workers, TakeRound(w)
      PROVE  MarkFollowsPost'
  BY <1>5 DEF TakeRound
<1>6. ASSUME NEW w \in Workers, Claim(w)
      PROVE  MarkFollowsPost'
  BY <1>6 DEF Claim
<1>7. ASSUME NEW w \in Workers, ClaimFails(w)
      PROVE  MarkFollowsPost'
  BY <1>7 DEF ClaimFails
<1>8. ASSUME NEW w \in Workers, Fetch(w)
      PROVE  MarkFollowsPost'
  BY <1>8 DEF Fetch
<1>9. ASSUME NEW w \in Workers, FetchFails(w)
      PROVE  MarkFollowsPost'
  BY <1>9 DEF FetchFails
<1>10. ASSUME NEW w \in Workers, Post(w)
       PROVE  MarkFollowsPost'
  BY <1>10 DEF Post
<1>11. ASSUME NEW w \in Workers, PostRefused(w)
       PROVE  MarkFollowsPost'
  BY <1>11 DEF PostRefused
<1>12. ASSUME NEW w \in Workers, PostUnanswered(w)
       PROVE  MarkFollowsPost'
  BY <1>12 DEF PostUnanswered
<1>13. ASSUME NEW w \in Workers, MarkSent(w)
       PROVE  MarkFollowsPost'
  BY <1>13 DEF MarkSent
<1>14. ASSUME NEW w \in Workers, MarkSentFails(w)
       PROVE  MarkFollowsPost'
  BY <1>14 DEF MarkSentFails
<1>15. ASSUME NEW w \in Workers, Release(w)
       PROVE  MarkFollowsPost'
  BY <1>15 DEF Release
<1>16. ASSUME NEW w \in Workers, ReleaseFails(w)
       PROVE  MarkFollowsPost'
  BY <1>16 DEF ReleaseFails
<1>17. ASSUME NEW w \in Workers, Publish(w)
       PROVE  MarkFollowsPost'
  BY <1>17 DEF Publish
<1>18. ASSUME NEW w \in Workers, Bury(w)
       PROVE  MarkFollowsPost'
  BY <1>18 DEF Bury
<1>19. ASSUME NEW w \in Workers, Scan(w)
       PROVE  MarkFollowsPost'
  BY <1>19 DEF Scan
<1>20. ASSUME NEW w \in Workers, EndsInVain(w)
       PROVE  MarkFollowsPost'
  BY <1>20 DEF EndsInVain
<1>21. ASSUME NEW w \in Workers, NEW t \in Trades, Requeue(w, t)
       PROVE  MarkFollowsPost'
  BY <1>21 DEF Requeue
<1>22. ASSUME NEW w \in Workers, NEW t \in Trades, RequeueFails(w, t)
       PROVE  MarkFollowsPost'
  BY <1>22 DEF RequeueFails
<1>23. ASSUME NEW w \in Workers, EndRound(w)
       PROVE  MarkFollowsPost'
  BY <1>23 DEF EndRound
<1>24. ASSUME NEW w \in Workers, Ack(w)
       PROVE  MarkFollowsPost'
  BY <1>24 DEF Ack
<1>25. ASSUME NEW w \in Workers, Crash(w)
       PROVE  MarkFollowsPost'
  BY <1>25 DEF Crash
<1>26. CASE Beat
  BY <1>26 DEF Beat
<1>27. CASE UNCHANGED vars
  BY <1>27 DEF vars
<1> QED
  BY <1>1, <1>2, <1>3, <1>4, <1>5, <1>6, <1>7, <1>8, <1>9, <1>10,
     <1>11, <1>12, <1>13, <1>14, <1>15, <1>16, <1>17, <1>18, <1>19, <1>20,
     <1>21, <1>22, <1>23, <1>24, <1>25, <1>26, <1>27
     DEF Next, Take, Proceed, Fail

\* No trade is marked as notified before the endpoint accepted its message.
THEOREM SentIsEarned == Spec => []SentWasDelivered
<1>1. Init => MarkFollowsPost
  BY DEF Init, MarkFollowsPost, SentWasDelivered, At
<1>2. MarkFollowsPost => SentWasDelivered
  BY DEF MarkFollowsPost
<1> QED
  BY <1>1, <1>2, TypeInit, TypeStep, DeliveredStep, PTL DEF Spec

\* entering the exception handler counts one more failed attempt of the trade
LEMMA RaiseCounts ==
  ASSUME TypeInv, NEW w \in Workers, job[w].trade \in Trades, Raise(w)
  PROVE  /\ pc' = [pc EXCEPT ![w] = "except"]
         /\ fails' \in [Trades -> Nat]
         /\ \A t \in Trades : fails'[t] >= fails[t]
         /\ fails'[job[w].trade] = fails[job[w].trade] + 1
  BY DEF TypeInv, TypeOK, Raise, Goto

LEMMA AttemptsStep == TypeInv /\ AttemptsAreCounted /\ [Next]_vars => AttemptsAreCounted'
<1> SUFFICES ASSUME TypeInv /\ AttemptsAreCounted, [Next]_vars PROVE AttemptsAreCounted'
  OBVIOUS
<1> USE DEF AttemptsAreCounted, FailedWasExhausted, db, queues, workers,
            history, Goto, At, TypeInv, TypeOK, JobOK, Idle, Jobs
<1>1. ASSUME NEW t \in Trades, Commit(t) \/ Enqueue(t) \/ EnqueueFails(t) \/ GracePasses(t)
      PROVE  AttemptsAreCounted'
  <2>1. /\ 0 \in Attempts
        /\ \A u \in Trades : fails[u] \in Nat
        /\ \A l \in Attempts : l \in Nat
    BY MaxRetriesAssumption DEF Attempts
  <2>2. CASE Enqueue(t)
    <3>1. PutSend(t, 0)
      BY <2>2 DEF Enqueue
    <3>2. \A u \in Trades, l \in Attempts : sends'[<<u, l>>] > 0 => sends[<<u, l>>] > 0 \/ l = 0
      BY <2>1, <3>1, PutSendAdds
    <3>3. \A u \in Trades, l \in Attempts : sends'[<<u, l>>] > 0 => fails[u] >= l
      BY <2>1, <3>2
    <3> QED
      BY <2>2, <3>3 DEF Enqueue
  <2>3. CASE ~Enqueue(t)
    BY <1>1, <2>3 DEF Commit, EnqueueFails, GracePasses
  <2> QED
    BY <2>2, <2>3
<1>2. ASSUME NEW t \in Trades, Expire(t)
      PROVE  AttemptsAreCounted'
  BY <1>2 DEF Expire
<1>3. ASSUME NEW w \in Workers, NEW t \in Trades,
              NEW k \in Attempts, TakeSend(w, t, k)
      PROVE  AttemptsAreCounted'
  BY <1>3 DEF TakeSend
<1>4. ASSUME NEW w \in Workers, NEW t \in Trades, TakeDead(w, t)
      PROVE  AttemptsAreCounted'
  BY <1>4 DEF TakeDead
<1>5. ASSUME NEW w \in Workers, TakeRound(w)
      PROVE  AttemptsAreCounted'
  BY <1>5 DEF TakeRound
<1>6. ASSUME NEW w \in Workers, Claim(w)
      PROVE  AttemptsAreCounted'
  BY <1>6 DEF Claim
<1>7. ASSUME NEW w \in Workers, ClaimFails(w)
      PROVE  AttemptsAreCounted'
  BY <1>7 DEF ClaimFails
<1>8. ASSUME NEW w \in Workers, Fetch(w)
      PROVE  AttemptsAreCounted'
  BY <1>8 DEF Fetch
<1>9. ASSUME NEW w \in Workers, FetchFails(w)
      PROVE  AttemptsAreCounted'
  <2>1. job[w].trade \in Trades /\ job[w].attempt \in Nat
    BY <1>9 DEF FetchFails, Attempts
  <2>2. /\ \A t \in Trades : fails'[t] \in Nat /\ fails'[t] >= fails[t]
        /\ fails'[job[w].trade] > job[w].attempt
    BY <1>9, <2>1, RaiseCounts DEF FetchFails
  <2>3. pc' = [pc EXCEPT ![w] = "except"] /\ UNCHANGED <<job, sends, deads, failed>>
    BY <1>9, <2>1, RaiseCounts DEF FetchFails
  <2>4. FailedWasExhausted'
    BY <2>2, <2>3, MaxRetriesAssumption
  <2>5. \A u \in Trades, k \in Attempts : sends'[<<u, k>>] > 0 => fails'[u] >= k
    BY <2>2, <2>3 DEF Attempts
  <2>6. \A v \in Workers :
          /\ job'[v].kind = "send" => fails'[job'[v].trade] >= job'[v].attempt
          /\ pc'[v] \in {"except", "publish"} => fails'[job'[v].trade] > job'[v].attempt
          /\ job'[v].kind = "dead" => fails'[job'[v].trade] > MaxRetries
    BY <2>1, <2>2, <2>3, MaxRetriesAssumption DEF Attempts
  <2> QED
    BY <2>4, <2>5, <2>6
<1>10. ASSUME NEW w \in Workers, Post(w)
       PROVE  AttemptsAreCounted'
  BY <1>10 DEF Post
<1>11. ASSUME NEW w \in Workers, PostRefused(w)
       PROVE  AttemptsAreCounted'
  <2>1. job[w].trade \in Trades /\ job[w].attempt \in Nat
    BY <1>11 DEF PostRefused, Attempts
  <2>2. /\ \A t \in Trades : fails'[t] \in Nat /\ fails'[t] >= fails[t]
        /\ fails'[job[w].trade] > job[w].attempt
    BY <1>11, <2>1, RaiseCounts DEF PostRefused
  <2>3. pc' = [pc EXCEPT ![w] = "except"] /\ UNCHANGED <<job, sends, deads, failed>>
    BY <1>11, <2>1, RaiseCounts DEF PostRefused
  <2>4. FailedWasExhausted'
    BY <2>2, <2>3, MaxRetriesAssumption
  <2>5. \A u \in Trades, k \in Attempts : sends'[<<u, k>>] > 0 => fails'[u] >= k
    BY <2>2, <2>3 DEF Attempts
  <2>6. \A v \in Workers :
          /\ job'[v].kind = "send" => fails'[job'[v].trade] >= job'[v].attempt
          /\ pc'[v] \in {"except", "publish"} => fails'[job'[v].trade] > job'[v].attempt
          /\ job'[v].kind = "dead" => fails'[job'[v].trade] > MaxRetries
    BY <2>1, <2>2, <2>3, MaxRetriesAssumption DEF Attempts
  <2> QED
    BY <2>4, <2>5, <2>6
<1>12. ASSUME NEW w \in Workers, PostUnanswered(w)
       PROVE  AttemptsAreCounted'
  <2>1. job[w].trade \in Trades /\ job[w].attempt \in Nat
    BY <1>12 DEF PostUnanswered, Attempts
  <2>2. /\ \A t \in Trades : fails'[t] \in Nat /\ fails'[t] >= fails[t]
        /\ fails'[job[w].trade] > job[w].attempt
    BY <1>12, <2>1, RaiseCounts DEF PostUnanswered
  <2>3. pc' = [pc EXCEPT ![w] = "except"] /\ UNCHANGED <<job, sends, deads, failed>>
    BY <1>12, <2>1, RaiseCounts DEF PostUnanswered
  <2>4. FailedWasExhausted'
    BY <2>2, <2>3, MaxRetriesAssumption
  <2>5. \A u \in Trades, k \in Attempts : sends'[<<u, k>>] > 0 => fails'[u] >= k
    BY <2>2, <2>3 DEF Attempts
  <2>6. \A v \in Workers :
          /\ job'[v].kind = "send" => fails'[job'[v].trade] >= job'[v].attempt
          /\ pc'[v] \in {"except", "publish"} => fails'[job'[v].trade] > job'[v].attempt
          /\ job'[v].kind = "dead" => fails'[job'[v].trade] > MaxRetries
    BY <2>1, <2>2, <2>3, MaxRetriesAssumption DEF Attempts
  <2> QED
    BY <2>4, <2>5, <2>6
<1>13. ASSUME NEW w \in Workers, MarkSent(w)
       PROVE  AttemptsAreCounted'
  BY <1>13 DEF MarkSent
<1>14. ASSUME NEW w \in Workers, MarkSentFails(w)
       PROVE  AttemptsAreCounted'
  <2>1. job[w].trade \in Trades /\ job[w].attempt \in Nat
    BY <1>14 DEF MarkSentFails, Attempts
  <2>2. /\ \A t \in Trades : fails'[t] \in Nat /\ fails'[t] >= fails[t]
        /\ fails'[job[w].trade] > job[w].attempt
    BY <1>14, <2>1, RaiseCounts DEF MarkSentFails
  <2>3. pc' = [pc EXCEPT ![w] = "except"] /\ UNCHANGED <<job, sends, deads, failed>>
    BY <1>14, <2>1, RaiseCounts DEF MarkSentFails
  <2>4. FailedWasExhausted'
    BY <2>2, <2>3, MaxRetriesAssumption
  <2>5. \A u \in Trades, k \in Attempts : sends'[<<u, k>>] > 0 => fails'[u] >= k
    BY <2>2, <2>3 DEF Attempts
  <2>6. \A v \in Workers :
          /\ job'[v].kind = "send" => fails'[job'[v].trade] >= job'[v].attempt
          /\ pc'[v] \in {"except", "publish"} => fails'[job'[v].trade] > job'[v].attempt
          /\ job'[v].kind = "dead" => fails'[job'[v].trade] > MaxRetries
    BY <2>1, <2>2, <2>3, MaxRetriesAssumption DEF Attempts
  <2> QED
    BY <2>4, <2>5, <2>6
<1>15. ASSUME NEW w \in Workers, Release(w)
       PROVE  AttemptsAreCounted'
  BY <1>15 DEF Release
<1>16. ASSUME NEW w \in Workers, ReleaseFails(w)
       PROVE  AttemptsAreCounted'
  BY <1>16 DEF ReleaseFails
<1>17. ASSUME NEW w \in Workers, Publish(w)
       PROVE  AttemptsAreCounted'
  <2>1. /\ job[w].trade \in Trades /\ job[w].attempt \in Attempts
        /\ fails[job[w].trade] > job[w].attempt
    BY <1>17 DEF Publish
  <2>2. /\ job[w].attempt \in 0 .. MaxRetries
        /\ \A u \in Trades : fails[u] \in Nat
    BY <2>1 DEF Attempts
  <2>3. CASE job[w].attempt >= MaxRetries
    <3>1. fails[job[w].trade] > MaxRetries
      BY <2>1, <2>2, <2>3, MaxRetriesAssumption
    <3>2. \A u \in Trades : deads'[u] > 0 => fails[u] > MaxRetries
      BY <1>17, <2>1, <2>3, <3>1, PutDeadAdds DEF Publish
    <3> QED
      BY <1>17, <2>3, <3>2 DEF Publish
  <2>4. CASE ~(job[w].attempt >= MaxRetries)
    <3>1. /\ job[w].attempt + 1 \in Attempts
          /\ fails[job[w].trade] >= job[w].attempt + 1
      BY <2>1, <2>2, <2>4, MaxRetriesAssumption DEF Attempts
    <3>2. PutSend(job[w].trade, job[w].attempt + 1)
      BY <1>17, <2>4 DEF Publish
    <3>3. \A u \in Trades, l \in Attempts : sends'[<<u, l>>] > 0 => fails[u] >= l
      BY <2>1, <3>1, <3>2, PutSendAdds
    <3> QED
      BY <1>17, <2>4, <3>3 DEF Publish
  <2> QED
    BY <2>3, <2>4
<1>18. ASSUME NEW w \in Workers, Bury(w)
       PROVE  AttemptsAreCounted'
  BY <1>18 DEF Bury
<1>19. ASSUME NEW w \in Workers, Scan(w)
       PROVE  AttemptsAreCounted'
  BY <1>19 DEF Scan
<1>20. ASSUME NEW w \in Workers, EndsInVain(w)
       PROVE  AttemptsAreCounted'
  BY <1>20 DEF EndsInVain
<1>21. ASSUME NEW w \in Workers, NEW t \in Trades, Requeue(w, t)
       PROVE  AttemptsAreCounted'
  <2>1. /\ 0 \in Attempts
        /\ \A u \in Trades : fails[u] \in Nat
    BY MaxRetriesAssumption DEF Attempts
  <2>2. \A u \in Trades, l \in Attempts : sends'[<<u, l>>] > 0 => sends[<<u, l>>] > 0 \/ l = 0
    BY <1>21, <2>1, PutSendAdds DEF Requeue
  <2>3. \A u \in Trades, l \in Attempts : sends'[<<u, l>>] > 0 => fails[u] >= l
    BY <2>1, <2>2
  <2> QED
    BY <1>21, <2>3 DEF Requeue
<1>22. ASSUME NEW w \in Workers, NEW t \in Trades, RequeueFails(w, t)
       PROVE  AttemptsAreCounted'
  BY <1>22 DEF RequeueFails
<1>23. ASSUME NEW w \in Workers, EndRound(w)
       PROVE  AttemptsAreCounted'
  BY <1>23 DEF EndRound
<1>24. ASSUME NEW w \in Workers, Ack(w)
       PROVE  AttemptsAreCounted'
  BY <1>24 DEF Ack
<1>25. ASSUME NEW w \in Workers, Crash(w)
       PROVE  AttemptsAreCounted'
  <2>1. /\ job[w].attempt \in Attempts
        /\ job[w].kind \in {"send", "dead"} => job[w].trade \in Trades
    BY <1>25 DEF Crash
  <2>a. \/ job[w].kind = "send" /\ PutSend(job[w].trade, job[w].attempt)
        \/ UNCHANGED sends
    BY <1>25 DEF Crash
  <2>2. \A u \in Trades, l \in Attempts : sends'[<<u, l>>] > 0 => fails[u] >= l
    <3>1. CASE job[w].kind = "send" /\ PutSend(job[w].trade, job[w].attempt)
      <4>1. job[w].trade \in Trades /\ TypeOK /\ fails[job[w].trade] >= job[w].attempt
        BY <2>1, <3>1
      <4>2. \A u \in Trades, l \in Attempts :
              sends'[<<u, l>>] > 0
                => sends[<<u, l>>] > 0 \/ (u = job[w].trade /\ l = job[w].attempt)
        BY <2>1, <3>1, <4>1, PutSendAdds
      <4> QED
        BY <4>1, <4>2
    <3>2. CASE UNCHANGED sends
      BY <3>2
    <3> QED
      BY <2>a, <3>1, <3>2
  <2>3. \A u \in Trades : deads'[u] > 0 => fails[u] > MaxRetries
    BY <1>25, <2>1, PutDeadAdds DEF Crash
  <2> QED
    BY <1>25, <2>2, <2>3 DEF Crash
<1>26. CASE Beat
  BY <1>26 DEF Beat
<1>27. CASE UNCHANGED vars
  BY <1>27 DEF vars
<1> QED
  BY <1>1, <1>2, <1>3, <1>4, <1>5, <1>6, <1>7, <1>8, <1>9, <1>10,
     <1>11, <1>12, <1>13, <1>14, <1>15, <1>16, <1>17, <1>18, <1>19, <1>20,
     <1>21, <1>22, <1>23, <1>24, <1>25, <1>26, <1>27
     DEF Next, Take, Proceed, Fail

LEMMA AttemptsInit == Init => AttemptsAreCounted
  BY MaxRetriesAssumption
     DEF Init, AttemptsAreCounted, FailedWasExhausted, Idle, Attempts

\* No trade is dead-lettered or marked as failed before its last retry failed.
THEOREM FailureIsEarned == Spec => []FailedWasExhausted
<1>1. AttemptsAreCounted => FailedWasExhausted
  BY DEF AttemptsAreCounted
<1> QED
  BY <1>1, TypeInit, TypeStep, AttemptsInit, AttemptsStep, PTL DEF Spec
=============================================================================
