--------------------------- MODULE Notifications ---------------------------
(***************************************************************************)
(* How a committed trade becomes one message to the user.                  *)
(*                                                                         *)
(*   app process     handle_signal: commit the Trade row, then enqueue     *)
(*   broker          the queues "notifications" and "reconciliation"       *)
(*   workers         send_trade_notification, notification_dead_letter and *)
(*                   reconcile_notifications, one task per worker process  *)
(*   Redis           the claim key notif_sent:<trade> with its 24 h TTL    *)
(*   Postgres        notification_sent and notification_failed of a trade  *)
(*                                                                         *)
(* A task runs as several steps, one for each call that leaves the         *)
(* process; each step may fail, and the worker may die between any two.    *)
(* A message is acknowledged when its task ends, whatever the result, and  *)
(* goes back to its queue when its worker dies.                            *)
(*                                                                         *)
(* A trade is a number: its place in the order of created_at.              *)
(***************************************************************************)
EXTENDS Naturals, FiniteSets

CONSTANTS
  Trades,       \* the trades that may be created, as ranks of created_at
  Workers,      \* the worker processes
  None,         \* the trade of a task that is about no single trade
  MaxRetries,   \* NOTIFICATION_MAX_RETRIES
  BatchLimit,   \* BATCH_LIMIT of a reconciliation cycle
  Consumed,     \* the queues the workers were started with (--queues)
  PromptQueue,  \* whether a queued task always starts within 24 h
  QueueCap,     \* bound: copies of one message counted in a queue
  Budget        \* bound: how many crashes, faults, refusals, late expiries

BudgetKinds == {"crash", "fault", "refusal", "expiry"}

ASSUME TradesAssumption     == Trades \subseteq Nat /\ None \notin Trades
ASSUME MaxRetriesAssumption == MaxRetries \in Nat
ASSUME BoundsAssumption     == /\ BatchLimit \in Nat \ {0}
                               /\ PromptQueue \in BOOLEAN
                               /\ QueueCap \in Nat \ {0}
                               /\ Budget \in [BudgetKinds -> Nat]

Attempts == 0 .. MaxRetries     \* self.request.retries

VARIABLES
  stored,     \* Postgres: trades whose row is committed
  due,        \* Postgres: those whose created_at is past the grace period
  sent,       \* Postgres: notification_sent
  failed,     \* Postgres: notification_failed
  key,        \* Redis: trades whose key notif_sent:<trade> exists
  handling,   \* app: trades committed and not yet handed to the broker
  sends,      \* queue "notifications": send tasks, per trade and attempt
  deads,      \* queue "notifications": dead-letter tasks, per trade
  rounds,     \* queue "reconciliation": reconcile tasks
  pc,         \* workers: the next step of the running task
  job,        \* workers: the message being processed, unacknowledged
  todo,       \* workers: trade ids a reconcile task has still to enqueue
  delivered,  \* webhook endpoint: messages accepted for each trade
  fails,      \* history: attempts of each trade that ended in an exception
  again,      \* history: times the right to message was given back after use
  budget      \* what is left of each bound

db      == <<stored, due, sent, failed>>
queues  == <<sends, deads, rounds>>
workers == <<pc, job, todo>>
history == <<fails, again>>
vars    == <<db, key, handling, queues, workers, delivered, history, budget>>

Idle  == [kind |-> "none", trade |-> None, attempt |-> 0]
Jobs  == [kind    : {"none", "send", "dead", "round"},
          trade   : Trades \cup {None},
          attempt : Attempts]

PCs == {"idle", "claim", "fetch", "post", "mark", "except", "publish",
        "bury", "scan", "requeue", "ack"}

TypeOK ==
  /\ stored \subseteq Trades /\ due \subseteq Trades
  /\ sent \subseteq Trades   /\ failed \subseteq Trades
  /\ key \subseteq Trades    /\ handling \subseteq Trades
  /\ sends \in [Trades \X Attempts -> Nat]
  /\ deads \in [Trades -> Nat]
  /\ rounds \in Nat
  /\ pc \in [Workers -> PCs]
  /\ job \in [Workers -> Jobs]
  /\ todo \in [Workers -> SUBSET Trades]
  /\ delivered \in [Trades -> Nat]
  /\ fails \in [Trades -> Nat]
  /\ again \in [Trades -> Nat]
  /\ budget \in [BudgetKinds -> Nat]

\* A task works on the kind of message its code handles, and that message names
\* a trade.
JobOK ==
  \A w \in Workers :
    /\ job[w].kind \in {"send", "dead"} => job[w].trade \in Trades
    /\ pc[w] \in {"claim", "fetch", "post", "mark", "except", "publish"}
         => job[w].kind = "send"
    /\ pc[w] = "bury" => job[w].kind = "dead"

Init ==
  /\ stored = {} /\ due = {} /\ sent = {} /\ failed = {}
  /\ key = {} /\ handling = {}
  /\ sends = [m \in Trades \X Attempts |-> 0]
  /\ deads = [t \in Trades |-> 0]
  /\ rounds = 0
  /\ pc = [w \in Workers |-> "idle"]
  /\ job = [w \in Workers |-> Idle]
  /\ todo = [w \in Workers |-> {}]
  /\ delivered = [t \in Trades |-> 0]
  /\ fails = [t \in Trades |-> 0]
  /\ again = [t \in Trades |-> 0]
  /\ budget = Budget

-----------------------------------------------------------------------------
(* Helpers *)

Spend(kind) == budget[kind] > 0 /\ budget' = [budget EXCEPT ![kind] = @ - 1]

OneMore(n) == IF n < QueueCap THEN n + 1 ELSE n

\* apply_async on one of the three kinds of message
PutSend(t, k) == sends' = [sends EXCEPT ![<<t, k>>] = OneMore(@)]
PutDead(t)    == deads' = [deads EXCEPT ![t] = OneMore(@)]

\* the running task of w reaches its next step
Goto(w, label) == pc' = [pc EXCEPT ![w] = label]

At(w, label) == pc[w] = label

\* the steps at which the worker has claimed its trade and not released it
Claimed == {"fetch", "post", "mark", "except"}
Holds(w, t) == pc[w] \in Claimed /\ job[w].trade = t

-----------------------------------------------------------------------------
(* Faulty variants of the actions below, for testing the properties: each is  *)
(* a plausible mistake in the code that one of them must notice.              *)

\* the enqueue is moved before the commit
EnqueueBeforeCommit(t) ==
  /\ t \notin stored
  /\ PutSend(t, 0)
  /\ UNCHANGED <<db, key, handling, deads, rounds, workers, delivered, history, budget>>

\* a worker picks up a round that is no longer queued
TakeRoundTwice(w) ==
  /\ At(w, "idle")
  /\ rounds' = rounds - 1
  /\ job' = [job EXCEPT ![w] = [kind |-> "round", trade |-> None, attempt |-> 0]]
  /\ Goto(w, "scan")
  /\ UNCHANGED <<db, key, handling, sends, deads, todo, delivered, history, budget>>

\* SET without NX
ClaimWithoutNX(w) ==
  /\ At(w, "claim")
  /\ key' = key \cup {job[w].trade}
  /\ Goto(w, "fetch")
  /\ UNCHANGED <<db, handling, queues, job, todo, delivered, history, budget>>

\* the answer of the endpoint is not checked (no raise_for_status)
PostUnchecked(w) ==
  /\ At(w, "post")
  /\ Spend("refusal")
  /\ Goto(w, "mark")
  /\ UNCHANGED <<db, key, handling, queues, job, todo, delivered, history>>

\* the claim key is deleted in a finally block
MarkSentAndRelease(w) ==
  /\ At(w, "mark")
  /\ sent' = sent \cup {job[w].trade}
  /\ key' = key \ {job[w].trade}
  /\ Goto(w, "ack")
  /\ UNCHANGED <<stored, due, failed, handling, queues, job, todo, delivered,
                 history, budget>>

\* the last retry is given away
PublishTooEarly(w) ==
  /\ At(w, "publish")
  /\ LET t == job[w].trade
         k == job[w].attempt
     IN IF k + 1 >= MaxRetries
        THEN PutDead(t) /\ UNCHANGED sends
        ELSE PutSend(t, k + 1) /\ UNCHANGED deads
  /\ Goto(w, "ack")
  /\ UNCHANGED <<db, key, handling, rounds, job, todo, delivered, history, budget>>

-----------------------------------------------------------------------------
(* The app process: handle_signal and the passing of time *)

\* The row is committed. created_at is the time of the tick, so the row of a
\* replayed historic tick is past the grace period as soon as it exists.
Commit(t) ==
  /\ t \notin stored
  /\ stored' = stored \cup {t}
  /\ due' \in {due, due \cup {t}}
  /\ handling' = handling \cup {t}
  /\ UNCHANGED <<sent, failed, key, queues, workers, delivered, history, budget>>

\* _enqueue_notification, after the commit
Enqueue(t) ==
  /\ t \in handling
  /\ handling' = handling \ {t}
  /\ PutSend(t, 0)
  /\ UNCHANGED <<db, key, deads, rounds, workers, delivered, history, budget>>

\* The broker is unreachable (caught and logged), the process dies after the
\* commit, or the commit raises although the server applied it.
EnqueueFails(t) ==
  /\ t \in handling
  /\ Spend("fault")
  /\ handling' = handling \ {t}
  /\ UNCHANGED <<db, key, queues, workers, delivered, history>>

\* now - 2 minutes passes created_at
GracePasses(t) ==
  /\ t \in stored \ due
  /\ due' = due \cup {t}
  /\ UNCHANGED <<stored, sent, failed, key, handling, queues, workers, delivered,
                 history, budget>>

\* The claim key reaches the end of its 24 h. A task takes seconds, so no key
\* expires while its task is running, nor, if queues are prompt, while another
\* task of its trade waits or has begun. The expiry of a key that did its work is bounded,
\* that of a key blocking an unsent trade is not.
Expire(t) ==
  /\ t \in key
  /\ \A w \in Workers : ~Holds(w, t)
  /\ PromptQueue => /\ \A k \in Attempts : sends[<<t, k>>] = 0
                    /\ \A w \in Workers : job[w].trade # t
  /\ IF t \in sent THEN Spend("expiry") ELSE UNCHANGED budget
  /\ key' = key \ {t}
  /\ again' = [again EXCEPT ![t] = @ + 1]
  /\ UNCHANGED <<db, handling, queues, workers, delivered, fails>>

-----------------------------------------------------------------------------
(* The worker processes: delivery, acknowledgement and loss of a message *)

TakeSend(w, t, k) ==
  /\ "notifications" \in Consumed
  /\ At(w, "idle")
  /\ sends[<<t, k>>] > 0
  /\ sends' = [sends EXCEPT ![<<t, k>>] = @ - 1]
  /\ job' = [job EXCEPT ![w] = [kind |-> "send", trade |-> t, attempt |-> k]]
  /\ Goto(w, "claim")
  /\ UNCHANGED <<db, key, handling, deads, rounds, todo, delivered, history, budget>>

TakeDead(w, t) ==
  /\ "notifications" \in Consumed
  /\ At(w, "idle")
  /\ deads[t] > 0
  /\ deads' = [deads EXCEPT ![t] = @ - 1]
  /\ job' = [job EXCEPT ![w] = [kind |-> "dead", trade |-> t, attempt |-> 0]]
  /\ Goto(w, "bury")
  /\ UNCHANGED <<db, key, handling, sends, rounds, todo, delivered, history, budget>>

TakeRound(w) ==
  /\ "reconciliation" \in Consumed
  /\ At(w, "idle")
  /\ rounds > 0
  /\ rounds' = rounds - 1
  /\ job' = [job EXCEPT ![w] = [kind |-> "round", trade |-> None, attempt |-> 0]]
  /\ Goto(w, "scan")
  /\ UNCHANGED <<db, key, handling, sends, deads, todo, delivered, history, budget>>

\* acks_late: the message leaves the broker when the task has ended
Ack(w) ==
  /\ At(w, "ack")
  /\ Goto(w, "idle")
  /\ job' = [job EXCEPT ![w] = Idle]
  /\ UNCHANGED <<db, key, handling, queues, todo, delivered, history, budget>>

\* The worker process dies; reject_on_worker_lost puts its message back.
\* What the task had done stays done.
Crash(w) ==
  /\ ~At(w, "idle")
  /\ Spend("crash")
  /\ LET j == job[w] IN
       /\ IF j.kind = "send" THEN PutSend(j.trade, j.attempt) ELSE UNCHANGED sends
       /\ IF j.kind = "dead" THEN PutDead(j.trade) ELSE UNCHANGED deads
       /\ rounds' = IF j.kind = "round" THEN OneMore(rounds) ELSE rounds
  /\ Goto(w, "idle")
  /\ job' = [job EXCEPT ![w] = Idle]
  /\ todo' = [todo EXCEPT ![w] = {}]
  /\ UNCHANGED <<db, key, handling, delivered, history>>

-----------------------------------------------------------------------------
(* send_trade_notification *)

\* SET notif_sent:<trade> NX EX: an existing key ends the task
Claim(w) ==
  /\ At(w, "claim")
  /\ LET t == job[w].trade IN
       IF t \in key
       THEN /\ Goto(w, "ack")
            /\ UNCHANGED key
       ELSE /\ Goto(w, "fetch")
            /\ key' = key \cup {t}
  /\ UNCHANGED <<db, handling, queues, job, todo, delivered, history, budget>>

\* SET raises outside the try block, whether or not Redis applied it: the
\* task fails, and its message is acknowledged all the same.
ClaimFails(w) ==
  /\ At(w, "claim")
  /\ Spend("fault")
  /\ key' \in {key, key \cup {job[w].trade}}
  /\ Goto(w, "ack")
  /\ UNCHANGED <<db, handling, queues, job, todo, delivered, history>>

\* the exception handler is entered: one more attempt has failed
Raise(w) ==
  /\ Goto(w, "except")
  /\ fails' = [fails EXCEPT ![job[w].trade] = @ + 1]

Fetch(w) ==
  /\ At(w, "fetch")
  /\ LET t == job[w].trade IN
       IF t \in stored
       THEN /\ Goto(w, "post")
            /\ UNCHANGED key
       ELSE /\ Goto(w, "ack")
            /\ key' = key \ {t}
  /\ UNCHANGED <<db, handling, queues, job, todo, delivered, history, budget>>

FetchFails(w) ==
  /\ At(w, "fetch")
  /\ Spend("fault")
  /\ Raise(w)
  /\ UNCHANGED <<db, key, handling, queues, job, todo, delivered, again>>

\* send_webhook_notification returns
Post(w) ==
  /\ At(w, "post")
  /\ delivered' = [delivered EXCEPT ![job[w].trade] = @ + 1]
  /\ Goto(w, "mark")
  /\ UNCHANGED <<db, key, handling, queues, job, todo, history, budget>>

\* The endpoint refuses, or the circuit breaker does before any request.
PostRefused(w) ==
  /\ At(w, "post")
  /\ Spend("refusal")
  /\ Raise(w)
  /\ UNCHANGED <<db, key, handling, queues, job, todo, delivered, again>>

\* The endpoint accepts the message and its answer is late or lost.
PostUnanswered(w) ==
  /\ At(w, "post")
  /\ Spend("fault")
  /\ delivered' = [delivered EXCEPT ![job[w].trade] = @ + 1]
  /\ again' = [again EXCEPT ![job[w].trade] = @ + 1]
  /\ Raise(w)
  /\ UNCHANGED <<db, key, handling, queues, job, todo>>

MarkSent(w) ==
  /\ At(w, "mark")
  /\ sent' = sent \cup {job[w].trade}
  /\ Goto(w, "ack")
  /\ UNCHANGED <<stored, due, failed, key, handling, queues, job, todo, delivered,
                 history, budget>>

\* The update raises, whether or not Postgres applied it.
MarkSentFails(w) ==
  /\ At(w, "mark")
  /\ Spend("fault")
  /\ sent' \in {sent, sent \cup {job[w].trade}}
  /\ again' = [again EXCEPT ![job[w].trade] = @ + 1]
  /\ Raise(w)
  /\ UNCHANGED <<stored, due, failed, key, handling, queues, job, todo, delivered>>

\* the first statement of the handler: delete the claim key
Release(w) ==
  /\ At(w, "except")
  /\ key' = key \ {job[w].trade}
  /\ Goto(w, "publish")
  /\ UNCHANGED <<db, handling, queues, job, todo, delivered, history, budget>>

\* DEL raises, whether or not Redis applied it: no retry, no dead letter
ReleaseFails(w) ==
  /\ At(w, "except")
  /\ Spend("fault")
  /\ key' \in {key, key \ {job[w].trade}}
  /\ Goto(w, "ack")
  /\ UNCHANGED <<db, handling, queues, job, todo, delivered, history>>

\* dead-letter the last attempt, retry any other
Publish(w) ==
  /\ At(w, "publish")
  /\ LET t == job[w].trade
         k == job[w].attempt
     IN IF k >= MaxRetries
        THEN PutDead(t) /\ UNCHANGED sends
        ELSE PutSend(t, k + 1) /\ UNCHANGED deads
  /\ Goto(w, "ack")
  /\ UNCHANGED <<db, key, handling, rounds, job, todo, delivered, history, budget>>

-----------------------------------------------------------------------------
(* notification_dead_letter *)

Bury(w) ==
  /\ At(w, "bury")
  /\ failed' = failed \cup {job[w].trade}
  /\ Goto(w, "ack")
  /\ UNCHANGED <<stored, due, sent, key, handling, queues, job, todo, delivered,
                 history, budget>>

-----------------------------------------------------------------------------
(* Beat and reconcile_notifications *)

Beat ==
  /\ rounds < QueueCap
  /\ rounds' = rounds + 1
  /\ UNCHANGED <<db, key, handling, sends, deads, workers, delivered, history, budget>>

Unnotified == (stored \cap due) \ (sent \cup failed)

\* ORDER BY created_at LIMIT BATCH_LIMIT
Oldest(S) == {t \in S : Cardinality({u \in S : u < t}) < BatchLimit}

\* a faulty variant: the limit is applied before the filter
ScanLimitFirst(w) ==
  /\ At(w, "scan")
  /\ todo' = [todo EXCEPT ![w] = Oldest(stored \cap due) \cap Unnotified]
  /\ Goto(w, "requeue")
  /\ UNCHANGED <<db, key, handling, queues, job, delivered, history, budget>>

Scan(w) ==
  /\ At(w, "scan")
  /\ todo' = [todo EXCEPT ![w] = Oldest(Unnotified)]
  /\ Goto(w, "requeue")
  /\ UNCHANGED <<db, key, handling, queues, job, delivered, history, budget>>

\* t is the next trade id of the loop
NextOf(w, t) == t \in todo[w] /\ \A u \in todo[w] : t <= u

Requeue(w, t) ==
  /\ At(w, "requeue")
  /\ NextOf(w, t)
  /\ todo' = [todo EXCEPT ![w] = @ \ {t}]
  /\ PutSend(t, 0)
  /\ UNCHANGED <<db, key, handling, deads, rounds, pc, job, delivered, history, budget>>

\* One call of the task fails, and nothing is left of the task: retry rejects
\* the message when the broker is unreachable, without requeueing it; a dead
\* letter that cannot be published, or a failing query, fails the task; the
\* dead letter swallows a database error.
EndsInVain(w) ==
  /\ pc[w] \in {"publish", "bury", "scan"}
  /\ Spend("fault")
  /\ Goto(w, "ack")
  /\ UNCHANGED <<db, key, handling, queues, job, todo, delivered, history>>

\* counted in enqueue_failures; the loop goes on
RequeueFails(w, t) ==
  /\ At(w, "requeue")
  /\ NextOf(w, t)
  /\ Spend("fault")
  /\ todo' = [todo EXCEPT ![w] = @ \ {t}]
  /\ UNCHANGED <<db, key, handling, queues, pc, job, delivered, history>>

EndRound(w) ==
  /\ At(w, "requeue")
  /\ todo[w] = {}
  /\ Goto(w, "ack")
  /\ UNCHANGED <<db, key, handling, queues, job, todo, delivered, history, budget>>

-----------------------------------------------------------------------------
\* the steps of the task a worker is running, when nothing goes wrong
Proceed(w) ==
  \/ Claim(w) \/ Fetch(w) \/ Post(w) \/ MarkSent(w) \/ Release(w) \/ Publish(w)
  \/ Bury(w) \/ Scan(w) \/ EndRound(w) \/ Ack(w)
  \/ \E t \in Trades : Requeue(w, t)

Fail(w) ==
  \/ Crash(w) \/ ClaimFails(w) \/ FetchFails(w) \/ PostRefused(w)
  \/ PostUnanswered(w) \/ MarkSentFails(w) \/ ReleaseFails(w) \/ EndsInVain(w)
  \/ \E t \in Trades : RequeueFails(w, t)

Take(w) ==
  \/ TakeRound(w)
  \/ \E t \in Trades : TakeDead(w, t)
  \/ \E t \in Trades, k \in Attempts : TakeSend(w, t, k)

Next ==
  \/ \E t \in Trades : Commit(t) \/ Enqueue(t) \/ EnqueueFails(t)
                       \/ GracePasses(t) \/ Expire(t)
  \/ \E w \in Workers : Take(w) \/ Proceed(w) \/ Fail(w)
  \/ Beat

Spec == Init /\ [][Next]_vars

\* What the running system guarantees: time passes, Beat ticks, the app and
\* the workers run, and a queue hands out each of its messages in the end even
\* if the workers are busy in between. Nothing is assumed of failures.
Fairness ==
  /\ WF_vars(Beat)
  /\ \A t \in Trades : /\ WF_vars(Enqueue(t) \/ EnqueueFails(t))
                       /\ WF_vars(GracePasses(t))
                       /\ WF_vars(t \notin sent /\ Expire(t))
                       /\ SF_vars(\E w \in Workers : TakeDead(w, t))
  /\ \A t \in Trades, k \in Attempts : SF_vars(\E w \in Workers : TakeSend(w, t, k))
  /\ SF_vars(\E w \in Workers : TakeRound(w))
  /\ \A w \in Workers : WF_vars(Proceed(w) \/ Fail(w))

FairSpec == Spec /\ Fairness

-----------------------------------------------------------------------------
(* Safety *)

\* The SETNX key is a lock without an owner: a task deletes it without knowing
\* who set it. Still at most one task at a time is between its claim and its
\* release, and the key exists all that time (tasks.py, lines 113 to 142).
OneHolder ==
  \A t \in Trades : \A v, w \in Workers :
    /\ Holds(w, t) => t \in key
    /\ Holds(v, t) /\ Holds(w, t) => v = w

\* A second message for a trade has a cause outside the queue: the endpoint's
\* answer was lost, the update of notification_sent raised, or 24 hours went by.
\* Redeliveries, retries, duplicate enqueues and worker crashes add none.
DuplicatesHaveACause == \A t \in Trades : delivered[t] <= 1 + again[t]

\* notification_sent is only ever true of a trade the endpoint accepted a
\* message for, however its retries, redeliveries and rivals interleave.
SentWasDelivered == \A t \in sent : delivered[t] > 0

\* A trade reaches the dead letter, and is marked permanently failed, only
\* after a first try and MaxRetries retries of it ended in an exception.
FailedWasExhausted ==
  \A t \in Trades : t \in failed \/ deads[t] > 0 => fails[t] > MaxRetries

\* A task in the broker, in a worker or in a reconciliation batch is about a
\* committed trade: the enqueue follows the commit on every path, so the
\* trade-not-found branch of the task is never taken.
QueuedIsCommitted ==
  /\ handling \subseteq stored
  /\ \A t \in Trades, k \in Attempts : sends[<<t, k>>] > 0 => t \in stored
  /\ \A t \in Trades : deads[t] > 0 => t \in stored
  /\ \A w \in Workers : /\ job[w].trade # None => job[w].trade \in stored
                        /\ todo[w] \subseteq stored

\* What makes the last three invariants inductive: a task about to mark its
\* trade has delivered, and an attempt numbered k comes after k failed ones.
MarkFollowsPost ==
  /\ SentWasDelivered
  /\ \A w \in Workers : At(w, "mark") => delivered[job[w].trade] > 0

AttemptsAreCounted ==
  /\ FailedWasExhausted
  /\ \A t \in Trades, k \in Attempts : sends[<<t, k>>] > 0 => fails[t] >= k
  /\ \A w \in Workers :
       /\ job[w].kind = "send" => fails[job[w].trade] >= job[w].attempt
       /\ pc[w] \in {"except", "publish"} => fails[job[w].trade] > job[w].attempt
       /\ job[w].kind = "dead" => fails[job[w].trade] > MaxRetries

-----------------------------------------------------------------------------
(* Refinement of NotificationDelivery *)

\* The user of t may still be messaged: the key is free, or the task that set
\* it has not delivered yet.
MayMessage(t) ==
  t \notin key \/ \E w \in Workers : Holds(w, t) /\ ~At(w, "mark")

Right == {t \in Trades : MayMessage(t)}

Promise == INSTANCE NotificationDelivery WITH placed <- stored, right <- Right

\* The claim key implements the right to message the user: whatever the app,
\* the broker, the workers and Beat do is a step of the promise or invisible.
KeepsThePromise == Promise!Spec

(* Claims of the comments and the docs *)

\* tasks.py:14 and :99, README.md:793: the user sees exactly one message
AtMostOneMessage == \A t \in Trades : delivered[t] <= 1

(* Liveness *)

\* Every committed trade is in the end marked sent or permanently failed,
\* whatever enqueue, worker or database call failed on the way.
EveryTradeIsSettled == \A t \in Trades : t \in stored ~> t \in sent \cup failed
=============================================================================
