------------------------ MODULE NotificationsRestart ------------------------
(***************************************************************************)
(* Redis restarts while notifications are under way.  It comes back with   *)
(* what it had written to disk, which may be an earlier state: with AOF    *)
(* and appendfsync everysec the last second is lost, without AOF           *)
(* everything since the last snapshot.  Queues and claims live there, the  *)
(* flags of a trade in Postgres, which keeps what it has committed.        *)
(***************************************************************************)
EXTENDS Notifications

VARIABLE saved   \* what Redis has on disk

varsR == <<vars, saved>>

Empty == [key |-> {}, sends |-> [m \in Trades \X Attempts |-> 0],
          deads |-> [t \in Trades |-> 0], rounds |-> 0]

\* A message being processed is still in Redis, among the unacknowledged ones.
Processing(kind, t, k) ==
  \E w \in Workers : job[w].kind = kind /\ job[w].trade = t /\ job[w].attempt = k
Stored(n, busy) == IF busy THEN OneMore(n) ELSE n

Contents ==
  [key    |-> key,
   sends  |-> [m \in Trades \X Attempts |-> Stored(sends[m], Processing("send", m[1], m[2]))],
   deads  |-> [t \in Trades |-> Stored(deads[t], Processing("dead", t, 0))],
   rounds |-> Stored(rounds, Processing("round", None, 0))]

InitR == Init /\ saved = Empty

\* Only the last write to disk before a restart matters, so one is enough.
Save ==
  /\ budget["fault"] > 0 /\ saved = Empty
  /\ saved' = Contents
  /\ UNCHANGED vars

\* The workers go on with the tasks they have, whose messages, acknowledged or
\* not since, are delivered again if they were on disk. A restart is one of the
\* bounded faults; a claim it loses gives the right to message back.
RedisRestarts ==
  /\ Spend("fault")
  /\ key' = saved.key /\ sends' = saved.sends /\ deads' = saved.deads
  /\ rounds' = saved.rounds
  /\ again' = [t \in Trades |-> IF t \in key \ saved.key THEN again[t] + 1 ELSE again[t]]
  /\ saved' = Empty
  /\ UNCHANGED <<db, handling, workers, delivered, fails>>

\* No worker crashes here: Crash of Notifications puts back a message that Redis may
\* have lost by then. What is on disk is of no interest once no restart can follow.
Proceeds ==
  /\ Next
  /\ budget'["crash"] = budget["crash"]
  /\ saved' = IF budget'["fault"] = 0 THEN Empty ELSE saved

NextR == Proceeds \/ Save \/ RedisRestarts

SpecR == InitR /\ [][NextR]_varsR
FairSpecR == SpecR /\ Fairness
=============================================================================
