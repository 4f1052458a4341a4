------------------------ MODULE NotificationDelivery ------------------------
(***************************************************************************)
(* What the notification subsystem promises about each trade, with no      *)
(* queue, worker or claim key: for every trade there is one right to       *)
(* message the user. Delivering uses the right up. A crash can waste it,   *)
(* and three events give it back: a lost answer, a failed update of        *)
(* notification_sent, and the expiry of the 24 h claim.                    *)
(***************************************************************************)
EXTENDS Naturals

CONSTANTS Trades, MaxRetries

VARIABLES
  placed,     \* trades that exist
  right,      \* trades whose user may be messaged
  delivered,  \* messages accepted for each trade
  fails,      \* attempts of each trade that failed
  again,      \* times the right of each trade was given back after use
  sent,       \* trades reported as notified
  failed      \* trades given up

vars == <<placed, right, delivered, fails, again, sent, failed>>

Init ==
  /\ placed = {} /\ sent = {} /\ failed = {}
  /\ right = Trades
  /\ delivered = [t \in Trades |-> 0]
  /\ fails = [t \in Trades |-> 0]
  /\ again = [t \in Trades |-> 0]

Plus(f, t) == [f EXCEPT ![t] = @ + 1]

Place(t) ==
  /\ t \notin placed
  /\ placed' = placed \cup {t}
  /\ UNCHANGED <<right, delivered, fails, again, sent, failed>>

Deliver(t) ==
  /\ t \in placed \cap right
  /\ delivered' = Plus(delivered, t)
  /\ right' = right \ {t}
  /\ UNCHANGED <<placed, fails, again, sent, failed>>

\* delivered, but the sender cannot know: it keeps its right
DeliverUnanswered(t) ==
  /\ t \in placed \cap right
  /\ delivered' = Plus(delivered, t)
  /\ fails' = Plus(fails, t)
  /\ again' = Plus(again, t)
  /\ UNCHANGED <<placed, right, sent, failed>>

\* an attempt that delivers nothing
Miss(t) ==
  /\ t \in placed \cap right
  /\ fails' = Plus(fails, t)
  /\ UNCHANGED <<placed, right, delivered, again, sent, failed>>

\* the holder of the right is gone without having used it
Waste(t) ==
  /\ t \in right
  /\ right' = right \ {t}
  /\ UNCHANGED <<placed, delivered, fails, again, sent, failed>>

Report(t) ==
  /\ delivered[t] > 0
  /\ sent' = sent \cup {t}
  /\ UNCHANGED <<placed, right, delivered, fails, again, failed>>

\* the report raised: the delivery counts as failed, whether or not the report
\* went through
ReportFails(t) ==
  /\ t \in placed \ right
  /\ delivered[t] > 0
  /\ right' = right \cup {t}
  /\ fails' = Plus(fails, t)
  /\ again' = Plus(again, t)
  /\ sent' \in {sent, sent \cup {t}}
  /\ UNCHANGED <<placed, delivered, failed>>

Expire(t) ==
  /\ t \notin right
  /\ right' = right \cup {t}
  /\ again' = Plus(again, t)
  /\ UNCHANGED <<placed, delivered, fails, sent, failed>>

GiveUp(t) ==
  /\ t \in placed
  /\ fails[t] > MaxRetries
  /\ failed' = failed \cup {t}
  /\ UNCHANGED <<placed, right, delivered, fails, again, sent>>

Next ==
  \E t \in Trades :
    \/ Place(t) \/ Deliver(t) \/ DeliverUnanswered(t) \/ Miss(t) \/ Waste(t)
    \/ Report(t) \/ ReportFails(t) \/ Expire(t) \/ GiveUp(t)

Spec == Init /\ [][Next]_vars

-----------------------------------------------------------------------------
\* The user gets one message for each time the right exists: the first, and
\* one for each time it was given back; an unused right counts against it.
OneMessagePerRight ==
  \A t \in Trades : delivered[t] + (IF t \in right THEN 1 ELSE 0) <= 1 + again[t]

=============================================================================
