-------------------------- MODULE MCNotifications --------------------------
(* Instances of Notifications for TLC: what may go wrong in a run. *)
EXTENDS Notifications

NoFaults  == [k \in BudgetKinds |-> 0]
OneFault  == [NoFaults EXCEPT !["fault"] = 1]
OneOfEach == [k \in BudgetKinds |-> IF k = "refusal" THEN 2 ELSE 1]
=============================================================================
