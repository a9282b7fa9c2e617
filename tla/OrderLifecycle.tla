--------------------------- MODULE OrderLifecycle ---------------------------
(***************************************************************************)
(* What order_management/order_state.ml promises of an order: the table of *)
(* legal transitions between the seven statuses.  A step moves any number  *)
(* of orders along one legal transition each, or two when an order fills   *)
(* in part and is decided upon in the same matching pass.                  *)
(***************************************************************************)
CONSTANT Orders

VARIABLE status

Statuses == {"Pending", "Open", "Partially_filled", "Filled", "Cancelled", "Rejected", "Expired"}
Terminal == {"Filled", "Cancelled", "Rejected", "Expired"}
Active == {"Open", "Partially_filled"}

CanTransition(from, to) ==
  \/ from = "Pending" /\ to \in {"Open", "Rejected", "Cancelled"}
  \/ from = "Open" /\ to \in {"Partially_filled", "Filled", "Cancelled", "Rejected", "Expired"}
  \/ from = "Partially_filled" /\ to \in {"Partially_filled", "Filled", "Cancelled", "Expired"}

OnePass(from, to) ==
  \/ CanTransition(from, to)
  \/ CanTransition(from, "Partially_filled") /\ CanTransition("Partially_filled", to)

Init == status = [o \in Orders |-> "Pending"]
Move == /\ status' \in [Orders -> Statuses]
        /\ \A o \in Orders : status'[o] = status[o] \/ OnePass(status[o], status'[o])
Lifecycle == Init /\ [][Move]_status
=============================================================================
