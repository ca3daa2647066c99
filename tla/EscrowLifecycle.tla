--------------------------- MODULE EscrowLifecycle ---------------------------
(***************************************************************************)
(* The life of an escrow record as ESCROW_VALID_TRANSITIONS lays it down:  *)
(* one record at a time moves, in one step, along one entry of the table.  *)
(***************************************************************************)
CONSTANT Executions   \* the execution ids

VARIABLE status       \* "none" while an id has no record

\* A record is created with its funds locked.
ValidTransitions ==
  [none |-> {"funds_locked"},
   created |-> {"funds_locked"},
   funds_locked |-> {"route_locked", "failed", "expired"},
   route_locked |-> {"local_leg_executed", "external_leg_pending", "failed",
                     "expired"},
   local_leg_executed |-> {"external_leg_pending", "delivery_pending",
                           "failed", "expired"},
   external_leg_pending |-> {"external_leg_confirmed", "partially_completed",
                             "failed", "expired"},
   external_leg_confirmed |-> {"delivery_pending", "failed", "expired"},
   delivery_pending |-> {"completed", "failed", "expired"},
   completed |-> {},
   partially_completed |-> {"refunded"},
   failed |-> {"refunded"},
   refunded |-> {},
   expired |-> {"refunded"}]

Init == status = [e \in Executions |-> "none"]

Move(e) ==
  \E s \in ValidTransitions[status[e]] : status' = [status EXCEPT ![e] = s]

Next == \E e \in Executions : Move(e)

Spec == Init /\ [][Next]_status
==============================================================================
