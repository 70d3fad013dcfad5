------------------------------ MODULE OrderPath ------------------------------
(***************************************************************************)
(* What purchase orders promise to the documents that rest on them: an     *)
(* order is born a draft and takes a status only if it may follow one that *)
(* the order had before.  It need not follow the status the order has now: *)
(* the services validate a transition at one moment and write it at        *)
(* another, so an order may go back, or leave a final status, but no stage *)
(* is missing from what it went through.  A deleted order may still be     *)
(* moved by a request that had read it before.                             *)
(***************************************************************************)

CONSTANT Orders

VARIABLES status,    \* PurchaseOrder.status, ABSENT before the insert
          visited,   \* every status each order ever had
          deleted    \* orders whose deletedAt is set

vars == <<status, visited, deleted>>

Absent == "ABSENT"
Stages == {"DRAFT", "APPROVED", "IN_PROGRESS", "DELIVERED", "COMPLETED",
           "CANCELLED"}

\* isValidStatusTransition
Successors(from) ==
    CASE from = "DRAFT" -> {"APPROVED", "CANCELLED"}
      [] from = "APPROVED" -> {"IN_PROGRESS", "CANCELLED"}
      [] from = "IN_PROGRESS" -> {"DELIVERED", "CANCELLED"}
      [] from = "DELIVERED" -> {"COMPLETED"}
      [] OTHER -> {}

Init ==
    /\ status = [p \in Orders |-> Absent]
    /\ visited = [p \in Orders |-> {}]
    /\ deleted = {}

Become(p, stage) ==
    /\ status' = [status EXCEPT ![p] = stage]
    /\ visited' = [visited EXCEPT ![p] = @ \cup {stage}]
    /\ UNCHANGED deleted

Insert(p) == status[p] = Absent /\ Become(p, "DRAFT")

Move(p, stage) ==
    /\ status[p] # Absent
    /\ \E from \in visited[p] : stage \in Successors(from)
    /\ Become(p, stage)

Delete(p) ==
    /\ status[p] # Absent
    /\ deleted' = deleted \cup {p}
    /\ UNCHANGED <<status, visited>>

Next ==
    \E p \in Orders :
        Insert(p) \/ Delete(p) \/ \E stage \in Stages : Move(p, stage)

Spec == Init /\ [][Next]_vars

-----------------------------------------------------------------------------
\* The stages no order comes to a stage without.
StagesBefore(stage) ==
    CASE stage = "COMPLETED" -> {"DRAFT", "APPROVED", "IN_PROGRESS", "DELIVERED"}
      [] stage = "DELIVERED" -> {"DRAFT", "APPROVED", "IN_PROGRESS"}
      [] stage = "IN_PROGRESS" -> {"DRAFT", "APPROVED"}
      [] stage \in {"APPROVED", "CANCELLED"} -> {"DRAFT"}
      [] OTHER -> {}

\* No stage is missing from what an order went through: whatever it was
\* before, a completed order was delivered, in progress and approved.
NoStageMissing ==
    \A p \in Orders : \A stage \in visited[p] : StagesBefore(stage) \subseteq visited[p]
=============================================================================
