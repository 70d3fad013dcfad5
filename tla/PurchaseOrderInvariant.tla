----------------------- MODULE PurchaseOrderInvariant ------------------------
(***************************************************************************)
(* The inductive invariant of PurchaseOrder.  A write acts on an order     *)
(* that was read at an earlier state, so PathRespected is kept only        *)
(* because the status a writer saw stays in the order's history, whatever  *)
(* became of its current one; OkMeansDone needs what each request has      *)
(* achieved at each point, and that no two creates share an order.         *)
(***************************************************************************)
EXTENDS PurchaseOrderProperties

\* The program points of each endpoint, and the order each request is about.
PointsMatchJobs ==
    \A s \in Slots :
        /\ pc[s] # "idle" \/ answer[s] = "ok" => job[s] \in Jobs
        /\ answer[s] = "ok" => target[s] \in POs
        /\ pc[s] \in {"precheck", "insert", "vendors", "verify", "deduct"} =>
               job[s].kind = "create"
        /\ pc[s] \in {"receipt", "read", "write"} => job[s].kind # "create"
        /\ pc[s] = "receipt" => job[s].kind = "receipt"
        /\ pc[s] \in {"vendors", "verify", "deduct", "receipt", "read", "write",
                      "emit"} => target[s] \in POs
        /\ pc[s] \in {"precheck", "insert"} => target[s] = NoPO
        /\ pc[s] # "idle" => answer[s] = "none"
        /\ s \in half => job[s] \in Jobs /\ job[s].kind = "wfApprove"
                         /\ job[s].to = "APPROVED"

\* The history of an order contains the status it has.
HistoryKept == \A p \in POs : status[p] # Absent => status[p] \in visited[p]

\* What a writer decided on when it read the order.
Justified(s) ==
    Wanted(s) = Same \/ \E before \in visited[target[s]] :
                            ValidTransition(before, Wanted(s))

WritesJustified ==
    \A s \in Slots :
        pc[s] = "write" /\ job[s].kind # "delete" =>
            Justified(s)

\* An order belongs to the create that inserted it.
CreatesApart ==
    \A s, t \in Slots :
        /\ job[s] \in Jobs /\ job[s].kind = "create" /\ target[s] \in POs
        /\ job[t] \in Jobs /\ job[t].kind = "create" /\ target[t] = target[s]
        => s = t

\* The money of an order at each point of its create.
CreateProgress ==
    \A s \in Slots :
        job[s] \in Jobs /\ job[s].kind = "create" /\ target[s] \in POs =>
            /\ status[target[s]] # Absent
            /\ "DRAFT" \in visited[target[s]]
            /\ committed[target[s]] = job[s].amount
            /\ pc[s] \in {"vendors", "verify", "deduct"} => deducted[target[s]] = 0
            /\ pc[s] = "emit" => deducted[target[s]] = committed[target[s]]

NothingBeforeInsert ==
    \A p \in POs : status[p] = Absent => deducted[p] = 0

\* What the other requests have done when they come to their event.
WrittenBeforeEmit ==
    \A s \in Slots : pc[s] \in {"read", "write", "emit"} =>
        LET j == job[s]
            p == target[s]
        IN
        /\ j.kind = "receipt" => p \in received
        /\ pc[s] = "emit" =>
             /\ j.kind = "approve" => j.to \in visited[p] /\ approver[p] # NoUser
             /\ j.kind = "wfApprove" /\ s \in half => "IN_PROGRESS" \in visited[p]
             /\ j.kind = "delete" => p \in deleted
             /\ j.kind = "receipt" => "DELIVERED" \in visited[p]

\* The inductive invariant.
OrderInv ==
    /\ TypeOK
    /\ PointsMatchJobs
    /\ HistoryKept
    /\ WritesJustified
    /\ CreatesApart
    /\ CreateProgress
    /\ NothingBeforeInsert
    /\ WrittenBeforeEmit
    /\ PathRespected
    /\ OkMeansDone
=============================================================================
