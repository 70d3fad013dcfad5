-------------------------- MODULE SourcingInvariant ---------------------------
(***************************************************************************)
(* The inductive invariant of Sourcing.  A write rests on a row read in an *)
(* earlier state, so what it needs is kept as history: a submission, that  *)
(* its tender was published; an evaluation, that it was closed.  Orders    *)
(* are paid for by acceptances, counting the awards still on their way to  *)
(* the order.                                                              *)
(***************************************************************************)
EXTENDS SourcingProperties

OnTender == {"update", "publish", "wfPublish", "delete", "submit", "close", "award"}

\* The program points of each endpoint and what each request is about.
PointsMatchJobs ==
    \A s \in Slots :
        /\ pc[s] # "idle" => answer[s] = "none"
        /\ pc[s] # "idle" \/ answer[s] = "ok" =>
             /\ job[s] \in Jobs
             /\ job[s].kind \in OnTender => target[s] = job[s].tender
             /\ job[s].kind \in {"evaluate", "award"} => found[s] = job[s].bid
        /\ pc[s] = "insert" => job[s].kind \in {"create", "fromContract"}
        /\ pc[s] \in {"read", "write"} => job[s].kind \notin {"create", "fromContract"}
        /\ pc[s] = "count" => job[s].kind = "update"
        /\ pc[s] = "lookup" => job[s].kind = "submit"
        /\ pc[s] \in {"winner", "losers", "order"} => job[s].kind = "award"

\* Rows and their history.
HistoryKept ==
    /\ \A t \in Tenders :
         /\ TenderExists(t) => {tstatus[t], "DRAFT"} \subseteq visited[t]
         /\ tstatus[t] = Absent => visited[t] = {}
    /\ \A b \in Bids :
         /\ BidExists(b) => bstatus[b] \in seen[b] /\ TenderExists(bidOn[b])
         /\ bstatus[b] = Absent => bidOn[b] = NoTender /\ seen[b] = {} /\ wins[b] = 0
         /\ bstatus[b] # Absent => bidOn[b] \in Tenders

\* What was true of a tender before its bids came where they are.
BidsEarned ==
    \A b \in Bids : bidOn[b] \in Tenders =>
        /\ "PUBLISHED" \in visited[bidOn[b]]
        /\ "UNDER_REVIEW" \in seen[b] => "CLOSED" \in visited[bidOn[b]]

\* What a request still has in hand from what it read or wrote.
Earned(s) ==
    LET t == target[s]
        b == found[s]
    IN
    /\ pc[s] \in {"lookup", "write"} /\ job[s].kind = "submit" =>
         /\ "PUBLISHED" \in visited[t]
         /\ VendorOf[job[s].user] # NoVendor
    /\ pc[s] = "write" /\ job[s].kind = "submit" /\ b # NoBid =>
         bidOn[b] = t /\ bidder[b] = VendorOf[job[s].user]
    /\ pc[s] = "write" /\ job[s].kind = "evaluate" =>
         b \in Bids /\ t \in Tenders /\ bidOn[b] = t /\ "CLOSED" \in visited[t]
    /\ pc[s] \in {"winner", "losers", "order"} => "AWARDED" \in visited[t]
    /\ pc[s] \in {"losers", "order"} =>
         "ACCEPTED" \in seen[b] /\ bidOn[b] \in Tenders
    /\ pc[s] = "emit" => Done(s)

RequestsEarned == \A s \in Slots : pc[s] # "idle" => Earned(s)

\* A tender that takes bids has none that came late.
OnTime == \A t \in Tenders : Open(t) => late[t] = 0

\* Orders and the awards on their way to one are paid for by acceptances.
OrdersOf(b) == {o \in Orders : order[o] = b}
Ordering(b) == {s \in Slots : pc[s] \in {"losers", "order"} /\ found[s] = b}

OrdersPaid ==
    \A b \in Bids : Cardinality(OrdersOf(b)) + Cardinality(Ordering(b)) <= wins[b]

\* The inductive invariant.
SourcingInv ==
    /\ TypeOK
    /\ PointsMatchJobs
    /\ HistoryKept
    /\ BidsEarned
    /\ RequestsEarned
    /\ OnTime
    /\ OrdersPaid
    /\ TailBounded
    /\ OneBidPerVendor
    /\ OkMeansDone
=============================================================================
