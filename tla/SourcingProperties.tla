-------------------------- MODULE SourcingProperties --------------------------
(***************************************************************************)
(* What sourcing promises, whatever requests race.                         *)
(***************************************************************************)
EXTENDS Sourcing

\* submitBid checks the tender and writes the bid later: a submission may land
\* on a tender that was closed, or whose closing date passed, in between.  Only
\* the requests already past the check can do so, at most one for each slot.
Submitting(t) ==
    {s \in Slots : /\ job[s] \in Jobs /\ job[s].kind = "submit"
                   /\ target[s] = t /\ pc[s] \in {"lookup", "write"}}

TailBounded ==
    \A t \in Tenders :
        ~Open(t) => late[t] + Cardinality(Submitting(t)) <= Cardinality(Slots)

\* publishTender judges the tender it read and sets PUBLISHED by id, so that a
\* tender closed, or awarded, in between is published again.  Only the requests
\* that read the draft can do so: once a tender is past its draft and they are
\* through, no request comes to publish it and it never reopens.
Publishing(t) ==
    {s \in Slots : /\ pc[s] = "write" /\ target[s] = t
                   /\ job[s].kind \in {"publish", "wfPublish"}}

ReopeningSettles ==
    [][\A t \in Tenders :
         tstatus[t] \notin {Absent, "DRAFT"} /\ Publishing(t) = {} =>
           /\ Publishing(t)' = {}
           /\ tstatus'[t] = "PUBLISHED" => tstatus[t] = "PUBLISHED"]_vars

\* TESTING_PLAN.md, TC-TRANS-012: a vendor has one bid on a tender, although
\* two requests of submitBid may both have found none.
OneBidPerVendor ==
    \A b, c \in Bids :
        BidExists(b) /\ BidExists(c) /\ bidOn[b] = bidOn[c] /\ bidder[b] = bidder[c]
        => b = c

\* What a request answered with success has done, publishTender, submitBid,
\* evaluateBid and awardTender: none of the awaits behind it failed unnoticed.
Done(s) ==
    LET kind == job[s].kind
        t == target[s]
        b == found[s]
    IN
    /\ kind \in {"publish", "wfPublish"} => "PUBLISHED" \in visited[t]
    /\ kind = "close" => "CLOSED" \in visited[t]
    /\ kind = "delete" => tstatus[t] = Gone
    /\ kind = "submit" =>
         /\ b \in Bids /\ "SUBMITTED" \in seen[b]
         /\ bidOn[b] = t /\ bidder[b] = VendorOf[job[s].user]
    /\ kind = "evaluate" => "UNDER_REVIEW" \in seen[b]
    /\ kind = "award" =>
         /\ "AWARDED" \in visited[t] /\ "ACCEPTED" \in seen[b]
         /\ bidOn[b] \in linked => \E o \in Orders : order[o] = b

OkMeansDone == \A s \in Slots : answer[s] = "ok" => Done(s)

\* The facts about tenders and bids are established in their order, whatever
\* requests race: no evaluation without a close, no submission without a
\* publication, no order without an acceptance of its own.
Dossier == INSTANCE TenderDossier WITH
    created <- {t \in Tenders : "DRAFT" \in visited[t]},
    published <- {t \in Tenders : "PUBLISHED" \in visited[t]},
    closed <- {t \in Tenders : "CLOSED" \in visited[t]},
    awarded <- {t \in Tenders : "AWARDED" \in visited[t]},
    on <- bidOn,
    submitted <- {b \in Bids : "SUBMITTED" \in seen[b]},
    evaluated <- {b \in Bids : "UNDER_REVIEW" \in seen[b]},
    rejected <- {b \in Bids : "REJECTED" \in seen[b]}

KeepsDossier == Dossier!Spec
=============================================================================
