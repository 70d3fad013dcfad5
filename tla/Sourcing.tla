------------------------------- MODULE Sourcing -------------------------------
(***************************************************************************)
(* TenderService and the tender steps of WorkflowService: a tender is      *)
(* created, published, receives bids, is closed, its bids are evaluated    *)
(* and one of them is awarded, with a purchase order for its vendor.       *)
(*                                                                         *)
(* A request runs in a slot and interleaves with the others at each await. *)
(* Nothing is done in a transaction: publish, submit and evaluate decide   *)
(* on a row they read earlier and write it by id; close and award write    *)
(* without looking; award is four separate commits.                        *)
(*                                                                         *)
(* BidService is not here: its three writes are refused whatever their     *)
(* input (see README.md), so bids come from the workflow and the seed.     *)
(***************************************************************************)
EXTENDS Integers, FiniteSets

CONSTANTS Slots,     \* requests the process serves at a time
          Tenders,   \* identities of tenders
          Bids,      \* identities of bids
          Orders,    \* identities of the purchase orders that awards create
          Users,
          Role,      \* role of each user
          VendorOf,  \* vendor whose contactEmail is the user's, or NoVendor
          Jobs,      \* requests that may arrive
          Drafts,    \* the bids the seed leaves in DRAFT: their tender and vendor
          MaxWins,   \* bound: no award begins for a bid accepted that often
          NoJob, NoTender, NoBid, NoVendor, NoUser

TenderStatuses == {"DRAFT", "PUBLISHED", "CLOSED", "AWARDED"}
BidStatuses == {"DRAFT", "SUBMITTED", "UNDER_REVIEW", "ACCEPTED", "REJECTED"}
Absent == "ABSENT"    \* not created yet
Gone == "GONE"        \* deleted; a bid goes with its tender

Vendors == {VendorOf[u] : u \in Users} \ {NoVendor}

\* The endpoint, the tender in its path, the bid in its path and the caller.
\* An update may put the closing date into the future.
JobType == [kind : {"create", "fromContract", "update", "publish", "delete",
                    "wfPublish", "submit", "close", "evaluate", "award"},
            tender : Tenders \cup {NoTender}, bid : Bids \cup {NoBid},
            user : Users, extend : BOOLEAN]

ASSUME SourcingAssumption ==
    /\ IsFiniteSet(Slots) /\ IsFiniteSet(Orders)
    /\ Jobs \subseteq JobType
    /\ NoJob \notin Jobs /\ NoTender \notin Tenders /\ NoBid \notin Bids
    /\ NoUser \notin Users
    /\ MaxWins \in Nat
    /\ DOMAIN Drafts \subseteq Bids
    /\ \A b \in DOMAIN Drafts :
          Drafts[b].tender \in Tenders /\ Drafts[b].vendor \in Vendors
    /\ \A b, c \in DOMAIN Drafts :
          /\ Drafts[b].tender = Drafts[c].tender
          /\ Drafts[b].vendor = Drafts[c].vendor
          => b = c
    /\ \A j \in Jobs :
         /\ j.tender = NoTender <=> j.kind \in {"create", "fromContract", "evaluate"}
         /\ j.bid = NoBid <=> j.kind \notin {"evaluate", "award"}

VARIABLES
    \* the tenders table
    tstatus,     \* Tender.status
    creator,     \* Tender.creatorId
    linked,      \* tenders with a contractId
    expired,     \* tenders whose closingDate has passed
    \* the bids and purchase_orders tables
    bstatus,     \* Bid.status
    bidOn,       \* Bid.tenderId
    bidder,      \* Bid.vendorId
    order,       \* bid each order was created from
    \* history
    visited,     \* every status each tender ever had
    seen,        \* every status each bid ever had
    wins,        \* how often each bid was accepted
    late,        \* submissions since the tender last stopped taking them
    \* the requests being served
    pc, job, target, found, answer

vars == <<tstatus, creator, linked, expired, bstatus, bidOn, bidder, order,
          visited, seen, wins, late, pc, job, target, found, answer>>

tenders == <<tstatus, creator, linked, expired, visited>>
bids == <<bstatus, bidOn, bidder, seen, wins>>
request == <<job, target, found>>

Points == {"idle", "insert", "read", "count", "lookup", "write", "winner",
           "losers", "order", "emit"}

TypeOK ==
    /\ tstatus \in [Tenders -> TenderStatuses \cup {Absent, Gone}]
    /\ creator \in [Tenders -> Users \cup {NoUser}]
    /\ linked \subseteq Tenders
    /\ expired \subseteq Tenders
    /\ bstatus \in [Bids -> BidStatuses \cup {Absent, Gone}]
    /\ bidOn \in [Bids -> Tenders \cup {NoTender}]
    /\ bidder \in [Bids -> Vendors \cup {NoVendor}]
    /\ order \in [Orders -> Bids \cup {NoBid}]
    /\ visited \in [Tenders -> SUBSET TenderStatuses]
    /\ seen \in [Bids -> SUBSET BidStatuses]
    /\ wins \in [Bids -> Nat]
    /\ late \in [Tenders -> Nat]
    /\ pc \in [Slots -> Points]
    /\ job \in [Slots -> Jobs \cup {NoJob}]
    /\ target \in [Slots -> Tenders \cup {NoTender}]
    /\ found \in [Slots -> Bids \cup {NoBid}]
    /\ answer \in [Slots -> {"none", "ok", "error"}]

\* The seed leaves drafts, on tenders it has published.
Seeded == {Drafts[b].tender : b \in DOMAIN Drafts}

Init ==
    /\ tstatus = [t \in Tenders |-> IF t \in Seeded THEN "PUBLISHED" ELSE Absent]
    /\ creator \in [Tenders -> Users \cup {NoUser}]
    /\ \A t \in Tenders : creator[t] = NoUser <=> t \notin Seeded
    /\ linked = {}
    /\ expired = {}
    /\ bstatus = [b \in Bids |-> IF b \in DOMAIN Drafts THEN "DRAFT" ELSE Absent]
    /\ bidOn = [b \in Bids |-> IF b \in DOMAIN Drafts THEN Drafts[b].tender
                                                     ELSE NoTender]
    /\ bidder = [b \in Bids |-> IF b \in DOMAIN Drafts THEN Drafts[b].vendor
                                                      ELSE NoVendor]
    /\ order = [o \in Orders |-> NoBid]
    /\ visited = [t \in Tenders |-> IF t \in Seeded THEN {"DRAFT", "PUBLISHED"}
                                                   ELSE {}]
    /\ seen = [b \in Bids |-> IF b \in DOMAIN Drafts THEN {"DRAFT"} ELSE {}]
    /\ wins = [b \in Bids |-> 0]
    /\ late = [t \in Tenders |-> 0]
    /\ pc = [s \in Slots |-> "idle"]
    /\ job = [s \in Slots |-> NoJob]
    /\ target = [s \in Slots |-> NoTender]
    /\ found = [s \in Slots |-> NoBid]
    /\ answer = [s \in Slots |-> "none"]

-----------------------------------------------------------------------------
\* Helpers.

GoTo(s, point) == pc' = [pc EXCEPT ![s] = point] /\ UNCHANGED answer

\* The request ends; what it was about stays until the slot's next request.
Answer(s, a) ==
    /\ pc' = [pc EXCEPT ![s] = "idle"]
    /\ answer' = [answer EXCEPT ![s] = a]

\* Rows that an update or a delete by id finds.
TenderExists(t) == tstatus[t] \in TenderStatuses
BidExists(b) == bstatus[b] \in BidStatuses

\* A row that a vendor has on a tender.
Held(b, t, v) == BidExists(b) /\ bidOn[b] = t /\ bidder[b] = v

\* What submitBid asks of the tender it reads.
Open(t) == tstatus[t] = "PUBLISHED" /\ t \notin expired

SetTender(t, st) ==
    /\ tstatus' = [tstatus EXCEPT ![t] = st]
    /\ visited' = [visited EXCEPT ![t] = @ \cup {st}]

SetBid(b, st) ==
    /\ bstatus' = [bstatus EXCEPT ![b] = st]
    /\ seen' = [seen EXCEPT ![b] = @ \cup {st}]

\* The roles the controllers admit to each endpoint.
Admitted(kind) ==
    CASE kind \in {"create", "update", "publish", "delete"} -> {"ADMIN", "USER"}
      [] kind \in {"fromContract", "wfPublish", "close", "evaluate"} ->
             {"ADMIN", "BUYER", "MANAGER"}
      [] kind = "submit" -> {"VENDOR"}
      [] kind = "award" -> {"ADMIN", "MANAGER"}

\* The caller owns the tender, or acts as an administrator, as every caller of
\* WorkflowService.publishTender does.
Owns(s, t) ==
    \/ Role[job[s].user] = "ADMIN"
    \/ job[s].kind = "wfPublish"
    \/ creator[t] = job[s].user

-----------------------------------------------------------------------------
\* A request arrives and passes the roles guard.
Begin(s, j) ==
    /\ pc[s] = "idle"
    /\ Role[j.user] \in Admitted(j.kind)
    /\ j.kind = "award" => wins[j.bid] < MaxWins
    /\ job' = [job EXCEPT ![s] = j]
    /\ target' = [target EXCEPT ![s] = j.tender]
    /\ found' = [found EXCEPT ![s] = j.bid]
    /\ pc' = [pc EXCEPT ![s] =
                CASE j.kind \in {"create", "fromContract"} -> "insert"
                  [] j.kind \in {"close", "award"} -> "write"
                  [] OTHER -> "read"]
    /\ answer' = [answer EXCEPT ![s] = "none"]
    /\ UNCHANGED <<tenders, bids, order, late>>

\* The clock passes a closing date.
Deadline(t) ==
    /\ TenderExists(t)
    /\ t \notin expired
    /\ expired' = expired \cup {t}
    /\ UNCHANGED <<tstatus, creator, linked, visited, bids, order, late, pc,
                   request, answer>>

\* createTender, createTenderFromContract: a draft, unless its number is taken
\* or the contract does not exist.
InsertTender(s) ==
    /\ pc[s] = "insert"
    /\ \/ \E t \in Tenders :
            /\ tstatus[t] = Absent
            /\ SetTender(t, "DRAFT")
            /\ creator' = [creator EXCEPT ![t] = job[s].user]
            /\ linked' = IF job[s].kind = "fromContract" THEN linked \cup {t}
                                                         ELSE linked
            /\ target' = [target EXCEPT ![s] = t]
            /\ GoTo(s, "emit")
       \/ /\ Answer(s, "error")
          /\ UNCHANGED <<tstatus, visited, creator, linked, target>>
    /\ UNCHANGED <<expired, bids, order, late, job, found>>

\* Fault: a tender of any status is published.
FaultyMayWrite(s) ==
    LET t == target[s] IN
    /\ TenderExists(t)
    /\ Owns(s, t)
    /\ job[s].kind = "delete" => tstatus[t] = "DRAFT" \/ Role[job[s].user] = "ADMIN"

\* updateTender, publishTender, deleteTender: the tender is read and judged.
MayWrite(s) ==
    LET t == target[s] IN
    /\ TenderExists(t)
    /\ Owns(s, t)
    /\ job[s].kind \in {"publish", "wfPublish"} => tstatus[t] = "DRAFT"
    /\ job[s].kind = "delete" => tstatus[t] = "DRAFT" \/ Role[job[s].user] = "ADMIN"

\* An update by somebody else than an administrator counts the bids of a tender
\* that is no draft any more.
ReadTender(s) ==
    /\ pc[s] = "read"
    /\ job[s].kind \in {"update", "publish", "wfPublish", "delete"}
    /\ \/ /\ MayWrite(s)
          /\ GoTo(s, IF /\ job[s].kind = "update"
                        /\ tstatus[target[s]] # "DRAFT"
                        /\ Role[job[s].user] # "ADMIN"
                     THEN "count" ELSE "write")
       \/ /\ ~MayWrite(s)
          /\ Answer(s, "error")
    /\ UNCHANGED <<tenders, bids, order, late, request>>

CountBids(s) ==
    /\ pc[s] = "count"
    /\ IF \E b \in Bids : BidExists(b) /\ bidOn[b] = target[s]
       THEN Answer(s, "error")
       ELSE GoTo(s, "write")
    /\ UNCHANGED <<tenders, bids, order, late, request>>

\* The tender is gone when a write by id comes to it.
WriteMissing(s) ==
    /\ pc[s] = "write"
    /\ job[s].kind \notin {"submit", "evaluate"}
    /\ ~TenderExists(target[s])
    /\ Answer(s, "error")
    /\ UNCHANGED <<tenders, bids, order, late, request>>

\* updateTender: of its fields only the closing date matters here.
WriteUpdate(s) ==
    LET t == target[s] IN
    /\ pc[s] = "write"
    /\ job[s].kind = "update"
    /\ TenderExists(t)
    /\ expired' = IF job[s].extend THEN expired \ {t} ELSE expired
    /\ late' = IF job[s].extend /\ tstatus[t] = "PUBLISHED"
               THEN [late EXCEPT ![t] = 0] ELSE late
    /\ GoTo(s, "emit")
    /\ UNCHANGED <<tstatus, creator, linked, visited, bids, order, request>>

\* publishTender: the status is set by id.
WritePublished(s) ==
    LET t == target[s] IN
    /\ pc[s] = "write"
    /\ job[s].kind \in {"publish", "wfPublish"}
    /\ TenderExists(t)
    /\ SetTender(t, "PUBLISHED")
    /\ late' = IF t \notin expired THEN [late EXCEPT ![t] = 0] ELSE late
    /\ GoTo(s, "emit")
    /\ UNCHANGED <<creator, linked, expired, bids, order, request>>

\* Fault: the bids of a deleted tender stay.
FaultyDeleteRow(s) ==
    /\ pc[s] = "write"
    /\ job[s].kind = "delete"
    /\ TenderExists(target[s])
    /\ tstatus' = [tstatus EXCEPT ![target[s]] = Gone]
    /\ GoTo(s, "emit")
    /\ UNCHANGED <<creator, linked, expired, visited, bids, order, late, request>>

\* deleteTender: the row is deleted, and its bids with it.
DeleteRow(s) ==
    LET t == target[s] IN
    /\ pc[s] = "write"
    /\ job[s].kind = "delete"
    /\ TenderExists(t)
    /\ tstatus' = [tstatus EXCEPT ![t] = Gone]
    /\ bstatus' = [b \in Bids |-> IF bidOn[b] = t THEN Gone ELSE bstatus[b]]
    /\ GoTo(s, "emit")
    /\ UNCHANGED <<creator, linked, expired, visited, bidOn, bidder, seen, wins,
                   order, late, request>>

\* closeTender: whatever the status was.
WriteClosed(s) ==
    /\ pc[s] = "write"
    /\ job[s].kind = "close"
    /\ TenderExists(target[s])
    /\ SetTender(target[s], "CLOSED")
    /\ GoTo(s, "emit")
    /\ UNCHANGED <<creator, linked, expired, bids, order, late, request>>

\* Fault: the status of the tender is not checked, only its closing date.
FaultyReadForBid(s) ==
    /\ pc[s] = "read"
    /\ job[s].kind = "submit"
    /\ IF /\ VendorOf[job[s].user] # NoVendor
          /\ TenderExists(target[s]) /\ target[s] \notin expired
       THEN GoTo(s, "lookup")
       ELSE Answer(s, "error")
    /\ UNCHANGED <<tenders, bids, order, late, request>>

\* submitBid: the vendor of the caller, and a tender that takes bids.
ReadForBid(s) ==
    /\ pc[s] = "read"
    /\ job[s].kind = "submit"
    /\ IF VendorOf[job[s].user] # NoVendor /\ Open(target[s])
       THEN GoTo(s, "lookup")
       ELSE Answer(s, "error")
    /\ UNCHANGED <<tenders, bids, order, late, request>>

\* Fault: the bid is looked up by its tender only.
FaultyLookupBid(s) ==
    /\ pc[s] = "lookup"
    /\ \/ \E b \in Bids :
            /\ BidExists(b) /\ bidOn[b] = target[s]
            /\ found' = [found EXCEPT ![s] = b]
       \/ /\ \A b \in Bids : ~(BidExists(b) /\ bidOn[b] = target[s])
          /\ found' = [found EXCEPT ![s] = NoBid]
    /\ GoTo(s, "write")
    /\ UNCHANGED <<tenders, bids, order, late, job, target>>

\* submitBid: the vendor's bid on the tender, if there is one.
LookupBid(s) ==
    /\ pc[s] = "lookup"
    /\ \/ \E b \in Bids :
            /\ Held(b, target[s], VendorOf[job[s].user])
            /\ found' = [found EXCEPT ![s] = b]
       \/ /\ \A b \in Bids : ~Held(b, target[s], VendorOf[job[s].user])
          /\ found' = [found EXCEPT ![s] = NoBid]
    /\ GoTo(s, "write")
    /\ UNCHANGED <<tenders, bids, order, late, job, target>>

\* A submission that lands on a tender that has stopped taking bids.
CountLate(t) ==
    late' = IF Open(t) THEN late ELSE [late EXCEPT ![t] = @ + 1]

\* submitBid: the bid found is overwritten, in whatever status it is now.
Resubmit(s) ==
    /\ pc[s] = "write"
    /\ job[s].kind = "submit"
    /\ found[s] # NoBid
    /\ BidExists(found[s])
    /\ SetBid(found[s], "SUBMITTED")
    /\ CountLate(target[s])
    /\ GoTo(s, "emit")
    /\ UNCHANGED <<tenders, bidOn, bidder, wins, order, request>>

\* Fault: the table has no unique index on tender and vendor.
FaultyInsertBid(s) ==
    LET t == target[s] IN
    /\ pc[s] = "write"
    /\ job[s].kind = "submit"
    /\ found[s] = NoBid
    /\ TenderExists(t)
    /\ \E b \in Bids :
         /\ bstatus[b] = Absent
         /\ SetBid(b, "SUBMITTED")
         /\ bidOn' = [bidOn EXCEPT ![b] = t]
         /\ bidder' = [bidder EXCEPT ![b] = VendorOf[job[s].user]]
         /\ found' = [found EXCEPT ![s] = b]
    /\ CountLate(t)
    /\ GoTo(s, "emit")
    /\ UNCHANGED <<tenders, wins, order, job, target>>

\* submitBid: a new bid; one row per tender and vendor.
InsertBid(s) ==
    LET t == target[s]
        v == VendorOf[job[s].user]
    IN
    /\ pc[s] = "write"
    /\ job[s].kind = "submit"
    /\ found[s] = NoBid
    /\ TenderExists(t)
    /\ \A b \in Bids : ~Held(b, t, v)
    /\ \E b \in Bids :
         /\ bstatus[b] = Absent
         /\ SetBid(b, "SUBMITTED")
         /\ bidOn' = [bidOn EXCEPT ![b] = t]
         /\ bidder' = [bidder EXCEPT ![b] = v]
         /\ found' = [found EXCEPT ![s] = b]
    /\ CountLate(t)
    /\ GoTo(s, "emit")
    /\ UNCHANGED <<tenders, wins, order, job, target>>

\* submitBid, evaluateBid: the bid is gone, its tender is gone, or another
\* request has inserted the vendor's bid.
BidRefused(s) ==
    /\ pc[s] = "write"
    /\ job[s].kind \in {"submit", "evaluate"}
    /\ \/ found[s] # NoBid /\ ~BidExists(found[s])
       \/ found[s] = NoBid /\ ~TenderExists(target[s])
       \/ /\ found[s] = NoBid
          /\ \E b \in Bids : Held(b, target[s], VendorOf[job[s].user])
    /\ Answer(s, "error")
    /\ UNCHANGED <<tenders, bids, order, late, request>>

\* Fault: the tender need not be closed.
FaultyMayEvaluate(b) == BidExists(b)

\* evaluateBid: the bid and its tender, which must be closed.
MayEvaluate(b) == BidExists(b) /\ tstatus[bidOn[b]] = "CLOSED"

ReadForEvaluation(s) ==
    /\ pc[s] = "read"
    /\ job[s].kind = "evaluate"
    /\ \/ /\ MayEvaluate(found[s])
          /\ target' = [target EXCEPT ![s] = bidOn[found[s]]]
          /\ GoTo(s, "write")
       \/ /\ ~MayEvaluate(found[s])
          /\ Answer(s, "error")
          /\ UNCHANGED target
    /\ UNCHANGED <<tenders, bids, order, late, job, found>>

WriteEvaluation(s) ==
    /\ pc[s] = "write"
    /\ job[s].kind = "evaluate"
    /\ BidExists(found[s])
    /\ SetBid(found[s], "UNDER_REVIEW")
    /\ GoTo(s, "emit")
    /\ UNCHANGED <<tenders, bidOn, bidder, wins, order, late, request>>

\* Fault: the award date is set and the status is not.
FaultyWriteAwarded(s) ==
    /\ pc[s] = "write"
    /\ job[s].kind = "award"
    /\ TenderExists(target[s])
    /\ GoTo(s, "winner")
    /\ UNCHANGED <<tenders, bids, order, late, request>>

\* awardTender: the tender, whatever its status was.
WriteAwarded(s) ==
    /\ pc[s] = "write"
    /\ job[s].kind = "award"
    /\ TenderExists(target[s])
    /\ SetTender(target[s], "AWARDED")
    /\ GoTo(s, "winner")
    /\ UNCHANGED <<creator, linked, expired, bids, order, late, request>>

\* Fault: updateMany for update: a missing bid goes unnoticed.
FaultyAcceptWinner(s) ==
    LET b == found[s] IN
    /\ pc[s] = "winner"
    /\ \/ /\ BidExists(b)
          /\ SetBid(b, "ACCEPTED")
          /\ wins' = [wins EXCEPT ![b] = @ + 1]
       \/ /\ ~BidExists(b)
          /\ UNCHANGED <<bstatus, seen, wins>>
    /\ GoTo(s, "losers")
    /\ UNCHANGED <<tenders, bidOn, bidder, order, late, request>>

\* awardTender: the winning bid, whatever its status and its tender.
AcceptWinner(s) ==
    LET b == found[s] IN
    /\ pc[s] = "winner"
    /\ \/ /\ BidExists(b)
          /\ SetBid(b, "ACCEPTED")
          /\ wins' = [wins EXCEPT ![b] = @ + 1]
          /\ GoTo(s, "losers")
       \/ /\ ~BidExists(b)
          /\ Answer(s, "error")
          /\ UNCHANGED <<bstatus, seen, wins>>
    /\ UNCHANGED <<tenders, bidOn, bidder, order, late, request>>

\* awardTender: the other open bids on the tender; then an order if the tender
\* of the winning bid belongs to a contract.
RejectLosers(s) ==
    LET losers == {b \in Bids \ {found[s]} :
                     /\ bidOn[b] = target[s]
                     /\ bstatus[b] \in {"SUBMITTED", "UNDER_REVIEW"}}
    IN
    /\ pc[s] = "losers"
    /\ bstatus' = [b \in Bids |-> IF b \in losers THEN "REJECTED" ELSE bstatus[b]]
    /\ seen' = [b \in Bids |-> IF b \in losers THEN seen[b] \cup {"REJECTED"}
                                               ELSE seen[b]]
    /\ GoTo(s, IF bidOn[found[s]] \in linked THEN "order" ELSE "emit")
    /\ UNCHANGED <<tenders, bidOn, bidder, wins, order, late, request>>

\* Fault: the order is created again when the first one could not be announced.
FaultyPlaceOrder(s) ==
    /\ pc[s] = "order"
    /\ \/ /\ \E o \in Orders :
               /\ order[o] = NoBid
               /\ order' = [order EXCEPT ![o] = found[s]]
          /\ GoTo(s, "emit") \/ GoTo(s, "order")
       \/ /\ Answer(s, "error")
          /\ UNCHANGED order
    /\ UNCHANGED <<tenders, bids, late, request>>

\* awardTender: PurchaseOrderService.create may fail before it inserts the
\* order, or after, when it adds the vendor or announces the order.
PlaceOrder(s) ==
    /\ pc[s] = "order"
    /\ \/ /\ \E o \in Orders :
               /\ order[o] = NoBid
               /\ order' = [order EXCEPT ![o] = found[s]]
          /\ GoTo(s, "emit") \/ Answer(s, "error")
       \/ /\ Answer(s, "error")
          /\ UNCHANGED order
    /\ UNCHANGED <<tenders, bids, late, request>>

\* EventService.emit, whose failure fails the request.
Emit(s) ==
    /\ pc[s] = "emit"
    /\ \E a \in {"ok", "error"} : Answer(s, a)
    /\ UNCHANGED <<tenders, bids, order, late, request>>

Step(s) ==
    \/ InsertTender(s) \/ ReadTender(s) \/ CountBids(s) \/ WriteMissing(s)
    \/ WriteUpdate(s) \/ WritePublished(s) \/ DeleteRow(s) \/ WriteClosed(s)
    \/ ReadForBid(s) \/ LookupBid(s) \/ Resubmit(s) \/ InsertBid(s)
    \/ BidRefused(s) \/ ReadForEvaluation(s) \/ WriteEvaluation(s)
    \/ WriteAwarded(s) \/ AcceptWinner(s) \/ RejectLosers(s) \/ PlaceOrder(s)
    \/ Emit(s)

Next ==
    \/ \E s \in Slots, j \in Jobs : Begin(s, j)
    \/ \E s \in Slots : Step(s)
    \/ \E t \in Tenders : Deadline(t)

Spec == Init /\ [][Next]_vars
=============================================================================
