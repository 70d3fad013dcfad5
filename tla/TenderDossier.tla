---------------------------- MODULE TenderDossier -----------------------------
(***************************************************************************)
(* What sourcing promises: the order in which the facts about a tender are *)
(* established.  A fact stays in the dossier whatever the rows say later;  *)
(* each fact is entered only when those it follows from are there.  The    *)
(* dossier does not promise that a fact still holds when the next one is   *)
(* entered: the service reads a row at one moment and writes at another.   *)
(***************************************************************************)
EXTENDS Naturals, FiniteSets

CONSTANTS Tenders, Bids, Orders, NoTender, NoBid

VARIABLES created, published, closed, awarded,   \* tenders
          on,         \* tender of each bid that was placed, or NoTender
          submitted, evaluated, rejected,        \* bids
          wins,       \* how often each bid was accepted
          order       \* bid each order was placed for, or NoBid

vars == <<created, published, closed, awarded, on, submitted, evaluated,
          rejected, wins, order>>
tenderFacts == <<created, published, closed, awarded>>
bidFacts == <<on, submitted, evaluated, rejected, wins>>

Init ==
    /\ created \subseteq Tenders
    /\ published \subseteq created
    /\ closed = {} /\ awarded = {}
    /\ on \in [Bids -> published \cup {NoTender}]
    /\ submitted = {} /\ evaluated = {} /\ rejected = {}
    /\ wins = [b \in Bids |-> 0]
    /\ order = [o \in Orders |-> NoBid]

Placed(b) == on[b] # NoTender

Create(t) ==
    /\ created' = created \cup {t}
    /\ UNCHANGED <<published, closed, awarded, bidFacts, order>>

\* A tender that exists becomes published, closed or awarded.
Advance(t) ==
    /\ t \in created
    /\ \/ published' = published \cup {t} /\ UNCHANGED <<closed, awarded>>
       \/ closed' = closed \cup {t} /\ UNCHANGED <<published, awarded>>
       \/ awarded' = awarded \cup {t} /\ UNCHANGED <<published, closed>>
    /\ UNCHANGED <<created, bidFacts, order>>

\* A bid is submitted on a tender that was published, and stays on it.
Submit(b, t) ==
    /\ t \in published
    /\ on[b] \in {t, NoTender}
    /\ on' = [on EXCEPT ![b] = t]
    /\ submitted' = submitted \cup {b}
    /\ UNCHANGED <<tenderFacts, evaluated, rejected, wins, order>>

\* A bid is evaluated when its tender was closed.
Evaluate(b) ==
    /\ on[b] \in closed
    /\ evaluated' = evaluated \cup {b}
    /\ UNCHANGED <<tenderFacts, on, submitted, rejected, wins, order>>

\* A bid is accepted by the award of a tender, not necessarily its own.
Accept(b) ==
    /\ Placed(b)
    /\ awarded # {}
    /\ wins' = [wins EXCEPT ![b] = @ + 1]
    /\ UNCHANGED <<tenderFacts, on, submitted, evaluated, rejected, order>>

\* The bids that an award turns down were in the running on its tender.
Reject(t) ==
    /\ t \in awarded
    /\ \E losers \in SUBSET (submitted \cup evaluated) :
         /\ \A b \in losers : on[b] = t
         /\ rejected' = rejected \cup losers
    /\ UNCHANGED <<tenderFacts, on, submitted, evaluated, wins, order>>

\* A bid has no more orders than it was accepted.
Order(o, b) ==
    /\ order[o] = NoBid
    /\ Cardinality({x \in Orders : order[x] = b}) < wins[b]
    /\ order' = [order EXCEPT ![o] = b]
    /\ UNCHANGED <<tenderFacts, bidFacts>>

Next ==
    \/ \E t \in Tenders : Create(t) \/ Advance(t) \/ Reject(t)
    \/ \E b \in Bids : Evaluate(b) \/ Accept(b)
    \/ \E b \in Bids, t \in Tenders : Submit(b, t)
    \/ \E o \in Orders, b \in Bids : Order(o, b)

Spec == Init /\ [][Next]_vars

-----------------------------------------------------------------------------
TypeOK ==
    /\ created \subseteq Tenders
    /\ on \in [Bids -> Tenders \cup {NoTender}]
    /\ submitted \cup evaluated \cup rejected \subseteq Bids
    /\ wins \in [Bids -> Nat]
    /\ order \in [Orders -> Bids \cup {NoBid}]

\* What follows of any dossier.  Every fact has those it rests on behind it: a
\* bid in the running was placed on a tender that was published, an evaluated
\* one on a tender that was closed, a rejected one on a tender that was awarded,
\* and an order is for an accepted bid.
InOrder ==
    /\ published \cup closed \cup awarded \subseteq created
    /\ \A b \in Bids : Placed(b) => on[b] \in published
    /\ \A b \in submitted : Placed(b)
    /\ \A b \in evaluated : Placed(b) /\ on[b] \in closed
    /\ \A b \in rejected : Placed(b) /\ on[b] \in awarded
    /\ \A b \in Bids : wins[b] > 0 => Placed(b) /\ awarded # {}
    /\ \A o \in Orders : order[o] # NoBid => wins[order[o]] > 0

\* A bid never moves to another tender, and nothing is taken out of the dossier.
Growing ==
    /\ published \subseteq published' /\ closed \subseteq closed'
    /\ awarded \subseteq awarded' /\ evaluated \subseteq evaluated'
    /\ \A b \in Bids : /\ Placed(b) => on'[b] = on[b]
                       /\ wins'[b] \in {wins[b], wins[b] + 1}
    /\ \A o \in Orders : order[o] # NoBid => order'[o] = order[o]

OnlyGrows == [][Growing]_vars
=============================================================================
