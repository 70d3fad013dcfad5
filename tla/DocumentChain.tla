---------------------------- MODULE DocumentChain ----------------------------
(***************************************************************************)
(* What the procurement chain promises: no document is raised on another   *)
(* before that one got the status it must have, in progress for a          *)
(* contract, approved for a requisition or an order, and what a document   *)
(* rests on never changes.  The chain does not promise that the other      *)
(* document still has that status, or is not deleted, when the new one     *)
(* appears: the services look at one moment and insert at another.         *)
(***************************************************************************)
EXTENDS Naturals

CONSTANTS Docs, Kind

VARIABLES made,      \* documents that exist or existed
          granted,   \* those that were once given the status others need
          rests      \* the documents each one rests on

vars == <<made, granted, rests>>

\* A requisition needs its contract granted, an order its requisition, an
\* invoice its order.  An order may rest on any contract, a payment on any
\* order and invoice.
Needs(d, b) ==
    \/ Kind[d] = "pr" /\ Kind[b] = "contract"
    \/ Kind[d] = "order" /\ Kind[b] = "pr"
    \/ Kind[d] = "invoice" /\ Kind[b] = "order"

Init ==
    /\ made = {}
    /\ granted = {}
    /\ rests = [d \in Docs |-> {}]

Raise(d, B) ==
    /\ d \notin made
    /\ B \subseteq made
    /\ \A b \in B : Needs(d, b) => b \in granted
    /\ made' = made \cup {d}
    /\ rests' = [rests EXCEPT ![d] = B]
    /\ UNCHANGED granted

Grant(d) ==
    /\ d \in made
    /\ granted' = granted \cup {d}
    /\ UNCHANGED <<made, rests>>

Next == \E d \in Docs : Grant(d) \/ \E B \in SUBSET Docs : Raise(d, B)

Spec == Init /\ [][Next]_vars

-----------------------------------------------------------------------------
\* What a document rests on was raised before it, with the status it needed.
Grounded ==
    \A d \in made : \A b \in rests[d] : b \in made /\ (Needs(d, b) => b \in granted)

\* No document rests on itself, directly or through others: among any
\* documents there is one that rests on none of them.
NoCircles ==
    \A S \in SUBSET made : S # {} => \E d \in S : rests[d] \cap S = {}
=============================================================================
