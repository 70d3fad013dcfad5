----------------------------- MODULE MCSourcing ------------------------------
(***************************************************************************)
(* Small instances of Sourcing: two requests at a time, a seeded tender    *)
(* with a draft bid, or a tender under a contract; two vendors.            *)
(***************************************************************************)
EXTENDS SourcingInvariant, TLC

CONSTANTS t1, b1, b2, acme, globex, user, manager, admin, v1, v2

MCRole == (user :> "USER") @@ (manager :> "MANAGER") @@ (admin :> "ADMIN")
          @@ (v1 :> "VENDOR") @@ (v2 :> "VENDOR")
MCVendorOf == (user :> NoVendor) @@ (manager :> NoVendor) @@ (admin :> NoVendor)
              @@ (v1 :> acme) @@ (v2 :> globex)

\* The seed: one published tender on which acme has a draft.
MCDrafts == b1 :> [tender |-> t1, vendor |-> acme]
NoDrafts == <<>>

J(kind, t, b, u) ==
    [kind |-> kind, tender |-> t, bid |-> b, user |-> u, extend |-> FALSE]
Extend(t, u) ==
    [kind |-> "update", tender |-> t, bid |-> NoBid, user |-> u, extend |-> TRUE]

\* The life of the seeded tender, where its bids race its end.
MCJobs ==
    { J("submit", t1, NoBid, v1), J("submit", t1, NoBid, v2),
      J("close", t1, NoBid, manager),
      J("evaluate", NoTender, b1, manager), J("award", t1, b1, manager),
      J("award", t1, b2, manager) }

\* A tender from its creation to its order, through every endpoint.
MCContractJobs ==
    { J("fromContract", NoTender, NoBid, manager), J("create", NoTender, NoBid, user),
      J("publish", t1, NoBid, user), J("wfPublish", t1, NoBid, manager),
      J("submit", t1, NoBid, v1), J("close", t1, NoBid, manager),
      J("evaluate", NoTender, b1, manager), J("award", t1, b1, manager),
      Extend(t1, user), J("delete", t1, NoBid, admin) }

\* The slots are interchangeable.
Symmetry == Permutations(Slots)
=============================================================================
