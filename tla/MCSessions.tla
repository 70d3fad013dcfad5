------------------------------ MODULE MCSessions ------------------------------
(***************************************************************************)
(* Small instances of Sessions: a vendor and a buyer who want one username, *)
(* and a role that gives its holders what administrators may do.            *)
(***************************************************************************)
EXTENDS SessionsInvariant, TLC

CONSTANTS acme, bob, root, r1, r2, k1

MCEmail == (acme :> "acme@") @@ (bob :> "bob@")
MCUsername == (acme :> "sam") @@ (bob :> "sam")
MCRoleName == (r1 :> "Admin") @@ (r2 :> "Buyer")

Ask(op, by, a, R, flag) ==
    [op |-> op, by |-> by, account |-> a, roles |-> R, flag |-> flag, cookie |-> k1]

RaceJobs ==
    { Ask("register", bob, bob, {}, FALSE),
      Ask("vendorUser", root, acme, {}, FALSE),
      Ask("login", acme, acme, {}, FALSE), Ask("refresh", acme, acme, {}, FALSE),
      Ask("logout", acme, acme, {}, FALSE),
      Ask("createRole", root, acme, {r1}, TRUE),
      Ask("updateRole", root, acme, {r1}, FALSE), Ask("updateRole", root, acme, {r1}, TRUE),
      Ask("deleteRole", root, acme, {r1}, FALSE),
      Ask("createRole", root, acme, {r2}, TRUE),
      Ask("assign", root, acme, {r1}, TRUE), Ask("assign", acme, acme, {r1, r2}, FALSE),
      Ask("removeRole", root, acme, {r1}, FALSE) }

\* A vendor who registers and waits to be verified, and one role.
FadeJobs ==
    { Ask("register", acme, acme, {}, FALSE), Ask("verify", root, acme, {}, FALSE),
      Ask("login", acme, acme, {}, FALSE), Ask("refresh", acme, acme, {}, FALSE),
      Ask("logout", acme, acme, {}, FALSE),
      Ask("createRole", root, acme, {r1}, TRUE),
      Ask("updateRole", root, acme, {r1}, FALSE),
      Ask("deleteRole", root, acme, {r1}, FALSE),
      Ask("assign", root, acme, {r1}, TRUE),
      Ask("removeRole", root, acme, {r1}, FALSE) }

\* The slots are interchangeable.
Symmetry == Permutations(Slots)
=============================================================================
