----------------------------- MODULE ReferenceData -----------------------------
(***************************************************************************)
(* Vendors, currencies, the organisation structure, and the documents that *)
(* name them.                                                              *)
(*                                                                         *)
(* Every service looks first and writes later: a vendor is placed under a  *)
(* purchasing organisation that is assigned to the place, a currency is    *)
(* deleted if its three counts are zero, a vendor is deleted softly if any *)
(* of its counts is not.  Between the two, other requests delete what was  *)
(* found and name what was counted.  What the schema does with the foreign *)
(* keys of a deleted row is part of the deletion: it is refused where the  *)
(* column is required, and the column becomes null where it is not.        *)
(*                                                                         *)
(* Codes and names are left out: an insert that a unique index refuses is  *)
(* the alternative of a failure, as every other.                           *)
(***************************************************************************)
EXTENDS Integers, FiniteSets

CONSTANTS Slots,           \* requests the process serves at a time
          Rows, KindOf,    \* rows of the tables, and the table of each
          Seeded, SeedRefs,   \* rows there from the start, and what they name
          Jobs,            \* requests that may arrive
          NoJob, Null

Places == {"company", "plant", "location", "group"}

\* The columns of each table that name a row, each named after the table it
\* names.  A link is a row of contract_vendors or po_vendors.
Columns ==
    [company |-> {}, org |-> {}, currency |-> {},
     plant |-> {"company"}, location |-> {"plant"}, group |-> {"org"},
     assignment |-> {"org", "company", "plant"},
     vendor |-> Places \cup {"org"}, requisition |-> Places \cup {"org"},
     order |-> Places \cup {"org", "currency"}, contract |-> {"currency"},
     link |-> {"vendor"}, bid |-> {"vendor"},
     quotation |-> {"vendor", "currency"}, invoice |-> {"vendor", "currency"}]

Kinds == DOMAIN Columns
Fields == {"company", "plant", "location", "group", "org", "vendor", "currency"}

\* The columns that may not be null.
Required(k, f) ==
    \/ k \in {"plant", "location", "group"} /\ f \in Columns[k]
    \/ k = "assignment" /\ f = "org"
    \/ k \in {"link", "bid", "quotation", "invoice"} /\ f = "vendor"

Of(k) == {r \in Rows : KindOf[r] = k}
Refs == [Fields -> Rows \cup {Null}]

\* The method, the row it is about, the rows it names; of an update of a
\* vendor whether it writes the status ACTIVE, of a rating whether it is
\* within its bounds.
JobType == [op : {"create", "update", "rate", "delete"}, row : Rows, names : Refs,
            flag : BOOLEAN]

\* Rows of the organisation structure are updated in their names only; an
\* assignment is not updated, and only these tables lose rows.
Structure == {"company", "plant", "location", "org", "group"}
WellFormed(j) ==
    LET k == KindOf[j.row] IN
    /\ \A f \in Fields : j.names[f] # Null => f \in Columns[k] /\ j.names[f] \in Of(f)
    /\ j.op = "create" => \A f \in Fields : Required(k, f) => j.names[f] # Null
    /\ j.op = "update" => k # "assignment"
    /\ j.op = "update" /\ k \in Structure => \A f \in Fields : j.names[f] = Null
    /\ j.op = "rate" => k = "vendor" /\ \A f \in Fields : j.names[f] = Null
    /\ j.op = "delete" => k \in Structure \cup {"assignment", "vendor", "currency"}

ASSUME ReferenceDataAssumption ==
    /\ IsFiniteSet(Slots)
    /\ KindOf \in [Rows -> Kinds]
    /\ Null \notin Rows
    /\ Jobs \subseteq JobType /\ \A j \in Jobs : WellFormed(j)
    /\ NoJob \notin Jobs
    /\ Seeded \subseteq Rows
    /\ SeedRefs \in [Rows -> Refs]
    /\ \A r \in Seeded, f \in Fields : SeedRefs[r][f] \in Seeded \cup {Null}
    /\ \A r \in Rows \ Seeded, f \in Fields : SeedRefs[r][f] = Null
    /\ \A r \in Seeded : KindOf[r] = "assignment" =>
         SeedRefs[r]["company"] = Null \/ SeedRefs[r]["plant"] = Null

VARIABLES
    exists, used,          \* the rows, and those that ever were: ids are unique
    refs,                  \* what they name
    deleted, inactive,     \* vendors with a deletedAt, those that are INACTIVE
    \* the requests being served
    pc, job,
    found,     \* whether a check or a count has found something
    todo,      \* the tables still to be counted
    since,     \* rows that came to name the row since its deletion began to count
    \* history
    lateWrites    \* writes to a vendor since it was deleted softly

rows == <<exists, used, refs, deleted, inactive, lateWrites>>
request == <<job, found, todo, since>>
vars == <<rows, pc, request>>

Points == {"idle", "check", "checkPlant", "insert", "find", "write", "count",
           "softDelete", "remove"}

TypeOK ==
    /\ used \subseteq Rows /\ exists \subseteq used
    /\ refs \in [Rows -> Refs]
    /\ deleted \subseteq exists \cap Of("vendor") /\ inactive \subseteq exists
    /\ pc \in [Slots -> Points]
    /\ job \in [Slots -> Jobs \cup {NoJob}]
    /\ found \in [Slots -> BOOLEAN]
    /\ todo \in [Slots -> SUBSET Kinds]
    /\ since \in [Slots -> SUBSET Rows]
    /\ lateWrites \in [Rows -> Nat]

Init ==
    /\ exists = Seeded /\ used = Seeded
    /\ refs = SeedRefs
    /\ deleted = {} /\ inactive = {}
    /\ pc = [s \in Slots |-> "idle"]
    /\ job = [s \in Slots |-> NoJob]
    /\ found = [s \in Slots |-> FALSE]
    /\ todo = [s \in Slots |-> {}]
    /\ since = [s \in Slots |-> {}]
    /\ lateWrites = [r \in Rows |-> 0]

-----------------------------------------------------------------------------
\* Helpers.
GoTo(s, point) == pc' = [pc EXCEPT ![s] = point]

\* The request ends, with a success or an error.
Leave(s) ==
    /\ GoTo(s, "idle")
    /\ job' = [job EXCEPT ![s] = NoJob]
    /\ found' = [found EXCEPT ![s] = FALSE]
    /\ todo' = [todo EXCEPT ![s] = {}]
End(s) == Leave(s) /\ since' = [since EXCEPT ![s] = {}]

Kind(s) == KindOf[job[s].row]
Live(v) == v \in exists \ deleted

\* x now names what n names.
Noted(x, n) ==
    since' = [s \in Slots |->
                IF pc[s] \in {"count", "remove"} /\ \E f \in Fields : n[f] = job[s].row
                  THEN since[s] \cup {x} ELSE since[s]]

\* Foreign keys.
Resolve(n) == \A f \in Fields : n[f] \in exists \cup {Null}
Restricted(r) ==
    \E x \in exists, f \in Fields : refs[x][f] = r /\ Required(KindOf[x], f)

\* Fault: the columns keep the id of the row that is gone.
FaultyReleased(r) == [refs EXCEPT ![r] = [f \in Fields |-> Null]]
\* onDelete: SetNull.
Released(r) ==
    [x \in Rows |-> [f \in Fields |->
       IF x = r \/ refs[x][f] = r THEN Null ELSE refs[x][f]]]

-----------------------------------------------------------------------------
\* Assignments of purchasing organisations.
Assignments == {a \in exists : KindOf[a] = "assignment"}

\* findFirst on the organisation and on every place that is named, in one row.
OneRow(n) ==
    \E a \in Assignments :
        /\ refs[a]["org"] = n["org"]
        /\ \A f \in {"company", "plant"} : n[f] # Null => refs[a][f] = n[f]

AsksPlacement(n) == n["org"] # Null /\ (n["company"] # Null \/ n["plant"] # Null)

\* Fault: either will do.
FaultyOnePlace(n) == n["company"] # Null \/ n["plant"] # Null
\* createAssignment wants a company code or a plant, and not both.
OnePlace(n) == (n["company"] # Null) # (n["plant"] # Null)

\* What a request looks up before its insert or its update, in one query.
Approved(j) ==
    LET k == KindOf[j.row]
        n == j.names
    IN
    CASE j.op = "create" /\ k \in {"plant", "location", "group"} -> Resolve(n)
      [] j.op = "create" /\ k = "assignment" ->
           OnePlace(n) /\ \A f \in {"company", "plant"} : n[f] \in exists \cup {Null}
      [] j.op = "create" /\ k = "invoice" -> Live(n["vendor"])
      [] OTHER -> AsksPlacement(n) => OneRow(n)

-----------------------------------------------------------------------------
\* createVendor accepts either place, in two queries.
CreatesVendor(j) == j.op = "create" /\ KindOf[j.row] = "vendor"

Lookups == {"plant", "location", "group", "assignment", "vendor", "order",
            "requisition", "invoice"}

FirstPoint(j) ==
    CASE j.op = "create" /\ KindOf[j.row] \in Lookups -> "check"
      [] j.op = "create" /\ KindOf[j.row] \notin Lookups -> "insert"
      [] j.op = "delete" /\ KindOf[j.row] \notin {"vendor", "currency"} -> "remove"
      [] OTHER -> "find"

Begin(s, j) ==
    /\ pc[s] = "idle"
    /\ job' = [job EXCEPT ![s] = j]
    /\ GoTo(s, FirstPoint(j))
    /\ UNCHANGED <<rows, found, todo, since>>

Check(s) ==
    /\ pc[s] = "check" /\ ~CreatesVendor(job[s])
    /\ IF Approved(job[s])
         THEN /\ GoTo(s, IF job[s].op = "create" THEN "insert" ELSE "write")
              /\ UNCHANGED request
         ELSE End(s)
    /\ UNCHANGED rows

\* An assignment of the organisation to the place that a request names.
Assigned(n, f) ==
    n[f] # Null /\ \E a \in Assignments : refs[a]["org"] = n["org"] /\ refs[a][f] = n[f]

CheckCompany(s) ==
    LET n == job[s].names IN
    /\ pc[s] = "check" /\ CreatesVendor(job[s])
    /\ IF AsksPlacement(n)
         THEN /\ found' = [found EXCEPT ![s] = Assigned(n, "company")]
              /\ GoTo(s, "checkPlant")
              /\ UNCHANGED <<job, todo, since>>
         ELSE GoTo(s, "insert") /\ UNCHANGED request
    /\ UNCHANGED rows

CheckPlant(s) ==
    /\ pc[s] = "checkPlant"
    /\ IF found[s] \/ Assigned(job[s].names, "plant")
         THEN GoTo(s, "insert") /\ UNCHANGED request
         ELSE End(s)
    /\ UNCHANGED rows

Insert(s) ==
    LET r == job[s].row
        n == job[s].names
    IN
    /\ pc[s] = "insert"
    /\ \/ /\ r \notin used /\ Resolve(n)
          /\ exists' = exists \cup {r}
          /\ used' = used \cup {r}
          /\ refs' = [refs EXCEPT ![r] = n]
          /\ Noted(r, n)
       \/ UNCHANGED <<exists, used, refs, since>>
    /\ Leave(s)
    /\ UNCHANGED <<deleted, inactive, lateWrites>>

-----------------------------------------------------------------------------
\* Updates and deletions.

\* updateVendorRating refuses a rating out of its bounds.
InBounds(j) == j.op = "rate" => j.flag

\* Fault: a deletedAt is not looked at.
FaultyFindable(r) == r \in exists
\* Only vendors have a deletedAt here.
Findable(r) == Live(r)

\* The tables that are counted before a deletion.
FaultyCounted(k) ==
    IF k = "vendor" THEN {"link", "bid", "quotation"} ELSE {"contract", "order"}
Counted(k) ==
    IF k = "vendor" THEN {"link", "bid", "quotation"}
                    ELSE {"contract", "order", "invoice"}

Find(s) ==
    LET j == job[s] IN
    /\ pc[s] = "find"
    /\ \/ /\ Findable(j.row) /\ InBounds(j)
          /\ IF j.op = "delete"
               THEN /\ todo' = [todo EXCEPT ![s] = Counted(Kind(s))]
                    /\ GoTo(s, "count")
               ELSE /\ GoTo(s, IF j.op = "update" /\ Kind(s) = "vendor" THEN "check"
                                                                      ELSE "write")
                    /\ UNCHANGED todo
          /\ UNCHANGED <<job, found, since>>
       \/ ~(Findable(j.row) /\ InBounds(j)) /\ End(s)
    /\ UNCHANGED rows

\* A write by id to a vendor; late is what it does to the history.
Late(v) == lateWrites' = IF v \in deleted THEN [lateWrites EXCEPT ![v] = @ + 1]
                                          ELSE lateWrites

\* What an update leaves: the columns it names, and the others as they are.
Merged(r, n) == [f \in Fields |-> IF n[f] # Null THEN n[f] ELSE refs[r][f]]

Write(s) ==
    LET j == job[s] IN
    /\ pc[s] = "write"
    /\ \/ /\ j.row \in exists /\ Resolve(j.names)
          /\ refs' = [refs EXCEPT ![j.row] = Merged(j.row, j.names)]
          /\ inactive' = IF j.op = "update" /\ j.flag THEN inactive \ {j.row} ELSE inactive
          /\ Noted(j.row, j.names)
          /\ Late(j.row)
       \/ UNCHANGED <<refs, inactive, since, lateWrites>>
    /\ Leave(s)
    /\ UNCHANGED <<exists, used, deleted>>

\* One of the counts of Promise.all, in any order.  A vendor with relations is
\* deleted softly, a currency in use not at all.
Count(s) ==
    LET r == job[s].row IN
    /\ pc[s] = "count"
    /\ \E k \in todo[s] :
         LET in == found[s] \/ \E x \in exists : KindOf[x] = k /\ refs[x][Kind(s)] = r IN
         IF todo[s] # {k}
           THEN /\ found' = [found EXCEPT ![s] = in]
                /\ todo' = [todo EXCEPT ![s] = @ \ {k}]
                /\ UNCHANGED <<pc, job, since>>
           ELSE \/ /\ ~in
                   /\ GoTo(s, "remove")
                   /\ todo' = [todo EXCEPT ![s] = {}]
                   /\ UNCHANGED <<job, found, since>>
                \/ /\ in /\ Kind(s) = "vendor"
                   /\ GoTo(s, "softDelete")
                   /\ todo' = [todo EXCEPT ![s] = {}]
                   /\ UNCHANGED <<job, found, since>>
                \/ in /\ Kind(s) # "vendor" /\ End(s)
    /\ UNCHANGED rows

SoftDelete(s) ==
    LET v == job[s].row IN
    /\ pc[s] = "softDelete"
    /\ \/ /\ v \in exists
          /\ deleted' = deleted \cup {v}
          /\ inactive' = inactive \cup {v}
          /\ Late(v)
       \/ UNCHANGED <<deleted, inactive, lateWrites>>
    /\ End(s)
    /\ UNCHANGED <<exists, used, refs>>

Remove(s) ==
    LET r == job[s].row IN
    /\ pc[s] = "remove"
    /\ \/ /\ r \in exists /\ ~Restricted(r)
          /\ exists' = exists \ {r}
          /\ refs' = Released(r)
          /\ deleted' = deleted \ {r}
          /\ inactive' = inactive \ {r}
       \/ UNCHANGED <<exists, refs, deleted, inactive>>
    /\ End(s)
    /\ UNCHANGED <<used, lateWrites>>

Step(s) ==
    \/ Check(s) \/ CheckCompany(s) \/ CheckPlant(s) \/ Insert(s)
    \/ Find(s) \/ Write(s) \/ Count(s) \/ SoftDelete(s) \/ Remove(s)

Next ==
    \/ \E s \in Slots, j \in Jobs : Begin(s, j)
    \/ \E s \in Slots : Step(s)

Spec == Init /\ [][Next]_vars
=============================================================================
