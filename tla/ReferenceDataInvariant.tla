------------------------ MODULE ReferenceDataInvariant ------------------------
(***************************************************************************)
(* The inductive invariant of ReferenceData: what each request found, kept *)
(* until it acts on it, and the foreign keys that make a deletion safe.    *)
(***************************************************************************)
EXTENDS ReferenceDataProperties

\* The program points of each method.
PointsMatchJobs ==
    \A s \in Slots :
        /\ pc[s] # "idle" => job[s] \in Jobs
        /\ pc[s] = "checkPlant" => CreatesVendor(job[s])
        /\ pc[s] = "insert" => job[s].op = "create"
        /\ pc[s] = "check" => \/ job[s].op = "create" /\ Kind(s) \in Lookups
                              \/ job[s].op = "update" /\ Kind(s) = "vendor"
        /\ pc[s] = "find" /\ job[s].op = "delete" => Kind(s) \in {"vendor", "currency"}
        /\ pc[s] = "find" => job[s].op # "create"
        /\ pc[s] = "write" => job[s].op \in {"update", "rate"}
        /\ pc[s] \in {"count", "softDelete", "remove"} => job[s].op = "delete"
        /\ pc[s] = "count" => Kind(s) \in {"vendor", "currency"}
        /\ pc[s] = "softDelete" => Kind(s) = "vendor"

\* Every column names a row that is there, and a row that is gone names nothing.
NoDangling ==
    \A x \in Rows, f \in Fields :
        /\ refs[x][f] \in exists \cup {Null}
        /\ x \notin exists => refs[x][f] = Null

\* A row that never was has not been written.
NewRowsUnwritten == \A r \in Rows \ used : lateWrites[r] = 0

\* An assignment has a company code or a plant, never both, also after one of
\* them is gone; and none is about to be inserted with both.
OnePlaceEach ==
    /\ \A a \in Assignments : refs[a]["company"] = Null \/ refs[a]["plant"] = Null
    /\ \A s \in Slots : pc[s] = "insert" /\ Kind(s) = "assignment" => OnePlace(job[s].names)

\* What a deletion of a currency has counted so far, and not found, is at most
\* what came since.
CountsKept ==
    \A s \in Slots : pc[s] = "count" /\ Kind(s) = "currency" /\ ~found[s] =>
        \A x \in exists :
            /\ KindOf[x] \in Counted("currency") \ todo[s]
            /\ refs[x]["currency"] = job[s].row
            => x \in since[s]

ReferenceDataInv ==
    /\ TypeOK
    /\ PointsMatchJobs
    /\ NoDangling
    /\ NewRowsUnwritten
    /\ OnePlaceEach
    /\ CountsKept
    /\ CurrenciesKept
    /\ DeletedVendorsSettle
    /\ BothPlacesRefused
=============================================================================
