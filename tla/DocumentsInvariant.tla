-------------------------- MODULE DocumentsInvariant -------------------------
(***************************************************************************)
(* The inductive invariant of Documents.  What a request decided on what   *)
(* it read is kept as history: a base it has checked was once granted, the *)
(* contract it is about to move had a status it may come from.             *)
(***************************************************************************)
EXTENDS DocumentsProperties

Granted(d) == visited[d] \cap GrantedBy(Kind[d]) # {}

\* What a document of kind k may rest on.
Sound(k, b) ==
    /\ Exists(b)
    /\ k = "pr" /\ Kind[b] = "contract" => Granted(b)
    /\ k = "order" /\ Kind[b] = "pr" => Granted(b)
    /\ k = "invoice" /\ Kind[b] = "order" => Granted(b)

\* The program points of each endpoint.
PointsMatchJobs ==
    \A s \in Slots :
        /\ pc[s] # "idle" => job[s] \in Jobs
        /\ pc[s] \in {"readpr", "check", "insert"} => job[s].op \in Creates
        /\ pc[s] = "readpr" => job[s].op = "fromPR"
        /\ pc[s] \in {"vendors", "emit", "announce"} => target[s] \in Docs
        /\ pc[s] \in {"read", "write"} =>
             job[s].op \notin Creates /\ target[s] = job[s].doc
        /\ pc[s] \in {"write", "vendors"} => Exists(target[s])

\* The history of a row holds its status.
HistoryKept ==
    \A d \in Docs :
         /\ {status[d]} \cap Remembered(Kind[d]) \subseteq visited[d]
         /\ visited[d] \subseteq Remembered(Kind[d])
         /\ ~Exists(d) => visited[d] = {} /\ d \notin gone

\* The documents a create has checked, and those that rows name.
BasesSound ==
    /\ \A s \in Slots :
         pc[s] \in {"check", "insert"} =>
             /\ \A b \in on[s] \ left[s] : Sound(job[s].kind, b)
             /\ pc[s] = "insert" => left[s] = {}
    /\ \A d \in Docs : \A b \in rests[d] : Sound(Kind[d], b)

\* The contract about to be moved had a status the move may come from.
MovesSound ==
    \A s \in Slots :
        pc[s] = "write" /\ job[s].kind = "contract" /\ job[s].op = "update"
          /\ job[s].to # Keep
        => \E from \in visited[target[s]] : ContractTransition(from, job[s].to)

\* An approved payment was not processed yet.
ApprovedUnsettled ==
    \A d \in Docs : Kind[d] = "payment" =>
        /\ status[d] = "APPROVED" => settled[d] = 0
        /\ \A s \in Processing(d) : "APPROVED" \in visited[d]

DocumentsInv ==
    /\ TypeOK
    /\ PointsMatchJobs
    /\ HistoryKept
    /\ BasesSound
    /\ MovesSound
    /\ ApprovedUnsettled
    /\ DeletedSettles
    /\ SettlementsBounded
    /\ ContractPath
=============================================================================
