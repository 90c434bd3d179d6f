------------------------------- MODULE Paging -------------------------------
(***************************************************************************)
(* The loop by which migrate and EnsureAllInstancesDeployed read the       *)
(* collection at startup: batches from ListInstances, sorted by the name,  *)
(* each skipping as many documents as were returned before.  Names are not *)
(* unique and a sort leaves documents with equal names in any order, which *)
(* need not be the same for two queries.  Module Manager has both passes   *)
(* visit the stored instances one by one and says what a visit does when   *)
(* calls fail; this module says which instances are visited.               *)
(***************************************************************************)
EXTENDS Naturals, Sequences, FiniteSets

CONSTANTS
    Doc,        \* instances
    Name,       \* their names, numbers for the order of the sort
    BatchSize   \* batchSize, 100 in the code

VARIABLES
    docs,       \* the stored instances
    name,       \* Doc -> Name
    pass,       \* the pass that is running
    offset,     \* documents to skip
    batch,      \* instances, of the current pass: left to visit
    more,       \* the batch was full, so another one is to be read
    listed,     \* dbInstanceIds, the instances visited by the pass
    granted,    \* the instances permissions-v2 knows
    deployed    \* the instances that have their container

vars == <<docs, name, pass, offset, batch, more, listed, granted, deployed>>

ASSUME PagingAssumption ==
    /\ IsFiniteSet(Doc)
    /\ Name \subseteq Nat
    /\ BatchSize \in Nat \ {0}

(* The types of the variables; no document beyond the last is asked for.   *)
TypeOK ==
    /\ docs \subseteq Doc
    /\ name \in [Doc -> Name]
    /\ pass \in {"migrate", "revoke", "ensure", "done"}
    /\ offset \in 0..Cardinality(docs)
    /\ batch \in Seq(Doc)
    /\ more \in BOOLEAN
    /\ listed \in Seq(Doc)
    /\ granted \subseteq Doc
    /\ deployed \subseteq Doc

(* No container is there; one that is would be passed over by Visit.       *)
Init ==
    /\ docs \in SUBSET Doc
    /\ name \in [Doc -> Name]
    /\ pass = "migrate"
    /\ offset = 0 /\ batch = <<>> /\ more = TRUE /\ listed = <<>>
    /\ granted \in SUBSET Doc
    /\ deployed = {}

-----------------------------------------------------------------------------
(* The results the sort may give.                                          *)
SortedByName ==
    {s \in [1..Cardinality(docs) -> docs] :
        \A i, j \in DOMAIN s : i < j => s[i] # s[j] /\ name[s[i]] <= name[s[j]]}

Least(m, n) == IF m < n THEN m ELSE n

(* Faulty: a full batch is taken for the last one.                         *)
AdvanceOnce(b) == offset' = offset + Len(b) /\ more' = (Len(b) > BatchSize)

(* Faulty: the offset is beyond what was returned.                         *)
AdvanceTooFar(b) == offset' = offset + Len(b) + 1 /\ more' = (Len(b) >= BatchSize)

(* Faulty: no batch is the last one.                                       *)
AdvanceForever(b) == offset' = offset + Len(b) /\ more' = TRUE

(* Batch b was returned: the offset of the next one, and whether there is  *)
(* to be one.                                                              *)
Advance(b) == offset' = offset + Len(b) /\ more' = (Len(b) >= BatchSize)

(* ListInstances(batchSize, offset, "name", ...), which neither the empty   *)
(* search nor the missing list of ids restricts.                           *)
ReadBatch ==
    /\ pass \in {"migrate", "ensure"}
    /\ batch = <<>> /\ more
    /\ \E s \in SortedByName :
        /\ batch' = SubSeq(s, offset + 1, Least(offset + BatchSize, Len(s)))
        /\ Advance(batch')
    /\ UNCHANGED <<docs, name, pass, listed, granted, deployed>>

(* An instance of the batch is registered if it is not, or its container   *)
(* recreated if it is missing.                                             *)
Visit ==
    /\ batch # <<>>
    /\ batch' = Tail(batch)
    /\ \/ /\ pass = "migrate"
          /\ listed' = Append(listed, Head(batch))
          /\ granted' = granted \cup {Head(batch)}
          /\ UNCHANGED deployed
       \/ /\ pass = "ensure"
          /\ deployed' = deployed \cup {Head(batch)}
          /\ UNCHANGED <<listed, granted>>
    /\ UNCHANGED <<docs, name, pass, offset, more>>

(* migrate has read everything.                                            *)
MigrateListed ==
    /\ pass = "migrate" /\ batch = <<>> /\ ~more
    /\ pass' = "revoke"
    /\ UNCHANGED <<docs, name, offset, batch, more, listed, granted, deployed>>

(* What permissions-v2 knows and migrate has not seen is removed.          *)
MigrateRevoke ==
    /\ pass = "revoke"
    /\ granted' = {d \in granted : \E i \in DOMAIN listed : listed[i] = d}
    /\ pass' = "ensure"
    /\ offset' = 0 /\ more' = TRUE /\ listed' = <<>>
    /\ UNCHANGED <<docs, name, batch, deployed>>

EnsureDone ==
    /\ pass = "ensure" /\ batch = <<>> /\ ~more
    /\ pass' = "done"
    /\ UNCHANGED <<docs, name, offset, batch, more, listed, granted, deployed>>

Next == ReadBatch \/ Visit \/ MigrateListed \/ MigrateRevoke \/ EnsureDone

(* Startup goes on: the services answer.                                   *)
Spec == Init /\ [][Next]_vars /\ WF_vars(Next)

-----------------------------------------------------------------------------
(* Properties.                                                             *)

CountNamed(s, n) == Cardinality({i \in DOMAIN s : name[s[i]] = n})

(* Whatever the sort does with equal names, migrate ends up with as many   *)
(* entries of each name as there are documents of that name: an instance   *)
(* is missed only for another one with its name that is visited twice.     *)
NamesComplete ==
    pass = "revoke" =>
        \A n \in Name :
            CountNamed(listed, n) = Cardinality({d \in docs : name[d] = n})

(* No other stored instance has d's name.                                  *)
OwnName(d) == \A e \in docs \ {d} : name[e] # name[d]

(* An instance with a name of its own never loses its registration.        *)
OwnNameKeepsGrant ==
    [][\A d \in docs \cap granted : OwnName(d) => d \in granted']_vars

(* After startup each stored instance with a name of its own is registered *)
(* and has its container, for every number of instances, a multiple of the *)
(* batch size included.                                                    *)
OwnNameServed ==
    pass = "done" =>
        \A d \in docs : OwnName(d) => d \in granted /\ d \in deployed

(* The loops end.                                                          *)
StartupEnds == <>(pass = "done")

(* Startup restores every missing container.                               *)
AllRestored == pass = "done" => docs \subseteq deployed

=============================================================================
