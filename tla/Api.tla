-------------------------------- MODULE Api --------------------------------
(***************************************************************************)
(* What the HTTP API tells its clients: the requests of pkg/api/           *)
(* instances.go one after the other, each with its status code and the     *)
(* state it leaves, whichever of its calls fails.  Here one client posts   *)
(* the same instance until it is told 200, and batches are deleted.  How   *)
(* requests interleave is the subject of module Manager.                   *)
(***************************************************************************)
EXTENDS FiniteSets, Sequences, Naturals

CONSTANTS
    Id,           \* ids of instances
    MaxBatch,     \* bound on the length of a batch delete
    MaxRequests,  \* bound on requests
    MaxFaults     \* bound on failed calls and lost answers

VARIABLES
    docs,         \* the ids with a document
    ctr,          \* the ids with a container
    granted,      \* the ids the clients have access to
    unused,       \* the ids not generated so far
    posted,       \* the ids generated for the client's instance
    told,         \* the client was told 200
    answer,       \* the latest: operation, ids and status code
    requests, faults

stores == <<docs, ctr, granted>>
client == <<unused, posted, told>>
vars == <<stores, client, answer, requests, faults>>

(* What the theorems assume: the id in a path is a batch of one.           *)
Constants == MaxBatch \in Nat \ {0} /\ MaxRequests \in Nat /\ MaxFaults \in Nat

Batch == UNION {[1 .. n -> Id] : n \in 0 .. MaxBatch}

(* Every variable has its type, and ids are generated once.                *)
TypeOK ==
    /\ docs \subseteq Id /\ ctr \subseteq Id /\ granted \subseteq Id
    /\ (docs \cup ctr) \cap unused = {} /\ posted \cap unused = {}
    /\ told \in BOOLEAN
    /\ answer \in [op : {"none", "post", "get", "put", "delete"}, ids : Batch,
                   code : {0, 200, 204, 400, 403, 404, 500}]
    /\ requests \in 0 .. MaxRequests /\ faults \in 0 .. MaxFaults

Init ==
    /\ docs \in SUBSET Id /\ ctr = docs /\ granted = docs
    /\ unused = Id \ docs
    /\ posted = {} /\ told = FALSE
    /\ answer = [op |-> "none", ids |-> <<>>, code |-> 0]
    /\ requests = 0 /\ faults = 0

-----------------------------------------------------------------------------
Fault == faults < MaxFaults /\ faults' = faults + 1

NoFault == UNCHANGED faults

Answered(op, ids, code) ==
    /\ requests < MaxRequests /\ requests' = requests + 1
    /\ answer' = [op |-> op, ids |-> ids, code |-> code]

Refused(op, ids, codes) ==
    /\ \E code \in codes : Answered(op, ids, code)
    /\ UNCHANGED <<stores, client>>

(* A query fails.                                                          *)
Unavailable(op, ids, code) == Fault /\ Refused(op, ids, {code})

(* A document may have been stored although its store failed.              *)
MayAdd(i) == docs' \in {docs, docs \cup {i}}

-----------------------------------------------------------------------------
(* An id in the body, or a filter the user may not read.                   *)
PostRefused == NoFault /\ Refused("post", <<>>, {400, 403, 404, 500})

Generated(i) ==
    /\ ~told
    /\ i \in unused /\ unused' = unused \ {i}
    /\ posted' = posted \cup {i}
    /\ UNCHANGED granted

(* CreateInstance.  The grant is for another id (module Manager).  When it *)
(* takes longer than WriteTimeout the client never sees the answer.        *)
Post(i) ==
    /\ Generated(i)
    /\ ctr' = ctr \cup {i} /\ docs' = docs \cup {i}
    /\ Answered("post", <<i>>, 200)
    /\ \/ told' = TRUE /\ NoFault
       \/ Fault /\ UNCHANGED told

PostFails(i) ==
    /\ Fault
    /\ Generated(i) /\ UNCHANGED told
    /\ \/ UNCHANGED docs /\ ctr' \in {ctr, ctr \cup {i}}
       \/ ctr' = ctr \cup {i} /\ MayAdd(i)
    /\ Answered("post", <<i>>, 500)

-----------------------------------------------------------------------------
Allowed(ids) == \A k \in DOMAIN ids : ids[k] \in granted

(* Without access an instance is not found; the permissions service may    *)
(* not answer.                                                             *)
NoAccess(op, ids) ==
    \/ ~Allowed(ids) /\ NoFault /\ Refused(op, ids, {404})
    \/ Unavailable(op, ids, 500)

(* GetInstance: `exists` is looked at before the error, so a query that    *)
(* fails is answered like one that finds nothing.  A document that cannot  *)
(* be decoded is the case for 500.                                         *)
Get(i) ==
    /\ Allowed(<<i>>)
    /\ \/ i \in docs /\ NoFault /\ Refused("get", <<i>>, {200})
       \/ i \notin docs /\ NoFault /\ Refused("get", <<i>>, {404})
       \/ Unavailable("get", <<i>>, 404)
       \/ i \in docs /\ Unavailable("get", <<i>>, 500)

(* The ids of path and body differ, or the configuration is refused.       *)
PutRefused(i) == NoFault /\ Refused("put", <<i>>, {400, 403, 404, 500})

PutNotFound(i) ==
    /\ Allowed(<<i>>)
    /\ \/ i \notin docs /\ NoFault /\ Refused("put", <<i>>, {404})
       \/ Unavailable("put", <<i>>, 404)

(* SetInstance.  A container that is gone is an error of UpdateContainer.  *)
Put(i) ==
    /\ Allowed(<<i>>)
    /\ UNCHANGED <<granted, docs, client>>
    /\ i \in docs
    /\ \/ /\ i \in ctr /\ NoFault /\ UNCHANGED ctr
          /\ Answered("put", <<i>>, 200)
       \/ /\ i \in ctr /\ Fault /\ ctr' \in {ctr, ctr \ {i}}
          /\ Answered("put", <<i>>, 500)
       \/ /\ i \notin ctr /\ NoFault /\ UNCHANGED ctr
          /\ Answered("put", <<i>>, 500)

-----------------------------------------------------------------------------
Asked(ids) == {ids[k] : k \in DOMAIN ids}

Found(ids) == Asked(ids) \cap docs

(* GetInstances counts its results, one for an id however often it is      *)
(* asked for.                                                              *)
AllExist(ids) == Cardinality(Found(ids)) = Len(ids)

(* Faulty: existence is checked for one id after the other, in the loop.   *)
DeleteUntilNotFound(ids) ==
    /\ Allowed(ids) /\ ~AllExist(ids)
    /\ docs' = docs \ Found(ids) /\ ctr' = ctr \ Found(ids)
    /\ Answered("delete", ids, 404)
    /\ UNCHANGED <<granted, client>> /\ NoFault

(* As for the others, a query that fails finds nothing.                    *)
DeleteNotFound(ids) ==
    /\ Allowed(ids)
    /\ \/ ~AllExist(ids) /\ NoFault /\ Refused("delete", ids, {404})
       \/ Unavailable("delete", ids, 404)

(* RemoveResource may fail unnoticed.                                      *)
Delete(ids) ==
    /\ Allowed(ids) /\ AllExist(ids) /\ Found(ids) \subseteq ctr
    /\ docs' = docs \ Found(ids) /\ ctr' = ctr \ Found(ids)
    /\ \/ granted' = granted \ Found(ids) /\ NoFault
       \/ Fault /\ \E kept \in SUBSET Found(ids) :
                      granted' = (granted \ Found(ids)) \cup kept
    /\ Answered("delete", ids, 204)
    /\ UNCHANGED client

(* The loop stops at the first error, wherever the database's order led:   *)
(* some instances are gone, one may have lost its container or its         *)
(* document, the others are as they were.                                  *)
DeleteFails(ids) ==
    /\ Allowed(ids) /\ AllExist(ids)
    /\ \E done \in SUBSET (Found(ids) \cap ctr) : \E i \in Found(ids) \ done :
          /\ granted' = granted \ done
          /\ \/ i \notin ctr /\ NoFault /\ docs' = docs \ done /\ ctr' = ctr \ done
             \/ /\ i \in ctr /\ Fault
                /\ ctr' \in {ctr \ done, ctr \ (done \cup {i})}
                /\ \/ docs' = docs \ done
                   \/ i \notin ctr' /\ docs' = docs \ (done \cup {i})
    /\ Answered("delete", ids, 500)
    /\ UNCHANGED client

(* A restart: migrate grants and revokes, EnsureAllInstancesDeployed       *)
(* restores containers.                                                    *)
Restart ==
    /\ granted' = docs /\ ctr' = ctr \cup docs
    /\ answer' = [op |-> "none", ids |-> <<>>, code |-> 0]
    /\ Fault
    /\ UNCHANGED <<docs, client, requests>>

-----------------------------------------------------------------------------
Next ==
    \/ PostRefused
    \/ \E i \in Id :
          \/ Post(i) \/ PostFails(i)
          \/ NoAccess("get", <<i>>) \/ Get(i)
          \/ NoAccess("put", <<i>>) \/ PutRefused(i) \/ PutNotFound(i) \/ Put(i)
    \/ \E ids \in Batch :
          \/ NoAccess("delete", ids) \/ DeleteNotFound(ids)
          \/ Delete(ids) \/ DeleteFails(ids)
    \/ Restart

Spec == Init /\ [][Next]_vars

-----------------------------------------------------------------------------
(* The client that repeats its POST, having seen no answer or an error,    *)
(* ends up with one instance and one more for each fault: nothing tells    *)
(* the server that it is the same one.                                     *)
CopiesBounded == Cardinality(posted \cap docs) <= 1 + faults

(* 204 counts: each entry of the batch is an instance that was removed,    *)
(* with its container.                                                     *)
DeleteExact ==
    [][(answer'.op = "delete" /\ answer'.code = 204 /\ requests' # requests) =>
          /\ Cardinality(docs \ docs') = Len(answer'.ids)
          /\ Cardinality(ctr \ ctr') = Len(answer'.ids)]_vars

(* A request that is refused has changed nothing.                          *)
RefusedUnchanged ==
    [][(requests' # requests /\ answer'.code \in 400 .. 499) => UNCHANGED stores]_vars

=============================================================================
