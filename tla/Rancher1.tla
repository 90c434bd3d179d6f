------------------------------ MODULE Rancher1 ------------------------------
(***************************************************************************)
(* The manager on Rancher 1 (pkg/deploy/rancher-api with the calls of      *)
(* pkg/controller on it).  A service is addressed by an id that rancher    *)
(* gives it.  Its name is unique only while it exists, and an update takes *)
(* a new one, with a random suffix: unlike on a docker daemon the name is  *)
(* no lock on the instance, only the id is.  Requests are those that       *)
(* passed the checks before the first call on rancher (module Manager).    *)
(***************************************************************************)
EXTENDS Naturals, FiniteSets

CONSTANTS
    Handler,      \* goroutines serving requests
    Uuid,         \* the values uuid.GenerateUUID may return
    Cfg,          \* what determines the environment of a container
    MaxSuffix,    \* the random suffixes are 1 .. MaxSuffix, 0 stands for none
    MaxRequests,  \* bound on requests
    MaxFaults,    \* bound on failed calls, crashes and lost services
    NoRecord, NoRequest

VARIABLES
    db,           \* Uuid -> its document, or NoRecord
    fresh,        \* the UUIDs not generated so far
    services,     \* the services in the stack
    nextId,       \* the id rancher gives the next service
    req,          \* Handler -> its request, or NoRequest
    phase,        \* of the process
    pending,      \* documents EnsureAllInstancesDeployed has not visited
    lost,         \* history: ids of services removed by others since startup
    requests, faults

platform == <<services, nextId>>
process == <<phase, pending, lost>>
vars == <<db, fresh, platform, req, process, requests, faults>>

Document == [service : Nat, cfg : Cfg]

Service == [id : Nat, uuid : Uuid, suffix : 0 .. MaxSuffix, cfg : Cfg]

Request == [pc : {"create", "remove", "replace", "store", "drop", "forget"},
            uuid : Uuid, service : Nat, cfg : Cfg]

(* What the theorems assume of the constants.                              *)
Constants ==
    /\ MaxSuffix \in Nat /\ MaxFaults \in Nat
    /\ NoRecord \notin Document /\ NoRequest \notin Request

(* Every variable has its type, and an id is that of one service.          *)
TypeOK ==
    /\ db \in [Uuid -> Document \cup {NoRecord}]
    /\ services \subseteq Service
    /\ \A s, t \in services : s.id = t.id => s = t
    /\ \A s \in services : s.id < nextId
    /\ req \in [Handler -> Request \cup {NoRequest}]
    /\ phase \in {"down", "check", "ensure", "up"}
    /\ pending \subseteq {i \in Uuid : db[i] # NoRecord}

Init ==
    /\ db = [i \in Uuid |-> NoRecord]
    /\ fresh = Uuid
    /\ services = {}
    /\ nextId = 1
    /\ req = [h \in Handler |-> NoRequest]
    /\ phase = "up" /\ pending = {} /\ lost = {}
    /\ requests = 0 /\ faults = 0

-----------------------------------------------------------------------------
(* The calls on rancher.                                                   *)

Fault == faults < MaxFaults /\ faults' = faults + 1

Stored == {i \in Uuid : db[i] # NoRecord}

Exists(id) == \E s \in services : s.id = id

Taken(i, x) == \E s \in services : s.uuid = i /\ s.suffix = x

Posted(i, x, c) ==
    /\ ~Taken(i, x)
    /\ services' = services \cup
           {[id |-> nextId, uuid |-> i, suffix |-> x, cfg |-> c]}
    /\ nextId' = nextId + 1

(* The request fails, and may have had its effect: an unexpected status,   *)
(* an unreadable body, or no response, whose status code createContainer   *)
(* reads all the same and panics.                                          *)
PostFails(i, x, c) == Fault /\ (Posted(i, x, c) \/ UNCHANGED platform)

Deleted(id) ==
    /\ Exists(id)
    /\ services' = {s \in services : s.id # id}
    /\ UNCHANGED nextId

DeleteFails(id) ==
    \/ ~Exists(id) /\ UNCHANGED <<platform, faults>>
    \/ Fault /\ (Deleted(id) \/ UNCHANGED platform)

-----------------------------------------------------------------------------
(* The request handlers.                                                   *)

At(h, pc) == phase = "up" /\ req[h] # NoRequest /\ req[h].pc = pc

Goto(h, pc) == req' = [req EXCEPT ![h].pc = pc]

Ends(h) == req' = [req EXCEPT ![h] = NoRequest]

Begin(h, pc, i, c) ==
    /\ phase = "up" /\ req[h] = NoRequest
    /\ requests < MaxRequests /\ requests' = requests + 1
    /\ req' = [req EXCEPT ![h] =
           [pc |-> pc, uuid |-> i, cfg |-> c,
            service |-> IF db[i] = NoRecord THEN 0 ELSE db[i].service]]
    /\ UNCHANGED <<db, platform, process, faults>>

(* POST /instances takes a new UUID; PUT and DELETE read the document.     *)
BeginRequest(h) ==
    \/ \E i \in fresh, c \in Cfg : Begin(h, "create", i, c) /\ fresh' = fresh \ {i}
    \/ \E i \in Stored, c \in Cfg : Begin(h, "remove", i, c) /\ UNCHANGED fresh
    \/ \E i \in Stored : Begin(h, "drop", i, db[i].cfg) /\ UNCHANGED fresh

ToStore(h) ==
    /\ req' = [req EXCEPT ![h].pc = "store", ![h].service = nextId]
    /\ UNCHANGED faults

Create(h) ==
    /\ At(h, "create")
    /\ UNCHANGED <<db, fresh, process, requests>>
    /\ LET r == req[h] IN
       \/ Posted(r.uuid, 0, r.cfg) /\ ToStore(h)
       \/ Taken(r.uuid, 0) /\ UNCHANGED <<platform, faults>> /\ Ends(h)
       \/ PostFails(r.uuid, 0, r.cfg) /\ Ends(h)

(* Faulty: removing what is not there is no error.                         *)
RemoveIfAny(h) ==
    /\ At(h, "remove")
    /\ UNCHANGED <<db, fresh, process, requests, faults>>
    /\ services' = {s \in services : s.id # req[h].service}
    /\ Goto(h, "replace") /\ UNCHANGED nextId

(* UpdateContainer: RemoveContainer by the id the handler has read.        *)
Remove(h) ==
    /\ At(h, "remove")
    /\ UNCHANGED <<db, fresh, process, requests>>
    /\ \/ Deleted(req[h].service) /\ Goto(h, "replace") /\ UNCHANGED faults
       \/ DeleteFails(req[h].service) /\ Ends(h)

(* Then a service with a random suffix.  A name that is taken is an error  *)
(* of createContainer, so the loop never tries another.                    *)
Replace(h) ==
    /\ At(h, "replace")
    /\ UNCHANGED <<db, fresh, process, requests>>
    /\ LET r == req[h] IN
       \E x \in 1 .. MaxSuffix :
          \/ Posted(r.uuid, x, r.cfg) /\ ToStore(h)
          \/ Taken(r.uuid, x) /\ UNCHANGED <<platform, faults>> /\ Ends(h)
          \/ PostFails(r.uuid, x, r.cfg) /\ Ends(h)

(* SetInstance, an upsert.                                                 *)
Store(h) ==
    /\ At(h, "store")
    /\ Ends(h)
    /\ LET stored == db' = [db EXCEPT ![req[h].uuid] =
                               [service |-> req[h].service, cfg |-> req[h].cfg]]
       IN  \/ stored /\ UNCHANGED faults
           \/ Fault /\ (stored \/ UNCHANGED db)
    /\ UNCHANGED <<fresh, platform, process, requests>>

(* DELETE: RemoveContainer, then the document.                             *)
Drop(h) ==
    /\ At(h, "drop")
    /\ UNCHANGED <<db, fresh, process, requests>>
    /\ \/ Deleted(req[h].service) /\ Goto(h, "forget") /\ UNCHANGED faults
       \/ DeleteFails(req[h].service) /\ Ends(h)

Forget(h) ==
    /\ At(h, "forget")
    /\ Ends(h)
    /\ LET removed == db' = [db EXCEPT ![req[h].uuid] = NoRecord]
       IN  \/ removed /\ UNCHANGED faults
           \/ Fault /\ (removed \/ UNCHANGED db)
    /\ UNCHANGED <<fresh, platform, process, requests>>

-----------------------------------------------------------------------------
(* The process and its startup.                                            *)

Crash ==
    /\ phase # "down" /\ Fault
    /\ phase' = "down" /\ pending' = {}
    /\ req' = [h \in Handler |-> NoRequest]
    /\ UNCHANGED <<db, fresh, platform, lost, requests>>

Restart ==
    /\ phase = "down" /\ phase' = "check"
    /\ lost' = {}
    /\ UNCHANGED <<db, fresh, platform, req, pending, requests, faults>>

(* New: no client, and no process, without an answer of 200.               *)
SelfCheck ==
    /\ phase = "check"
    /\ \/ phase' = "ensure" /\ pending' = Stored /\ UNCHANGED faults
       \/ phase' = "down" /\ Fault /\ UNCHANGED pending
    /\ UNCHANGED <<db, fresh, platform, lost, req, requests>>

Aborted == phase' = "down" /\ pending' = {}

Visited(i) == pending' = pending \ {i} /\ UNCHANGED phase

(* A service that is not there is made again under the plain name and the  *)
(* document stored with its id.  Any error ends the process.               *)
Ensure(i) ==
    /\ phase = "ensure" /\ i \in pending /\ ~Exists(db[i].service)
    /\ LET stored == db' = [db EXCEPT ![i].service = nextId]
       IN  \/ /\ Posted(i, 0, db[i].cfg)
              /\ \/ stored /\ Visited(i) /\ UNCHANGED faults
                 \/ Fault /\ Aborted /\ (stored \/ UNCHANGED db)
           \/ Taken(i, 0) /\ Aborted /\ UNCHANGED <<db, platform, faults>>
           \/ Fault /\ Aborted /\ UNCHANGED <<db, platform>>
    /\ UNCHANGED <<fresh, lost, req, requests>>

StillExists(i) ==
    /\ phase = "ensure" /\ i \in pending
    /\ \/ Exists(db[i].service) /\ Visited(i) /\ UNCHANGED faults
       \/ Fault /\ Aborted
    /\ UNCHANGED <<db, fresh, platform, lost, req, requests>>

Serve ==
    /\ phase = "ensure" /\ pending = {} /\ phase' = "up"
    /\ UNCHANGED <<db, fresh, platform, pending, lost, req, requests, faults>>

(* A service is removed by somebody else.                                  *)
Lost(s) ==
    /\ Fault
    /\ services' = services \ {s} /\ lost' = lost \cup {s.id}
    /\ UNCHANGED <<db, fresh, nextId, phase, pending, req, requests>>

Next ==
    \/ \E h \in Handler :
          \/ BeginRequest(h) \/ Create(h) \/ Remove(h) \/ Replace(h) \/ Store(h)
          \/ Drop(h) \/ Forget(h)
    \/ Crash \/ Restart \/ SelfCheck \/ Serve
    \/ \E i \in Uuid : Ensure(i) \/ StillExists(i)
    \/ \E s \in services : Lost(s)

Spec == Init /\ [][Next]_vars

-----------------------------------------------------------------------------
Of(i) == {s \in services : s.uuid = i}

(* Requests that meet never leave an instance with two services, though no *)
(* name stops them: for each service too many a call failed, the process   *)
(* crashed or a service was lost.                                          *)
ExtraOnlyByFault == \A i \in Uuid : Cardinality(Of(i)) <= 1 + faults

(* Without faults documents and services agree whenever no request is      *)
(* under way.                                                              *)
FaultFreeAgreement ==
    (faults = 0 /\ \A h \in Handler : req[h] = NoRequest) =>
        /\ \A i \in Stored : \E s \in Of(i) : Of(i) = {s} /\ s.id = db[i].service
                                                /\ s.cfg = db[i].cfg
        /\ \A s \in services : s.uuid \in Stored

(* Each document that startup is done with, so all when serving begins,    *)
(* names a service, but for those that others removed since the restart.   *)
AllDeployed ==
    phase = "ensure" =>
        \A i \in Stored \ pending : Exists(db[i].service) \/ db[i].service \in lost

(* Although no name is a lock, a service too many takes a fault, without   *)
(* one documents and services agree between requests, and startup leaves   *)
(* no document without its service.                                        *)
Rancher1Agrees == TypeOK /\ ExtraOnlyByFault /\ FaultFreeAgreement /\ AllDeployed

=============================================================================
