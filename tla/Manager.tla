------------------------------- MODULE Manager -------------------------------
(***************************************************************************)
(* The controller of the kafka2mqtt manager (pkg/controller): the request  *)
(* handlers CreateInstance, SetInstance and DeleteInstances, each run by   *)
(* the goroutine net/http gives its request, and the two passes of startup *)
(* (migrate and EnsureAllInstancesDeployed) that run before the API does.  *)
(* The controller holds no lock: handlers meet only in the three services  *)
(* of module Platform, so a handler is a sequence of steps, one for each   *)
(* call that changes a service or reads what another handler may change.   *)
(* A crash may come between any two of them.                               *)
(***************************************************************************)
EXTENDS Platform

CONSTANTS
    Handler,        \* goroutines serving requests
    EnsureDeployed, \* conf.StartupEnsureDeployed
    MaxRequests,    \* bound on the requests served
    Tied,           \* instances whose name is not theirs alone
    NoInst          \* no instance in hand

VARIABLES
    phase,     \* what the process is doing
    scan,      \* startup: the stored instances still to be visited
    stale,     \* startup: the permission resources still to be removed
    cur,       \* startup: the instance just redeployed
    used,      \* the UUIDs generated so far
    requests,  \* number of requests so far
    pc,        \* Handler -> the next call of the handler
    inst,      \* Handler -> the instance the handler is working on
    instance,  \* Handler -> its local model.Instance
    seen,      \* Handler -> the documents it has read, by UUID
    batch      \* Handler -> DeleteInstances: the instances left to delete

startVars == <<scan, stale, cur>>
localVars == <<pc, inst, instance, seen, batch>>
vars == <<platformVars, faults, phase, startVars, used, requests, localVars>>

Starting == {"grant", "revoke", "ensure", "ensure_store"}
Phase == {"down", "serving"} \cup Starting
Pc == {"idle",
       "create_deploy", "create_store", "create_permit",
       "set_read", "set_remove", "set_deploy", "set_store",
       "delete_read", "delete_remove", "delete_store", "delete_permit"}

ASSUME ManagerAssumption ==
    /\ EnsureDeployed \in BOOLEAN
    /\ MaxRequests \in Nat
    /\ Tied \subseteq Uuid
    /\ NoInst \notin Uuid

ProcessTypeOK ==
    /\ phase \in Phase
    /\ scan \in SUBSET Uuid
    /\ stale \in SUBSET Resource
    /\ cur \in Uuid \cup {NoInst}
    /\ used \in SUBSET Uuid
    /\ requests \in Nat

LocalsTypeOK ==
    /\ pc \in [Handler -> Pc]
    /\ inst \in [Handler -> Uuid \cup {NoInst}]
    /\ instance \in [Handler -> Instance \cup {NoRecord}]
    /\ seen \in [Handler -> [Uuid -> Instance \cup {NoRecord}]]
    /\ batch \in [Handler -> SUBSET Uuid]

(* The types of the services' state, the process's and the handlers'.      *)
TypeOK == PlatformTypeOK /\ ProcessTypeOK /\ LocalsTypeOK

NothingSeen == [i \in Uuid |-> NoRecord]

Init ==
    /\ PlatformInit
    /\ phase = "down"
    /\ scan = {} /\ stale = {} /\ cur = NoInst
    /\ used = {}
    /\ requests = 0
    /\ pc = [h \in Handler |-> "idle"]
    /\ inst = [h \in Handler |-> NoInst]
    /\ instance = [h \in Handler |-> NoRecord]
    /\ seen = [h \in Handler |-> NothingSeen]
    /\ batch = [h \in Handler |-> {}]

-----------------------------------------------------------------------------
(* Control shared by the handlers.                                         *)

Goto(h, l) == pc' = [pc EXCEPT ![h] = l]

(* The handler returns; its locals are gone.                               *)
Return(h) ==
    /\ Goto(h, "idle")
    /\ inst' = [inst EXCEPT ![h] = NoInst]
    /\ instance' = [instance EXCEPT ![h] = NoRecord]
    /\ seen' = [seen EXCEPT ![h] = NothingSeen]
    /\ batch' = [batch EXCEPT ![h] = {}]

(* A step of a running handler starts here.                                *)
At(h, l) ==
    /\ pc[h] = l
    /\ UNCHANGED <<phase, startVars, used, requests>>

Accept(h) ==
    /\ phase = "serving"
    /\ pc[h] = "idle"
    /\ requests < MaxRequests
    /\ requests' = requests + 1
    /\ NoFault
    /\ UNCHANGED <<platformVars, phase, startVars>>

-----------------------------------------------------------------------------
(* POST /instances.                                                        *)

(* An explicit id is refused at once, and what getEnv refuses or the        *)
(* verifier does not find as soon as the new id is generated.              *)
CreateBegin(h) ==
    /\ Accept(h)
    /\ \/ UNCHANGED <<used, localVars>>
       \/ \E i \in Uuid \ used, u \in User, c \in Cfg :
            /\ used' = used \cup {i}
            /\ \/ UNCHANGED localVars
               \/ /\ Goto(h, "create_deploy")
                  /\ inst' = [inst EXCEPT ![h] = i]
                  /\ instance' = [instance EXCEPT ![h] =
                                    [owner |-> u, service |-> 0, cfg |-> c]]
                  /\ UNCHANGED <<seen, batch>>

(* Faulty: the environment of the stored configuration is deployed.        *)
DeployStoredAndGoto(h, l) ==
    LET c == IF db[inst[h]] = NoRecord THEN instance[h].cfg ELSE db[inst[h]].cfg IN
    /\ CreateContainer(inst[h], c)
    /\ Goto(h, l)
    /\ instance' = [instance EXCEPT ![h].service = NewId(inst[h])]
    /\ NoFault
    /\ UNCHANGED <<inst, seen, batch>>

(* instance.ServiceId, err = CreateContainer(...), for POST and PUT alike. *)
DeployAndGoto(h, l) ==
    \/ /\ CreateContainer(inst[h], instance[h].cfg)
       /\ Goto(h, l)
       /\ instance' = [instance EXCEPT ![h].service = NewId(inst[h])]
       /\ NoFault
       /\ UNCHANGED <<inst, seen, batch>>
    \/ /\ CreateContainerFails(inst[h], instance[h].cfg)
       /\ Return(h)

CreateDeploy(h) ==
    /\ At(h, "create_deploy")
    /\ DeployAndGoto(h, "create_store")
    /\ UNCHANGED <<db, gone, perms>>

CreateStore(h) ==
    /\ At(h, "create_store")
    /\ \/ /\ Upsert(inst[h], instance[h])
          /\ Goto(h, "create_permit")
          /\ NoFault
          /\ UNCHANGED <<inst, instance, seen, batch>>
       \/ /\ SetInstanceFails(inst[h], instance[h])
          /\ Return(h)
    /\ UNCHANGED <<ctr, gen, perms>>

(* The resource is registered under the bare id, and an error of the call  *)
(* is not looked at.                                                       *)
CreatePermit(h) ==
    /\ At(h, "create_permit")
    /\ \/ SetPermission(RawId(inst[h]), instance[h].owner) /\ NoFault
       \/ Fault /\ UNCHANGED perms
    /\ Return(h)
    /\ UNCHANGED <<db, gone, ctr, gen>>

-----------------------------------------------------------------------------
(* PUT /instances/:id.                                                     *)

(* CheckPermission.  Refused or not answered, the request ends here.       *)
SetBegin(h) ==
    /\ Accept(h)
    /\ \E u \in User, i \in Uuid, c \in Cfg :
        \/ UNCHANGED localVars
        \/ /\ TRUE \in CheckPermission(u, FullId(i))
           /\ Goto(h, "set_read")
           /\ inst' = [inst EXCEPT ![h] = i]
           /\ instance' = [instance EXCEPT ![h] =
                             [owner |-> Nobody, service |-> 0, cfg |-> c]]
           /\ UNCHANGED <<seen, batch>>
    /\ UNCHANGED used

(* Faulty: no return when the instance is not found.                       *)
SetReadNoReturn(h) ==
    /\ At(h, "set_read")
    /\ db[inst[h]] # NoRecord
    /\ Return(h)
    /\ NoFault
    /\ UNCHANGED platformVars

(* Faulty: UserId is not taken from the existing instance.                 *)
SetReadNoOwner(h) ==
    /\ At(h, "set_read")
    /\ db[inst[h]] # NoRecord
    /\ Goto(h, "set_remove")
    /\ seen' = [seen EXCEPT ![h][inst[h]] = db[inst[h]]]
    /\ NoFault
    /\ UNCHANGED <<inst, instance, batch, platformVars>>

(* GetInstance and getEnv.  Not found, a database error (answered like     *)
(* "not found") or a refusal of getEnv: the request ends here.             *)
SetRead(h) ==
    LET existing == db[inst[h]] IN
    /\ At(h, "set_read")
    /\ \/ /\ existing # NoRecord
          /\ Goto(h, "set_remove")
          /\ instance' = [instance EXCEPT ![h].owner = existing.owner]
          /\ seen' = [seen EXCEPT ![h][inst[h]] = existing]
          /\ UNCHANGED <<inst, batch>>
       \/ Return(h)
    /\ NoFault
    /\ UNCHANGED platformVars

(* UpdateContainer, first half: the container existing.ServiceId names.    *)
SetRemove(h) ==
    LET i == inst[h]
        s == seen[h][i].service
    IN
    /\ At(h, "set_remove")
    /\ \/ /\ RemoveContainer(i, s)
          /\ Goto(h, "set_deploy")
          /\ NoFault
          /\ UNCHANGED <<inst, instance, seen, batch>>
       \/ RemoveContainerFails(i, s) /\ Return(h)
    /\ UNCHANGED <<db, gone, perms>>

(* UpdateContainer, second half.                                           *)
SetDeploy(h) ==
    /\ At(h, "set_deploy")
    /\ DeployAndGoto(h, "set_store")
    /\ UNCHANGED <<db, gone, perms>>

(* Faulty: the new container's id is not stored.                           *)
SetStoreOldId(h) ==
    /\ At(h, "set_store")
    /\ Upsert(inst[h], [instance[h] EXCEPT !.service = seen[h][inst[h]].service])
    /\ NoFault
    /\ Return(h)
    /\ UNCHANGED <<ctr, gen, perms>>

SetStore(h) ==
    /\ At(h, "set_store")
    /\ \/ Upsert(inst[h], instance[h]) /\ NoFault
       \/ SetInstanceFails(inst[h], instance[h])
    /\ Return(h)
    /\ UNCHANGED <<ctr, gen, perms>>

-----------------------------------------------------------------------------
(* DELETE /instances and /instances/:id.                                   *)

(* CheckMultiplePermissions: each of the instances must be permitted.      *)
DeleteBegin(h) ==
    /\ Accept(h)
    /\ \E u \in User, ids \in SUBSET Uuid \ {{}} :
        \/ UNCHANGED localVars
        \/ /\ \A i \in ids : TRUE \in CheckPermission(u, FullId(i))
           /\ Goto(h, "delete_read")
           /\ batch' = [batch EXCEPT ![h] = ids]
           /\ UNCHANGED <<inst, instance, seen>>
    /\ UNCHANGED used

(* GetInstances: all of them must exist.                                   *)
DeleteRead(h) ==
    /\ At(h, "delete_read")
    /\ \/ /\ batch[h] \subseteq Stored
          /\ Goto(h, "delete_remove")
          /\ seen' = [seen EXCEPT ![h] =
                        [i \in Uuid |-> IF i \in batch[h] THEN db[i] ELSE NoRecord]]
          /\ UNCHANGED <<inst, instance, batch>>
       \/ Return(h)
    /\ NoFault
    /\ UNCHANGED platformVars

(* The loop visits the instances in the order the cursor returned them; an *)
(* error leaves it, and what was deleted before stays deleted.             *)
DeleteRemove(h) ==
    /\ At(h, "delete_remove")
    /\ \E i \in batch[h] :
        \/ /\ RemoveContainer(i, seen[h][i].service)
           /\ Goto(h, "delete_store")
           /\ inst' = [inst EXCEPT ![h] = i]
           /\ NoFault
           /\ UNCHANGED <<instance, seen, batch>>
        \/ RemoveContainerFails(i, seen[h][i].service) /\ Return(h)
    /\ UNCHANGED <<db, gone, perms>>

DeleteStore(h) ==
    /\ At(h, "delete_store")
    /\ \/ /\ RemoveDocument(inst[h])
          /\ Goto(h, "delete_permit")
          /\ NoFault
          /\ UNCHANGED <<inst, instance, seen, batch>>
       \/ RemoveDocumentFails(inst[h]) /\ Return(h)
    /\ UNCHANGED <<ctr, gen, perms>>

(* RemoveResource, whose error is not looked at, and the loop's end.       *)
DeletePermit(h) ==
    LET left == batch[h] \ {inst[h]} IN
    /\ At(h, "delete_permit")
    /\ \/ RemoveResource(FullId(inst[h])) /\ NoFault
       \/ Fault /\ UNCHANGED perms
    /\ \/ left = {} /\ Return(h)
       \/ /\ left # {}
          /\ Goto(h, "delete_remove")
          /\ inst' = [inst EXCEPT ![h] = NoInst]
          /\ batch' = [batch EXCEPT ![h] = left]
          /\ UNCHANGED <<instance, seen>>
    /\ UNCHANGED <<db, gone, ctr, gen>>

-----------------------------------------------------------------------------
(* Startup.  An error in any of its calls ends the process (log.Fatal in   *)
(* main) and its supervisor starts it again; a failed call that changed    *)
(* nothing is the same as a crash before it, so only those calls are told  *)
(* to fail here whose failure leaves something behind.  Both passes read   *)
(* the collection in batches sorted by the name, so a pass may end without *)
(* having come by an instance another one shares its name with; module     *)
(* Paging has the batches.                                                 *)

InStartup(p) ==
    /\ phase = p
    /\ UNCHANGED <<used, requests, localVars>>

(* The last batch has been read.                                           *)
PassEnds == scan \subseteq Tied

Start ==
    /\ InStartup("down")
    /\ phase' = "grant"
    /\ scan' = Stored
    /\ NoFault
    /\ UNCHANGED <<platformVars, stale, cur>>

(* Faulty: the offset of the next batch is not advanced.                   *)
MigrateGrantNoOffset ==
    /\ InStartup("grant")
    /\ \E i \in scan : SetPermission(FullId(i), db[i].owner)
    /\ NoFault
    /\ UNCHANGED <<phase, startVars, db, gone, ctr, gen>>

(* migrate: every stored instance that permissions-v2 does not know is     *)
(* registered for its owner.                                               *)
MigrateGrant ==
    /\ InStartup("grant")
    /\ \E i \in scan :
        /\ IF perms[FullId(i)] = Nobody
           THEN SetPermission(FullId(i), db[i].owner)
           ELSE UNCHANGED perms
        /\ scan' = scan \ {i}
    /\ NoFault
    /\ UNCHANGED <<phase, stale, cur, db, gone, ctr, gen>>

(* Faulty: resources of deleted instances are not looked for.              *)
MigrateListNothing ==
    /\ InStartup("grant")
    /\ PassEnds
    /\ phase' = "revoke"
    /\ scan' = {}
    /\ NoFault
    /\ UNCHANGED <<platformVars, stale, cur>>

(* Faulty: the instances by their bare ids.                                *)
ListedRaw == {RawId(i) : i \in Stored \ scan}

(* dbInstanceIds: the instances migrate has come by.                       *)
Listed == {FullId(i) : i \in Stored \ scan}

(* AdminListResourceIds; what is not among dbInstanceIds is to be removed. *)
MigrateList ==
    /\ InStartup("grant")
    /\ PassEnds
    /\ phase' = "revoke"
    /\ stale' = {r \in Resource : perms[r] # Nobody} \ Listed
    /\ scan' = {}
    /\ NoFault
    /\ UNCHANGED <<platformVars, cur>>

MigrateRevoke ==
    /\ InStartup("revoke")
    /\ \E r \in stale :
        /\ RemoveResource(r)
        /\ stale' = stale \ {r}
    /\ NoFault
    /\ UNCHANGED <<phase, scan, cur, db, gone, ctr, gen>>

(* migrate returns; lib.Start goes on.                                     *)
MigrateDone ==
    /\ InStartup("revoke")
    /\ stale = {}
    /\ IF EnsureDeployed
       THEN phase' = "ensure" /\ scan' = Stored
       ELSE phase' = "serving" /\ UNCHANGED scan
    /\ NoFault
    /\ UNCHANGED <<platformVars, stale, cur>>

EnsureExists ==
    /\ InStartup("ensure")
    /\ \E i \in scan : ContainerExists(i) /\ scan' = scan \ {i}
    /\ NoFault
    /\ UNCHANGED <<platformVars, phase, stale, cur>>

EnsureDeploy ==
    /\ InStartup("ensure")
    /\ \E i \in scan :
        /\ ~ContainerExists(i)
        /\ \/ /\ CreateContainer(i, db[i].cfg)
              /\ phase' = "ensure_store"
              /\ cur' = i
              /\ NoFault
              /\ UNCHANGED <<scan, stale>>
           \/ /\ CreateContainerFails(i, db[i].cfg)
              /\ phase' = "down"
              /\ scan' = {}
              /\ UNCHANGED <<stale, cur>>
    /\ UNCHANGED <<db, gone, perms>>

(* The new id goes into the document.                                      *)
EnsureStore ==
    /\ InStartup("ensure_store")
    /\ Upsert(cur, [db[cur] EXCEPT !.service = gen[cur]])
    /\ phase' = "ensure"
    /\ scan' = scan \ {cur}
    /\ cur' = NoInst
    /\ NoFault
    /\ UNCHANGED <<stale, ctr, gen, perms>>

EnsureDone ==
    /\ InStartup("ensure")
    /\ PassEnds
    /\ phase' = "serving"
    /\ scan' = {}
    /\ NoFault
    /\ UNCHANGED <<platformVars, stale, cur>>

-----------------------------------------------------------------------------
(* The end of the process.  main does not wait for the API's shutdown, so  *)
(* a signal interrupts running handlers exactly as a crash does.           *)

Idle == phase = "serving" /\ \A h \in Handler : pc[h] = "idle"

Exit ==
    /\ phase # "down"
    /\ phase' = "down"
    /\ scan' = {} /\ stale' = {} /\ cur' = NoInst
    /\ pc' = [h \in Handler |-> "idle"]
    /\ inst' = [h \in Handler |-> NoInst]
    /\ instance' = [h \in Handler |-> NoRecord]
    /\ seen' = [h \in Handler |-> NothingSeen]
    /\ batch' = [h \in Handler |-> {}]
    /\ UNCHANGED <<platformVars, used, requests>>

(* Only an exit that interrupts something counts as a fault.               *)
Stop  == Idle /\ Exit /\ NoFault
Crash == ~Idle /\ Exit /\ Fault

Environment ==
    /\ \E i \in Uuid : ContainerLost(i)
    /\ UNCHANGED <<db, gone, perms, phase, startVars, used, requests, localVars>>

-----------------------------------------------------------------------------
Begin(h) == CreateBegin(h) \/ SetBegin(h) \/ DeleteBegin(h)

Continue(h) ==
    \/ CreateDeploy(h) \/ CreateStore(h) \/ CreatePermit(h)
    \/ SetRead(h) \/ SetRemove(h) \/ SetDeploy(h) \/ SetStore(h)
    \/ DeleteRead(h) \/ DeleteRemove(h) \/ DeleteStore(h) \/ DeletePermit(h)

Startup ==
    \/ Start \/ MigrateGrant \/ MigrateList \/ MigrateRevoke \/ MigrateDone
    \/ EnsureExists \/ EnsureDeploy \/ EnsureStore \/ EnsureDone

Next ==
    \/ \E h \in Handler : Begin(h) \/ Continue(h)
    \/ Startup
    \/ Stop \/ Crash
    \/ Environment

(* A goroutine that can run is run, the services answer every call, with a *)
(* result or an error, and a process that ended is started again.          *)
Fairness ==
    /\ \A h \in Handler : WF_vars(Continue(h))
    /\ WF_vars(Startup)

Spec == Init /\ [][Next]_vars /\ Fairness

-----------------------------------------------------------------------------
(***************************************************************************)
(* Properties.                                                             *)
(***************************************************************************)

(* Handler h has removed the container of instance i and has not yet       *)
(* stored what follows from it.                                            *)
Holds(h, i) ==
    /\ inst[h] = i
    /\ pc[h] \in {"set_deploy", "set_store", "delete_store"}

(* Handler h is creating instance i, up to the write of its document.      *)
Creates(h, i) ==
    /\ inst[h] = i
    /\ pc[h] \in {"create_deploy", "create_store"}

(* At most one handler at a time is between the removal of an instance's   *)
(* container and the write of its document.  There is no lock: it is the   *)
(* removal, which only one of several concurrent PUTs and DELETEs of the   *)
(* instance gets through, that keeps the others out.                       *)
SoleHolder ==
    \A i \in Uuid : \A h, k \in Handler : Holds(h, i) /\ Holds(k, i) => h = k

(* An instance whose document was removed never has one again: no PUT that *)
(* read the document before the DELETE writes it back by its upsert.       *)
NoResurrection == \A i \in gone : db[i] = NoRecord

(* The container a document names runs the configuration of the document,  *)
(* whatever calls failed and however PUTs were interleaved.                *)
DeployedMatchesRecord ==
    \A i \in Stored : ContainerExists(i) => ctr[i].cfg = db[i].cfg

(* As long as no call has failed, an instance no handler is changing has   *)
(* either neither a document nor a container, or a document and a running  *)
(* container that is its own and runs its configuration.                   *)
FaultFreeConsistency ==
    faults = 0 =>
        \A i \in Uuid :
            \/ \E h \in Handler : Holds(h, i) \/ Creates(h, i)
            \/ phase = "ensure_store" /\ cur = i
            \/ db[i] = NoRecord /\ ctr[i] = NoCtr
            \/ /\ db[i] # NoRecord
               /\ ContainerExists(i)
               /\ ctr[i].cfg = db[i].cfg
               /\ ctr[i].running

(* As long as no call has failed, no container is without a document, but  *)
(* for the one of a POST that is about to write it: however PUTs and       *)
(* DELETEs of an instance overlap, only one of them at a time gets a       *)
(* container removed, and only one that did creates one or removes the     *)
(* document.                                                               *)
ContainersOwned ==
    faults = 0 =>
        \A i \in Uuid :
            \/ ctr[i] = NoCtr
            \/ db[i] # NoRecord
            \/ \E h \in Handler : inst[h] = i /\ pc[h] = "create_store"

(* Every PUT answered, the container of a stored instance runs the         *)
(* configuration that is stored, as long as no call has failed.            *)
UpdatesAgree ==
    faults = 0 =>
        \A i \in Stored :
            ContainerExists(i) /\ (\A h \in Handler : ~Holds(h, i))
                => ctr[i].cfg = db[i].cfg

(* A user granted access to an instance keeps it for as long as the        *)
(* instance is stored, through deletes, failures and restarts, if no other *)
(* instance has its name.                                                  *)
GrantsLast ==
    [][\A i \in Stored \ Tied :
          perms[FullId(i)] # Nobody /\ db'[i] # NoRecord
             => perms'[FullId(i)] = perms[FullId(i)]]_vars

(* The ids of all stored instances, as resources.                          *)
StoredResources == {FullId(i) : i \in Stored}

(* When migrate returns, permissions-v2 knows nothing but stored instances,*)
(* each registered for its owner, whatever a crash, a failed or a forgotten*)
(* call or requests that overlap had left before; and it knows all of them *)
(* but maybe some whose name another one has.                              *)
MigrateReconciles ==
    [][phase = "revoke" /\ phase' \in {"ensure", "serving"}
          => \A r \in Resource :
                \/ r \in StoredResources' /\ perms'[r] = db'[r[2]].owner
                \/ (r \in StoredResources' => r[2] \in Tied) /\ perms'[r] = Nobody]_vars

(* The document of i names a container that does not exist, and no handler *)
(* is about to replace either.                                             *)
Stuck(i) ==
    /\ db[i] # NoRecord
    /\ ~ContainerExists(i)
    /\ \A h \in Handler : ~Holds(h, i)

(* After a half failed PUT or DELETE, or the loss of the container, no     *)
(* request gets the instance out of this state or changes its document, a  *)
(* DELETE included: each fails on removing the container that is not there.*)
(* Only a startup with EnsureAllInstancesDeployed does.                    *)
StuckUntilRestart ==
    [][\A i \in Uuid :
          Stuck(i) /\ phase = "serving" => Stuck(i)' /\ db'[i] = db[i]]_vars

(* Every request is answered or dies with the process, a DELETE of several *)
(* instances included.                                                     *)
RequestsEnd == \A h \in Handler : pc[h] # "idle" ~> pc[h] = "idle"

(* EnsureAllInstancesDeployed cannot recreate the container of i: the one  *)
(* its document names is missing, but another one has its name.            *)
NameTaken(i) ==
    /\ db[i] # NoRecord
    /\ ~ContainerExists(i)
    /\ ctr[i] # NoCtr

(* Startup always gets to serving requests, unless from some time on there *)
(* is an instance whose container's name is taken.                         *)
ServesUnlessNameTaken ==
    []<>(phase = "serving") \/ <>[](\E i \in Uuid : NameTaken(i))

(* The user whose POST stored an instance has access to it as soon as the  *)
(* POST is answered.                                                       *)
CreatorHasAccess ==
    faults = 0 /\ phase = "serving" =>
        \A i \in Stored :
            \/ \E h \in Handler : inst[h] = i /\ pc[h] = "create_permit"
            \/ perms[FullId(i)] = db[i].owner

-----------------------------------------------------------------------------
(* What the manager promises its clients, see module Registry.             *)

Entry(i) ==
    IF db[i] = NoRecord THEN NoRecord
    ELSE [owner |-> db[i].owner, cfg |-> db[i].cfg]

Promise == INSTANCE Registry WITH entry <- [i \in Uuid |-> Entry(i)]

Implements == Promise!Spec

=============================================================================
