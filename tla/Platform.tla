------------------------------ MODULE Platform ------------------------------
(***************************************************************************)
(* The three external services the manager coordinates, with the calls it  *)
(* makes on them: the instance collection in MongoDB (pkg/database/mongo), *)
(* the container platform behind a DeploymentClient (pkg/deploy) and the   *)
(* permissions-v2 service.  Every call may fail, and a failed call may     *)
(* still have had its effect: a reply is lost, a deadline of               *)
(* getTimeoutContext passes, a container is created but does not start.    *)
(*                                                                         *)
(* Instances are named by the UUID that CreateInstance generates.  The     *)
(* name of a container, "k2m-" plus that UUID, is unique on the platform,  *)
(* so there is at most one container per instance and it is stored under   *)
(* the UUID.  What tells the deployment modes apart is the id under which  *)
(* the platform answers: a docker daemon gives every container a new id, a *)
(* rancher2 workload is addressed by its name, which never changes.        *)
(***************************************************************************)
EXTENDS Naturals

CONSTANTS
    Uuid,         \* the values uuid.GenerateUUID may return
    User,         \* values of the X-UserId header
    Admin,        \* the users whose token carries the role "admin"
    Cfg,          \* the part of an instance that determines its container's
                  \* environment (filter, topic, offset, values, broker)
    DeployMode,   \* conf.DeployMode, "docker" or "rancher2"
    MaxFaults,    \* bound on failed calls, crashes and lost containers
    NoRecord, NoCtr, Nobody  \* nothing stored, no container, no user

VARIABLES
    db,           \* the collection: Uuid -> stored model.Instance or NoRecord
    gone,         \* history: the ids whose document was removed
    ctr,          \* Uuid -> the container named after it, or NoCtr
    gen,          \* Uuid -> the id given to its latest container, 0 for none
    perms,        \* permissions-v2: resource id -> the user granted rwxa
    faults        \* number of faults so far

(* A model.Instance: UserId, ServiceId (0 is "") and the configuration.    *)
Instance == [owner : User \cup {Nobody}, service : Nat, cfg : Cfg]

Container == [service : Nat, cfg : Cfg, running : BOOLEAN]

(* idPrefix + id, by which everything but CreateInstance's SetPermission   *)
(* names an instance, and the bare id that SetPermission is given.         *)
FullId(i) == <<"urn", i>>
RawId(i)  == <<"raw", i>>
Resource  == {"urn", "raw"} \X Uuid

ASSUME PlatformAssumption ==
    /\ DeployMode \in {"docker", "rancher2"}
    /\ Admin \subseteq User
    /\ Nobody \notin User
    /\ MaxFaults \in Nat
    /\ NoRecord \notin Instance
    /\ NoRecord \notin [owner : User \cup {Nobody}, cfg : Cfg]
    /\ NoCtr \notin Container

platformVars == <<db, gone, ctr, gen, perms>>

PlatformTypeOK ==
    /\ db \in [Uuid -> Instance \cup {NoRecord}]
    /\ gone \in SUBSET Uuid
    /\ ctr \in [Uuid -> Container \cup {NoCtr}]
    /\ gen \in [Uuid -> Nat]
    /\ perms \in [Resource -> User \cup {Nobody}]
    /\ faults \in Nat

PlatformInit ==
    /\ db = [i \in Uuid |-> NoRecord]
    /\ gone = {}
    /\ ctr = [i \in Uuid |-> NoCtr]
    /\ gen = [i \in Uuid |-> 0]
    /\ perms = [r \in Resource |-> Nobody]
    /\ faults = 0

Fault   == faults < MaxFaults /\ faults' = faults + 1
NoFault == UNCHANGED faults

-----------------------------------------------------------------------------
(* The collection.                                                         *)

Stored == {i \in Uuid : db[i] # NoRecord}

(* SetInstance replaces the document or, by SetUpsert(true), inserts it.   *)
Upsert(i, r) == db' = [db EXCEPT ![i] = r] /\ UNCHANGED gone

SetInstanceFails(i, r) ==
    /\ Fault
    /\ Upsert(i, r) \/ UNCHANGED <<db, gone>>

RemoveDocument(i) == db' = [db EXCEPT ![i] = NoRecord] /\ gone' = gone \cup {i}

RemoveDocumentFails(i) ==
    /\ Fault
    /\ RemoveDocument(i) \/ UNCHANGED <<db, gone>>

-----------------------------------------------------------------------------
(* The DeploymentClient.                                                   *)

(* The platform has a container under id s for instance i.                 *)
Live(i, s) == ctr[i] # NoCtr /\ ctr[i].service = s

(* ContainerExists asks for the id alone: a container that was created but *)
(* not started, or stopped but not removed, exists.                        *)
ContainerExists(i) == Live(i, db[i].service)

(* The id of the next container for i.                                     *)
NewIdIsName(i) == i      \* faulty: the name is returned in place of the id

NewIdReused(i) == 1      \* faulty: ids are given out again

NewId(i) == IF DeployMode = "docker" THEN gen[i] + 1 ELSE 1

Deployed(i, c, run) ==
    /\ ctr' = [ctr EXCEPT ![i] = [service |-> NewId(i), cfg |-> c, running |-> run]]
    /\ gen' = [gen EXCEPT ![i] = NewId(i)]

CreateContainer(i, c) == ctr[i] = NoCtr /\ Deployed(i, c, TRUE)

(* The name is taken; or the call fails, and may leave a container behind, *)
(* created but not started or running with its id never learnt.            *)
CreateContainerFails(i, c) ==
    \/ ctr[i] # NoCtr /\ UNCHANGED <<ctr, gen>> /\ NoFault
    \/ Fault /\ UNCHANGED <<ctr, gen>>
    \/ /\ Fault
       /\ ctr[i] = NoCtr
       /\ \E run \in BOOLEAN : Deployed(i, c, run)

Dropped(i) == ctr' = [ctr EXCEPT ![i] = NoCtr] /\ UNCHANGED gen

(* Faulty: it is no error that the container is not there.                 *)
RemoveContainerIfAny(i, s) == Dropped(i)

(* stopContainer and removeContainer, both by id.                          *)
RemoveContainer(i, s) == Live(i, s) /\ Dropped(i)

(* Nothing has that id; or a call fails, at worst after the container was  *)
(* stopped or even removed.                                                *)
RemoveContainerFails(i, s) ==
    \/ ~Live(i, s) /\ UNCHANGED <<ctr, gen>> /\ NoFault
    \/ Fault /\ UNCHANGED <<ctr, gen>>
    \/ Fault /\ Live(i, s) /\ Dropped(i)
    \/ /\ Fault
       /\ Live(i, s)
       /\ ctr' = [ctr EXCEPT ![i].running = FALSE]
       /\ UNCHANGED gen

(* The container is removed from outside, the case                         *)
(* EnsureAllInstancesDeployed is there for.                                *)
ContainerLost(i) == Fault /\ ctr[i] # NoCtr /\ Dropped(i)

-----------------------------------------------------------------------------
(* permissions-v2.  A known resource is open to the user it was registered *)
(* for and, by its role permissions, to admins.  An unknown one is closed  *)
(* to a user; what the topic's default permissions say of an admin is the  *)
(* service's affair, so both answers are possible.                         *)

CheckPermission(u, r) ==
    IF perms[r] = Nobody
    THEN IF u \in Admin THEN BOOLEAN ELSE {FALSE}
    ELSE {u = perms[r] \/ u \in Admin}

SetPermission(r, u) == perms' = [perms EXCEPT ![r] = u]

RemoveResource(r) == perms' = [perms EXCEPT ![r] = Nobody]

=============================================================================
