---------------------------- MODULE ManagerProofs ----------------------------
(***************************************************************************)
(* Manager for every number of handlers, instances, users and              *)
(* configurations, with any number of failed calls, crashes and lost       *)
(* containers.                                                             *)
(*                                                                         *)
(* The first part is about both deployment modes: the type invariant.  A   *)
(* type is kept only because a handler finds in its locals what its step   *)
(* needs, so the induction is on Shape: types, LocalsOK and StartupOK      *)
(* together.                                                               *)
(*                                                                         *)
(* The others are about safety on a docker daemon, where IInv, and FInv    *)
(* with it, is an inductive invariant.  The argument: a container id is    *)
(* never given out twice, so a handler that read an instance before        *)
(* another one replaced its container holds an id that is dead, and fails  *)
(* on removing it (StaleIdsDead).  Whoever gets the removal through is     *)
(* thereby alone with the instance (SoleHolder, HolderCurrent) until it    *)
(* has written the document.                                               *)
(***************************************************************************)
EXTENDS ManagerInv, TLAPS

USE PlatformAssumption, ManagerAssumption
USE DEF platformVars, startVars, localVars

-----------------------------------------------------------------------------
(* Types of what the calls on the services leave.                          *)

(* Creating a container keeps the types of the platform.                   *)
LEMMA DeployedType ==
  ASSUME PlatformTypeOK,
         NEW i \in Uuid, NEW c \in Cfg, NEW run \in BOOLEAN, Deployed(i, c, run)
  PROVE  ctr' \in [Uuid -> Container \cup {NoCtr}] /\ gen' \in [Uuid -> Nat]
<1>1. NewId(i) \in Nat
  BY DEF PlatformTypeOK, NewId
<1>2. [service |-> NewId(i), cfg |-> c, running |-> run] \in Container
  BY <1>1 DEF Container
<1>3. QED
  BY <1>1, <1>2 DEF PlatformTypeOK, Deployed

(* A failed creation keeps them too.                                       *)
LEMMA CreateFailsType ==
  ASSUME PlatformTypeOK, NEW i \in Uuid, NEW c \in Cfg, CreateContainerFails(i, c)
  PROVE  /\ ctr' \in [Uuid -> Container \cup {NoCtr}]
         /\ gen' \in [Uuid -> Nat]
         /\ faults' \in Nat
<1>1. faults' \in Nat
  BY DEF PlatformTypeOK, CreateContainerFails, Fault, NoFault
<1>2. CASE UNCHANGED <<ctr, gen>>
  BY <1>1, <1>2 DEF PlatformTypeOK
<1>3. CASE \E run \in BOOLEAN : Deployed(i, c, run)
  BY <1>1, <1>3, DeployedType
<1>4. QED
  BY <1>2, <1>3 DEF CreateContainerFails

(* So does the removal of a container, whether it succeeds or fails.       *)
LEMMA RemoveType ==
  ASSUME PlatformTypeOK, NEW i \in Uuid, NEW s,
         \/ RemoveContainer(i, s) /\ NoFault
         \/ RemoveContainerFails(i, s)
  PROVE  /\ ctr' \in [Uuid -> Container \cup {NoCtr}]
         /\ gen' \in [Uuid -> Nat]
         /\ faults' \in Nat
<1>1. faults' \in Nat /\ gen' = gen
  BY DEF PlatformTypeOK, RemoveContainer, RemoveContainerFails, Dropped, Fault, NoFault
<1>2. CASE UNCHANGED ctr \/ Dropped(i)
  BY <1>1, <1>2 DEF PlatformTypeOK, Dropped
<1>3. CASE Live(i, s) /\ ctr' = [ctr EXCEPT ![i].running = FALSE]
  <2>1. ctr[i] \in Container
    BY <1>3 DEF PlatformTypeOK, Live
  <2>2. [ctr[i] EXCEPT !.running = FALSE] \in Container
    BY <2>1 DEF Container
  <2>3. QED
    BY <1>1, <1>3, <2>2 DEF PlatformTypeOK
<1>4. QED
  BY <1>2, <1>3 DEF RemoveContainer, RemoveContainerFails

-----------------------------------------------------------------------------
(* The locals of a handler.                                                *)

(* A handler that returns leaves proper locals.                            *)
LEMMA ReturnLocals ==
  ASSUME LocalsTypeOK, LocalsOK, NEW h \in Handler, Return(h)
  PROVE  LocalsTypeOK' /\ LocalsOK'
<1>1. NothingSeen \in [Uuid -> Instance \cup {NoRecord}]
  BY DEF NothingSeen
<1>2. LocalsTypeOK'
  BY <1>1 DEF LocalsTypeOK, Return, Goto, Pc
<1>3. LocalsOK'
  BY DEF LocalsOK, LocalsTypeOK, Return, Goto
<1>4. QED
  BY <1>2, <1>3

(* As does one that learns the id of the container it created.             *)
LEMMA DeployLocals ==
  ASSUME PlatformTypeOK, LocalsTypeOK, LocalsOK, NEW h \in Handler, NEW l,
         \/ pc[h] = "create_deploy" /\ l = "create_store"
         \/ pc[h] = "set_deploy" /\ l = "set_store",
         DeployAndGoto(h, l)
  PROVE  /\ ctr' \in [Uuid -> Container \cup {NoCtr}]
         /\ gen' \in [Uuid -> Nat]
         /\ faults' \in Nat
         /\ LocalsTypeOK' /\ LocalsOK'
<1>1. inst[h] \in Uuid /\ instance[h] \in Instance /\ instance[h].cfg \in Cfg
  BY DEF LocalsTypeOK, LocalsOK, Instance
<1>2. CASE CreateContainerFails(inst[h], instance[h].cfg) /\ Return(h)
  BY <1>1, <1>2, CreateFailsType, ReturnLocals
<1>3. ASSUME CreateContainer(inst[h], instance[h].cfg),
             Goto(h, l),
             instance' = [instance EXCEPT ![h].service = NewId(inst[h])],
             NoFault,
             UNCHANGED <<inst, seen, batch>>
      PROVE  /\ ctr' \in [Uuid -> Container \cup {NoCtr}]
             /\ gen' \in [Uuid -> Nat]
             /\ faults' \in Nat
             /\ LocalsTypeOK' /\ LocalsOK'
  <2>1. Deployed(inst[h], instance[h].cfg, TRUE)
    BY <1>3 DEF CreateContainer
  <2>2. NewId(inst[h]) \in Nat
    BY <1>1 DEF PlatformTypeOK, NewId
  <2>3. [instance[h] EXCEPT !.service = NewId(inst[h])] \in Instance
    BY <1>1, <2>2 DEF Instance
  <2>4. LocalsTypeOK'
    BY <1>3, <2>3 DEF LocalsTypeOK, Goto, Pc
  <2>5. LocalsOK'
    BY <1>1, <1>3, <2>3 DEF LocalsTypeOK, LocalsOK, Goto
  <2>6. faults' \in Nat
    BY <1>3 DEF PlatformTypeOK, NoFault
  <2>7. QED
    BY <1>1, <2>1, <2>4, <2>5, <2>6, DeployedType
<1>4. QED
  BY <1>2, <1>3 DEF DeployAndGoto

(* What is left to show of a step of a running handler.                    *)
LEMMA HandlerShape ==
  ASSUME Shape, NEW h \in Handler, NEW l, At(h, l), l # "idle",
         PlatformTypeOK', LocalsTypeOK', LocalsOK'
  PROVE  Shape'
<1>1. phase = "serving" /\ phase' = "serving"
  BY DEF Shape, StartupOK, At
<1>2. StartupOK'
  BY <1>1 DEF StartupOK
<1>3. ProcessTypeOK'
  BY DEF Shape, TypeOK, ProcessTypeOK, At
<1>4. QED
  BY <1>2, <1>3 DEF Shape, TypeOK

(* And of a step that accepts a request.                                   *)
LEMMA AcceptShape ==
  ASSUME Shape, NEW h \in Handler, Accept(h), used' \in SUBSET Uuid,
         LocalsTypeOK', LocalsOK'
  PROVE  Shape'
<1>1. PlatformTypeOK' /\ ProcessTypeOK'
  BY DEF Shape, TypeOK, PlatformTypeOK, ProcessTypeOK, Accept, NoFault
<1>2. StartupOK'
  BY DEF StartupOK, Accept
<1>3. QED
  BY <1>1, <1>2 DEF Shape, TypeOK

-----------------------------------------------------------------------------
(* Shape is kept by each action.                                           *)

LEMMA InitShape == Init => Shape
<1> SUFFICES ASSUME Init PROVE Shape
  OBVIOUS
<1>1. PlatformTypeOK
  BY DEF Init, PlatformInit, PlatformTypeOK, Resource
<1>2. ProcessTypeOK
  BY DEF Init, ProcessTypeOK, Phase
<1>3. LocalsTypeOK /\ LocalsOK
  BY DEF Init, LocalsTypeOK, LocalsOK, NothingSeen, Pc
<1>4. StartupOK
  BY DEF Init, StartupOK
<1>5. QED
  BY <1>1, <1>2, <1>3, <1>4 DEF Shape, TypeOK

LEMMA CreateBeginShape ==
  ASSUME Shape, NEW h \in Handler, CreateBegin(h) PROVE Shape'
<1>1. used' \in SUBSET Uuid /\ Accept(h)
  BY DEF Shape, TypeOK, ProcessTypeOK, CreateBegin
<1>2. CASE UNCHANGED localVars
  BY <1>1, <1>2, AcceptShape DEF Shape, TypeOK, LocalsTypeOK, LocalsOK
<1>3. ASSUME NEW i \in Uuid, NEW u \in User, NEW c \in Cfg,
             Goto(h, "create_deploy"),
             inst' = [inst EXCEPT ![h] = i],
             instance' = [instance EXCEPT ![h] = [owner |-> u, service |-> 0, cfg |-> c]],
             UNCHANGED <<seen, batch>>
      PROVE  Shape'
  <2>1. [owner |-> u, service |-> 0, cfg |-> c] \in Instance
    BY DEF Instance
  <2>2. LocalsTypeOK'
    BY <1>3, <2>1 DEF Shape, TypeOK, LocalsTypeOK, Goto, Pc
  <2>3. LocalsOK'
    BY <1>3, <2>1 DEF Shape, TypeOK, LocalsTypeOK, LocalsOK, Goto
  <2>4. QED
    BY <1>1, <2>2, <2>3, AcceptShape
<1>4. QED
  BY <1>2, <1>3 DEF CreateBegin

LEMMA SetBeginShape ==
  ASSUME Shape, NEW h \in Handler, SetBegin(h) PROVE Shape'
<1>1. used' \in SUBSET Uuid /\ Accept(h)
  BY DEF Shape, TypeOK, ProcessTypeOK, SetBegin
<1>2. CASE UNCHANGED localVars
  BY <1>1, <1>2, AcceptShape DEF Shape, TypeOK, LocalsTypeOK, LocalsOK
<1>3. ASSUME NEW i \in Uuid, NEW c \in Cfg,
             Goto(h, "set_read"),
             inst' = [inst EXCEPT ![h] = i],
             instance' = [instance EXCEPT ![h] =
                            [owner |-> Nobody, service |-> 0, cfg |-> c]],
             UNCHANGED <<seen, batch>>
      PROVE  Shape'
  <2>1. [owner |-> Nobody, service |-> 0, cfg |-> c] \in Instance
    BY DEF Instance
  <2>2. LocalsTypeOK'
    BY <1>3, <2>1 DEF Shape, TypeOK, LocalsTypeOK, Goto, Pc
  <2>3. LocalsOK'
    BY <1>3, <2>1 DEF Shape, TypeOK, LocalsTypeOK, LocalsOK, Goto
  <2>4. QED
    BY <1>1, <2>2, <2>3, AcceptShape
<1>4. QED
  BY <1>2, <1>3 DEF SetBegin

LEMMA DeleteBeginShape ==
  ASSUME Shape, NEW h \in Handler, DeleteBegin(h) PROVE Shape'
<1>1. used' \in SUBSET Uuid /\ Accept(h)
  BY DEF Shape, TypeOK, ProcessTypeOK, DeleteBegin
<1>2. CASE UNCHANGED localVars
  BY <1>1, <1>2, AcceptShape DEF Shape, TypeOK, LocalsTypeOK, LocalsOK
<1>3. ASSUME NEW ids \in SUBSET Uuid,
             Goto(h, "delete_read"),
             batch' = [batch EXCEPT ![h] = ids],
             UNCHANGED <<inst, instance, seen>>
      PROVE  Shape'
  <2>1. LocalsTypeOK'
    BY <1>3 DEF Shape, TypeOK, LocalsTypeOK, Goto, Pc
  <2>2. LocalsOK'
    BY <1>3 DEF Shape, TypeOK, LocalsTypeOK, LocalsOK, Goto
  <2>3. QED
    BY <1>1, <2>1, <2>2, AcceptShape
<1>4. QED
  BY <1>2, <1>3 DEF DeleteBegin

LEMMA CreateDeployShape ==
  ASSUME Shape, NEW h \in Handler, CreateDeploy(h) PROVE Shape'
<1>1. /\ pc[h] = "create_deploy"
      /\ DeployAndGoto(h, "create_store")
      /\ UNCHANGED <<db, gone, perms>>
  BY DEF CreateDeploy, At
<1>2. LocalsTypeOK' /\ LocalsOK' /\ PlatformTypeOK'
  BY <1>1, DeployLocals DEF Shape, TypeOK, PlatformTypeOK
<1>3. QED
  BY <1>2, HandlerShape DEF CreateDeploy

LEMMA SetDeployShape ==
  ASSUME Shape, NEW h \in Handler, SetDeploy(h) PROVE Shape'
<1>1. /\ pc[h] = "set_deploy"
      /\ DeployAndGoto(h, "set_store")
      /\ UNCHANGED <<db, gone, perms>>
  BY DEF SetDeploy, At
<1>2. LocalsTypeOK' /\ LocalsOK' /\ PlatformTypeOK'
  BY <1>1, DeployLocals DEF Shape, TypeOK, PlatformTypeOK
<1>3. QED
  BY <1>2, HandlerShape DEF SetDeploy

(* A write of the instance in hand keeps the types of the services.        *)
LEMMA UpsertType ==
  ASSUME PlatformTypeOK, LocalsTypeOK, NEW h \in Handler,
         \/ Upsert(inst[h], instance[h]) /\ NoFault
         \/ SetInstanceFails(inst[h], instance[h]),
         UNCHANGED <<ctr, gen, perms>>
  PROVE  PlatformTypeOK'
<1>1. instance[h] \in Instance \cup {NoRecord}
  BY DEF LocalsTypeOK
<1>2. db' \in [Uuid -> Instance \cup {NoRecord}] /\ gone' = gone
  BY <1>1 DEF PlatformTypeOK, Upsert, SetInstanceFails
<1>3. faults' \in Nat
  BY DEF PlatformTypeOK, SetInstanceFails, Fault, NoFault
<1>4. QED
  BY <1>2, <1>3 DEF PlatformTypeOK

LEMMA CreateStoreShape ==
  ASSUME Shape, NEW h \in Handler, CreateStore(h) PROVE Shape'
<1>1. PlatformTypeOK'
  BY UpsertType DEF CreateStore, Shape, TypeOK
<1>2. CASE Return(h)
  BY <1>1, <1>2, ReturnLocals, HandlerShape DEF CreateStore, Shape, TypeOK
<1>3. CASE Goto(h, "create_permit") /\ UNCHANGED <<inst, instance, seen, batch>>
  <2>1. LocalsTypeOK' /\ LocalsOK'
    BY <1>3 DEF CreateStore, At, Shape, TypeOK, LocalsTypeOK, LocalsOK, Goto, Pc
  <2>2. QED
    BY <1>1, <2>1, HandlerShape DEF CreateStore
<1>4. QED
  BY <1>2, <1>3 DEF CreateStore

LEMMA SetStoreShape ==
  ASSUME Shape, NEW h \in Handler, SetStore(h) PROVE Shape'
<1>1. PlatformTypeOK'
  BY UpsertType DEF SetStore, Shape, TypeOK
<1>2. QED
  BY <1>1, ReturnLocals, HandlerShape DEF SetStore, Shape, TypeOK

LEMMA CreatePermitShape ==
  ASSUME Shape, NEW h \in Handler, CreatePermit(h) PROVE Shape'
<1>1. instance[h].owner \in User \cup {Nobody} /\ At(h, "create_permit")
  BY DEF CreatePermit, At, Shape, TypeOK, LocalsTypeOK, LocalsOK, Instance
<1>2. perms' \in [Resource -> User \cup {Nobody}] /\ faults' \in Nat
  BY <1>1 DEF CreatePermit, Shape, TypeOK, PlatformTypeOK, SetPermission, Fault, NoFault
<1>3. PlatformTypeOK'
  BY <1>2 DEF CreatePermit, Shape, TypeOK, PlatformTypeOK
<1>4. QED
  BY <1>3, ReturnLocals, HandlerShape DEF CreatePermit, Shape, TypeOK

LEMMA SetReadShape ==
  ASSUME Shape, NEW h \in Handler, SetRead(h) PROVE Shape'
<1>1. PlatformTypeOK'
  BY DEF SetRead, Shape, TypeOK, PlatformTypeOK, NoFault
<1>2. CASE Return(h)
  BY <1>1, <1>2, ReturnLocals, HandlerShape DEF SetRead, Shape, TypeOK
<1>3. ASSUME db[inst[h]] # NoRecord,
             Goto(h, "set_remove"),
             instance' = [instance EXCEPT ![h].owner = db[inst[h]].owner],
             seen' = [seen EXCEPT ![h][inst[h]] = db[inst[h]]],
             UNCHANGED <<inst, batch>>
      PROVE  Shape'
  <2>1. inst[h] \in Uuid /\ instance[h] \in Instance /\ db[inst[h]] \in Instance
    BY <1>3 DEF SetRead, At, Shape, TypeOK, PlatformTypeOK, LocalsTypeOK, LocalsOK
  <2>2. [instance[h] EXCEPT !.owner = db[inst[h]].owner] \in Instance
    BY <2>1 DEF Instance
  <2>3. [seen[h] EXCEPT ![inst[h]] = db[inst[h]]] \in [Uuid -> Instance \cup {NoRecord}]
    BY <2>1 DEF Shape, TypeOK, LocalsTypeOK
  <2>4. LocalsTypeOK'
    BY <1>3, <2>2, <2>3 DEF Shape, TypeOK, LocalsTypeOK, Goto, Pc
  <2>5. LocalsOK'
    BY <1>3, <2>1, <2>2 DEF Shape, TypeOK, LocalsTypeOK, LocalsOK, Goto
  <2>6. QED
    BY <1>1, <2>4, <2>5, HandlerShape DEF SetRead
<1>4. QED
  BY <1>2, <1>3 DEF SetRead

LEMMA SetRemoveShape ==
  ASSUME Shape, NEW h \in Handler, SetRemove(h) PROVE Shape'
<1>1. At(h, "set_remove") /\ inst[h] \in Uuid
  BY DEF SetRemove, At, Shape, LocalsOK
<1>2. PlatformTypeOK'
  BY <1>1, RemoveType DEF SetRemove, Shape, TypeOK, PlatformTypeOK
<1>3. CASE Return(h)
  BY <1>1, <1>2, <1>3, ReturnLocals, HandlerShape DEF Shape, TypeOK
<1>4. CASE Goto(h, "set_deploy") /\ UNCHANGED <<inst, instance, seen, batch>>
  <2>1. LocalsTypeOK' /\ LocalsOK'
    BY <1>1, <1>4 DEF At, Shape, TypeOK, LocalsTypeOK, LocalsOK, Goto, Pc
  <2>2. QED
    BY <1>1, <1>2, <2>1, HandlerShape
<1>5. QED
  BY <1>3, <1>4 DEF SetRemove

LEMMA DeleteReadShape ==
  ASSUME Shape, NEW h \in Handler, DeleteRead(h) PROVE Shape'
<1>1. PlatformTypeOK'
  BY DEF DeleteRead, Shape, TypeOK, PlatformTypeOK, NoFault
<1>2. CASE Return(h)
  BY <1>1, <1>2, ReturnLocals, HandlerShape DEF DeleteRead, Shape, TypeOK
<1> DEFINE read == [i \in Uuid |-> IF i \in batch[h] THEN db[i] ELSE NoRecord]
<1>3. ASSUME batch[h] \subseteq Stored,
             Goto(h, "delete_remove"),
             seen' = [seen EXCEPT ![h] = read],
             UNCHANGED <<inst, instance, batch>>
      PROVE  Shape'
  <2>1. read \in [Uuid -> Instance \cup {NoRecord}]
    BY DEF Shape, TypeOK, PlatformTypeOK
  <2>2. batch[h] \subseteq Uuid /\ \A i \in batch[h] : read[i] # NoRecord
    BY <1>3 DEF Stored
  <2> HIDE DEF read
  <2>3. LocalsTypeOK'
    BY <1>3, <2>1 DEF Shape, TypeOK, LocalsTypeOK, Goto, Pc
  <2>4. LocalsOK'
    BY <1>3, <2>2 DEF Shape, TypeOK, LocalsTypeOK, LocalsOK, Goto
  <2>5. QED
    BY <1>1, <2>3, <2>4, HandlerShape DEF DeleteRead
<1>4. QED
  BY <1>2, <1>3 DEF DeleteRead

LEMMA DeleteRemoveShape ==
  ASSUME Shape, NEW h \in Handler, DeleteRemove(h) PROVE Shape'
<1>1. PICK i \in batch[h] :
        \/ /\ RemoveContainer(i, seen[h][i].service)
           /\ Goto(h, "delete_store")
           /\ inst' = [inst EXCEPT ![h] = i]
           /\ NoFault
           /\ UNCHANGED <<instance, seen, batch>>
        \/ RemoveContainerFails(i, seen[h][i].service) /\ Return(h)
  BY DEF DeleteRemove
<1>2. i \in Uuid
  BY DEF Shape, TypeOK, LocalsTypeOK
<1>3. PlatformTypeOK'
  BY <1>1, <1>2, RemoveType DEF DeleteRemove, Shape, TypeOK, PlatformTypeOK
<1>4. CASE Return(h)
  BY <1>3, <1>4, ReturnLocals, HandlerShape DEF DeleteRemove, Shape, TypeOK
<1>5. CASE /\ Goto(h, "delete_store")
           /\ inst' = [inst EXCEPT ![h] = i]
           /\ UNCHANGED <<instance, seen, batch>>
  <2>1. LocalsTypeOK' /\ LocalsOK'
    BY <1>2, <1>5 DEF DeleteRemove, At, Shape, TypeOK, LocalsTypeOK, LocalsOK, Goto, Pc
  <2>2. QED
    BY <1>3, <2>1, HandlerShape DEF DeleteRemove
<1>6. QED
  BY <1>1, <1>4, <1>5

LEMMA DeleteStoreShape ==
  ASSUME Shape, NEW h \in Handler, DeleteStore(h) PROVE Shape'
<1>1. inst[h] \in Uuid /\ At(h, "delete_store")
  BY DEF DeleteStore, At, Shape, TypeOK, LocalsTypeOK, LocalsOK
<1>2. PlatformTypeOK'
  BY <1>1 DEF DeleteStore, Shape, TypeOK, PlatformTypeOK, RemoveDocument,
              RemoveDocumentFails, Fault, NoFault
<1>3. CASE Return(h)
  BY <1>1, <1>2, <1>3, ReturnLocals, HandlerShape DEF Shape, TypeOK
<1>4. CASE Goto(h, "delete_permit") /\ UNCHANGED <<inst, instance, seen, batch>>
  <2>1. LocalsTypeOK' /\ LocalsOK'
    BY <1>1, <1>4 DEF At, Shape, TypeOK, LocalsTypeOK, LocalsOK, Goto, Pc
  <2>2. QED
    BY <1>1, <1>2, <2>1, HandlerShape
<1>5. QED
  BY <1>3, <1>4 DEF DeleteStore

LEMMA DeletePermitShape ==
  ASSUME Shape, NEW h \in Handler, DeletePermit(h) PROVE Shape'
<1>1. PlatformTypeOK'
  BY DEF DeletePermit, Shape, TypeOK, PlatformTypeOK, RemoveResource, Fault, NoFault
<1>2. CASE Return(h)
  BY <1>1, <1>2, ReturnLocals, HandlerShape DEF DeletePermit, Shape, TypeOK
<1>3. CASE /\ Goto(h, "delete_remove")
           /\ inst' = [inst EXCEPT ![h] = NoInst]
           /\ batch' = [batch EXCEPT ![h] = batch[h] \ {inst[h]}]
           /\ UNCHANGED <<instance, seen>>
  <2>1. LocalsTypeOK' /\ LocalsOK'
    BY <1>3 DEF DeletePermit, At, Shape, TypeOK, LocalsTypeOK, LocalsOK, Goto, Pc
  <2>2. QED
    BY <1>1, <2>1, HandlerShape DEF DeletePermit
<1>4. QED
  BY <1>2, <1>3 DEF DeletePermit

(* A step of startup: it changes no locals, and no handler is running.     *)
LEMMA StartupShape ==
  ASSUME Shape, UNCHANGED <<used, requests, localVars>>,
         PlatformTypeOK', phase # "serving",
         phase' \in Phase, scan' \in SUBSET Uuid, stale' \in SUBSET Resource,
         cur' \in Uuid \cup {NoInst},
         scan' \subseteq Stored' \/ phase' \in {"serving", "down"},
         phase' = "ensure_store" => cur' \in scan'
  PROVE  Shape'
<1>1. LocalsTypeOK' /\ LocalsOK'
  BY DEF Shape, TypeOK, LocalsTypeOK, LocalsOK
<1>2. ProcessTypeOK'
  BY DEF Shape, TypeOK, ProcessTypeOK
<1>3. StartupOK'
  BY DEF Shape, StartupOK
<1>4. QED
  BY <1>1, <1>2, <1>3 DEF Shape, TypeOK

(* Startup, the end of the process and a lost container keep Shape.        *)
LEMMA ProcessShape ==
  ASSUME Shape, Startup \/ Stop \/ Crash \/ Environment PROVE Shape'
<1> USE DEF Shape, TypeOK
<1>1. CASE Start
  BY <1>1, StartupShape DEF Start, InStartup, NoFault, PlatformTypeOK, ProcessTypeOK,
     Phase, Starting, Stored
<1>2. CASE MigrateGrant
  <2>1. PICK i \in scan :
          /\ perms' = perms \/ SetPermission(FullId(i), db[i].owner)
          /\ scan' = scan \ {i}
    BY <1>2 DEF MigrateGrant
  <2>2. i \in Uuid /\ i \in Stored /\ db[i] \in Instance
    BY <1>2 DEF MigrateGrant, InStartup, StartupOK, PlatformTypeOK, Stored
  <2>3. db[i].owner \in User \cup {Nobody}
    BY <2>2 DEF Instance
  <2>4. perms' \in [Resource -> User \cup {Nobody}]
    BY <2>1, <2>3 DEF PlatformTypeOK, SetPermission
  <2>5. PlatformTypeOK'
    BY <1>2, <2>4 DEF MigrateGrant, NoFault, PlatformTypeOK
  <2>6. QED
    BY <1>2, <2>1, <2>5, StartupShape DEF MigrateGrant, InStartup, ProcessTypeOK, StartupOK, Stored
<1>3. CASE MigrateList
  BY <1>3, StartupShape DEF MigrateList, InStartup, NoFault, PlatformTypeOK, ProcessTypeOK,
     Phase, Starting, StartupOK, Stored
<1>4. CASE MigrateRevoke
  BY <1>4, StartupShape DEF MigrateRevoke, RemoveResource, InStartup, NoFault,
     PlatformTypeOK, ProcessTypeOK, StartupOK, Stored
<1>5. CASE MigrateDone
  BY <1>5, StartupShape DEF MigrateDone, InStartup, NoFault, PlatformTypeOK, ProcessTypeOK,
     Phase, Starting, StartupOK, Stored
<1>6. CASE EnsureExists
  BY <1>6, StartupShape DEF EnsureExists, InStartup, NoFault, PlatformTypeOK, ProcessTypeOK,
     StartupOK, Stored
<1>7. CASE EnsureDeploy
  <2>1. PICK i \in scan :
          \/ /\ CreateContainer(i, db[i].cfg)
             /\ phase' = "ensure_store"
             /\ cur' = i
             /\ NoFault
             /\ UNCHANGED <<scan, stale>>
          \/ /\ CreateContainerFails(i, db[i].cfg)
             /\ phase' = "down"
             /\ scan' = {}
             /\ UNCHANGED <<stale, cur>>
    BY <1>7 DEF EnsureDeploy
  <2>2. i \in Uuid /\ i \in Stored /\ db[i] \in Instance
    BY <1>7 DEF EnsureDeploy, InStartup, StartupOK, PlatformTypeOK, Stored
  <2>3. db[i].cfg \in Cfg
    BY <2>2 DEF Instance
  <2>4. /\ ctr' \in [Uuid -> Container \cup {NoCtr}]
        /\ gen' \in [Uuid -> Nat]
        /\ faults' \in Nat
    BY <2>1, <2>2, <2>3, DeployedType, CreateFailsType
       DEF CreateContainer, NoFault, PlatformTypeOK
  <2>5. PlatformTypeOK'
    BY <1>7, <2>4 DEF EnsureDeploy, PlatformTypeOK
  <2>6. QED
    BY <1>7, <2>1, <2>2, <2>5, StartupShape
       DEF EnsureDeploy, InStartup, ProcessTypeOK, Phase, Starting, StartupOK, Stored
<1>8. CASE EnsureStore
  <2>1. cur \in scan /\ cur \in Stored /\ db[cur] \in Instance /\ gen[cur] \in Nat
    BY <1>8 DEF EnsureStore, InStartup, StartupOK, ProcessTypeOK, PlatformTypeOK, Stored
  <2>2. [db[cur] EXCEPT !.service = gen[cur]] \in Instance
    BY <2>1 DEF Instance
  <2>3. db' = [db EXCEPT ![cur] = [db[cur] EXCEPT !.service = gen[cur]]] /\ UNCHANGED gone
    BY <1>8 DEF EnsureStore, Upsert
  <2>4. db' \in [Uuid -> Instance \cup {NoRecord}] /\ Stored \subseteq Stored'
    BY <2>2, <2>3 DEF PlatformTypeOK, Stored
  <2>5. PlatformTypeOK'
    BY <1>8, <2>3, <2>4 DEF EnsureStore, NoFault, PlatformTypeOK
  <2>6. scan \subseteq Stored
    BY <1>8 DEF EnsureStore, InStartup, StartupOK
  <2>7. QED
    BY <1>8, <2>4, <2>5, <2>6, StartupShape
       DEF EnsureStore, InStartup, ProcessTypeOK, Phase, Starting
<1>9. CASE EnsureDone
  BY <1>9, StartupShape DEF EnsureDone, InStartup, NoFault, PlatformTypeOK, ProcessTypeOK,
     Phase, Starting, StartupOK, Stored
<1>10. CASE Stop \/ Crash
  <2>1. PlatformTypeOK' /\ ProcessTypeOK'
    BY <1>10 DEF Stop, Crash, Exit, Fault, NoFault, PlatformTypeOK, ProcessTypeOK, Phase
  <2>2. LocalsTypeOK' /\ LocalsOK'
    BY <1>10 DEF Stop, Crash, Exit, LocalsTypeOK, LocalsOK, NothingSeen, Pc
  <2>3. StartupOK'
    BY <1>10 DEF Stop, Crash, Exit, StartupOK
  <2>4. QED
    BY <2>1, <2>2, <2>3
<1>11. CASE Environment
  <2>1. PICK i \in Uuid : ContainerLost(i)
    BY <1>11 DEF Environment
  <2>2. PlatformTypeOK'
    BY <1>11, <2>1 DEF Environment, ContainerLost, Dropped, Fault, PlatformTypeOK
  <2>3. ProcessTypeOK' /\ LocalsTypeOK' /\ LocalsOK' /\ StartupOK'
    BY <1>11 DEF Environment, ProcessTypeOK, LocalsTypeOK, LocalsOK, StartupOK, Stored
  <2>4. QED
    BY <2>2, <2>3
<1>12. QED
  BY <1>1, <1>2, <1>3, <1>4, <1>5, <1>6, <1>7, <1>8, <1>9, <1>10, <1>11 DEF Startup

(* Nothing changes, nothing is lost.                                       *)
LEMMA StutterShape == ASSUME Shape, UNCHANGED vars PROVE Shape'
  BY DEF vars, Shape, TypeOK, PlatformTypeOK, ProcessTypeOK, LocalsTypeOK, LocalsOK,
         StartupOK, Stored

-----------------------------------------------------------------------------
(* Every step is one of these.                                             *)
LEMMA NextShape == ASSUME Shape, [Next]_vars PROVE Shape'
<1>1. ASSUME NEW h \in Handler, Begin(h) PROVE Shape'
  BY <1>1, CreateBeginShape, SetBeginShape, DeleteBeginShape DEF Begin
<1>2. ASSUME NEW h \in Handler, Continue(h) PROVE Shape'
  BY <1>2, CreateDeployShape, CreateStoreShape, CreatePermitShape, SetReadShape,
     SetRemoveShape, SetDeployShape, SetStoreShape, DeleteReadShape,
     DeleteRemoveShape, DeleteStoreShape, DeletePermitShape DEF Continue
<1>3. CASE Startup \/ Stop \/ Crash \/ Environment
  BY <1>3, ProcessShape
<1>4. CASE UNCHANGED vars
  BY <1>4, StutterShape
<1>5. QED
  BY <1>1, <1>2, <1>3, <1>4 DEF Next

(* Whatever the handlers, the failing calls and the restarts do, a handler *)
(* finds in its locals what its next call needs (a document it has read,   *)
(* an instance of its batch), and startup runs alone, on stored documents. *)
THEOREM ShapeInvariant == Spec => []Shape
<1>1. Shape /\ [Next]_vars => Shape'
  BY NextShape
<1>2. QED
  BY <1>1, InitShape, PTL DEF Spec

(* The variables always have their types.                                  *)
THEOREM TypeCorrect == Spec => []TypeOK
<1>1. Shape => TypeOK
  BY DEF Shape
<1>2. QED
  BY <1>1, ShapeInvariant, PTL

-----------------------------------------------------------------------------
(* What steps have in common.                                              *)

(* Nothing new is running for instance i.                                  *)
Weaker(i) ==
    \/ ctr'[i] = ctr[i]
    \/ ctr'[i] = NoCtr
    \/ /\ ctr[i] # NoCtr
       /\ ctr'[i].service = ctr[i].service
       /\ ctr'[i].cfg = ctr[i].cfg

Kept(k) ==
    /\ pc'[k] = pc[k]
    /\ inst'[k] = inst[k]
    /\ instance'[k] = instance[k]
    /\ seen'[k] = seen[k]

(* Handler k is not on its way to a write, and learns no more than what is *)
(* stored.                                                                 *)
Aside(k) ==
    /\ pc'[k] \notin {"create_deploy", "create_store", "set_deploy", "set_store",
                      "delete_store"}
    /\ \A i \in Uuid : seen'[k][i] \in {seen[k][i], NoRecord, db[i]}

(* A step that neither writes a document nor creates a container nor takes *)
(* an instance in hand.                                                    *)
Quiet ==
    /\ UNCHANGED <<db, gone, gen>>
    /\ used \subseteq used'
    /\ \A i \in Uuid : Weaker(i)
    /\ \A k \in Handler : Kept(k) \/ Aside(k)
    /\ phase' = "ensure_store" => phase = "ensure_store" /\ cur' = cur

(* Such a step keeps the invariant.                                        *)
LEMMA QuietStep == ASSUME IInv, Shape', Quiet PROVE IInv'
<1> USE DEF IInv, Shape, TypeOK, PlatformTypeOK
<1>1. \A i \in Uuid : \A s : Live(i, s)' => Live(i, s) /\ ctr'[i].cfg = ctr[i].cfg
  BY DEF Quiet, Weaker, Live
<1>2. \A k \in Handler, i \in Uuid :
         /\ Holds(k, i)' => Holds(k, i) /\ Kept(k)
         /\ Creates(k, i)' => Creates(k, i) /\ Kept(k)
  BY DEF Quiet, Kept, Aside, Holds, Creates
<1>3. \A k \in Handler, i \in Uuid :
         seen'[k][i] # NoRecord =>
            seen'[k][i] = seen[k][i] \/ seen'[k][i] = db[i]
  BY DEF Quiet, Kept, Aside
<1>4. IdsGiven'
  <2>1. ASSUME NEW i \in Uuid PROVE db'[i] # NoRecord => db'[i].service <= gen'[i]
    BY DEF IdsGiven, Quiet
  <2>2. ASSUME NEW i \in Uuid PROVE ctr'[i] # NoCtr => ctr'[i].service <= gen'[i]
    BY DEF IdsGiven, Quiet, Weaker
  <2>3. ASSUME NEW i \in Uuid, NEW k \in Handler, seen'[k][i] # NoRecord
        PROVE  seen'[k][i].service <= gen'[i]
    BY <2>3, <1>3 DEF IdsGiven, Quiet
  <2>4. QED
    BY <2>1, <2>2, <2>3 DEF IdsGiven
<1>5. StaleIdsDead'
  BY <1>1, <1>3 DEF StaleIdsDead, Quiet
<1>6. HolderCurrent' /\ SoleHolder'
  BY <1>1, <1>2, <1>3 DEF HolderCurrent, SoleHolder, Quiet, Kept
<1>7. ToStore'
  BY <1>1, <1>2 DEF ToStore, Quiet, Kept, Aside, LocalsTypeOK, LocalsOK, Instance
<1>8. EnsureToStore'
  BY <1>1 DEF EnsureToStore, Quiet, StartupOK, ProcessTypeOK
<1>9. IdsFresh'
  BY <1>2, <1>3 DEF IdsFresh, Unheard, Quiet
<1>10. NoResurrection'
  BY DEF NoResurrection, Quiet
<1>11. DeployedMatchesRecord'
  BY <1>1 DEF DeployedMatchesRecord, ContainerExists, Stored, Quiet, Instance
<1>12. QED
  BY <1>4, <1>5, <1>6, <1>7, <1>8, <1>9, <1>10, <1>11

(* Handler k goes on to write the document of i with its new container.    *)
Learns(k, i, c) ==
    /\ inst[k] = i /\ inst'[k] = i
    /\ \/ pc[k] = "create_deploy" /\ pc'[k] = "create_store"
       \/ pc[k] = "set_deploy" /\ pc'[k] = "set_store"
    /\ instance'[k].service = gen[i] + 1
    /\ instance'[k].cfg = c
    /\ seen'[k] = seen[k]

(* A container is created for i, under an id nobody has seen.              *)
Deploying(i, c) ==
    /\ \E run \in BOOLEAN : Deployed(i, c, run)
    /\ UNCHANGED <<db, gone, used>>
    /\ \A k \in Handler : Kept(k) \/ Aside(k) \/ Learns(k, i, c)
    /\ phase' = "ensure_store" => cur' = i /\ db[i].cfg = c

(* On docker this keeps the invariant, whether or not the id is learnt.    *)
LEMMA DeployingStep ==
  ASSUME DeployMode = "docker", IInv, Shape',
         NEW i \in Uuid, NEW c \in Cfg, Deploying(i, c)
  PROVE  IInv'
<1> USE DEF IInv, Shape, TypeOK, PlatformTypeOK
<1>1. /\ ctr'[i] # NoCtr
      /\ ctr'[i].service = gen[i] + 1 /\ ctr'[i].cfg = c
      /\ gen'[i] = gen[i] + 1
      /\ gen[i] \in Nat
      /\ \A j \in Uuid \ {i} : ctr'[j] = ctr[j] /\ gen'[j] = gen[j]
  <2>1. PICK run \in BOOLEAN : Deployed(i, c, run)
    BY DEF Deploying
  <2>2. NewId(i) = gen[i] + 1 /\ gen[i] \in Nat
    BY DEF NewId
  <2>3. [service |-> NewId(i), cfg |-> c, running |-> run] \in Container
    BY <2>2 DEF Container
  <2>4. QED
    BY <2>1, <2>2, <2>3 DEF Deployed
<1>2. \A j \in Uuid : ctr'[j] = ctr[j] \/ ctr'[j].service = gen[j] + 1
  BY <1>1
<1>3. \A k \in Handler, j \in Uuid :
         seen'[k][j] # NoRecord => seen'[k][j] = seen[k][j] \/ seen'[k][j] = db[j]
  BY DEF Deploying, Kept, Aside, Learns
<1>4. /\ \A j \in Uuid : db[j] # NoRecord => db[j].service \in Nat
      /\ \A k \in Handler, j \in Uuid : seen[k][j] # NoRecord => seen[k][j].service \in Nat
  BY DEF LocalsTypeOK, Instance
<1>5. \A j \in Uuid :
         /\ db[j] # NoRecord => db[j].service <= gen[j]
         /\ \A k \in Handler : seen'[k][j] # NoRecord =>
               seen'[k][j].service \in Nat /\ seen'[k][j].service <= gen[j]
  BY <1>3, <1>4 DEF IdsGiven
<1>6. \A k \in Handler, j \in Uuid :
         /\ Holds(k, j)' => Holds(k, j) /\ seen'[k] = seen[k]
         /\ Creates(k, j)' => Creates(k, j)
  BY DEF Deploying, Kept, Aside, Learns, Holds, Creates
<1>7. IdsGiven'
  <2>1. ASSUME NEW j \in Uuid
        PROVE  /\ gen[j] \in Nat /\ (gen'[j] = gen[j] \/ gen'[j] = gen[j] + 1)
               /\ ctr'[j] # NoCtr => ctr'[j].service <= gen'[j]
    BY <1>1 DEF IdsGiven
  <2>2. ASSUME NEW j \in Uuid, db[j] # NoRecord PROVE db'[j].service <= gen'[j]
    BY <1>4, <1>5, <2>1, <2>2 DEF Deploying
  <2>3. ASSUME NEW j \in Uuid, NEW k \in Handler, seen'[k][j] # NoRecord
        PROVE  seen'[k][j].service <= gen'[j]
    BY <1>5, <2>1, <2>3
  <2>4. QED
    BY <2>1, <2>2, <2>3 DEF IdsGiven, Deploying
<1>8. StaleIdsDead'
  <2>1. ASSUME NEW k \in Handler, NEW j \in Uuid,
               seen'[k][j] # NoRecord, Live(j, seen[k][j].service)'
        PROVE  db'[j] = seen'[k][j]
    <3>1. Live(j, seen'[k][j].service)
      BY <1>1, <1>2, <1>5, <2>1 DEF Live
    <3>2. QED
      BY <1>3, <2>1, <3>1 DEF StaleIdsDead, Deploying
  <2>2. QED
    BY <2>1 DEF StaleIdsDead, Live
<1>9. HolderCurrent'
  <2>1. ASSUME NEW k \in Handler, NEW j \in Uuid, Holds(k, j)'
        PROVE  /\ seen'[k][j] # NoRecord
               /\ db'[j] = seen'[k][j]
               /\ ~Live(j, seen[k][j].service)'
    <3>1. /\ seen[k][j] # NoRecord /\ db[j] = seen[k][j] /\ seen'[k] = seen[k]
          /\ ~Live(j, seen[k][j].service)
      BY <1>6, <2>1 DEF HolderCurrent
    <3>2. ~Live(j, seen[k][j].service)'
      BY <1>1, <1>2, <1>5, <3>1 DEF Live
    <3>3. QED
      BY <3>1, <3>2 DEF Deploying
  <2>2. QED
    BY <2>1 DEF HolderCurrent, Live
<1>10. SoleHolder'
  BY <1>6 DEF SoleHolder
<1>11. ToStore'
  <2>1. ASSUME NEW k \in Handler, pc'[k] \in {"create_store", "set_store"}
        PROVE  /\ instance'[k].service <= gen'[inst'[k]]
               /\ Live(inst[k], instance[k].service)' => ctr'[inst'[k]].cfg = instance'[k].cfg
    <3>1. CASE Learns(k, i, c)
      BY <1>1, <3>1 DEF Learns
    <3>2. CASE Kept(k)
      <4>1. /\ inst[k] \in Uuid /\ instance[k].service \in Nat
            /\ instance[k].service <= gen[inst[k]]
            /\ Live(inst[k], instance[k].service) => ctr[inst[k]].cfg = instance[k].cfg
        BY <2>1, <3>2 DEF ToStore, Kept, LocalsTypeOK, LocalsOK, Instance
      <4>2. gen[inst[k]] \in Nat /\ gen'[inst[k]] >= gen[inst[k]]
        BY <1>1, <4>1
      <4>3. instance'[k].service <= gen'[inst'[k]]
        BY <1>1, <3>2, <4>1, <4>2 DEF Kept
      <4>4. Live(inst[k], instance[k].service)' =>
               Live(inst[k], instance[k].service) /\ ctr'[inst[k]] = ctr[inst[k]]
        BY <1>1, <1>2, <3>2, <4>1, <4>2 DEF Kept, Live
      <4>5. QED
        BY <3>2, <4>1, <4>3, <4>4 DEF Kept
    <3>3. QED
      BY <2>1, <3>1, <3>2 DEF Deploying, Aside
  <2>2. QED
    BY <2>1 DEF ToStore, Live
<1>12. EnsureToStore'
  BY <1>1 DEF EnsureToStore, Deploying
<1>13. IdsFresh'
  BY <1>3, <1>6 DEF IdsFresh, Unheard, Deploying
<1>14. NoResurrection'
  BY DEF NoResurrection, Deploying
<1>15. DeployedMatchesRecord'
  <2>1. ASSUME NEW j \in Uuid, db[j] # NoRecord, Live(j, db[j].service)'
        PROVE  ctr'[j].cfg = db[j].cfg
    <3>1. Live(j, db[j].service) /\ ctr'[j] = ctr[j]
      BY <1>1, <1>2, <1>4, <1>5, <2>1 DEF Live, Deploying
    <3>2. QED
      BY <2>1, <3>1 DEF DeployedMatchesRecord, ContainerExists, Stored
  <2>2. QED
    BY <2>1 DEF DeployedMatchesRecord, ContainerExists, Stored, Live, Deploying
<1>16. QED
  BY <1>7, <1>8, <1>9, <1>10, <1>11, <1>12, <1>13, <1>14, <1>15

(* The handler that got the removal of i's container through has i in hand.*)
Taking(h, i) ==
    /\ seen[h][i] # NoRecord
    /\ RemoveContainer(i, seen[h][i].service)
    /\ UNCHANGED <<db, gone, used>>
    /\ pc'[h] \in {"set_deploy", "delete_store"} /\ inst'[h] = i /\ seen'[h] = seen[h]
    /\ \A k \in Handler \ {h} : Kept(k)
    /\ phase' = "serving"

(* No other one has.                                                       *)
LEMMA TakingStep ==
  ASSUME IInv, Shape', NEW h \in Handler, NEW i \in Uuid, Taking(h, i)
  PROVE  IInv'
<1> USE DEF IInv, Shape, TypeOK, PlatformTypeOK
<1>1. /\ ctr[i] # NoCtr /\ ctr[i].service = seen[h][i].service
      /\ db[i] = seen[h][i]
      /\ ctr' = [ctr EXCEPT ![i] = NoCtr]
      /\ UNCHANGED <<db, gone, gen, used, seen>>
  <2>1. \A k \in Handler : seen'[k] = seen[k]
    BY DEF Taking, Kept
  <2>2. UNCHANGED seen
    BY <2>1 DEF LocalsTypeOK
  <2>3. QED
    BY <2>2 DEF Taking, RemoveContainer, Dropped, Live, StaleIdsDead
<1>2. \A j \in Uuid : ctr'[j] = ctr[j] \/ ctr'[j] = NoCtr
  BY <1>1
<1>3. \A k \in Handler : ~Holds(k, i)
  BY <1>1 DEF HolderCurrent, Live
<1>4. \A k \in Handler, j \in Uuid :
         /\ Holds(k, j)' => Holds(k, j) \/ (k = h /\ j = i)
         /\ Creates(k, j)' => Creates(k, j)
  <2>1. ASSUME NEW k \in Handler, NEW j \in Uuid
        PROVE  /\ Holds(k, j)' => Holds(k, j) \/ (k = h /\ j = i)
               /\ Creates(k, j)' => Creates(k, j)
    <3>1. CASE k = h
      BY <3>1 DEF Taking, Holds, Creates
    <3>2. CASE k # h
      BY <3>2 DEF Taking, Kept, Holds, Creates
    <3>3. QED
      BY <3>1, <3>2
  <2>2. QED
    BY <2>1
<1>5. IdsGiven' /\ StaleIdsDead'
  BY <1>1, <1>2 DEF IdsGiven, StaleIdsDead, Live
<1>6. HolderCurrent'
  <2>1. ASSUME NEW k \in Handler, NEW j \in Uuid, Holds(k, j)'
        PROVE  seen[k][j] # NoRecord /\ db[j] = seen[k][j] /\ ~Live(j, seen[k][j].service)'
    <3>1. CASE k = h /\ j = i
      BY <1>1, <3>1 DEF Taking, Live
    <3>2. CASE Holds(k, j)
      BY <1>1, <1>2, <3>2 DEF HolderCurrent, Live
    <3>3. QED
      BY <1>4, <2>1, <3>1, <3>2
  <2>2. QED
    BY <1>1, <2>1 DEF HolderCurrent, Live
<1>7. SoleHolder'
  BY <1>3, <1>4 DEF SoleHolder
<1>8. ToStore'
  BY <1>1, <1>2 DEF ToStore, Taking, Kept, Live, LocalsOK
<1>9. EnsureToStore'
  BY DEF EnsureToStore, Taking
<1>10. IdsFresh'
  BY <1>1, <1>4 DEF IdsFresh, Unheard
<1>11. NoResurrection' /\ DeployedMatchesRecord'
  BY <1>1, <1>2 DEF NoResurrection, DeployedMatchesRecord, ContainerExists, Stored, Live
<1>12. QED
  BY <1>5, <1>6, <1>7, <1>8, <1>9, <1>10, <1>11

(* The handler that has i in hand writes or removes its document and is    *)
(* done with it.                                                           *)
Writing(h, i) ==
    /\ i = inst[h]
    /\ \/ /\ pc[h] \in {"create_store", "set_store"}
          /\ db' = [db EXCEPT ![i] = instance[h]]
          /\ UNCHANGED gone
       \/ /\ pc[h] = "delete_store"
          /\ db' = [db EXCEPT ![i] = NoRecord]
          /\ gone' = gone \cup {i}
    /\ UNCHANGED <<ctr, gen, used>>
    /\ Aside(h)
    /\ \A k \in Handler \ {h} : Kept(k)
    /\ phase' = "serving"

(* No live copy of the document becomes stale by that.                     *)
LEMMA WritingStep ==
  ASSUME IInv, Shape', NEW h \in Handler, NEW i \in Uuid, Writing(h, i)
  PROVE  IInv'
<1> USE DEF IInv, Shape, TypeOK, PlatformTypeOK
<1>1. Holds(h, i) \/ Creates(h, i)
  BY DEF Writing, Holds, Creates
<1>2. pc[h] # "delete_store" => i \notin gone
  BY <1>1 DEF IdsFresh, Unheard, Holds, Creates, HolderCurrent, NoResurrection, Writing
<1>3. i \in used
  BY <1>1 DEF IdsFresh, Unheard, HolderCurrent
<1>4. \A k \in Handler : seen[k][i] # NoRecord => ~Live(i, seen[k][i].service)
  BY <1>1 DEF HolderCurrent, StaleIdsDead, IdsFresh, Unheard
<1>5. /\ \A k \in Handler \ {h} : ~Holds(k, i) /\ ~Creates(k, i)
      /\ \A j \in Uuid : ~Holds(h, j)' /\ ~Creates(h, j)'
      /\ \A k \in Handler \ {h}, j \in Uuid :
            (Holds(k, j)' => Holds(k, j)) /\ (Creates(k, j)' => Creates(k, j))
  <2>1. \A k \in Handler \ {h} : ~Holds(k, i) /\ ~Creates(k, i)
    BY <1>1 DEF SoleHolder, IdsFresh, Unheard, HolderCurrent
  <2>2. \A j \in Uuid : ~Holds(h, j)' /\ ~Creates(h, j)'
    BY DEF Writing, Aside, Holds, Creates
  <2>3. \A k \in Handler \ {h}, j \in Uuid :
           (Holds(k, j)' => Holds(k, j)) /\ (Creates(k, j)' => Creates(k, j))
    BY DEF Writing, Kept, Holds, Creates
  <2>4. QED
    BY <2>1, <2>2, <2>3
<1>6. \A k \in Handler, j \in Uuid :
         seen'[k][j] # NoRecord =>
            seen'[k][j] = seen[k][j] \/ seen'[k][j] = db[j]
  BY DEF Writing, Aside, Kept
<1>7. /\ UNCHANGED <<ctr, gen, used>>
      /\ \A j \in Uuid \ {i} : db'[j] = db[j] /\ (j \in gone' <=> j \in gone)
      /\ \/ /\ db'[i] = instance[h] /\ gone' = gone
            /\ instance[h].service <= gen[i]
            /\ Live(i, instance[h].service) => ctr[i].cfg = instance[h].cfg
         \/ db'[i] = NoRecord
  BY DEF Writing, ToStore
<1>8. db[i] # NoRecord => ~Live(i, db[i].service)
  BY <1>1 DEF HolderCurrent, IdsFresh, Unheard
<1>9. IdsGiven'
  BY <1>6, <1>7 DEF IdsGiven
<1>10. StaleIdsDead'
  BY <1>4, <1>6, <1>7, <1>8 DEF StaleIdsDead, Live
<1>11. HolderCurrent'
  BY <1>5, <1>7 DEF HolderCurrent, Writing, Kept, Live
<1>12. SoleHolder'
  BY <1>5 DEF SoleHolder
<1>13. ToStore'
  BY <1>7 DEF ToStore, Writing, Aside, Kept, Live
<1>14. EnsureToStore'
  BY DEF EnsureToStore, Writing
<1>15. IdsFresh'
  BY <1>3, <1>5, <1>6, <1>7 DEF IdsFresh, Unheard
<1>16. NoResurrection'
  BY <1>2, <1>7 DEF NoResurrection, Writing
<1>17. DeployedMatchesRecord'
  BY <1>7 DEF DeployedMatchesRecord, ContainerExists, Stored, Live
<1>18. QED
  BY <1>9, <1>10, <1>11, <1>12, <1>13, <1>14, <1>15, <1>16, <1>17

-----------------------------------------------------------------------------
(* Each action is one of these steps, except CreateBegin and EnsureStore.  *)

LEMMA InitIInv == Init => IInv
<1> SUFFICES ASSUME Init PROVE IInv
  OBVIOUS
<1>1. Shape
  BY InitShape
<1>2. IdsGiven /\ StaleIdsDead
  BY DEF Init, PlatformInit, IdsGiven, StaleIdsDead, NothingSeen
<1>3. HolderCurrent /\ SoleHolder /\ ToStore
  BY DEF Init, HolderCurrent, SoleHolder, ToStore, Holds
<1>4. EnsureToStore /\ NoResurrection /\ DeployedMatchesRecord
  BY DEF Init, PlatformInit, EnsureToStore, NoResurrection, DeployedMatchesRecord, Stored
<1>5. IdsFresh
  BY DEF Init, PlatformInit, IdsFresh, Unheard, Creates, NothingSeen
<1>6. QED
  BY <1>1, <1>2, <1>3, <1>4, <1>5 DEF IInv

(* A handler that returns steps aside, and leaves the others alone.        *)
LEMMA ReturnAside ==
  ASSUME LocalsTypeOK, NEW h \in Handler, Return(h)
  PROVE  Aside(h) /\ \A k \in Handler \ {h} : Kept(k)
<1>1. pc'[h] = "idle" /\ \A i \in Uuid : seen'[h][i] = NoRecord
  BY DEF LocalsTypeOK, Return, Goto, NothingSeen
<1>2. QED
  BY <1>1 DEF LocalsTypeOK, Return, Goto, Aside, Kept

(* A removal that fails runs nothing new.                                  *)
LEMMA RemoveFailsWeaker ==
  ASSUME PlatformTypeOK, NEW i \in Uuid, NEW s, RemoveContainerFails(i, s)
  PROVE  gen' = gen /\ \A j \in Uuid : Weaker(j)
<1>1. CASE UNCHANGED ctr \/ Dropped(i)
  BY <1>1 DEF PlatformTypeOK, RemoveContainerFails, Dropped, Weaker
<1>2. CASE Live(i, s) /\ ctr' = [ctr EXCEPT ![i].running = FALSE] /\ UNCHANGED gen
  <2>1. ctr[i] \in Container /\ ctr[i] # NoCtr
    BY <1>2 DEF PlatformTypeOK, Live
  <2>2. \A j \in Uuid \ {i} : ctr'[j] = ctr[j]
    BY <1>2 DEF PlatformTypeOK
  <2>3. ctr'[i].service = ctr[i].service /\ ctr'[i].cfg = ctr[i].cfg
    BY <1>2, <2>1 DEF PlatformTypeOK, Container
  <2>4. QED
    BY <1>2, <2>1, <2>2, <2>3 DEF Weaker
<1>3. QED
  BY <1>1, <1>2 DEF RemoveContainerFails

(* A new instance: nobody has heard of its id.                             *)
LEMMA CreateBeginStep ==
  ASSUME IInv, NEW h \in Handler, CreateBegin(h) PROVE IInv'
<1> USE DEF IInv, Shape, TypeOK
<1>1. Shape' /\ Accept(h)
  BY CreateBeginShape DEF CreateBegin
<1>2. ASSUME UNCHANGED localVars, used \subseteq used' PROVE IInv'
  <2>1. Quiet
    BY <1>1, <1>2 DEF Accept, Quiet, Weaker, Kept
  <2>2. QED
    BY <1>1, <2>1, QuietStep
<1>3. ASSUME NEW i \in Uuid \ used, NEW u \in User, NEW c \in Cfg,
             used' = used \cup {i},
             Goto(h, "create_deploy"),
             inst' = [inst EXCEPT ![h] = i],
             instance' = [instance EXCEPT ![h] = [owner |-> u, service |-> 0, cfg |-> c]],
             UNCHANGED <<seen, batch>>
      PROVE  IInv'
  <2>1. UNCHANGED <<db, gone, ctr, gen, phase, cur, seen>>
    BY <1>1, <1>3 DEF Accept
  <2>2. /\ pc'[h] = "create_deploy" /\ inst'[h] = i
        /\ \A k \in Handler \ {h} : Kept(k)
    BY <1>3 DEF LocalsTypeOK, Goto, Kept
  <2>3. /\ \A j \in Uuid : ~Holds(h, j)' /\ (Creates(h, j)' => j = i)
        /\ \A k \in Handler \ {h}, j \in Uuid :
              (Holds(k, j)' => Holds(k, j)) /\ (Creates(k, j)' => Creates(k, j))
    <3>1. \A j \in Uuid : ~Holds(h, j)' /\ (Creates(h, j)' => j = i)
      BY <2>2 DEF Holds, Creates
    <3>2. \A k \in Handler \ {h}, j \in Uuid :
             (Holds(k, j)' => Holds(k, j)) /\ (Creates(k, j)' => Creates(k, j))
      BY <2>2 DEF Kept, Holds, Creates
    <3>3. QED
      BY <3>1, <3>2
  <2>4. Unheard(i) /\ \A k \in Handler : ~Creates(k, i)
    BY <1>3 DEF IdsFresh
  <2>5. IdsGiven' /\ StaleIdsDead' /\ NoResurrection' /\ DeployedMatchesRecord'
    BY <2>1 DEF IdsGiven, StaleIdsDead, Live, NoResurrection, DeployedMatchesRecord,
                ContainerExists, Stored
  <2>6. HolderCurrent' /\ SoleHolder'
    BY <2>1, <2>3 DEF HolderCurrent, SoleHolder, Live
  <2>7. ToStore' /\ EnsureToStore'
    BY <2>1, <2>2 DEF ToStore, EnsureToStore, Kept, Live
  <2>8. IdsFresh'
    <3>1. \A j \in Uuid : Unheard(j) => Unheard(j)'
      BY <2>1 DEF Unheard
    <3>2. ASSUME NEW j \in Uuid, j \notin used'
          PROVE  Unheard(j)' /\ \A k \in Handler : ~Creates(k, j)'
      BY <1>3, <2>3, <3>1, <3>2 DEF IdsFresh
    <3>3. ASSUME NEW j \in Uuid, NEW k \in Handler, NEW l \in Handler,
                 Creates(k, j)', Creates(l, j)'
          PROVE  Unheard(j)' /\ l = k
      BY <2>3, <2>4, <3>1, <3>3 DEF IdsFresh
    <3>4. QED
      BY <3>2, <3>3 DEF IdsFresh
  <2>9. QED
    BY <1>1, <2>5, <2>6, <2>7, <2>8
<1>4. QED
  BY <1>2, <1>3 DEF CreateBegin

(* The other requests begin by looking only.                               *)
LEMMA BeginStep ==
  ASSUME IInv, NEW h \in Handler, SetBegin(h) \/ DeleteBegin(h) PROVE IInv'
<1> USE DEF IInv, Shape, TypeOK
<1>1. Shape' /\ Accept(h) /\ used' = used /\ seen' = seen
  BY SetBeginShape, DeleteBeginShape DEF SetBegin, DeleteBegin
<1>2. \A k \in Handler : Kept(k) \/ Aside(k)
  BY <1>1 DEF SetBegin, DeleteBegin, LocalsTypeOK, Goto, Kept, Aside
<1>3. QED
  BY <1>1, <1>2, QuietStep DEF Accept, Quiet, Weaker

(* What a step of a running handler leaves alone.                          *)
LEMMA AtServing ==
  ASSUME Shape, NEW h \in Handler, NEW l, At(h, l), l # "idle"
  PROVE  phase' = "serving" /\ UNCHANGED <<used, phase, cur>>
  BY DEF Shape, StartupOK, At

(* The creation of a container for the instance in hand.                   *)
LEMMA DeployStep ==
  ASSUME DeployMode = "docker", IInv, NEW h \in Handler,
         CreateDeploy(h) \/ SetDeploy(h)
  PROVE  IInv'
<1> USE DEF IInv, Shape, TypeOK
<1>1. /\ Shape' /\ phase' = "serving" /\ UNCHANGED <<db, gone, used>>
      /\ \/ pc[h] = "create_deploy" /\ DeployAndGoto(h, "create_store")
         \/ pc[h] = "set_deploy" /\ DeployAndGoto(h, "set_store")
  BY CreateDeployShape, SetDeployShape, AtServing DEF CreateDeploy, SetDeploy, At
<1> DEFINE i == inst[h]
           c == instance[h].cfg
<1>2. i \in Uuid /\ instance[h] \in Instance /\ c \in Cfg
  BY <1>1 DEF LocalsTypeOK, LocalsOK, Instance
<1>3. CASE /\ CreateContainer(i, c)
           /\ \/ pc[h] = "create_deploy" /\ Goto(h, "create_store")
              \/ pc[h] = "set_deploy" /\ Goto(h, "set_store")
           /\ instance' = [instance EXCEPT ![h].service = NewId(i)]
           /\ UNCHANGED <<inst, seen, batch>>
  <2>1. Deployed(i, c, TRUE)
    BY <1>3 DEF CreateContainer
  <2>2. instance'[h].service = gen[i] + 1 /\ instance'[h].cfg = c
    <3>1. instance' = [instance EXCEPT ![h].service = NewId(i)] /\ NewId(i) = gen[i] + 1
      BY <1>3 DEF NewId
    <3>2. QED
      BY <1>2, <3>1 DEF LocalsTypeOK, Instance
  <2>3. Learns(h, i, c) /\ \A k \in Handler \ {h} : Kept(k)
    BY <1>2, <1>3, <2>2 DEF Learns, Kept, Goto, LocalsTypeOK
  <2>4. Deploying(i, c)
    BY <1>1, <2>1, <2>3 DEF Deploying
  <2>5. QED
    BY <1>1, <1>2, <2>4, DeployingStep
<1>4. CASE CreateContainerFails(i, c) /\ Return(h)
  <2>1. \A k \in Handler : Kept(k) \/ Aside(k)
    BY <1>4, ReturnAside
  <2>2. CASE UNCHANGED <<ctr, gen>>
    BY <1>1, <2>1, <2>2, QuietStep DEF Quiet, Weaker
  <2>3. CASE \E run \in BOOLEAN : Deployed(i, c, run)
    <3>1. Deploying(i, c)
      BY <1>1, <2>1, <2>3 DEF Deploying
    <3>2. QED
      BY <1>1, <1>2, <3>1, DeployingStep
  <2>4. QED
    BY <1>4, <2>2, <2>3 DEF CreateContainerFails
<1>5. QED
  BY <1>1, <1>3, <1>4 DEF DeployAndGoto

(* A write of the document in hand, whether it is known to succeed or not. *)
LEMMA StoreStep ==
  ASSUME IInv, NEW h \in Handler, CreateStore(h) \/ SetStore(h) \/ DeleteStore(h)
  PROVE  IInv'
<1> USE DEF IInv, Shape, TypeOK
<1>1. /\ Shape' /\ phase' = "serving" /\ UNCHANGED <<ctr, gen, used>>
      /\ inst[h] \in Uuid
      /\ pc[h] \in {"create_store", "set_store", "delete_store"}
  BY CreateStoreShape, SetStoreShape, DeleteStoreShape, AtServing
     DEF CreateStore, SetStore, DeleteStore, At, LocalsTypeOK, LocalsOK
<1>2. Aside(h) /\ \A k \in Handler \ {h} : Kept(k)
  <2>1. CASE Return(h)
    BY <2>1, ReturnAside
  <2>2. CASE /\ Goto(h, "create_permit") \/ Goto(h, "delete_permit")
             /\ UNCHANGED <<inst, instance, seen, batch>>
    BY <2>2 DEF LocalsTypeOK, Goto, Aside, Kept
  <2>3. QED
    BY <2>1, <2>2 DEF CreateStore, SetStore, DeleteStore
<1>3. CASE UNCHANGED <<db, gone>>
  BY <1>1, <1>2, <1>3, QuietStep DEF Quiet, Weaker
<1>4. CASE /\ pc[h] \in {"create_store", "set_store"}
           /\ Upsert(inst[h], instance[h])
  BY <1>1, <1>2, <1>4, WritingStep DEF Writing, Upsert
<1>5. CASE pc[h] = "delete_store" /\ RemoveDocument(inst[h])
  BY <1>1, <1>2, <1>5, WritingStep DEF Writing, RemoveDocument
<1>6. QED
  BY <1>1, <1>3, <1>4, <1>5 DEF CreateStore, SetStore, DeleteStore, At,
     SetInstanceFails, RemoveDocumentFails

(* The removal of the container that the handler's copy names.             *)
LEMMA RemoveStep ==
  ASSUME IInv, NEW h \in Handler, SetRemove(h) \/ DeleteRemove(h) PROVE IInv'
<1> USE DEF IInv, Shape, TypeOK
<1>1. /\ Shape' /\ phase' = "serving" /\ UNCHANGED <<db, gone, used>>
  BY SetRemoveShape, DeleteRemoveShape, AtServing DEF SetRemove, DeleteRemove
<1>2. PICK i \in Uuid :
        /\ seen[h][i] # NoRecord
        /\ \/ /\ RemoveContainer(i, seen[h][i].service)
              /\ \/ Goto(h, "set_deploy") /\ inst[h] = i /\ inst' = inst
                 \/ Goto(h, "delete_store") /\ inst' = [inst EXCEPT ![h] = i]
              /\ UNCHANGED <<instance, seen, batch>>
           \/ RemoveContainerFails(i, seen[h][i].service) /\ Return(h)
  <2>1. CASE SetRemove(h)
    BY <2>1 DEF SetRemove, At, LocalsOK
  <2>2. CASE DeleteRemove(h)
    BY <2>2 DEF DeleteRemove, At, LocalsTypeOK, LocalsOK
  <2>3. QED
    BY <2>1, <2>2
<1>3. CASE /\ RemoveContainer(i, seen[h][i].service)
           /\ \/ Goto(h, "set_deploy") /\ inst[h] = i /\ inst' = inst
              \/ Goto(h, "delete_store") /\ inst' = [inst EXCEPT ![h] = i]
           /\ UNCHANGED <<instance, seen, batch>>
  <2>1. /\ pc'[h] \in {"set_deploy", "delete_store"} /\ inst'[h] = i
        /\ \A k \in Handler \ {h} : Kept(k)
    BY <1>3 DEF LocalsTypeOK, Goto, Kept
  <2>2. QED
    BY <1>1, <1>2, <1>3, <2>1, TakingStep DEF Taking
<1>4. CASE RemoveContainerFails(i, seen[h][i].service) /\ Return(h)
  BY <1>1, <1>4, ReturnAside, RemoveFailsWeaker, QuietStep DEF Quiet
<1>5. QED
  BY <1>2, <1>3, <1>4

(* The steps of handlers that read a document or change a permission.      *)
LEMMA ReadStep ==
  ASSUME IInv, NEW h \in Handler,
         SetRead(h) \/ DeleteRead(h) \/ CreatePermit(h) \/ DeletePermit(h)
  PROVE  IInv'
<1> USE DEF IInv, Shape, TypeOK
<1>1. Shape' /\ phase' = "serving" /\ UNCHANGED <<db, gone, ctr, gen, used>>
  BY SetReadShape, DeleteReadShape, CreatePermitShape, DeletePermitShape, AtServing
     DEF SetRead, DeleteRead, CreatePermit, DeletePermit
<1>2. Aside(h) /\ \A k \in Handler \ {h} : Kept(k)
  <2>1. CASE Return(h)
    BY <2>1, ReturnAside
  <2>2. CASE SetRead(h) /\ ~Return(h)
    <3>1. /\ Goto(h, "set_remove")
          /\ instance' = [instance EXCEPT ![h].owner = db[inst[h]].owner]
          /\ seen' = [seen EXCEPT ![h][inst[h]] = db[inst[h]]]
          /\ UNCHANGED inst
      BY <2>2 DEF SetRead
    <3>2. pc'[h] = "set_remove" /\ \A k \in Handler \ {h} : Kept(k)
      BY <3>1 DEF LocalsTypeOK, Goto, Kept
    <3>3. \A i \in Uuid : seen'[h][i] = seen[h][i] \/ seen'[h][i] = db[i]
      BY <3>1 DEF LocalsTypeOK
    <3>4. QED
      BY <3>2, <3>3 DEF Aside
  <2>3. CASE DeleteRead(h) /\ ~Return(h)
    BY <2>3 DEF DeleteRead, At, LocalsTypeOK, Goto, Aside, Kept
  <2>4. CASE DeletePermit(h) /\ ~Return(h)
    BY <2>4 DEF DeletePermit, At, LocalsTypeOK, Goto, Aside, Kept
  <2>5. QED
    BY <2>1, <2>2, <2>3, <2>4 DEF CreatePermit
<1>3. QED
  BY <1>1, <1>2, QuietStep DEF Quiet, Weaker

(* EnsureAllInstancesDeployed creates a container.                         *)
LEMMA EnsureDeployStep ==
  ASSUME DeployMode = "docker", IInv, EnsureDeploy PROVE IInv'
<1> USE DEF IInv, Shape, TypeOK
<1>1. /\ Shape' /\ UNCHANGED <<db, gone, used>>
      /\ \A k \in Handler : Kept(k)
  BY ProcessShape DEF EnsureDeploy, InStartup, Startup, Kept
<1>2. PICK i \in scan :
        \/ /\ CreateContainer(i, db[i].cfg)
           /\ phase' = "ensure_store"
           /\ cur' = i
           /\ NoFault
           /\ UNCHANGED <<scan, stale>>
        \/ /\ CreateContainerFails(i, db[i].cfg)
           /\ phase' = "down"
           /\ scan' = {}
           /\ UNCHANGED <<stale, cur>>
  BY DEF EnsureDeploy
<1>3. i \in Uuid /\ db[i].cfg \in Cfg
  BY DEF EnsureDeploy, InStartup, StartupOK, PlatformTypeOK, Stored, Instance
<1>4. CASE \E run \in BOOLEAN : Deployed(i, db[i].cfg, run)
  BY <1>1, <1>2, <1>3, <1>4, DeployingStep DEF Deploying
<1>5. CASE UNCHANGED <<ctr, gen>> /\ phase' = "down"
  BY <1>1, <1>5, QuietStep DEF Quiet, Weaker
<1>6. QED
  BY <1>2, <1>4, <1>5 DEF CreateContainer, CreateContainerFails

(* EnsureAllInstancesDeployed writes the new id into the document.         *)
LEMMA EnsureStoreStep ==
  ASSUME IInv, EnsureStore PROVE IInv'
<1> USE DEF IInv, Shape, TypeOK
<1> DEFINE r == [db[cur] EXCEPT !.service = gen[cur]]
<1>1. /\ Shape' /\ phase' = "ensure" /\ UNCHANGED <<ctr, gen, gone, used, localVars>>
      /\ db' = [db EXCEPT ![cur] = r]
  BY ProcessShape DEF EnsureStore, InStartup, Startup, Upsert
<1>2. /\ cur \in Uuid /\ db[cur] \in Instance /\ gen[cur] \in Nat
      /\ \A h \in Handler : pc[h] = "idle" /\ seen[h] = NothingSeen
  BY DEF EnsureStore, InStartup, StartupOK, LocalsOK, ProcessTypeOK, PlatformTypeOK, Stored
<1>3. r \in Instance /\ r.service = gen[cur] /\ r.cfg = db[cur].cfg /\ r # NoRecord
  BY <1>2 DEF Instance
<1> HIDE DEF r
<1>4. /\ db'[cur] = r /\ \A i \in Uuid \ {cur} : db'[i] = db[i]
      /\ \A h \in Handler, i \in Uuid : seen[h][i] = NoRecord
  BY <1>1, <1>2 DEF PlatformTypeOK, NothingSeen
<1>5. IdsGiven'
  BY <1>1, <1>2, <1>3, <1>4 DEF IdsGiven
<1>6. StaleIdsDead'
  BY <1>1, <1>4 DEF StaleIdsDead
<1>7. HolderCurrent' /\ SoleHolder' /\ ToStore' /\ EnsureToStore'
  BY <1>1, <1>2 DEF HolderCurrent, SoleHolder, ToStore, EnsureToStore, Holds
<1>8. cur \in used /\ cur \notin gone
  BY <1>2 DEF IdsFresh, Unheard, NoResurrection
<1>9. IdsFresh' /\ NoResurrection'
  BY <1>1, <1>2, <1>4, <1>8 DEF IdsFresh, Unheard, Creates, NoResurrection
<1>10. DeployedMatchesRecord'
  <2>1. Live(cur, gen[cur]) => ctr[cur].cfg = db[cur].cfg
    BY DEF EnsureStore, InStartup, EnsureToStore
  <2>2. QED
    BY <1>1, <1>3, <1>4, <2>1 DEF DeployedMatchesRecord, ContainerExists, Stored, Live
<1>11. QED
  BY <1>1, <1>5, <1>6, <1>7, <1>9, <1>10

(* The rest of startup.                                                    *)
LEMMA StartupStep ==
  ASSUME IInv,
         \/ Start \/ MigrateGrant \/ MigrateList \/ MigrateRevoke \/ MigrateDone
         \/ EnsureExists \/ EnsureDone
  PROVE  IInv'
<1>1. Shape'
  BY ProcessShape DEF IInv, Startup
<1>2. /\ UNCHANGED <<db, gone, ctr, gen, used, localVars>> /\ phase' # "ensure_store"
  BY DEF Start, MigrateGrant, MigrateList, MigrateRevoke, MigrateDone, EnsureExists,
         EnsureDone, InStartup
<1>3. QED
  BY <1>1, <1>2, QuietStep DEF Quiet, Weaker, Kept

(* The end of the process, a container lost, and nothing.                  *)
LEMMA OutsideStep ==
  ASSUME IInv, Stop \/ Crash \/ Environment \/ UNCHANGED vars PROVE IInv'
<1> USE DEF IInv, Shape, TypeOK
<1>1. Shape' /\ UNCHANGED <<db, gone, gen, used>>
  BY ProcessShape, StutterShape DEF Stop, Crash, Exit, Environment, ContainerLost, Dropped, vars
<1>2. \A i \in Uuid : Weaker(i)
  BY DEF Stop, Crash, Exit, Environment, ContainerLost, Dropped, Weaker, PlatformTypeOK, vars
<1>3. CASE Stop \/ Crash
  <2>1. \A k \in Handler : Aside(k)
    BY <1>3 DEF Stop, Crash, Exit, Aside, NothingSeen
  <2>2. QED
    BY <1>1, <1>2, <1>3, <2>1, QuietStep DEF Stop, Crash, Exit, Quiet
<1>4. CASE Environment \/ UNCHANGED vars
  BY <1>1, <1>2, <1>4, QuietStep DEF Environment, vars, Quiet, Kept
<1>5. QED
  BY <1>3, <1>4

-----------------------------------------------------------------------------
(* Every step is one of these.                                             *)
LEMMA NextIInv ==
  ASSUME DeployMode = "docker", IInv, [Next]_vars PROVE IInv'
<1>1. ASSUME NEW h \in Handler, Begin(h) PROVE IInv'
  BY <1>1, CreateBeginStep, BeginStep DEF Begin
<1>2. ASSUME NEW h \in Handler, Continue(h) PROVE IInv'
  BY <1>2, DeployStep, StoreStep, RemoveStep, ReadStep DEF Continue
<1>3. CASE Startup
  BY <1>3, EnsureDeployStep, EnsureStoreStep, StartupStep DEF Startup
<1>4. CASE Stop \/ Crash \/ Environment \/ UNCHANGED vars
  BY <1>4, OutsideStep
<1>5. QED
  BY <1>1, <1>2, <1>3, <1>4 DEF Next

(* On a docker daemon, IInv always holds.                                  *)
THEOREM InductiveInvariant ==
  ASSUME DeployMode = "docker" PROVE Spec => []IInv
<1>1. IInv /\ [Next]_vars => IInv'
  BY NextIInv
<1>2. QED
  BY <1>1, InitIInv, PTL DEF Spec

(* At most one handler at a time is between the removal of an instance's   *)
(* container and the write of its document, although there is no lock: the *)
(* id of a docker container serves as one.                                 *)
THEOREM SoleHolderHolds ==
  ASSUME DeployMode = "docker" PROVE Spec => []SoleHolder
<1>1. IInv => SoleHolder
  BY DEF IInv
<1>2. QED
  BY <1>1, InductiveInvariant, PTL

(* No upsert of a PUT that read an instance before it was deleted brings   *)
(* its document back.                                                      *)
THEOREM NoResurrectionHolds ==
  ASSUME DeployMode = "docker" PROVE Spec => []NoResurrection
<1>1. IInv => NoResurrection
  BY DEF IInv
<1>2. QED
  BY <1>1, InductiveInvariant, PTL

(* The container that a document names runs the document's configuration.  *)
THEOREM DeployedMatchesRecordHolds ==
  ASSUME DeployMode = "docker" PROVE Spec => []DeployedMatchesRecord
<1>1. IInv => DeployedMatchesRecord
  BY DEF IInv
<1>2. QED
  BY <1>1, InductiveInvariant, PTL

-----------------------------------------------------------------------------
(***************************************************************************)
(* Without faults.  Every call did what it answered, so that what a        *)
(* handler has in hand is known (HandsAgree), and what nobody has in hand  *)
(* is settled.                                                             *)
(***************************************************************************)

Settled(i) ==
    \/ db[i] = NoRecord /\ ctr[i] = NoCtr
    \/ /\ db[i] # NoRecord
       /\ ContainerExists(i)
       /\ ctr[i].cfg = db[i].cfg
       /\ ctr[i].running

Hand(h) ==
    /\ pc[h] \in {"create_deploy", "set_deploy", "delete_store"} => ctr[inst[h]] = NoCtr
    /\ pc[h] \in {"create_store", "set_store"} =>
          /\ Live(inst[h], instance[h].service)
          /\ ctr[inst[h]].cfg = instance[h].cfg
          /\ ctr[inst[h]].running

InHand(h, i) == Holds(h, i) \/ Creates(h, i)

Busy == {"create_deploy", "create_store", "set_deploy", "set_store", "delete_store"}

LEMMA InitFInv == Init => FInv
BY InitIInv DEF Init, PlatformInit, FInv, FaultFree, HandsAgree, FaultFreeConsistency

(* A fault is not forgotten.                                               *)
LEMMA NoFaultYet ==
  ASSUME faults \in Nat, [Next]_vars, faults' = 0 PROVE faults = 0
<1>1. ASSUME Fault PROVE FALSE
  BY <1>1 DEF Fault
<1>2. ASSUME UNCHANGED faults PROVE faults = 0
  BY <1>2
<1>3. ASSUME NEW h \in Handler, Begin(h) PROVE UNCHANGED faults
  BY <1>3 DEF Begin, CreateBegin, SetBegin, DeleteBegin, Accept, NoFault
<1>4. ASSUME NEW h \in Handler, Continue(h) PROVE UNCHANGED faults
  <2>1. CASE CreateDeploy(h) \/ SetDeploy(h)
    BY <1>1, <2>1 DEF CreateDeploy, SetDeploy, DeployAndGoto, CreateContainerFails, NoFault
  <2>2. CASE CreateStore(h) \/ SetStore(h) \/ DeleteStore(h)
    BY <1>1, <2>2 DEF CreateStore, SetStore, DeleteStore, SetInstanceFails,
       RemoveDocumentFails, NoFault
  <2>3. CASE SetRemove(h) \/ DeleteRemove(h)
    BY <1>1, <2>3 DEF SetRemove, DeleteRemove, RemoveContainerFails, NoFault
  <2>4. CASE SetRead(h) \/ DeleteRead(h) \/ CreatePermit(h) \/ DeletePermit(h)
    BY <1>1, <2>4 DEF SetRead, DeleteRead, CreatePermit, DeletePermit, NoFault
  <2>5. QED
    BY <1>4, <2>1, <2>2, <2>3, <2>4 DEF Continue
<1>5. ASSUME Startup PROVE UNCHANGED faults
  BY <1>1, <1>5 DEF Startup, Start, MigrateGrant, MigrateList, MigrateRevoke, MigrateDone,
     EnsureExists, EnsureDeploy, EnsureStore, EnsureDone, CreateContainerFails, NoFault
<1>6. ASSUME Stop \/ Crash \/ Environment \/ UNCHANGED vars PROVE UNCHANGED faults
  BY <1>1, <1>6 DEF Stop, Crash, Environment, ContainerLost, vars, NoFault
<1>7. QED
  BY <1>2, <1>3, <1>4, <1>5, <1>6 DEF Next

(* Nobody has an instance in hand besides the one who does.                *)
LEMMA HandsApart ==
  ASSUME Exclusive, NEW h \in Handler, NEW i \in Uuid, InHand(h, i)
  PROVE  \A k \in Handler \ {h} : ~InHand(k, i)
BY DEF Exclusive, InHand, SoleHolder, IdsFresh, Unheard, HoldersKnow

LEMMA BusyInHand ==
  ASSUME Shape, NEW h \in Handler, pc[h] \in Busy
  PROVE  inst[h] \in Uuid /\ InHand(h, inst[h])
BY DEF Shape, TypeOK, LocalsTypeOK, LocalsOK, Busy, InHand, Holds, Creates

(* A step of a handler that changes the instance it has in hand only.      *)
LEMMA HandStep ==
  ASSUME Exclusive, FaultFree, faults = 0, NEW h \in Handler, NEW i \in Uuid,
         phase' # "ensure_store",
         \A j \in Uuid \ {i} : db'[j] = db[j] /\ ctr'[j] = ctr[j],
         \A k \in Handler \ {h} : Kept(k) /\ ~InHand(k, i),
         pc[h] \in Busy => inst[h] = i,
         Hand(h)',
         InHand(h, i)' \/ Settled(i)'
  PROVE  HandsAgree' /\ FaultFreeConsistency'
<1>1. ASSUME NEW k \in Handler PROVE Hand(k)'
  <2>1. CASE k # h /\ pc[k] \in Busy
    <3>1. inst[k] \in Uuid \ {i}
      BY <2>1, BusyInHand DEF Exclusive
    <3>2. Hand(k)
      BY DEF FaultFree, HandsAgree, Hand
    <3>3. QED
      BY <2>1, <3>1, <3>2 DEF Kept, Hand, Live
  <2>2. CASE k # h /\ pc[k] \notin Busy
    BY <2>2 DEF Kept, Hand, Busy
  <2>3. QED
    BY <2>1, <2>2
<1>2. ASSUME NEW j \in Uuid \ {i}
      PROVE  (\E k \in Handler : InHand(k, j)') \/ Settled(j)'
  <2>1. (\E k \in Handler : InHand(k, j)) \/ Settled(j)
    BY DEF FaultFree, FaultFreeConsistency, HandsAgree, InHand, Settled
  <2>2. CASE Settled(j)
    BY <2>2 DEF Settled, ContainerExists, Live
  <2>3. ASSUME NEW k \in Handler, InHand(k, j) PROVE InHand(k, j)'
    <3>1. k # h
      BY <2>3 DEF InHand, Holds, Creates, Busy
    <3>2. QED
      BY <2>3, <3>1 DEF Kept, InHand, Holds, Creates
  <2>4. QED
    BY <2>1, <2>2, <2>3
<1>3. ASSUME NEW j \in Uuid
      PROVE  (\E k \in Handler : InHand(k, j)') \/ Settled(j)'
  BY <1>2
<1>4. HandsAgree'
  BY <1>1 DEF HandsAgree, Hand
<1>5. FaultFreeConsistency'
  BY <1>3 DEF FaultFreeConsistency, InHand, Settled
<1>6. QED
  BY <1>4, <1>5

(* A step that leaves documents, containers and hands as they are.         *)
LEMMA HandsOff ==
  ASSUME Exclusive, FaultFree, faults = 0, UNCHANGED <<db, ctr>>, phase' # "ensure_store",
         \A k \in Handler : Kept(k) \/ (pc[k] \notin Busy /\ pc'[k] \notin Busy)
  PROVE  HandsAgree' /\ FaultFreeConsistency'
<1>1. ASSUME NEW k \in Handler PROVE Hand(k)'
  <2>1. Hand(k)
    BY DEF FaultFree, HandsAgree, Hand
  <2>2. QED
    BY <2>1 DEF Kept, Hand, Live, Busy
<1>2. ASSUME NEW j \in Uuid
      PROVE  (\E k \in Handler : InHand(k, j)') \/ Settled(j)'
  <2>1. (\E k \in Handler : InHand(k, j)) \/ Settled(j)
    BY DEF FaultFree, FaultFreeConsistency, HandsAgree, InHand, Settled
  <2>2. Settled(j) => Settled(j)'
    BY DEF Settled, ContainerExists, Live
  <2>3. ASSUME NEW k \in Handler, InHand(k, j) PROVE InHand(k, j)'
    BY <2>3 DEF Kept, InHand, Holds, Creates, Busy
  <2>4. QED
    BY <2>1, <2>2, <2>3
<1>3. HandsAgree'
  BY <1>1 DEF HandsAgree, Hand
<1>4. FaultFreeConsistency'
  BY <1>2 DEF FaultFreeConsistency, InHand, Settled
<1>5. QED
  BY <1>3, <1>4

(* A new id is in nobody's hands, and has no container.                    *)
LEMMA CreateBeginAgrees ==
  ASSUME Exclusive, FaultFree, faults = 0, NEW h \in Handler, CreateBegin(h)
  PROVE  HandsAgree' /\ FaultFreeConsistency'
<1> USE DEF Exclusive, FaultFree, Shape, TypeOK, LocalsTypeOK
<1>1. Accept(h) /\ UNCHANGED <<db, ctr>> /\ phase' # "ensure_store"
  BY DEF CreateBegin, Accept
<1>2. CASE UNCHANGED localVars
  BY <1>1, <1>2, HandsOff DEF Kept
<1>3. ASSUME NEW i \in Uuid \ used, NEW u \in User, NEW c \in Cfg,
             Goto(h, "create_deploy"),
             inst' = [inst EXCEPT ![h] = i],
             instance' = [instance EXCEPT ![h] = [owner |-> u, service |-> 0, cfg |-> c]],
             UNCHANGED <<seen, batch>>
      PROVE  HandsAgree' /\ FaultFreeConsistency'
  <2>1. \A k \in Handler : ~InHand(k, i)
    BY DEF IdsFresh, Unheard, InHand, HoldersKnow
  <2>2. ctr[i] = NoCtr
    BY <1>1, <2>1 DEF FaultFreeConsistency, HandsAgree, InHand, IdsFresh, Unheard
  <2>3. pc[h] = "idle" /\ pc'[h] = "create_deploy" /\ inst'[h] = i
    BY <1>1, <1>3 DEF Accept, Goto
  <2>4. \A k \in Handler \ {h} : Kept(k)
    BY <1>3 DEF Goto, Kept
  <2>5. Hand(h)' /\ InHand(h, i)'
    BY <1>1, <2>2, <2>3 DEF Hand, InHand, Creates
  <2>6. QED
    BY <1>1, <2>1, <2>3, <2>4, <2>5, HandStep DEF Busy
<1>4. QED
  BY <1>2, <1>3 DEF CreateBegin

(* The container is created as asked for: its name is free.                *)
LEMMA DeployAgrees ==
  ASSUME Exclusive, FaultFree, faults' = 0, faults = 0, NEW h \in Handler, CreateDeploy(h) \/ SetDeploy(h)
  PROVE  HandsAgree' /\ FaultFreeConsistency'
<1> USE DEF Exclusive, FaultFree, Shape, TypeOK, LocalsTypeOK
<1>1. /\ phase' = "serving" /\ UNCHANGED db
      /\ \/ pc[h] = "create_deploy" /\ DeployAndGoto(h, "create_store")
         \/ pc[h] = "set_deploy" /\ DeployAndGoto(h, "set_store")
  BY AtServing DEF CreateDeploy, SetDeploy, At
<1>2. PICK i \in Uuid, c \in Cfg :
        /\ inst[h] = i /\ instance[h].cfg = c
        /\ instance[h] \in Instance /\ InHand(h, i)
  BY <1>1 DEF LocalsOK, Instance, InHand, Holds, Creates
<1>3. ctr[i] = NoCtr
  BY <1>1, <1>2 DEF HandsAgree
<1>4. ~CreateContainerFails(i, c)
  BY <1>3 DEF CreateContainerFails, Fault
<1>5. /\ CreateContainer(i, c)
      /\ instance' = [instance EXCEPT ![h].service = NewId(i)]
      /\ UNCHANGED <<inst, seen, batch>>
      /\ \/ pc[h] = "create_deploy" /\ Goto(h, "create_store")
         \/ pc[h] = "set_deploy" /\ Goto(h, "set_store")
  BY <1>1, <1>2, <1>4 DEF DeployAndGoto
<1>6. /\ NewId(i) \in Nat
      /\ ctr' = [ctr EXCEPT ![i] = [service |-> NewId(i), cfg |-> c, running |-> TRUE]]
  BY <1>2, <1>5 DEF CreateContainer, Deployed, NewId, PlatformTypeOK
<1>7. [service |-> NewId(i), cfg |-> c, running |-> TRUE] \in Container
  BY <1>2, <1>6 DEF Container
<1>8. /\ ctr'[i] = [service |-> NewId(i), cfg |-> c, running |-> TRUE]
      /\ ctr'[i] # NoCtr
      /\ \A j \in Uuid \ {i} : ctr'[j] = ctr[j]
  BY <1>2, <1>6, <1>7 DEF PlatformTypeOK
<1>9. instance'[h].service = NewId(i) /\ instance'[h].cfg = c
  BY <1>2, <1>5, <1>6 DEF Instance
<1>10. Hand(h)' /\ InHand(h, i)'
  BY <1>2, <1>5, <1>8, <1>9 DEF Hand, Goto, Live, InHand, Holds, Creates
<1>11. \A k \in Handler \ {h} : Kept(k) /\ ~InHand(k, i)
  BY <1>2, <1>5, HandsApart DEF Goto, Kept
<1>12. QED
  BY <1>1, <1>2, <1>8, <1>10, <1>11, HandStep

(* The document written is that of the container, or both are gone.        *)
LEMMA StoreAgrees ==
  ASSUME Exclusive, FaultFree, faults' = 0, faults = 0, NEW h \in Handler,
         CreateStore(h) \/ SetStore(h) \/ DeleteStore(h)
  PROVE  HandsAgree' /\ FaultFreeConsistency'
<1> USE DEF Exclusive, FaultFree, Shape, TypeOK, LocalsTypeOK
<1>1. /\ phase' = "serving" /\ UNCHANGED ctr
      /\ pc[h] \in {"create_store", "set_store", "delete_store"}
  BY AtServing DEF CreateStore, SetStore, DeleteStore, At
<1>2. inst[h] \in Uuid /\ InHand(h, inst[h])
  BY <1>1, BusyInHand DEF Busy
<1>3. pc'[h] \notin Busy /\ \A k \in Handler \ {h} : Kept(k) /\ ~InHand(k, inst[h])
  BY <1>2, HandsApart DEF CreateStore, SetStore, DeleteStore, Return, Goto, Kept, Busy
<1>4. Hand(h)
  BY DEF HandsAgree, Hand
<1>5. Hand(h)'
  BY <1>3 DEF Hand, Busy
<1>6. CASE pc[h] \in {"create_store", "set_store"}
  <2>1. db' = [db EXCEPT ![inst[h]] = instance[h]]
    BY <1>6 DEF CreateStore, SetStore, DeleteStore, At, SetInstanceFails, Fault, Upsert
  <2>2. instance[h] # NoRecord
    BY <1>6 DEF LocalsOK
  <2>3. /\ db'[inst[h]] = instance[h]
        /\ \A j \in Uuid \ {inst[h]} : db'[j] = db[j]
    BY <1>2, <2>1 DEF PlatformTypeOK
  <2>4. ASSUME NEW i \in Uuid, i = inst[h] PROVE Settled(i)'
    BY <1>1, <1>4, <1>6, <2>2, <2>3, <2>4 DEF Hand, Settled, ContainerExists, Live
  <2>5. QED
    BY <1>1, <1>2, <1>3, <1>5, <2>3, <2>4, HandStep
<1>7. CASE pc[h] = "delete_store"
  <2>1. db' = [db EXCEPT ![inst[h]] = NoRecord]
    BY <1>7 DEF CreateStore, SetStore, DeleteStore, At, RemoveDocumentFails, Fault,
       RemoveDocument
  <2>2. /\ db'[inst[h]] = NoRecord
        /\ \A j \in Uuid \ {inst[h]} : db'[j] = db[j]
    BY <1>2, <2>1 DEF PlatformTypeOK
  <2>3. ASSUME NEW i \in Uuid, i = inst[h] PROVE Settled(i)'
    BY <1>1, <1>4, <1>7, <2>2, <2>3 DEF Hand, Settled
  <2>4. QED
    BY <1>1, <1>2, <1>3, <1>5, <2>2, <2>3, HandStep
<1>8. QED
  BY <1>1, <1>6, <1>7

(* Whoever gets the removal through has the instance in hand.              *)
LEMMA RemoveAgrees ==
  ASSUME Exclusive, FaultFree, faults' = 0, faults = 0, NEW h \in Handler, SetRemove(h) \/ DeleteRemove(h)
  PROVE  HandsAgree' /\ FaultFreeConsistency'
<1> USE DEF Exclusive, FaultFree, Shape, TypeOK, LocalsTypeOK
<1>1. /\ phase' = "serving" /\ UNCHANGED db
      /\ pc[h] \in {"set_remove", "delete_remove"}
  BY AtServing DEF SetRemove, DeleteRemove, At
<1>2. PICK i \in Uuid :
        /\ seen[h][i] # NoRecord /\ Takes(h, i)
        /\ \/ /\ RemoveContainer(i, seen[h][i].service)
              /\ \/ Goto(h, "set_deploy") /\ inst[h] = i /\ inst' = inst
                 \/ Goto(h, "delete_store") /\ inst' = [inst EXCEPT ![h] = i]
              /\ UNCHANGED <<instance, seen, batch>>
           \/ RemoveContainerFails(i, seen[h][i].service) /\ Return(h)
  <2>1. CASE SetRemove(h)
    BY <2>1 DEF SetRemove, At, LocalsOK, Takes
  <2>2. CASE DeleteRemove(h)
    BY <2>2 DEF DeleteRemove, At, LocalsOK, Takes
  <2>3. QED
    BY <2>1, <2>2
<1>3. CASE /\ RemoveContainer(i, seen[h][i].service)
           /\ \/ Goto(h, "set_deploy") /\ inst[h] = i /\ inst' = inst
              \/ Goto(h, "delete_store") /\ inst' = [inst EXCEPT ![h] = i]
           /\ UNCHANGED <<instance, seen, batch>>
  <2>1. /\ Live(i, seen[h][i].service) /\ db[i] = seen[h][i]
        /\ ctr'[i] = NoCtr /\ \A j \in Uuid \ {i} : ctr'[j] = ctr[j]
    BY <1>2, <1>3 DEF RemoveContainer, Dropped, TakersKnow, PlatformTypeOK
  <2>2. \A k \in Handler : ~InHand(k, i)
    BY <1>2, <2>1 DEF InHand, TakersKnow, IdsFresh, Unheard
  <2>3. pc'[h] \in {"set_deploy", "delete_store"} /\ inst'[h] = i
    BY <1>3 DEF Goto
  <2>4. \A k \in Handler \ {h} : Kept(k)
    BY <1>3 DEF Goto, Kept
  <2>5. Hand(h)' /\ InHand(h, i)'
    BY <2>1, <2>3 DEF Hand, InHand, Holds
  <2>6. QED
    BY <1>1, <2>1, <2>2, <2>4, <2>5, HandStep DEF Busy
<1>4. CASE RemoveContainerFails(i, seen[h][i].service) /\ Return(h)
  <2>1. UNCHANGED ctr
    BY <1>4 DEF RemoveContainerFails, Fault
  <2>2. pc'[h] = "idle" /\ \A k \in Handler \ {h} : Kept(k)
    BY <1>4 DEF Return, Goto, Kept
  <2>3. QED
    BY <1>1, <2>1, <2>2, HandsOff DEF Busy
<1>5. QED
  BY <1>2, <1>3, <1>4

(* Requests that begin by looking, and steps at a document or a permission.*)
LEMMA LookAgrees ==
  ASSUME Exclusive, FaultFree, faults = 0, NEW h \in Handler,
         \/ SetBegin(h) \/ DeleteBegin(h)
         \/ SetRead(h) \/ DeleteRead(h) \/ CreatePermit(h) \/ DeletePermit(h)
  PROVE  HandsAgree' /\ FaultFreeConsistency'
<1> USE DEF Exclusive, FaultFree, Shape, TypeOK, LocalsTypeOK
<1>1. CASE SetBegin(h) \/ DeleteBegin(h)
  <2>1. UNCHANGED <<db, ctr>> /\ phase' # "ensure_store" /\ pc[h] = "idle"
    BY <1>1 DEF SetBegin, DeleteBegin, Accept
  <2>2. \A k \in Handler : Kept(k) \/ (k = h /\ pc'[h] \in {"set_read", "delete_read"})
    BY <1>1 DEF SetBegin, DeleteBegin, Goto, Kept
  <2>3. QED
    BY <2>1, <2>2, HandsOff DEF Busy
<1>2. CASE SetRead(h) \/ DeleteRead(h) \/ CreatePermit(h) \/ DeletePermit(h)
  <2>1. /\ UNCHANGED <<db, ctr>> /\ phase' # "ensure_store"
        /\ pc[h] \in {"set_read", "delete_read", "create_permit", "delete_permit"}
    BY <1>2, AtServing DEF SetRead, DeleteRead, CreatePermit, DeletePermit, At
  <2>2. /\ pc'[h] \in {"idle", "set_remove", "delete_remove"}
        /\ \A k \in Handler \ {h} : Kept(k)
    BY <1>2 DEF SetRead, DeleteRead, CreatePermit, DeletePermit, Return, Goto, Kept
  <2>3. QED
    BY <2>1, <2>2, HandsOff DEF Busy
<1>3. QED
  BY <1>1, <1>2

(* Startup finds every container in its place.                             *)
LEMMA StartupAgrees ==
  ASSUME Exclusive, FaultFree, faults = 0, Startup PROVE HandsAgree' /\ FaultFreeConsistency'
<1> USE DEF Exclusive, FaultFree, Shape, TypeOK
<1>1. phase # "serving" /\ phase # "ensure_store" /\ UNCHANGED localVars
  BY DEF Startup, Start, MigrateGrant, MigrateList, MigrateRevoke, MigrateDone,
     EnsureExists, EnsureDeploy, EnsureStore, EnsureDone, InStartup, HandsAgree
<1>2. ~EnsureDeploy
  <2>1. ASSUME EnsureDeploy PROVE FALSE
    <3>1. PICK i \in scan : ~ContainerExists(i)
      BY <2>1 DEF EnsureDeploy
    <3>2. i \in Uuid /\ db[i] # NoRecord
      BY <2>1 DEF EnsureDeploy, InStartup, StartupOK, Stored
    <3>3. \A h \in Handler : ~Holds(h, i) /\ ~Creates(h, i)
      BY <1>1 DEF StartupOK, Holds, Creates
    <3>4. QED
      BY <1>1, <3>1, <3>2, <3>3 DEF FaultFreeConsistency
  <2>2. QED
    BY <2>1
<1>3. UNCHANGED <<db, ctr>> /\ phase' # "ensure_store"
  BY <1>1, <1>2 DEF Startup, Start, MigrateGrant, MigrateList, MigrateRevoke, MigrateDone,
     EnsureExists, EnsureStore, EnsureDone, InStartup
<1>4. QED
  BY <1>1, <1>3, HandsOff DEF Kept

(* Only an exit that interrupts nothing is without fault.                  *)
LEMMA OutsideAgrees ==
  ASSUME Exclusive, FaultFree, faults = 0, faults' = 0, Stop \/ Crash \/ Environment \/ UNCHANGED vars
  PROVE  HandsAgree' /\ FaultFreeConsistency'
<1>1. CASE Stop
  <2>1. /\ UNCHANGED <<db, ctr>> /\ phase' = "down"
        /\ \A k \in Handler : pc[k] = "idle" /\ pc'[k] = "idle"
    BY <1>1 DEF Stop, Idle, Exit
  <2>2. QED
    BY <2>1, HandsOff DEF Busy
<1>2. CASE UNCHANGED vars
  BY <1>2, HandsOff DEF vars, Kept, FaultFree, HandsAgree
<1>3. ~Crash /\ ~Environment
  BY DEF Crash, Environment, ContainerLost, Fault
<1>4. QED
  BY <1>1, <1>2, <1>3

(* As long as nothing fails, exclusive hands are all it takes.             *)
LEMMA FaultFreeStep ==
  ASSUME Exclusive, FaultFree, [Next]_vars PROVE FaultFree'
<1>1. CASE faults' = 0
  <2>1. faults = 0
    BY <1>1, NoFaultYet DEF Exclusive, Shape, TypeOK, PlatformTypeOK
  <2>2. HandsAgree' /\ FaultFreeConsistency'
    <3>1. ASSUME NEW h \in Handler, Begin(h) PROVE HandsAgree' /\ FaultFreeConsistency'
      BY <2>1, <3>1, CreateBeginAgrees, LookAgrees DEF Begin
    <3>2. ASSUME NEW h \in Handler, Continue(h) PROVE HandsAgree' /\ FaultFreeConsistency'
      BY <1>1, <2>1, <3>2, DeployAgrees, StoreAgrees, RemoveAgrees, LookAgrees DEF Continue
    <3>3. CASE Startup
      BY <2>1, <3>3, StartupAgrees
    <3>4. CASE Stop \/ Crash \/ Environment \/ UNCHANGED vars
      BY <1>1, <2>1, <3>4, OutsideAgrees
    <3>5. QED
      BY <3>1, <3>2, <3>3, <3>4 DEF Next
  <2>3. QED
    BY <2>2 DEF FaultFree
<1>2. CASE faults' # 0
  BY <1>2 DEF FaultFree, HandsAgree, FaultFreeConsistency
<1>3. QED
  BY <1>1, <1>2

(* On a docker daemon they are exclusive by the ids of the containers.     *)
LEMMA DockerExclusive == IInv => Exclusive
<1> SUFFICES ASSUME IInv PROVE Exclusive
  OBVIOUS
<1>1. HoldersKnow
  BY DEF IInv, HolderCurrent, HoldersKnow
<1>2. TakersKnow
  <2> SUFFICES ASSUME NEW h \in Handler, NEW i \in Uuid, Takes(h, i),
                      Live(i, seen[h][i].service)
               PROVE  db[i] = seen[h][i] /\ \A k \in Handler : ~Holds(k, i)
    BY DEF TakersKnow
  <2>1. seen[h][i] # NoRecord
    BY DEF Takes, IInv, Shape, LocalsOK
  <2>2. db[i] = seen[h][i]
    BY <2>1 DEF IInv, StaleIdsDead
  <2>3. QED
    BY <2>2 DEF IInv, HolderCurrent
<1>3. QED
  BY <1>1, <1>2 DEF IInv, Exclusive

LEMMA NextFInv ==
  ASSUME DeployMode = "docker", FInv, [Next]_vars PROVE FInv'
BY NextIInv, DockerExclusive, FaultFreeStep DEF FInv

(* On a docker daemon, FInv always holds.                                  *)
THEOREM FaultFreeInvariant ==
  ASSUME DeployMode = "docker" PROVE Spec => []FInv
<1>1. FInv /\ [Next]_vars => FInv'
  BY NextFInv
<1>2. QED
  BY <1>1, InitFInv, PTL DEF Spec

(* As long as no call has failed, requests may meet as they will: what no  *)
(* handler has in hand has neither document nor container, or a document   *)
(* and its own running container with the document's configuration.        *)
THEOREM FaultFreeConsistencyHolds ==
  ASSUME DeployMode = "docker" PROVE Spec => []FaultFreeConsistency
<1>1. FInv => FaultFreeConsistency
  BY DEF FInv, FaultFree
<1>2. QED
  BY <1>1, FaultFreeInvariant, PTL

=============================================================================
