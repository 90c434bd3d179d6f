---------------------------- MODULE ManagerGrants ----------------------------
(***************************************************************************)
(* The first part holds in both deployment modes, however requests overlap:*)
(* every party names the same owner of an instance, so migrate leaves the  *)
(* right grants; what is stuck stays so until a restart; and without a     *)
(* failed call no container is without a document.                         *)
(*                                                                         *)
(* The second part needs that no two handlers hold one instance            *)
(* (Exclusive): grants last, and the manager keeps the promise of module   *)
(* Registry.  A docker daemon makes Exclusive hold by itself (GInv).  On   *)
(* rancher2 it takes requests of an instance that take turns (BInv), which *)
(* nothing in the code sees to; the third part is about these.             *)
(***************************************************************************)
EXTENDS ManagerProofs

USE PlatformAssumption, ManagerAssumption
USE DEF platformVars, startVars, localVars

-----------------------------------------------------------------------------
(* What each action does to the documents.                                 *)

(* The documents stay as they are.                                         *)
Unwritten == UNCHANGED <<db, gone>>

Added(h) ==
    /\ pc[h] = "create_store"
    /\ pc'[h] \in {"create_permit", "idle"}
    /\ Upsert(inst[h], instance[h])
    /\ UNCHANGED perms

Replaced(h) ==
    /\ pc[h] = "set_store"
    /\ Upsert(inst[h], instance[h])
    /\ UNCHANGED perms

Erased(h) ==
    /\ pc[h] = "delete_store"
    /\ RemoveDocument(inst[h])
    /\ UNCHANGED perms

Renumbered ==
    /\ EnsureStore
    /\ Upsert(cur, [db[cur] EXCEPT !.service = gen[cur]])
    /\ UNCHANGED perms

(* There is nothing else that a step does to them.                         *)
LEMMA Writes ==
  ASSUME Shape, [Next]_vars
  PROVE  \/ Unwritten
         \/ \E h \in Handler : Added(h) \/ Replaced(h) \/ Erased(h)
         \/ Renumbered
<1>1. ASSUME NEW h \in Handler, Begin(h) PROVE Unwritten
  BY <1>1 DEF Begin, CreateBegin, SetBegin, DeleteBegin, Accept, Unwritten
<1>2. ASSUME NEW h \in Handler, Continue(h)
      PROVE  Unwritten \/ Added(h) \/ Replaced(h) \/ Erased(h)
  <2>1. CASE CreateStore(h)
    BY <2>1 DEF CreateStore, At, SetInstanceFails, Unwritten, Added, Return, Goto, Shape,
       TypeOK, LocalsTypeOK
  <2>2. CASE SetStore(h)
    BY <2>2 DEF SetStore, At, SetInstanceFails, Unwritten, Replaced
  <2>3. CASE DeleteStore(h)
    BY <2>3 DEF DeleteStore, At, RemoveDocumentFails, Unwritten, Erased
  <2>4. CASE \/ CreateDeploy(h) \/ CreatePermit(h) \/ SetRead(h) \/ SetRemove(h)
             \/ SetDeploy(h) \/ DeleteRead(h) \/ DeleteRemove(h) \/ DeletePermit(h)
    BY <2>4 DEF CreateDeploy, CreatePermit, SetRead, SetRemove, SetDeploy, DeleteRead,
                DeleteRemove, DeletePermit, Unwritten
  <2>5. QED
    BY <1>2, <2>1, <2>2, <2>3, <2>4 DEF Continue
<1>3. ASSUME Startup PROVE Unwritten \/ Renumbered
  <2>1. CASE EnsureStore
    BY <2>1 DEF EnsureStore, Renumbered
  <2>2. CASE ~EnsureStore
    BY <1>3, <2>2 DEF Startup, Start, MigrateGrant, MigrateList, MigrateRevoke, MigrateDone,
       EnsureExists, EnsureDeploy, EnsureDone, Unwritten
  <2>3. QED
    BY <2>1, <2>2
<1>4. ASSUME Stop \/ Crash \/ Environment \/ UNCHANGED vars PROVE Unwritten
  BY <1>4 DEF Stop, Crash, Exit, Environment, vars, Unwritten
<1>5. QED
  BY <1>1, <1>2, <1>3, <1>4 DEF Next

-----------------------------------------------------------------------------
(* Ids are fresh until their creator has written the document.             *)

(* What a handler learns of a document is what is stored.                  *)
LEMMA SeenSteps ==
  ASSUME Shape, [Next]_vars, NEW k \in Handler, NEW j \in Uuid
  PROVE  seen'[k][j] \in {seen[k][j], NoRecord, db[j]}
<1> USE DEF Shape, TypeOK, LocalsTypeOK
<1>1. CASE UNCHANGED seen
  BY <1>1
<1>2. ASSUME NEW h \in Handler, Return(h) PROVE seen'[k][j] \in {seen[k][j], NoRecord}
  BY <1>2 DEF Return, NothingSeen
<1>3. ASSUME NEW h \in Handler, Begin(h) PROVE UNCHANGED seen
  BY <1>3 DEF Begin, CreateBegin, SetBegin, DeleteBegin
<1>4. ASSUME NEW h \in Handler, Continue(h), ~Return(h)
      PROVE  seen'[k][j] \in {seen[k][j], NoRecord, db[j]}
  <2>1. CASE SetRead(h)
    <3>1. seen' = [seen EXCEPT ![h][inst[h]] = db[inst[h]]] /\ inst[h] \in Uuid
      BY <1>4, <2>1 DEF SetRead, At, LocalsOK
    <3>2. QED
      BY <3>1
  <2>2. CASE DeleteRead(h)
    <3>1. seen' = [seen EXCEPT ![h] =
                     [i \in Uuid |-> IF i \in batch[h] THEN db[i] ELSE NoRecord]]
      BY <1>4, <2>2 DEF DeleteRead
    <3>2. QED
      BY <3>1
  <2>3. CASE ~SetRead(h) /\ ~DeleteRead(h)
    <3>1. UNCHANGED seen
      BY <1>4, <2>3 DEF Continue, CreateDeploy, CreateStore, CreatePermit, SetRemove,
         SetDeploy, SetStore, DeleteRemove, DeleteStore, DeletePermit, DeployAndGoto
    <3>2. QED
      BY <3>1
  <2>4. QED
    BY <2>1, <2>2, <2>3
<1>5. ASSUME Startup \/ Environment \/ UNCHANGED vars PROVE UNCHANGED seen
  BY <1>5 DEF Startup, Start, MigrateGrant, MigrateList, MigrateRevoke, MigrateDone,
     EnsureExists, EnsureDeploy, EnsureStore, EnsureDone, InStartup, Environment, vars
<1>6. CASE Stop \/ Crash
  BY <1>6 DEF Stop, Crash, Exit, NothingSeen
<1>7. QED
  BY <1>1, <1>2, <1>3, <1>4, <1>5, <1>6 DEF Next

(* Only a POST starts to create an instance, under a new id.               *)
LEMMA CreatesSteps ==
  ASSUME Shape, [Next]_vars
  PROVE  /\ used \subseteq used'
         /\ \/ \A k \in Handler, j \in Uuid : Creates(k, j)' => Creates(k, j)
            \/ \E h \in Handler, i \in Uuid \ used :
                  /\ Unwritten /\ used' = used \cup {i} /\ seen' = seen
                  /\ \A k \in Handler, j \in Uuid :
                        Creates(k, j)' => Creates(k, j) \/ (k = h /\ j = i)
<1> USE DEF Shape, TypeOK, LocalsTypeOK
<1>1. ASSUME NEW h \in Handler, CreateBegin(h)
      PROVE  /\ used \subseteq used'
             /\ \/ \A k \in Handler, j \in Uuid : Creates(k, j)' => Creates(k, j)
                \/ \E i \in Uuid \ used :
                      /\ Unwritten /\ used' = used \cup {i} /\ seen' = seen
                      /\ \A k \in Handler, j \in Uuid :
                            Creates(k, j)' => Creates(k, j) \/ (k = h /\ j = i)
  <2>1. CASE UNCHANGED localVars
    BY <1>1, <2>1 DEF CreateBegin, Creates
  <2>2. ASSUME NEW i \in Uuid \ used, used' = used \cup {i}, UNCHANGED <<seen, batch>>,
               Goto(h, "create_deploy"), inst' = [inst EXCEPT ![h] = i]
        PROVE  /\ Unwritten /\ used' = used \cup {i} /\ seen' = seen
               /\ \A k \in Handler, j \in Uuid :
                     Creates(k, j)' => Creates(k, j) \/ (k = h /\ j = i)
    BY <1>1, <2>2 DEF CreateBegin, Accept, Unwritten, Goto, Creates
  <2>3. QED
    BY <1>1, <2>1, <2>2 DEF CreateBegin
<1>2. ASSUME used' = used,
             \A k \in Handler :
                \/ pc'[k] \notin {"create_deploy", "create_store"}
                \/ /\ pc[k] \in {"create_deploy", "create_store"}
                   /\ inst'[k] = inst[k]
      PROVE  /\ used \subseteq used'
             /\ \A k \in Handler, j \in Uuid : Creates(k, j)' => Creates(k, j)
  BY <1>2 DEF Creates
<1>3. ASSUME NEW h \in Handler, SetBegin(h) \/ DeleteBegin(h), NEW k \in Handler
      PROVE  /\ used' = used
             /\ \/ pc'[k] \notin {"create_deploy", "create_store"}
                \/ /\ pc[k] \in {"create_deploy", "create_store"}
                   /\ inst'[k] = inst[k]
  BY <1>3 DEF SetBegin, DeleteBegin, Accept, Goto
<1>4. ASSUME NEW h \in Handler, Continue(h), NEW k \in Handler
      PROVE  /\ used' = used
             /\ \/ pc'[k] \notin {"create_deploy", "create_store"}
                \/ /\ pc[k] \in {"create_deploy", "create_store"}
                   /\ inst'[k] = inst[k]
  BY <1>4 DEF Continue, CreateDeploy, CreateStore, CreatePermit, SetRead, SetRemove,
     SetDeploy, SetStore, DeleteRead, DeleteRemove, DeleteStore, DeletePermit, At,
     DeployAndGoto, Goto, Return
<1>5. ASSUME Startup \/ Environment \/ UNCHANGED vars
      PROVE  used' = used /\ pc' = pc /\ inst' = inst
  BY <1>5 DEF Startup, Start, MigrateGrant, MigrateList, MigrateRevoke, MigrateDone,
     EnsureExists, EnsureDeploy, EnsureStore, EnsureDone, InStartup, Environment, vars
<1>6. ASSUME Stop \/ Crash
      PROVE  used' = used /\ \A k \in Handler : pc'[k] = "idle"
  BY <1>6 DEF Stop, Crash, Exit
<1>7. QED
  BY <1>1, <1>2, <1>3, <1>4, <1>5, <1>6 DEF Next, Begin

(* An id that nobody has heard of becomes known by the write of its creator*)
(* only.                                                                   *)
LEMMA UnheardSteps ==
  ASSUME Shape, IdsFresh, [Next]_vars, NEW j \in Uuid, Unheard(j)
  PROVE  \/ Unheard(j)'
         \/ \E h \in Handler : Creates(h, j) /\ ~Creates(h, j)'
<1> USE DEF Shape, TypeOK, PlatformTypeOK
<1>1. \A k \in Handler : seen'[k][j] = NoRecord
  BY SeenSteps DEF Unheard
<1>2. CASE Unwritten
  BY <1>1, <1>2 DEF Unwritten, Unheard
<1>3. ASSUME NEW h \in Handler, Added(h)
      PROVE  Unheard(j)' \/ (Creates(h, j) /\ ~Creates(h, j)')
  <2>1. db' = [db EXCEPT ![inst[h]] = instance[h]] /\ gone' = gone
    BY <1>3 DEF Added, Upsert
  <2>2. inst[h] = j => Creates(h, j) /\ ~Creates(h, j)'
    BY <1>3 DEF Added, Creates
  <2>3. inst[h] # j => Unheard(j)'
    BY <1>1, <2>1 DEF Unheard
  <2>4. QED
    BY <2>2, <2>3
<1>4. ASSUME NEW h \in Handler, Replaced(h) \/ Erased(h) PROVE Unheard(j)'
  <2>1. \/ db' = [db EXCEPT ![inst[h]] = instance[h]] /\ gone' = gone
        \/ db' = [db EXCEPT ![inst[h]] = NoRecord] /\ gone' = gone \cup {inst[h]}
    BY <1>4 DEF Replaced, Erased, Upsert, RemoveDocument
  <2>2. inst[h] \in Uuid /\ seen[h][inst[h]] # NoRecord
    BY <1>4 DEF Replaced, Erased, LocalsTypeOK, LocalsOK
  <2>3. inst[h] # j
    BY <2>2 DEF Unheard
  <2>4. QED
    BY <1>1, <2>1, <2>3 DEF Unheard
<1>5. CASE Renumbered
  <2>1. cur \in Stored /\ gone' = gone
    BY <1>5 DEF Renumbered, EnsureStore, InStartup, StartupOK, Upsert
  <2>2. cur # j /\ db' = [db EXCEPT ![cur] = [db[cur] EXCEPT !.service = gen[cur]]]
    BY <1>5, <2>1 DEF Renumbered, Upsert, Unheard, Stored
  <2>3. QED
    BY <1>1, <2>1, <2>2 DEF Unheard
<1>6. QED
  BY <1>2, <1>3, <1>4, <1>5, Writes

LEMMA IdsFreshStep ==
  ASSUME Shape, IdsFresh, [Next]_vars PROVE IdsFresh'
<1>1. Shape /\ IdsFresh
  OBVIOUS
<1>2. ASSUME NEW j \in Uuid, j \notin used PROVE Unheard(j)'
  BY <1>1, <1>2, UnheardSteps DEF IdsFresh
<1>3. ASSUME NEW j \in Uuid, NEW k \in Handler, Creates(k, j), Creates(k, j)'
      PROVE  Unheard(j)'
  BY <1>1, <1>3, UnheardSteps DEF IdsFresh
<1>4. CASE \A k \in Handler, j \in Uuid : Creates(k, j)' => Creates(k, j)
  <2>1. used \subseteq used'
    BY <1>1, CreatesSteps
  <2>2. ASSUME NEW j \in Uuid, j \notin used'
        PROVE  Unheard(j)' /\ \A k \in Handler : ~Creates(k, j)'
    BY <1>1, <1>2, <1>4, <2>1, <2>2 DEF IdsFresh
  <2>3. ASSUME NEW j \in Uuid, NEW k \in Handler, Creates(k, j)'
        PROVE  Unheard(j)' /\ \A l \in Handler : Creates(l, j)' => l = k
    BY <1>1, <1>3, <1>4, <2>3 DEF IdsFresh
  <2>4. QED
    BY <2>2, <2>3 DEF IdsFresh
<1>5. ASSUME NEW h \in Handler, NEW i \in Uuid \ used,
             used' = used \cup {i},
             \A k \in Handler, j \in Uuid :
                Creates(k, j)' => Creates(k, j) \/ (k = h /\ j = i)
      PROVE  IdsFresh'
  <2>1. \A k \in Handler : ~Creates(k, i)
    BY <1>1 DEF IdsFresh
  <2>2. ASSUME NEW j \in Uuid, j \notin used'
        PROVE  Unheard(j)' /\ \A k \in Handler : ~Creates(k, j)'
    BY <1>1, <1>2, <1>5, <2>2 DEF IdsFresh
  <2>3. ASSUME NEW j \in Uuid, NEW k \in Handler, Creates(k, j)'
        PROVE  Unheard(j)' /\ \A l \in Handler : Creates(l, j)' => l = k
    BY <1>1, <1>2, <1>3, <1>5, <2>1, <2>3 DEF IdsFresh
  <2>4. QED
    BY <2>2, <2>3 DEF IdsFresh
<1>6. QED
  BY <1>1, <1>4, <1>5, CreatesSteps

-----------------------------------------------------------------------------
(* One owner.                                                              *)

(* The permission of a full id: kept, removed, or granted by migrate.      *)
LEMMA PermissionSteps ==
  ASSUME Shape, [Next]_vars, NEW i \in Uuid, perms'[FullId(i)] # perms[FullId(i)]
  PROVE  \/ /\ perms'[FullId(i)] = Nobody
            /\ \/ \E h \in Handler : pc[h] = "delete_permit" /\ inst[h] = i
               \/ phase = "revoke" /\ FullId(i) \in stale
         \/ /\ MigrateGrant
            /\ db[i] # NoRecord
            /\ perms[FullId(i)] = Nobody
            /\ perms'[FullId(i)] = db[i].owner
<1> USE DEF Shape, TypeOK, PlatformTypeOK
<1>1. FullId(i) \in Resource /\ \A j \in Uuid : /\ RawId(j) # FullId(i)
                                              /\ (FullId(j) = FullId(i) => j = i)
  BY DEF Resource, FullId, RawId
<1>2. ASSUME NEW h \in Handler, Begin(h) PROVE FALSE
  BY <1>2 DEF Begin, CreateBegin, SetBegin, DeleteBegin, Accept
<1>3. ASSUME NEW h \in Handler, Continue(h)
      PROVE  perms'[FullId(i)] = Nobody /\ pc[h] = "delete_permit" /\ inst[h] = i
  <2>1. CASE CreatePermit(h)
    <3>1. inst[h] \in Uuid
      BY <2>1 DEF CreatePermit, At, LocalsOK
    <3>2. QED
      BY <1>1, <2>1, <3>1 DEF CreatePermit, SetPermission
  <2>2. CASE DeletePermit(h)
    <3>1. /\ inst[h] \in Uuid /\ pc[h] = "delete_permit"
          /\ perms' = [perms EXCEPT ![FullId(inst[h])] = Nobody] \/ perms' = perms
      BY <2>2 DEF DeletePermit, At, LocalsTypeOK, LocalsOK, RemoveResource
    <3>2. QED
      BY <1>1, <3>1
  <2>3. CASE ~CreatePermit(h) /\ ~DeletePermit(h)
    BY <1>3, <2>3 DEF Continue, CreateDeploy, CreateStore, SetRead, SetRemove, SetDeploy,
       SetStore, DeleteRead, DeleteRemove, DeleteStore
  <2>4. QED
    BY <2>1, <2>2, <2>3
<1>4. CASE MigrateGrant
  <2>1. PICK j \in scan :
          IF perms[FullId(j)] = Nobody
          THEN SetPermission(FullId(j), db[j].owner)
          ELSE UNCHANGED perms
    BY <1>4 DEF MigrateGrant
  <2>2. j \in Uuid /\ db[j] # NoRecord
    BY <1>4 DEF MigrateGrant, InStartup, StartupOK, Stored
  <2>3. QED
    BY <1>1, <1>4, <2>1, <2>2 DEF SetPermission
<1>5. CASE MigrateRevoke
  BY <1>1, <1>5 DEF MigrateRevoke, RemoveResource, InStartup
<1>6. CASE Startup /\ ~MigrateGrant /\ ~MigrateRevoke
  BY <1>6 DEF Startup, Start, MigrateList, MigrateDone, EnsureExists, EnsureDeploy,
     EnsureStore, EnsureDone
<1>7. CASE Stop \/ Crash \/ Environment \/ UNCHANGED vars
  BY <1>7 DEF Stop, Crash, Exit, Environment, vars
<1>8. QED
  BY <1>2, <1>3, <1>4, <1>5, <1>6, <1>7 DEF Next

(* The owner in the hands of a handler that is to write a document: it was *)
(* there, or has just been read from the document.                         *)
LEMMA HandSteps ==
  ASSUME Shape, [Next]_vars, NEW k \in Handler, ~CreateBegin(k), pc'[k] \in ToWrite
  PROVE  /\ inst[k] \in Uuid /\ inst'[k] = inst[k]
         /\ \/ pc[k] \in ToWrite /\ instance'[k].owner = instance[k].owner
            \/ db[inst[k]] # NoRecord /\ instance'[k].owner = db[inst[k]].owner
<1> USE DEF Shape, TypeOK, LocalsTypeOK, ToWrite
<1>1. ASSUME Kept(k)
      PROVE  /\ inst[k] \in Uuid /\ inst'[k] = inst[k]
             /\ pc[k] \in ToWrite /\ instance'[k].owner = instance[k].owner
  BY <1>1 DEF Kept, LocalsOK
<1>2. ASSUME NEW h \in Handler, Begin(h) PROVE Kept(k)
  <2>1. CASE k # h
    BY <1>2, <2>1 DEF Begin, CreateBegin, SetBegin, DeleteBegin, Accept, Goto, Kept
  <2>2. CASE k = h
    <3>1. SetBegin(k) \/ DeleteBegin(k)
      BY <1>2, <2>2 DEF Begin
    <3>2. Kept(k) \/ pc'[k] \in {"set_read", "delete_read"}
      BY <3>1 DEF SetBegin, DeleteBegin, Goto, Kept
    <3>3. QED
      BY <3>2
  <2>3. QED
    BY <2>1, <2>2
<1>3. ASSUME NEW h \in Handler, Continue(h), k # h PROVE Kept(k)
  BY <1>3 DEF Continue, CreateDeploy, CreateStore, CreatePermit, SetRead, SetRemove,
     SetDeploy, SetStore, DeleteRead, DeleteRemove, DeleteStore, DeletePermit,
     DeployAndGoto, Goto, Return, Kept
<1>4. ~Return(k)
  BY DEF Return, Goto
<1>5. CASE CreateDeploy(k) \/ SetDeploy(k)
  <2>1. instance[k] \in Instance /\ inst[k] \in Uuid /\ pc[k] \in ToWrite
    BY <1>5 DEF CreateDeploy, SetDeploy, At, LocalsOK
  <2>2. instance' = [instance EXCEPT ![k].service = NewId(inst[k])] /\ UNCHANGED inst
    BY <1>4, <1>5 DEF CreateDeploy, SetDeploy, DeployAndGoto
  <2>3. instance'[k].owner = instance[k].owner
    BY <2>1, <2>2 DEF Instance
  <2>4. QED
    BY <2>1, <2>2, <2>3
<1>6. CASE SetRead(k)
  <2>1. instance[k] \in Instance /\ inst[k] \in Uuid
    BY <1>6 DEF SetRead, At, LocalsOK
  <2>2. /\ db[inst[k]] # NoRecord /\ inst' = inst
        /\ instance' = [instance EXCEPT ![k].owner = db[inst[k]].owner]
    BY <1>4, <1>6 DEF SetRead
  <2>3. instance'[k].owner = db[inst[k]].owner
    BY <2>1, <2>2 DEF Instance
  <2>4. QED
    BY <2>1, <2>2, <2>3
<1>7. CASE SetRemove(k)
  BY <1>4, <1>7 DEF SetRemove, At, LocalsOK
<1>8. CASE \/ CreateStore(k) \/ CreatePermit(k) \/ SetStore(k)
           \/ DeleteRead(k) \/ DeleteRemove(k) \/ DeleteStore(k) \/ DeletePermit(k)
  <2>1. pc'[k] \in {"create_permit", "delete_remove", "delete_store", "delete_permit"}
    BY <1>4, <1>8 DEF CreateStore, CreatePermit, SetStore, DeleteRead, DeleteRemove,
       DeleteStore, DeletePermit, Goto
  <2>2. QED
    BY <2>1
<1>9. CASE Continue(k)
  BY <1>5, <1>6, <1>7, <1>8, <1>9 DEF Continue
<1>10. ASSUME Startup \/ Environment \/ UNCHANGED vars PROVE Kept(k)
  BY <1>10 DEF Startup, Start, MigrateGrant, MigrateList, MigrateRevoke, MigrateDone,
     EnsureExists, EnsureDeploy, EnsureStore, EnsureDone, InStartup, Environment, vars, Kept
<1>11. ASSUME Stop \/ Crash PROVE FALSE
  BY <1>11 DEF Stop, Crash, Exit
<1>12. QED
  BY <1>1, <1>2, <1>3, <1>9, <1>10, <1>11 DEF Next

(* A document is written with an owner somebody named.                     *)
LEMMA StoredOwnerSteps ==
  ASSUME Shape, [Next]_vars, NEW i \in Uuid, db'[i] # NoRecord
  PROVE  NamedOwner(i, db'[i].owner)
<1> USE DEF Shape, TypeOK, PlatformTypeOK
<1>1. CASE db'[i] = db[i]
  BY <1>1 DEF NamedOwner
<1>2. ASSUME NEW h \in Handler, Added(h) \/ Replaced(h), db'[i] # db[i]
      PROVE  NamedOwner(i, db'[i].owner)
  <2>1. db' = [db EXCEPT ![inst[h]] = instance[h]] /\ pc[h] \in ToWrite
    BY <1>2 DEF Added, Replaced, Upsert, ToWrite
  <2>2. inst[h] = i /\ db'[i] = instance[h]
    BY <1>2, <2>1
  <2>3. QED
    BY <2>1, <2>2 DEF NamedOwner
<1>3. ASSUME NEW h \in Handler, Erased(h) PROVE db'[i] = db[i]
  BY <1>3 DEF Erased, RemoveDocument
<1>4. ASSUME Renumbered, db'[i] # db[i] PROVE NamedOwner(i, db'[i].owner)
  <2>1. cur = i /\ db[i] # NoRecord /\ db'[i] = [db[i] EXCEPT !.service = gen[cur]]
    BY <1>4 DEF Renumbered, Upsert, EnsureStore, InStartup, StartupOK, Stored
  <2>2. db'[i].owner = db[i].owner
    BY <2>1 DEF Instance
  <2>3. QED
    BY <2>1, <2>2 DEF NamedOwner
<1>5. QED
  BY <1>1, <1>2, <1>3, <1>4, Writes DEF Unwritten

(* Nobody names an owner but one who was named before, or whose POST has   *)
(* just been given the id.                                                 *)
LEMMA NamedSteps ==
  ASSUME Shape, [Next]_vars, NEW i \in Uuid, NEW u \in User \cup {Nobody}, NamedOwner(i, u)'
  PROVE  \/ NamedOwner(i, u)
         \/ \E k \in Handler :
               /\ CreateBegin(k) /\ pc'[k] \in ToWrite
               /\ inst'[k] = i /\ instance'[k].owner = u
<1>1. CASE db'[i] # NoRecord /\ db'[i].owner = u
  BY <1>1, StoredOwnerSteps
<1>2. ASSUME NEW k \in Handler, seen'[k][i] # NoRecord, seen'[k][i].owner = u
      PROVE  NamedOwner(i, u)
  <2>1. seen'[k][i] \in {seen[k][i], db[i]}
    BY <1>2, SeenSteps
  <2>2. QED
    BY <1>2, <2>1 DEF NamedOwner
<1>3. ASSUME NEW k \in Handler, inst'[k] = i, pc'[k] \in ToWrite, instance'[k].owner = u,
             ~CreateBegin(k)
      PROVE  NamedOwner(i, u)
  BY <1>3, HandSteps DEF NamedOwner
<1>4. ASSUME u # Nobody, perms'[FullId(i)] = u PROVE NamedOwner(i, u)
  <2>1. CASE perms'[FullId(i)] = perms[FullId(i)]
    BY <1>4, <2>1 DEF NamedOwner
  <2>2. CASE perms'[FullId(i)] # perms[FullId(i)]
    <3>1. db[i] # NoRecord /\ perms'[FullId(i)] = db[i].owner
      BY <1>4, <2>2, PermissionSteps
    <3>2. QED
      BY <1>4, <3>1 DEF NamedOwner
  <2>3. QED
    BY <2>1, <2>2
<1>5. QED
  BY <1>1, <1>2, <1>3, <1>4 DEF NamedOwner

(* Of an id that was not given out there is no owner.                      *)
LEMMA NoneNamed ==
  ASSUME Shape, IdsFresh, GrantedUsed, NEW i \in Uuid \ used, NEW u PROVE ~NamedOwner(i, u)
<1>1. db[i] = NoRecord /\ \A h \in Handler : seen[h][i] = NoRecord
  BY DEF IdsFresh, Unheard
<1>2. ASSUME NEW h \in Handler, inst[h] = i, pc[h] \in ToWrite PROVE FALSE
  <2>1. pc[h] \in {"set_remove", "set_deploy", "set_store"}
    BY <1>2 DEF IdsFresh, Creates, ToWrite
  <2>2. seen[h][i] # NoRecord
    BY <1>2, <2>1 DEF Shape, LocalsOK
  <2>3. QED
    BY <1>1, <2>2
<1>3. QED
  BY <1>1, <1>2 DEF GrantedUsed, NamedOwner

LEMMA OneOwnerStep ==
  ASSUME Shape, IdsFresh, OneOwner, GrantedUsed, [Next]_vars PROVE OneOwner'
<1>1. ASSUME \A h \in Handler : ~CreateBegin(h) PROVE OneOwner'
  BY <1>1, NamedSteps DEF OneOwner
<1>2. ASSUME NEW h \in Handler, CreateBegin(h) PROVE OneOwner'
  <2>1. CASE UNCHANGED localVars
    <3>1. UNCHANGED <<db, perms>>
      BY <1>2 DEF CreateBegin, Accept
    <3>2. \A i, u : NamedOwner(i, u)' <=> NamedOwner(i, u)
      BY <2>1, <3>1 DEF NamedOwner
    <3>3. QED
      BY <3>2 DEF OneOwner
  <2>2. CASE ~UNCHANGED localVars
    <3>1. PICK i \in Uuid \ used, w \in User, c \in Cfg :
            /\ Goto(h, "create_deploy")
            /\ inst' = [inst EXCEPT ![h] = i]
            /\ instance' = [instance EXCEPT ![h] =
                              [owner |-> w, service |-> 0, cfg |-> c]]
            /\ UNCHANGED <<seen, batch>>
      BY <1>2, <2>2 DEF CreateBegin
    <3>2. UNCHANGED <<db, perms>>
      BY <1>2 DEF CreateBegin, Accept
    <3>3. ASSUME NEW j \in Uuid, NEW u \in User \cup {Nobody}, NamedOwner(j, u)'
          PROVE  NamedOwner(j, u) \/ (j = i /\ u = w)
      <4>1. ASSUME NEW k \in Handler, inst'[k] = j, pc'[k] \in ToWrite,
                   instance'[k].owner = u
            PROVE  NamedOwner(j, u) \/ (j = i /\ u = w)
        <5>1. CASE k = h
          BY <3>1, <4>1, <5>1 DEF Shape, TypeOK, LocalsTypeOK
        <5>2. CASE k # h
          <6>1. inst'[k] = inst[k] /\ pc'[k] = pc[k] /\ instance'[k] = instance[k]
            BY <3>1, <5>2 DEF Goto, Shape, TypeOK, LocalsTypeOK
          <6>2. QED
            BY <4>1, <6>1 DEF NamedOwner
        <5>3. QED
          BY <5>1, <5>2
      <4>2. QED
        BY <3>1, <3>2, <3>3, <4>1 DEF NamedOwner
    <3>4. \A u : ~NamedOwner(i, u)
      BY NoneNamed
    <3>5. w # Nobody
      OBVIOUS
    <3>6. QED
      BY <3>3, <3>4, <3>5 DEF OneOwner
  <2>3. QED
    BY <2>1, <2>2
<1>3. QED
  BY <1>1, <1>2

(* The owner of a document is a user, and so is the one to be stored.      *)
LEMMA OwnersAreUsers ==
  ASSUME Shape, OneOwner
  PROVE  /\ \A i \in Stored : db[i] \in Instance /\ db[i].owner \in User
         /\ \A h \in Handler :
               pc[h] \in ToWrite =>
                  /\ inst[h] \in Uuid /\ instance[h] \in Instance
                  /\ instance[h].owner \in User
                  /\ NamedOwner(inst[h], instance[h].owner)
<1> USE DEF Shape, TypeOK, PlatformTypeOK, LocalsTypeOK
<1>1. ASSUME NEW i \in Stored PROVE db[i] \in Instance /\ db[i].owner \in User
  <2>1. i \in Uuid /\ db[i] \in Instance /\ NamedOwner(i, db[i].owner)
    BY <1>1 DEF Stored, NamedOwner
  <2>2. db[i].owner \in User \cup {Nobody}
    BY <2>1 DEF Instance
  <2>3. QED
    BY <2>1, <2>2 DEF OneOwner
<1>2. ASSUME NEW h \in Handler, pc[h] \in ToWrite
      PROVE  /\ inst[h] \in Uuid /\ instance[h] \in Instance
             /\ instance[h].owner \in User
             /\ NamedOwner(inst[h], instance[h].owner)
  <2>1. inst[h] \in Uuid /\ instance[h] \in Instance
    BY <1>2 DEF LocalsOK, ToWrite
  <2>2. instance[h].owner \in User \cup {Nobody}
    BY <2>1 DEF Instance
  <2>3. NamedOwner(inst[h], instance[h].owner)
    BY <1>2 DEF NamedOwner
  <2>4. QED
    BY <2>1, <2>2, <2>3 DEF OneOwner
<1>3. QED
  BY <1>1, <1>2

(* Only what is stored is granted, and only what was given out is stored.  *)
LEMMA GrantedUsedStep ==
  ASSUME Shape, IdsFresh, GrantedUsed, [Next]_vars PROVE GrantedUsed'
<1> SUFFICES ASSUME NEW i \in Uuid, perms'[FullId(i)] # Nobody PROVE i \in used'
  BY DEF GrantedUsed
<1>1. used \subseteq used'
  BY CreatesSteps
<1>2. perms[FullId(i)] # Nobody \/ db[i] # NoRecord
  BY PermissionSteps
<1>3. i \in used
  BY <1>2 DEF GrantedUsed, IdsFresh, Unheard
<1>4. QED
  BY <1>1, <1>3

LEMMA MigrateProgressStep ==
  ASSUME Shape, OneOwner, MigrateProgress, [Next]_vars PROVE MigrateProgress'
<1> USE DEF Shape, TypeOK, PlatformTypeOK
<1>1. \A i \in Uuid : FullId(i) \in Resource /\ \A j \in Uuid : FullId(j) = FullId(i) => j = i
  BY DEF Resource, FullId
<1>2. CASE Start
  BY <1>2 DEF Start, MigrateProgress, Stored
<1>3. CASE MigrateGrant
  <2>1. PICK j \in scan :
          /\ IF perms[FullId(j)] = Nobody
             THEN SetPermission(FullId(j), db[j].owner)
             ELSE UNCHANGED perms
          /\ scan' = scan \ {j}
    BY <1>3 DEF MigrateGrant
  <2>2. j \in Stored /\ j \in Uuid
    BY <1>3 DEF MigrateGrant, InStartup, StartupOK, Stored
  <2>3. db[j].owner \in User
    BY <2>2, OwnersAreUsers
  <2>4. perms'[FullId(j)] # Nobody
    BY <1>1, <2>1, <2>2, <2>3 DEF SetPermission
  <2>5. \A i \in Uuid : perms[FullId(i)] # Nobody => perms'[FullId(i)] # Nobody
    BY <1>1, <2>1, <2>2, <2>3 DEF SetPermission
  <2>6. phase = "grant" /\ phase' = "grant" /\ Stored' = Stored
    BY <1>3 DEF MigrateGrant, InStartup, Stored
  <2>7. \A i \in Stored \ scan' : perms'[FullId(i)] # Nobody
    BY <2>1, <2>4, <2>5, <2>6 DEF MigrateProgress, Stored
  <2>8. QED
    BY <2>6, <2>7 DEF MigrateProgress
<1>4. CASE MigrateList
  <2>1. /\ phase = "grant" /\ scan \subseteq Tied
        /\ phase' = "revoke" /\ UNCHANGED <<db, perms>>
        /\ stale' = {r \in Resource : perms[r] # Nobody} \ Listed
    BY <1>4 DEF MigrateList, InStartup, PassEnds
  <2>2. \A i \in Stored \ Tied : perms[FullId(i)] # Nobody /\ FullId(i) \in Listed
    BY <2>1 DEF MigrateProgress, Listed
  <2>3. Listed \subseteq StoredResources
    BY DEF Listed, StoredResources
  <2>4. Stored' = Stored /\ StoredResources' = StoredResources
    BY <2>1 DEF Stored, StoredResources
  <2>5. QED
    BY <2>1, <2>2, <2>3, <2>4 DEF MigrateProgress
<1>5. CASE MigrateRevoke
  <2>1. PICK q \in stale : RemoveResource(q) /\ stale' = stale \ {q}
    BY <1>5 DEF MigrateRevoke
  <2>2. phase = "revoke" /\ phase' = "revoke" /\ UNCHANGED db
    BY <1>5 DEF MigrateRevoke, InStartup
  <2>3. Stored' = Stored /\ StoredResources' = StoredResources
    BY <2>2 DEF Stored, StoredResources
  <2>4. \A r \in Resource : perms'[r] = IF r = q THEN Nobody ELSE perms[r]
    BY <2>1 DEF RemoveResource
  <2>5. \A i \in Stored \ Tied : FullId(i) # q
    BY <2>1, <2>2 DEF MigrateProgress
  <2>6. \A i \in Stored \ Tied : perms'[FullId(i)] # Nobody /\ FullId(i) \notin stale'
    BY <1>1, <2>1, <2>2, <2>4, <2>5 DEF MigrateProgress, Stored
  <2>7. \A r \in Resource : perms'[r] # Nobody => r \in StoredResources \cup stale'
    BY <2>1, <2>2, <2>4 DEF MigrateProgress
  <2>8. QED
    BY <2>2, <2>3, <2>6, <2>7 DEF MigrateProgress
<1>6. CASE phase' \notin {"grant", "revoke"}
  BY <1>6 DEF MigrateProgress
<1>7. CASE UNCHANGED <<phase, scan, stale, db, perms>>
  BY <1>7 DEF MigrateProgress, Stored, StoredResources
<1>8. ASSUME NEW h \in Handler, Begin(h) \/ Continue(h) PROVE phase' = "serving"
  BY <1>8 DEF Begin, CreateBegin, SetBegin, DeleteBegin, Accept, Continue, CreateDeploy,
     CreateStore, CreatePermit, SetRead, SetRemove, SetDeploy, SetStore, DeleteRead,
     DeleteRemove, DeleteStore, DeletePermit, At, StartupOK
<1>9. CASE MigrateDone \/ EnsureExists \/ EnsureDeploy \/ EnsureStore \/ EnsureDone
  <2>1. phase' \notin {"grant", "revoke"}
    BY <1>9 DEF MigrateDone, EnsureExists, EnsureDeploy, EnsureStore, EnsureDone, InStartup
  <2>2. QED
    BY <1>6, <2>1
<1>10. CASE Stop \/ Crash
  BY <1>6, <1>10 DEF Stop, Crash, Exit
<1>11. CASE Environment \/ UNCHANGED vars
  BY <1>7, <1>11 DEF Environment, vars
<1>12. QED
  BY <1>2, <1>3, <1>4, <1>5, <1>6, <1>8, <1>9, <1>10, <1>11 DEF Next, Startup

LEMMA OwnersStep ==
  ASSUME Shape, IdsFresh, Owners, [Next]_vars PROVE Owners'
BY OneOwnerStep, GrantedUsedStep, MigrateProgressStep DEF Owners

-----------------------------------------------------------------------------
(* One id, of a rancher2 workload.                                         *)

LEMMA OneIdStep ==
  ASSUME Shape, OneId, [Next]_vars PROVE OneId'
<1> USE DEF Shape, TypeOK, PlatformTypeOK
<1> SUFFICES ASSUME DeployMode = "rancher2" PROVE OneId'
  BY DEF OneId
<1>0. \A i \in Uuid : NewId(i) = 1
  BY DEF NewId
<1>1. ASSUME NEW i \in Stored' PROVE db'[i].service = 1
  <2>1. i \in Uuid /\ db'[i] # NoRecord
    BY DEF Stored
  <2>2. db[i] # NoRecord => db[i].service = 1
    BY <2>1 DEF OneId, Stored
  <2>3. CASE Unwritten
    BY <2>1, <2>2, <2>3 DEF Unwritten
  <2>4. ASSUME NEW h \in Handler, Added(h) \/ Replaced(h) PROVE db'[i].service = 1
    <3>1. db' = [db EXCEPT ![inst[h]] = instance[h]] /\ pc[h] \in {"create_store", "set_store"}
      BY <2>4 DEF Added, Replaced, Upsert
    <3>2. instance[h].service = 1
      BY <3>1 DEF OneId
    <3>3. QED
      BY <2>1, <2>2, <3>1, <3>2
  <2>5. ASSUME NEW h \in Handler, Erased(h) PROVE db'[i].service = 1
    BY <2>1, <2>2, <2>5 DEF Erased, RemoveDocument
  <2>6. CASE Renumbered
    <3>1. /\ db' = [db EXCEPT ![cur] = [db[cur] EXCEPT !.service = gen[cur]]]
          /\ gen[cur] = 1 /\ cur \in Uuid /\ db[cur] \in Instance
      BY <2>6 DEF Renumbered, Upsert, EnsureStore, InStartup, StartupOK, Stored, OneId
    <3>2. [db[cur] EXCEPT !.service = gen[cur]].service = 1
      BY <3>1 DEF Instance
    <3>3. QED
      BY <2>1, <2>2, <3>1, <3>2
  <2>7. QED
    BY <2>3, <2>4, <2>5, <2>6, Writes
<1>2. ASSUME NEW k \in Handler, NEW i \in Uuid, seen'[k][i] # NoRecord
      PROVE  seen'[k][i].service = 1
  <2>1. seen'[k][i] \in {seen[k][i], db[i]}
    BY <1>2, SeenSteps
  <2>2. QED
    BY <1>2, <2>1 DEF OneId, Stored
<1>3. ASSUME NEW k \in Handler, pc'[k] \in {"create_store", "set_store"}
      PROVE  instance'[k].service = 1
  <2> USE DEF LocalsTypeOK
  <2>1. CASE Kept(k)
    BY <1>3, <2>1 DEF Kept, OneId
  <2>2. ASSUME NEW h \in Handler, Begin(h) PROVE Kept(k)
    BY <1>3, <2>2 DEF Begin, CreateBegin, SetBegin, DeleteBegin, Accept, Goto, Kept
  <2>3. ASSUME NEW h \in Handler, Continue(h), k # h PROVE Kept(k)
    BY <2>3 DEF Continue, CreateDeploy, CreateStore, CreatePermit, SetRead, SetRemove,
       SetDeploy, SetStore, DeleteRead, DeleteRemove, DeleteStore, DeletePermit,
       DeployAndGoto, Goto, Return, Kept
  <2>4. CASE Continue(k)
    <3>1. ~Return(k)
      BY <1>3 DEF Return, Goto
    <3>2. CreateDeploy(k) \/ SetDeploy(k)
      BY <1>3, <2>4, <3>1 DEF Continue, CreateStore, CreatePermit, SetRead, SetRemove,
         SetStore, DeleteRead, DeleteRemove, DeleteStore, DeletePermit, Goto
    <3>3. instance[k] \in Instance /\ inst[k] \in Uuid
      BY <3>2 DEF CreateDeploy, SetDeploy, At, LocalsOK
    <3>4. instance' = [instance EXCEPT ![k].service = NewId(inst[k])]
      BY <3>1, <3>2 DEF CreateDeploy, SetDeploy, DeployAndGoto
    <3>5. QED
      BY <1>0, <3>3, <3>4 DEF Instance
  <2>5. ASSUME Startup \/ Environment \/ UNCHANGED vars PROVE Kept(k)
    BY <2>5 DEF Startup, Start, MigrateGrant, MigrateList, MigrateRevoke, MigrateDone,
       EnsureExists, EnsureDeploy, EnsureStore, EnsureDone, InStartup, Environment, vars, Kept
  <2>6. ASSUME Stop \/ Crash PROVE FALSE
    BY <1>3, <2>6 DEF Stop, Crash, Exit
  <2>7. QED
    BY <2>1, <2>2, <2>3, <2>4, <2>5, <2>6 DEF Next
<1>4. ASSUME phase' = "ensure_store" PROVE gen'[cur'] = 1
  <2>1. CASE EnsureDeploy
    <3>1. PICK i \in scan : CreateContainer(i, db[i].cfg) /\ cur' = i
      BY <1>4, <2>1 DEF EnsureDeploy
    <3>2. i \in Uuid
      BY <2>1 DEF EnsureDeploy, InStartup, StartupOK, Stored
    <3>3. QED
      BY <1>0, <3>1, <3>2 DEF CreateContainer, Deployed
  <2>2. CASE UNCHANGED <<phase, cur, gen>>
    BY <1>4, <2>2 DEF OneId
  <2>3. ASSUME NEW h \in Handler, Begin(h) \/ Continue(h) PROVE FALSE
    BY <1>4, <2>3 DEF Begin, CreateBegin, SetBegin, DeleteBegin, Accept, Continue,
       CreateDeploy, CreateStore, CreatePermit, SetRead, SetRemove, SetDeploy, SetStore,
       DeleteRead, DeleteRemove, DeleteStore, DeletePermit, At, StartupOK
  <2>4. ASSUME Startup, ~EnsureDeploy PROVE FALSE
    BY <1>4, <2>4 DEF Startup, Start, MigrateGrant, MigrateList, MigrateRevoke, MigrateDone,
       EnsureExists, EnsureStore, EnsureDone, InStartup
  <2>5. ASSUME Stop \/ Crash PROVE FALSE
    BY <1>4, <2>5 DEF Stop, Crash, Exit
  <2>6. CASE Environment \/ UNCHANGED vars
    BY <2>2, <2>6 DEF Environment, ContainerLost, Dropped, vars
  <2>7. QED
    BY <2>1, <2>3, <2>4, <2>5, <2>6 DEF Next
<1>5. QED
  BY <1>1, <1>2, <1>3, <1>4 DEF OneId

-----------------------------------------------------------------------------
(* A container and who may take it.                                        *)

Tokens == OneTaker /\ ContainersOwned

(* A step that writes no document, creates no container and lets nobody    *)
(* take one.                                                               *)
Untaking ==
    /\ db' = db
    /\ \A i \in Uuid : ctr'[i] \in {ctr[i], NoCtr}
    /\ \A k \in Handler :
          /\ pc'[k] \in {"create_deploy", "set_deploy", "delete_store"} =>
                pc'[k] = pc[k] /\ inst'[k] = inst[k]
          /\ pc[k] = "create_store" => pc'[k] = pc[k] /\ inst'[k] = inst[k]

LEMMA UntakingTokens ==
  ASSUME faults = 0, Tokens, Untaking PROVE Tokens'
<1>1. \A k \in Handler, i \in Uuid : Took(k, i)' => Took(k, i) /\ pc'[k] = pc[k]
  BY DEF Untaking, Took
<1>2. OneTaker'
  BY <1>1 DEF Tokens, OneTaker, Untaking
<1>3. ContainersOwned'
  BY DEF Tokens, ContainersOwned, Untaking
<1>4. QED
  BY <1>2, <1>3 DEF Tokens

(* Handler h goes on, and is the only one to do so.                        *)
LEMMA OthersStay ==
  ASSUME Shape, NEW h \in Handler, Begin(h) \/ Continue(h), NEW k \in Handler, k # h
  PROVE  pc'[k] = pc[k] /\ inst'[k] = inst[k]
BY DEF Shape, TypeOK, LocalsTypeOK, Begin, CreateBegin, SetBegin, DeleteBegin, Accept,
   Continue, CreateDeploy, CreateStore, CreatePermit, SetRead, SetRemove, SetDeploy,
   SetStore, DeleteRead, DeleteRemove, DeleteStore, DeletePermit, DeployAndGoto, Goto, Return

(* A PUT or a DELETE that gets the container of j removed is the one that  *)
(* took it.                                                                *)
LEMMA TakesContainer ==
  ASSUME Shape, IdsFresh, Tokens, faults = 0, NEW h \in Handler, Continue(h),
         NEW j \in Uuid, seen[h][j] # NoRecord, ctr[j] # NoCtr,
         pc[h] # "create_store",
         pc'[h] \in {"set_deploy", "delete_store"}, inst'[h] = j,
         db' = db, ctr' = [ctr EXCEPT ![j] = NoCtr]
  PROVE  Tokens'
<1> USE DEF Shape, TypeOK, PlatformTypeOK
<1>1. \A k \in Handler : ~Took(k, j)
  BY DEF Tokens, OneTaker
<1>2. \A k \in Handler : ~Creates(k, j)
  BY DEF IdsFresh, Unheard
<1>3. db[j] # NoRecord
  BY <1>2 DEF Tokens, ContainersOwned, Creates
<1>4. ASSUME NEW k \in Handler, NEW i \in Uuid, Took(k, i)'
      PROVE  \/ k = h /\ i = j
             \/ k # h /\ i # j /\ Took(k, i) /\ pc'[k] = pc[k]
  BY <1>1, <1>4, OthersStay DEF Took
<1>5. OneTaker'
  BY <1>3, <1>4 DEF Tokens, OneTaker
<1>6. ContainersOwned'
  BY OthersStay DEF Tokens, ContainersOwned
<1>7. QED
  BY <1>5, <1>6 DEF Tokens

LEMMA TokensHandler ==
  ASSUME Shape, IdsFresh, Tokens, faults = 0, faults' = 0,
         NEW h \in Handler, Begin(h) \/ Continue(h)
  PROVE  Tokens'
<1> USE DEF Shape, TypeOK, PlatformTypeOK, LocalsTypeOK
<1>0. \A k \in Handler \ {h} : pc'[k] = pc[k] /\ inst'[k] = inst[k]
  BY OthersStay
<1>1. CASE CreateBegin(h)
  <2>1. UNCHANGED <<db, ctr>> /\ pc[h] = "idle"
    BY <1>1 DEF CreateBegin, Accept
  <2>2. CASE UNCHANGED localVars
    <3>1. Untaking
      BY <2>1, <2>2 DEF Untaking
    <3>2. QED
      BY <3>1, UntakingTokens
  <2>3. ASSUME NEW i \in Uuid \ used,
               Goto(h, "create_deploy"), inst' = [inst EXCEPT ![h] = i]
        PROVE  Tokens'
    <3>1. Unheard(i) /\ \A k \in Handler : ~Creates(k, i)
      BY <2>3 DEF IdsFresh
    <3>2. ctr[i] = NoCtr
      BY <3>1 DEF Tokens, ContainersOwned, Unheard, Creates
    <3>3. \A k \in Handler : ~Took(k, i)
      <4>1. ASSUME NEW k \in Handler, inst[k] = i, pc[k] = "set_deploy" PROVE FALSE
        BY <3>1, <4>1 DEF LocalsOK, Unheard
      <4>2. ASSUME NEW k \in Handler, inst[k] = i, pc[k] = "delete_store" PROVE FALSE
        BY <3>1, <4>2 DEF LocalsOK, Unheard
      <4>3. QED
        BY <3>1, <4>1, <4>2 DEF Took, Creates
    <3>4. pc'[h] = "create_deploy" /\ inst'[h] = i
      BY <2>3 DEF Goto
    <3>5. ASSUME NEW k \in Handler, NEW j \in Uuid, Took(k, j)'
          PROVE  \/ k = h /\ j = i
                 \/ k # h /\ j # i /\ Took(k, j) /\ pc'[k] = pc[k]
      BY <1>0, <3>3, <3>4, <3>5 DEF Took
    <3>6. OneTaker'
      BY <2>1, <3>2, <3>4, <3>5 DEF Tokens, OneTaker
    <3>7. ContainersOwned'
      BY <1>0, <2>1 DEF Tokens, ContainersOwned
    <3>8. QED
      BY <3>6, <3>7 DEF Tokens
  <2>4. QED
    BY <1>1, <2>2, <2>3 DEF CreateBegin
<1>2. CASE SetBegin(h) \/ DeleteBegin(h)
  <2>1. UNCHANGED <<db, ctr>> /\ pc[h] = "idle"
    BY <1>2 DEF SetBegin, DeleteBegin, Accept
  <2>2. pc'[h] \in {"idle", "set_read", "delete_read"}
    BY <1>2, <2>1 DEF SetBegin, DeleteBegin, Goto
  <2>3. Untaking
    BY <1>0, <2>1, <2>2 DEF Untaking
  <2>4. QED
    BY <2>3, UntakingTokens
<1>3. CASE CreatePermit(h) \/ SetRead(h) \/ DeleteRead(h) \/ DeletePermit(h)
  <2>1. UNCHANGED <<db, ctr>> /\ pc[h] # "create_store"
    BY <1>3 DEF CreatePermit, SetRead, DeleteRead, DeletePermit, At
  <2>2. pc'[h] \in {"idle", "set_remove", "delete_remove"}
    BY <1>3 DEF CreatePermit, SetRead, DeleteRead, DeletePermit, At, Goto, Return
  <2>3. Untaking
    BY <1>0, <2>1, <2>2 DEF Untaking
  <2>4. QED
    BY <2>3, UntakingTokens
<1>4. CASE CreateDeploy(h) \/ SetDeploy(h)
  <2> DEFINE i == inst[h]
  <2>1. i \in Uuid /\ Took(h, i) /\ db' = db /\ pc[h] \in {"create_deploy", "set_deploy"}
    BY <1>4 DEF CreateDeploy, SetDeploy, At, LocalsOK, Took
  <2>2. ctr[i] = NoCtr /\ \A k \in Handler : Took(k, i) => k = h
    BY <2>1 DEF Tokens, OneTaker
  <2>3. ~CreateContainerFails(i, instance[h].cfg)
    BY <2>2 DEF CreateContainerFails, Fault
  <2>4. /\ CreateContainer(i, instance[h].cfg) /\ inst' = inst
        /\ pc[h] = "create_deploy" => pc'[h] = "create_store"
        /\ pc[h] = "set_deploy" => pc'[h] = "set_store"
    BY <1>4, <2>3 DEF CreateDeploy, SetDeploy, At, DeployAndGoto, Goto
  <2>5. \A j \in Uuid \ {i} : ctr'[j] = ctr[j]
    BY <2>1, <2>4 DEF CreateContainer, Deployed
  <2>6. ASSUME NEW k \in Handler, NEW j \in Uuid, Took(k, j)'
        PROVE  k # h /\ j # i /\ Took(k, j) /\ pc'[k] = pc[k]
    <3>1. k # h
      BY <2>1, <2>4, <2>6 DEF Took
    <3>2. Took(k, j) /\ pc'[k] = pc[k]
      BY <1>0, <2>6, <3>1 DEF Took
    <3>3. QED
      BY <2>2, <3>1, <3>2
  <2>7. OneTaker'
    BY <2>1, <2>5, <2>6 DEF Tokens, OneTaker
  <2>8. ASSUME NEW j \in Uuid, ctr'[j] # NoCtr
        PROVE  \/ db'[j] # NoRecord
               \/ \E k \in Handler : inst'[k] = j /\ pc'[k] = "create_store"
    <3>1. CASE j # i
      <4>1. db[j] # NoRecord \/ \E k \in Handler : inst[k] = j /\ pc[k] = "create_store"
        BY <2>5, <2>8, <3>1 DEF Tokens, ContainersOwned
      <4>2. QED
        BY <1>0, <2>1, <4>1
    <3>2. CASE j = i /\ pc[h] = "create_deploy"
      BY <2>4, <3>2
    <3>3. CASE j = i /\ pc[h] = "set_deploy"
      BY <2>1, <3>3 DEF Tokens, OneTaker
    <3>4. QED
      BY <2>1, <3>1, <3>2, <3>3
  <2>9. QED
    BY <2>7, <2>8 DEF Tokens, ContainersOwned
<1>5. CASE CreateStore(h) \/ SetStore(h)
  <2>1. /\ inst[h] \in Uuid /\ instance[h] # NoRecord /\ ctr' = ctr
        /\ pc'[h] \in {"create_permit", "idle"}
    BY <1>5 DEF CreateStore, SetStore, At, LocalsOK, Goto, Return
  <2>2. db' = [db EXCEPT ![inst[h]] = instance[h]]
    BY <1>5 DEF CreateStore, SetStore, SetInstanceFails, Upsert, Fault
  <2>3. \A j \in Uuid : db[j] # NoRecord => db'[j] # NoRecord
    BY <2>1, <2>2
  <2>4. \A k \in Handler, j \in Uuid : Took(k, j)' => Took(k, j) /\ pc'[k] = pc[k]
    BY <1>0, <2>1 DEF Took
  <2>5. OneTaker'
    BY <2>1, <2>3, <2>4 DEF Tokens, OneTaker
  <2>6. ContainersOwned'
    BY <1>0, <2>1, <2>2 DEF Tokens, ContainersOwned
  <2>7. QED
    BY <2>5, <2>6 DEF Tokens
<1>6. CASE SetRemove(h)
  <2>1. inst[h] \in Uuid /\ seen[h][inst[h]] # NoRecord /\ db' = db /\ pc[h] = "set_remove"
    BY <1>6 DEF SetRemove, At, LocalsOK
  <2>2. CASE RemoveContainer(inst[h], seen[h][inst[h]].service) /\ Goto(h, "set_deploy")
             /\ inst' = inst
    <3>1. ctr[inst[h]] # NoCtr /\ ctr' = [ctr EXCEPT ![inst[h]] = NoCtr]
          /\ pc'[h] = "set_deploy" /\ inst'[h] = inst[h]
      BY <2>2 DEF RemoveContainer, Live, Dropped, Goto
    <3>2. QED
      BY <1>6, <2>1, <3>1, TakesContainer DEF Continue
  <2>3. CASE RemoveContainerFails(inst[h], seen[h][inst[h]].service) /\ Return(h)
    <3>1. ctr' = ctr /\ pc'[h] = "idle"
      BY <2>3 DEF RemoveContainerFails, Fault, Return, Goto
    <3>2. Untaking
      BY <1>0, <2>1, <3>1 DEF Untaking
    <3>3. QED
      BY <3>2, UntakingTokens
  <2>4. QED
    BY <1>6, <2>2, <2>3 DEF SetRemove
<1>7. CASE DeleteRemove(h)
  <2>1. db' = db /\ pc[h] = "delete_remove"
    BY <1>7 DEF DeleteRemove, At
  <2>2. PICK i \in batch[h] :
          \/ /\ RemoveContainer(i, seen[h][i].service)
             /\ Goto(h, "delete_store")
             /\ inst' = [inst EXCEPT ![h] = i]
          \/ RemoveContainerFails(i, seen[h][i].service) /\ Return(h)
    BY <1>7 DEF DeleteRemove
  <2>3. i \in Uuid /\ seen[h][i] # NoRecord
    BY <2>1 DEF LocalsOK
  <2>4. CASE /\ RemoveContainer(i, seen[h][i].service)
             /\ Goto(h, "delete_store")
             /\ inst' = [inst EXCEPT ![h] = i]
    <3>1. ctr[i] # NoCtr /\ ctr' = [ctr EXCEPT ![i] = NoCtr]
          /\ pc'[h] = "delete_store" /\ inst'[h] = i
      BY <2>4 DEF RemoveContainer, Live, Dropped, Goto
    <3>2. QED
      BY <1>7, <2>1, <2>3, <3>1, TakesContainer DEF Continue
  <2>5. CASE RemoveContainerFails(i, seen[h][i].service) /\ Return(h)
    <3>1. ctr' = ctr /\ pc'[h] = "idle"
      BY <2>5 DEF RemoveContainerFails, Fault, Return, Goto
    <3>2. Untaking
      BY <1>0, <2>1, <3>1 DEF Untaking
    <3>3. QED
      BY <3>2, UntakingTokens
  <2>6. QED
    BY <2>2, <2>4, <2>5
<1>8. CASE DeleteStore(h)
  <2> DEFINE i == inst[h]
  <2>1. i \in Uuid /\ Took(h, i) /\ ctr' = ctr /\ pc[h] = "delete_store"
    BY <1>8 DEF DeleteStore, At, LocalsOK, Took
  <2>2. db' = [db EXCEPT ![i] = NoRecord] /\ pc'[h] = "delete_permit"
    BY <1>8 DEF DeleteStore, RemoveDocumentFails, RemoveDocument, Fault, Goto
  <2>3. ctr[i] = NoCtr /\ \A k \in Handler : Took(k, i) => k = h
    BY <2>1 DEF Tokens, OneTaker
  <2>4. ASSUME NEW k \in Handler, NEW j \in Uuid, Took(k, j)'
        PROVE  k # h /\ j # i /\ Took(k, j) /\ pc'[k] = pc[k]
    <3>1. k # h
      BY <2>2, <2>4 DEF Took
    <3>2. Took(k, j) /\ pc'[k] = pc[k]
      BY <1>0, <2>4, <3>1 DEF Took
    <3>3. QED
      BY <2>3, <3>1, <3>2
  <2>5. OneTaker'
    BY <2>1, <2>2, <2>4 DEF Tokens, OneTaker
  <2>6. ContainersOwned'
    BY <1>0, <2>1, <2>2, <2>3 DEF Tokens, ContainersOwned
  <2>7. QED
    BY <2>5, <2>6 DEF Tokens
<1>9. QED
  BY <1>1, <1>2, <1>3, <1>4, <1>5, <1>6, <1>7, <1>8 DEF Begin, Continue

LEMMA TokensStep ==
  ASSUME Shape, IdsFresh, Tokens, [Next]_vars PROVE Tokens'
<1> USE DEF Shape, TypeOK, PlatformTypeOK
<1>1. CASE faults' # 0
  BY <1>1 DEF Tokens, OneTaker, ContainersOwned
<1> SUFFICES ASSUME faults' = 0 PROVE Tokens'
  BY <1>1
<1>2. faults = 0
  <2>1. ASSUME NEW h \in Handler, Begin(h) PROVE faults' = faults
    BY <2>1 DEF Begin, CreateBegin, SetBegin, DeleteBegin, Accept, NoFault
  <2>2. ASSUME NEW h \in Handler, Continue(h) PROVE faults' = faults \/ Fault
    BY <2>2 DEF Continue, CreateDeploy, CreateStore, CreatePermit, SetRead, SetRemove,
       SetDeploy, SetStore, DeleteRead, DeleteRemove, DeleteStore, DeletePermit,
       DeployAndGoto, CreateContainerFails, RemoveContainerFails, SetInstanceFails,
       RemoveDocumentFails, NoFault
  <2>3. ASSUME Startup PROVE faults' = faults \/ Fault
    BY <2>3 DEF Startup, Start, MigrateGrant, MigrateList, MigrateRevoke, MigrateDone,
       EnsureExists, EnsureDeploy, EnsureStore, EnsureDone, CreateContainerFails, NoFault
  <2>4. ASSUME Stop \/ Crash \/ Environment \/ UNCHANGED vars PROVE faults' = faults \/ Fault
    BY <2>4 DEF Stop, Crash, Environment, ContainerLost, vars, NoFault
  <2>5. QED
    BY <2>1, <2>2, <2>3, <2>4 DEF Next, Fault
<1>3. ASSUME NEW h \in Handler, Begin(h) \/ Continue(h) PROVE Tokens'
  BY <1>2, <1>3, TokensHandler
<1>4. CASE Startup
  <2>1. /\ phase # "serving" /\ UNCHANGED localVars
        /\ \A k \in Handler : pc[k] = "idle" /\ pc'[k] = "idle"
    BY <1>4 DEF Startup, Start, MigrateGrant, MigrateList, MigrateRevoke, MigrateDone,
       EnsureExists, EnsureDeploy, EnsureStore, EnsureDone, InStartup, StartupOK
  <2>2. OneTaker'
    BY <2>1 DEF OneTaker, Took
  <2>3. \A i \in Uuid : ctr[i] # NoCtr => db[i] # NoRecord
    BY <1>2, <2>1 DEF Tokens, ContainersOwned
  <2>4. \A i \in Uuid : db[i] # NoRecord => db'[i] # NoRecord
    <3>1. CASE EnsureStore
      <4>1. cur \in Uuid /\ db[cur] \in Instance /\ gen[cur] \in Nat
        BY <3>1 DEF EnsureStore, InStartup, StartupOK, ProcessTypeOK, Stored
      <4>2. [db[cur] EXCEPT !.service = gen[cur]] \in Instance
        BY <4>1 DEF Instance
      <4>3. QED
        BY <3>1, <4>1, <4>2 DEF EnsureStore, Upsert
    <3>2. CASE ~EnsureStore
      BY <1>4, <3>2 DEF Startup, Start, MigrateGrant, MigrateList, MigrateRevoke,
         MigrateDone, EnsureExists, EnsureDeploy, EnsureDone
    <3>3. QED
      BY <3>1, <3>2
  <2>5. \A i \in Uuid : ctr'[i] # NoCtr => ctr[i] # NoCtr \/ db[i] # NoRecord
    <3>1. CASE EnsureDeploy
      <4>1. PICK i \in scan :
              CreateContainer(i, db[i].cfg) \/ CreateContainerFails(i, db[i].cfg)
        BY <3>1 DEF EnsureDeploy
      <4>2. i \in Uuid /\ db[i] # NoRecord
        BY <3>1 DEF EnsureDeploy, InStartup, StartupOK, Stored
      <4>3. \A j \in Uuid \ {i} : ctr'[j] = ctr[j]
        BY <4>1, <4>2 DEF CreateContainer, CreateContainerFails, Deployed
      <4>4. QED
        BY <4>2, <4>3
    <3>2. CASE ~EnsureDeploy
      BY <1>4, <3>2 DEF Startup, Start, MigrateGrant, MigrateList, MigrateRevoke,
         MigrateDone, EnsureExists, EnsureStore, EnsureDone
    <3>3. QED
      BY <3>1, <3>2
  <2>6. ContainersOwned'
    BY <2>3, <2>4, <2>5 DEF ContainersOwned
  <2>7. QED
    BY <2>2, <2>6 DEF Tokens
<1>5. CASE Stop
  <2>1. /\ UNCHANGED <<db, ctr>>
        /\ \A k \in Handler : pc[k] = "idle" /\ pc'[k] = "idle"
    BY <1>5 DEF Stop, Idle, Exit
  <2>2. Untaking
    BY <2>1 DEF Untaking
  <2>3. QED
    BY <1>2, <2>2, UntakingTokens
<1>6. CASE UNCHANGED vars
  <2>1. Untaking
    BY <1>6 DEF vars, Untaking
  <2>2. QED
    BY <1>2, <2>1, UntakingTokens
<1>7. CASE Crash \/ Environment
  BY <1>2, <1>7 DEF Crash, Environment, ContainerLost, Fault
<1>8. QED
  BY <1>3, <1>4, <1>5, <1>6, <1>7 DEF Next

-----------------------------------------------------------------------------
(* What holds in both modes, however requests overlap.                     *)

LEMMA InitCommon == Init => Common
<1> SUFFICES ASSUME Init PROVE Common
  OBVIOUS
<1>1. Shape
  BY InitShape
<1>2. IdsFresh
  BY DEF Init, PlatformInit, IdsFresh, Unheard, NothingSeen, Creates
<1>3. GrantedUsed /\ MigrateProgress
  BY DEF Init, PlatformInit, GrantedUsed, Resource, FullId, MigrateProgress
<1>4. \A i \in Uuid, u \in User \cup {Nobody} : ~NamedOwner(i, u)
  BY DEF Init, PlatformInit, NothingSeen, NamedOwner, ToWrite, Resource, FullId
<1>5. OneOwner
  BY <1>4 DEF OneOwner
<1>6. OneId
  BY DEF Init, PlatformInit, NothingSeen, OneId, Stored
<1>7. OneTaker /\ ContainersOwned
  BY DEF Init, PlatformInit, OneTaker, Took, ContainersOwned
<1>8. QED
  BY <1>1, <1>2, <1>3, <1>5, <1>6, <1>7 DEF Common, Owners

(* In both deployment modes and however requests overlap: ids are fresh,   *)
(* all parties name the same owner of an instance, and as long as nothing  *)
(* failed only one handler at a time has taken its container.              *)
THEOREM CommonInvariant == Spec => []Common
<1>1. Common /\ [Next]_vars => Common'
  BY NextShape, IdsFreshStep, OwnersStep, OneIdStep, TokensStep DEF Common, Tokens
<1>2. QED
  BY <1>1, InitCommon, PTL DEF Spec

(* As long as no call has failed there is no container without a document, *)
(* on rancher2 too, where a PUT may bring a deleted document back.         *)
THEOREM ContainersOwnedHolds == Spec => []ContainersOwned
<1>1. Common => ContainersOwned
  BY DEF Common
<1>2. QED
  BY <1>1, CommonInvariant, PTL

LEMMA MigrateReconcilesStep ==
  ASSUME Shape, Owners, [Next]_vars,
         phase = "revoke", phase' \in {"ensure", "serving"}, NEW r \in Resource
  PROVE  \/ r \in StoredResources' /\ perms'[r] = db'[r[2]].owner
         \/ (r \in StoredResources' => r[2] \in Tied) /\ perms'[r] = Nobody
<1>1. MigrateDone
  <2>1. ASSUME NEW h \in Handler, Begin(h) \/ Continue(h) PROVE phase' = phase
    BY <2>1 DEF Begin, CreateBegin, SetBegin, DeleteBegin, Accept, Continue, CreateDeploy,
       CreateStore, CreatePermit, SetRead, SetRemove, SetDeploy, SetStore, DeleteRead,
       DeleteRemove, DeleteStore, DeletePermit, At
  <2>2. CASE Startup
    BY <2>2 DEF Startup, Start, MigrateGrant, MigrateList, MigrateRevoke,
       EnsureExists, EnsureDeploy, EnsureStore, EnsureDone, InStartup
  <2>3. QED
    BY <2>1, <2>2 DEF Next, Stop, Crash, Exit, Environment, vars
<1>2. stale = {} /\ perms' = perms /\ db' = db
  BY <1>1 DEF MigrateDone
<1>3. StoredResources' = StoredResources
  BY <1>2 DEF StoredResources, Stored
<1>4. CASE perms[r] = Nobody
  <2>1. ASSUME NEW i \in Stored, r = FullId(i) PROVE r[2] \in Tied
    BY <1>4, <2>1 DEF Owners, MigrateProgress, FullId
  <2>2. r \in StoredResources => r[2] \in Tied
    BY <2>1 DEF StoredResources
  <2>3. QED
    BY <1>2, <1>3, <1>4, <2>2
<1>5. CASE perms[r] # Nobody
  <2>1. r \in StoredResources
    BY <1>2, <1>5 DEF Owners, MigrateProgress
  <2>2. PICK i \in Stored : r = FullId(i)
    BY <2>1 DEF StoredResources
  <2>3. r[2] = i /\ i \in Uuid
    BY <2>2 DEF FullId, Stored
  <2>4. NamedOwner(i, perms[r]) /\ NamedOwner(i, db[i].owner)
    BY <1>5, <2>2 DEF NamedOwner, Stored
  <2>5. perms[r] \in User \cup {Nobody} /\ db[i].owner \in User
    BY OwnersAreUsers DEF Owners, Shape, TypeOK, PlatformTypeOK
  <2>6. perms[r] = db[i].owner
    BY <2>3, <2>4, <2>5 DEF Owners, OneOwner
  <2>7. QED
    BY <1>2, <1>3, <2>1, <2>3, <2>6
<1>6. QED
  BY <1>4, <1>5

(* When migrate returns, permissions-v2 knows nothing but stored instances,*)
(* each registered for its owner, whatever crashes, failed calls and       *)
(* overlapping requests left before; and none of them is missing whose     *)
(* name is its own.                                                        *)
THEOREM MigrateReconcilesHolds == Spec => MigrateReconciles
<1>1. Common /\ [Next]_vars =>
        [phase = "revoke" /\ phase' \in {"ensure", "serving"}
           => \A r \in Resource :
                 \/ r \in StoredResources' /\ perms'[r] = db'[r[2]].owner
                 \/ (r \in StoredResources' => r[2] \in Tied) /\ perms'[r] = Nobody]_vars
  BY MigrateReconcilesStep DEF Common
<1>2. QED
  BY <1>1, CommonInvariant, PTL DEF Spec, MigrateReconciles

-----------------------------------------------------------------------------
(* A container that is missing stays missing.                              *)

(* Only who created the instance or took its container creates one.        *)
LEMMA ContainerSteps ==
  ASSUME Shape, [Next]_vars, phase = "serving", NEW i \in Uuid
  PROVE  \/ Weaker(i)
         \/ \E h \in Handler : inst[h] = i /\ pc[h] \in {"create_deploy", "set_deploy"}
<1> USE DEF Shape, TypeOK
<1>1. CASE UNCHANGED ctr
  BY <1>1 DEF Weaker
<1>2. ASSUME NEW h \in Handler, Continue(h)
      PROVE  \/ Weaker(i)
             \/ inst[h] = i /\ pc[h] \in {"create_deploy", "set_deploy"}
  <2>1. CASE CreateDeploy(h) \/ SetDeploy(h)
    <3>1. pc[h] \in {"create_deploy", "set_deploy"} /\ inst[h] \in Uuid
      BY <2>1 DEF CreateDeploy, SetDeploy, At, LocalsOK
    <3>2. UNCHANGED ctr \/ \E run \in BOOLEAN : Deployed(inst[h], instance[h].cfg, run)
      BY <2>1 DEF CreateDeploy, SetDeploy, DeployAndGoto, CreateContainer, CreateContainerFails
    <3>3. inst[h] # i => ctr'[i] = ctr[i]
      BY <3>1, <3>2 DEF Deployed, PlatformTypeOK
    <3>4. QED
      BY <3>1, <3>3 DEF Weaker
  <2>2. CASE SetRemove(h) \/ DeleteRemove(h)
    <3>1. PICK j \in Uuid :
            \/ RemoveContainer(j, seen[h][j].service)
            \/ RemoveContainerFails(j, seen[h][j].service)
      BY <2>2 DEF SetRemove, DeleteRemove, At, LocalsTypeOK, LocalsOK
    <3>2. CASE RemoveContainer(j, seen[h][j].service)
      BY <3>2 DEF RemoveContainer, Dropped, Weaker, PlatformTypeOK
    <3>3. CASE RemoveContainerFails(j, seen[h][j].service)
      BY <3>3, RemoveFailsWeaker
    <3>4. QED
      BY <3>1, <3>2, <3>3
  <2>3. CASE \/ CreateStore(h) \/ CreatePermit(h) \/ SetRead(h) \/ SetStore(h)
             \/ DeleteRead(h) \/ DeleteStore(h) \/ DeletePermit(h)
    BY <2>3 DEF CreateStore, CreatePermit, SetRead, SetStore, DeleteRead, DeleteStore,
                DeletePermit, Weaker
  <2>4. QED
    BY <1>2, <2>1, <2>2, <2>3 DEF Continue
<1>3. ASSUME Startup PROVE FALSE
  BY <1>3 DEF Startup, Start, MigrateGrant, MigrateList, MigrateRevoke, MigrateDone,
     EnsureExists, EnsureDeploy, EnsureStore, EnsureDone, InStartup
<1>4. CASE Environment
  BY <1>4 DEF Environment, ContainerLost, Dropped, Weaker, PlatformTypeOK
<1>5. CASE (\E h \in Handler : Begin(h)) \/ Stop \/ Crash \/ UNCHANGED vars
  BY <1>1, <1>5 DEF Begin, CreateBegin, SetBegin, DeleteBegin, Accept, Stop, Crash, Exit, vars
<1>6. QED
  BY <1>2, <1>3, <1>4, <1>5 DEF Next

(* An id a handler has read, if it is in use, is the id in the document:   *)
(* on docker the copy is current, on rancher2 there is no other id.        *)
CopyNames ==
    \A h \in Handler, i \in Uuid :
        seen[h][i] # NoRecord /\ db[i] # NoRecord /\ Live(i, seen[h][i].service)
            => seen[h][i].service = db[i].service

(* Nobody takes in hand an instance whose container is missing.            *)
LEMMA NobodyTakes ==
  ASSUME Shape, CopyNames, [Next]_vars, NEW i \in Uuid, Stuck(i), NEW k \in Handler
  PROVE  ~Holds(k, i)'
<1> USE DEF Shape, TypeOK, LocalsTypeOK
<1>0. ~Holds(k, i) /\ ~Live(i, db[i].service) /\ db[i] # NoRecord
  BY DEF Stuck, ContainerExists
<1>1. CASE Kept(k)
  BY <1>0, <1>1 DEF Kept, Holds
<1>2. CASE pc'[k] \notin {"set_deploy", "set_store", "delete_store"}
  BY <1>2 DEF Holds
<1>3. ASSUME NEW h \in Handler, Begin(h) PROVE ~Holds(k, i)'
  <2>1. Kept(k) \/ pc'[k] \in {"create_deploy", "set_read", "delete_read"}
    BY <1>3 DEF Begin, CreateBegin, SetBegin, DeleteBegin, Accept, Goto, Kept
  <2>2. QED
    BY <1>1, <1>2, <2>1
<1>4. ASSUME NEW h \in Handler, Continue(h) PROVE ~Holds(k, i)'
  <2>1. CASE k # h
    <3>1. Kept(k)
      BY <1>4, <2>1 DEF Continue, CreateDeploy, CreateStore, CreatePermit, SetRead, SetRemove,
         SetDeploy, SetStore, DeleteRead, DeleteRemove, DeleteStore, DeletePermit,
         DeployAndGoto, Goto, Return, Kept
    <3>2. QED
      BY <1>1, <3>1
  <2>2. CASE k = h /\ Return(h)
    BY <1>2, <2>2 DEF Return, Goto
  <2>3. CASE k = h /\ SetDeploy(h) /\ ~Return(h)
    <3>1. pc[k] = "set_deploy" /\ inst' = inst
      BY <2>3 DEF SetDeploy, At, DeployAndGoto
    <3>2. QED
      BY <1>0, <3>1 DEF Holds
  <2>4. CASE k = h /\ SetRemove(h) /\ ~Return(h)
    <3>1. /\ inst[k] \in Uuid /\ inst' = inst
          /\ seen[k][inst[k]] # NoRecord /\ Live(inst[k], seen[k][inst[k]].service)
      BY <2>4 DEF SetRemove, At, LocalsOK, RemoveContainer
    <3>2. inst[k] # i
      BY <1>0, <3>1 DEF CopyNames
    <3>3. QED
      BY <3>1, <3>2 DEF Holds
  <2>5. CASE k = h /\ DeleteRemove(h) /\ ~Return(h)
    <3>1. PICK j \in batch[k] :
            /\ RemoveContainer(j, seen[k][j].service)
            /\ inst' = [inst EXCEPT ![k] = j]
      BY <2>5 DEF DeleteRemove
    <3>2. j \in Uuid /\ seen[k][j] # NoRecord
      BY <2>5, <3>1 DEF DeleteRemove, At, LocalsOK
    <3>3. j # i
      BY <1>0, <3>1, <3>2 DEF CopyNames, RemoveContainer
    <3>4. QED
      BY <3>1, <3>3 DEF Holds
  <2>6. CASE /\ k = h /\ ~Return(h)
             /\ \/ CreateDeploy(h) \/ CreateStore(h) \/ CreatePermit(h) \/ SetRead(h)
                \/ SetStore(h) \/ DeleteRead(h) \/ DeleteStore(h) \/ DeletePermit(h)
    <3>1. pc'[k] \in {"create_store", "create_permit", "set_remove", "delete_remove",
                      "delete_permit"}
      BY <2>6 DEF CreateDeploy, DeployAndGoto, CreateStore, CreatePermit, SetRead, SetStore,
         DeleteRead, DeleteStore, DeletePermit, Goto
    <3>2. QED
      BY <1>2, <3>1
  <2>7. QED
    BY <1>4, <2>1, <2>2, <2>3, <2>4, <2>5, <2>6 DEF Continue
<1>5. ASSUME Startup \/ Environment \/ UNCHANGED vars PROVE ~Holds(k, i)'
  <2>1. UNCHANGED localVars
    BY <1>5 DEF Startup, Start, MigrateGrant, MigrateList, MigrateRevoke, MigrateDone,
       EnsureExists, EnsureDeploy, EnsureStore, EnsureDone, InStartup, Environment, vars
  <2>2. QED
    BY <1>1, <2>1 DEF Kept
<1>6. ASSUME Stop \/ Crash PROVE ~Holds(k, i)'
  BY <1>2, <1>6 DEF Stop, Crash, Exit
<1>7. QED
  BY <1>3, <1>4, <1>5, <1>6 DEF Next

LEMMA StuckStep ==
  ASSUME Shape, IdsFresh, CopyNames, [Next]_vars,
         NEW i \in Uuid, Stuck(i), phase = "serving"
  PROVE  Stuck(i)' /\ db'[i] = db[i]
<1> USE DEF Shape, TypeOK, PlatformTypeOK
<1>1. db[i] # NoRecord /\ ~Live(i, db[i].service) /\ \A h \in Handler : ~Holds(h, i)
  BY DEF Stuck, ContainerExists
<1>2. \A h \in Handler : ~Creates(h, i)
  BY <1>1 DEF IdsFresh, Unheard
<1>3. db'[i] = db[i]
  <2>1. ASSUME NEW h \in Handler, Added(h) \/ Replaced(h) \/ Erased(h) PROVE db'[i] = db[i]
    <3>1. inst[h] # i
      BY <1>1, <1>2, <2>1 DEF Added, Replaced, Erased, Creates, Holds
    <3>2. QED
      BY <2>1, <3>1 DEF Added, Replaced, Erased, Upsert, RemoveDocument
  <2>2. ~Renumbered
    BY DEF Renumbered, EnsureStore, InStartup
  <2>3. QED
    BY <2>1, <2>2, Writes DEF Unwritten
<1>4. ~Live(i, db[i].service)'
  <2>1. Weaker(i)
    BY <1>1, <1>2, ContainerSteps DEF Creates, Holds
  <2>2. QED
    BY <1>1, <1>3, <2>1 DEF Weaker, Live
<1>5. \A h \in Handler : ~Holds(h, i)'
  BY NobodyTakes
<1>6. QED
  BY <1>1, <1>3, <1>4, <1>5 DEF Stuck, ContainerExists

(* An instance whose document names a container that is not there stays as *)
(* it is until a restart, in both modes and however requests overlap: no   *)
(* PUT or DELETE gets past the removal of the container.                   *)
THEOREM StuckUntilRestartHolds == Spec => StuckUntilRestart
<1>1. CASE DeployMode = "docker"
  <2>1. Spec => []IInv
    BY <1>1, InductiveInvariant
  <2>2. IInv => Shape /\ IdsFresh /\ CopyNames
    BY DEF IInv, StaleIdsDead, CopyNames
  <2>3. Shape /\ IdsFresh /\ CopyNames /\ [Next]_vars =>
          [\A i \in Uuid :
              Stuck(i) /\ phase = "serving" => Stuck(i)' /\ db'[i] = db[i]]_vars
    BY StuckStep
  <2>4. QED
    BY <2>1, <2>2, <2>3, PTL DEF Spec, StuckUntilRestart
<1>2. CASE DeployMode = "rancher2"
  <2>1. Common => Shape /\ IdsFresh /\ CopyNames
    BY <1>2 DEF Common, OneId, CopyNames, Stored
  <2>2. Shape /\ IdsFresh /\ CopyNames /\ [Next]_vars =>
          [\A i \in Uuid :
              Stuck(i) /\ phase = "serving" => Stuck(i)' /\ db'[i] = db[i]]_vars
    BY StuckStep
  <2>3. QED
    BY <2>1, <2>2, CommonInvariant, PTL DEF Spec, StuckUntilRestart
<1>3. QED
  BY <1>1, <1>2

-----------------------------------------------------------------------------
(***************************************************************************)
(* What holds where no two handlers hold one instance (Exclusive): what    *)
(* follows from the invariant for the writes of documents, and that Grants *)
(* is kept.                                                                *)
(***************************************************************************)

LEMMA AddedNew ==
  ASSUME Exclusive, Owners, NEW h \in Handler, Added(h)
  PROVE  /\ inst[h] \in Uuid /\ db[inst[h]] = NoRecord /\ inst[h] \notin gone
         /\ instance[h] \in Instance /\ instance[h].owner \in User
         /\ db' = [db EXCEPT ![inst[h]] = instance[h]] /\ gone' = gone
<1>1. inst[h] \in Uuid /\ instance[h] \in Instance /\ instance[h].owner \in User
  BY OwnersAreUsers DEF Exclusive, Owners, Added, ToWrite
<1>2. Creates(h, inst[h])
  BY DEF Added, Creates
<1>3. Unheard(inst[h])
  BY <1>1, <1>2 DEF Exclusive, IdsFresh
<1>4. QED
  BY <1>1, <1>3 DEF Unheard, Added, Upsert

LEMMA ReplacedOwner ==
  ASSUME Exclusive, Owners, NEW h \in Handler, Replaced(h)
  PROVE  /\ inst[h] \in Uuid /\ Holds(h, inst[h])
         /\ db[inst[h]] \in Instance /\ db[inst[h]].owner \in User
         /\ instance[h] \in Instance /\ instance[h].owner = db[inst[h]].owner
         /\ db' = [db EXCEPT ![inst[h]] = instance[h]] /\ gone' = gone
<1>1. /\ inst[h] \in Uuid /\ instance[h] \in Instance /\ instance[h].owner \in User
      /\ NamedOwner(inst[h], instance[h].owner)
  BY OwnersAreUsers DEF Exclusive, Owners, Replaced, ToWrite
<1>2. Holds(h, inst[h])
  BY DEF Replaced, Holds
<1>3. db[inst[h]] # NoRecord
  BY <1>1, <1>2 DEF Exclusive, HoldersKnow
<1>4. db[inst[h]] \in Instance /\ db[inst[h]].owner \in User
  BY <1>1, <1>3, OwnersAreUsers DEF Exclusive, Owners, Stored
<1>5. NamedOwner(inst[h], db[inst[h]].owner)
  BY <1>3 DEF NamedOwner
<1>6. instance[h].owner = db[inst[h]].owner
  BY <1>1, <1>4, <1>5 DEF Owners, OneOwner
<1>7. QED
  BY <1>1, <1>2, <1>4, <1>6 DEF Replaced, Upsert

LEMMA ErasedStored ==
  ASSUME Exclusive, NEW h \in Handler, Erased(h)
  PROVE  /\ inst[h] \in Uuid /\ Holds(h, inst[h]) /\ db[inst[h]] # NoRecord
         /\ db' = [db EXCEPT ![inst[h]] = NoRecord] /\ gone' = gone \cup {inst[h]}
<1>1. inst[h] \in Uuid
  BY DEF Exclusive, Shape, TypeOK, LocalsTypeOK, LocalsOK, Erased
<1>2. Holds(h, inst[h])
  BY DEF Erased, Holds
<1>3. db[inst[h]] # NoRecord
  BY <1>1, <1>2 DEF Exclusive, HoldersKnow
<1>4. QED
  BY <1>1, <1>2, <1>3 DEF Erased, RemoveDocument

LEMMA RenumberedSame ==
  ASSUME Shape, Renumbered
  PROVE  /\ cur \in Uuid /\ db[cur] \in Instance /\ phase = "ensure_store"
         /\ phase' = "ensure" /\ gone' = gone
         /\ \E r \in Instance :
               /\ r.owner = db[cur].owner /\ r.cfg = db[cur].cfg
               /\ db' = [db EXCEPT ![cur] = r]
<1>1. cur \in Uuid /\ db[cur] \in Instance /\ gen[cur] \in Nat
  BY DEF Renumbered, EnsureStore, InStartup, Shape, TypeOK, StartupOK,
         ProcessTypeOK, PlatformTypeOK, Stored
<1>2. [db[cur] EXCEPT !.service = gen[cur]] \in Instance
  BY <1>1 DEF Instance
<1>3. /\ [db[cur] EXCEPT !.service = gen[cur]].owner = db[cur].owner
      /\ [db[cur] EXCEPT !.service = gen[cur]].cfg = db[cur].cfg
  BY <1>1 DEF Instance
<1>4. QED
  BY <1>1, <1>2, <1>3 DEF Renumbered, EnsureStore, InStartup, Upsert

(* An instance keeps its owner until it is deleted.                        *)
LEMMA OwnerKept ==
  ASSUME Exclusive, Owners, [Next]_vars
  PROVE  /\ gone \subseteq gone'
         /\ \A i \in Uuid :
               \/ db[i] = NoRecord
               \/ i \in gone'
               \/ db'[i] # NoRecord /\ db'[i].owner = db[i].owner
<1> USE DEF Exclusive, Shape, TypeOK, PlatformTypeOK
<1>1. CASE Unwritten
  BY <1>1 DEF Unwritten
<1>2. ASSUME NEW h \in Handler, Added(h) \/ Replaced(h) \/ Erased(h)
      PROVE  /\ gone \subseteq gone'
             /\ \A i \in Uuid :
                   \/ db[i] = NoRecord
                   \/ i \in gone'
                   \/ db'[i] # NoRecord /\ db'[i].owner = db[i].owner
  <2>1. CASE Added(h)
    BY <2>1, AddedNew
  <2>2. CASE Replaced(h)
    BY <2>2, ReplacedOwner
  <2>3. CASE Erased(h)
    BY <2>3, ErasedStored
  <2>4. QED
    BY <1>2, <2>1, <2>2, <2>3
<1>3. CASE Renumbered
  BY <1>3, RenumberedSame
<1>4. QED
  BY <1>1, <1>2, <1>3, Writes

LEMMA GrantsOwnedStep ==
  ASSUME Exclusive, Grants, [Next]_vars PROVE GrantsOwned'
<1> USE DEF Grants
<1> SUFFICES ASSUME NEW i \in Uuid, perms'[FullId(i)] # Nobody
             PROVE  i \in gone' \/ (db'[i] # NoRecord /\ perms'[FullId(i)] = db'[i].owner)
  BY DEF GrantsOwned, FullId
<1>1. CASE perms'[FullId(i)] = perms[FullId(i)]
  BY <1>1, OwnerKept DEF GrantsOwned
<1>2. CASE perms'[FullId(i)] # perms[FullId(i)]
  <2>1. MigrateGrant /\ db[i] # NoRecord /\ perms'[FullId(i)] = db[i].owner
    BY <1>2, PermissionSteps DEF Exclusive
  <2>2. QED
    BY <2>1 DEF MigrateGrant
<1>3. QED
  BY <1>1, <1>2

LEMMA RevokeLastStep ==
  ASSUME Exclusive, Grants, [Next]_vars PROVE RevokeLast'
<1> USE DEF Grants
<1> USE DEF Exclusive, Shape, TypeOK, LocalsTypeOK
<1> SUFFICES ASSUME NEW k \in Handler, pc'[k] = "delete_permit" PROVE inst'[k] \in gone'
  BY DEF RevokeLast
<1>1. CASE Kept(k)
  BY <1>1, OwnerKept DEF Kept, RevokeLast
<1>2. ASSUME NEW h \in Handler, Begin(h) PROVE Kept(k)
  BY <1>2 DEF Begin, CreateBegin, SetBegin, DeleteBegin, Accept, Goto, Kept
<1>3. ASSUME NEW h \in Handler, Continue(h) PROVE Kept(k) \/ inst'[k] \in gone'
  <2>1. CASE k # h
    BY <1>3, <2>1 DEF Continue, CreateDeploy, CreateStore, CreatePermit, SetRead, SetRemove,
       SetDeploy, SetStore, DeleteRead, DeleteRemove, DeleteStore, DeletePermit,
       DeployAndGoto, Goto, Return, Kept
  <2>2. CASE k = h /\ DeleteStore(h)
    BY <2>2 DEF DeleteStore, RemoveDocument, Return, Goto
  <2>3. CASE k = h /\ ~DeleteStore(h)
    BY <1>3, <2>3 DEF Continue, CreateDeploy, CreateStore, CreatePermit, SetRead, SetRemove,
       SetDeploy, SetStore, DeleteRead, DeleteRemove, DeletePermit,
       DeployAndGoto, Goto, Return
  <2>4. QED
    BY <2>1, <2>2, <2>3
<1>4. ASSUME Startup \/ Environment \/ UNCHANGED vars PROVE Kept(k)
  BY <1>4 DEF Startup, Start, MigrateGrant, MigrateList, MigrateRevoke, MigrateDone,
     EnsureExists, EnsureDeploy, EnsureStore, EnsureDone, InStartup, Environment, vars, Kept
<1>5. ASSUME Stop \/ Crash PROVE FALSE
  BY <1>5 DEF Stop, Crash, Exit
<1>6. QED
  BY <1>1, <1>2, <1>3, <1>4, <1>5 DEF Next

LEMMA GrantsStep ==
  ASSUME Exclusive, Grants, [Next]_vars PROVE Grants'
BY OwnersStep, GrantsOwnedStep, RevokeLastStep DEF Exclusive, Grants

(* What follows from it for the steps.                                     *)
LEMMA GrantsLastStep ==
  ASSUME Exclusive, Grants, [Next]_vars, NEW i \in Stored \ Tied,
         perms[FullId(i)] # Nobody, db'[i] # NoRecord
  PROVE  perms'[FullId(i)] = perms[FullId(i)]
<1>1. i \in Uuid /\ i \notin gone /\ db[i] # NoRecord
  BY DEF Stored, Exclusive, NoResurrection
<1>2. ASSUME perms'[FullId(i)] # perms[FullId(i)] PROVE FALSE
  <2>1. phase = "revoke" /\ FullId(i) \in stale
    BY <1>1, <1>2, PermissionSteps DEF Exclusive, Grants, RevokeLast
  <2>2. QED
    BY <2>1 DEF Grants, Owners, MigrateProgress
<1>3. QED
  BY <1>2

-----------------------------------------------------------------------------
(* On a docker daemon.                                                     *)

LEMMA InitGInv == Init => GInv
<1> SUFFICES ASSUME Init PROVE GInv
  OBVIOUS
<1>1. IInv /\ Owners
  BY InitIInv, InitCommon DEF Common
<1>2. RevokeLast /\ GrantsOwned
  BY DEF Init, PlatformInit, RevokeLast, GrantsOwned, Resource, FullId
<1>3. QED
  BY <1>1, <1>2 DEF GInv, Grants

(* The invariant of the owners and permissions always holds.               *)
THEOREM GrantsInvariant ==
  ASSUME DeployMode = "docker" PROVE Spec => []GInv
<1>1. GInv /\ [Next]_vars => GInv'
  BY NextIInv, DockerExclusive, GrantsStep DEF GInv
<1>2. QED
  BY <1>1, InitGInv, PTL DEF Spec

(* A user granted access to an instance keeps it for as long as the        *)
(* instance is stored: DeleteInstances removes a permission after the      *)
(* document only, and migrate removes none of an instance it comes by.     *)
THEOREM GrantsLastHolds ==
  ASSUME DeployMode = "docker" PROVE Spec => GrantsLast
<1>1. GInv /\ [Next]_vars =>
        [\A i \in Stored \ Tied :
            perms[FullId(i)] # Nobody /\ db'[i] # NoRecord
               => perms'[FullId(i)] = perms[FullId(i)]]_vars
  BY DockerExclusive, GrantsLastStep DEF GInv
<1>2. QED
  BY <1>1, GrantsInvariant, PTL DEF Spec, GrantsLast

-----------------------------------------------------------------------------
(* The manager implements module Registry.                                 *)

LEMMA PromiseInit == Init => Promise!Init
BY DEF Init, PlatformInit, Promise!Init, Entry

LEMMA PromiseStep ==
  ASSUME Exclusive, Owners, [Next]_vars PROVE [Promise!Next]_Promise!vars
<1> USE DEF Exclusive, Shape, TypeOK, PlatformTypeOK
<1> DEFINE entry == [i \in Uuid |-> Entry(i)]
<1>1. CASE Unwritten
  <2>1. entry' = entry
    BY <1>1 DEF Unwritten, Entry
  <2>2. QED
    BY <1>1, <2>1 DEF Unwritten, Promise!vars
<1>2. ASSUME NEW h \in Handler, Added(h) PROVE Promise!Next
  <2> DEFINE i == inst[h]  u == instance[h].owner  c == instance[h].cfg
  <2>1. /\ i \in Uuid /\ db[i] = NoRecord /\ i \notin gone
        /\ instance[h] \in Instance /\ u \in User
        /\ db' = [db EXCEPT ![i] = instance[h]] /\ gone' = gone
    BY <1>2, AddedNew
  <2>2. c \in Cfg /\ instance[h] # NoRecord
    BY <2>1 DEF Instance
  <2>3. entry' = [entry EXCEPT ![i] = [owner |-> u, cfg |-> c]]
    BY <2>1, <2>2 DEF Entry
  <2>4. Promise!Add(i, u, c)
    BY <2>1, <2>3 DEF Promise!Add, Entry
  <2>5. QED
    BY <2>1, <2>2, <2>4 DEF Promise!Next
<1>3. ASSUME NEW h \in Handler, Replaced(h) PROVE Promise!Next
  <2> DEFINE i == inst[h]  c == instance[h].cfg
  <2>1. /\ i \in Uuid /\ db[i] \in Instance
        /\ instance[h] \in Instance /\ instance[h].owner = db[i].owner
        /\ db' = [db EXCEPT ![i] = instance[h]] /\ gone' = gone
    BY <1>3, ReplacedOwner
  <2>2. c \in Cfg /\ instance[h] # NoRecord /\ db[i] # NoRecord
    BY <2>1 DEF Instance
  <2>3. entry[i] = [owner |-> db[i].owner, cfg |-> db[i].cfg] /\ entry[i] # NoRecord
    BY <2>1, <2>2 DEF Entry, Instance
  <2>4. entry' = [entry EXCEPT ![i] = [owner |-> entry[i].owner, cfg |-> c]]
    BY <2>1, <2>2, <2>3 DEF Entry
  <2>5. Promise!Replace(i, c)
    BY <2>1, <2>3, <2>4 DEF Promise!Replace
  <2>6. QED
    BY <2>1, <2>2, <2>5 DEF Promise!Next
<1>4. ASSUME NEW h \in Handler, Erased(h) PROVE Promise!Next
  <2> DEFINE i == inst[h]
  <2>1. /\ i \in Uuid /\ db[i] # NoRecord
        /\ db' = [db EXCEPT ![i] = NoRecord] /\ gone' = gone \cup {i}
    BY <1>4, ErasedStored
  <2>2. entry[i] # NoRecord
    BY <2>1 DEF Entry, Instance
  <2>3. entry' = [entry EXCEPT ![i] = NoRecord]
    BY <2>1 DEF Entry
  <2>4. Promise!Remove(i)
    BY <2>1, <2>2, <2>3 DEF Promise!Remove
  <2>5. QED
    BY <2>1, <2>4 DEF Promise!Next
<1>5. CASE Renumbered
  <2>1. entry' = entry /\ gone' = gone
    BY <1>5, RenumberedSame DEF Entry
  <2>2. QED
    BY <2>1 DEF Promise!vars
<1>6. QED
  BY <1>1, <1>2, <1>3, <1>4, <1>5, Writes

(* Every step of the manager, failures and crashes included, is one that   *)
(* the API promises, or changes nothing a client could read.               *)
THEOREM ImplementsHolds ==
  ASSUME DeployMode = "docker" PROVE Spec => Implements
<1>1. GInv /\ [Next]_vars => [Promise!Next]_Promise!vars
  BY DockerExclusive, PromiseStep DEF GInv, Grants
<1>2. QED
  BY <1>1, GrantsInvariant, PromiseInit, PTL DEF Spec, Implements, Promise!Spec

-----------------------------------------------------------------------------
(***************************************************************************)
(* In both modes: what holds as long as no two requests are about the same *)
(* instance at a time.  A rancher2 workload has the same id before and     *)
(* after a PUT, so the removal of its container keeps nobody out; that a   *)
(* handler's copy of a document is the document follows from no other      *)
(* handler being about to write it (CopyCurrent).  The code does not see   *)
(* to it: this is what a lock per instance would come to.                  *)
(***************************************************************************)

(* A handler writes the document of the instance in its hand, if any.      *)
LEMMA WritesInHand ==
  ASSUME Shape, NEW h \in Handler, Begin(h) \/ Continue(h), NEW j \in Uuid, inst[h] # j
  PROVE  db'[j] = db[j]
<1> USE DEF Shape, TypeOK, PlatformTypeOK
<1>1. CASE CreateStore(h) \/ SetStore(h)
  <2>1. db' = db \/ db' = [db EXCEPT ![inst[h]] = instance[h]]
    BY <1>1 DEF CreateStore, SetStore, SetInstanceFails, Upsert
  <2>2. QED
    BY <2>1
<1>2. CASE DeleteStore(h)
  <2>1. db' = db \/ db' = [db EXCEPT ![inst[h]] = NoRecord]
    BY <1>2 DEF DeleteStore, RemoveDocumentFails, RemoveDocument
  <2>2. QED
    BY <2>1
<1>3. CASE ~CreateStore(h) /\ ~SetStore(h) /\ ~DeleteStore(h)
  <2>1. UNCHANGED db
    BY <1>3 DEF Begin, CreateBegin, SetBegin, DeleteBegin, Accept, Continue, CreateDeploy,
       CreatePermit, SetRead, SetRemove, SetDeploy, DeleteRead, DeleteRemove, DeletePermit
  <2>2. QED
    BY <2>1
<1>4. QED
  BY <1>1, <1>2, <1>3

(* A handler has just read the document it works with, or had it before    *)
(* and has not written it.                                                 *)
LEMMA WorksSteps ==
  ASSUME Shape, NEW k \in Handler, Begin(k) \/ Continue(k), NEW j \in Uuid, Works(k, j)'
  PROVE  \/ seen'[k][j] = db[j] /\ db'[j] = db[j]
         \/ Works(k, j) /\ seen'[k][j] = seen[k][j] /\ db'[j] = db[j]
<1> USE DEF Shape, TypeOK, LocalsTypeOK
<1>0. pc'[k] \in {"set_remove", "set_deploy", "set_store", "delete_remove", "delete_store",
                  "delete_permit"}
  BY DEF Works
<1>1. ~Return(k)
  BY <1>0 DEF Return, Goto
<1>2. CASE Begin(k)
  <2>1. UNCHANGED <<db, localVars>>
    BY <1>0, <1>2 DEF Begin, CreateBegin, SetBegin, DeleteBegin, Accept, Goto
  <2>2. QED
    BY <2>1 DEF Works
<1>3. CASE SetRead(k)
  <2>1. /\ seen' = [seen EXCEPT ![k][inst[k]] = db[inst[k]]]
        /\ inst[k] \in Uuid /\ UNCHANGED <<inst, db>>
        /\ pc'[k] = "set_remove"
    BY <1>1, <1>3 DEF SetRead, At, LocalsOK, Goto
  <2>2. inst[k] = j
    BY <2>1 DEF Works
  <2>3. QED
    BY <2>1, <2>2
<1>4. CASE DeleteRead(k)
  <2>1. /\ seen' = [seen EXCEPT ![k] =
                      [i \in Uuid |-> IF i \in batch[k] THEN db[i] ELSE NoRecord]]
        /\ UNCHANGED <<batch, db>> /\ pc'[k] = "delete_remove"
    BY <1>1, <1>4 DEF DeleteRead, Goto
  <2>2. j \in batch[k]
    BY <2>1 DEF Works
  <2>3. QED
    BY <2>1, <2>2
<1>5. CASE SetRemove(k) \/ SetDeploy(k)
  <2>1. UNCHANGED <<inst, seen, db>> /\ pc[k] \in {"set_remove", "set_deploy"}
        /\ pc'[k] \in {"set_deploy", "set_store"}
    BY <1>1, <1>5 DEF SetRemove, SetDeploy, DeployAndGoto, At, Goto
  <2>2. QED
    BY <2>1 DEF Works
<1>6. CASE DeleteRemove(k)
  <2>1. UNCHANGED <<batch, seen, db>> /\ pc[k] = "delete_remove" /\ pc'[k] = "delete_store"
    BY <1>1, <1>6 DEF DeleteRemove, At, Goto
  <2>2. QED
    BY <2>1 DEF Works
<1>7. CASE DeleteStore(k)
  <2>1. /\ UNCHANGED <<inst, batch, seen>>
        /\ pc[k] = "delete_store" /\ pc'[k] = "delete_permit"
    BY <1>1, <1>7 DEF DeleteStore, At, Goto
  <2>2. Works(k, j) /\ inst[k] # j
    BY <2>1 DEF Works
  <2>3. QED
    BY <1>7, <2>1, <2>2, WritesInHand DEF Continue
<1>8. CASE DeletePermit(k)
  <2>1. /\ UNCHANGED <<seen, db>> /\ batch'[k] = batch[k] \ {inst[k]}
        /\ pc[k] = "delete_permit" /\ pc'[k] = "delete_remove"
    BY <1>1, <1>8 DEF DeletePermit, At, Goto
  <2>2. QED
    BY <2>1 DEF Works
<1>9. CASE CreateDeploy(k) \/ CreateStore(k) \/ CreatePermit(k) \/ SetStore(k)
  <2>1. pc'[k] \in {"idle", "create_store", "create_permit"}
    BY <1>9 DEF CreateDeploy, CreateStore, CreatePermit, SetStore, DeployAndGoto, Return, Goto
  <2>2. QED
    BY <1>0, <2>1
<1>10. QED
  BY <1>2, <1>3, <1>4, <1>5, <1>6, <1>7, <1>8, <1>9 DEF Continue

(* What a handler holds and takes is what it works with.                   *)
LEMMA OneAtATimeExclusive ==
  ASSUME AInv, OneAtATime PROVE Exclusive
<1>1. \A h \in Handler, i \in Uuid :
         Holds(h, i) \/ Takes(h, i) =>
            Works(h, i) /\ Serves(h, i) /\ seen[h][i] # NoRecord
  BY DEF AInv, Shape, LocalsOK, Holds, Takes, Works, Serves
<1>2. SoleHolder
  BY <1>1 DEF SoleHolder, OneAtATime
<1>3. HoldersKnow
  BY <1>1 DEF HoldersKnow, AInv, CopyCurrent
<1>4. TakersKnow
  <2> SUFFICES ASSUME NEW h \in Handler, NEW i \in Uuid, Takes(h, i)
               PROVE  db[i] = seen[h][i] /\ \A k \in Handler : ~Holds(k, i)
    BY DEF TakersKnow
  <2>1. \A k \in Handler : Holds(k, i) => k = h
    BY <1>1 DEF OneAtATime
  <2>2. ~Holds(h, i)
    BY DEF Takes, Holds
  <2>3. QED
    BY <1>1, <2>1, <2>2 DEF AInv, CopyCurrent
<1>5. QED
  BY <1>2, <1>3, <1>4 DEF AInv, Exclusive

LEMMA CopyCurrentStep ==
  ASSUME AInv, OneAtATime, [Next]_vars PROVE CopyCurrent'
<1> USE DEF AInv, Shape, TypeOK
<1> SUFFICES ASSUME NEW k \in Handler, NEW j \in Uuid, Works(k, j)'
             PROVE  db'[j] = seen'[k][j]
  BY DEF CopyCurrent
<1>1. ASSUME UNCHANGED localVars, db'[j] = db[j] PROVE db'[j] = seen'[k][j]
  BY <1>1 DEF Works, CopyCurrent
<1>2. ASSUME NEW h \in Handler, Begin(h) \/ Continue(h) PROVE db'[j] = seen'[k][j]
  <2>1. CASE h = k
    BY <1>2, <2>1, WorksSteps DEF CopyCurrent
  <2>2. CASE h # k
    <3>1. Kept(k) /\ batch'[k] = batch[k]
      BY <1>2, <2>2 DEF Begin, CreateBegin, SetBegin, DeleteBegin, Accept, Continue,
         CreateDeploy, CreateStore, CreatePermit, SetRead, SetRemove, SetDeploy, SetStore,
         DeleteRead, DeleteRemove, DeleteStore, DeletePermit, DeployAndGoto, Goto, Return,
         Kept, LocalsTypeOK
    <3>2. Works(k, j) /\ Serves(k, j)
      BY <3>1 DEF Kept, Works, Serves
    <3>3. inst[h] # j
      BY <2>2, <3>2 DEF OneAtATime, Serves
    <3>4. db'[j] = db[j]
      BY <1>2, <3>3, WritesInHand
    <3>5. QED
      BY <3>1, <3>2, <3>4 DEF Kept, CopyCurrent
  <2>3. QED
    BY <2>1, <2>2
<1>3. CASE Startup
  <2>1. UNCHANGED localVars /\ phase # "serving"
    BY <1>3 DEF Startup, Start, MigrateGrant, MigrateList, MigrateRevoke, MigrateDone,
       EnsureExists, EnsureDeploy, EnsureStore, EnsureDone, InStartup
  <2>2. pc'[k] = "idle"
    BY <2>1 DEF StartupOK
  <2>3. QED
    BY <2>2 DEF Works
<1>4. CASE Stop \/ Crash
  BY <1>4 DEF Stop, Crash, Exit, Works
<1>5. CASE Environment \/ UNCHANGED vars
  BY <1>1, <1>5 DEF Environment, vars
<1>6. QED
  BY <1>2, <1>3, <1>4, <1>5 DEF Next

LEMMA NoResurrectionStep ==
  ASSUME Exclusive, [Next]_vars PROVE NoResurrection'
<1> USE DEF Exclusive, Shape, TypeOK, PlatformTypeOK, NoResurrection
<1>1. CASE Unwritten
  BY <1>1 DEF Unwritten
<1>2. ASSUME NEW h \in Handler, Added(h) \/ Replaced(h) PROVE NoResurrection'
  <2>1. db' = [db EXCEPT ![inst[h]] = instance[h]] /\ gone' = gone
    BY <1>2 DEF Added, Replaced, Upsert
  <2>2. inst[h] \in Uuid /\ (Creates(h, inst[h]) \/ Holds(h, inst[h]))
    BY <1>2 DEF Added, Replaced, Creates, Holds, LocalsTypeOK, LocalsOK
  <2>3. inst[h] \notin gone
    BY <2>2 DEF IdsFresh, Unheard, HoldersKnow
  <2>4. QED
    BY <2>1, <2>3
<1>3. ASSUME NEW h \in Handler, Erased(h) PROVE NoResurrection'
  <2>1. db' = [db EXCEPT ![inst[h]] = NoRecord] /\ gone' = gone \cup {inst[h]}
    BY <1>3 DEF Erased, RemoveDocument
  <2>2. inst[h] \in Uuid
    BY <1>3 DEF Erased, LocalsTypeOK, LocalsOK
  <2>3. QED
    BY <2>1, <2>2
<1>4. CASE Renumbered
  <2>1. cur \in Stored /\ gone' = gone
    BY <1>4 DEF Renumbered, EnsureStore, InStartup, StartupOK, Upsert
  <2>2. cur \notin gone /\ db' = [db EXCEPT ![cur] = [db[cur] EXCEPT !.service = gen[cur]]]
    BY <1>4, <2>1 DEF Renumbered, Upsert, Stored
  <2>3. QED
    BY <2>1, <2>2
<1>5. QED
  BY <1>1, <1>2, <1>3, <1>4, Writes

BInv == AInv /\ Grants

LEMMA InitBInv == Init => BInv
<1> SUFFICES ASSUME Init PROVE BInv
  OBVIOUS
<1>1. IInv /\ Grants
  BY InitGInv DEF GInv
<1>2. CopyCurrent
  BY DEF Init, CopyCurrent, Works
<1>3. QED
  BY <1>1, <1>2 DEF BInv, AInv, IInv

LEMMA BInvStep ==
  ASSUME BInv, OneAtATime, [Next]_vars PROVE BInv'
<1>1. AInv /\ Exclusive /\ Grants
  BY OneAtATimeExclusive DEF BInv
<1>2. AInv'
  BY <1>1, NextShape, IdsFreshStep, NoResurrectionStep, CopyCurrentStep DEF AInv
<1>3. QED
  BY <1>1, <1>2, GrantsStep DEF BInv

(* In both modes, BInv holds for as long as no two requests are about the  *)
(* same instance.                                                          *)
THEOREM OneAtATimeInvariant == Spec /\ []OneAtATime => []BInv
<1>1. BInv /\ OneAtATime /\ [Next]_vars => BInv'
  BY BInvStep
<1>2. QED
  BY <1>1, InitBInv, PTL DEF Spec

(* Then a user granted access to an instance keeps it while it is stored.  *)
THEOREM OneAtATimeGrantsLast == Spec /\ []OneAtATime => GrantsLast
<1>1. BInv /\ OneAtATime /\ [Next]_vars =>
        [\A i \in Stored \ Tied :
            perms[FullId(i)] # Nobody /\ db'[i] # NoRecord
               => perms'[FullId(i)] = perms[FullId(i)]]_vars
  BY OneAtATimeExclusive, GrantsLastStep DEF BInv
<1>2. QED
  BY <1>1, OneAtATimeInvariant, PTL DEF Spec, GrantsLast

(* And the manager keeps the promise of module Registry.                   *)
THEOREM OneAtATimeImplements == Spec /\ []OneAtATime => Implements
<1>1. BInv /\ OneAtATime /\ [Next]_vars => [Promise!Next]_Promise!vars
  BY OneAtATimeExclusive, PromiseStep DEF BInv, Grants
<1>2. QED
  BY <1>1, OneAtATimeInvariant, PromiseInit, PTL DEF Spec, Implements, Promise!Spec

=============================================================================
