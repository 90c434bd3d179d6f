----------------------------- MODULE ManagerInv -----------------------------
(***************************************************************************)
(* The inductive invariants behind the safety properties of Manager.  In   *)
(* both deployment modes and however requests overlap: Shape and, on top   *)
(* of it, Common.  On a docker daemon: IInv for documents and containers,  *)
(* GInv for permissions and FInv for runs without faults.  For requests    *)
(* that take turns: AInv, which holds with a rancher2 workload too.        *)
(***************************************************************************)
EXTENDS Manager

(* What the next call of a handler finds in the handler's locals.          *)
LocalsOK ==
    \A h \in Handler :
        /\ pc[h] = "idle" => inst[h] = NoInst /\ seen[h] = NothingSeen
        /\ pc[h] \in {"create_deploy", "create_store", "create_permit", "set_read",
                      "set_remove", "set_deploy", "set_store"}
              => inst[h] \in Uuid /\ instance[h] # NoRecord
        /\ pc[h] \in {"set_remove", "set_deploy", "set_store"}
              => seen[h][inst[h]] # NoRecord
        /\ pc[h] \in {"delete_remove", "delete_store", "delete_permit"}
              => \A i \in batch[h] : seen[h][i] # NoRecord
        /\ pc[h] \in {"delete_store", "delete_permit"} => inst[h] \in batch[h]

(* Startup runs alone, over documents that stay.                           *)
StartupOK ==
    /\ phase # "serving" => \A h \in Handler : pc[h] = "idle"
    /\ scan \subseteq Stored \/ phase \in {"serving", "down"}
    /\ phase = "ensure_store" => cur \in scan

(* Holds in both deployment modes.                                         *)
Shape == TypeOK /\ LocalsOK /\ StartupOK

(* No id is known that the platform has not given out.                     *)
IdsGiven ==
    \A i \in Uuid :
        /\ db[i] # NoRecord => db[i].service <= gen[i]
        /\ ctr[i] # NoCtr => ctr[i].service <= gen[i]
        /\ \A h \in Handler : seen[h][i] # NoRecord => seen[h][i].service <= gen[i]

(* A handler whose copy of the document is out of date will not get its    *)
(* container removed: the id in the copy is dead.                          *)
StaleIdsDead ==
    \A h \in Handler, i \in Uuid :
        seen[h][i] # NoRecord /\ Live(i, seen[h][i].service) => db[i] = seen[h][i]

(* The document stays as a holder read it until the holder writes it.      *)
HolderCurrent ==
    \A h \in Handler, i \in Uuid :
        Holds(h, i) =>
            /\ seen[h][i] # NoRecord
            /\ db[i] = seen[h][i]
            /\ ~Live(i, seen[h][i].service)

(* The document about to be written describes its container.               *)
ToStore ==
    \A h \in Handler :
        pc[h] \in {"create_store", "set_store"} =>
            /\ instance[h].service <= gen[inst[h]]
            /\ Live(inst[h], instance[h].service)
                  => ctr[inst[h]].cfg = instance[h].cfg

EnsureToStore ==
    phase = "ensure_store" /\ Live(cur, gen[cur]) => ctr[cur].cfg = db[cur].cfg

(* Nobody has heard of an id before it is generated, and nobody but its    *)
(* creator has an instance in hand before its document is written.         *)
Unheard(i) ==
    /\ db[i] = NoRecord
    /\ i \notin gone
    /\ \A h \in Handler : seen[h][i] = NoRecord

IdsFresh ==
    \A i \in Uuid :
        /\ i \notin used => Unheard(i) /\ \A h \in Handler : ~Creates(h, i)
        /\ \A h \in Handler :
              Creates(h, i) =>
                  Unheard(i) /\ \A k \in Handler : Creates(k, i) => k = h

IInv ==
    /\ Shape
    /\ IdsGiven
    /\ StaleIdsDead
    /\ HolderCurrent
    /\ SoleHolder
    /\ ToStore
    /\ EnsureToStore
    /\ IdsFresh
    /\ NoResurrection
    /\ DeployedMatchesRecord

-----------------------------------------------------------------------------
(* A handler at one of these is to write the document it has in hand.      *)
ToWrite == {"create_deploy", "create_store", "set_remove", "set_deploy", "set_store"}

(* Somebody has u down as the owner of i: the document, a copy of it, a    *)
(* handler that is about to write one, or permissions-v2.                  *)
NamedOwner(i, u) ==
    \/ db[i] # NoRecord /\ db[i].owner = u
    \/ \E h \in Handler : seen[h][i] # NoRecord /\ seen[h][i].owner = u
    \/ \E h \in Handler : inst[h] = i /\ pc[h] \in ToWrite /\ instance[h].owner = u
    \/ u # Nobody /\ perms[FullId(i)] = u

(* They all mean the user who sent the POST.                               *)
OneOwner ==
    \A i \in Uuid : \A u, v \in User \cup {Nobody} :
        NamedOwner(i, u) /\ NamedOwner(i, v) => u = v /\ u # Nobody

GrantedUsed == \A i \in Uuid : perms[FullId(i)] # Nobody => i \in used

(* How far migrate has come.                                               *)
MigrateProgress ==
    /\ phase = "grant" => \A i \in Stored \ scan : perms[FullId(i)] # Nobody
    /\ phase = "revoke" =>
        /\ \A r \in Resource : perms[r] # Nobody => r \in StoredResources \cup stale
        /\ \A i \in Stored \ Tied : perms[FullId(i)] # Nobody /\ FullId(i) \notin stale

Owners ==
    /\ OneOwner
    /\ GrantedUsed
    /\ MigrateProgress

(* A rancher2 workload is known by its name, which is all the id there is. *)
OneId ==
    DeployMode = "rancher2" =>
        /\ \A i \in Stored : db[i].service = 1
        /\ \A h \in Handler, i \in Uuid : seen[h][i] # NoRecord => seen[h][i].service = 1
        /\ \A h \in Handler :
              pc[h] \in {"create_store", "set_store"} => instance[h].service = 1
        /\ phase = "ensure_store" => gen[cur] = 1

(* Handler h has had the container of i removed and not yet made what is to*)
(* follow, or is the one to create the first.                              *)
Took(h, i) ==
    /\ inst[h] = i
    /\ pc[h] \in {"create_deploy", "set_deploy", "delete_store"}

(* A container is a token that one handler takes at a time: a PUT puts     *)
(* another one in its place, for a document that is still there, a DELETE  *)
(* removes the document.                                                   *)
OneTaker ==
    faults = 0 =>
        \A h \in Handler, i \in Uuid :
            Took(h, i) =>
                /\ ctr[i] = NoCtr
                /\ pc[h] = "set_deploy" => db[i] # NoRecord
                /\ \A k \in Handler : Took(k, i) => k = h

(* Holds in both deployment modes, however requests overlap.               *)
Common ==
    /\ Shape
    /\ IdsFresh
    /\ Owners
    /\ OneId
    /\ OneTaker
    /\ ContainersOwned

-----------------------------------------------------------------------------
(* Full ids are registered for the owner of a document, and outlast it     *)
(* only.                                                                   *)
GrantsOwned ==
    \A i \in Uuid :
        perms[FullId(i)] # Nobody =>
            i \in gone \/ (db[i] # NoRecord /\ perms[FullId(i)] = db[i].owner)

(* Permissions are removed after the document is.                          *)
RevokeLast == \A h \in Handler : pc[h] = "delete_permit" => inst[h] \in gone

Grants ==
    /\ Owners
    /\ GrantsOwned
    /\ RevokeLast

GInv == IInv /\ Grants

-----------------------------------------------------------------------------
(* As long as nothing has failed, a handler at a write knows the container *)
(* it wrote for, one about to create a container finds the name free, and  *)
(* startup has no container to create.                                     *)
HandsAgree ==
    faults = 0 =>
        /\ phase # "ensure_store"
        /\ \A h \in Handler :
            /\ pc[h] \in {"create_deploy", "set_deploy", "delete_store"} =>
                  ctr[inst[h]] = NoCtr
            /\ pc[h] \in {"create_store", "set_store"} =>
                  /\ Live(inst[h], instance[h].service)
                  /\ ctr[inst[h]].cfg = instance[h].cfg
                  /\ ctr[inst[h]].running

FaultFree == HandsAgree /\ FaultFreeConsistency

FInv == IInv /\ FaultFree

-----------------------------------------------------------------------------
(***************************************************************************)
(* What both arguments come to: that of docker, by ids, and that of any    *)
(* mode when no two requests are about the same instance at a time.        *)
(***************************************************************************)

(* Handler h is about to have the container of i removed.                  *)
Takes(h, i) ==
    \/ pc[h] = "set_remove" /\ inst[h] = i
    \/ pc[h] = "delete_remove" /\ i \in batch[h]

(* Whoever holds an instance is alone with it and has its document, and so *)
(* has whoever gets the removal of its container through.                  *)
HoldersKnow ==
    \A h \in Handler, i \in Uuid :
        Holds(h, i) => seen[h][i] # NoRecord /\ db[i] = seen[h][i]

TakersKnow ==
    \A h \in Handler, i \in Uuid :
        Takes(h, i) /\ Live(i, seen[h][i].service) =>
            /\ db[i] = seen[h][i]
            /\ \A k \in Handler : ~Holds(k, i)

Exclusive ==
    /\ Shape
    /\ IdsFresh
    /\ SoleHolder
    /\ NoResurrection
    /\ HoldersKnow
    /\ TakersKnow

(* Handler h serves a request that is about instance i, maybe among others.*)
Serves(h, i) == inst[h] = i \/ i \in batch[h]

(* What a lock per instance, held for the time of a request, would see to. *)
OneAtATime ==
    \A i \in Uuid : \A h, k \in Handler : Serves(h, i) /\ Serves(k, i) => h = k

(* Handler h has read the document of i and has not come to its write.     *)
Works(h, i) ==
    \/ pc[h] \in {"set_remove", "set_deploy", "set_store"} /\ inst[h] = i
    \/ pc[h] \in {"delete_remove", "delete_store"} /\ i \in batch[h]
    \/ pc[h] = "delete_permit" /\ i \in batch[h] \ {inst[h]}

CopyCurrent == \A h \in Handler, i \in Uuid : Works(h, i) => db[i] = seen[h][i]

AInv ==
    /\ Shape
    /\ IdsFresh
    /\ NoResurrection
    /\ CopyCurrent

=============================================================================
