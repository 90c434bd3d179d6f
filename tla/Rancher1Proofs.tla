--------------------------- MODULE Rancher1Proofs ---------------------------
(***************************************************************************)
(* Theorems about module Rancher1, for any number of goroutines, instances *)
(* and environments and any bounds.                                        *)
(***************************************************************************)
EXTENDS Rancher1, FiniteSetTheorems, TLAPS

(* A request for instance i.  It asks for the service it has read from the *)
(* document to be removed; with the service removed, or the instance new,  *)
(* it holds the instance until it ends.                                    *)
Mine(h, i)  == req[h] # NoRequest /\ req[h].uuid = i
Asks(h, i)  == Mine(h, i) /\ req[h].pc \in {"remove", "drop"}
Holds(h, i) == Mine(h, i) /\ req[h].pc \in {"create", "replace", "store", "forget"}

(* No service but one of instance i has that id, or will have it.          *)
Own(i, id) == id < nextId /\ \A s \in services : s.id = id => s.uuid = i

Ids(i) ==
    /\ i \in Stored => Own(i, db[i].service)
    /\ \A h \in Handler : Mine(h, i) => Own(i, req[h].service)

Untouched(i) ==
    i \in fresh => i \notin Stored /\ Of(i) = {} /\ \A h \in Handler : ~Mine(h, i)

(* While an instance is held nobody else can get hold of it, and whoever   *)
(* can is about to remove what the document names.                         *)
Held(i) ==
    /\ \A h, k \in Handler : Holds(h, i) /\ Holds(k, i) => h = k
    /\ \A h \in Handler : Holds(h, i) =>
          /\ i \in Stored => req[h].pc # "create" /\ ~Exists(db[i].service)
          /\ \A k \in Handler : Asks(k, i) => ~Exists(req[k].service)
    /\ \A k \in Handler : Asks(k, i) /\ Exists(req[k].service) =>
          i \in Stored /\ db[i].service = req[k].service

(* Who may make a service has room for it under the bound, so startup too. *)
Counted(i) ==
    /\ Cardinality(Of(i)) <= 1 + faults
    /\ \A h \in Handler :
          Holds(h, i) /\ (req[h].pc # "store" \/ ~Exists(req[h].service)) =>
              Cardinality(Of(i)) <= faults
    /\ (i \in Stored /\ ~Exists(db[i].service) /\ \A h \in Handler : ~Holds(h, i)) =>
          Cardinality(Of(i)) <= faults

(* Without faults what is held is what the holder last did, and what is    *)
(* not held is as the document says.                                       *)
Faultless(i) ==
    faults = 0 =>
        /\ \A h \in Handler : Holds(h, i) /\ req[h].pc = "store" =>
              \E s \in Of(i) : s.id = req[h].service /\ s.cfg = req[h].cfg
        /\ (i \in Stored /\ \A h \in Handler : ~Holds(h, i)) =>
              \E s \in Of(i) : s.id = db[i].service /\ s.cfg = db[i].cfg
        /\ i \notin Stored /\ Of(i) # {} =>
              \E h \in Handler : Holds(h, i) /\ req[h].pc = "store"

Good(i) == Ids(i) /\ Untouched(i) /\ Held(i) /\ Counted(i) /\ Faultless(i)

Roster ==
    /\ nextId \in Nat \ {0}
    /\ services \subseteq Service /\ IsFiniteSet(services)
    /\ \A s \in services : s.id # 0 /\ s.id < nextId
    /\ \A s, t \in services : s.id = t.id => s = t

Process ==
    /\ Roster /\ faults \in Nat
    /\ fresh \subseteq Uuid
    /\ phase # "up" => \A h \in Handler : req[h] = NoRequest
    /\ pending # {} => phase = "ensure"
    /\ faults = 0 => phase = "up"

IInv == Constants /\ TypeOK /\ Process /\ AllDeployed /\ \A i \in Uuid : Good(i)

-----------------------------------------------------------------------------
(* Types, and what happens to the services.                                *)

LEMMA ServiceType ==
    ASSUME Roster, NEW s \in services
    PROVE  /\ s \in Service /\ s.id \in Nat \ {0} /\ s.id < nextId
           /\ s.uuid \in Uuid /\ s.cfg \in Cfg
  BY DEF Roster, Service

LEMMA DocumentType ==
    ASSUME TypeOK, NEW i \in Uuid, i \in Stored
    PROVE  db[i] \in Document /\ db[i].service \in Nat /\ db[i].cfg \in Cfg
  BY DEF TypeOK, Stored, Document

LEMMA RequestType ==
    ASSUME TypeOK, NEW h \in Handler, req[h] # NoRequest
    PROVE  /\ req[h] \in Request /\ req[h].uuid \in Uuid
           /\ req[h].service \in Nat /\ req[h].cfg \in Cfg
           /\ req[h].pc \in {"create", "remove", "replace", "store", "drop", "forget"}
  BY DEF TypeOK, Request

LEMMA OfFinite ==
    ASSUME Roster, NEW i
    PROVE  IsFiniteSet(Of(i)) /\ Cardinality(Of(i)) \in Nat
  <1>1. Of(i) \subseteq services
    BY DEF Of
  <1>2. IsFiniteSet(Of(i))
    BY <1>1, FS_Subset DEF Roster
  <1> QED BY <1>2, FS_CardinalityType

(* A service is made, under an id nobody knows.                            *)
LEMMA PostedAdds ==
    ASSUME Roster, NEW i \in Uuid, NEW x \in 0 .. MaxSuffix, NEW c \in Cfg, Posted(i, x, c)
    PROVE  \E s \in Service :
              /\ s.id = nextId /\ s.uuid = i /\ s.cfg = c
              /\ services' = services \cup {s} /\ nextId' = nextId + 1
              /\ Roster'
              /\ Of(i)' = Of(i) \cup {s} /\ Cardinality(Of(i)') = Cardinality(Of(i)) + 1
              /\ \A j \in Uuid \ {i} : Of(j)' = Of(j)
  <1> DEFINE t == [id |-> nextId, uuid |-> i, suffix |-> x, cfg |-> c]
  <1>1. t \in Service /\ t.id = nextId /\ t.uuid = i /\ t.cfg = c
    BY DEF Service, Roster
  <1>2. services' = services \cup {t} /\ nextId' = nextId + 1
    BY DEF Posted
  <1> HIDE DEF t
  <1>3. PICK s \in Service : s = t
    BY <1>1
  <1>4. s.id = nextId /\ s.uuid = i /\ s.cfg = c /\ services' = services \cup {s}
    BY <1>1, <1>2, <1>3
  <1>5. s \notin services
    BY <1>4, ServiceType
  <1>6. Roster'
    <2>1. IsFiniteSet(services')
      BY <1>4, FS_AddElement DEF Roster
    <2>2. nextId' \in Nat \ {0} /\ services' \subseteq Service
      BY <1>2, <1>4 DEF Roster
    <2>3. \A u \in services' : u.id # 0 /\ u.id < nextId'
      BY <1>2, <1>4, ServiceType DEF Roster
    <2>4. \A u, v \in services' : u.id = v.id => u = v
      BY <1>4, ServiceType DEF Roster
    <2> QED BY <2>1, <2>2, <2>3, <2>4 DEF Roster
  <1>7. Of(i)' = Of(i) \cup {s} /\ \A j \in Uuid \ {i} : Of(j)' = Of(j)
    BY <1>4 DEF Of
  <1>8. Cardinality(Of(i)') = Cardinality(Of(i)) + 1
    <2>1. s \notin Of(i)
      BY <1>5 DEF Of
    <2> QED BY <1>7, <2>1, OfFinite, FS_AddElement
  <1> QED BY <1>2, <1>4, <1>6, <1>7, <1>8

(* Services disappear, and nothing else happens to the others.             *)
LEMMA Fewer ==
    ASSUME Roster, services' \subseteq services, nextId' = nextId
    PROVE  Roster'
  <1>1. IsFiniteSet(services')
    BY FS_Subset DEF Roster
  <1> QED BY <1>1 DEF Roster

LEMMA DeletedTakes ==
    ASSUME Roster, NEW i \in Uuid, NEW id \in Nat, Own(i, id), Deleted(id)
    PROVE  \E s \in Of(i) :
              /\ s.id = id
              /\ services' = services \ {s} /\ nextId' = nextId
              /\ Roster'
              /\ Of(i)' = Of(i) \ {s} /\ Cardinality(Of(i)') = Cardinality(Of(i)) - 1
              /\ \A j \in Uuid \ {i} : Of(j)' = Of(j)
  <1>1. PICK s \in services : s.id = id
    BY DEF Deleted, Exists
  <1>2. s.uuid = i
    BY <1>1 DEF Own
  <1>3. services' = services \ {s} /\ nextId' = nextId
    BY <1>1 DEF Deleted, Roster
  <1>4. Roster'
    BY <1>3, Fewer
  <1>5. Of(i)' = Of(i) \ {s} /\ s \in Of(i) /\ \A j \in Uuid \ {i} : Of(j)' = Of(j)
    BY <1>2, <1>3 DEF Of
  <1>6. Cardinality(Of(i)') = Cardinality(Of(i)) - 1
    BY <1>5, OfFinite, FS_RemoveElement
  <1> QED BY <1>1, <1>3, <1>4, <1>5, <1>6

-----------------------------------------------------------------------------
(* What the steps have in common.                                          *)

(* Services come with new ids.                                             *)
Onward ==
    /\ nextId' >= nextId /\ nextId' \in Nat
    /\ \A s \in services' : s \in services \/ s.id >= nextId

LEMMA OwnKept ==
    ASSUME Roster, Onward, NEW i, NEW id \in Nat, Own(i, id)
    PROVE  /\ id < nextId'
           /\ \A s \in services' : s.id = id => s.uuid = i
           /\ (\E s \in services' : s.id = id) = (\E s \in Of(i)' : s.id = id)
           /\ Exists(id) = (\E s \in Of(i) : s.id = id)
  <1>1. nextId \in Nat
    BY DEF Roster
  <1>2. id < nextId'
    BY <1>1 DEF Onward, Own
  <1>3. \A s \in services' : s.id = id => s.uuid = i
    BY <1>1 DEF Onward, Own
  <1> QED BY <1>2, <1>3 DEF Of, Exists, Own

(* What is about other instances does not matter.                          *)
LEMMA Frame ==
    ASSUME TypeOK, Process, Onward, NEW i \in Uuid, Good(i),
           db'[i] = db[i], Of(i)' = Of(i), i \in fresh' => i \in fresh,
           faults' >= faults, faults' \in Nat,
           \A h \in Handler : /\ Mine(h, i)' = Mine(h, i)
                              /\ Mine(h, i) => req'[h] = req[h]
    PROVE  Good(i)'
  <1>1. (i \in Stored') = (i \in Stored)
    BY DEF Stored
  <1>2. i \in Stored => /\ Own(i, db[i].service)'
                        /\ Exists(db[i].service)' = Exists(db[i].service)
    <2>1. ASSUME i \in Stored
          PROVE  /\ Own(i, db[i].service)'
                 /\ Exists(db[i].service)' = Exists(db[i].service)
      <3>1. PICK id \in Nat : id = db[i].service
        BY <2>1, DocumentType
      <3>2. Own(i, id)
        BY <2>1, <3>1 DEF Good, Ids
      <3> QED BY <3>1, <3>2, OwnKept DEF Own, Exists, Process
    <2> QED BY <2>1
  <1>3. ASSUME NEW h \in Handler, Mine(h, i)
        PROVE  /\ Own(i, req[h].service)'
               /\ Exists(req[h].service)' = Exists(req[h].service)
    <2>1. PICK id \in Nat : id = req[h].service
      BY <1>3, RequestType DEF Mine
    <2>2. Own(i, id)
      BY <1>3, <2>1 DEF Good, Ids
    <2> QED BY <1>3, <2>1, <2>2, OwnKept DEF Own, Exists, Process
  <1>4. \A h \in Handler : /\ Asks(h, i)' = Asks(h, i) /\ Holds(h, i)' = Holds(h, i)
                           /\ Mine(h, i)' = Mine(h, i)
                           /\ Mine(h, i) => req'[h] = req[h]
    BY DEF Asks, Holds, Mine
  <1>5. \A h \in Handler : (Asks(h, i) \/ Holds(h, i)) => Mine(h, i)
    BY DEF Asks, Holds
  <1>6. Ids(i)' /\ Untouched(i)'
    BY <1>1, <1>2, <1>3, <1>4 DEF Good, Ids, Untouched
  <1>7. Held(i)'
    BY <1>1, <1>2, <1>3, <1>4, <1>5 DEF Good, Held
  <1>8. Counted(i)'
    <2>1. Cardinality(Of(i)) \in Nat /\ faults \in Nat
      BY OfFinite DEF Process
    <2> QED BY <1>1, <1>2, <1>3, <1>4, <1>5, <2>1 DEF Good, Counted
  <1>9. Faultless(i)'
    <2>1. faults' = 0 => faults = 0
      BY DEF Process
    <2> QED BY <1>1, <1>4, <1>5, <2>1 DEF Good, Faultless
  <1> QED BY <1>6, <1>7, <1>8, <1>9 DEF Good

(* A step of a request is no business of other instances.                  *)
LEMMA OthersKept ==
    ASSUME IInv, Onward, NEW h \in Handler, NEW i \in Uuid, Mine(h, i),
           NEW r, r = NoRequest \/ r.uuid = i, req' = [req EXCEPT ![h] = r],
           faults' >= faults, faults' \in Nat, fresh' = fresh,
           \A j \in Uuid \ {i} : db'[j] = db[j] /\ Of(j)' = Of(j)
    PROVE  \A j \in Uuid \ {i} : Good(j)'
  <1>1. ASSUME NEW j \in Uuid \ {i} PROVE Good(j)'
    <2>1. \A k \in Handler : Mine(k, j)' = Mine(k, j) /\ (Mine(k, j) => req'[k] = req[k])
      BY DEF Mine, IInv, TypeOK
    <2> QED BY <2>1, Frame DEF IInv
  <1> QED BY <1>1

(* What a step of a request leaves to the others of the same instance.     *)
LEMMA SameInstance ==
    ASSUME TypeOK, NEW h \in Handler, NEW r, req' = [req EXCEPT ![h] = r], NEW i
    PROVE  /\ req'[h] = r
           /\ \A k \in Handler \ {h} :
                 /\ req'[k] = req[k] /\ Mine(k, i)' = Mine(k, i)
                 /\ Asks(k, i)' = Asks(k, i) /\ Holds(k, i)' = Holds(k, i)
  BY DEF TypeOK, Mine, Asks, Holds

LEMMA NoneLeft ==
    ASSUME Roster, NEW i, Cardinality(Of(i)) <= 0
    PROVE  Of(i) = {}
  BY OfFinite, FS_EmptySet

LEMMA Unasked ==
    ASSUME NEW h \in Handler, NEW i
    PROVE  /\ ~(Asks(h, i) /\ Holds(h, i))
           /\ (Asks(h, i) \/ Holds(h, i)) => Mine(h, i)
           /\ ~Mine(h, i)' => ~Asks(h, i)' /\ ~Holds(h, i)'
  BY DEF Asks, Holds, Mine

-----------------------------------------------------------------------------
(* What each step makes of the instance it is about.                       *)

(* A request ends without effect, by a fault, because the service it asks  *)
(* for is gone, or because the name it wants is taken.                     *)
LEMMA EndGood ==
    ASSUME IInv, NEW h \in Handler, NEW i \in Uuid, Mine(h, i),
           req' = [req EXCEPT ![h] = NoRequest], UNCHANGED <<db, platform, fresh>>,
           \/ faults' = faults + 1
           \/ faults' = faults /\ Asks(h, i)
           \/ faults' = faults /\ req[h].pc \in {"create", "replace"} /\ Of(i) # {}
    PROVE  Good(i)'
  <1> USE DEF platform
  <1>1. \A k \in Handler \ {h} :
            /\ req'[k] = req[k] /\ Mine(k, i)' = Mine(k, i)
            /\ Asks(k, i)' = Asks(k, i) /\ Holds(k, i)' = Holds(k, i)
    BY SameInstance DEF IInv
  <1>2. ~Mine(h, i)' /\ ~Asks(h, i)' /\ ~Holds(h, i)'
    BY SameInstance DEF IInv, Mine, Asks, Holds
  <1>3. Good(i) /\ Process /\ Cardinality(Of(i)) \in Nat /\ faults \in Nat
    BY OfFinite DEF IInv, Process
  <1>4. Of(i)' = Of(i) /\ (i \in Stored') = (i \in Stored)
    BY DEF Of, Stored
  <1>5. Ids(i)' /\ Untouched(i)'
    BY <1>1, <1>2, <1>3, <1>4 DEF Good, Ids, Untouched, Own
  <1>6. Held(i)'
    BY <1>1, <1>2, <1>3, <1>4 DEF Good, Held, Exists
  <1>7. (\A k \in Handler : ~Holds(k, i)') =>
            \/ \A k \in Handler : ~Holds(k, i)
            \/ faults' = faults + 1
            \/ faults' = faults /\ Cardinality(Of(i)) <= faults /\ Of(i) # {}
    <2>1. CASE Asks(h, i)
      BY <1>1, <2>1, Unasked
    <2>2. CASE req[h].pc \in {"create", "replace"} /\ faults' = faults /\ Of(i) # {}
      BY <1>3, <2>2 DEF Good, Counted, Holds
    <2> QED BY <2>1, <2>2
  <1>8. Counted(i)'
    <2>1. Cardinality(Of(i)) <= 1 + faults'
      BY <1>3 DEF Good, Counted
    <2>2. ASSUME NEW k \in Handler, Holds(k, i)',
                 (req[k].pc # "store" \/ ~Exists(req[k].service))'
          PROVE  Cardinality(Of(i)) <= faults'
      BY <1>1, <1>2, <1>3, <2>2 DEF Good, Counted, Exists
    <2>3. ASSUME i \in Stored, ~Exists(db[i].service), \A k \in Handler : ~Holds(k, i)'
          PROVE  Cardinality(Of(i)) <= faults'
      BY <1>3, <1>7, <2>3 DEF Good, Counted
    <2> QED BY <1>4, <2>1, <2>2, <2>3 DEF Counted, Exists
  <1>9. Faultless(i)'
    <2> SUFFICES ASSUME faults' = 0 PROVE Faultless(i)'
      BY DEF Faultless
    <2>1. faults = 0
      BY <1>3
    <2>2. (\A k \in Handler : ~Holds(k, i)') => \A k \in Handler : ~Holds(k, i)
      BY <1>3, <1>7, <2>1, NoneLeft DEF Process
    <2>3. i \notin Stored /\ Of(i) # {} =>
              \E k \in Handler : Holds(k, i)' /\ req'[k].pc = "store"
      <3>1. ASSUME i \notin Stored, Of(i) # {}
            PROVE  \E k \in Handler : Holds(k, i)' /\ req'[k].pc = "store"
        <4>1. PICK k \in Handler : Holds(k, i) /\ req[k].pc = "store"
          BY <1>3, <2>1, <3>1 DEF Good, Faultless
        <4>2. k # h
          BY <1>3, <2>1, <4>1, Unasked
        <4> QED BY <1>1, <4>1, <4>2
      <3> QED BY <3>1
    <2> QED BY <1>1, <1>2, <1>3, <1>4, <2>1, <2>2, <2>3 DEF Good, Faultless
  <1> QED BY <1>5, <1>6, <1>8, <1>9 DEF Good

(* A service is posted and its maker goes on to store it.                  *)
LEMMA PostGood ==
    ASSUME IInv, NEW h \in Handler, NEW i \in Uuid, Mine(h, i),
           req[h].pc \in {"create", "replace"},
           NEW x \in 0 .. MaxSuffix, Posted(i, x, req[h].cfg),
           NEW r \in Request, r.pc = "store", r.uuid = i, r.service = nextId,
           r.cfg = req[h].cfg, req' = [req EXCEPT ![h] = r],
           UNCHANGED <<db, fresh, faults>>
    PROVE  Good(i)'
  <1>1. /\ req'[h] = r
        /\ \A k \in Handler \ {h} :
              /\ req'[k] = req[k] /\ Mine(k, i)' = Mine(k, i)
              /\ Asks(k, i)' = Asks(k, i) /\ Holds(k, i)' = Holds(k, i)
    BY SameInstance DEF IInv
  <1>2. /\ Mine(h, i)' /\ Holds(h, i)' /\ ~Asks(h, i)'
        /\ Holds(h, i) /\ ~Asks(h, i)
    BY <1>1 DEF Mine, Holds, Asks, IInv, Constants
  <1>3. /\ Good(i) /\ Process /\ TypeOK /\ Roster
        /\ Cardinality(Of(i)) \in Nat /\ faults \in Nat
    BY OfFinite DEF IInv, Process
  <1>4. PICK c \in Cfg : c = req[h].cfg
    BY <1>3, RequestType DEF Mine
  <1>5. PICK s \in Service :
            /\ s.id = nextId /\ s.uuid = i /\ s.cfg = c
            /\ services' = services \cup {s} /\ nextId' = nextId + 1
            /\ Of(i)' = Of(i) \cup {s} /\ Cardinality(Of(i)') = Cardinality(Of(i)) + 1
    BY <1>3, <1>4, PostedAdds
  <1>6. nextId \in Nat /\ \A t \in services : t.id < nextId /\ t.id \in Nat
    BY <1>3, ServiceType DEF Roster
  <1>7. \A id \in Nat : Own(i, id) => Own(i, id)' /\ Exists(id)' = Exists(id)
    BY <1>5, <1>6 DEF Own, Exists
  <1>8. i \in Stored => /\ Own(i, db[i].service)'
                        /\ Exists(db[i].service)' = Exists(db[i].service)
    BY <1>3, <1>7, DocumentType DEF Good, Ids, Own, Exists
  <1>9. \A k \in Handler \ {h} : Mine(k, i) =>
            Own(i, req[k].service)' /\ Exists(req[k].service)' = Exists(req[k].service)
    <2>1. ASSUME NEW k \in Handler \ {h}, Mine(k, i)
          PROVE  Own(i, req[k].service)' /\ Exists(req[k].service)' = Exists(req[k].service)
      <3>1. PICK id \in Nat : id = req[k].service /\ req'[k] = req[k]
        BY <1>1, <1>3, <2>1, RequestType DEF Mine
      <3>2. Own(i, id)
        BY <1>3, <2>1, <3>1 DEF Good, Ids
      <3> QED BY <1>7, <3>1, <3>2 DEF Own, Exists
    <2> QED BY <2>1
  <1>10. Exists(r.service)'
    BY <1>5 DEF Exists
  <1>11. nextId < nextId' /\ \A t \in services' : t.id = nextId => t.uuid = i
    BY <1>5, <1>6
  <1>12. (i \in Stored') = (i \in Stored)
    BY DEF Stored
  <1>13. Ids(i)'
    <2>1. Own(i, req[h].service)'
      BY <1>1, <1>11 DEF Own
    <2> QED BY <1>1, <1>8, <1>9, <1>12, <2>1 DEF Ids
  <1>14. Untouched(i)'
    BY <1>3 DEF Good, Untouched
  <1>15. Held(i)'
    BY <1>1, <1>2, <1>3, <1>8, <1>9, <1>12, Unasked DEF Good, Held
  <1>16. \A k \in Handler : Holds(k, i)' => k = h
    BY <1>1, <1>2, <1>3 DEF Good, Held
  <1>17. Counted(i)'
    <2>1. Cardinality(Of(i)) <= faults
      BY <1>2, <1>3 DEF Good, Counted
    <2>2. Exists(req[h].service)' /\ req'[h].pc = "store"
      BY <1>1, <1>10 DEF Exists
    <2> QED BY <1>2, <1>3, <1>5, <1>16, <2>1, <2>2 DEF Counted
  <1>18. Faultless(i)'
    BY <1>1, <1>2, <1>4, <1>5, <1>16 DEF Faultless
  <1> QED BY <1>13, <1>14, <1>15, <1>17, <1>18 DEF Good

(* The same, but the call reports an error.                                *)
LEMMA PostLostGood ==
    ASSUME IInv, NEW h \in Handler, NEW i \in Uuid, Mine(h, i),
           req[h].pc \in {"create", "replace"},
           NEW x \in 0 .. MaxSuffix, Posted(i, x, req[h].cfg),
           req' = [req EXCEPT ![h] = NoRequest],
           faults' = faults + 1, UNCHANGED <<db, fresh>>
    PROVE  Good(i)'
  <1>1. \A k \in Handler \ {h} :
            /\ req'[k] = req[k] /\ Mine(k, i)' = Mine(k, i)
            /\ Asks(k, i)' = Asks(k, i) /\ Holds(k, i)' = Holds(k, i)
    BY SameInstance DEF IInv
  <1>2. ~Mine(h, i)' /\ ~Asks(h, i)' /\ ~Holds(h, i)' /\ Holds(h, i)
    BY SameInstance DEF IInv, Mine, Asks, Holds
  <1>3. /\ Good(i) /\ Process /\ TypeOK /\ Roster
        /\ Cardinality(Of(i)) \in Nat /\ faults \in Nat
    BY OfFinite DEF IInv, Process
  <1>4. PICK c \in Cfg : c = req[h].cfg
    BY <1>3, RequestType DEF Mine
  <1>5. PICK s \in Service :
            /\ s.id = nextId /\ s.uuid = i
            /\ services' = services \cup {s} /\ nextId' = nextId + 1
            /\ Cardinality(Of(i)') = Cardinality(Of(i)) + 1
    BY <1>3, <1>4, PostedAdds
  <1>6. nextId \in Nat /\ \A t \in services : t.id < nextId /\ t.id \in Nat
    BY <1>3, ServiceType DEF Roster
  <1>7. \A id \in Nat : Own(i, id) => Own(i, id)' /\ Exists(id)' = Exists(id)
    BY <1>5, <1>6 DEF Own, Exists
  <1>8. i \in Stored => /\ Own(i, db[i].service)'
                        /\ Exists(db[i].service)' = Exists(db[i].service)
    BY <1>3, <1>7, DocumentType DEF Good, Ids, Own, Exists
  <1>9. \A k \in Handler \ {h} : Mine(k, i) =>
            Own(i, req[k].service)' /\ Exists(req[k].service)' = Exists(req[k].service)
    <2>1. ASSUME NEW k \in Handler \ {h}, Mine(k, i)
          PROVE  Own(i, req[k].service)' /\ Exists(req[k].service)' = Exists(req[k].service)
      <3>1. PICK id \in Nat : id = req[k].service /\ req'[k] = req[k]
        BY <1>1, <1>3, <2>1, RequestType DEF Mine
      <3>2. Own(i, id)
        BY <1>3, <2>1, <3>1 DEF Good, Ids
      <3> QED BY <1>7, <3>1, <3>2 DEF Own, Exists
    <2> QED BY <2>1
  <1>10. (i \in Stored') = (i \in Stored)
    BY DEF Stored
  <1>11. Ids(i)' /\ Untouched(i)'
    BY <1>1, <1>2, <1>3, <1>8, <1>9, <1>10 DEF Good, Ids, Untouched
  <1>12. \A k \in Handler : ~Holds(k, i)'
    BY <1>1, <1>2, <1>3 DEF Good, Held
  <1>13. Held(i)'
    BY <1>1, <1>2, <1>3, <1>8, <1>9, <1>10, <1>12, Unasked DEF Good, Held
  <1>14. Counted(i)'
    <2>1. Cardinality(Of(i)) <= faults
      BY <1>2, <1>3 DEF Good, Counted
    <2> QED BY <1>3, <1>5, <1>12, <2>1 DEF Counted
  <1>15. Faultless(i)'
    BY <1>3 DEF Faultless
  <1> QED BY <1>11, <1>13, <1>14, <1>15 DEF Good

(* The service that a request has read is removed: nobody holds the        *)
(* instance, and of the others that ask none will find it.                 *)
LEMMA DeletedGood ==
    ASSUME IInv, NEW h \in Handler, NEW i \in Uuid, Asks(h, i),
           Deleted(req[h].service),
           NEW r \in Request \cup {NoRequest}, req' = [req EXCEPT ![h] = r],
           \/ r = NoRequest /\ faults' = faults + 1
           \/ /\ r # NoRequest /\ r.pc \in {"replace", "forget"} /\ r.uuid = i
              /\ r.service = req[h].service /\ faults' = faults,
           UNCHANGED <<db, fresh>>
    PROVE  Good(i)'
  <1>1. /\ req'[h] = r
        /\ \A k \in Handler \ {h} :
              /\ req'[k] = req[k] /\ Mine(k, i)' = Mine(k, i)
              /\ Asks(k, i)' = Asks(k, i) /\ Holds(k, i)' = Holds(k, i)
    BY SameInstance DEF IInv
  <1>2. Mine(h, i) /\ ~Asks(h, i)' /\ (Holds(h, i)' => r # NoRequest)
    BY <1>1 DEF Mine, Holds, Asks
  <1>3. /\ Good(i) /\ Process /\ TypeOK /\ Roster
        /\ Cardinality(Of(i)) \in Nat /\ faults \in Nat
    BY OfFinite DEF IInv, Process
  <1>4. PICK id \in Nat : id = req[h].service
    BY <1>2, <1>3, RequestType DEF Mine
  <1>5. Exists(id) /\ Own(i, id)
    BY <1>2, <1>3, <1>4 DEF Deleted, Good, Ids
  <1>6. PICK s \in Of(i) :
            /\ s.id = id /\ services' = services \ {s} /\ nextId' = nextId
            /\ Cardinality(Of(i)') = Cardinality(Of(i)) - 1
    BY <1>3, <1>4, <1>5, DeletedTakes
  <1>7. i \in Stored /\ db[i].service = id /\ \A k \in Handler : ~Holds(k, i)
    BY <1>3, <1>4, <1>5 DEF Good, Held
  <1>8. ~Exists(id)'
    BY <1>6 DEF Exists, Roster, IInv, Process, Of
  <1>9. \A g \in Nat : /\ Own(i, g) => Own(i, g)'
                       /\ Exists(g)' => Exists(g)
    BY <1>6 DEF Own, Exists
  <1>10. \A k \in Handler \ {h} : Mine(k, i) => Own(i, req[k].service)'
    <2>1. ASSUME NEW k \in Handler \ {h}, Mine(k, i) PROVE Own(i, req[k].service)'
      <3>1. PICK g \in Nat : g = req[k].service /\ req'[k] = req[k]
        BY <1>1, <1>3, <2>1, RequestType DEF Mine
      <3>2. Own(i, g)
        BY <1>3, <2>1, <3>1 DEF Good, Ids
      <3> QED BY <1>9, <3>1, <3>2 DEF Own
    <2> QED BY <2>1
  <1>11. (i \in Stored') = (i \in Stored)
    BY DEF Stored
  <1>12. ~Exists(db[i].service)' /\ Own(i, db[i].service)'
    BY <1>5, <1>7, <1>8, <1>9 DEF Own, Exists
  <1>13. \A k \in Handler : Asks(k, i)' => ~Exists(req[k].service)'
    <2>1. ASSUME NEW k \in Handler, Asks(k, i)', Exists(req[k].service)' PROVE FALSE
      <3>1. k # h /\ Asks(k, i) /\ Mine(k, i) /\ req'[k] = req[k]
        BY <1>1, <1>2, <2>1, Unasked
      <3>2. PICK g \in Nat : g = req[k].service
        BY <1>3, <3>1, RequestType DEF Mine
      <3>3. Exists(g)' /\ Exists(g)
        BY <1>9, <2>1, <3>1, <3>2 DEF Exists
      <3>4. g = id
        BY <1>3, <1>7, <3>1, <3>2, <3>3 DEF Good, Held
      <3> QED BY <1>8, <3>3, <3>4
    <2> QED BY <2>1
  <1>14. Ids(i)'
    <2>1. r # NoRequest => Own(i, req[h].service)'
      BY <1>1, <1>4, <1>5, <1>9 DEF Own
    <2>2. Mine(h, i)' => r # NoRequest
      BY <1>1 DEF Mine
    <2> QED BY <1>1, <1>10, <1>12, <2>1, <2>2 DEF Ids
  <1>15. Untouched(i)'
    BY <1>2, <1>3 DEF Good, Untouched
  <1>16. \A k \in Handler : Holds(k, i)' => k = h /\ r # NoRequest
    BY <1>1, <1>2, <1>7
  <1>17. Held(i)'
    BY <1>1, <1>12, <1>13, <1>16 DEF Held
  <1>18. Counted(i)'
    <2>1. Cardinality(Of(i)) <= 1 + faults
      BY <1>3 DEF Good, Counted
    <2> QED BY <1>3, <1>6, <2>1 DEF Counted
  <1>19. Faultless(i)'
    <2>1. faults' = 0 => r # NoRequest /\ Holds(h, i)'
      BY <1>1, <1>3 DEF Holds, Mine
    <2> QED BY <1>1, <1>7, <1>11, <1>16, <2>1 DEF Faultless
  <1> QED BY <1>14, <1>15, <1>17, <1>18, <1>19 DEF Good

(* The holder stores what it has made, and the instance is free again.     *)
LEMMA StoreGood ==
    ASSUME IInv, NEW h \in Handler, NEW i \in Uuid, Mine(h, i), req[h].pc = "store",
           req' = [req EXCEPT ![h] = NoRequest],
           db' = [db EXCEPT ![i] = [service |-> req[h].service, cfg |-> req[h].cfg]],
           UNCHANGED <<platform, fresh>>, faults' = faults \/ faults' = faults + 1
    PROVE  Good(i)'
  <1> USE DEF platform
  <1>1. \A k \in Handler \ {h} :
            /\ req'[k] = req[k] /\ Mine(k, i)' = Mine(k, i)
            /\ Asks(k, i)' = Asks(k, i) /\ Holds(k, i)' = Holds(k, i)
    BY SameInstance DEF IInv
  <1>2. ~Mine(h, i)' /\ ~Asks(h, i)' /\ ~Holds(h, i)' /\ Holds(h, i)
    BY SameInstance DEF IInv, Mine, Asks, Holds
  <1>3. /\ Good(i) /\ Process /\ TypeOK /\ Roster
        /\ Cardinality(Of(i)) \in Nat /\ faults \in Nat
    BY OfFinite DEF IInv, Process
  <1>4. PICK g \in Nat, c \in Cfg : g = req[h].service /\ c = req[h].cfg
    BY <1>3, RequestType DEF Mine
  <1>5. PICK d \in Document : d = [service |-> g, cfg |-> c] /\ d.service = g /\ d.cfg = c
    <2> DEFINE e == [service |-> g, cfg |-> c]
    <2>1. e \in Document /\ e.service = g /\ e.cfg = c
      BY DEF Document
    <2> QED BY <2>1
  <1>6. db'[i] = d /\ i \in Stored' /\ d # NoRecord
    BY <1>3, <1>4, <1>5 DEF TypeOK, Stored, IInv, Constants
  <1>7. Of(i)' = Of(i) /\ \A k \in Handler : ~Holds(k, i)'
    <2>1. \A k \in Handler : ~Holds(k, i)'
      BY <1>1, <1>2, <1>3 DEF Good, Held
    <2> QED BY <2>1 DEF Of
  <1>8. Ids(i)'
    <2>1. Own(i, g)
      BY <1>3, <1>4 DEF Good, Ids
    <2> QED BY <1>1, <1>2, <1>3, <1>5, <1>6, <2>1 DEF Good, Ids, Own
  <1>9. Untouched(i)'
    BY <1>3 DEF Good, Untouched
  <1>10. Held(i)'
    <2>1. \A k \in Handler : Asks(k, i)' => ~Exists(req[k].service)'
      BY <1>1, <1>2, <1>3 DEF Good, Held, Exists
    <2> QED BY <1>7, <2>1 DEF Held
  <1>11. Counted(i)'
    <2>1. Cardinality(Of(i)) <= 1 + faults'
      BY <1>3 DEF Good, Counted
    <2>2. ~Exists(db[i].service)' => Cardinality(Of(i)) <= faults'
      <3>1. ~Exists(g) => Cardinality(Of(i)) <= faults
        BY <1>2, <1>3, <1>4 DEF Good, Counted
      <3> QED BY <1>3, <1>5, <1>6, <3>1 DEF Exists
    <2> QED BY <1>7, <2>1, <2>2 DEF Counted
  <1>12. Faultless(i)'
    <2>1. faults = 0 => \E s \in Of(i) : s.id = g /\ s.cfg = c
      BY <1>2, <1>3, <1>4 DEF Good, Faultless
    <2>2. faults' = 0 => faults = 0
      BY <1>3
    <2> QED BY <1>5, <1>6, <1>7, <2>1, <2>2 DEF Faultless
  <1> QED BY <1>8, <1>9, <1>10, <1>11, <1>12 DEF Good

(* The holder removes the document.                                        *)
LEMMA ForgetGood ==
    ASSUME IInv, NEW h \in Handler, NEW i \in Uuid, Mine(h, i), req[h].pc = "forget",
           req' = [req EXCEPT ![h] = NoRequest], db' = [db EXCEPT ![i] = NoRecord],
           UNCHANGED <<platform, fresh>>, faults' = faults \/ faults' = faults + 1
    PROVE  Good(i)'
  <1> USE DEF platform
  <1>1. \A k \in Handler \ {h} :
            /\ req'[k] = req[k] /\ Mine(k, i)' = Mine(k, i)
            /\ Asks(k, i)' = Asks(k, i) /\ Holds(k, i)' = Holds(k, i)
    BY SameInstance DEF IInv
  <1>2. ~Mine(h, i)' /\ ~Asks(h, i)' /\ ~Holds(h, i)' /\ Holds(h, i)
    BY SameInstance DEF IInv, Mine, Asks, Holds
  <1>3. /\ Good(i) /\ Process /\ TypeOK /\ Roster
        /\ Cardinality(Of(i)) \in Nat /\ faults \in Nat
    BY OfFinite DEF IInv, Process
  <1>4. i \notin Stored'
    BY <1>3 DEF TypeOK, Stored
  <1>5. Of(i)' = Of(i) /\ \A k \in Handler : ~Holds(k, i)'
    <2>1. \A k \in Handler : ~Holds(k, i)'
      BY <1>1, <1>2, <1>3 DEF Good, Held
    <2> QED BY <2>1 DEF Of
  <1>6. Ids(i)' /\ Untouched(i)'
    BY <1>1, <1>2, <1>3, <1>4 DEF Good, Ids, Own, Untouched
  <1>7. Held(i)'
    <2>1. \A k \in Handler : Asks(k, i)' => ~Exists(req[k].service)'
      BY <1>1, <1>2, <1>3 DEF Good, Held, Exists
    <2> QED BY <1>5, <2>1 DEF Held
  <1>8. Cardinality(Of(i)) <= faults
    BY <1>2, <1>3 DEF Good, Counted
  <1>9. Counted(i)'
    BY <1>3, <1>4, <1>5, <1>8 DEF Counted
  <1>10. Faultless(i)'
    <2>1. faults' = 0 => Of(i) = {}
      BY <1>3, <1>8, NoneLeft
    <2> QED BY <1>4, <1>5, <2>1 DEF Faultless
  <1> QED BY <1>6, <1>7, <1>9, <1>10 DEF Good

(* A request begins: one that creates has a new instance for itself, one   *)
(* that asks has read the document.                                        *)
LEMMA BeginGood ==
    ASSUME IInv, NEW h \in Handler, req[h] = NoRequest, NEW i \in Uuid,
           NEW r \in Request, r.uuid = i, req' = [req EXCEPT ![h] = r],
           \/ i \in fresh /\ r.pc = "create" /\ r.service = 0 /\ i \notin fresh'
           \/ i \in Stored /\ r.pc \in {"remove", "drop"} /\ r.service = db[i].service,
           fresh' \subseteq fresh, UNCHANGED <<db, platform, faults>>
    PROVE  Good(i)'
  <1> USE DEF platform
  <1>1. /\ req'[h] = r
        /\ \A k \in Handler \ {h} :
              /\ req'[k] = req[k] /\ Mine(k, i)' = Mine(k, i)
              /\ Asks(k, i)' = Asks(k, i) /\ Holds(k, i)' = Holds(k, i)
    <2>1. TypeOK
      BY DEF IInv
    <2>2. req'[h] = r /\ \A k \in Handler \ {h} : req'[k] = req[k]
      BY <2>1 DEF TypeOK
    <2> QED BY <2>2 DEF Mine, Asks, Holds
  <1>2. ~Mine(h, i) /\ Mine(h, i)'
    BY <1>1 DEF Mine, IInv, Constants
  <1>3. /\ Good(i) /\ Process /\ TypeOK /\ Roster
        /\ Cardinality(Of(i)) \in Nat /\ faults \in Nat
    BY OfFinite DEF IInv, Process
  <1>4. Of(i)' = Of(i) /\ (i \in Stored') = (i \in Stored)
    BY DEF Of, Stored
  <1>5. CASE i \in fresh /\ r.pc = "create" /\ r.service = 0 /\ i \notin fresh'
    <2>1. i \notin Stored /\ Of(i) = {} /\ \A k \in Handler : ~Mine(k, i)
      BY <1>3, <1>5 DEF Good, Untouched
    <2>2. \A k \in Handler \ {h} : ~Mine(k, i)' /\ ~Asks(k, i)' /\ ~Holds(k, i)'
      BY <1>1, <2>1, Unasked
    <2>3. Own(i, 0)'
      BY <1>3 DEF Roster, Own
    <2>4. Holds(h, i)' /\ ~Asks(h, i)' /\ req'[h].pc = "create"
      BY <1>1, <1>2, <1>5 DEF Holds, Asks, Mine
    <2>5. Ids(i)'
      BY <1>1, <1>4, <1>5, <2>1, <2>2, <2>3 DEF Ids, Own
    <2>6. Untouched(i)'
      BY <1>5 DEF Untouched
    <2>7. Held(i)'
      BY <1>4, <2>1, <2>2, <2>4 DEF Held
    <2>8. Counted(i)'
      <3>1. Cardinality(Of(i)) = 0
        BY <2>1, FS_EmptySet
      <3> QED BY <1>3, <1>4, <3>1 DEF Counted
    <2>9. Faultless(i)'
      BY <1>4, <2>1, <2>2, <2>4 DEF Faultless
    <2> QED BY <2>5, <2>6, <2>7, <2>8, <2>9 DEF Good
  <1>6. CASE i \in Stored /\ r.pc \in {"remove", "drop"} /\ r.service = db[i].service
    <2>1. ~Holds(h, i)' /\ ~Holds(h, i) /\ ~Asks(h, i)
      BY <1>1, <1>2, <1>6, Unasked DEF Holds
    <2>2. Ids(i)'
      BY <1>1, <1>3, <1>4, <1>6 DEF Good, Ids, Own
    <2>3. Untouched(i)'
      BY <1>3, <1>6 DEF Good, Untouched
    <2>4. \A k \in Handler : Holds(k, i)' = Holds(k, i) /\ (Holds(k, i) => req'[k] = req[k])
      BY <1>1, <2>1 DEF Holds
    <2>5. Held(i)'
      <3>1. \A k \in Handler : Asks(k, i)' /\ Exists(req[k].service)' =>
                db[i].service = req'[k].service
        BY <1>1, <1>3, <1>6 DEF Good, Held, Exists
      <3>2. \A k \in Handler : Asks(k, i)' =>
                \/ Asks(k, i) /\ req'[k] = req[k]
                \/ req'[k].service = db[i].service
        BY <1>1, <1>6
      <3> QED BY <1>3, <1>4, <1>6, <2>4, <3>1, <3>2 DEF Good, Held, Exists
    <2>6. Counted(i)'
      BY <1>3, <1>4, <2>4 DEF Good, Counted, Exists
    <2>7. Faultless(i)'
      BY <1>3, <1>4, <1>6, <2>4 DEF Good, Faultless
    <2> QED BY <2>2, <2>3, <2>5, <2>6, <2>7 DEF Good
  <1> QED BY <1>5, <1>6

(* While no request is under way the documents alone count.                *)
LEMMA IdleGood ==
    ASSUME NEW i, \A h \in Handler : req'[h] = NoRequest,
           faults' \in Nat \ {0},
           i \in Stored' => Own(i, db[i].service)' /\ i \notin fresh',
           i \in fresh' => Of(i)' = {},
           Cardinality(Of(i)') <= 1 + faults',
           i \in Stored' /\ ~Exists(db[i].service)' => Cardinality(Of(i)') <= faults'
    PROVE  Good(i)'
  <1>1. \A h \in Handler : ~Mine(h, i)' /\ ~Asks(h, i)' /\ ~Holds(h, i)'
    BY DEF Mine, Asks, Holds
  <1> QED BY <1>1 DEF Good, Ids, Untouched, Held, Counted, Faultless

(* Startup makes a service that was missing.                               *)
LEMMA EnsureGood ==
    ASSUME IInv, phase # "up", NEW i \in Uuid, i \in Stored, ~Exists(db[i].service),
           Posted(i, 0, db[i].cfg), UNCHANGED <<req, fresh>>,
           \/ /\ db' = [db EXCEPT ![i].service = nextId]
              /\ faults' = faults \/ faults' = faults + 1
           \/ db' = db /\ faults' = faults + 1
    PROVE  /\ Good(i)' /\ db' \in [Uuid -> Document \cup {NoRecord}]
           /\ \A j \in Uuid : (j \in Stored') = (j \in Stored)
           /\ db' # db => Exists(db[i].service)'
           /\ \A j \in Uuid \ {i} : db'[j] = db[j]
  <1>1. /\ Good(i) /\ Process /\ TypeOK /\ Roster
        /\ Cardinality(Of(i)) \in Nat /\ faults \in Nat \ {0}
        /\ \A h \in Handler : req[h] = NoRequest
    BY OfFinite DEF IInv, Process
  <1>2. PICK c \in Cfg : c = db[i].cfg /\ db[i] \in Document
    BY <1>1, DocumentType
  <1>3. PICK s \in Service :
            /\ s.id = nextId /\ s.uuid = i
            /\ services' = services \cup {s} /\ nextId' = nextId + 1
            /\ Of(i)' = Of(i) \cup {s} /\ Cardinality(Of(i)') = Cardinality(Of(i)) + 1
    <2>1. 0 \in 0 .. MaxSuffix
      BY DEF IInv, Constants
    <2> QED BY <1>1, <1>2, <2>1, PostedAdds
  <1>4. nextId \in Nat /\ \A t \in services : t.id < nextId /\ t.id \in Nat
    BY <1>1, ServiceType DEF Roster
  <1>5. Cardinality(Of(i)) <= faults
    <2>1. \A h \in Handler : ~Holds(h, i)
      BY <1>1 DEF Holds, Mine
    <2> QED BY <1>1, <2>1 DEF Good, Counted
  <1>6. i \notin fresh'
    BY <1>1 DEF Good, Untouched
  <1>7. CASE db' = [db EXCEPT ![i].service = nextId]
    <2>1. PICK d \in Document : d = [db[i] EXCEPT !.service = nextId] /\ d.service = nextId
      <3> DEFINE e == [db[i] EXCEPT !.service = nextId]
      <3>1. e \in Document /\ e.service = nextId
        BY <1>2, <1>4 DEF Document
      <3> QED BY <3>1
    <2>2. db' = [db EXCEPT ![i] = d] /\ d # NoRecord
      BY <1>7, <2>1 DEF IInv, Constants
    <2>3. /\ db'[i] = d /\ \A j \in Uuid \ {i} : db'[j] = db[j]
          /\ db' \in [Uuid -> Document \cup {NoRecord}]
      BY <1>1, <2>2 DEF TypeOK
    <2>4. \A j \in Uuid : (j \in Stored') = (j \in Stored)
      BY <2>2, <2>3 DEF Stored
    <2>5. Own(i, db[i].service)' /\ Exists(db[i].service)'
      BY <1>3, <1>4, <2>1, <2>3 DEF Own, Exists
    <2>6. Cardinality(Of(i)') <= faults' + 1 /\ faults' \in Nat \ {0}
      BY <1>1, <1>3, <1>5
    <2>7. \A h \in Handler : req'[h] = NoRequest
      BY <1>1
    <2>8. Good(i)'
      BY <1>6, <2>5, <2>6, <2>7, IdleGood
    <2> QED BY <2>3, <2>4, <2>5, <2>8
  <1>8. CASE db' = db /\ faults' = faults + 1
    <2>1. Own(i, db[i].service)'
      BY <1>1, <1>2, <1>3, <1>4, <1>8 DEF Good, Ids, Own, Document
    <2>2. Good(i)'
      BY <1>1, <1>3, <1>5, <1>6, <1>8, <2>1, IdleGood
    <2> QED BY <1>1, <1>8, <2>2 DEF TypeOK, Stored
  <1> QED BY <1>7, <1>8

(* A service is removed by somebody else.                                  *)
LEMMA LostGood ==
    ASSUME IInv, NEW s \in services, Lost(s)
    PROVE  Good(s.uuid)'
  <1>1. PICK i \in Uuid : i = s.uuid
    BY ServiceType DEF IInv, Process
  <1>2. services' = services \ {s} /\ UNCHANGED <<db, fresh, nextId, req>> /\ faults' = faults + 1
    BY DEF Lost, Fault
  <1>3. /\ Good(i) /\ Process /\ TypeOK /\ Roster
        /\ Cardinality(Of(i)) \in Nat /\ faults \in Nat
    BY OfFinite DEF IInv, Process
  <1>4. Of(i)' = Of(i) \ {s} /\ s \in Of(i)
    BY <1>1, <1>2 DEF Of
  <1>5. Cardinality(Of(i)') = Cardinality(Of(i)) - 1
    BY <1>3, <1>4, OfFinite, FS_RemoveElement
  <1>6. \A h \in Handler : Mine(h, i)' = Mine(h, i) /\ Asks(h, i)' = Asks(h, i)
                           /\ Holds(h, i)' = Holds(h, i) /\ req'[h] = req[h]
    BY <1>2 DEF Mine, Asks, Holds
  <1>7. (i \in Stored') = (i \in Stored)
    BY <1>2 DEF Stored
  <1>8. Ids(i)' /\ Untouched(i)'
    BY <1>2, <1>3, <1>4, <1>6, <1>7 DEF Good, Ids, Own, Untouched
  <1>9. Held(i)'
    <2>1. \A g : (\E t \in services' : t.id = g) => Exists(g)
      BY <1>2 DEF Exists
    <2> QED BY <1>2, <1>3, <1>6, <1>7, <2>1 DEF Good, Held, Exists
  <1>10. Counted(i)' /\ Faultless(i)'
    BY <1>2, <1>3, <1>5 DEF Good, Counted, Faultless
  <1> QED BY <1>1, <1>8, <1>9, <1>10 DEF Good

-----------------------------------------------------------------------------
(* Every step keeps the invariant.                                         *)

(* So does a step of a request that is good to its instance.               *)
LEMMA RequestStep ==
    ASSUME IInv, phase = "up", NEW h \in Handler, NEW i \in Uuid, Mine(h, i),
           NEW r \in Request \cup {NoRequest}, r = NoRequest \/ r.uuid = i,
           req' = [req EXCEPT ![h] = r], fresh' = fresh, UNCHANGED process,
           faults' = faults \/ faults' = faults + 1, Onward, Roster',
           db' \in [Uuid -> Document \cup {NoRecord}],
           \A j \in Uuid \ {i} : db'[j] = db[j] /\ Of(j)' = Of(j),
           Good(i)'
    PROVE  IInv'
  <1>1. TypeOK /\ Process /\ faults \in Nat /\ phase' = "up" /\ pending = {} /\ pending' = {}
    BY DEF IInv, Process, process
  <1>2. faults' >= faults /\ faults' \in Nat
    BY <1>1
  <1>3. \A j \in Uuid \ {i} : Good(j)'
    BY <1>2, OthersKept
  <1>4. req' \in [Handler -> Request \cup {NoRequest}]
    BY <1>1 DEF TypeOK
  <1>5. TypeOK'
    BY <1>1, <1>4 DEF TypeOK, Roster
  <1>6. Process'
    BY <1>1, <1>2 DEF Process
  <1>7. AllDeployed'
    BY <1>1 DEF AllDeployed
  <1> QED BY <1>3, <1>5, <1>6, <1>7 DEF IInv, Constants

(* The steps that touch neither documents nor services.                    *)
LEMMA Elsewhere ==
    ASSUME IInv, UNCHANGED <<db, fresh, platform, req>>,
           faults' = faults \/ faults' = faults + 1
    PROVE  Roster' /\ faults' \in Nat /\ \A i \in Uuid : Good(i)'
  <1> USE DEF platform
  <1>1. TypeOK /\ Process /\ Roster /\ faults \in Nat /\ nextId \in Nat
    BY DEF IInv, Process, Roster
  <1>2. Roster' /\ faults' \in Nat /\ faults' >= faults
    BY <1>1, Fewer
  <1>3. Onward
    BY <1>1 DEF Onward
  <1>4. \A i \in Uuid : Of(i)' = Of(i)
    BY DEF Of
  <1>5. \A h \in Handler, i \in Uuid : Mine(h, i)' = Mine(h, i)
    BY DEF Mine
  <1>6. ASSUME NEW i \in Uuid PROVE Good(i)'
    BY <1>1, <1>2, <1>3, <1>4, <1>5, Frame DEF IInv
  <1> QED BY <1>2, <1>6

LEMMA BeginInv ==
    ASSUME IInv, NEW h \in Handler, NEW i \in Uuid, NEW c \in Cfg,
           NEW pc \in {"create", "remove", "drop"}, Begin(h, pc, i, c),
           \/ pc = "create" /\ i \in fresh /\ fresh' = fresh \ {i}
           \/ pc \in {"remove", "drop"} /\ i \in Stored /\ fresh' = fresh
    PROVE  IInv'
  <1> USE DEF platform, process
  <1>1. /\ TypeOK /\ Process /\ faults \in Nat
        /\ phase = "up" /\ phase' = "up" /\ pending = {} /\ pending' = {}
        /\ req[h] = NoRequest /\ UNCHANGED <<db, platform, faults>>
    BY DEF IInv, Process, Begin
  <1>2. PICK n \in Nat : n = IF db[i] = NoRecord THEN 0 ELSE db[i].service
    BY <1>1, DocumentType DEF Stored
  <1>3. PICK r \in Request : r.pc = pc /\ r.uuid = i /\ r.service = n
                             /\ req' = [req EXCEPT ![h] = r]
    <2> DEFINE e == [pc |-> pc, uuid |-> i, cfg |-> c, service |-> n]
    <2>1. e \in Request /\ e.pc = pc /\ e.uuid = i /\ e.service = n
      BY DEF Request
    <2>2. req' = [req EXCEPT ![h] = e]
      BY <1>2 DEF Begin
    <2> QED BY <2>1, <2>2
  <1>4. i \in fresh => i \notin Stored
    BY DEF IInv, Good, Untouched
  <1>5. Good(i)'
    <2>1. CASE pc = "create" /\ i \in fresh /\ fresh' = fresh \ {i}
      <3>1. n = 0
        BY <1>2, <1>4, <2>1 DEF Stored
      <3> QED BY <1>1, <1>3, <2>1, <3>1, BeginGood
    <2>2. CASE pc \in {"remove", "drop"} /\ i \in Stored /\ fresh' = fresh
      <3>1. n = db[i].service
        BY <1>2, <2>2 DEF Stored
      <3> QED BY <1>1, <1>3, <2>2, <3>1, BeginGood
    <2> QED BY <2>1, <2>2
  <1>6. /\ req'[h] = r /\ \A k \in Handler \ {h} : req'[k] = req[k]
        /\ req' \in [Handler -> Request \cup {NoRequest}]
    BY <1>1, <1>3 DEF TypeOK
  <1>7. ASSUME NEW j \in Uuid \ {i} PROVE Good(j)'
    <2>1. \A k \in Handler : /\ Mine(k, j)' = Mine(k, j)
                             /\ Mine(k, j) => req'[k] = req[k]
      BY <1>1, <1>3, <1>6 DEF Mine
    <2>2. Onward /\ Of(j)' = Of(j) /\ db'[j] = db[j]
      BY <1>1 DEF Onward, Of, Process, Roster
    <2> QED BY <1>1, <2>1, <2>2, Frame DEF IInv
  <1>8. TypeOK' /\ AllDeployed'
    BY <1>1, <1>6 DEF TypeOK, AllDeployed
  <1>9. Process'
    BY <1>1, Fewer DEF Process
  <1> QED BY <1>5, <1>7, <1>8, <1>9 DEF IInv, Constants

LEMMA BeginStep ==
    ASSUME IInv, NEW h \in Handler, BeginRequest(h)
    PROVE  IInv'
  <1>1. CASE \E i \in fresh, c \in Cfg : Begin(h, "create", i, c) /\ fresh' = fresh \ {i}
    BY <1>1, BeginInv DEF IInv, Process
  <1>2. CASE \E i \in Stored, c \in Cfg : Begin(h, "remove", i, c) /\ UNCHANGED fresh
    BY <1>2, BeginInv DEF Stored
  <1>3. CASE \E i \in Stored : Begin(h, "drop", i, db[i].cfg) /\ UNCHANGED fresh
    <2>1. PICK i \in Uuid : i \in Stored /\ Begin(h, "drop", i, db[i].cfg) /\ UNCHANGED fresh
      BY <1>3 DEF Stored
    <2>2. PICK c \in Cfg : c = db[i].cfg
      BY <2>1, DocumentType DEF IInv
    <2> QED BY <2>1, <2>2, BeginInv
  <1> QED BY <1>1, <1>2, <1>3 DEF BeginRequest

(* A request ends, or goes on from where it was with the same instance.    *)
LEMMA EndStep ==
    ASSUME IInv, phase = "up", NEW h \in Handler, NEW i \in Uuid, Mine(h, i),
           Ends(h), UNCHANGED <<db, platform, fresh, process>>,
           \/ faults' = faults + 1
           \/ faults' = faults /\ Asks(h, i)
           \/ faults' = faults /\ req[h].pc \in {"create", "replace"} /\ Of(i) # {}
    PROVE  IInv'
  <1>1. req' = [req EXCEPT ![h] = NoRequest]
    BY DEF Ends
  <1>2. Good(i)'
    BY <1>1, EndGood
  <1>3. Roster' /\ Onward /\ \A j \in Uuid \ {i} : db'[j] = db[j] /\ Of(j)' = Of(j)
    BY Fewer DEF IInv, Process, Roster, Onward, Of, platform
  <1>4. db' \in [Uuid -> Document \cup {NoRecord}]
    BY DEF IInv, TypeOK
  <1> QED BY <1>1, <1>2, <1>3, <1>4, RequestStep

LEMMA PostStep ==
    ASSUME IInv, phase = "up", NEW h \in Handler, NEW i \in Uuid, Mine(h, i),
           req[h].pc \in {"create", "replace"}, NEW x \in 0 .. MaxSuffix,
           UNCHANGED <<db, fresh, process>>,
           \/ Posted(i, x, req[h].cfg) /\ ToStore(h)
           \/ Taken(i, x) /\ UNCHANGED <<platform, faults>> /\ Ends(h)
           \/ PostFails(i, x, req[h].cfg) /\ Ends(h)
    PROVE  IInv'
  <1>1. TypeOK /\ Roster /\ nextId \in Nat /\ req[h] # NoRequest /\ req[h].uuid = i
    BY DEF IInv, Process, Roster, Mine
  <1>2. PICK c \in Cfg : c = req[h].cfg /\ req[h] \in Request
    BY <1>1, RequestType
  <1>3. Posted(i, x, c) => Roster' /\ Onward /\ \A j \in Uuid \ {i} : Of(j)' = Of(j)
    <2>1. ASSUME Posted(i, x, c)
          PROVE  Roster' /\ Onward /\ \A j \in Uuid \ {i} : Of(j)' = Of(j)
      <3>1. PICK s \in Service :
                /\ s.id = nextId /\ services' = services \cup {s} /\ nextId' = nextId + 1
                /\ Roster' /\ \A j \in Uuid \ {i} : Of(j)' = Of(j)
        BY <1>1, <2>1, PostedAdds
      <3> QED BY <1>1, <3>1 DEF Onward
    <2> QED BY <2>1
  <1>4. db' \in [Uuid -> Document \cup {NoRecord}]
    BY <1>1 DEF TypeOK
  <1>5. CASE Posted(i, x, req[h].cfg) /\ ToStore(h)
    <2>1. PICK r \in Request : /\ r.pc = "store" /\ r.uuid = i /\ r.service = nextId
                               /\ r.cfg = req[h].cfg /\ req' = [req EXCEPT ![h] = r]
      <3> DEFINE e == [req[h] EXCEPT !.pc = "store", !.service = nextId]
      <3>1. /\ e \in Request /\ e.pc = "store" /\ e.uuid = i /\ e.service = nextId
            /\ e.cfg = req[h].cfg
        BY <1>1, <1>2 DEF Request
      <3>2. req' = [req EXCEPT ![h] = e]
        BY <1>1, <1>5 DEF ToStore, TypeOK
      <3> QED BY <3>1, <3>2
    <2>2. faults' = faults
      BY <1>5 DEF ToStore
    <2>3. Good(i)'
      BY <1>5, <2>1, <2>2, PostGood
    <2> QED BY <1>2, <1>3, <1>4, <1>5, <2>1, <2>2, <2>3, RequestStep
  <1>6. CASE Taken(i, x) /\ UNCHANGED <<platform, faults>> /\ Ends(h)
    <2>1. Of(i) # {}
      BY <1>6 DEF Taken, Of
    <2> QED BY <1>6, <2>1, EndStep
  <1>7. CASE PostFails(i, x, req[h].cfg) /\ Ends(h)
    <2>1. faults' = faults + 1 /\ req' = [req EXCEPT ![h] = NoRequest]
      BY <1>7 DEF PostFails, Fault, Ends
    <2>2. CASE UNCHANGED platform
      BY <1>7, <2>1, <2>2, EndStep
    <2>3. CASE Posted(i, x, req[h].cfg)
      <3>1. Good(i)'
        BY <2>1, <2>3, PostLostGood
      <3> QED BY <1>2, <1>3, <1>4, <2>1, <2>3, <3>1, RequestStep
    <2> QED BY <1>7, <2>2, <2>3 DEF PostFails
  <1> QED BY <1>5, <1>6, <1>7

LEMMA DeleteStep ==
    ASSUME IInv, phase = "up", NEW h \in Handler, NEW i \in Uuid, Asks(h, i),
           NEW pc \in {"replace", "forget"}, UNCHANGED <<db, fresh, process>>,
           \/ Deleted(req[h].service) /\ Goto(h, pc) /\ UNCHANGED faults
           \/ DeleteFails(req[h].service) /\ Ends(h)
    PROVE  IInv'
  <1>1. /\ TypeOK /\ Roster /\ nextId \in Nat /\ req[h] # NoRequest /\ req[h].uuid = i
        /\ Mine(h, i)
    BY DEF IInv, Process, Roster, Asks, Mine
  <1>2. PICK id \in Nat : id = req[h].service /\ req[h] \in Request
    BY <1>1, RequestType
  <1>3. Deleted(id) => Roster' /\ Onward /\ \A j \in Uuid \ {i} : Of(j)' = Of(j)
    <2>1. ASSUME Deleted(id)
          PROVE  Roster' /\ Onward /\ \A j \in Uuid \ {i} : Of(j)' = Of(j)
      <3>1. Own(i, id)
        BY <1>1, <1>2 DEF IInv, Good, Ids
      <3>2. PICK s \in Of(i) :
                /\ services' = services \ {s} /\ nextId' = nextId
                /\ Roster' /\ \A j \in Uuid \ {i} : Of(j)' = Of(j)
        BY <1>1, <2>1, <3>1, DeletedTakes
      <3> QED BY <1>1, <3>2 DEF Onward
    <2> QED BY <2>1
  <1>4. db' \in [Uuid -> Document \cup {NoRecord}]
    BY <1>1 DEF TypeOK
  <1>5. CASE Deleted(req[h].service) /\ Goto(h, pc) /\ UNCHANGED faults
    <2>1. PICK r \in Request : /\ r.pc = pc /\ r.uuid = i /\ r.service = req[h].service
                               /\ req' = [req EXCEPT ![h] = r]
      <3> DEFINE e == [req[h] EXCEPT !.pc = pc]
      <3>1. e \in Request /\ e.pc = pc /\ e.uuid = i /\ e.service = req[h].service
        BY <1>1, <1>2 DEF Request
      <3>2. req' = [req EXCEPT ![h] = e]
        BY <1>1, <1>5 DEF Goto, TypeOK
      <3> QED BY <3>1, <3>2
    <2>2. r # NoRequest
      BY DEF IInv, Constants
    <2>3. Good(i)'
      BY <1>5, <2>1, <2>2, DeletedGood
    <2> QED BY <1>1, <1>2, <1>3, <1>4, <1>5, <2>1, <2>3, RequestStep
  <1>6. CASE DeleteFails(req[h].service) /\ Ends(h)
    <2>1. req' = [req EXCEPT ![h] = NoRequest]
      BY <1>6 DEF Ends
    <2>2. CASE UNCHANGED platform
      <3>1. faults' = faults \/ faults' = faults + 1
        BY <1>6 DEF DeleteFails, Fault
      <3> QED BY <1>1, <1>6, <2>2, <3>1, EndStep
    <2>3. CASE Fault /\ Deleted(req[h].service)
      <3>1. faults' = faults + 1
        BY <2>3 DEF Fault
      <3>2. Good(i)'
        BY <2>1, <2>3, <3>1, DeletedGood
      <3> QED BY <1>1, <1>2, <1>3, <1>4, <2>1, <2>3, <3>1, <3>2, RequestStep
    <2> QED BY <1>6, <2>2, <2>3 DEF DeleteFails
  <1> QED BY <1>5, <1>6

LEMMA RecordStep ==
    ASSUME IInv, phase = "up", NEW h \in Handler, NEW i \in Uuid, Mine(h, i), Ends(h),
           NEW d \in Document \cup {NoRecord},
           \/ req[h].pc = "store" /\ d = [service |-> req[h].service, cfg |-> req[h].cfg]
           \/ req[h].pc = "forget" /\ d = NoRecord,
           LET stored == db' = [db EXCEPT ![i] = d]
           IN  \/ stored /\ UNCHANGED faults
               \/ Fault /\ (stored \/ UNCHANGED db),
           UNCHANGED <<fresh, platform, process>>
    PROVE  IInv'
  <1>1. TypeOK /\ Roster /\ nextId \in Nat /\ req' = [req EXCEPT ![h] = NoRequest]
    BY DEF IInv, Process, Roster, Ends
  <1>2. CASE UNCHANGED db /\ Fault
    BY <1>2, EndStep DEF Fault
  <1>3. CASE db' = [db EXCEPT ![i] = d]
    <2>1. faults' = faults \/ faults' = faults + 1
      BY DEF Fault
    <2>2. Good(i)'
      BY <1>1, <1>3, <2>1, StoreGood, ForgetGood
    <2>3. /\ db' \in [Uuid -> Document \cup {NoRecord}]
          /\ \A j \in Uuid \ {i} : db'[j] = db[j] /\ Of(j)' = Of(j)
      BY <1>1, <1>3 DEF TypeOK, Of, platform
    <2>4. Roster' /\ Onward
      BY <1>1, Fewer DEF Onward, platform, Roster
    <2> QED BY <1>1, <2>1, <2>2, <2>3, <2>4, RequestStep
  <1> QED BY <1>2, <1>3

LEMMA HandlerStep ==
    ASSUME IInv, NEW h \in Handler,
           Create(h) \/ Remove(h) \/ Replace(h) \/ Store(h) \/ Drop(h) \/ Forget(h)
    PROVE  IInv'
  <1>1. phase = "up" /\ req[h] # NoRequest
    BY DEF Create, Remove, Replace, Store, Drop, Forget, At
  <1>2. PICK i \in Uuid : i = req[h].uuid /\ Mine(h, i)
    BY <1>1, RequestType DEF IInv, Mine
  <1>3. CASE Create(h)
    <2>1. 0 \in 0 .. MaxSuffix
      BY DEF IInv, Constants
    <2>2. /\ req[h].pc = "create" /\ UNCHANGED <<db, fresh, process>>
          /\ \/ Posted(i, 0, req[h].cfg) /\ ToStore(h)
             \/ Taken(i, 0) /\ UNCHANGED <<platform, faults>> /\ Ends(h)
             \/ PostFails(i, 0, req[h].cfg) /\ Ends(h)
      BY <1>2, <1>3 DEF Create, At
    <2> QED BY <1>1, <1>2, <2>1, <2>2, PostStep
  <1>4. CASE Remove(h)
    <2>1. Asks(h, i) /\ UNCHANGED <<db, fresh, process>>
      BY <1>2, <1>4 DEF Remove, At, Asks
    <2> QED BY <1>1, <1>4, <2>1, DeleteStep DEF Remove
  <1>5. CASE Replace(h)
    <2>1. PICK x \in 1 .. MaxSuffix :
             \/ Posted(i, x, req[h].cfg) /\ ToStore(h)
             \/ Taken(i, x) /\ UNCHANGED <<platform, faults>> /\ Ends(h)
             \/ PostFails(i, x, req[h].cfg) /\ Ends(h)
      BY <1>2, <1>5 DEF Replace
    <2>2. x \in 0 .. MaxSuffix
      BY DEF IInv, Constants
    <2>3. req[h].pc = "replace" /\ UNCHANGED <<db, fresh, process>>
      BY <1>5 DEF Replace, At
    <2> QED BY <1>1, <1>2, <2>1, <2>2, <2>3, PostStep
  <1>6. CASE Store(h)
    <2>1. PICK d \in Document : d = [service |-> req[h].service, cfg |-> req[h].cfg]
      BY <1>1, RequestType DEF IInv, Document
    <2>2. /\ req[h].pc = "store" /\ Ends(h) /\ UNCHANGED <<fresh, platform, process>>
          /\ \/ db' = [db EXCEPT ![i] = d] /\ UNCHANGED faults
             \/ Fault /\ (db' = [db EXCEPT ![i] = d] \/ UNCHANGED db)
      BY <1>2, <1>6, <2>1 DEF Store, At
    <2> QED BY <1>1, <1>2, <2>1, <2>2, RecordStep
  <1>7. CASE Drop(h)
    <2>1. Asks(h, i) /\ UNCHANGED <<db, fresh, process>>
      BY <1>2, <1>7 DEF Drop, At, Asks
    <2> QED BY <1>1, <1>7, <2>1, DeleteStep DEF Drop
  <1>8. CASE Forget(h)
    <2>1. PICK d \in {NoRecord} : TRUE
      OBVIOUS
    <2>2. /\ req[h].pc = "forget" /\ Ends(h) /\ UNCHANGED <<fresh, platform, process>>
          /\ \/ db' = [db EXCEPT ![i] = d] /\ UNCHANGED faults
             \/ Fault /\ (db' = [db EXCEPT ![i] = d] \/ UNCHANGED db)
      BY <1>2, <1>8, <2>1 DEF Forget, At
    <2> QED BY <1>1, <1>2, <2>1, <2>2, RecordStep
  <1> QED BY <1>3, <1>4, <1>5, <1>6, <1>7, <1>8

(* The process dies, and with it the requests.                             *)
LEMMA CrashStep ==
    ASSUME IInv, Crash
    PROVE  IInv'
  <1> USE DEF platform
  <1>1. /\ TypeOK /\ Process /\ Roster /\ faults \in Nat /\ faults' = faults + 1
        /\ phase' = "down" /\ pending' = {} /\ UNCHANGED <<db, fresh, platform>>
        /\ req' = [h \in Handler |-> NoRequest]
    BY DEF IInv, Process, Crash, Fault
  <1>2. Roster'
    BY <1>1, Fewer
  <1>3. ASSUME NEW i \in Uuid PROVE Good(i)'
    <2>1. Good(i) /\ Of(i)' = Of(i) /\ Cardinality(Of(i)) \in Nat
      BY <1>1, OfFinite DEF IInv, Of
    <2>2. i \in Stored' => Own(i, db[i].service)' /\ i \notin fresh'
      BY <1>1, <2>1 DEF Good, Ids, Untouched, Stored, Own
    <2>3. i \in fresh' => Of(i)' = {}
      BY <1>1, <2>1 DEF Good, Untouched
    <2>4. Cardinality(Of(i)') <= faults'
      BY <1>1, <2>1 DEF Good, Counted
    <2>5. (\A h \in Handler : req'[h] = NoRequest) /\ faults' \in Nat \ {0}
      BY <1>1
    <2>6. Cardinality(Of(i)') <= 1 + faults'
      BY <1>1, <2>1, <2>4
    <2> QED BY <2>2, <2>3, <2>4, <2>5, <2>6, IdleGood
  <1>4. TypeOK' /\ AllDeployed'
    BY <1>1 DEF TypeOK, AllDeployed
  <1>5. Process'
    BY <1>1, <1>2 DEF Process
  <1> QED BY <1>3, <1>4, <1>5 DEF IInv, Constants

(* Startup.                                                                *)
LEMMA StartupStep ==
    ASSUME IInv, Restart \/ SelfCheck \/ Serve \/ \E i \in Uuid : StillExists(i)
    PROVE  IInv'
  <1> USE DEF platform
  <1>1. /\ UNCHANGED <<db, fresh, platform, req>>
        /\ faults' = faults \/ faults' = faults + 1
        /\ phase \in {"down", "check", "ensure"}
    BY DEF Restart, SelfCheck, Serve, StillExists, Fault
  <1>2. TypeOK /\ Process /\ faults \in Nat \ {0} /\ faults' \in Nat \ {0}
    BY <1>1 DEF IInv, Process
  <1>3. Roster' /\ \A i \in Uuid : Good(i)'
    BY <1>1, Elsewhere
  <1>4. \A i \in Uuid : /\ (i \in Stored') = (i \in Stored)
                        /\ Exists(db[i].service)' = Exists(db[i].service)
    BY <1>1 DEF Stored, Exists
  <1>5. /\ phase' \in {"down", "check", "ensure", "up"}
        /\ pending' \subseteq Stored' /\ (pending' # {} => phase' = "ensure")
        /\ AllDeployed'
    <2>1. CASE Restart
      BY <1>2, <2>1 DEF Restart, Process, AllDeployed
    <2>2. CASE SelfCheck
      BY <1>2, <1>4, <2>2 DEF SelfCheck, Process, AllDeployed, Stored
    <2>3. CASE Serve
      BY <1>2, <2>3 DEF Serve, AllDeployed
    <2>4. CASE \E i \in Uuid : StillExists(i)
      <3>1. PICK i \in Uuid : StillExists(i)
        BY <2>4
      <3>2. CASE Exists(db[i].service) /\ Visited(i)
        <4>1. pending' = pending \ {i} /\ phase = "ensure" /\ phase' = phase /\ lost' = lost
          BY <3>1, <3>2 DEF StillExists, Visited
        <4>2. \A j \in Stored \ pending' : Exists(db[j].service) \/ db[j].service \in lost
          BY <3>2, <4>1 DEF IInv, AllDeployed
        <4>3. pending' \subseteq Stored'
          BY <1>2, <1>4, <4>1 DEF TypeOK, Stored
        <4> QED BY <1>1, <1>4, <4>1, <4>2, <4>3 DEF AllDeployed, Stored
      <3>3. CASE Aborted
        BY <3>3 DEF Aborted, AllDeployed
      <3> QED BY <3>1, <3>2, <3>3 DEF StillExists
    <2> QED BY <2>1, <2>2, <2>3, <2>4
  <1>6. TypeOK'
    BY <1>1, <1>2, <1>3, <1>5 DEF TypeOK, Stored, Roster
  <1>7. Process'
    BY <1>1, <1>2, <1>3, <1>5 DEF Process
  <1> QED BY <1>3, <1>5, <1>6, <1>7 DEF IInv, Constants

LEMMA EnsureStep ==
    ASSUME IInv, NEW i \in Uuid, Ensure(i)
    PROVE  IInv'
  <1>1. /\ TypeOK /\ Process /\ Roster /\ faults \in Nat \ {0} /\ nextId \in Nat
        /\ phase = "ensure" /\ i \in pending /\ i \in Stored /\ ~Exists(db[i].service)
        /\ UNCHANGED <<fresh, lost, req>>
        /\ \A h \in Handler : req[h] = NoRequest
    BY DEF IInv, Process, Roster, Ensure, TypeOK, Stored
  <1>2. CASE Aborted /\ UNCHANGED <<db, platform>>
             /\ (faults' = faults \/ faults' = faults + 1)
    <2>1. Roster' /\ faults' \in Nat \ {0} /\ \A j \in Uuid : Good(j)'
      BY <1>1, <1>2, Elsewhere
    <2>2. TypeOK' /\ AllDeployed'
      BY <1>1, <1>2, <2>1 DEF TypeOK, Aborted, AllDeployed, platform
    <2>3. Process'
      BY <1>1, <1>2, <2>1 DEF Process, Aborted
    <2> QED BY <2>1, <2>2, <2>3 DEF IInv, Constants
  <1>3. CASE /\ Posted(i, 0, db[i].cfg)
             /\ \/ db' = [db EXCEPT ![i].service = nextId] /\ Visited(i) /\ UNCHANGED faults
                \/ /\ Fault /\ Aborted
                   /\ db' = [db EXCEPT ![i].service = nextId] \/ UNCHANGED db
    <2>1. \/ /\ db' = [db EXCEPT ![i].service = nextId]
             /\ faults' = faults \/ faults' = faults + 1
          \/ db' = db /\ faults' = faults + 1
      BY <1>3 DEF Fault
    <2>2. /\ Good(i)' /\ db' \in [Uuid -> Document \cup {NoRecord}]
          /\ \A j \in Uuid : (j \in Stored') = (j \in Stored)
          /\ db' # db => Exists(db[i].service)'
          /\ \A j \in Uuid \ {i} : db'[j] = db[j]
      BY <1>1, <1>3, <2>1, EnsureGood
    <2>3. PICK c \in Cfg : c = db[i].cfg
      BY <1>1, DocumentType
    <2>4. PICK s \in Service :
              /\ s.id = nextId /\ s.uuid = i
              /\ services' = services \cup {s} /\ nextId' = nextId + 1
              /\ Roster' /\ \A j \in Uuid \ {i} : Of(j)' = Of(j)
      <3>1. 0 \in 0 .. MaxSuffix
        BY DEF IInv, Constants
      <3> QED BY <1>1, <1>3, <2>3, <3>1, PostedAdds
    <2>5. Onward /\ faults' >= faults /\ faults' \in Nat \ {0}
      BY <1>1, <2>1, <2>4 DEF Onward
    <2>6. ASSUME NEW j \in Uuid \ {i} PROVE Good(j)'
      <3>1. \A h \in Handler : Mine(h, j)' = Mine(h, j) /\ (Mine(h, j) => req'[h] = req[h])
        BY <1>1 DEF Mine
      <3> QED BY <1>1, <2>2, <2>4, <2>5, <3>1, Frame DEF IInv
    <2>7. \/ phase' = "ensure" /\ pending' = pending \ {i} /\ Exists(db[i].service)'
          \/ phase' = "down" /\ pending' = {}
      <3>1. CASE Visited(i) /\ db' = [db EXCEPT ![i].service = nextId]
        <4>1. db'[i].service = nextId
          BY <1>1, <3>1, DocumentType DEF TypeOK, Document, Stored
        <4>2. Exists(db[i].service)'
          BY <2>4, <4>1 DEF Exists
        <4> QED BY <1>1, <3>1, <4>2 DEF Visited
      <3>2. CASE Aborted
        BY <3>2 DEF Aborted
      <3> QED BY <1>3, <3>1, <3>2
    <2>8. AllDeployed'
      <3>1. CASE phase' = "down"
        BY <3>1 DEF AllDeployed
      <3>2. CASE pending' = pending \ {i} /\ Exists(db[i].service)'
        <4>1. \A j \in Stored \ pending : Exists(db[j].service) \/ db[j].service \in lost
          BY <1>1 DEF IInv, AllDeployed
        <4>2. \A g : Exists(g) => \E t \in services' : t.id = g
          BY <2>4 DEF Exists
        <4>3. ASSUME NEW j \in Stored', j \notin pending'
              PROVE  Exists(db[j].service)' \/ db'[j].service \in lost'
          <5>1. CASE j = i
            BY <3>2, <5>1
          <5>2. CASE j # i
            <6>1. j \in Stored \ pending /\ db'[j] = db[j]
              BY <2>2, <3>2, <4>3, <5>2 DEF Stored
            <6> QED BY <1>1, <4>1, <4>2, <6>1 DEF Exists
          <5> QED BY <5>1, <5>2
        <4> QED BY <4>3 DEF AllDeployed
      <3> QED BY <2>7, <3>1, <3>2
    <2>9. TypeOK'
      <3>1. pending' \subseteq {j \in Uuid : db'[j] # NoRecord}
        BY <1>1, <2>2, <2>7 DEF TypeOK, Stored
      <3> QED BY <1>1, <2>2, <2>4, <2>7, <3>1 DEF TypeOK, Roster
    <2>10. Process'
      BY <1>1, <2>4, <2>5, <2>7 DEF Process
    <2> QED BY <2>2, <2>6, <2>8, <2>9, <2>10 DEF IInv, Constants
  <1> QED BY <1>2, <1>3 DEF Ensure, Fault

LEMMA LostStep ==
    ASSUME IInv, NEW s \in services, Lost(s)
    PROVE  IInv'
  <1>1. /\ services' = services \ {s} /\ lost' = lost \cup {s.id} /\ faults' = faults + 1
        /\ UNCHANGED <<db, fresh, nextId, phase, pending, req>>
    BY DEF Lost, Fault
  <1>2. TypeOK /\ Process /\ Roster /\ faults \in Nat /\ nextId \in Nat
    BY DEF IInv, Process, Roster
  <1>3. Roster' /\ Onward
    BY <1>1, <1>2, Fewer DEF Onward
  <1>4. ASSUME NEW j \in Uuid PROVE Good(j)'
    <2>1. CASE j = s.uuid
      BY <2>1, LostGood
    <2>2. CASE j # s.uuid
      <3>1. Of(j)' = Of(j) /\ db'[j] = db[j] /\ fresh' = fresh
        BY <1>1, <2>2 DEF Of
      <3>2. \A h \in Handler : Mine(h, j)' = Mine(h, j) /\ (Mine(h, j) => req'[h] = req[h])
        BY <1>1 DEF Mine
      <3>3. faults' >= faults /\ faults' \in Nat
        BY <1>1, <1>2
      <3> QED BY <1>2, <1>3, <3>1, <3>2, <3>3, Frame DEF IInv
    <2> QED BY <2>1, <2>2
  <1>5. AllDeployed'
    <2>1. \A g : Exists(g) => g \in lost' \/ \E t \in services' : t.id = g
      BY <1>1 DEF Exists
    <2> QED BY <1>1, <2>1 DEF IInv, AllDeployed, Stored, Exists
  <1>6. TypeOK'
    BY <1>1, <1>2, <1>3 DEF TypeOK, Roster
  <1>7. Process'
    BY <1>1, <1>2, <1>3 DEF Process
  <1> QED BY <1>4, <1>5, <1>6, <1>7 DEF IInv, Constants

-----------------------------------------------------------------------------
(* The theorems.                                                           *)

LEMMA Initially ==
    ASSUME Constants, Init
    PROVE  IInv
  <1>1. \A i \in Uuid : Of(i) = {} /\ i \notin Stored
    BY DEF Init, Of, Stored
  <1>2. \A h \in Handler, i \in Uuid : ~Mine(h, i) /\ ~Asks(h, i) /\ ~Holds(h, i)
    BY DEF Init, Mine, Asks, Holds
  <1>3. Roster
    BY FS_EmptySet DEF Init, Roster
  <1>4. TypeOK /\ Process /\ AllDeployed /\ faults = 0
    BY <1>3 DEF Init, TypeOK, Process, AllDeployed
  <1>5. ASSUME NEW i \in Uuid PROVE Good(i)
    <2>1. Cardinality(Of(i)) = 0
      BY <1>1, FS_EmptySet
    <2> QED BY <1>1, <1>2, <1>4, <2>1 DEF Good, Ids, Untouched, Held, Counted, Faultless
  <1> QED BY <1>4, <1>5 DEF IInv

LEMMA Stutter ==
    ASSUME IInv, UNCHANGED vars
    PROVE  IInv'
  <1>1. Roster' /\ \A i \in Uuid : Good(i)'
    BY Elsewhere DEF vars
  <1> QED BY <1>1 DEF IInv, Constants, vars, platform, process, TypeOK, Process, AllDeployed,
                 Stored, Exists

LEMMA Inductive ==
    ASSUME IInv, [Next]_vars
    PROVE  IInv'
  <1>1. CASE \E h \in Handler :
                 \/ BeginRequest(h) \/ Create(h) \/ Remove(h) \/ Replace(h) \/ Store(h)
                 \/ Drop(h) \/ Forget(h)
    BY <1>1, BeginStep, HandlerStep
  <1>2. CASE Crash
    BY <1>2, CrashStep
  <1>3. CASE Restart \/ SelfCheck \/ Serve \/ \E i \in Uuid : StillExists(i)
    BY <1>3, StartupStep
  <1>4. CASE \E i \in Uuid : Ensure(i)
    BY <1>4, EnsureStep
  <1>5. CASE \E s \in services : Lost(s)
    BY <1>5, LostStep
  <1>6. CASE UNCHANGED vars
    BY <1>6, Stutter
  <1> QED BY <1>1, <1>2, <1>3, <1>4, <1>5, <1>6 DEF Next

(* The invariant the others rest on: who holds an instance holds it alone, *)
(* though nothing in the code says so, and what the others have read names *)
(* a service that is gone.                                                 *)
THEOREM InductiveInvariant ==
    ASSUME Constants
    PROVE  Spec => []IInv
  <1>1. Init => IInv
    BY Initially
  <1>2. IInv /\ [Next]_vars => IInv'
    BY Inductive
  <1> QED BY <1>1, <1>2, PTL DEF Spec

LEMMA Agreement ==
    ASSUME IInv
    PROVE  FaultFreeAgreement
  <1> SUFFICES ASSUME faults = 0, \A h \in Handler : req[h] = NoRequest
               PROVE  /\ \A i \in Stored : \E s \in Of(i) : /\ Of(i) = {s}
                                                            /\ s.id = db[i].service
                                                            /\ s.cfg = db[i].cfg
                      /\ \A s \in services : s.uuid \in Stored
    BY DEF FaultFreeAgreement
  <1>1. \A h \in Handler, i \in Uuid : ~Holds(h, i)
    BY DEF Holds, Mine
  <1>2. ASSUME NEW i \in Stored
        PROVE  \E s \in Of(i) : Of(i) = {s} /\ s.id = db[i].service /\ s.cfg = db[i].cfg
    <2>1. i \in Uuid /\ Good(i) /\ Roster
      BY DEF Stored, IInv, Process
    <2>2. PICK s \in Of(i) : s.id = db[i].service /\ s.cfg = db[i].cfg
      BY <1>1, <2>1 DEF Good, Faultless
    <2>3. IsFiniteSet(Of(i)) /\ Cardinality(Of(i)) \in Nat /\ Cardinality(Of(i)) <= 1
      BY <2>1, OfFinite DEF Good, Counted
    <2>4. IsFiniteSet(Of(i) \ {s}) /\ Cardinality(Of(i) \ {s}) = Cardinality(Of(i)) - 1
      BY <2>2, <2>3, FS_RemoveElement
    <2>5. Cardinality(Of(i) \ {s}) = 0
      BY <2>3, <2>4, FS_CardinalityType
    <2>6. Of(i) \ {s} = {}
      BY <2>4, <2>5, FS_EmptySet
    <2> QED BY <2>2, <2>6
  <1>3. ASSUME NEW s \in services PROVE s.uuid \in Stored
    <2>1. PICK i \in Uuid : i = s.uuid
      BY ServiceType DEF IInv, Process
    <2>2. Of(i) # {}
      BY <2>1 DEF Of
    <2> QED BY <1>1, <2>1, <2>2 DEF IInv, Good, Faultless
  <1> QED BY <1>2, <1>3

(* On rancher1, where no name is a lock, requests that meet never leave an *)
(* instance with a service more than calls failed, the process crashed or  *)
(* services were lost; without faults documents and services agree between *)
(* requests; and startup leaves no document without its service.           *)
THEOREM Rancher1AgreesHolds ==
    ASSUME Constants
    PROVE  Spec => []Rancher1Agrees
  <1>1. IInv => Rancher1Agrees
    BY Agreement DEF IInv, Good, Counted, ExtraOnlyByFault, Rancher1Agrees
  <1> QED BY <1>1, InductiveInvariant, PTL

=============================================================================
