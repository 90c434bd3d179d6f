--------------------------- MODULE ClientsProofs ---------------------------
(***************************************************************************)
(* Theorems about module Rancher2, for any number of goroutines, names and *)
(* environments and any bounds, and those of DockerProofs and              *)
(* Rancher1Proofs for the program with the client that lib.Start makes.    *)
(***************************************************************************)
EXTENDS MCClients, TLAPS

USE Rancher2Assumption

(* As long as ContainerExists asks for the deployment, a claim that it has *)
(* been there is true, and it is given up before the job is asked for;     *)
(* only what was created is asked for or deleted.                          *)
Claims ==
    \A h \in Caller :
        call[h] # NoCall =>
            /\ (call[h].step = "get" /\ call[h].there) => deployment[call[h].name] # NoCtr
            /\ call[h].step = "getJob" => ~call[h].there
            /\ call[h].step # "post" => created[call[h].name] > 0

IInv == TypeOK /\ Claims /\ RemovedOnce /\ NeverMissed

-----------------------------------------------------------------------------
(* The calls that are under way.                                           *)

LEMMA AtCall ==
    ASSUME TypeOK, NEW h \in Caller, NEW step \in Step, At(h, step)
    PROVE  call[h] \in Call /\ call[h] # NoCall /\ call[h].step = step /\ NameOf(h) \in Name
  BY DEF TypeOK, At, Call, NameOf

(* Giving a claim up keeps calls what they are.                            *)
LEMMA UnseenCall ==
    ASSUME TypeOK, NEW n \in Name, NEW h \in Caller
    PROVE  /\ Unseen(n)[h] \in Call \cup {NoCall}
           /\ Unseen(n)[h] # NoCall =>
                 /\ call[h] # NoCall
                 /\ Unseen(n)[h].step = call[h].step
                 /\ Unseen(n)[h].name = call[h].name
                 /\ Unseen(n)[h].there => (call[h].there /\ call[h].name # n)
  <1>1. call[h] \in Call \cup {NoCall}
    BY DEF TypeOK
  <1>2. CASE call[h] # NoCall /\ call[h].name = n
    <2>1. Unseen(n)[h] = [call[h] EXCEPT !.there = FALSE]
      BY <1>2 DEF Unseen
    <2>2. call[h] \in Call
      BY <1>1, <1>2
    <2> QED BY <1>2, <2>1, <2>2 DEF Call
  <1>3. CASE ~(call[h] # NoCall /\ call[h].name = n)
    <2>1. Unseen(n)[h] = call[h]
      BY <1>3 DEF Unseen
    <2> QED BY <1>1, <1>3, <2>1
  <1> QED BY <1>2, <1>3

(* The claims of calls that did not change while nothing disappeared.      *)
LEMMA ClaimsKept ==
    ASSUME IInv, NEW h \in Caller, call'[h] = call[h],
           \A n \in Name : deployment[n] # NoCtr => deployment'[n] # NoCtr,
           \A n \in Name : created'[n] >= created[n],
           \A n \in Name : created'[n] \in Nat
    PROVE  call'[h] # NoCall =>
            /\ (call'[h].step = "get" /\ call'[h].there) => deployment'[call'[h].name] # NoCtr
            /\ call'[h].step = "getJob" => ~call'[h].there
            /\ call'[h].step # "post" => created'[call'[h].name] > 0
  <1>1. call[h] # NoCall => call[h] \in Call
    BY DEF IInv, TypeOK
  <1>2. call[h] # NoCall => call[h].name \in Name
    BY <1>1 DEF Call
  <1>3. \A n \in Name : created[n] \in Nat
    BY DEF IInv, TypeOK
  <1> QED BY <1>2, <1>3 DEF IInv, Claims

(* Of a call that ends nothing is claimed, of the others nothing changed.  *)
LEMMA ClaimsReturn ==
    ASSUME IInv, NEW h \in Caller, call' = [call EXCEPT ![h] = NoCall],
           \A n \in Name : deployment[n] # NoCtr => deployment'[n] # NoCtr,
           \A n \in Name : created'[n] >= created[n],
           \A n \in Name : created'[n] \in Nat
    PROVE  Claims' /\ call' \in [Caller -> Call \cup {NoCall}]
  <1>1. call \in [Caller -> Call \cup {NoCall}]
    BY DEF IInv, TypeOK
  <1>2. call'[h] = NoCall /\ \A k \in Caller \ {h} : call'[k] = call[k]
    BY <1>1
  <1>3. ASSUME NEW k \in Caller
        PROVE  call'[k] # NoCall =>
                /\ (call'[k].step = "get" /\ call'[k].there) => deployment'[call'[k].name] # NoCtr
                /\ call'[k].step = "getJob" => ~call'[k].there
                /\ call'[k].step # "post" => created'[call'[k].name] > 0
    <2>1. CASE k = h
      BY <1>2, <2>1
    <2>2. CASE k # h
      <3>1. call'[k] = call[k]
        BY <1>2, <2>2
      <3> QED BY <3>1, ClaimsKept
    <2> QED BY <2>1, <2>2
  <1> QED BY <1>1, <1>3 DEF Claims

(* The same of a call that goes on to another request.                     *)
LEMMA ClaimsGoto ==
    ASSUME IInv, NEW h \in Caller, NEW r \in Call,
           call' = [call EXCEPT ![h] = r],
           UNCHANGED rancherVars,
           (r.step = "get" /\ r.there) => deployment[r.name] # NoCtr,
           r.step = "getJob" => ~r.there,
           r.step # "post" => created[r.name] > 0
    PROVE  Claims' /\ call' \in [Caller -> Call \cup {NoCall}]
  <1>1. call \in [Caller -> Call \cup {NoCall}]
    BY DEF IInv, TypeOK
  <1>2. call'[h] = r /\ \A k \in Caller \ {h} : call'[k] = call[k]
    BY <1>1
  <1>3. deployment' = deployment /\ created' = created
    BY DEF rancherVars
  <1>4. \A n \in Name : created[n] \in Nat
    BY DEF IInv, TypeOK
  <1>5. ASSUME NEW k \in Caller
        PROVE  call'[k] # NoCall =>
                /\ (call'[k].step = "get" /\ call'[k].there) => deployment'[call'[k].name] # NoCtr
                /\ call'[k].step = "getJob" => ~call'[k].there
                /\ call'[k].step # "post" => created'[call'[k].name] > 0
    <2>1. CASE k = h
      BY <1>2, <1>3, <2>1
    <2>2. CASE k # h
      <3>1. call'[k] = call[k]
        BY <1>2, <2>2
      <3>2. \A n \in Name : created'[n] >= created[n] /\ created'[n] \in Nat
        BY <1>3, <1>4
      <3> QED BY <1>3, <3>1, <3>2, ClaimsKept
    <2> QED BY <2>1, <2>2
  <1> QED BY <1>1, <1>5 DEF Claims

(* The same when the workload n disappears and all claims on it with it.   *)
LEMMA ClaimsGone ==
    ASSUME IInv, NEW n \in Name, Gone(n),
           NEW C, C \in [Caller -> Call \cup {NoCall}], call' = C,
           \A k \in Caller : C[k] = Unseen(n)[k] \/ C[k] = NoCall \/ C[k].step = "post"
    PROVE  Claims' /\ call' \in [Caller -> Call \cup {NoCall}]
  <1>1. created' = created /\ \A m \in Name \ {n} : deployment'[m] = deployment[m]
    BY DEF Gone, IInv, TypeOK
  <1>2. ASSUME NEW k \in Caller, call'[k] # NoCall
        PROVE  /\ (call'[k].step = "get" /\ call'[k].there) => deployment'[call'[k].name] # NoCtr
               /\ call'[k].step = "getJob" => ~call'[k].there
               /\ call'[k].step # "post" => created'[call'[k].name] > 0
    <2>1. CASE C[k] = Unseen(n)[k]
      <3>1. /\ call[k] # NoCall
            /\ call'[k].step = call[k].step
            /\ call'[k].name = call[k].name
            /\ call'[k].there => (call[k].there /\ call[k].name # n)
        BY <1>2, <2>1, UnseenCall DEF IInv
      <3>2. call[k] \in Call
        BY <3>1 DEF IInv, TypeOK
      <3>3. call[k].name \in Name
        BY <3>2 DEF Call
      <3> QED BY <1>1, <3>1, <3>3 DEF IInv, Claims
    <2>2. CASE C[k].step = "post"
      BY <2>2
    <2> QED BY <1>2, <2>1, <2>2
  <1> QED BY <1>2 DEF Claims

-----------------------------------------------------------------------------
LEMMA Initially == Init => IInv
  <1> SUFFICES ASSUME Init PROVE IInv
    OBVIOUS
  <1>1. TypeOK
    <2>1. call \in [Caller -> Call \cup {NoCall}] /\ missed \in BOOLEAN
      BY DEF Init
    <2>2. deployment \in [Name -> Cfg \cup {NoCtr}]
      BY DEF Init
    <2>3. created \in [Name -> Nat] /\ removals \in [Name -> Nat]
      BY DEF Init
    <2>4. calls \in 0 .. MaxCalls /\ faults \in 0 .. MaxFaults
      BY DEF Init
    <2>5. \A n \in Name : deployment[n] = NoCtr
      BY DEF Init
    <2> QED BY <2>1, <2>2, <2>3, <2>4, <2>5 DEF TypeOK
  <1>2. Claims
    BY DEF Init, Claims
  <1>3. RemovedOnce /\ NeverMissed
    BY DEF Init, RemovedOnce, NeverMissed
  <1> QED BY <1>1, <1>2, <1>3 DEF IInv

(* What a fault does to the counter.                                       *)
LEMMA FaultType ==
    ASSUME TypeOK, Fault \/ UNCHANGED faults
    PROVE  faults' \in 0 .. MaxFaults
  BY DEF TypeOK, Fault

LEMMA BeginStep ==
    ASSUME IInv, NEW h \in Caller, NEW step \in Step \ {"getJob"}, NEW n \in Name,
           NEW c \in Cfg, NEW update \in BOOLEAN,
           step = "post" \/ created[n] > 0,
           Begin(h, step, n, c, update)
    PROVE  IInv'
  <1> DEFINE r == [step |-> step, name |-> n, cfg |-> c, update |-> update,
                   there |-> deployment[n] # NoCtr]
  <1>1. r \in Call
    BY DEF Call, Step
  <1>2. call' = [call EXCEPT ![h] = r] /\ UNCHANGED rancherVars
    BY DEF Begin
  <1>3. /\ (r.step = "get" /\ r.there) => deployment[r.name] # NoCtr
        /\ r.step = "getJob" => ~r.there
        /\ r.step # "post" => created[r.name] > 0
    OBVIOUS
  <1>4. Claims' /\ call' \in [Caller -> Call \cup {NoCall}]
    <2> HIDE DEF r
    <2> QED BY <1>1, <1>2, <1>3, ClaimsGoto
  <1>5. calls' \in 0 .. MaxCalls
    BY DEF Begin, IInv, TypeOK
  <1>6. TypeOK' /\ RemovedOnce' /\ NeverMissed'
    BY <1>4, <1>5 DEF Begin, IInv, TypeOK, RemovedOnce, NeverMissed, rancherVars, history
  <1> QED BY <1>4, <1>6 DEF IInv

LEMMA BeginCallStep ==
    ASSUME IInv, NEW h \in Caller, BeginCall(h)
    PROVE  IInv'
  <1>1. PICK n \in Name, c \in Cfg :
            \/ Begin(h, "post", n, c, FALSE)
            \/ created[n] > 0 /\ Begin(h, "delete", n, c, FALSE)
            \/ created[n] > 0 /\ Begin(h, "delete", n, c, TRUE)
            \/ created[n] > 0 /\ Begin(h, "get", n, c, FALSE)
    BY DEF BeginCall
  <1>2. {"post", "delete", "get"} \subseteq Step \ {"getJob"}
    BY DEF Step
  <1> QED BY <1>1, <1>2, BeginStep

(* A workload that is made where there was none.                           *)
LEMMA MadeStep ==
    ASSUME IInv, NEW h \in Caller, At(h, "post"), deployment[NameOf(h)] = NoCtr, Made(h)
    PROVE  /\ deployment' \in [Name -> Cfg \cup {NoCtr}]
           /\ created' \in [Name -> Nat]
           /\ \A n \in Name : created'[n] >= created[n]
           /\ \A n \in Name : deployment[n] # NoCtr => deployment'[n] # NoCtr
           /\ \A n \in Name : deployment'[n] # NoCtr => created'[n] > removals[n]
           /\ \A n \in Name : removals[n] <= created'[n]
  <1>1. call[h] \in Call /\ NameOf(h) \in Name
    BY AtCall DEF IInv, Step
  <1>2. call[h].cfg \in Cfg
    BY <1>1 DEF Call
  <1> DEFINE n == NameOf(h)
  <1>3. deployment' = [deployment EXCEPT ![n] = call[h].cfg]
    BY DEF Made
  <1>4. created' = [created EXCEPT ![n] = created[n] + 1]
    BY DEF Made
  <1> HIDE DEF n
  <1> QED BY <1>1, <1>2, <1>3, <1>4 DEF n, IInv, TypeOK, RemovedOnce

LEMMA PostStep ==
    ASSUME IInv, NEW h \in Caller, Post(h)
    PROVE  IInv'
  <1>1. At(h, "post") /\ UNCHANGED history /\ UNCHANGED calls
    BY DEF Post, Return
  <1>2. call' = [call EXCEPT ![h] = NoCall]
    BY DEF Post, Return
  <1>3. faults' \in 0 .. MaxFaults
    BY FaultType DEF Post, IInv
  <1>4. CASE deployment[NameOf(h)] = NoCtr /\ Made(h)
    <2>1. Claims' /\ call' \in [Caller -> Call \cup {NoCall}]
      <3>1. \A n \in Name : created'[n] \in Nat
        BY <1>1, <1>4, MadeStep
      <3> QED BY <1>1, <1>2, <1>4, <3>1, MadeStep, ClaimsReturn
    <2>2. TypeOK' /\ RemovedOnce' /\ NeverMissed'
      BY <1>1, <1>3, <1>4, <2>1, MadeStep DEF IInv, TypeOK, RemovedOnce, NeverMissed, history
    <2> QED BY <2>1, <2>2 DEF IInv
  <1>5. CASE UNCHANGED rancherVars
    <2>1. Claims' /\ call' \in [Caller -> Call \cup {NoCall}]
      <3>1. /\ \A n \in Name : deployment[n] # NoCtr => deployment'[n] # NoCtr
            /\ \A n \in Name : created'[n] >= created[n]
            /\ \A n \in Name : created'[n] \in Nat
        BY <1>5 DEF rancherVars, IInv, TypeOK
      <3> QED BY <1>2, <3>1, ClaimsReturn
    <2>2. TypeOK' /\ RemovedOnce' /\ NeverMissed'
      BY <1>1, <1>3, <1>5, <2>1
      DEF IInv, TypeOK, RemovedOnce, NeverMissed, history, rancherVars
    <2> QED BY <2>1, <2>2 DEF IInv
  <1> QED BY <1>4, <1>5 DEF Post

(* What the disappearance of a workload leaves, told of or not.            *)
LEMMA GoneStep ==
    ASSUME IInv, NEW n \in Name, deployment[n] # NoCtr, Gone(n),
           UNCHANGED removals \/ removals' = [removals EXCEPT ![n] = @ + 1]
    PROVE  /\ deployment' \in [Name -> Cfg \cup {NoCtr}]
           /\ created' \in [Name -> Nat] /\ removals' \in [Name -> Nat]
           /\ \A m \in Name : deployment'[m] # NoCtr => created'[m] > removals'[m]
           /\ \A m \in Name : removals'[m] <= created'[m]
  <1>1. \A m \in Name : removals'[m] = removals[m] \/ (m = n /\ removals'[m] = removals[m] + 1)
    BY DEF IInv, TypeOK
  <1> QED BY <1>1 DEF Gone, IInv, TypeOK, RemovedOnce

LEMMA RemovedCalls ==
    ASSUME IInv, NEW h \in Caller, At(h, "delete"), Removed(h)
    PROVE  /\ call' \in [Caller -> Call \cup {NoCall}]
           /\ \A k \in Caller : \/ call'[k] = Unseen(NameOf(h))[k]
                                \/ call'[k] = NoCall
                                \/ call'[k].step = "post"
  <1> DEFINE n == NameOf(h)
  <1> DEFINE r == [call[h] EXCEPT !.step = "post", !.update = FALSE]
  <1>1. call[h] \in Call /\ n \in Name /\ call[h] # NoCall
    BY AtCall DEF IInv, Step
  <1>2. \A k \in Caller : Unseen(n)[k] \in Call \cup {NoCall}
    BY <1>1, UnseenCall DEF IInv
  <1>3. call' = [Unseen(n) EXCEPT ![h] = IF call[h].update THEN r ELSE NoCall]
    BY DEF Removed
  <1>4. \A k \in Caller \ {h} : call'[k] = Unseen(n)[k]
    BY <1>3 DEF Unseen
  <1>5. call'[h] = IF call[h].update THEN r ELSE NoCall
    BY <1>3 DEF Unseen
  <1>6. r \in Call /\ r.step = "post"
    BY <1>1 DEF Call, Step
  <1>7. Unseen(n) \in [Caller -> Call \cup {NoCall}]
    BY <1>2 DEF Unseen
  <1> HIDE DEF n, r
  <1>8. call'[h] = NoCall \/ (call'[h] \in Call /\ call'[h].step = "post")
    BY <1>5, <1>6
  <1>9. call' \in [Caller -> Call \cup {NoCall}]
    BY <1>3, <1>6, <1>7
  <1>10. \A k \in Caller :
            call'[k] = Unseen(n)[k] \/ call'[k] = NoCall \/ call'[k].step = "post"
    BY <1>4, <1>8
  <1> QED BY <1>9, <1>10 DEF n

LEMMA DeleteStep ==
    ASSUME IInv, NEW h \in Caller, Delete(h)
    PROVE  IInv'
  <1> DEFINE n == NameOf(h)
  <1>1. At(h, "delete")
    BY DEF Delete
  <1>2. call[h] \in Call /\ n \in Name /\ call[h] # NoCall /\ call[h].step = "delete"
    BY <1>1, AtCall DEF IInv, Step
  <1>3. faults' \in 0 .. MaxFaults
    BY FaultType DEF Delete, IInv
  <1>4. CASE deployment[n] # NoCtr /\ Gone(n) /\ Removed(h)
    <2>1. /\ call' \in [Caller -> Call \cup {NoCall}]
          /\ \A k \in Caller : \/ call'[k] = Unseen(n)[k]
                               \/ call'[k] = NoCall
                               \/ call'[k].step = "post"
      BY <1>1, <1>4, RemovedCalls
    <2>2. Claims'
      <3> HIDE DEF n
      <3> QED BY <1>2, <1>4, <2>1, ClaimsGone
    <2>3. /\ removals' = [removals EXCEPT ![n] = @ + 1]
          /\ calls' = calls /\ missed' = missed
      BY <1>4 DEF Removed
    <2>4. /\ deployment' \in [Name -> Cfg \cup {NoCtr}]
          /\ created' \in [Name -> Nat] /\ removals' \in [Name -> Nat]
          /\ \A m \in Name : deployment'[m] # NoCtr => created'[m] > removals'[m]
          /\ \A m \in Name : removals'[m] <= created'[m]
      <3> HIDE DEF n
      <3> QED BY <1>2, <1>4, <2>3, GoneStep
    <2> QED BY <1>3, <2>1, <2>2, <2>3, <2>4 DEF IInv, TypeOK, RemovedOnce, NeverMissed
  <1>5. CASE /\ UNCHANGED <<rancherVars, history>> /\ UNCHANGED calls
             /\ \/ call' = [call EXCEPT ![h].step = "deleteJob"]
                \/ call' = [call EXCEPT ![h] = NoCall]
    <2>1. CASE call' = [call EXCEPT ![h].step = "deleteJob"]
      <3> DEFINE r == [call[h] EXCEPT !.step = "deleteJob"]
      <3>1. r \in Call /\ r.step = "deleteJob" /\ r.name = call[h].name
        BY <1>2 DEF Call, Step
      <3>2. call' = [call EXCEPT ![h] = r]
        BY <2>1
      <3>3. created[r.name] > 0
        BY <1>2, <3>1 DEF IInv, Claims
      <3> HIDE DEF r
      <3>4. Claims' /\ call' \in [Caller -> Call \cup {NoCall}]
        BY <1>5, <3>1, <3>2, <3>3, ClaimsGoto
      <3> QED BY <1>3, <1>5, <3>4
              DEF IInv, TypeOK, RemovedOnce, NeverMissed, rancherVars, history
    <2>2. CASE call' = [call EXCEPT ![h] = NoCall]
      <3>1. /\ \A m \in Name : deployment[m] # NoCtr => deployment'[m] # NoCtr
            /\ \A m \in Name : created'[m] >= created[m]
            /\ \A m \in Name : created'[m] \in Nat
        BY <1>5 DEF rancherVars, IInv, TypeOK
      <3>2. Claims' /\ call' \in [Caller -> Call \cup {NoCall}]
        BY <2>2, <3>1, ClaimsReturn
      <3> QED BY <1>3, <1>5, <3>2
              DEF IInv, TypeOK, RemovedOnce, NeverMissed, rancherVars, history
    <2> QED BY <1>5, <2>1, <2>2
  <1>6. CASE /\ deployment[n] # NoCtr /\ Gone(n)
             /\ call' = [Unseen(n) EXCEPT ![h] = NoCall]
             /\ UNCHANGED <<calls, history>>
    <2>1. \A k \in Caller : Unseen(n)[k] \in Call \cup {NoCall}
      BY <1>2, UnseenCall DEF IInv
    <2>2. /\ call' \in [Caller -> Call \cup {NoCall}]
          /\ \A k \in Caller : call'[k] = Unseen(n)[k] \/ call'[k] = NoCall
      BY <1>6, <2>1 DEF Unseen
    <2>3. Claims'
      <3> HIDE DEF n
      <3> QED BY <1>2, <1>6, <2>2, ClaimsGone
    <2>4. removals' = removals /\ missed' = missed /\ calls' = calls
      BY <1>6 DEF history
    <2>5. /\ deployment' \in [Name -> Cfg \cup {NoCtr}]
          /\ created' \in [Name -> Nat] /\ removals' \in [Name -> Nat]
          /\ \A m \in Name : deployment'[m] # NoCtr => created'[m] > removals'[m]
          /\ \A m \in Name : removals'[m] <= created'[m]
      <3> HIDE DEF n
      <3> QED BY <1>2, <1>6, <2>4, GoneStep
    <2> QED BY <1>3, <2>2, <2>3, <2>4, <2>5 DEF IInv, TypeOK, RemovedOnce, NeverMissed
  <1> QED BY <1>4, <1>5, <1>6 DEF Delete, Goto, Return

(* A call that returns and changes nothing.                                *)
LEMMA ReturnStep ==
    ASSUME IInv, NEW h \in Caller, Return(h), UNCHANGED <<rancherVars, removals>>,
           Fault \/ UNCHANGED faults, missed' = FALSE
    PROVE  IInv'
  <1>1. /\ \A m \in Name : deployment[m] # NoCtr => deployment'[m] # NoCtr
        /\ \A m \in Name : created'[m] >= created[m]
        /\ \A m \in Name : created'[m] \in Nat
    BY DEF rancherVars, IInv, TypeOK
  <1>2. Claims' /\ call' \in [Caller -> Call \cup {NoCall}]
    BY <1>1, ClaimsReturn DEF Return
  <1>3. faults' \in 0 .. MaxFaults
    BY FaultType DEF IInv
  <1>4. TypeOK'
    BY <1>2, <1>3 DEF IInv, TypeOK, Return, rancherVars
  <1>5. RemovedOnce' /\ NeverMissed'
    BY DEF IInv, RemovedOnce, NeverMissed, rancherVars
  <1> QED BY <1>2, <1>4, <1>5 DEF IInv

LEMMA GetStep ==
    ASSUME IInv, NEW h \in Caller, Get(h)
    PROVE  IInv'
  <1>1. CASE Return(h)
    BY <1>1, ReturnStep DEF Get, history, IInv, TypeOK, NeverMissed
  <1>2. CASE deployment[NameOf(h)] = NoCtr /\ Goto(h, "getJob") /\ UNCHANGED faults
    <2> DEFINE r == [call[h] EXCEPT !.step = "getJob"]
    <2>1. call[h] \in Call /\ call[h] # NoCall /\ call[h].step = "get"
      BY AtCall DEF Get, IInv, Step
    <2>2. /\ r \in Call /\ r.step = "getJob" /\ r.name = call[h].name
          /\ r.there = call[h].there
      BY <2>1 DEF Call, Step
    <2>3. ~call[h].there /\ created[call[h].name] > 0
      BY <1>2, <2>1 DEF IInv, Claims, NameOf
    <2>4. call' = [call EXCEPT ![h] = r] /\ UNCHANGED calls
      BY <1>2 DEF Goto
    <2>5. UNCHANGED <<rancherVars, history>>
      BY DEF Get
    <2> HIDE DEF r
    <2>6. Claims' /\ call' \in [Caller -> Call \cup {NoCall}]
      BY <2>2, <2>3, <2>4, <2>5, ClaimsGoto
    <2> QED BY <1>2, <2>4, <2>5, <2>6
            DEF IInv, TypeOK, RemovedOnce, NeverMissed, rancherVars, history
  <1> QED BY <1>1, <1>2 DEF Get

LEMMA GetJobStep ==
    ASSUME IInv, NEW h \in Caller, GetJob(h)
    PROVE  IInv'
  <1>1. call[h] # NoCall /\ call[h].step = "getJob"
    BY AtCall DEF GetJob, IInv, Step
  <1>2. ~call[h].there
    BY <1>1 DEF IInv, Claims
  <1>3. missed' = missed \/ missed' = (missed \/ call[h].there)
    BY DEF GetJob
  <1>4. missed = FALSE /\ call[h].there = FALSE
    <2>1. call[h] \in Call
      BY <1>1 DEF IInv, TypeOK
    <2> QED BY <1>2, <2>1 DEF IInv, TypeOK, NeverMissed, Call
  <1>5. missed' = FALSE
    BY <1>3, <1>4
  <1> QED BY <1>5, ReturnStep DEF GetJob

LEMMA LostStep ==
    ASSUME IInv, NEW n \in Name, Lost(n)
    PROVE  IInv'
  <1>1. call' = Unseen(n) /\ deployment[n] # NoCtr /\ Gone(n)
    BY DEF Lost
  <1>2. removals' = removals /\ missed' = missed /\ calls' = calls
    BY DEF Lost, history
  <1>3. /\ call' \in [Caller -> Call \cup {NoCall}]
        /\ \A k \in Caller : call'[k] = Unseen(n)[k]
    <2>1. \A k \in Caller : Unseen(n)[k] \in Call \cup {NoCall}
      BY UnseenCall DEF IInv
    <2> QED BY <1>1, <2>1 DEF Unseen
  <1>4. Claims'
    BY <1>1, <1>3, ClaimsGone
  <1>5. /\ deployment' \in [Name -> Cfg \cup {NoCtr}]
        /\ created' \in [Name -> Nat] /\ removals' \in [Name -> Nat]
        /\ \A m \in Name : deployment'[m] # NoCtr => created'[m] > removals'[m]
        /\ \A m \in Name : removals'[m] <= created'[m]
    BY <1>1, <1>2, GoneStep
  <1>6. faults' \in 0 .. MaxFaults
    BY FaultType DEF Lost, IInv
  <1> QED BY <1>2, <1>3, <1>4, <1>5, <1>6 DEF IInv, TypeOK, RemovedOnce, NeverMissed

LEMMA Inductive == IInv /\ [Next]_vars => IInv'
  <1> SUFFICES ASSUME IInv, [Next]_vars PROVE IInv'
    OBVIOUS
  <1>1. ASSUME NEW h \in Caller, BeginCall(h) PROVE IInv'
    BY <1>1, BeginCallStep
  <1>2. ASSUME NEW h \in Caller, Post(h) PROVE IInv'
    BY <1>2, PostStep
  <1>3. ASSUME NEW h \in Caller, Delete(h) PROVE IInv'
    BY <1>3, DeleteStep
  <1>4. ASSUME NEW h \in Caller, DeleteJob(h) PROVE IInv'
    BY <1>4, ReturnStep DEF DeleteJob, history, IInv, TypeOK, NeverMissed
  <1>5. ASSUME NEW h \in Caller, Get(h) PROVE IInv'
    BY <1>5, GetStep
  <1>6. ASSUME NEW h \in Caller, GetJob(h) PROVE IInv'
    BY <1>6, GetJobStep
  <1>7. ASSUME NEW n \in Name, Lost(n) PROVE IInv'
    BY <1>7, LostStep
  <1>8. CASE UNCHANGED vars
    BY <1>8 DEF IInv, TypeOK, Claims, RemovedOnce, NeverMissed, vars, rancherVars, history
  <1> QED BY <1>1, <1>2, <1>3, <1>4, <1>5, <1>6, <1>7, <1>8 DEF Next

LEMMA AlwaysIInv == Spec => []IInv
  BY Initially, Inductive, PTL DEF Spec

(* The variables of Rancher2 keep their types, and a workload that exists  *)
(* has been made more often than removed.                                  *)
THEOREM TypeCorrect == Spec => []TypeOK
  <1>1. IInv => TypeOK
    BY DEF IInv
  <1> QED BY <1>1, AlwaysIInv, PTL

(* RemoveContainer reports the removal of a workload once for each time it *)
(* was made, however many goroutines meet at it.                           *)
THEOREM RemovedOnceHolds == Spec => []RemovedOnce
  <1>1. IInv => RemovedOnce
    BY DEF IInv
  <1> QED BY <1>1, AlwaysIInv, PTL

(* ContainerExists denies no workload that was there throughout.           *)
THEOREM NeverMissedHolds == Spec => []NeverMissed
  <1>1. IInv => NeverMissed
    BY DEF IInv
  <1> QED BY <1>1, AlwaysIInv, PTL

-----------------------------------------------------------------------------
(* The operations of module Platform that the calls of Rancher2 carry out. *)

ctrBar == [n \in Name |->
              IF deployment[n] = NoCtr THEN NoCtr
              ELSE [service |-> 1, cfg |-> deployment[n], running |-> TRUE]]

genBar == [n \in Name |-> IF created[n] = 0 THEN 0 ELSE 1]

(* What is there is a running container.                                   *)
LEMMA BarLive ==
    ASSUME IInv, NEW n \in Name, deployment[n] # NoCtr
    PROVE  Promised!Live(n, 1) /\ 1 \in 1 .. genBar[n]
  <1>1. deployment[n] \in Cfg /\ created[n] \in Nat /\ removals[n] \in Nat
    BY DEF IInv, TypeOK
  <1>2. created[n] # 0
    BY <1>1 DEF IInv, TypeOK
  <1>3. ctrBar[n] = [service |-> 1, cfg |-> deployment[n], running |-> TRUE]
    BY DEF ctrBar
  <1>4. ctrBar[n] \in [service : Nat, cfg : Cfg, running : BOOLEAN]
    BY <1>1, <1>3
  <1>5. ctrBar[n] # NoCtr
    BY <1>4
  <1>6. ctrBar[n].service = 1
    BY <1>3
  <1>7. genBar[n] = 1
    BY <1>2 DEF genBar
  <1> QED BY <1>5, <1>6, <1>7 DEF Promised!Live, ctrBar

LEMMA BarAbsent ==
    ASSUME NEW n \in Name, deployment[n] = NoCtr
    PROVE  ctrBar[n] = NoCtr
  BY DEF ctrBar

(* Making a workload is CreateContainer.                                   *)
LEMMA MadeMaps ==
    ASSUME IInv, NEW h \in Caller, At(h, "post"), Made(h)
    PROVE  Promised!Deployed(NameOf(h), call[h].cfg, TRUE)
  <1> DEFINE n == NameOf(h)
  <1> DEFINE c == call[h].cfg
  <1>1. n \in Name /\ c \in Cfg
    BY AtCall DEF IInv, Step, Call
  <1>2. c # NoCtr
    BY <1>1
  <1>3. deployment' = [deployment EXCEPT ![n] = c]
    BY DEF Made
  <1>4. created' = [created EXCEPT ![n] = @ + 1]
    BY DEF Made
  <1> HIDE DEF n, c
  <1>5. ctrBar' = [ctrBar EXCEPT ![n] = [service |-> 1, cfg |-> c, running |-> TRUE]]
    BY <1>1, <1>2, <1>3 DEF ctrBar, IInv, TypeOK
  <1>6. genBar' = [genBar EXCEPT ![n] = 1]
    <2>1. created \in [Name -> Nat]
      BY DEF IInv, TypeOK
    <2>2. created'[n] # 0 /\ \A m \in Name \ {n} : created'[m] = created[m]
      BY <1>1, <1>4, <2>1
    <2> QED BY <1>1, <2>2 DEF genBar
  <1> QED BY <1>5, <1>6 DEF Promised!Deployed, Promised!NewId, ctrBar, genBar, n, c

(* The disappearance of a workload is that of its container.               *)
LEMMA GoneMaps ==
    ASSUME IInv, NEW n \in Name, Gone(n)
    PROVE  Promised!Dropped(n)
  <1>1. ctrBar' = [ctrBar EXCEPT ![n] = NoCtr]
    BY DEF Gone, ctrBar, IInv, TypeOK
  <1>2. genBar' = genBar
    BY DEF Gone, genBar
  <1> QED BY <1>1, <1>2 DEF Promised!Dropped, ctrBar, genBar

(* A request that changes no workload is a stutter or a failed call.       *)
LEMMA KeptMaps ==
    ASSUME UNCHANGED rancherVars
    PROVE  ctrBar' = ctrBar /\ genBar' = genBar
  BY DEF rancherVars, ctrBar, genBar

LEMMA CreateMaps ==
    ASSUME NEW n \in Name, NEW c \in Cfg, Promised!Create(n, c)
    PROVE  Promised!Next
  BY DEF Promised!Next, Promised!Others

(* A call that fails without effect is a failed CreateContainer, provided  *)
(* there is an instance and an environment it can be a call for.           *)
LEMMA FaultMaps ==
    ASSUME NEW n \in Name, NEW c \in Cfg, UNCHANGED rancherVars, Fault
    PROVE  Promised!Next
  <1>1. ctrBar' = ctrBar /\ genBar' = genBar
    BY KeptMaps
  <1>2. Promised!CreateContainerFails(n, c)
    BY <1>1 DEF Promised!CreateContainerFails, Promised!Fault, Fault, ctrBar, genBar
  <1> QED BY <1>2, CreateMaps DEF Promised!Create

LEMMA StepMaps ==
    ASSUME IInv, [Next]_vars
    PROVE  Promised!Next \/ UNCHANGED <<ctrBar, genBar, faults>>
  <1>1. ASSUME NEW h \in Caller, BeginCall(h)
        PROVE  UNCHANGED <<ctrBar, genBar, faults>>
    BY <1>1, KeptMaps DEF BeginCall, Begin
  <1>2. ASSUME NEW h \in Caller, At(h, "post"), Fault \/ UNCHANGED faults,
               UNCHANGED rancherVars \/ (deployment[NameOf(h)] = NoCtr /\ Made(h))
        PROVE  Promised!Next \/ UNCHANGED <<ctrBar, genBar, faults>>
    <2>1. PICK n \in Name, c \in Cfg : n = NameOf(h) /\ c = call[h].cfg
      BY <1>2, AtCall DEF IInv, Step, Call
    <2>2. CASE UNCHANGED rancherVars /\ Fault
      BY <2>1, <2>2, FaultMaps
    <2>3. CASE UNCHANGED rancherVars /\ UNCHANGED faults
      BY <2>3, KeptMaps
    <2>4. CASE deployment[NameOf(h)] = NoCtr /\ Made(h)
      <3>1. Promised!Deployed(n, c, TRUE)
        BY <1>2, <2>1, <2>4, MadeMaps
      <3>2. ctrBar[n] = NoCtr
        BY <2>1, <2>4, BarAbsent
      <3>3. CASE UNCHANGED faults
        <4>1. Promised!CreateContainer(n, c)
          BY <3>1, <3>2 DEF Promised!CreateContainer, ctrBar
        <4>2. Promised!Create(n, c)
          BY <3>3, <4>1 DEF Promised!Create, Promised!NoFault
        <4> QED BY <2>1, <4>2, CreateMaps
      <3>4. CASE Fault
        <4>1. Promised!CreateContainerFails(n, c)
          BY <3>1, <3>2, <3>4
             DEF Promised!CreateContainerFails, Promised!Fault, Fault, ctrBar
        <4>2. Promised!Create(n, c)
          BY <4>1 DEF Promised!Create
        <4> QED BY <2>1, <4>2, CreateMaps
      <3> QED BY <1>2, <3>3, <3>4
    <2> QED BY <1>2, <2>2, <2>3, <2>4
  <1>3. ASSUME NEW h \in Caller, Post(h)
        PROVE  Promised!Next \/ UNCHANGED <<ctrBar, genBar, faults>>
    BY <1>2, <1>3 DEF Post, rancherVars
  <1>4. ASSUME NEW n \in Name, deployment[n] # NoCtr, Gone(n), Fault \/ UNCHANGED faults
        PROVE  Promised!Next
    <2>1. Promised!Live(n, 1) /\ 1 \in 1 .. genBar[n]
      BY <1>4, BarLive
    <2>2. Promised!Dropped(n)
      BY <1>4, GoneMaps
    <2>3. Promised!Remove(n, 1)
      BY <1>4, <2>1, <2>2
         DEF Promised!Remove, Promised!RemoveContainer, Promised!RemoveContainerFails,
             Promised!NoFault, Promised!Fault, Fault
    <2> QED BY <2>1, <2>3 DEF Promised!Next, Promised!Others, genBar
  <1>5. ASSUME NEW h \in Caller, call[h] \in Call, UNCHANGED rancherVars,
               Fault \/ UNCHANGED faults
        PROVE  Promised!Next \/ UNCHANGED <<ctrBar, genBar, faults>>
    <2>1. CASE Fault
      BY <1>5, <2>1, FaultMaps DEF Call
    <2>2. CASE UNCHANGED faults
      BY <1>5, <2>2, KeptMaps
    <2> QED BY <1>5, <2>1, <2>2
  <1>6. ASSUME NEW h \in Caller, Delete(h)
        PROVE  Promised!Next \/ UNCHANGED <<ctrBar, genBar, faults>>
    <2>1. call[h] \in Call /\ NameOf(h) \in Name
      BY <1>6, AtCall DEF Delete, IInv, Step
    <2>2. CASE deployment[NameOf(h)] # NoCtr /\ Gone(NameOf(h))
      BY <1>4, <1>6, <2>1, <2>2 DEF Delete
    <2>3. CASE UNCHANGED rancherVars
      BY <1>5, <1>6, <2>1, <2>3 DEF Delete
    <2> QED BY <1>6, <2>2, <2>3 DEF Delete
  <1>7. ASSUME NEW h \in Caller, DeleteJob(h) \/ Get(h) \/ GetJob(h)
        PROVE  Promised!Next \/ UNCHANGED <<ctrBar, genBar, faults>>
    <2>1. call[h] \in Call
      BY <1>7, AtCall DEF DeleteJob, Get, GetJob, IInv, Step
    <2>2. UNCHANGED rancherVars /\ (Fault \/ UNCHANGED faults)
      BY <1>7 DEF DeleteJob, Get, GetJob
    <2> QED BY <1>5, <2>1, <2>2
  <1>8. ASSUME NEW n \in Name, Lost(n) PROVE Promised!Next
    BY <1>4, <1>8 DEF Lost
  <1>9. CASE UNCHANGED vars
    BY <1>9, KeptMaps DEF vars
  <1> QED BY <1>1, <1>3, <1>6, <1>7, <1>8, <1>9 DEF Next

(* Whatever goroutines use the client at once, each of its calls has the   *)
(* effect of one operation of module Platform, on which module Manager and *)
(* the theorems about it are built.                                        *)
THEOREM DeploymentImplemented == Spec => ImplementsDeployment
  <1>1. Init => Promised!Init
    BY DEF Init, Promised!Init
  <1>2. IInv /\ [Next]_vars => [Promised!Next]_<<ctrBar, genBar, faults>>
    BY StepMaps
  <1>3. IInv /\ [Next]_vars =>
            [Promised!Next]_<<[n \in Name |->
                IF deployment[n] = NoCtr THEN NoCtr
                ELSE [service |-> 1, cfg |-> deployment[n], running |-> TRUE]],
              [n \in Name |-> IF created[n] = 0 THEN 0 ELSE 1], faults>>
    BY <1>2 DEF ctrBar, genBar
  <1> QED BY <1>1, <1>3, AlwaysIInv, PTL DEF Spec, ImplementsDeployment, Promised!Spec

-----------------------------------------------------------------------------
(* The program with any of the clients.  Module DockerProofs has the       *)
(* definitions of DockerClient once more, so they are compared first.      *)
DockerTheory ==
    INSTANCE DockerProofs WITH
        MaxCalls <- DockerCalls, MaxFaults <- DockerFaults,
        call <- dockerCall, calls <- dockerCalls, faults <- dockerFaults

LEMMA DockerIs ==
    /\ Docker!Constants => DockerTheory!Constants
    /\ Docker!Init => DockerTheory!Init
    /\ Docker!Next => DockerTheory!Next
    /\ DockerTheory!OneRemoval => Docker!OneRemoval
  <1>1. Docker!Constants => DockerTheory!Constants
    BY DEF
        Docker!Constants, Docker!Container, Docker!Call, Docker!Step,
        DockerTheory!Constants, DockerTheory!Container, DockerTheory!Call,
        DockerTheory!Step
  <1>2. Docker!Init => DockerTheory!Init
    BY DEF Docker!Init, DockerTheory!Init
  <1>3. Docker!Next => DockerTheory!Next
    BY DEF
        Docker!Has, Docker!daemonVars, Docker!vars, Docker!InContext, Docker!At,
        Docker!Live, Docker!Goto, Docker!Fail, Docker!Broken, Docker!Begin,
        Docker!FirstStep, Docker!BeginCall, Docker!Pull, Docker!PullEnds,
        Docker!NewContainer, Docker!Create, Docker!SetRunning, Docker!Start,
        Docker!Stop, Docker!Drop, Docker!RemoveReturns, Docker!Remove, Docker!Inspect,
        Docker!Expire, Docker!Hang, Docker!Recover, Docker!Starting, Docker!Lost,
        Docker!Answer, Docker!Next, DockerTheory!Has, DockerTheory!daemonVars,
        DockerTheory!vars, DockerTheory!InContext, DockerTheory!At, DockerTheory!Live,
        DockerTheory!Goto, DockerTheory!Fail, DockerTheory!Broken, DockerTheory!Begin,
        DockerTheory!FirstStep, DockerTheory!BeginCall, DockerTheory!Pull,
        DockerTheory!PullEnds, DockerTheory!NewContainer, DockerTheory!Create,
        DockerTheory!SetRunning, DockerTheory!Start, DockerTheory!Stop,
        DockerTheory!Drop, DockerTheory!RemoveReturns, DockerTheory!Remove,
        DockerTheory!Inspect, DockerTheory!Expire, DockerTheory!Hang,
        DockerTheory!Recover, DockerTheory!Starting, DockerTheory!Lost,
        DockerTheory!Answer, DockerTheory!Next
  <1>4. DockerTheory!OneRemoval => Docker!OneRemoval
    BY DEF Docker!OneRemoval, DockerTheory!OneRemoval
  <1> QED BY <1>1, <1>2, <1>3, <1>4

(* In mode docker at most one of the goroutines that meet at a container   *)
(* is told that it removed it; in the other modes none is.                 *)
THEOREM OneRemovalHolds == MCSpec => []OneRemoval
  <1>1. DockerTheory!Constants
    BY ClientsAssumption, DockerIs
  <1>2. MCInit => DockerTheory!Init
    BY DockerIs DEF MCInit
  <1>3. [MCNext]_<<deployMode, vars, dockerVars, serviceVars>>
            => [DockerTheory!Next]_(DockerTheory!vars)
    <2>1. UNCHANGED dockerVars => UNCHANGED DockerTheory!vars
      BY DEF dockerVars, DockerTheory!vars, DockerTheory!daemonVars
    <2> QED BY <2>1, DockerIs DEF MCNext
  <1>4. DockerTheory!Init /\ [][DockerTheory!Next]_(DockerTheory!vars)
            => []DockerTheory!IInv
    BY <1>1, DockerTheory!AlwaysIInv
  <1>5. DockerTheory!IInv => OneRemoval
    BY DockerIs DEF OneRemoval, DockerTheory!IInv, DockerTheory!History
  <1> QED BY <1>2, <1>3, <1>4, <1>5, PTL DEF MCSpec

ServicesTheory ==
    INSTANCE Rancher1Proofs WITH
        Handler <- Caller, NoRequest <- NoCall, MaxRequests <- MaxCalls,
        faults <- serviceFaults

LEMMA ServicesAre ==
    /\ Services!Constants => ServicesTheory!Constants
    /\ Services!Init => ServicesTheory!Init
    /\ Services!Next => ServicesTheory!Next
    /\ ServicesTheory!Rancher1Agrees => Services!Rancher1Agrees
  <1>1. Services!Constants => ServicesTheory!Constants
    BY DEF
        Services!Constants, Services!Document, Services!Request,
        ServicesTheory!Constants, ServicesTheory!Document, ServicesTheory!Request
  <1>2. Services!Init => ServicesTheory!Init
    BY DEF Services!Init, ServicesTheory!Init
  <1>3. Services!Next => ServicesTheory!Next
    BY DEF
        Services!platform, Services!process, Services!vars, Services!Fault,
        Services!Stored, Services!Exists, Services!Taken, Services!Posted,
        Services!PostFails, Services!Deleted, Services!DeleteFails, Services!At,
        Services!Goto, Services!Ends, Services!Begin, Services!BeginRequest,
        Services!ToStore, Services!Create, Services!Remove, Services!Replace,
        Services!Store, Services!Drop, Services!Forget, Services!Crash,
        Services!Restart, Services!SelfCheck, Services!Aborted, Services!Visited,
        Services!Ensure, Services!StillExists, Services!Serve, Services!Lost,
        Services!Next, ServicesTheory!platform, ServicesTheory!process,
        ServicesTheory!vars, ServicesTheory!Fault, ServicesTheory!Stored,
        ServicesTheory!Exists, ServicesTheory!Taken, ServicesTheory!Posted,
        ServicesTheory!PostFails, ServicesTheory!Deleted, ServicesTheory!DeleteFails,
        ServicesTheory!At, ServicesTheory!Goto, ServicesTheory!Ends,
        ServicesTheory!Begin, ServicesTheory!BeginRequest, ServicesTheory!ToStore,
        ServicesTheory!Create, ServicesTheory!Remove, ServicesTheory!Replace,
        ServicesTheory!Store, ServicesTheory!Drop, ServicesTheory!Forget,
        ServicesTheory!Crash, ServicesTheory!Restart, ServicesTheory!SelfCheck,
        ServicesTheory!Aborted, ServicesTheory!Visited, ServicesTheory!Ensure,
        ServicesTheory!StillExists, ServicesTheory!Serve, ServicesTheory!Lost,
        ServicesTheory!Next
  <1>4. ServicesTheory!Rancher1Agrees => Services!Rancher1Agrees
    BY DEF
        Services!Rancher1Agrees, Services!TypeOK, Services!ExtraOnlyByFault,
        Services!FaultFreeAgreement, Services!AllDeployed, Services!Stored,
        Services!Of, Services!Exists, Services!Document, Services!Service,
        Services!Request, Services!Cardinality, ServicesTheory!Rancher1Agrees,
        ServicesTheory!TypeOK, ServicesTheory!ExtraOnlyByFault,
        ServicesTheory!FaultFreeAgreement, ServicesTheory!AllDeployed,
        ServicesTheory!Stored, ServicesTheory!Of, ServicesTheory!Exists,
        ServicesTheory!Document, ServicesTheory!Service, ServicesTheory!Request,
        ServicesTheory!Cardinality
  <1> QED BY <1>1, <1>2, <1>3, <1>4

(* In mode rancher1 a service too many takes a fault, without one          *)
(* documents and services agree between requests, and startup leaves no    *)
(* document without its service.                                           *)
THEOREM Rancher1AgreesHolds == MCSpec => []Rancher1Agrees
  <1>1. ServicesTheory!Constants
    BY ClientsAssumption, ServicesAre
  <1>2. MCInit => ServicesTheory!Init
    BY ServicesAre DEF MCInit
  <1>3. [MCNext]_<<deployMode, vars, dockerVars, serviceVars>>
            => [ServicesTheory!Next]_(ServicesTheory!vars)
    <2>1. UNCHANGED serviceVars => UNCHANGED ServicesTheory!vars
      BY DEF serviceVars, ServicesTheory!vars, ServicesTheory!platform,
             ServicesTheory!process
    <2> QED BY <2>1, ServicesAre DEF MCNext
  <1>4. ServicesTheory!Spec => []ServicesTheory!Rancher1Agrees
    BY <1>1, ServicesTheory!Rancher1AgreesHolds
  <1>5. ServicesTheory!Rancher1Agrees => Rancher1Agrees
    BY ServicesAre DEF Rancher1Agrees
  <1> QED BY <1>2, <1>3, <1>4, <1>5, PTL DEF MCSpec, ServicesTheory!Spec

=============================================================================
