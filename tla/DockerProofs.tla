---------------------------- MODULE DockerProofs ----------------------------
(***************************************************************************)
(* Theorems about module DockerClient, for any number of goroutines, names *)
(* and environments, with and without the pull of the image.               *)
(***************************************************************************)
EXTENDS DockerClient, FiniteSetTheorems, TLAPS

Active == {h \in Caller : call[h] # NoCall}

(* What the daemon says of its containers.                                 *)
Daemon ==
    /\ ctr \in [Name -> Container \cup {NoCtr}]
    /\ gen \in [Name -> Nat]
    /\ \A n \in Name : ctr[n] # NoCtr => ctr[n].service \in 1 .. gen[n]
    /\ image \in BOOLEAN /\ pulling \in BOOLEAN /\ hung \in BOOLEAN

Known ==
    /\ known \in SUBSET (Name \X Nat)
    /\ \A p \in known : p[2] \in 1 .. gen[p[1]]

(* Only the goroutine that starts a container knows of it, and nothing     *)
(* happens to it meanwhile; the others work on containers that were        *)
(* returned by the client.                                                 *)
Sound(c) ==
    c # NoCall =>
        /\ c.step = "start" =>
              /\ ctr[c.name] # NoCtr
              /\ ctr[c.name].service = c.id /\ gen[c.name] = c.id
              /\ <<c.name, c.id>> \notin known
        /\ c.step \in {"stop", "remove", "inspect"} => <<c.name, c.id>> \in known

Calls ==
    /\ call \in [Caller -> Call \cup {NoCall}]
    /\ \A h \in Caller : Sound(call[h])
    /\ \A h, k \in Caller :
          (At(h, "start") /\ At(k, "start") /\ call[h].name = call[k].name) => h = k

(* Every fault but a lost container ends a call.                           *)
Accounts ==
    /\ calls \in 0 .. MaxCalls /\ faults \in Nat
    /\ IsFiniteSet(Active)
    /\ Cardinality(Active) <= calls
    /\ faults + Cardinality(Active) <= MaxFaults + calls

(* An id that was reported as removed is never given out again.            *)
History ==
    /\ removed \in Seq(Name \X Nat)
    /\ \A j \in DOMAIN removed :
          /\ removed[j][2] \in 1 .. gen[removed[j][1]]
          /\ ~Has(removed[j][1], removed[j][2])
    /\ OneRemoval

IInv == Constants /\ Daemon /\ Known /\ Calls /\ Accounts /\ History

-----------------------------------------------------------------------------
(* What the steps have in common.                                          *)

(* The containers change in an orderly way: ids grow, none is used again,  *)
(* and what the callers in S are starting stays as it is.                  *)
Onward(S) ==
    /\ Daemon'
    /\ \A n \in Name : gen'[n] >= gen[n]
    /\ \A n \in Name : \A s \in 1 .. gen[n] : Has(n, s)' => Has(n, s)
    /\ \A k \in S : At(k, "start") =>
          /\ ctr'[call[k].name] # NoCtr
          /\ ctr'[call[k].name].service = ctr[call[k].name].service
          /\ gen'[call[k].name] = gen[call[k].name]

LEMMA AtCall ==
    ASSUME Calls, NEW h \in Caller, NEW step \in Step, At(h, step)
    PROVE  /\ call[h] \in Call /\ call[h] # NoCall /\ call[h].step = step
           /\ call[h].name \in Name /\ call[h].cfg \in Cfg /\ call[h].id \in Nat
  BY DEF Calls, At, Call

LEMMA Starter ==
    ASSUME IInv, NEW k \in Caller, At(k, "start")
    PROVE  /\ call[k].name \in Name
           /\ ctr[call[k].name] # NoCtr /\ ctr[call[k].name].service = call[k].id
           /\ gen[call[k].name] = call[k].id
           /\ <<call[k].name, call[k].id>> \notin known
  BY AtCall DEF IInv, Calls, Sound, Step

LEMMA Kept ==
    ASSUME IInv, UNCHANGED <<ctr, gen>>,
           image' \in BOOLEAN /\ pulling' \in BOOLEAN /\ hung' \in BOOLEAN
    PROVE  Onward(Caller)
  <1>1. Daemon' /\ \A n \in Name : gen'[n] >= gen[n]
    BY DEF IInv, Daemon
  <1>2. \A n \in Name : \A s \in 1 .. gen[n] : Has(n, s)' => Has(n, s)
    BY DEF Has
  <1> QED BY <1>1, <1>2, Starter DEF Onward

LEMMA KeptAll ==
    ASSUME IInv, UNCHANGED daemonVars
    PROVE  Onward(Caller)
  BY Kept DEF daemonVars, IInv, Daemon

LEMMA RunKeeps ==
    ASSUME IInv, NEW n \in Name, NEW run \in BOOLEAN, ctr[n] # NoCtr,
           ctr' = [ctr EXCEPT ![n].running = run], UNCHANGED <<gen, image, pulling, hung>>
    PROVE  Onward(Caller)
  <1>1. ctr[n] \in Container
    BY DEF IInv, Daemon
  <1> DEFINE r == [ctr[n] EXCEPT !.running = run]
  <1>2. r \in Container /\ r.service = ctr[n].service
    BY <1>1 DEF Container
  <1>3. ctr' = [ctr EXCEPT ![n] = r]
    OBVIOUS
  <1>4. r # NoCtr
    BY <1>2 DEF IInv, Constants
  <1> HIDE DEF r
  <1>5. /\ ctr' \in [Name -> Container \cup {NoCtr}]
        /\ \A m \in Name : (ctr'[m] # NoCtr) = (ctr[m] # NoCtr)
        /\ \A m \in Name : ctr[m] # NoCtr => ctr'[m].service = ctr[m].service
    BY <1>2, <1>3, <1>4 DEF IInv, Daemon
  <1>6. \A k \in Caller : At(k, "start") => call[k].name \in Name /\ ctr[call[k].name] # NoCtr
    BY Starter
  <1>7. Daemon'
    BY <1>5 DEF IInv, Daemon
  <1>8. \A m \in Name : \A s \in 1 .. gen[m] : Has(m, s)' => Has(m, s)
    BY <1>5 DEF Has
  <1>9. \A m \in Name : gen'[m] >= gen[m]
    BY DEF IInv, Daemon
  <1> QED BY <1>5, <1>6, <1>7, <1>8, <1>9 DEF Onward

LEMMA NewKeeps ==
    ASSUME IInv, NEW h \in Caller, At(h, "create"), ctr[call[h].name] = NoCtr,
           NewContainer(h)
    PROVE  /\ Onward(Caller)
           /\ gen'[call[h].name] = gen[call[h].name] + 1
           /\ ctr'[call[h].name] # NoCtr
           /\ ctr'[call[h].name].service = gen[call[h].name] + 1
  <1>1. PICK n \in Name, c \in Cfg : n = call[h].name /\ c = call[h].cfg
    BY AtCall DEF IInv, Step
  <1> DEFINE r == [service |-> gen[n] + 1, cfg |-> c, running |-> FALSE]
  <1>2. gen \in [Name -> Nat] /\ ctr \in [Name -> Container \cup {NoCtr}]
    BY DEF IInv, Daemon
  <1>3. r \in Container /\ r.service = gen[n] + 1
    BY <1>2 DEF Container
  <1>4. ctr' = [ctr EXCEPT ![n] = r] /\ UNCHANGED <<image, pulling, hung>>
    BY <1>1 DEF NewContainer
  <1>5. gen' = [gen EXCEPT ![n] = gen[n] + 1]
    BY <1>1 DEF NewContainer
  <1>6. r # NoCtr
    BY <1>3 DEF IInv, Constants
  <1> HIDE DEF r
  <1>7. ctr' \in [Name -> Container \cup {NoCtr}] /\ gen' \in [Name -> Nat]
    BY <1>2, <1>3, <1>4, <1>5
  <1>8. ctr'[n] = r /\ gen'[n] = gen[n] + 1
    BY <1>2, <1>4, <1>5
  <1>9. \A m \in Name \ {n} : ctr'[m] = ctr[m] /\ gen'[m] = gen[m]
    BY <1>2, <1>4, <1>5
  <1>10. Daemon'
    <2>1. \A m \in Name : ctr'[m] # NoCtr => ctr'[m].service \in 1 .. gen'[m]
      BY <1>2, <1>3, <1>8, <1>9 DEF IInv, Daemon
    <2> QED BY <1>4, <1>7, <2>1 DEF IInv, Daemon
  <1>11. \A m \in Name : gen'[m] >= gen[m]
    BY <1>2, <1>8, <1>9
  <1>12. \A m \in Name : \A s \in 1 .. gen[m] : Has(m, s)' => Has(m, s)
    BY <1>2, <1>3, <1>8, <1>9 DEF Has
  <1>13. \A k \in Caller :
            At(k, "start") => call[k].name \in Name \ {n} /\ ctr[call[k].name] # NoCtr
    BY <1>1, Starter
  <1> QED BY <1>1, <1>3, <1>6, <1>8, <1>9, <1>10, <1>11, <1>12, <1>13 DEF Onward

LEMMA DropKeeps ==
    ASSUME IInv, NEW n \in Name, ~Starting(n),
           ctr' = [ctr EXCEPT ![n] = NoCtr], UNCHANGED <<gen, image, pulling, hung>>
    PROVE  Onward(Caller) /\ ctr'[n] = NoCtr
  <1>1. ctr \in [Name -> Container \cup {NoCtr}] /\ gen \in [Name -> Nat]
    BY DEF IInv, Daemon
  <1>2. ctr'[n] = NoCtr /\ \A m \in Name \ {n} : ctr'[m] = ctr[m]
    BY <1>1
  <1>3. Daemon'
    BY <1>1, <1>2 DEF IInv, Daemon
  <1>4. \A m \in Name : \A s \in 1 .. gen[m] : Has(m, s)' => Has(m, s)
    BY <1>2 DEF Has
  <1>5. \A k \in Caller :
            At(k, "start") => call[k].name \in Name \ {n} /\ ctr[call[k].name] # NoCtr
    BY Starter DEF Starting
  <1> QED BY <1>1, <1>2, <1>3, <1>4, <1>5 DEF Onward

(* What was known and removed is of the past.                              *)
LEMMA KnownKept ==
    ASSUME IInv, NEW S, Onward(S), known' = known
    PROVE  Known'
  <1>1. \A n \in Name : gen'[n] >= gen[n] /\ gen[n] \in Nat /\ gen'[n] \in Nat
    BY DEF Onward, IInv, Daemon
  <1>2. \A p \in known : p[1] \in Name /\ p[2] \in 1 .. gen[p[1]]
    BY DEF IInv, Known
  <1>3. \A p \in known : p[2] \in 1 .. gen'[p[1]]
    BY <1>1, <1>2
  <1> QED BY <1>3 DEF IInv, Known

LEMMA DeadStays ==
    ASSUME IInv, NEW S, Onward(S), NEW j \in DOMAIN removed
    PROVE  /\ removed[j] \in Name \X Nat
           /\ removed[j][2] \in 1 .. gen'[removed[j][1]]
           /\ ~(/\ ctr'[removed[j][1]] # NoCtr
                /\ ctr'[removed[j][1]].service = removed[j][2])
  <1>1. PICK n \in Name, s \in Nat : removed[j] = <<n, s>>
    BY DEF IInv, History
  <1>2. s \in 1 .. gen[n] /\ ~Has(n, s)
    BY <1>1 DEF IInv, History
  <1>3. gen'[n] >= gen[n] /\ gen[n] \in Nat /\ gen'[n] \in Nat
    BY DEF Onward, IInv, Daemon
  <1>4. ~Has(n, s)'
    BY <1>2 DEF Onward
  <1>5. s \in 1 .. gen'[n]
    BY <1>2, <1>3
  <1>6. removed[j][1] = n /\ removed[j][2] = s
    BY <1>1
  <1> QED BY <1>1, <1>4, <1>5, <1>6 DEF Has

LEMMA HistoryKept ==
    ASSUME IInv, NEW S, Onward(S), removed' = removed
    PROVE  History'
  <1>1. \A j \in DOMAIN removed :
            /\ removed[j][2] \in 1 .. gen'[removed[j][1]]
            /\ ~(/\ ctr'[removed[j][1]] # NoCtr
                 /\ ctr'[removed[j][1]].service = removed[j][2])
    BY DeadStays
  <1> QED BY <1>1 DEF IInv, History, OneRemoval, Has

(* One call takes another step or ends.                                    *)
LEMMA CallsStep ==
    ASSUME IInv, NEW h \in Caller, NEW r \in Call \cup {NoCall},
           call' = [call EXCEPT ![h] = r],
           Onward(Caller \ {h}), known \subseteq known',
           \A k \in Caller \ {h} : At(k, "start") =>
                /\ <<call[k].name, call[k].id>> \notin known'
                /\ (r # NoCall /\ r.step = "start") => call[k].name # r.name,
           Sound(r)'
    PROVE  Calls'
  <1>1. call' \in [Caller -> Call \cup {NoCall}]
    BY DEF IInv, Calls
  <1>2. call'[h] = r /\ \A k \in Caller \ {h} : call'[k] = call[k]
    BY DEF IInv, Calls
  <1>3. ASSUME NEW k \in Caller PROVE Sound(call[k])'
    <2>1. CASE k = h
      BY <1>2, <2>1 DEF Sound
    <2>2. CASE k # h
      <3>1. PICK c \in Call \cup {NoCall} : c = call[k]
        BY DEF IInv, Calls
      <3>2. Sound(c)
        BY <3>1 DEF IInv, Calls
      <3>3. (c # NoCall /\ c.step = "start") =>
                /\ ctr'[c.name] # NoCtr /\ ctr'[c.name].service = c.id
                /\ gen'[c.name] = c.id /\ <<c.name, c.id>> \notin known'
        BY <2>2, <3>1, Starter DEF Onward, At
      <3>4. Sound(c)'
        BY <3>2, <3>3 DEF Sound
      <3> QED BY <1>2, <2>2, <3>1, <3>4 DEF Sound
    <2> QED BY <2>1, <2>2
  <1>4. \A k, l \in Caller :
            (At(k, "start") /\ At(l, "start") /\ call[k].name = call[l].name)' => k = l
    <2>1. \A k, l \in Caller :
              (At(k, "start") /\ At(l, "start") /\ call[k].name = call[l].name) => k = l
      BY DEF IInv, Calls
    <2> QED BY <1>2, <2>1 DEF At
  <1> QED BY <1>1, <1>3, <1>4 DEF Calls

LEMMA ActiveStep ==
    ASSUME IInv, NEW h \in Caller, NEW r, call' = [call EXCEPT ![h] = r]
    PROVE  /\ r # NoCall => Active' = Active \cup {h}
           /\ r = NoCall => Active' = Active \ {h}
  BY DEF Active, IInv, Calls

LEMMA AccountsEnd ==
    ASSUME IInv, NEW h \in Caller, call[h] # NoCall, call' = [call EXCEPT ![h] = NoCall],
           calls' = calls, faults' = faults \/ faults' = faults + 1
    PROVE  Accounts'
  <1>1. IsFiniteSet(Active) /\ Cardinality(Active) \in Nat
    BY FS_CardinalityType DEF IInv, Accounts
  <1>2. Active' = Active \ {h} /\ h \in Active
    BY ActiveStep DEF Active
  <1>3. IsFiniteSet(Active \ {h}) /\ Cardinality(Active \ {h}) = Cardinality(Active) - 1
    BY <1>1, <1>2, FS_RemoveElement
  <1>4. MaxFaults \in Nat /\ MaxCalls \in Nat
    BY DEF IInv, Constants
  <1> QED BY <1>1, <1>2, <1>3, <1>4 DEF IInv, Accounts

LEMMA AccountsGo ==
    ASSUME IInv, NEW h \in Caller, call[h] # NoCall,
           NEW r, r # NoCall, call' = [call EXCEPT ![h] = r],
           UNCHANGED <<calls, faults>>
    PROVE  Accounts'
  <1>1. Active' = Active
    BY ActiveStep DEF Active
  <1> QED BY <1>1 DEF IInv, Accounts

-----------------------------------------------------------------------------
(* The steps.                                                              *)

LEMMA FailStep ==
    ASSUME IInv, NEW h \in Caller, call[h] # NoCall, Fail(h), Onward(Caller)
    PROVE  IInv'
  <1>1. Onward(Caller \ {h})
    BY DEF Onward
  <1>2. Sound(NoCall)'
    BY DEF Sound
  <1>3. Calls'
    BY <1>1, <1>2, CallsStep, Starter DEF Fail
  <1>4. Accounts'
    BY AccountsEnd DEF Fail
  <1>5. Known' /\ History'
    BY KnownKept, HistoryKept DEF Fail
  <1> QED BY <1>3, <1>4, <1>5 DEF IInv, Constants, Onward

LEMMA GoStep ==
    ASSUME IInv, NEW h \in Caller, call[h] # NoCall,
           NEW r \in Call, call' = [call EXCEPT ![h] = r], Sound(r)', Onward(Caller),
           UNCHANGED <<known, removed, calls, faults>>,
           r.step = "start" =>
                \A k \in Caller \ {h} : At(k, "start") => call[k].name # r.name
    PROVE  IInv'
  <1>1. Onward(Caller \ {h})
    BY DEF Onward
  <1>2. r # NoCall
    BY DEF IInv, Constants
  <1>3. Calls'
    BY <1>1, CallsStep, Starter
  <1>4. Accounts'
    BY <1>2, AccountsGo
  <1>5. Known' /\ History'
    BY KnownKept, HistoryKept
  <1> QED BY <1>3, <1>4, <1>5 DEF IInv, Constants, Onward

(* Nothing happens but to the daemon.                                      *)
LEMMA DaemonStep ==
    ASSUME IInv, Onward(Caller), UNCHANGED <<call, known, removed, calls>>,
           faults' = faults \/ (faults < MaxFaults /\ faults' = faults + 1)
    PROVE  IInv'
  <1>1. Calls'
    <2>1. ASSUME NEW k \in Caller PROVE Sound(call[k])'
      <3>1. At(k, "start") =>
                /\ ctr'[call[k].name] # NoCtr /\ ctr'[call[k].name].service = call[k].id
                /\ gen'[call[k].name] = call[k].id
        BY Starter DEF Onward
      <3>2. Sound(call[k])
        BY DEF IInv, Calls
      <3> QED BY <3>1, <3>2 DEF Sound, At
    <2> QED BY <2>1 DEF IInv, Calls, At
  <1>2. Accounts'
    <2>1. Active' = Active
      BY DEF Active
    <2>2. Cardinality(Active) \in Nat
      BY FS_CardinalityType DEF IInv, Accounts
    <2> QED BY <2>1, <2>2 DEF IInv, Accounts, Constants
  <1>3. Known' /\ History'
    BY KnownKept, HistoryKept
  <1> QED BY <1>1, <1>2, <1>3 DEF IInv, Constants, Onward

LEMMA BeginStep ==
    ASSUME IInv, NEW h \in Caller, NEW step \in Step, NEW n \in Name, NEW id \in Nat,
           NEW c \in Cfg, NEW update \in BOOLEAN, step # "start",
           step \in {"stop", "remove", "inspect"} => <<n, id>> \in known,
           Begin(h, step, n, id, c, update)
    PROVE  IInv'
  <1> DEFINE r == [step |-> step, name |-> n, id |-> id, cfg |-> c, update |-> update,
                   ran |-> FALSE]
  <1>1. r \in Call /\ r.step = step /\ r.name = n /\ r.id = id
    BY DEF Call
  <1>2. call' = [call EXCEPT ![h] = r]
    BY DEF Begin
  <1> HIDE DEF r
  <1>3. PICK q \in Call : q = r
    BY <1>1
  <1>4. Sound(q)' /\ q # NoCall
    BY <1>1, <1>3 DEF Sound, Begin, IInv, Constants
  <1>5. Onward(Caller)
    BY KeptAll DEF Begin
  <1>6. Onward(Caller \ {h})
    BY <1>5 DEF Onward
  <1>7. Calls'
    BY <1>1, <1>2, <1>3, <1>4, <1>6, CallsStep, Starter DEF Begin
  <1>8. Accounts'
    <2>1. Active' = Active \cup {h} /\ h \notin Active
      <3>1. h \notin Active
        BY DEF Active, Begin
      <3>2. call' = [call EXCEPT ![h] = q] /\ q # NoCall
        BY <1>2, <1>3, <1>4
      <3> QED BY <3>1, <3>2, ActiveStep
    <2>2. IsFiniteSet(Active) /\ Cardinality(Active) \in Nat
      BY FS_CardinalityType DEF IInv, Accounts
    <2>3. /\ IsFiniteSet(Active \cup {h})
          /\ Cardinality(Active \cup {h}) = Cardinality(Active) + 1
      BY <2>1, <2>2, FS_AddElement
    <2> QED BY <2>1, <2>2, <2>3 DEF Begin, IInv, Accounts, Constants
  <1>9. Known' /\ History'
    BY <1>5, KnownKept, HistoryKept DEF Begin
  <1> QED BY <1>5, <1>7, <1>8, <1>9 DEF IInv, Constants, Onward

LEMMA FirstIsStep ==
    ASSUME Constants
    PROVE  FirstStep \in Step \ {"start", "stop", "remove", "inspect"}
  BY DEF FirstStep, Step, Constants

LEMMA BeginCallStep ==
    ASSUME IInv, NEW h \in Caller, BeginCall(h)
    PROVE  IInv'
  <1>1. CASE \E n \in Name, c \in Cfg : Begin(h, FirstStep, n, 0, c, FALSE)
    BY <1>1, FirstIsStep, BeginStep DEF IInv
  <1>2. CASE \E p \in known, c \in Cfg :
                \/ Begin(h, "stop", p[1], p[2], c, FALSE)
                \/ Begin(h, "stop", p[1], p[2], c, TRUE)
                \/ Begin(h, "inspect", p[1], p[2], c, FALSE)
    <2>1. PICK p \in known, c \in Cfg :
                \/ Begin(h, "stop", p[1], p[2], c, FALSE)
                \/ Begin(h, "stop", p[1], p[2], c, TRUE)
                \/ Begin(h, "inspect", p[1], p[2], c, FALSE)
      BY <1>2
    <2>2. p[1] \in Name /\ p[2] \in Nat /\ <<p[1], p[2]>> \in known
      BY DEF IInv, Known
    <2> QED BY <2>1, <2>2, BeginStep DEF Step
  <1> QED BY <1>1, <1>2 DEF BeginCall

LEMMA PullStep ==
    ASSUME IInv, NEW h \in Caller, Pull(h)
    PROVE  IInv'
  <1>1. call[h] \in Call /\ call[h] # NoCall
    BY AtCall DEF Pull, IInv, Step
  <1>2. CASE Broken(h) /\ UNCHANGED daemonVars
    BY <1>1, <1>2, KeptAll, FailStep DEF Broken
  <1>3. CASE /\ pulling' = TRUE /\ Goto(h, "create")
             /\ UNCHANGED <<ctr, gen, image, hung, known, removed, calls, faults>>
    <2>1. PICK r \in Call : r = [call[h] EXCEPT !.step = "create"]
      BY <1>1 DEF Call, Step
    <2>2. r.step = "create"
      BY <1>1, <2>1 DEF Call
    <2>3. Sound(r)'
      BY <2>2 DEF Sound
    <2>4. Onward(Caller)
      BY <1>3, Kept DEF IInv, Daemon
    <2>5. call' = [call EXCEPT ![h] = r]
      BY <1>3, <2>1 DEF Goto
    <2> QED BY <1>1, <1>3, <2>2, <2>3, <2>4, <2>5, GoStep
  <1> QED BY <1>2, <1>3 DEF Pull

LEMMA CreateStep ==
    ASSUME IInv, NEW h \in Caller, Create(h)
    PROVE  IInv'
  <1>1. At(h, "create") /\ call[h] \in Call /\ call[h] # NoCall /\ call[h].name \in Name
    BY AtCall DEF Create, IInv, Step
  <1>2. CASE Fail(h) /\ UNCHANGED daemonVars
    BY <1>1, <1>2, KeptAll, FailStep
  <1>3. CASE ctr[call[h].name] = NoCtr /\ Fail(h) /\ NewContainer(h)
    BY <1>1, <1>3, NewKeeps, FailStep
  <1>4. CASE /\ ctr[call[h].name] = NoCtr /\ NewContainer(h)
             /\ call' = [call EXCEPT ![h].step = "start", ![h].id = gen[call[h].name] + 1]
             /\ UNCHANGED <<known, removed, calls, faults>>
    <2>1. PICK n \in Name, g \in Nat : n = call[h].name /\ g = gen[n]
      BY <1>1 DEF IInv, Daemon
    <2>2. PICK r \in Call : /\ r = [call[h] EXCEPT !.step = "start", !.id = g + 1]
                            /\ r.step = "start" /\ r.name = n /\ r.id = g + 1
      <3> DEFINE q == [call[h] EXCEPT !.step = "start", !.id = g + 1]
      <3>1. g + 1 \in Nat /\ "start" \in Step
        BY DEF Step
      <3>2. q \in Call /\ q.step = "start" /\ q.name = n /\ q.id = g + 1
        BY <1>1, <2>1, <3>1 DEF Call
      <3> QED BY <3>2
    <2>4. call' = [call EXCEPT ![h] = r]
      BY <1>4, <2>1, <2>2
    <2>5. /\ Onward(Caller) /\ gen'[n] = g + 1
          /\ ctr'[n] # NoCtr /\ ctr'[n].service = g + 1
      BY <1>1, <1>4, <2>1, NewKeeps
    <2>6. <<n, g + 1>> \notin known
      <3>1. ASSUME <<n, g + 1>> \in known PROVE FALSE
        <4>1. g + 1 \in 1 .. gen[n]
          BY <3>1 DEF IInv, Known
        <4> QED BY <2>1, <4>1
      <3> QED BY <3>1
    <2>7. Sound(r)'
      BY <1>4, <2>2, <2>5, <2>6 DEF Sound
    <2>8. \A k \in Caller \ {h} : At(k, "start") => call[k].name # r.name
      BY <1>4, <2>1, <2>2, Starter
    <2> QED BY <1>1, <1>4, <2>2, <2>4, <2>5, <2>7, <2>8, GoStep
  <1> QED BY <1>2, <1>3, <1>4 DEF Create, Broken

LEMMA StartStep ==
    ASSUME IInv, NEW h \in Caller, Start(h)
    PROVE  IInv'
  <1>1. /\ At(h, "start") /\ call[h] \in Call /\ call[h] # NoCall
        /\ call[h].name \in Name /\ call[h].id \in Nat
    BY AtCall DEF Start, IInv, Step
  <1>2. /\ ctr[call[h].name] # NoCtr
        /\ ctr[call[h].name].service = call[h].id /\ gen[call[h].name] = call[h].id
    BY <1>1, Starter
  <1>3. CASE Fail(h) /\ UNCHANGED daemonVars
    BY <1>1, <1>3, KeptAll, FailStep
  <1>4. SetRunning(h, TRUE) => Onward(Caller)
    BY <1>1, <1>2, RunKeeps DEF SetRunning
  <1>5. CASE Fail(h) /\ SetRunning(h, TRUE)
    BY <1>1, <1>4, <1>5, FailStep
  <1>6. CASE /\ SetRunning(h, TRUE)
             /\ known' = known \cup {<<call[h].name, call[h].id>>}
             /\ call' = [call EXCEPT ![h] = NoCall]
             /\ UNCHANGED <<removed, calls, faults>>
    <2>1. Onward(Caller \ {h})
      BY <1>4, <1>6 DEF Onward
    <2>2. Sound(NoCall)'
      BY DEF Sound
    <2>3. \A k \in Caller \ {h} : At(k, "start") =>
              <<call[k].name, call[k].id>> \notin known'
      <3>1. \A k \in Caller \ {h} : At(k, "start") => call[k].name # call[h].name
        BY <1>1 DEF IInv, Calls
      <3> QED BY <1>6, <3>1, Starter
    <2>4. Calls'
      BY <1>6, <2>1, <2>2, <2>3, CallsStep
    <2>5. Accounts'
      BY <1>1, <1>6, AccountsEnd
    <2>6. History'
      BY <1>6, <2>1, HistoryKept
    <2>7. Known'
      <3>1. PICK n \in Name, s \in Nat : n = call[h].name /\ s = call[h].id
        BY <1>1
      <3>2. s \in 1 .. gen[n] /\ gen' = gen
        BY <1>2, <1>6, <3>1 DEF IInv, Daemon, SetRunning
      <3>3. known' = known \cup {<<n, s>>}
        BY <1>6, <3>1
      <3> QED BY <3>2, <3>3 DEF IInv, Known
    <2> QED BY <2>1, <2>4, <2>5, <2>6, <2>7 DEF IInv, Constants, Onward
  <1> QED BY <1>3, <1>5, <1>6 DEF Start, Broken

LEMMA StopStep ==
    ASSUME IInv, NEW h \in Caller, Stop(h)
    PROVE  IInv'
  <1>1. /\ At(h, "stop") /\ call[h] \in Call /\ call[h] # NoCall
        /\ call[h].step = "stop" /\ call[h].name \in Name
    BY AtCall DEF Stop, IInv, Step
  <1>2. CASE Fail(h) /\ UNCHANGED daemonVars
    BY <1>1, <1>2, KeptAll, FailStep
  <1>3. (Live(h) /\ SetRunning(h, FALSE)) => Onward(Caller)
    BY <1>1, RunKeeps DEF SetRunning, Live, Has
  <1>4. CASE Live(h) /\ Fail(h) /\ SetRunning(h, FALSE)
    BY <1>1, <1>3, <1>4, FailStep
  <1>5. CASE /\ Live(h) /\ SetRunning(h, FALSE)
             /\ call' = [call EXCEPT ![h].step = "remove", ![h].ran = ctr[call[h].name].running]
             /\ UNCHANGED <<known, removed, calls, faults>>
    <2>1. PICK b \in BOOLEAN : b = ctr[call[h].name].running
      BY <1>1, <1>5 DEF Live, Has, IInv, Daemon, Container
    <2>2. PICK r \in Call : /\ r = [call[h] EXCEPT !.step = "remove", !.ran = b]
                            /\ r.step = "remove" /\ r.name = call[h].name
                            /\ r.id = call[h].id
      <3> DEFINE q == [call[h] EXCEPT !.step = "remove", !.ran = b]
      <3>1. "remove" \in Step
        BY DEF Step
      <3>2. q \in Call /\ q.step = "remove" /\ q.name = call[h].name /\ q.id = call[h].id
        BY <1>1, <3>1 DEF Call
      <3> QED BY <3>2
    <2>3. call' = [call EXCEPT ![h] = r]
      BY <1>5, <2>1, <2>2
    <2>4. <<call[h].name, call[h].id>> \in known
      BY <1>1 DEF IInv, Calls, Sound
    <2>5. Sound(r)'
      BY <1>5, <2>2, <2>4 DEF Sound
    <2> QED BY <1>1, <1>3, <1>5, <2>2, <2>3, <2>5, GoStep
  <1> QED BY <1>2, <1>4, <1>5 DEF Stop, Broken

(* What is removed was returned before, and so is not being started.       *)
LEMMA Removable ==
    ASSUME IInv, NEW h \in Caller, At(h, "remove")
    PROVE  /\ call[h] \in Call /\ call[h] # NoCall /\ call[h].step = "remove"
           /\ call[h].name \in Name /\ call[h].id \in 1 .. gen[call[h].name]
           /\ Live(h) => ~Starting(call[h].name)
  <1>1. /\ call[h] \in Call /\ call[h] # NoCall /\ call[h].step = "remove"
        /\ call[h].name \in Name /\ call[h].id \in Nat
    BY AtCall DEF IInv, Step
  <1>2. <<call[h].name, call[h].id>> \in known
    BY <1>1 DEF IInv, Calls, Sound
  <1>3. PICK n \in Name, s \in Nat : n = call[h].name /\ s = call[h].id
    BY <1>1
  <1>4. s \in 1 .. gen[n]
    BY <1>2, <1>3 DEF IInv, Known
  <1>5. ASSUME Live(h), NEW k \in Caller, At(k, "start"), call[k].name = call[h].name
        PROVE  FALSE
    BY <1>2, <1>5, Starter DEF Live, Has
  <1> QED BY <1>1, <1>3, <1>4, <1>5 DEF Starting

(* The removal is reported: it was not reported before, and the id is dead *)
(* from now on.                                                            *)
LEMMA ReportStep ==
    ASSUME IInv, NEW S, Onward(S), NEW n \in Name, NEW s \in 1 .. gen[n],
           Has(n, s), ctr'[n] = NoCtr, removed' = Append(removed, <<n, s>>)
    PROVE  History'
  <1>1. removed \in Seq(Name \X Nat) /\ <<n, s>> \in Name \X Nat
    BY DEF IInv, History, Daemon
  <1>2. /\ removed' \in Seq(Name \X Nat)
        /\ DOMAIN removed' = DOMAIN removed \cup {Len(removed) + 1}
        /\ Len(removed) + 1 \notin DOMAIN removed
        /\ removed'[Len(removed) + 1] = <<n, s>>
        /\ \A j \in DOMAIN removed : removed'[j] = removed[j]
    BY <1>1
  <1>3. \A j \in DOMAIN removed : removed[j] # <<n, s>>
    BY DEF IInv, History
  <1>4. OneRemoval'
    BY <1>2, <1>3 DEF IInv, History, OneRemoval
  <1>5. s \in 1 .. gen'[n]
    BY DEF Onward, IInv, Daemon
  <1>6. ASSUME NEW j \in DOMAIN removed'
        PROVE  /\ removed'[j][2] \in 1 .. gen'[removed'[j][1]]
               /\ ~(/\ ctr'[removed'[j][1]] # NoCtr
                    /\ ctr'[removed'[j][1]].service = removed'[j][2])
    <2>1. CASE j \in DOMAIN removed
      BY <1>2, <2>1, DeadStays
    <2>2. CASE j = Len(removed) + 1
      BY <1>2, <1>5, <2>2
    <2> QED BY <1>2, <1>6, <2>1, <2>2
  <1> QED BY <1>2, <1>4, <1>6 DEF History, Has

LEMMA RemoveStep ==
    ASSUME IInv, NEW h \in Caller, Remove(h)
    PROVE  IInv'
  <1>1. At(h, "remove")
    BY DEF Remove
  <1>2. /\ call[h] \in Call /\ call[h] # NoCall /\ call[h].step = "remove"
        /\ call[h].name \in Name /\ call[h].id \in 1 .. gen[call[h].name]
        /\ Live(h) => ~Starting(call[h].name)
    BY <1>1, Removable
  <1>3. CASE Fail(h) /\ UNCHANGED daemonVars
    BY <1>2, <1>3, KeptAll, FailStep
  <1>4. (Live(h) /\ Drop(h)) => Onward(Caller) /\ ctr'[call[h].name] = NoCtr
    BY <1>2, DropKeeps DEF Drop
  <1>5. CASE Live(h) /\ Fail(h) /\ Drop(h)
    BY <1>2, <1>4, <1>5, FailStep
  <1>6. CASE Live(h) /\ Drop(h) /\ RemoveReturns(h)
    <2>1. Known'
      BY <1>4, <1>6, KnownKept DEF RemoveReturns
    <2>2. History'
      <3>1. PICK n \in Name, s \in Nat : n = call[h].name /\ s = call[h].id
        BY <1>2 DEF Call
      <3>2. s \in 1 .. gen[n]
        BY <1>2, <3>1
      <3> QED BY <1>4, <1>6, <3>1, <3>2, ReportStep DEF RemoveReturns, Live
    <2>3. Onward(Caller \ {h})
      BY <1>4, <1>6 DEF Onward
    <2>4. CASE call[h].update
      <3>1. PICK r \in Call : /\ r = [call[h] EXCEPT !.step = FirstStep, !.update = FALSE,
                                                     !.id = 0, !.ran = FALSE]
                              /\ r.step = FirstStep
        <4> DEFINE q == [call[h] EXCEPT !.step = FirstStep, !.update = FALSE,
                                        !.id = 0, !.ran = FALSE]
        <4>1. FirstStep \in Step
          BY FirstIsStep DEF IInv
        <4>2. q \in Call /\ q.step = FirstStep
          BY <1>2, <4>1 DEF Call
        <4> QED BY <4>2
      <3>2. r.step \notin {"start", "stop", "remove", "inspect"}
        BY <3>1, FirstIsStep DEF IInv
      <3>3. Sound(r)' /\ r # NoCall
        BY <3>2 DEF Sound, IInv, Constants
      <3>4. call' = [call EXCEPT ![h] = r] /\ UNCHANGED <<known, calls, faults>>
        BY <1>6, <2>4, <3>1 DEF RemoveReturns
      <3>5. Calls'
        BY <2>3, <3>2, <3>3, <3>4, CallsStep, Starter
      <3>6. Accounts'
        BY <1>2, <3>3, <3>4, AccountsGo
      <3> QED BY <1>4, <1>6, <2>1, <2>2, <3>5, <3>6 DEF IInv, Constants, Onward
    <2>5. CASE ~call[h].update
      <3>1. call' = [call EXCEPT ![h] = NoCall] /\ UNCHANGED <<known, calls, faults>>
        BY <1>6, <2>5 DEF RemoveReturns
      <3>2. Sound(NoCall)'
        BY DEF Sound
      <3>3. Calls'
        BY <2>3, <3>1, <3>2, CallsStep, Starter
      <3>4. Accounts'
        BY <1>2, <3>1, AccountsEnd
      <3> QED BY <1>4, <1>6, <2>1, <2>2, <3>3, <3>4 DEF IInv, Constants, Onward
    <2> QED BY <2>4, <2>5
  <1> QED BY <1>3, <1>5, <1>6 DEF Remove, Broken

LEMMA InspectStep ==
    ASSUME IInv, NEW h \in Caller, Inspect(h)
    PROVE  IInv'
  <1>1. call[h] # NoCall /\ Onward(Caller)
    BY KeptAll DEF Inspect, At
  <1>2. CASE Broken(h)
    BY <1>1, <1>2, FailStep DEF Broken
  <1>3. CASE call' = [call EXCEPT ![h] = NoCall] /\ UNCHANGED <<known, removed, calls, faults>>
    <2>1. Onward(Caller \ {h})
      BY <1>1 DEF Onward
    <2>2. Sound(NoCall)'
      BY DEF Sound
    <2>3. Calls'
      BY <1>3, <2>1, <2>2, CallsStep, Starter
    <2>4. Accounts'
      BY <1>1, <1>3, AccountsEnd
    <2>5. Known' /\ History'
      BY <1>1, <1>3, KnownKept, HistoryKept
    <2> QED BY <1>1, <2>3, <2>4, <2>5 DEF IInv, Constants, Onward
  <1> QED BY <1>2, <1>3 DEF Inspect

-----------------------------------------------------------------------------
LEMMA Initially == Constants /\ Init => IInv
  <1> SUFFICES ASSUME Constants, Init PROVE IInv
    OBVIOUS
  <1>1. Daemon /\ Known
    BY DEF Init, Daemon, Known
  <1>2. Calls
    BY DEF Init, Calls, Sound, At
  <1>3. Accounts
    <2>1. Active = {}
      BY DEF Init, Active
    <2>2. IsFiniteSet(Active) /\ Cardinality(Active) = 0
      BY <2>1, FS_EmptySet
    <2> QED BY <2>2 DEF Init, Accounts, Constants
  <1>4. History
    BY DEF Init, History, OneRemoval
  <1> QED BY <1>1, <1>2, <1>3, <1>4 DEF IInv

LEMMA Inductive == IInv /\ [Next]_vars => IInv'
  <1> SUFFICES ASSUME IInv, [Next]_vars PROVE IInv'
    OBVIOUS
  <1>1. ASSUME NEW h \in Caller, BeginCall(h) PROVE IInv'
    BY <1>1, BeginCallStep
  <1>2. ASSUME NEW h \in Caller, Pull(h) PROVE IInv'
    BY <1>2, PullStep
  <1>3. ASSUME NEW h \in Caller, Create(h) PROVE IInv'
    BY <1>3, CreateStep
  <1>4. ASSUME NEW h \in Caller, Start(h) PROVE IInv'
    BY <1>4, StartStep
  <1>5. ASSUME NEW h \in Caller, Stop(h) PROVE IInv'
    BY <1>5, StopStep
  <1>6. ASSUME NEW h \in Caller, Remove(h) PROVE IInv'
    BY <1>6, RemoveStep
  <1>7. ASSUME NEW h \in Caller, Inspect(h) PROVE IInv'
    BY <1>7, InspectStep
  <1>8. ASSUME NEW h \in Caller, Expire(h) PROVE IInv'
    BY <1>8, KeptAll, FailStep DEF Expire
  <1>9. ASSUME PullEnds \/ Hang \/ Recover PROVE IInv'
    <2>1. Onward(Caller)
      BY <1>9, Kept DEF PullEnds, Hang, Recover, IInv, Daemon
    <2> QED BY <1>9, <2>1, DaemonStep DEF PullEnds, Hang, Recover
  <1>10. ASSUME NEW n \in Name, Lost(n) PROVE IInv'
    <2>1. Onward(Caller)
      BY <1>10, DropKeeps DEF Lost
    <2> QED BY <1>10, <2>1, DaemonStep DEF Lost
  <1>11. CASE UNCHANGED vars
    <2>1. Onward(Caller)
      BY <1>11, KeptAll DEF vars
    <2> QED BY <1>11, <2>1, DaemonStep DEF vars
  <1> QED BY <1>1, <1>2, <1>3, <1>4, <1>5, <1>6, <1>7, <1>8, <1>9, <1>10, <1>11
          DEF Next, Answer

(* This takes no fairness.                                                 *)
LEMMA AlwaysIInv == ASSUME Constants PROVE Init /\ [][Next]_vars => []IInv
  BY Initially, Inductive, PTL

(* The variables of DockerClient keep their types, and every id that is    *)
(* known has been given out.                                               *)
THEOREM TypeCorrect == ASSUME Constants PROVE Spec => []TypeOK
  <1>1. IInv => TypeOK
    BY DEF IInv, Daemon, Known, Calls, Accounts, TypeOK
  <1> QED BY <1>1, AlwaysIInv, PTL DEF Spec

(* Of any number of goroutines that meet at a container at most one is     *)
(* told that it removed it, whatever fails: the lock on which the requests *)
(* of pkg/controller rely in mode docker.                                  *)
THEOREM OneRemovalHolds == ASSUME Constants PROVE Spec => []OneRemoval
  <1>1. IInv => OneRemoval
    BY DEF IInv, History
  <1> QED BY <1>1, AlwaysIInv, PTL DEF Spec

-----------------------------------------------------------------------------
(* The operations of module Platform that the calls of DockerClient carry  *)
(* out, on the containers that others can see.                             *)

Seen(c, stopping) ==
    [service |-> c.service, cfg |-> c.cfg, running |-> c.running \/ stopping]

LEMMA StoppingType ==
    ASSUME NEW n
    PROVE  Stopping(n) \in BOOLEAN /\ Stopping(n)' \in BOOLEAN
  BY DEF Stopping

LEMMA SeenIs ==
    ASSUME Constants, NEW c \in Container, NEW b \in BOOLEAN
    PROVE  /\ [c EXCEPT !.running = @ \/ b] = Seen(c, b)
           /\ Seen(c, b) \in Container /\ Seen(c, b) # NoCtr
           /\ Seen(c, b).service = c.service /\ Seen(c, b).cfg = c.cfg
           /\ Seen(c, b).running = (c.running \/ b)
  <1>1. [c EXCEPT !.running = @ \/ b] = Seen(c, b)
    BY DEF Container, Seen
  <1>2. Seen(c, b) \in Container
    BY DEF Container, Seen
  <1> QED BY <1>1, <1>2 DEF Constants, Seen

(* What a container looks like that is not being started.                  *)
LEMMA Shown ==
    ASSUME IInv, NEW n \in Name, NEW c, ctr[n] = c, c # NoCtr, ~Starting(n)
    PROVE  /\ VisibleCtr[n] = Seen(c, Stopping(n)) /\ VisibleGen[n] = gen[n]
           /\ c \in Container /\ c.service \in 1 .. gen[n]
  <1>1. c \in Container /\ c.service \in 1 .. gen[n]
    BY DEF IInv, Daemon
  <1>2. PICK b \in BOOLEAN : b = Stopping(n)
    BY StoppingType
  <1>3. [c EXCEPT !.running = @ \/ b] = Seen(c, b)
    BY <1>1, SeenIs DEF IInv
  <1>4. VisibleCtr[n] = [c EXCEPT !.running = @ \/ b]
    BY <1>2 DEF VisibleCtr
  <1>5. VisibleGen[n] = gen[n]
    BY DEF VisibleGen
  <1> QED BY <1>1, <1>2, <1>3, <1>4, <1>5

(* The same after a step.                                                  *)
LEMMA ShownNext ==
    ASSUME IInv', NEW n \in Name, NEW c, ctr'[n] = c, c # NoCtr, ~Starting(n)'
    PROVE  /\ VisibleCtr'[n] = Seen(c, Stopping(n)') /\ VisibleGen'[n] = gen'[n]
           /\ c \in Container /\ c.service \in 1 .. gen'[n]
  <1>1. c \in Container /\ c.service \in 1 .. gen'[n]
    BY DEF IInv, Daemon
  <1>2. PICK b \in BOOLEAN : b = Stopping(n)'
    BY StoppingType
  <1>3. [c EXCEPT !.running = @ \/ b] = Seen(c, b)
    BY <1>1, SeenIs DEF IInv, Constants
  <1>4. VisibleCtr'[n] = [c EXCEPT !.running = @ \/ b]
    BY <1>2 DEF VisibleCtr
  <1>5. VisibleGen'[n] = gen'[n]
    BY DEF VisibleGen
  <1> QED BY <1>1, <1>2, <1>3, <1>4, <1>5

LEMMA Hidden ==
    ASSUME NEW n \in Name
    PROVE  /\ (ctr[n] = NoCtr \/ Starting(n)) => VisibleCtr[n] = NoCtr
           /\ (ctr[n] = NoCtr \/ Starting(n))' => VisibleCtr'[n] = NoCtr
           /\ VisibleGen[n] = IF Starting(n) THEN gen[n] - 1 ELSE gen[n]
           /\ VisibleGen'[n] = IF Starting(n)' THEN gen'[n] - 1 ELSE gen'[n]
  BY DEF VisibleCtr, VisibleGen

(* A call that neither starts nor removes the container of that name       *)
(* before or after the step changes nothing that others see of it.         *)
LEMMA Elsewhere ==
    ASSUME IInv, NEW h \in Caller, NEW r \in Call \cup {NoCall},
           call' = [call EXCEPT ![h] = r], NEW n \in Name,
           ctr'[n] = ctr[n], gen'[n] = gen[n],
           (At(h, "start") \/ At(h, "remove")) => call[h].name # n,
           (r # NoCall /\ r.step \in {"start", "remove"}) => r.name # n
    PROVE  /\ VisibleCtr'[n] = VisibleCtr[n] /\ VisibleGen'[n] = VisibleGen[n]
           /\ Starting(n)' = Starting(n)
  <1>1. call'[h] = r /\ \A k \in Caller \ {h} : call'[k] = call[k]
    BY DEF IInv, Calls
  <1>2. Starting(n)' = Starting(n)
    BY <1>1 DEF Starting, At
  <1>3. Stopping(n)' = Stopping(n)
    BY <1>1 DEF Stopping, At
  <1> QED BY <1>2, <1>3 DEF VisibleCtr, VisibleGen

(* A step whose call was and is about something else than a start or a     *)
(* removal, with the containers as they are.                               *)
LEMMA Quiet ==
    ASSUME IInv, NEW h \in Caller, NEW r \in Call \cup {NoCall},
           call' = [call EXCEPT ![h] = r], UNCHANGED <<ctr, gen>>,
           ~At(h, "start"), ~At(h, "remove"),
           r # NoCall => r.step \notin {"start", "remove"}
    PROVE  VisibleCtr' = VisibleCtr /\ VisibleGen' = VisibleGen
  <1>1. \A n \in Name : VisibleCtr'[n] = VisibleCtr[n] /\ VisibleGen'[n] = VisibleGen[n]
    BY Elsewhere
  <1> QED BY <1>1 DEF VisibleCtr, VisibleGen

-----------------------------------------------------------------------------
(* Steps of the promise.                                                   *)

Promise == Promised!Next \/ UNCHANGED <<VisibleCtr, VisibleGen, faults>>

(* There are never more faults than calls, but for MaxFaults.              *)
LEMMA FailFault ==
    ASSUME IInv, NEW h \in Caller, call[h] # NoCall, Fail(h)
    PROVE  Promised!Fault
  <1>1. IsFiniteSet(Active) /\ h \in Active
    BY DEF IInv, Accounts, Active
  <1>2. Cardinality(Active) \in Nat /\ Cardinality(Active) # 0
    BY <1>1, FS_CardinalityType, FS_EmptySet
  <1>3. faults < MaxFaults + MaxCalls
    BY <1>2 DEF IInv, Accounts, Constants
  <1> QED BY <1>3 DEF Fail, Promised!Fault

LEMMA CreateMaps ==
    ASSUME NEW n \in Name, NEW c \in Cfg, Promised!Create(n, c)
    PROVE  Promised!Next
  BY DEF Promised!Next, Promised!Others

LEMMA RemoveMaps ==
    ASSUME NEW n \in Name, NEW s \in 1 .. VisibleGen[n], Promised!Remove(n, s)
    PROVE  Promised!Next
  BY DEF Promised!Next, Promised!Others

(* A call that fails without effect is a failed CreateContainer.           *)
LEMMA FaultMaps ==
    ASSUME NEW n \in Name, NEW c \in Cfg, Promised!Fault,
           VisibleCtr' = VisibleCtr, VisibleGen' = VisibleGen
    PROVE  Promised!Next
  <1>1. Promised!CreateContainerFails(n, c)
    BY DEF Promised!CreateContainerFails, VisibleCtr, VisibleGen
  <1> QED BY <1>1, CreateMaps DEF Promised!Create

LEMMA QuietFail ==
    ASSUME IInv, NEW h \in Caller, call[h] # NoCall, ~At(h, "start"), ~At(h, "remove"),
           Fail(h), UNCHANGED <<ctr, gen>>
    PROVE  Promised!Next
  <1>1. VisibleCtr' = VisibleCtr /\ VisibleGen' = VisibleGen
    BY Quiet DEF Fail
  <1>2. call[h].name \in Name /\ call[h].cfg \in Cfg
    BY DEF IInv, Calls, Call
  <1> QED BY <1>1, <1>2, FailFault, FaultMaps

(* A container becomes visible.                                            *)
LEMMA AppearsMaps ==
    ASSUME IInv, IInv', NEW n \in Name, NEW c, ctr'[n] = c, c # NoCtr, ~Starting(n)',
           VisibleCtr[n] = NoCtr, c.service = VisibleGen[n] + 1, gen'[n] = c.service,
           \A m \in Name \ {n} : VisibleCtr'[m] = VisibleCtr[m] /\ VisibleGen'[m] = VisibleGen[m],
           Promised!Fault \/ (UNCHANGED faults /\ c.running)
    PROVE  Promised!Next
  <1>1. PICK b \in BOOLEAN : b = Stopping(n)'
    BY StoppingType
  <1>2. c \in Container /\ VisibleCtr'[n] = Seen(c, b) /\ VisibleGen'[n] = gen'[n]
    BY <1>1, ShownNext
  <1>3. c.cfg \in Cfg /\ c.running \in BOOLEAN
    BY <1>2 DEF Container
  <1>4. PICK run \in BOOLEAN : run = (c.running \/ b)
    BY <1>3
  <1>5. Seen(c, b) = [service |-> VisibleGen[n] + 1, cfg |-> c.cfg, running |-> run]
    BY <1>4 DEF Seen
  <1>6. VisibleCtr' = [VisibleCtr EXCEPT ![n] = Seen(c, b)]
    BY <1>2 DEF VisibleCtr
  <1>7. VisibleGen' = [VisibleGen EXCEPT ![n] = VisibleGen[n] + 1]
    BY <1>2 DEF VisibleGen
  <1>8. Promised!Deployed(n, c.cfg, run)
    BY <1>5, <1>6, <1>7 DEF Promised!Deployed, Promised!NewId, VisibleCtr, VisibleGen
  <1>9. CASE UNCHANGED faults /\ c.running
    <2>1. Promised!CreateContainer(n, c.cfg)
      BY <1>4, <1>8, <1>9 DEF Promised!CreateContainer, VisibleCtr
    <2> QED BY <1>3, <1>9, <2>1, CreateMaps DEF Promised!Create, Promised!NoFault
  <1>10. CASE Promised!Fault
    <2>1. Promised!CreateContainerFails(n, c.cfg)
      BY <1>8, <1>10 DEF Promised!CreateContainerFails, VisibleCtr, VisibleGen
    <2> QED BY <1>3, <2>1, CreateMaps DEF Promised!Create
  <1> QED BY <1>9, <1>10

(* A container disappears.                                                 *)
LEMMA GoneMaps ==
    ASSUME NEW n \in Name, VisibleCtr'[n] = NoCtr,
           \A m \in Name \ {n} : VisibleCtr'[m] = VisibleCtr[m],
           VisibleGen' = VisibleGen
    PROVE  Promised!Dropped(n)
  <1>1. VisibleCtr' = [VisibleCtr EXCEPT ![n] = NoCtr]
    BY DEF VisibleCtr
  <1> QED BY <1>1 DEF Promised!Dropped, VisibleCtr, VisibleGen

(* A container is stopped and stays, while its removal fails.              *)
LEMMA HaltMaps ==
    ASSUME IInv, NEW n \in Name, NEW c \in Container, NEW x \in BOOLEAN, NEW y \in BOOLEAN,
           VisibleCtr[n] = [c EXCEPT !.running = x],
           VisibleCtr'[n] = [c EXCEPT !.running = y], y => x,
           c.service \in 1 .. VisibleGen[n],
           \A m \in Name \ {n} : VisibleCtr'[m] = VisibleCtr[m],
           VisibleGen' = VisibleGen, Promised!Fault
    PROVE  Promised!Next
  <1>1. CASE x = y
    <2>1. VisibleCtr' = VisibleCtr
      BY <1>1 DEF VisibleCtr
    <2>2. c.cfg \in Cfg
      BY DEF Container
    <2> QED BY <2>1, <2>2, FaultMaps
  <1>2. CASE x /\ ~y
    <2>1. /\ VisibleCtr[n] \in Container /\ VisibleCtr[n].service = c.service
          /\ [VisibleCtr[n] EXCEPT !.running = FALSE] = [c EXCEPT !.running = y]
      BY <1>2 DEF Container
    <2>2. VisibleCtr[n] # NoCtr
      BY <2>1 DEF IInv, Constants
    <2>3. VisibleCtr' = [VisibleCtr EXCEPT ![n].running = FALSE]
      BY <2>1 DEF VisibleCtr
    <2>4. Promised!Live(n, c.service)
      BY <2>1, <2>2 DEF Promised!Live, VisibleCtr
    <2>5. Promised!RemoveContainerFails(n, c.service)
      BY <2>3, <2>4 DEF Promised!RemoveContainerFails, VisibleCtr, VisibleGen
    <2> QED BY <2>5, RemoveMaps DEF Promised!Remove
  <1> QED BY <1>1, <1>2

-----------------------------------------------------------------------------
(* What each action is for those who cannot see the client.                *)

LEMMA BeginMaps ==
    ASSUME IInv, NEW h \in Caller, BeginCall(h)
    PROVE  Promise
  <1>1. PICK step \in Step \ {"start", "remove"}, n \in Name, id \in Nat, c \in Cfg,
             update \in BOOLEAN : Begin(h, step, n, id, c, update)
    <2>1. CASE \E n \in Name, c \in Cfg : Begin(h, FirstStep, n, 0, c, FALSE)
      BY <2>1, FirstIsStep DEF IInv
    <2>2. CASE \E p \in known, c \in Cfg :
                  \/ Begin(h, "stop", p[1], p[2], c, FALSE)
                  \/ Begin(h, "stop", p[1], p[2], c, TRUE)
                  \/ Begin(h, "inspect", p[1], p[2], c, FALSE)
      <3>1. \A p \in known : p[1] \in Name /\ p[2] \in Nat
        BY DEF IInv, Known
      <3> QED BY <2>2, <3>1 DEF Step
    <2> QED BY <2>1, <2>2 DEF BeginCall
  <1> DEFINE q == [step |-> step, name |-> n, id |-> id, cfg |-> c, update |-> update,
                   ran |-> FALSE]
  <1>2. q \in Call /\ q.step = step /\ call' = [call EXCEPT ![h] = q]
    BY <1>1 DEF Call, Begin
  <1> HIDE DEF q
  <1>3. PICK r \in Call : r = q
    BY <1>2
  <1>4. ~At(h, "start") /\ ~At(h, "remove")
    BY <1>1 DEF Begin, At
  <1>5. VisibleCtr' = VisibleCtr /\ VisibleGen' = VisibleGen
    BY <1>1, <1>2, <1>3, <1>4, Quiet DEF Begin, daemonVars
  <1> QED BY <1>1, <1>5 DEF Begin, Promise

LEMMA PullMaps ==
    ASSUME IInv, NEW h \in Caller, Pull(h)
    PROVE  Promise
  <1>1. call[h] \in Call /\ call[h] # NoCall /\ call[h].step = "pull"
    BY AtCall DEF Pull, IInv, Step
  <1>2. ~At(h, "start") /\ ~At(h, "remove")
    BY <1>1 DEF At
  <1>3. CASE Fail(h) /\ UNCHANGED daemonVars
    BY <1>1, <1>2, <1>3, QuietFail DEF Promise, daemonVars
  <1>4. CASE Goto(h, "create") /\ UNCHANGED <<ctr, gen, faults>>
    <2>1. PICK r \in Call : r = [call[h] EXCEPT !.step = "create"]
      BY <1>1 DEF Call, Step
    <2>2. r.step = "create"
      BY <1>1, <2>1 DEF Call
    <2>3. call' = [call EXCEPT ![h] = r]
      BY <1>4, <2>1 DEF Goto
    <2>4. VisibleCtr' = VisibleCtr /\ VisibleGen' = VisibleGen
      BY <1>2, <1>4, <2>2, <2>3, Quiet
    <2> QED BY <1>4, <2>4 DEF Promise
  <1> QED BY <1>3, <1>4 DEF Pull, Broken

(* Until it is started, a container is not there; if its starter fails, a  *)
(* failed call has left it behind.                                         *)
LEMMA CreateStepMaps ==
    ASSUME IInv, IInv', NEW h \in Caller, Create(h)
    PROVE  Promise
  <1>1. /\ At(h, "create") /\ call[h] \in Call /\ call[h] # NoCall
        /\ call[h].step = "create"
    BY AtCall DEF Create, IInv, Step
  <1>2. ~At(h, "start") /\ ~At(h, "remove")
    BY <1>1 DEF At
  <1>3. PICK n \in Name, cf \in Cfg, g \in Nat : n = call[h].name /\ cf = call[h].cfg /\ g = gen[n]
    BY <1>1 DEF Call, IInv, Daemon
  <1>4. CASE Fail(h) /\ UNCHANGED daemonVars
    BY <1>1, <1>2, <1>4, QuietFail DEF Promise, daemonVars
  <1>5. ASSUME ctr[n] = NoCtr, NewContainer(h)
        PROVE  /\ ctr'[n] = [service |-> g + 1, cfg |-> cf, running |-> FALSE]
               /\ gen'[n] = g + 1
               /\ \A m \in Name \ {n} : ctr'[m] = ctr[m] /\ gen'[m] = gen[m]
               /\ VisibleCtr[n] = NoCtr /\ VisibleGen[n] = g /\ ~Starting(n)
    <2>1. ~Starting(n)
      BY <1>5, Starter DEF Starting
    <2>2. ctr \in [Name -> Container \cup {NoCtr}] /\ gen \in [Name -> Nat]
      BY DEF IInv, Daemon
    <2>3. /\ ctr' = [ctr EXCEPT ![n] = [service |-> g + 1, cfg |-> cf, running |-> FALSE]]
          /\ gen' = [gen EXCEPT ![n] = g + 1]
      BY <1>3, <1>5 DEF NewContainer
    <2> QED BY <1>3, <1>5, <2>1, <2>2, <2>3, Hidden
  <1>6. PICK c \in Container : /\ c = [service |-> g + 1, cfg |-> cf, running |-> FALSE]
                               /\ c.service = g + 1 /\ c # NoCtr
    <2> DEFINE q == [service |-> g + 1, cfg |-> cf, running |-> FALSE]
    <2>1. q \in Container /\ q.service = g + 1
      BY DEF Container
    <2> QED BY <2>1 DEF IInv, Constants
  <1>7. CASE ctr[n] = NoCtr /\ NewContainer(h) /\ Fail(h)
    <2>1. \A m \in Name \ {n} : VisibleCtr'[m] = VisibleCtr[m] /\ VisibleGen'[m] = VisibleGen[m]
      BY <1>2, <1>5, <1>7, Elsewhere DEF Fail
    <2>2. ~Starting(n)'
      <3>1. \A k \in Caller : At(k, "start")' => At(k, "start") /\ call'[k] = call[k]
        BY <1>7 DEF Fail, At, IInv, Calls
      <3> QED BY <1>5, <1>7, <3>1 DEF Starting
    <2>3. Promised!Fault
      BY <1>1, <1>7, FailFault
    <2> QED BY <1>5, <1>6, <1>7, <2>1, <2>2, <2>3, AppearsMaps DEF Promise
  <1>8. CASE /\ ctr[n] = NoCtr /\ NewContainer(h)
             /\ call' = [call EXCEPT ![h].step = "start", ![h].id = g + 1]
             /\ UNCHANGED faults
    <2>1. PICK r \in Call : /\ r = [call[h] EXCEPT !.step = "start", !.id = g + 1]
                            /\ r.step = "start" /\ r.name = n
      <3> DEFINE q == [call[h] EXCEPT !.step = "start", !.id = g + 1]
      <3>1. g + 1 \in Nat /\ "start" \in Step
        BY DEF Step
      <3>2. q \in Call /\ q.step = "start" /\ q.name = n
        BY <1>1, <1>3, <3>1 DEF Call
      <3> QED BY <3>2
    <2>2. call' = [call EXCEPT ![h] = r] /\ r # NoCall
      BY <1>8, <2>1 DEF IInv, Constants
    <2>3. \A m \in Name \ {n} : VisibleCtr'[m] = VisibleCtr[m] /\ VisibleGen'[m] = VisibleGen[m]
      <3>1. \A m \in Name \ {n} : ctr'[m] = ctr[m] /\ gen'[m] = gen[m]
        BY <1>5, <1>8
      <3>2. r.name = n /\ call' = [call EXCEPT ![h] = r]
        BY <2>1, <2>2
      <3>3. ASSUME NEW m \in Name \ {n}
            PROVE  VisibleCtr'[m] = VisibleCtr[m] /\ VisibleGen'[m] = VisibleGen[m]
        <4>1. ctr'[m] = ctr[m] /\ gen'[m] = gen[m] /\ r.name # m
          BY <3>1, <3>2
        <4> QED BY <1>2, <3>2, <4>1, Elsewhere
      <3> QED BY <3>3
    <2>4. Starting(n)'
      BY <2>1, <2>2 DEF Starting, At, IInv, Calls
    <2>5. VisibleCtr'[n] = VisibleCtr[n] /\ VisibleGen'[n] = VisibleGen[n]
      BY <1>5, <1>8, <2>4, Hidden
    <2>6. VisibleCtr' = VisibleCtr /\ VisibleGen' = VisibleGen
      BY <2>3, <2>5 DEF VisibleCtr, VisibleGen
    <2> QED BY <1>8, <2>6 DEF Promise
  <1> QED BY <1>3, <1>4, <1>7, <1>8 DEF Create, Broken

(* The end of a call at ContainerStart shows the container.                *)
LEMMA ShowMaps ==
    ASSUME IInv, IInv', NEW h \in Caller, At(h, "start"),
           call' = [call EXCEPT ![h] = NoCall], UNCHANGED gen,
           NEW c \in Container, c.service = call[h].id, ctr'[call[h].name] = c,
           \A m \in Name \ {call[h].name} : ctr'[m] = ctr[m],
           Promised!Fault \/ (UNCHANGED faults /\ c.running)
    PROVE  Promise
  <1>1. PICK n \in Name : n = call[h].name
    BY Starter
  <1>2. /\ ctr[n] # NoCtr /\ gen[n] = c.service /\ gen'[n] = c.service
        /\ c.service \in Nat
    BY <1>1, Starter DEF Container
  <1>3. VisibleCtr[n] = NoCtr /\ c.service = VisibleGen[n] + 1
    <2>1. Starting(n)
      BY <1>1 DEF Starting
    <2> QED BY <1>2, <2>1, Hidden
  <1>4. ~Starting(n)'
    <2>1. \A k \in Caller : At(k, "start")' => k # h /\ At(k, "start") /\ call'[k] = call[k]
      BY DEF At, IInv, Calls
    <2>2. \A k \in Caller : (At(k, "start") /\ call[k].name = n) => k = h
      BY <1>1 DEF IInv, Calls
    <2> QED BY <2>1, <2>2 DEF Starting
  <1>5. \A m \in Name \ {n} : VisibleCtr'[m] = VisibleCtr[m] /\ VisibleGen'[m] = VisibleGen[m]
    BY <1>1, Elsewhere
  <1>6. c # NoCtr
    BY DEF IInv, Constants
  <1> QED BY <1>1, <1>2, <1>3, <1>4, <1>5, <1>6, AppearsMaps DEF Promise

LEMMA StartMaps ==
    ASSUME IInv, IInv', NEW h \in Caller, Start(h)
    PROVE  Promise
  <1>1. At(h, "start") /\ call[h] # NoCall
    BY DEF Start, At
  <1>2. PICK n \in Name : n = call[h].name
    BY <1>1, Starter
  <1>3. PICK c \in Container : c = ctr[n] /\ c.service = call[h].id
    BY <1>1, <1>2, Starter DEF IInv, Daemon
  <1>4. CASE SetRunning(h, TRUE)
    <2>1. PICK d \in Container : /\ d = [c EXCEPT !.running = TRUE]
                                 /\ d.service = c.service /\ d.running
      <3> DEFINE q == [c EXCEPT !.running = TRUE]
      <3>1. q \in Container /\ q.service = c.service /\ q.running
        BY DEF Container
      <3> QED BY <3>1
    <2>2. ctr' = [ctr EXCEPT ![n] = d] /\ UNCHANGED gen
      BY <1>2, <1>3, <1>4, <2>1 DEF SetRunning
    <2>3. ctr'[n] = d /\ \A m \in Name \ {n} : ctr'[m] = ctr[m]
      BY <2>2 DEF IInv, Daemon
    <2>4. call' = [call EXCEPT ![h] = NoCall] /\ (UNCHANGED faults \/ Promised!Fault)
      BY <1>1, FailFault DEF Start, Broken, Fail
    <2>5. d.service = call[h].id /\ d.running /\ ctr'[call[h].name] = d
      BY <1>2, <1>3, <2>1, <2>3
    <2>6. UNCHANGED gen
      BY <2>2
    <2> QED BY <1>1, <1>2, <2>3, <2>4, <2>5, <2>6, ShowMaps
  <1>5. CASE Fail(h) /\ UNCHANGED daemonVars
    <2>1. Promised!Fault
      BY <1>1, <1>5, FailFault
    <2> QED BY <1>1, <1>2, <1>3, <1>5, <2>1, ShowMaps DEF Fail, daemonVars
  <1> QED BY <1>4, <1>5 DEF Start, Broken

(* A container that a removal has stopped is seen as it was before.        *)
LEMMA StopMaps ==
    ASSUME IInv, IInv', NEW h \in Caller, Stop(h)
    PROVE  Promise
  <1>1. /\ At(h, "stop") /\ call[h] \in Call /\ call[h] # NoCall
        /\ call[h].step = "stop"
    BY AtCall DEF Stop, IInv, Step
  <1>2. ~At(h, "start") /\ ~At(h, "remove")
    BY <1>1 DEF At
  <1>3. CASE Fail(h) /\ UNCHANGED daemonVars
    BY <1>1, <1>2, <1>3, QuietFail DEF Promise, daemonVars
  <1>4. PICK n \in Name, s \in Nat : n = call[h].name /\ s = call[h].id
    BY <1>1 DEF Call
  <1>5. Live(h) => ~Starting(n)
    <2>1. <<call[h].name, call[h].id>> \in known
      BY <1>1 DEF IInv, Calls, Sound
    <2> QED BY <1>4, <2>1, Starter DEF Starting, Live, Has
  <1>6. ASSUME Live(h), SetRunning(h, FALSE),
               NEW r \in Call \cup {NoCall}, call' = [call EXCEPT ![h] = r],
               r # NoCall => r.step = "remove" /\ r.name = n /\ r.id = s
        PROVE  \E c \in Container, b \in BOOLEAN, d \in BOOLEAN :
                  /\ c = ctr[n] /\ b = Stopping(n)
                  /\ d = ((r # NoCall /\ r.ran) \/ b)
                  /\ VisibleCtr[n] = [c EXCEPT !.running = c.running \/ b]
                  /\ VisibleCtr'[n] = [c EXCEPT !.running = d]
                  /\ c.running \in BOOLEAN
                  /\ c.service \in 1 .. VisibleGen[n]
                  /\ \A m \in Name \ {n} : VisibleCtr'[m] = VisibleCtr[m]
                  /\ VisibleGen' = VisibleGen
    <2>1. PICK c \in Container : c = ctr[n] /\ c # NoCtr /\ c.service = s
      BY <1>4, <1>6 DEF IInv, Daemon, Live, Has
    <2>2. PICK b \in BOOLEAN : b = Stopping(n)
      BY StoppingType
    <2>3. /\ VisibleCtr[n] = Seen(c, b) /\ VisibleGen[n] = gen[n]
          /\ c.service \in 1 .. gen[n]
      BY <1>5, <1>6, <2>1, <2>2, Shown
    <2>4. PICK e \in Container : /\ e = [c EXCEPT !.running = FALSE] /\ e.service = s
                                 /\ e.cfg = c.cfg /\ e.running = FALSE
      <3> DEFINE q == [c EXCEPT !.running = FALSE]
      <3>1. /\ q \in Container /\ q.service = s /\ q.cfg = c.cfg /\ q.running = FALSE
        BY <2>1 DEF Container
      <3> QED BY <3>1
    <2>5. ctr' = [ctr EXCEPT ![n] = e] /\ UNCHANGED gen
      BY <1>4, <1>6, <2>1, <2>4 DEF SetRunning
    <2>6. ctr'[n] = e /\ e # NoCtr /\ \A m \in Name \ {n} : ctr'[m] = ctr[m]
      BY <2>5 DEF IInv, Daemon, Constants
    <2>7. call'[h] = r /\ \A k \in Caller \ {h} : call'[k] = call[k]
      BY <1>6 DEF IInv, Calls
    <2>8. ~Starting(n)'
      BY <1>5, <1>6, <2>7 DEF Starting, At
    <2>9. PICK d \in BOOLEAN : d = Stopping(n)'
      BY StoppingType
    <2>10. VisibleCtr'[n] = Seen(e, d) /\ VisibleGen'[n] = gen'[n]
      BY <2>6, <2>8, <2>9, ShownNext
    <2>11. d = ((r # NoCall /\ r.ran) \/ b)
      <3>1. Stopping(n) = \E k \in Caller \ {h} :
                /\ call[k] # NoCall /\ call[k].step = "remove"
                /\ call[k].name = n /\ call[k].ran /\ call[k].id = s
        BY <1>2, <2>1 DEF Stopping, At
      <3>2. Stopping(n)' = \E k \in Caller :
                /\ call'[k] # NoCall /\ call'[k].step = "remove"
                /\ call'[k].name = n /\ call'[k].ran /\ call'[k].id = s
        BY <2>4, <2>6 DEF Stopping, At
      <3>3. Stopping(n)' = ((r # NoCall /\ r.ran) \/ Stopping(n))
        BY <1>6, <2>7, <3>1, <3>2
      <3> QED BY <2>2, <2>9, <3>3
    <2>12. Seen(e, d) = [c EXCEPT !.running = d]
      BY <2>4 DEF Seen, Container
    <2>13. Seen(c, b) = [c EXCEPT !.running = c.running \/ b]
      BY DEF Seen, Container
    <2>14. \A m \in Name \ {n} : VisibleCtr'[m] = VisibleCtr[m] /\ VisibleGen'[m] = VisibleGen[m]
      <3>1. \A m \in Name : (r # NoCall /\ r.step \in {"start", "remove"} /\ r.name = m) => m = n
        BY <1>6
      <3> QED BY <1>2, <1>6, <2>5, <2>6, <3>1, Elsewhere
    <2>15. VisibleGen' = VisibleGen
      BY <2>3, <2>5, <2>10, <2>14 DEF VisibleGen
    <2>16. c.running \in BOOLEAN
      BY DEF Container
    <2> QED BY <2>1, <2>2, <2>3, <2>10, <2>11, <2>12, <2>13, <2>14, <2>15, <2>16
  <1>7. CASE Live(h) /\ Fail(h) /\ SetRunning(h, FALSE)
    <2>1. PICK c \in Container, b \in BOOLEAN :
                  /\ VisibleCtr[n] = [c EXCEPT !.running = c.running \/ b]
                  /\ VisibleCtr'[n] = [c EXCEPT !.running = b]
                  /\ c.running \in BOOLEAN
                  /\ c.service \in 1 .. VisibleGen[n]
                  /\ \A m \in Name \ {n} : VisibleCtr'[m] = VisibleCtr[m]
                  /\ VisibleGen' = VisibleGen
      BY <1>6, <1>7 DEF Fail
    <2>2. PICK x \in BOOLEAN : x = (c.running \/ b)
      BY <2>1
    <2>3. Promised!Fault
      BY <1>1, <1>7, FailFault
    <2> QED BY <2>1, <2>2, <2>3, HaltMaps DEF Promise
  <1>8. CASE /\ Live(h) /\ SetRunning(h, FALSE)
             /\ call' = [call EXCEPT ![h].step = "remove", ![h].ran = ctr[call[h].name].running]
             /\ UNCHANGED faults
    <2>1. PICK a \in BOOLEAN : a = ctr[n].running
      BY <1>4, <1>8 DEF Live, Has, IInv, Daemon, Container
    <2>2. PICK r \in Call : /\ r = [call[h] EXCEPT !.step = "remove", !.ran = a]
                            /\ r.step = "remove" /\ r.name = n /\ r.id = s /\ r.ran = a
                            /\ r # NoCall
      <3> DEFINE q == [call[h] EXCEPT !.step = "remove", !.ran = a]
      <3>1. "remove" \in Step
        BY DEF Step
      <3>2. q \in Call /\ q.step = "remove" /\ q.name = n /\ q.id = s /\ q.ran = a
        BY <1>1, <1>4, <3>1 DEF Call
      <3> QED BY <3>2 DEF IInv, Constants
    <2>3. call' = [call EXCEPT ![h] = r]
      BY <1>4, <1>8, <2>1, <2>2
    <2>4. PICK c \in Container, b \in BOOLEAN, d \in BOOLEAN :
                  /\ c = ctr[n] /\ d = ((r # NoCall /\ r.ran) \/ b)
                  /\ VisibleCtr[n] = [c EXCEPT !.running = c.running \/ b]
                  /\ VisibleCtr'[n] = [c EXCEPT !.running = d]
                  /\ \A m \in Name \ {n} : VisibleCtr'[m] = VisibleCtr[m]
                  /\ VisibleGen' = VisibleGen
      <3>1. Live(h) /\ SetRunning(h, FALSE)
        BY <1>8
      <3>2. r.step = "remove" /\ r.name = n /\ r.id = s
        BY <2>2
      <3> QED BY <1>6, <2>3, <3>1, <3>2
    <2>5. VisibleCtr'[n] = VisibleCtr[n]
      BY <2>1, <2>2, <2>4
    <2>6. VisibleCtr' = VisibleCtr
      BY <2>4, <2>5 DEF VisibleCtr
    <2> QED BY <1>8, <2>4, <2>6 DEF Promise
  <1> QED BY <1>3, <1>4, <1>7, <1>8 DEF Stop, Broken

LEMMA RemoveStepMaps ==
    ASSUME IInv, IInv', NEW h \in Caller, Remove(h)
    PROVE  Promise
  <1>1. At(h, "remove")
    BY DEF Remove
  <1>2. /\ call[h] \in Call /\ call[h] # NoCall /\ call[h].step = "remove"
        /\ call[h].name \in Name /\ call[h].id \in 1 .. gen[call[h].name]
        /\ Live(h) => ~Starting(call[h].name)
    BY <1>1, Removable
  <1>3. PICK n \in Name, s \in Nat : n = call[h].name /\ s = call[h].id
    BY <1>2 DEF Call
  <1>4. ~At(h, "start")
    BY <1>2 DEF At
  <1>5. PICK r \in Call \cup {NoCall} :
            /\ call' = [call EXCEPT ![h] = r]
            /\ r # NoCall => r.step \notin {"start", "remove"} /\ Live(h)
            /\ Fail(h) => r = NoCall
    <2>1. CASE Fail(h)
      BY <2>1 DEF Fail
    <2>2. CASE Live(h) /\ RemoveReturns(h) /\ ~Fail(h)
      <3>1. CASE call[h].update
        <4> DEFINE q == [call[h] EXCEPT !.step = FirstStep, !.update = FALSE,
                                        !.id = 0, !.ran = FALSE]
        <4>1. FirstStep \in Step \ {"start", "remove"}
          BY FirstIsStep DEF IInv
        <4>2. q \in Call /\ q.step = FirstStep
          BY <1>2, <4>1 DEF Call
        <4>3. call' = [call EXCEPT ![h] = q]
          BY <2>2, <3>1 DEF RemoveReturns
        <4> HIDE DEF q
        <4> QED BY <2>2, <4>1, <4>2, <4>3
      <3>2. CASE ~call[h].update
        BY <2>2, <3>2 DEF RemoveReturns
      <3> QED BY <3>1, <3>2
    <2> QED BY <2>1, <2>2 DEF Remove, Broken
  <1>6. call'[h] = r /\ \A k \in Caller \ {h} : call'[k] = call[k]
    BY <1>5 DEF IInv, Calls
  <1>7. UNCHANGED gen
    BY DEF Remove, Drop, daemonVars
  <1>8. \A m \in Name : Starting(m)' = Starting(m)
    BY <1>4, <1>5, <1>6 DEF Starting, At
  <1>9. VisibleGen' = VisibleGen
    BY <1>7, <1>8 DEF VisibleGen
  <1>10. ASSUME NEW m \in Name \ {n}, ctr'[m] = ctr[m]
         PROVE  VisibleCtr'[m] = VisibleCtr[m]
    BY <1>3, <1>4, <1>5, <1>7, <1>10, Elsewhere
  <1>11. ASSUME Live(h)
         PROVE  \E c \in Container, b \in BOOLEAN :
                   /\ c = ctr[n] /\ c # NoCtr /\ c.service = s /\ b = Stopping(n)
                   /\ ~Starting(n) /\ VisibleCtr[n] = Seen(c, b)
                   /\ c.service \in 1 .. VisibleGen[n]
    <2>1. PICK c \in Container : c = ctr[n] /\ c # NoCtr /\ c.service = s
      BY <1>2, <1>3, <1>11 DEF IInv, Daemon, Live, Has
    <2>2. PICK b \in BOOLEAN : b = Stopping(n)
      BY StoppingType
    <2>3. ~Starting(n)
      BY <1>2, <1>3, <1>11
    <2> QED BY <1>2, <1>3, <2>1, <2>2, <2>3, Shown
  <1>12. CASE Live(h) /\ Drop(h)
    <2>1. PICK c \in Container, b \in BOOLEAN :
              /\ c.service = s /\ VisibleCtr[n] = Seen(c, b)
              /\ c.service \in 1 .. VisibleGen[n]
      BY <1>11, <1>12
    <2>2. Promised!Live(n, s) /\ s \in 1 .. VisibleGen[n]
      <3>1. VisibleCtr[n] # NoCtr /\ VisibleCtr[n].service = s
        BY <2>1, SeenIs DEF IInv
      <3> QED BY <2>1, <3>1 DEF Promised!Live, VisibleCtr
    <2>3. Promised!Dropped(n)
      <3>1. ctr'[n] = NoCtr /\ \A m \in Name \ {n} : ctr'[m] = ctr[m]
        BY <1>3, <1>12 DEF Drop, IInv, Daemon
      <3>2. VisibleCtr'[n] = NoCtr /\ \A m \in Name \ {n} : VisibleCtr'[m] = VisibleCtr[m]
        BY <1>10, <3>1, Hidden
      <3> QED BY <1>9, <3>2, GoneMaps
    <2>4. UNCHANGED faults \/ Promised!Fault
      BY <1>2, FailFault DEF Remove, Broken, RemoveReturns
    <2>5. Promised!Remove(n, s)
      BY <2>2, <2>3, <2>4
         DEF Promised!Remove, Promised!RemoveContainer, Promised!RemoveContainerFails,
             Promised!NoFault
    <2> QED BY <2>2, <2>5, RemoveMaps DEF Promise
  <1>13. CASE Fail(h) /\ UNCHANGED daemonVars
    <2>1. Promised!Fault
      BY <1>2, <1>13, FailFault
    <2>2. ctr' = ctr
      BY <1>13 DEF daemonVars
    <2>3. \A m \in Name \ {n} : VisibleCtr'[m] = VisibleCtr[m]
      BY <1>10, <2>2
    <2>4. CASE Live(h)
      <3>1. PICK c \in Container, b \in BOOLEAN :
                /\ c = ctr[n] /\ c # NoCtr /\ b = Stopping(n)
                /\ ~Starting(n) /\ VisibleCtr[n] = Seen(c, b)
                /\ c.service \in 1 .. VisibleGen[n]
        BY <1>11, <2>4
      <3>2. PICK d \in BOOLEAN : d = Stopping(n)'
        BY StoppingType
      <3>3. VisibleCtr'[n] = Seen(c, d)
        <4>1. ctr'[n] = c /\ ~Starting(n)'
          BY <1>8, <2>2, <3>1
        <4> QED BY <3>1, <3>2, <4>1, ShownNext
      <3>4. d => b
        <4>1. Stopping(n)' => Stopping(n)
          BY <1>5, <1>6, <2>2 DEF Stopping, At
        <4> QED BY <3>1, <3>2, <4>1
      <3>5. PICK x \in BOOLEAN, y \in BOOLEAN : x = (c.running \/ b) /\ y = (c.running \/ d)
        BY DEF Container
      <3>6. VisibleCtr[n] = [c EXCEPT !.running = x] /\ VisibleCtr'[n] = [c EXCEPT !.running = y]
        BY <3>1, <3>3, <3>5 DEF Seen, Container
      <3>7. y => x
        BY <3>4, <3>5
      <3> QED BY <1>9, <2>1, <2>3, <3>1, <3>6, <3>7, HaltMaps DEF Promise
    <2>5. CASE ~Live(h)
      <3>1. Stopping(n)' = Stopping(n)
        BY <1>3, <1>5, <1>6, <2>2, <2>5 DEF Stopping, At, Live, Has
      <3>2. VisibleCtr'[n] = VisibleCtr[n]
        BY <1>8, <2>2, <3>1 DEF VisibleCtr
      <3>3. VisibleCtr' = VisibleCtr
        BY <2>3, <3>2 DEF VisibleCtr
      <3>4. call[h].cfg \in Cfg
        BY <1>2 DEF Call
      <3> QED BY <1>9, <2>1, <3>3, <3>4, FaultMaps DEF Promise
    <2> QED BY <2>4, <2>5
  <1> QED BY <1>12, <1>13 DEF Remove, Broken

LEMMA ExpireMaps ==
    ASSUME IInv, IInv', NEW h \in Caller, Expire(h)
    PROVE  Promise
  <1>1. call[h] # NoCall /\ ~At(h, "remove") /\ Fail(h) /\ UNCHANGED daemonVars
    BY DEF Expire, InContext, At
  <1>2. CASE At(h, "start")
    <2>1. PICK n \in Name : n = call[h].name
      BY <1>2, Starter
    <2>2. PICK c \in Container : c = ctr[n] /\ c.service = call[h].id
      BY <1>2, <2>1, Starter DEF IInv, Daemon
    <2>3. Promised!Fault
      BY <1>1, FailFault
    <2> QED BY <1>1, <1>2, <2>1, <2>2, <2>3, ShowMaps DEF Fail, daemonVars
  <1>3. CASE ~At(h, "start")
    BY <1>1, <1>3, QuietFail DEF Promise, daemonVars
  <1> QED BY <1>2, <1>3

LEMMA InspectMaps ==
    ASSUME IInv, NEW h \in Caller, Inspect(h)
    PROVE  Promise
  <1>1. /\ call[h] # NoCall /\ ~At(h, "start") /\ ~At(h, "remove")
        /\ UNCHANGED <<ctr, gen>>
    BY DEF Inspect, At, daemonVars
  <1>2. CASE Fail(h)
    BY <1>1, <1>2, QuietFail DEF Promise
  <1>3. CASE call' = [call EXCEPT ![h] = NoCall] /\ UNCHANGED faults
    BY <1>1, <1>3, Quiet DEF Promise
  <1> QED BY <1>2, <1>3 DEF Inspect, Broken

LEMMA LostMaps ==
    ASSUME IInv, NEW n \in Name, Lost(n)
    PROVE  Promise
  <1>1. PICK c \in Container : c = ctr[n] /\ c # NoCtr
    BY DEF Lost, IInv, Daemon
  <1>2. PICK b \in BOOLEAN : b = Stopping(n)
    BY StoppingType
  <1>3. VisibleCtr[n] # NoCtr
    <2>1. VisibleCtr[n] = Seen(c, b)
      BY <1>1, <1>2, Shown DEF Lost
    <2> QED BY <2>1, SeenIs DEF IInv
  <1>4. \A m \in Name : Starting(m)' = Starting(m)
    BY DEF Lost, Starting, At
  <1>5. VisibleGen' = VisibleGen
    BY <1>4 DEF Lost, VisibleGen
  <1>6. ctr'[n] = NoCtr /\ \A m \in Name \ {n} : ctr'[m] = ctr[m]
    BY DEF Lost, IInv, Daemon
  <1>7. \A m \in Name \ {n} : Stopping(m)' = Stopping(m)
    BY <1>6 DEF Lost, Stopping, At
  <1>8. VisibleCtr'[n] = NoCtr /\ \A m \in Name \ {n} : VisibleCtr'[m] = VisibleCtr[m]
    <2>1. VisibleCtr'[n] = NoCtr
      BY <1>6, Hidden
    <2> QED BY <1>4, <1>6, <1>7, <2>1 DEF VisibleCtr
  <1>9. Promised!Dropped(n)
    BY <1>5, <1>8, GoneMaps
  <1>10. Promised!Fault
    BY DEF Lost, Promised!Fault, IInv, Constants, Accounts
  <1> QED BY <1>3, <1>9, <1>10
          DEF Promise, Promised!Next, Promised!Others, Promised!ContainerLost, VisibleCtr

(* What others see changes with the containers and the calls alone.        *)
LEMMA SameMaps ==
    ASSUME UNCHANGED <<ctr, gen, call, faults>>
    PROVE  Promise
  BY DEF Promise, VisibleCtr, VisibleGen, Starting, Stopping, At

LEMMA StepMaps == IInv /\ IInv' /\ [Next]_vars => Promise
  <1> SUFFICES ASSUME IInv, IInv', [Next]_vars PROVE Promise
    OBVIOUS
  <1>1. ASSUME NEW h \in Caller, BeginCall(h) PROVE Promise
    BY <1>1, BeginMaps
  <1>2. ASSUME NEW h \in Caller, Pull(h) PROVE Promise
    BY <1>2, PullMaps
  <1>3. ASSUME NEW h \in Caller, Create(h) PROVE Promise
    BY <1>3, CreateStepMaps
  <1>4. ASSUME NEW h \in Caller, Start(h) PROVE Promise
    BY <1>4, StartMaps
  <1>5. ASSUME NEW h \in Caller, Stop(h) PROVE Promise
    BY <1>5, StopMaps
  <1>6. ASSUME NEW h \in Caller, Remove(h) PROVE Promise
    BY <1>6, RemoveStepMaps
  <1>7. ASSUME NEW h \in Caller, Inspect(h) PROVE Promise
    BY <1>7, InspectMaps
  <1>8. ASSUME NEW h \in Caller, Expire(h) PROVE Promise
    BY <1>8, ExpireMaps
  <1>9. ASSUME NEW n \in Name, Lost(n) PROVE Promise
    BY <1>9, LostMaps
  <1>10. CASE PullEnds \/ Hang \/ Recover \/ UNCHANGED vars
    BY <1>10, SameMaps DEF PullEnds, Hang, Recover, vars, daemonVars
  <1> QED BY <1>1, <1>2, <1>3, <1>4, <1>5, <1>6, <1>7, <1>8, <1>9, <1>10
          DEF Next, Answer

(* Whatever goroutines use the client at once, whatever hangs or fails     *)
(* between the calls on the daemon, each call of the client has the effect *)
(* of one operation of module Platform.                                    *)
THEOREM DeploymentImplemented == ASSUME Constants PROVE Spec => ImplementsDeployment
  <1>1. Constants /\ Init => Promised!Init
    <2> SUFFICES ASSUME Constants, Init PROVE Promised!Init
      OBVIOUS
    <2>1. \A n \in Name : ~Starting(n)
      BY DEF Init, Starting, At
    <2> QED BY <2>1 DEF Init, Promised!Init, VisibleCtr, VisibleGen
  <1>2. IInv /\ IInv' /\ [Next]_vars => [Promised!Next]_<<VisibleCtr, VisibleGen, faults>>
    BY StepMaps DEF Promise
  <1> QED BY <1>1, <1>2, AlwaysIInv, PTL DEF Spec, ImplementsDeployment, Promised!Spec

=============================================================================
