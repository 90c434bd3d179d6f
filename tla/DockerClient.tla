---------------------------- MODULE DockerClient ----------------------------
(***************************************************************************)
(* The DeploymentClient for a docker daemon (pkg/deploy/dockerClient), one *)
(* action for each call on the daemon.  Callers are goroutines; the client *)
(* has no state of its own.  The calls of CreateContainer and              *)
(* ContainerExists share a context that ends after ten seconds, those of   *)
(* RemoveContainer have none.  The daemon gives every container a new id   *)
(* and keeps names unique.  It may hang.                                   *)
(***************************************************************************)
EXTENDS Naturals, Sequences, FiniteSets

CONSTANTS
    Caller,       \* goroutines
    Name, Cfg,    \* names of containers, environments
    DockerPull,   \* conf.DockerPull
    MaxCalls,     \* bound on the calls of the client
    MaxFaults,    \* bound on the failures of the daemon
    NoCtr, NoCall

VARIABLES
    ctr,       \* Name -> the daemon's container of that name, or NoCtr
    gen,       \* Name -> the id given to its latest container, 0 for none
    image,     \* the daemon has the image
    pulling,   \* a pull is under way and its context has not ended
    hung,      \* the daemon answers no more
    call,      \* Caller -> its call of the client, or NoCall
    known,     \* the containers <<name, id>> the client has returned
    removed,   \* history: those it has reported as removed, in order
    calls,     \* number of calls so far
    faults     \* number of errors so far

daemonVars == <<ctr, gen, image, pulling, hung>>
vars == <<daemonVars, call, known, removed, calls, faults>>

Step == {"pull", "create", "start", "stop", "remove", "inspect"}

(* The steps whose context has a deadline.                                 *)
InContext == {"pull", "create", "start", "inspect"}

(* id: the container it is about; update: CreateContainer comes after the  *)
(* removal; ran: the container was running when this call stopped it.      *)
Call == [step : Step, name : Name, id : Nat, cfg : Cfg, update : BOOLEAN, ran : BOOLEAN]

Container == [service : Nat, cfg : Cfg, running : BOOLEAN]

(* What the theorems assume of the constants.                              *)
Constants ==
    /\ MaxCalls \in Nat /\ MaxFaults \in Nat
    /\ DockerPull \in BOOLEAN
    /\ NoCtr \notin Container /\ NoCall \notin Call

(* Every variable has its type, and ids are never above the counter.       *)
TypeOK ==
    /\ \A n \in Name : ctr[n] # NoCtr => ctr[n].service \in 1 .. gen[n]
    /\ image \in BOOLEAN /\ pulling \in BOOLEAN /\ hung \in BOOLEAN
    /\ call \in [Caller -> Call \cup {NoCall}]
    /\ \A p \in known : p[2] \in 1 .. gen[p[1]]
    /\ calls \in 0 .. MaxCalls

Init ==
    /\ ctr = [n \in Name |-> NoCtr]
    /\ gen = [n \in Name |-> 0]
    /\ image \in BOOLEAN
    /\ pulling = FALSE /\ hung = FALSE
    /\ call = [h \in Caller |-> NoCall]
    /\ known = {}
    /\ removed = <<>>
    /\ calls = 0 /\ faults = 0

-----------------------------------------------------------------------------
At(h, step) == call[h] # NoCall /\ call[h].step = step

Has(n, s) == ctr[n] # NoCtr /\ ctr[n].service = s

Live(h) == Has(call[h].name, call[h].id)

Goto(h, step) == call' = [call EXCEPT ![h].step = step]

(* An error is returned.                                                   *)
Fail(h) ==
    /\ call' = [call EXCEPT ![h] = NoCall]
    /\ faults' = faults + 1
    /\ UNCHANGED <<known, removed, calls>>

(* The daemon fails in some way of its own.                                *)
Broken(h) == faults < MaxFaults /\ Fail(h)

Begin(h, step, n, id, c, update) ==
    /\ call[h] = NoCall
    /\ calls < MaxCalls /\ calls' = calls + 1
    /\ call' = [call EXCEPT ![h] = [step |-> step, name |-> n, id |-> id, cfg |-> c,
                                    update |-> update, ran |-> FALSE]]
    /\ UNCHANGED <<daemonVars, known, removed, faults>>

FirstStep == IF DockerPull THEN "pull" ELSE "create"

(* The methods.  Ids come from the documents, so they are ids the client   *)
(* has returned; their containers may be gone.                             *)
BeginCall(h) ==
    \/ \E n \in Name, c \in Cfg : Begin(h, FirstStep, n, 0, c, FALSE)
    \/ \E p \in known, c \in Cfg :
          \/ Begin(h, "stop", p[1], p[2], c, FALSE)
          \/ Begin(h, "stop", p[1], p[2], c, TRUE)
          \/ Begin(h, "inspect", p[1], p[2], c, FALSE)

-----------------------------------------------------------------------------
(* CreateContainer.                                                        *)

(* ImagePull returns as soon as the daemon has begun; its progress is not  *)
(* read, and the context, never cancelled, lets it go on until it ends.    *)
Pull(h) ==
    /\ At(h, "pull") /\ ~hung
    /\ \/ /\ pulling' = TRUE
          /\ Goto(h, "create")
          /\ UNCHANGED <<ctr, gen, image, hung, known, removed, calls, faults>>
       \/ Broken(h) /\ UNCHANGED daemonVars

PullEnds ==
    /\ pulling /\ pulling' = FALSE
    /\ image' \in {image, ~hung \/ image}
    /\ UNCHANGED <<ctr, gen, hung, call, known, removed, calls, faults>>

NewContainer(h) ==
    LET n == call[h].name IN
    /\ ctr' = [ctr EXCEPT ![n] = [service |-> gen[n] + 1, cfg |-> call[h].cfg,
                                  running |-> FALSE]]
    /\ gen' = [gen EXCEPT ![n] = @ + 1]
    /\ UNCHANGED <<image, pulling, hung>>

(* Faulty: a container of that name is replaced.                           *)
CreateReplacing(h) ==
    /\ At(h, "create") /\ ~hung
    /\ image
    /\ NewContainer(h)
    /\ call' = [call EXCEPT ![h].step = "start", ![h].id = gen[call[h].name] + 1]
    /\ UNCHANGED <<known, removed, calls, faults>>

(* ContainerCreate.                                                        *)
Create(h) ==
    /\ At(h, "create") /\ ~hung
    /\ LET n == call[h].name
           possible == image /\ ctr[n] = NoCtr
       IN  \/ /\ possible
              /\ NewContainer(h)
              /\ call' = [call EXCEPT ![h].step = "start", ![h].id = gen[n] + 1]
              /\ UNCHANGED <<known, removed, calls, faults>>
           \/ ~possible /\ Fail(h) /\ UNCHANGED daemonVars
           \/ Broken(h) /\ UNCHANGED daemonVars
           \/ possible /\ Broken(h) /\ NewContainer(h)

SetRunning(h, run) ==
    /\ ctr' = [ctr EXCEPT ![call[h].name].running = run]
    /\ UNCHANGED <<gen, image, pulling, hung>>

(* ContainerStart.                                                         *)
Start(h) ==
    /\ At(h, "start") /\ ~hung
    /\ \/ /\ SetRunning(h, TRUE)
          /\ known' = known \cup {<<call[h].name, call[h].id>>}
          /\ call' = [call EXCEPT ![h] = NoCall]
          /\ UNCHANGED <<removed, calls, faults>>
       \/ Broken(h) /\ (SetRunning(h, TRUE) \/ UNCHANGED daemonVars)

-----------------------------------------------------------------------------
(* RemoveContainer.                                                        *)

(* stopContainer.  A container that is stopped already is no error.        *)
Stop(h) ==
    /\ At(h, "stop") /\ ~hung
    /\ \/ /\ Live(h)
          /\ SetRunning(h, FALSE)
          /\ call' = [call EXCEPT ![h].step = "remove",
                                  ![h].ran = ctr[call[h].name].running]
          /\ UNCHANGED <<known, removed, calls, faults>>
       \/ ~Live(h) /\ Fail(h) /\ UNCHANGED daemonVars
       \/ Broken(h) /\ UNCHANGED daemonVars
       \/ Live(h) /\ Broken(h) /\ SetRunning(h, FALSE)

Drop(h) ==
    /\ ctr' = [ctr EXCEPT ![call[h].name] = NoCtr]
    /\ UNCHANGED <<gen, image, pulling, hung>>

(* nil is returned, to UpdateContainer if it called.                       *)
RemoveReturns(h) ==
    /\ removed' = Append(removed, <<call[h].name, call[h].id>>)
    /\ IF call[h].update
       THEN call' = [call EXCEPT ![h].step = FirstStep, ![h].update = FALSE,
                                 ![h].id = 0, ![h].ran = FALSE]
       ELSE call' = [call EXCEPT ![h] = NoCall]
    /\ UNCHANGED <<known, calls, faults>>

(* Faulty: a container that is not there is as good as removed.            *)
RemoveIfAny(h) ==
    /\ At(h, "remove") /\ ~hung
    /\ \/ Live(h) /\ Drop(h) /\ RemoveReturns(h)
       \/ ~Live(h) /\ UNCHANGED daemonVars /\ RemoveReturns(h)

(* removeContainer, forced.                                                *)
Remove(h) ==
    /\ At(h, "remove") /\ ~hung
    /\ \/ Live(h) /\ Drop(h) /\ RemoveReturns(h)
       \/ ~Live(h) /\ Fail(h) /\ UNCHANGED daemonVars
       \/ Broken(h) /\ UNCHANGED daemonVars
       \/ Live(h) /\ Broken(h) /\ Drop(h)

-----------------------------------------------------------------------------
(* ContainerExists: nothing changes, whatever the answer.                  *)
Inspect(h) ==
    /\ At(h, "inspect") /\ ~hung
    /\ UNCHANGED daemonVars
    /\ \/ /\ call' = [call EXCEPT ![h] = NoCall]
          /\ UNCHANGED <<known, removed, calls, faults>>
       \/ Broken(h)

(* The context ends before the daemon answers.                             *)
Expire(h) ==
    /\ call[h] # NoCall /\ call[h].step \in InContext
    /\ Fail(h)
    /\ UNCHANGED daemonVars

Hang == ~hung /\ hung' = TRUE
        /\ UNCHANGED <<ctr, gen, image, pulling, call, known, removed, calls, faults>>

Recover == hung /\ hung' = FALSE
           /\ UNCHANGED <<ctr, gen, image, pulling, call, known, removed, calls, faults>>

Starting(n) == \E h \in Caller : At(h, "start") /\ call[h].name = n

(* A container is removed by somebody else.                                *)
Lost(n) ==
    /\ faults < MaxFaults /\ faults' = faults + 1
    /\ ctr[n] # NoCtr /\ ~Starting(n)
    /\ ctr' = [ctr EXCEPT ![n] = NoCtr]
    /\ UNCHANGED <<gen, image, pulling, hung, call, known, removed, calls>>

Answer(h) == Pull(h) \/ Create(h) \/ Start(h) \/ Stop(h) \/ Remove(h) \/ Inspect(h)

Next ==
    \/ \E h \in Caller : BeginCall(h) \/ Answer(h) \/ Expire(h)
    \/ PullEnds \/ Hang \/ Recover
    \/ \E n \in Name : Lost(n)

(* A deadline passes in the end.  The daemon answers unless it hangs, for  *)
(* ever or again and again.                                                *)
Fairness == \A h \in Caller : WF_vars(Expire(h)) /\ WF_vars(Answer(h))

Spec == Init /\ [][Next]_vars /\ Fairness

-----------------------------------------------------------------------------
(* No container is reported as removed twice: of the requests that meet at *)
(* a container one goes on.  The controller has no other lock.             *)
OneRemoval == \A j, k \in DOMAIN removed : removed[j] = removed[k] => j = k

(* A call with a deadline ends even if the daemon hangs.                   *)
CreatesEnd ==
    \A h \in Caller :
        (call[h] # NoCall /\ call[h].step \in InContext)
            ~> (call[h] = NoCall \/ call[h].step \notin InContext)

(* A removal ends, or the daemon hangs: it has no deadline of its own.     *)
RemovesEndUnlessHung ==
    \A h \in Caller : (At(h, "stop") \/ At(h, "remove")) ~>
        (hung \/ ~(At(h, "stop") \/ At(h, "remove")))

(* A container is there for others when it has been started, and a stopped *)
(* one is until its removal fails.                                         *)
Stopping(n) ==
    \E h \in Caller :
        /\ At(h, "remove") /\ call[h].name = n /\ call[h].ran
        /\ ctr[n] # NoCtr /\ ctr[n].service = call[h].id

VisibleCtr ==
    [n \in Name |->
        IF ctr[n] = NoCtr \/ Starting(n) THEN NoCtr
        ELSE [ctr[n] EXCEPT !.running = @ \/ Stopping(n)]]

VisibleGen == [n \in Name |-> IF Starting(n) THEN gen[n] - 1 ELSE gen[n]]

Promised ==
    INSTANCE Deployment WITH
        Uuid <- Name, User <- {}, Admin <- {}, DeployMode <- "docker",
        MaxFaults <- MaxFaults + MaxCalls, NoRecord <- NoCall, Nobody <- NoCall,
        db <- <<>>, gone <- {}, perms <- <<>>,
        ctr <- VisibleCtr, gen <- VisibleGen

(* Whatever the callers do at the same time, each call of the client has   *)
(* the effect of an operation of module Platform, as the manager assumes.  *)
ImplementsDeployment == Promised!Spec

=============================================================================
