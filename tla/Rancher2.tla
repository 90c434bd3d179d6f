------------------------------ MODULE Rancher2 ------------------------------
(***************************************************************************)
(* The DeploymentClient for Rancher 2 (pkg/deploy/rancher2-api), one       *)
(* action for each HTTP request.  A workload is a deployment or, when it   *)
(* is not to be restarted, a job, and is addressed by its kind and name;   *)
(* the name is also what the client returns as its id.  The controller     *)
(* always asks for a restart, so a job is only ever asked for.  When a     *)
(* request gets no answer the response is nil, and all methods but         *)
(* ContainerExists read its status code before the errors: the call ends   *)
(* in a panic, here an error like any other.  No request has a deadline.   *)
(***************************************************************************)
EXTENDS Naturals

CONSTANTS
    Caller,       \* goroutines
    Name, Cfg,    \* names of workloads, environments
    MaxCalls,     \* bound on the calls of the client
    MaxFaults,    \* bound on failed requests and lost workloads
    NoCtr, NoCall

ASSUME Rancher2Assumption ==
    /\ MaxCalls \in Nat /\ MaxFaults \in Nat
    /\ NoCtr \notin Cfg
    /\ NoCtr \notin [service : Nat, cfg : Cfg, running : BOOLEAN]

VARIABLES
    deployment,   \* Name -> the workload's environment, or NoCtr
    created,      \* history: how often a workload of that name was made,
    removals,     \* was reported as removed,
    missed,       \* and was there when ContainerExists answered it was not
    call,         \* Caller -> its call of the client, or NoCall
    calls,        \* number of calls so far
    faults        \* number of faults so far

rancherVars == <<deployment, created>>
history == <<removals, missed>>
vars == <<rancherVars, history, call, calls, faults>>

Step == {"delete", "deleteJob", "post", "get", "getJob"}

(* update: CreateContainer comes after the removal; there: the workload    *)
(* has been there at every moment of this call.                            *)
Call == [step : Step, name : Name, cfg : Cfg, update : BOOLEAN, there : BOOLEAN]

(* Every variable has its type, and what exists has been created.          *)
TypeOK ==
    /\ deployment \in [Name -> Cfg \cup {NoCtr}]
    /\ created \in [Name -> Nat] /\ removals \in [Name -> Nat]
    /\ missed \in BOOLEAN
    /\ \A n \in Name : deployment[n] # NoCtr => created[n] > removals[n]
    /\ call \in [Caller -> Call \cup {NoCall}]
    /\ calls \in 0 .. MaxCalls /\ faults \in 0 .. MaxFaults

Init ==
    /\ deployment = [n \in Name |-> NoCtr]
    /\ created = [n \in Name |-> 0]
    /\ removals = [n \in Name |-> 0]
    /\ missed = FALSE
    /\ call = [h \in Caller |-> NoCall]
    /\ calls = 0 /\ faults = 0

-----------------------------------------------------------------------------
At(h, step) == call[h] # NoCall /\ call[h].step = step

NameOf(h) == call[h].name

Fault == faults < MaxFaults /\ faults' = faults + 1

Begin(h, step, n, c, update) ==
    /\ call[h] = NoCall
    /\ calls < MaxCalls /\ calls' = calls + 1
    /\ call' = [call EXCEPT ![h] = [step |-> step, name |-> n, cfg |-> c, update |-> update,
                                    there |-> deployment[n] # NoCtr]]
    /\ UNCHANGED <<rancherVars, history, faults>>

(* CreateContainer, RemoveContainer, UpdateContainer, ContainerExists.     *)
BeginCall(h) ==
    \E n \in Name, c \in Cfg :
        \/ Begin(h, "post", n, c, FALSE)
        \/ created[n] > 0 /\ Begin(h, "delete", n, c, FALSE)
        \/ created[n] > 0 /\ Begin(h, "delete", n, c, TRUE)
        \/ created[n] > 0 /\ Begin(h, "get", n, c, FALSE)

(* A value or an error is returned.                                        *)
Return(h) == call' = [call EXCEPT ![h] = NoCall] /\ UNCHANGED calls

Goto(h, step) == call' = [call EXCEPT ![h].step = step] /\ UNCHANGED calls

(* The workload named n is gone, which ends the claim that it is there.    *)
Gone(n) == deployment' = [deployment EXCEPT ![n] = NoCtr] /\ UNCHANGED created

Unseen(n) ==
    [h \in Caller |->
        IF call[h] # NoCall /\ call[h].name = n THEN [call[h] EXCEPT !.there = FALSE]
        ELSE call[h]]

-----------------------------------------------------------------------------
Made(h) ==
    /\ deployment' = [deployment EXCEPT ![NameOf(h)] = call[h].cfg]
    /\ created' = [created EXCEPT ![NameOf(h)] = @ + 1]

(* Faulty: the workload of that name is replaced.                          *)
PostReplacing(h) ==
    /\ At(h, "post")
    /\ Return(h) /\ UNCHANGED history
    /\ Made(h) /\ UNCHANGED faults

(* POST workloads: 201, a conflict, or a failure that may have had effect. *)
Post(h) ==
    /\ At(h, "post")
    /\ Return(h) /\ UNCHANGED history
    /\ \/ deployment[NameOf(h)] = NoCtr /\ Made(h) /\ UNCHANGED faults
       \/ deployment[NameOf(h)] # NoCtr /\ UNCHANGED <<rancherVars, faults>>
       \/ Fault /\ UNCHANGED rancherVars
       \/ Fault /\ deployment[NameOf(h)] = NoCtr /\ Made(h)

(* 204 for the workload's deletion ends RemoveContainer.                   *)
Removed(h) ==
    /\ removals' = [removals EXCEPT ![NameOf(h)] = @ + 1]
    /\ UNCHANGED <<calls, missed>>
    /\ call' = [Unseen(NameOf(h)) EXCEPT ![h] =
                    IF call[h].update
                    THEN [call[h] EXCEPT !.step = "post", !.update = FALSE]
                    ELSE NoCall]

(* DELETE of the deployment.  404 leads on to the job of that name.        *)
Delete(h) ==
    /\ At(h, "delete")
    /\ LET n == NameOf(h) IN
       \/ /\ deployment[n] # NoCtr
          /\ Gone(n) /\ Removed(h) /\ UNCHANGED faults
       \/ /\ deployment[n] = NoCtr
          /\ Goto(h, "deleteJob") /\ UNCHANGED <<rancherVars, history, faults>>
       \/ Fault /\ Return(h) /\ UNCHANGED <<rancherVars, history>>
       \/ /\ Fault /\ deployment[n] # NoCtr /\ Gone(n)
          /\ call' = [Unseen(n) EXCEPT ![h] = NoCall]
          /\ UNCHANGED <<calls, history>>

(* Faulty: a workload that is not there is as good as deleted.             *)
DeleteJobIfAny(h) ==
    /\ At(h, "deleteJob")
    /\ Removed(h) /\ UNCHANGED <<rancherVars, faults>>

(* DELETE of the job: there is none, the answer is 404 and not 204.        *)
DeleteJob(h) ==
    /\ At(h, "deleteJob")
    /\ Return(h) /\ UNCHANGED <<rancherVars, history>>
    /\ Fault \/ UNCHANGED faults

-----------------------------------------------------------------------------
(* Faulty: only jobs are asked for.                                        *)
GetJobOnly(h) ==
    /\ At(h, "get")
    /\ Goto(h, "getJob") /\ UNCHANGED <<rancherVars, history, faults>>

(* ContainerExists: GET of the deployment, and of the job after a 404.     *)
Get(h) ==
    /\ At(h, "get")
    /\ UNCHANGED <<rancherVars, history>>
    /\ \/ deployment[NameOf(h)] # NoCtr /\ Return(h) /\ UNCHANGED faults
       \/ deployment[NameOf(h)] = NoCtr /\ Goto(h, "getJob") /\ UNCHANGED faults
       \/ Fault /\ Return(h)

(* The answer is that it does not exist, or an error.                      *)
GetJob(h) ==
    /\ At(h, "getJob")
    /\ Return(h) /\ UNCHANGED <<rancherVars, removals>>
    /\ \/ missed' = (missed \/ call[h].there) /\ UNCHANGED faults
       \/ Fault /\ UNCHANGED missed

(* A workload is deleted by somebody else.                                 *)
Lost(n) ==
    /\ Fault
    /\ deployment[n] # NoCtr /\ Gone(n)
    /\ call' = Unseen(n)
    /\ UNCHANGED <<history, calls>>

Next ==
    \/ \E h \in Caller :
          BeginCall(h) \/ Post(h) \/ Delete(h) \/ DeleteJob(h) \/ Get(h) \/ GetJob(h)
    \/ \E n \in Name : Lost(n)

Spec == Init /\ [][Next]_vars

-----------------------------------------------------------------------------
(* ContainerExists asks twice, and others may make or delete the workload  *)
(* in between.  Yet it never denies one that was there all the time: what  *)
(* EnsureAllInstancesDeployed finds running it does not make again.        *)
NeverMissed == ~missed

(* Requests that meet at a workload are told of its removal once for each  *)
(* time it was made, although its id never changes.                        *)
RemovedOnce == \A n \in Name : removals[n] <= created[n]

Promised ==
    INSTANCE Deployment WITH
        Uuid <- Name, User <- {}, Admin <- {}, DeployMode <- "rancher2",
        NoRecord <- NoCall, Nobody <- NoCall, db <- <<>>, gone <- {}, perms <- <<>>,
        ctr <- [n \in Name |->
                   IF deployment[n] = NoCtr THEN NoCtr
                   ELSE [service |-> 1, cfg |-> deployment[n], running |-> TRUE]],
        gen <- [n \in Name |-> IF created[n] = 0 THEN 0 ELSE 1]

(* Each call has the effect of an operation of module Platform.            *)
ImplementsDeployment == Promised!Spec

=============================================================================
