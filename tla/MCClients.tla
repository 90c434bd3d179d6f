----------------------------- MODULE MCClients -----------------------------
(***************************************************************************)
(* The deployment clients for TLC.  lib.Start (pkg/init.go) makes one of   *)
(* the three, as conf.DeployMode says; the others have no calls.           *)
(***************************************************************************)
EXTENDS Rancher2

CONSTANTS DockerPull, DockerCalls, DockerFaults,   \* of DockerClient
          Uuid, MaxSuffix, NoRecord                \* of Rancher1

VARIABLES
    deployMode,
    ctr, gen, image, pulling, hung, dockerCall, known, removed,   \* DockerClient
    dockerCalls, dockerFaults,
    db, fresh, services, nextId, req, phase, pending, lost,       \* Rancher1
    requests, serviceFaults

dockerVars == <<ctr, gen, image, pulling, hung, dockerCall, known, removed,
                dockerCalls, dockerFaults>>
serviceVars == <<db, fresh, services, nextId, req, phase, pending, lost, requests,
                 serviceFaults>>

Docker ==
    INSTANCE DockerClient WITH
        MaxCalls <- DockerCalls, MaxFaults <- DockerFaults,
        call <- dockerCall, calls <- dockerCalls, faults <- dockerFaults

Services ==
    INSTANCE Rancher1 WITH
        Handler <- Caller, NoRequest <- NoCall, MaxRequests <- MaxCalls,
        faults <- serviceFaults

ASSUME ClientsAssumption == Docker!Constants /\ Services!Constants

MCInit ==
    /\ deployMode \in {"docker", "rancher2", "rancher1"}
    /\ Init /\ Docker!Init /\ Services!Init
    /\ image \/ deployMode = "docker"

MCNext ==
    /\ UNCHANGED deployMode
    /\ \/ deployMode = "docker" /\ Docker!Next /\ UNCHANGED <<vars, serviceVars>>
       \/ deployMode = "rancher2" /\ Next /\ UNCHANGED <<dockerVars, serviceVars>>
       \/ deployMode = "rancher1" /\ Services!Next /\ UNCHANGED <<vars, dockerVars>>

MCSpec ==
    /\ MCInit /\ [][MCNext]_<<deployMode, vars, dockerVars, serviceVars>>
    /\ Docker!Fairness

-----------------------------------------------------------------------------
(* Properties, beside those of Rancher2.                                   *)

(* docker: of the callers that meet at a container one is told that it     *)
(* removed it.                                                             *)
OneRemoval == Docker!OneRemoval

(* docker: each call of the client has the effect of an operation of       *)
(* Platform; it ends if it has a deadline, or if the daemon does not hang. *)
DockerServes ==
    /\ []Docker!TypeOK
    /\ Docker!ImplementsDeployment
    /\ Docker!CreatesEnd /\ Docker!RemovesEndUnlessHung

(* rancher1: although no name is a lock, a service too many takes a fault, *)
(* without one documents and services agree between requests, and startup  *)
(* leaves no document without its service.                                 *)
Rancher1Agrees == Services!Rancher1Agrees

=============================================================================
