----------------------------- MODULE Deployment -----------------------------
(***************************************************************************)
(* What module Manager relies on in a DeploymentClient (pkg/deploy): each  *)
(* of its calls, made by whomever and whenever, is one of the atomic       *)
(* operations of module Platform, a failed call may leave what the         *)
(* operation's failure may leave, and containers change in no other way.   *)
(* DockerClient and Rancher2 are shown to implement this.                  *)
(***************************************************************************)
EXTENDS Platform

Others == UNCHANGED <<db, gone, perms>>

Init ==
    /\ ctr = [i \in Uuid |-> NoCtr]
    /\ gen = [i \in Uuid |-> 0]
    /\ faults = 0

Create(i, c) ==
    \/ CreateContainer(i, c) /\ NoFault
    \/ CreateContainerFails(i, c)

Remove(i, s) ==
    \/ RemoveContainer(i, s) /\ NoFault
    \/ RemoveContainerFails(i, s)

Next ==
    \E i \in Uuid :
        /\ Others
        /\ \/ \E c \in Cfg : Create(i, c)
           \/ \E s \in 1 .. gen[i] : Remove(i, s)
           \/ ContainerLost(i)

Spec == Init /\ [][Next]_<<ctr, gen, faults>>

=============================================================================
