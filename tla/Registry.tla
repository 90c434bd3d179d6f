------------------------------ MODULE Registry ------------------------------
(***************************************************************************)
(* What the API promises of the collection of instances, each request      *)
(* being atomic: POST adds an instance under an id never used before, PUT  *)
(* replaces the configuration of an existing instance and leaves its owner *)
(* alone, DELETE removes an existing instance for good.                    *)
(***************************************************************************)

CONSTANTS Uuid, User, Cfg, NoRecord

VARIABLES
    entry,   \* Uuid -> the owner and configuration of an instance
    gone     \* the ids of deleted instances

vars == <<entry, gone>>

Init ==
    /\ entry = [i \in Uuid |-> NoRecord]
    /\ gone = {}

Add(i, u, c) ==
    /\ entry[i] = NoRecord
    /\ i \notin gone
    /\ entry' = [entry EXCEPT ![i] = [owner |-> u, cfg |-> c]]
    /\ UNCHANGED gone

Replace(i, c) ==
    /\ entry[i] # NoRecord
    /\ entry' = [entry EXCEPT ![i] = [owner |-> entry[i].owner, cfg |-> c]]
    /\ UNCHANGED gone

Remove(i) ==
    /\ entry[i] # NoRecord
    /\ entry' = [entry EXCEPT ![i] = NoRecord]
    /\ gone' = gone \cup {i}

Next ==
    \E i \in Uuid :
        \/ \E u \in User, c \in Cfg : Add(i, u, c)
        \/ \E c \in Cfg : Replace(i, c)
        \/ Remove(i)

Spec == Init /\ [][Next]_vars

=============================================================================
