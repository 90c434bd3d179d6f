---------------------------- MODULE MCForwarding ----------------------------
(* Requests for TLC, chosen so that every refusal and every kind of base   *)
(* topic occurs, and so that pairs of requests differ in one setting.      *)
EXTENDS Forwarding, TLC

Device(off, vs) ==
    [filterType |-> "deviceId", filter |-> <<"dev">>, offset |-> off, values |-> vs,
     broker |-> NoValue, user |-> NoValue, pw |-> NoValue, base |-> NoValue]

Custom(b, path, slash) ==
    [Device("smallest", <<"v1">>) EXCEPT
        !.broker = b, !.base = [path |-> path, closed |-> slash]]

(* Brokers of their own: an open base topic, the empty one, none with a    *)
(* login; and what is refused.                                             *)
MCBrokerRequest ==
    {Device("smallest", <<"v1">>),
     Custom("plant", <<"hall">>, FALSE),
     Custom("plant", <<"hall">>, TRUE),
     Custom("plant", <<>>, FALSE),
     [Device("largest", <<"v1", "v2">>) EXCEPT !.broker = "plant", !.user = "bob", !.pw = "key"],
     [Device("smallest", <<"v1">>) EXCEPT !.user = "bob"],
     [Device("smallest", <<"v1">>) EXCEPT !.filterType = "operatorId", !.filter = <<"p", "o">>],
     [Device("smallest", <<"v1">>) EXCEPT !.filterType = "operatorId", !.filter = <<"p">>],
     [Device("smallest", <<"v1">>) EXCEPT !.filterType = "import_id"],
     [Device("smallest", <<"v1">>) EXCEPT !.filterType = "topic"]}

(* Both offsets with two sets of values, and another filter.               *)
MCOffsetRequest ==
    {Device("smallest", <<"v1">>),
     Device("smallest", <<"v1", "v2">>),
     Device("largest", <<"v1">>),
     [Device("smallest", <<"v1">>) EXCEPT !.filter = <<"dev2">>]}

MCRequest == MCBrokerRequest \cup MCOffsetRequest

(* Messages of the two devices.                                            *)
MCMessage == {[device_id |-> <<"dev">>], [device_id |-> <<"dev2">>]}

(* Nothing tells the users apart but who created the instance.             *)
UsersAlike == Permutations(User)

=============================================================================
