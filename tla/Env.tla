-------------------------------- MODULE Env --------------------------------
(***************************************************************************)
(* getEnv: the environment of the container that forwards an instance's    *)
(* messages, computed from the instance by CreateInstance, SetInstance and *)
(* EnsureAllInstancesDeployed, and what it refuses.                        *)
(*                                                                         *)
(* Texts are abstract.  A filter is the sequence of its parts between the  *)
(* colons.  A base topic is its path and whether it ends with a slash, so  *)
(* that the empty text is [path |-> <<>>, closed |-> FALSE].  A query is   *)
(* the record of what it asks for.                                         *)
(***************************************************************************)
EXTENDS Naturals, Sequences

CONSTANTS
    User,         \* user ids
    Id,           \* the id of an instance
    Value,        \* members of Instance.Values, a name and a path each
    Broker,       \* addresses of brokers
    Login,        \* user names and passwords of brokers
    NoValue,      \* a nil pointer; a variable that is not set
    MqttBroker, MqttUser, MqttPw   \* conf: the default broker and its login

ASSUME EnvAssumption ==
    /\ MqttBroker \in Broker
    /\ MqttUser \in Login /\ MqttPw \in Login
    /\ NoValue \notin Broker \cup Login
    /\ NoValue \notin [path : Seq(User \cup {Id} \cup STRING), closed : BOOLEAN]

FilterType == {"deviceId", "operatorId", "import_id"}

BaseTopic == [path : Seq(User \cup {Id} \cup STRING), closed : BOOLEAN]

(* What a request says of an instance.                                     *)
Settings ==
    [filterType : STRING, filter : Seq(STRING),
     offset : STRING, values : Seq(Value),
     broker : Broker \cup {NoValue},
     user : Login \cup {NoValue}, pw : Login \cup {NoValue},
     base : BaseTopic \cup {NoValue}]

-----------------------------------------------------------------------------
(* The answer of the service a filter is verified with; "found" also when  *)
(* conf.VerifyInput or the parameter verify says not to ask.  VerifyDevice *)
(* asks permissions-v2, VerifyPipeline and VerifyImport take any status    *)
(* but 200 for missing.                                                    *)
Answers(verify) == IF verify THEN {"found", "missing", "error"} ELSE {"found"}

FilterCode(x, answer) ==
    CASE x.filterType \notin FilterType                    -> 400
      [] x.filterType = "operatorId" /\ Len(x.filter) # 2  -> 400
      [] answer = "error"                                  -> 500
      [] answer = "missing"                                -> 404
      [] OTHER                                             -> 200

(* Custom options are for a custom broker.                                 *)
BrokerCode(x) ==
    IF x.broker = NoValue /\ \E f \in {"user", "pw", "base"} : x[f] # NoValue
    THEN 400 ELSE 200

(* getEnv's third result.                                                  *)
Code(x, answer) ==
    IF FilterCode(x, answer) # 200 THEN FilterCode(x, answer) ELSE BrokerCode(x)

(* Faulty: a slash is appended to any text.                                *)
SlashedAgain(t) == [path |-> IF t.closed THEN Append(t.path, "") ELSE t.path,
                    closed |-> TRUE]

(* A base topic that is not empty is made to end with a slash.             *)
Slashed(t) == IF t.path = <<>> THEN t ELSE [t EXCEPT !.closed = TRUE]

(* getEnv writes the completed base topic back into the instance, the one  *)
(* its callers store afterwards.                                           *)
Completed(x) ==
    IF x.broker # NoValue /\ x.base # NoValue
    THEN [x EXCEPT !.base = Slashed(x.base)]
    ELSE x

FilterQuery(x) ==
    CASE x.filterType = "deviceId"   -> [device_id |-> x.filter]
      [] x.filterType = "operatorId" -> [pipeline_id |-> x.filter[1],
                                         operator_id |-> x.filter[2]]
      [] x.filterType = "import_id"  -> [import_id |-> x.filter]

OwnTopic(owner) == [path |-> <<"export", owner, Id>>, closed |-> TRUE]

TopicBase(x, owner) ==
    IF x.broker # NoValue /\ x.base # NoValue THEN Slashed(x.base) ELSE OwnTopic(owner)

(* MQTT_BROKER, MQTT_USER and MQTT_PW.                                     *)
Connection(x) ==
    IF x.broker = NoValue
    THEN [broker |-> MqttBroker, user |-> MqttUser, pw |-> MqttPw]
    ELSE [broker |-> x.broker, user |-> x.user, pw |-> x.pw]

(* MQTT_TOPIC_MAPPING: a topic for every value, in order.                  *)
Mapping(x, owner) ==
    [k \in DOMAIN x.values |-> [query |-> x.values[k],
                                topic |-> <<TopicBase(x, owner), x.values[k]>>]]

(* The environment of an accepted instance.  Its KAFKA_GROUP_ID is the     *)
(* instance's id, here group 0.                                            *)
GetEnv(x, owner) ==
    [group   |-> 0,
     offset  |-> x.offset,
     filter  |-> FilterQuery(x),
     connect |-> Connection(x),
     mapping |-> Mapping(x, owner)]

(* Faulty: only a change of the offset counts.                             *)
RefreshOnOffsetOnly(old, new) == old.offset # new.offset

(* Faulty: only a change of the values counts.                             *)
RefreshOnValuesOnly(old, new) == old.offset = "smallest" /\ old.values # new.values

(* SetInstance calls refreshConsumerGroupId: the messages are to be read   *)
(* from another offset, or again from the start with other values.         *)
Refresh(old, new) ==
    \/ old.offset # new.offset
    \/ old.offset = "smallest" /\ old.values # new.values

=============================================================================
