----------------------------- MODULE Forwarding -----------------------------
(***************************************************************************)
(* What becomes of the messages of one instance's topic while the instance *)
(* is created, updated and redeployed: module Env composed with the        *)
(* container it configures and the Kafka consumer group the container      *)
(* reads in.  The container's image is not part of the repository; it is   *)
(* modelled as the consumer that its environment describes.  It starts at  *)
(* its group's committed offset or, in a group without one, at either end  *)
(* of the topic, forwards the messages that its filter passes and commits  *)
(* what it has dealt with.                                                 *)
(*                                                                         *)
(* Requests come one after the other here; module Manager has them         *)
(* overlap.  The topic has one partition.  Group 0 is the instance's id,   *)
(* group k the id followed by the k-th UUID of refreshConsumerGroupId.     *)
(***************************************************************************)
EXTENDS Env

CONSTANTS
    Request,      \* the instances that clients send
    Message,      \* messages, functions from some of their fields to values
    VerifyInput,  \* conf.VerifyInput
    MaxPuts,      \* bound on the PUTs served
    MaxLog,       \* bound on the messages of the topic
    MaxFailed,    \* bound on the PUTs that fail halfway
    NoInstance, NoContainer

VARIABLES
    stored,     \* the document, or NoInstance
    container,  \* the environment it was started with, or NoContainer
    next,       \* the offset the container reads next
    committed,  \* group -> the offset it has committed, or Uncommitted
    groups,     \* number of UUIDs generated for groups
    log,        \* the messages of the topic
    forwarded,  \* history: <<offset, values>> of the messages forwarded
    home,       \* history: the group of the last PUT that changed the
                \* document's offset or values
    filters,    \* history: the filters that containers have read with in the
                \* group home since that PUT
    puts,       \* number of PUTs so far
    failed      \* number of PUTs that replaced the container in vain

vars == <<stored, container, next, committed, groups, log, forwarded, home, filters,
          puts, failed>>

Group == 0 .. MaxPuts
Uncommitted == MaxLog + 1
Document == [settings : Request \cup {Completed(x) : x \in Request}, owner : User]

ASSUME ForwardingAssumption ==
    /\ Request \subseteq Settings
    /\ VerifyInput \in BOOLEAN
    /\ MaxPuts \in Nat /\ MaxLog \in Nat /\ MaxFailed \in Nat
    /\ NoInstance \notin Document

(* KAFKA_GROUP_ID is set.                                                  *)
InGroup(e, g) == [e EXCEPT !.group = g]

(* The environment of a document's container in group g.                   *)
EnvOf(d, g) == InGroup(GetEnv(d.settings, d.owner), g)

(* Variables have their types; groups are used in the order of their UUIDs.*)
TypeOK ==
    /\ stored \in Document \cup {NoInstance}
    /\ container # NoContainer => container.group \in 0 .. groups
    /\ next \in 0 .. Len(log)
    /\ committed \in [Group -> (0 .. Len(log)) \cup {Uncommitted}]
    /\ groups \in 0 .. puts /\ home \in 0 .. groups
    /\ log \in Seq(Message) /\ Len(log) \in 0 .. MaxLog
    /\ \A f \in forwarded : f[1] \in 0 .. Len(log) - 1
    /\ puts \in 0 .. MaxPuts /\ failed \in 0 .. MaxFailed
    /\ \A g \in Group : g > groups => committed[g] = Uncommitted

Init ==
    /\ stored = NoInstance
    /\ container = NoContainer
    /\ next = 0
    /\ committed = [g \in Group |-> Uncommitted]
    /\ groups = 0 /\ home = 0
    /\ log = <<>>
    /\ forwarded = {} /\ filters = {}
    /\ puts = 0 /\ failed = 0

-----------------------------------------------------------------------------
(* Where a consumer with environment e starts to read.                     *)
StartOffset(e) ==
    IF committed[e.group] # Uncommitted THEN committed[e.group]
    ELSE IF e.offset = "smallest" THEN 0 ELSE Len(log)

(* A container is started in place of the one there was, if any.           *)
Started(e) == container' = e /\ next' = StartOffset(e)

(* A container that is started in the group home reads with its filter.    *)
Noted ==
    filters' = CASE container'.group # home' -> filters
                 [] home' = home             -> filters \cup {container'.filter}
                 [] OTHER                    -> {container'.filter}

(* An accepted POST: the container is created and the instance stored.     *)
Post(x, u, answer) ==
    LET d == [settings |-> Completed(x), owner |-> u] IN
    /\ stored = NoInstance
    /\ Code(x, answer) = 200
    /\ Started(GetEnv(x, u))
    /\ stored' = d
    /\ UNCHANGED <<committed, groups, log, forwarded, home, puts, failed>>
    /\ Noted

(* Faulty: the document is the one that was sent, and its owner the user   *)
(* who sent it.                                                            *)
UpdatedByRequester(x, u) == [settings |-> x, owner |-> u]

(* The document of a PUT by user u.  Its owner stays.                      *)
Updated(x, u) == [settings |-> Completed(x), owner |-> stored.owner]

(* Faulty: the instance is stored although getEnv refused it.              *)
PutRefusedStored(x, u, answer) ==
    /\ stored # NoInstance
    /\ puts < MaxPuts /\ puts' = puts + 1
    /\ Code(x, answer) # 200
    /\ stored' = Updated(x, u)
    /\ UNCHANGED <<container, next, committed, groups, log, forwarded, home,
                   filters, failed>>

(* A PUT that getEnv refuses, or whose container is not there to be        *)
(* removed.                                                                *)
PutRefused(x, u, answer) ==
    /\ stored # NoInstance
    /\ puts < MaxPuts /\ puts' = puts + 1
    /\ Code(x, answer) # 200 \/ container = NoContainer
    /\ UNCHANGED <<stored, container, next, committed, groups, log, forwarded,
                   home, filters, failed>>

(* Faulty: the group's UUID is the next one to be generated, too.          *)
UpdateContainerUncounted(x, owner) ==
    /\ UNCHANGED groups
    /\ Started(InGroup(GetEnv(x, owner),
                       IF Refresh(stored.settings, x) THEN groups + 1 ELSE 0))

(* A new container, in the group SetInstance chose.                        *)
UpdateContainer(x, owner) ==
    LET fresh == Refresh(stored.settings, x)
        g     == IF fresh THEN groups + 1 ELSE 0
    IN  /\ groups' = IF fresh THEN groups + 1 ELSE groups
        /\ Started(InGroup(GetEnv(x, owner), g))

PutAccepted(x, u, answer) ==
    /\ stored # NoInstance
    /\ puts < MaxPuts /\ puts' = puts + 1
    /\ Code(x, answer) = 200
    /\ container # NoContainer
    /\ UpdateContainer(x, Updated(x, u).owner)
    /\ UNCHANGED <<committed, log, forwarded>>

(* A PUT: the new container, then the document.  If the group was          *)
(* refreshed, nothing of that is stored.                                   *)
Put(x, u, answer) ==
    /\ PutAccepted(x, u, answer)
    /\ stored' = Updated(x, u)
    /\ home' = IF Refresh(stored.settings, x) THEN groups' ELSE home
    /\ Noted
    /\ UNCHANGED failed

(* The container is replaced, but SetInstance of the database fails.       *)
PutNotStored(x, u, answer) ==
    /\ failed < MaxFailed /\ failed' = failed + 1
    /\ PutAccepted(x, u, answer)
    /\ UNCHANGED <<stored, home>>
    /\ Noted

(* The container is removed, by somebody else or by an UpdateContainer     *)
(* that then fails.                                                        *)
Lost ==
    /\ container # NoContainer
    /\ container' = NoContainer
    /\ UNCHANGED <<stored, next, committed, groups, log, forwarded, home,
                   filters, puts, failed>>

(* EnsureAllInstancesDeployed: the environment of the stored instance,     *)
(* which is stored again.                                                  *)
Redeploy ==
    /\ stored # NoInstance
    /\ container = NoContainer
    /\ Code(stored.settings, "found") = 200
    /\ Started(GetEnv(stored.settings, stored.owner))
    /\ stored' = [stored EXCEPT !.settings = Completed(stored.settings)]
    /\ UNCHANGED <<committed, groups, log, forwarded, home, puts, failed>>
    /\ Noted

-----------------------------------------------------------------------------
(* Kafka and the container.                                                *)

Produce ==
    /\ stored # NoInstance
    /\ Len(log) < MaxLog
    /\ \E m \in Message : log' = Append(log, m)
    /\ UNCHANGED <<stored, container, next, committed, groups, forwarded, home,
                   filters, puts, failed>>

(* FILTER_QUERY: the fields it names have the values it gives.             *)
Passes(query, m) == \A f \in DOMAIN query : f \in DOMAIN m /\ m[f] = query[f]

ValuesOf(e) == [k \in DOMAIN e.mapping |-> e.mapping[k].query]

(* The next message is forwarded if the filter passes it.                  *)
Forward ==
    /\ container # NoContainer
    /\ next < Len(log)
    /\ forwarded' = IF Passes(container.filter, log[next + 1])
                    THEN forwarded \cup {<<next, ValuesOf(container)>>}
                    ELSE forwarded
    /\ next' = next + 1
    /\ UNCHANGED <<stored, container, committed, groups, log, home, filters, puts,
                   failed>>

Commit ==
    /\ container # NoContainer
    /\ committed[container.group] # next
    /\ committed' = [committed EXCEPT ![container.group] = next]
    /\ UNCHANGED <<stored, container, next, groups, log, forwarded, home,
                   filters, puts, failed>>

(* The container dies and its restart policy starts it again.              *)
Restart ==
    /\ container # NoContainer
    /\ Started(container)
    /\ UNCHANGED <<stored, committed, groups, log, forwarded, home, filters,
                   puts, failed>>

Serve(x, u, answer) ==
    \/ Post(x, u, answer)
    \/ PutRefused(x, u, answer)
    \/ Put(x, u, answer)
    \/ PutNotStored(x, u, answer)

Next ==
    \/ \E x \in Request, u \in User, answer \in Answers(VerifyInput) : Serve(x, u, answer)
    \/ Lost \/ Redeploy
    \/ Produce \/ Forward \/ Commit \/ Restart

Spec == Init /\ [][Next]_vars

-----------------------------------------------------------------------------
(* Unless a PUT failed halfway, a container's environment is, but for its  *)
(* group, the one a redeployment would compute from the document: no       *)
(* restart of the manager changes what is forwarded, or where to.          *)
RedeployEquivalent ==
    failed = 0 /\ stored # NoInstance /\ container # NoContainer
        => container = EnvOf(stored, container.group)

(* getEnv accepts every stored instance when it does not verify: startup   *)
(* never gives up because of an instance it has once accepted.             *)
StoredAccepted == stored # NoInstance => Code(stored.settings, "found") = 200

(* As long as an instance uses the default broker, its messages are        *)
(* published below the topic of the user who created it, whoever updates   *)
(* or redeploys it.                                                        *)
OwnersTopic ==
    [][/\ stored # NoInstance /\ stored'.settings.broker = NoValue
       /\ failed' = 0 /\ container' # NoContainer
       => \A k \in DOMAIN container'.mapping :
             container'.mapping[k].topic[1] = OwnTopic(stored.owner)]_vars

Covers ==
    \A m \in 0 .. next - 1 :
        (\A query \in filters : Passes(query, log[m + 1]))
            => <<m, stored.settings.values>> \in forwarded

(* An instance that is to be read from the start has every message before  *)
(* its container's position forwarded with its present values, unless a    *)
(* filter it had meanwhile kept it back, while the container reads in the  *)
(* group of the PUT that set offset or values last, through all restarts   *)
(* of the container and PUTs that fail.  A PUT that changes the filter only*)
(* stays in that group: what the former filter kept back is never          *)
(* forwarded.  In another group the code does not keep even this: a PUT    *)
(* that changes neither offset nor values, and a redeployment, go back to  *)
(* group 0 and resume where the former values had got to.                  *)
CoveredAtHome ==
    /\ stored # NoInstance /\ container # NoContainer
    /\ stored.settings.offset = "smallest"
    /\ container.group = home
    => Covers

(* A changed offset takes effect: after the PUT the container reads from   *)
(* the end of the topic that the document names, whatever was committed.   *)
OffsetTakesEffect ==
    [][stored # NoInstance /\ stored'.settings.offset # stored.settings.offset
        => next' = IF stored'.settings.offset = "smallest" THEN 0 ELSE Len(log)]_vars

=============================================================================
