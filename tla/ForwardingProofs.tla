-------------------------- MODULE ForwardingProofs --------------------------
(***************************************************************************)
(* Theorems about module Forwarding, for any set of requests, users and    *)
(* values and any bounds.                                                  *)
(***************************************************************************)
EXTENDS Forwarding, TLAPS

USE EnvAssumption, ForwardingAssumption

-----------------------------------------------------------------------------
(* getEnv.                                                                 *)

(* Completing a base topic twice is completing it once.                    *)
LEMMA SlashedTwice ==
    ASSUME NEW t \in BaseTopic
    PROVE  Slashed(t) \in BaseTopic /\ Slashed(Slashed(t)) = Slashed(t)
  BY DEF Slashed, BaseTopic

LEMMA CompletedTwice ==
    ASSUME NEW x \in Settings
    PROVE  Completed(Completed(x)) = Completed(x)
  <1>1. CASE x.broker # NoValue /\ x.base # NoValue
    <2>1. x.base \in BaseTopic
      BY <1>1 DEF Settings
    <2>2. Slashed(x.base) \in BaseTopic /\ Slashed(Slashed(x.base)) = Slashed(x.base)
      BY <2>1, SlashedTwice
    <2>3. Completed(x) = [x EXCEPT !.base = Slashed(x.base)]
      BY <1>1 DEF Completed
    <2>4. Slashed(x.base) # NoValue
      BY <2>2 DEF BaseTopic
    <2> DEFINE y == [x EXCEPT !.base = Slashed(x.base)]
    <2>5. y.broker = x.broker /\ y.base = Slashed(x.base)
      BY DEF Settings
    <2>6. Completed(y) = [y EXCEPT !.base = Slashed(y.base)]
      BY <1>1, <2>4, <2>5 DEF Completed
    <2>7. [y EXCEPT !.base = Slashed(y.base)] = y
      BY <2>2, <2>5 DEF Settings
    <2> QED BY <2>3, <2>6, <2>7
  <1>2. CASE ~(x.broker # NoValue /\ x.base # NoValue)
    BY <1>2 DEF Completed
  <1> QED BY <1>1, <1>2

(* Completing changes nothing but the base topic.                          *)
LEMMA CompletedFields ==
    ASSUME NEW x \in Settings
    PROVE  /\ Completed(x) \in Settings
           /\ Completed(x).filterType = x.filterType
           /\ Completed(x).filter = x.filter
           /\ Completed(x).offset = x.offset
           /\ Completed(x).values = x.values
           /\ Completed(x).broker = x.broker
           /\ Completed(x).user = x.user
           /\ Completed(x).pw = x.pw
  <1>1. CASE x.broker # NoValue /\ x.base # NoValue
    <2>1. x.base \in BaseTopic
      BY <1>1 DEF Settings
    <2>2. Slashed(x.base) \in BaseTopic
      BY <2>1, SlashedTwice
    <2> QED BY <1>1, <2>2 DEF Completed, Settings
  <1>2. CASE ~(x.broker # NoValue /\ x.base # NoValue)
    BY <1>2 DEF Completed
  <1> QED BY <1>1, <1>2

LEMMA CompletedBase ==
    ASSUME NEW x \in Settings, NEW u
    PROVE  TopicBase(Completed(x), u) = TopicBase(x, u)
  <1>1. CASE x.broker # NoValue /\ x.base # NoValue
    <2>1. x.base \in BaseTopic
      BY <1>1 DEF Settings
    <2>2. Slashed(x.base) \in BaseTopic /\ Slashed(Slashed(x.base)) = Slashed(x.base)
      BY <2>1, SlashedTwice
    <2>3. Slashed(x.base) # NoValue
      BY <2>2 DEF BaseTopic
    <2>4. Completed(x).base = Slashed(x.base) /\ Completed(x).broker = x.broker
      BY <1>1 DEF Completed, Settings
    <2> QED BY <1>1, <2>2, <2>3, <2>4 DEF TopicBase
  <1>2. CASE ~(x.broker # NoValue /\ x.base # NoValue)
    BY <1>2 DEF Completed
  <1> QED BY <1>1, <1>2

(* The stored instance, which getEnv has completed, has the environment of *)
(* the one that was sent.                                                  *)
LEMMA CompletedEnv ==
    ASSUME NEW x \in Settings, NEW u
    PROVE  GetEnv(Completed(x), u) = GetEnv(x, u)
  <1>1. FilterQuery(Completed(x)) = FilterQuery(x)
    BY CompletedFields DEF FilterQuery
  <1>2. Connection(Completed(x)) = Connection(x)
    BY CompletedFields DEF Connection
  <1>3. Mapping(Completed(x), u) = Mapping(x, u)
    BY CompletedFields, CompletedBase DEF Mapping
  <1> QED BY <1>1, <1>2, <1>3, CompletedFields DEF GetEnv

(* What is accepted is accepted again, completed and unverified.           *)
LEMMA CompletedAccepted ==
    ASSUME NEW x \in Settings, NEW answer, Code(x, answer) = 200
    PROVE  Code(Completed(x), "found") = 200
  <1>1. FilterCode(x, answer) = 200 /\ BrokerCode(x) = 200
    BY DEF Code, BrokerCode
  <1>2. FilterCode(Completed(x), "found") = 200
    BY <1>1, CompletedFields DEF FilterCode
  <1>3. BrokerCode(Completed(x)) = 200
    <2>1. CASE x.broker = NoValue
      BY <1>1, <2>1 DEF Completed
    <2>2. CASE x.broker # NoValue
      BY <2>2, CompletedFields DEF BrokerCode
    <2> QED BY <2>1, <2>2
  <1> QED BY <1>2, <1>3 DEF Code

(* A container forwards the values of the instance it was started for.     *)
LEMMA EnvFields ==
    ASSUME NEW x \in Settings, NEW u, NEW g
    PROVE  /\ InGroup(GetEnv(x, u), g).group = g
           /\ InGroup(GetEnv(x, u), g).offset = x.offset
           /\ ValuesOf(InGroup(GetEnv(x, u), g)) = x.values
  <1>1. x.values \in Seq(Value)
    BY DEF Settings
  <1>2. x.values = [k \in DOMAIN x.values |-> x.values[k]]
    BY <1>1
  <1>3. Mapping(x, u) = [k \in DOMAIN x.values |->
                            [query |-> x.values[k],
                             topic |-> <<TopicBase(x, u), x.values[k]>>]]
    BY DEF Mapping
  <1> DEFINE e == InGroup(GetEnv(x, u), g)
  <1>4. e.mapping = Mapping(x, u) /\ e.group = g /\ e.offset = x.offset
    BY DEF GetEnv, InGroup
  <1>5. ValuesOf(e) = [k \in DOMAIN x.values |-> x.values[k]]
    BY <1>3, <1>4 DEF ValuesOf
  <1> QED BY <1>2, <1>4, <1>5

LEMMA GetEnvIsGroup0 ==
    ASSUME NEW x, NEW u
    PROVE  GetEnv(x, u) = InGroup(GetEnv(x, u), 0)
  BY DEF GetEnv, InGroup

-----------------------------------------------------------------------------
(* Types.                                                                  *)

LEMMA DocumentFields ==
    ASSUME NEW d \in Document
    PROVE  d.settings \in Settings /\ d.owner \in User
  BY CompletedFields DEF Document

LEMMA UpdatedIsDocument ==
    ASSUME NEW x \in Request, NEW u, stored \in Document
    PROVE  Updated(x, u) \in Document
  BY DocumentFields DEF Updated, Document

LEMMA RedeployedIsDocument ==
    ASSUME stored \in Document
    PROVE  [stored EXCEPT !.settings = Completed(stored.settings)] \in Document
  <1>1. CASE stored.settings \in Request
    BY <1>1 DEF Document
  <1>2. CASE stored.settings \notin Request
    <2>1. PICK x \in Request : stored.settings = Completed(x)
      BY <1>2 DEF Document
    <2>2. Completed(stored.settings) = Completed(x)
      BY <2>1, CompletedTwice
    <2> QED BY <2>1, <2>2 DEF Document
  <1> QED BY <1>1, <1>2

LEMMA StartOffsetType ==
    ASSUME TypeOK, NEW e, e.group \in Group
    PROVE  StartOffset(e) \in 0 .. Len(log)
  BY DEF TypeOK, StartOffset, Uncommitted

LEMMA TypeInit == Init => TypeOK
  BY DEF Init, TypeOK, Group, Uncommitted

(* The group a new container reads in.                                     *)
LEMMA UpdateContainerType ==
    ASSUME TypeOK, puts < MaxPuts, NEW x \in Settings, NEW u, UpdateContainer(x, u)
    PROVE  /\ container'.group \in 0 .. groups'
           /\ next' \in 0 .. Len(log)
           /\ groups' \in {groups, groups + 1}
           /\ container'.group \in Group
  <1> DEFINE g == IF Refresh(stored.settings, x) THEN groups + 1 ELSE 0
             e == InGroup(GetEnv(x, u), g)
  <1>1. container' = e /\ next' = StartOffset(e)
        /\ groups' = IF Refresh(stored.settings, x) THEN groups + 1 ELSE groups
    BY DEF UpdateContainer, Started
  <1>2. e.group = g
    BY EnvFields
  <1>3. g \in 0 .. groups' /\ g \in Group /\ groups' \in {groups, groups + 1}
    BY <1>1 DEF TypeOK, Group
  <1>4. StartOffset(e) \in 0 .. Len(log)
    <2> HIDE DEF e, g
    <2> QED BY <1>2, <1>3, StartOffsetType
  <1> QED BY <1>1, <1>2, <1>3, <1>4

LEMMA TypeStep == TypeOK /\ [Next]_vars => TypeOK'
  <1> SUFFICES ASSUME TypeOK, [Next]_vars PROVE TypeOK'
    OBVIOUS
  <1> USE DEF TypeOK, Group, Uncommitted
  <1>1. ASSUME NEW x \in Request, NEW u \in User, NEW answer, Post(x, u, answer)
        PROVE  TypeOK'
    <2>1. x \in Settings
      OBVIOUS
    <2>2. GetEnv(x, u).group = 0
      BY DEF GetEnv
    <2>3. StartOffset(GetEnv(x, u)) \in 0 .. Len(log)
      <3>1. GetEnv(x, u).group \in Group
        BY <2>2
      <3> QED BY <3>1, StartOffsetType
    <2>4. stored' \in Document
      BY <1>1 DEF Post, Document
    <2> QED BY <1>1, <2>2, <2>3, <2>4 DEF Post, Started
  <1>2. ASSUME NEW x \in Request, NEW u \in User, NEW answer, PutRefused(x, u, answer)
        PROVE  TypeOK'
    BY <1>2 DEF PutRefused
  <1>3. ASSUME NEW x \in Request, NEW u \in User, NEW answer, Put(x, u, answer)
        PROVE  TypeOK'
    <2>1. puts < MaxPuts /\ puts' = puts + 1 /\ stored \in Document
          /\ UNCHANGED <<committed, log, forwarded, failed>>
          /\ UpdateContainer(x, Updated(x, u).owner) /\ stored' = Updated(x, u)
          /\ home' \in {home, groups'}
      BY <1>3 DEF Put, PutAccepted
    <2>2. stored' \in Document
      BY <2>1, UpdatedIsDocument
    <2>3. container'.group \in 0 .. groups' /\ next' \in 0 .. Len(log)
          /\ groups' \in {groups, groups + 1}
      BY <2>1, UpdateContainerType
    <2> QED BY <2>1, <2>2, <2>3
  <1>4. ASSUME NEW x \in Request, NEW u \in User, NEW answer, PutNotStored(x, u, answer)
        PROVE  TypeOK'
    <2>1. puts < MaxPuts /\ puts' = puts + 1
          /\ UNCHANGED <<stored, home, committed, log, forwarded>>
          /\ UpdateContainer(x, Updated(x, u).owner)
          /\ failed < MaxFailed /\ failed' = failed + 1
      BY <1>4 DEF PutNotStored, PutAccepted
    <2>2. container'.group \in 0 .. groups' /\ next' \in 0 .. Len(log)
          /\ groups' \in {groups, groups + 1}
      BY <2>1, UpdateContainerType
    <2> QED BY <2>1, <2>2
  <1>5. CASE Lost
    BY <1>5 DEF Lost
  <1>6. CASE Redeploy
    <2> DEFINE e == GetEnv(stored.settings, stored.owner)
    <2>1. stored \in Document /\ stored.settings \in Settings
      BY <1>6, DocumentFields DEF Redeploy
    <2>2. e.group = 0
      BY DEF GetEnv
    <2>3. StartOffset(e) \in 0 .. Len(log)
      <3>1. e.group \in Group
        BY <2>2
      <3> HIDE DEF e
      <3> QED BY <3>1, StartOffsetType
    <2>4. stored' \in Document
      BY <1>6, <2>1, RedeployedIsDocument DEF Redeploy
    <2> QED BY <1>6, <2>2, <2>3, <2>4 DEF Redeploy, Started
  <1>7. CASE Produce
    <2>1. PICK m \in Message : log' = Append(log, m)
      BY <1>7 DEF Produce
    <2>2. log' \in Seq(Message) /\ Len(log') = Len(log) + 1 /\ Len(log) < MaxLog
      BY <1>7, <2>1 DEF Produce
    <2>3. UNCHANGED <<stored, container, next, committed, groups, forwarded, home,
                      filters, puts, failed>>
      BY <1>7 DEF Produce
    <2>4. next' \in 0 .. Len(log') /\ Len(log') \in 0 .. MaxLog
      BY <2>2, <2>3
    <2>5. committed' \in [Group -> (0 .. Len(log')) \cup {Uncommitted}]
      BY <2>2, <2>3
    <2>6. \A f \in forwarded : f[1] \in 0 .. Len(log') - 1
      BY <2>2
    <2> QED BY <2>2, <2>3, <2>4, <2>5, <2>6
  <1>8. CASE Forward
    BY <1>8 DEF Forward
  <1>9. CASE Commit
    BY <1>9 DEF Commit
  <1>10. CASE Restart
    <2>1. container.group \in Group
      BY <1>10 DEF Restart
    <2>2. StartOffset(container) \in 0 .. Len(log)
      BY <2>1, StartOffsetType
    <2> QED BY <1>10, <2>2 DEF Restart, Started
  <1>11. CASE UNCHANGED vars
    BY <1>11 DEF vars
  <1> QED BY <1>1, <1>2, <1>3, <1>4, <1>5, <1>6, <1>7, <1>8, <1>9, <1>10, <1>11
          DEF Next, Serve

(* Variables have their types, and no group beyond the last UUID has       *)
(* committed anything, for any number of requests and messages.            *)
THEOREM TypeCorrect == Spec => []TypeOK
  BY TypeInit, TypeStep, PTL DEF Spec

-----------------------------------------------------------------------------
(* What is stored is accepted, and is what a redeployment deploys.         *)

Agrees == TypeOK /\ StoredAccepted /\ RedeployEquivalent

LEMMA UpdatedEnv ==
    ASSUME NEW x \in Request, NEW u, NEW g
    PROVE  EnvOf(Updated(x, u), g) = InGroup(GetEnv(x, Updated(x, u).owner), g)
  <1>1. GetEnv(Completed(x), stored.owner) = GetEnv(x, stored.owner)
    BY CompletedEnv
  <1>2. Updated(x, u).settings = Completed(x) /\ Updated(x, u).owner = stored.owner
    BY DEF Updated
  <1> QED BY <1>1, <1>2 DEF EnvOf

LEMMA AgreesStep == Agrees /\ [Next]_vars => Agrees'
  <1> SUFFICES ASSUME Agrees, [Next]_vars PROVE StoredAccepted' /\ RedeployEquivalent'
    BY TypeStep DEF Agrees
  <1> USE DEF Agrees, StoredAccepted, RedeployEquivalent
  <1>1. ASSUME NEW x \in Request, NEW u \in User, NEW answer, Post(x, u, answer)
        PROVE  StoredAccepted' /\ RedeployEquivalent'
    <2> DEFINE d == [settings |-> Completed(x), owner |-> u]
    <2>1. stored' = d /\ container' = GetEnv(x, u) /\ Code(x, answer) = 200
      BY <1>1 DEF Post, Started
    <2>2. Code(Completed(x), "found") = 200
      BY <2>1, CompletedAccepted
    <2>3. GetEnv(Completed(x), u) = GetEnv(x, u)
      BY CompletedEnv
    <2>4. GetEnv(x, u) = InGroup(GetEnv(x, u), 0) /\ GetEnv(x, u).group = 0
      BY GetEnvIsGroup0 DEF GetEnv
    <2>5. EnvOf(d, 0) = GetEnv(x, u)
      BY <2>3, <2>4 DEF EnvOf
    <2> QED BY <2>1, <2>2, <2>4, <2>5 DEF EnvOf
  <1>2. ASSUME NEW x \in Request, NEW u \in User, NEW answer, PutRefused(x, u, answer)
        PROVE  StoredAccepted' /\ RedeployEquivalent'
    BY <1>2 DEF PutRefused, EnvOf
  <1>3. ASSUME NEW x \in Request, NEW u \in User, NEW answer, Put(x, u, answer)
        PROVE  StoredAccepted' /\ RedeployEquivalent'
    <2> DEFINE g == IF Refresh(stored.settings, x) THEN groups + 1 ELSE 0
               e == InGroup(GetEnv(x, Updated(x, u).owner), g)
    <2>1. stored' = Updated(x, u) /\ container' = e /\ Code(x, answer) = 200
      BY <1>3 DEF Put, PutAccepted, UpdateContainer, Started
    <2>2. Code(Updated(x, u).settings, "found") = 200
      BY <2>1, CompletedAccepted DEF Updated
    <2>3. EnvOf(Updated(x, u), g) = e /\ e.group = g
      BY UpdatedEnv, EnvFields
    <2> HIDE DEF e, g
    <2> QED BY <2>1, <2>2, <2>3 DEF EnvOf
  <1>4. ASSUME NEW x \in Request, NEW u \in User, NEW answer, PutNotStored(x, u, answer)
        PROVE  StoredAccepted' /\ RedeployEquivalent'
    BY <1>4 DEF PutNotStored, TypeOK
  <1>5. CASE Lost
    BY <1>5 DEF Lost
  <1>6. CASE Redeploy
    <2> DEFINE x == stored.settings
               o == stored.owner
    <2>1. stored \in Document /\ x \in Settings
      BY <1>6, DocumentFields DEF Redeploy, TypeOK
    <2>2. /\ stored' = [stored EXCEPT !.settings = Completed(x)]
          /\ container' = GetEnv(x, o) /\ Code(x, "found") = 200
      BY <1>6 DEF Redeploy, Started
    <2>3. stored'.settings = Completed(x) /\ stored'.owner = o
      BY <2>1, <2>2 DEF Document
    <2>4. Code(Completed(x), "found") = 200
      BY <2>1, <2>2, CompletedAccepted
    <2>5. GetEnv(Completed(x), o) = GetEnv(x, o)
      BY <2>1, CompletedEnv
    <2>6. GetEnv(x, o) = InGroup(GetEnv(x, o), 0) /\ GetEnv(x, o).group = 0
      BY GetEnvIsGroup0 DEF GetEnv
    <2>7. EnvOf(stored', 0) = GetEnv(x, o)
      BY <2>3, <2>5, <2>6 DEF EnvOf
    <2> HIDE DEF x, o
    <2> QED BY <2>2, <2>3, <2>4, <2>6, <2>7
  <1>7. CASE Produce
    BY <1>7 DEF Produce
  <1>8. CASE Forward
    BY <1>8 DEF Forward
  <1>9. CASE Commit
    BY <1>9 DEF Commit
  <1>10. CASE Restart
    BY <1>10 DEF Restart, Started
  <1>11. CASE UNCHANGED vars
    BY <1>11 DEF vars
  <1> QED BY <1>1, <1>2, <1>3, <1>4, <1>5, <1>6, <1>7, <1>8, <1>9, <1>10, <1>11
          DEF Next, Serve

LEMMA AgreesInit == Init => Agrees
  BY TypeInit DEF Init, Agrees, StoredAccepted, RedeployEquivalent

(* Whatever is created, updated and refused, startup's getEnv never fails  *)
(* for a stored instance.                                                  *)
THEOREM StoredAcceptedHolds == Spec => []StoredAccepted
  <1>1. Agrees => StoredAccepted
    BY DEF Agrees
  <1> QED BY AgreesInit, AgreesStep, <1>1, PTL DEF Spec

(* A redeployment computes the environment that was last deployed, but for *)
(* the group: completing a base topic in the stored instance is idempotent *)
(* and the owner stays.                                                    *)
THEOREM RedeployEquivalentHolds == Spec => []RedeployEquivalent
  <1>1. Agrees => RedeployEquivalent
    BY DEF Agrees
  <1> QED BY AgreesInit, AgreesStep, <1>1, PTL DEF Spec

-----------------------------------------------------------------------------
(* What was forwarded with the present values.                             *)

FromStart == stored # NoInstance /\ stored.settings.offset = "smallest"

(* What all the filters pass of the first n messages was forwarded.        *)
CoveredBy(n, queries, messages, values, done) ==
    \A m \in 0 .. n - 1 :
        (\A query \in queries : Passes(query, messages[m + 1])) => <<m, values>> \in done

Covered(n) == CoveredBy(n, filters, log, stored.settings.values, forwarded)

(* The commits of the home group stand for messages with the present       *)
(* values, however often containers restarted in it ...                    *)
HomeCommits ==
    FromStart /\ committed[home] # Uncommitted => Covered(committed[home])

(* ... and a container in the home group, be it one of a PUT that failed,  *)
(* has the present values, reads from the start, and its filter is counted.*)
HomeContainer ==
    FromStart /\ container # NoContainer /\ container.group = home =>
        /\ container.offset = "smallest"
        /\ ValuesOf(container) = stored.settings.values
        /\ container.filter \in filters
        /\ Covered(next)

(* Before the instance is created nothing is committed.                    *)
Blank == stored = NoInstance => committed[home] = Uncommitted /\ container = NoContainer

Covering == TypeOK /\ Blank /\ HomeCommits /\ HomeContainer

LEMMA CoveredNone ==
    ASSUME NEW queries, NEW messages, NEW values, NEW done
    PROVE  CoveredBy(0, queries, messages, values, done)
  BY DEF CoveredBy

(* Another filter asks for less, and other messages come later.            *)
LEMMA CoveredStill ==
    ASSUME NEW n, NEW queries, NEW messages, NEW values, NEW done,
           NEW queries2, NEW messages2, NEW done2,
           CoveredBy(n, queries, messages, values, done),
           queries \subseteq queries2, done \subseteq done2,
           \A m \in 0 .. n - 1 : messages2[m + 1] = messages[m + 1]
    PROVE  CoveredBy(n, queries2, messages2, values, done2)
  BY DEF CoveredBy

(* A container for the present values that starts in the home group.       *)
LEMMA StartedCovered ==
    ASSUME Covering, FromStart, NEW e, e.group = home, e.offset = "smallest"
    PROVE  Covered(StartOffset(e))
  <1>1. CASE committed[home] # Uncommitted
    BY <1>1 DEF Covering, HomeCommits, StartOffset
  <1>2. CASE committed[home] = Uncommitted
    BY <1>2, CoveredNone DEF StartOffset, Covered
  <1> QED BY <1>1, <1>2

LEMMA NotedAtHome ==
    ASSUME Noted, home' = home
    PROVE  /\ filters \subseteq filters'
           /\ container'.group = home' => container'.filter \in filters'
  BY DEF Noted

(* A step that starts no other home group, forgets no filter and leaves    *)
(* the messages that were forwarded.                                       *)
LEMMA HomeKept ==
    ASSUME Covering, home' = home, UNCHANGED <<committed, log, forwarded>>,
           filters \subseteq filters',
           FromStart' => FromStart /\ stored'.settings.values = stored.settings.values
    PROVE  /\ HomeCommits'
           /\ \A n : FromStart' /\ Covered(n) =>
                CoveredBy(n, filters', log', stored'.settings.values, forwarded')
  <1>1. ASSUME NEW n, FromStart', Covered(n)
        PROVE  CoveredBy(n, filters', log', stored'.settings.values, forwarded')
    <2>1. CoveredBy(n, filters, log, stored'.settings.values, forwarded)
      BY <1>1 DEF Covered
    <2> QED BY <2>1, CoveredStill
  <1>2. HomeCommits'
    <2> SUFFICES ASSUME FromStart', committed[home] # Uncommitted
                 PROVE  Covered(committed[home])'
      BY DEF HomeCommits, Uncommitted
    <2>1. Covered(committed[home])
      BY DEF Covering, HomeCommits
    <2> DEFINE c == committed[home]
    <2>2. c' = c
      OBVIOUS
    <2>3. CoveredBy(c, filters', log', stored'.settings.values, forwarded')
      BY <1>1, <2>1
    <2> QED BY <2>2, <2>3 DEF Covered
  <1> QED BY <1>1, <1>2

LEMMA CoveringInit == Init => Covering
  BY TypeInit DEF Init, Covering, Blank, HomeCommits, HomeContainer, FromStart, TypeOK, Group

(* A container is started, and the home group stays: if it starts in that  *)
(* group it is for the present values.                                     *)
LEMMA RestartedHome ==
    ASSUME Covering, NEW e, container' = e, next' = StartOffset(e), Noted,
           home' = home, UNCHANGED <<committed, log, forwarded>>,
           FromStart' => FromStart /\ stored'.settings.values = stored.settings.values,
           FromStart' /\ e.group = home =>
               e.offset = "smallest" /\ ValuesOf(e) = stored'.settings.values
    PROVE  HomeCommits' /\ HomeContainer'
  <1>1. /\ filters \subseteq filters'
        /\ container'.group = home' => container'.filter \in filters'
    BY NotedAtHome
  <1>2. /\ HomeCommits'
        /\ \A n : FromStart' /\ Covered(n) =>
             CoveredBy(n, filters', log', stored'.settings.values, forwarded')
    BY <1>1, HomeKept
  <1>3. ASSUME FromStart', e.group = home
        PROVE  Covered(next)'
    <2>1. Covered(StartOffset(e))
      BY <1>3, StartedCovered
    <2>2. CoveredBy(next', filters', log', stored'.settings.values, forwarded')
      BY <1>2, <1>3, <2>1
    <2> QED BY <2>2 DEF Covered
  <1> QED BY <1>1, <1>2, <1>3 DEF HomeContainer

(* PUTs.                                                                   *)
LEMMA PutCovering ==
    ASSUME Covering, TypeOK', NEW x \in Request, NEW u, NEW answer, Put(x, u, answer)
    PROVE  HomeCommits' /\ HomeContainer'
  <1> DEFINE fresh == Refresh(stored.settings, x)
             g == IF fresh THEN groups + 1 ELSE 0
             e == InGroup(GetEnv(x, Updated(x, u).owner), g)
  <1>1. /\ stored # NoInstance /\ puts < MaxPuts
        /\ stored' = Updated(x, u) /\ container' = e /\ next' = StartOffset(e)
        /\ groups' = IF fresh THEN groups + 1 ELSE groups
        /\ home' = IF fresh THEN groups' ELSE home
        /\ UNCHANGED <<committed, log, forwarded>>
        /\ Noted
    BY DEF Put, PutAccepted, UpdateContainer, Started
  <1>2. x \in Settings
    OBVIOUS
  <1>3. e.group = g /\ e.offset = x.offset /\ ValuesOf(e) = x.values
    <2> HIDE DEF g
    <2> QED BY <1>2, EnvFields
  <1>4. stored'.settings.offset = x.offset /\ stored'.settings.values = x.values
    BY <1>1, <1>2, CompletedFields DEF Updated
  <1>5. ASSUME fresh
        PROVE  HomeCommits' /\ HomeContainer'
    <2>1. home' = groups + 1 /\ groups + 1 \in Group /\ home' # home
          /\ e.group = groups + 1
      BY <1>1, <1>3, <1>5 DEF Covering, TypeOK, Group
    <2>2. committed[groups + 1] = Uncommitted
      BY <2>1 DEF Covering, TypeOK
    <2>3. HomeCommits'
      BY <1>1, <2>1, <2>2 DEF HomeCommits, Uncommitted
    <2> HIDE DEF e
    <2>4. x.offset = "smallest" => StartOffset(e) = 0
      BY <1>3, <2>1, <2>2 DEF StartOffset
    <2>5. container'.filter \in filters'
      BY <1>1, <2>1 DEF Noted
    <2>6. x.offset = "smallest" => Covered(next)'
      BY <1>1, <2>4, CoveredNone DEF Covered
    <2>7. HomeContainer'
      BY <1>1, <1>3, <1>4, <2>5, <2>6 DEF HomeContainer, FromStart
    <2> QED BY <2>3, <2>7
  <1>6. ASSUME ~fresh
        PROVE  HomeCommits' /\ HomeContainer'
    <2>1. stored.settings.offset = x.offset
      BY <1>6 DEF Refresh
    <2>2. x.offset = "smallest" => stored.settings.values = x.values
      BY <1>6, <2>1 DEF Refresh
    <2>3. FromStart' => FromStart /\ stored'.settings.values = stored.settings.values
      BY <1>1, <1>4, <2>1, <2>2 DEF FromStart
    <2>4. home' = home
      BY <1>1, <1>6
    <2> HIDE DEF e
    <2>5. FromStart' => e.offset = "smallest" /\ ValuesOf(e) = stored'.settings.values
      BY <1>3, <1>4 DEF FromStart
    <2> QED BY <1>1, <2>3, <2>4, <2>5, RestartedHome
  <1> QED BY <1>5, <1>6

LEMMA PutNotStoredCovering ==
    ASSUME Covering, TypeOK', NEW x \in Request, NEW u, NEW answer,
           PutNotStored(x, u, answer)
    PROVE  HomeCommits' /\ HomeContainer'
  <1> DEFINE fresh == Refresh(stored.settings, x)
             g == IF fresh THEN groups + 1 ELSE 0
             e == InGroup(GetEnv(x, Updated(x, u).owner), g)
  <1>1. /\ container' = e /\ next' = StartOffset(e) /\ Noted
        /\ UNCHANGED <<stored, home, committed, log, forwarded>>
    BY DEF PutNotStored, PutAccepted, UpdateContainer, Started
  <1>2. x \in Settings
    OBVIOUS
  <1>3. e.group = g /\ e.offset = x.offset /\ ValuesOf(e) = x.values
    <2> HIDE DEF g
    <2> QED BY <1>2, EnvFields
  <1>4. FromStart' /\ e.group = home =>
            e.offset = "smallest" /\ ValuesOf(e) = stored'.settings.values
    <2> SUFFICES ASSUME FromStart, e.group = home
                 PROVE  x.offset = "smallest" /\ x.values = stored.settings.values
      BY <1>1, <1>3 DEF FromStart
    <2>1. ~fresh
      BY <1>3 DEF Covering, TypeOK
    <2> QED BY <2>1 DEF Refresh, FromStart
  <1>5. FromStart' => FromStart
    BY <1>1 DEF FromStart
  <1> HIDE DEF e
  <1> QED BY <1>1, <1>4, <1>5, RestartedHome

(* POST: home is still group 0, and nothing is committed.                  *)
LEMMA PostCovering ==
    ASSUME Covering, NEW x \in Request, NEW u, NEW answer, Post(x, u, answer)
    PROVE  HomeCommits' /\ HomeContainer'
  <1> DEFINE e == GetEnv(x, u)
  <1>1. /\ container' = e /\ next' = StartOffset(e)
        /\ stored' = [settings |-> Completed(x), owner |-> u]
        /\ UNCHANGED <<committed, groups, log, forwarded, home>>
        /\ committed[home] = Uncommitted
        /\ Noted
    BY DEF Post, Started, Covering, Blank
  <1>2. stored'.settings.offset = x.offset /\ stored'.settings.values = x.values
    BY <1>1, CompletedFields
  <1>3. e = InGroup(GetEnv(x, u), 0)
    BY GetEnvIsGroup0
  <1>4. e.group = 0 /\ e.offset = x.offset /\ ValuesOf(e) = x.values
    BY <1>3, EnvFields
  <1>5. HomeCommits'
    BY <1>1 DEF HomeCommits, Uncommitted
  <1>6. container'.group = home' => container'.filter \in filters'
    BY <1>1, NotedAtHome
  <1> HIDE DEF e
  <1>7. x.offset = "smallest" /\ e.group = home => StartOffset(e) = 0
    BY <1>1, <1>4 DEF StartOffset
  <1>8. x.offset = "smallest" /\ e.group = home => Covered(next)'
    BY <1>1, <1>7, CoveredNone DEF Covered
  <1>9. HomeContainer'
    BY <1>1, <1>2, <1>4, <1>6, <1>8 DEF HomeContainer, FromStart
  <1> QED BY <1>5, <1>9

LEMMA RedeployCovering ==
    ASSUME Covering, Redeploy
    PROVE  HomeCommits' /\ HomeContainer'
  <1> DEFINE x == stored.settings
             e == GetEnv(x, stored.owner)
  <1>1. stored \in Document /\ x \in Settings
    BY DocumentFields DEF Redeploy, Covering, TypeOK
  <1>2. /\ container' = e /\ next' = StartOffset(e) /\ stored # NoInstance
        /\ stored' = [stored EXCEPT !.settings = Completed(x)]
        /\ UNCHANGED <<committed, log, forwarded, home>>
        /\ Noted
    BY DEF Redeploy, Started
  <1>3. stored'.settings.offset = x.offset /\ stored'.settings.values = x.values
    BY <1>1, <1>2, CompletedFields DEF Document
  <1>4. e.group = 0 /\ e.offset = x.offset /\ ValuesOf(e) = x.values
    <2>1. e = InGroup(e, 0)
      BY GetEnvIsGroup0
    <2> HIDE DEF x
    <2> QED BY <1>1, <2>1, EnvFields
  <1>5. FromStart' => FromStart /\ e.offset = "smallest"
                      /\ stored'.settings.values = stored.settings.values
    BY <1>2, <1>3, <1>4 DEF FromStart
  <1> HIDE DEF e
  <1> QED BY <1>2, <1>3, <1>4, <1>5, RestartedHome

LEMMA ForwardCovering ==
    ASSUME Covering, Forward
    PROVE  HomeCommits' /\ HomeContainer'
  <1>1. /\ container # NoContainer /\ next \in Nat
        /\ forwarded' = IF Passes(container.filter, log[next + 1])
                        THEN forwarded \cup {<<next, ValuesOf(container)>>}
                        ELSE forwarded
        /\ next' = next + 1
        /\ UNCHANGED <<stored, container, committed, log, home, filters>>
    BY DEF Forward, Covering, TypeOK
  <1>2. forwarded \subseteq forwarded'
    BY <1>1
  <1>3. HomeCommits'
    <2> SUFFICES ASSUME FromStart, committed[home] # Uncommitted
                 PROVE  CoveredBy(committed[home], filters, log, stored.settings.values,
                                  forwarded')
      BY <1>1 DEF HomeCommits, FromStart, Covered, Uncommitted
    <2>1. CoveredBy(committed[home], filters, log, stored.settings.values, forwarded)
      BY DEF Covering, HomeCommits, Covered
    <2> QED BY <1>2, <2>1, CoveredStill
  <1>4. ASSUME FromStart, container.group = home
        PROVE  /\ container.offset = "smallest" /\ container.filter \in filters
               /\ ValuesOf(container) = stored.settings.values
               /\ CoveredBy(next + 1, filters, log, stored.settings.values, forwarded')
    <2>1. /\ container.offset = "smallest" /\ container.filter \in filters
          /\ ValuesOf(container) = stored.settings.values
          /\ CoveredBy(next, filters, log, stored.settings.values, forwarded)
      BY <1>1, <1>4 DEF Covering, HomeContainer, Covered
    <2> QED BY <1>1, <2>1 DEF CoveredBy
  <1>5. HomeContainer'
    BY <1>1, <1>4 DEF HomeContainer, FromStart, Covered
  <1> QED BY <1>3, <1>5

(* New messages come after those that are covered.                         *)
LEMMA ProduceCovering ==
    ASSUME Covering, Produce
    PROVE  HomeCommits' /\ HomeContainer'
  <1>1. /\ UNCHANGED <<stored, container, next, committed, forwarded, home, filters>>
        /\ log \in Seq(Message) /\ next \in 0 .. Len(log)
        /\ \E m \in Message : log' = Append(log, m)
    BY DEF Produce, Covering, TypeOK
  <1>2. ASSUME NEW n \in 0 .. Len(log), Covered(n)
        PROVE  CoveredBy(n, filters, log', stored.settings.values, forwarded)
    <2>1. \A m \in 0 .. n - 1 : log'[m + 1] = log[m + 1]
      BY <1>1
    <2> QED BY <1>2, <2>1, CoveredStill DEF Covered
  <1>3. HomeCommits'
    <2> SUFFICES ASSUME FromStart, committed[home] # Uncommitted
                 PROVE  CoveredBy(committed[home], filters, log', stored.settings.values,
                                  forwarded)
      BY <1>1 DEF HomeCommits, FromStart, Covered, Uncommitted
    <2>1. Covered(committed[home])
      BY DEF Covering, HomeCommits
    <2>2. committed[home] \in 0 .. Len(log)
      <3>1. home \in Group
        BY DEF Covering, TypeOK, Group
      <3> QED BY <3>1 DEF Covering, TypeOK
    <2> QED BY <1>2, <2>1, <2>2
  <1>4. HomeContainer'
    BY <1>1, <1>2 DEF Covering, HomeContainer, FromStart, Covered
  <1> QED BY <1>3, <1>4

LEMMA BlankStep == Covering /\ [Next]_vars => Blank'
  <1> SUFFICES ASSUME Covering, [Next]_vars, stored' = NoInstance
               PROVE  committed'[home'] = Uncommitted /\ container' = NoContainer
    BY DEF Blank, Uncommitted
  <1> USE DEF Covering, Blank
  <1>1. ASSUME NEW x \in Request, NEW u \in User, NEW answer, Serve(x, u, answer)
        PROVE  UNCHANGED <<stored, committed, home, container>>
    <2>1. ~Post(x, u, answer)
      BY DEF Post, Document
    <2>2. ~Put(x, u, answer)
      <3> SUFFICES ASSUME Put(x, u, answer) PROVE FALSE
        OBVIOUS
      <3>1. stored' = Updated(x, u) /\ stored \in Document
        BY DEF Put, PutAccepted, TypeOK
      <3> QED BY <3>1, UpdatedIsDocument
    <2>3. ~PutNotStored(x, u, answer)
      BY DEF PutNotStored, PutAccepted
    <2> QED BY <1>1, <2>1, <2>2, <2>3 DEF Serve, PutRefused
  <1>2. ~Redeploy
    <2> SUFFICES ASSUME Redeploy PROVE FALSE
      OBVIOUS
    <2>1. stored \in Document /\ stored' = [stored EXCEPT !.settings = Completed(stored.settings)]
      BY DEF Redeploy, TypeOK
    <2>2. TypeOK'
      BY TypeStep
    <2>3. stored # NoInstance /\ NoInstance \notin Document
      BY DEF Redeploy
    <2> QED BY <2>1, <2>2, <2>3, RedeployedIsDocument
  <1>3. CASE UNCHANGED <<stored, committed, home, container>>
    BY <1>3 DEF Uncommitted
  <1>4. CASE Lost \/ Produce \/ Forward \/ Commit \/ Restart
    BY <1>4 DEF Lost, Produce, Forward, Commit, Restart, Uncommitted
  <1>5. CASE UNCHANGED vars
    BY <1>3, <1>5 DEF vars
  <1> QED BY <1>1, <1>2, <1>3, <1>4, <1>5 DEF Next

LEMMA CoveringStep == Covering /\ [Next]_vars => Covering'
  <1> SUFFICES ASSUME Covering, [Next]_vars PROVE HomeCommits' /\ HomeContainer'
    BY TypeStep, BlankStep DEF Covering
  <1>0. TypeOK'
    BY TypeStep DEF Covering
  <1>1. ASSUME NEW x \in Request, NEW u \in User, NEW answer, Post(x, u, answer)
        PROVE  HomeCommits' /\ HomeContainer'
    BY <1>1, PostCovering
  <1>2. ASSUME NEW x \in Request, NEW u \in User, NEW answer, PutRefused(x, u, answer)
        PROVE  HomeCommits' /\ HomeContainer'
    BY <1>2 DEF PutRefused, Covering, HomeCommits, HomeContainer, FromStart, Covered, Uncommitted
  <1>3. ASSUME NEW x \in Request, NEW u \in User, NEW answer, Put(x, u, answer)
        PROVE  HomeCommits' /\ HomeContainer'
    BY <1>0, <1>3, PutCovering
  <1>4. ASSUME NEW x \in Request, NEW u \in User, NEW answer, PutNotStored(x, u, answer)
        PROVE  HomeCommits' /\ HomeContainer'
    BY <1>0, <1>4, PutNotStoredCovering
  <1>5. CASE Lost
    BY <1>5 DEF Lost, Covering, HomeCommits, HomeContainer, FromStart, Covered, Uncommitted
  <1>6. CASE Redeploy
    BY <1>6, RedeployCovering
  <1>7. CASE Produce
    BY <1>7, ProduceCovering
  <1>8. CASE Forward
    BY <1>8, ForwardCovering
  <1>9. CASE Commit
    <2>1. HomeContainer'
      BY <1>9 DEF Commit, Covering, HomeContainer, FromStart, Covered
    <2>2. HomeCommits'
      BY <1>9 DEF Commit, Covering, TypeOK, Group, HomeCommits, HomeContainer, FromStart,
                  Covered, Uncommitted
    <2> QED BY <2>1, <2>2
  <1>10. CASE Restart
    <2>1. HomeCommits'
      BY <1>10 DEF Restart, Covering, HomeCommits, FromStart, Covered, Uncommitted
    <2>2. HomeContainer'
      <3> SUFFICES ASSUME FromStart, container # NoContainer, container.group = home
                   PROVE  /\ container.offset = "smallest"
                          /\ ValuesOf(container) = stored.settings.values
                          /\ container.filter \in filters
                          /\ Covered(StartOffset(container))
        BY <1>10 DEF Restart, Started, HomeContainer, FromStart, Covered
      <3> QED BY StartedCovered DEF Covering, HomeContainer
    <2> QED BY <2>1, <2>2
  <1>11. CASE UNCHANGED vars
    BY <1>11 DEF vars, Covering, HomeCommits, HomeContainer, FromStart, Covered, Uncommitted
  <1> QED BY <1>1, <1>2, <1>3, <1>4, <1>5, <1>6, <1>7, <1>8, <1>9, <1>10, <1>11
          DEF Next, Serve

(* Every message before the position of a container in the home group was  *)
(* forwarded with the present values, unless a filter that was used in the *)
(* group kept it back: through any number of PUTs, failed PUTs, restarts   *)
(* and redeployments.                                                      *)
THEOREM CoveredAtHomeHolds == Spec => []CoveredAtHome
  <1>1. Covering => CoveredAtHome
    BY DEF Covering, HomeContainer, CoveredAtHome, Covers, Covered, CoveredBy,
       FromStart
  <1> QED BY CoveringInit, CoveringStep, <1>1, PTL DEF Spec

-----------------------------------------------------------------------------
(* What a step does to a stored instance.                                  *)

(* The owner stays, and no step but a stored PUT changes the offset.       *)
LEMMA StoredSteps ==
    ASSUME TypeOK, [Next]_vars, stored # NoInstance
    PROVE  /\ stored' \in Document
           /\ stored'.owner = stored.owner
           /\ \/ stored'.settings.offset = stored.settings.offset
              \/ \E x \in Request, u \in User, answer \in Answers(VerifyInput) :
                    Put(x, u, answer)
  <1>1. stored \in Document /\ stored.settings \in Settings
    BY DocumentFields DEF TypeOK
  <1>2. CASE UNCHANGED stored
    BY <1>1, <1>2
  <1>3. ASSUME NEW x \in Request, NEW u \in User, NEW answer \in Answers(VerifyInput),
               Serve(x, u, answer)
        PROVE  UNCHANGED stored \/ Put(x, u, answer)
    BY <1>3 DEF Serve, Post, PutRefused, PutNotStored
  <1>4. ASSUME NEW x \in Request, NEW u \in User, NEW answer \in Answers(VerifyInput),
               Put(x, u, answer)
        PROVE  stored' \in Document /\ stored'.owner = stored.owner
    BY <1>1, <1>4, UpdatedIsDocument DEF Put, Updated
  <1>5. CASE Redeploy
    <2>1. stored' = [stored EXCEPT !.settings = Completed(stored.settings)]
      BY <1>5 DEF Redeploy
    <2>2. stored'.owner = stored.owner /\ stored'.settings = Completed(stored.settings)
      BY <1>1, <2>1 DEF Document
    <2>3. Completed(stored.settings).offset = stored.settings.offset
      BY <1>1, CompletedFields
    <2> QED BY <1>1, <2>1, <2>2, <2>3, RedeployedIsDocument
  <1>6. CASE Lost \/ Produce \/ Forward \/ Commit \/ Restart \/ UNCHANGED vars
    BY <1>2, <1>6 DEF Lost, Produce, Forward, Commit, Restart, vars
  <1> QED BY <1>2, <1>3, <1>4, <1>5, <1>6 DEF Next

(* An environment that uses the default broker publishes below the topic   *)
(* of the document's owner.                                                *)
LEMMA DefaultTopic ==
    ASSUME NEW d \in Document, d.settings.broker = NoValue, NEW g,
           NEW k \in DOMAIN EnvOf(d, g).mapping
    PROVE  EnvOf(d, g).mapping[k].topic[1] = OwnTopic(d.owner)
  <1>1. EnvOf(d, g).mapping = Mapping(d.settings, d.owner)
    BY DEF EnvOf, InGroup, GetEnv
  <1>2. k \in DOMAIN d.settings.values
    BY <1>1 DEF Mapping
  <1>3. EnvOf(d, g).mapping[k].topic = <<TopicBase(d.settings, d.owner), d.settings.values[k]>>
    BY <1>1, <1>2 DEF Mapping
  <1> QED BY <1>3 DEF TopicBase

(* Whoever updates or redeploys an instance on the default broker, its     *)
(* messages are published below the topic of the user who created it.      *)
THEOREM OwnersTopicHolds == Spec => OwnersTopic
  <1>1. ASSUME Agrees, Agrees', [Next]_vars,
               stored # NoInstance, stored'.settings.broker = NoValue,
               failed' = 0, container' # NoContainer,
               NEW k \in DOMAIN container'.mapping
        PROVE  container'.mapping[k].topic[1] = OwnTopic(stored.owner)
    <2>1. stored' \in Document /\ stored'.owner = stored.owner
      BY <1>1, StoredSteps DEF Agrees
    <2>2. container' = EnvOf(stored', container'.group)
      BY <1>1, <2>1 DEF Agrees, RedeployEquivalent
    <2> QED BY <1>1, <2>1, <2>2, DefaultTopic
  <1>2. Agrees /\ Agrees' /\ [Next]_vars =>
          [/\ stored # NoInstance /\ stored'.settings.broker = NoValue
           /\ failed' = 0 /\ container' # NoContainer
           => \A k \in DOMAIN container'.mapping :
                 container'.mapping[k].topic[1] = OwnTopic(stored.owner)]_vars
    BY <1>1
  <1> QED BY AgreesInit, AgreesStep, <1>2, PTL DEF Spec, OwnersTopic

(* A PUT that changes the offset has the container read in a group nobody  *)
(* has committed in, so from the end of the topic that it names.           *)
THEOREM OffsetTakesEffectHolds == Spec => OffsetTakesEffect
  <1>1. ASSUME TypeOK, [Next]_vars, stored # NoInstance,
               stored'.settings.offset # stored.settings.offset
        PROVE  next' = IF stored'.settings.offset = "smallest" THEN 0 ELSE Len(log)
    <2>1. PICK x \in Request, u \in User, answer \in Answers(VerifyInput) : Put(x, u, answer)
      BY <1>1, StoredSteps
    <2> DEFINE e == InGroup(GetEnv(x, Updated(x, u).owner), groups + 1)
    <2>2. x \in Settings /\ stored' = Updated(x, u) /\ stored'.settings.offset = x.offset
      BY <2>1, CompletedFields DEF Put, Updated
    <2>3. next' = StartOffset(e)
      BY <1>1, <2>1, <2>2 DEF Put, PutAccepted, UpdateContainer, Started, Refresh
    <2>4. e.group = groups + 1 /\ e.offset = x.offset
      BY <2>2, EnvFields
    <2>5. committed[groups + 1] = Uncommitted
      BY <1>1, <2>1 DEF Put, PutAccepted, TypeOK, Group
    <2> HIDE DEF e
    <2> QED BY <2>2, <2>3, <2>4, <2>5 DEF StartOffset
  <1>2. TypeOK /\ [Next]_vars =>
          [stored # NoInstance /\ stored'.settings.offset # stored.settings.offset
             => next' = IF stored'.settings.offset = "smallest" THEN 0 ELSE Len(log)]_vars
    BY <1>1
  <1> QED BY <1>2, TypeCorrect, PTL DEF Spec, OffsetTakesEffect

=============================================================================
