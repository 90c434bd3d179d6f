---------------------------- MODULE ProcessProofs ----------------------------
(***************************************************************************)
(* Theorems about module Lifecycle, for any number of goroutines, requests *)
(* and signals; about Api, for any ids, batches and bounds, as the part of *)
(* the process that answers; and about Config, for names of any length.    *)
(***************************************************************************)
EXTENDS MCProcess, Sequences, FiniteSetTheorems, SequenceTheorems, WellFoundedInduction, TLAPS

Started == {"deploy", "migrate", "ensure", "api", "wait"}

(* From mongo.New on the database is there until ctx is done.              *)
Connected == main \in Started /\ ~cancelled => dbOpen /\ "mongo" \in wg

(* ctx is done only after a signal, so the wait group empties only then.   *)
Asked == (cancelled => pending) /\ (pending => signals > 0)

(* Requests are served while main waits, and nothing outlives main.        *)
Serving ==
    /\ server \in {"started", "listening", "shutdown"} => main = "wait"
    /\ \A h \in Handler : handler[h] # "none" => main = "wait"
    /\ main = "gone" => wg = {}

IInv == TypeOK /\ Connected /\ Asked /\ Serving /\ CutOnlyAtEnd

-----------------------------------------------------------------------------
LEMMA HalfCounts == Cardinality(Half) \in Nat
  <1>1. Half \subseteq Handler
    BY DEF Half
  <1>2. IsFiniteSet(Half)
    BY <1>1, FS_Subset, LifecycleAssumption
  <1> QED BY <1>2, FS_CardinalityType

LEMMA Counters ==
    ASSUME IInv
    PROVE  cut \in Nat /\ requests \in Nat /\ signals \in Nat
  BY Zenon DEF IInv, TypeOK

(* The end of the process keeps the invariant if it accounts for requests  *)
(* cut off.                                                                *)
LEMMA EndsStep ==
    ASSUME IInv, NEW how \in {"complete", "fatal", "killed"}, Ends(how),
           signals' \in Nat, signals' >= signals, how = "fatal" \/ signals' > 0
    PROVE  IInv'
  <1>1. cut' \in Nat
    BY HalfCounts, Counters DEF Ends
  <1>2. TypeOK'
    BY <1>1 DEF IInv, TypeOK, Ends, conf, Stage
  <1>3. Connected' /\ Serving'
    BY DEF Ends, Connected, Serving, Started
  <1>4. Asked'
    BY Counters DEF IInv, Ends, Asked
  <1>5. CutOnlyAtEnd'
    BY DEF Ends, CutOnlyAtEnd
  <1> QED BY <1>2, <1>3, <1>4, <1>5 DEF IInv

LEMMA FatalStep ==
    ASSUME IInv, Fatal
    PROVE  IInv'
  BY EndsStep, Counters DEF Fatal

(* A stage is done and the next begins.                                    *)
LEMMA EnterStep ==
    ASSUME IInv, main \in Stage, NEW stage \in Stage \cup {"wait"}, main' = stage,
           UNCHANGED <<conf, exit, notify, pending, cancelled, handler, cut, requests, signals>>,
           server' = (IF stage = "wait" THEN "started" ELSE server),
           dbOpen' \in BOOLEAN, wg' \subseteq IF mode = "docker" THEN {"mongo", "docker"} ELSE {"mongo"},
           stage \in Started /\ ~cancelled => dbOpen' /\ "mongo" \in wg'
    PROVE  IInv'
  <1>1. main # "gone" /\ main # "wait" /\ server = "off" /\ exit = "" /\ stage # "gone"
    BY DEF IInv, TypeOK, Stage
  <1>2. TypeOK'
    BY <1>1 DEF IInv, TypeOK, conf, Stage
  <1>3. Connected' /\ Asked' /\ Serving' /\ CutOnlyAtEnd'
    BY <1>1 DEF IInv, Connected, Asked, Serving, CutOnlyAtEnd
  <1> QED BY <1>2, <1>3 DEF IInv

LEMMA StartupKeeps ==
    ASSUME IInv, StartupStep
    PROVE  IInv'
  <1> USE DEF Enter, serving, conf, Stage, Started
  <1>1. CASE Fatal
    BY <1>1, FatalStep
  <1>2. CASE main = "load" /\ Enter("mongo") /\ UNCHANGED <<wg, dbOpen>>
    BY <1>2, EnterStep DEF IInv, TypeOK
  <1>3. CASE main = "mongo" /\ Enter("deploy") /\ dbOpen' = TRUE /\ wg' = wg \cup {"mongo"}
    <2>1. wg' \subseteq IF mode = "docker" THEN {"mongo", "docker"} ELSE {"mongo"}
      BY <1>3 DEF IInv, TypeOK
    <2>2. dbOpen' \in BOOLEAN /\ "mongo" \in wg' /\ server' = server
      BY <1>3
    <2>3. /\ main \in Stage /\ main' = "deploy"
          /\ UNCHANGED <<conf, exit, notify, pending, cancelled, handler, cut, requests, signals>>
      BY <1>3
    <2>4. "deploy" \in Started /\ ~cancelled => dbOpen'
      BY <1>3
    <2> QED BY <2>1, <2>2, <2>3, <2>4, EnterStep
  <1>4. CASE /\ main = "deploy" /\ Enter("migrate") /\ UNCHANGED dbOpen
             /\ wg' = wg \cup (IF mode = "docker" THEN {"docker"} ELSE {})
    <2>1. wg' \subseteq IF mode = "docker" THEN {"mongo", "docker"} ELSE {"mongo"}
      BY <1>4 DEF IInv, TypeOK
    <2>2. dbOpen' \in BOOLEAN /\ (~cancelled => dbOpen' /\ "mongo" \in wg')
      BY <1>4 DEF IInv, TypeOK, Connected
    <2>3. /\ main \in Stage /\ main' = "migrate" /\ server' = server
          /\ UNCHANGED <<conf, exit, notify, pending, cancelled, handler, cut, requests, signals>>
      BY <1>4
    <2> QED BY <2>1, <2>2, <2>3, EnterStep
  <1>5. CASE main \in {"migrate", "ensure"} /\ UNCHANGED <<wg, dbOpen>>
             /\ \E stage \in {"ensure", "api"} : Enter(stage)
    BY <1>5, EnterStep DEF IInv, TypeOK, Connected
  <1>6. CASE ApiStart
    BY <1>6, EnterStep DEF ApiStart, IInv, TypeOK, Connected
  <1>7. StartupStep => \/ Fatal \/ ApiStart
                       \/ main = "load" /\ Enter("mongo") /\ UNCHANGED <<wg, dbOpen>>
                       \/ main = "mongo" /\ Enter("deploy") /\ dbOpen' = TRUE /\ wg' = wg \cup {"mongo"}
                       \/ /\ main = "deploy" /\ Enter("migrate") /\ UNCHANGED dbOpen
                          /\ wg' = wg \cup (IF mode = "docker" THEN {"docker"} ELSE {})
                       \/ main \in {"migrate", "ensure"} /\ UNCHANGED <<wg, dbOpen>>
                          /\ \E stage \in {"ensure", "api"} : Enter(stage)
    BY DEF StartupStep, LoadConfig, MongoNew, DeployNew, Migrate, EnsureDeployed
  <1> QED BY <1>1, <1>2, <1>3, <1>4, <1>5, <1>6, <1>7

(* The server and its requests.                                            *)
LEMMA ServerKeeps ==
    ASSUME IInv, Listen \/ Shutdown \/ ShutdownReturns
    PROVE  IInv'
  <1>1. CASE Fatal
    BY <1>1, FatalStep
  <1>2. CASE /\ server \in {"started", "listening", "shutdown"}
             /\ server' \in {"listening", "shutdown", "closed"}
             /\ UNCHANGED <<conf, main, exit, notify, pending, cancelled, wg, dbOpen,
                            handler, cut, requests, signals>>
    <2>1. main = "wait"
      BY <1>2 DEF IInv, Serving
    <2>2. TypeOK'
      BY <1>2, <2>1 DEF IInv, TypeOK, conf, Stage
    <2>3. Connected' /\ Asked' /\ Serving' /\ CutOnlyAtEnd'
      BY <1>2, <2>1 DEF IInv, Connected, Asked, Serving, CutOnlyAtEnd
    <2> QED BY <2>2, <2>3 DEF IInv
  <1> QED BY <1>1, <1>2 DEF Listen, Shutdown, ShutdownReturns

LEMMA HandlerKeeps ==
    ASSUME IInv, NEW h \in Handler, HandlerStep(h)
    PROVE  IInv'
  <1>1. main = "wait"
    BY DEF HandlerStep, Request, ChangeContainer, ChangeDocument, IInv, Serving
  <1>2. /\ UNCHANGED <<conf, main, exit, notify, pending, cancelled, wg, server, dbOpen, signals>>
        /\ requests' \in Nat
        /\ handler' \in [Handler -> {"none", "container", "document"}]
    <2>1. UNCHANGED <<conf, main, exit, notify, pending, cancelled, wg, server, dbOpen, signals>>
      BY DEF HandlerStep, Request, ChangeContainer, ChangeDocument
    <2>2. requests' \in Nat
      BY Counters DEF HandlerStep, Request, ChangeContainer, ChangeDocument
    <2>3. handler \in [Handler -> {"none", "container", "document"}]
      BY Zenon DEF IInv, TypeOK
    <2>4. handler' \in [Handler -> {"none", "container", "document"}]
      BY <2>3 DEF HandlerStep, Request, ChangeContainer, ChangeDocument
    <2> QED BY <2>1, <2>2, <2>4
  <1>3. cut' \in Nat /\ (cut' = cut \/ ~dbOpen)
    BY Counters DEF HandlerStep, Request, ChangeContainer, ChangeDocument
  <1>4. ~dbOpen => signals > 0
    BY <1>1 DEF IInv, Connected, Asked, Started
  <1>5. TypeOK'
    BY <1>1, <1>2, <1>3 DEF IInv, TypeOK, conf
  <1>6. Connected' /\ Asked' /\ Serving'
    BY <1>1, <1>2 DEF IInv, Connected, Asked, Serving
  <1>7. CutOnlyAtEnd'
    BY <1>2, <1>3, <1>4 DEF IInv, CutOnlyAtEnd
  <1> QED BY <1>5, <1>6, <1>7 DEF IInv

(* Signals, the closers and the end of main.                               *)
LEMMA ClosingKeeps ==
    ASSUME IInv, Notify \/ Signal \/ Cancel \/ CloseMongo \/ CloseDocker \/ Complete
    PROVE  IInv'
  <1>1. CASE Notify \/ Cancel
    <2>1. TypeOK'
      BY <1>1 DEF Notify, Cancel, IInv, TypeOK, conf, Stage
    <2>2. Connected' /\ Asked' /\ Serving' /\ CutOnlyAtEnd'
      BY <1>1 DEF Notify, Cancel, IInv, Connected, Asked, Serving, CutOnlyAtEnd
    <2> QED BY <2>1, <2>2 DEF IInv
  <1>2. CASE CloseMongo \/ CloseDocker
    <2>1. wg' \subseteq wg /\ dbOpen' \in BOOLEAN /\ cancelled
      BY <1>2 DEF CloseMongo, CloseDocker, IInv, TypeOK
    <2>2. UNCHANGED <<conf, main, exit, notify, pending, cancelled, server, handler, cut,
                      requests, signals>>
      BY <1>2 DEF CloseMongo, CloseDocker
    <2>3. TypeOK'
      BY <2>1, <2>2 DEF IInv, TypeOK, conf
    <2>4. Connected' /\ Asked' /\ Serving' /\ CutOnlyAtEnd'
      BY <2>1, <2>2 DEF IInv, Connected, Asked, Serving, CutOnlyAtEnd
    <2> QED BY <2>3, <2>4 DEF IInv
  <1>3. CASE Signal
    <2>1. signals' \in Nat /\ signals' > 0 /\ signals' >= signals
      BY <1>3, Counters DEF Signal
    <2>2. CASE Ends("killed")
      BY <2>1, <2>2, EndsStep
    <2>3. CASE /\ notify /\ pending' = TRUE
               /\ UNCHANGED <<conf, main, exit, notify, cancelled, wg, server, dbOpen,
                              handler, cut, requests>>
      <3>1. TypeOK'
        BY <2>1, <2>3 DEF IInv, TypeOK, conf
      <3>2. Connected' /\ Asked' /\ Serving' /\ CutOnlyAtEnd'
        BY <2>1, <2>3 DEF IInv, Connected, Asked, Serving, CutOnlyAtEnd
      <3> QED BY <3>1, <3>2 DEF IInv
    <2> QED BY <1>3, <2>2, <2>3 DEF Signal
  <1>4. CASE Complete
    <2>1. signals > 0
      BY <1>4 DEF Complete, IInv, Connected, Asked, Started
    <2>2. signals' = signals
      BY <1>4 DEF Complete
    <2> QED BY <1>4, <2>1, <2>2, EndsStep, Counters DEF Complete
  <1> QED BY <1>1, <1>2, <1>3, <1>4

-----------------------------------------------------------------------------
LEMMA Initially ==
    ASSUME Init
    PROVE  IInv
  <1>1. TypeOK
    BY DEF Init, TypeOK, Stage
  <1> QED BY <1>1 DEF Init, IInv, Connected, Asked, Serving, CutOnlyAtEnd, Started

LEMMA Inductive ==
    ASSUME IInv, [Next]_vars
    PROVE  IInv'
  <1>1. CASE UNCHANGED vars
    <2>1. TypeOK'
      BY <1>1 DEF IInv, vars, conf, TypeOK
    <2> QED BY <1>1, <2>1 DEF IInv, vars, Connected, Asked, Serving, CutOnlyAtEnd
  <1>2. CASE Next
    BY <1>2, StartupKeeps, ServerKeeps, HandlerKeeps, ClosingKeeps DEF Next
  <1> QED BY <1>1, <1>2

LEMMA AlwaysIInv == Spec => []IInv
  <1>1. Init => IInv
    BY Initially
  <1>2. IInv /\ [Next]_vars => IInv'
    BY Inductive
  <1> QED BY <1>1, <1>2, PTL DEF Spec

(* Every variable of the process has its type, the wait group counts only  *)
(* closers of what was opened, and nothing is served before startup ends.  *)
THEOREM TypeCorrect == Spec => []TypeOK
  <1>1. IInv => TypeOK
    BY DEF IInv
  <1> QED BY <1>1, AlwaysIInv, PTL

(* No request is cut off between its change of a container and that of the *)
(* document while the process is up and nobody asked it to stop.           *)
THEOREM CutOnlyAtEndHolds == Spec => []CutOnlyAtEnd
  <1>1. IInv => CutOnlyAtEnd
    BY DEF IInv
  <1> QED BY <1>1, AlwaysIInv, PTL

-----------------------------------------------------------------------------
(* The answers.  Each instance too many of the client's takes a fault.     *)
Copies ==
    /\ IsFiniteSet(posted)
    /\ told => Cardinality(posted \cap docs) <= 1 + faults
    /\ ~told => Cardinality(posted \cap docs) <= faults

AInv == Answers!TypeOK /\ Copies

Answer == [op : {"none", "post", "get", "put", "delete"}, ids : Answers!Batch,
           code : {0, 200, 204, 400, 403, 404, 500}]

(* What an action has done to the counters and to the answer.              *)
Bounded ==
    /\ asked' \in 0 .. MaxRequests
    /\ faults' \in 0 .. MaxFaults /\ faults' >= faults
    /\ answer' \in Answer

LEMMA Batches ==
    /\ <<>> \in Answers!Batch
    /\ \A i \in Id : <<i>> \in Answers!Batch
  <1>1. <<>> \in [1 .. 0 -> Id] /\ 0 \in 0 .. MaxBatch
    BY ProcessAssumption DEF Answers!Constants
  <1>2. ASSUME NEW i \in Id PROVE <<i>> \in [1 .. 1 -> Id] /\ 1 \in 0 .. MaxBatch
    BY ProcessAssumption DEF Answers!Constants
  <1> QED BY <1>1, <1>2 DEF Answers!Batch

LEMMA Counted ==
    ASSUME AInv
    PROVE  /\ asked \in 0 .. MaxRequests /\ faults \in 0 .. MaxFaults
           /\ Answers!Fault => faults' \in 0 .. MaxFaults /\ faults' = faults + 1
           /\ Answers!NoFault => faults' \in 0 .. MaxFaults /\ faults' = faults
  <1>1. asked \in 0 .. MaxRequests /\ faults \in 0 .. MaxFaults
    BY Zenon DEF AInv, Answers!TypeOK
  <1> QED BY <1>1, ProcessAssumption DEF Answers!Constants, Answers!Fault, Answers!NoFault

LEMMA AnswerBounded ==
    ASSUME AInv, Answers!Fault \/ Answers!NoFault,
           NEW op \in {"post", "get", "put", "delete"}, NEW ids \in Answers!Batch,
           NEW code \in {200, 204, 400, 403, 404, 500}, Answers!Answered(op, ids, code)
    PROVE  Bounded
  <1>1. answer' \in Answer
    BY DEF Answers!Answered, Answer
  <1>2. asked' \in 0 .. MaxRequests
    BY Counted, LifecycleAssumption DEF Answers!Answered
  <1>3. faults' \in 0 .. MaxFaults /\ faults' >= faults
    BY Counted
  <1> QED BY <1>1, <1>2, <1>3 DEF Bounded

(* Nothing is generated, and no document comes into being.                 *)
LEMMA QuietAnswer ==
    ASSUME AInv, Bounded, UNCHANGED Answers!client,
           docs' \subseteq docs, ctr' \subseteq ctr \cup docs,
           granted' \subseteq granted \cup docs
    PROVE  AInv'
  <1>1. UNCHANGED <<unused, posted, told>>
    BY DEF Answers!client
  <1>2. Answers!TypeOK'
    BY <1>1 DEF AInv, Answers!TypeOK, Bounded, Answer
  <1>3. Cardinality((posted \cap docs)') <= Cardinality(posted \cap docs)
    <2>1. (posted \cap docs)' \subseteq posted \cap docs
      BY <1>1
    <2>2. IsFiniteSet(posted \cap docs)
      BY FS_Intersection DEF AInv, Copies
    <2> QED BY <2>1, <2>2, FS_Subset
  <1>4. Cardinality((posted \cap docs)') \in Nat /\ Cardinality(posted \cap docs) \in Nat
    BY <1>1, FS_Intersection, FS_CardinalityType DEF AInv, Copies
  <1>5. Copies'
    BY <1>1, <1>3, <1>4, Counted DEF AInv, Copies, Bounded
  <1> QED BY <1>2, <1>5 DEF AInv

(* A POST takes a new id; it is answered or it costs a fault.              *)
LEMMA PostAnswer ==
    ASSUME AInv, Bounded, NEW i \in Id, Answers!Generated(i),
           docs' \in {docs, docs \cup {i}}, ctr' \in {ctr, ctr \cup {i}},
           \/ told' = TRUE
           \/ told' = told /\ faults' = faults + 1
    PROVE  AInv'
  <1>1. /\ ~told /\ i \in unused
        /\ unused' = unused \ {i} /\ posted' = posted \cup {i} /\ granted' = granted
    BY DEF Answers!Generated
  <1>2. told' \in BOOLEAN
    BY DEF AInv, Answers!TypeOK
  <1>3. Answers!TypeOK'
    BY <1>1, <1>2 DEF AInv, Answers!TypeOK, Bounded, Answer
  <1>4. IsFiniteSet(posted) /\ IsFiniteSet(posted')
    BY <1>1, FS_AddElement DEF AInv, Copies
  <1> DEFINE old == posted \cap docs
  <1>5. IsFiniteSet(old) /\ Cardinality(old) \in Nat
    BY <1>4, FS_Intersection, FS_CardinalityType
  <1>6. Cardinality(old) <= faults
    BY <1>1 DEF AInv, Copies
  <1>7. /\ IsFiniteSet(old \cup {i})
        /\ Cardinality(old \cup {i}) \in Nat
        /\ Cardinality(old \cup {i}) <= Cardinality(old) + 1
    BY <1>5, FS_AddElement, FS_CardinalityType
  <1>8. (posted \cap docs)' \subseteq old \cup {i}
    BY <1>1
  <1>9. /\ Cardinality((posted \cap docs)') <= faults + 1
        /\ Cardinality((posted \cap docs)') \in Nat
    <2>1. IsFiniteSet((posted \cap docs)')
      BY <1>4, FS_Intersection
    <2>2. Cardinality((posted \cap docs)') <= Cardinality(old \cup {i})
      BY <1>7, <1>8, FS_Subset
    <2>3. Cardinality((posted \cap docs)') \in Nat
      BY <2>1, FS_CardinalityType
    <2> HIDE DEF old
    <2> QED BY <1>5, <1>6, <1>7, <2>2, <2>3, Counted
  <1>10. Copies'
    <2>1. CASE told' = TRUE
      BY <2>1, <1>4, <1>9, Counted DEF Copies, Bounded
    <2>2. CASE told' = told /\ faults' = faults + 1
      BY <2>2, <1>1, <1>4, <1>9, Counted DEF Copies, Bounded
    <2> QED BY <2>1, <2>2
  <1> QED BY <1>3, <1>10 DEF AInv

(* A request that is refused.                                              *)
LEMMA RefusedAnswer ==
    ASSUME AInv, Answers!Fault \/ Answers!NoFault,
           NEW op \in {"post", "get", "put", "delete"}, NEW ids \in Answers!Batch,
           NEW codes \in SUBSET {200, 204, 400, 403, 404, 500},
           Answers!Refused(op, ids, codes)
    PROVE  AInv'
  <1>1. Bounded
    BY AnswerBounded DEF Answers!Refused
  <1>2. UNCHANGED <<docs, ctr, granted>> /\ UNCHANGED Answers!client
    BY DEF Answers!Refused, Answers!stores
  <1> QED BY <1>1, <1>2, QuietAnswer

LEMMA UnavailableAnswer ==
    ASSUME AInv, NEW op \in {"post", "get", "put", "delete"}, NEW ids \in Answers!Batch,
           NEW code \in {200, 204, 400, 403, 404, 500},
           Answers!Unavailable(op, ids, code)
    PROVE  AInv'
  BY RefusedAnswer DEF Answers!Unavailable

LEMMA NoAccessAnswer ==
    ASSUME AInv, NEW op \in {"post", "get", "put", "delete"}, NEW ids \in Answers!Batch,
           Answers!NoAccess(op, ids)
    PROVE  AInv'
  BY RefusedAnswer, UnavailableAnswer DEF Answers!NoAccess

LEMMA PathAnswer ==
    ASSUME AInv, NEW i \in Id,
           \/ Answers!Post(i) \/ Answers!PostFails(i)
           \/ Answers!NoAccess("get", <<i>>) \/ Answers!Get(i)
           \/ Answers!NoAccess("put", <<i>>) \/ Answers!PutRefused(i)
           \/ Answers!PutNotFound(i) \/ Answers!Put(i)
    PROVE  AInv'
  <1>1. <<i>> \in Answers!Batch
    BY Batches
  <1>2. CASE Answers!Post(i)
    <2>1. Bounded
      BY <1>1, <1>2, AnswerBounded DEF Answers!Post
    <2> QED BY <1>2, <2>1, PostAnswer, Counted DEF Answers!Post
  <1>3. CASE Answers!PostFails(i)
    <2>1. Bounded
      BY <1>1, <1>3, AnswerBounded DEF Answers!PostFails
    <2> QED BY <1>3, <2>1, PostAnswer, Counted DEF Answers!PostFails, Answers!MayAdd
  <1>4. CASE Answers!NoAccess("get", <<i>>) \/ Answers!NoAccess("put", <<i>>)
    BY <1>1, <1>4, NoAccessAnswer
  <1>5. CASE Answers!Get(i)
    BY <1>1, <1>5, RefusedAnswer, UnavailableAnswer DEF Answers!Get
  <1>6. CASE Answers!PutRefused(i) \/ Answers!PutNotFound(i)
    BY <1>1, <1>6, RefusedAnswer, UnavailableAnswer DEF Answers!PutRefused, Answers!PutNotFound
  <1>7. CASE Answers!Put(i)
    <2>1. Bounded
      BY <1>1, <1>7, AnswerBounded DEF Answers!Put
    <2> QED BY <1>7, <2>1, QuietAnswer DEF Answers!Put
  <1> QED BY <1>2, <1>3, <1>4, <1>5, <1>6, <1>7

LEMMA BatchAnswer ==
    ASSUME AInv, NEW ids \in Answers!Batch,
           \/ Answers!NoAccess("delete", ids) \/ Answers!DeleteNotFound(ids)
           \/ Answers!Delete(ids) \/ Answers!DeleteFails(ids)
    PROVE  AInv'
  <1>1. CASE Answers!NoAccess("delete", ids) \/ Answers!DeleteNotFound(ids)
    BY <1>1, NoAccessAnswer, RefusedAnswer, UnavailableAnswer DEF Answers!DeleteNotFound
  <1>2. CASE Answers!Delete(ids)
    <2>1. Bounded
      BY <1>2, AnswerBounded DEF Answers!Delete
    <2>2. docs' \subseteq docs /\ ctr' \subseteq ctr /\ granted' \subseteq granted \cup docs
      BY <1>2 DEF Answers!Delete, Answers!Found
    <2> QED BY <1>2, <2>1, <2>2, QuietAnswer DEF Answers!Delete
  <1>3. CASE Answers!DeleteFails(ids)
    <2>1. Bounded
      BY <1>3, AnswerBounded DEF Answers!DeleteFails
    <2>2. docs' \subseteq docs /\ ctr' \subseteq ctr /\ granted' \subseteq granted
      BY <1>3 DEF Answers!DeleteFails
    <2> QED BY <1>3, <2>1, <2>2, QuietAnswer DEF Answers!DeleteFails
  <1> QED BY <1>1, <1>2, <1>3

LEMMA AnswersKeep ==
    ASSUME AInv, [Answers!Next]_(Answers!vars)
    PROVE  AInv'
  <1>1. CASE Answers!PostRefused
    BY <1>1, Batches, RefusedAnswer DEF Answers!PostRefused
  <1>2. CASE Answers!Restart
    <2>1. Bounded
      BY <1>2, Batches, Counted DEF Answers!Restart, Bounded, Answer
    <2> QED BY <1>2, <2>1, QuietAnswer DEF Answers!Restart
  <1>3. CASE UNCHANGED Answers!vars
    <2>1. Bounded
      BY <1>3, Counted DEF AInv, Answers!TypeOK, Answers!vars, Bounded, Answer
    <2> QED BY <1>3, <2>1, QuietAnswer DEF Answers!vars, Answers!stores
  <1> QED BY <1>1, <1>2, <1>3, PathAnswer, BatchAnswer DEF Answers!Next

LEMMA AnswersBegin ==
    ASSUME Answers!Init \/ Silent
    PROVE  AInv
  <1>1. posted = {} /\ told = FALSE
    BY DEF Answers!Init, Silent
  <1>2. asked \in 0 .. MaxRequests /\ faults \in 0 .. MaxFaults
    BY ProcessAssumption DEF Answers!Init, Silent, Answers!Constants
  <1>3. Answers!TypeOK
    <2>1. answer \in Answer
      BY Batches DEF Answers!Init, Silent, Answer
    <2>2. /\ docs \subseteq Id /\ ctr \subseteq Id /\ granted \subseteq Id
          /\ (docs \cup ctr) \cap unused = {} /\ posted \cap unused = {}
      BY <1>1 DEF Answers!Init, Silent
    <2>3. told \in BOOLEAN
      BY <1>1
    <2> QED BY ONLY <1>2, <2>1, <2>2, <2>3, Zenon DEF Answers!TypeOK, Answer
  <1>4. posted \cap docs = {}
    BY <1>1
  <1>5. Copies
    BY <1>1, <1>2, <1>4, FS_EmptySet DEF Copies
  <1> QED BY <1>3, <1>5 DEF AInv

(* The two promises of a status code need no invariant: only a request     *)
(* that changes nothing is answered 4xx, only Delete answers 204.          *)
Harmless ==
    UNCHANGED Answers!stores /\ ~(answer'.op = "delete" /\ answer'.code = 204)

LEMMA Tells ==
    ASSUME NEW op, NEW ids, NEW code, Answers!Answered(op, ids, code)
    PROVE  answer'.op = op /\ answer'.ids = ids /\ answer'.code = code
  BY DEF Answers!Answered

LEMMA RefusedHarmless ==
    ASSUME NEW op, NEW ids, NEW codes, Answers!Refused(op, ids, codes),
           op # "delete" \/ 204 \notin codes
    PROVE  Harmless
  BY Tells DEF Answers!Refused, Harmless

LEMMA UnavailableHarmless ==
    ASSUME NEW op, NEW ids, NEW code, Answers!Unavailable(op, ids, code), code # 204
    PROVE  Harmless
  BY RefusedHarmless DEF Answers!Unavailable

LEMMA Effects ==
    ASSUME Answers!Next, asked' # asked
    PROVE  \/ Harmless
           \/ answer'.code \in {200, 500}
           \/ answer'.code = 204 /\ \E ids \in Answers!Batch : Answers!Delete(ids)
  <1>1. CASE Answers!PostRefused
    BY <1>1, RefusedHarmless DEF Answers!PostRefused
  <1>2. CASE Answers!Restart
    BY <1>2 DEF Answers!Restart
  <1>3. ASSUME NEW i \in Id, Answers!Post(i) \/ Answers!PostFails(i) \/ Answers!Put(i)
        PROVE  answer'.code \in {200, 500}
    BY <1>3, Tells DEF Answers!Post, Answers!PostFails, Answers!Put
  <1>4. ASSUME NEW op, NEW ids, Answers!NoAccess(op, ids)
        PROVE  Harmless
    BY <1>4, RefusedHarmless, UnavailableHarmless DEF Answers!NoAccess
  <1>5. ASSUME NEW i \in Id,
               Answers!Get(i) \/ Answers!PutRefused(i) \/ Answers!PutNotFound(i)
        PROVE  Harmless
    BY <1>5, RefusedHarmless, UnavailableHarmless
       DEF Answers!Get, Answers!PutRefused, Answers!PutNotFound
  <1>6. ASSUME NEW ids \in Answers!Batch, Answers!DeleteNotFound(ids)
        PROVE  Harmless
    BY <1>6, RefusedHarmless, UnavailableHarmless DEF Answers!DeleteNotFound
  <1>7. ASSUME NEW ids \in Answers!Batch, Answers!Delete(ids)
        PROVE  answer'.code = 204
    BY <1>7, Tells DEF Answers!Delete
  <1>8. ASSUME NEW ids \in Answers!Batch, Answers!DeleteFails(ids)
        PROVE  answer'.code = 500
    BY <1>8, Tells DEF Answers!DeleteFails
  <1> DEFINE effect ==
        \/ Harmless
        \/ answer'.code \in {200, 500}
        \/ answer'.code = 204 /\ \E ids \in Answers!Batch : Answers!Delete(ids)
  <1>9. ASSUME NEW i \in Id,
               \/ Answers!Post(i) \/ Answers!PostFails(i)
               \/ Answers!NoAccess("get", <<i>>) \/ Answers!Get(i)
               \/ Answers!NoAccess("put", <<i>>) \/ Answers!PutRefused(i)
               \/ Answers!PutNotFound(i) \/ Answers!Put(i)
        PROVE  effect
    BY <1>3, <1>4, <1>5, <1>9
  <1>10. ASSUME NEW ids \in Answers!Batch,
                \/ Answers!NoAccess("delete", ids) \/ Answers!DeleteNotFound(ids)
                \/ Answers!Delete(ids) \/ Answers!DeleteFails(ids)
         PROVE  effect
    BY <1>4, <1>6, <1>7, <1>8, <1>10
  <1> HIDE DEF effect
  <1>11. Answers!PostRefused \/ Answers!Restart => effect
    BY <1>1, <1>2 DEF effect
  <1>12. effect
    <2>1. CASE Answers!PostRefused \/ Answers!Restart
      BY <2>1, <1>11
    <2>2. ASSUME ~(Answers!PostRefused \/ Answers!Restart), ~effect
          PROVE  FALSE
      BY <2>2, <1>9, <1>10, Zenon DEF Answers!Next
    <2> QED BY ONLY <2>1, <2>2
  <1> QED BY <1>12 DEF effect

LEMMA DeleteCounts ==
    ASSUME NEW ids \in Answers!Batch, Answers!Delete(ids)
    PROVE  /\ Answers!Cardinality(docs \ docs') = Len(answer'.ids)
           /\ Answers!Cardinality(ctr \ ctr') = Len(answer'.ids)
  <1>1. answer'.ids = ids
    BY Tells DEF Answers!Delete
  <1>2. docs \ docs' = Answers!Found(ids) /\ ctr \ ctr' = Answers!Found(ids)
    BY DEF Answers!Delete, Answers!Found
  <1>3. Answers!Cardinality(Answers!Found(ids)) = Len(ids)
    BY DEF Answers!Delete, Answers!AllExist
  <1> QED BY <1>1, <1>2, <1>3

(* A client that is told 4xx has changed nothing, one that is told 204 has *)
(* removed as many instances as its batch has entries, and one that        *)
(* repeats its POST has at most one instance more than there were faults.  *)
THEOREM AnswersHoldAlways == MCSpec => AnswersHold
  <1>1. MCInit => AInv
    BY AnswersBegin DEF MCInit
  <1>2. [MCNext]_<<configVars, vars, apiVars>> => [Answers!Next]_(Answers!vars)
    <2>1. UNCHANGED apiVars => UNCHANGED Answers!vars
      BY DEF apiVars, Answers!vars, Answers!stores, Answers!client
    <2> QED BY <2>1 DEF MCNext
  <1>3. AInv /\ [Answers!Next]_(Answers!vars) => AInv'
    BY AnswersKeep
  <1>4. AInv => Answers!TypeOK /\ Answers!CopiesBounded
    <2> SUFFICES ASSUME AInv PROVE Answers!CopiesBounded
      BY DEF AInv
    <2>1. Cardinality(posted \cap docs) \in Nat
      BY FS_Intersection, FS_CardinalityType DEF AInv, Copies
    <2>2. Cardinality(posted \cap docs) <= 1 + faults
      BY <2>1, Counted DEF AInv, Copies
    <2>3. Answers!Cardinality(posted \cap docs) = Cardinality(posted \cap docs)
      BY DEF Cardinality, Answers!Cardinality
    <2> QED BY <2>2, <2>3 DEF Answers!CopiesBounded
  <1>5. [Answers!Next]_(Answers!vars) =>
            [(asked' # asked /\ answer'.code \in 400 .. 499)
                => UNCHANGED Answers!stores]_(Answers!vars)
    BY Effects DEF Harmless
  <1>6. [Answers!Next]_(Answers!vars) =>
            [(answer'.op = "delete" /\ answer'.code = 204 /\ asked' # asked) =>
                /\ Answers!Cardinality(docs \ docs') = Len(answer'.ids)
                /\ Answers!Cardinality(ctr \ ctr') = Len(answer'.ids)]_(Answers!vars)
    <2>1. ASSUME Answers!Next, answer'.op = "delete", answer'.code = 204, asked' # asked
          PROVE  /\ Answers!Cardinality(docs \ docs') = Len(answer'.ids)
                 /\ Answers!Cardinality(ctr \ ctr') = Len(answer'.ids)
      <3>1. PICK ids \in Answers!Batch : Answers!Delete(ids)
        BY <2>1, Effects DEF Harmless
      <3> QED BY <3>1, DeleteCounts
    <2> QED BY <2>1
  <1> QED BY <1>1, <1>2, <1>3, <1>4, <1>5, <1>6, PTL
          DEF MCSpec, AnswersHold, Answers!RefusedUnchanged, Answers!DeleteExact

-----------------------------------------------------------------------------
(* The loading of the configuration (Config).                              *)

(* A set of numbers has a least one.                                       *)
LEMMA Least ==
    ASSUME NEW T \in SUBSET Nat, T # {}
    PROVE  \E x \in T : \A y \in T : x <= y
  <1>1. PICK x \in T : \A y \in T : ~(<<y, x>> \in OpToRel(<, Nat))
    BY WFMin, NatLessThanWellFounded
  <1>2. \A y \in T : ~(y < x)
    BY <1>1 DEF OpToRel
  <1> QED BY <1>2

LEMMA NameIsWord ==
    ASSUME NEW f \in Configuration!FieldName
    PROVE  /\ Len(f) \in Nat \ {0} /\ f \in [1 .. Len(f) -> {"A", "a"}]
           /\ f[1] = "A"
  <1>1. MaxLength \in Nat \ {0}
    BY ProcessAssumption DEF Configuration!Constants
  <1>2. PICK n \in 1 .. MaxLength : f \in [1 .. n -> {"A", "a"}]
    BY DEF Configuration!FieldName, Configuration!Upper, Configuration!Other
  <1>3. n \in Nat \ {0}
    BY <1>1
  <1>4. Len(f) = n
    BY <1>2, <1>3
  <1>5. f[1] = "A"
    BY DEF Configuration!FieldName, Configuration!Upper
  <1> QED BY <1>2, <1>3, <1>4, <1>5

(* From a position on, the letters of one class have an end.               *)
LEMMA ClassEnds ==
    ASSUME NEW f, NEW len \in Nat, NEW p \in 0 .. len, NEW class \in {"A", "a"},
           f \in [1 .. len -> {"A", "a"}]
    PROVE  \E e \in p .. len : /\ \A j \in p + 1 .. e : f[j] = class
                               /\ e < len => f[e + 1] # class
  <1> DEFINE T == {k \in p + 1 .. len + 1 : k = len + 1 \/ f[k] # class}
  <1>1. T \in SUBSET Nat /\ T # {}
    <2>1. len + 1 \in T
      OBVIOUS
    <2> QED BY <2>1
  <1>2. PICK k \in T : \A y \in T : k <= y
    BY <1>1, Least
  <1>3. k - 1 \in p .. len
    OBVIOUS
  <1>4. ASSUME NEW j \in p + 1 .. k - 1
        PROVE  f[j] = class
    <2>1. j \notin T
      BY <1>2
    <2> QED BY <2>1
  <1>5. k - 1 < len => f[(k - 1) + 1] # class
    OBVIOUS
  <1> QED BY <1>3, <1>4, <1>5

LEMMA RunEnds ==
    ASSUME field \in Configuration!FieldName, pos \in 0 .. Len(field)
    PROVE  /\ Configuration!Run \in 0 .. Len(field) - pos
           /\ \A j \in pos + 1 .. pos + Configuration!Run : field[j] = "A"
           /\ pos + Configuration!Run < Len(field) => field[pos + Configuration!Run + 1] = "a"
  <1> DEFINE len == Len(field)
             Fits(n) == /\ \A k \in 1 .. n : field[pos + k] = "A"
                        /\ pos + n < len => field[pos + n + 1] = "a"
  <1>1. len \in Nat /\ field \in [1 .. len -> {"A", "a"}]
    BY NameIsWord
  <1> HIDE DEF len
  <1>2. PICK e \in pos .. len :
            /\ \A j \in pos + 1 .. e : field[j] = "A"
            /\ e < len => field[e + 1] # "A"
    <2>1. pos \in 0 .. len
      BY DEF len
    <2> QED BY <2>1, <1>1, ClassEnds
  <1>3. e - pos \in 0 .. len - pos /\ Fits(e - pos)
    <2>1. pos \in Nat /\ e \in Nat /\ e - pos \in 0 .. len - pos /\ pos + (e - pos) = e
      <3>1. pos \in 0 .. len
        BY DEF len
      <3> QED BY <3>1, <1>1
    <2>2. ASSUME NEW k \in 1 .. e - pos
          PROVE  field[pos + k] = "A"
      <3>1. pos + k \in pos + 1 .. e
        BY <2>1
      <3> QED BY <3>1, <1>2
    <2>3. e < len => field[e + 1] = "a"
      <3> SUFFICES ASSUME e < len PROVE field[e + 1] = "a"
        OBVIOUS
      <3>1. e + 1 \in 1 .. len
        BY <2>1, <1>1
      <3>2. field[e + 1] \in {"A", "a"}
        BY <3>1, <1>1
      <3>3. field[e + 1] # "A"
        BY <1>2
      <3> QED BY ONLY <3>2, <3>3
    <2> QED BY <2>1, <2>2, <2>3
  <1>4. Configuration!Run = CHOOSE n \in 0 .. len - pos : Fits(n)
    BY DEF Configuration!Run, Configuration!Length, Configuration!Upper, Configuration!Other, len
  <1> DEFINE run == Configuration!Run
  <1> HIDE DEF Fits
  <1>5. run \in 0 .. len - pos /\ Fits(run)
    BY <1>3, <1>4
  <1> HIDE DEF run
  <1>6. \A j \in pos + 1 .. pos + run : field[j] = "A"
    <2> SUFFICES ASSUME NEW j \in pos + 1 .. pos + run PROVE field[j] = "A"
      OBVIOUS
    <2>1. j - pos \in 1 .. run /\ pos + (j - pos) = j
      BY <1>1, <1>5
    <2> QED BY <2>1, <1>5 DEF Fits
  <1> QED BY <1>5, <1>6 DEF run, len, Fits

LEMMA WordEnds ==
    ASSUME field \in Configuration!FieldName, pos \in Nat, NEW k \in Nat, pos + k <= Len(field)
    PROVE  /\ Configuration!EndOfWord(k) \in pos + k .. Len(field)
           /\ \A j \in pos + k + 1 .. Configuration!EndOfWord(k) : field[j] = "a"
           /\ Configuration!EndOfWord(k) < Len(field) =>
                 field[Configuration!EndOfWord(k) + 1] = "A"
  <1> DEFINE len == Len(field)
             Fits(e) == /\ \A j \in pos + k + 1 .. e : field[j] = "a"
                        /\ e < len => field[e + 1] = "A"
  <1>1. len \in Nat /\ field \in [1 .. len -> {"A", "a"}]
    BY NameIsWord
  <1> HIDE DEF len
  <1>2. pos + k \in 0 .. len
    BY <1>1 DEF len
  <1>3. PICK e \in pos + k .. len :
            /\ \A j \in pos + k + 1 .. e : field[j] = "a"
            /\ e < len => field[e + 1] # "a"
    BY <1>1, <1>2, ClassEnds
  <1>4. Fits(e)
    <2>1. e \in Nat /\ (e < len => e + 1 \in 1 .. len)
      BY <1>1, <1>2
    <2>2. ASSUME e < len PROVE field[e + 1] = "A"
      <3>1. field[e + 1] \in {"A", "a"}
        BY <2>1, <2>2, <1>1
      <3>2. field[e + 1] # "a"
        BY <2>2, <1>3
      <3> QED BY ONLY <3>1, <3>2
    <2> QED BY <2>2, <1>3
  <1>5. Configuration!EndOfWord(k) = CHOOSE x \in pos + k .. len : Fits(x)
    BY DEF Configuration!EndOfWord, Configuration!Length, Configuration!Upper, Configuration!Other, len
  <1> HIDE DEF Fits
  <1>6. Configuration!EndOfWord(k) \in pos + k .. len /\ Fits(Configuration!EndOfWord(k))
    BY <1>3, <1>4, <1>5
  <1> QED BY <1>6 DEF len, Fits

-----------------------------------------------------------------------------
(* The words found are side by side up to the position, where the next one *)
(* begins, and they are those that begin up to it.                         *)
Reached == IF pos <= Len(field) THEN pos ELSE Len(field)

Found ==
    /\ words \in Seq((1 .. Len(field)) \X (1 .. Len(field)))
    /\ Configuration!SideBySide
    /\ pos = 0 \/ pos >= Len(field) \/ pos + 1 \in Configuration!Beginnings
    /\ IF words = <<>> THEN pos = 0 ELSE words[Len(words)][2] = Reached
    /\ {words[n][1] : n \in 1 .. Len(words)} = {b \in Configuration!Beginnings : b <= Reached}

(* The same, as a fact about any sequence of words.                        *)
SoFar(ws, p) ==
    /\ ws \in Seq((1 .. Len(field)) \X (1 .. Len(field)))
    /\ ws # <<>> => ws[1][1] = 1
    /\ \A n \in 1 .. Len(ws) : ws[n][1] <= ws[n][2]
    /\ \A n \in 1 .. Len(ws) - 1 : ws[n + 1][1] = ws[n][2] + 1
    /\ IF ws = <<>> THEN p = 0 ELSE ws[Len(ws)][2] = p

(* Where the words begin.                                                  *)
Firsts(ws) == {ws[n][1] : n \in 1 .. Len(ws)}

UpTo(p) == {b \in Configuration!Beginnings : b <= p}

LEMMA PartFound ==
    ASSUME Len(field) \in Nat, NEW ws, NEW p \in Nat, NEW e \in Nat,
           SoFar(ws, p), p < e, e <= Len(field)
    PROVE  /\ SoFar(ws \o << <<p + 1, e>> >>, e)
           /\ Firsts(ws \o << <<p + 1, e>> >>) = Firsts(ws) \cup {p + 1}
  <1> DEFINE w == <<p + 1, e>>
             L == Len(ws)
             len == Len(field)
             ms == ws \o <<w>>
  <1>0. /\ len \in Nat /\ ws \in Seq((1 .. len) \X (1 .. len)) /\ e \in 1 .. len /\ p + 1 \in 1 .. len
        /\ ws # <<>> => ws[1][1] = 1
        /\ \A n \in 1 .. L : ws[n][1] <= ws[n][2]
        /\ \A n \in 1 .. L - 1 : ws[n + 1][1] = ws[n][2] + 1
        /\ IF ws = <<>> THEN p = 0 ELSE ws[L][2] = p
    BY DEF SoFar
  <1> HIDE DEF len
  <1>1. w \in (1 .. len) \X (1 .. len) /\ w[1] = p + 1 /\ w[2] = e
    BY <1>0
  <1> HIDE DEF w
  <1>2. ms = Append(ws, w)
    BY <1>0, <1>1
  <1>3. /\ ms \in Seq((1 .. len) \X (1 .. len)) /\ ms # <<>>
        /\ L \in Nat /\ Len(ms) = L + 1 /\ ms[L + 1] = w
        /\ \A n \in 1 .. L : ms[n] = ws[n]
        /\ ws = <<>> <=> L = 0
    BY <1>0, <1>1, <1>2
  <1> HIDE DEF L, ms
  <1>4. ms[1][1] = 1
    <2>1. CASE ws = <<>>
      BY <2>1, <1>0, <1>1, <1>3
    <2>2. CASE ws # <<>>
      <3>1. 1 \in 1 .. L
        BY <2>2, <1>3
      <3> QED BY <3>1, <2>2, <1>0, <1>3
    <2> QED BY <2>1, <2>2
  <1>6. ASSUME NEW n \in 1 .. Len(ms)
        PROVE  ms[n][1] <= ms[n][2]
    <2>1. CASE n = L + 1
      BY <2>1, <1>0, <1>1, <1>3
    <2>2. CASE n # L + 1
      <3>1. n \in 1 .. L
        BY <2>2, <1>3
      <3> QED BY <3>1, <1>0, <1>3
    <2> QED BY <2>1, <2>2
  <1>7. ASSUME NEW n \in 1 .. Len(ms) - 1
        PROVE  ms[n + 1][1] = ms[n][2] + 1
    <2>1. CASE n = L
      <3>1. L # 0 /\ ms[n] = ws[L] /\ ms[n + 1] = w
        BY <2>1, <1>3
      <3>2. ws[L][2] = p
        BY <3>1, <1>3, <1>0
      <3> QED BY <3>1, <3>2, <1>1
    <2>2. CASE n # L
      <3>1. n \in 1 .. L - 1 /\ n \in 1 .. L /\ n + 1 \in 1 .. L
        BY <2>2, <1>3
      <3>2. ws[n + 1][1] = ws[n][2] + 1
        BY <3>1, <1>0
      <3> QED BY <3>1, <3>2, <1>3
    <2> QED BY <2>1, <2>2
  <1>8. Firsts(ms) = Firsts(ws) \cup {p + 1}
    <2>1. 1 .. Len(ms) = (1 .. L) \cup {L + 1}
      BY <1>3
    <2>2. {ms[n][1] : n \in 1 .. Len(ms)} = {ms[n][1] : n \in 1 .. L} \cup {ms[L + 1][1]}
      BY ONLY <2>1, Zenon
    <2>3. {ms[n][1] : n \in 1 .. L} = {ws[n][1] : n \in 1 .. L}
      <3>1. \A n \in 1 .. L : ms[n][1] = ws[n][1]
        BY <1>3
      <3> QED BY <3>1
    <2>4. ms[L + 1][1] = p + 1
      BY <1>1, <1>3
    <2> QED BY <2>2, <2>3, <2>4 DEF L, Firsts
  <1>9. ms[Len(ms)][2] = e
    BY <1>1, <1>3
  <1>10. SoFar(ms, e)
    BY <1>3, <1>4, <1>6, <1>7, <1>9 DEF SoFar, len
  <1> QED BY <1>8, <1>10 DEF ms, w

LEMMA Beginning ==
    ASSUME NEW j
    PROVE  j \in Configuration!Beginnings <=>
              /\ j \in 1 .. Len(field)
              /\ field[j] = "A"
              /\ j = 1 \/ field[j - 1] = "a" \/ (j < Len(field) /\ field[j + 1] = "a")
  BY DEF Configuration!Beginnings, Configuration!BeginsWord, Configuration!Length,
         Configuration!Upper, Configuration!Other

(* Between two positions the words begin that a match takes.               *)
LEMMA BeginningsOf ==
    ASSUME field \in Configuration!FieldName, NEW p \in Nat, NEW run \in Nat, NEW e \in Nat,
           p < p + run, p + run <= e, e <= Len(field), p = 0 \/ p + 1 \in Configuration!Beginnings,
           \A j \in p + 1 .. p + run : field[j] = "A",
           \A j \in p + run + 1 .. e : field[j] = "a",
           e = p + run => e = Len(field)
    PROVE  UpTo(e) = UpTo(p) \cup IF e = p + run THEN {p + 1} ELSE {p + 1, p + run}
  <1> DEFINE B == Configuration!Beginnings
             len == Len(field)
  <1>1. len \in Nat \ {0} /\ B \subseteq 1 .. len
    BY NameIsWord, Beginning
  <1> HIDE DEF len, B
  <1>2. p + 1 \in B
    <2>1. CASE p = 0
      <3>1. field[1] = "A"
        BY NameIsWord
      <3> QED BY <3>1, <2>1, <1>1, Beginning DEF B, len
    <2> QED BY <2>1 DEF B
  <1>3. ASSUME e # p + run
        PROVE  p + run \in B
    <2>1. p + run \in 1 .. len /\ p + run < len /\ p + run + 1 \in p + run + 1 .. e
      BY <1>1, <1>3 DEF len
    <2>2. field[p + run] = "A" /\ field[(p + run) + 1] = "a"
      BY <2>1
    <2> QED BY <2>1, <2>2, Beginning DEF B, len
  <1>4. ASSUME NEW b \in B, p < b, b <= e
        PROVE  b = p + 1 \/ (b = p + run /\ e # p + run)
    <2>1. /\ b \in 1 .. len /\ field[b] = "A"
          /\ b = 1 \/ field[b - 1] = "a" \/ (b < len /\ field[b + 1] = "a")
      BY Beginning DEF B, len
    <2>2. b <= p + run
      <3>1. b > p + run => b \in p + run + 1 .. e
        BY <2>1, <1>4
      <3>2. b > p + run => field[b] = "a"
        BY <3>1
      <3>3. ~(b > p + run)
        BY ONLY <3>2, <2>1
      <3> QED BY <3>3, <2>1
    <2> SUFFICES ASSUME b # p + 1, b < p + run \/ e = p + run
                 PROVE  FALSE
      BY <2>1, <2>2
    <2>3. b - 1 \in p + 1 .. p + run /\ b # 1
      BY <2>1, <2>2, <1>4
    <2>4. field[b - 1] = "A"
      BY <2>3
    <2>5. b < len /\ field[b + 1] = "a"
      BY ONLY <2>1, <2>3, <2>4
    <2>6. b < p + run
      BY <2>2, <2>5, <2>1 DEF len
    <2>7. b + 1 \in p + 1 .. p + run
      BY <2>6, <2>1, <1>4
    <2>8. field[b + 1] = "A"
      BY <2>7
    <2> QED BY ONLY <2>5, <2>8
  <1>5. {b \in B : b <= e} = {b \in B : b <= p} \cup IF e = p + run THEN {p + 1} ELSE {p + 1, p + run}
    <2>1. \A b \in B : b \in Nat
      BY <1>1
    <2>2. CASE e = p + run
      <3>1. \A b \in B : b <= e <=> b <= p \/ b = p + 1
        BY <2>1, <2>2, <1>4
      <3> QED BY <3>1, <2>2, <1>2
    <2>3. CASE e # p + run
      <3>1. \A b \in B : b <= e <=> b <= p \/ b = p + 1 \/ b = p + run
        BY <2>1, <2>3, <1>4
      <3> QED BY <3>1, <2>3, <1>2, <1>3
    <2> QED BY <2>2, <2>3
  <1> QED BY <1>5 DEF B, UpTo

LEMMA NextBegins ==
    ASSUME field \in Configuration!FieldName, NEW e \in Nat \ {0}, e < Len(field),
           field[e] = "a", field[e + 1] = "A"
    PROVE  e + 1 \in Configuration!Beginnings
  <1>1. Len(field) \in Nat
    BY NameIsWord
  <1>2. e + 1 \in 1 .. Len(field) /\ (e + 1) - 1 = e
    BY <1>1
  <1> QED BY <1>2, Beginning

LEMMA MatchKeeps ==
    ASSUME Configuration!TypeOK, Found, Configuration!Match
    PROVE  Found' /\ pos' \in 0 .. Len(field) /\ pos' > pos
  <1> DEFINE len == Len(field)
             run == Configuration!Run
             B == Configuration!Beginnings
             e == pos'
  <1>1. field \in Configuration!FieldName /\ len \in Nat \ {0} /\ pos \in Nat /\ pos < len
    BY NameIsWord DEF Configuration!TypeOK, Configuration!Match, Configuration!Length
  <1>2. run \in Nat /\ run <= len - pos /\ (\A j \in pos + 1 .. pos + run : field[j] = "A")
        /\ (pos + run < len => field[pos + run + 1] = "a")
    <2>1. pos \in 0 .. Len(field)
      BY <1>1
    <2> QED BY <2>1, <1>1, RunEnds
  <1>3. SoFar(words, pos) /\ Firsts(words) = UpTo(pos) /\ (pos = 0 \/ pos + 1 \in B)
    BY <1>1 DEF Found, SoFar, Reached, Configuration!SideBySide, Firsts, UpTo
  <1>4. field[pos + 1] = "A"
    <2>1. CASE pos = 0
      BY <2>1, <1>1, NameIsWord
    <2>2. CASE pos + 1 \in B
      BY <2>2, Beginning
    <2> QED BY <2>1, <2>2, <1>3
  <1> HIDE DEF run, B
  <1>5. run >= 1
    <2>1. run = 0 => field[pos + 1] = "a"
      BY <1>1, <1>2
    <2>2. run # 0
      BY ONLY <2>1, <1>4
    <2> QED BY <2>2, <1>1, <1>2
  <1>6. /\ SoFar(words', e) /\ Firsts(words') = UpTo(e) /\ e \in Nat /\ e > pos /\ e <= len
        /\ e = len \/ e + 1 \in B
    <2>1. CASE pos + run = len
      <3>1. e = len /\ words' = words \o << <<pos + 1, len>> >>
        <4>1. e = len /\ words' = words \o Configuration!Part(pos + 1, pos + run)
          BY <2>1 DEF Configuration!Match, Configuration!Length, run
        <4>2. pos + 1 <= len
          BY <1>1
        <4> QED BY <4>1, <4>2, <2>1 DEF Configuration!Part
      <3>2. SoFar(words', len) /\ Firsts(words') = UpTo(pos) \cup {pos + 1}
        BY <3>1, <1>1, <1>3, PartFound
      <3>3. UpTo(len) = UpTo(pos) \cup {pos + 1}
        <4> DEFINE end == len
        <4>1. /\ \A j \in pos + run + 1 .. end : field[j] = "a"
              /\ end \in Nat /\ pos < pos + run /\ pos + run <= end /\ end <= Len(field)
              /\ end = Len(field) /\ end = pos + run
          BY <2>1, <1>1, <1>2, <1>5
        <4> HIDE DEF end
        <4>2. UpTo(end) = UpTo(pos) \cup IF end = pos + run THEN {pos + 1} ELSE {pos + 1, pos + run}
          BY <4>1, <1>1, <1>2, <1>3, BeginningsOf DEF B
        <4> QED BY <4>1, <4>2
      <3>4. len \in Nat /\ len > pos /\ len <= len
        BY <1>1
      <3>5. SoFar(words', e) /\ Firsts(words') = UpTo(e)
        BY ONLY <3>1, <3>2, <3>3, Zenon
      <3> QED BY <3>1, <3>4, <3>5
    <2>2. CASE pos + run # len
      <3> DEFINE end == Configuration!EndOfWord(run)
      <3>1. /\ e = end
            /\ words' = words \o Configuration!Part(pos + 1, pos + run - 1)
                             \o Configuration!Part(pos + run, end)
        BY <2>2 DEF Configuration!Match, Configuration!Length, run
      <3>2. /\ run \in Nat /\ pos \in Nat /\ pos + run < len
            /\ end \in pos + run .. len
            /\ \A j \in pos + run + 1 .. end : field[j] = "a"
            /\ end < len => field[end + 1] = "A"
        <4>1. run \in Nat /\ pos \in Nat /\ pos + run < len
          BY <2>2, <1>1, <1>2
        <4> QED BY <4>1, <1>1, WordEnds
      <3> HIDE DEF end
      <3>3. end > pos + run
        <4>1. end = pos + run => field[pos + run + 1] = "A"
          BY <3>2
        <4>2. field[pos + run + 1] = "a"
          BY <3>2, <1>2
        <4>3. end # pos + run
          BY ONLY <4>1, <4>2
        <4> QED BY <4>3, <3>2
      <3>4. UpTo(end) = UpTo(pos) \cup {pos + 1, pos + run}
        <4>1. UpTo(end) = UpTo(pos) \cup IF end = pos + run THEN {pos + 1} ELSE {pos + 1, pos + run}
          <5>1. end \in Nat /\ pos < pos + run /\ pos + run <= end /\ end <= Len(field) /\ end # pos + run
            BY <3>2, <3>3, <1>1, <1>2, <1>5
          <5> QED BY <5>1, <3>2, <1>1, <1>2, <1>3, BeginningsOf DEF B
        <4>2. end # pos + run
          BY <3>2, <3>3
        <4> QED BY <4>1, <4>2
      <3>5. end = len \/ end + 1 \in B
        <4> SUFFICES ASSUME end < len PROVE end + 1 \in B
          BY <3>2, <1>1
        <4>1. end \in pos + run + 1 .. end /\ end \in Nat \ {0}
          BY <3>2, <3>3
        <4> QED BY <4>1, <3>2, <1>1, NextBegins DEF B
      <3>6. SoFar(words', end) /\ Firsts(words') = UpTo(pos) \cup {pos + 1, pos + run}
        <4>1. CASE run = 1
          <5>1. words' = words \o << <<pos + 1, end>> >>
            <6>1. Configuration!Part(pos + 1, pos + run - 1) = <<>>
              BY <4>1, <3>2 DEF Configuration!Part
            <6>2. Configuration!Part(pos + run, end) = << <<pos + 1, end>> >>
              BY <4>1, <3>2, <3>3 DEF Configuration!Part
            <6>3. words \o <<>> = words
              BY <1>3 DEF SoFar
            <6> QED BY <6>1, <6>2, <6>3, <3>1
          <5>2. end \in Nat /\ pos < end /\ end <= Len(field)
            BY <3>2, <3>3
          <5>3. SoFar(words', end) /\ Firsts(words') = Firsts(words) \cup {pos + 1}
            BY <5>1, <5>2, <1>1, <1>3, PartFound
          <5> QED BY <5>3, <4>1, <1>3
        <4>2. CASE run # 1
          <5> DEFINE q == pos + run - 1
                     ws == words \o << <<pos + 1, q>> >>
          <5>1. /\ q \in Nat /\ pos < q /\ q < end /\ q + 1 = pos + run
                /\ end \in Nat /\ q <= Len(field) /\ end <= Len(field)
            BY <4>2, <1>1, <1>5, <3>2, <3>3
          <5>2. words' = ws \o << <<q + 1, end>> >>
            <6>1. Configuration!Part(pos + 1, pos + run - 1) = << <<pos + 1, q>> >>
              BY <5>1, <3>2 DEF Configuration!Part
            <6>2. Configuration!Part(pos + run, end) = << <<q + 1, end>> >>
              BY <5>1, <3>2 DEF Configuration!Part
            <6> QED BY <6>1, <6>2, <3>1
          <5> HIDE DEF q
          <5>3. SoFar(ws, q) /\ Firsts(ws) = Firsts(words) \cup {pos + 1}
            BY <5>1, <1>1, <1>3, PartFound
          <5> HIDE DEF ws
          <5>4. SoFar(words', end) /\ Firsts(words') = Firsts(ws) \cup {q + 1}
            BY <5>1, <5>2, <5>3, <1>1, PartFound
          <5> QED BY <5>1, <5>3, <5>4, <1>3
        <4> QED BY <4>1, <4>2
      <3> QED BY <3>1, <3>2, <3>3, <3>4, <3>5, <3>6
    <2> QED BY <2>1, <2>2
  <1>7. field' = field
    BY DEF Configuration!Match
  <1>8. Configuration!Beginnings' = B
    BY <1>7 DEF B, Configuration!Beginnings, Configuration!BeginsWord, Configuration!Length
  <1>9. Reached' = e
    BY <1>1, <1>6, <1>7 DEF Reached
  <1>10. Configuration!SideBySide' /\ words' \in Seq((1 .. Len(field)) \X (1 .. Len(field)))
    BY <1>6 DEF SoFar, Configuration!SideBySide
  <1>11. IF words' = <<>> THEN e = 0 ELSE words'[Len(words')][2] = e
    BY <1>6 DEF SoFar
  <1>12. {words'[n][1] : n \in 1 .. Len(words')} = {b \in B : b <= e}
    BY <1>6 DEF Firsts, UpTo, B
  <1>13. Found'
    BY <1>6, <1>7, <1>8, <1>9, <1>10, <1>11, <1>12 DEF Found
  <1> QED BY <1>1, <1>6, <1>13

(* The inductive invariant of Config.                                      *)
CInv == Configuration!TypeOK /\ Found /\ Configuration!EnvironmentWins

LEMMA OverrideKeeps ==
    ASSUME CInv, Configuration!Override
    PROVE  CInv'
  <1>1. /\ Len(field) \in Nat \ {0} /\ pos = Len(field) /\ pos' = Len(field) + 1
        /\ UNCHANGED <<field, kind, file, text, words>>
    BY NameIsWord DEF CInv, Configuration!TypeOK, Configuration!Override, Configuration!Length
  <1>2. Reached = Len(field) /\ Reached' = Len(field)
    BY <1>1 DEF Reached
  <1>3. Configuration!Beginnings' = Configuration!Beginnings
    BY <1>1 DEF Configuration!Beginnings, Configuration!BeginsWord, Configuration!Length
  <1>4. Found'
    BY <1>1, <1>2, <1>3 DEF CInv, Found, Configuration!SideBySide
  <1>5. Configuration!AsWritten
    <2>1. {b \in Configuration!Beginnings : b <= Len(field)} = Configuration!Beginnings
      BY <1>1 DEF Configuration!Beginnings, Configuration!Length
    <2> QED BY <2>1, <1>1, <1>2 DEF CInv, Found, Configuration!AsWritten, Configuration!Length
  <1>6. Configuration!Getenv = text
    BY <1>5 DEF Configuration!Getenv
  <1>7. value' = IF text = "" THEN file
                 ELSE IF kind = "string" \/ text = "true" THEN text ELSE "false"
    BY <1>6 DEF Configuration!Override
  <1>8. kind \in {"string", "bool"} /\ text \in {"", "true", "false", "other"}
    BY DEF CInv, Configuration!TypeOK, Configuration!Text
  <1>9. Configuration!EnvironmentWins'
    <2>1. (kind = "string" \/ text # "other") => value' = IF text = "" THEN file ELSE text
      BY ONLY <1>7, <1>8
    <2> QED BY <2>1, <1>1 DEF Configuration!EnvironmentWins
  <1>10. Configuration!TypeOK'
    <2>1. value' \in Configuration!Value(kind)
      BY <1>7, <1>8 DEF CInv, Configuration!TypeOK, Configuration!Value, Configuration!Text
    <2>2. pos' \in 0 .. Len(field) + 1
      BY <1>1
    <2>3. Configuration!Value(kind)' = Configuration!Value(kind) /\ Configuration!Length' = Len(field)
      BY <1>1 DEF Configuration!Value, Configuration!Length
    <2> QED BY <2>1, <2>2, <2>3, <1>1 DEF CInv, Configuration!TypeOK, Configuration!Length
  <1> QED BY <1>4, <1>9, <1>10 DEF CInv

LEMMA ConfigKeeps ==
    ASSUME CInv, [Configuration!Next]_configVars
    PROVE  CInv'
  <1>1. CASE Configuration!Match
    <2>1. Found' /\ pos' \in 0 .. Len(field) /\ pos' > pos
      BY <1>1, MatchKeeps DEF CInv
    <2>2. UNCHANGED <<field, kind, file, text, value>> /\ Len(field) \in Nat
      BY <1>1, NameIsWord DEF Configuration!Match, CInv, Configuration!TypeOK
    <2>3. Configuration!TypeOK'
      BY <2>1, <2>2 DEF CInv, Configuration!TypeOK, Configuration!Length, Configuration!Value, Found
    <2>4. Configuration!EnvironmentWins'
      <3>1. ~Configuration!Loaded'
        BY <2>1, <2>2 DEF Configuration!Loaded, Configuration!Length
      <3> QED BY <3>1 DEF Configuration!EnvironmentWins
    <2> QED BY <2>1, <2>3, <2>4 DEF CInv
  <1>2. CASE Configuration!Override
    BY <1>2, OverrideKeeps
  <1>3. CASE UNCHANGED configVars
    <2>1. UNCHANGED <<field, kind, file, text, pos, words, value>>
      BY <1>3 DEF configVars
    <2>2. Configuration!TypeOK'
      BY <2>1 DEF CInv, Configuration!TypeOK, Configuration!Length, Configuration!Value
    <2>3. Configuration!EnvironmentWins'
      BY <2>1 DEF CInv, Configuration!EnvironmentWins, Configuration!Loaded, Configuration!Length
    <2>4. Configuration!Beginnings' = Configuration!Beginnings /\ Reached' = Reached
      BY <2>1 DEF Configuration!Beginnings, Configuration!BeginsWord, Configuration!Length, Reached
    <2>5. Found'
      BY <2>1, <2>4 DEF CInv, Found, Configuration!SideBySide
    <2> QED BY <2>2, <2>3, <2>5 DEF CInv
  <1> QED BY <1>1, <1>2, <1>3 DEF Configuration!Next

LEMMA ConfigBegins == MCInit => CInv
  <1>1. ASSUME Configuration!Init
        PROVE  CInv
    <2>1. Len(field) \in Nat \ {0}
      BY <1>1, NameIsWord DEF Configuration!Init
    <2>2. Configuration!TypeOK
      BY <2>1, <1>1 DEF Configuration!Init, Configuration!TypeOK, Configuration!Length
    <2>3. Configuration!EnvironmentWins
      <3>1. ~Configuration!Loaded
        BY <2>1, <1>1 DEF Configuration!Init, Configuration!Loaded, Configuration!Length
      <3> QED BY <3>1 DEF Configuration!EnvironmentWins
    <2>4. Found
      <3>1. pos = 0 /\ words = <<>> /\ Reached = 0
        BY <2>1, <1>1 DEF Configuration!Init, Reached
      <3>2. {b \in Configuration!Beginnings : b <= 0} = {}
        BY <2>1 DEF Configuration!Beginnings, Configuration!Length
      <3> QED BY <3>1, <3>2 DEF Found, Configuration!SideBySide
    <2> QED BY <2>2, <2>3, <2>4 DEF CInv
  <1>2. ASSUME Loaded
        PROVE  CInv
    <2>1. Len(field) = 1 /\ pos = 2 /\ field[1] = "A" /\ words = << <<1, 1>> >>
      BY <1>2 DEF Loaded
    <2>2. field \in Configuration!FieldName
      <3>1. 1 \in 1 .. MaxLength
        BY ProcessAssumption DEF Configuration!Constants
      <3>2. field \in [1 .. 1 -> {"A", "a"}]
        <4> DEFINE letters == {"A", "a"}
                   letter == "A"
        <4>1. letter \in letters /\ field = <<letter>>
          BY <1>2 DEF Loaded
        <4> HIDE DEF letters, letter
        <4>2. field \in Seq(letters)
          BY <4>1
        <4> QED BY <4>2, <2>1, LenProperties DEF letters
      <3> QED BY <3>1, <3>2, <2>1 DEF Configuration!FieldName, Configuration!Upper, Configuration!Other
    <2>3. Configuration!TypeOK
      <3>1. <<1, 1>> \in (1 .. Len(field)) \X (1 .. Len(field))
        BY <2>1
      <3>2. words \in Seq((1 .. Len(field)) \X (1 .. Len(field)))
        BY <3>1, <2>1
      <3>3. pos \in 0 .. Len(field) + 1
        BY <2>1
      <3>4. /\ kind \in {"string", "bool"} /\ file \in Configuration!Value(kind)
            /\ text \in Configuration!Text /\ value \in Configuration!Value(kind)
        BY <1>2 DEF Loaded, Configuration!Value, Configuration!Text
      <3> QED BY <3>2, <3>3, <3>4, <2>2 DEF Configuration!TypeOK, Configuration!Length
    <2>4. Configuration!EnvironmentWins
      BY <1>2 DEF Loaded, Configuration!EnvironmentWins
    <2>5. Found
      <3>1. Configuration!Beginnings = {1} /\ Reached = 1
        BY <2>1, Beginning DEF Reached
      <3>2. {words[n][1] : n \in 1 .. Len(words)} = {1}
        BY <2>1
      <3>3. {b \in Configuration!Beginnings : b <= Reached} = {1}
        BY <3>1
      <3> QED BY <2>1, <3>1, <3>2, <3>3 DEF Found, Configuration!SideBySide
    <2> QED BY <2>3, <2>4, <2>5 DEF CInv
  <1> QED BY <1>1, <1>2 DEF MCInit

(* Whatever a field is called, the environment variable of its words, if   *)
(* set, decides its value, and otherwise the file does.                    *)
THEOREM EnvironmentWinsAlways == MCSpec => []EnvironmentWins
  <1>1. MCInit => CInv
    BY ConfigBegins
  <1>2. CInv /\ [MCNext]_<<configVars, vars, apiVars>> => CInv'
    BY ConfigKeeps DEF MCNext
  <1>3. CInv => EnvironmentWins
    BY DEF CInv, EnvironmentWins
  <1> QED BY <1>1, <1>2, <1>3, PTL DEF MCSpec

=============================================================================
