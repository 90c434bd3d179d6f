------------------------------ MODULE MCPaging ------------------------------
(***************************************************************************)
(* The collection read page after page, for TLC: by the startup of the     *)
(* manager (Paging) or by a client (Listing).  An initial state has one of *)
(* them begin and the other one at its end.                                *)
(***************************************************************************)
EXTENDS Paging

CONSTANTS Id, Title, Limit, Search, EmptyIsNil, MaxChanges   \* of Listing; Title is its Name

VARIABLES
    kept, title, generated, access, query, skip, seen, done, removed, throughout, changes

clientVars == <<kept, title, generated, access, query, skip, seen, done, removed,
                throughout, changes>>

Client == INSTANCE Listing WITH Name <- Title, docs <- kept, name <- title, offset <- skip

ASSUME ClientAssumption == Client!Constants

(* For TLC: no text, a title, a title behind something that is no field, an*)
(* id.                                                                     *)
MCSearch ==
    {[prefix |-> "",      whole |-> Title, part |-> {}],
     [prefix |-> "",      whole |-> {1},   part |-> {}],
     [prefix |-> "other", whole |-> {},    part |-> {2}],
     [prefix |-> "id",    whole |-> {},    part |-> {3}]}

StartupOver ==
    /\ docs = {} /\ name = [d \in Doc |-> CHOOSE n \in Name : TRUE]
    /\ pass = "done" /\ offset = 0
    /\ batch = <<>> /\ more = FALSE /\ listed = <<>>
    /\ granted = {} /\ deployed = {}

ClientDone ==
    /\ kept = {} /\ title = [i \in Id |-> CHOOSE n \in Title : TRUE]
    /\ generated = {} /\ access = {}
    /\ query = CHOOSE q \in Client!Query : TRUE
    /\ skip = 0 /\ seen = <<>> /\ done = TRUE
    /\ removed = FALSE /\ throughout = {} /\ changes = 0

MCInit ==
    \/ Init /\ ClientDone
    \/ StartupOver /\ Client!Init

MCNext ==
    \/ Next /\ UNCHANGED clientVars
    \/ Client!Next /\ UNCHANGED vars

(* Startup goes on, and so does the client.                                *)
MCSpec ==
    /\ MCInit /\ [][MCNext]_<<vars, clientVars>>
    /\ WF_vars(Next) /\ WF_clientVars(Client!GetPage)

(* The client misses nothing that it asks for, in the order of the ids, if *)
(* nothing was removed or renamed meanwhile.                               *)
PagesServed ==
    /\ []Client!TypeOK
    /\ Client!NothingMissed

(* Whoever reads the collection comes to an end.                           *)
ReadingEnds == StartupEnds /\ Client!PagingEnds

=============================================================================
