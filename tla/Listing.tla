------------------------------ MODULE Listing ------------------------------
(***************************************************************************)
(* GET /instances with limit and offset (pkg/api/instances.go,             *)
(* Controller.ListInstances and Mongo.ListInstances), asked for page by    *)
(* page by a client while instances come, go and are renamed.  The client, *)
(* which is not part of the repository, skips as many instances as it was  *)
(* given and stops at an empty page or at the total.  created_at,          *)
(* updated_at and the searchable fields are like the name: not unique.     *)
(* What a text of a search fits is a set of values of the field.           *)
(***************************************************************************)
EXTENDS Naturals, Sequences, FiniteSets, SequencesExt

CONSTANTS
    Id,         \* ids, numbers for the order of the sort
    Name,       \* names, numbers too
    Limit,      \* values of the parameter limit; 0 is MongoDB's "no limit"
    Search,     \* values of the parameter search
    EmptyIsNil, \* the client of permissions-v2 answers nil for no ids
    MaxChanges  \* bound on the changes of the collection

(* A text that is split at colons: what comes before the first one, what   *)
(* the whole text fits, and what its second part does, which is more.  A   *)
(* prefix that names another field than the id is like none, with that part*)
(* for the text.                                                           *)
SearchText ==
    {s \in [prefix : {"", "id", "other"}, whole : SUBSET Nat, part : SUBSET Nat] :
        s.prefix = "other" => s.whole \subseteq s.part}

Constants ==
    /\ IsFiniteSet(Id) /\ Id \subseteq Nat /\ Id # {}
    /\ Name \subseteq Nat /\ Name # {}
    /\ Limit \subseteq Nat /\ Limit # {}
    /\ Search \subseteq SearchText /\ Search # {}
    /\ EmptyIsNil \in BOOLEAN
    /\ MaxChanges \in Nat

VARIABLES
    docs,       \* the ids of the stored instances
    name,       \* Id -> its name
    generated,  \* the instances created by other programs, flag Generated
    access,     \* the ids permissions-v2 lists for the client
    query,      \* the client's parameters
    offset,     \* where the next page begins
    seen,       \* the ids it was given
    done,       \* it has stopped
    removed,    \* history: an instance was removed or renamed meanwhile
    throughout, \* history: the instances it has asked for all the time
    changes

collection == <<docs, name, generated, access>>
pages == <<offset, seen, done>>
vars == <<collection, query, pages, removed, throughout, changes>>

Query == [order : {"id", "name"}, asc : BOOLEAN, limit : Limit,
          includeGenerated : BOOLEAN, search : Search]

-----------------------------------------------------------------------------
(* What the client means: its own instances that fit, a prefix that names  *)
(* no field being a part of what it searches for.                          *)
Asked ==
    {i \in docs \cap access :
        /\ query.includeGenerated \/ i \notin generated
        /\ IF query.search.prefix = "id" THEN i \in query.search.part
                                         ELSE name[i] \in query.search.whole}

(* ids = nil: the query is for the instances of everybody.                 *)
Unfiltered == EmptyIsNil /\ access = {}

(* The regular expression, on the name unless the prefix is that of        *)
(* another field, and of the second part only if there is a colon.         *)
Pattern(i) ==
    CASE query.search.prefix = ""      -> name[i] \in query.search.whole
      [] query.search.prefix = "other" -> name[i] \in query.search.part
      [] query.search.prefix = "id"    -> i \in query.search.part

(* The filter.  The accessible ids take the place of the regular expression*)
(* if that is on the id: both are filter[idKey].                           *)
Matching ==
    {i \in docs :
        /\ query.includeGenerated \/ i \notin generated
        /\ Unfiltered \/ i \in access
        /\ Pattern(i) \/ (query.search.prefix = "id" /\ ~Unfiltered)}

Key(i) == IF query.order = "id" THEN i ELSE name[i]

Before(i, j) == IF query.asc THEN Key(i) <= Key(j) ELSE Key(i) >= Key(j)

(* The orders the sort may give: equal keys in any order.                  *)
Sorted ==
    {s \in SetToSeqs(Matching) : \A k, l \in DOMAIN s : k < l => Before(s[k], s[l])}

Page(s) ==
    LET last == IF query.limit = 0 THEN Len(s) ELSE offset + query.limit
    IN  SubSeq(s, offset + 1, IF last < Len(s) THEN last ELSE Len(s))

(* Faulty: the total is that of the page.                                  *)
TotalOfPage(page) == Len(page)

(* len(ids): all the ids the client has access to, whatever it searches    *)
(* for and whether or not they are stored.                                 *)
Total(page) == Cardinality(access)

-----------------------------------------------------------------------------
(* The types of the variables; no page begins beyond what there may be.    *)
TypeOK ==
    /\ docs \subseteq Id /\ access \subseteq Id /\ generated \subseteq Id
    /\ name \in [Id -> Name]
    /\ query \in Query
    /\ offset = Len(seen) /\ seen \in Seq(Id)
    /\ offset <= Cardinality(Id)
    /\ done \in BOOLEAN /\ removed \in BOOLEAN
    /\ throughout \subseteq docs
    /\ changes \in 0 .. MaxChanges

(* A grant may be missing, and one may be left of an instance deleted.     *)
Init ==
    /\ docs \in SUBSET Id
    /\ name \in [Id -> Name]
    /\ generated \in {{}, {CHOOSE i \in Id : TRUE}}
    /\ access \in {docs, Id, {}}
    /\ query \in Query
    /\ offset = 0 /\ seen = <<>> /\ done = FALSE
    /\ removed = FALSE
    /\ throughout = Asked
    /\ changes = 0

(* One request and its answer.                                             *)
GetPage ==
    /\ ~done
    /\ \E s \in Sorted :
        LET page == Page(s) IN
        /\ seen' = seen \o page
        /\ offset' = offset + Len(page)
        /\ done' = (page = <<>> \/ offset' >= Total(page))
    /\ UNCHANGED <<collection, query, removed, throughout, changes>>

Change ==
    /\ ~done
    /\ changes < MaxChanges /\ changes' = changes + 1
    /\ UNCHANGED <<query, pages>>
    /\ throughout' = throughout \cap Asked'

(* POST, with the access that the next startup gives.                      *)
AddInstance(i) ==
    /\ i \notin docs
    /\ docs' = docs \cup {i} /\ access' = access \cup {i}
    /\ UNCHANGED <<name, generated, removed>>
    /\ Change

(* DELETE.  RemoveResource may fail.                                       *)
RemoveInstance(i) ==
    /\ i \in docs
    /\ docs' = docs \ {i} /\ access' \in {access, access \ {i}}
    /\ removed' = TRUE
    /\ UNCHANGED <<name, generated>>
    /\ Change

(* PUT.                                                                    *)
RenameInstance(i) ==
    /\ i \in docs
    /\ \E n \in Name : name' = [name EXCEPT ![i] = n]
    /\ removed' = TRUE
    /\ UNCHANGED <<docs, generated, access>>
    /\ Change

Next ==
    \/ GetPage
    \/ \E i \in Id : AddInstance(i) \/ RemoveInstance(i) \/ RenameInstance(i)

(* The client goes on asking.                                              *)
Spec == Init /\ [][Next]_vars /\ WF_vars(GetPage)

-----------------------------------------------------------------------------
(* Pages in the order of the ids miss no instance that the client asks for *)
(* and that was there all the time, unless one was removed or renamed      *)
(* before: instances that are added may only be the cause of repetitions.  *)
(* It does no harm that the total counts other ids too, nor that the query *)
(* is for more than was asked, by an id or a text with a colon.            *)
NothingMissed ==
    [][(~done /\ done' /\ query.order = "id" /\ ~removed) =>
          throughout \subseteq ToSet(seen')]_vars

(* The client is done in the end: offsets beyond what is left give nothing.*)
PagingEnds == <>done

=============================================================================
