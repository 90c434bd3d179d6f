---------------------------- MODULE PagingProofs ----------------------------
(***************************************************************************)
(* Theorems about modules Paging and Listing, for any collection, any      *)
(* names, any batch size and limit.                                        *)
(*                                                                         *)
(* The argument for startup: the sort may choose among documents with      *)
(* equal names, but not where they are.  In every result the documents of  *)
(* one name fill the same places, those after all smaller names.  Batches  *)
(* of different queries, put one after the other, so have a name at each   *)
(* place, though not a document, that is that of any one result.  The      *)
(* argument for a client's pages by id stands before the second part.      *)
(***************************************************************************)
EXTENDS MCPaging, FiniteSetTheorems, SequenceTheorems, TLAPS

(* The last places before, and of, the documents named n.                  *)
Less(D, nm, n) == Cardinality({d \in D : nm[d] < n})
Most(D, nm, n) == Cardinality({d \in D : nm[d] <= n})

Named(D, nm, n) == {d \in D : nm[d] = n}

(* Sequence q has the names that any result has from place b + 1 on.       *)
Fits(D, nm, q, b) ==
    \A k \in 1 .. Len(q) :
        Less(D, nm, nm[q[k]]) < b + k /\ b + k <= Most(D, nm, nm[q[k]])

(* Documents with a name of their own.                                     *)
Own(D, nm) == {d \in D : \A e \in D \ {d} : nm[e] # nm[d]}

Visited(q) == {q[k] : k \in 1 .. Len(q)}

Size == Cardinality(docs)

(* What the loop of either pass knows.                                     *)
Loop ==
    /\ batch \in Seq(docs) /\ Len(batch) <= offset
    /\ Fits(docs, name, batch, offset - Len(batch))
    /\ ~more => offset = Size
    /\ pass \in {"revoke", "done"} => batch = <<>> /\ ~more

Migrated ==
    pass \in {"migrate", "revoke"} =>
        /\ listed \in Seq(docs) /\ Len(listed) = offset - Len(batch)
        /\ Fits(docs, name, listed, 0)
        /\ Visited(listed) \subseteq granted

Ensured ==
    pass \in {"ensure", "done"} =>
        /\ Own(docs, name) \subseteq granted
        /\ \A d \in Own(docs, name) :
              Most(docs, name, name[d]) <= offset - Len(batch) => d \in deployed

IInv == TypeOK /\ Loop /\ Migrated /\ Ensured

-----------------------------------------------------------------------------
(* Sorted sequences.                                                       *)

(* The documents that any smaller one of a set comes before fill the first *)
(* places.                                                                 *)
LEMMA FirstPlaces ==
    ASSUME NEW D, IsFiniteSet(D), NEW nm,
           NEW s \in [1 .. Cardinality(D) -> D],
           \A i, j \in 1 .. Cardinality(D) : i < j => s[i] # s[j] /\ nm[s[i]] <= nm[s[j]],
           NEW E \in SUBSET D, \A e \in E, d \in D : nm[d] <= nm[e] => d \in E,
           NEW k \in 1 .. Cardinality(D)
    PROVE  s[k] \in E <=> k <= Cardinality(E)
  <1> DEFINE N == Cardinality(D)
             P == {i \in 1 .. N : s[i] \in E}
             t == [i \in P |-> s[i]]
  <1>1. N \in Nat
    BY FS_CardinalityType
  <1>2. s \in Injection(1 .. N, D)
    BY <1>1 DEF Injection, IsInjective
  <1>3. IsFiniteSet(1 .. N) /\ Cardinality(1 .. N) = N
    BY <1>1, FS_Interval
  <1>4. s \in Surjection(1 .. N, D)
    BY <1>2, <1>3, FS_Injection
  <1>5. IsFiniteSet(E) /\ Cardinality(E) \in Nat
    BY FS_Subset, FS_CardinalityType
  <1>6. IsFiniteSet(P) /\ Cardinality(P) = Cardinality(E)
    <2>1. t \in [P -> E]
      OBVIOUS
    <2>2. t \in Injection(P, E)
      BY <1>2, <2>1 DEF Injection, IsInjective
    <2>3. t \in Surjection(P, E)
      <3>1. ASSUME NEW e \in E PROVE \E i \in P : t[i] = e
        <4>1. PICK i \in 1 .. N : s[i] = e
          BY <1>4 DEF Surjection
        <4> QED BY <4>1
      <3> QED BY <2>1, <3>1 DEF Surjection
    <2>4. IsFiniteSet(P)
      BY <1>3, FS_Subset
    <2> QED BY <2>2, <2>3, <2>4, FS_Bijection DEF ExistsBijection, Bijection
  <1>7. \A i \in P : 1 .. i \subseteq P
    BY <1>1
  <1>8. \A i \in P : i <= Cardinality(E)
    <2>1. ASSUME NEW i \in P PROVE i <= Cardinality(E)
      <3>1. i \in Nat /\ i >= 1
        BY <1>1
      <3>2. Cardinality(1 .. i) <= Cardinality(P)
        BY <1>6, <1>7, FS_Subset
      <3>3. Cardinality(1 .. i) = i
        BY <3>1, FS_Interval
      <3> QED BY <1>6, <3>2, <3>3
    <2> QED BY <2>1
  <1>9. P = 1 .. Cardinality(E)
    <2>1. P \subseteq 1 .. Cardinality(E)
      BY <1>1, <1>5, <1>8
    <2>2. IsFiniteSet(1 .. Cardinality(E)) /\ Cardinality(1 .. Cardinality(E)) = Cardinality(E)
      BY <1>5, FS_Interval
    <2> HIDE DEF P
    <2> QED BY <1>6, <2>1, <2>2, FS_Subset
  <1> QED BY <1>1, <1>5, <1>9

(* So the documents of one name fill the places after those of smaller     *)
(* names.                                                                  *)
LEMMA Places ==
    ASSUME NEW D, IsFiniteSet(D), NEW nm, \A d \in D : nm[d] \in Nat,
           NEW s \in [1 .. Cardinality(D) -> D],
           \A i, j \in 1 .. Cardinality(D) : i < j => s[i] # s[j] /\ nm[s[i]] <= nm[s[j]],
           NEW k \in 1 .. Cardinality(D)
    PROVE  Less(D, nm, nm[s[k]]) < k /\ k <= Most(D, nm, nm[s[k]])
  <1> DEFINE n == nm[s[k]]
             B == {d \in D : nm[d] < n}
             M == {d \in D : nm[d] <= n}
  <1>1. s[k] \in D /\ n \in Nat
    OBVIOUS
  <1>2. \A e \in B, d \in D : nm[d] <= nm[e] => d \in B
    BY <1>1
  <1>3. \A e \in M, d \in D : nm[d] <= nm[e] => d \in M
    BY <1>1
  <1>4. s[k] \notin B /\ s[k] \in M
    BY <1>1
  <1>5. B \in SUBSET D /\ M \in SUBSET D
    OBVIOUS
  <1> HIDE DEF B, M
  <1>6. ~(k <= Cardinality(B))
    BY <1>2, <1>4, <1>5, FirstPlaces
  <1>7. k <= Cardinality(M)
    BY <1>3, <1>4, <1>5, FirstPlaces
  <1>8. Cardinality(B) \in Nat
    BY <1>5, FS_Subset, FS_CardinalityType
  <1> QED BY <1>6, <1>7, <1>8 DEF B, M, Less, Most

LEMMA Disjoint ==
    ASSUME NEW S, NEW T, IsFiniteSet(S), IsFiniteSet(T), S \cap T = {}
    PROVE  Cardinality(S \cup T) = Cardinality(S) + Cardinality(T)
  <1>1. Cardinality(S \cup T) = Cardinality(S) + Cardinality(T) - Cardinality(S \cap T)
    BY FS_Union
  <1>2. Cardinality(S \cap T) = 0
    BY FS_EmptySet
  <1>3. Cardinality(S) \in Nat /\ Cardinality(T) \in Nat
    BY FS_CardinalityType
  <1> QED BY <1>1, <1>2, <1>3

LEMMA Counts ==
    ASSUME NEW D, IsFiniteSet(D), NEW nm, \A d \in D : nm[d] \in Nat, NEW n \in Nat
    PROVE  /\ Less(D, nm, n) \in Nat
           /\ Most(D, nm, n) = Less(D, nm, n) + Cardinality(Named(D, nm, n))
           /\ Cardinality(Named(D, nm, n)) \in Nat
           /\ Most(D, nm, n) \in Nat /\ Most(D, nm, n) <= Cardinality(D)
  <1> DEFINE B == {d \in D : nm[d] < n}
             M == {d \in D : nm[d] <= n}
             E == Named(D, nm, n)
  <1>1. B \in SUBSET D /\ M \in SUBSET D /\ E \in SUBSET D
    BY DEF Named
  <1>2. M = B \cup E /\ B \cap E = {}
    BY DEF Named
  <1> HIDE DEF B, M, E
  <1>3. /\ IsFiniteSet(B) /\ IsFiniteSet(E) /\ Cardinality(M) <= Cardinality(D)
        /\ Cardinality(B) \in Nat /\ Cardinality(M) \in Nat /\ Cardinality(E) \in Nat
    BY <1>1, FS_Subset, FS_CardinalityType
  <1>4. Cardinality(M) = Cardinality(B) + Cardinality(E)
    BY <1>2, <1>3, Disjoint
  <1> QED BY <1>3, <1>4 DEF Less, Most, B, M, E

LEMMA Order ==
    ASSUME NEW D, IsFiniteSet(D), NEW nm, \A d \in D : nm[d] \in Nat,
           NEW m \in Nat, NEW n \in Nat, m < n
    PROVE  Most(D, nm, m) <= Less(D, nm, n)
  <1> DEFINE B == {d \in D : nm[d] < n}
             M == {d \in D : nm[d] <= m}
  <1>1. M \in SUBSET B /\ B \in SUBSET D
    OBVIOUS
  <1> HIDE DEF B, M
  <1>2. Cardinality(M) <= Cardinality(B)
    BY <1>1, FS_Subset
  <1> QED BY <1>2 DEF Less, Most, B, M

(* A document with a name of its own has a place of its own.               *)
LEMMA OwnPlace ==
    ASSUME NEW D, IsFiniteSet(D), NEW nm, \A d \in D : nm[d] \in Nat, NEW d \in Own(D, nm)
    PROVE  /\ d \in D /\ nm[d] \in Nat
           /\ Most(D, nm, nm[d]) \in 1 .. Cardinality(D)
           /\ Less(D, nm, nm[d]) \in Nat
           /\ Most(D, nm, nm[d]) = Less(D, nm, nm[d]) + 1
  <1>1. d \in D
    BY DEF Own
  <1>2. PICK n \in Nat : n = nm[d]
    BY <1>1
  <1>3. Named(D, nm, n) = {d}
    BY <1>1, <1>2 DEF Named, Own
  <1>4. Cardinality(Named(D, nm, n)) = 1
    BY <1>3, FS_Singleton
  <1>5. /\ Less(D, nm, n) \in Nat /\ Most(D, nm, n) = Less(D, nm, n) + 1
        /\ Most(D, nm, n) \in Nat /\ Most(D, nm, n) <= Cardinality(D)
    BY <1>4, Counts
  <1>6. Cardinality(D) \in Nat
    BY FS_CardinalityType
  <1> QED BY <1>1, <1>2, <1>5, <1>6

(* What has the name of a place has the place of the name.                 *)
LEMMA NameOfPlace ==
    ASSUME NEW D, IsFiniteSet(D), NEW nm, \A d \in D : nm[d] \in Nat,
           NEW m \in Nat, NEW n \in Nat, NEW k \in Nat,
           Less(D, nm, m) < k, k <= Most(D, nm, m)
    PROVE  m = n <=> Less(D, nm, n) < k /\ k <= Most(D, nm, n)
  <1>1. /\ Less(D, nm, m) \in Nat /\ Most(D, nm, m) \in Nat
        /\ Less(D, nm, n) \in Nat /\ Most(D, nm, n) \in Nat
    BY Counts
  <1>2. m < n => Most(D, nm, m) <= Less(D, nm, n)
    BY Order
  <1>3. n < m => Most(D, nm, n) <= Less(D, nm, m)
    BY Order
  <1> QED BY <1>1, <1>2, <1>3

(* A document with a name of its own is in every sequence that reaches     *)
(* its place.                                                              *)
LEMMA OwnVisited ==
    ASSUME NEW D, IsFiniteSet(D), NEW nm, \A d \in D : nm[d] \in Nat,
           NEW q \in Seq(D), NEW b \in Nat, Fits(D, nm, q, b), NEW d \in Own(D, nm),
           b < Most(D, nm, nm[d]), Most(D, nm, nm[d]) <= b + Len(q)
    PROVE  d = q[Most(D, nm, nm[d]) - b] /\ Most(D, nm, nm[d]) - b \in 1 .. Len(q)
  <1> DEFINE n == nm[d]
             k == Most(D, nm, n) - b
  <1>1. d \in D /\ n \in Nat
    BY DEF Own
  <1>4. Most(D, nm, n) \in Nat /\ Less(D, nm, n) \in Nat
        /\ Less(D, nm, n) < Most(D, nm, n)
    BY OwnPlace
  <1>5. k \in 1 .. Len(q) /\ b + k = Most(D, nm, n)
    BY <1>4, LenProperties
  <1>6. q[k] \in D /\ nm[q[k]] \in Nat
    BY <1>5, ElementOfSeq
  <1>7. Less(D, nm, nm[q[k]]) < b + k /\ b + k <= Most(D, nm, nm[q[k]])
    BY <1>5 DEF Fits
  <1>8. nm[q[k]] = n
    BY <1>1, <1>4, <1>5, <1>6, <1>7, NameOfPlace
  <1> QED BY <1>1, <1>5, <1>6, <1>8 DEF Own

LEMMA DocsFinite ==
    ASSUME TypeOK
    PROVE  /\ IsFiniteSet(docs) /\ Size \in Nat
           /\ \A d \in docs : name[d] \in Nat /\ name[d] \in Name
           /\ offset \in Nat /\ offset <= Size
           /\ BatchSize \in Nat \ {0}
  <1>1. IsFiniteSet(docs)
    BY PagingAssumption, FS_Subset DEF TypeOK
  <1>2. Size \in Nat
    BY <1>1, FS_CardinalityType DEF Size
  <1>3. \A d \in docs : name[d] \in Nat /\ name[d] \in Name
    BY PagingAssumption DEF TypeOK
  <1>4. offset \in 0 .. Size
    BY Zenon DEF TypeOK, Size
  <1> QED BY <1>1, <1>2, <1>3, <1>4, PagingAssumption

-----------------------------------------------------------------------------
(* The steps.                                                              *)

(* A batch that is read fits on to what was read before.                   *)
LEMMA ReadBatchStep ==
    ASSUME IInv, ReadBatch
    PROVE  IInv'
  <1>1. /\ IsFiniteSet(docs) /\ Size \in Nat /\ \A d \in docs : name[d] \in Nat
        /\ offset \in Nat /\ offset <= Size /\ BatchSize \in Nat \ {0}
    BY DocsFinite DEF IInv
  <1>2. PICK s \in SortedByName :
            /\ batch' = SubSeq(s, offset + 1, Least(offset + BatchSize, Len(s)))
            /\ offset' = offset + Len(batch') /\ more' = (Len(batch') >= BatchSize)
    BY DEF ReadBatch, Advance
  <1>3. /\ s \in [1 .. Size -> docs]
        /\ \A i, j \in 1 .. Size : i < j => s[i] # s[j] /\ name[s[i]] <= name[s[j]]
    BY DEF SortedByName, Size
  <1>4. s \in Seq(docs) /\ Len(s) = Size
    BY <1>1, <1>3, SeqDef
  <1>5. PICK last \in Nat : last = Least(offset + BatchSize, Size) /\ last >= offset
                            /\ last <= Size
    BY <1>1 DEF Least
  <1>6. \A i \in offset + 1 .. last : s[i] \in docs /\ i \in 1 .. Size
    BY <1>1, <1>3, <1>5
  <1>7. PICK b \in Seq(docs) :
            /\ b = batch' /\ Len(b) = last - offset
            /\ \A k \in 1 .. last - offset : b[k] = s[offset + k]
    <2>1. batch' = SubSeq(s, offset + 1, last)
      BY <1>2, <1>4, <1>5
    <2>2. /\ SubSeq(s, offset + 1, last) \in Seq(docs)
          /\ Len(SubSeq(s, offset + 1, last)) = last - offset
          /\ \A k \in 1 .. last - offset : SubSeq(s, offset + 1, last)[k] = s[offset + k]
      <3>1. offset + 1 \in Int /\ last \in Int
        BY <1>1, <1>5
      <3>2. /\ SubSeq(s, offset + 1, last) \in Seq(docs)
            /\ Len(SubSeq(s, offset + 1, last)) =
                  IF offset + 1 <= last THEN last - (offset + 1) + 1 ELSE 0
            /\ \A k \in 1 .. last - (offset + 1) + 1 :
                  SubSeq(s, offset + 1, last)[k] = s[offset + 1 + k - 1]
        BY <1>6, <3>1, SubSeqProperties
      <3> QED BY <1>1, <1>5, <3>2
    <2> QED BY <2>1, <2>2
  <1>8. offset' = last /\ (more' = (last - offset >= BatchSize)) /\ more' \in BOOLEAN
    <2>1. Len(batch') = last - offset
      BY <1>7
    <2>2. offset' = offset + Len(batch')
      BY <1>2
    <2>3. offset' = last
      BY <1>1, <1>5, <2>1, <2>2
    <2>4. more' = (last - offset >= BatchSize)
      BY <1>2, <2>1, Zenon
    <2>5. more' \in BOOLEAN
      BY ONLY <2>4
    <2> QED BY <2>3, <2>4, <2>5
  <1>9. Fits(docs, name, b, offset)
    <2>1. ASSUME NEW k \in 1 .. Len(b)
          PROVE  Less(docs, name, name[b[k]]) < offset + k
                 /\ offset + k <= Most(docs, name, name[b[k]])
      <3>1. b[k] = s[offset + k] /\ offset + k \in 1 .. Size
        BY <1>1, <1>5, <1>7
      <3> QED BY <1>1, <1>3, <3>1, Places DEF Size
    <2> QED BY <2>1 DEF Fits
  <1>10. /\ UNCHANGED <<docs, name, pass, listed, granted, deployed>>
         /\ batch = <<>> /\ Len(batch) = 0 /\ pass \in {"migrate", "ensure"}
    BY DEF ReadBatch
  <1>11. offset' - Len(batch') = offset /\ offset - Len(batch) = offset
    BY <1>1, <1>5, <1>7, <1>8, <1>10
  <1>12. TypeOK'
    <2>1. b \in Seq(Doc)
      BY <1>7 DEF IInv, TypeOK
    <2>2. offset' \in 0 .. Cardinality(docs)
      BY <1>1, <1>5, <1>8 DEF Size
    <2> QED BY <1>7, <1>8, <1>10, <2>1, <2>2 DEF IInv, TypeOK
  <1>13. Loop'
    <2>1. Len(b) <= offset' /\ (~more' => offset' = Size)
      <3>1. Len(b) <= offset'
        BY <1>1, <1>5, <1>7, <1>8
      <3>2. ~(last - offset >= BatchSize) => last = Size
        BY <1>1, <1>5 DEF Least
      <3> QED BY <1>8, <3>1, <3>2
    <2> QED BY <1>7, <1>9, <1>10, <1>11, <2>1 DEF Loop, Size
  <1>14. Migrated' /\ Ensured'
    BY <1>7, <1>8, <1>10, <1>11 DEF IInv, Migrated, Ensured
  <1> QED BY <1>12, <1>13, <1>14 DEF IInv

(* What is left of the batch fits where it is.                             *)
LEMMA VisitStep ==
    ASSUME IInv, Visit
    PROVE  IInv'
  <1>1. /\ IsFiniteSet(docs) /\ Size \in Nat /\ \A d \in docs : name[d] \in Nat
        /\ offset \in Nat /\ offset <= Size
    BY DocsFinite DEF IInv
  <1>2. /\ batch # <<>> /\ batch' = Tail(batch) /\ pass \in {"migrate", "ensure"}
        /\ UNCHANGED <<docs, name, pass, offset, more>>
    BY DEF Visit
  <1>3. PICK q \in Seq(docs) : q = batch
    BY DEF IInv, Loop
  <1>4. PICK l \in Nat : l = Len(q) /\ l > 0 /\ l <= offset
    BY <1>2, <1>3, EmptySeq DEF IInv, Loop
  <1>14. PICK base \in Nat : base = offset - l /\ offset = base + l
    BY <1>1, <1>4
  <1>5. PICK r \in Seq(docs) : r = batch' /\ Len(r) = l - 1
                               /\ \A k \in 1 .. l - 1 : r[k] = q[k + 1]
    <2>1. Tail(q) \in Seq(docs) /\ Len(Tail(q)) = l - 1
          /\ \A k \in 1 .. l - 1 : Tail(q)[k] = q[k + 1]
      BY <1>2, <1>3, <1>4, HeadTailProperties
    <2> QED BY <1>2, <1>3, <2>1
  <1>6. PICK d \in docs : d = Head(batch) /\ d = q[1]
    BY <1>2, <1>3, HeadTailProperties
  <1>7. Fits(docs, name, q, base)
    BY <1>3, <1>4, <1>14 DEF IInv, Loop
  <1>15. offset' - Len(r) = base + 1 /\ offset' = offset /\ Len(r) <= offset
    <2>1. offset' = offset
      BY <1>2
    <2> QED BY <1>4, <1>5, <1>14, <2>1
  <1>8. Fits(docs, name, r, base + 1)
    <2>1. ASSUME NEW k \in 1 .. Len(r)
          PROVE  Less(docs, name, name[r[k]]) < (base + 1) + k
                 /\ (base + 1) + k <= Most(docs, name, name[r[k]])
      <3>1. r[k] = q[k + 1] /\ k + 1 \in 1 .. Len(q) /\ (base + 1) + k = base + (k + 1)
        BY <1>4, <1>5
      <3> QED BY <1>7, <3>1 DEF Fits
    <2> QED BY <2>1 DEF Fits
  <1>9. /\ Less(docs, name, name[d]) < base + 1
        /\ base + 1 <= Most(docs, name, name[d])
    BY <1>4, <1>6, <1>7 DEF Fits
  <1>10. r \in Seq(Doc) /\ d \in Doc
    BY <1>5, <1>6 DEF IInv, TypeOK
  <1>11. Loop'
    BY <1>2, <1>5, <1>8, <1>15 DEF IInv, Loop, Size
  <1>12. CASE /\ pass = "migrate" /\ listed' = Append(listed, d)
              /\ granted' = granted \cup {d} /\ UNCHANGED deployed
    <2>1. PICK p \in Seq(docs) : p = listed /\ Len(p) = base
      BY <1>3, <1>4, <1>12, <1>14 DEF IInv, Migrated
    <2>2. PICK t \in Seq(docs) :
              /\ t = listed' /\ Len(t) = Len(p) + 1 /\ t[Len(p) + 1] = d
              /\ \A k \in 1 .. Len(p) : t[k] = p[k]
      <3>1. /\ Append(p, d) \in Seq(docs) /\ Len(Append(p, d)) = Len(p) + 1
            /\ \A k \in 1 .. Len(p) : Append(p, d)[k] = p[k]
            /\ Append(p, d)[Len(p) + 1] = d
        BY AppendProperties
      <3>2. listed' = Append(p, d)
        BY <1>12, <2>1
      <3> QED BY <3>1, <3>2
    <2>3. Fits(docs, name, p, 0) /\ Visited(p) \subseteq granted
      BY <1>12, <2>1 DEF IInv, Migrated
    <2>4. Fits(docs, name, t, 0)
      <3>1. ASSUME NEW k \in 1 .. Len(t)
            PROVE  Less(docs, name, name[t[k]]) < 0 + k /\ 0 + k <= Most(docs, name, name[t[k]])
        <4>1. CASE k \in 1 .. Len(p)
          BY <2>2, <2>3, <4>1 DEF Fits
        <4>2. CASE k = Len(p) + 1
          BY <1>9, <2>1, <2>2, <4>2
        <4> QED BY <2>1, <2>2, <4>1, <4>2
      <3> QED BY <3>1 DEF Fits
    <2>5. Visited(t) \subseteq granted'
      <3>1. \A k \in 1 .. Len(t) : k \in 1 .. Len(p) \/ k = Len(p) + 1
        BY <2>1, <2>2
      <3> QED BY <1>12, <2>2, <2>3, <3>1 DEF Visited
    <2>6. Len(t) = offset' - Len(r)
      BY <1>15, <2>1, <2>2
    <2>7. Migrated' /\ Ensured'
      BY <1>2, <1>5, <1>12, <2>2, <2>4, <2>5, <2>6 DEF Migrated, Ensured
    <2>8. TypeOK'
      <3>1. t \in Seq(Doc)
        BY <2>2 DEF IInv, TypeOK
      <3> QED BY <1>2, <1>5, <1>10, <1>12, <2>2, <3>1 DEF IInv, TypeOK
    <2> QED BY <1>11, <2>7, <2>8 DEF IInv
  <1>13. CASE /\ pass = "ensure" /\ deployed' = deployed \cup {d}
              /\ UNCHANGED <<listed, granted>>
    <2>1. ASSUME NEW e \in Own(docs, name), Most(docs, name, name[e]) <= base + 1
          PROVE  e \in deployed'
      <3>1. Most(docs, name, name[e]) \in Nat
        BY <1>1, OwnPlace
      <3>2. CASE Most(docs, name, name[e]) <= base
        BY <1>3, <1>4, <1>13, <1>14, <3>2 DEF IInv, Ensured
      <3>3. CASE Most(docs, name, name[e]) = base + 1
        <4>1. e = q[Most(docs, name, name[e]) - base]
          <5>1. base < Most(docs, name, name[e]) /\ Most(docs, name, name[e]) <= base + Len(q)
            BY <1>4, <3>3
          <5> QED BY <1>1, <1>7, <5>1, OwnVisited
        <4>2. Most(docs, name, name[e]) - base = 1
          BY <3>3
        <4> QED BY <1>6, <1>13, <4>1, <4>2
      <3> QED BY <2>1, <3>1, <3>2, <3>3
    <2>2. Ensured' /\ Migrated'
      BY <1>2, <1>5, <1>13, <1>15, <2>1 DEF IInv, Ensured, Migrated
    <2>3. TypeOK'
      BY <1>2, <1>5, <1>10, <1>13 DEF IInv, TypeOK
    <2> QED BY <1>11, <2>2, <2>3 DEF IInv
  <1> QED BY <1>6, <1>12, <1>13 DEF Visit

LEMMA MigrateListedStep ==
    ASSUME IInv, MigrateListed
    PROVE  IInv'
  BY DEF MigrateListed, IInv, TypeOK, Loop, Migrated, Ensured, Size

(* When all was read each document with a name of its own was visited.     *)
LEMMA AllListed ==
    ASSUME IInv, pass = "revoke"
    PROVE  /\ listed \in Seq(docs) /\ Len(listed) = Size
           /\ Fits(docs, name, listed, 0)
           /\ Own(docs, name) \subseteq Visited(listed)
  <1>1. /\ IsFiniteSet(docs) /\ Size \in Nat /\ \A d \in docs : name[d] \in Nat
        /\ offset \in Nat
    BY DocsFinite DEF IInv
  <1>2. batch = <<>> /\ offset = Size /\ Len(batch) = 0
    BY DEF IInv, Loop
  <1>3. PICK p \in Seq(docs) : p = listed /\ Len(p) = Size /\ Fits(docs, name, p, 0)
    BY <1>1, <1>2 DEF IInv, Migrated
  <1>4. ASSUME NEW d \in Own(docs, name) PROVE d \in Visited(p)
    <2>4. 0 < Most(docs, name, name[d]) /\ Most(docs, name, name[d]) <= 0 + Len(p)
      BY <1>1, <1>3, OwnPlace DEF Size
    <2>5. d = p[Most(docs, name, name[d]) - 0] /\ Most(docs, name, name[d]) - 0 \in 1 .. Len(p)
      BY <1>1, <1>3, <2>4, OwnVisited
    <2> QED BY <2>5 DEF Visited
  <1> QED BY <1>3, <1>4

LEMMA MigrateRevokeStep ==
    ASSUME IInv, MigrateRevoke
    PROVE  IInv'
  <1>1. /\ IsFiniteSet(docs) /\ Size \in Nat /\ \A d \in docs : name[d] \in Nat
    BY DocsFinite DEF IInv
  <1>2. /\ pass = "revoke" /\ pass' = "ensure" /\ offset' = 0 /\ more' = TRUE /\ listed' = <<>>
        /\ granted' = {d \in granted : \E i \in DOMAIN listed : listed[i] = d}
        /\ UNCHANGED <<docs, name, batch, deployed>>
    BY DEF MigrateRevoke
  <1>3. batch = <<>> /\ Len(batch) = 0
    BY <1>2 DEF IInv, Loop
  <1>4. Own(docs, name) \subseteq granted'
    <2>1. Own(docs, name) \subseteq Visited(listed) /\ Visited(listed) \subseteq granted
      BY <1>2, AllListed DEF IInv, Migrated
    <2>2. DOMAIN listed = 1 .. Len(listed)
      BY <1>2, AllListed, LenProperties
    <2> QED BY <1>2, <2>1, <2>2 DEF Visited
  <1>5. \A d \in Own(docs, name) : ~(Most(docs, name, name[d]) <= 0)
    BY <1>1, OwnPlace DEF Size
  <1>6. Loop'
    BY <1>2, <1>3 DEF IInv, Loop, Fits
  <1>7. Migrated' /\ Ensured'
    BY <1>2, <1>3, <1>4, <1>5 DEF Migrated, Ensured
  <1>8. TypeOK'
    <2>1. 0 \in 0 .. Cardinality(docs)
      BY <1>1 DEF Size
    <2> QED BY <1>2, <2>1 DEF IInv, TypeOK
  <1> QED BY <1>6, <1>7, <1>8 DEF IInv

LEMMA EnsureDoneStep ==
    ASSUME IInv, EnsureDone
    PROVE  IInv'
  BY DEF EnsureDone, IInv, TypeOK, Loop, Migrated, Ensured, Size

-----------------------------------------------------------------------------
(* The theorems.                                                           *)

LEMMA Initially ==
    ASSUME Init
    PROVE  IInv
  <1>1. IsFiniteSet(docs)
    BY PagingAssumption, FS_Subset DEF Init
  <1>2. 0 \in 0 .. Cardinality(docs)
    BY <1>1, FS_CardinalityType
  <1>3. TypeOK
    BY <1>2 DEF Init, TypeOK
  <1>4. Loop /\ Migrated /\ Ensured
    <2>1. <<>> \in Seq(docs) /\ Len(<<>>) = 0
      BY EmptySeq
    <2>2. Fits(docs, name, <<>>, 0) /\ Visited(<<>>) = {}
      BY <2>1 DEF Fits, Visited
    <2>3. /\ pass = "migrate" /\ offset = 0 /\ batch = <<>> /\ listed = <<>>
          /\ Len(batch) = 0
      BY <2>1, Zenon DEF Init
    <2>5. offset - Len(batch) = 0 /\ Len(batch) <= offset
      <3>1. offset = 0 /\ Len(batch) = 0
        BY <2>3
      <3> QED BY ONLY <3>1
    <2>4. more
      BY DEF Init
    <2> QED BY <2>1, <2>2, <2>3, <2>4, <2>5 DEF Loop, Migrated, Ensured
  <1> QED BY <1>3, <1>4 DEF IInv

LEMMA Inductive ==
    ASSUME IInv, [Next]_vars
    PROVE  IInv'
  <1>1. CASE UNCHANGED vars
    BY <1>1 DEF vars, IInv, TypeOK, Loop, Migrated, Ensured, Size
  <1> QED BY <1>1, ReadBatchStep, VisitStep, MigrateListedStep, MigrateRevokeStep,
            EnsureDoneStep DEF Next

LEMMA AlwaysIInv == Spec => []IInv
  <1>1. Init => IInv
    BY Initially
  <1>2. IInv /\ [Next]_vars => IInv'
    BY Inductive
  <1> QED BY <1>1, <1>2, PTL DEF Spec

(* Every variable has its type, and the offset of a query never exceeds    *)
(* the number of documents.                                                *)
THEOREM TypeCorrect == Spec => []TypeOK
  <1>1. IInv => TypeOK
    BY DEF IInv
  <1> QED BY <1>1, AlwaysIInv, PTL

LEMMA ListedComplete ==
    ASSUME IInv
    PROVE  NamesComplete
  <1> SUFFICES ASSUME pass = "revoke", NEW n \in Name
               PROVE  CountNamed(listed, n) = Cardinality({d \in docs : name[d] = n})
    BY DEF NamesComplete
  <1>1. /\ IsFiniteSet(docs) /\ Size \in Nat /\ \A d \in docs : name[d] \in Nat
        /\ n \in Nat
    BY DocsFinite, PagingAssumption DEF IInv
  <1>2. PICK p \in Seq(docs) : p = listed /\ Len(p) = Size /\ Fits(docs, name, p, 0)
    BY AllListed
  <1>3. PICK a \in Nat, z \in Nat : /\ a = Less(docs, name, n) /\ z = Most(docs, name, n)
                                    /\ a <= z /\ z <= Size
                                    /\ z - a = Cardinality(Named(docs, name, n))
    <2>1. /\ Less(docs, name, n) \in Nat /\ Most(docs, name, n) \in Nat
          /\ Most(docs, name, n) = Less(docs, name, n) + Cardinality(Named(docs, name, n))
          /\ Cardinality(Named(docs, name, n)) \in Nat
          /\ Most(docs, name, n) <= Cardinality(docs)
      BY <1>1, Counts
    <2> QED BY <2>1 DEF Size
  <1>4. DOMAIN p = 1 .. Size
    BY <1>2, LenProperties
  <1>5. \A k \in 1 .. Size : name[p[k]] = n <=> a < k /\ k <= z
    <2>1. ASSUME NEW k \in 1 .. Size PROVE name[p[k]] = n <=> a < k /\ k <= z
      <3>1. k \in 1 .. Len(p) /\ k \in Nat /\ p[k] \in docs /\ name[p[k]] \in Nat
        BY <1>1, <1>2, ElementOfSeq
      <3>2. Less(docs, name, name[p[k]]) < 0 + k /\ 0 + k <= Most(docs, name, name[p[k]])
        BY <1>2, <3>1 DEF Fits
      <3>3. Less(docs, name, name[p[k]]) < k /\ k <= Most(docs, name, name[p[k]])
        BY <3>1, <3>2
      <3> QED BY <1>1, <1>3, <3>1, <3>3, NameOfPlace
    <2> QED BY <2>1
  <1>6. {k \in DOMAIN p : name[p[k]] = n} = a + 1 .. z
    BY <1>1, <1>3, <1>4, <1>5
  <1>7. Cardinality(a + 1 .. z) = z - a
    <2>1. a + 1 \in Int /\ z \in Int
      BY <1>3
    <2>2. Cardinality(a + 1 .. z) = IF a + 1 > z THEN 0 ELSE z - (a + 1) + 1
      BY <2>1, FS_Interval
    <2> QED BY <1>3, <2>2
  <1> QED BY <1>2, <1>3, <1>6, <1>7 DEF CountNamed, Named

(* migrate visits as many instances of each name as there are, however     *)
(* the database sorts equal names and whatever the batch size.             *)
THEOREM NamesCompleteHolds == Spec => []NamesComplete
  BY ListedComplete, AlwaysIInv, PTL

LEMMA DoneServed ==
    ASSUME IInv
    PROVE  OwnNameServed
  <1> SUFFICES ASSUME pass = "done", NEW d \in docs, OwnName(d)
               PROVE  d \in granted /\ d \in deployed
    BY DEF OwnNameServed
  <1>1. IsFiniteSet(docs) /\ Size \in Nat /\ \A e \in docs : name[e] \in Nat
    BY DocsFinite DEF IInv
  <1>2. d \in Own(docs, name)
    BY DEF OwnName, Own
  <1>3. batch = <<>> /\ Len(batch) = 0 /\ offset = Size
    BY DEF IInv, Loop
  <1>4. Most(docs, name, name[d]) <= offset - Len(batch)
    BY <1>1, <1>2, <1>3, OwnPlace DEF Size
  <1> QED BY <1>2, <1>4 DEF IInv, Ensured

(* After startup each stored instance with a name of its own is registered *)
(* and has its container, whatever the number of instances.                *)
THEOREM OwnNameServedHolds == Spec => []OwnNameServed
  BY DoneServed, AlwaysIInv, PTL

(* An instance with a name of its own never loses its registration.        *)
THEOREM OwnNameKeepsGrantHolds == Spec => OwnNameKeepsGrant
  <1>1. IInv /\ [Next]_vars =>
            [\A d \in docs \cap granted : OwnName(d) => d \in granted']_vars
    <2> SUFFICES ASSUME IInv, Next, NEW d \in docs \cap granted, OwnName(d)
                 PROVE  d \in granted'
      OBVIOUS
    <2>1. CASE MigrateRevoke
      <3>1. d \in Own(docs, name) /\ pass = "revoke"
        BY <2>1 DEF Own, OwnName, MigrateRevoke
      <3>2. d \in Visited(listed) /\ DOMAIN listed = 1 .. Len(listed)
        BY <3>1, AllListed, LenProperties
      <3> QED BY <2>1, <3>2 DEF MigrateRevoke, Visited
    <2>2. CASE ReadBatch \/ Visit \/ MigrateListed \/ EnsureDone
      BY <2>2 DEF ReadBatch, Visit, MigrateListed, EnsureDone
    <2> QED BY <2>1, <2>2 DEF Next
  <1> QED BY <1>1, AlwaysIInv, PTL DEF Spec, OwnNameKeepsGrant

(* No two instances have the same name.                                    *)
Distinct == \A d \in docs : OwnName(d)

(* What Manager has a startup do that visits every stored instance.        *)
Complete ==
    /\ pass \in {"ensure", "done"} => granted = docs
    /\ AllRestored

DInv == IInv /\ Distinct /\ (pass \in {"ensure", "done"} => granted = docs)

LEMMA DInvStep ==
    ASSUME DInv, [Next]_vars
    PROVE  DInv'
  <1>1. IInv /\ IInv'
    BY Inductive DEF DInv
  <1>2. UNCHANGED <<docs, name>>
    BY DEF Next, vars, ReadBatch, Visit, MigrateListed, MigrateRevoke, EnsureDone
  <1>3. Distinct'
    BY <1>2 DEF DInv, Distinct, OwnName
  <1>4. pass' \in {"ensure", "done"} => granted' = docs'
    <2>1. CASE MigrateRevoke
      <3>1. pass = "revoke" /\ docs \subseteq Own(docs, name)
        BY <2>1 DEF MigrateRevoke, DInv, Distinct, OwnName, Own
      <3>2. docs \subseteq Visited(listed) /\ Visited(listed) \subseteq granted
        BY <1>1, <3>1, AllListed DEF IInv, Migrated
      <3>3. listed \in Seq(docs) /\ DOMAIN listed = 1 .. Len(listed)
        BY <1>1, <3>1, AllListed, LenProperties
      <3>4. Visited(listed) \subseteq docs
        BY <3>3, ElementOfSeq DEF Visited
      <3>5. granted' = {d \in granted : d \in Visited(listed)}
        BY <2>1, <3>3 DEF MigrateRevoke, Visited
      <3> QED BY <1>2, <3>2, <3>4, <3>5
    <2>2. CASE ReadBatch \/ Visit \/ MigrateListed \/ EnsureDone \/ UNCHANGED vars
      BY <2>2 DEF DInv, ReadBatch, Visit, MigrateListed, EnsureDone, vars
    <2> QED BY <2>1, <2>2 DEF Next
  <1> QED BY <1>1, <1>3, <1>4 DEF DInv

(* With names that differ startup is as if it visited every stored         *)
(* instance: migrate leaves registered exactly what is stored, and no      *)
(* container is missing in the end.  It is equal names that refute         *)
(* AllRestored, and nothing else.                                          *)
THEOREM DistinctNamesComplete == Spec /\ Distinct => []Complete
  <1>1. Init /\ Distinct => DInv
    BY Initially DEF Init, DInv
  <1>2. DInv /\ [Next]_vars => DInv'
    BY DInvStep
  <1>3. DInv => Complete
    BY DoneServed DEF DInv, Complete, AllRestored, Distinct, OwnNameServed
  <1> QED BY <1>1, <1>2, <1>3, PTL DEF Spec

-----------------------------------------------------------------------------
(***************************************************************************)
(* The pages of module Listing.  Sorted by id there is but one result, and *)
(* an instance keeps its place in it or, when others are added, moves on.  *)
(* So one that was there all the time is either on a page that was given   *)
(* or at a place that no page has come to (NotPassed).  What is asked for  *)
(* is part of the result, which may hold more.                             *)
(***************************************************************************)

Matching == Client!Matching

Asked == Client!Asked

(* The number by which the pages by id are sorted.                         *)
ById == [i \in Id |-> IF query.asc THEN i ELSE -i]

UpTo(i) == {j \in Matching : ById[j] <= ById[i]}

Place(i) == Cardinality(UpTo(i))

NotPassed ==
    query.order = "id" /\ ~removed =>
        \A i \in throughout : (\E k \in 1 .. Len(seen) : seen[k] = i) \/ skip < Place(i)

CInv ==
    /\ Client!TypeOK
    /\ throughout \subseteq Matching
    /\ Client!Unfiltered => throughout = {}
    /\ NotPassed

(* Module Listing counts like this one.                                    *)
LEMMA SameCount ==
    ASSUME NEW S
    PROVE  Client!IsFiniteSet(S) = IsFiniteSet(S) /\ Client!Cardinality(S) = Cardinality(S)
  <1>1. Client!IsFiniteSet(S) = IsFiniteSet(S)
    BY Zenon DEF Client!IsFiniteSet, IsFiniteSet
  <1>2. Client!Cardinality(S) = Cardinality(S)
    BY Zenon DEF Client!Cardinality, Cardinality
  <1> QED BY <1>1, <1>2

(* What is asked for is found; of somebody without access that is nothing. *)
Found == Asked \subseteq Matching /\ (Client!Unfiltered => Asked = {})

LEMMA AskedFound == query \in Client!Query => Found
  <1> SUFFICES ASSUME query \in Client!Query PROVE Found
    OBVIOUS
  <1>1. query.search \in Client!SearchText
    BY ClientAssumption DEF Client!Constants, Client!Query
  <1>2. /\ query.search.prefix \in {"", "id", "other"}
        /\ query.search.prefix = "other" => query.search.whole \subseteq query.search.part
    BY <1>1 DEF Client!SearchText
  <1>3. ASSUME NEW i \in Asked
        PROVE  i \in kept /\ i \in access /\ (query.includeGenerated \/ i \notin generated)
    BY DEF Asked, Client!Asked
  <1>4. Client!Unfiltered => Asked = {}
    BY <1>3 DEF Client!Unfiltered
  <1>5. ASSUME NEW i \in Asked, query.search.prefix # "id" PROVE Client!Pattern(i)
    <2>1. title[i] \in query.search.whole
      BY <1>5 DEF Asked, Client!Asked
    <2> QED BY <1>2, <1>5, <2>1 DEF Client!Pattern
  <1>6. ASSUME NEW i \in Asked PROVE i \in Matching
    <2>1. ~Client!Unfiltered
      BY <1>4
    <2> QED BY <1>3, <1>5, <2>1 DEF Matching, Client!Matching
  <1> QED BY <1>4, <1>6 DEF Found

LEMMA AskedFoundNext == (query \in Client!Query => Found)'
  BY AskedFound, PTL

(* The types, as far as the steps need them.                               *)
LEMMA ClientTypes ==
    ASSUME Client!TypeOK
    PROVE  /\ Matching \subseteq Id /\ access \subseteq Id
           /\ IsFiniteSet(Id) /\ IsFiniteSet(Matching) /\ IsFiniteSet(access)
           /\ Cardinality(Id) \in Nat /\ Cardinality(Matching) \in Nat
           /\ Cardinality(access) \in Nat
           /\ Cardinality(Matching) <= Cardinality(Id)
           /\ ~Client!Unfiltered => Cardinality(Matching) <= Cardinality(access)
           /\ skip \in Nat /\ skip = Len(seen) /\ seen \in Seq(Id)
           /\ query \in Client!Query /\ query.limit \in Nat /\ query.asc \in BOOLEAN
           /\ query.order \in {"id", "name"}
  <1>1. /\ Matching \subseteq Id /\ access \subseteq Id
        /\ ~Client!Unfiltered => Matching \subseteq access
    BY DEF Client!TypeOK, Matching, Client!Matching
  <1>2. IsFiniteSet(Id) /\ Limit \subseteq Nat
    BY ClientAssumption, SameCount DEF Client!Constants
  <1>3. /\ IsFiniteSet(Matching) /\ IsFiniteSet(access)
        /\ Cardinality(Matching) <= Cardinality(Id)
        /\ ~Client!Unfiltered => Cardinality(Matching) <= Cardinality(access)
    BY <1>1, <1>2, FS_Subset
  <1>4. /\ Cardinality(Id) \in Nat /\ Cardinality(Matching) \in Nat
        /\ Cardinality(access) \in Nat
    BY <1>2, <1>3, FS_CardinalityType
  <1>5. seen \in Seq(Id) /\ skip = Len(seen) /\ query \in Client!Query
    BY DEF Client!TypeOK
  <1>6. skip \in Nat
    BY <1>5, LenProperties
  <1>7. query.limit \in Nat /\ query.asc \in BOOLEAN /\ query.order \in {"id", "name"}
    BY <1>2, <1>5 DEF Client!Query
  <1> QED BY <1>1, <1>2, <1>3, <1>4, <1>5, <1>6, <1>7

(* A page: what the result has from the offset on.                         *)
LEMMA PageOf ==
    ASSUME Client!TypeOK, NEW s \in Client!Sorted
    PROVE  /\ s \in [1 .. Cardinality(Matching) -> Matching]
           /\ \A k, l \in 1 .. Cardinality(Matching) :
                 k < l => s[k] # s[l] /\ Client!Before(s[k], s[l])
           /\ \E last \in Int :
                 /\ last = IF query.limit = 0 \/ skip + query.limit >= Cardinality(Matching)
                           THEN Cardinality(Matching)
                           ELSE skip + query.limit
                 /\ Client!Page(s) \in Seq(Matching)
                 /\ Len(Client!Page(s)) = IF skip < last THEN last - skip ELSE 0
                 /\ \A k \in 1 .. Len(Client!Page(s)) :
                       Client!Page(s)[k] = s[skip + k] /\ skip + k \in 1 .. last
  <1> DEFINE N == Cardinality(Matching)
             last == IF query.limit = 0 \/ skip + query.limit >= N THEN N
                     ELSE skip + query.limit
             page == SubSeq(s, skip + 1, last)
  <1>1. /\ s \in [1 .. N -> Matching]
        /\ \A k, l \in 1 .. N : k < l => s[k] # s[l] /\ Client!Before(s[k], s[l])
    <2>1. s \in Client!SetToSeqs(Matching)
      BY DEF Client!Sorted, Matching
    <2>2. s \in [1 .. N -> Matching] /\ \A k, l \in 1 .. N : k # l => s[k] # s[l]
      BY <2>1, SameCount DEF Client!SetToSeqs
    <2>3. \A k, l \in 1 .. N : k < l => Client!Before(s[k], s[l])
      BY <2>2 DEF Client!Sorted
    <2>4. N \in Nat
      BY ClientTypes
    <2> QED BY <2>2, <2>3, <2>4
  <1>2. N \in Nat /\ skip \in Nat /\ query.limit \in Nat
    BY ClientTypes
  <1>3. s \in Seq(Matching) /\ Len(s) = N
    BY <1>1, <1>2, SeqDef
  <1>4. last \in Nat /\ last <= N
    BY <1>2
  <1>5. Client!Page(s) = page
    BY <1>2, <1>3 DEF Client!Page
  <1>6. \A k \in skip + 1 .. last : s[k] \in Matching
    BY <1>1, <1>2, <1>4
  <1>7. /\ page \in Seq(Matching)
        /\ Len(page) = IF skip + 1 <= last THEN last - (skip + 1) + 1 ELSE 0
        /\ \A k \in 1 .. last - (skip + 1) + 1 : page[k] = s[skip + 1 + k - 1]
    <2>1. skip + 1 \in Int /\ last \in Int
      BY <1>2, <1>4
    <2> HIDE DEF last
    <2> QED BY <1>6, <2>1, SubSeqProperties
  <1> HIDE DEF last, page, N
  <1>8. Len(page) = (IF skip < last THEN last - skip ELSE 0)
    BY <1>2, <1>4, <1>7
  <1>9. \A k \in 1 .. Len(page) : page[k] = s[skip + k] /\ skip + k \in 1 .. last
    BY <1>2, <1>4, <1>7, <1>8
  <1> QED BY <1>1, <1>4, <1>5, <1>7, <1>8, <1>9 DEF last, N

(* What a page adds to the instances given.                                *)
LEMMA Given ==
    ASSUME Client!TypeOK, NEW page \in Seq(Matching), seen' = seen \o page
    PROVE  /\ seen' \in Seq(Id) /\ Len(seen') = skip + Len(page)
           /\ \A k \in 1 .. skip : seen'[k] = seen[k]
           /\ \A k \in 1 .. Len(page) : seen'[skip + k] = page[k]
           /\ Len(page) \in Nat
  <1>1. page \in Seq(Id) /\ seen \in Seq(Id) /\ skip = Len(seen) /\ skip \in Nat
    BY ClientTypes, SeqDef
  <1>2. Len(page) \in Nat
    BY LenProperties
  <1>3. /\ seen' \in Seq(Id) /\ Len(seen') = Len(seen) + Len(page)
        /\ \A k \in 1 .. Len(seen) + Len(page) :
              seen'[k] = IF k <= Len(seen) THEN seen[k] ELSE page[k - Len(seen)]
    BY <1>1, ConcatProperties
  <1>4. \A k \in 1 .. Len(page) : seen'[skip + k] = page[skip + k - skip]
    BY <1>1, <1>2, <1>3
  <1>5. \A k \in 1 .. Len(page) : skip + k - skip = k
    BY <1>1, <1>2
  <1> QED BY <1>1, <1>2, <1>3, <1>4, <1>5

(* The i-th in the order of the ids is the i-th of the result.             *)
LEMMA AtItsPlace ==
    ASSUME Client!TypeOK, query.order = "id", NEW s \in Client!Sorted, NEW i \in Matching
    PROVE  Place(i) \in 1 .. Cardinality(Matching) /\ s[Place(i)] = i
  <1>1. /\ Matching \subseteq Id /\ IsFiniteSet(Matching) /\ query.asc \in BOOLEAN
        /\ Cardinality(Matching) \in Nat
    BY ClientTypes
  <1>2. Id \subseteq Nat
    BY ClientAssumption DEF Client!Constants
  <1>3. \A j \in Matching : ById[j] \in Int
    BY <1>1, <1>2 DEF ById
  <1>4. \A j, k \in Matching : ById[j] = ById[k] => j = k
    BY <1>1, <1>2 DEF ById
  <1>5. /\ s \in [1 .. Cardinality(Matching) -> Matching]
        /\ \A k, l \in 1 .. Cardinality(Matching) :
              k < l => s[k] # s[l] /\ Client!Before(s[k], s[l])
    BY PageOf
  <1>6. \A j, k \in Matching : Client!Before(j, k) => ById[j] <= ById[k]
    BY <1>1, <1>2 DEF Client!Before, Client!Key, ById
  <1>7. \A k, l \in 1 .. Cardinality(Matching) :
            k < l => s[k] # s[l] /\ ById[s[k]] <= ById[s[l]]
    BY <1>5, <1>6
  <1> DEFINE E == UpTo(i)
             F == E \ {i}
  <1>8. E \in SUBSET Matching /\ F \in SUBSET Matching /\ i \in E /\ i \notin F
    BY <1>3 DEF UpTo
  <1>9. \A e \in E, d \in Matching : ById[d] <= ById[e] => d \in E
    BY <1>3 DEF UpTo
  <1>10. \A e \in F, d \in Matching : ById[d] <= ById[e] => d \in F
    <2>1. ASSUME NEW e \in F, NEW d \in Matching, ById[d] <= ById[e] PROVE d \in F
      <3>1. d \in E /\ e \in Matching /\ ById[e] <= ById[i] /\ e # i
        BY <1>9, <2>1 DEF UpTo
      <3>2. d # i
        BY <1>3, <1>4, <2>1, <3>1
      <3> QED BY <3>1, <3>2
    <2> QED BY <2>1
  <1>11. /\ IsFiniteSet(E) /\ Cardinality(E) \in Nat
         /\ Cardinality(E) <= Cardinality(Matching)
         /\ IsFiniteSet(F) /\ Cardinality(F) = Cardinality(E) - 1 /\ Cardinality(F) \in Nat
    <2>1. IsFiniteSet(E) /\ Cardinality(E) <= Cardinality(Matching)
      BY <1>1, <1>8, FS_Subset
    <2>2. Cardinality(E) \in Nat
      BY <2>1, FS_CardinalityType
    <2>3. IsFiniteSet(F) /\ Cardinality(F) = Cardinality(E) - 1
      BY <1>8, <2>1, FS_RemoveElement
    <2>4. Cardinality(F) \in Nat
      BY <2>3, FS_CardinalityType
    <2> QED BY <2>1, <2>2, <2>3, <2>4
  <1>12. PICK p \in Nat : p = Cardinality(E) /\ p \in 1 .. Cardinality(Matching)
    BY <1>1, <1>11
  <1> HIDE DEF E, F
  <1>13. s[p] \in E
    BY <1>1, <1>5, <1>7, <1>8, <1>9, <1>12, FirstPlaces
  <1>14. s[p] \notin F
    <2>1. s[p] \in F <=> p <= Cardinality(F)
      BY <1>1, <1>5, <1>7, <1>8, <1>10, <1>12, FirstPlaces
    <2> QED BY <1>11, <1>12, <2>1
  <1>15. s[p] = i
    BY <1>13, <1>14 DEF F
  <1> QED BY <1>12, <1>15 DEF E, Place

(* A page that is read leaves an instance behind only by giving it.        *)
LEMMA GetPageStep ==
    ASSUME CInv, Client!GetPage
    PROVE  /\ CInv'
           /\ done' /\ query.order = "id" /\ ~removed =>
                 \A i \in throughout : \E k \in 1 .. Len(seen') : seen'[k] = i
  <1> DEFINE N == Cardinality(Matching)
  <1>1. /\ Client!TypeOK /\ throughout \subseteq Matching /\ NotPassed
        /\ Client!Unfiltered => throughout = {}
    BY DEF CInv
  <1>2. PICK s \in Client!Sorted :
            /\ seen' = seen \o Client!Page(s)
            /\ skip' = skip + Len(Client!Page(s))
            /\ done' = (Client!Page(s) = <<>> \/ skip' >= Client!Cardinality(access))
    BY DEF Client!GetPage, Client!Total
  <1>3. PICK page \in Seq(Matching), last \in Int :
            /\ page = Client!Page(s)
            /\ last = IF query.limit = 0 \/ skip + query.limit >= N
                      THEN N ELSE skip + query.limit
            /\ Len(page) = IF skip < last THEN last - skip ELSE 0
            /\ \A k \in 1 .. Len(page) : page[k] = s[skip + k] /\ skip + k \in 1 .. last
    BY <1>1, PageOf, Zenon DEF N
  <1>4. /\ N \in Nat /\ N <= Cardinality(Id)
        /\ ~Client!Unfiltered => N <= Cardinality(access)
        /\ Cardinality(Id) \in Nat /\ Cardinality(access) \in Nat
        /\ skip \in Nat /\ query.limit \in Nat /\ skip = Len(seen) /\ seen \in Seq(Id)
    BY <1>1, ClientTypes
  <1>5. /\ seen' \in Seq(Id) /\ Len(seen') = skip + Len(page) /\ Len(page) \in Nat
        /\ \A k \in 1 .. skip : seen'[k] = seen[k]
        /\ \A k \in 1 .. Len(page) : seen'[skip + k] = page[k]
    BY <1>1, <1>2, <1>3, Given
  <1>6. /\ UNCHANGED <<kept, title, generated, access, query, removed, throughout, changes>>
        /\ Client!Unfiltered' = Client!Unfiltered
        /\ Matching' = Matching /\ ~done
    BY DEF Client!GetPage, Client!collection, Matching, Client!Matching, Client!Pattern,
           Client!Unfiltered
  <1>7. skip' = skip + Len(page) /\ skip' = Len(seen')
    BY <1>2, <1>3, <1>5
  <1> HIDE DEF N
  <1>8. skip' <= Cardinality(Id)
    <2>1. skip <= Cardinality(Id)
      BY <1>1, SameCount DEF Client!TypeOK
    <2> QED BY <1>3, <1>4, <1>7, <2>1
  <1>9. Client!TypeOK'
    <2>1. Client!Cardinality(Id) = Cardinality(Id)
      BY SameCount
    <2>2. done' \in BOOLEAN
      BY <1>2
    <2> QED BY <1>1, <1>5, <1>6, <1>7, <1>8, <2>1, <2>2 DEF Client!TypeOK, Client!Query
  <1>10. ASSUME query.order = "id", ~removed, NEW i \in throughout
         PROVE  /\ Place(i) \in 1 .. N /\ Place(i)' = Place(i)
                /\ (\E k \in 1 .. Len(seen') : seen'[k] = i) \/ skip' < Place(i)
    <2>1. PICK p \in 1 .. N : p = Place(i) /\ s[p] = i
      BY <1>1, <1>10, AtItsPlace DEF N
    <2>2. Place(i)' = Place(i)
      BY <1>6 DEF Place, UpTo, ById
    <2>3. CASE \E k \in 1 .. Len(seen) : seen[k] = i
      <3>1. PICK k \in 1 .. Len(seen) : seen[k] = i
        BY <2>3
      <3>2. seen'[k] = i /\ k \in 1 .. Len(seen')
        BY <1>4, <1>5, <3>1
      <3> QED BY <2>1, <2>2, <3>2
    <2>4. CASE skip < p
      <3>1. CASE p <= skip'
        <4>1. p - skip \in 1 .. Len(page) /\ skip + (p - skip) = p
          BY <1>4, <1>5, <1>7, <2>1, <2>4, <3>1
        <4>2. page[p - skip] = i
          BY <1>3, <2>1, <4>1
        <4>3. seen'[skip + (p - skip)] = page[p - skip]
          BY <1>5, <4>1
        <4>4. seen'[p] = i
          BY <4>1, <4>2, <4>3
        <4>5. p \in 1 .. Len(seen')
          BY <1>4, <1>5, <1>7, <2>1, <3>1
        <4> QED BY <2>1, <2>2, <4>4, <4>5
      <3>2. CASE skip' < p
        BY <2>1, <2>2, <3>2
      <3>3. skip' \in Nat
        BY <1>4, <1>5, <1>7
      <3> QED BY <1>4, <2>1, <3>1, <3>2, <3>3
    <2>5. (\E k \in 1 .. Len(seen) : seen[k] = i) \/ skip < p
      BY <1>1, <1>10, <2>1 DEF NotPassed
    <2> QED BY <2>3, <2>4, <2>5
  <1>11. CInv'
    <2>1. throughout' \subseteq Matching' /\ (Client!Unfiltered' => throughout' = {})
      BY <1>1, <1>6
    <2>2. NotPassed'
      <3> SUFFICES ASSUME query.order = "id", ~removed, NEW i \in throughout
                   PROVE  (\E k \in 1 .. Len(seen') : seen'[k] = i) \/ skip' < Place(i)'
        BY <1>6 DEF NotPassed
      <3> QED BY <1>10
    <2> QED BY <1>9, <2>1, <2>2 DEF CInv
  <1>13. ASSUME done', query.order = "id", ~removed, NEW i \in throughout
         PROVE  \E k \in 1 .. Len(seen') : seen'[k] = i
    <2>1. PICK p \in 1 .. N : p = Place(i)
      BY <1>10, <1>13
    <2>2. N <= skip'
      <3>1. CASE skip' >= Cardinality(access)
        BY <1>1, <1>4, <1>5, <1>7, <1>13, <3>1
      <3>2. CASE page = <<>>
        <4>1. Len(page) = 0
          BY <3>2, EmptySeq
        <4> QED BY <1>3, <1>4, <1>7, <4>1
      <3> QED BY <1>2, <1>3, <1>13, <3>1, <3>2, SameCount
    <2>3. ~(skip' < p)
      BY <1>4, <1>5, <1>7, <2>1, <2>2
    <2> QED BY <1>10, <1>13, <2>1, <2>3
  <1> QED BY <1>11, <1>13

(* An instance that is added moves the others on, never back.              *)
LEMMA AddStep ==
    ASSUME CInv, NEW i \in Id, Client!AddInstance(i)
    PROVE  CInv'
  <1>1. /\ Client!TypeOK /\ throughout \subseteq Matching /\ NotPassed
        /\ Client!Unfiltered => throughout = {}
    BY DEF CInv
  <1>2. /\ kept' = kept \cup {i} /\ access' = access \cup {i}
        /\ UNCHANGED <<title, generated, removed, query, skip, seen, done>>
        /\ throughout' = throughout \cap Client!Asked'
        /\ changes' = changes + 1 /\ changes < MaxChanges
    BY DEF Client!AddInstance, Client!Change, Client!pages
  <1>3. Client!TypeOK'
    <2>1. changes' \in 0 .. MaxChanges
      BY <1>1, <1>2, ClientAssumption DEF Client!TypeOK, Client!Constants
    <2>2. throughout' \subseteq kept'
      BY <1>1, <1>2 DEF Client!TypeOK
    <2> QED BY <1>1, <1>2, <2>1, <2>2 DEF Client!TypeOK, Client!Query
  <1>4. ASSUME ~Client!Unfiltered PROVE Matching \subseteq Matching'
    <2>1. ~Client!Unfiltered'
      BY <1>2 DEF Client!Unfiltered
    <2> QED BY <1>2, <1>4, <2>1 DEF Matching, Client!Matching, Client!Pattern
  <1>5. ASSUME NEW j \in throughout
        PROVE  Place(j) \in Nat /\ Place(j)' \in Nat /\ Place(j) <= Place(j)'
    <2>1. UpTo(j) \subseteq UpTo(j)'
      BY <1>1, <1>2, <1>4 DEF UpTo, ById
    <2>2. IsFiniteSet(Matching')
      <3>1. Matching' \subseteq Id
        BY <1>3 DEF Client!TypeOK, Matching, Client!Matching
      <3>2. IsFiniteSet(Id)
        BY <1>1, ClientTypes
      <3> QED BY <3>1, <3>2, FS_Subset
    <2>3. UpTo(j)' \subseteq Matching'
      BY DEF UpTo
    <2>4. IsFiniteSet(UpTo(j)')
      BY <2>2, <2>3, FS_Subset
    <2>5. IsFiniteSet(UpTo(j)) /\ Cardinality(UpTo(j)) <= Cardinality(UpTo(j)')
      BY <2>1, <2>4, FS_Subset
    <2>6. Cardinality(UpTo(j)) \in Nat /\ Cardinality(UpTo(j)') \in Nat
      BY <2>4, <2>5, FS_CardinalityType
    <2> QED BY <2>5, <2>6 DEF Place
  <1>6. NotPassed'
    <2> SUFFICES ASSUME query.order = "id", ~removed, NEW j \in throughout
                 PROVE  (\E k \in 1 .. Len(seen) : seen[k] = j) \/ skip < Place(j)'
      BY <1>2 DEF NotPassed
    <2>1. (\E k \in 1 .. Len(seen) : seen[k] = j) \/ skip < Place(j)
      BY <1>1 DEF NotPassed
    <2>2. skip \in Nat
      BY <1>1, ClientTypes
    <2> QED BY <1>5, <2>1, <2>2
  <1>7. throughout' \subseteq Asked'
    BY <1>2 DEF Asked
  <1>8. Found'
    BY <1>3, AskedFoundNext DEF Client!TypeOK
  <1> QED BY <1>3, <1>6, <1>7, <1>8 DEF CInv, Found

LEMMA OtherChanges ==
    ASSUME CInv, NEW i \in Id, Client!RemoveInstance(i) \/ Client!RenameInstance(i)
    PROVE  CInv'
  <1>1. Client!TypeOK
    BY DEF CInv
  <1>2. /\ kept' \subseteq Id /\ access' \subseteq Id /\ title' \in [Id -> Title]
        /\ removed' = TRUE
        /\ UNCHANGED <<generated, query, skip, seen, done>>
        /\ throughout' = throughout \cap Client!Asked'
        /\ changes' = changes + 1 /\ changes < MaxChanges
    <2>1. CASE Client!RemoveInstance(i)
      BY <1>1, <2>1
         DEF Client!RemoveInstance, Client!Change, Client!pages, Client!TypeOK
    <2>2. CASE Client!RenameInstance(i)
      BY <1>1, <2>2
         DEF Client!RenameInstance, Client!Change, Client!pages, Client!TypeOK
    <2> QED BY <2>1, <2>2
  <1>3. throughout' \subseteq Asked' /\ throughout' \subseteq kept'
    BY <1>2 DEF Asked, Client!Asked
  <1>4. changes' \in 0 .. MaxChanges
    BY <1>1, <1>2, ClientAssumption DEF Client!TypeOK, Client!Constants
  <1>5. Client!TypeOK'
    BY <1>1, <1>2, <1>3, <1>4 DEF Client!TypeOK, Client!Query
  <1>6. NotPassed'
    BY <1>2 DEF NotPassed
  <1>7. Found'
    BY <1>5, AskedFoundNext DEF Client!TypeOK
  <1> QED BY <1>3, <1>5, <1>6, <1>7 DEF CInv, Found

LEMMA ClientBegins ==
    ASSUME Client!Init \/ ClientDone
    PROVE  CInv
  <1>1. /\ IsFiniteSet(Id) /\ Id \subseteq Nat /\ Id # {} /\ Title # {}
        /\ MaxChanges \in Nat /\ Client!Cardinality(Id) = Cardinality(Id)
        /\ Cardinality(Id) \in Nat /\ Limit \subseteq Nat /\ Limit # {}
    <2>1. IsFiniteSet(Id)
      BY ClientAssumption, SameCount DEF Client!Constants
    <2>2. Cardinality(Id) \in Nat
      BY <2>1, FS_CardinalityType
    <2>3. Client!Cardinality(Id) = Cardinality(Id)
      BY SameCount
    <2> QED BY <2>1, <2>2, <2>3, ClientAssumption DEF Client!Constants
  <1>2. <<>> \in Seq(Id) /\ Len(<<>>) = 0 /\ 0 <= Cardinality(Id) /\ 0 \in 0 .. MaxChanges
    BY <1>1, EmptySeq
  <1>3. CASE Client!Init
    <2>1. /\ kept \subseteq Id /\ access \subseteq Id /\ generated \subseteq Id
          /\ title \in [Id -> Title] /\ query \in Client!Query
          /\ skip = 0 /\ seen = <<>> /\ done = FALSE /\ removed = FALSE
          /\ throughout = Asked /\ changes = 0
      BY <1>1, <1>3 DEF Client!Init, Asked
    <2>2. Client!TypeOK
      BY <1>1, <1>2, <2>1 DEF Client!TypeOK, Asked, Client!Asked
    <2>3. throughout \subseteq Matching /\ (Client!Unfiltered => throughout = {})
      BY <2>1, AskedFound DEF Found
    <2>4. NotPassed
      <3> SUFFICES ASSUME query.order = "id", NEW i \in throughout
                   PROVE  skip < Place(i)
        BY DEF NotPassed
      <3>1. i \in Matching /\ Matching \subseteq Id /\ IsFiniteSet(Matching)
        BY <2>2, <2>3, ClientTypes
      <3>2. UpTo(i) \subseteq Matching /\ i \in UpTo(i)
        <4>1. query.asc \in BOOLEAN
          BY <2>2, ClientTypes
        <4>2. ById[i] \in Int
          BY <1>1, <3>1 DEF ById
        <4>3. ById[i] <= ById[i]
          BY <4>2
        <4> QED BY <3>1, <4>3 DEF UpTo
      <3>3. IsFiniteSet(UpTo(i))
        BY <3>1, <3>2, FS_Subset
      <3>4. Cardinality(UpTo(i)) \in Nat /\ Cardinality(UpTo(i)) # 0
        BY <3>2, <3>3, FS_CardinalityType, FS_EmptySet
      <3> QED BY <2>1, <3>4 DEF Place
    <2> QED BY <2>2, <2>3, <2>4 DEF CInv
  <1>4. CASE ClientDone
    <2>1. \E q : q \in Client!Query
      <3>1. PICK n \in Limit, t \in Search : TRUE
        BY <1>1, ClientAssumption DEF Client!Constants
      <3>2. [order |-> "id", asc |-> TRUE, limit |-> n, includeGenerated |-> TRUE,
             search |-> t] \in Client!Query
        BY <3>1 DEF Client!Query
      <3> QED BY <3>2
    <2>2. query \in Client!Query /\ title \in [Id -> Title]
      BY <1>1, <1>4, <2>1 DEF ClientDone
    <2>3. Client!TypeOK
      BY <1>1, <1>2, <1>4, <2>2 DEF ClientDone, Client!TypeOK
    <2>4. throughout = {}
      BY <1>4 DEF ClientDone
    <2> QED BY <2>3, <2>4 DEF CInv, NotPassed
  <1> QED BY <1>3, <1>4

LEMMA ClientStep ==
    ASSUME CInv, [Client!Next]_(Client!vars)
    PROVE  CInv'
  <1>1. CASE UNCHANGED Client!vars
    <2>1. /\ UNCHANGED <<kept, title, generated, access, query, skip, seen, done, removed>>
          /\ UNCHANGED <<throughout, changes>>
      BY <1>1 DEF Client!vars, Client!collection, Client!pages
    <2>2. /\ Client!TypeOK' /\ Matching' = Matching
          /\ Client!Unfiltered' = Client!Unfiltered
      BY <2>1 DEF CInv, Client!TypeOK, Matching, Client!Matching, Client!Query,
                  Client!Pattern, Client!Unfiltered
    <2>3. NotPassed'
      BY <2>1, <2>2 DEF CInv, NotPassed, Place, UpTo, ById
    <2> QED BY <2>1, <2>2, <2>3 DEF CInv
  <1>2. CASE Client!GetPage
    BY <1>2, GetPageStep
  <1>3. CASE \E i \in Id :
                 Client!AddInstance(i) \/ Client!RemoveInstance(i) \/ Client!RenameInstance(i)
    BY <1>3, AddStep, OtherChanges
  <1> QED BY <1>1, <1>2, <1>3 DEF Client!Next

(* Only a page that is read ends the client or gives it an instance.       *)
LEMMA OnlyPages ==
    ASSUME Client!Next, ~Client!GetPage
    PROVE  UNCHANGED <<seen, done>>
  <1>1. PICK i \in Id :
            Client!AddInstance(i) \/ Client!RemoveInstance(i) \/ Client!RenameInstance(i)
    BY DEF Client!Next
  <1>2. Client!Change
    BY <1>1 DEF Client!AddInstance, Client!RemoveInstance, Client!RenameInstance
  <1> QED BY <1>2 DEF Client!Change, Client!pages

(* Pages by id miss no instance that was there and asked for all the time, *)
(* unless one was removed or renamed meanwhile: whatever the limit, the    *)
(* search, the instances and the changes between the pages.  They may show *)
(* more than was asked for.                                                *)
THEOREM PagesServedHolds == MCSpec => PagesServed
  <1>1. MCInit => CInv
    BY ClientBegins DEF MCInit
  <1>2. [MCNext]_<<vars, clientVars>> => [Client!Next]_(Client!vars)
    <2>1. UNCHANGED clientVars => UNCHANGED Client!vars
      BY DEF clientVars, Client!vars, Client!collection, Client!pages
    <2> QED BY <2>1 DEF MCNext
  <1>3. CInv /\ [Client!Next]_(Client!vars) => CInv'
    BY ClientStep
  <1>4. CInv => Client!TypeOK
    BY DEF CInv
  <1>5. CInv /\ [Client!Next]_(Client!vars) =>
            [(~done /\ done' /\ query.order = "id" /\ ~removed) =>
                throughout \subseteq Client!ToSet(seen')]_(Client!vars)
    <2>1. ASSUME CInv, Client!Next, ~done, done', query.order = "id", ~removed
          PROVE  throughout \subseteq Client!ToSet(seen')
      <3>1. Client!GetPage
        BY <2>1, OnlyPages
      <3>2. \A i \in throughout : \E k \in 1 .. Len(seen') : seen'[k] = i
        BY <2>1, <3>1, GetPageStep
      <3>3. DOMAIN seen' = 1 .. Len(seen')
        <4>1. seen' \in Seq(Id)
          BY <2>1, <3>1, GetPageStep DEF CInv, Client!TypeOK
        <4> QED BY <4>1, LenProperties
      <3> QED BY <3>2, <3>3 DEF Client!ToSet
    <2> QED BY <2>1
  <1> QED BY <1>1, <1>2, <1>3, <1>4, <1>5, PTL
          DEF MCSpec, PagesServed, Client!NothingMissed

=============================================================================
