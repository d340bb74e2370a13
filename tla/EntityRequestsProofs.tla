-------------------------- MODULE EntityRequestsProofs --------------------------
(***************************************************************************)
(* What the requests guarantee that write and delete entities: for any     *)
(* sizes of entities, searches and batches, and any numbers of entities,   *)
(* of errors and of other writers.                                         *)
(***************************************************************************)
EXTENDS BulkUpsert, OwnedDeletion, TLAPS, FiniteSetTheorems, SequenceTheorems,
        WellFoundedInduction

-----------------------------------------------------------------------------
(* The requests that write the entities. *)

LEMMA MinIs ==
  ASSUME NEW S \in SUBSET Int, NEW m \in S, \A k \in S : m <= k
  PROVE  Min(S) = m
  <1>1. Min(S) \in S /\ \A k \in S : Min(S) <= k
    BY DEF Min
  <1>2. Min(S) \in Int /\ m \in Int /\ Min(S) <= m /\ m <= Min(S)
    BY <1>1
  <1>. QED  BY <1>2

LEMMA MaxIs ==
  ASSUME NEW S \in SUBSET Int, NEW m \in S, \A k \in S : m >= k
  PROVE  Max(S) = m
  <1>1. Max(S) \in S /\ \A k \in S : Max(S) >= k
    BY DEF Max
  <1>2. Max(S) \in Int /\ m \in Int /\ Max(S) >= m /\ m >= Max(S)
    BY <1>1
  <1>. QED  BY <1>2

LEMMA OfTwo ==
  ASSUME NEW a \in Int, NEW b \in Int
  PROVE  /\ Min({a, b}) = IF a <= b THEN a ELSE b
         /\ Max({a, b}) = IF a >= b THEN a ELSE b
  <1>1. CASE a <= b
    BY <1>1, MinIs, MaxIs
  <1>2. CASE a > b
    BY <1>2, MinIs, MaxIs
  <1>. QED  BY <1>1, <1>2

LEMMA OfInterval ==
  ASSUME NEW a \in Int, NEW b \in Int, a <= b
  PROVE  Min(a..b) = a /\ Max(a..b) = b
  <1>1. /\ a..b \in SUBSET Int /\ a \in a..b /\ b \in a..b
        /\ \A k \in a..b : a <= k /\ b >= k
    OBVIOUS
  <1>. QED  BY <1>1, MinIs, MaxIs

\* A set of naturals that is not empty has a least element.
LEMMA LeastNatural ==
  ASSUME NEW T \in SUBSET Nat, T # {}
  PROVE  \E m \in T : \A k \in T : m <= k
  <1>1. PICK m \in T : \A k \in T : <<k, m>> \notin OpToRel(<, Nat)
    BY WFMin, NatLessThanWellFounded, Zenon
  <1>2. \A k \in T : ~(k < m)
    BY <1>1, Zenon DEF OpToRel
  <1>. QED  BY <1>2

\* The totals of the first n sizes, and of those alone.
SumsUpTo(sizes, f, n) ==
  /\ f \in [0..n -> Nat] /\ f[0] = 0
  /\ \A k \in 1..n : f[k] = f[k - 1] + sizes[k]

LEMMA SumsExist ==
  ASSUME NEW sizes \in Seq(Nat), NEW n \in 0..Len(sizes)
  PROVE  \E f : SumsUpTo(sizes, f, n)
  <1>. DEFINE T == {k \in 0..Len(sizes) : ~\E f : SumsUpTo(sizes, f, k)}
  <1>. SUFFICES ASSUME T # {} PROVE FALSE
    OBVIOUS
  <1>1. T \in SUBSET Nat
    OBVIOUS
  <1>2. PICK m \in T : \A k \in T : m <= k
    BY <1>1, LeastNatural
  <1>3. m \in 0..Len(sizes) /\ m \in Nat /\ Len(sizes) \in Nat
    OBVIOUS
  <1>4. CASE m = 0
    <2>1. SumsUpTo(sizes, [k \in 0..0 |-> 0], 0)
      BY DEF SumsUpTo
    <2>. QED  BY <1>4, <2>1
  <1>5. CASE m # 0
    <2>1. m - 1 \in 0..Len(sizes) /\ m - 1 \notin T
      BY <1>2, <1>3, <1>5
    <2>2. PICK f : SumsUpTo(sizes, f, m - 1)
      BY <2>1
    <2>. DEFINE g == [k \in 0..m |-> IF k = m THEN f[m - 1] + sizes[m] ELSE f[k]]
    <2>3. sizes[m] \in Nat /\ f[m - 1] \in Nat
      BY <1>3, <1>5, <2>2 DEF SumsUpTo
    <2>4. g \in [0..m -> Nat] /\ g[0] = 0
      BY <1>3, <1>5, <2>2, <2>3 DEF SumsUpTo
    <2>5. ASSUME NEW k \in 1..m PROVE g[k] = g[k - 1] + sizes[k]
      <3>1. CASE k = m
        BY <1>3, <1>5, <3>1
      <3>2. CASE k # m
        <4>1. k \in 1..(m - 1) /\ k \in 0..m /\ k - 1 \in 0..m /\ k - 1 # m
          BY <1>3, <3>2
        <4>. QED  BY <2>2, <3>2, <4>1 DEF SumsUpTo
      <3>. QED  BY <3>1, <3>2
    <2>6. SumsUpTo(sizes, g, m)
      BY <2>4, <2>5 DEF SumsUpTo
    <2>. QED  BY <2>6
  <1>. QED  BY <1>4, <1>5

\* Totals is the function its definition says: there is one.
LEMMA TotalsSum ==
  ASSUME NEW sizes \in Seq(Nat)
  PROVE  SumsUpTo(sizes, Totals(sizes), Len(sizes))
  <1>1. Len(sizes) \in Nat
    OBVIOUS
  <1>2. PICK f : SumsUpTo(sizes, f, Len(sizes))
    BY <1>1, SumsExist
  <1>. DEFINE IsTotal(t) ==
         t = [n \in 0..Len(sizes) |-> IF n = 0 THEN 0 ELSE t[n - 1] + sizes[n]]
  <1>3. IsTotal(f)
    BY <1>1, <1>2 DEF SumsUpTo
  <1>4. Totals(sizes) = CHOOSE t : IsTotal(t)
    BY DEF Totals
  <1>5. IsTotal(Totals(sizes))
    BY <1>3, <1>4
  <1>. HIDE DEF IsTotal
  <1>. DEFINE t == Totals(sizes)
              T == {n \in 0..Len(sizes) : t[n] # f[n]}
  <1>6. t = [n \in 0..Len(sizes) |-> IF n = 0 THEN 0 ELSE t[n - 1] + sizes[n]]
    BY <1>5 DEF IsTotal
  <1>. HIDE DEF t
  <1>7. T = {}
    <2>. SUFFICES ASSUME T # {} PROVE FALSE
      OBVIOUS
    <2>0. T \in SUBSET Nat
      BY <1>1
    <2>1. PICK m \in T : \A k \in T : m <= k
      BY <2>0, LeastNatural
    <2>2. m \in 0..Len(sizes) /\ m \in Nat /\ t[m] # f[m]
      BY <1>1
    <2>3. m # 0
      BY <1>2, <1>6, <2>2 DEF SumsUpTo
    <2>4. m - 1 \in 0..Len(sizes) /\ m - 1 \notin T /\ m \in 1..Len(sizes)
      BY <1>1, <2>1, <2>2, <2>3
    <2>5. t[m - 1] = f[m - 1]
      BY <2>4
    <2>. QED  BY <1>2, <1>6, <2>2, <2>3, <2>4, <2>5 DEF SumsUpTo
  <1>8. t = f
    <2>1. f = [n \in 0..Len(sizes) |-> f[n]] /\ t = [n \in 0..Len(sizes) |-> t[n]]
      BY <1>2, <1>6 DEF SumsUpTo
    <2>2. \A n \in 0..Len(sizes) : t[n] = f[n]
      BY <1>7
    <2>. QED  BY <2>1, <2>2
  <1>. QED  BY <1>2, <1>8 DEF t

\* Sizes of at most c come to at most as many times c.
LEMMA SumsBound ==
  ASSUME NEW n \in Nat, NEW sizes, NEW f, SumsUpTo(sizes, f, n), NEW c \in Nat,
         NEW a \in 0..n, NEW b \in a..n, \A e \in (a + 1)..b : sizes[e] \in 0..c
  PROVE  f[b] - f[a] <= (b - a) * c
  <1>. DEFINE T == {k \in a..b : ~(f[k] - f[a] <= (k - a) * c)}
  <1>. SUFFICES ASSUME T # {} PROVE FALSE
    OBVIOUS
  <1>0. T \in SUBSET Nat
    OBVIOUS
  <1>1. PICK m \in T : \A k \in T : m <= k
    BY <1>0, LeastNatural
  <1>2. m \in a..b /\ m \in 0..n /\ ~(f[m] - f[a] <= (m - a) * c)
    OBVIOUS
  <1>3. f[a] \in Nat /\ f[m] \in Nat
    BY <1>2 DEF SumsUpTo
  <1>4. m # a
    <2>1. (a - a) * c = 0
      OBVIOUS
    <2>. QED  BY <1>2, <1>3, <2>1
  <1>5. /\ m - 1 \in a..b /\ m - 1 \notin T /\ m \in 1..n /\ m \in (a + 1)..b
        /\ m - 1 \in 0..n
    BY <1>1, <1>2, <1>4
  <1>6. f[m - 1] - f[a] <= (m - 1 - a) * c /\ f[m - 1] \in Nat
    BY <1>5 DEF SumsUpTo
  <1>7. f[m] = f[m - 1] + sizes[m] /\ sizes[m] \in 0..c
    BY <1>5 DEF SumsUpTo
  <1>8. (m - 1 - a) * c + c = (m - a) * c
    BY <1>2
  <1>9. (m - 1 - a) * c \in Int /\ (m - a) * c \in Int
    BY <1>2
  <1>. QED  BY <1>2, <1>3, <1>6, <1>7, <1>8, <1>9

LEMMA Quotient ==
  ASSUME NEW a \in Nat, NEW b \in Nat \ {0}
  PROVE  /\ a \div b \in Nat
         /\ (a \div b) * b <= a
         /\ a < (a \div b + 1) * b
  OBVIOUS

LEMMA SizesAreNatural ==
  ASSUME UpsertTypeOK
  PROVE  /\ entities \in Seq(Nat) /\ Len(entities) \in Nat
         /\ \A k \in 1..Len(entities) : entities[k] \in Nat \ {0}
  <1>1. entities \in Seq(Size) /\ Size \subseteq Nat \ {0} /\ Size \subseteq Nat
    BY BulkUpsertAssumption DEF UpsertTypeOK
  <1>2. /\ Len(entities) \in Nat /\ entities \in [1..Len(entities) -> Size]
        /\ \A k \in 1..Len(entities) : entities[k] \in Size
    BY <1>1
  <1>3. entities \in [1..Len(entities) -> Nat]
    BY <1>1, <1>2
  <1>. QED  BY <1>1, <1>2, <1>3

\* The estimate is no less than one and a half times the mean of the sample.
LEMMA Estimate ==
  ASSUME UpsertTypeOK, Len(entities) >= 1
  PROVE  /\ EstimatedObjectSize \in Nat \ {0}
         /\ \A x \in Nat :
              2 * Sample * x <= 3 * Totals(entities)[Sample] => x <= EstimatedObjectSize
  <1>. USE BulkUpsertAssumption
  <1>. DEFINE n == Sample
              p == Totals(entities)[Sample]
              est == EstimatedObjectSize
  <1>1. /\ entities \in Seq(Nat) /\ Len(entities) \in Nat
        /\ \A k \in 1..Len(entities) : entities[k] \in Nat \ {0}
    BY SizesAreNatural
  <1>2. n \in Nat /\ n >= 1 /\ n \in 1..Len(entities) /\ n - 1 \in 0..Len(entities)
    BY <1>1, OfTwo DEF Sample
  <1>3. SumsUpTo(entities, Totals(entities), Len(entities))
    BY <1>1, TotalsSum
  <1>4. /\ p = Totals(entities)[n - 1] + entities[n]
        /\ Totals(entities)[n - 1] \in Nat /\ entities[n] \in Nat \ {0}
    BY <1>1, <1>2, <1>3 DEF SumsUpTo
  <1>5. est = (3 * p + 2 * n - 1) \div (2 * n)
    BY DEF EstimatedObjectSize
  <1>. HIDE DEF n, p, est
  <1>6. p \in Nat /\ p >= 1
    BY <1>4
  <1>7. 3 * p + 2 * n - 1 \in Nat /\ 2 * n \in Nat \ {0}
    BY <1>2, <1>6
  <1>8. /\ est \in Nat
        /\ 3 * p + 2 * n - 1 < (est + 1) * (2 * n)
    BY <1>5, <1>7, Quotient
  <1>9. (est + 1) * (2 * n) = est * (2 * n) + 2 * n /\ est * (2 * n) \in Int
    BY <1>2, <1>8
  <1>10. 3 * p <= est * (2 * n)
    BY <1>2, <1>6, <1>8, <1>9
  <1>11. est # 0
    <2>1. est = 0 => est * (2 * n) = 0
      BY <1>2
    <2>. QED  BY <1>6, <1>9, <1>10, <2>1
  <1>12. ASSUME NEW x \in Nat, 2 * n * x <= 3 * p PROVE x <= est
    <2>. SUFFICES ASSUME x >= est + 1 PROVE FALSE
      BY <1>8
    <2>1. (2 * n) * x >= (2 * n) * (est + 1)
      BY <1>2, <1>8
    <2>2. (2 * n) * (est + 1) = est * (2 * n) + 2 * n /\ 2 * n * x = (2 * n) * x
      BY <1>2, <1>8
    <2>3. (2 * n) * x \in Int /\ (2 * n) * (est + 1) \in Int
      BY <1>2, <1>8
    <2>. QED  BY <1>2, <1>6, <1>9, <1>10, <1>12, <2>1, <2>2, <2>3
  <1>. QED  BY <1>8, <1>11, <1>12 DEF n, p, est

\* A request of several is of no more than fit, if none is larger than the estimate.
LEMMA BulkSize ==
  ASSUME UpsertTypeOK, Len(entities) >= 1
  PROVE  /\ CalculateBulkSize \in 1..(BulkLimit + 1)
         /\ \A k \in 2..CalculateBulkSize : k * EstimatedObjectSize <= MaxPayload
  <1>. USE BulkUpsertAssumption
  <1>. DEFINE est == EstimatedObjectSize
              fit == MaxPayload \div est
  <1>1. est \in Nat \ {0}
    BY Estimate
  <1>2. CalculateBulkSize = Max({1, Min({maxEntitiesPerBatch, fit})})
    BY DEF CalculateBulkSize
  <1>. HIDE DEF est
  <1>3. fit \in Nat /\ fit * est <= MaxPayload
    BY <1>1, Quotient
  <1>. HIDE DEF fit
  <1>4. maxEntitiesPerBatch \in 0..(BulkLimit + 1) /\ BulkLimit \in Nat \ {0}
    BY DEF UpsertTypeOK
  <1>5. Min({maxEntitiesPerBatch, fit}) \in 0..(BulkLimit + 1)
        /\ Min({maxEntitiesPerBatch, fit}) <= fit
    BY <1>3, <1>4, OfTwo
  <1>6. /\ CalculateBulkSize \in 1..(BulkLimit + 1)
        /\ CalculateBulkSize > 1 => CalculateBulkSize <= fit
    <2>. DEFINE least == Min({maxEntitiesPerBatch, fit})
    <2>1. least \in Int /\ least \in 0..(BulkLimit + 1) /\ least <= fit
      BY <1>4, <1>5
    <2>2. CalculateBulkSize = Max({1, least})
      BY <1>2
    <2>. HIDE DEF least
    <2>3. CalculateBulkSize = IF 1 >= least THEN 1 ELSE least
      BY <2>1, <2>2, OfTwo
    <2>. QED  BY <1>3, <1>4, <2>1, <2>3
  <1>7. ASSUME NEW k \in 2..CalculateBulkSize PROVE k * est <= MaxPayload
    <2>1. k \in Nat /\ k <= fit
      BY <1>3, <1>6, <1>7
    <2>2. k * est <= fit * est
      BY <1>1, <1>3, <2>1
    <2>3. k * est \in Int /\ fit * est \in Int /\ MaxPayload \in Int
      BY <1>1, <1>3, <2>1
    <2>. QED  BY <1>3, <2>2, <2>3
  <1>. QED  BY <1>6, <1>7 DEF est

\* The entities that the loop has come to.
Done == IF i <= Len(entities) THEN i ELSE Len(entities)

\* The request has few enough entities, and they fit unless they are too large.
Fits(r) ==
  \E a, b \in 1..Len(entities) :
    /\ a <= b /\ r = a..b /\ b - a < BulkLimit
    /\ a < b => (b - a + 1) * EstimatedObjectSize <= MaxPayload

\* What the loop has come to was sent in bulk or alone; of that, what is not confirmed was
\* written again or is rejected, and a stale deletion that is allowed spares it.
UpsertInv ==
  /\ UpsertTypeOK /\ Len(entities) >= 1
  /\ \A r \in requests : Fits(r)
  /\ \A r, q \in requests : r # q => r \cap q = {}
  /\ (UNION requests) \cup single = 1..Done
  /\ \A p \in 1..Done : entityIds[p] \in entitiesSet \/ p \in single \cup permanent
  /\ shouldDeleteStaleEntities => \A p \in 1..Done : entityIds[p] \in entitiesSet

LEMMA UpsertStart == UpsertInit => UpsertInv
  <1>. SUFFICES ASSUME UpsertInit PROVE UpsertInv
    OBVIOUS
  <1>. USE BulkUpsertAssumption DEF UpsertInit
  <1>1. PICK n \in 1..MaxCollected : entities \in [1..n -> Size]
    OBVIOUS
  <1>2. /\ entities \in Seq(Size) /\ Len(entities) = n /\ n \in Nat /\ n >= 1
        /\ n <= MaxCollected
    BY <1>1
  <1>3. UpsertTypeOK
    BY <1>2 DEF UpsertTypeOK
  <1>4. Done = 0
    BY <1>2 DEF Done
  <1>. QED  BY <1>2, <1>3, <1>4 DEF UpsertInv

\* What a round leaves of its entities, whatever Port answers.
LEMMA RoundEnds ==
  ASSUME UpsertTypeOK, SendChunk, Chunk \subseteq 1..Len(entities)
  PROVE  /\ single \subseteq single' /\ single' \subseteq single \cup Chunk
         /\ permanent \subseteq permanent' /\ permanent' \subseteq permanent \cup Chunk
         /\ entitiesSet \subseteq entitiesSet' /\ entitiesSet' \subseteq EntityID
         /\ shouldDeleteStaleEntities' \in BOOLEAN
         /\ shouldDeleteStaleEntities' => shouldDeleteStaleEntities
         /\ \A p \in Chunk :
              /\ entityIds[p] \in entitiesSet' \/ p \in single' \cup permanent'
              /\ shouldDeleteStaleEntities' => entityIds[p] \in entitiesSet'
              /\ TooMany => p \in single'
  <1>1. PICK answer \in [Chunk -> Answer] :
          /\ TooMany => \A p \in Chunk : answer[p] = "failed"
          /\ single' = single \cup Answered(answer, "failed")
          /\ permanent' = permanent \cup Answered(answer, "rejected")
          /\ \E handled \in SUBSET Answered(answer, "failed") :
               /\ entitiesSet' = entitiesSet \cup
                    IdsOf({p \in Chunk : answer[p] = "written"} \cup handled)
               /\ shouldDeleteStaleEntities' =
                    (shouldDeleteStaleEntities /\ Answered(answer, "rejected") = {}
                     /\ handled = Answered(answer, "failed"))
    BY DEF SendChunk
  <1>2. PICK handled \in SUBSET Answered(answer, "failed") :
          /\ entitiesSet' = entitiesSet \cup
               IdsOf({p \in Chunk : answer[p] = "written"} \cup handled)
          /\ shouldDeleteStaleEntities' =
               (shouldDeleteStaleEntities /\ Answered(answer, "rejected") = {}
                /\ handled = Answered(answer, "failed"))
    BY <1>1
  <1>3. /\ \A a \in Answer : Answered(answer, a) \subseteq Chunk
        /\ \A p \in Chunk : p \in Answered(answer, answer[p]) /\ answer[p] \in Answer
    BY <1>1 DEF Answered, IdsOf
  <1>4. \A p \in Chunk : entityIds[p] \in EntityID
    BY DEF UpsertTypeOK
  <1>5. /\ \A p \in Chunk : answer[p] = "written" => entityIds[p] \in entitiesSet'
        /\ \A p \in handled : entityIds[p] \in entitiesSet'
        /\ entitiesSet \subseteq entitiesSet'
    BY <1>2 DEF IdsOf
  <1>6. entitiesSet' \subseteq EntityID
    <2>1. handled \subseteq Chunk
      BY <1>3 DEF Answer
    <2>. QED  BY <1>2, <1>4, <2>1 DEF IdsOf, UpsertTypeOK
  <1>7. ASSUME NEW p \in Chunk
        PROVE  /\ entityIds[p] \in entitiesSet' \/ p \in single' \cup permanent'
               /\ shouldDeleteStaleEntities' => entityIds[p] \in entitiesSet'
               /\ TooMany => p \in single'
    <2>1. CASE answer[p] = "written"
      BY <1>1, <1>5, <2>1
    <2>2. CASE answer[p] = "failed"
      BY <1>1, <1>2, <1>3, <1>5, <2>2
    <2>3. CASE answer[p] = "rejected"
      BY <1>1, <1>2, <1>3, <2>3
    <2>. QED  BY <1>3, <2>1, <2>2, <2>3 DEF Answer
  <1>8. /\ single' \subseteq single \cup Chunk /\ permanent' \subseteq permanent \cup Chunk
    BY <1>1, <1>3 DEF Answer
  <1>9. /\ shouldDeleteStaleEntities' \in BOOLEAN
        /\ shouldDeleteStaleEntities' => shouldDeleteStaleEntities
    BY <1>2
  <1>. QED  BY <1>1, <1>5, <1>6, <1>7, <1>8, <1>9

LEMMA UpsertStep ==
  ASSUME UpsertInv, SendChunk
  PROVE  UpsertInv'
  <1>. USE BulkUpsertAssumption DEF UpsertInv
  <1>. DEFINE n == CalculateBulkSize
              end == End
  <1>0. PICK chunk : chunk = (i + 1)..end /\ chunk = Chunk
    BY DEF Chunk
  <1>1. /\ Len(entities) \in Nat /\ Len(entities) <= MaxCollected /\ Len(entities) >= 1
        /\ i \in Nat /\ i < Len(entities) /\ BulkLimit \in Nat /\ MaxCollected \in Nat
    BY DEF UpsertTypeOK, SendChunk
  <1>2. /\ n \in 1..(BulkLimit + 1)
        /\ \A k \in 2..n : k * EstimatedObjectSize <= MaxPayload
    BY BulkSize
  <1>3. /\ i' = i + n /\ UNCHANGED <<entities, entityIds, maxEntitiesPerBatch>>
        /\ requests' = IF end - i > BulkLimit THEN requests ELSE requests \cup {chunk}
    BY <1>0 DEF SendChunk, TooMany
  <1>4. end = IF i + n <= Len(entities) THEN i + n ELSE Len(entities)
    BY <1>1, <1>2, OfTwo DEF End
  <1>14. TooMany <=> end - i > BulkLimit
    BY DEF TooMany
  <1>. HIDE DEF n, end
  <1>5. /\ end \in Nat /\ i + 1 <= end /\ end <= Len(entities) /\ end - i <= n
        /\ Done = i /\ Done' = end
    BY <1>1, <1>2, <1>3, <1>4 DEF Done
  <1>6. /\ chunk \subseteq 1..Len(entities) /\ chunk \subseteq 1..MaxCollected
        /\ chunk \cap (1..i) = {} /\ chunk \cup (1..i) = 1..end
    BY <1>0, <1>1, <1>5
  <1>7. i' \in 0..(MaxCollected + BulkLimit)
    BY <1>1, <1>2, <1>3
  <1>15. /\ single \subseteq single' /\ single' \subseteq single \cup chunk
         /\ permanent \subseteq permanent' /\ permanent' \subseteq permanent \cup chunk
         /\ entitiesSet \subseteq entitiesSet' /\ entitiesSet' \subseteq EntityID
         /\ shouldDeleteStaleEntities' \in BOOLEAN
         /\ shouldDeleteStaleEntities' => shouldDeleteStaleEntities
         /\ \A p \in chunk :
              /\ entityIds[p] \in entitiesSet' \/ p \in single' \cup permanent'
              /\ shouldDeleteStaleEntities' => entityIds[p] \in entitiesSet'
              /\ end - i > BulkLimit => p \in single'
    <2>1. UpsertTypeOK /\ Chunk \subseteq 1..Len(entities)
      BY <1>0, <1>6
    <2>. QED  BY <1>0, <1>14, <2>1, RoundEnds
  <1>8. UpsertTypeOK'
    BY <1>3, <1>6, <1>7, <1>15 DEF UpsertTypeOK
  <1>9. EstimatedObjectSize' = EstimatedObjectSize /\ Len(entities)' = Len(entities)
    BY <1>3 DEF EstimatedObjectSize, Sample
  <1>10. \A r \in requests : Fits(r)'
    BY <1>9 DEF Fits
  <1>11. \A r \in requests : r \cap chunk = {}
    BY <1>5, <1>6
  <1>12. ASSUME ~(end - i > BulkLimit)
         PROVE  Fits(chunk)'
    <2>1. /\ i + 1 \in 1..Len(entities) /\ end \in 1..Len(entities)
          /\ end - (i + 1) < BulkLimit
      BY <1>1, <1>5, <1>12
    <2>2. i + 1 < end => end - (i + 1) + 1 \in 2..n
      BY <1>1, <1>2, <1>5
    <2>3. i + 1 < end => (end - (i + 1) + 1) * EstimatedObjectSize <= MaxPayload
      BY <1>2, <2>2
    <2>4. \E a, b \in 1..Len(entities) :
            /\ a <= b /\ chunk = a..b /\ b - a < BulkLimit
            /\ a < b => (b - a + 1) * EstimatedObjectSize <= MaxPayload
      BY <1>0, <1>5, <2>1, <2>3
    <2>5. \A r : (/\ r = chunk
                  /\ \E a, b \in 1..Len(entities) :
                       /\ a <= b /\ r = a..b /\ b - a < BulkLimit
                       /\ a < b => (b - a + 1) * EstimatedObjectSize <= MaxPayload)
                 => Fits(r)'
      BY <1>9 DEF Fits
    <2>. QED  BY <2>4, <2>5
  <1>13. /\ \A r \in requests' : Fits(r)'
         /\ \A r, q \in requests' : r # q => r \cap q = {}
    BY <1>3, <1>10, <1>11, <1>12
  <1>16. (UNION requests') \cup single' = 1..end
    <2>1. (UNION requests) \cup single = 1..i
      BY <1>5
    <2>2. UNION requests \subseteq UNION requests' /\ UNION requests' \subseteq 1..end
      BY <1>3, <1>6, <2>1
    <2>3. chunk \subseteq (UNION requests') \cup single'
      BY <1>3, <1>15
    <2>. QED  BY <1>6, <1>15, <2>1, <2>2, <2>3
  <1>17. ASSUME NEW p \in 1..end
         PROVE  /\ entityIds[p] \in entitiesSet' \/ p \in single' \cup permanent'
                /\ shouldDeleteStaleEntities' => entityIds[p] \in entitiesSet'
    <2>1. CASE p \in chunk
      BY <1>15, <2>1
    <2>2. CASE p \in 1..i
      BY <1>5, <1>15, <2>2
    <2>. QED  BY <1>6, <2>1, <2>2
  <1>. QED  BY <1>1, <1>3, <1>5, <1>8, <1>9, <1>13, <1>16, <1>17

LEMMA UpsertLeftAlone == UpsertInv /\ UNCHANGED upsertVars => UpsertInv'
  <1>. SUFFICES ASSUME UpsertInv, UNCHANGED upsertVars PROVE UpsertInv'
    OBVIOUS
  <1>1. /\ EstimatedObjectSize' = EstimatedObjectSize /\ Done' = Done
        /\ UNCHANGED upsertVars
    BY DEF EstimatedObjectSize, Sample, Done, upsertVars
  <1>2. UpsertTypeOK'
    BY <1>1 DEF UpsertInv, UpsertTypeOK, upsertVars
  <1>3. \A r \in requests : Fits(r)'
    BY <1>1 DEF UpsertInv, Fits, upsertVars
  <1>. QED  BY <1>1, <1>2, <1>3 DEF UpsertInv, upsertVars

LEMMA UpsertInvImplies == UpsertInv => RequestsFit
  <1>. SUFFICES ASSUME UpsertInv PROVE RequestsFit
    OBVIOUS
  <1>. USE BulkUpsertAssumption DEF UpsertInv
  <1>. DEFINE total == Totals(entities)
              estimated(request) ==
                \A e \in request : 2 * Sample * entities[e] <= 3 * total[Sample]
  <1>0. UpsertTypeOK /\ Len(entities) >= 1
    OBVIOUS
  <1>1. /\ entities \in Seq(Nat) /\ Len(entities) \in Nat
        /\ \A k \in 1..Len(entities) : entities[k] \in Nat
    BY <1>0, SizesAreNatural
  <1>2. SumsUpTo(entities, total, Len(entities))
    BY <1>1, TotalsSum
  <1>3. /\ EstimatedObjectSize \in Nat
        /\ \A x \in Nat : 2 * Sample * x <= 3 * total[Sample] => x <= EstimatedObjectSize
    BY <1>0, Estimate
  <1>. HIDE DEF total
  <1>4. ASSUME NEW r \in requests
        PROVE  /\ Max(r) - Min(r) < BulkLimit
               /\ Max(r) > Min(r) /\ estimated(r) =>
                    total[Max(r)] - total[Min(r) - 1] <= MaxPayload
    <2>1. PICK a \in 1..Len(entities), b \in 1..Len(entities) :
            /\ a <= b /\ r = a..b /\ b - a < BulkLimit
            /\ a < b => (b - a + 1) * EstimatedObjectSize <= MaxPayload
      BY DEF Fits
    <2>2. Max(r) = b /\ Min(r) = a
      BY <2>1, OfInterval
    <2>3. ASSUME a < b, estimated(r) PROVE total[b] - total[a - 1] <= MaxPayload
      <3>1. a - 1 \in 0..Len(entities) /\ b \in (a - 1)..Len(entities)
        BY <1>1, <2>1
      <3>2. \A e \in (a - 1 + 1)..b : entities[e] \in 0..EstimatedObjectSize
        <4>1. ASSUME NEW e \in (a - 1 + 1)..b
              PROVE  entities[e] \in 0..EstimatedObjectSize
          <5>1. e \in r /\ e \in 1..Len(entities)
            BY <1>1, <2>1
          <5>2. entities[e] \in Nat /\ 2 * Sample * entities[e] <= 3 * total[Sample]
            BY <1>1, <2>3, <5>1
          <5>. QED  BY <1>3, <5>2
        <4>. QED  BY <4>1
      <3>3. total[b] - total[a - 1] <= (b - (a - 1)) * EstimatedObjectSize
        BY <1>1, <1>2, <1>3, <3>1, <3>2, SumsBound
      <3>4. b - (a - 1) = b - a + 1
        BY <2>1
      <3>5. total[b] \in Nat /\ total[a - 1] \in Nat
        <4>1. b \in 0..Len(entities)
          BY <1>1, <2>1
        <4>2. total \in [0..Len(entities) -> Nat]
          BY <1>2 DEF SumsUpTo
        <4>. QED  BY <3>1, <4>1, <4>2
      <3>6. (b - a + 1) * EstimatedObjectSize \in Int /\ MaxPayload \in Int
        BY <1>3, <2>1
      <3>. QED  BY <2>1, <2>3, <3>3, <3>4, <3>5, <3>6
    <2>. QED  BY <2>1, <2>2, <2>3
  <1>5. ASSUME i >= Len(entities)
        PROVE  /\ (UNION requests) \cup single = 1..Len(entities)
               /\ shouldDeleteStaleEntities => IdsOf(1..Len(entities)) \subseteq entitiesSet
    <2>1. Done = Len(entities)
      BY <1>1, <1>5 DEF Done, UpsertTypeOK
    <2>. QED  BY <2>1 DEF IdsOf
  <1>6. \A p \in UNION requests :
          entityIds[p] \in entitiesSet \/ p \in single \cup permanent
    OBVIOUS
  <1>. QED  BY <1>4, <1>5, <1>6 DEF RequestsFit, Payload, total

-----------------------------------------------------------------------------
(* The deletion: the invariant. *)

\* The batches that have not ended.
Unended == batches \cup running

\* The entities that Port has deleted.
Removed == {e \in Identifier : removed[e] # Gone}

\* What a search has found was ours, and is unless it was taken over or deleted.
OwnersKnown ==
  \A e \in IDs(owned) \cup ownedIDs :
    /\ owner[e] \in Ours \cup {Gone} \/ takeOvers[e] = "after"
    /\ owner[e] # Gone \/ removed[e] # Gone

\* What was deleted had been found, and is there again only if another wrote it.
RemovedWereOwned ==
  \A e \in Identifier : removed[e] # Gone =>
    /\ e \in IDs(owned)
    /\ removed[e] \in Ours \/ takeOvers[e] = "after"
    /\ owner[e] # Gone => takeOvers[e] = "after"

\* Nothing is deleted before the last search has ended, or after the last batch.
PhaseInv ==
  /\ phase = "auto" => live
  /\ phase \notin {"delete", "done"} => Unended = {} /\ Removed = {} /\ deleted = 0
  /\ phase = "done" => Unended = {}

\* The batches share no position, and what is in none of them any more is deleted.
BatchesInv ==
  /\ batches \cap running = {}
  /\ \A a, b \in Unended : a # b => a \cap b = {}
  /\ phase \in {"delete", "done"} /\ errors = 0 =>
       \A p \in owned : p \in UNION Unended \/ removed[identifiers[p]] # Gone

\* The count is never more than the positions done with; without errors and other
\* writers it is that of the entities deleted.
CountInv ==
  /\ deleted <= Cardinality(owned \ UNION Unended)
  /\ errors = 0 /\ (\A e \in IDs(owned) : takeOvers[e] # "after") =>
       deleted = Cardinality(Removed)

\* What is ours of the chunks that were searched has been found, and before the second
\* search of a chunk what the first one looks for; what was deleted is not ours again.
FoundInv ==
  /\ phase \in {"delete", "done"} => Searched
  /\ \A p \in DOMAIN identifiers : owner[identifiers[p]] \in Ours =>
       /\ p <= searched => p \in owned
       /\ phase = "auto" /\ p \in InSearch /\ owner[identifiers[p]] = Exporter =>
            identifiers[p] \in ownedIDs
       /\ removed[identifiers[p]] = Gone

DeletionInv ==
  /\ DeletionTypeOK /\ OwnersKnown /\ RemovedWereOwned /\ PhaseInv /\ BatchesInv
  /\ CountInv /\ FoundInv

Owners == {Gone, Exporter, AutoExporter, Other}

-----------------------------------------------------------------------------
(* Sizes. *)

LEMMA DisjointUnion ==
  ASSUME NEW S, NEW T, IsFiniteSet(S), IsFiniteSet(T), S \cap T = {}
  PROVE  Cardinality(S \cup T) = Cardinality(S) + Cardinality(T)
  <1>1. Cardinality(S \cup T) = Cardinality(S) + Cardinality(T) - Cardinality(S \cap T)
    BY FS_Union
  <1>3. Cardinality(S) \in Nat /\ Cardinality(T) \in Nat
    BY FS_CardinalityType
  <1>2. Cardinality(S \cap T) = 0
    BY FS_EmptySet
  <1>. QED  BY <1>1, <1>2, <1>3

LEMMA Positions ==
  ASSUME NEW n \in Nat, NEW b \in SUBSET (1..n)
  PROVE  IsFiniteSet(b) /\ Cardinality(b) \in Nat /\ Cardinality(b) <= n
  <1>1. IsFiniteSet(1..n) /\ Cardinality(1..n) = IF 1 > n THEN 0 ELSE n - 1 + 1
    BY FS_Interval
  <1>2. Cardinality(1..n) = n
    BY <1>1
  <1>3. IsFiniteSet(b) /\ Cardinality(b) <= Cardinality(1..n)
    BY <1>1, FS_Subset
  <1>. QED  BY <1>2, <1>3, FS_CardinalityType

\* A batch names at most as many entities as it has positions.
LEMMA FiniteIDs ==
  ASSUME DeletionTypeOK, NEW b \in SUBSET owned
  PROVE  /\ IsFiniteSet(b) /\ IsFiniteSet(IDs(b))
         /\ Cardinality(b) \in Nat /\ Cardinality(IDs(b)) \in Nat
         /\ Cardinality(b) <= Len(identifiers)
         /\ Cardinality(IDs(b)) <= Cardinality(b)
  <1>1. Len(identifiers) \in Nat /\ b \subseteq 1..Len(identifiers)
    BY DEF DeletionTypeOK
  <1>3. IsFiniteSet(b) /\ Cardinality(b) <= Len(identifiers)
    BY <1>1, Positions
  <1>. DEFINE named == [p \in b |-> identifiers[p]]
  <1>4. named \in Surjection(b, IDs(b))
    BY DEF Surjection, IDs
  <1>5. IsFiniteSet(IDs(b)) /\ Cardinality(IDs(b)) <= Cardinality(b)
    BY <1>3, <1>4, FS_Surjection
  <1>. QED  BY <1>3, <1>5, FS_CardinalityType

\* The ownership of Port's entities, as the deletion knows it.
LEMMA OwnersTyped ==
  ASSUME DeletionTypeOK
  PROVE  /\ owner \in [Identifier -> Owners] /\ removed \in [Identifier -> Owners]
         /\ takeOvers \in [Identifier -> {"none", "before", "after"}]
         /\ IDs(owned) \subseteq Identifier /\ ownedIDs \subseteq Identifier
         /\ Ours \subseteq Owners \ {Gone, Other}
         /\ Exporter \in Ours /\ (live => AutoExporter \in Ours)
  <1>1. \A p \in owned : identifiers[p] \in Identifier
    BY DEF DeletionTypeOK
  <1>. QED  BY <1>1 DEF DeletionTypeOK, IDs, Owners, Ours, Exporter, AutoExporter, Gone,
                        Other

-----------------------------------------------------------------------------
(* The searches. *)

LEMMA DeletionStart == DeletionInit => DeletionInv
  <1>. SUFFICES ASSUME DeletionInit PROVE DeletionInv
    OBVIOUS
  <1>. USE OwnedDeletionAssumption DEF DeletionInit
  <1>1. identifiers \in Seq(Identifier) /\ Len(identifiers) <= MaxEntities
    <2>1. PICK n \in 1..MaxEntities : identifiers \in [1..n -> Identifier]
      OBVIOUS
    <2>. QED  BY <2>1
  <1>2. 0 \in 0..(MaxEntities + SearchBatch) /\ 0 \in 0..MaxEntities /\ 0 \in 0..MaxErrors
    OBVIOUS
  <1>3. DeletionTypeOK
    BY <1>1, <1>2 DEF DeletionTypeOK
  <1>4. Unended = {} /\ Removed = {} /\ IDs(owned) \cup ownedIDs = {}
    BY DEF Unended, Removed, IDs
  <1>5. OwnersKnown /\ RemovedWereOwned /\ PhaseInv /\ BatchesInv
    BY <1>4 DEF OwnersKnown, RemovedWereOwned, PhaseInv, BatchesInv
  <1>6. Cardinality(Removed) = 0 /\ Cardinality(owned \ UNION Unended) = 0
    BY <1>4, FS_EmptySet
  <1>7. CountInv
    BY <1>6 DEF CountInv
  <1>8. FoundInv
    BY <1>1 DEF FoundInv
  <1>. QED  BY <1>3, <1>5, <1>7, <1>8 DEF DeletionInv

\* A search changes what is known of the owners, and nothing of what is deleted.
LEMMA SearchKeeps ==
  ASSUME DeletionInv, phase \in {"search", "auto"},
         phase' \in {"search", "auto", "failed"}, phase' = "auto" => live,
         UNCHANGED <<live, owner, identifiers, batches, running, deleted, removed,
                     takeOvers>>,
         errors' \in 0..MaxErrors, searched' \in 0..(MaxEntities + SearchBatch),
         owned \subseteq owned', owned' \subseteq DOMAIN identifiers,
         ownedIDs' \subseteq Identifier,
         \A e \in IDs(owned)' \cup ownedIDs' :
           e \in IDs(owned) \cup ownedIDs \/ owner[e] \in Ours,
         FoundInv'
  PROVE  DeletionInv'
  <1>. USE DEF DeletionInv
  <1>1. Unended = {} /\ Removed = {} /\ deleted = 0
    BY DEF PhaseInv
  <1>2. batches = {} /\ running = {} /\ Unended' = {} /\ Removed' = {}
    BY <1>1 DEF Unended, Removed
  <1>3. DeletionTypeOK'
    BY <1>2 DEF DeletionTypeOK
  <1>4. OwnersKnown'
    BY OwnersTyped DEF OwnersKnown, Ours
  <1>5. RemovedWereOwned'
    BY <1>2 DEF RemovedWereOwned, Removed
  <1>6. PhaseInv'
    BY <1>1, <1>2 DEF PhaseInv
  <1>7. BatchesInv'
    BY <1>2 DEF BatchesInv, Unended
  <1>8. CountInv'
    <2>1. Len(identifiers) \in Nat /\ owned' \subseteq 1..Len(identifiers)
      BY DEF DeletionTypeOK
    <2>3. Cardinality(owned') \in Nat
      BY <2>1, Positions
    <2>2. (owned \ UNION Unended)' = owned' /\ Cardinality(Removed') = 0
      BY <1>2, FS_EmptySet
    <2>5. deleted' = 0
      BY <1>1
    <2>6. Cardinality((owned \ UNION Unended)') = Cardinality(owned')
      BY <2>2
    <2>4. deleted' = 0 /\ 0 <= Cardinality((owned \ UNION Unended)')
      BY <2>5, <2>6, <2>3
    <2>. QED  BY <2>2, <2>4 DEF CountInv
  <1>. QED  BY <1>3, <1>4, <1>5, <1>6, <1>7, <1>8

\* A chunk's end, whatever its searches have found.
LEMMA ChunkEnds ==
  ASSUME DeletionTypeOK, ~Searched, NEW ids \in SUBSET Identifier, ChunkOwned(ids)
  PROVE  /\ searched' \in 0..(MaxEntities + SearchBatch)
         /\ owned \subseteq owned' /\ owned' \subseteq DOMAIN identifiers
         /\ ownedIDs' \subseteq Identifier
         /\ UNCHANGED identifiers =>
              \A e \in IDs(owned)' \cup ownedIDs' : e \in IDs(owned) \cup ids
  <1>. USE OwnedDeletionAssumption
  <1>1. searched' \in 0..(MaxEntities + SearchBatch)
    BY DEF DeletionTypeOK, ChunkOwned, Searched
  <1>2. owned \subseteq owned' /\ owned' \subseteq DOMAIN identifiers /\ ownedIDs' = {}
    BY DEF DeletionTypeOK, ChunkOwned, InSearch
  <1>3. ASSUME UNCHANGED identifiers, NEW e \in IDs(owned)' PROVE e \in IDs(owned) \cup ids
    BY <1>3 DEF ChunkOwned, IDs
  <1>. QED  BY <1>1, <1>2, <1>3

\* Whom the entities found belong to.
LEMMA FoundAreOurs ==
  ASSUME DeletionTypeOK, NEW datasource \in Ours
  PROVE  /\ InChunk(datasource) \subseteq Identifier
         /\ \A e \in InChunk(datasource) : owner[e] \in Ours
  BY DEF InChunk, IDs, InSearch, DeletionTypeOK

LEMMA SearchStep ==
  ASSUME DeletionInv, SearchOwned \/ SearchAutoOwned
  PROVE  DeletionInv'
  <1>. USE OwnedDeletionAssumption DEF DeletionInv
  <1>0. /\ DeletionTypeOK /\ ~Searched /\ phase \in {"search", "auto"}
        /\ UNCHANGED <<live, owner, identifiers, batches, running, deleted, removed,
                       takeOvers>>
        /\ Ours' = Ours
        /\ \A p \in DOMAIN identifiers : identifiers[p] \in Identifier
        /\ searched \in Nat /\ SearchBatch \in Nat /\ DOMAIN identifiers \subseteq Nat
    BY DEF SearchOwned, SearchAutoOwned, Search, Ours, DeletionTypeOK
  <1>9. \A p \in DOMAIN identifiers : removed[identifiers[p]] = Gone
    BY <1>0 DEF PhaseInv, Removed
  <1>1. CASE Errors /\ phase' = "failed" /\ UNCHANGED <<searched, ownedIDs, owned>>
    <2>1. errors' \in 0..MaxErrors
      BY <1>1 DEF Errors, DeletionTypeOK
    <2>2. IDs(owned)' = IDs(owned) /\ ownedIDs' = ownedIDs
      BY <1>0, <1>1 DEF IDs
    <2>3. /\ owned' \subseteq DOMAIN identifiers /\ ownedIDs' \subseteq Identifier
          /\ searched' \in 0..(MaxEntities + SearchBatch)
      BY <1>1 DEF DeletionTypeOK
    <2>4. FoundInv'
      BY <1>0, <1>1 DEF FoundInv
    <2>. QED  BY <1>0, <1>1, <2>1, <2>2, <2>3, <2>4, SearchKeeps
  <1>2. CASE /\ ownedIDs' = InChunk(Exporter) /\ phase' = "auto" /\ live
             /\ UNCHANGED <<searched, owned, errors>>
    <2>1. ownedIDs' \subseteq Identifier /\ \A e \in ownedIDs' : owner[e] \in Ours
      BY <1>2, OwnersTyped, FoundAreOurs
    <2>2. IDs(owned)' = IDs(owned)
      BY <1>0, <1>2 DEF IDs
    <2>3. /\ owned' \subseteq DOMAIN identifiers /\ errors' \in 0..MaxErrors
          /\ searched' \in 0..(MaxEntities + SearchBatch)
      BY <1>2 DEF DeletionTypeOK
    <2>4. FoundInv'
      <3>1. InSearch' = InSearch
        BY <1>0, <1>2 DEF InSearch
      <3>2. ASSUME NEW p \in InSearch, owner[identifiers[p]] = Exporter
            PROVE  identifiers[p] \in ownedIDs'
        BY <1>2, <3>2 DEF InChunk, IDs
      <3>. QED  BY <1>0, <1>2, <3>1, <3>2 DEF FoundInv
    <2>. QED  BY <1>0, <1>2, <2>1, <2>2, <2>3, <2>4, SearchKeeps
  <1>3. ASSUME NEW ids \in SUBSET Identifier, ChunkOwned(ids), UNCHANGED errors,
               phase' = "search", \A e \in ids : e \in ownedIDs \/ owner[e] \in Ours,
               \A p \in InSearch : owner[identifiers[p]] \in Ours => identifiers[p] \in ids
        PROVE  DeletionInv'
    <2>1. errors' \in 0..MaxErrors
      BY <1>3 DEF DeletionTypeOK
    <2>2. ASSUME NEW p \in DOMAIN identifiers, owner[identifiers[p]] \in Ours,
                 p <= searched'
          PROVE  p \in owned'
      <3>1. p <= searched => p \in owned
        BY <2>2 DEF FoundInv
      <3>2. p <= searched \/ p \in InSearch
        BY <1>0, <1>3, <2>2 DEF InSearch, ChunkOwned
      <3>. QED  BY <1>3, <2>2, <3>1, <3>2 DEF ChunkOwned
    <2>3. FoundInv'
      BY <1>0, <1>3, <1>9, <2>2 DEF FoundInv
    <2>. QED  BY <1>0, <1>3, <2>1, <2>3, ChunkEnds, SearchKeeps
  <1>4. ASSUME live, phase = "auto", UNCHANGED errors, phase' = "search",
               ChunkOwned(ownedIDs \cup InChunk(AutoExporter))
        PROVE  DeletionInv'
    <2>1. AutoExporter \in Ours
      BY <1>4, OwnersTyped
    <2>2. ownedIDs \cup InChunk(AutoExporter) \subseteq Identifier
      BY <2>1, FoundAreOurs DEF DeletionTypeOK
    <2>3. ASSUME NEW p \in InSearch, owner[identifiers[p]] \in Ours
          PROVE  identifiers[p] \in ownedIDs \cup InChunk(AutoExporter)
      <3>1. p \in DOMAIN identifiers /\ identifiers[p] \in IDs(InSearch)
        BY DEF InSearch, IDs
      <3>2. owner[identifiers[p]] \in {Exporter, AutoExporter}
        BY <1>4, <2>3 DEF Ours
      <3>. QED  BY <1>4, <2>3, <3>1, <3>2 DEF InChunk, FoundInv
    <2>. QED  BY <1>3, <1>4, <2>1, <2>2, <2>3, FoundAreOurs
  <1>5. ASSUME ~live, ChunkOwned(InChunk(Exporter)), UNCHANGED errors, phase' = "search"
        PROVE  DeletionInv'
    <2>1. Exporter \in Ours
      BY OwnersTyped
    <2>2. ASSUME NEW p \in InSearch, owner[identifiers[p]] \in Ours
          PROVE  identifiers[p] \in InChunk(Exporter)
      BY <1>5, <2>2 DEF Ours, InChunk, IDs
    <2>. QED  BY <1>3, <1>5, <2>1, <2>2, FoundAreOurs
  <1>6. CASE SearchOwned
    BY <1>1, <1>2, <1>5, <1>6 DEF SearchOwned, Search
  <1>7. CASE SearchAutoOwned
    <2>1. live
      BY <1>7 DEF PhaseInv, SearchAutoOwned, Search
    <2>. QED  BY <1>1, <1>4, <1>7, <2>1 DEF SearchAutoOwned, Search
  <1>. QED  BY <1>6, <1>7

-----------------------------------------------------------------------------
(* The batches. *)

\* The chunks of what is owned have every position once.
LEMMA ChunksPartition ==
  /\ Chunks \subseteq SUBSET owned
  /\ \A a, b \in Chunks : a # b => a \cap b = {}
  /\ UNION Chunks = owned
  <1>. DEFINE number(p) == Rank(p) \div DeleteBatch
  <1>1. \A p : BatchOf(p) = {q \in owned : number(q) = number(p)}
    BY DEF BatchOf
  <1>2. Chunks = {BatchOf(p) : p \in owned}
    BY DEF Chunks
  <1>. HIDE DEF number
  <1>3. Chunks \subseteq SUBSET owned /\ \A p \in owned : p \in BatchOf(p)
    BY <1>1, <1>2
  <1>4. ASSUME NEW a \in Chunks, NEW b \in Chunks, NEW q \in a \cap b PROVE a = b
    <2>1. PICK p \in owned : a = BatchOf(p)
      BY <1>2
    <2>2. PICK r \in owned : b = BatchOf(r)
      BY <1>2
    <2>3. number(q) = number(p) /\ number(q) = number(r)
      BY <1>1, <2>1, <2>2
    <2>. QED  BY <1>1, <2>1, <2>2, <2>3
  <1>. QED  BY <1>2, <1>3, <1>4

LEMMA BeginDeleteStep ==
  ASSUME DeletionInv, BeginDelete
  PROVE  DeletionInv'
  <1>. USE DEF DeletionInv
  <1>1. Unended = {} /\ Removed = {} /\ deleted = 0 /\ running = {}
    BY DEF PhaseInv, Unended, BeginDelete
  <1>2. /\ batches' = Chunks /\ running' = {} /\ phase' = "delete"
        /\ UNCHANGED <<live, owner, identifiers, searched, ownedIDs, owned, deleted,
                       removed, takeOvers, errors>>
    BY <1>1 DEF BeginDelete
  <1>3. Unended' = Chunks /\ Removed' = {}
    BY <1>1, <1>2 DEF Unended, Removed
  <1>4. DeletionTypeOK'
    BY <1>2, ChunksPartition DEF DeletionTypeOK
  <1>5. OwnersKnown' /\ RemovedWereOwned'
    BY <1>2 DEF OwnersKnown, RemovedWereOwned, IDs, Ours
  <1>6. PhaseInv'
    BY <1>2 DEF PhaseInv
  <1>7. BatchesInv'
    BY <1>2, <1>3, ChunksPartition DEF BatchesInv
  <1>8. CountInv'
    <2>1. (owned \ UNION Unended)' = {}
      BY <1>2, <1>3, ChunksPartition
    <2>. QED  BY <1>1, <1>2, <1>3, <2>1, FS_EmptySet DEF CountInv
  <1>9. FoundInv'
    BY <1>2 DEF FoundInv, BeginDelete, Searched, Ours
  <1>. QED  BY <1>4, <1>5, <1>6, <1>7, <1>8, <1>9

LEMMA StartBatchStep ==
  ASSUME DeletionInv, NEW b \in batches, StartBatch(b)
  PROVE  DeletionInv'
  <1>. USE DEF DeletionInv
  <1>1. /\ batches' = batches \ {b} /\ running' = running \cup {b} /\ phase = "delete"
        /\ UNCHANGED <<live, owner, identifiers, searched, ownedIDs, owned, phase, deleted,
                       removed, takeOvers, errors>>
    BY DEF StartBatch
  <1>2. Unended' = Unended /\ Removed' = Removed /\ IDs(owned)' = IDs(owned) /\ Ours' = Ours
    BY <1>1 DEF Unended, Removed, IDs, Ours
  <1>3. DeletionTypeOK'
    BY <1>1 DEF DeletionTypeOK
  <1>4. OwnersKnown' /\ RemovedWereOwned'
    BY <1>1, <1>2 DEF OwnersKnown, RemovedWereOwned
  <1>5. PhaseInv'
    BY <1>1, <1>2 DEF PhaseInv
  <1>6. BatchesInv'
    BY <1>1, <1>2 DEF BatchesInv
  <1>7. CountInv'
    BY <1>1, <1>2 DEF CountInv
  <1>8. FoundInv'
    BY <1>1, <1>2 DEF FoundInv, Searched, InSearch
  <1>. QED  BY <1>3, <1>4, <1>5, <1>6, <1>7, <1>8

\* An answer's batch is done with: its entities are gone, or some and an error.
LEMMA DeleteBatchStep ==
  ASSUME DeletionInv, NEW b \in running, DeleteBatchOf(b)
  PROVE  DeletionInv'
  <1>. USE OwnedDeletionAssumption DEF DeletionInv
  <1>. DEFINE there == {e \in IDs(b) : owner[e] # Gone}
  <1>1. PICK gone \in SUBSET there :
          /\ owner' = [e \in Identifier |-> IF e \in gone THEN Gone ELSE owner[e]]
          /\ removed' = [e \in Identifier |-> IF e \in gone THEN owner[e] ELSE removed[e]]
          /\ \/ gone = there /\ deleted' = deleted + Cardinality(gone) /\ UNCHANGED errors
             \/ gone # there /\ deleted' = deleted + Cardinality(gone) /\ Errors
             \/ gone \in {there, {}} /\ Errors /\ UNCHANGED deleted
    BY DEF DeleteBatchOf
  <1>2. /\ phase = "delete" /\ running' = running \ {b}
        /\ UNCHANGED <<live, identifiers, searched, ownedIDs, owned, batches, phase,
                       takeOvers>>
    BY DEF DeleteBatchOf
  <1>3. /\ b \in SUBSET owned /\ b \subseteq owned /\ gone \subseteq IDs(b)
        /\ \A e \in gone : owner[e] # Gone
        /\ IDs(b) \subseteq IDs(owned) /\ IDs(owned) \subseteq Identifier
    BY OwnersTyped DEF DeletionTypeOK, IDs
  <1>4. /\ IsFiniteSet(gone) /\ Cardinality(gone) \in Nat
        /\ Cardinality(gone) <= Cardinality(b)
        /\ IsFiniteSet(b) /\ Cardinality(b) \in Nat
    <2>1. /\ IsFiniteSet(b) /\ IsFiniteSet(IDs(b)) /\ Cardinality(b) \in Nat
          /\ Cardinality(IDs(b)) \in Nat /\ Cardinality(IDs(b)) <= Cardinality(b)
      BY <1>3, FiniteIDs
    <2>2. IsFiniteSet(gone) /\ Cardinality(gone) <= Cardinality(IDs(b))
      BY <1>3, <2>1, FS_Subset
    <2>. QED  BY <2>1, <2>2, FS_CardinalityType
  <1>5. /\ errors \in 0..MaxErrors /\ errors' \in 0..MaxErrors
        /\ errors' = 0 =>
             errors = 0 /\ gone = there /\ deleted' = deleted + Cardinality(gone)
        /\ deleted \in Nat /\ deleted' \in Nat /\ deleted' <= deleted + Cardinality(gone)
    <2>1. PICK n \in Nat : n = Cardinality(gone)
      BY <1>4
    <2>2. errors \in 0..MaxErrors /\ MaxErrors \in Nat /\ deleted \in Nat
      BY DEF DeletionTypeOK
    <2>3. \/ gone = there /\ deleted' = deleted + n /\ errors' = errors
          \/ deleted' = deleted + n /\ errors < MaxErrors /\ errors' = errors + 1
          \/ deleted' = deleted /\ errors < MaxErrors /\ errors' = errors + 1
      BY <1>1, <2>1 DEF Errors
    <2>4. /\ errors' \in 0..MaxErrors /\ deleted' \in Nat /\ deleted' <= deleted + n
          /\ errors' = 0 => errors = 0 /\ gone = there /\ deleted' = deleted + n
      BY <2>2, <2>3
    <2>. QED  BY <2>1, <2>2, <2>4
  <1>. HIDE DEF there
  <1>6. /\ owner \in [Identifier -> Owners] /\ removed \in [Identifier -> Owners]
        /\ owner' \in [Identifier -> Owners] /\ removed' \in [Identifier -> Owners]
    BY <1>1, OwnersTyped DEF Owners
  <1>7. /\ IDs(owned)' = IDs(owned) /\ Ours' = Ours /\ Removed' = Removed \cup gone
        /\ \A e \in gone : owner'[e] = Gone /\ removed'[e] = owner[e]
        /\ \A e \in Identifier \ gone : owner'[e] = owner[e] /\ removed'[e] = removed[e]
    BY <1>1, <1>2, <1>3, <1>6 DEF IDs, Ours, Removed
  <1>8. b \in Unended /\ b \notin batches /\ Unended' = Unended \ {b}
    BY <1>2 DEF BatchesInv, Unended
  <1>9. OwnersKnown'
    BY <1>2, <1>3, <1>6, <1>7, OwnersTyped DEF OwnersKnown
  <1>10. RemovedWereOwned'
    <2>1. ASSUME NEW e \in Identifier, removed'[e] # Gone
          PROVE  /\ e \in IDs(owned)
                 /\ removed'[e] \in Ours \/ takeOvers[e] = "after"
                 /\ owner'[e] # Gone => takeOvers[e] = "after"
      <3>1. CASE e \in gone
        BY <1>3, <1>7, <3>1 DEF OwnersKnown
      <3>2. CASE e \notin gone
        BY <1>7, <2>1, <3>2 DEF RemovedWereOwned
      <3>. QED  BY <3>1, <3>2
    <2>. QED  BY <1>2, <1>7, <2>1 DEF RemovedWereOwned
  <1>11. PhaseInv'
    BY <1>2 DEF PhaseInv
  <1>12. BatchesInv'
    <2>1. batches' \cap running' = {} /\ \A a, c \in Unended' : a # c => a \cap c = {}
      BY <1>2, <1>8 DEF BatchesInv
    <2>2. ASSUME errors' = 0, NEW p \in owned
          PROVE  p \in UNION Unended' \/ removed'[identifiers[p]] # Gone
      <3>1. CASE p \in b
        <4>1. identifiers[p] \in IDs(b) /\ identifiers[p] \in IDs(owned)
          BY <1>3, <3>1 DEF IDs
        <4>2. CASE owner[identifiers[p]] # Gone
          <5>1. identifiers[p] \in gone
            BY <1>5, <2>2, <4>1, <4>2 DEF there
          <5>. QED  BY <1>3, <1>7, <5>1
        <4>3. CASE owner[identifiers[p]] = Gone
          <5>1. removed[identifiers[p]] # Gone /\ identifiers[p] \notin gone
            BY <1>3, <4>1, <4>3 DEF OwnersKnown
          <5>. QED  BY <1>3, <1>7, <4>1, <5>1
        <4>. QED  BY <4>2, <4>3
      <3>2. CASE p \notin b
        <4>1. p \in UNION Unended \/ removed[identifiers[p]] # Gone
          BY <1>2, <1>5, <2>2 DEF BatchesInv
        <4>2. CASE p \in UNION Unended
          BY <1>8, <3>2, <4>2
        <4>3. CASE removed[identifiers[p]] # Gone
          <5>1. identifiers[p] \in Identifier
            BY <1>3 DEF IDs
          <5>. QED  BY <1>3, <1>7, <4>3, <5>1
        <4>. QED  BY <4>1, <4>2, <4>3
      <3>. QED  BY <3>1, <3>2
    <2>. QED  BY <1>2, <2>1, <2>2 DEF BatchesInv
  <1>13. /\ deleted' <= Cardinality((owned \ UNION Unended)')
         /\ Cardinality((owned \ UNION Unended)') <= Len(identifiers)
    <2>. DEFINE past == owned \ UNION Unended
                now == owned \ UNION Unended'
    <2>1. now = past \cup b /\ past \cap b = {}
      BY <1>3, <1>8 DEF BatchesInv
    <2>2. past \in SUBSET owned /\ now \in SUBSET owned
      OBVIOUS
    <2>. HIDE DEF past, now
    <2>3. IsFiniteSet(past) /\ Cardinality(past) \in Nat
      BY <2>2, FiniteIDs
    <2>4. Cardinality(now) = Cardinality(past) + Cardinality(b)
      BY <1>4, <2>1, <2>3, DisjointUnion
    <2>5. Cardinality(now) <= Len(identifiers) /\ deleted <= Cardinality(past)
      BY <2>2, FiniteIDs DEF CountInv, past
    <2>6. deleted' <= Cardinality(now)
      BY <1>4, <1>5, <2>3, <2>4, <2>5
    <2>. QED  BY <1>2, <2>5, <2>6 DEF now
  <1>14. ASSUME errors' = 0, \A e \in IDs(owned) : takeOvers[e] # "after"
         PROVE  deleted' = Cardinality(Removed')
    <2>1. Removed \cap gone = {} /\ Removed \subseteq IDs(owned)
      BY <1>3, <1>14 DEF Removed, RemovedWereOwned
    <2>2. IsFiniteSet(IDs(owned))
      BY FiniteIDs
    <2>3. IsFiniteSet(Removed) /\ Cardinality(Removed) \in Nat
      BY <2>1, <2>2, FS_Subset, FS_CardinalityType
    <2>4. Cardinality(Removed \cup gone) = Cardinality(Removed) + Cardinality(gone)
      BY <1>4, <2>1, <2>3, DisjointUnion
    <2>5. deleted = Cardinality(Removed)
      BY <1>5, <1>14 DEF CountInv
    <2>. QED  BY <1>5, <1>7, <1>14, <2>4, <2>5
  <1>15. CountInv'
    BY <1>2, <1>7, <1>13, <1>14 DEF CountInv
  <1>16. DeletionTypeOK'
    <2>1. deleted' \in 0..MaxEntities
      <3>1. Len(identifiers) \in Nat /\ Len(identifiers) <= MaxEntities
        BY DEF DeletionTypeOK
      <3>2. Cardinality((owned \ UNION Unended)') \in Nat
        <4>1. (owned \ UNION Unended)' \in SUBSET owned
          BY <1>2
        <4>. QED  BY <4>1, FiniteIDs
      <3>. QED  BY <1>5, <1>13, <3>1, <3>2
    <2>. QED  BY <1>2, <1>5, <1>6, <2>1 DEF DeletionTypeOK, Owners
  <1>17. FoundInv'
    <2>1. ASSUME NEW p \in DOMAIN identifiers, owner'[identifiers[p]] \in Ours
          PROVE  /\ owner[identifiers[p]] \in Ours
                 /\ removed'[identifiers[p]] = removed[identifiers[p]]
      <3>1. identifiers[p] \in Identifier
        BY DEF DeletionTypeOK
      <3>2. identifiers[p] \notin gone
        BY <1>7, <2>1, OwnersTyped
      <3>. QED  BY <1>7, <2>1, <3>1, <3>2
    <2>. QED  BY <1>2, <1>7, <2>1 DEF FoundInv, Searched
  <1>. QED  BY <1>9, <1>10, <1>11, <1>12, <1>15, <1>16, <1>17

LEMMA EndDeleteStep ==
  ASSUME DeletionInv, EndDelete
  PROVE  DeletionInv'
  <1>. USE DEF DeletionInv
  <1>1. /\ batches = {} /\ running = {} /\ phase = "delete" /\ phase' = "done"
        /\ UNCHANGED <<live, owner, identifiers, searched, ownedIDs, owned, batches,
                       running, deleted, removed, takeOvers, errors>>
    BY DEF EndDelete
  <1>2. Unended' = Unended /\ Removed' = Removed /\ IDs(owned)' = IDs(owned) /\ Ours' = Ours
    BY <1>1 DEF Unended, Removed, IDs, Ours
  <1>3. DeletionTypeOK'
    BY <1>1 DEF DeletionTypeOK
  <1>4. OwnersKnown' /\ RemovedWereOwned'
    BY <1>1, <1>2 DEF OwnersKnown, RemovedWereOwned
  <1>5. PhaseInv'
    BY <1>1 DEF PhaseInv, Unended
  <1>6. BatchesInv' /\ CountInv'
    BY <1>1, <1>2 DEF BatchesInv, CountInv
  <1>7. FoundInv'
    BY <1>1, <1>2 DEF FoundInv, Searched
  <1>. QED  BY <1>3, <1>4, <1>5, <1>6, <1>7

-----------------------------------------------------------------------------
(* The other writers. *)

LEMMA TakeOverStep ==
  ASSUME DeletionInv, NEW w \in Identifier, TakeOver(w)
  PROVE  DeletionInv'
  <1>. USE DEF DeletionInv
  <1>1. UNCHANGED <<live, identifiers, searched, ownedIDs, owned, batches, running, phase,
                    deleted, removed, errors>>
    BY DEF TakeOver
  <1>2. Unended' = Unended /\ Removed' = Removed /\ IDs(owned)' = IDs(owned) /\ Ours' = Ours
    BY <1>1 DEF Unended, Removed, IDs, Ours
  <1>3. /\ owner \in [Identifier -> Owners] /\ owner' \in [Identifier -> Owners]
        /\ owner'[w] = Other /\ Other # Gone
        /\ \A e \in Identifier \ {w} : owner'[e] = owner[e] /\ takeOvers'[e] = takeOvers[e]
        /\ w \in IDs(owned) \cup ownedIDs => takeOvers'[w] = "after"
        /\ takeOvers' \in [Identifier -> {"none", "before", "after"}]
    BY OwnersTyped DEF TakeOver, Owners, Other, Gone
  <1>4. DeletionTypeOK'
    BY <1>1, <1>3 DEF DeletionTypeOK, Owners
  <1>5. OwnersKnown'
    BY <1>1, <1>2, <1>3, OwnersTyped DEF OwnersKnown
  <1>6. RemovedWereOwned'
    BY <1>1, <1>2, <1>3 DEF RemovedWereOwned
  <1>7. PhaseInv' /\ BatchesInv'
    BY <1>1, <1>2 DEF PhaseInv, BatchesInv
  <1>8. CountInv'
    <2>1. (\A e \in IDs(owned) : takeOvers'[e] # "after") =>
            \A e \in IDs(owned) : takeOvers[e] # "after"
      BY <1>3, OwnersTyped
    <2>. QED  BY <1>1, <1>2, <2>1 DEF CountInv
  <1>9. FoundInv'
    <2>1. ASSUME NEW p \in DOMAIN identifiers, owner'[identifiers[p]] \in Ours
          PROVE  owner[identifiers[p]] = owner'[identifiers[p]]
      <3>1. identifiers[p] \in Identifier
        BY DEF DeletionTypeOK
      <3>. QED  BY <1>3, <2>1, <3>1, OwnersTyped
    <2>. QED  BY <1>1, <1>2, <2>1 DEF FoundInv, Searched, InSearch
  <1>. QED  BY <1>4, <1>5, <1>6, <1>7, <1>8, <1>9

-----------------------------------------------------------------------------

LEMMA DeletionStep ==
  ASSUME DeletionInv, DeletionNext
  PROVE  DeletionInv'
  BY SearchStep, BeginDeleteStep, EndDeleteStep, StartBatchStep, DeleteBatchStep,
     TakeOverStep DEF DeletionNext

LEMMA DeletionStutters ==
  ASSUME DeletionInv, UNCHANGED deletionVars
  PROVE  DeletionInv'
  <1>. USE DEF DeletionInv, deletionVars
  <1>1. Unended' = Unended /\ Removed' = Removed /\ IDs(owned)' = IDs(owned) /\ Ours' = Ours
    BY DEF Unended, Removed, IDs, Ours
  <1>2. DeletionTypeOK'
    BY DEF DeletionTypeOK
  <1>3. OwnersKnown' /\ RemovedWereOwned' /\ PhaseInv' /\ BatchesInv' /\ CountInv'
    BY <1>1 DEF OwnersKnown, RemovedWereOwned, PhaseInv, BatchesInv, CountInv
  <1>4. FoundInv'
    BY <1>1 DEF FoundInv, Searched, InSearch
  <1>. QED  BY <1>2, <1>3, <1>4

LEMMA DeletionInvImplies ==
  ASSUME DeletionInv
  PROVE  OthersSpared /\ OursDeleted
  <1>. USE DEF DeletionInv
  <1>1. OthersSpared
    BY OwnersTyped DEF OthersSpared, RemovedWereOwned
  <1>2. ASSUME phase = "done", errors = 0, NEW e \in IDs(owned) PROVE removed[e] # Gone
    <2>1. PICK p \in owned : e = identifiers[p]
      BY DEF IDs
    <2>2. UNION Unended = {}
      BY <1>2 DEF PhaseInv
    <2>. QED  BY <1>2, <2>1, <2>2 DEF BatchesInv
  <1>3. ASSUME phase = "done", errors = 0, \A e \in IDs(owned) : takeOvers[e] # "after"
        PROVE  deleted = Cardinality(IDs(owned))
    <2>1. Removed = IDs(owned)
      BY <1>2, <1>3, OwnersTyped DEF Removed, RemovedWereOwned
    <2>. QED  BY <1>3, <2>1 DEF CountInv
  <1>5. ASSUME phase = "done", errors = 0, NEW p \in DOMAIN identifiers
        PROVE  owner[identifiers[p]] \notin Ours
    <2>1. p <= searched
      BY <1>5 DEF FoundInv, Searched, DeletionTypeOK
    <2>2. ASSUME owner[identifiers[p]] \in Ours PROVE FALSE
      <3>1. p \in owned /\ removed[identifiers[p]] = Gone
        BY <2>1, <2>2 DEF FoundInv
      <3>. QED  BY <1>2, <1>5, <3>1 DEF IDs
    <2>. QED  BY <2>2
  <1>4. OursDeleted
    BY <1>2, <1>3, <1>5 DEF OursDeleted
  <1>. QED  BY <1>1, <1>4
=============================================================================
