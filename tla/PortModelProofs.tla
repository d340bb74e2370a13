---------------------------- MODULE PortModelProofs ----------------------------
(***************************************************************************)
(* What the procedures of PortModel guarantee, for any sets and limits.    *)
(***************************************************************************)
EXTENDS PortModel, EntityRequestsProofs

-----------------------------------------------------------------------------
(* The mapping of an object's properties. *)

\* What a property has after the queries that were evaluated.
Evaluated ==
  LET done == jqQueries \ toEvaluate
      yielded == IF Star \in done THEN starResult ELSE {}
  IN \A k \in Key :
       mapInterface[k] \in
         (IF k \in done \ {Star} THEN {k} ELSE {})
           \cup (IF k \in yielded THEN {Star} ELSE {})
           \cup (IF k \in (done \ {Star}) \cup yielded THEN {} ELSE {Unset})

MappingInv ==
  /\ MappingTypeOK
  /\ parseFailed => toEvaluate = {} /\ \A k \in Key : mapInterface[k] = Unset
  /\ ~parseFailed => Evaluated

LEMMA MappingStart == MappingInit => MappingInv
  <1>. SUFFICES ASSUME MappingInit PROVE MappingInv
    OBVIOUS
  <1>1. MappingTypeOK
    BY DEF MappingInit, MappingTypeOK, Key
  <1>2. Evaluated
    BY DEF MappingInit, Evaluated
  <1>. QED  BY <1>1, <1>2 DEF MappingInv, MappingInit

LEMMA MappingStep ==
  ASSUME MappingInv, MappingNext
  PROVE  MappingInv'
  <1>1. CASE EvaluationFails
    BY <1>1 DEF EvaluationFails, MappingInv, MappingTypeOK
  <1>2. ASSUME NEW key \in Key, Evaluate(key) PROVE MappingInv'
    <2>1. Evaluated /\ ~parseFailed /\ ~parseFailed'
      BY <1>2 DEF Evaluate, MappingInv
    <2>2. CASE key = Star
      <3>1. MappingTypeOK'
        BY <1>2, <2>2 DEF Evaluate, Merge, MappingInv, MappingTypeOK, Key
      <3>2. Evaluated'
        BY <1>2, <2>1, <2>2 DEF Evaluate, Merge, MappingInv, MappingTypeOK, Evaluated
      <3>. QED  BY <2>1, <3>1, <3>2 DEF MappingInv
    <2>3. CASE key # Star
      <3>1. MappingTypeOK'
        BY <1>2, <2>3 DEF Evaluate, MappingInv, MappingTypeOK
      <3>2. Evaluated'
        BY <1>2, <2>1, <2>3 DEF Evaluate, MappingInv, MappingTypeOK, Evaluated
      <3>. QED  BY <2>1, <3>1, <3>2 DEF MappingInv
    <2>. QED  BY <2>2, <2>3
  <1>. QED  BY <1>1, <1>2 DEF MappingNext

LEMMA MappingInvImplies == MappingInv => OrderMattersOnlyForBoth
  BY DEF MappingInv, MappingTypeOK, Evaluated, OrderMattersOnlyForBoth

-----------------------------------------------------------------------------
(* The cache of the image detector. *)

\* A goroutine that has gone down to a layer found none above it, unless a layer of
\* its image could not be read.
PassedLayers ==
  \A w \in Worker, r \in ImageRef :
    LET g == detection[w][r] IN
    g.at = "reading" =>
      /\ g.digest \in Digest
      /\ g.digest \in unread \/ \A l \in OsRelease[g.digest] : l <= g.layer

CacheInv == ImagesTypeOK /\ PassedLayers /\ CacheRight

Goroutine == [at : {"waiting", "resolving", "reading", "ended"},
              digest : Digest \cup {NoImage}, layer : 0..Layers]

LEMMA OneGoroutineMoves ==
  ASSUME ImagesTypeOK, NEW w \in Worker, NEW r \in ImageRef, NEW next \in Goroutine,
         Becomes(w, r, next)
  PROVE  /\ detection' \in [Worker -> [ImageRef -> Goroutine]]
         /\ detection'[w][r] = next
         /\ \A v \in Worker, q \in ImageRef :
              v # w \/ q # r => detection'[v][q] = detection[v][q]
  <1>1. detection \in [Worker -> [ImageRef -> Goroutine]]
    BY DEF ImagesTypeOK, Goroutine
  <1>. QED  BY <1>1 DEF Becomes

LEMMA CacheStart == ImagesInit => CacheInv
  <1>. SUFFICES ASSUME ImagesInit PROVE CacheInv
    OBVIOUS
  <1>1. Ended \in Goroutine /\ Ended.at = "ended"
    BY ImagesAssumption DEF Ended, Waiting, Goroutine, Empty
  <1>2. NotCached \in NotCached..Layers /\ 0 \in 0..MaxReadErrors
    BY ImagesAssumption DEF NotCached
  <1>3. ImagesTypeOK
    BY <1>1, <1>2 DEF ImagesInit, ImagesTypeOK, Goroutine
  <1>. QED  BY <1>1, <1>3 DEF CacheInv, ImagesInit, PassedLayers, CacheRight


LEMMA CacheStep ==
  ASSUME CacheInv, ImagesNext
  PROVE  CacheInv'
  <1>. USE ImagesAssumption DEF CacheInv
  <1>0. /\ detection \in [Worker -> [ImageRef -> Goroutine]]
        /\ Waiting \in Goroutine /\ Ended \in Goroutine
        /\ Waiting.at = "waiting" /\ Ended.at = "ended"
    BY DEF ImagesTypeOK, Goroutine, Ended, Waiting, Empty
  <1>1. ASSUME NEW w \in Worker, Enrich(w) PROVE CacheInv'
    <2>1. PICK refs \in SUBSET ImageRef :
            detection' = [detection EXCEPT ![w] =
                            [r \in ImageRef |-> IF r \in refs THEN Waiting ELSE Ended]]
      BY <1>1 DEF Enrich
    <2>2. UNCHANGED <<digestOf, cache, unread, readErrors>>
          /\ batch' = [batch EXCEPT ![w] = "detecting"]
      BY <1>1 DEF Enrich, Registry
    <2>3. detection' \in [Worker -> [ImageRef -> Goroutine]]
      BY <1>0, <2>1
    <2>4. ImagesTypeOK'
      BY <2>2, <2>3 DEF ImagesTypeOK, Goroutine
    <2>5. \A v \in Worker, r \in ImageRef :
            detection'[v][r] = detection[v][r] \/ detection'[v][r].at # "reading"
      BY <1>0, <2>1
    <2>. QED  BY <2>2, <2>4, <2>5 DEF PassedLayers, CacheRight
  <1>2. ASSUME NEW w \in Worker, BatchReturns(w) PROVE CacheInv'
    BY <1>2 DEF BatchReturns, Registry, ImagesTypeOK, PassedLayers, CacheRight
  <1>3. ASSUME NEW r \in ImageRef, PushImage(r) PROVE CacheInv'
    BY <1>3 DEF PushImage, ImagesTypeOK, PassedLayers, CacheRight
  <1>4. ASSUME NEW w \in Worker, NEW r \in ImageRef,
               AcquireSemaphore(w, r) \/ ResolveDigest(w, r)
        PROVE  CacheInv'
    <2>1. \E next \in Goroutine :
            /\ Becomes(w, r, next)
            /\ next.at = "reading" => next.digest \in Digest /\ next.layer = Layers
      <3>1. CASE AcquireSemaphore(w, r)
        <4>1. [Waiting EXCEPT !.at = "resolving"] \in Goroutine
          BY <1>0 DEF Goroutine
        <4>2. [Waiting EXCEPT !.at = "resolving"].at = "resolving"
          BY <1>0 DEF Goroutine
        <4>. QED  BY <3>1, <4>1, <4>2 DEF AcquireSemaphore
      <3>2. CASE ResolveDigest(w, r)
        <4>. DEFINE d == digestOf[r]
                    next == [at |-> "reading", digest |-> d, layer |-> Layers]
        <4>1. d \in Digest
          BY DEF ImagesTypeOK
        <4>2. next \in Goroutine
          BY <4>1 DEF Goroutine
        <4>. QED  BY <1>0, <3>2, <4>1, <4>2 DEF ResolveDigest
      <3>. QED  BY <1>4, <3>1, <3>2
    <2>2. UNCHANGED <<digestOf, cache, batch, unread>> /\ readErrors' \in 0..MaxReadErrors
      BY <1>4 DEF AcquireSemaphore, ResolveDigest, Registry, ReadFails, ImagesTypeOK
    <2>3. /\ detection' \in [Worker -> [ImageRef -> Goroutine]]
          /\ \A v \in Worker, q \in ImageRef :
               v # w \/ q # r => detection'[v][q] = detection[v][q]
          /\ detection'[w][r].at = "reading" =>
               detection'[w][r].digest \in Digest /\ detection'[w][r].layer = Layers
      BY <2>1, OneGoroutineMoves
    <2>4. ImagesTypeOK'
      BY <2>2, <2>3 DEF ImagesTypeOK, Goroutine
    <2>5. PassedLayers'
      BY <2>2, <2>3 DEF PassedLayers
    <2>. QED  BY <2>2, <2>4, <2>5 DEF CacheRight
  <1>5. ASSUME NEW w \in Worker, NEW r \in ImageRef, ReadLayer(w, r) PROVE CacheInv'
    <2>. DEFINE g == detection[w][r]
                d == g.digest
                l == g.layer
    <2>1. /\ g \in Goroutine /\ g.at = "reading" /\ d \in Digest /\ l \in 0..Layers
          /\ d \in unread \/ \A m \in OsRelease[d] : m <= l
      BY <1>0, <1>5 DEF ReadLayer, At, PassedLayers, Goroutine
    <2>2. ASSUME NEW result \in 0..Layers, result = OsOf(d) \/ d \in unread,
                 cache' = [cache EXCEPT ![d] = result], Becomes(w, r, Ended),
                 UNCHANGED <<digestOf, batch, unread, readErrors>>
          PROVE  CacheInv'
      <3>1. /\ detection' \in [Worker -> [ImageRef -> Goroutine]]
            /\ detection'[w][r].at = "ended"
            /\ \A v \in Worker, q \in ImageRef :
                 v # w \/ q # r => detection'[v][q] = detection[v][q]
        BY <1>0, <2>2, OneGoroutineMoves
      <3>2. cache' \in [Digest -> NotCached..Layers]
        <4>1. result \in NotCached..Layers
          BY <2>2 DEF NotCached
        <4>. QED  BY <2>2, <4>1 DEF ImagesTypeOK
      <3>3. ImagesTypeOK'
        BY <2>2, <3>1, <3>2 DEF ImagesTypeOK, Goroutine
      <3>4. PassedLayers'
        BY <2>2, <3>1 DEF PassedLayers
      <3>5. CacheRight'
        BY <2>1, <2>2 DEF CacheRight, OsOf, ImagesTypeOK
      <3>. QED  BY <3>3, <3>4, <3>5
    <2>3. ASSUME l > 0, Becomes(w, r, [g EXCEPT !.layer = l - 1]),
                 d \in unread' \/ l \notin OsRelease[d],
                 unread \subseteq unread', unread' \subseteq Digest,
                 readErrors' \in 0..MaxReadErrors,
                 UNCHANGED <<digestOf, batch, cache>>
          PROVE  CacheInv'
      <3>. DEFINE next == [g EXCEPT !.layer = l - 1]
      <3>1. next \in Goroutine /\ next.digest = d /\ next.layer = l - 1
        BY <2>1, <2>3 DEF Goroutine
      <3>2. /\ detection' \in [Worker -> [ImageRef -> Goroutine]]
            /\ detection'[w][r] = next
            /\ \A v \in Worker, q \in ImageRef :
                 v # w \/ q # r => detection'[v][q] = detection[v][q]
        BY <2>3, <3>1, OneGoroutineMoves
      <3>3. ImagesTypeOK'
        BY <2>3, <3>2 DEF ImagesTypeOK, Goroutine
      <3>4. d \in unread' \/ \A m \in OsRelease[d] : m <= l - 1
        BY <2>1, <2>3
      <3>. HIDE DEF next
      <3>5. PassedLayers'
        BY <2>1, <2>3, <3>1, <3>2, <3>4 DEF PassedLayers
      <3>. QED  BY <2>3, <3>3, <3>5 DEF CacheRight, OsOf
    <2>4. CASE l = 0 /\ UNCHANGED <<unread, readErrors>>
               /\ cache' = [cache EXCEPT ![CacheKey(w, r)] = Empty] /\ Becomes(w, r, Ended)
      <3>1. Empty \in 0..Layers /\ (Empty = OsOf(d) \/ d \in unread)
        BY <2>1, <2>4 DEF OsOf, Empty
      <3>. QED  BY <1>5, <2>2, <2>4, <3>1 DEF CacheKey, ReadLayer, Registry
    <2>5. CASE l \in OsRelease[d] /\ UNCHANGED <<unread, readErrors>>
               /\ cache' = [cache EXCEPT ![CacheKey(w, r)] = l] /\ Becomes(w, r, Ended)
      <3>1. l = OsOf(d) \/ d \in unread
        <4>. SUFFICES ASSUME d \notin unread PROVE l = OsOf(d)
          OBVIOUS
        <4>1. \A m \in OsRelease[d] : m <= l /\ m \in Int
          BY <2>1
        <4>. QED  BY <2>1, <2>5, <4>1 DEF OsOf
      <3>. QED  BY <1>5, <2>1, <2>2, <2>5, <3>1 DEF CacheKey, ReadLayer, Registry
    <2>6. CASE l > 0 /\ l \notin OsRelease[d] /\ UNCHANGED <<unread, readErrors, cache>>
               /\ Becomes(w, r, [g EXCEPT !.layer = l - 1])
      BY <1>5, <2>3, <2>6 DEF ReadLayer, Registry, ImagesTypeOK
    <2>7. CASE l > 0 /\ ReadFails /\ unread' = unread \cup {d} /\ UNCHANGED cache
               /\ Becomes(w, r, [g EXCEPT !.layer = l - 1])
      <3>1. readErrors' \in 0..MaxReadErrors /\ unread' \subseteq Digest
        BY <2>1, <2>7 DEF ReadFails, ImagesTypeOK
      <3>. QED  BY <1>5, <2>3, <2>7, <3>1 DEF ReadLayer, Registry
    <2>. QED  BY <1>5, <2>4, <2>5, <2>6, <2>7 DEF ReadLayer
  <1>. QED  BY <1>1, <1>2, <1>3, <1>4, <1>5 DEF ImagesNext, DetectorStep

\* The semaphore of a batch never has more holders than places, and a worker without a
\* batch has no goroutine left behind.
PlacesKept ==
  \A w \in Worker :
    /\ IsFiniteSet(Holders(w)) /\ Cardinality(Holders(w)) <= MaxDetections
    /\ batch[w] = "idle" => \A r \in ImageRef : At(w, r) = "ended"

\* A goroutine goes from the semaphore to the registry and from layer to layer, down.
\* Only the next batch of its worker may start another for the reference.
OnlyDown ==
  \A w \in Worker, r \in ImageRef :
    LET old == detection[w][r]
        new == detection'[w][r]
    IN \/ new = old
       \/ old.at = "waiting" /\ new.at = "resolving"
       \/ old.at = "resolving" /\ new.at \in {"reading", "ended"}
       \/ old.at = "reading" /\ new.at = "reading" /\ new.layer < old.layer
       \/ old.at = "reading" /\ new.at = "ended"
       \/ old.at = "ended" /\ new.at \in {"waiting", "ended"} /\ batch[w] = "idle"

LEMMA PlacesStart == ImagesInit => PlacesKept
  <1>. SUFFICES ASSUME ImagesInit PROVE PlacesKept
    OBVIOUS
  <1>1. \A w \in Worker, r \in ImageRef : At(w, r) = "ended"
    BY DEF ImagesInit, At, Ended, Waiting
  <1>2. \A w \in Worker : Holders(w) = {}
    BY <1>1 DEF Holders
  <1>3. IsFiniteSet({}) /\ Cardinality({}) = 0
    BY FS_EmptySet
  <1>. QED  BY <1>1, <1>2, <1>3, ImagesAssumption DEF PlacesKept

\* What one step of a goroutine does to its worker's semaphore.
LEMMA GoroutineStep ==
  ASSUME CacheInv, PlacesKept, NEW w \in Worker, NEW r \in ImageRef,
         AcquireSemaphore(w, r) \/ ResolveDigest(w, r) \/ ReadLayer(w, r)
  PROVE  PlacesKept' /\ OnlyDown
  <1>. USE ImagesAssumption DEF CacheInv
  <1>0. /\ detection \in [Worker -> [ImageRef -> Goroutine]]
        /\ detection[w][r] \in Goroutine
        /\ Waiting \in Goroutine /\ Ended \in Goroutine
        /\ Waiting.at = "waiting" /\ Ended.at = "ended"
    BY DEF ImagesTypeOK, Goroutine, Ended, Waiting, Empty
  <1>. DEFINE old == detection[w][r]
  <1>1. PICK new :
          /\ Becomes(w, r, new)
          /\ \/ /\ old.at = "waiting" /\ new.at = "resolving"
                /\ Cardinality(Holders(w)) < MaxDetections
             \/ old.at = "resolving" /\ new.at \in {"reading", "ended"}
             \/ old.at = "reading" /\ new.at = "reading" /\ new.layer < old.layer
             \/ old.at = "reading" /\ new.at = "ended"
    <2>1. CASE AcquireSemaphore(w, r)
      <3>1. [Waiting EXCEPT !.at = "resolving"].at = "resolving"
        BY <1>0 DEF Goroutine
      <3>. QED  BY <2>1, <3>1 DEF AcquireSemaphore, At
    <2>2. CASE ResolveDigest(w, r)
      BY <1>0, <2>2 DEF ResolveDigest, At
    <2>3. CASE ReadLayer(w, r)
      <3>. DEFINE next == [old EXCEPT !.layer = old.layer - 1]
      <3>1. old.at = "reading" => next.at = "reading" /\ next.layer < old.layer
        BY <1>0 DEF Goroutine
      <3>2. old.at = "reading" /\ (Becomes(w, r, Ended) \/ Becomes(w, r, next))
        BY <2>3 DEF ReadLayer, At
      <3>. HIDE DEF next
      <3>. QED  BY <1>0, <3>1, <3>2
    <2>. QED  BY <1>0, <2>1, <2>2, <2>3
  <1>2. /\ detection'[w][r] = new
        /\ \A v \in Worker, q \in ImageRef :
             v # w \/ q # r => detection'[v][q] = detection[v][q]
        /\ UNCHANGED batch
    BY <1>0, <1>1 DEF Becomes, AcquireSemaphore, ResolveDigest, ReadLayer
  <1>3. OnlyDown
    BY <1>1, <1>2 DEF OnlyDown
  <1>4. \A v \in Worker \ {w} : Holders(v)' = Holders(v)
    BY <1>2 DEF Holders, At
  <1>5. IsFiniteSet(Holders(w)') /\ Cardinality(Holders(w)') <= MaxDetections
    <2>0. IsFiniteSet(Holders(w)) /\ Cardinality(Holders(w)) <= MaxDetections
          /\ Cardinality(Holders(w)) \in Nat
      BY FS_CardinalityType DEF PlacesKept
    <2>1. CASE old.at = "waiting"
      <3>1. Holders(w)' = Holders(w) \cup {r} /\ r \notin Holders(w)
        BY <1>1, <1>2, <2>1 DEF Holders, At
      <3>2. Cardinality(Holders(w)) < MaxDetections
        BY <1>1, <2>1
      <3>3. /\ IsFiniteSet(Holders(w) \cup {r})
            /\ Cardinality(Holders(w) \cup {r}) = Cardinality(Holders(w)) + 1
        BY <2>0, <3>1, FS_AddElement
      <3>4. Cardinality(Holders(w) \cup {r}) <= MaxDetections
        BY <2>0, <3>2, <3>3
      <3>. QED  BY <3>1, <3>3, <3>4
    <2>2. CASE old.at # "waiting"
      <3>1. Holders(w)' \subseteq Holders(w)
        BY <1>1, <1>2, <2>2 DEF Holders, At
      <3>2. /\ IsFiniteSet(Holders(w)')
            /\ Cardinality(Holders(w)') \in Nat
            /\ Cardinality(Holders(w)') <= Cardinality(Holders(w))
        <4>1. \A S : S \subseteq Holders(w) =>
                     IsFiniteSet(S) /\ Cardinality(S) <= Cardinality(Holders(w))
          BY <2>0, FS_Subset, FS_CardinalityType
        <4>2. /\ IsFiniteSet(Holders(w)')
              /\ Cardinality(Holders(w)') <= Cardinality(Holders(w))
          BY <3>1, <4>1
        <4>. QED  BY <4>2, FS_CardinalityType
      <3>. QED  BY <2>0, <3>2
    <2>. QED  BY <2>1, <2>2
  <1>6. \A v \in Worker : batch'[v] = "idle" => \A q \in ImageRef : At(v, q)' = "ended"
    BY <1>1, <1>2 DEF PlacesKept, At
  <1>7. PlacesKept'
    BY <1>4, <1>5, <1>6 DEF PlacesKept
  <1>. QED  BY <1>3, <1>7

LEMMA PlacesStep ==
  ASSUME CacheInv, PlacesKept, ImagesNext
  PROVE  PlacesKept' /\ OnlyDown
  <1>. USE ImagesAssumption DEF CacheInv
  <1>0. /\ detection \in [Worker -> [ImageRef -> Goroutine]]
        /\ Waiting.at = "waiting" /\ Ended.at = "ended"
    BY DEF ImagesTypeOK, Goroutine, Ended, Waiting
  <1>1. ASSUME NEW w \in Worker, Enrich(w) PROVE PlacesKept' /\ OnlyDown
    <2>1. PICK refs \in SUBSET ImageRef :
            detection' = [detection EXCEPT ![w] =
                            [r \in ImageRef |-> IF r \in refs THEN Waiting ELSE Ended]]
      BY <1>1 DEF Enrich
    <2>2. /\ \A r \in ImageRef :
               detection'[w][r] = Waiting \/ detection'[w][r] = Ended
          /\ \A v \in Worker \ {w}, r \in ImageRef : detection'[v][r] = detection[v][r]
      BY <1>0, <2>1
    <2>3. /\ batch[w] = "idle" /\ batch'[w] = "detecting"
          /\ \A v \in Worker \ {w} : batch'[v] = batch[v]
      BY <1>1 DEF Enrich, ImagesTypeOK
    <2>4. Holders(w)' = {} /\ \A v \in Worker \ {w} : Holders(v)' = Holders(v)
      BY <1>0, <2>2 DEF Holders, At
    <2>5. PlacesKept'
      BY <2>2, <2>3, <2>4, FS_EmptySet DEF PlacesKept, At
    <2>6. \A r \in ImageRef : detection[w][r] = Ended \/ detection[w][r].at = "ended"
      BY <2>3 DEF PlacesKept, At
    <2>7. OnlyDown
      BY <1>0, <2>2, <2>3, <2>6 DEF OnlyDown
    <2>. QED  BY <2>5, <2>7
  <1>2. ASSUME NEW w \in Worker, BatchReturns(w) PROVE PlacesKept' /\ OnlyDown
    <2>1. /\ UNCHANGED detection
          /\ \A r \in ImageRef : At(w, r) = "ended"
          /\ \A v \in Worker \ {w} : batch'[v] = batch[v]
      BY <1>2 DEF BatchReturns, ImagesTypeOK
    <2>. QED  BY <2>1 DEF PlacesKept, OnlyDown, Holders, At
  <1>3. ASSUME NEW r \in ImageRef, PushImage(r) PROVE PlacesKept' /\ OnlyDown
    BY <1>3 DEF PushImage, PlacesKept, OnlyDown, Holders, At
  <1>. QED  BY <1>1, <1>2, <1>3, GoroutineStep DEF ImagesNext, DetectorStep

-----------------------------------------------------------------------------
(* The provisioning of the integration and of the default blueprints. *)

\* The integration is missing while it is recreated; an attempt of the poll is left.
Recreating ==
  /\ step = "recreate" => config = NotThere
  /\ step \in {"get", "create", "delete", "recreate", "poll"} => attempts < RetryLimit

CreationStage == {"bare", "relations", "full"}

\* What was created is the exporter's; a stage has each blueprint's task, and the patches
\* begin when all were created.
CreatedIsOurs ==
  /\ \A b \in created : blueprint[b] \in CreationStage
  /\ step \in CreationStage => \A b \in Blueprint : task[b] # "none"
  /\ step = "bare" => \A b \in Blueprint : task[b] = "done" => b \in created
  /\ step \in {"relations", "full"} => created = Blueprint
  /\ step = "full" =>
       \A b \in Blueprint : task[b] = "done" => blueprint[b] = "full"

AllFull == \A b \in Blueprint : blueprint[b] = "full"
NotOurs(b) == blueprint[b] \in {"absent", "theirs"}

\* Nothing of the exporter's is there that it does not know of, or all of it is.
KnowsItsOwn ==
  ~lostAnswers =>
    CASE step \in {"bare", "rollback"} ->
           \/ AllFull /\ created = {}
           \/ \A b \in Blueprint \ created : NotOurs(b)
      [] step \in {"relations", "full"} -> TRUE
      [] OTHER -> AllFull \/ \A b \in Blueprint : NotOurs(b)

ProvisioningInv ==
  /\ ProvisioningTypeOK /\ Recreating /\ UserConfigKept
  /\ CreatedIsOurs /\ KnowsItsOwn

LEMMA ProvisioningStart == ProvisioningInit => ProvisioningInv
  <1>. SUFFICES ASSUME ProvisioningInit PROVE ProvisioningInv
    OBVIOUS
  <1>. USE DEF ProvisioningInit
  <1>1. ProvisioningTypeOK
    <2>1. /\ 0 \in 0..MaxEdits /\ 0 \in 0..RetryLimit /\ 1 \in 1..MaxStarts
          /\ 0 \in 0..MaxFaults /\ NoConfig \in Config
      BY ProvisioningAssumption DEF Config, NoConfig
    <2>. QED  BY <2>1 DEF ProvisioningTypeOK, Content
  <1>2. CreatedIsOurs /\ KnowsItsOwn
    BY DEF CreatedIsOurs, KnowsItsOwn, CreationStage, NotOurs
  <1>3. Recreating /\ UserConfigKept
    BY ProvisioningAssumption DEF Recreating, UserConfigKept
  <1>. QED  BY <1>1, <1>2, <1>3 DEF ProvisioningInv

\* A step that leaves the blueprints alone, and goes nowhere but along the integration.
LEMMA IntegrationStep ==
  ASSUME ProvisioningInv,
         \/ GetIntegration \/ CreateIntegration \/ DeleteIntegration
         \/ RecreateIntegration \/ PollIntegration \/ PatchIntegration
  PROVE  /\ UNCHANGED <<blueprint, task, created, lostAnswers>>
         /\ step \notin CreationStage \cup {"rollback"}
         /\ step' \notin CreationStage \cup {"rollback"}
         /\ faults' \in 0..MaxFaults
         /\ UNCHANGED <<options, edit, starts>>
  <1>. USE ProvisioningAssumption DEF ProvisioningInv, CreationStage, Local, NoTasks,
           PortKeeps, Blueprints, Exit, Fault, ProvisioningTypeOK
  <1>1. CASE GetIntegration
    BY <1>1 DEF GetIntegration
  <1>2. CASE CreateIntegration
    BY <1>2 DEF CreateIntegration, Create, AfterIntegration
  <1>3. CASE DeleteIntegration
    BY <1>3 DEF DeleteIntegration
  <1>4. CASE RecreateIntegration
    BY <1>4 DEF RecreateIntegration, Create, AfterIntegration
  <1>5. CASE PollIntegration
    BY <1>5 DEF PollIntegration
  <1>6. CASE PatchIntegration
    BY <1>6 DEF PatchIntegration, AfterIntegration
  <1>. QED  BY <1>1, <1>2, <1>3, <1>4, <1>5, <1>6

LEMMA BlueprintsKept ==
  ASSUME ProvisioningInv, UNCHANGED <<blueprint, task, created, lostAnswers>>,
         step \notin CreationStage \cup {"rollback"},
         step' \notin CreationStage \cup {"rollback"}
  PROVE  CreatedIsOurs' /\ KnowsItsOwn'
  BY DEF ProvisioningInv, CreatedIsOurs, KnowsItsOwn, CreationStage, AllFull, NotOurs

\* The steps of the integration, and what they make of its configuration.
LEMMA ConfigStep ==
  ASSUME ProvisioningInv,
         \/ GetIntegration \/ CreateIntegration \/ DeleteIntegration
         \/ RecreateIntegration \/ PollIntegration \/ PatchIntegration
  PROVE  ProvisioningInv'
  <1>0. /\ CreatedIsOurs' /\ KnowsItsOwn'
        /\ UNCHANGED <<options, edit, starts, blueprint, task, created, lostAnswers>>
        /\ faults' \in 0..MaxFaults
    BY IntegrationStep, BlueprintsKept
  <1>. USE ProvisioningAssumption
       DEF ProvisioningInv, Local, NoTasks, PortKeeps, Blueprints, Exit
  <1>1. /\ options \in [byPort : BOOLEAN, overwrite : BOOLEAN, kafka : BOOLEAN]
        /\ config \in Config \cup {NotThere} /\ edit \in 0..MaxEdits
        /\ known \in Config /\ attempts \in 0..RetryLimit
        /\ listensTo \in {"POLLING", "KAFKA"}
        /\ {NoConfig, OwnConfig, Defaults} \subseteq Config /\ NotThere \notin Config
        /\ \A n \in 1..MaxEdits : n \in Config /\ n # NoConfig /\ n # OwnConfig
        /\ edit # 0 => edit \in 1..MaxEdits
    BY DEF ProvisioningTypeOK, Config, NoConfig, OwnConfig, Defaults, NotThere
  <1>2. SUFFICES /\ config' \in Config \cup {NotThere} /\ known' \in Config
                 /\ attempts' \in 0..RetryLimit /\ listensTo' \in {"POLLING", "KAFKA"}
                 /\ step' \in {"get", "create", "delete", "recreate", "poll", "patch",
                               "check", "up", "exited"}
                 /\ interrupted' \in BOOLEAN /\ overtaken' \in BOOLEAN
                 /\ Recreating' /\ UserConfigKept'
    BY <1>0 DEF ProvisioningTypeOK
  <1>3. CASE GetIntegration
    BY <1>0, <1>1, <1>3
       DEF GetIntegration, Recreating, UserConfigKept, ProvisioningTypeOK
  <1>4. NewConfig \in Config /\ ConfigToUse \in Config
    BY <1>1 DEF NewConfig, ConfigToUse
  <1>5. CASE CreateIntegration
    <2>1. 0 < RetryLimit
      OBVIOUS
    <2>. QED  BY <1>0, <1>1, <1>4, <1>5, <2>1
              DEF CreateIntegration, Create, AfterIntegration, Recreating, UserConfigKept,
                  ProvisioningTypeOK, Listener
  <1>6. CASE DeleteIntegration
    BY <1>0, <1>1, <1>6
       DEF DeleteIntegration, Recreating, UserConfigKept, ProvisioningTypeOK
  <1>7. CASE RecreateIntegration
    BY <1>0, <1>1, <1>4, <1>7
       DEF RecreateIntegration, Create, AfterIntegration, Recreating, UserConfigKept,
           ProvisioningTypeOK, ConfigToUse, ShouldOverwriteConfig, Listener
  <1>8. CASE PollIntegration
    BY <1>0, <1>1, <1>8
       DEF PollIntegration, MoreAttempts, Recreating, UserConfigKept, ProvisioningTypeOK
  <1>9. CASE PatchIntegration
    BY <1>0, <1>1, <1>9
       DEF PatchIntegration, AfterIntegration, Recreating, UserConfigKept,
           ProvisioningTypeOK, ShouldOverwriteConfig
  <1>. QED  BY <1>3, <1>5, <1>6, <1>7, <1>8, <1>9

\* The steps of the defaults leave the integration alone.
DefaultsSteps ==
  \/ FindExisting \/ StageEnds \/ RollbackEnds
  \/ \E b \in Blueprint : NewBlueprint(b) \/ PatchBlueprint(b) \/ DeleteBlueprint(b)
                          \/ UserCreatesBlueprint(b)

LEMMA DefaultsTyped ==
  ASSUME ProvisioningInv, DefaultsSteps
  PROVE  ProvisioningTypeOK' /\ Recreating' /\ UserConfigKept'
  <1>. USE ProvisioningAssumption DEF ProvisioningInv, Local, Integration
  <1>0. SUFFICES /\ UNCHANGED <<options, starts, config, listensTo, edit, known, attempts,
                               interrupted, overtaken>>
                 /\ blueprint' \in [Blueprint -> Content]
                 /\ task' \in [Blueprint -> {"none", "pending", "done", "failed"}]
                 /\ created' \subseteq Blueprint /\ faults' \in 0..MaxFaults
                 /\ lostAnswers' \in BOOLEAN
                 /\ step' = step \/ step' \in CreationStage \cup {"rollback", "up"}
                 /\ step # "recreate" \/ step' = step
    BY DEF ProvisioningTypeOK, Recreating, UserConfigKept, CreationStage
  <1>1. /\ blueprint \in [Blueprint -> Content] /\ faults \in 0..MaxFaults
        /\ task \in [Blueprint -> {"none", "pending", "done", "failed"}]
        /\ created \subseteq Blueprint /\ lostAnswers \in BOOLEAN
    BY DEF ProvisioningTypeOK
  <1>2. CASE FindExisting
    BY <1>1, <1>2 DEF FindExisting, AllPending, Fault, CreationStage
  <1>3. CASE StageEnds
    BY <1>1, <1>3 DEF StageEnds, AllPending, CreationStage
  <1>4. CASE RollbackEnds
    BY <1>1, <1>4 DEF RollbackEnds
  <1>5. ASSUME NEW b \in Blueprint, NewBlueprint(b)
        PROVE  /\ UNCHANGED <<options, starts, config, listensTo, edit, known, attempts,
                              interrupted, overtaken, step>>
               /\ blueprint' \in [Blueprint -> Content]
               /\ task' \in [Blueprint -> {"none", "pending", "done", "failed"}]
               /\ created' \subseteq Blueprint /\ faults' \in 0..MaxFaults
               /\ lostAnswers' \in BOOLEAN
    <2>1. /\ UNCHANGED <<options, starts, config, listensTo, edit, known, attempts,
                         interrupted, overtaken, step>>
          /\ lostAnswers' = TRUE \/ UNCHANGED lostAnswers
          /\ created' \subseteq created \cup {b}
          /\ faults' = faults \/ Fault
      BY <1>5 DEF NewBlueprint
    <2>2. task' \in [Blueprint -> {"none", "pending", "done", "failed"}]
      BY <1>1, <1>5 DEF NewBlueprint, Ends
    <2>3. blueprint' \in [Blueprint -> Content]
      <3>1. "bare" \in Content
        BY DEF Content
      <3>2. Holds(b, "bare") \/ UNCHANGED blueprint
        BY <1>5 DEF NewBlueprint
      <3>. QED  BY <1>1, <3>1, <3>2 DEF Holds
    <2>4. faults' \in 0..MaxFaults
      BY <1>1, <2>1 DEF Fault
    <2>. QED  BY <1>1, <2>1, <2>2, <2>3, <2>4
  <1>6. ASSUME NEW b \in Blueprint, PatchBlueprint(b)
        PROVE  /\ UNCHANGED <<options, starts, config, listensTo, edit, known, attempts,
                              interrupted, overtaken, step, created, lostAnswers>>
               /\ blueprint' \in [Blueprint -> Content]
               /\ task' \in [Blueprint -> {"none", "pending", "done", "failed"}]
               /\ faults' \in 0..MaxFaults
    BY <1>1, <1>6 DEF PatchBlueprint, Holds, Ends, Fault, Content
  <1>7. ASSUME NEW b \in Blueprint, DeleteBlueprint(b) \/ UserCreatesBlueprint(b)
        PROVE  /\ UNCHANGED <<options, starts, config, listensTo, edit, known, attempts,
                              interrupted, overtaken, step, task>>
               /\ blueprint' \in [Blueprint -> Content]
               /\ created' \subseteq Blueprint /\ faults' \in 0..MaxFaults
               /\ lostAnswers' \in BOOLEAN
    <2>1. /\ UNCHANGED <<options, starts, config, listensTo, edit, known, attempts,
                         interrupted, overtaken, step, task>>
          /\ lostAnswers' = TRUE \/ UNCHANGED lostAnswers
          /\ created' \subseteq created
          /\ faults' = faults \/ Fault
      BY <1>7 DEF DeleteBlueprint, UserCreatesBlueprint
    <2>2. blueprint' \in [Blueprint -> Content]
      <3>1. "absent" \in Content /\ "theirs" \in Content
        BY DEF Content
      <3>2. Holds(b, "absent") \/ Holds(b, "theirs") \/ UNCHANGED blueprint
        BY <1>7 DEF DeleteBlueprint, UserCreatesBlueprint
      <3>. QED  BY <1>1, <3>1, <3>2 DEF Holds
    <2>3. faults' \in 0..MaxFaults
      BY <1>1, <2>1 DEF Fault
    <2>. QED  BY <1>1, <2>1, <2>2, <2>3
  <1>. QED  BY <1>1, <1>2, <1>3, <1>4, <1>5, <1>6, <1>7 DEF DefaultsSteps

LEMMA DefaultsStep ==
  ASSUME ProvisioningInv, DefaultsSteps
  PROVE  ProvisioningInv'
  <1>. USE ProvisioningAssumption DEF ProvisioningInv, CreationStage, NotOurs, AllFull
  <1>0. SUFFICES CreatedIsOurs' /\ KnowsItsOwn'
    BY DefaultsTyped
  <1>1. /\ blueprint \in [Blueprint -> Content] /\ created \subseteq Blueprint
        /\ task \in [Blueprint -> {"none", "pending", "done", "failed"}]
        /\ lostAnswers \in BOOLEAN
    BY DEF ProvisioningTypeOK
  <1>2. CASE FindExisting
    <2>1. step = "check" /\ UNCHANGED <<blueprint, lostAnswers>>
      BY <1>2 DEF FindExisting
    <2>2. CASE step' = "bare"
      <3>1. created' = {} /\ \A b \in Blueprint : task'[b] = "pending"
        BY <1>2, <2>2 DEF FindExisting, AllPending
      <3>. QED  BY <2>1, <2>2, <3>1 DEF CreatedIsOurs, KnowsItsOwn
    <2>3. CASE step' = "up" /\ UNCHANGED created
      BY <2>1, <2>3 DEF CreatedIsOurs, KnowsItsOwn
    <2>. QED  BY <1>2, <2>2, <2>3 DEF FindExisting
  <1>3. CASE StageEnds
    <2>1. /\ step \in CreationStage /\ UNCHANGED <<blueprint, created, lostAnswers>>
          /\ \A b \in Blueprint : task[b] # "pending"
      BY <1>3 DEF StageEnds
    <2>2. CASE StageFailed
      <3>1. step' = "rollback"
        BY <1>3, <2>2 DEF StageEnds
      <3>. QED  BY <2>1, <3>1 DEF CreatedIsOurs, KnowsItsOwn
    <2>3. CASE ~StageFailed
      <3>1. \A b \in Blueprint : task[b] = "done"
        BY <1>1, <2>1, <2>3 DEF StageFailed, CreatedIsOurs
      <3>2. CASE step = "full"
        <4>1. step' = "up"
          BY <1>3, <2>3, <3>2 DEF StageEnds
        <4>. QED  BY <2>1, <3>1, <3>2, <4>1 DEF CreatedIsOurs, KnowsItsOwn
      <3>3. CASE step # "full"
        <4>1. /\ step' \in {"relations", "full"}
              /\ \A b \in Blueprint : task'[b] = "pending"
          BY <1>3, <2>1, <2>3, <3>3 DEF StageEnds, AllPending
        <4>2. created = Blueprint
          BY <1>1, <2>1, <3>1, <3>3 DEF CreatedIsOurs
        <4>. QED  BY <2>1, <4>1, <4>2 DEF CreatedIsOurs, KnowsItsOwn
      <3>. QED  BY <3>2, <3>3
    <2>. QED  BY <2>2, <2>3
  <1>4. CASE RollbackEnds
    <2>1. /\ step = "rollback" /\ step' = "up" /\ created = {}
          /\ UNCHANGED <<blueprint, created, lostAnswers>>
      BY <1>4 DEF RollbackEnds, BlueprintsToRollback
    <2>. QED  BY <2>1 DEF CreatedIsOurs, KnowsItsOwn
  <1>5. ASSUME NEW b \in Blueprint, NewBlueprint(b) PROVE CreatedIsOurs' /\ KnowsItsOwn'
    <2>1. /\ step = "bare" /\ UNCHANGED step
          /\ \A c \in Blueprint \ {b} : blueprint'[c] = blueprint[c] /\ task'[c] = task[c]
          /\ task'[b] \in {"done", "failed"}
      BY <1>1, <1>5 DEF NewBlueprint, Holds, Ends
    <2>2. \/ /\ blueprint[b] = "absent" /\ blueprint'[b] = "bare"
             /\ created' = created \cup {b} /\ UNCHANGED lostAnswers
          \/ /\ blueprint[b] = "absent" /\ blueprint'[b] = "bare" /\ task'[b] = "failed"
             /\ UNCHANGED created /\ lostAnswers' = TRUE
          \/ /\ task'[b] = "failed" /\ UNCHANGED <<blueprint, created, lostAnswers>>
      BY <1>1, <1>5 DEF NewBlueprint, Holds, Ends
    <2>3. CreatedIsOurs'
      BY <1>1, <2>1, <2>2 DEF CreatedIsOurs
    <2>4. KnowsItsOwn'
      BY <1>1, <2>1, <2>2 DEF KnowsItsOwn
    <2>. QED  BY <2>3, <2>4
  <1>6. ASSUME NEW b \in Blueprint, PatchBlueprint(b) PROVE CreatedIsOurs' /\ KnowsItsOwn'
    <2>1. /\ step \in {"relations", "full"} /\ UNCHANGED <<step, created, lostAnswers>>
          /\ \A c \in Blueprint \ {b} : blueprint'[c] = blueprint[c] /\ task'[c] = task[c]
          /\ \/ task'[b] = "done" /\ blueprint'[b] = step
             \/ task'[b] = "failed" /\ blueprint'[b] = blueprint[b]
      BY <1>1, <1>6 DEF PatchBlueprint, Holds, Ends
    <2>. QED  BY <1>1, <2>1 DEF CreatedIsOurs, KnowsItsOwn
  <1>7. ASSUME NEW b \in Blueprint, DeleteBlueprint(b) PROVE CreatedIsOurs' /\ KnowsItsOwn'
    <2>1. /\ step = "rollback" /\ UNCHANGED <<step, task>> /\ b \in created
          /\ created' = created \ {b}
          /\ \A c \in Blueprint \ {b} : blueprint'[c] = blueprint[c]
          /\ \/ blueprint'[b] = "absent" /\ UNCHANGED lostAnswers
             \/ lostAnswers' = TRUE
      BY <1>1, <1>7 DEF DeleteBlueprint, Holds, BlueprintsToRollback
    <2>. QED  BY <1>1, <2>1 DEF CreatedIsOurs, KnowsItsOwn
  <1>8. ASSUME NEW b \in Blueprint, UserCreatesBlueprint(b)
        PROVE  CreatedIsOurs' /\ KnowsItsOwn'
    <2>1. /\ UNCHANGED <<step, task, created, lostAnswers>>
          /\ blueprint[b] = "absent" /\ blueprint'[b] = "theirs"
          /\ \A c \in Blueprint \ {b} : blueprint'[c] = blueprint[c]
      BY <1>1, <1>8 DEF UserCreatesBlueprint, Holds, Integration
    <2>. QED  BY <1>1, <2>1 DEF CreatedIsOurs, KnowsItsOwn
  <1>. QED  BY <1>2, <1>3, <1>4, <1>5, <1>6, <1>7, <1>8 DEF DefaultsSteps

LEMMA ProvisioningStep ==
  ASSUME ProvisioningInv, ProvisioningNext
  PROVE  ProvisioningInv'
  <1>. USE ProvisioningAssumption DEF ProvisioningInv
  <1>1. CASE InitStep \/ \E b \in Blueprint : UserCreatesBlueprint(b)
    BY <1>1, ConfigStep, DefaultsStep DEF InitStep, DefaultsSteps
  <1>2. CASE PortProvisions
    <2>. USE <1>2 DEF PortProvisions, Local, NoTasks
    <2>1. Defaults \in Config
      BY DEF Defaults, Config, NoConfig
    <2>2. ProvisioningTypeOK'
      BY <2>1 DEF ProvisioningTypeOK
    <2>3. Recreating'
      BY DEF Recreating, NotThere, NoConfig, OwnConfig
    <2>4. UserConfigKept'
      BY DEF UserConfigKept, Recreating, ProvisioningTypeOK, NotThere, NoConfig, OwnConfig
    <2>. QED  BY <2>2, <2>3, <2>4 DEF CreatedIsOurs, KnowsItsOwn, AllFull, NotOurs
  <1>3. CASE EditConfig
    <2>. USE <1>3 DEF EditConfig, Local, NoTasks
    <2>1. edit + 1 \in Config /\ edit + 1 \in 0..MaxEdits
      BY DEF ProvisioningTypeOK, Config, NoConfig
    <2>2. ProvisioningTypeOK'
      BY <2>1 DEF ProvisioningTypeOK
    <2>3. Recreating' /\ UserConfigKept'
      BY DEF Recreating, UserConfigKept
    <2>. QED  BY <2>2, <2>3 DEF CreatedIsOurs, KnowsItsOwn, AllFull, NotOurs
  <1>4. CASE StartAgain
    <2>. USE <1>4 DEF StartAgain, Fault
    <2>1. starts' \in 1..MaxStarts /\ faults' \in 0..MaxFaults /\ NoConfig \in Config
          /\ 0 \in 0..RetryLimit /\ 0 < RetryLimit
      BY DEF ProvisioningTypeOK, Config, NoConfig
    <2>2. ProvisioningTypeOK'
      BY <2>1 DEF ProvisioningTypeOK
    <2>3. Recreating' /\ UserConfigKept'
      BY <2>1 DEF Recreating, UserConfigKept
    <2>. QED  BY <2>2, <2>3 DEF CreatedIsOurs, KnowsItsOwn, AllFull, NotOurs, CreationStage
  <1>. QED  BY <1>1, <1>2, <1>3, <1>4 DEF ProvisioningNext

LEMMA ProvisioningInvImplies == ProvisioningInv => UserConfigKept /\ DefaultsAllOrNothing
  BY DEF ProvisioningInv, KnowsItsOwn, DefaultsAllOrNothing, AllFull, NotOurs

\* The only steps that write a blueprint that is there are of the exporter's own.
LEMMA TheirsStay ==
  ASSUME ProvisioningInv, ProvisioningNext
  PROVE  \A b \in Blueprint : blueprint[b] = "theirs" => blueprint'[b] = "theirs"
  <1>. USE DEF ProvisioningInv
  <1>1. /\ blueprint \in [Blueprint -> Content] /\ created \subseteq Blueprint
        /\ \A b \in created : blueprint[b] # "theirs"
    BY DEF ProvisioningTypeOK, CreatedIsOurs, CreationStage
  <1>2. CASE PortProvisions \/ EditConfig \/ StartAgain
    BY <1>2 DEF PortProvisions, EditConfig, StartAgain, NoTasks
  <1>3. CASE \/ GetIntegration \/ CreateIntegration \/ DeleteIntegration
             \/ RecreateIntegration \/ PollIntegration \/ PatchIntegration
    BY <1>3, IntegrationStep
  <1>4. CASE FindExisting \/ StageEnds \/ RollbackEnds
    BY <1>4 DEF FindExisting, StageEnds, RollbackEnds
  <1>5. ASSUME NEW b \in Blueprint, NewBlueprint(b) \/ UserCreatesBlueprint(b)
        PROVE  \A c \in Blueprint : blueprint[c] = "theirs" => blueprint'[c] = "theirs"
    BY <1>1, <1>5 DEF NewBlueprint, UserCreatesBlueprint, Holds
  <1>6. ASSUME NEW b \in Blueprint, PatchBlueprint(b) \/ DeleteBlueprint(b)
        PROVE  \A c \in Blueprint : blueprint[c] = "theirs" => blueprint'[c] = "theirs"
    <2>1. b \in created
      BY <1>6 DEF PatchBlueprint, DeleteBlueprint, BlueprintsToRollback, CreatedIsOurs
    <2>. QED  BY <1>1, <1>6, <2>1 DEF PatchBlueprint, DeleteBlueprint, Holds
  <1>. QED  BY <1>2, <1>3, <1>4, <1>5, <1>6 DEF ProvisioningNext, InitStep

-----------------------------------------------------------------------------
(* The discovery of custom resource definitions. *)

\* A definition is handled once, and what is written is of one that was converted.
CrdProgress ==
  /\ \A c \in Crd : crds[c] # 0 => c \notin Kinds
  /\ unconverted \subseteq Kinds
  /\ Working => current.crd \in Converted /\ current.version = kinds[current.crd]
  /\ ~Working => actionsLeft = {}

\* A blueprint is of a definition with its name, and so are its actions.
OfTheirName ==
  /\ \A s \in Singular : schema[s].crd \in Crd => named[schema[s].crd] = s
  /\ \A s \in Singular, o \in Operation :
       action[s][o].crd \in Crd => named[action[s][o].crd] = s

\* The action is still to come.
Awaited(c, o) == Working /\ named[current.crd] = named[c] /\ o \in actionsLeft

\* What a discovery without failures has written for the kinds it added and converted.
Reflected ==
  refusals = 0 =>
    /\ Working => schema[named[current.crd]] = current
    /\ \A c \in Converted :
         /\ schema[named[c]].crd \in Converted
         /\ schema[named[c]].version = kinds[schema[named[c]].crd]
         /\ \A o \in Operation :
              /\ action[named[c]][o] # Absent \/ Awaited(c, o)
              /\ overwriteCRDsActions =>
                   action[named[c]][o] \in {schema[named[c]], Edited} \/ Awaited(c, o)

CrdInv == CrdTypeOK /\ CrdProgress /\ OfTheirName /\ Reflected

Schemas == [crd : Crd \cup {"none"}, version : 0..MaxVersion]
Actions == [crd : Crd, version : 0..MaxVersion] \cup {Absent, Edited}

LEMMA CrdStart == CrdInit => CrdInv
  <1>. SUFFICES ASSUME CrdInit PROVE CrdInv
    OBVIOUS
  <1>. USE CrdDiscoveryAssumption DEF CrdInit
  <1>1. /\ 0 \in 0..MaxVersion /\ 1 \in 0..MaxVersion
        /\ 0 \in 0..MaxDiscoveries /\ 0 \in 0..MaxRefusals
    OBVIOUS
  <1>2. CrdTypeOK
    BY <1>1 DEF CrdTypeOK, NoSchema, Absent
  <1>3. CrdProgress /\ Converted = {}
    BY <1>1 DEF CrdProgress, Working, Kinds, Converted
  <1>4. OfTheirName /\ Reflected
    BY <1>3 DEF OfTheirName, Reflected, NoSchema, Absent, Working
  <1>. QED  BY <1>2, <1>3, <1>4 DEF CrdInv

LEMMA ListCRDsStep ==
  ASSUME CrdInv, ListCRDs
  PROVE  CrdInv'
  <1>. USE CrdDiscoveryAssumption DEF CrdInv
  <1>1. /\ ~Working /\ ~Listed /\ kinds' = [c \in Crd |-> 0] /\ unconverted' = {}
        /\ overwriteCRDsActions' \in BOOLEAN
        /\ UNCHANGED <<current, actionsLeft, schema, action, named, version>>
        /\ \/ crds' = version /\ refusals' = 0
           \/ crds' = crds /\ refusals' = refusals + 1 /\ refusals < MaxRefusals
        /\ discoveries < MaxDiscoveries /\ discoveries' = discoveries + 1
    BY DEF ListCRDs, Cluster, Refused
  <1>2. CrdTypeOK'
    <2>1. 0 \in 0..MaxVersion /\ 0 \in 0..MaxRefusals /\ discoveries' \in 0..MaxDiscoveries
      BY <1>1 DEF CrdTypeOK
    <2>2. crds' \in [Crd -> 0..MaxVersion] /\ refusals' \in 0..MaxRefusals
      BY <1>1, <2>1 DEF CrdTypeOK
    <2>. QED  BY <1>1, <2>1, <2>2 DEF CrdTypeOK
  <1>3. Kinds' = {} /\ Converted' = {} /\ ~Working'
    BY <1>1 DEF Kinds, Converted, Working
  <1>4. CrdProgress'
    BY <1>1, <1>3 DEF CrdProgress
  <1>5. OfTheirName' /\ Reflected'
    BY <1>1, <1>3 DEF OfTheirName, Reflected
  <1>. QED  BY <1>2, <1>4, <1>5

\* The conversion fails: the kind stays without a blueprint.
LEMMA UnconvertedStep ==
  ASSUME CrdInv, NEW c \in Crd, ~Working, crds[c] # 0,
         crds' = [crds EXCEPT ![c] = 0], kinds' = [kinds EXCEPT ![c] = crds[c]],
         unconverted' = unconverted \cup {c},
         UNCHANGED <<current, actionsLeft, schema, refusals, action, discoveries, named,
                     overwriteCRDsActions, version>>
  PROVE  CrdInv'
  <1>. USE CrdDiscoveryAssumption DEF CrdInv
  <1>1. /\ crds \in [Crd -> 0..MaxVersion] /\ kinds \in [Crd -> 0..MaxVersion]
        /\ c \notin Kinds
    BY DEF CrdTypeOK, CrdProgress
  <1>2. /\ Converted' = Converted /\ c \notin Converted /\ Kinds' = Kinds \cup {c}
        /\ \A d \in Crd \ {c} : kinds'[d] = kinds[d] /\ crds'[d] = crds[d]
        /\ crds'[c] = 0 /\ Converted \subseteq Crd
    BY <1>1 DEF Kinds, Converted, CrdTypeOK
  <1>3. /\ ~Working' /\ \A k \in Crd, o \in Operation : Awaited(k, o)' = Awaited(k, o)
    BY DEF Working, Awaited
  <1>4. CrdTypeOK'
    BY <1>1 DEF CrdTypeOK
  <1>5. CrdProgress'
    BY <1>2, <1>3 DEF CrdProgress
  <1>6. OfTheirName'
    BY DEF OfTheirName
  <1>7. Reflected'
    BY <1>2, <1>3 DEF Reflected
  <1>. QED  BY <1>4, <1>5, <1>6, <1>7

\* The conversion succeeds: a blueprint with the definition's name, of this version.
LEMMA ConvertedStep ==
  ASSUME CrdInv, NEW c \in Crd, NEW now, now = [crd |-> c, version |-> crds[c]],
         ~Working, crds[c] # 0, current' = now, actionsLeft' = Operation,
         crds' = [crds EXCEPT ![c] = 0], kinds' = [kinds EXCEPT ![c] = crds[c]],
         \/ schema' = [schema EXCEPT ![named[c]] = now] /\ refusals' = refusals
         \/ schema' = schema /\ refusals' = refusals + 1 /\ refusals < MaxRefusals,
         UNCHANGED <<unconverted, action, discoveries, named, overwriteCRDsActions,
                     version>>
  PROVE  CrdInv'
  <1>. USE CrdDiscoveryAssumption DEF CrdInv
  <1>2. /\ crds[c] \in 1..MaxVersion /\ crds \in [Crd -> 0..MaxVersion]
        /\ kinds \in [Crd -> 0..MaxVersion] /\ refusals \in 0..MaxRefusals
        /\ now \in Schemas /\ now.crd = c /\ now.version = crds[c] /\ now # NoSchema
        /\ named \in [Crd -> Singular] /\ schema \in [Singular -> Schemas]
        /\ c \notin Kinds /\ c \notin unconverted
    BY DEF CrdTypeOK, CrdProgress, NoSchema, Schemas
  <1>3. /\ kinds'[c] = crds[c] /\ crds'[c] = 0
        /\ \A d \in Crd \ {c} : kinds'[d] = kinds[d] /\ crds'[d] = crds[d]
        /\ Kinds' = Kinds \cup {c} /\ Converted' = Converted \cup {c}
        /\ Converted \subseteq Crd /\ Working'
    BY <1>2 DEF Kinds, Converted, Working
  <1>4. CrdTypeOK'
    <2>1. crds' \in [Crd -> 0..MaxVersion] /\ kinds' \in [Crd -> 0..MaxVersion]
      BY <1>2
    <2>2. schema' \in [Singular -> Schemas] /\ refusals' \in 0..MaxRefusals
      BY <1>2
    <2>. QED  BY <1>2, <2>1, <2>2 DEF CrdTypeOK, Schemas
  <1>5. CrdProgress'
    BY <1>2, <1>3 DEF CrdProgress
  <1>6. OfTheirName'
    BY <1>2 DEF OfTheirName
  <1>7. Reflected'
    <2>. SUFFICES ASSUME refusals' = 0 PROVE Reflected'
      BY DEF Reflected
    <2>1. refusals = 0 /\ schema' = [schema EXCEPT ![named[c]] = now]
      BY <1>2
    <2>2. schema'[named[c]] = now
      BY <1>2, <2>1
    <2>3. ASSUME NEW k \in Converted'
          PROVE  /\ schema'[named[k]].crd \in Converted'
                 /\ schema'[named[k]].version = kinds'[schema'[named[k]].crd]
                 /\ \A o \in Operation :
                      /\ action[named[k]][o] # Absent \/ Awaited(k, o)'
                      /\ overwriteCRDsActions =>
                           \/ action[named[k]][o] \in {schema'[named[k]], Edited}
                           \/ Awaited(k, o)'
      <3>1. CASE named[k] = named[c]
        <4>1. \A o \in Operation : Awaited(k, o)'
          BY <1>2, <1>3, <3>1 DEF Awaited
        <4>. QED  BY <1>2, <1>3, <2>2, <3>1, <4>1
      <3>2. CASE named[k] # named[c]
        <4>1. k \in Converted /\ named[k] \in Singular /\ ~Working
          BY <1>2, <1>3, <3>2
        <4>2. schema'[named[k]] = schema[named[k]]
          BY <1>2, <2>1, <3>2, <4>1
        <4>3. /\ schema[named[k]].crd \in Converted
              /\ schema[named[k]].version = kinds[schema[named[k]].crd]
              /\ \A o \in Operation :
                   /\ action[named[k]][o] # Absent
                   /\ overwriteCRDsActions =>
                        action[named[k]][o] \in {schema[named[k]], Edited}
          BY <2>1, <4>1 DEF Reflected, Awaited
        <4>4. schema[named[k]].crd # c /\ schema[named[k]].crd \in Crd
          BY <1>2, <1>3, <4>3 DEF Converted
        <4>. QED  BY <1>3, <4>2, <4>3, <4>4
      <3>. QED  BY <3>1, <3>2
    <2>4. schema'[named'[current'.crd]] = current'
      BY <1>2, <2>2
    <2>. QED  BY <2>3, <2>4 DEF Reflected
  <1>. QED  BY <1>4, <1>5, <1>6, <1>7

LEMMA HandleBlueprintStep ==
  ASSUME CrdInv, NEW c \in Crd, HandleBlueprint(c)
  PROVE  CrdInv'
  <1>. USE DEF HandleBlueprint, Cluster, Refused
  <1>1. CASE /\ unconverted' = unconverted \cup {c}
             /\ UNCHANGED <<current, actionsLeft, schema, refusals>>
    BY <1>1, UnconvertedStep
  <1>2. CASE /\ current' = [crd |-> c, version |-> crds[c]] /\ actionsLeft' = Operation
             /\ \/ schema' = [schema EXCEPT ![named[c]] = current'] /\ UNCHANGED refusals
                \/ Refused /\ UNCHANGED schema
             /\ UNCHANGED unconverted
    BY <1>2, ConvertedStep
  <1>. QED  BY <1>1, <1>2

LEMMA HandleActionStep ==
  ASSUME CrdInv, NEW o \in Operation, HandleAction(o)
  PROVE  CrdInv'
  <1>. USE CrdDiscoveryAssumption DEF CrdInv
  <1>. DEFINE c == current.crd
              s == named[c]
  <1>1. /\ Working /\ o \in actionsLeft /\ actionsLeft' = actionsLeft \ {o}
        /\ \/ /\ action' = IF Overwrites(action[s][o])
                           THEN [action EXCEPT ![s] = [action[s] EXCEPT ![o] = current]]
                           ELSE action
              /\ refusals' = refusals
           \/ action' = action /\ refusals' = refusals + 1 /\ refusals < MaxRefusals
        /\ current' = IF actionsLeft' = {} THEN NoSchema ELSE current
        /\ UNCHANGED <<crds, kinds, unconverted, schema, discoveries, named,
                       overwriteCRDsActions, version>>
    BY DEF HandleAction, Refused, Cluster
  <1>2. /\ c \in Crd /\ c \in Converted /\ s \in Singular /\ named \in [Crd -> Singular]
        /\ current.version = kinds[c] /\ c \notin {"none", "absent", "edited"}
        /\ refusals \in 0..MaxRefusals /\ current \in Actions /\ current \in Schemas
        /\ current.crd \in Crd
        /\ action \in [Singular -> [Operation -> Actions]]
    BY <1>1 DEF CrdTypeOK, CrdProgress, Kinds, Converted, Actions, Schemas
  <1>. HIDE DEF c, s
  <1>3. /\ action' \in [Singular -> [Operation -> Actions]]
        /\ \A t \in Singular, q \in Operation :
             t # s \/ q # o => action'[t][q] = action[t][q]
        /\ action'[s][o] \in {action[s][o], current}
    BY <1>1, <1>2
  <1>4. current' = current \/ (current' = NoSchema /\ actionsLeft' = {})
    BY <1>1
  <1>5. CrdTypeOK'
    <2>1. NoSchema \in Schemas
      BY DEF NoSchema, Schemas
    <2>2. current' \in Schemas
      BY <1>2, <1>4, <2>1
    <2>3. actionsLeft' \subseteq Operation /\ refusals' \in 0..MaxRefusals
      BY <1>1 DEF CrdTypeOK
    <2>. QED  BY <1>1, <1>3, <2>2, <2>3 DEF CrdTypeOK, Actions, Schemas
  <1>9. Kinds' = Kinds /\ Converted' = Converted /\ Converted \subseteq Crd
    BY <1>1 DEF Kinds, Converted
  <1>6. CrdProgress'
    BY <1>1, <1>4, <1>9 DEF CrdProgress, Working
  <1>7. OfTheirName'
    <2>1. ASSUME NEW t \in Singular, NEW q \in Operation, action'[t][q].crd \in Crd
          PROVE  named[action'[t][q].crd] = t
      <3>1. CASE t # s \/ q # o
        BY <1>3, <2>1, <3>1 DEF OfTheirName
      <3>2. CASE t = s /\ q = o
        <4>1. CASE action'[t][q] = action[s][o]
          BY <2>1, <3>2, <4>1 DEF OfTheirName
        <4>2. CASE action'[t][q] = current
          BY <3>2, <4>2 DEF s, c
        <4>. QED  BY <1>3, <3>2, <4>1, <4>2
      <3>. QED  BY <3>1, <3>2
    <2>. QED  BY <1>1, <2>1 DEF OfTheirName
  <1>8. Reflected'
    <2>. SUFFICES ASSUME refusals' = 0 PROVE Reflected'
      BY DEF Reflected
    <2>1. /\ refusals = 0
          /\ action' = IF Overwrites(action[s][o])
                       THEN [action EXCEPT ![s] = [action[s] EXCEPT ![o] = current]]
                       ELSE action
      BY <1>1, <1>2
    <2>2. schema[s] = current
      BY <1>1, <2>1 DEF Reflected, s, c
    <2>3. /\ action'[s][o] # Absent
          /\ overwriteCRDsActions => action'[s][o] = current
      <3>1. current # Absent
        BY <1>2 DEF Absent, c
      <3>. QED  BY <1>2, <2>1, <3>1 DEF Overwrites
    <2>4. ASSUME NEW k \in Converted, NEW q \in Operation
          PROVE  /\ action'[named[k]][q] # Absent \/ Awaited(k, q)'
                 /\ overwriteCRDsActions =>
                      \/ action'[named[k]][q] \in {schema[named[k]], Edited}
                      \/ Awaited(k, q)'
      <3>1. CASE named[k] = s /\ q = o
        BY <2>2, <2>3, <3>1
      <3>2. CASE named[k] # s \/ q # o
        <4>1. action'[named[k]][q] = action[named[k]][q]
          BY <1>2, <1>3, <1>9, <3>2
        <4>2. /\ action[named[k]][q] # Absent \/ Awaited(k, q)
              /\ overwriteCRDsActions =>
                   action[named[k]][q] \in {schema[named[k]], Edited} \/ Awaited(k, q)
          BY <2>1 DEF Reflected
        <4>3. Awaited(k, q) => Awaited(k, q)'
          <5>. SUFFICES ASSUME Awaited(k, q) PROVE Awaited(k, q)'
            OBVIOUS
          <5>1. named[k] = s /\ q \in actionsLeft /\ q # o
            BY <3>2 DEF Awaited, s, c
          <5>2. q \in actionsLeft' /\ current' = current
            BY <1>1, <1>4, <5>1
          <5>. QED  BY <1>1, <5>2 DEF Awaited, Working
        <4>. QED  BY <4>1, <4>2, <4>3
      <3>. QED  BY <3>1, <3>2
    <2>6. Working' => current' = current /\ Working
      BY <1>1, <1>4 DEF Working
    <2>7. /\ Working' => schema'[named'[current'.crd]] = current'
          /\ \A k \in Converted : /\ schema[named[k]].crd \in Converted
                                 /\ schema[named[k]].version = kinds[schema[named[k]].crd]
      BY <1>1, <2>1, <2>6 DEF Reflected
    <2>. QED  BY <1>1, <1>9, <2>4, <2>7 DEF Reflected
  <1>. QED  BY <1>5, <1>6, <1>7, <1>8

LEMMA ChangeDefinitionStep ==
  ASSUME CrdInv, NEW c \in Crd, ChangeDefinition(c)
  PROVE  CrdInv'
  <1>. USE CrdDiscoveryAssumption DEF CrdInv
  <1>1. /\ \E v \in 0..MaxVersion : version' = [version EXCEPT ![c] = v]
        /\ UNCHANGED <<named, overwriteCRDsActions, crds, current, actionsLeft, kinds,
                       unconverted, schema, action, discoveries, refusals>>
    BY DEF ChangeDefinition
  <1>2. CrdTypeOK'
    BY <1>1 DEF CrdTypeOK
  <1>3. CrdProgress'
    BY <1>1 DEF CrdProgress, Working, Kinds, Converted
  <1>4. OfTheirName' /\ Reflected'
    BY <1>1 DEF OfTheirName, Reflected, Kinds, Converted, Awaited, Working
  <1>. QED  BY <1>2, <1>3, <1>4

LEMMA EditActionStep ==
  ASSUME CrdInv, NEW s \in Singular, NEW o \in Operation, EditAction(s, o)
  PROVE  CrdInv'
  <1>. USE CrdDiscoveryAssumption DEF CrdInv
  <1>1. /\ action' = [action EXCEPT ![s] = [action[s] EXCEPT ![o] = Edited]]
        /\ UNCHANGED <<named, overwriteCRDsActions, version, crds, current, actionsLeft,
                       kinds, unconverted, schema, discoveries, refusals>>
    BY DEF EditAction, Cluster
  <1>2. /\ Edited \in Actions /\ Edited # Absent /\ Edited.crd \notin Crd
        /\ action \in [Singular -> [Operation -> Actions]]
    BY DEF CrdTypeOK, Edited, Absent, Actions
  <1>6. /\ action' \in [Singular -> [Operation -> Actions]]
        /\ \A t \in Singular, q \in Operation : action'[t][q] \in {action[t][q], Edited}
    BY <1>1, <1>2
  <1>3. /\ Working' = Working /\ Kinds' = Kinds /\ Converted' = Converted
        /\ \A k \in Crd, q \in Operation : Awaited(k, q)' = Awaited(k, q)
    BY <1>1 DEF Working, Kinds, Converted, Awaited
  <1>4. CrdTypeOK'
    BY <1>1, <1>6 DEF CrdTypeOK, Actions
  <1>5. CrdProgress'
    BY <1>1, <1>3 DEF CrdProgress
  <1>9. named \in [Crd -> Singular] /\ Converted \subseteq Crd
    BY DEF CrdTypeOK, Kinds, Converted
  <1>7. OfTheirName'
    BY <1>1, <1>2, <1>6 DEF OfTheirName
  <1>8. Reflected'
    BY <1>1, <1>2, <1>3, <1>6, <1>9 DEF Reflected
  <1>. QED  BY <1>4, <1>5, <1>7, <1>8

LEMMA CrdStep ==
  ASSUME CrdInv, CrdNext
  PROVE  CrdInv'
  BY ListCRDsStep, HandleBlueprintStep, HandleActionStep, ChangeDefinitionStep,
     EditActionStep DEF CrdNext

LEMMA CrdLeftAlone == CrdInv /\ UNCHANGED crdVars => CrdInv'
  BY DEF CrdInv, CrdTypeOK, CrdProgress, OfTheirName, Reflected, Kinds, Converted, Awaited,
         Working, crdVars

\* When a discovery is over no action is awaited.
LEMMA CrdInvImplies == CrdInv => DefinitionsReflected
  <1>. SUFFICES ASSUME CrdInv, Over, refusals = 0, NEW c \in Converted
                PROVE  LET s == named[c] IN
                       /\ \E d \in Converted :
                            named[d] = s /\ schema[s] = [crd |-> d, version |-> kinds[d]]
                       /\ \A o \in Operation :
                            /\ action[s][o] # Absent
                            /\ overwriteCRDsActions => action[s][o] \in {schema[s], Edited}
                            /\ action[s][o] # Edited => named[action[s][o].crd] = s
    BY DEF DefinitionsReflected
  <1>. DEFINE s == named[c]
              d == schema[s].crd
  <1>1. /\ d \in Converted /\ schema[s].version = kinds[d]
        /\ \A o \in Operation :
             /\ action[s][o] # Absent
             /\ overwriteCRDsActions => action[s][o] \in {schema[s], Edited}
    BY DEF CrdInv, Reflected, Over, Awaited
  <1>2. /\ Converted \subseteq Crd /\ s \in Singular /\ schema[s] \in Schemas
        /\ action \in [Singular -> [Operation -> Actions]]
    BY DEF CrdInv, CrdTypeOK, Kinds, Converted, Schemas, Actions
  <1>3. named[d] = s
    BY <1>1, <1>2 DEF CrdInv, OfTheirName
  <1>4. schema[s] = [crd |-> d, version |-> kinds[d]]
    BY <1>1, <1>2 DEF Schemas
  <1>. HIDE DEF d
  <1>5. ASSUME NEW o \in Operation, action[s][o] # Edited
        PROVE  named[action[s][o].crd] = s
    <2>1. action[s][o] \in Actions /\ action[s][o] # Absent
      BY <1>1, <1>2
    <2>2. action[s][o].crd \in Crd
      BY <1>5, <2>1 DEF Actions
    <2>. QED  BY <1>2, <2>2 DEF CrdInv, OfTheirName
  <1>. QED  BY <1>1, <1>3, <1>4, <1>5

-----------------------------------------------------------------------------
(* The flat schema of a definition. *)

\* An object further down has the name of the top level at or above the property.
NamedBelow(p) == \E o \in Objects : Len(o) > 1 /\ Last(o) = Head(p)

SchemaInv ==
  /\ SchemaTypeOK /\ leaves \in CrdSchemas
  /\ toVisit \subseteq TopLevel(leaves)
  /\ properties \subseteq leaves \cup toVisit
  /\ \A p \in leaves : p \in properties \/ <<Head(p)>> \in toVisit \/ NamedBelow(p)
  /\ \A key \in toVisit : key \in properties \/ NamedBelow(key)

LEMMA PathFacts ==
  ASSUME NEW p \in Path
  PROVE  /\ p \in Seq(PropertyName) /\ Len(p) \in Nat /\ Len(p) >= 1 /\ Head(p) = p[1]
         /\ <<Head(p)>> \in Path /\ Len(<<Head(p)>>) = 1
         /\ Head(<<Head(p)>>) = Head(p) /\ Last(<<Head(p)>>) = Head(p)
  <1>. USE CrdSchemaAssumption
  <1>1. PICK d \in 1..MaxDepth : p \in [1..d -> PropertyName]
    BY DEF Path
  <1>2. /\ p \in Seq(PropertyName) /\ Len(p) \in Nat /\ Len(p) >= 1 /\ Head(p) = p[1]
        /\ p[1] \in PropertyName
    BY <1>1
  <1>3. <<Head(p)>> \in [1..1 -> PropertyName] /\ 1 \in 1..MaxDepth
    BY <1>2
  <1>4. <<Head(p)>> \in Path
    BY <1>3 DEF Path
  <1>. QED  BY <1>2, <1>4 DEF Last

LEMMA FirstOf ==
  ASSUME NEW S, NEW s \in Seq(S), Len(s) >= 1
  PROVE  SubSeq(s, 1, 1) = <<s[1]>>
  <1>. DEFINE t == SubSeq(s, 1, 1)
              u == <<s[1]>>
  <1>1. Len(s) \in Nat /\ 1 \in 1..Len(s) /\ s[1] \in S
    OBVIOUS
  <1>2. \A n \in 1..1 : s[n] \in S
    BY <1>1
  <1>3. /\ t \in Seq(S) /\ Len(t) = IF 1 <= 1 THEN 1 - 1 + 1 ELSE 0
        /\ \A n \in 1..1 - 1 + 1 : t[n] = s[1 + n - 1]
    BY <1>2, SubSeqProperties
  <1>4. u \in Seq(S) /\ Len(u) = 1 /\ u[1] = s[1]
    BY <1>1
  <1>. HIDE DEF t, u
  <1>5. Len(t) = 1 /\ t[1] = s[1]
    BY <1>3
  <1>6. t = u
    BY <1>3, <1>4, <1>5, SeqEqual
  <1>. QED  BY <1>6 DEF t, u

\* A name of the top level is the prefix of the properties that begin with it.
LEMMA PrefixFacts ==
  ASSUME NEW p \in Path, NEW q \in Path
  PROVE  /\ IsPrefix(<<Head(q)>>, p) <=> Head(p) = Head(q)
         /\ IsPrefix(p, p)
         /\ IsPrefix(<<Head(q)>>, p) => Len(p) > 1 \/ p = <<Head(q)>>
  <1>1. /\ p \in Seq(PropertyName) /\ Len(p) \in Nat /\ Len(p) >= 1 /\ Head(p) = p[1]
    BY PathFacts
  <1>2. SubSeq(p, 1, 1) = <<p[1]>> /\ SubSeq(p, 1, Len(p)) = p
    BY <1>1, FirstOf, SubSeqFull
  <1>3. <<Head(q)>> \in Seq(PropertyName) /\ Len(<<Head(q)>>) = 1
    BY PathFacts DEF Path
  <1>4. SubSeq(<<Head(q)>>, 1, 1) = <<Head(q)>>
    <2>1. \A k \in Seq(PropertyName) : Len(k) = 1 => SubSeq(k, 1, 1) = <<k[1]>>
      BY FirstOf
    <2>2. PICK k \in Seq(PropertyName) : k = <<Head(q)>> /\ Len(k) = 1 /\ k[1] = Head(q)
      BY <1>3
    <2>3. SubSeq(k, 1, 1) = <<Head(q)>>
      BY <2>1, <2>2
    <2>. QED  BY <2>2, <2>3
  <1>5. IsPrefix(<<Head(q)>>, p) <=> Head(p) = Head(q)
    BY <1>1, <1>2, <1>3, <1>4 DEF IsPrefix
  <1>6. IsPrefix(p, p)
    BY <1>1 DEF IsPrefix
  <1>7. Len(p) = 1 => p = <<p[1]>>
    BY <1>1, <1>2
  <1>. QED  BY <1>1, <1>5, <1>6, <1>7

LEMMA SchemaStart == SchemaInit => SchemaInv
  <1>. SUFFICES ASSUME SchemaInit PROVE SchemaInv
    OBVIOUS
  <1>1. leaves \subseteq Path /\ leaves \in CrdSchemas
    BY DEF SchemaInit, CrdSchemas
  <1>2. TopLevel(leaves) \subseteq Path
    BY <1>1, PathFacts DEF TopLevel
  <1>3. SchemaTypeOK
    BY <1>1, <1>2 DEF SchemaInit, SchemaTypeOK
  <1>4. \A p \in leaves : <<Head(p)>> \in toVisit
    BY DEF SchemaInit, TopLevel
  <1>. QED  BY <1>1, <1>3, <1>4 DEF SchemaInit, SchemaInv

LEMMA SkipDeletedStep ==
  ASSUME SchemaInv, NEW key \in toVisit, SkipDeleted(key)
  PROVE  SchemaInv'
  <1>. USE DEF SchemaInv
  <1>1. /\ key \notin properties /\ toVisit' = toVisit \ {key}
        /\ UNCHANGED <<leaves, properties>>
    BY DEF SkipDeleted
  <1>2. Objects' = Objects /\ \A p : NamedBelow(p)' = NamedBelow(p)
    BY <1>1 DEF Objects, NamedBelow
  <1>3. SchemaTypeOK'
    BY <1>1 DEF SchemaTypeOK
  <1>4. ASSUME NEW p \in leaves, <<Head(p)>> = key PROVE NamedBelow(p)
    <2>1. NamedBelow(key) /\ Head(key) = Head(p)
      BY <1>1, <1>4, PathFacts DEF SchemaTypeOK
    <2>. QED  BY <2>1 DEF NamedBelow
  <1>. QED  BY <1>1, <1>2, <1>3, <1>4

LEMMA VisitPropertyStep ==
  ASSUME SchemaInv, NEW key \in toVisit, VisitProperty(key)
  PROVE  SchemaInv'
  <1>. USE DEF SchemaInv
  <1>1. /\ key \in properties /\ toVisit' = toVisit \ {key} /\ leaves' = leaves
        /\ properties' = IF key \in leaves THEN properties
                         ELSE (properties \cup AddedFor(key)) \ DeletedFor(key)
    BY DEF VisitProperty
  <1>2. Objects' = Objects /\ \A p : NamedBelow(p)' = NamedBelow(p)
    BY <1>1 DEF Objects, NamedBelow
  <1>3. /\ leaves \subseteq Path /\ toVisit \subseteq Path /\ properties \subseteq Path
        /\ \A p, q \in leaves : ~IsStrictPrefix(p, q)
        /\ Objects \subseteq Path
    BY DEF SchemaTypeOK, CrdSchemas, Objects
  <1>4. SchemaTypeOK'
    BY <1>1, <1>3 DEF SchemaTypeOK, AddedFor
  <1>5. PICK top \in leaves : key = <<Head(top)>>
    BY DEF TopLevel
  <1>6. key \in Path /\ Len(key) = 1 /\ Head(key) = Head(top) /\ Last(key) = Head(top)
    BY <1>3, <1>5, PathFacts
  <1>7. CASE key \in leaves
    <2>1. ASSUME NEW p \in leaves, <<Head(p)>> = key PROVE p = key
      <3>1. Head(p) = Head(top)
        BY <1>3, <1>5, <1>6, <2>1, PathFacts
      <3>2. IsPrefix(key, p)
        BY <1>3, <1>5, <3>1, PrefixFacts
      <3>. QED  BY <1>3, <1>7, <3>2 DEF IsStrictPrefix
    <2>2. properties' = properties
      BY <1>1, <1>7
    <2>. QED  BY <1>1, <1>2, <1>4, <1>7, <2>1, <2>2
  <1>8. CASE key \notin leaves
    <2>1. properties' = (properties \cup AddedFor(key)) \ DeletedFor(key)
      BY <1>1, <1>8
    <2>2. key \in Objects /\ IsPrefix(key, key)
      <3>1. IsPrefix(key, top) /\ IsPrefix(key, key)
        BY <1>3, <1>5, <1>6, PrefixFacts
      <3>. QED  BY <1>6, <1>8, <3>1 DEF Objects, IsStrictPrefix
    <2>3. key \in DeletedFor(key)
      BY <1>5, <1>6, <2>2 DEF DeletedFor
    <2>4. properties' \subseteq leaves \cup toVisit'
      BY <1>1, <2>1, <2>3 DEF AddedFor
    <2>5. ASSUME NEW k \in DeletedFor(key), NEW p \in Path, k = <<Head(p)>>, k # key
          PROVE  NamedBelow(p)
      <3>1. PICK o \in Objects : IsPrefix(key, o) /\ k = <<Last(o)>>
        BY <2>5 DEF DeletedFor
      <3>2. Last(o) = Head(p)
        BY <2>5, <3>1
      <3>3. Len(o) > 1 \/ o = key
        BY <1>3, <1>5, <3>1, PrefixFacts
      <3>4. o # key
        BY <1>5, <1>6, <2>5, <3>1
      <3>. QED  BY <3>2, <3>3, <3>4 DEF NamedBelow
    <2>6. ASSUME NEW p \in leaves
          PROVE  p \in properties' \/ <<Head(p)>> \in toVisit' \/ NamedBelow(p)
      <3>1. p \in Path /\ Len(p) >= 1 /\ Len(<<Head(p)>>) = 1
        BY <1>3, PathFacts
      <3>2. CASE <<Head(p)>> = key
        <4>1. IsStrictPrefix(key, p)
          <5>1. Head(p) = Head(top)
            BY <1>5, <1>6, <3>1, <3>2, PathFacts
          <5>2. IsPrefix(key, p)
            BY <1>3, <1>5, <3>1, <5>1, PrefixFacts
          <5>. QED  BY <1>8, <5>2 DEF IsStrictPrefix
        <4>2. p \in AddedFor(key)
          BY <4>1 DEF AddedFor
        <4>3. Len(p) > 1
          <5>1. IsPrefix(key, p) /\ p # key
            BY <4>1 DEF IsStrictPrefix
          <5>. QED  BY <1>3, <1>5, <3>1, <5>1, PrefixFacts
        <4>4. p \notin DeletedFor(key)
          <5>1. ASSUME NEW x, p = <<x>> PROVE FALSE
            BY <4>3, <5>1
          <5>. QED  BY <5>1 DEF DeletedFor
        <4>. QED  BY <2>1, <4>2, <4>4
      <3>3. CASE <<Head(p)>> # key /\ p \in properties
        <4>1. CASE p \notin DeletedFor(key)
          BY <2>1, <3>3, <4>1
        <4>2. CASE p \in DeletedFor(key)
          <5>1. PICK o \in Objects : p = <<Last(o)>>
            BY <4>2 DEF DeletedFor
          <5>2. p = <<Head(p)>>
            BY <5>1
          <5>. QED  BY <2>5, <3>1, <3>3, <4>2, <5>2
        <4>. QED  BY <4>1, <4>2
      <3>4. CASE <<Head(p)>> # key /\ p \notin properties
        BY <1>1, <3>4
      <3>. QED  BY <3>2, <3>3, <3>4
    <2>7. ASSUME NEW k \in toVisit' PROVE k \in properties' \/ NamedBelow(k)
      <3>1. PICK q \in leaves : k = <<Head(q)>>
        BY <1>1, <2>7 DEF TopLevel
      <3>2. k \in toVisit /\ k # key /\ k \in Path /\ k = <<Head(k)>>
        BY <1>1, <1>3, <2>7, <3>1, PathFacts
      <3>3. CASE k \in DeletedFor(key)
        BY <2>5, <3>2, <3>3
      <3>4. CASE k \notin DeletedFor(key)
        BY <2>1, <3>2, <3>4
      <3>. QED  BY <3>3, <3>4
    <2>8. toVisit' \subseteq TopLevel(leaves)
      BY <1>1
    <2>. QED  BY <1>1, <1>2, <1>4, <2>4, <2>6, <2>7, <2>8
  <1>. QED  BY <1>7, <1>8

LEMMA SchemaStep ==
  ASSUME SchemaInv, SchemaNext
  PROVE  SchemaInv'
  BY VisitPropertyStep, SkipDeletedStep DEF SchemaNext

LEMMA SchemaLeftAlone == SchemaInv /\ UNCHANGED schemaVars => SchemaInv'
  BY DEF SchemaInv, SchemaTypeOK, CrdSchemas, TopLevel, NamedBelow, Objects, schemaVars

LEMMA SchemaInvImplies == SchemaInv => Shallowed
  BY DEF SchemaInv, Shallowed, NamedBelow

-----------------------------------------------------------------------------
(* The procedures together: one behaviour is about one of them, the others keep *)
(* what they start with.                                                        *)

PortModelInv ==
  /\ procedure \in Procedure
  /\ ProvisioningInv /\ CrdInv /\ SchemaInv /\ CacheInv /\ MappingInv /\ UpsertInv
  /\ DeletionInv

LEMMA PortModelStart == PortModelInit => PortModelInv
  BY ProvisioningStart, CrdStart, SchemaStart, CacheStart, MappingStart, UpsertStart,
     DeletionStart DEF PortModelInit, PortModelInv

LEMMA MappingLeftAlone == MappingInv /\ UNCHANGED mappingVars => MappingInv'
  BY DEF MappingInv, MappingTypeOK, Evaluated, mappingVars

LEMMA CacheLeftAlone == CacheInv /\ UNCHANGED imagesVars => CacheInv'
  BY DEF CacheInv, ImagesTypeOK, PassedLayers, CacheRight, imagesVars

LEMMA ProvisioningLeftAlone ==
  ProvisioningInv /\ UNCHANGED provisioningVars => ProvisioningInv'
  BY DEF ProvisioningInv, ProvisioningTypeOK, Recreating, UserConfigKept, CreatedIsOurs,
         KnowsItsOwn, AllFull, NotOurs, provisioningVars

LEMMA PortModelStep ==
  PortModelInv /\ [PortModelNext]_portModelVars => PortModelInv'
  <1>. SUFFICES ASSUME PortModelInv, [PortModelNext]_portModelVars PROVE PortModelInv'
    OBVIOUS
  <1>. USE DEF PortModelInv
  <1>0. procedure' \in Procedure
    BY DEF PortModelNext, InProvisioning, InCrds, InSchema, InImages, InMapping,
           InUpsert, InDeletion, portModelVars
  <1>1. \/ ProvisioningNext \/ UNCHANGED provisioningVars
    BY DEF PortModelNext, InProvisioning, InCrds, InSchema, InImages, InMapping,
           InUpsert, InDeletion, portModelVars
  <1>2. \/ CrdNext \/ UNCHANGED crdVars
    BY DEF PortModelNext, InProvisioning, InCrds, InSchema, InImages, InMapping,
           InUpsert, InDeletion, portModelVars
  <1>3. \/ SchemaNext \/ UNCHANGED schemaVars
    BY DEF PortModelNext, InProvisioning, InCrds, InSchema, InImages, InMapping,
           InUpsert, InDeletion, portModelVars
  <1>4. \/ ImagesNext \/ UNCHANGED imagesVars
    BY DEF PortModelNext, InProvisioning, InCrds, InSchema, InImages, InMapping,
           InUpsert, InDeletion, portModelVars
  <1>5. \/ MappingNext \/ UNCHANGED mappingVars
    BY DEF PortModelNext, InProvisioning, InCrds, InSchema, InImages, InMapping,
           InUpsert, InDeletion, portModelVars
  <1>6. \/ SendChunk \/ UNCHANGED upsertVars
    BY DEF PortModelNext, InProvisioning, InCrds, InSchema, InImages, InMapping,
           InUpsert, InDeletion, portModelVars
  <1>7. \/ DeletionNext \/ UNCHANGED deletionVars
    BY DEF PortModelNext, InProvisioning, InCrds, InSchema, InImages, InMapping,
           InUpsert, InDeletion, portModelVars
  <1>11. ProvisioningInv'
    BY <1>1, ProvisioningStep, ProvisioningLeftAlone
  <1>12. CrdInv'
    BY <1>2, CrdStep, CrdLeftAlone
  <1>13. SchemaInv'
    BY <1>3, SchemaStep, SchemaLeftAlone
  <1>14. CacheInv'
    BY <1>4, CacheStep, CacheLeftAlone
  <1>15. MappingInv'
    BY <1>5, MappingStep, MappingLeftAlone
  <1>16. UpsertInv'
    BY <1>6, UpsertStep, UpsertLeftAlone
  <1>17. DeletionInv'
    BY <1>7, DeletionStep, DeletionStutters
  <1>. QED  BY <1>0, <1>11, <1>12, <1>13, <1>14, <1>15, <1>16, <1>17

LEMMA PortModelInvariant == PortModelSpec => []PortModelInv
  BY PortModelStart, PortModelStep, PTL DEF PortModelSpec

\* Whatever the requests answer and in whatever order they end, the procedures keep
\* every variable within its type (the code modelled by PortModel's modules).
THEOREM PortModelTyped == PortModelSpec => []PortModelTypeOK
  <1>1. PortModelInv => PortModelTypeOK
    BY DEF PortModelInv, PortModelTypeOK, ProvisioningInv, CrdInv, SchemaInv, CacheInv,
       MappingInv, UpsertInv, DeletionInv
  <1>. QED  BY PortModelInvariant, <1>1, PTL

\* After a discovery without failed requests every definition that was added and converted
\* has a blueprint with a schema that was listed and all its actions, of one definition
\* and version if they are overwritten, whatever definitions were there before (crd.go:
\* AutodiscoverCRDsToActions, handleCRD).
THEOREM DefinitionsAreReflected == PortModelSpec => []DefinitionsReflected
  <1>1. PortModelInv => DefinitionsReflected
    BY CrdInvImplies DEF PortModelInv
  <1>. QED  BY PortModelInvariant, <1>1, PTL

\* In whatever order the map is ranged over while it changes, the flat schema has no
\* object, and lacks a property only where an object further down has the name of the
\* top level at or above it (crd/utils.go: ShallowJsonSchema).
THEOREM SchemaIsShallowed == PortModelSpec => []Shallowed
  <1>1. PortModelInv => Shallowed
    BY SchemaInvImplies DEF PortModelInv
  <1>. QED  BY PortModelInvariant, <1>1, PTL

\* Each entity is in one bulk request, or alone where the client refuses that; none has
\* more entities than Port takes, nor, when none of several exceeds the estimate, more
\* bytes. What a partial success leaves is written again or is rejected, and an allowed
\* stale deletion spares every entity: for any sizes, identifiers and answers
\* (batch_collector.go: ProcessBatch, calculateBulkSize).
THEOREM RequestsAlwaysFit == PortModelSpec => []RequestsFit
  <1>1. PortModelInv => RequestsFit
    BY UpsertInvImplies DEF PortModelInv
  <1>. QED  BY PortModelInvariant, <1>1, PTL

\* A deletion spares what others own, unless they took it after the search, for any
\* sizes of searches and batches (port/entity: FilterOwnedIdentifiers).
THEOREM OthersAreSpared == PortModelSpec => []OthersSpared
  <1>1. PortModelInv => OthersSpared
    BY DeletionInvImplies DEF PortModelInv
  <1>. QED  BY PortModelInvariant, <1>1, PTL

\* After a deletion without errors nothing under the object's identifiers is ours, however
\* the searches were cut, and each entity was counted once, one in two batches too
\* (port/entity: FilterOwnedIdentifiers; cli/entity.go: BulkDeleteEntities).
THEOREM OursAreDeleted == PortModelSpec => []OursDeleted
  <1>1. PortModelInv => OursDeleted
    BY DeletionInvImplies DEF PortModelInv
  <1>. QED  BY PortModelInvariant, <1>1, PTL

\* A property of an entity is what its query yields, whatever the order in which Go
\* walks the map of queries; only one that a query of its own and the star query both
\* yield may be either (entity.go: the loop over the mapping's properties).
THEOREM MappingDeterminate == PortModelSpec => []OrderMattersOnlyForBoth
  <1>1. PortModelInv => OrderMattersOnlyForBoth
    BY MappingInvImplies DEF PortModelInv
  <1>. QED  BY PortModelInvariant, <1>1, PTL

\* The cache of the detector holds for a digest its image's own operating system, or
\* nothing, however the goroutines of the batches interleave and tags are pushed
\* meanwhile; an image whose layer could not be read is the exception (detector.go).
THEOREM CacheIsRight == PortModelSpec => []CacheRight
  <1>1. PortModelInv => CacheRight
    BY DEF PortModelInv, CacheInv
  <1>. QED  BY PortModelInvariant, <1>1, PTL

LEMMA ImagesPlaces == PortModelSpec => []PlacesKept /\ [][OnlyDown]_detection
  <1>1. PortModelInit => PlacesKept
    BY PlacesStart DEF PortModelInit
  <1>2. PortModelInv /\ PlacesKept /\ [PortModelNext]_portModelVars
          => PlacesKept' /\ [OnlyDown]_detection
    <2>. SUFFICES ASSUME PortModelInv, PlacesKept, [PortModelNext]_portModelVars
                  PROVE  PlacesKept' /\ (OnlyDown \/ UNCHANGED detection)
      OBVIOUS
    <2>1. CASE InImages(ImagesNext)
      BY <2>1, PlacesStep DEF InImages, PortModelInv
    <2>2. CASE \/ InProvisioning \/ InCrds \/ InSchema \/ InMapping \/ InUpsert
               \/ InDeletion \/ UNCHANGED portModelVars
      <3>1. UNCHANGED imagesVars
        BY <2>2 DEF InProvisioning, InCrds, InSchema, InMapping, InUpsert, InDeletion,
                    portModelVars
      <3>. QED  BY <3>1 DEF imagesVars, PlacesKept, Holders, At
    <2>. QED  BY <2>1, <2>2 DEF PortModelNext
  <1>. QED  BY <1>1, <1>2, PortModelInvariant, PTL DEF PortModelSpec

\* The detection of one object never has more goroutines in the registry than the limit
\* allows, for any number of images and workers, and each batch starts with all places
\* free, those of goroutines that failed included (detector.go: DetectBatch).
THEOREM PlacesAreKept == PortModelSpec => []PlacesKept
  BY ImagesPlaces, PTL

\* A goroutine only ever goes on towards its end, one layer down at a time, whether the
\* layers can be read or not (detector.go: the loop over the layers).
THEOREM DetectionsGoOn == PortModelSpec => [][OnlyDown]_detection
  BY ImagesPlaces, PTL

\* What a user last wrote to the integration's configuration survives the starts of
\* the exporter, the recreation of the integration included (defaults/init.go).
THEOREM ConfigSurvives == PortModelSpec => []UserConfigKept
  <1>1. PortModelInv => UserConfigKept
    BY DEF PortModelInv, ProvisioningInv
  <1>. QED  BY PortModelInvariant, <1>1, PTL

\* When InitIntegration is done the default blueprints are all there in full, or none
\* of the exporter's own is, as long as no answer and no process was lost on the way
\* (defaults.go: createResources and rollbackResources).
THEOREM AllDefaultsOrNone == PortModelSpec => []DefaultsAllOrNothing
  <1>1. PortModelInv => DefaultsAllOrNothing
    BY ProvisioningInvImplies DEF PortModelInv
  <1>. QED  BY PortModelInvariant, <1>1, PTL

\* No step of the exporter changes or deletes a blueprint that a user created, however
\* requests fail, answers are lost and starts follow one another (defaults.go: only what
\* is in createdBlueprints is patched or rolled back).
THEOREM UsersBlueprintsStay == PortModelSpec => UsersBlueprintsKept
  <1>1. PortModelInv /\ [PortModelNext]_portModelVars =>
          [\A b \in Blueprint :
             blueprint[b] = "theirs" => blueprint'[b] = "theirs"]_blueprint
    <2>. SUFFICES ASSUME PortModelInv, [PortModelNext]_portModelVars
                  PROVE  \/ \A b \in Blueprint :
                              blueprint[b] = "theirs" => blueprint'[b] = "theirs"
                         \/ UNCHANGED blueprint
      OBVIOUS
    <2>1. CASE InProvisioning
      BY <2>1, TheirsStay DEF InProvisioning, PortModelInv
    <2>2. CASE \/ InCrds \/ InSchema \/ InImages(ImagesNext) \/ InMapping \/ InUpsert
               \/ InDeletion \/ UNCHANGED portModelVars
      BY <2>2 DEF InCrds, InSchema, InImages, InMapping, InUpsert, InDeletion,
                  portModelVars, provisioningVars
    <2>. QED  BY <2>1, <2>2 DEF PortModelNext
  <1>. QED  BY PortModelInvariant, <1>1, PTL DEF PortModelSpec, UsersBlueprintsKept
=============================================================================
