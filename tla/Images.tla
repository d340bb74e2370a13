-------------------------------- MODULE Images --------------------------------
(* image/enricher.go and image/detector.go: while an object is mapped the        *)
(* operating systems of its images are looked for in their layers, the top one   *)
(* first, by goroutines that a semaphore of the batch limits. All workers share  *)
(* one cache by digest. A result is the layer that was found; the registry moves *)
(* references to other digests at any time.                                      *)
EXTENDS Integers, FiniteSets

CONSTANTS Worker,        \* goroutines that map an object, one each
          ImageRef, Digest,
          Layers,        \* layers of an image
          OsRelease,     \* per digest: its layers that have an os-release file
          MaxDetections, \* ImageOsDetectionConcurrency
          MaxReadErrors  \* requests to the registry that fail

ASSUME ImagesAssumption ==
  /\ Layers \in Nat /\ OsRelease \in [Digest -> SUBSET (1..Layers)]
  /\ MaxDetections \in Nat \ {0} /\ MaxReadErrors \in Nat

VARIABLES
  digestOf,      \* per reference: the digest the registry has for it
  cache,         \* per digest: the layer found, Empty, or NotCached
  batch,         \* per worker: where Enrich is
  detection,     \* per worker and reference: where its goroutine is
  unread,        \* digests of which a layer could not be read
  readErrors

imagesVars ==
  <<digestOf, cache, batch, detection, unread, readErrors>>

NotCached == -1
Empty == 0
NoImage == "no image"
Waiting == [at |-> "waiting", digest |-> NoImage, layer |-> Empty]
Ended == [Waiting EXCEPT !.at = "ended"]

ImagesTypeOK ==
  /\ digestOf \in [ImageRef -> Digest]
  /\ cache \in [Digest -> NotCached..Layers]
  /\ batch \in [Worker -> {"idle", "detecting"}]
  /\ detection \in [Worker -> [ImageRef ->
       [at : {"waiting", "resolving", "reading", "ended"}, digest : Digest \cup {NoImage},
        layer : 0..Layers]]]
  /\ unread \subseteq Digest
  /\ readErrors \in 0..MaxReadErrors

ImagesInit ==
  /\ digestOf \in [ImageRef -> Digest]
  /\ cache = [d \in Digest |-> NotCached]
  /\ batch = [w \in Worker |-> "idle"]
  /\ detection = [w \in Worker |-> [r \in ImageRef |-> Ended]]
  /\ unread = {}
  /\ readErrors = 0

Registry == UNCHANGED digestOf
ReadFails == readErrors < MaxReadErrors /\ readErrors' = readErrors + 1
At(w, r) == detection[w][r].at
Becomes(w, r, next) ==
  detection' = [detection EXCEPT ![w] = [detection[w] EXCEPT ![r] = next]]

\* DetectBatch starts a goroutine for each of the object's references.
Enrich(w) ==
  /\ batch[w] = "idle"
  /\ \E refs \in (SUBSET ImageRef) \ {{}} :
       detection' = [detection EXCEPT ![w] =
                       [r \in ImageRef |-> IF r \in refs THEN Waiting ELSE Ended]]
  /\ batch' = [batch EXCEPT ![w] = "detecting"]
  /\ Registry /\ UNCHANGED <<cache, unread, readErrors>>

\* Fault: a goroutine that returns keeps its place.
HoldersForEver(w) == {r \in ImageRef : At(w, r) # "waiting"}

\* The semaphore, which a goroutine holds until it returns.
Holders(w) == {r \in ImageRef : At(w, r) \in {"resolving", "reading"}}

AcquireSemaphore(w, r) ==
  /\ At(w, r) = "waiting"
  /\ Cardinality(Holders(w)) < MaxDetections
  /\ Becomes(w, r, [Waiting EXCEPT !.at = "resolving"])
  /\ Registry /\ UNCHANGED <<cache, batch, unread, readErrors>>

\* Detect up to the cache. The error of one image is reported only.
ResolveDigest(w, r) ==
  LET d == digestOf[r] IN
  /\ At(w, r) = "resolving"
  /\ \/ /\ cache[d] # NotCached
        /\ Becomes(w, r, Ended) /\ UNCHANGED readErrors
     \/ /\ cache[d] = NotCached
        /\ Becomes(w, r, [at |-> "reading", digest |-> d, layer |-> Layers])
        /\ UNCHANGED readErrors
     \/ ReadFails /\ Becomes(w, r, Ended)
  /\ Registry /\ UNCHANGED <<cache, batch, unread>>

\* Fault: the reference is resolved again.
KeyOfReference(w, r) == digestOf[r]

CacheKey(w, r) == detection[w][r].digest

\* A layer: a file in it is the result, and a layer that cannot be read is skipped.
ReadLayer(w, r) ==
  LET d == detection[w][r].digest
      l == detection[w][r].layer
      skip == Becomes(w, r, [detection[w][r] EXCEPT !.layer = l - 1])
              /\ UNCHANGED cache
      store(result) == /\ cache' = [cache EXCEPT ![CacheKey(w, r)] = result]
                       /\ Becomes(w, r, Ended)
  IN /\ At(w, r) = "reading"
     /\ \/ l = 0 /\ store(Empty) /\ UNCHANGED <<unread, readErrors>>
        \/ l \in OsRelease[d] /\ store(l) /\ UNCHANGED <<unread, readErrors>>
        \/ l > 0 /\ l \notin OsRelease[d] /\ skip /\ UNCHANGED <<unread, readErrors>>
        \/ l > 0 /\ ReadFails /\ skip /\ unread' = unread \cup {d}
     /\ Registry /\ UNCHANGED batch

\* wg.Wait: the object gets what was found, and the worker maps the next.
BatchReturns(w) ==
  /\ batch[w] = "detecting"
  /\ \A r \in ImageRef : At(w, r) = "ended"
  /\ batch' = [batch EXCEPT ![w] = "idle"]
  /\ Registry /\ UNCHANGED <<cache, detection, unread, readErrors>>

PushImage(r) ==
  /\ \E d \in Digest : digestOf' = [digestOf EXCEPT ![r] = d]
  /\ UNCHANGED <<cache, batch, detection, unread, readErrors>>

DetectorStep(w) ==
  BatchReturns(w) \/
    \E r \in ImageRef : AcquireSemaphore(w, r) \/ ResolveDigest(w, r) \/ ReadLayer(w, r)

ImagesNext ==
  \/ \E w \in Worker : Enrich(w) \/ DetectorStep(w)
  \/ \E r \in ImageRef : PushImage(r)

ImagesSpec == ImagesInit /\ [][ImagesNext]_imagesVars

-----------------------------------------------------------------------------
\* What the uppermost os-release file of an image says.
OsOf(d) == IF OsRelease[d] = {} THEN Empty
           ELSE CHOOSE l \in OsRelease[d] : \A m \in OsRelease[d] : m <= l

\* However many goroutines look into one image at once, and wherever its reference
\* moves meanwhile, what stays in the cache for ever is what the image says. A layer
\* that could not be read is the exception: the next one, or nothing, is kept then.
CacheRight ==
  \A d \in Digest : cache[d] \in {NotCached, OsOf(d)} \/ d \in unread

\* The mapping of an object goes on in the end, however many images it has and
\* whichever of them fail: a goroutine that fails gives its place to the next.
BatchesReturn ==
  \A w \in Worker : batch[w] = "detecting" ~> batch[w] = "idle"
=============================================================================
