--------------------------- MODULE LiveEventsProofs ---------------------------
(***************************************************************************)
(* What holds of the live events for any objects, contents and mapping.     *)
(***************************************************************************)
EXTENDS LiveEvents, WorkQueueProofs, WellFoundedInduction

Queue == QueueType(Item, MaxNumRequeues)

-----------------------------------------------------------------------------
(* Sequences and their last entries.                                        *)

\* Without its head, a sequence has the same elements one place earlier.
LEMMA TailShifts ==
  ASSUME NEW S, NEW s \in Seq(S), s # <<>>
  PROVE  /\ Tail(s) \in Seq(S)
         /\ DOMAIN Tail(s) = 1..(Len(s) - 1)
         /\ \A k \in DOMAIN Tail(s) : Tail(s)[k] = s[k + 1] /\ k + 1 \in DOMAIN s
         /\ \A k \in DOMAIN s : k # 1 => k - 1 \in DOMAIN Tail(s)
         /\ Head(s) = s[1] /\ 1 \in DOMAIN s
  OBVIOUS

\* The empty sequence.
LEMMA EmptyIn == ASSUME NEW S PROVE <<>> \in Seq(S)
  OBVIOUS

\* An element of a sequence.
LEMMA ElementIn ==
  ASSUME NEW S, NEW s \in Seq(S), NEW k \in DOMAIN s
  PROVE  s[k] \in S
  OBVIOUS

\* A new last element.
LEMMA AppendAdds ==
  ASSUME NEW S, NEW s \in Seq(S), NEW e \in S
  PROVE  /\ Append(s, e) \in Seq(S)
         /\ DOMAIN Append(s, e) = DOMAIN s \cup {Len(s) + 1}
         /\ Append(s, e)[Len(s) + 1] = e
         /\ \A k \in DOMAIN s : Append(s, e)[k] = s[k] /\ k < Len(s) + 1 /\ k \in Nat
  OBVIOUS

\* A set of naturals that is not empty has a least element.
LEMMA LeastNatural ==
  ASSUME NEW T \in SUBSET Nat, T # {}
  PROVE  \E m \in T : \A k \in T : m <= k
  <1>1. PICK m \in T : \A k \in T : <<k, m>> \notin OpToRel(<, Nat)
    BY WFMin, NatLessThanWellFounded, Zenon
  <1>2. \A k \in T : ~(k < m)
    BY <1>1, Zenon DEF OpToRel
  <1>. QED  BY <1>2

\* Last picks the greatest of the places in a sequence.
LEMMA LastIsGreatest ==
  ASSUME NEW n \in Nat, NEW S \in SUBSET (1..n), S # {}
  PROVE  Last(S) \in S /\ \A k \in S : k <= Last(S)
  <1>. DEFINE T == {n - k : k \in S}
  <1>0. \A k \in S : k \in Nat /\ n - k \in Nat
    OBVIOUS
  <1>1. T \in SUBSET Nat /\ T # {}
    BY <1>0
  <1>2. PICK m \in T : \A k \in T : m <= k
    BY <1>1, LeastNatural
  <1>3. PICK l \in S : m = n - l
    OBVIOUS
  <1>4. \A k \in S : k <= l
    <2>1. TAKE k \in S
    <2>2. m <= n - k
      BY <1>2
    <2>. QED  BY <1>3, <2>2
  <1>. QED  BY <1>4 DEF Last

-----------------------------------------------------------------------------
(* The items a queue will hand out, and what the methods do to them.        *)

InQueue(q) == q.queued \cup q.dirty \cup q.delayed

\* Add brings items in, unless the queue is down.
LEMMA AddKeeps ==
  ASSUME NEW q \in Queue, NEW S \in SUBSET Item
  PROVE  /\ Add(q, S) \in Queue /\ Add(q, S).down = q.down
         /\ ~q.down => InQueue(q) \cup S \subseteq InQueue(Add(q, S))
  <1>1. CASE q.down
    BY <1>1 DEF Add
  <1>2. CASE ~q.down
    BY <1>2, AddBringsIn, RequeueLimit DEF Queue, InQueue
  <1>. QED  BY <1>1, <1>2

\* Get takes only its item out.
LEMMA GetKeeps ==
  ASSUME NEW q \in Queue, NEW i \in Item
  PROVE  /\ Get(q, i) \in Queue /\ Get(q, i).down = q.down
         /\ InQueue(q) \subseteq InQueue(Get(q, i)) \cup {i}
  BY GetTakesOut, RequeueLimit DEF Queue, InQueue

\* The end of a delay loses nothing, unless the queue is down.
LEMMA DelayKeeps ==
  ASSUME NEW q \in Queue, NEW i \in Item
  PROVE  /\ DelayOver(q, i) \in Queue /\ DelayOver(q, i).down = q.down
         /\ ~q.down => InQueue(q) \subseteq InQueue(DelayOver(q, i))
  BY DelayBringsIn, RequeueLimit DEF Queue, InQueue

\* Completing an item leaves what was added while it was processed.
LEMMA CompleteKeeps ==
  ASSUME NEW q \in Queue, NEW C \in SUBSET Item
  PROVE  /\ Complete(q, C) \in Queue /\ Complete(q, C).down = q.down
         /\ InQueue(q) \subseteq InQueue(Complete(q, C))
         /\ \A i \in Item \ C : Complete(q, C).failures[i] = q.failures[i]
  <1>1. Complete(q, C) \in Queue /\ GivenBack(Item, q, Complete(q, C), C, {})
    BY CompleteGivesBack, RequeueLimit DEF Queue
  <1>. QED  BY <1>1 DEF GivenBack, InQueue

\* Requeueing items brings them in, unless the queue is down.
LEMMA RequeueKeeps ==
  ASSUME NEW q \in Queue, NEW R \in SUBSET Item,
         \A i \in R : q.failures[i] < MaxNumRequeues
  PROVE  /\ Requeue(q, R) \in Queue /\ Requeue(q, R).down = q.down
         /\ InQueue(q) \subseteq InQueue(Requeue(q, R))
         /\ ~q.down => R \subseteq InQueue(Requeue(q, R))
  <1>1. Requeue(q, R) \in Queue /\ GivenBack(Item, q, Requeue(q, R), {}, R)
    BY RequeueGivesBack, RequeueLimit DEF Queue
  <1>. QED  BY <1>1 DEF GivenBack, InQueue

-----------------------------------------------------------------------------
(* A flush.                                                                 *)

\* The places of an object's entries are places of the batch.
LEMMA EntryPlaces ==
  ASSUME batch \in Seq(Entry), NEW o \in Object, NEW S \in SUBSET EntriesOf(o), S # {}
  PROVE  /\ Last(S) \in S /\ Last(S) \in DOMAIN batch
         /\ batch[Last(S)] \in Entry
         /\ \A k \in S : k <= Last(S)
  <1>1. S \in SUBSET (1..Len(batch)) /\ Len(batch) \in Nat
    BY DEF EntriesOf
  <1>2. Last(S) \in S /\ \A k \in S : k <= Last(S)
    BY <1>1, LastIsGreatest
  <1>3. Last(S) \in DOMAIN batch
    BY <1>2 DEF EntriesOf
  <1>4. batch[Last(S)] \in Entry
    BY <1>3, ElementIn
  <1>. QED  BY <1>2, <1>3, <1>4

\* A flush keeps the types; an object's last entry is written, or its item is
\* requeued, or the object is recorded as given up; the queue loses no item.
LEMMA FlushEffect ==
  ASSUME TypeOK, NEW allowRequeue \in BOOLEAN, ProcessBatch(allowRequeue)
  PROVE  /\ wq' \in Queue /\ wq'.down = wq.down
         /\ port' \in [Object -> Version] /\ givenUp' \in SUBSET Object
         /\ InQueue(wq) \subseteq InQueue(wq')
         /\ \A o \in Object :
              IF EntriesOf(o) = {}
                THEN port'[o] = port[o] /\ (o \in givenUp' <=> o \in givenUp)
                ELSE LET k == Last(EntriesOf(o))
                     IN \/ port'[o] = batch[k].content
                        \/ o \in givenUp'
                        \/ ~wq.down => batch[k].item \in InQueue(wq')
  <1>1. PICK outcome \in [DOMAIN batch -> {"ok", "retry", "permanent"}] :
          LET requeued == Requeued(outcome, allowRequeue)
          IN /\ wq' = Requeue(Complete(wq, BatchItems \ requeued), requeued)
             /\ port' = [o \in Object |->
                           IF Written(o, outcome) = {}
                             THEN port[o]
                             ELSE batch[Last(Written(o, outcome))].content]
             /\ givenUp' = {o \in Object :
                              IF EntriesOf(o) = {}
                                THEN o \in givenUp
                                ELSE LastGivenUp(o, outcome, requeued)}
    BY DEF ProcessBatch
  <1>. DEFINE R == Requeued(outcome, allowRequeue)
              C == BatchItems \ R
              q == Complete(wq, C)
  <1>2. wq \in Queue /\ batch \in Seq(Entry)
    BY DEF TypeOK, Queue
  <1>3. \A k \in DOMAIN batch : batch[k].item \in Item /\ batch[k].content \in Content
    <2>1. \A k \in DOMAIN batch : batch[k] \in Entry
      BY <1>2, ElementIn
    <2>. QED  BY <2>1 DEF Entry
  <1>4. C \in SUBSET Item /\ R \in SUBSET Item /\ \A i \in R : i \notin C
    BY <1>3 DEF Requeued, ItemsWith, BatchItems
  <1>5. \A i \in R : wq.failures[i] < MaxNumRequeues
    BY DEF Requeued
  <1>6. wq' = Requeue(q, R)
    BY <1>1
  <1>. HIDE DEF C
  <1>7. /\ q \in Queue /\ q.down = wq.down /\ InQueue(wq) \subseteq InQueue(q)
        /\ \A i \in R : q.failures[i] < MaxNumRequeues
    <2>1. /\ q \in Queue /\ q.down = wq.down /\ InQueue(wq) \subseteq InQueue(q)
          /\ \A i \in Item \ C : q.failures[i] = wq.failures[i]
      BY <1>2, <1>4, CompleteKeeps
    <2>. QED  BY <2>1, <1>4, <1>5
  <1>. HIDE DEF q, R
  <1>8. /\ wq' \in Queue /\ wq'.down = wq.down /\ InQueue(wq) \subseteq InQueue(wq')
        /\ ~wq.down => R \subseteq InQueue(wq')
    BY <1>4, <1>6, <1>7, RequeueKeeps
  <1>9. \A o \in Object : Written(o, outcome) # {} =>
          LET k == Last(Written(o, outcome))
          IN k \in Written(o, outcome) /\ batch[k].content \in Content
    BY <1>2, <1>3, EntryPlaces DEF Written
  <1>10. port' \in [Object -> Version] /\ givenUp' \in SUBSET Object
    BY <1>1, <1>9 DEF TypeOK, Version
  <1>11. ASSUME NEW o \in Object, EntriesOf(o) = {}
         PROVE  port'[o] = port[o] /\ (o \in givenUp' <=> o \in givenUp)
    BY <1>1, <1>11 DEF Written
  <1>12. ASSUME NEW o \in Object, EntriesOf(o) # {}
         PROVE  LET k == Last(EntriesOf(o))
                IN \/ port'[o] = batch[k].content
                   \/ o \in givenUp'
                   \/ ~wq.down => batch[k].item \in InQueue(wq')
    <2>. DEFINE k == Last(EntriesOf(o))
    <2>1. k \in EntriesOf(o) /\ k \in DOMAIN batch /\ \A j \in EntriesOf(o) : j <= k
      BY <1>2, <1>12, EntryPlaces
    <2>2. CASE outcome[k] = "ok"
      <3>. DEFINE l == Last(Written(o, outcome))
      <3>1. k \in Written(o, outcome) /\ Written(o, outcome) \in SUBSET EntriesOf(o)
        BY <2>1, <2>2 DEF Written
      <3>2. l \in EntriesOf(o) /\ k <= l
        BY <1>2, <3>1, EntryPlaces
      <3>3. l = k
        <4>1. l <= k /\ l \in Nat /\ k \in Nat
          BY <1>2, <2>1, <3>2 DEF EntriesOf
        <4>. QED  BY <3>2, <4>1
      <3>4. port'[o] = batch[l].content
        BY <1>1, <3>1
      <3>. QED  BY <3>3, <3>4
    <2>3. CASE outcome[k] # "ok" /\ batch[k].item \notin R
      <3>1. LastGivenUp(o, outcome, R)
        BY <1>12, <2>3 DEF LastGivenUp
      <3>. QED  BY <1>1, <1>12, <3>1 DEF R
    <2>4. CASE batch[k].item \in R
      BY <1>8, <2>4
    <2>. QED  BY <2>2, <2>3, <2>4
  <1>. QED  BY <1>8, <1>10, <1>11, <1>12

-----------------------------------------------------------------------------
(* The inductive invariant.                                                 *)

\* No notification of the object follows the one at place k.
IsLatest(k) == \A j \in DOMAIN notes : j > k => notes[j].obj # notes[k].obj

\* A notification tells of a change, and the latest one of an object tells of what
\* the cache holds.
NotesTellCache ==
  \A k \in DOMAIN notes :
    /\ notes[k].old # notes[k].new
    /\ IsLatest(k) => notes[k].new = cache[notes[k].obj]

\* DeleteFunc runs for the first notification.
DeletesHead ==
  deleting # None =>
    notes # <<>> /\ Head(notes).obj = deleting /\ Head(notes).new = Absent

\* The entity of the object is as the cache says, or will be once the batch is
\* written, or its write was given up with nothing in the batch since.
UpToDate(o) ==
  IF EntriesOf(o) = {}
    THEN port[o] = cache[o] \/ o \in givenUp
    ELSE batch[Last(EntriesOf(o))].content = cache[o]

MatchedUpToDate ==
  ~wq.down => \A o \in Object :
    Is(cache[o], "match") => Pending(o) \/ UpToDate(o)

IInv == TypeOK /\ NotesTellCache /\ DeletesHead /\ MatchedUpToDate

\* Handling the first notification leaves the invariant of the others.  An object
\* keeps a notification, unless the first was its latest.
LEMMA HeadHandled ==
  ASSUME TypeOK, NotesTellCache, notes # <<>>, notes' = Tail(notes), cache' = cache
  PROVE  /\ notes' \in Seq(Note) /\ NotesTellCache'
         /\ Head(notes) \in Note /\ Head(notes).old # Head(notes).new
         /\ \A o \in Object :
              (\E k \in DOMAIN notes : notes[k].obj = o) =>
                \/ \E k \in DOMAIN notes' : notes'[k].obj = o
                \/ Head(notes).obj = o /\ Head(notes).new = cache[o]
  <1>1. notes \in Seq(Note) /\ Len(notes) \in Nat /\ DOMAIN notes = 1..Len(notes)
    BY DEF TypeOK
  <1>2. /\ notes' \in Seq(Note)
        /\ DOMAIN notes' = 1..(Len(notes) - 1)
        /\ \A k \in DOMAIN notes' : notes'[k] = notes[k + 1] /\ k + 1 \in DOMAIN notes
        /\ \A k \in DOMAIN notes : k # 1 => k - 1 \in DOMAIN notes'
        /\ Head(notes) = notes[1] /\ 1 \in DOMAIN notes
    BY <1>1, TailShifts
  <1>3. ASSUME NEW k \in DOMAIN notes', IsLatest(k)'
        PROVE  IsLatest(k + 1)
    <2>1. SUFFICES ASSUME NEW j \in DOMAIN notes, j > k + 1
                   PROVE  notes[j].obj # notes[k + 1].obj
      BY DEF IsLatest
    <2>2. j - 1 \in DOMAIN notes' /\ j - 1 > k /\ (j - 1) + 1 = j
      BY <1>1, <1>2, <2>1
    <2>. QED  BY <1>2, <1>3, <2>2 DEF IsLatest
  <1>4. NotesTellCache'
    BY <1>2, <1>3 DEF NotesTellCache
  <1>5. ASSUME NEW o \in Object, NEW k \in DOMAIN notes, notes[k].obj = o
        PROVE  \/ \E j \in DOMAIN notes' : notes'[j].obj = o
               \/ Head(notes).obj = o /\ Head(notes).new = cache[o]
    <2>1. CASE k # 1
      <3>1. k - 1 \in DOMAIN notes' /\ (k - 1) + 1 = k
        BY <1>1, <1>2, <2>1
      <3>. QED  BY <1>2, <1>5, <3>1
    <2>2. CASE k = 1 /\ IsLatest(1)
      BY <1>2, <1>5, <2>2 DEF NotesTellCache
    <2>3. CASE k = 1 /\ ~IsLatest(1)
      <3>1. PICK j \in DOMAIN notes : j > 1 /\ notes[j].obj = o
        BY <1>5, <2>3 DEF IsLatest
      <3>2. j - 1 \in DOMAIN notes' /\ (j - 1) + 1 = j
        BY <1>1, <1>2, <3>1
      <3>. QED  BY <1>2, <3>1, <3>2
    <2>. QED  BY <2>1, <2>2, <2>3
  <1>6. Head(notes) \in Note /\ Head(notes).old # Head(notes).new
    BY <1>1, <1>2, ElementIn DEF NotesTellCache
  <1>. QED  BY <1>2, <1>4, <1>5, <1>6

\* When nothing but the queue and the notifications changes, an object stays up to
\* date or pending if what made it pending is still there.
LEMMA StaysUpToDate ==
  ASSUME MatchedUpToDate, UNCHANGED <<cache, batch, port, givenUp>>,
         wq.down => wq'.down,
         \A o \in Object :
           ~wq'.down /\ Is(cache[o], "match") /\ Pending(o) => Pending(o)'
  PROVE  MatchedUpToDate'
  BY DEF MatchedUpToDate, UpToDate, EntriesOf, Is

\* An object is pending because of a notification or of an item.
LEMMA PendingBy ==
  ASSUME NEW o
  PROVE  /\ Pending(o) <=> \/ \E k \in DOMAIN notes : notes[k].obj = o
                           \/ \E i \in InQueue(wq) \cup taken : i[1] = o
         /\ Pending(o)' <=> \/ \E k \in DOMAIN notes' : notes'[k].obj = o
                            \/ \E i \in InQueue(wq') \cup taken' : i[1] = o
  BY DEF Pending, PendingItems, InQueue

-----------------------------------------------------------------------------
(* Each step keeps the invariant.                                           *)

\* A change of the cluster makes the object pending.
LEMMA ChangeKeeps ==
  ASSUME IInv, NEW o \in Object, NEW version \in Version, Change(o, version)
  PROVE  IInv'
  <1>. DEFINE note == [obj |-> o, old |-> cache[o], new |-> version]
  <1>1. /\ cache' = [cache EXCEPT ![o] = version] /\ version # cache[o]
        /\ notes' = Append(notes, note) /\ givenUp' = givenUp \ {o}
        /\ changes < MaxChanges /\ changes' = changes + 1
        /\ UNCHANGED <<deleting, wq, taken, pc, batch, timedOut, port, undeleted, overtaken>>
    BY DEF Change, workerVars
  <1>2. note \in Note
    BY DEF IInv, TypeOK, Note
  <1>3. /\ notes \in Seq(Note) /\ Len(notes) \in Nat
        /\ notes' \in Seq(Note)
        /\ DOMAIN notes' = DOMAIN notes \cup {Len(notes) + 1}
        /\ notes'[Len(notes) + 1] = note
        /\ \A k \in DOMAIN notes : notes'[k] = notes[k] /\ k < Len(notes) + 1 /\ k \in Nat
    BY <1>1, <1>2, AppendAdds DEF IInv, TypeOK
  <1>4. cache' \in [Object -> Version] /\ changes' \in 0..MaxChanges
    BY <1>1, ChangeLimit DEF IInv, TypeOK
  <1>5. TypeOK'
    BY <1>1, <1>3, <1>4 DEF IInv, TypeOK
  <1>6. NotesTellCache'
    <2>1. SUFFICES ASSUME NEW k \in DOMAIN notes'
                   PROVE  /\ notes'[k].old # notes'[k].new
                          /\ IsLatest(k)' => notes'[k].new = cache'[notes'[k].obj]
      BY DEF NotesTellCache
    <2>2. CASE k = Len(notes) + 1
      BY <1>1, <1>3, <2>2 DEF IInv, TypeOK
    <2>3. CASE k \in DOMAIN notes
      <3>1. notes'[k] = notes[k] /\ notes[k] \in Note
        BY <1>3, <2>3, ElementIn
      <3>2. ASSUME IsLatest(k)'
            PROVE  IsLatest(k) /\ notes[k].obj # o
        BY <1>3, <2>3, <3>2 DEF IsLatest
      <3>3. \A p \in Object : p # o => cache'[p] = cache[p]
        BY <1>1 DEF IInv, TypeOK
      <3>4. notes[k].obj \in Object
        BY <3>1 DEF Note
      <3>. QED  BY <2>3, <3>1, <3>2, <3>3, <3>4 DEF IInv, NotesTellCache
    <2>. QED  BY <1>3, <2>2, <2>3
  <1>7. DeletesHead'
    BY <1>1, <1>3 DEF IInv, DeletesHead
  <1>8. MatchedUpToDate'
    <2>1. SUFFICES ASSUME ~wq.down, NEW p \in Object, Is(cache'[p], "match")
                   PROVE  Pending(p)' \/ UpToDate(p)'
      BY <1>1 DEF MatchedUpToDate, Is
    <2>2. CASE p = o
      <3>1. notes'[Len(notes) + 1].obj = o
        BY <1>3
      <3>. QED  BY <1>3, <2>2, <3>1, PendingBy
    <2>3. CASE p # o
      <3>1. cache'[p] = cache[p]
        BY <1>1, <2>3 DEF IInv, TypeOK
      <3>2. Pending(p) \/ UpToDate(p)
        BY <2>1, <3>1 DEF IInv, MatchedUpToDate
      <3>3. Pending(p) => Pending(p)'
        BY <1>1, <1>3, PendingBy
      <3>4. UpToDate(p) => UpToDate(p)'
        BY <1>1, <2>3, <3>1 DEF UpToDate, EntriesOf
      <3>. QED  BY <3>2, <3>3, <3>4
    <2>. QED  BY <2>2, <2>3
  <1>. QED  BY <1>5, <1>6, <1>7, <1>8 DEF IInv

\* AddFunc and UpdateFunc turn a notification into an item, unless the update does
\* not change the entity.
LEMMA AddOrUpdateKeeps ==
  ASSUME IInv, NEW note, AddFunc(note) \/ UpdateFunc(note)
  PROVE  IInv'
  <1>1. /\ notes # <<>> /\ deleting = None /\ note = Head(notes)
        /\ notes' = Tail(notes)
        /\ UNCHANGED <<cache, changes, deleting, taken, pc, batch, timedOut, port,
                       givenUp, undeleted, overtaken>>
    BY DEF AddFunc, UpdateFunc, Handling, informerVars, workerVars, historyVars
  <1>2. /\ notes' \in Seq(Note) /\ NotesTellCache'
        /\ note \in Note /\ note.old # note.new
        /\ \A o \in Object :
              (\E k \in DOMAIN notes : notes[k].obj = o) =>
                \/ \E k \in DOMAIN notes' : notes'[k].obj = o
                \/ note.obj = o /\ note.new = cache[o]
    BY <1>1, HeadHandled DEF IInv
  <1>3. \A action \in {"create", "update"} : <<note.obj, action>> \in Item
    BY <1>2 DEF Note, Item
  <1>4. \/ wq' = wq
        \/ \E action \in {"create", "update"} : wq' = Add(wq, {<<note.obj, action>>})
    BY DEF AddFunc, UpdateFunc
  <1>5. wq \in Queue
    BY DEF IInv, TypeOK, Queue
  <1>6. /\ wq' \in Queue /\ wq'.down = wq.down
        /\ ~wq.down => InQueue(wq) \subseteq InQueue(wq')
    BY <1>3, <1>4, <1>5, AddKeeps
  <1>7. ASSUME ~wq.down, ~(\E i \in InQueue(wq') : i[1] = note.obj)
        PROVE  ~Is(note.new, "match")
    <2>1. \A action \in {"create", "update"} : wq' # Add(wq, {<<note.obj, action>>})
      BY <1>3, <1>5, <1>7, AddKeeps
    <2>2. note.new # Absent /\ ~ShouldSendUpdateEvent(note.old, note.new)
      BY <2>1 DEF AddFunc, UpdateFunc
    <2>. QED  BY <1>2, <2>2 DEF ShouldSendUpdateEvent, EntityOf, Is
  <1>8. TypeOK'
    BY <1>1, <1>2, <1>6 DEF IInv, TypeOK, Queue
  <1>9. DeletesHead'
    BY <1>1 DEF DeletesHead
  <1>10. MatchedUpToDate'
    <2>1. ASSUME NEW o \in Object, ~wq'.down, Is(cache[o], "match"), Pending(o)
          PROVE  Pending(o)'
      <3>1. CASE \E k \in DOMAIN notes' : notes'[k].obj = o
        BY <3>1, PendingBy
      <3>2. CASE \E i \in InQueue(wq) \cup taken : i[1] = o
        BY <1>1, <1>6, <2>1, <3>2, PendingBy
      <3>3. CASE note.obj = o /\ note.new = cache[o]
        BY <1>6, <1>7, <2>1, <3>3, PendingBy
      <3>. QED  BY <1>2, <2>1, <3>1, <3>2, <3>3, PendingBy
    <2>. QED  BY <1>1, <1>6, <2>1, StaysUpToDate DEF IInv
  <1>. QED  BY <1>2, <1>8, <1>9, <1>10 DEF IInv

\* DeleteFunc's search and its deletion touch only an object whose latest
\* notification says it is gone, or one that has a later notification.
LEMMA DeleteKeeps ==
  ASSUME IInv, (\E note : DeleteFunc(note)) \/ DeleteFound
  PROVE  IInv'
  <1>. DEFINE gone == Head(notes)
  <1>1. /\ notes # <<>> /\ gone.new = Absent
        /\ UNCHANGED <<cache, changes, wq, taken, pc, batch, timedOut, givenUp>>
    BY DEF DeleteFunc, DeleteFound, Handling, IInv, DeletesHead, informerVars, workerVars
  <1>2. gone \in Note
    BY <1>1, TailShifts, ElementIn DEF IInv, TypeOK
  <1>3. \/ notes' = notes /\ deleting = None /\ deleting' = gone.obj /\ port' = port
        \/ notes' = Tail(notes) /\ deleting' = None /\ port' = port
        \/ /\ notes' = Tail(notes) /\ deleting' = None
           /\ port' = [port EXCEPT ![gone.obj] = Absent]
    BY DEF DeleteFunc, DeleteFound, Handling, IInv, DeletesHead
  <1>4. undeleted' \in SUBSET Object /\ overtaken' \in SUBSET Object
    BY <1>2 DEF DeleteFunc, DeleteFound, Handling, IInv, TypeOK, Overtakes, Note, DeletesHead
  <1>5. gone.obj \in Object /\ gone.obj # None
    BY <1>2, NoContent DEF Note
  <1>6. CASE notes' = notes
    <2>1. \/ deleting' = gone.obj /\ port' = port
          \/ notes = Tail(notes)
      BY <1>3, <1>6
    <2>2. notes # Tail(notes)
      BY <1>1, TailShifts DEF IInv, TypeOK
    <2>3. TypeOK' /\ NotesTellCache' /\ DeletesHead'
      BY <1>1, <1>4, <1>5, <1>6, <2>1, <2>2
         DEF IInv, TypeOK, NotesTellCache, IsLatest, DeletesHead
    <2>4. MatchedUpToDate'
      BY <1>1, <1>6, <2>1, <2>2, PendingBy, StaysUpToDate DEF IInv
    <2>. QED  BY <2>3, <2>4 DEF IInv
  <1>7. CASE notes' = Tail(notes)
    <2>1. /\ notes' \in Seq(Note) /\ NotesTellCache'
          /\ \A o \in Object :
                (\E k \in DOMAIN notes : notes[k].obj = o) =>
                  \/ \E k \in DOMAIN notes' : notes'[k].obj = o
                  \/ gone.obj = o /\ gone.new = cache[o]
      BY <1>1, <1>7, HeadHandled DEF IInv
    <2>2. notes' # notes
      BY <1>1, <1>7, TailShifts DEF IInv, TypeOK
    <2>3. /\ deleting' = None
          /\ port' = port \/ port' = [port EXCEPT ![gone.obj] = Absent]
      BY <1>3, <2>2
    <2>4. port' \in [Object -> Version] /\ \A o \in Object : o # gone.obj => port'[o] = port[o]
      BY <2>3 DEF IInv, TypeOK, Version
    <2>5. TypeOK' /\ DeletesHead'
      BY <1>1, <1>4, <2>1, <2>3, <2>4 DEF IInv, TypeOK, DeletesHead
    <2>6. ASSUME NEW o \in Object, ~wq.down, Is(cache[o], "match")
          PROVE  Pending(o)' \/ UpToDate(o)'
      <3>1. Pending(o) => Pending(o)'
        BY <1>1, <2>1, <2>6, PendingBy DEF Is
      <3>2. CASE o = gone.obj
        <4>1. \E k \in DOMAIN notes : notes[k].obj = o
          BY <1>1, <3>2, TailShifts DEF IInv, TypeOK
        <4>. QED  BY <3>1, <4>1, PendingBy
      <3>3. CASE o # gone.obj
        BY <1>1, <2>4, <2>6, <3>1, <3>3 DEF IInv, MatchedUpToDate, UpToDate, EntriesOf
      <3>. QED  BY <3>2, <3>3
    <2>7. MatchedUpToDate'
      BY <1>1, <2>6 DEF MatchedUpToDate, Is
    <2>. QED  BY <2>1, <2>5, <2>7 DEF IInv
  <1>. QED  BY <1>3, <1>6, <1>7

\* The retries, the clock, the stop and the poller leave the objects alone; what
\* leaves the queue by them stays in the poller's hands.
LEMMA SurroundingsKeep ==
  ASSUME IInv,
         \/ \E i \in Item : RetryDue(i) \/ PollerGet(i)
         \/ BatchTimeout \/ Shutdown \/ AwaitItem \/ GetTimeout
         \/ UNCHANGED vars
  PROVE  IInv'
  <1>1. /\ UNCHANGED <<cache, changes, notes, deleting, batch, port, givenUp,
                       undeleted, overtaken>>
        /\ wq \in Queue
    BY DEF RetryDue, PollerGet, BatchTimeout, Shutdown, AwaitItem, GetTimeout, vars,
           informerVars, listenerVars, workerVars, historyVars, IInv, TypeOK, Queue
  <1>2. CASE \E i \in Item : RetryDue(i)
    <2>1. PICK i \in Item : RetryDue(i)
      BY <1>2
    <2>2. wq' = DelayOver(wq, i) /\ UNCHANGED <<taken, pc, timedOut>>
      BY <2>1 DEF RetryDue, workerVars
    <2>3. /\ wq' \in Queue /\ wq'.down = wq.down
          /\ ~wq.down => InQueue(wq) \cup taken \subseteq InQueue(wq') \cup taken'
      BY <1>1, <2>2, DelayKeeps
    <2>. QED  BY <1>1, <2>2, <2>3, PendingBy, StaysUpToDate
              DEF IInv, TypeOK, NotesTellCache, IsLatest, DeletesHead, Queue
  <1>3. CASE \E i \in Item : PollerGet(i)
    <2>1. PICK i \in Item : PollerGet(i)
      BY <1>3
    <2>2. wq' = Get(wq, i) /\ taken' = taken \cup {i} /\ UNCHANGED <<pc, timedOut>>
      BY <2>1 DEF PollerGet
    <2>3. /\ wq' \in Queue /\ wq'.down = wq.down
          /\ InQueue(wq) \cup taken \subseteq InQueue(wq') \cup taken'
      BY <1>1, <2>2, GetKeeps
    <2>. QED  BY <1>1, <2>2, <2>3, PendingBy, StaysUpToDate
              DEF IInv, TypeOK, NotesTellCache, IsLatest, DeletesHead, Queue
  <1>4. CASE Shutdown
    <2>1. wq' \in Queue /\ wq'.down /\ UNCHANGED <<taken, pc, timedOut>>
      BY <1>1, <1>4, ShutDownKeeps, RequeueLimit DEF Shutdown, workerVars, Queue
    <2>. QED  BY <1>1, <2>1, StaysUpToDate
              DEF IInv, TypeOK, NotesTellCache, IsLatest, DeletesHead, Queue
  <1>5. CASE BatchTimeout \/ AwaitItem \/ GetTimeout \/ UNCHANGED vars
    <2>1. /\ UNCHANGED <<wq, taken>>
          /\ pc' \in {"check", "get", "ended"} /\ timedOut' \in BOOLEAN
      BY <1>5 DEF BatchTimeout, AwaitItem, GetTimeout, vars, workerVars, IInv, TypeOK
    <2>. QED  BY <1>1, <2>1, PendingBy, StaysUpToDate
              DEF IInv, TypeOK, NotesTellCache, IsLatest, DeletesHead, Queue
  <1>. QED  BY <1>2, <1>3, <1>4, <1>5

\* A flush leaves each object written, pending or given up.
LEMMA FlushKeeps ==
  ASSUME IInv, Flush \/ ReceiveShutdown
  PROVE  IInv'
  <1>1. PICK allowRequeue \in BOOLEAN : ProcessBatch(allowRequeue)
    BY DEF Flush, ReceiveShutdown
  <1>2. /\ UNCHANGED <<cache, changes, notes, deleting, taken, undeleted, overtaken>>
        /\ batch' = <<>> /\ timedOut' = FALSE
    BY <1>1 DEF ProcessBatch, informerVars, listenerVars
  <1>3. pc' \in {"check", "get", "ended"}
    BY DEF Flush, ReceiveShutdown, IInv, TypeOK
  <1>4. /\ wq' \in Queue /\ wq'.down = wq.down
        /\ port' \in [Object -> Version] /\ givenUp' \in SUBSET Object
        /\ InQueue(wq) \subseteq InQueue(wq')
        /\ \A o \in Object :
              IF EntriesOf(o) = {}
                THEN port'[o] = port[o] /\ (o \in givenUp' <=> o \in givenUp)
                ELSE LET k == Last(EntriesOf(o))
                     IN \/ port'[o] = batch[k].content
                        \/ o \in givenUp'
                        \/ ~wq.down => batch[k].item \in InQueue(wq')
    BY <1>1, FlushEffect DEF IInv
  <1>5. TypeOK' /\ NotesTellCache' /\ DeletesHead'
    <2>1. batch' \in Seq(Entry)
      BY <1>2, EmptyIn
    <2>2. TypeOK'
      BY <1>2, <1>3, <1>4, <2>1 DEF IInv, TypeOK, Queue
    <2>. QED  BY <1>2, <2>2 DEF IInv, NotesTellCache, IsLatest, DeletesHead
  <1>6. ASSUME NEW o \in Object, ~wq.down, Is(cache[o], "match")
        PROVE  Pending(o)' \/ UpToDate(o)'
    <2>1. EntriesOf(o)' = {}
      BY <1>2 DEF EntriesOf
    <2>2. Pending(o) => Pending(o)'
      BY <1>2, <1>4, PendingBy
    <2>3. Pending(o) \/ UpToDate(o)
      BY <1>6 DEF IInv, MatchedUpToDate
    <2>4. CASE EntriesOf(o) = {}
      BY <1>2, <1>4, <2>1, <2>2, <2>3, <2>4 DEF UpToDate
    <2>5. CASE EntriesOf(o) # {} /\ UpToDate(o)
      <3>. DEFINE k == Last(EntriesOf(o))
      <3>1. k \in EntriesOf(o) /\ batch[k].item[1] = o
        <4>1. k \in EntriesOf(o)
          BY <2>5, EntryPlaces DEF IInv, TypeOK
        <4>. QED  BY <4>1 DEF EntriesOf
      <3>2. batch[k].content = cache[o]
        BY <2>5 DEF UpToDate
      <3>3. \/ port'[o] = batch[k].content
            \/ o \in givenUp'
            \/ batch[k].item \in InQueue(wq')
        BY <1>4, <1>6, <2>5
      <3>4. CASE port'[o] = batch[k].content \/ o \in givenUp'
        BY <1>2, <2>1, <3>2, <3>4 DEF UpToDate
      <3>5. CASE batch[k].item \in InQueue(wq')
        BY <3>1, <3>5, PendingBy
      <3>. QED  BY <3>3, <3>4, <3>5
    <2>. QED  BY <2>2, <2>3, <2>4, <2>5
  <1>7. MatchedUpToDate'
    BY <1>2, <1>4, <1>6 DEF MatchedUpToDate, Is
  <1>. QED  BY <1>5, <1>7 DEF IInv

\* An object that is gone, not selected or not mapped needs no write.
LEMMA NotMatchedKeeps ==
  ASSUME IInv, NEW i \in Item, NoEntities(i) \/ DeleteExcluded(i) \/ FailItem(i)
  PROVE  IInv'
  <1>. DEFINE o == i[1]
  <1>1. /\ UNCHANGED <<cache, changes, notes, deleting, batch, timedOut, givenUp>>
        /\ pc' = "check" /\ taken' = taken \ {i}
    BY DEF NoEntities, DeleteExcluded, FailItem, Receive, informerVars, listenerVars
  <1>2. o \in Object /\ {i} \in SUBSET Item
    BY DEF Item
  <1>3. /\ ~Is(cache[o], "match")
        /\ port' \in [Object -> Version] /\ \A p \in Object \ {o} : port'[p] = port[p]
    BY <1>2 DEF NoEntities, DeleteExcluded, FailItem, Is, IInv, TypeOK, Version
  <1>4. undeleted' \in SUBSET Object /\ overtaken' \in SUBSET Object
    BY <1>2 DEF NoEntities, DeleteExcluded, FailItem, Overtakes, IInv, TypeOK
  <1>5. wq \in Queue
    BY DEF IInv, TypeOK, Queue
  <1>6. /\ wq' \in Queue /\ wq'.down = wq.down
        /\ InQueue(wq) \subseteq InQueue(wq')
    <2>1. CASE wq' = Complete(wq, {i})
      BY <1>2, <1>5, <2>1, CompleteKeeps
    <2>2. CASE wq' = Requeue(wq, {i}) /\ ~(wq.failures[i] >= MaxNumRequeues)
      <3>1. wq.failures[i] < MaxNumRequeues
        BY <1>5, <2>2, RequeueLimit DEF Queue, QueueType
      <3>. QED  BY <1>2, <1>5, <2>2, <3>1, RequeueKeeps
    <2>. QED  BY <2>1, <2>2 DEF NoEntities, DeleteExcluded, FailItem
  <1>7. TypeOK' /\ NotesTellCache' /\ DeletesHead'
    BY <1>1, <1>3, <1>4, <1>6
       DEF IInv, TypeOK, NotesTellCache, IsLatest, DeletesHead, Queue
  <1>8. ASSUME NEW p \in Object, ~wq.down, Is(cache[p], "match")
        PROVE  Pending(p)' \/ UpToDate(p)'
    <2>1. p # o
      BY <1>3, <1>8
    <2>2. Pending(p) => Pending(p)'
      BY <1>1, <1>6, <2>1, PendingBy
    <2>3. UpToDate(p) => UpToDate(p)'
      BY <1>1, <1>3, <2>1 DEF UpToDate, EntriesOf
    <2>. QED  BY <1>8, <2>2, <2>3 DEF IInv, MatchedUpToDate
  <1>9. MatchedUpToDate'
    BY <1>1, <1>6, <1>8 DEF MatchedUpToDate, Is
  <1>. QED  BY <1>7, <1>9 DEF IInv

\* The item's object is in the batch, last, with what the cache holds.
LEMMA DeferKeeps ==
  ASSUME IInv, NEW i \in Item, DeferToBatch(i)
  PROVE  IInv'
  <1>. DEFINE o == i[1]
              e == [item |-> i, content |-> cache[o]]
              n == Len(batch) + 1
  <1>1. /\ UNCHANGED <<cache, changes, notes, deleting, wq, timedOut, port, givenUp,
                       undeleted, overtaken>>
        /\ pc' = "check" /\ taken' = taken \ {i}
        /\ batch' = Append(batch, e) /\ Is(cache[o], "match")
    BY DEF DeferToBatch, Receive, informerVars, listenerVars
  <1>2. o \in Object /\ e \in Entry
    BY <1>1 DEF Item, Entry, Is, IInv, TypeOK, Version
  <1>3. /\ batch' \in Seq(Entry) /\ n \in Nat
        /\ DOMAIN batch' = DOMAIN batch \cup {n} /\ batch'[n] = e
        /\ \A k \in DOMAIN batch : batch'[k] = batch[k] /\ k < n /\ k \in Nat
    BY <1>1, <1>2, AppendAdds DEF IInv, TypeOK
  <1>4. e.item[1] = o /\ e.content = cache[o]
    OBVIOUS
  <1>. HIDE DEF e, n
  <1>5. TypeOK' /\ NotesTellCache' /\ DeletesHead'
    BY <1>1, <1>3 DEF IInv, TypeOK, NotesTellCache, IsLatest, DeletesHead
  <1>6. ASSUME NEW p \in Object, ~wq.down, Is(cache[p], "match")
        PROVE  Pending(p)' \/ UpToDate(p)'
    <2>1. CASE p = o
      <3>1. n \in EntriesOf(o)' /\ \A k \in EntriesOf(o)' : k <= n
        BY <1>3, <1>4 DEF EntriesOf
      <3>2. Last(EntriesOf(o)') = n
        <4>. DEFINE S == EntriesOf(o)'
                    l == Last(S)
        <4>1. \A k \in S : k \in Nat
          BY <1>3 DEF EntriesOf
        <4>. HIDE DEF S
        <4>2. l \in S /\ \A k \in S : k <= l
          BY <3>1 DEF Last, S
        <4>3. l <= n /\ n <= l /\ l \in Nat
          BY <3>1, <4>1, <4>2 DEF S
        <4>4. l = n
          BY <1>3, <4>3
        <4>. QED  BY <4>4 DEF S
      <3>. QED  BY <1>1, <1>3, <1>4, <2>1, <3>1, <3>2 DEF UpToDate
    <2>2. CASE p # o
      <3>1. EntriesOf(p)' = EntriesOf(p)
        BY <1>3, <1>4, <2>2 DEF EntriesOf
      <3>2. \A k \in EntriesOf(p) : batch'[k] = batch[k]
        BY <1>3 DEF EntriesOf
      <3>3. EntriesOf(p) # {} => Last(EntriesOf(p)) \in EntriesOf(p)
        BY EntryPlaces DEF IInv, TypeOK
      <3>4. UpToDate(p) => UpToDate(p)'
        BY <1>1, <3>1, <3>2, <3>3 DEF UpToDate
      <3>5. Pending(p) => Pending(p)'
        BY <1>1, <2>2, PendingBy
      <3>. QED  BY <1>6, <3>4, <3>5 DEF IInv, MatchedUpToDate
    <2>. QED  BY <2>1, <2>2
  <1>7. MatchedUpToDate'
    BY <1>1, <1>6 DEF MatchedUpToDate, Is
  <1>. QED  BY <1>5, <1>7 DEF IInv

-----------------------------------------------------------------------------
(* Objects that leave: what was deleted or is dropped by the selector.      *)

\* A notification whose handling deletes the entity, or puts an update in the queue.
Clears(note) ==
  \/ note.new = Absent
  \/ note.old # Absent /\ ShouldSendUpdateEvent(note.old, note.new)

\* The object has no entity and gets none from the batch, or the property excepts it.
Left(o) ==
  \/ port[o] = Absent /\ EntriesOf(o) = {}
  \/ o \in undeleted \cup overtaken

HasNote(o) == \E k \in DOMAIN notes : notes[k].obj = o
ToBeCleared(o) ==
  \/ <<o, "update">> \in InQueue(wq) \cup taken
  \/ \E k \in DOMAIN notes : notes[k].obj = o /\ Clears(notes[k])

Dropped(version) == Is(version, "exclude") \/ Is(version, "none")

\* A deleted object has left or has a notification, the latest of which says so; a
\* dropped one has left, or has an update or a notification that clears it: a create
\* item would not.
Leaving(o) ==
  /\ cache[o] = Absent => Left(o) \/ HasNote(o)
  /\ Dropped(cache[o]) => Left(o) \/ ToBeCleared(o)

LeaversLeave == ~wq.down => \A o \in Object : Leaving(o)

\* A step that keeps the cache and the notifications, and takes no item away.
LEMMA KeepsLeaving ==
  ASSUME NEW o, Leaving(o), UNCHANGED <<cache, notes>>,
         <<o, "update">> \in InQueue(wq) \cup taken =>
           <<o, "update">> \in InQueue(wq') \cup taken',
         Left(o) => Left(o)'
  PROVE  Leaving(o)'
  BY DEF Leaving, HasNote, ToBeCleared, Dropped, Is, Clears, ShouldSendUpdateEvent, EntityOf

\* An object that is gone and has a notification has one that says it is gone.
LEMMA GoneIsTold ==
  ASSUME IInv, NEW o \in Object, cache[o] = Absent, HasNote(o)
  PROVE  \E k \in DOMAIN notes : notes[k].obj = o /\ Clears(notes[k])
  <1>. DEFINE S == {k \in DOMAIN notes : notes[k].obj = o}
  <1>1. notes \in Seq(Note) /\ Len(notes) \in Nat /\ DOMAIN notes = 1..Len(notes)
    BY DEF IInv, TypeOK
  <1>2. S \in SUBSET (1..Len(notes)) /\ S # {}
    BY <1>1 DEF HasNote
  <1>3. PICK l \in S : \A k \in S : k <= l
    BY <1>1, <1>2, LastIsGreatest
  <1>4. IsLatest(l)
    <2>1. ASSUME NEW j \in DOMAIN notes, j > l PROVE j \notin S
      BY <1>1, <1>3, <2>1
    <2>. QED  BY <1>3, <2>1 DEF IsLatest
  <1>. QED  BY <1>3, <1>4 DEF IInv, NotesTellCache, Clears

LEMMA ChangeLeaves ==
  ASSUME IInv, LeaversLeave, NEW o \in Object, NEW version \in Version, Change(o, version)
  PROVE  LeaversLeave'
  <1>. DEFINE note == [obj |-> o, old |-> cache[o], new |-> version]
              n == Len(notes) + 1
  <1>1. /\ cache' = [cache EXCEPT ![o] = version] /\ ~wq.down
        /\ notes' = Append(notes, note)
        /\ UNCHANGED <<wq, taken, batch, port, undeleted, overtaken>>
    BY DEF Change, workerVars
  <1>2. note \in Note /\ note.obj = o /\ note.old = cache[o] /\ note.new = version
    BY DEF IInv, TypeOK, Note
  <1>. HIDE DEF note
  <1>3. /\ DOMAIN notes' = DOMAIN notes \cup {n} /\ notes'[n] = note
        /\ \A k \in DOMAIN notes : notes'[k] = notes[k]
    BY <1>1, <1>2, AppendAdds DEF IInv, TypeOK
  <1>. HIDE DEF n
  <1>4. \A p \in Object : cache'[p] = IF p = o THEN version ELSE cache[p]
    BY <1>1 DEF IInv, TypeOK
  <1>5. \A p \in Object : /\ Left(p) => Left(p)'
                          /\ HasNote(p) => HasNote(p)'
                          /\ ToBeCleared(p) => ToBeCleared(p)'
    BY <1>1, <1>3
       DEF Left, EntriesOf, HasNote, ToBeCleared, Clears, ShouldSendUpdateEvent, EntityOf, Is
  <1>6. HasNote(o)'
    BY <1>2, <1>3 DEF HasNote
  <1>7. ASSUME Dropped(version) PROVE (Left(o) \/ ToBeCleared(o))'
    <2>1. CASE cache[o] = Absent
      <3>1. Left(o) \/ HasNote(o)
        BY <1>1, <2>1 DEF LeaversLeave, Leaving
      <3>2. HasNote(o) => ToBeCleared(o)
        BY <2>1, GoneIsTold DEF ToBeCleared
      <3>. QED  BY <1>5, <3>1, <3>2
    <2>2. CASE Dropped(cache[o])
      BY <1>1, <1>5, <2>2 DEF LeaversLeave, Leaving
    <2>3. CASE cache[o] # Absent /\ ~Dropped(cache[o])
      <3>1. Is(cache[o], "match") \/ Is(cache[o], "fail")
        BY <2>3, MappingKinds DEF Dropped, Is, IInv, TypeOK, Version
      <3>2. ShouldSendUpdateEvent(cache[o], version)
        BY <1>7, <3>1, NoContent DEF ShouldSendUpdateEvent, Dropped, Is, EntityOf
      <3>. QED  BY <1>2, <1>3, <3>2, <2>3
                DEF ToBeCleared, Clears, ShouldSendUpdateEvent, EntityOf, Is
    <2>. QED  BY <2>1, <2>2, <2>3
  <1>8. ASSUME NEW p \in Object PROVE Leaving(p)'
    <2>1. CASE p = o
      BY <1>4, <1>6, <1>7, <2>1 DEF Leaving, Dropped, Is
    <2>2. CASE p # o
      BY <1>1, <1>4, <1>5, <2>2 DEF LeaversLeave, Leaving, Dropped, Is
    <2>. QED  BY <2>1, <2>2
  <1>. QED  BY <1>8 DEF LeaversLeave

\* Handling the first notification takes no other one away.
LEMMA OthersStay ==
  ASSUME IInv, notes # <<>>, notes' = Tail(notes), NEW o
  PROVE  /\ HasNote(o) => HasNote(o)' \/ Head(notes).obj = o
         /\ (\E k \in DOMAIN notes : notes[k].obj = o /\ Clears(notes[k])) =>
              \/ \E k \in DOMAIN notes' : notes'[k].obj = o /\ Clears(notes'[k])
              \/ Head(notes).obj = o /\ Clears(Head(notes))
  <1>1. notes \in Seq(Note)
    BY DEF IInv, TypeOK
  <1>2. ASSUME NEW k \in DOMAIN notes, k # 1
        PROVE  k - 1 \in DOMAIN notes' /\ notes'[k - 1] = notes[k]
    <2>1. k - 1 \in DOMAIN notes' /\ (k - 1) + 1 = k
      BY <1>1, <1>2, TailShifts
    <2>2. notes'[k - 1] = notes[(k - 1) + 1]
      BY <1>1, <2>1, TailShifts
    <2>. QED  BY <2>1, <2>2
  <1>3. Head(notes) = notes[1]
    BY <1>1, TailShifts
  <1>. QED  BY <1>2, <1>3 DEF HasNote

LEMMA AddOrUpdateLeaves ==
  ASSUME IInv, LeaversLeave, NEW note, AddFunc(note) \/ UpdateFunc(note)
  PROVE  LeaversLeave'
  <1>1. /\ notes # <<>> /\ note = Head(notes) /\ notes' = Tail(notes)
        /\ UNCHANGED <<cache, taken, batch, port, undeleted, overtaken>>
    BY DEF AddFunc, UpdateFunc, Handling, informerVars, workerVars, historyVars
  <1>2. /\ note \in Note /\ note.old # note.new
        /\ \A o \in Object : HasNote(o) => HasNote(o)' \/ (note.obj = o /\ note.new = cache[o])
    <2>1. /\ note \in Note /\ note.old # note.new
          /\ \A o \in Object :
                (\E k \in DOMAIN notes : notes[k].obj = o) =>
                  \/ \E k \in DOMAIN notes' : notes'[k].obj = o
                  \/ note.obj = o /\ note.new = cache[o]
      BY <1>1, HeadHandled DEF IInv
    <2>. QED  BY <2>1, Zenon DEF HasNote
  <1>3. note.new # Absent
    BY <1>2 DEF AddFunc, UpdateFunc
  <1>4. \A action \in {"create", "update"} : <<note.obj, action>> \in Item
    BY <1>2 DEF Note, Item
  <1>5. wq \in Queue
    BY DEF IInv, TypeOK, Queue
  <1>6. \/ wq' = wq
        \/ \E action \in {"create", "update"} : wq' = Add(wq, {<<note.obj, action>>})
    BY DEF AddFunc, UpdateFunc
  <1>7. wq'.down = wq.down /\ (~wq.down => InQueue(wq) \subseteq InQueue(wq'))
    BY <1>4, <1>5, <1>6, AddKeeps
  <1>8. ~wq.down /\ Clears(note) => <<note.obj, "update">> \in InQueue(wq')
    <2>1. SUFFICES ASSUME ~wq.down, Clears(note)
                   PROVE  <<note.obj, "update">> \in InQueue(wq')
      OBVIOUS
    <2>2. wq' = Add(wq, {<<note.obj, "update">>})
      BY <1>3, <2>1 DEF AddFunc, UpdateFunc, Clears
    <2>. QED  BY <1>4, <1>5, <2>1, <2>2, AddKeeps
  <1>9. ASSUME ~wq'.down, NEW o \in Object PROVE Leaving(o)'
    <2>1. Leaving(o) /\ (Left(o) => Left(o)')
      BY <1>1, <1>7, <1>9 DEF LeaversLeave, Left, EntriesOf
    <2>2. cache[o] = Absent /\ HasNote(o) => HasNote(o)'
      BY <1>2, <1>3
    <2>3. ToBeCleared(o) => ToBeCleared(o)'
      <3>1. CASE <<o, "update">> \in InQueue(wq) \cup taken
        BY <1>1, <1>7, <1>9, <3>1 DEF ToBeCleared
      <3>2. CASE \E k \in DOMAIN notes' : notes'[k].obj = o /\ Clears(notes'[k])
        BY <3>2 DEF ToBeCleared, Clears, ShouldSendUpdateEvent, EntityOf, Is
      <3>3. CASE note.obj = o /\ Clears(note)
        BY <1>7, <1>8, <1>9, <3>3 DEF ToBeCleared
      <3>. QED  BY <1>1, <3>1, <3>2, <3>3, OthersStay DEF ToBeCleared
    <2>. QED  BY <1>1, <2>1, <2>2, <2>3 DEF Leaving, Dropped, Is
  <1>. QED  BY <1>9 DEF LeaversLeave

\* What the deletion finds, fails at or is overtaken by is one of the three cases.
LEMMA DeleteLeaves ==
  ASSUME IInv, LeaversLeave, (\E note : DeleteFunc(note)) \/ DeleteFound
  PROVE  LeaversLeave'
  <1>1. /\ notes # <<>> /\ Head(notes).new = Absent
        /\ UNCHANGED <<cache, wq, taken, batch>>
    BY DEF DeleteFunc, DeleteFound, Handling, IInv, DeletesHead, informerVars, workerVars
  <1>0. Head(notes) \in Note
    BY <1>1, TailShifts, ElementIn DEF IInv, TypeOK
  <1>2. PICK gone \in Note : gone = Head(notes) /\ gone.obj \in Object
    BY <1>0 DEF Note
  <1>3. \/ UNCHANGED <<notes, port, undeleted, overtaken>>
        \/ /\ notes' = Tail(notes)
           /\ \/ port[gone.obj] = Absent /\ port' = port
              \/ port' = [port EXCEPT ![gone.obj] = Absent]
           /\ overtaken' = Overtakes(gone.obj) /\ undeleted' = undeleted
        \/ /\ notes' = Tail(notes)
           /\ undeleted' = undeleted \cup {gone.obj} /\ UNCHANGED <<port, overtaken>>
    BY <1>2 DEF DeleteFunc, DeleteFound, Handling, IInv, DeletesHead
  <1>4. CASE UNCHANGED <<notes, port, undeleted, overtaken>>
    BY <1>1, <1>4, KeepsLeaving DEF LeaversLeave, Left, EntriesOf
  <1>5. CASE notes' = Tail(notes) /\ Left(gone.obj)'
             /\ (\A o \in Object : Left(o) => Left(o)')
    <2>1. ASSUME NEW o \in Object, ~wq.down, o # gone.obj PROVE Leaving(o)'
      <3>1. HasNote(o) => HasNote(o)'
        BY <1>1, <1>2, <1>5, <2>1, OthersStay
      <3>2. ToBeCleared(o) => ToBeCleared(o)'
        <4>1. (\E k \in DOMAIN notes : notes[k].obj = o /\ Clears(notes[k])) =>
                \E k \in DOMAIN notes' : notes'[k].obj = o /\ Clears(notes'[k])
          BY <1>1, <1>2, <1>5, <2>1, OthersStay
        <4>. QED  BY <1>1, <4>1
                  DEF ToBeCleared, Clears, ShouldSendUpdateEvent, EntityOf, Is
      <3>3. Leaving(o) /\ (Left(o) => Left(o)')
        BY <1>5, <2>1 DEF LeaversLeave
      <3>. QED  BY <1>1, <3>1, <3>2, <3>3 DEF Leaving, Dropped, Is
    <2>2. Leaving(gone.obj)'
      BY <1>5 DEF Leaving
    <2>3. \A o \in Object : ~wq.down => Leaving(o)'
      BY <2>1, <2>2, Zenon
    <2>. QED  BY <1>1, <2>3 DEF LeaversLeave
  <1>6. ASSUME notes' = Tail(notes),
               \/ /\ \/ port[gone.obj] = Absent /\ port' = port
                     \/ port' = [port EXCEPT ![gone.obj] = Absent]
                  /\ overtaken' = Overtakes(gone.obj) /\ undeleted' = undeleted
               \/ undeleted' = undeleted \cup {gone.obj} /\ UNCHANGED <<port, overtaken>>
        PROVE  Left(gone.obj)' /\ \A o \in Object : Left(o) => Left(o)'
    <2>1. port' = port \/ port' = [port EXCEPT ![gone.obj] = Absent]
      BY <1>6
    <2>2. undeleted \subseteq undeleted' /\ overtaken \subseteq overtaken'
      BY <1>6 DEF Overtakes
    <2>3. \A o \in Object : port'[o] = port[o] \/ port'[o] = Absent
      BY <2>1 DEF IInv, TypeOK
    <2>4. \A o \in Object : Left(o) => Left(o)'
      BY <1>1, <2>2, <2>3 DEF Left, EntriesOf
    <2>5. Left(gone.obj)'
      <3>1. CASE undeleted' = undeleted \cup {gone.obj}
        BY <1>2, <3>1 DEF Left
      <3>2. CASE port'[gone.obj] = Absent /\ overtaken' = Overtakes(gone.obj)
        <4>1. EntriesOf(gone.obj)' = EntriesOf(gone.obj)
          BY <1>1 DEF EntriesOf
        <4>2. EntriesOf(gone.obj) # {} => gone.obj \in overtaken'
          BY <3>2 DEF Overtakes
        <4>3. CASE EntriesOf(gone.obj) = {}
          BY <3>2, <4>1, <4>3 DEF Left
        <4>. QED  BY <4>2, <4>3 DEF Left
      <3>3. port'[gone.obj] = Absent \/ undeleted' = undeleted \cup {gone.obj}
        BY <1>2, <1>6 DEF IInv, TypeOK
      <3>. QED  BY <1>6, <3>1, <3>2, <3>3
    <2>. QED  BY <2>4, <2>5
  <1>. QED  BY <1>3, <1>4, <1>5, <1>6

\* The retries, the clock, the stop and the poller take no item away.
LEMMA SurroundingsLeave ==
  ASSUME IInv, LeaversLeave,
         \/ \E i \in Item : RetryDue(i) \/ PollerGet(i)
         \/ BatchTimeout \/ Shutdown \/ AwaitItem \/ GetTimeout
         \/ UNCHANGED vars
  PROVE  LeaversLeave'
  <1>1. /\ UNCHANGED <<cache, notes, batch, port, undeleted, overtaken>>
        /\ wq \in Queue
    BY DEF RetryDue, PollerGet, BatchTimeout, Shutdown, AwaitItem, GetTimeout, vars,
           informerVars, listenerVars, workerVars, historyVars, IInv, TypeOK, Queue
  <1>2. ~wq'.down => ~wq.down /\ InQueue(wq) \cup taken \subseteq InQueue(wq') \cup taken'
    <2>1. ASSUME NEW i \in Item, RetryDue(i)
          PROVE  ~wq'.down => ~wq.down
                               /\ InQueue(wq) \cup taken \subseteq InQueue(wq') \cup taken'
      BY <1>1, <2>1, DelayKeeps DEF RetryDue, workerVars
    <2>2. ASSUME NEW i \in Item, PollerGet(i)
          PROVE  wq'.down = wq.down
                 /\ InQueue(wq) \cup taken \subseteq InQueue(wq') \cup taken'
      BY <1>1, <2>2, GetKeeps DEF PollerGet
    <2>3. CASE Shutdown
      BY <1>1, <2>3, ShutDownKeeps, RequeueLimit DEF Shutdown, Queue
    <2>4. CASE BatchTimeout \/ AwaitItem \/ GetTimeout \/ UNCHANGED vars
      BY <2>4 DEF BatchTimeout, AwaitItem, GetTimeout, vars, workerVars
    <2>. QED  BY <2>1, <2>2, <2>3, <2>4
  <1>. QED  BY <1>1, <1>2, KeepsLeaving DEF LeaversLeave, Left, EntriesOf

\* A flush writes only what the batch holds.
LEMMA FlushLeaves ==
  ASSUME IInv, LeaversLeave, Flush \/ ReceiveShutdown
  PROVE  LeaversLeave'
  <1>1. PICK allowRequeue \in BOOLEAN : ProcessBatch(allowRequeue)
    BY DEF Flush, ReceiveShutdown
  <1>2. UNCHANGED <<cache, notes, taken, undeleted, overtaken>> /\ batch' = <<>>
    BY <1>1 DEF ProcessBatch, informerVars, listenerVars
  <1>3. /\ wq'.down = wq.down /\ InQueue(wq) \subseteq InQueue(wq')
        /\ \A o \in Object : EntriesOf(o) = {} => port'[o] = port[o]
    BY <1>1, FlushEffect DEF IInv
  <1>4. \A o \in Object : EntriesOf(o)' = {}
    BY <1>2 DEF EntriesOf
  <1>5. \A o \in Object : Left(o) => Left(o)'
    BY <1>2, <1>3, <1>4 DEF Left
  <1>. QED  BY <1>2, <1>3, <1>5, KeepsLeaving DEF LeaversLeave

\* Only a dropped object needs its update, which deletes the entity, fails for now, or
\* is given up.
LEMMA NotMatchedLeaves ==
  ASSUME IInv, LeaversLeave, NEW i \in Item,
         NoEntities(i) \/ DeleteExcluded(i) \/ FailItem(i)
  PROVE  LeaversLeave'
  <1>. DEFINE o == i[1]
  <1>1. UNCHANGED <<cache, notes, batch>> /\ taken' = taken \ {i}
    BY DEF NoEntities, DeleteExcluded, FailItem, Receive, informerVars, listenerVars
  <1>2. /\ o \in Object /\ {i} \in SUBSET Item
        /\ i = <<o, "create">> \/ i = <<o, "update">>
    BY DEF Item
  <1>3. wq \in Queue
    BY DEF IInv, TypeOK, Queue
  <1>4. /\ wq'.down = wq.down /\ InQueue(wq) \subseteq InQueue(wq')
        /\ wq' = Requeue(wq, {i}) /\ ~(wq.failures[i] >= MaxNumRequeues) /\ ~wq.down =>
             i \in InQueue(wq')
    <2>1. CASE wq' = Requeue(wq, {i}) /\ ~(wq.failures[i] >= MaxNumRequeues)
      <3>1. wq.failures[i] < MaxNumRequeues
        BY <1>3, <2>1, RequeueLimit DEF Queue, QueueType
      <3>. QED  BY <1>2, <1>3, <2>1, <3>1, RequeueKeeps
    <2>2. CASE wq' = Complete(wq, {i}) /\ ~(wq' = Requeue(wq, {i})
                 /\ ~(wq.failures[i] >= MaxNumRequeues))
      BY <1>2, <1>3, <2>2, CompleteKeeps
    <2>. QED  BY <2>1, <2>2 DEF NoEntities, DeleteExcluded, FailItem
  <1>5. /\ undeleted \subseteq undeleted' /\ overtaken \subseteq overtaken'
        /\ \A p \in Object : port'[p] = port[p] \/ port'[p] = Absent
    BY <1>2 DEF NoEntities, DeleteExcluded, FailItem, Overtakes, IInv, TypeOK
  <1>6. \A p \in Object : Left(p) => Left(p)'
    BY <1>1, <1>5 DEF Left, EntriesOf
  <1>7. ASSUME ~wq.down, Dropped(cache[o]), i = <<o, "update">>
        PROVE  Left(o)' \/ i \in InQueue(wq')
    <2>1. CASE NoEntities(i)
      <3>1. Is(cache[o], "none")
        BY <1>7, <2>1 DEF NoEntities, Dropped, Is
      <3>. QED  BY <1>2, <2>1, <3>1 DEF NoEntities, Left
    <2>2. CASE DeleteExcluded(i)
      <3>1. port'[o] = Absent /\ overtaken' = Overtakes(o)
        BY <1>2, <2>2 DEF DeleteExcluded, IInv, TypeOK
      <3>. QED  BY <1>1, <1>2, <3>1 DEF Left, Overtakes, EntriesOf
    <2>3. CASE FailItem(i)
      BY <1>2, <1>4, <1>7, <2>3 DEF FailItem, Left
    <2>. QED  BY <2>1, <2>2, <2>3
  <1>8. ASSUME ~wq.down, NEW p \in Object PROVE Leaving(p)'
    <2>1. Leaving(p)
      BY <1>8 DEF LeaversLeave
    <2>2. CASE i # <<p, "update">>
      <3>1. <<p, "update">> \in InQueue(wq) \cup taken =>
              <<p, "update">> \in InQueue(wq') \cup taken'
        BY <1>1, <1>4, <2>2
      <3>2. UNCHANGED <<cache, notes>> /\ (Left(p) => Left(p)')
        BY <1>1, <1>6
      <3>. QED  BY <2>1, <3>1, <3>2, KeepsLeaving
    <2>3. CASE i = <<p, "update">>
      <3>1. p = o
        BY <2>3
      <3>2. Dropped(cache[o]) => Left(o)' \/ i \in InQueue(wq')
        BY <1>7, <1>8, <2>3, <3>1
      <3>3. HasNote(p) => HasNote(p)'
        BY <1>1 DEF HasNote
      <3>. QED  BY <1>1, <1>6, <2>1, <2>3, <3>1, <3>2, <3>3
                DEF Leaving, Dropped, Is, ToBeCleared
    <2>. QED  BY <2>2, <2>3
  <1>. QED  BY <1>4, <1>8 DEF LeaversLeave

\* What enters the batch is selected.
LEMMA DeferLeaves ==
  ASSUME IInv, LeaversLeave, NEW i \in Item, DeferToBatch(i)
  PROVE  LeaversLeave'
  <1>. DEFINE o == i[1]
              e == [item |-> i, content |-> cache[o]]
  <1>1. /\ UNCHANGED <<cache, notes, wq, port, undeleted, overtaken>>
        /\ taken' = taken \ {i} /\ batch' = Append(batch, e) /\ Is(cache[o], "match")
    BY DEF DeferToBatch, Receive, informerVars, listenerVars
  <1>2. o \in Object /\ e \in Entry
    BY <1>1 DEF Item, Entry, Is, IInv, TypeOK, Version
  <1>3. /\ DOMAIN batch' = DOMAIN batch \cup {Len(batch) + 1}
        /\ batch'[Len(batch) + 1] = e
        /\ \A k \in DOMAIN batch : batch'[k] = batch[k]
    BY <1>1, <1>2, AppendAdds DEF IInv, TypeOK
  <1>4. e.item[1] = o
    OBVIOUS
  <1>. HIDE DEF e
  <1>5. ASSUME NEW p \in Object, ~wq.down PROVE Leaving(p)'
    <2>1. CASE p = o
      BY <1>1, <2>1 DEF Leaving, Dropped, Is
    <2>2. CASE p # o
      <3>1. EntriesOf(p)' = EntriesOf(p)
        BY <1>3, <1>4, <2>2 DEF EntriesOf
      <3>2. Left(p) => Left(p)'
        BY <1>1, <3>1 DEF Left
      <3>3. <<p, "update">> \in InQueue(wq) \cup taken =>
              <<p, "update">> \in InQueue(wq') \cup taken'
        <4>1. <<p, "update">> # i
          BY <2>2
        <4>. QED  BY <1>1, <4>1
      <3>4. Leaving(p) /\ UNCHANGED <<cache, notes>>
        BY <1>1, <1>5 DEF LeaversLeave
      <3>. QED  BY <3>2, <3>3, <3>4, KeepsLeaving
    <2>. QED  BY <2>1, <2>2
  <1>. QED  BY <1>1, <1>5 DEF LeaversLeave

-----------------------------------------------------------------------------
(* Theorems.                                                                *)

\* The initial sync left every object written and nothing to do.
LEMMA InitEstablishes == Init => IInv
  <1>. SUFFICES ASSUME Init  PROVE IInv
    OBVIOUS
  <1>1. wq \in QueueType(Item, MaxNumRequeues)
    BY RequeueLimit DEF Init, NewQueue, QueueType
  <1>2. port \in [Object -> Version]
    BY DEF Init, EntityOf, Is, Version
  <1>3. TypeOK
    <2>1. notes \in Seq(Note) /\ batch \in Seq(Entry)
      BY EmptyIn DEF Init
    <2>2. /\ cache \in [Object -> Version] /\ deleting = None /\ taken = {}
          /\ pc = "check" /\ timedOut = FALSE /\ changes = 0
          /\ givenUp = {} /\ undeleted = {} /\ overtaken = {}
      BY DEF Init
    <2>3. 0 \in 0..MaxChanges
      BY ChangeLimit
    <2>. QED  BY <1>1, <1>2, <2>1, <2>2, <2>3 DEF TypeOK
  <1>4. NotesTellCache /\ DeletesHead
    BY DEF Init, NotesTellCache, DeletesHead
  <1>5. MatchedUpToDate
    BY DEF Init, MatchedUpToDate, UpToDate, EntriesOf, EntityOf
  <1>. QED  BY <1>3, <1>4, <1>5 DEF IInv

\* Every step of the informer, the listener, the poller, the worker and the clock
\* keeps the invariant.
LEMMA NextKeeps == IInv /\ [Next]_vars => IInv'
  <1>. SUFFICES ASSUME IInv, [Next]_vars  PROVE IInv'
    OBVIOUS
  <1>1. CASE Informer
    BY <1>1, ChangeKeeps DEF Informer
  <1>2. CASE Listener
    BY <1>2, AddOrUpdateKeeps, DeleteKeeps DEF Listener
  <1>3. CASE Poller \/ Retry \/ BatchTimeout \/ Shutdown \/ UNCHANGED vars
    BY <1>3, SurroundingsKeep DEF Poller, Retry
  <1>4. CASE Worker
    <2>1. CASE Flush \/ ReceiveShutdown
      BY <2>1, FlushKeeps
    <2>2. CASE AwaitItem \/ GetTimeout
      BY <2>2, SurroundingsKeep
    <2>3. CASE ProcessObject
      BY <2>3, NotMatchedKeeps, DeferKeeps DEF ProcessObject
    <2>. QED  BY <1>4, <2>1, <2>2, <2>3 DEF Worker
  <1>. QED  BY <1>1, <1>2, <1>3, <1>4 DEF Next

\* The invariant holds in every reachable state.
THEOREM Invariance == Spec => []IInv
  BY InitEstablishes, NextKeeps, PTL DEF Spec

\* Every reachable state of the live events is well typed, whatever the objects,
\* contents and mapping; an item is retried at most MaxNumRequeues times.
THEOREM TypeCorrect == Spec => []TypeOK
  <1>1. IInv => TypeOK
    BY DEF IInv
  <1>. QED  BY <1>1, Invariance, PTL

\* While the exporter runs, an object the selector passes is in Port as the cache
\* holds it, or something still has to be done for it, or its write was given up.
THEOREM UpdatesReachPort == Spec => []NoUpdateLost
  <1>1. IInv => NoUpdateLost
    BY DEF IInv, MatchedUpToDate, UpToDate, NoUpdateLost
  <1>. QED  BY <1>1, Invariance, PTL

\* The initial sync left no entity of what is gone or dropped.
LEMMA InitLeaves == Init => LeaversLeave
  BY NoContent DEF Init, LeaversLeave, Leaving, Left, EntriesOf, EntityOf, Is, Dropped

LEMMA NextLeaves == IInv /\ LeaversLeave /\ [Next]_vars => LeaversLeave'
  <1>. SUFFICES ASSUME IInv, LeaversLeave, [Next]_vars  PROVE LeaversLeave'
    OBVIOUS
  <1>1. CASE Informer
    BY <1>1, ChangeLeaves DEF Informer
  <1>2. CASE Listener
    BY <1>2, AddOrUpdateLeaves, DeleteLeaves DEF Listener
  <1>3. CASE Poller \/ Retry \/ BatchTimeout \/ Shutdown \/ UNCHANGED vars
    BY <1>3, SurroundingsLeave DEF Poller, Retry
  <1>4. CASE Worker
    <2>1. CASE Flush \/ ReceiveShutdown
      BY <2>1, FlushLeaves
    <2>2. CASE AwaitItem \/ GetTimeout
      BY <2>2, SurroundingsLeave
    <2>3. CASE ProcessObject
      BY <2>3, NotMatchedLeaves, DeferLeaves DEF ProcessObject
    <2>. QED  BY <1>4, <2>1, <2>2, <2>3 DEF Worker
  <1>. QED  BY <1>1, <1>2, <1>3, <1>4 DEF Next

\* Once all is done, an object that was deleted, or that the selector drops, has no
\* entity left, unless its deletion failed or overtook the batch: DeleteFunc, the cleanup
\* of processNextWorkItem and the items they race with leave no other way.
THEOREM EntitiesLeave == Spec => []LeavesUnlessOvertaken
  <1>1. LeaversLeave => LeavesUnlessOvertaken
    <2>. SUFFICES ASSUME LeaversLeave, ~wq.down, Quiet, NEW o \in Object,
                         cache[o] = Absent \/ Is(cache[o], "exclude")
                  PROVE  port[o] = Absent \/ o \in undeleted \cup overtaken
      BY DEF LeavesUnlessOvertaken
    <2>1. ~HasNote(o) /\ ~ToBeCleared(o)
      BY DEF Quiet, PendingItems, InQueue, HasNote, ToBeCleared
    <2>. QED  BY <2>1 DEF LeaversLeave, Leaving, Left, Dropped
  <1>2. Spec => []LeaversLeave
    BY InitLeaves, NextLeaves, Invariance, PTL DEF Spec
  <1>. QED  BY <1>1, <1>2, PTL
==============================================================================
