-------------------------- MODULE FilePipelineProofs --------------------------
(***************************************************************************)
(* Theorems about FilePipeline, for every number of files, lengths of the  *)
(* lists and bounds on retries.  The two invariants go together: a step    *)
(* keeps the types, and moves observations without losing one.             *)
(***************************************************************************)
EXTENDS FilePipeline, OrderedDictProofs, FiniteSetTheorems

\* Everything an observation can be: the right side of NothingVanishes.
Accounted == InTracker \cup InFlight \cup spooled \cup dropped

\* What a step owes, unless a new observation arrives with it.
Keeps == TypeOK' /\ seen' = seen /\ Accounted' = Accounted

LEMMA LastChanceNat == LastChance \in Nat /\ LastChance + 1 = MaxEmitAttempts
BY PipelineAssumption DEF LastChance

LEMMA PayloadType ==
    ASSUME NEW e \in Entry \cup Event, NEW n \in 0..LastChance
    PROVE  Payload(e, n) \in Event /\ Payload(e, n).obs = e.obs
BY DEF Payload, Event, Entry

\* Entries become events; at shutdown the retries get their last chance.
LEMMA PayloadsType ==
    ASSUME NEW S \in {Entry, Event}, NEW list \in Seq(S), NEW n \in 0..LastChance
    PROVE  Payloads(list, n) \in Seq(Event) /\ Obs(Payloads(list, n)) = Obs(list)
<1> DEFINE t == Payloads(list, n)
<1>1. DOMAIN t = DOMAIN list /\ \A i \in DOMAIN list : t[i] = Payload(list[i], n)
  BY DEF Payloads
<1>2. \A i \in DOMAIN list : list[i] \in Entry \cup Event
  OBVIOUS
<1>3. \A i \in DOMAIN list : t[i] \in Event /\ t[i].obs = list[i].obs
  BY <1>1, <1>2, PayloadType
<1>4. t \in [1..Len(list) -> Event]
  BY <1>1, <1>3 DEF Payloads
<1>5. t \in Seq(Event)
  BY <1>4
<1> HIDE DEF t
<1>6. Obs(t) = Obs(list)
  BY <1>1, <1>3 DEF Obs
<1>7. QED
  BY <1>5, <1>6 DEF t

\* Overflow of the tracker moves entries to _ready.
LEMMA InsertKeeps ==
    ASSUME NEW S, NEW d \in Seq(S), ready \in Seq(S), InsertPending(d)
    PROVE  /\ pending' \in Seq(S) /\ ready' \in Seq(S)
           /\ Len(pending') <= MaxPendingFiles
           /\ Obs(pending') \cup Obs(ready') = Obs(d) \cup Obs(ready)
<1>1. /\ Kept(d, MaxPendingFiles) \in Seq(S) /\ Evicted(d, MaxPendingFiles) \in Seq(S)
      /\ Len(Kept(d, MaxPendingFiles)) <= MaxPendingFiles
      /\ Obs(d) = Obs(Kept(d, MaxPendingFiles)) \cup Obs(Evicted(d, MaxPendingFiles))
  BY PipelineAssumption, ObsEvict
<1>2. /\ ready \o Evicted(d, MaxPendingFiles) \in Seq(S)
      /\ Obs(ready \o Evicted(d, MaxPendingFiles))
            = Obs(ready) \cup Obs(Evicted(d, MaxPendingFiles))
  BY <1>1, ObsConcat
<1>3. QED
  BY <1>1, <1>2 DEF InsertPending

\* Entries the hasher put back.
Returned == {e \in Entry : e.reintroduction_count > 0}

\* What goes back takes over what its path has in the tracker.
LEMMA ReintroducedType ==
    ASSUME TypeOK, NEW e \in Entry, e.reintroduction_count < MaxReintroductions
    PROVE  /\ Reintroduced(e) \in Returned
           /\ Obs(Discard(pending, e.path)) \cup Reintroduced(e).obs
                 = Obs(pending) \cup e.obs
<1>1. PICK d : d = Discard(pending, e.path)
  OBVIOUS
<1>2. PICK r : r = Reintroduced(e)
  OBVIOUS
<1>3. PICK n \in 1..MaxReintroductions : n = e.reintroduction_count + 1
  BY PipelineAssumption DEF Entry
<1>4. /\ e.path \in Path /\ e.obs \in SUBSET Nat /\ e.cycles \in Nat
      /\ n \in 0..MaxReintroductions /\ n > 0 /\ pending \in Seq(Entry)
  BY <1>3, PipelineAssumption, SMTT(30) DEF Entry, TypeOK
<1>5. CASE e.path \in Keys(pending)
  <2>1. PICK other : other = Lookup(pending, e.path)
    OBVIOUS
  <2>2. other \in Entry /\ Obs(pending) = other.obs \cup Obs(d)
    BY <1>1, <1>4, <1>5, <2>1, ObsDiscard
  <2>3. other.obs \in SUBSET Nat /\ other.cycles \in Nat
    BY <2>2 DEF Entry
  <2>4. PICK c \in Nat : c = 1 + IF other.cycles > e.cycles THEN other.cycles ELSE e.cycles
    BY <1>4, <2>3
  <2>5. r = PendingFile(e.path, e.obs \cup other.obs, n, c)
    BY <1>2, <1>3, <1>5, <2>1, <2>4 DEF Reintroduced
  <2>6. r \in Returned /\ r.obs = e.obs \cup other.obs
    BY <1>4, <2>3, <2>5 DEF PendingFile, Entry, Returned
  <2>7. QED
    BY <1>1, <1>2, <2>2, <2>6
<1>6. CASE e.path \notin Keys(pending)
  <2>1. d = pending
    BY <1>1, <1>4, <1>6, ObsDiscard
  <2>2. PICK c \in Nat : c = 1 + e.cycles
    BY <1>4
  <2>3. r = PendingFile(e.path, e.obs, n, c)
    BY <1>2, <1>3, <1>6, <2>2 DEF Reintroduced
  <2>4. r \in Returned /\ r.obs = e.obs
    BY <1>4, <2>2, <2>3 DEF PendingFile, Entry, Returned
  <2>5. QED
    BY <1>1, <1>2, <2>1, <2>4
<1>7. QED
  BY <1>5, <1>6

\* An event is accepted, kept for another attempt or given up.
LEMMA EmitKeeps ==
    ASSUME TypeOK, NEW p \in Event, Emit(p)
    PROVE  /\ retry' \in Seq(Event) /\ spooled' \subseteq Nat /\ dropped' \subseteq Nat
           /\ Obs(retry') \cup spooled' \cup dropped'
                 = Obs(retry) \cup spooled \cup dropped \cup p.obs
<1>1. p.obs \subseteq Nat /\ p.attempts \in 0..LastChance
  BY DEF Event
<1>2. CASE spooled' = spooled \cup p.obs /\ UNCHANGED <<dropped, retry>>
  BY <1>1, <1>2 DEF TypeOK
<1>3. CASE dropped' = dropped \cup p.obs /\ UNCHANGED <<spooled, retry>>
  BY <1>1, <1>3 DEF TypeOK
<1>4. CASE /\ p.attempts + 1 < MaxEmitAttempts
           /\ retry' = Append(retry, [p EXCEPT !.attempts = @ + 1])
           /\ UNCHANGED <<spooled, dropped>>
  <2> DEFINE q == [p EXCEPT !.attempts = @ + 1]
  <2>1. q \in Event /\ q.obs = p.obs
    BY <1>1, <1>4, LastChanceNat DEF Event
  <2> HIDE DEF q
  <2>2. Append(retry, q) \in Seq(Event) /\ Obs(Append(retry, q)) = Obs(retry) \cup q.obs
    BY <2>1, ObsAppend DEF TypeOK
  <2>3. retry' = Append(retry, q)
    BY <1>4 DEF q
  <2>4. QED
    BY <1>4, <2>1, <2>2, <2>3 DEF TypeOK
<1>5. QED
  BY <1>2, <1>3, <1>4 DEF Emit

-----------------------------------------------------------------------------
(* One lemma per action *)

\* The observation joins the entry of its path or opens one.
LEMMA ObserveStep ==
    ASSUME TypeOK, NEW p \in Path, Observe(p)
    PROVE  TypeOK' /\ seen' = seen + 1 /\ Accounted' = Accounted \cup {seen + 1}
<1>1. /\ pending' \in Seq(Entry) /\ ready' \in Seq(Entry)
      /\ Len(pending') <= MaxPendingFiles
      /\ Obs(pending') \cup Obs(ready') = Obs(pending) \cup Obs(ready) \cup {seen + 1}
  <2>1. CASE p \in Keys(pending)
    <3>1. pending \in Seq(Entry)
      BY DEF TypeOK
    <3>2. PICK k \in DOMAIN pending : k = Position(pending, p)
      BY <2>1, <3>1, ObsDiscard
    <3>3. PICK X : X = {seen + 1}
      OBVIOUS
    <3>4. PICK e : e = [pending[k] EXCEPT !.obs = @ \cup X]
      OBVIOUS
    <3>5. X \subseteq Nat
      BY <3>3 DEF TypeOK
    <3>6. pending[k] \in Entry
      BY <3>1
    <3>7. e \in Entry /\ e.obs = pending[k].obs \cup X
      BY <3>4, <3>5, <3>6 DEF Entry
    <3>8. pending' = Updated(pending, k, e) /\ ready' = ready
      BY <2>1, <3>2, <3>3, <3>4 DEF Observe, Updated
    <3>9. /\ Updated(pending, k, e) \in Seq(Entry)
          /\ Len(Updated(pending, k, e)) = Len(pending)
          /\ Obs(Updated(pending, k, e)) = Obs(pending) \cup X
      BY <3>1, <3>7, ObsUpdated
    <3>10. QED
      BY <3>3, <3>8, <3>9 DEF TypeOK
  <2>2. CASE p \notin Keys(pending)
    <3> DEFINE e == PendingFile(p, {seen + 1}, 0, 0)
    <3>1. e \in Entry /\ e.obs = {seen + 1}
      BY PipelineAssumption DEF PendingFile, Entry, TypeOK
    <3>2. InsertPending(Append(pending, e))
      BY <2>2 DEF Observe
    <3> HIDE DEF e
    <3>3. /\ Append(pending, e) \in Seq(Entry)
          /\ Obs(Append(pending, e)) = Obs(pending) \cup {seen + 1}
      BY <3>1, ObsAppend DEF TypeOK
    <3>4. ready \in Seq(Entry)
      BY DEF TypeOK
    <3>5. QED
      BY <3>2, <3>3, <3>4, InsertKeeps
  <2>3. QED
    BY <2>1, <2>2
<1>2. /\ seen' = seen + 1
      /\ UNCHANGED <<released, queue, degraded, hashing, threads>>
  BY DEF Observe
<1>3. TypeOK'
  BY <1>1, <1>2 DEF TypeOK, hashing, threads
<1>4. Accounted' = Accounted \cup {seen + 1}
  BY <1>1, <1>2 DEF Accounted, InTracker, InFlight, hashing
<1>5. QED
  BY <1>2, <1>3, <1>4

\* due() and flush() hand over what they take from the tracker.
LEMMA ReleaseDueStep ==
    ASSUME TypeOK, ReleaseDue
    PROVE  Keeps
<1>1. PICK s \in Splits(Len(pending)) :
         released' = ready \o Select(pending, s[1]) /\ pending' = Select(pending, s[2])
  BY DEF ReleaseDue
<1>2. /\ Select(pending, s[1]) \in Seq(Entry) /\ Select(pending, s[2]) \in Seq(Entry)
      /\ Len(Select(pending, s[2])) <= Len(pending)
      /\ Obs(pending) = Obs(Select(pending, s[1])) \cup Obs(Select(pending, s[2]))
  BY ObsSplit DEF TypeOK
<1>3. /\ released' \in Seq(Entry)
      /\ Obs(released') = Obs(ready) \cup Obs(Select(pending, s[1]))
  BY <1>1, <1>2, ObsConcat DEF TypeOK
<1>4. /\ released = <<>> /\ ready' = <<>>
      /\ UNCHANGED <<seen, queue, degraded, hashing, threads>>
  BY DEF ReleaseDue
<1>5. Len(pending) \in Nat /\ Len(pending') \in Nat
  BY <1>1, <1>2 DEF TypeOK
<1>6. TypeOK'
  BY <1>1, <1>2, <1>3, <1>4, <1>5, PipelineAssumption DEF TypeOK, hashing, threads
<1>7. Accounted' = Accounted
  BY <1>1, <1>2, <1>3, <1>4, ObsEmpty DEF Accounted, InTracker, InFlight, hashing
<1>8. QED
  BY <1>4, <1>6, <1>7 DEF Keeps

LEMMA FlushStep ==
    ASSUME TypeOK, Flush
    PROVE  Keeps
<1>1. /\ ready \o pending \in Seq(Entry)
      /\ Obs(ready \o pending) = Obs(ready) \cup Obs(pending)
  BY ObsConcat DEF TypeOK
<1>2. /\ released = <<>> /\ released' = ready \o pending
      /\ pending' = <<>> /\ ready' = <<>> /\ releaser' = "drain"
      /\ UNCHANGED <<seen, queue, degraded, hashing, observer, hasher, main, overran>>
  BY DEF Flush
<1>3. TypeOK'
  BY <1>1, <1>2, PipelineAssumption DEF TypeOK, hashing
<1>4. Accounted' = Accounted
  BY <1>1, <1>2, ObsEmpty DEF Accounted, InTracker, InFlight, hashing
<1>5. QED
  BY <1>2, <1>3, <1>4 DEF Keeps

\* submit never grows _queue past its limit.
LEMMA SubmitStep ==
    ASSUME TypeOK, Submit
    PROVE  Keeps
<1>1. /\ Head(released) \in Entry /\ Tail(released) \in Seq(Entry)
      /\ Obs(released) = Head(released).obs \cup Obs(Tail(released))
  BY ObsHeadTail DEF TypeOK, Submit
<1>2. /\ queue' \in Seq(Entry) /\ degraded' \in Seq(Entry) /\ Len(queue') <= MaxQueueDepth
      /\ Obs(queue') \cup Obs(degraded') = Obs(queue) \cup Obs(degraded) \cup Head(released).obs
  <2>1. /\ Append(queue, Head(released)) \in Seq(Entry)
        /\ Obs(Append(queue, Head(released))) = Obs(queue) \cup Head(released).obs
        /\ Append(degraded, Head(released)) \in Seq(Entry)
        /\ Obs(Append(degraded, Head(released))) = Obs(degraded) \cup Head(released).obs
    BY <1>1, ObsAppend DEF TypeOK
  <2>2. Len(queue) \in Nat /\ Len(Append(queue, Head(released))) = Len(queue) + 1
    BY DEF TypeOK
  <2>3. CASE Len(queue) >= MaxQueueDepth
    BY <2>1, <2>3 DEF Submit, SubmitTo, TypeOK
  <2>4. CASE ~(Len(queue) >= MaxQueueDepth)
    <3>1. queue' = Append(queue, Head(released)) /\ degraded' = degraded
      BY <2>4 DEF Submit, SubmitTo
    <3>2. Len(queue) + 1 <= MaxQueueDepth
      BY <2>2, <2>4, PipelineAssumption
    <3>3. QED
      BY <2>1, <2>2, <3>1, <3>2 DEF TypeOK
  <2>5. QED
    BY <2>3, <2>4
<1>3. released' = Tail(released) /\ UNCHANGED <<seen, tracker, hashing, threads>>
  BY DEF Submit
<1>4. TypeOK'
  BY <1>1, <1>2, <1>3 DEF TypeOK, tracker, hashing, threads
<1>5. Accounted' = Accounted
  BY <1>1, <1>2, <1>3 DEF Accounted, InTracker, InFlight, tracker, hashing
<1>6. QED
  BY <1>3, <1>4, <1>5 DEF Keeps

\* The steps that move a thread and no entry.
LEMMA ThreadStep ==
    ASSUME TypeOK,
           UNCHANGED <<seen, tracker, released, queue, degraded, hashing>>,
           observer' \in {"alive", "dead"}, releaser' \in {"loop", "drain", "dead"},
           \/ hasher' = hasher
           \/ hasher = "degraded" /\ hasher' = "idle"
           \/ hasher = "idle" /\ hasher' = "drain",
           main' \in {"running", "observer", "releaser", "hasher", "clean", "stalled"},
           overran' \in BOOLEAN
    PROVE  Keeps
<1>1. TypeOK'
  BY DEF TypeOK, tracker, hashing
<1>2. Accounted' = Accounted
  BY DEF Accounted, InTracker, InFlight, tracker, hashing
<1>3. QED
  BY <1>1, <1>2 DEF Keeps

LEMMA EmitNextStep ==
    ASSUME TypeOK, EmitNext
    PROVE  Keeps
<1>1. /\ Head(batch) \in Event /\ Tail(batch) \in Seq(Event)
      /\ Obs(batch) = Head(batch).obs \cup Obs(Tail(batch))
  BY ObsHeadTail DEF TypeOK, EmitNext
<1>2. Emit(Head(batch))
  BY DEF EmitNext
<1>3. /\ retry' \in Seq(Event) /\ spooled' \subseteq Nat /\ dropped' \subseteq Nat
      /\ Obs(retry') \cup spooled' \cup dropped'
            = Obs(retry) \cup spooled \cup dropped \cup Head(batch).obs
  BY <1>1, <1>2, EmitKeeps
<1>4. /\ batch' = Tail(batch)
      /\ UNCHANGED <<seen, tracker, released, queue, degraded, taken, threads>>
  BY DEF EmitNext
<1>5. TypeOK'
  BY <1>1, <1>3, <1>4 DEF TypeOK, tracker, threads
<1>6. Accounted' = Accounted
  BY <1>1, <1>3, <1>4 DEF Accounted, InTracker, InFlight, tracker
<1>7. QED
  BY <1>4, <1>5, <1>6 DEF Keeps

BatchPlace == {"idle", "retries", "degraded", "drain", "drain_degraded",
               "drain_retries", "drain_queue", "dead"}

\* What the hasher takes as its next list leaves the list it was in.
LEMMA NextBatchKeeps ==
    ASSUME TypeOK, NEW from \in BatchPlace, NEW to \in BatchPlace, NEW list \in Seq(Event),
           NextBatch(from, list, to),
           queue' \in Seq(Entry), degraded' \in Seq(Entry), retry' \in Seq(Event),
           Len(queue') <= MaxQueueDepth,
           Obs(queue) \cup Obs(degraded) \cup Obs(retry)
              = Obs(list) \cup Obs(queue') \cup Obs(degraded') \cup Obs(retry')
    PROVE  Keeps
<1>1. /\ hasher = from /\ hasher' = to /\ batch = <<>> /\ batch' = list
      /\ UNCHANGED <<seen, tracker, released, taken, spooled, dropped,
                     observer, releaser, main, overran>>
  BY DEF NextBatch
<1>2. TypeOK'
  BY <1>1 DEF TypeOK, tracker, BatchPlace
<1>3. Accounted' = Accounted
  BY <1>1, ObsEmpty DEF Accounted, InTracker, InFlight, tracker
<1>4. QED
  BY <1>1, <1>2, <1>3 DEF Keeps

LEMMA BatchStep ==
    ASSUME TypeOK,
           \/ ProcessRetries \/ ProcessDegraded
           \/ DrainDegraded \/ DrainRetries \/ DrainQueue \/ HasherExit
    PROVE  Keeps
<1>1. /\ queue \in Seq(Entry) /\ degraded \in Seq(Entry) /\ retry \in Seq(Event)
      /\ Len(queue) <= MaxQueueDepth
  BY DEF TypeOK
<1>2. 0 \in 0..LastChance /\ LastChance \in 0..LastChance
  BY LastChanceNat
<1>3. <<>> \in Seq(Event) /\ <<>> \in Seq(Entry) /\ Len(<<>>) = 0 /\ 0 <= MaxQueueDepth
  BY PipelineAssumption
<1>4. CASE ProcessRetries
  <2>1. NextBatch("idle", retry, "retries") /\ retry' = <<>> /\ UNCHANGED <<queue, degraded>>
    BY <1>4 DEF ProcessRetries
  <2>2. "idle" \in BatchPlace /\ "retries" \in BatchPlace
    BY DEF BatchPlace
  <2>3. QED
    BY <1>1, <1>3, <2>1, <2>2, ObsEmpty, NextBatchKeeps
<1>5. CASE ProcessDegraded
  <2>1. /\ NextBatch("retries", Payloads(degraded, 0), "degraded")
        /\ degraded' = <<>> /\ UNCHANGED <<queue, retry>>
    BY <1>5 DEF ProcessDegraded
  <2>2. "retries" \in BatchPlace /\ "degraded" \in BatchPlace
    BY DEF BatchPlace
  <2>3. /\ Payloads(degraded, 0) \in Seq(Event)
        /\ Obs(Payloads(degraded, 0)) = Obs(degraded)
    BY <1>1, <1>2, PayloadsType
  <2>4. QED
    BY <1>1, <1>3, <2>1, <2>2, <2>3, ObsEmpty, NextBatchKeeps
<1>6. CASE DrainDegraded
  <2>1. /\ NextBatch("drain", Payloads(degraded, LastChance), "drain_degraded")
        /\ degraded' = <<>> /\ UNCHANGED <<queue, retry>>
    BY <1>6 DEF DrainDegraded
  <2>2. "drain" \in BatchPlace /\ "drain_degraded" \in BatchPlace
    BY DEF BatchPlace
  <2>3. /\ Payloads(degraded, LastChance) \in Seq(Event)
        /\ Obs(Payloads(degraded, LastChance)) = Obs(degraded)
    BY <1>1, <1>2, PayloadsType
  <2>4. QED
    BY <1>1, <1>3, <2>1, <2>2, <2>3, ObsEmpty, NextBatchKeeps
<1>7. CASE DrainRetries
  <2>1. /\ NextBatch("drain_degraded", Payloads(retry, LastChance), "drain_retries")
        /\ retry' = <<>> /\ UNCHANGED <<queue, degraded>>
    BY <1>7 DEF DrainRetries
  <2>2. "drain_degraded" \in BatchPlace /\ "drain_retries" \in BatchPlace
    BY DEF BatchPlace
  <2>3. /\ Payloads(retry, LastChance) \in Seq(Event)
        /\ Obs(Payloads(retry, LastChance)) = Obs(retry)
    BY <1>1, <1>2, PayloadsType
  <2>4. QED
    BY <1>1, <1>3, <2>1, <2>2, <2>3, ObsEmpty, NextBatchKeeps
<1>8. CASE DrainQueue
  <2>1. /\ NextBatch("drain_retries", Payloads(queue, LastChance), "drain_queue")
        /\ queue' = <<>> /\ UNCHANGED <<degraded, retry>>
    BY <1>8 DEF DrainQueue
  <2>2. "drain_retries" \in BatchPlace /\ "drain_queue" \in BatchPlace
    BY DEF BatchPlace
  <2>3. /\ Payloads(queue, LastChance) \in Seq(Event)
        /\ Obs(Payloads(queue, LastChance)) = Obs(queue)
    BY <1>1, <1>2, PayloadsType
  <2>4. QED
    BY <1>1, <1>3, <2>1, <2>2, <2>3, ObsEmpty, NextBatchKeeps
<1>9. CASE HasherExit
  <2>1. NextBatch("drain_queue", <<>>, "dead") /\ UNCHANGED <<queue, degraded, retry>>
    BY <1>9 DEF HasherExit
  <2>2. "drain_queue" \in BatchPlace /\ "dead" \in BatchPlace
    BY DEF BatchPlace
  <2>3. QED
    BY <1>1, <1>3, <2>1, <2>2, ObsEmpty, NextBatchKeeps
<1>10. QED
  BY <1>4, <1>5, <1>6, <1>7, <1>8, <1>9

LEMMA TakeNextStep ==
    ASSUME TypeOK, TakeNext("degraded", "hash") \/ TakeNext("drain", "last_hash")
    PROVE  Keeps
<1>1. /\ hasher \in {"degraded", "drain"} /\ hasher' \in {"hash", "last_hash"}
      /\ batch = <<>> /\ queue # <<>>
      /\ taken' = <<Head(queue)>> /\ queue' = Tail(queue)
      /\ UNCHANGED <<seen, tracker, released, degraded, batch, retry, spooled, dropped,
                     observer, releaser, main, overran>>
  BY DEF TakeNext
<1>2. /\ Head(queue) \in Entry /\ Tail(queue) \in Seq(Entry)
      /\ Len(Tail(queue)) = Len(queue) - 1
      /\ Obs(queue) = Head(queue).obs \cup Obs(Tail(queue))
  BY <1>1, ObsHeadTail DEF TypeOK
<1>3. taken = <<>>
  BY <1>1 DEF TypeOK
<1>4. /\ <<Head(queue)>> \in Seq(Entry) /\ Len(<<Head(queue)>>) = 1
      /\ <<Head(queue)>> # <<>>
      /\ Obs(<<Head(queue)>>) = Head(queue).obs
  BY <1>2, ObsSingleton
<1>5. Len(Tail(queue)) <= MaxQueueDepth
  <2>1. Len(queue) \in Nat /\ Len(queue) <= MaxQueueDepth
    BY DEF TypeOK
  <2>2. QED
    BY <1>2, <2>1, PipelineAssumption
<1>6. TypeOK'
  BY <1>1, <1>2, <1>4, <1>5 DEF TypeOK, tracker
<1>7. Accounted' = Accounted
  BY <1>1, <1>2, <1>3, <1>4, ObsEmpty DEF Accounted, InTracker, InFlight, tracker
<1>8. QED
  BY <1>1, <1>6, <1>7 DEF Keeps

\* The entry the hasher holds, while it holds one.
LEMMA TakenEntry ==
    ASSUME TypeOK, hasher \in {"hash", "last_hash"}
    PROVE  taken[1] \in Entry /\ Obs(taken) = taken[1].obs
<1>1. taken \in Seq(Entry) /\ taken # <<>> /\ Len(taken) <= 1
  BY DEF TypeOK
<1>2. Len(taken) = 1
  BY <1>1
<1>3. taken = <<taken[1]>> /\ taken[1] \in Entry
  BY <1>1, <1>2
<1>4. QED
  BY <1>3, ObsSingleton

LEMMA ReportTakenStep ==
    ASSUME TypeOK, ReportTaken
    PROVE  Keeps
<1>1. PICK n \in {0, LastChance} : Emit(Payload(taken[1], n))
  BY DEF ReportTaken
<1>2. /\ hasher \in {"hash", "last_hash"} /\ hasher' \in {"idle", "drain"} /\ taken' = <<>>
      /\ UNCHANGED <<seen, tracker, released, queue, degraded, batch,
                     observer, releaser, main, overran>>
  BY DEF ReportTaken
<1>3. taken[1] \in Entry /\ Obs(taken) = taken[1].obs
  BY <1>2, TakenEntry
<1>4. n \in 0..LastChance
  BY LastChanceNat
<1>5. Payload(taken[1], n) \in Event /\ Payload(taken[1], n).obs = Obs(taken)
  BY <1>3, <1>4, PayloadType
<1>6. /\ retry' \in Seq(Event) /\ spooled' \subseteq Nat /\ dropped' \subseteq Nat
      /\ Obs(retry') \cup spooled' \cup dropped'
            = Obs(retry) \cup spooled \cup dropped \cup Obs(taken)
  BY <1>1, <1>5, EmitKeeps
<1>7. TypeOK'
  BY <1>2, <1>6 DEF TypeOK, tracker
<1>8. Accounted' = Accounted
  BY <1>2, <1>6, ObsEmpty DEF Accounted, InTracker, InFlight, tracker
<1>9. QED
  BY <1>2, <1>7, <1>8 DEF Keeps

\* A file that changed while it was read goes back, with what was seen meanwhile.
LEMMA PutBackStep ==
    ASSUME TypeOK, PutBack
    PROVE  Keeps
<1>1. PICK e : e = taken[1]
  OBVIOUS
<1>2. /\ hasher = "hash" /\ hasher' = "idle" /\ taken' = <<>>
      /\ e.reintroduction_count < MaxReintroductions
      /\ InsertPending(Append(Discard(pending, e.path), Reintroduced(e)))
      /\ UNCHANGED <<seen, released, queue, degraded, batch, retry, spooled, dropped,
                     observer, releaser, main, overran>>
  BY <1>1 DEF PutBack
<1>3. e \in Entry /\ Obs(taken) = e.obs
  BY <1>1, <1>2, TakenEntry
<1>4. pending \in Seq(Entry) /\ ready \in Seq(Entry)
  BY DEF TypeOK
<1>5. PICK d : d = Discard(pending, e.path)
  OBVIOUS
<1>6. PICK r : r = Reintroduced(e)
  OBVIOUS
<1>7. d \in Seq(Entry)
  BY <1>4, <1>5, ObsDiscard
<1>8. r \in Entry /\ Obs(d) \cup r.obs = Obs(pending) \cup e.obs
  BY <1>2, <1>3, <1>5, <1>6, ReintroducedType DEF Returned
<1>9. Append(d, r) \in Seq(Entry) /\ Obs(Append(d, r)) = Obs(pending) \cup e.obs
  BY <1>7, <1>8, ObsAppend
<1>10. InsertPending(Append(d, r))
  BY <1>2, <1>5, <1>6
<1>11. /\ pending' \in Seq(Entry) /\ ready' \in Seq(Entry)
       /\ Len(pending') <= MaxPendingFiles
       /\ Obs(pending') \cup Obs(ready') = Obs(pending) \cup Obs(taken) \cup Obs(ready)
  BY <1>3, <1>4, <1>9, <1>10, InsertKeeps
<1>12. TypeOK'
  BY <1>2, <1>11 DEF TypeOK
<1>13. Accounted' = Accounted
  BY <1>2, <1>11, ObsEmpty DEF Accounted, InTracker, InFlight
<1>14. QED
  BY <1>2, <1>12, <1>13 DEF Keeps

\* Threads that start, stop or give up on each other.
LEMMA JoinStep ==
    ASSUME TypeOK,
           \/ ObserverExit \/ ReleaserExit \/ NothingToHash \/ BeginDrain
           \/ MainStep
    PROVE  Keeps
<1>1. /\ UNCHANGED <<seen, tracker, released, queue, degraded, hashing>>
      /\ observer' \in {"alive", "dead"} /\ releaser' \in {"loop", "drain", "dead"}
      /\ \/ hasher' = hasher
         \/ hasher = "degraded" /\ hasher' = "idle"
         \/ hasher = "idle" /\ hasher' = "drain"
      /\ main' \in {"running", "observer", "releaser", "hasher", "clean", "stalled"}
      /\ overran' \in BOOLEAN
  <2>1. CASE ObserverExit \/ ReleaserExit
    BY <2>1 DEF ObserverExit, ReleaserExit, TypeOK
  <2>2. CASE NothingToHash \/ BeginDrain
    BY <2>2 DEF NothingToHash, BeginDrain, TypeOK
  <2>3. CASE MainStep
    BY <2>3 DEF MainStep, Stop, JoinObserver, JoinReleaser, JoinHasher, Advance, Joined,
                TypeOK
  <2>4. QED
    BY <2>1, <2>2, <2>3
<1>2. QED
  BY <1>1, ThreadStep

-----------------------------------------------------------------------------
(* The two together: an inductive invariant *)

LEMMA EveryStepKeeps ==
    ASSUME TypeOK, [Next]_vars
    PROVE  \/ Keeps
           \/ TypeOK' /\ seen' = seen + 1 /\ Accounted' = Accounted \cup {seen + 1}
<1>1. CASE \E p \in Path : Observe(p)
  BY <1>1, ObserveStep
<1>2. CASE ReleaserStep
  BY <1>2, ReleaseDueStep, FlushStep, SubmitStep, JoinStep DEF ReleaserStep
<1>3. CASE HasherStep
  BY <1>3, EmitNextStep, BatchStep, TakeNextStep, JoinStep, ReportTakenStep, PutBackStep
     DEF HasherStep
<1>4. CASE ObserverExit \/ MainStep
  BY <1>4, JoinStep
<1>5. CASE UNCHANGED vars
  BY <1>5, ThreadStep DEF vars, threads, TypeOK
<1>6. QED
  BY <1>1, <1>2, <1>3, <1>4, <1>5 DEF Next, ObserverStep, Terminated

LEMMA InitialState == Init => TypeOK /\ NothingVanishes
<1> SUFFICES ASSUME Init PROVE TypeOK /\ NothingVanishes
  OBVIOUS
<1>1. TypeOK
  <2>1. <<>> \in Seq(Entry) /\ <<>> \in Seq(Event) /\ Len(<<>>) = 0
    OBVIOUS
  <2>2. 0 <= MaxQueueDepth /\ 0 <= MaxPendingFiles
    BY PipelineAssumption
  <2>3. \A x \in {pending, ready, released, queue, degraded, taken} :
            x \in Seq(Entry) /\ Len(x) = 0
    BY <2>1 DEF Init
  <2>4. batch \in Seq(Event) /\ retry \in Seq(Event) /\ taken = <<>>
    BY <2>1 DEF Init
  <2>5. /\ seen \in Nat /\ spooled \subseteq Nat /\ dropped \subseteq Nat
        /\ overran = FALSE /\ observer = "alive" /\ releaser = "loop"
        /\ hasher = "idle" /\ main = "running"
    BY DEF Init
  <2>6. Len(queue) <= MaxQueueDepth /\ Len(pending) <= MaxPendingFiles /\ Len(taken) <= 1
    BY <2>2, <2>3
  <2>7. /\ pending \in Seq(Entry) /\ ready \in Seq(Entry) /\ released \in Seq(Entry)
        /\ queue \in Seq(Entry) /\ degraded \in Seq(Entry) /\ taken \in Seq(Entry)
    BY <2>3
  <2>8. QED
    BY <2>4, <2>5, <2>6, <2>7 DEF TypeOK
<1>2. Accounted = {} /\ 1..seen = {}
  BY ObsEmpty DEF Init, Accounted, InTracker, InFlight
<1>3. QED
  BY <1>1, <1>2 DEF NothingVanishes, Accounted

\* The lists hold what the code puts into them, and _pending and _queue never
\* grow past max_pending_files and max_queue_depth, whatever those are.
THEOREM TypeCorrect == Spec => []TypeOK
<1>1. Init => TypeOK
  BY InitialState
<1>2. TypeOK /\ [Next]_vars => TypeOK'
  BY EveryStepKeeps DEF Keeps
<1>3. QED
  BY <1>1, <1>2, PTL DEF Spec

LEMMA NothingVanishesStep ==
    ASSUME TypeOK, NothingVanishes, [Next]_vars
    PROVE  TypeOK' /\ NothingVanishes'
<1>1. 1..seen = Accounted /\ seen \in Nat
  BY DEF NothingVanishes, Accounted, TypeOK
<1>2. 1..(seen + 1) = 1..seen \cup {seen + 1}
  BY <1>1
<1>3. TypeOK' /\ 1..seen' = Accounted'
  BY <1>1, <1>2, EveryStepKeeps DEF Keeps
<1>4. QED
  BY <1>3 DEF NothingVanishes, Accounted

\* No interleaving of the four threads loses an observation without an ERROR:
\* it is in a list, in the spool, or among those given up.
THEOREM NothingVanishesAlways == Spec => []NothingVanishes
<1>1. Init => TypeOK /\ NothingVanishes
  BY InitialState
<1>2. TypeOK /\ NothingVanishes /\ [Next]_vars => (TypeOK /\ NothingVanishes)'
  BY NothingVanishesStep
<1>3. QED
  BY <1>1, <1>2, PTL DEF Spec

-----------------------------------------------------------------------------
(* The order of the joins *)

\* Events with one chance left.
LastEvent == {p \in Event : p.attempts = LastChance}

DrainBatch == {"drain_degraded", "drain_retries", "drain_queue"}
DrainPlace == {"drain", "last_hash", "dead"} \cup DrainBatch

\* join passes a stage when its thread ended, or gives the thread up.
JoinOrder ==
    /\ main = "stalled" => overran
    /\ main = "clean" => AllDead
    /\ ~overran =>
          /\ main \in {"releaser", "hasher"} => observer = "dead"
          /\ main = "hasher" => releaser = "dead"
    /\ releaser # "loop" => ReleaserStopped
    /\ hasher \in DrainPlace => HasherStopped

\* After flush only the hasher adds to the tracker.
ReleaserDone ==
    /\ releaser = "dead" => released = <<>>
    /\ ~overran /\ releaser # "loop" =>
          pending \in Seq(Returned) /\ ready \in Seq(Returned)

\* drain_for_shutdown leaves a list for good when it leaves it.
HasherDone ==
    /\ hasher \in {"idle", "hash", "drain", "last_hash", "dead"} => batch = <<>>
    /\ hasher \in DrainBatch => batch \in Seq(LastEvent)
    /\ hasher \in {"drain_retries", "drain_queue", "dead"} => retry = <<>>
    /\ ~overran =>
          /\ hasher \in DrainBatch \cup {"dead"} => degraded = <<>>
          /\ hasher \in {"drain_queue", "dead"} => queue = <<>>

JoinInv == TypeOK /\ JoinOrder /\ ReleaserDone /\ HasherDone

LEMMA JoinOrderStep ==
    ASSUME TypeOK, JoinOrder, [Next]_vars
    PROVE  JoinOrder'
<1> USE DEF JoinOrder, AllDead, ReleaserStopped, HasherStopped, DrainPlace, DrainBatch
<1>1. CASE UNCHANGED threads
  BY <1>1 DEF threads
<1>2. CASE ObserverExit
  BY <1>2 DEF ObserverExit
<1>3. CASE Flush
  BY <1>3 DEF Flush
<1>4. CASE ReleaserExit
  BY <1>4 DEF ReleaserExit
<1>5. CASE HasherStep
  <2>1. CASE EmitNext \/ ProcessRetries \/ ProcessDegraded
    BY <2>1 DEF EmitNext, ProcessRetries, ProcessDegraded, NextBatch, threads
  <2>2. CASE \/ TakeNext("degraded", "hash") \/ NothingToHash \/ ReportTaken \/ PutBack
             \/ TakeNext("drain", "last_hash")
    BY <2>2 DEF TakeNext, NothingToHash, ReportTaken, PutBack
  <2>3. CASE BeginDrain
    BY <2>3 DEF BeginDrain
  <2>4. CASE DrainDegraded \/ DrainRetries \/ DrainQueue \/ HasherExit
    BY <2>4 DEF DrainDegraded, DrainRetries, DrainQueue, HasherExit, NextBatch
  <2>5. QED
    BY <1>5, <2>1, <2>2, <2>3, <2>4 DEF HasherStep
<1>6. CASE Stop \/ JoinObserver \/ JoinReleaser
  BY <1>6 DEF Stop, JoinObserver, JoinReleaser, Advance, Joined, TypeOK
<1>7. CASE JoinHasher
  BY <1>7 DEF JoinHasher, Advance, Joined, TypeOK
<1>8. QED
  <2>1. ASSUME \/ \E p \in Path : Observe(p)
               \/ ReleaseDue \/ Submit \/ UNCHANGED vars
        PROVE  UNCHANGED threads
    BY <2>1 DEF Observe, ReleaseDue, Submit, vars
  <2>2. QED
    BY <2>1, <1>1, <1>2, <1>3, <1>4, <1>5, <1>6, <1>7
       DEF Next, ObserverStep, ReleaserStep, MainStep, Terminated

LEMMA ReleaserDoneStep ==
    ASSUME TypeOK, JoinOrder, ReleaserDone, [Next]_vars
    PROVE  ReleaserDone'
<1> USE DEF ReleaserDone
<1>1. CASE /\ UNCHANGED <<tracker, released, releaser>>
           /\ overran => overran'
  BY <1>1 DEF tracker, TypeOK
<1>2. CASE \E p \in Path : Observe(p)
  <2>1. /\ observer = "alive"
        /\ UNCHANGED <<released, observer, releaser, hasher, main, overran>>
    BY <1>2 DEF Observe, threads
  <2>2. overran \/ releaser = "loop"
    BY <2>1 DEF JoinOrder, ReleaserStopped, AllDead
  <2>3. QED
    BY <2>1, <2>2
<1>3. CASE ReleaseDue
  BY <1>3 DEF ReleaseDue, threads
<1>4. CASE Flush
  <2>1. <<>> \in Seq(Returned)
    OBVIOUS
  <2>2. QED
    BY <1>4, <2>1 DEF Flush
<1>5. CASE Submit
  BY <1>5 DEF Submit, tracker, threads
<1>6. CASE ReleaserExit
  BY <1>6 DEF ReleaserExit, tracker
<1>7. CASE PutBack
  <2>1. PICK e : e = taken[1]
    OBVIOUS
  <2>2. /\ hasher = "hash" /\ e.reintroduction_count < MaxReintroductions
        /\ InsertPending(Append(Discard(pending, e.path), Reintroduced(e)))
        /\ UNCHANGED <<released, releaser, overran>>
    BY <1>7, <2>1 DEF PutBack
  <2>3. e \in Entry
    BY <2>1, <2>2, TakenEntry
  <2>4. Reintroduced(e) \in Returned
    BY <2>2, <2>3, ReintroducedType
  <2>5. ASSUME pending \in Seq(Returned), ready \in Seq(Returned)
        PROVE  pending' \in Seq(Returned) /\ ready' \in Seq(Returned)
    <3>1. Discard(pending, e.path) \in Seq(Returned)
      BY <2>5, ObsDiscard
    <3>2. Append(Discard(pending, e.path), Reintroduced(e)) \in Seq(Returned)
      BY <2>4, <3>1
    <3>3. QED
      BY <2>2, <2>5, <3>2, InsertKeeps
  <2>6. QED
    BY <2>2, <2>5
<1>8. QED
  <2>1. ASSUME \/ ObserverExit \/ MainStep \/ UNCHANGED vars
               \/ EmitNext \/ ProcessRetries \/ ProcessDegraded
               \/ TakeNext("degraded", "hash") \/ NothingToHash \/ ReportTaken
               \/ BeginDrain \/ TakeNext("drain", "last_hash")
               \/ DrainDegraded \/ DrainRetries \/ DrainQueue \/ HasherExit
        PROVE  UNCHANGED <<tracker, released, releaser>> /\ (overran => overran')
    <3>1. CASE ObserverExit \/ MainStep \/ UNCHANGED vars
      BY <3>1 DEF ObserverExit, MainStep, Stop, JoinObserver, JoinReleaser, JoinHasher,
                  Advance, Joined, vars, threads, TypeOK
    <3>2. CASE EmitNext \/ NothingToHash \/ ReportTaken \/ BeginDrain
      BY <3>2 DEF EmitNext, NothingToHash, ReportTaken, BeginDrain, threads
    <3>3. CASE \/ ProcessRetries \/ ProcessDegraded
               \/ DrainDegraded \/ DrainRetries \/ DrainQueue \/ HasherExit
      BY <3>3 DEF ProcessRetries, ProcessDegraded, DrainDegraded, DrainRetries,
                  DrainQueue, HasherExit, NextBatch
    <3>4. CASE TakeNext("degraded", "hash") \/ TakeNext("drain", "last_hash")
      BY <3>4 DEF TakeNext
    <3>5. QED
      BY <2>1, <3>1, <3>2, <3>3, <3>4
  <2>2. QED
    BY <2>1, <1>1, <1>2, <1>3, <1>4, <1>5, <1>6, <1>7
       DEF Next, ObserverStep, ReleaserStep, HasherStep, MainStep, Terminated

LEMMA LastPayloads ==
    ASSUME NEW S \in {Entry, Event}, NEW list \in Seq(S)
    PROVE  Payloads(list, LastChance) \in Seq(LastEvent)
<1> DEFINE t == Payloads(list, LastChance)
<1>1. DOMAIN t = DOMAIN list /\ \A i \in DOMAIN list : t[i] = Payload(list[i], LastChance)
  BY DEF Payloads
<1>2. LastChance \in 0..LastChance
  BY LastChanceNat
<1>3. \A i \in DOMAIN list : list[i] \in Entry \cup Event
  OBVIOUS
<1>4. \A i \in DOMAIN list : t[i] \in Event
  BY <1>1, <1>2, <1>3, PayloadType
<1>5. \A i \in DOMAIN list : t[i].attempts = LastChance
  BY <1>1 DEF Payload
<1>6. \A i \in DOMAIN list : t[i] \in LastEvent
  BY <1>4, <1>5 DEF LastEvent
<1>7. t \in [1..Len(list) -> LastEvent]
  BY <1>1, <1>6 DEF Payloads
<1>8. QED
  BY <1>7

\* A last chance is not kept for another attempt.
LEMMA LastEmit ==
    ASSUME NEW p \in LastEvent, Emit(p)
    PROVE  retry' = retry
BY LastChanceNat DEF Emit, LastEvent

LEMMA HasherDoneStep ==
    ASSUME TypeOK, JoinOrder, ReleaserDone, HasherDone, [Next]_vars
    PROVE  HasherDone'
<1> USE DEF HasherDone, DrainBatch
<1>1. CASE /\ UNCHANGED <<hasher, batch, retry, degraded, queue>>
           /\ overran => overran'
  BY <1>1 DEF TypeOK
<1>2. CASE Submit
  <2>1. released # <<>> /\ UNCHANGED <<hasher, batch, retry, overran>>
    BY <1>2 DEF Submit, hashing, threads
  <2>2. overran \/ hasher \notin DrainPlace
    BY <2>1 DEF JoinOrder, ReleaserDone, HasherStopped, AllDead
  <2>3. QED
    BY <2>1, <2>2 DEF DrainPlace
<1>3. CASE EmitNext
  <2>1. /\ batch # <<>> /\ batch' = Tail(batch) /\ Emit(Head(batch))
        /\ UNCHANGED <<hasher, degraded, queue, overran>>
    BY <1>3 DEF EmitNext, threads
  <2>2. CASE hasher \in DrainBatch
    <3>1. Head(batch) \in LastEvent /\ Tail(batch) \in Seq(LastEvent)
      BY <2>1, <2>2, ObsHeadTail
    <3>2. retry' = retry
      BY <2>1, <3>1, LastEmit
    <3>3. QED
      BY <2>1, <2>2, <3>1, <3>2
  <2>3. CASE hasher \notin DrainBatch
    BY <2>1, <2>3
  <2>4. QED
    BY <2>2, <2>3
<1>4. CASE ProcessRetries \/ ProcessDegraded
  BY <1>4 DEF ProcessRetries, ProcessDegraded, NextBatch
<1>5. CASE TakeNext("degraded", "hash") \/ TakeNext("drain", "last_hash")
  BY <1>5 DEF TakeNext
<1>6. CASE NothingToHash \/ ReportTaken \/ PutBack \/ BeginDrain
  BY <1>6 DEF NothingToHash, ReportTaken, PutBack, BeginDrain, hashing
<1>7. CASE DrainDegraded
  <2>1. /\ hasher' = "drain_degraded" /\ batch' = Payloads(degraded, LastChance)
        /\ degraded' = <<>>
    BY <1>7 DEF DrainDegraded, NextBatch
  <2>2. Payloads(degraded, LastChance) \in Seq(LastEvent)
    BY LastPayloads DEF TypeOK
  <2>3. QED
    BY <2>1, <2>2
<1>8. CASE DrainRetries
  <2>1. /\ hasher = "drain_degraded" /\ hasher' = "drain_retries"
        /\ batch' = Payloads(retry, LastChance) /\ retry' = <<>>
        /\ UNCHANGED <<queue, degraded, overran>>
    BY <1>8 DEF DrainRetries, NextBatch
  <2>2. Payloads(retry, LastChance) \in Seq(LastEvent)
    BY LastPayloads DEF TypeOK
  <2>3. QED
    BY <2>1, <2>2
<1>9. CASE DrainQueue
  <2>1. /\ hasher = "drain_retries" /\ hasher' = "drain_queue"
        /\ batch' = Payloads(queue, LastChance) /\ queue' = <<>>
        /\ UNCHANGED <<degraded, retry, overran>>
    BY <1>9 DEF DrainQueue, NextBatch
  <2>2. Payloads(queue, LastChance) \in Seq(LastEvent)
    BY LastPayloads DEF TypeOK
  <2>3. QED
    BY <2>1, <2>2
<1>10. CASE HasherExit
  BY <1>10 DEF HasherExit, NextBatch
<1>11. QED
  <2>1. ASSUME \/ \E p \in Path : Observe(p)
               \/ ObserverExit \/ MainStep \/ ReleaseDue \/ Flush \/ ReleaserExit
               \/ UNCHANGED vars
        PROVE  UNCHANGED <<hasher, batch, retry, degraded, queue>> /\ (overran => overran')
    BY <2>1 DEF Observe, ObserverExit, MainStep, Stop, JoinObserver, JoinReleaser,
                JoinHasher, Advance, Joined, ReleaseDue, Flush, ReleaserExit, vars,
                hashing, threads, TypeOK
  <2>2. QED
    BY <2>1, <1>1, <1>2, <1>3, <1>4, <1>5, <1>6, <1>7, <1>8, <1>9, <1>10
       DEF Next, ObserverStep, ReleaserStep, HasherStep, MainStep, Terminated

\* A join that reports a clean end, having waited for every stage, leaves nothing
\* between the stages, and in the tracker only what the hasher put back after the
\* releaser's flush.
THEOREM CleanJoin == Spec => []CleanJoinEmptiesTheLists
<1>1. Init => JoinInv
  <2> SUFFICES ASSUME Init PROVE JoinInv
    OBVIOUS
  <2>1. TypeOK
    BY InitialState
  <2>2. JoinOrder /\ ReleaserDone /\ HasherDone
    BY DEF Init, JoinOrder, ReleaserDone, HasherDone, DrainBatch, DrainPlace
  <2>3. QED
    BY <2>1, <2>2 DEF JoinInv
<1>2. JoinInv /\ [Next]_vars => JoinInv'
  BY EveryStepKeeps, JoinOrderStep, ReleaserDoneStep, HasherDoneStep DEF JoinInv, Keeps
<1>3. JoinInv => CleanJoinEmptiesTheLists
  <2> SUFFICES ASSUME JoinInv, main = "clean", ~overran
               PROVE  /\ InFlight = {}
                      /\ \A e \in ToSet(pending) \cup ToSet(ready) :
                            e.reintroduction_count > 0
    BY DEF CleanJoinEmptiesTheLists
  <2>1. hasher = "dead" /\ releaser = "dead"
    BY DEF JoinInv, JoinOrder, AllDead
  <2>2. /\ released = <<>> /\ queue = <<>> /\ degraded = <<>> /\ retry = <<>>
        /\ batch = <<>> /\ taken = <<>>
    BY <2>1 DEF JoinInv, ReleaserDone, HasherDone, DrainBatch, TypeOK
  <2>3. InFlight = {}
    BY <2>2, ObsEmpty DEF InFlight
  <2>4. pending \in Seq(Returned) /\ ready \in Seq(Returned)
    BY <2>1 DEF JoinInv, ReleaserDone
  <2>5. \A e \in ToSet(pending) \cup ToSet(ready) : e \in Returned
    BY <2>4 DEF ToSet
  <2>6. QED
    BY <2>3, <2>5 DEF Returned
<1>4. QED
  BY <1>1, <1>2, <1>3, PTL DEF Spec

-----------------------------------------------------------------------------
(* Every observation is settled once: no two entries or events share one *)

Settled == spooled \cup dropped
InHasher == Obs(taken) \cup Obs(batch) \cup Obs(retry) \cup Settled

EntriesApart ==
    /\ Apart(pending) /\ Apart(ready) /\ Apart(released)
    /\ Apart(queue) /\ Apart(degraded) /\ Apart(batch) /\ Apart(retry)

ListsApart ==
    /\ Obs(pending) \cap Obs(ready) = {}
    /\ InTracker \cap (InFlight \cup Settled) = {}
    /\ Obs(released) \cap (Obs(queue) \cup Obs(degraded) \cup InHasher) = {}
    /\ Obs(queue) \cap (Obs(degraded) \cup InHasher) = {}
    /\ Obs(degraded) \cap InHasher = {}
    /\ Obs(taken) \cap (Obs(batch) \cup Obs(retry) \cup Settled) = {}
    /\ Obs(batch) \cap (Obs(retry) \cup Settled) = {}
    /\ Obs(retry) \cap Settled = {}

NoneTwice == EntriesApart /\ ListsApart

SettleInv == TypeOK /\ NothingVanishes /\ NoneTwice

\* A step of the ledger, or none.
LedgerStep == [Ledger!Next]_<<seen, spooled, dropped>>

LEMMA PayloadsApart ==
    ASSUME NEW list, NEW n, Apart(list)
    PROVE  Apart(Payloads(list, n))
BY DEF Payloads, Payload, Apart

\* Overflow of the tracker separates what it evicts from what stays.
LEMMA InsertApart ==
    ASSUME NEW d \in Seq(Entry), ready \in Seq(Entry), InsertPending(d),
           Apart(d), Apart(ready), Obs(d) \cap Obs(ready) = {}
    PROVE  Apart(pending') /\ Apart(ready') /\ Obs(pending') \cap Obs(ready') = {}
<1>1. PICK k, v : k = Kept(d, MaxPendingFiles) /\ v = Evicted(d, MaxPendingFiles)
  OBVIOUS
<1>2. k \in Seq(Entry) /\ v \in Seq(Entry) /\ Obs(d) = Obs(k) \cup Obs(v)
  BY <1>1, PipelineAssumption, ObsEvict
<1>3. Apart(k) /\ Apart(v) /\ Obs(k) \cap Obs(v) = {}
  BY <1>1, PipelineAssumption, ApartEvict
<1>4. Obs(ready) \cap Obs(v) = {}
  BY <1>2
<1>5. Apart(ready \o v) /\ Obs(ready \o v) = Obs(ready) \cup Obs(v)
  BY <1>2, <1>3, <1>4, ApartConcat, ObsConcat
<1>6. pending' = k /\ ready' = ready \o v
  BY <1>1 DEF InsertPending
<1>7. QED
  BY <1>2, <1>3, <1>5, <1>6

\* The one new observation is in none of the lists.
LEMMA NewObservation ==
    ASSUME TypeOK, NothingVanishes
    PROVE  seen + 1 \notin Accounted /\ seen \in Nat
BY DEF TypeOK, NothingVanishes, Accounted

LEMMA ObserveApart ==
    ASSUME SettleInv, NEW p \in Path, Observe(p)
    PROVE  NoneTwice' /\ LedgerStep
<1> USE DEF SettleInv
<1>1. /\ Apart(pending') /\ Apart(ready') /\ Obs(pending') \cap Obs(ready') = {}
      /\ Obs(pending') \cup Obs(ready') = Obs(pending) \cup Obs(ready) \cup {seen + 1}
  <2>1. PICK X : X = {seen + 1} /\ X \cap Accounted = {}
    <3>1. {seen + 1} \cap Accounted = {}
      BY NewObservation
    <3>2. QED
      BY <3>1
  <2>2. /\ pending \in Seq(Entry) /\ ready \in Seq(Entry)
        /\ X \cap Obs(pending) = {} /\ X \cap Obs(ready) = {} /\ X \subseteq Nat
    BY <2>1 DEF TypeOK, Accounted, InTracker
  <2>3. Apart(pending) /\ Apart(ready) /\ Obs(pending) \cap Obs(ready) = {}
    BY DEF NoneTwice, EntriesApart, ListsApart
  <2>4. CASE p \in Keys(pending)
    <3>1. PICK k \in DOMAIN pending : k = Position(pending, p)
      BY <2>2, <2>4, ObsDiscard
    <3>2. PICK e : e = [pending[k] EXCEPT !.obs = @ \cup X]
      OBVIOUS
    <3>3. pending[k] \in Entry
      BY <2>2
    <3>4. e \in Entry /\ e.obs = pending[k].obs \cup X
      BY <2>2, <3>2, <3>3 DEF Entry
    <3>5. pending' = Updated(pending, k, e) /\ ready' = ready
      BY <2>1, <2>4, <3>1, <3>2 DEF Observe, Updated
    <3>6. /\ Updated(pending, k, e) \in Seq(Entry)
          /\ Len(Updated(pending, k, e)) = Len(pending)
          /\ Obs(Updated(pending, k, e)) = Obs(pending) \cup X
      <4>1. pending \in Seq(Entry)
        BY <2>2
      <4>2. QED
        BY <3>4, <4>1, ObsUpdated
    <3>7. Apart(Updated(pending, k, e))
      BY <2>2, <2>3, <3>4, ApartUpdated
    <3>8. QED
      BY <2>1, <2>2, <2>3, <3>5, <3>6, <3>7
  <2>5. CASE p \notin Keys(pending)
    <3>1. PICK e : e = PendingFile(p, X, 0, 0)
      OBVIOUS
    <3>2. e \in Entry /\ e.obs = X
      BY <2>2, <3>1, PipelineAssumption DEF PendingFile, Entry
    <3>3. PICK d : d = Append(pending, e)
      OBVIOUS
    <3>4. InsertPending(d)
      BY <2>1, <2>5, <3>1, <3>3 DEF Observe
    <3>5. d \in Seq(Entry) /\ Obs(d) = Obs(pending) \cup X /\ Apart(d)
      BY <2>2, <2>3, <3>2, <3>3, ObsAppend, ApartAppend
    <3>6. Obs(d) \cap Obs(ready) = {}
      BY <2>2, <2>3, <3>5
    <3>7. QED
      BY <2>1, <2>2, <2>3, <3>4, <3>5, <3>6, InsertApart, InsertKeeps
  <2>6. QED
    BY <2>4, <2>5
<1>2. seen' = seen + 1 /\ UNCHANGED <<released, queue, degraded, hashing>>
  BY DEF Observe
<1>3. NoneTwice'
  <2>1. InTracker' = InTracker \cup {seen + 1} /\ InFlight' = InFlight /\ Settled' = Settled
        /\ InHasher' = InHasher
    BY <1>1, <1>2 DEF InTracker, InFlight, Settled, InHasher, hashing
  <2>2. seen + 1 \notin InFlight \cup Settled
    BY NewObservation DEF Accounted, Settled
  <2>3. InTracker' \cap (InFlight' \cup Settled') = {}
    BY <2>1, <2>2 DEF NoneTwice, ListsApart
  <2>4. QED
    BY <1>1, <1>2, <2>1, <2>3 DEF NoneTwice, EntriesApart, ListsApart, hashing
<1>4. LedgerStep
  BY <1>2 DEF LedgerStep, Ledger!Next, Ledger!Arrive, hashing
<1>5. QED
  BY <1>3, <1>4

\* What moves between the lists is untouched by the ledger.
LEMMA NoSettlement ==
    ASSUME UNCHANGED <<seen, spooled, dropped>>
    PROVE  LedgerStep
BY DEF LedgerStep

LEMMA ReleaseApart ==
    ASSUME SettleInv, ReleaseDue \/ Flush
    PROVE  NoneTwice' /\ LedgerStep
<1> USE DEF SettleInv
<1>1. /\ released = <<>> /\ ready' = <<>>
      /\ UNCHANGED <<seen, queue, degraded, hashing>>
  BY DEF ReleaseDue, Flush
<1>2. pending \in Seq(Entry) /\ ready \in Seq(Entry)
  BY DEF TypeOK
<1>3. Apart(pending) /\ Apart(ready) /\ Obs(pending) \cap Obs(ready) = {}
  BY DEF NoneTwice, EntriesApart, ListsApart
<1>4. PICK a \in Seq(Entry), b \in Seq(Entry) :
         /\ released' = ready \o a /\ pending' = b
         /\ Obs(pending) = Obs(a) \cup Obs(b) /\ Obs(a) \cap Obs(b) = {}
         /\ Apart(a) /\ Apart(b)
  <2>1. CASE ReleaseDue
    <3>1. PICK s \in Splits(Len(pending)) :
             released' = ready \o Select(pending, s[1]) /\ pending' = Select(pending, s[2])
      BY <2>1 DEF ReleaseDue
    <3>2. PICK a, b : a = Select(pending, s[1]) /\ b = Select(pending, s[2])
      OBVIOUS
    <3>3. a \in Seq(Entry) /\ b \in Seq(Entry) /\ Obs(pending) = Obs(a) \cup Obs(b)
      BY <1>2, <3>2, ObsSplit
    <3>4. Apart(a) /\ Apart(b) /\ Obs(a) \cap Obs(b) = {}
      BY <1>2, <1>3, <3>2, ApartSplit
    <3>5. QED
      BY <3>1, <3>2, <3>3, <3>4
  <2>2. CASE Flush
    <3>1. released' = ready \o pending /\ pending' = <<>> /\ <<>> \in Seq(Entry)
      BY <2>2 DEF Flush
    <3>2. QED
      BY <1>2, <1>3, <3>1, ObsEmpty, ApartEmpty
  <2>3. QED
    BY <2>1, <2>2
<1>5. Obs(ready) \cap Obs(a) = {}
  BY <1>3, <1>4
<1>6. Apart(released') /\ Obs(released') = Obs(ready) \cup Obs(a)
  BY <1>2, <1>3, <1>4, <1>5, ApartConcat, ObsConcat
<1>7. EntriesApart'
  BY <1>1, <1>4, <1>6, ApartEmpty DEF NoneTwice, EntriesApart, hashing
<1>8. ListsApart'
  <2>1. /\ InTracker' = Obs(b) /\ InTracker = Obs(a) \cup Obs(b) \cup Obs(ready)
        /\ Obs(released') = Obs(ready) \cup Obs(a)
        /\ InFlight' = InFlight \cup Obs(released')
        /\ Settled' = Settled /\ InHasher' = InHasher /\ Obs(released) = {}
        /\ Obs(b) \cap Obs(released') = {}
    BY <1>1, <1>3, <1>4, <1>6, ObsEmpty DEF InTracker, InFlight, InHasher, Settled, hashing
  <2>2. InTracker' \cap (InFlight' \cup Settled') = {}
    BY <2>1 DEF NoneTwice, ListsApart
  <2>3. Obs(released') \cap (Obs(queue) \cup Obs(degraded) \cup InHasher) = {}
    BY <2>1 DEF NoneTwice, ListsApart, InFlight, InHasher
  <2>4. Obs(pending') \cap Obs(ready') = {}
    BY <1>1, ObsEmpty
  <2>5. QED
    BY <1>1, <2>1, <2>2, <2>3, <2>4 DEF NoneTwice, ListsApart, hashing
<1>9. QED
  BY <1>1, <1>7, <1>8, NoSettlement DEF NoneTwice, hashing

LEMMA SubmitApart ==
    ASSUME SettleInv, Submit
    PROVE  NoneTwice' /\ LedgerStep
<1> USE DEF SettleInv
<1>1. PICK h, t : h = Head(released) /\ t = Tail(released)
  OBVIOUS
<1>2. /\ h \in Entry /\ Obs(released) = h.obs \cup Obs(t)
      /\ Apart(t) /\ h.obs \cap Obs(t) = {}
  BY <1>1, ObsHeadTail, ApartHeadTail DEF TypeOK, Submit, NoneTwice, EntriesApart
<1>3. released' = t /\ UNCHANGED <<seen, tracker, hashing>>
  BY <1>1 DEF Submit
<1>4. queue \in Seq(Entry) /\ degraded \in Seq(Entry)
  BY DEF TypeOK
<1>5. /\ h.obs \cap Obs(queue) = {} /\ h.obs \cap Obs(degraded) = {}
      /\ Apart(queue) /\ Apart(degraded)
  BY <1>2 DEF NoneTwice, EntriesApart, ListsApart
<1>6. /\ Apart(queue') /\ Apart(degraded')
      /\ \/ Obs(queue') = Obs(queue) \cup h.obs /\ Obs(degraded') = Obs(degraded)
         \/ Obs(queue') = Obs(queue) /\ Obs(degraded') = Obs(degraded) \cup h.obs
  <2>1. \/ queue' = Append(queue, h) /\ degraded' = degraded
        \/ degraded' = Append(degraded, h) /\ queue' = queue
    BY <1>1 DEF Submit, SubmitTo
  <2>2. Obs(Append(queue, h)) = Obs(queue) \cup h.obs /\ Apart(Append(queue, h))
    BY <1>2, <1>4, <1>5, ObsAppend, ApartAppend
  <2>3. Obs(Append(degraded, h)) = Obs(degraded) \cup h.obs /\ Apart(Append(degraded, h))
    BY <1>2, <1>4, <1>5, ObsAppend, ApartAppend
  <2>4. QED
    BY <1>5, <2>1, <2>2, <2>3
<1>7. EntriesApart'
  BY <1>2, <1>3, <1>6 DEF NoneTwice, EntriesApart, tracker, hashing
<1>8. ListsApart'
  <2>1. /\ InTracker' = InTracker /\ InFlight' = InFlight
        /\ InHasher' = InHasher /\ Settled' = Settled
    BY <1>2, <1>3, <1>6 DEF InTracker, InFlight, InHasher, Settled, tracker, hashing
  <2>2. /\ Obs(released') = Obs(t)
        /\ UNCHANGED <<pending, ready, taken, batch, retry, spooled, dropped>>
    BY <1>3 DEF tracker, hashing
  <2>3. Obs(released') \cap (Obs(queue') \cup Obs(degraded') \cup InHasher') = {}
    BY <1>2, <1>6, <2>1, <2>2 DEF NoneTwice, ListsApart
  <2>4. /\ Obs(queue') \cap (Obs(degraded') \cup InHasher') = {}
        /\ Obs(degraded') \cap InHasher' = {}
    BY <1>2, <1>5, <1>6, <2>1 DEF NoneTwice, ListsApart
  <2>5. QED
    BY <2>1, <2>2, <2>3, <2>4 DEF NoneTwice, ListsApart
<1>9. QED
  BY <1>3, <1>7, <1>8, NoSettlement DEF NoneTwice, hashing

\* An event settles observations that are open: nobody else holds them.
LEMMA EmitApart ==
    ASSUME TypeOK, NEW p \in Event, Emit(p), Apart(retry), seen' = seen,
           p.obs \subseteq 1..seen, p.obs \cap (Obs(retry) \cup Settled) = {},
           Obs(retry) \cap Settled = {}
    PROVE  /\ Apart(retry') /\ Obs(retry') \cap Settled' = {}
           /\ Obs(retry') \cup Settled' = Obs(retry) \cup Settled \cup p.obs
           /\ LedgerStep
<1>1. Obs(retry') \cup Settled' = Obs(retry) \cup Settled \cup p.obs
  BY EmitKeeps DEF Settled
<1>2. CASE \/ spooled' = spooled \cup p.obs /\ UNCHANGED <<dropped, retry>>
           \/ dropped' = dropped \cup p.obs /\ UNCHANGED <<spooled, retry>>
  <2>1. p.obs \in SUBSET Ledger!Open
    BY DEF Ledger!Open, Settled
  <2>2. Ledger!Settle
    BY <1>2, <2>1 DEF Ledger!Settle
  <2>3. QED
    BY <1>1, <1>2, <2>2 DEF Settled, LedgerStep, Ledger!Next
<1>3. CASE /\ p.attempts + 1 < MaxEmitAttempts
           /\ retry' = Append(retry, [p EXCEPT !.attempts = @ + 1])
           /\ UNCHANGED <<spooled, dropped>>
  <2>1. PICK q : q = [p EXCEPT !.attempts = @ + 1]
    OBVIOUS
  <2>2. q \in Event /\ q.obs = p.obs
    <3>1. p.obs \subseteq Nat /\ p.attempts \in 0..LastChance
      BY DEF Event
    <3>2. QED
      BY <1>3, <2>1, <3>1, LastChanceNat DEF Event
  <2>3. retry' = Append(retry, q) /\ retry \in Seq(Event)
    BY <1>3, <2>1 DEF TypeOK
  <2>4. Apart(retry') /\ Obs(retry') = Obs(retry) \cup p.obs
    BY <2>2, <2>3, ObsAppend, ApartAppend
  <2>5. QED
    BY <1>1, <1>3, <2>4, NoSettlement DEF Settled
<1>4. QED
  BY <1>2, <1>3 DEF Emit

LEMMA EmitNextApart ==
    ASSUME SettleInv, EmitNext
    PROVE  NoneTwice' /\ LedgerStep
<1> USE DEF SettleInv
<1>1. PICK h, t : h = Head(batch) /\ t = Tail(batch)
  OBVIOUS
<1>2. /\ h \in Event /\ Obs(batch) = h.obs \cup Obs(t)
      /\ Apart(t) /\ h.obs \cap Obs(t) = {}
  BY <1>1, ObsHeadTail, ApartHeadTail DEF TypeOK, EmitNext, NoneTwice, EntriesApart
<1>3. /\ Emit(h) /\ batch' = t
      /\ UNCHANGED <<seen, tracker, released, queue, degraded, taken>>
  BY <1>1 DEF EmitNext
<1>4. h.obs \subseteq 1..seen
  BY <1>2 DEF NothingVanishes, InFlight
<1>5. h.obs \cap (Obs(retry) \cup Settled) = {} /\ Obs(retry) \cap Settled = {} /\ Apart(retry)
  BY <1>2 DEF NoneTwice, ListsApart, EntriesApart
<1>6. /\ Apart(retry') /\ Obs(retry') \cap Settled' = {}
      /\ Obs(retry') \cup Settled' = Obs(retry) \cup Settled \cup h.obs
      /\ LedgerStep
  BY <1>2, <1>3, <1>4, <1>5, EmitApart
<1>7. EntriesApart'
  BY <1>2, <1>3, <1>6 DEF NoneTwice, EntriesApart, tracker
<1>8. ListsApart'
  <2>1. /\ InTracker' = InTracker /\ InHasher' = InHasher
        /\ InFlight' \cup Settled' = InFlight \cup Settled
    BY <1>2, <1>3, <1>6 DEF InTracker, InFlight, InHasher, tracker
  <2>2. Obs(batch') \cap (Obs(retry') \cup Settled') = {}
    BY <1>2, <1>3, <1>6 DEF NoneTwice, ListsApart
  <2>3. Obs(taken') \cap (Obs(batch') \cup Obs(retry') \cup Settled') = {}
    BY <1>2, <1>3, <1>6 DEF NoneTwice, ListsApart
  <2>4. QED
    BY <1>3, <1>6, <2>1, <2>2, <2>3 DEF NoneTwice, ListsApart, tracker
<1>9. QED
  BY <1>6, <1>7, <1>8 DEF NoneTwice

LEMMA ReportTakenApart ==
    ASSUME SettleInv, ReportTaken
    PROVE  NoneTwice' /\ LedgerStep
<1> USE DEF SettleInv
<1>1. PICK n \in {0, LastChance} : Emit(Payload(taken[1], n))
  BY DEF ReportTaken
<1>2. /\ hasher \in {"hash", "last_hash"} /\ taken' = <<>>
      /\ UNCHANGED <<seen, tracker, released, queue, degraded, batch>>
  BY DEF ReportTaken
<1>3. PICK p : p = Payload(taken[1], n)
  OBVIOUS
<1>4. p \in Event /\ p.obs = Obs(taken) /\ Emit(p)
  BY <1>1, <1>2, <1>3, TakenEntry, PayloadType, LastChanceNat
<1>5. p.obs \subseteq 1..seen
  BY <1>4 DEF NothingVanishes, InFlight
<1>6. p.obs \cap (Obs(retry) \cup Settled) = {} /\ Obs(retry) \cap Settled = {} /\ Apart(retry)
  BY <1>4 DEF NoneTwice, ListsApart, EntriesApart
<1>7. /\ Apart(retry') /\ Obs(retry') \cap Settled' = {}
      /\ Obs(retry') \cup Settled' = Obs(retry) \cup Settled \cup Obs(taken)
      /\ LedgerStep
  BY <1>2, <1>4, <1>5, <1>6, EmitApart
<1>8. EntriesApart'
  BY <1>2, <1>7 DEF NoneTwice, EntriesApart, tracker
<1>9. ListsApart'
  <2>1. /\ InTracker' = InTracker /\ InHasher' = InHasher
        /\ InFlight' \cup Settled' = InFlight \cup Settled
    BY <1>2, <1>7, ObsEmpty DEF InTracker, InFlight, InHasher, tracker
  <2>2. Obs(batch') \cap (Obs(retry') \cup Settled') = {}
    BY <1>2, <1>7 DEF NoneTwice, ListsApart
  <2>3. Obs(taken') = {}
    BY <1>2, ObsEmpty
  <2>4. QED
    BY <1>2, <1>7, <2>1, <2>2, <2>3 DEF NoneTwice, ListsApart, tracker
<1>10. QED
  BY <1>7, <1>8, <1>9 DEF NoneTwice

LEMMA TakeNextApart ==
    ASSUME SettleInv, TakeNext("degraded", "hash") \/ TakeNext("drain", "last_hash")
    PROVE  NoneTwice' /\ LedgerStep
<1> USE DEF SettleInv
<1>1. PICK h, t : h = Head(queue) /\ t = Tail(queue)
  OBVIOUS
<1>2. /\ hasher \in {"degraded", "drain"} /\ taken' = <<h>> /\ queue' = t /\ queue # <<>>
      /\ UNCHANGED <<seen, tracker, released, degraded, batch, retry, spooled, dropped>>
  BY <1>1 DEF TakeNext
<1>3. /\ Obs(queue) = h.obs \cup Obs(t) /\ Apart(t) /\ h.obs \cap Obs(t) = {}
  BY <1>1, <1>2, ObsHeadTail, ApartHeadTail DEF TypeOK, NoneTwice, EntriesApart
<1>4. Obs(taken) = {} /\ Obs(taken') = h.obs
  <2>1. taken = <<>>
    BY <1>2 DEF TypeOK
  <2>2. QED
    BY <1>2, <2>1, ObsEmpty, ObsSingleton
<1>5. EntriesApart'
  BY <1>2, <1>3 DEF NoneTwice, EntriesApart, tracker
<1>6. ListsApart'
  <2>1. /\ InTracker' = InTracker /\ InFlight' = InFlight /\ Settled' = Settled
        /\ InHasher' = InHasher \cup h.obs
    BY <1>2, <1>3, <1>4 DEF InTracker, InFlight, InHasher, Settled, tracker
  <2>2. Obs(released') \cap (Obs(queue') \cup Obs(degraded') \cup InHasher') = {}
    BY <1>2, <1>3, <2>1 DEF NoneTwice, ListsApart
  <2>3. Obs(queue') \cap (Obs(degraded') \cup InHasher') = {} /\ Obs(degraded') \cap InHasher' = {}
    BY <1>2, <1>3, <2>1 DEF NoneTwice, ListsApart
  <2>4. Obs(taken') \cap (Obs(batch') \cup Obs(retry') \cup Settled') = {}
    BY <1>2, <1>3, <1>4, <2>1 DEF NoneTwice, ListsApart, InHasher
  <2>5. QED
    BY <1>2, <2>1, <2>2, <2>3, <2>4 DEF NoneTwice, ListsApart, tracker
<1>7. QED
  BY <1>2, <1>5, <1>6, NoSettlement DEF NoneTwice

\* The next list: one of the three becomes the batch.
LEMMA NextBatchApart ==
    ASSUME SettleInv, NEW from, NEW to, NEW list, NextBatch(from, list, to), Apart(list),
           \/ Obs(list) = Obs(retry) /\ retry' = <<>> /\ UNCHANGED <<queue, degraded>>
           \/ Obs(list) = Obs(degraded) /\ degraded' = <<>> /\ UNCHANGED <<queue, retry>>
           \/ Obs(list) = Obs(queue) /\ queue' = <<>> /\ UNCHANGED <<degraded, retry>>
           \/ Obs(list) = {} /\ UNCHANGED <<queue, degraded, retry>>
    PROVE  NoneTwice' /\ LedgerStep
<1> USE DEF SettleInv
<1>1. /\ batch = <<>> /\ batch' = list
      /\ UNCHANGED <<seen, tracker, released, taken, spooled, dropped>>
  BY DEF NextBatch
<1>2. EntriesApart'
  BY <1>1, ApartEmpty DEF NoneTwice, EntriesApart, tracker
<1>3. Obs(batch) = {} /\ Obs(<<>>) = {}
  BY <1>1, ObsEmpty
<1>4. InTracker' = InTracker /\ InFlight' = InFlight /\ Settled' = Settled
  BY <1>1, <1>3 DEF InTracker, InFlight, Settled, tracker
<1>5. ListsApart'
  <2>1. CASE Obs(list) = Obs(retry) /\ retry' = <<>> /\ UNCHANGED <<queue, degraded>>
    BY <2>1, <1>1, <1>3, <1>4 DEF NoneTwice, ListsApart, InHasher, tracker
  <2>2. CASE Obs(list) = Obs(degraded) /\ degraded' = <<>> /\ UNCHANGED <<queue, retry>>
    BY <2>2, <1>1, <1>3, <1>4 DEF NoneTwice, ListsApart, InHasher, tracker
  <2>3. CASE Obs(list) = Obs(queue) /\ queue' = <<>> /\ UNCHANGED <<degraded, retry>>
    BY <2>3, <1>1, <1>3, <1>4 DEF NoneTwice, ListsApart, InHasher, tracker
  <2>4. CASE Obs(list) = {} /\ UNCHANGED <<queue, degraded, retry>>
    BY <2>4, <1>1, <1>3, <1>4 DEF NoneTwice, ListsApart, InHasher, tracker
  <2>5. QED
    BY <2>1, <2>2, <2>3, <2>4
<1>6. QED
  BY <1>1, <1>2, <1>5, NoSettlement DEF NoneTwice

LEMMA BatchApart ==
    ASSUME SettleInv,
           \/ ProcessRetries \/ ProcessDegraded
           \/ DrainDegraded \/ DrainRetries \/ DrainQueue \/ HasherExit
    PROVE  NoneTwice' /\ LedgerStep
<1> USE DEF SettleInv
<1>1. Apart(queue) /\ Apart(degraded) /\ Apart(retry)
  BY DEF NoneTwice, EntriesApart
<1>2. ASSUME NEW n \in {0, LastChance}
      PROVE  /\ Obs(Payloads(degraded, n)) = Obs(degraded) /\ Apart(Payloads(degraded, n))
             /\ Obs(Payloads(retry, n)) = Obs(retry) /\ Apart(Payloads(retry, n))
             /\ Obs(Payloads(queue, n)) = Obs(queue) /\ Apart(Payloads(queue, n))
  <2>1. n \in 0..LastChance /\ Entry \in {Entry, Event} /\ Event \in {Entry, Event}
    BY LastChanceNat
  <2>2. queue \in Seq(Entry) /\ degraded \in Seq(Entry) /\ retry \in Seq(Event)
    BY DEF TypeOK
  <2>3. QED
    BY <1>1, <2>1, <2>2, PayloadsType, PayloadsApart
<1>3. CASE ProcessRetries
  BY <1>1, <1>3, NextBatchApart DEF ProcessRetries
<1>4. CASE ProcessDegraded
  BY <1>2, <1>4, NextBatchApart DEF ProcessDegraded
<1>5. CASE DrainDegraded
  BY <1>2, <1>5, NextBatchApart DEF DrainDegraded
<1>6. CASE DrainRetries
  BY <1>2, <1>6, NextBatchApart DEF DrainRetries
<1>7. CASE DrainQueue
  BY <1>2, <1>7, NextBatchApart DEF DrainQueue
<1>8. CASE HasherExit
  BY <1>8, NextBatchApart, ObsEmpty, ApartEmpty DEF HasherExit
<1>9. QED
  BY <1>3, <1>4, <1>5, <1>6, <1>7, <1>8

\* reintroduce: the new entry carries what the old one of its path carried.
LEMMA PutBackApart ==
    ASSUME SettleInv, PutBack
    PROVE  NoneTwice' /\ LedgerStep
<1> USE DEF SettleInv
<1>1. PICK e, d, r : e = taken[1] /\ d = Discard(pending, e.path) /\ r = Reintroduced(e)
  OBVIOUS
<1>2. /\ hasher = "hash" /\ taken' = <<>> /\ e.reintroduction_count < MaxReintroductions
      /\ InsertPending(Append(d, r))
      /\ UNCHANGED <<seen, released, queue, degraded, batch, retry, spooled, dropped>>
  BY <1>1 DEF PutBack
<1>3. e \in Entry /\ Obs(taken) = e.obs
  BY <1>1, <1>2, TakenEntry
<1>4. pending \in Seq(Entry) /\ ready \in Seq(Entry)
  BY DEF TypeOK
<1>5. /\ Apart(pending) /\ Apart(ready) /\ Obs(pending) \cap Obs(ready) = {}
      /\ InTracker \cap Obs(taken) = {}
  BY DEF NoneTwice, EntriesApart, ListsApart, InFlight
<1>6. d \in Seq(Entry) /\ Apart(d)
  BY <1>1, <1>4, <1>5, ObsDiscard, ApartDiscard
<1>7. r \in Entry /\ Obs(d) \cup r.obs = Obs(pending) \cup e.obs
  BY <1>1, <1>2, <1>3, ReintroducedType DEF Returned
<1>8. Obs(d) \cap r.obs = {}
  <2>1. CASE e.path \in Keys(pending)
    <3>1. r.obs = e.obs \cup Lookup(pending, e.path).obs
      BY <1>1, <2>1 DEF Reintroduced, PendingFile
    <3>2. /\ Lookup(pending, e.path).obs \cap Obs(d) = {}
          /\ Obs(d) \subseteq Obs(pending)
      BY <1>1, <1>4, <1>5, <2>1, ObsDiscard, ApartDiscard
    <3>3. QED
      BY <1>3, <1>5, <3>1, <3>2 DEF InTracker
  <2>2. CASE e.path \notin Keys(pending)
    <3>1. r.obs = e.obs /\ d = pending
      BY <1>1, <1>4, <2>2, ObsDiscard DEF Reintroduced, PendingFile
    <3>2. QED
      BY <1>3, <1>5, <3>1 DEF InTracker
  <2>3. QED
    BY <2>1, <2>2
<1>9. PICK c : c = Append(d, r)
  OBVIOUS
<1>10. c \in Seq(Entry) /\ Apart(c) /\ Obs(c) = Obs(pending) \cup Obs(taken)
  BY <1>3, <1>6, <1>7, <1>8, <1>9, ObsAppend, ApartAppend
<1>11. Obs(c) \cap Obs(ready) = {}
  BY <1>5, <1>10 DEF InTracker
<1>12. /\ Apart(pending') /\ Apart(ready') /\ Obs(pending') \cap Obs(ready') = {}
       /\ Obs(pending') \cup Obs(ready') = Obs(c) \cup Obs(ready)
  BY <1>2, <1>4, <1>5, <1>9, <1>10, <1>11, InsertApart, InsertKeeps
<1>13. EntriesApart'
  BY <1>2, <1>12 DEF NoneTwice, EntriesApart
<1>14. ListsApart'
  <2>1. /\ InTracker' = InTracker \cup Obs(taken) /\ Obs(taken') = {} /\ Settled' = Settled
    BY <1>2, <1>10, <1>12, ObsEmpty DEF InTracker, Settled
  <2>2. Obs(taken) \cap (InFlight' \cup Settled) = {}
    BY <1>2, <2>1 DEF NoneTwice, ListsApart, InFlight, InHasher
  <2>3. InTracker' \cap (InFlight' \cup Settled') = {}
    BY <1>2, <2>1, <2>2 DEF NoneTwice, ListsApart, InFlight
  <2>4. QED
    BY <1>2, <1>12, <2>1, <2>3 DEF NoneTwice, ListsApart, InHasher
<1>15. QED
  BY <1>2, <1>13, <1>14, NoSettlement DEF NoneTwice

LEMMA ThreadApart ==
    ASSUME SettleInv,
           \/ ObserverExit \/ ReleaserExit \/ NothingToHash \/ BeginDrain \/ MainStep
           \/ UNCHANGED vars
    PROVE  NoneTwice' /\ LedgerStep
<1>1. UNCHANGED <<seen, tracker, released, queue, degraded, hashing>>
  <2>1. CASE ObserverExit \/ ReleaserExit \/ NothingToHash \/ BeginDrain
    BY <2>1 DEF ObserverExit, ReleaserExit, NothingToHash, BeginDrain
  <2>2. CASE MainStep \/ UNCHANGED vars
    BY <2>2 DEF MainStep, Stop, JoinObserver, JoinReleaser, JoinHasher, Advance, vars
  <2>3. QED
    BY <2>1, <2>2
<1>2. NoneTwice'
  BY <1>1 DEF SettleInv, NoneTwice, EntriesApart, ListsApart, InTracker, InFlight, InHasher,
              Settled, tracker, hashing
<1>3. QED
  BY <1>1, <1>2, NoSettlement DEF hashing

LEMMA InitialSettle == Init => SettleInv /\ Ledger!Init
<1> SUFFICES ASSUME Init PROVE SettleInv /\ Ledger!Init
  OBVIOUS
<1>1. TypeOK /\ NothingVanishes
  BY InitialState
<1>2. EntriesApart
  BY ApartEmpty DEF Init, EntriesApart
<1>3. ListsApart
  BY ObsEmpty DEF Init, ListsApart, InTracker, InFlight, InHasher, Settled
<1>4. Ledger!Init
  BY DEF Init, Ledger!Init
<1>5. QED
  BY <1>1, <1>2, <1>3, <1>4 DEF SettleInv, NoneTwice

LEMMA SettleStep == SettleInv /\ [Next]_vars => SettleInv' /\ LedgerStep
<1> SUFFICES ASSUME SettleInv, [Next]_vars PROVE SettleInv' /\ LedgerStep
  OBVIOUS
<1>1. NoneTwice' /\ LedgerStep
  <2>1. CASE \E p \in Path : Observe(p)
    BY <2>1, ObserveApart
  <2>2. CASE ReleaserStep
    BY <2>2, ReleaseApart, SubmitApart, ThreadApart DEF ReleaserStep
  <2>3. CASE HasherStep
    BY <2>3, EmitNextApart, BatchApart, TakeNextApart, ThreadApart, ReportTakenApart,
       PutBackApart DEF HasherStep
  <2>4. CASE ObserverExit \/ MainStep \/ UNCHANGED vars
    BY <2>4, ThreadApart
  <2>5. QED
    BY <2>1, <2>2, <2>3, <2>4 DEF Next, ObserverStep, Terminated
<1>2. TypeOK' /\ NothingVanishes'
  BY NothingVanishesStep DEF SettleInv
<1>3. QED
  BY <1>1, <1>2 DEF SettleInv

\* Every observation is settled once: no interleaving, overflow, retry or hand-over
\* reports one twice, or gives one up that was reported.
THEOREM EverythingIsSettledOnce == Spec => SettledOnce
<1>1. LedgerStep => [Ledger!Next]_(Ledger!ledger)
  BY DEF LedgerStep, Ledger!ledger
<1>2. QED
  BY <1>1, InitialSettle, SettleStep, PTL DEF Spec, SettledOnce, Ledger!Spec

\* What the ledger promises, to whatever implements it: no observation is reported and
\* given up, and nothing is settled that watchdog did not deliver.
EachSettledOnce ==
    seen \in Nat /\ spooled \cap dropped = {} /\ spooled \cup dropped \subseteq 1..seen

THEOREM TheLedgerSettlesOnce == SettledOnce => []EachSettledOnce
<1>1. Ledger!Init => EachSettledOnce
  BY DEF Ledger!Init, EachSettledOnce
<1>2. EachSettledOnce /\ [Ledger!Next]_(Ledger!ledger) => EachSettledOnce'
  <2> SUFFICES ASSUME EachSettledOnce, [Ledger!Next]_(Ledger!ledger) PROVE EachSettledOnce'
    OBVIOUS
  <2>1. CASE UNCHANGED Ledger!ledger
    BY <2>1 DEF Ledger!ledger, EachSettledOnce
  <2>2. CASE Ledger!Arrive
    <3>1. seen' = seen + 1 /\ UNCHANGED <<spooled, dropped>>
      BY <2>2 DEF Ledger!Arrive
    <3>2. 1..seen \subseteq 1..(seen + 1) /\ seen + 1 \in Nat
      BY DEF EachSettledOnce
    <3>3. QED
      BY <3>1, <3>2 DEF EachSettledOnce
  <2>3. CASE Ledger!Settle
    <3>1. PICK event \in SUBSET Ledger!Open :
              \/ spooled' = spooled \cup event /\ UNCHANGED <<seen, dropped>>
              \/ dropped' = dropped \cup event /\ UNCHANGED <<seen, spooled>>
      BY <2>3 DEF Ledger!Settle
    <3>2. event \subseteq 1..seen /\ event \cap (spooled \cup dropped) = {}
      BY <3>1 DEF Ledger!Open
    <3>3. QED
      BY <3>1, <3>2 DEF EachSettledOnce
  <2>4. QED
    BY <2>1, <2>2, <2>3 DEF Ledger!Next
<1>3. QED
  BY <1>1, <1>2, PTL DEF SettledOnce, Ledger!Spec

-----------------------------------------------------------------------------
(* Rounds between tracker and hasher: each observation brings its own share *)

\* An absorbed entry loses its count, at most MaxReintroductions; its observations bring
\* as much.  An entry that stands for one observation has no more than its own count.
PaidEntry ==
    {e \in Entry :
        /\ IsFiniteSet(e.obs) /\ e.obs # {}
        /\ e.cycles <= MaxReintroductions * (Cardinality(e.obs) - 1) + e.reintroduction_count}

EntriesPaid ==
    /\ pending \in Seq(PaidEntry) /\ ready \in Seq(PaidEntry) /\ released \in Seq(PaidEntry)
    /\ queue \in Seq(PaidEntry) /\ degraded \in Seq(PaidEntry) /\ taken \in Seq(PaidEntry)

\* The arithmetic of shares: m rounds each for a and b observations, k of them spent.
LEMMA Shares ==
    ASSUME NEW m \in Nat, NEW a \in Nat \ {0}, NEW b \in Nat \ {0}
    PROVE  /\ m * (a - 1) \in Nat /\ m * (b - 1) \in Nat
           /\ m * ((a + b) - 1) = m * (a - 1) + m * (b - 1) + m
           /\ m * (a - 1) + m = m * a
<1>1. PICK c \in Nat, d \in Nat : a = c + 1 /\ b = d + 1
  <2>1. a - 1 \in Nat /\ a = (a - 1) + 1 /\ b - 1 \in Nat /\ b = (b - 1) + 1
    OBVIOUS
  <2>2. QED
    BY <2>1
<1>2. m * (c + d + 1) = m * c + m * d + m /\ m * c \in Nat /\ m * d \in Nat
      /\ m * (c + 1) = m * c + m
  OBVIOUS
<1>3. a - 1 = c /\ b - 1 = d /\ (a + b) - 1 = c + d + 1
  BY <1>1
<1>4. QED
  BY <1>1, <1>2, <1>3

LEMMA Count ==
    ASSUME NEW S, IsFiniteSet(S), S # {}
    PROVE  Cardinality(S) \in Nat \ {0}
BY FS_CardinalityType, FS_EmptySet

\* Observations of the tracker join an entry that waits.
LEMMA PaidObserved ==
    ASSUME NEW e \in PaidEntry, NEW f \in Entry, NEW x \in Nat, f.obs = e.obs \cup {x},
           f.reintroduction_count = e.reintroduction_count, f.cycles = e.cycles
    PROVE  f \in PaidEntry
<1>1. IsFiniteSet(e.obs) /\ e.obs # {} /\ e.cycles \in Nat /\ e.reintroduction_count \in Nat
      /\ e.cycles <= MaxReintroductions * (Cardinality(e.obs) - 1) + e.reintroduction_count
  BY PipelineAssumption DEF PaidEntry, Entry
<1>2. PICK a \in Nat \ {0} : a = Cardinality(e.obs)
  BY <1>1, Count
<1>3. /\ IsFiniteSet(f.obs) /\ f.obs # {}
      /\ Cardinality(f.obs) = IF x \in e.obs THEN a ELSE a + 1
  <2>1. /\ IsFiniteSet(e.obs \cup {x})
        /\ Cardinality(e.obs \cup {x})
              = IF x \in e.obs THEN Cardinality(e.obs) ELSE Cardinality(e.obs) + 1
    BY <1>1, FS_AddElement
  <2>2. QED
    BY <1>2, <2>1
<1>4. PICK m \in Nat : m = MaxReintroductions
  BY PipelineAssumption
<1>5. m * (a - 1) \in Nat /\ m * ((a + 1) - 1) = m * (a - 1) + m
  <2>1. m * ((a + 1) - 1) = m * (a - 1) + m * (1 - 1) + m /\ m * (a - 1) \in Nat
    BY Shares
  <2>2. QED
    BY <2>1
<1>6. f.cycles <= m * (Cardinality(f.obs) - 1) + f.reintroduction_count
  <2>1. CASE x \in e.obs
    BY <1>1, <1>2, <1>3, <1>4, <2>1
  <2>2. CASE x \notin e.obs
    <3>1. PICK c \in Nat, k \in Nat : c = e.cycles /\ k = e.reintroduction_count
      BY <1>1
    <3>2. PICK w \in Nat : w = m * (a - 1)
      BY <1>5
    <3>3. c <= w + k
      BY <1>1, <1>2, <1>4, <3>1, <3>2
    <3>4. m * (Cardinality(f.obs) - 1) = w + m
      BY <1>3, <1>5, <2>2, <3>2
    <3>5. c <= (w + m) + k
      BY <3>3
    <3>6. QED
      BY <3>1, <3>4, <3>5
  <2>3. QED
    BY <2>1, <2>2
<1>7. QED
  BY <1>3, <1>4, <1>6 DEF PaidEntry

\* A round more: the entry pays with its count, and for the count it absorbs with the
\* observations it takes over.
LEMMA PaidReintroduced ==
    ASSUME TypeOK, pending \in Seq(PaidEntry), NEW e \in PaidEntry,
           e.reintroduction_count < MaxReintroductions, Obs(pending) \cap e.obs = {}
    PROVE  Reintroduced(e) \in PaidEntry
<1>1. PICK r : r = Reintroduced(e)
  OBVIOUS
<1>2. e \in Entry /\ r \in Entry
  BY <1>1, ReintroducedType DEF PaidEntry, Returned
<1>3. PICK m, k, c : /\ m \in Nat /\ k \in Nat /\ c \in Nat
                     /\ m = MaxReintroductions /\ k = e.reintroduction_count /\ c = e.cycles
  BY <1>2, PipelineAssumption DEF Entry
<1>4. PICK a \in Nat \ {0} : a = Cardinality(e.obs)
  BY Count DEF PaidEntry
<1>5. PICK w \in Nat : w = m * (a - 1)
  BY <1>3, <1>4, Shares
<1>6. IsFiniteSet(e.obs) /\ e.obs # {} /\ c <= w + k
  BY <1>3, <1>4, <1>5 DEF PaidEntry
<1>7. CASE e.path \in Keys(pending)
  <2>1. PICK o : o = Lookup(pending, e.path)
    OBVIOUS
  <2>2. o \in PaidEntry /\ o.obs \subseteq Obs(pending)
    BY <1>7, <2>1, ObsDiscard
  <2>3. PICK l, d : /\ l \in 0..m /\ d \in Nat
                    /\ l = o.reintroduction_count /\ d = o.cycles
    BY <1>3, <2>2 DEF PaidEntry, Entry
  <2>4. PICK b \in Nat \ {0} : b = Cardinality(o.obs)
    BY <2>2, Count DEF PaidEntry
  <2>5. PICK v \in Nat : v = m * (b - 1)
    BY <1>3, <2>4, Shares
  <2>6. IsFiniteSet(o.obs) /\ d <= v + l
    BY <1>3, <2>2, <2>3, <2>4, <2>5 DEF PaidEntry
  <2>7. e.obs \cap o.obs = {}
    BY <2>2
  <2>8. IsFiniteSet(e.obs \cup o.obs) /\ Cardinality(e.obs \cup o.obs) = a + b
    <3>1. Cardinality(e.obs \cap o.obs) = 0
      BY <2>7, FS_EmptySet
    <3>2. /\ IsFiniteSet(e.obs \cup o.obs)
          /\ Cardinality(e.obs \cup o.obs)
                = Cardinality(e.obs) + Cardinality(o.obs) - Cardinality(e.obs \cap o.obs)
      BY <1>6, <2>6, FS_Union
    <3>3. QED
      BY <1>4, <2>4, <3>1, <3>2
  <2>9. m * ((a + b) - 1) = w + v + m
    <3>1. m * ((a + b) - 1) = m * (a - 1) + m * (b - 1) + m
      BY <1>3, <1>4, <2>4, Shares, SMTT(30)
    <3>2. QED
      BY <1>5, <2>5, <3>1
  <2>10. PICK n \in Nat : n = 1 + IF d > c THEN d ELSE c
    BY <1>3, <2>3
  <2>11. n <= (w + v + m) + (k + 1)
    <3>1. n = 1 + d \/ n = 1 + c
      BY <2>10
    <3>2. l <= m
      BY <1>3, <2>3
    <3>3. /\ c <= w + k /\ d <= v + l
          /\ c \in Nat /\ k \in Nat /\ w \in Nat /\ v \in Nat /\ m \in Nat
          /\ d \in Nat /\ l \in Nat
      BY <1>3, <1>5, <1>6, <2>3, <2>5, <2>6
    <3>4. QED
      BY <3>1, <3>2, <3>3
  <2>12. /\ r.obs = e.obs \cup o.obs /\ r.reintroduction_count = k + 1
         /\ r.cycles = n
    BY <1>1, <1>3, <1>7, <2>1, <2>3, <2>10 DEF Reintroduced, PendingFile
  <2>13. r.cycles <= MaxReintroductions * (Cardinality(r.obs) - 1) + r.reintroduction_count
    BY <1>3, <2>8, <2>9, <2>11, <2>12
  <2>14. QED
    BY <1>1, <1>2, <1>6, <2>8, <2>12, <2>13 DEF PaidEntry
<1>8. CASE e.path \notin Keys(pending)
  <2>1. PICK n \in Nat : n = 1 + c
    BY <1>3
  <2>2. n <= w + (k + 1)
    BY <1>3, <1>5, <1>6, <2>1
  <2>3. r.obs = e.obs /\ r.reintroduction_count = k + 1 /\ r.cycles = n
    <3>1. e.obs \cup {} = e.obs
      OBVIOUS
    <3>2. QED
      BY <1>1, <1>3, <1>8, <2>1, <3>1 DEF Reintroduced, PendingFile
  <2>4. r.cycles <= MaxReintroductions * (Cardinality(r.obs) - 1) + r.reintroduction_count
    BY <1>3, <1>4, <1>5, <2>2, <2>3
  <2>5. QED
    BY <1>1, <1>2, <1>6, <2>3, <2>4 DEF PaidEntry
<1>9. QED
  BY <1>7, <1>8

LEMMA ObservePaid ==
    ASSUME TypeOK, EntriesPaid, NEW p \in Path, Observe(p)
    PROVE  EntriesPaid'
<1>1. pending \in Seq(PaidEntry) /\ ready \in Seq(PaidEntry) /\ seen + 1 \in Nat
  BY DEF EntriesPaid, TypeOK
<1>2. pending' \in Seq(PaidEntry) /\ ready' \in Seq(PaidEntry)
  <2>1. CASE p \in Keys(pending)
    <3>1. PICK k \in DOMAIN pending : k = Position(pending, p)
      BY <1>1, <2>1, ObsDiscard
    <3>2. PICK e : e = [pending[k] EXCEPT !.obs = @ \cup {seen + 1}]
      OBVIOUS
    <3>3. pending[k] \in PaidEntry /\ pending[k] \in Entry
      BY <1>1 DEF PaidEntry
    <3>4. /\ e \in Entry /\ e.obs = pending[k].obs \cup {seen + 1}
          /\ e.reintroduction_count = pending[k].reintroduction_count
          /\ e.cycles = pending[k].cycles
      BY <1>1, <3>2, <3>3 DEF Entry
    <3>5. e \in PaidEntry
      BY <1>1, <3>3, <3>4, PaidObserved
    <3>6. pending' = Updated(pending, k, e) /\ ready' = ready
      BY <2>1, <3>1, <3>2 DEF Observe, Updated
    <3>7. Updated(pending, k, e) \in Seq(PaidEntry)
      BY <1>1, <3>4, <3>5, ObsUpdated
    <3>8. QED
      BY <1>1, <3>6, <3>7
  <2>2. CASE p \notin Keys(pending)
    <3>1. PICK e : e = PendingFile(p, {seen + 1}, 0, 0)
      OBVIOUS
    <3>2. e \in Entry /\ e.obs = {seen + 1} /\ e.reintroduction_count = 0 /\ e.cycles = 0
      BY <1>1, <3>1, PipelineAssumption DEF PendingFile, Entry
    <3>3. IsFiniteSet(e.obs) /\ Cardinality(e.obs) = 1
      BY <3>2, FS_Singleton
    <3>4. MaxReintroductions * (1 - 1) = 0
      BY PipelineAssumption
    <3>5. e \in PaidEntry
      BY <3>2, <3>3, <3>4 DEF PaidEntry
    <3>6. Append(pending, e) \in Seq(PaidEntry) /\ InsertPending(Append(pending, e))
      BY <1>1, <2>2, <3>1, <3>5 DEF Observe
    <3>7. QED
      BY <1>1, <3>6, InsertKeeps
  <2>3. QED
    BY <2>1, <2>2
<1>3. QED
  BY <1>2 DEF EntriesPaid, Observe, hashing

LEMMA ReleasePaid ==
    ASSUME EntriesPaid, ReleaseDue \/ Flush \/ Submit
    PROVE  EntriesPaid'
<1>1. CASE ReleaseDue
  <2>1. PICK s \in Splits(Len(pending)) :
            released' = ready \o Select(pending, s[1]) /\ pending' = Select(pending, s[2])
    BY <1>1 DEF ReleaseDue
  <2>2. Select(pending, s[1]) \in Seq(PaidEntry) /\ Select(pending, s[2]) \in Seq(PaidEntry)
    BY ObsSplit DEF EntriesPaid
  <2>3. released' \in Seq(PaidEntry) /\ pending' \in Seq(PaidEntry)
    BY <2>1, <2>2, ObsConcat DEF EntriesPaid
  <2>4. QED
    BY <1>1, <2>3, ObsEmpty DEF ReleaseDue, EntriesPaid, hashing
<1>2. CASE Flush
  <2>1. released' \in Seq(PaidEntry)
    BY <1>2, ObsConcat DEF Flush, EntriesPaid
  <2>2. QED
    BY <1>2, <2>1 DEF Flush, EntriesPaid, hashing
<1>3. CASE Submit
  <2>1. Head(released) \in PaidEntry /\ Tail(released) \in Seq(PaidEntry)
    BY <1>3, ObsHeadTail DEF Submit, EntriesPaid
  <2>2. PICK e \in PaidEntry : e = Head(released)
    BY <2>1
  <2>3. \/ queue' = Append(queue, e) /\ degraded' = degraded
        \/ degraded' = Append(degraded, e) /\ queue' = queue
    BY <1>3, <2>2 DEF Submit, SubmitTo
  <2>4. Append(queue, e) \in Seq(PaidEntry) /\ Append(degraded, e) \in Seq(PaidEntry)
    BY DEF EntriesPaid
  <2>5. queue' \in Seq(PaidEntry) /\ degraded' \in Seq(PaidEntry)
    BY <2>3, <2>4 DEF EntriesPaid
  <2>6. QED
    BY <1>3, <2>1, <2>5 DEF Submit, EntriesPaid, tracker, hashing
<1>4. QED
  BY <1>1, <1>2, <1>3

LEMMA HasherPaid ==
    ASSUME SettleInv, EntriesPaid, HasherStep
    PROVE  EntriesPaid'
<1>1. CASE EmitNext
  BY <1>1 DEF EmitNext, EntriesPaid, tracker
<1>2. CASE \/ ProcessRetries \/ ProcessDegraded \/ DrainDegraded \/ DrainRetries
           \/ DrainQueue \/ HasherExit
  <2>1. UNCHANGED <<tracker, released, taken>>
    BY <1>2 DEF ProcessRetries, ProcessDegraded, DrainDegraded, DrainRetries, DrainQueue,
                HasherExit, NextBatch
  <2>2. (queue' = queue \/ queue' = <<>>) /\ (degraded' = degraded \/ degraded' = <<>>)
    BY <1>2 DEF ProcessRetries, ProcessDegraded, DrainDegraded, DrainRetries, DrainQueue,
                HasherExit
  <2>3. queue' \in Seq(PaidEntry) /\ degraded' \in Seq(PaidEntry)
    <3>1. queue \in Seq(PaidEntry) /\ degraded \in Seq(PaidEntry) /\ <<>> \in Seq(PaidEntry)
      BY DEF EntriesPaid
    <3>2. QED
      BY <2>2, <3>1, Zenon
  <2>4. UNCHANGED <<pending, ready, released, taken>>
    BY <2>1 DEF tracker
  <2>5. QED
    BY <2>3, <2>4 DEF EntriesPaid
<1>3. CASE TakeNext("degraded", "hash") \/ TakeNext("drain", "last_hash")
  <2>1. queue # <<>> /\ taken' = <<Head(queue)>> /\ queue' = Tail(queue)
        /\ UNCHANGED <<tracker, released, degraded>>
    BY <1>3 DEF TakeNext
  <2>2. Head(queue) \in PaidEntry /\ Tail(queue) \in Seq(PaidEntry)
    BY <2>1, ObsHeadTail DEF EntriesPaid
  <2>3. QED
    BY <2>1, <2>2 DEF EntriesPaid, tracker
<1>4. CASE NothingToHash \/ BeginDrain
  BY <1>4 DEF NothingToHash, BeginDrain, EntriesPaid, tracker, hashing
<1>5. CASE ReportTaken
  BY <1>5 DEF ReportTaken, EntriesPaid, tracker
<1>6. CASE PutBack
  <2>1. PICK e, d, r : e = taken[1] /\ d = Discard(pending, e.path) /\ r = Reintroduced(e)
    OBVIOUS
  <2>2. /\ hasher = "hash" /\ taken' = <<>> /\ e.reintroduction_count < MaxReintroductions
        /\ InsertPending(Append(d, r)) /\ UNCHANGED <<released, queue, degraded>>
    BY <1>6, <2>1 DEF PutBack
  <2>3. Obs(taken) = e.obs
    BY <2>1, <2>2, TakenEntry DEF SettleInv
  <2>4. e \in PaidEntry
    <3>1. taken # <<>> /\ taken \in Seq(PaidEntry)
      BY <2>2 DEF SettleInv, TypeOK, EntriesPaid
    <3>2. QED
      BY <2>1, <3>1
  <2>5. Obs(pending) \cap e.obs = {}
    BY <2>3 DEF SettleInv, NoneTwice, ListsApart, InTracker, InFlight
  <2>6. r \in PaidEntry
    BY <2>1, <2>2, <2>4, <2>5, PaidReintroduced DEF SettleInv, EntriesPaid
  <2>7. d \in Seq(PaidEntry)
    BY <2>1, ObsDiscard DEF EntriesPaid
  <2>8. Append(d, r) \in Seq(PaidEntry)
    BY <2>6, <2>7
  <2>9. pending' \in Seq(PaidEntry) /\ ready' \in Seq(PaidEntry)
    BY <2>2, <2>8, InsertKeeps DEF EntriesPaid
  <2>10. QED
    BY <2>2, <2>9 DEF EntriesPaid
<1>7. QED
  BY <1>1, <1>2, <1>3, <1>4, <1>5, <1>6 DEF HasherStep

\* No file circulates between tracker and hasher for ever: although a count is lost
\* whenever two entries of one path meet (finding 2 of the README), an entry has failed
\* the double check at most max_reintroductions times for each of its observations.
THEOREM RoundsArePaid == Spec => []RoundsArePaidFor
<1>1. Init => SettleInv /\ EntriesPaid
  <2> SUFFICES ASSUME Init PROVE SettleInv /\ EntriesPaid
    OBVIOUS
  <2>1. SettleInv
    BY InitialSettle
  <2>2. EntriesPaid
    BY DEF Init, EntriesPaid
  <2>3. QED
    BY <2>1, <2>2
<1>2. SettleInv /\ EntriesPaid /\ [Next]_vars => SettleInv' /\ EntriesPaid'
  <2> SUFFICES ASSUME SettleInv, EntriesPaid, [Next]_vars PROVE SettleInv' /\ EntriesPaid'
    OBVIOUS
  <2>1. SettleInv'
    BY SettleStep
  <2>2. EntriesPaid'
    <3>1. CASE \E p \in Path : Observe(p)
      BY <3>1, ObservePaid DEF SettleInv
    <3>2. CASE ReleaseDue \/ Flush \/ Submit
      BY <3>2, ReleasePaid
    <3>3. CASE HasherStep
      BY <3>3, HasherPaid
    <3>4. CASE ObserverExit \/ ReleaserExit
      BY <3>4 DEF ObserverExit, ReleaserExit, EntriesPaid, tracker, hashing
    <3>5. CASE MainStep \/ UNCHANGED vars
      BY <3>5 DEF MainStep, Stop, JoinObserver, JoinReleaser, JoinHasher, Advance, vars,
                  EntriesPaid, tracker, hashing
    <3>6. QED
      BY <3>1, <3>2, <3>3, <3>4, <3>5 DEF Next, ObserverStep, ReleaserStep, Terminated
  <2>3. QED
    BY <2>1, <2>2
<1>3. EntriesPaid => RoundsArePaidFor
  <2> SUFFICES ASSUME EntriesPaid,
                      NEW e \in ToSet(pending) \cup ToSet(ready) \cup ToSet(released)
                                  \cup ToSet(queue) \cup ToSet(degraded) \cup ToSet(taken)
               PROVE  e.cycles <= MaxReintroductions * Cardinality(e.obs)
    BY DEF RoundsArePaidFor
  <2>1. e \in PaidEntry
    BY DEF EntriesPaid, ToSet
  <2>2. PICK m, k, c : /\ m \in Nat /\ k \in 0..m /\ c \in Nat
                       /\ m = MaxReintroductions /\ k = e.reintroduction_count /\ c = e.cycles
    BY <2>1, PipelineAssumption DEF PaidEntry, Entry
  <2>3. PICK a \in Nat \ {0} : a = Cardinality(e.obs)
    BY <2>1, Count DEF PaidEntry
  <2>4. PICK w \in Nat : w = m * (a - 1) /\ w + m = m * a
    BY <2>2, <2>3, Shares
  <2>5. c <= w + k
    BY <2>1, <2>2, <2>3, <2>4 DEF PaidEntry
  <2>6. c <= m * a
    BY <2>2, <2>4, <2>5
  <2>7. QED
    BY <2>2, <2>3, <2>6
<1>4. QED
  BY <1>1, <1>2, <1>3, PTL DEF Spec
===============================================================================
