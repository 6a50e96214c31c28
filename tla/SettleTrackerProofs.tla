-------------------------- MODULE SettleTrackerProofs --------------------------
(***************************************************************************)
(* Theorems about SettleTracker, for every number of files, every capacity *)
(* and every setting of its clocks.                                        *)
(***************************************************************************)
EXTENDS SettleTracker, OrderedDictProofs

LEMMA PendingFileType ==
    ASSUME NEW p \in Path, NEW now \in 0..MaxTime, NEW o \in (SUBSET (1..MaxObservations)) \ {{}}
    PROVE  PendingFile(p, now, o) \in Entry
BY TrackerAssumption DEF PendingFile, Entry, Reason

LEMMA ReleasedType ==
    ASSUME NEW e \in Entry, NEW why \in Reason
    PROVE  /\ Released(e, why) \in Entry /\ Released(e, why).reason = why
           /\ Released(e, why).obs = e.obs /\ Released(e, why).path = e.path
           /\ Released(e, why).last_seen = e.last_seen
BY DEF Released, Entry

-----------------------------------------------------------------------------
(* What holds of a list also holds of what is left of it *)

WindowOrder(d) ==
    \A i, j \in DOMAIN d : i < j => d[i].settling_since <= d[j].settling_since + StallBound

LEMMA SubsequenceKeeps ==
    ASSUME NEW t \in Seq(Entry), NEW s \in Seq(Entry), Subsequence(t, s)
    PROVE  /\ OnePerPath(s) => OnePerPath(t)
           /\ WindowOrder(s) => WindowOrder(t)
           /\ \A i \in DOMAIN t : \E j \in DOMAIN s : t[i] = s[j]
<1>1. PICK f : /\ \A i \in DOMAIN t : f[i] \in DOMAIN s /\ t[i] = s[f[i]]
               /\ \A i, j \in DOMAIN t : i < j => f[i] < f[j]
  BY DEF Subsequence
<1>2. \A i, j \in DOMAIN t : i < j \/ j < i \/ i = j
  OBVIOUS
<1>3. \A i \in DOMAIN t : f[i] \in Int
  BY <1>1
<1>4. \A i, j \in DOMAIN t : f[i] = f[j] => i = j
  BY <1>1, <1>2, <1>3
<1>5. OnePerPath(s) => OnePerPath(t)
  <2> SUFFICES ASSUME OnePerPath(s), NEW i \in DOMAIN t, NEW j \in DOMAIN t,
                      t[i].path = t[j].path
               PROVE  i = j
    BY DEF OnePerPath
  <2>1. s[f[i]].path = s[f[j]].path /\ f[i] \in DOMAIN s /\ f[j] \in DOMAIN s
    BY <1>1
  <2>2. f[i] = f[j]
    BY <2>1 DEF OnePerPath
  <2>3. QED
    BY <2>2, <1>4
<1>6. WindowOrder(s) => WindowOrder(t)
  BY <1>1 DEF WindowOrder
<1>7. QED
  BY <1>1, <1>5, <1>6

LEMMA AppendKeeps ==
    ASSUME NEW s \in Seq(Entry), NEW e \in Entry
    PROVE  /\ Append(s, e) \in Seq(Entry)
           /\ OnePerPath(s) /\ e.path \notin Keys(s) => OnePerPath(Append(s, e))
           /\ (WindowOrder(s) /\ \A i \in DOMAIN s :
                  s[i].settling_since <= e.settling_since + StallBound)
                => WindowOrder(Append(s, e))
           /\ \A i \in DOMAIN Append(s, e) :
                 Append(s, e)[i] = e \/ \E j \in DOMAIN s : Append(s, e)[i] = s[j]
<1> DEFINE t == Append(s, e)
<1>1. /\ DOMAIN t = DOMAIN s \cup {Len(s) + 1} /\ t \in Seq(Entry)
      /\ t[Len(s) + 1] = e /\ \A i \in DOMAIN s : t[i] = s[i]
      /\ \A i \in DOMAIN s : i < Len(s) + 1 /\ i \in Int
      /\ Len(s) \in Nat
  OBVIOUS
<1> HIDE DEF t
<1>2. OnePerPath(s) /\ e.path \notin Keys(s) => OnePerPath(t)
  BY <1>1 DEF OnePerPath, Keys
<1>3. (WindowOrder(s) /\ \A i \in DOMAIN s :
          s[i].settling_since <= e.settling_since + StallBound) => WindowOrder(t)
  BY <1>1 DEF WindowOrder
<1>4. \A i \in DOMAIN t : t[i] = e \/ \E j \in DOMAIN s : t[i] = s[j]
  BY <1>1
<1>5. QED
  BY <1>1, <1>2, <1>3, <1>4 DEF t

\* What _force_release_over_capacity leaves, and what it adds to _ready.
LEMMA ForceReleaseType ==
    ASSUME NEW d \in Seq(Entry), ready \in Seq(Entry), ForceReleaseOverCapacity(d)
    PROVE  /\ pending' \in Seq(Entry) /\ Subsequence(pending', d)
           /\ Len(pending') <= MaxPendingFiles
           /\ \E w \in Seq(Entry) :
                 /\ ready' = ready \o w /\ DOMAIN w = DOMAIN Evicted(d, MaxPendingFiles)
                 /\ \A i \in DOMAIN w :
                       w[i] = Released(Evicted(d, MaxPendingFiles)[i], "capacity")
<1> DEFINE v == Evicted(d, MaxPendingFiles)
           w == [i \in DOMAIN v |-> Released(v[i], "capacity")]
<1>1. /\ Kept(d, MaxPendingFiles) \in Seq(Entry) /\ v \in Seq(Entry)
      /\ Len(Kept(d, MaxPendingFiles)) <= MaxPendingFiles
  BY TrackerAssumption, ObsEvict
<1>2. Subsequence(Kept(d, MaxPendingFiles), d)
  BY TrackerAssumption, SubsequenceEvict
<1>3. pending' = Kept(d, MaxPendingFiles) /\ ready' = ready \o w
  BY DEF ForceReleaseOverCapacity
<1> HIDE DEF v
<1>4. \A i \in DOMAIN v : w[i] \in Entry /\ w[i] = Released(v[i], "capacity")
  <2> TAKE i \in DOMAIN v
  <2>1. v[i] \in Entry /\ "capacity" \in Reason
    BY <1>1 DEF Reason
  <2>2. QED
    BY <2>1, ReleasedType
<1>5. w \in Seq(Entry) /\ DOMAIN w = DOMAIN v
  <2>1. DOMAIN v = 1..Len(v) /\ Len(v) \in Nat
    BY <1>1
  <2>2. w \in [1..Len(v) -> Entry]
    BY <1>4, <2>1
  <2>3. QED
    BY <2>1, <2>2
<1> HIDE DEF w
<1>6. QED
  BY <1>1, <1>2, <1>3, <1>4, <1>5 DEF v

-----------------------------------------------------------------------------
(* Types *)

\* The entry the hasher puts back.
LEMMA ReintroducedType ==
    ASSUME TypeOK, NEW e \in Entry, NEW now \in 0..MaxTime,
           e.reintroduction_count < MaxReintroductions
    PROVE  /\ Reintroduced(e, now) \in Entry
           /\ Reintroduced(e, now).path = e.path
           /\ Reintroduced(e, now).last_seen = now /\ Reintroduced(e, now).settling_since = now
           /\ Reintroduced(e, now).obs = e.obs \cup Absorbed(e)
<1>1. Absorbed(e) \subseteq 1..MaxObservations
  <2>1. pending \in Seq(Entry)
    BY DEF TypeOK
  <2>2. CASE e.path \in Keys(pending)
    <3>1. Lookup(pending, e.path) \in Entry
      BY <2>1, <2>2, ObsDiscard
    <3>2. QED
      BY <2>2, <3>1 DEF Absorbed, Entry
  <2>3. CASE e.path \notin Keys(pending)
    BY <2>3 DEF Absorbed
  <2>4. QED
    BY <2>2, <2>3
<1>2. PICK o : o = e.obs \cup Absorbed(e)
  OBVIOUS
<1>3. PICK n \in 0..MaxReintroductions : n = e.reintroduction_count + 1
  BY TrackerAssumption DEF Entry
<1>4. /\ e.path \in Path /\ e.first_seen \in 0..MaxTime
      /\ o \in (SUBSET (1..MaxObservations)) \ {{}}
  <2>1. e.path \in Path /\ e.first_seen \in 0..MaxTime
    BY DEF Entry
  <2>2. e.obs \subseteq 1..MaxObservations /\ e.obs # {}
    BY DEF Entry
  <2>3. o \subseteq 1..MaxObservations /\ o # {}
    BY <1>1, <1>2, <2>2
  <2>4. QED
    BY <2>1, <2>3
<1>5. Reintroduced(e, now) =
         [PendingFile(e.path, e.first_seen, o)
             EXCEPT !.last_seen = now, !.settling_since = now, !.reintroduction_count = n]
  BY <1>2, <1>3 DEF Reintroduced
<1>6. QED
  BY <1>2, <1>4, <1>5 DEF PendingFile, Entry, Reason

\* A call on its way to the lock.
LEMMA CallTypes ==
    ASSUME TypeOK
    PROVE  /\ call["observer"].op = "observe" =>
                 call["observer"].now \in 0..clock /\ call["observer"].path \in Path
           /\ call["releaser"].op = "due" => call["releaser"].now \in 0..clock
           /\ call["hasher"].op = "reintroduce" =>
                 /\ call["hasher"].now \in 0..clock /\ call["hasher"].entry \in held
                 /\ call["hasher"].entry \in Entry
                 /\ call["hasher"].entry.reintroduction_count < MaxReintroductions
BY DEF TypeOK, ObserverCall, ReleaserCall, HasherCall, Idle, Retriable

\* Every observation is about one that arrived: the entry it opens or joins.
LEMMA NewObs ==
    ASSUME TypeOK, call["observer"].op = "observe"
    PROVE  {seen + 1} \in (SUBSET (1..MaxObservations)) \ {{}} /\ seen + 1 \in 0..MaxObservations
BY TrackerAssumption DEF TypeOK, Idle

LEMMA EnterType ==
    ASSUME TypeOK,
           \/ \E p \in Path : EnterObserve(p)
           \/ EnterDue
           \/ \E e \in held : EnterReintroduce(e)
    PROVE  TypeOK'
<1>1. UNCHANGED <<clock, pending, ready, held, draining, lastDue, seen, evidence, reported>>
  BY DEF EnterObserve, EnterDue, EnterReintroduce, Enter
<1>2. clock \in 0..clock
  BY TrackerAssumption DEF TypeOK
<1>3. /\ DOMAIN call' = Thread /\ call'["observer"] \in ObserverCall
      /\ call'["releaser"] \in ReleaserCall /\ call'["hasher"] \in HasherCall
      /\ call'["observer"] # Idle => seen < MaxObservations
  <2> USE DEF Thread, Enter
  <2>1. CASE \E p \in Path : EnterObserve(p)
    <3>1. PICK p \in Path : EnterObserve(p)
      BY <2>1
    <3>2. [op |-> "observe", now |-> clock, path |-> p] \in ObserverCall
      BY <1>2 DEF ObserverCall
    <3>3. QED
      BY <3>1, <3>2 DEF EnterObserve, TypeOK
  <2>2. CASE EnterDue
    <3>1. [op |-> "due", now |-> clock] \in ReleaserCall
      BY <1>2 DEF ReleaserCall
    <3>2. QED
      BY <2>2, <3>1 DEF EnterDue, TypeOK
  <2>3. CASE \E e \in held : EnterReintroduce(e)
    <3>1. PICK e \in held : EnterReintroduce(e)
      BY <2>3
    <3>2. [op |-> "reintroduce", now |-> clock, entry |-> e] \in HasherCall
      BY <1>2, <3>1 DEF HasherCall, Retriable, EnterReintroduce
    <3>3. QED
      BY <3>1, <3>2 DEF EnterReintroduce, TypeOK
  <2>4. QED
    BY <2>1, <2>2, <2>3
<1>4. QED
  BY <1>1, <1>3 DEF TypeOK, ObserverCall, ReleaserCall, HasherCall, Retriable

\* ready with what was evicted.
LEMMA ForceReleaseReady ==
    ASSUME NEW d \in Seq(Entry), ready \in Seq(Entry), ForceReleaseOverCapacity(d)
    PROVE  ready' \in Seq(Entry)
<1>1. PICK w \in Seq(Entry) : ready' = ready \o w
  BY ForceReleaseType
<1>2. QED
  BY <1>1

LEMMA ObserveType ==
    ASSUME TypeOK, Observe
    PROVE  TypeOK'
<1>1. PICK c : c = call["observer"]
  OBVIOUS
<1>2. /\ c.op = "observe" /\ c.now \in 0..MaxTime /\ c.path \in Path
      /\ pending \in Seq(Entry) /\ ready \in Seq(Entry) /\ OnePerPath(pending)
  <2>1. c.op = "observe" /\ c.now \in 0..clock /\ c.path \in Path
    BY <1>1, CallTypes DEF Observe
  <2>2. QED
    BY <2>1, TrackerAssumption DEF TypeOK
<1>3. {seen + 1} \in (SUBSET (1..MaxObservations)) \ {{}} /\ seen + 1 \in 0..MaxObservations
  BY <1>1, <1>2, NewObs
<1>4. /\ pending' \in Seq(Entry) /\ ready' \in Seq(Entry) /\ OnePerPath(pending')
      /\ Len(pending') <= MaxPendingFiles
  <2>1. CASE c.path \in Keys(pending) /\ ObserveKnown(c) /\ UNCHANGED ready
    <3>1. PICK k \in DOMAIN pending : k = Position(pending, c.path)
      BY <1>2, <2>1, ObsDiscard
    <3>2. PICK r : r = [pending[k] EXCEPT !.last_seen = c.now, !.obs = @ \cup {seen + 1}]
      OBVIOUS
    <3>3. r \in Entry /\ r.path = pending[k].path
      <4>1. pending[k] \in Entry
        BY <1>2
      <4>2. pending[k].obs \subseteq 1..MaxObservations
        BY <4>1 DEF Entry
      <4>3. pending[k].obs \cup {seen + 1} \in (SUBSET (1..MaxObservations)) \ {{}}
        BY <1>3, <4>2
      <4>4. QED
        BY <1>2, <3>2, <4>1, <4>3 DEF Entry
    <3>4. pending' = [pending EXCEPT ![k] = r]
      BY <2>1, <3>1, <3>2 DEF ObserveKnown, Lookup
    <3>5. /\ pending' \in Seq(Entry) /\ Len(pending') = Len(pending)
          /\ DOMAIN pending' = DOMAIN pending
          /\ \A i \in DOMAIN pending : pending'[i].path = pending[i].path
      BY <1>2, <3>3, <3>4
    <3>6. OnePerPath(pending')
      BY <1>2, <3>5 DEF OnePerPath
    <3>7. QED
      BY <1>2, <2>1, <3>5, <3>6 DEF TypeOK
  <2>2. CASE c.path \notin Keys(pending) /\ ObserveNew(c)
    <3>1. PICK e : e = PendingFile(c.path, c.now, {seen + 1})
      OBVIOUS
    <3>2. e \in Entry /\ e.path = c.path
      BY <1>2, <1>3, <3>1, PendingFileType DEF PendingFile
    <3>3. PICK d : d = Append(pending, e)
      OBVIOUS
    <3>4. d \in Seq(Entry) /\ OnePerPath(d)
      BY <1>2, <2>2, <3>2, <3>3, AppendKeeps
    <3>5. ForceReleaseOverCapacity(d)
      BY <2>2, <3>1, <3>3 DEF ObserveNew
    <3>6. /\ pending' \in Seq(Entry) /\ Len(pending') <= MaxPendingFiles
          /\ Subsequence(pending', d)
      BY <1>2, <3>4, <3>5, ForceReleaseType
    <3>7. ready' \in Seq(Entry)
      BY <1>2, <3>4, <3>5, ForceReleaseReady
    <3>8. OnePerPath(pending')
      BY <3>4, <3>6, SubsequenceKeeps
    <3>9. QED
      BY <3>6, <3>7, <3>8
  <2>3. QED
    BY <1>1, <2>1, <2>2 DEF Observe
<1>5. /\ seen' = seen + 1 /\ call' = [call EXCEPT !["observer"] = Idle]
      /\ UNCHANGED <<clock, held, draining, lastDue, reported>>
  BY DEF Observe, Leave
<1>6. QED
  BY <1>3, <1>4, <1>5
     DEF TypeOK, Thread, ObserverCall, ReleaserCall, HasherCall, Retriable

\* The two halves of _pending that due() makes: index by index.
LEMMA DueParts ==
    ASSUME TypeOK, Due, NEW now, now = call["releaser"].now
    PROVE  /\ now \in 0..clock
           /\ pending' \in Seq(Entry) /\ Len(pending') <= Len(pending)
           /\ Subsequence(pending', pending)
           /\ \A i \in DOMAIN pending' : \E j \in DOMAIN pending \ Ripe(now) : pending'[i] = pending[j]
           /\ \A j \in DOMAIN pending \ Ripe(now) : \E i \in DOMAIN pending' : pending'[i] = pending[j]
           /\ Apart(pending) => Apart(pending')
           /\ held' = held \cup ToSet(ready)
                        \cup {Released(pending[i], DueReason(pending[i], now)) : i \in Ripe(now)}
<1>1. PICK s \in Splits(Len(pending)) : Range(s[1]) = Ripe(now) /\ pending' = Select(pending, s[2])
  BY DEF Due
<1>2. pending \in Seq(Entry) /\ DOMAIN pending = 1..Len(pending)
  BY DEF TypeOK
<1>3. /\ pending' \in Seq(Entry) /\ Len(pending') <= Len(pending)
      /\ Subsequence(pending', pending)
  BY <1>1, <1>2, ObsSplit, SubsequenceSplit
<1>4. Apart(pending) => Apart(pending')
  BY <1>1, <1>2, ApartSplit
<1>5. PICK g : g = s[2] /\ g \in Selections(Len(pending)) /\ Range(g) = DOMAIN pending \ Ripe(now)
  BY <1>1, <1>2 DEF Splits
<1>6. PICK n \in 0..Len(pending) : g \in [1..n -> 1..Len(pending)]
  BY <1>5 DEF Selections
<1>7. DOMAIN pending' = DOMAIN g /\ \A i \in DOMAIN g : pending'[i] = pending[g[i]]
  BY <1>1, <1>5, <1>6 DEF Select
<1>8. \A i \in DOMAIN pending' : \E j \in DOMAIN pending \ Ripe(now) : pending'[i] = pending[j]
  BY <1>5, <1>7 DEF Range
<1>9. \A j \in DOMAIN pending \ Ripe(now) : \E i \in DOMAIN pending' : pending'[i] = pending[j]
  BY <1>5, <1>7 DEF Range
<1>10. /\ now \in 0..clock
       /\ held' = held \cup ToSet(ready)
                    \cup {Released(pending[i], DueReason(pending[i], now)) : i \in Ripe(now)}
  BY CallTypes DEF Due
<1>11. QED
  BY <1>3, <1>4, <1>8, <1>9, <1>10

LEMMA DueType ==
    ASSUME TypeOK, Due
    PROVE  TypeOK'
<1>1. PICK now : now = call["releaser"].now
  OBVIOUS
<1>3. /\ now \in 0..clock /\ pending' \in Seq(Entry) /\ Len(pending') <= Len(pending)
      /\ Subsequence(pending', pending)
      /\ held' = held \cup ToSet(ready)
                   \cup {Released(pending[i], DueReason(pending[i], now)) : i \in Ripe(now)}
  BY <1>1, DueParts
<1>4. pending \in Seq(Entry) /\ ready \in Seq(Entry) /\ OnePerPath(pending)
  BY DEF TypeOK
<1>5. OnePerPath(pending')
  BY <1>3, <1>4, SubsequenceKeeps
<1>6. held' \subseteq Entry /\ held \subseteq held'
  <2>1. \A i \in Ripe(now) : Released(pending[i], DueReason(pending[i], now)) \in Entry
    <3> TAKE i \in Ripe(now)
    <3>1. pending[i] \in Entry /\ DueReason(pending[i], now) \in Reason
      BY <1>4 DEF DueReason, Reason, Ripe
    <3>2. QED
      BY <3>1, ReleasedType
  <2>2. ToSet(ready) \subseteq Entry
    BY <1>4 DEF ToSet
  <2>3. QED
    BY <1>3, <2>1, <2>2 DEF TypeOK
<1>7. /\ ready' = <<>> /\ lastDue' = now /\ call' = [call EXCEPT !["releaser"] = Idle]
      /\ UNCHANGED <<clock, draining, seen, evidence, reported>>
  BY <1>1 DEF Due, Leave
<1>8. Len(pending') <= MaxPendingFiles
  BY <1>3, <1>4, TrackerAssumption DEF TypeOK
<1>9. QED
  BY <1>3, <1>5, <1>6, <1>7, <1>8
     DEF TypeOK, Thread, ObserverCall, ReleaserCall, HasherCall, Retriable

LEMMA FlushType ==
    ASSUME TypeOK, Flush
    PROVE  TypeOK'
<1>1. pending \in Seq(Entry) /\ ready \in Seq(Entry)
  BY DEF TypeOK
<1>2. /\ held' = held \cup ToSet(ready) \cup {Released(e, "shutdown") : e \in ToSet(pending)}
      /\ pending' = <<>> /\ ready' = <<>> /\ draining' = TRUE
      /\ UNCHANGED <<clock, call, lastDue, seen, evidence, reported>>
  BY DEF Flush
<1>3. held' \subseteq Entry /\ held \subseteq held'
  <2>1. ToSet(pending) \subseteq Entry /\ ToSet(ready) \subseteq Entry /\ "shutdown" \in Reason
    BY <1>1 DEF ToSet, Reason
  <2>2. \A e \in ToSet(pending) : Released(e, "shutdown") \in Entry
    BY <2>1, ReleasedType
  <2>3. QED
    BY <1>2, <2>1, <2>2 DEF TypeOK
<1>4. Len(pending') <= MaxPendingFiles /\ OnePerPath(pending')
  BY <1>2, TrackerAssumption DEF OnePerPath
<1>5. QED
  BY <1>2, <1>3, <1>4 DEF TypeOK, HasherCall, ObserverCall, ReleaserCall, Retriable

LEMMA ReintroduceType ==
    ASSUME TypeOK, Reintroduce
    PROVE  TypeOK'
<1>1. PICK c, e : c = call["hasher"] /\ e = c.entry
  OBVIOUS
<1>2. /\ c.now \in 0..MaxTime /\ e \in Entry /\ e \in held
      /\ e.reintroduction_count < MaxReintroductions
      /\ pending \in Seq(Entry) /\ ready \in Seq(Entry) /\ OnePerPath(pending)
  <2>1. /\ c.now \in 0..clock /\ e \in Entry /\ e \in held
        /\ e.reintroduction_count < MaxReintroductions
    BY <1>1, CallTypes DEF Reintroduce
  <2>2. QED
    BY <2>1, TrackerAssumption DEF TypeOK
<1>3. PICK d, r, l : /\ d = Discard(pending, e.path) /\ r = Reintroduced(e, c.now)
                     /\ l = Append(d, r)
  OBVIOUS
<1>4. r \in Entry /\ r.path = e.path
  BY <1>2, <1>3, ReintroducedType
<1>5. d \in Seq(Entry) /\ Subsequence(d, pending) /\ e.path \notin Keys(d)
  BY <1>2, <1>3, ObsDiscard, SubsequenceDiscard DEF OnePerPath
<1>6. OnePerPath(d)
  BY <1>2, <1>5, SubsequenceKeeps
<1>7. l \in Seq(Entry) /\ OnePerPath(l)
  BY <1>3, <1>4, <1>5, <1>6, AppendKeeps
<1>8. /\ ForceReleaseOverCapacity(l) /\ held' = held \ {e}
      /\ call' = [call EXCEPT !["hasher"] = Idle]
      /\ UNCHANGED <<clock, draining, lastDue, seen, reported>>
  BY <1>1, <1>3 DEF Reintroduce, Leave
<1>9. /\ pending' \in Seq(Entry) /\ Len(pending') <= MaxPendingFiles
      /\ Subsequence(pending', l)
  BY <1>2, <1>7, <1>8, ForceReleaseType
<1>10. ready' \in Seq(Entry)
  BY <1>2, <1>7, <1>8, ForceReleaseReady
<1>11. OnePerPath(pending')
  BY <1>7, <1>9, SubsequenceKeeps
<1>12. QED
  BY <1>8, <1>9, <1>10, <1>11 DEF TypeOK, Thread, ObserverCall, ReleaserCall, HasherCall

LEMMA ReportType ==
    ASSUME TypeOK, NEW e \in held, Report(e)
    PROVE  TypeOK'
<1>1. /\ call["hasher"] = Idle /\ held' = held \ {e} /\ reported' = reported \cup e.obs
      /\ UNCHANGED <<clock, pending, ready, call, draining, lastDue, seen, evidence>>
  BY DEF Report
<1>2. e.obs \subseteq 1..MaxObservations
  <2>1. e \in Entry
    BY DEF TypeOK
  <2>2. QED
    BY <2>1 DEF Entry
<1>3. QED
  BY <1>1, <1>2 DEF TypeOK, ObserverCall, ReleaserCall, HasherCall

LEMMA TickType ==
    ASSUME TypeOK, Tick
    PROVE  TypeOK'
<1>1. /\ clock' = clock + 1 /\ clock < MaxTime
      /\ UNCHANGED <<pending, ready, held, call, draining, lastDue, seen, reported>>
  BY DEF Tick
<1>2. clock' \in 0..MaxTime /\ 0..clock \subseteq 0..clock'
  BY <1>1, TrackerAssumption DEF TypeOK
<1>3. QED
  BY <1>1, <1>2 DEF TypeOK, ObserverCall, ReleaserCall, HasherCall, Retriable

LEMMA TypeStep ==
    ASSUME TypeOK, [Next]_vars
    PROVE  TypeOK'
<1>1. CASE UNCHANGED vars
  BY <1>1 DEF vars, TypeOK, ObserverCall, ReleaserCall, HasherCall, Retriable
<1>2. QED
  BY <1>1, EnterType, ObserveType, DueType, FlushType, ReintroduceType, ReportType, TickType
     DEF Next

LEMMA InitialType == Init => TypeOK
<1> SUFFICES ASSUME Init PROVE TypeOK
  OBVIOUS
<1>1. <<>> \in Seq(Entry) /\ Len(<<>>) = 0 /\ OnePerPath(<<>>)
  BY DEF OnePerPath
<1>2. /\ clock \in 0..MaxTime /\ lastDue \in 0..clock /\ seen \in 0..MaxObservations
      /\ Len(<<>>) <= MaxPendingFiles
  BY <1>1, TrackerAssumption DEF Init
<1>3. QED
  BY <1>1, <1>2 DEF Init, TypeOK, ObserverCall, ReleaserCall, HasherCall, Thread

\* Types and bounds on memory: one entry per path, and never more than
\* max_pending_files of them, for every number of files.
THEOREM TypeCorrect == Spec => []TypeOK
<1>1. TypeOK /\ [Next]_vars => TypeOK'
  BY TypeStep
<1>2. QED
  BY <1>1, InitialType, PTL DEF Spec

-----------------------------------------------------------------------------
(* Every observation is carried by one entry until it is reported *)

\* A set of entries: what it carries, and that no two carry the same.
Carried(N) == UNION {e.obs : e \in N}
SetApart(N) == \A e, f \in N : e # f => e.obs \cap f.obs = {}

LEMMA SetUnion ==
    ASSUME NEW M, NEW N
    PROVE  /\ Carried(M \cup N) = Carried(M) \cup Carried(N)
           /\ SetApart(M) /\ SetApart(N) /\ Carried(M) \cap Carried(N) = {}
                => SetApart(M \cup N)
<1>1. Carried(M \cup N) = Carried(M) \cup Carried(N)
  BY DEF Carried
<1>2. \A e \in M, f \in N : e.obs \cap f.obs \subseteq Carried(M) \cap Carried(N)
  BY DEF Carried
<1>3. QED
  BY <1>1, <1>2 DEF SetApart

\* The entries of a list at some of its indexes, changed at most in what they
\* say besides their observations.
Items(r, I) == {r[i] : i \in I}

LEMMA SetOfItems ==
    ASSUME NEW s, NEW I \in SUBSET DOMAIN s, NEW r, \A i \in I : r[i].obs = s[i].obs
    PROVE  /\ Carried(Items(r, I)) = UNION {s[i].obs : i \in I}
           /\ Apart(s) => SetApart(Items(r, I))
<1>1. Carried(Items(r, I)) = UNION {s[i].obs : i \in I}
  BY DEF Carried, Items
<1>2. ASSUME Apart(s), NEW e \in Items(r, I), NEW f \in Items(r, I), e # f
      PROVE  e.obs \cap f.obs = {}
  <2>1. PICK i \in I : e = r[i]
    BY DEF Items
  <2>2. PICK j \in I : f = r[j]
    BY DEF Items
  <2>3. i # j
    BY <1>2, <2>1, <2>2
  <2>4. QED
    BY <1>2, <2>1, <2>2, <2>3 DEF Apart
<1>3. QED
  BY <1>1, <1>2 DEF SetApart

LEMMA SetOfList ==
    ASSUME NEW s
    PROVE  Carried(ToSet(s)) = Obs(s) /\ (Apart(s) => SetApart(ToSet(s)))
<1>1. ToSet(s) = {s[i] : i \in DOMAIN s}
  BY DEF ToSet
<1>2. Carried(ToSet(s)) = Obs(s)
  BY <1>1 DEF Carried, Obs
<1>3. Apart(s) => SetApart(ToSet(s))
  BY <1>1 DEF Apart, SetApart
<1>4. QED
  BY <1>2, <1>3

CarriedOnce ==
    /\ Apart(pending) /\ Apart(ready) /\ SetApart(held)
    /\ Obs(pending) \cap Obs(ready) = {}
    /\ (Obs(pending) \cup Obs(ready)) \cap Carried(held) = {}
    /\ (Obs(pending) \cup Obs(ready) \cup Carried(held)) \cap reported = {}

Everything == Obs(pending) \cup Obs(ready) \cup Carried(held) \cup reported

\* The strengthening that a step keeps.
ConservationInv == TypeOK /\ CarriedOnce /\ 1..seen = Everything

LEMMA ConservationFollows == ConservationInv => ObservationConservation
<1> SUFFICES ASSUME ConservationInv PROVE ObservationConservation
  OBVIOUS
<1> USE DEF ConservationInv, CarriedOnce
<1>1. PICK P, R, M : P = ToSet(pending) /\ R = ToSet(ready) /\ M = P \cup R
  OBVIOUS
<1>2. Entries = M \cup held
  BY <1>1 DEF Entries
<1>3. /\ Carried(P) = Obs(pending) /\ SetApart(P)
      /\ Carried(R) = Obs(ready) /\ SetApart(R)
  BY <1>1, SetOfList
<1>4. Carried(M) = Obs(pending) \cup Obs(ready) /\ SetApart(M)
  BY <1>1, <1>3, SetUnion
<1>5. /\ Carried(Entries) = Obs(pending) \cup Obs(ready) \cup Carried(held)
      /\ SetApart(Entries)
  BY <1>2, <1>4, SetUnion
<1>6. 1..seen = reported \cup Carried(Entries) /\ Carried(Entries) \cap reported = {}
  BY <1>5 DEF Everything
<1>7. \A e \in Entries : e.obs \cap reported = {}
  BY <1>6 DEF Carried
<1>8. QED
  BY <1>5, <1>6, <1>7 DEF ObservationConservation, Carried, SetApart

\* What capacity evicts keeps its observations.
LEMMA ForceReleaseApart ==
    ASSUME NEW d \in Seq(Entry), ready \in Seq(Entry), ForceReleaseOverCapacity(d),
           Apart(d), Apart(ready), Obs(d) \cap Obs(ready) = {}
    PROVE  /\ Apart(pending') /\ Apart(ready') /\ Obs(pending') \cap Obs(ready') = {}
           /\ Obs(pending') \cup Obs(ready') = Obs(d) \cup Obs(ready)
<1>1. PICK k, v : k = Kept(d, MaxPendingFiles) /\ v = Evicted(d, MaxPendingFiles)
  OBVIOUS
<1>2. k \in Seq(Entry) /\ v \in Seq(Entry) /\ Obs(d) = Obs(k) \cup Obs(v)
  BY <1>1, TrackerAssumption, ObsEvict
<1>3. Apart(k) /\ Apart(v) /\ Obs(k) \cap Obs(v) = {}
  BY <1>1, TrackerAssumption, ApartEvict
<1>4. PICK w \in Seq(Entry) :
         /\ ready' = ready \o w /\ DOMAIN w = DOMAIN v
         /\ \A i \in DOMAIN w : w[i] = Released(v[i], "capacity")
  BY <1>1, ForceReleaseType
<1>5. \A i \in DOMAIN v : w[i].obs = v[i].obs
  <2> TAKE i \in DOMAIN v
  <2>1. v[i] \in Entry /\ "capacity" \in Reason
    BY <1>2 DEF Reason
  <2>2. QED
    BY <1>4, <2>1, ReleasedType
<1>6. Obs(w) = Obs(v) /\ Apart(w)
  <2>1. Obs(w) = Obs(v)
    BY <1>4, <1>5, SMTT(30) DEF Obs
  <2>2. Apart(w)
    BY <1>3, <1>4, <1>5 DEF Apart
  <2>3. QED
    BY <2>1, <2>2
<1>7. Obs(ready) \cap Obs(w) = {}
  BY <1>2, <1>6
<1>8. Apart(ready \o w) /\ Obs(ready \o w) = Obs(ready) \cup Obs(w)
  BY <1>4, <1>6, <1>7, ApartConcat, ObsConcat
<1>9. pending' = k
  BY <1>1 DEF ForceReleaseOverCapacity
<1>10. QED
  BY <1>2, <1>3, <1>4, <1>6, <1>8, <1>9

LEMMA ObserveConserves ==
    ASSUME ConservationInv, Observe
    PROVE  CarriedOnce' /\ 1..seen' = Everything'
<1> USE DEF ConservationInv
<1>1. PICK c : c = call["observer"]
  OBVIOUS
<1>2. /\ c.op = "observe" /\ c.now \in 0..MaxTime /\ c.path \in Path
  <2>1. c.op = "observe" /\ c.now \in 0..clock /\ c.path \in Path
    BY <1>1, CallTypes DEF Observe
  <2>2. QED
    BY <2>1, TrackerAssumption DEF TypeOK
<1>3. pending \in Seq(Entry) /\ ready \in Seq(Entry)
  BY DEF TypeOK
<1>4. PICK X : X = {seen + 1} /\ X \in (SUBSET (1..MaxObservations)) \ {{}}
  BY <1>1, <1>2, NewObs
<1>5. X \cap Everything = {} /\ 1..(seen + 1) = Everything \cup X
  BY <1>4 DEF TypeOK
<1>6. X \cap Obs(pending) = {} /\ X \cap Obs(ready) = {}
  BY <1>5 DEF Everything
<1>7. Apart(pending) /\ Apart(ready) /\ Obs(pending) \cap Obs(ready) = {}
  BY DEF CarriedOnce
<1>8. /\ Apart(pending') /\ Apart(ready') /\ Obs(pending') \cap Obs(ready') = {}
      /\ Obs(pending') \cup Obs(ready') = Obs(pending) \cup Obs(ready) \cup X
  <2>1. CASE c.path \in Keys(pending) /\ ObserveKnown(c) /\ UNCHANGED ready
    <3>1. PICK k \in DOMAIN pending : k = Position(pending, c.path)
      BY <1>3, <2>1, ObsDiscard
    <3>2. PICK r : r = [pending[k] EXCEPT !.last_seen = c.now, !.obs = @ \cup X]
      OBVIOUS
    <3>3. r \in Entry /\ r.obs = pending[k].obs \cup X
      <4>1. pending[k] \in Entry
        BY <1>3
      <4>2. pending[k].obs \subseteq 1..MaxObservations
        BY <4>1 DEF Entry
      <4>3. pending[k].obs \cup X \in (SUBSET (1..MaxObservations)) \ {{}}
        BY <1>4, <4>2
      <4>4. QED
        BY <1>2, <3>2, <4>1, <4>3 DEF Entry
    <3>4. pending' = Updated(pending, k, r)
      BY <1>4, <2>1, <3>1, <3>2 DEF ObserveKnown, Lookup, Updated
    <3>5. /\ Updated(pending, k, r) \in Seq(Entry)
          /\ Len(Updated(pending, k, r)) = Len(pending)
          /\ Obs(Updated(pending, k, r)) = Obs(pending) \cup X
      <4>1. pending \in Seq(Entry)
        BY <1>3
      <4>2. QED
        BY <3>3, <4>1, ObsUpdated
    <3>6. Apart(Updated(pending, k, r))
      BY <1>3, <1>6, <1>7, <3>3, ApartUpdated
    <3>7. QED
      BY <1>6, <1>7, <2>1, <3>4, <3>5, <3>6
  <2>2. CASE c.path \notin Keys(pending) /\ ObserveNew(c)
    <3>1. PICK e : e = PendingFile(c.path, c.now, X)
      OBVIOUS
    <3>2. e \in Entry /\ e.obs = X
      BY <1>2, <1>4, <3>1, PendingFileType DEF PendingFile
    <3>3. PICK d : d = Append(pending, e)
      OBVIOUS
    <3>4. d \in Seq(Entry) /\ Obs(d) = Obs(pending) \cup X
      BY <1>3, <3>2, <3>3, ObsAppend
    <3>5. Apart(d)
      BY <1>3, <1>6, <1>7, <3>2, <3>3, ApartAppend
    <3>6. ForceReleaseOverCapacity(d)
      BY <1>4, <2>2, <3>1, <3>3 DEF ObserveNew
    <3>7. Obs(d) \cap Obs(ready) = {}
      BY <1>6, <1>7, <3>4
    <3>8. /\ Apart(pending') /\ Apart(ready') /\ Obs(pending') \cap Obs(ready') = {}
          /\ Obs(pending') \cup Obs(ready') = Obs(d) \cup Obs(ready)
      BY <1>3, <1>7, <3>4, <3>5, <3>6, <3>7, ForceReleaseApart
    <3>9. QED
      BY <3>4, <3>8
  <2>3. QED
    BY <1>1, <2>1, <2>2 DEF Observe
<1>9. seen' = seen + 1 /\ UNCHANGED <<held, reported>>
  BY DEF Observe
<1>10. CarriedOnce'
  BY <1>5, <1>8, <1>9 DEF CarriedOnce, Everything
<1>11. QED
  BY <1>5, <1>8, <1>9, <1>10 DEF Everything

\* due and flush hand over what they take: some of _pending, changed only in its
\* reason, and all of _ready.
LEMMA HandOver ==
    ASSUME ConservationInv, NEW I \in SUBSET DOMAIN pending, NEW r,
           \A i \in I : r[i].obs = pending[i].obs,
           held' = held \cup ToSet(ready) \cup Items(r, I),
           ready' = <<>>, Apart(pending'),
           Obs(pending') = UNION {pending[i].obs : i \in DOMAIN pending \ I},
           UNCHANGED <<seen, reported>>
    PROVE  CarriedOnce' /\ 1..seen' = Everything'
<1> USE DEF ConservationInv
<1>1. PICK N, R, M : N = Items(r, I) /\ R = ToSet(ready) /\ M = held \cup R
  OBVIOUS
<1>2. Carried(N) = UNION {pending[i].obs : i \in I} /\ SetApart(N)
  <2>1. Apart(pending)
    BY DEF CarriedOnce
  <2>2. /\ Carried(Items(r, I)) = UNION {pending[i].obs : i \in I}
        /\ SetApart(Items(r, I))
    BY <2>1, SetOfItems
  <2>3. QED
    BY <1>1, <2>2
<1>3. Carried(R) = Obs(ready) /\ SetApart(R)
  BY <1>1, SetOfList DEF CarriedOnce
<1>4. Carried(M) = Carried(held) \cup Obs(ready) /\ SetApart(M)
  <2>1. SetApart(held) /\ Carried(held) \cap Carried(R) = {}
    BY <1>3 DEF CarriedOnce
  <2>2. Carried(held \cup R) = Carried(held) \cup Carried(R) /\ SetApart(held \cup R)
    BY <1>3, <2>1, SetUnion
  <2>3. QED
    BY <1>1, <1>3, <2>2
<1>5. Obs(pending) = Obs(pending') \cup Carried(N)
  BY <1>2 DEF Obs
<1>6. Obs(pending') \cap Carried(N) = {}
  <2>1. \A i \in I, j \in DOMAIN pending \ I : pending[i].obs \cap pending[j].obs = {}
    BY DEF CarriedOnce, Apart
  <2>2. QED
    BY <1>2, <2>1
<1>7. Carried(M) \cap Carried(N) = {}
  BY <1>4, <1>5 DEF CarriedOnce
<1>8. held' = M \cup N
  BY <1>1
<1>9. Carried(held') = Carried(held) \cup Obs(ready) \cup Carried(N) /\ SetApart(held')
  <2>1. Carried(M \cup N) = Carried(M) \cup Carried(N) /\ SetApart(M \cup N)
    BY <1>2, <1>4, <1>7, SetUnion
  <2>2. QED
    BY <1>4, <1>8, <2>1
<1>10. Apart(ready') /\ Obs(ready') = {}
  BY ObsEmpty, ApartEmpty
<1>11. CarriedOnce'
  BY <1>5, <1>6, <1>9, <1>10 DEF CarriedOnce
<1>12. 1..seen' = Everything'
  BY <1>5, <1>9, <1>10 DEF Everything
<1>13. QED
  BY <1>11, <1>12

LEMMA DueConserves ==
    ASSUME ConservationInv, Due
    PROVE  CarriedOnce' /\ 1..seen' = Everything'
<1> USE DEF ConservationInv
<1>1. PICK now, I : now = call["releaser"].now /\ I = Ripe(now)
  OBVIOUS
<1>2. PICK r : r = [i \in I |-> Released(pending[i], DueReason(pending[i], now))]
  OBVIOUS
<1>3. /\ \A i \in DOMAIN pending' : \E j \in DOMAIN pending \ I : pending'[i] = pending[j]
      /\ \A j \in DOMAIN pending \ I : \E i \in DOMAIN pending' : pending'[i] = pending[j]
      /\ Apart(pending')
      /\ held' = held \cup ToSet(ready)
                   \cup {Released(pending[i], DueReason(pending[i], now)) : i \in I}
  BY <1>1, DueParts DEF CarriedOnce
<1>4. I \in SUBSET DOMAIN pending
  BY <1>1 DEF Ripe
<1>5. \A i \in I : r[i].obs = pending[i].obs
  <2> TAKE i \in I
  <2>1. pending[i] \in Entry /\ DueReason(pending[i], now) \in Reason
    BY <1>4 DEF TypeOK, DueReason, Reason
  <2>2. QED
    BY <1>2, <2>1, ReleasedType
<1>6. held' = held \cup ToSet(ready) \cup Items(r, I)
  BY <1>2, <1>3 DEF Items
<1>7. Obs(pending') = UNION {pending[i].obs : i \in DOMAIN pending \ I}
  BY <1>3 DEF Obs
<1>8. ready' = <<>> /\ UNCHANGED <<seen, reported>>
  BY DEF Due
<1>9. QED
  BY <1>3, <1>4, <1>5, <1>6, <1>7, <1>8, HandOver

LEMMA FlushConserves ==
    ASSUME ConservationInv, Flush
    PROVE  CarriedOnce' /\ 1..seen' = Everything'
<1> USE DEF ConservationInv
<1>1. PICK I, r : I = DOMAIN pending /\ r = [i \in I |-> Released(pending[i], "shutdown")]
  OBVIOUS
<1>2. \A i \in I : r[i].obs = pending[i].obs
  <2> TAKE i \in I
  <2>1. pending[i] \in Entry /\ "shutdown" \in Reason
    BY <1>1 DEF TypeOK, Reason
  <2>2. QED
    BY <1>1, <2>1, ReleasedType
<1>3. {Released(e, "shutdown") : e \in ToSet(pending)} = Items(r, I)
  BY <1>1 DEF ToSet, Items
<1>4. /\ held' = held \cup ToSet(ready) \cup Items(r, I)
      /\ pending' = <<>> /\ ready' = <<>> /\ UNCHANGED <<seen, reported>>
  BY <1>3 DEF Flush
<1>5. Apart(pending') /\ Obs(pending') = UNION {pending[i].obs : i \in DOMAIN pending \ I}
  BY <1>1, <1>4, ApartEmpty, ObsEmpty
<1>6. I \in SUBSET DOMAIN pending
  BY <1>1
<1>7. QED
  BY <1>2, <1>4, <1>5, <1>6, HandOver

\* What a set carries without one of its members.
LEMMA SetWithout ==
    ASSUME NEW N, NEW e \in N, SetApart(N)
    PROVE  /\ Carried(N) = Carried(N \ {e}) \cup e.obs
           /\ Carried(N \ {e}) \cap e.obs = {} /\ SetApart(N \ {e})
<1>1. Carried(N) = Carried(N \ {e}) \cup e.obs
  BY DEF Carried
<1>2. Carried(N \ {e}) \cap e.obs = {}
  BY DEF Carried, SetApart
<1>3. SetApart(N \ {e})
  BY DEF SetApart
<1>4. QED
  BY <1>1, <1>2, <1>3

LEMMA ReintroduceConserves ==
    ASSUME ConservationInv, Reintroduce
    PROVE  CarriedOnce' /\ 1..seen' = Everything'
<1> USE DEF ConservationInv
<1>1. PICK c, e : c = call["hasher"] /\ e = c.entry
  OBVIOUS
<1>2. /\ c.now \in 0..MaxTime /\ e \in Entry /\ e \in held
      /\ e.reintroduction_count < MaxReintroductions
  <2>1. /\ c.now \in 0..clock /\ e \in Entry /\ e \in held
        /\ e.reintroduction_count < MaxReintroductions
    BY <1>1, CallTypes DEF Reintroduce
  <2>2. QED
    BY <2>1, TrackerAssumption DEF TypeOK
<1>3. PICK d, r, l : /\ d = Discard(pending, e.path) /\ r = Reintroduced(e, c.now)
                     /\ l = Append(d, r)
  OBVIOUS
<1>4. pending \in Seq(Entry) /\ ready \in Seq(Entry)
  BY DEF TypeOK
<1>5. /\ ForceReleaseOverCapacity(l) /\ held' = held \ {e}
      /\ UNCHANGED <<seen, reported>>
  BY <1>1, <1>3 DEF Reintroduce
<1>6. /\ Carried(held) = Carried(held') \cup e.obs
      /\ Carried(held') \cap e.obs = {} /\ SetApart(held')
  BY <1>2, <1>5, SetWithout DEF CarriedOnce
<1>7. /\ Apart(pending) /\ Apart(ready) /\ Obs(pending) \cap Obs(ready) = {}
      /\ e.obs \cap Obs(pending) = {} /\ e.obs \cap Obs(ready) = {}
  BY <1>6 DEF CarriedOnce
<1>8. r \in Entry /\ r.obs = e.obs \cup Absorbed(e)
  BY <1>2, <1>3, ReintroducedType
<1>9. d \in Seq(Entry) /\ Apart(d)
  BY <1>3, <1>4, <1>7, ObsDiscard, ApartDiscard
<1>10. Obs(pending) = Absorbed(e) \cup Obs(d) /\ Absorbed(e) \cap Obs(d) = {}
  <2>1. CASE e.path \in Keys(pending)
    BY <1>3, <1>4, <1>7, <2>1, ObsDiscard, ApartDiscard DEF Absorbed
  <2>2. CASE e.path \notin Keys(pending)
    BY <1>3, <1>4, <2>2, ObsDiscard DEF Absorbed
  <2>3. QED
    BY <2>1, <2>2
<1>11. r.obs \cap Obs(d) = {}
  BY <1>7, <1>8, <1>10
<1>12. l \in Seq(Entry) /\ Obs(l) = Obs(d) \cup r.obs
  BY <1>3, <1>8, <1>9, ObsAppend
<1>13. Apart(l)
  BY <1>3, <1>8, <1>9, <1>11, ApartAppend
<1>14. Obs(l) = Obs(pending) \cup e.obs /\ Obs(l) \cap Obs(ready) = {}
  BY <1>7, <1>8, <1>10, <1>12
<1>15. /\ Apart(pending') /\ Apart(ready') /\ Obs(pending') \cap Obs(ready') = {}
       /\ Obs(pending') \cup Obs(ready') = Obs(l) \cup Obs(ready)
  BY <1>4, <1>5, <1>7, <1>12, <1>13, <1>14, ForceReleaseApart
<1>16. CarriedOnce'
  BY <1>5, <1>6, <1>14, <1>15 DEF CarriedOnce
<1>17. 1..seen' = Everything'
  BY <1>5, <1>6, <1>14, <1>15 DEF Everything
<1>18. QED
  BY <1>16, <1>17

LEMMA ReportConserves ==
    ASSUME ConservationInv, NEW e \in held, Report(e)
    PROVE  CarriedOnce' /\ 1..seen' = Everything'
<1> USE DEF ConservationInv
<1>1. /\ held' = held \ {e} /\ reported' = reported \cup e.obs
      /\ UNCHANGED <<pending, ready, seen>>
  BY DEF Report
<1>2. /\ Carried(held) = Carried(held') \cup e.obs
      /\ Carried(held') \cap e.obs = {} /\ SetApart(held')
  BY <1>1, SetWithout DEF CarriedOnce
<1>3. CarriedOnce'
  BY <1>1, <1>2 DEF CarriedOnce
<1>4. 1..seen' = Everything'
  BY <1>1, <1>2 DEF Everything
<1>5. QED
  BY <1>3, <1>4

LEMMA ConservationStep ==
    ASSUME ConservationInv, [Next]_vars
    PROVE  ConservationInv'
<1>1. ASSUME \/ UNCHANGED vars \/ Tick \/ EnterDue
             \/ \E p \in Path : EnterObserve(p)
             \/ \E e \in held : EnterReintroduce(e)
      PROVE  UNCHANGED <<pending, ready, held, seen, reported>>
  BY <1>1 DEF vars, Tick, EnterDue, EnterObserve, EnterReintroduce, Enter
<1>2. ASSUME UNCHANGED <<pending, ready, held, seen, reported>>
      PROVE  CarriedOnce' /\ 1..seen' = Everything'
  BY <1>2 DEF ConservationInv, CarriedOnce, Everything
<1>3. CarriedOnce' /\ 1..seen' = Everything'
  BY <1>1, <1>2, ObserveConserves, DueConserves, FlushConserves, ReintroduceConserves,
     ReportConserves DEF Next
<1>4. QED
  BY <1>3, TypeStep DEF ConservationInv

\* Memory pressure, retries and shutdown lose no observation and count none twice:
\* until it is reported, exactly one entry carries it.
THEOREM ObservationsAreConserved == Spec => []ObservationConservation
<1>1. Init => ConservationInv
  <2> SUFFICES ASSUME Init PROVE ConservationInv
    OBVIOUS
  <2>1. /\ pending = <<>> /\ ready = <<>> /\ held = {} /\ reported = {} /\ 1..seen = {}
    BY DEF Init
  <2>2. Carried({}) = {} /\ SetApart({})
    BY DEF Carried, SetApart
  <2>3. QED
    BY <2>1, <2>2, InitialType, ObsEmpty, ApartEmpty
       DEF ConservationInv, CarriedOnce, Everything
<1>2. ConservationInv /\ [Next]_vars => ConservationInv'
  BY ConservationStep
<1>3. QED
  BY <1>1, <1>2, ConservationFollows, PTL DEF Spec

-----------------------------------------------------------------------------
(* Time *)

\* What Tick guarantees: no caller is late for the lock, and until shutdown the
\* releaser makes its passes.
Cadence ==
    /\ \A t \in Thread : call[t] # Idle => clock - call[t].now <= StallBound
    /\ ~draining => clock - lastDue <= PollSeconds
    /\ call["releaser"] # Idle => lastDue <= call["releaser"].now

\* What an entry says of its file: it is up to date but for one stall.
Timely(e) ==
    /\ e.settling_since <= clock
    /\ evidence[e.path] <= e.last_seen + StallBound

Evidence == evidence \in [Path -> Int] /\ \A p \in Path : evidence[p] <= clock

TimeInv ==
    /\ TypeOK /\ Cadence /\ Evidence /\ WindowOrder(pending)
    /\ \A i \in DOMAIN pending : Timely(pending[i])
    /\ \A i \in DOMAIN ready : ready[i].reason # "quiet"

\* The pass at lastDue left no entry whose ceiling had passed.
OpenWindows ==
    ~draining => \A i \in DOMAIN pending : lastDue - pending[i].settling_since < MaxWaitSeconds

LEMMA Clocks ==
    ASSUME TypeOK
    PROVE  /\ clock \in Int /\ lastDue \in Int /\ lastDue <= clock
           /\ StallBound \in Nat /\ PollSeconds \in Nat \ {0} /\ MaxWaitSeconds \in Nat \ {0}
           /\ QuietSeconds \in Nat \ {0} /\ MaxTime \in Nat
BY TrackerAssumption DEF TypeOK

\* An entry of a list of entries has times that are integers.
LEMMA EntryTimes ==
    ASSUME NEW e \in Entry
    PROVE  e.settling_since \in Int /\ e.last_seen \in Int /\ e.path \in Path
BY TrackerAssumption DEF Entry

LEMMA EnterCadence ==
    ASSUME TypeOK, Cadence, NEW t \in Thread, NEW c, c.now = clock, Enter(t, c)
    PROVE  Cadence'
<1>1. clock - clock = 0 /\ 0 <= StallBound /\ lastDue <= clock
  BY Clocks
<1>2. /\ call' = [call EXCEPT ![t] = c] /\ DOMAIN call = Thread
      /\ UNCHANGED <<clock, draining, lastDue>>
  BY DEF Enter, TypeOK
<1>3. \A u \in Thread : call'[u] = call[u] \/ call'[u] = c
  BY <1>2
<1>4. QED
  BY <1>1, <1>2, <1>3 DEF Cadence, Thread

LEMMA LeaveCadence ==
    ASSUME TypeOK, Cadence, NEW t \in Thread, Leave(t), UNCHANGED <<clock, draining, lastDue>>
    PROVE  Cadence'
<1>1. \A u \in Thread : call'[u] = call[u] \/ call'[u] = Idle
  BY DEF Leave, TypeOK
<1>2. QED
  BY <1>1 DEF Cadence, Thread

LEMMA CadenceStep ==
    ASSUME TypeOK, Cadence, [Next]_vars
    PROVE  Cadence'
<1>1. CASE \E p \in Path : EnterObserve(p)
  BY <1>1, EnterCadence DEF EnterObserve, Thread
<1>2. CASE EnterDue
  BY <1>2, EnterCadence DEF EnterDue, Thread
<1>3. CASE \E e \in held : EnterReintroduce(e)
  BY <1>3, EnterCadence DEF EnterReintroduce, Thread
<1>4. CASE Observe
  BY <1>4, LeaveCadence DEF Observe, Thread
<1>5. CASE Reintroduce
  BY <1>5, LeaveCadence DEF Reintroduce, Thread
<1>6. CASE Due
  <2>1. /\ call' = [call EXCEPT !["releaser"] = Idle] /\ DOMAIN call = Thread
        /\ lastDue' = call["releaser"].now /\ call["releaser"].op = "due"
        /\ call["releaser"].now \in 0..clock
        /\ UNCHANGED <<clock, draining>>
    BY <1>6, CallTypes DEF Due, Leave, TypeOK
  <2>2. \A u \in Thread : call'[u] = call[u] \/ call'[u] = Idle
    BY <2>1
  <2>3. lastDue <= lastDue'
    BY <2>1 DEF Cadence, Idle
  <2>4. ~draining => clock - lastDue' <= PollSeconds
    BY <2>1, <2>3, Clocks DEF Cadence
  <2>5. call'["releaser"] = Idle
    BY <2>1 DEF Thread
  <2>6. QED
    BY <2>1, <2>2, <2>4, <2>5 DEF Cadence
<1>7. CASE Flush
  BY <1>7 DEF Flush, Cadence
<1>8. CASE Tick
  <2>1. /\ clock' = clock + 1 /\ UNCHANGED <<call, draining, lastDue>>
        /\ draining \/ clock - lastDue < PollSeconds
        /\ \A t \in Thread : call[t] # Idle => clock - call[t].now < StallBound
    BY <1>8 DEF Tick
  <2>2. \A t \in Thread : call[t] # Idle => call[t].now \in Int
    BY Clocks DEF TypeOK, Thread, ObserverCall, ReleaserCall, HasherCall
  <2>3. \A t \in Thread : call[t] # Idle => clock + 1 - call[t].now <= StallBound
    BY <2>1, <2>2, Clocks
  <2>4. draining \/ clock + 1 - lastDue <= PollSeconds
    BY <2>1, Clocks
  <2>5. \A t \in Thread : call'[t] # Idle => clock' - call'[t].now <= StallBound
    BY <2>1, <2>2, <2>3, Clocks
  <2>6. ~draining' => clock' - lastDue' <= PollSeconds
    BY <2>1, <2>4, Clocks
  <2>7. QED
    BY <2>1, <2>5, <2>6 DEF Cadence
<1>9. CASE (\E e \in held : Report(e)) \/ UNCHANGED vars
  BY <1>9 DEF Report, vars, Cadence
<1>10. QED
  BY <1>1, <1>2, <1>3, <1>4, <1>5, <1>6, <1>7, <1>8, <1>9 DEF Next

\* A file was caught changing at the time p's caller read.
CaughtAt(p, now) ==
    /\ p \in Path /\ now \in 0..clock /\ clock - now <= StallBound
    /\ evidence' = [evidence EXCEPT ![p] = Latest(@, now)]
    /\ UNCHANGED <<clock, lastDue, draining>>

LEMMA EvidenceStep ==
    ASSUME TypeOK, Evidence, NEW p, NEW now, CaughtAt(p, now)
    PROVE  /\ Evidence' /\ evidence'[p] <= now + StallBound
           /\ \A q \in Path : q # p => evidence'[q] = evidence[q]
<1>1. /\ p \in Path /\ now \in Int /\ now <= clock /\ clock <= now + StallBound
      /\ evidence \in [Path -> Int] /\ evidence[p] \in Int /\ evidence[p] <= clock
  BY Clocks DEF CaughtAt, Evidence
<1>2. PICK x : x = Latest(evidence[p], now)
  OBVIOUS
<1>3. x \in Int /\ x <= clock /\ x <= now + StallBound
  BY <1>1, <1>2, Clocks DEF Latest
<1>4. evidence' = [evidence EXCEPT ![p] = x] /\ clock' = clock
  BY <1>2 DEF CaughtAt
<1>5. evidence' \in [Path -> Int] /\ evidence'[p] = x
  BY <1>1, <1>3, <1>4
<1>6. \A q \in Path : q # p => evidence'[q] = evidence[q]
  BY <1>1, <1>4
<1>7. \A q \in Path : evidence'[q] <= clock'
  BY <1>3, <1>4, <1>5, <1>6 DEF Evidence
<1>8. QED
  BY <1>3, <1>5, <1>6, <1>7 DEF Evidence

\* An entry about p that says so, or another one as it was.
Fresh(e, p, now) == e.path = p /\ e.last_seen = now /\ e.settling_since <= clock
Unmoved(e, p) == e.path # p /\ \E j \in DOMAIN pending : e = pending[j]

LEMMA TimelyStep ==
    ASSUME TimeInv, NEW p, NEW now, CaughtAt(p, now), pending' \in Seq(Entry),
           \A i \in DOMAIN pending' : Fresh(pending'[i], p, now) \/ Unmoved(pending'[i], p)
    PROVE  Evidence' /\ (\A i \in DOMAIN pending : Timely(pending[i]))'
<1>1. /\ Evidence' /\ evidence'[p] <= now + StallBound /\ clock' = clock
      /\ \A q \in Path : q # p => evidence'[q] = evidence[q]
  <2>1. TypeOK /\ Evidence
    BY DEF TimeInv
  <2>2. clock' = clock
    BY DEF CaughtAt
  <2>3. QED
    BY <2>1, <2>2, EvidenceStep
<1>2. ASSUME NEW i \in DOMAIN pending'
      PROVE  /\ pending'[i].settling_since <= clock'
             /\ evidence'[pending'[i].path] <= pending'[i].last_seen + StallBound
  <2>1. CASE Fresh(pending'[i], p, now)
    BY <1>1, <2>1 DEF Fresh
  <2>2. CASE Unmoved(pending'[i], p)
    <3>1. PICK j \in DOMAIN pending : pending'[i] = pending[j]
      BY <2>2 DEF Unmoved
    <3>2. pending[j].path \in Path
      <4>1. pending[j] \in Entry
        BY DEF TimeInv, TypeOK
      <4>2. QED
        BY <4>1, EntryTimes
    <3>3. Timely(pending[j])
      BY DEF TimeInv
    <3>4. QED
      BY <1>1, <2>2, <3>1, <3>2, <3>3 DEF Timely, Unmoved
  <2>3. QED
    BY <2>1, <2>2
<1>3. QED
  BY <1>1, <1>2 DEF Timely

\* observe of a new path, and reintroduce: the entry comes last, and pressure takes
\* from the front.
LEMMA InsertTime ==
    ASSUME TimeInv, NEW p, NEW now, CaughtAt(p, now),
           NEW base \in Seq(Entry), p \notin Keys(base), WindowOrder(base),
           \A i \in DOMAIN base : \E j \in DOMAIN pending : base[i] = pending[j],
           NEW e \in Entry, e.path = p, e.last_seen = now, e.settling_since = now,
           ForceReleaseOverCapacity(Append(base, e))
    PROVE  /\ WindowOrder(pending')
           /\ \A i \in DOMAIN pending' : Fresh(pending'[i], p, now) \/ Unmoved(pending'[i], p)
           /\ \A i \in DOMAIN ready' : ready'[i].reason # "quiet"
           /\ StallBound < MaxWaitSeconds /\ OpenWindows => OpenWindows'
<1>1. TypeOK /\ Cadence /\ pending \in Seq(Entry) /\ ready \in Seq(Entry)
  BY DEF TimeInv, TypeOK
<1>2. now \in Int /\ now <= clock /\ clock <= now + StallBound
  BY <1>1, Clocks DEF CaughtAt
<1>3. PICK d : d = Append(base, e)
  OBVIOUS
<1>4. ASSUME NEW i \in DOMAIN base
      PROVE  /\ base[i].settling_since <= e.settling_since + StallBound
             /\ Unmoved(base[i], p)
  <2>1. PICK j \in DOMAIN pending : base[i] = pending[j]
    OBVIOUS
  <2>2. Timely(pending[j]) /\ pending[j] \in Entry
    BY <1>1 DEF TimeInv
  <2>3. pending[j].settling_since \in Int /\ pending[j].settling_since <= clock
    BY <2>2, EntryTimes DEF Timely
  <2>4. base[i].path # p
    BY DEF Keys
  <2>5. QED
    BY <1>1, <1>2, <2>1, <2>3, <2>4, Clocks DEF Unmoved
<1>5. /\ d \in Seq(Entry) /\ WindowOrder(d)
      /\ \A i \in DOMAIN d : d[i] = e \/ \E j \in DOMAIN base : d[i] = base[j]
  BY <1>3, <1>4, AppendKeeps
<1>6. \A i \in DOMAIN d : Fresh(d[i], p, now) \/ Unmoved(d[i], p)
  <2>1. Fresh(e, p, now)
    BY <1>2 DEF Fresh
  <2>2. QED
    BY <1>4, <1>5, <2>1
<1>7. pending' \in Seq(Entry) /\ Subsequence(pending', d)
  BY <1>1, <1>3, <1>5, ForceReleaseType
<1>8. WindowOrder(pending') /\ \A i \in DOMAIN pending' : \E j \in DOMAIN d : pending'[i] = d[j]
  BY <1>5, <1>7, SubsequenceKeeps
<1>9. \A i \in DOMAIN pending' : Fresh(pending'[i], p, now) \/ Unmoved(pending'[i], p)
  BY <1>6, <1>8
<1>10. \A i \in DOMAIN ready' : ready'[i].reason # "quiet"
  <2>1. PICK v : v = Evicted(d, MaxPendingFiles)
    OBVIOUS
  <2>2. v \in Seq(Entry)
    BY <1>5, <2>1, TrackerAssumption, ObsEvict
  <2>3. PICK w \in Seq(Entry) :
           /\ ready' = ready \o w /\ DOMAIN w = DOMAIN v
           /\ \A i \in DOMAIN w : w[i] = Released(v[i], "capacity")
    BY <1>1, <1>3, <1>5, <2>1, ForceReleaseType
  <2>4. \A i \in DOMAIN w : w[i].reason = "capacity"
    <3> TAKE i \in DOMAIN w
    <3>1. v[i] \in Entry /\ "capacity" \in Reason
      BY <2>2, <2>3 DEF Reason
    <3>2. QED
      BY <2>3, <3>1, ReleasedType
  <2>5. \A i \in DOMAIN ready : ready[i].reason # "quiet"
    BY DEF TimeInv
  <2>6. ASSUME NEW i \in DOMAIN (ready \o w)
        PROVE  \/ i \in DOMAIN ready /\ (ready \o w)[i] = ready[i]
               \/ i - Len(ready) \in DOMAIN w /\ (ready \o w)[i] = w[i - Len(ready)]
    BY <1>1
  <2>7. QED
    BY <2>3, <2>4, <2>5, <2>6
<1>11. ASSUME StallBound < MaxWaitSeconds, OpenWindows, ~draining'
       PROVE  \A i \in DOMAIN pending' : lastDue' - pending'[i].settling_since < MaxWaitSeconds
  <2>1. lastDue' = lastDue /\ ~draining
    BY <1>11 DEF CaughtAt
  <2>2. lastDue - e.settling_since < MaxWaitSeconds
    BY <1>1, <1>2, <1>11, Clocks
  <2>3. \A i \in DOMAIN base : lastDue - base[i].settling_since < MaxWaitSeconds
    BY <1>11, <2>1 DEF OpenWindows
  <2>4. \A i \in DOMAIN d : lastDue - d[i].settling_since < MaxWaitSeconds
    BY <1>5, <2>2, <2>3
  <2>5. QED
    BY <1>8, <2>1, <2>4
<1>12. QED
  BY <1>8, <1>9, <1>10, <1>11 DEF OpenWindows

\* The parts of TimeInv and OpenWindows that speak of the tracker.
TrackerTime ==
    /\ Evidence /\ WindowOrder(pending)
    /\ \A i \in DOMAIN pending : Timely(pending[i])
    /\ \A i \in DOMAIN ready : ready[i].reason # "quiet"

KeepsOpen == StallBound < MaxWaitSeconds /\ OpenWindows => OpenWindows'

LEMMA ObserveTime ==
    ASSUME TimeInv, Observe
    PROVE  TrackerTime' /\ KeepsOpen
<1>1. PICK c : c = call["observer"]
  OBVIOUS
<1>2. TypeOK /\ Cadence /\ pending \in Seq(Entry) /\ ready \in Seq(Entry) /\ OnePerPath(pending)
  BY DEF TimeInv, TypeOK
<1>3. c.op = "observe" /\ c.now \in 0..clock /\ c.path \in Path
  BY <1>1, <1>2, CallTypes DEF Observe
<1>4. CaughtAt(c.path, c.now)
  <2>1. clock - c.now <= StallBound
    BY <1>1, <1>2, <1>3 DEF Cadence, Thread, Idle
  <2>2. QED
    BY <1>1, <1>3, <2>1 DEF Observe, CaughtAt
<1>5. pending' \in Seq(Entry)
  BY <1>2, ObserveType DEF TypeOK
<1>6. /\ WindowOrder(pending') /\ KeepsOpen
      /\ \A i \in DOMAIN pending' :
            Fresh(pending'[i], c.path, c.now) \/ Unmoved(pending'[i], c.path)
      /\ \A i \in DOMAIN ready' : ready'[i].reason # "quiet"
  <2>1. CASE c.path \in Keys(pending) /\ ObserveKnown(c) /\ UNCHANGED ready
    <3>1. PICK k : k = Position(pending, c.path)
      OBVIOUS
    <3>2. k \in DOMAIN pending /\ pending[k].path = c.path
      BY <2>1, <3>1 DEF Keys, Position
    <3>3. PICK r : r = [pending[k] EXCEPT !.last_seen = c.now, !.obs = @ \cup {seen + 1}]
      OBVIOUS
    <3>4. /\ r.path = c.path /\ r.last_seen = c.now
          /\ r.settling_since = pending[k].settling_since
      <4>1. pending[k] \in Entry
        BY <1>2, <3>2
      <4>2. QED
        BY <3>2, <3>3, <4>1 DEF Entry
    <3>5. pending' = [pending EXCEPT ![k] = r]
      BY <2>1, <3>1, <3>3 DEF ObserveKnown, Lookup
    <3>6. /\ DOMAIN pending' = DOMAIN pending /\ pending'[k] = r
          /\ \A i \in DOMAIN pending : i # k => pending'[i] = pending[i]
      BY <1>2, <3>2, <3>5
    <3>7. \A i \in DOMAIN pending : pending'[i].settling_since = pending[i].settling_since
      BY <3>4, <3>6
    <3>8. WindowOrder(pending')
      BY <3>6, <3>7 DEF TimeInv, WindowOrder
    <3>9. KeepsOpen
      BY <1>4, <3>6, <3>7 DEF KeepsOpen, OpenWindows, CaughtAt
    <3>10. Fresh(r, c.path, c.now)
      BY <3>2, <3>4 DEF Fresh, TimeInv, Timely
    <3>11. \A i \in DOMAIN pending : i # k => Unmoved(pending[i], c.path)
      BY <1>2, <3>2 DEF OnePerPath, Unmoved
    <3>12. QED
      BY <2>1, <3>6, <3>8, <3>9, <3>10, <3>11 DEF TimeInv
  <2>2. CASE c.path \notin Keys(pending) /\ ObserveNew(c)
    <3>1. PICK e : e = PendingFile(c.path, c.now, {seen + 1})
      OBVIOUS
    <3>2. e \in Entry /\ e.path = c.path /\ e.last_seen = c.now /\ e.settling_since = c.now
      <4>1. {seen + 1} \in (SUBSET (1..MaxObservations)) \ {{}}
        BY <1>1, <1>2, <1>3, NewObs
      <4>2. c.now \in 0..MaxTime
        BY <1>2, <1>3, TrackerAssumption DEF TypeOK
      <4>3. QED
        BY <1>3, <3>1, <4>1, <4>2, PendingFileType DEF PendingFile
    <3>3. ForceReleaseOverCapacity(Append(pending, e))
      BY <2>2, <3>1 DEF ObserveNew
    <3>4. \A i \in DOMAIN pending : \E j \in DOMAIN pending : pending[i] = pending[j]
      OBVIOUS
    <3>5. WindowOrder(pending)
      BY DEF TimeInv
    <3>6. QED
      BY <1>2, <1>4, <2>2, <3>2, <3>3, <3>4, <3>5, InsertTime DEF KeepsOpen
  <2>3. QED
    BY <1>1, <2>1, <2>2 DEF Observe
<1>7. Evidence' /\ (\A i \in DOMAIN pending : Timely(pending[i]))'
  BY <1>4, <1>5, <1>6, TimelyStep
<1>8. QED
  BY <1>6, <1>7 DEF TrackerTime

LEMMA ReintroduceTime ==
    ASSUME TimeInv, Reintroduce
    PROVE  TrackerTime' /\ KeepsOpen
<1>1. PICK c, e : c = call["hasher"] /\ e = c.entry
  OBVIOUS
<1>2. TypeOK /\ Cadence /\ pending \in Seq(Entry) /\ ready \in Seq(Entry) /\ OnePerPath(pending)
  BY DEF TimeInv, TypeOK
<1>3. /\ c.op = "reintroduce" /\ c.now \in 0..clock /\ e \in Entry
      /\ e.reintroduction_count < MaxReintroductions
  BY <1>1, <1>2, CallTypes DEF Reintroduce
<1>4. CaughtAt(e.path, c.now)
  <2>1. clock - c.now <= StallBound
    BY <1>1, <1>2, <1>3 DEF Cadence, Thread, Idle
  <2>2. e.path \in Path
    BY <1>3, EntryTimes
  <2>3. QED
    BY <1>1, <1>3, <2>1, <2>2 DEF Reintroduce, CaughtAt
<1>5. pending' \in Seq(Entry)
  BY <1>2, ReintroduceType DEF TypeOK
<1>6. PICK d, r : d = Discard(pending, e.path) /\ r = Reintroduced(e, c.now)
  OBVIOUS
<1>7. r \in Entry /\ r.path = e.path /\ r.last_seen = c.now /\ r.settling_since = c.now
  <2>1. c.now \in 0..MaxTime
    BY <1>2, <1>3, TrackerAssumption DEF TypeOK
  <2>2. QED
    BY <1>2, <1>3, <1>6, <2>1, ReintroducedType
<1>8. d \in Seq(Entry) /\ Subsequence(d, pending) /\ e.path \notin Keys(d)
  BY <1>2, <1>6, ObsDiscard, SubsequenceDiscard DEF OnePerPath
<1>9. WindowOrder(d) /\ \A i \in DOMAIN d : \E j \in DOMAIN pending : d[i] = pending[j]
  BY <1>2, <1>8, SubsequenceKeeps DEF TimeInv
<1>10. ForceReleaseOverCapacity(Append(d, r))
  BY <1>1, <1>6 DEF Reintroduce
<1>11. /\ WindowOrder(pending') /\ KeepsOpen
       /\ \A i \in DOMAIN pending' :
             Fresh(pending'[i], e.path, c.now) \/ Unmoved(pending'[i], e.path)
       /\ \A i \in DOMAIN ready' : ready'[i].reason # "quiet"
  BY <1>4, <1>7, <1>8, <1>9, <1>10, InsertTime DEF KeepsOpen
<1>12. Evidence' /\ (\A i \in DOMAIN pending : Timely(pending[i]))'
  BY <1>4, <1>5, <1>11, TimelyStep
<1>13. QED
  BY <1>11, <1>12 DEF TrackerTime

LEMMA DueTime ==
    ASSUME TimeInv, Due
    PROVE  TrackerTime' /\ KeepsOpen
<1>1. PICK now : now = call["releaser"].now
  OBVIOUS
<1>2. TypeOK /\ Evidence /\ pending \in Seq(Entry)
  BY DEF TimeInv, TypeOK
<1>3. /\ now \in 0..clock /\ pending' \in Seq(Entry) /\ Subsequence(pending', pending)
      /\ \A i \in DOMAIN pending' : \E j \in DOMAIN pending \ Ripe(now) : pending'[i] = pending[j]
  BY <1>1, <1>2, DueParts
<1>4. /\ ready' = <<>> /\ lastDue' = now
      /\ UNCHANGED <<clock, draining, seen, evidence, reported>>
  BY <1>1 DEF Due
<1>5. WindowOrder(pending')
  BY <1>2, <1>3, SubsequenceKeeps DEF TimeInv
<1>6. (\A i \in DOMAIN pending : Timely(pending[i]))'
  BY <1>3, <1>4 DEF TimeInv, Timely
<1>7. \A i \in DOMAIN pending' : lastDue' - pending'[i].settling_since < MaxWaitSeconds
  <2> TAKE i \in DOMAIN pending'
  <2>1. PICK j \in DOMAIN pending \ Ripe(now) : pending'[i] = pending[j]
    BY <1>3
  <2>2. ~(now - pending[j].settling_since >= MaxWaitSeconds)
    BY <2>1 DEF Ripe, HitCeiling
  <2>3. pending[j].settling_since \in Int /\ now \in Int
    <3>1. pending[j] \in Entry
      BY <1>2, <2>1
    <3>2. QED
      BY <1>3, <3>1, EntryTimes
  <2>4. QED
    BY <1>2, <1>4, <2>1, <2>2, <2>3, Clocks
<1>8. QED
  BY <1>2, <1>4, <1>5, <1>6, <1>7 DEF TrackerTime, KeepsOpen, OpenWindows, Evidence

LEMMA FlushTime ==
    ASSUME TimeInv, Flush
    PROVE  TrackerTime' /\ KeepsOpen
<1>1. /\ pending' = <<>> /\ ready' = <<>> /\ UNCHANGED <<clock, evidence>>
  BY DEF Flush
<1>2. QED
  BY <1>1 DEF TimeInv, TrackerTime, KeepsOpen, OpenWindows, WindowOrder, Evidence

\* Time alone makes nothing untimely.
LEMMA OtherTime ==
    ASSUME TimeInv, clock' \in {clock, clock + 1},
           UNCHANGED <<pending, ready, evidence, lastDue, draining>>
    PROVE  TrackerTime' /\ KeepsOpen
<1>1. TypeOK /\ Evidence /\ WindowOrder(pending)
  BY DEF TimeInv
<1>2. clock' \in Int /\ clock \in Int /\ clock <= clock'
  BY <1>1, Clocks
<1>3. \A p \in Path : evidence[p] \in Int
  BY <1>1 DEF Evidence
<1>4. Evidence'
  BY <1>1, <1>2, <1>3 DEF Evidence
<1>5. ASSUME NEW i \in DOMAIN pending
      PROVE  pending[i].settling_since <= clock'
  <2>1. Timely(pending[i]) /\ pending[i] \in Entry
    BY DEF TimeInv, TypeOK
  <2>2. QED
    BY <1>2, <2>1, EntryTimes DEF Timely
<1>6. (\A i \in DOMAIN pending : Timely(pending[i]))'
  BY <1>5 DEF TimeInv, Timely
<1>7. QED
  BY <1>1, <1>4, <1>6 DEF TrackerTime, TimeInv, KeepsOpen, OpenWindows

LEMMA TimeStep ==
    ASSUME TimeInv, [Next]_vars
    PROVE  TimeInv' /\ KeepsOpen
<1>1. ASSUME \/ UNCHANGED vars \/ Tick \/ EnterDue
             \/ \E p \in Path : EnterObserve(p)
             \/ \E e \in held : EnterReintroduce(e) \/ Report(e)
      PROVE  /\ clock' \in {clock, clock + 1}
             /\ UNCHANGED <<pending, ready, evidence, lastDue, draining>>
  BY <1>1 DEF vars, Tick, EnterDue, EnterObserve, EnterReintroduce, Enter, Report
<1>2. TrackerTime' /\ KeepsOpen
  BY <1>1, OtherTime, ObserveTime, DueTime, FlushTime, ReintroduceTime DEF Next
<1>3. TypeOK' /\ Cadence'
  BY TypeStep, CadenceStep DEF TimeInv
<1>4. QED
  BY <1>2, <1>3 DEF TimeInv, TrackerTime

LEMMA InitialTime == Init => TimeInv /\ OpenWindows
<1> SUFFICES ASSUME Init PROVE TimeInv /\ OpenWindows
  OBVIOUS
<1>1. TypeOK
  BY InitialType
<1>2. clock = 0 /\ lastDue = 0 /\ draining = FALSE /\ \A t \in Thread : call[t] = Idle
  BY DEF Init
<1>3. clock - lastDue <= PollSeconds
  BY <1>2, TrackerAssumption
<1>4. Cadence
  BY <1>2, <1>3 DEF Cadence, Thread
<1>5. Evidence /\ WindowOrder(pending) /\ OpenWindows
  BY DEF Init, Evidence, WindowOrder, OpenWindows
<1>6. QED
  BY <1>1, <1>4, <1>5 DEF Init, TimeInv

\* Pressure takes the file that waited longest: the order of _pending is the order
\* in which the windows opened, but for one stall in front of the lock.
THEOREM OldestWindowGoesFirst == Spec => []OldestWindowFirst
<1>1. TimeInv => OldestWindowFirst
  BY DEF TimeInv, WindowOrder, OldestWindowFirst
<1>2. TimeInv /\ [Next]_vars => TimeInv'
  BY TimeStep
<1>3. QED
  BY <1>1, <1>2, InitialTime, PTL DEF Spec

\* A file that never stops changing is held back no longer than max_wait_seconds
\* and one period of the releaser, if no thread stalls for as long as that.
THEOREM WaitIsBounded ==
    ASSUME StallBound < MaxWaitSeconds
    PROVE  Spec => []CeilingBoundsTheWait
<1> DEFINE Inv == TimeInv /\ OpenWindows
<1>1. Init => Inv
  BY InitialTime
<1>2. Inv /\ [Next]_vars => Inv'
  BY TimeStep DEF KeepsOpen
<1>3. Inv => CeilingBoundsTheWait
  <2> SUFFICES ASSUME Inv, ~draining, NEW i \in DOMAIN pending
               PROVE  clock - pending[i].settling_since < MaxWaitSeconds + PollSeconds
    BY DEF CeilingBoundsTheWait
  <2>1. lastDue - pending[i].settling_since < MaxWaitSeconds /\ clock - lastDue <= PollSeconds
    BY DEF OpenWindows, TimeInv, Cadence
  <2>2. TypeOK /\ pending[i] \in Entry
    BY DEF TimeInv, TypeOK
  <2>3. pending[i].settling_since \in Int
    BY <2>2, EntryTimes
  <2>4. QED
    BY <2>1, <2>2, <2>3, Clocks
<1>4. QED
  BY <1>1, <1>2, <1>3, PTL DEF Spec

\* An entry is released as quiet only if nobody saw its file change for
\* quiet_seconds, less one stall.
THEOREM QuietIsQuiet == Spec => QuietMeansQuiet
<1>1. TimeInv /\ [Next]_vars =>
         [\A e \in held' \ held :
             e.reason = "quiet" => clock - evidence[e.path] >= QuietSeconds - StallBound]_vars
  <2> SUFFICES ASSUME TimeInv, Next, NEW e \in held' \ held, e.reason = "quiet"
               PROVE  clock - evidence[e.path] >= QuietSeconds - StallBound
    OBVIOUS
  <2>1. TypeOK /\ Evidence /\ pending \in Seq(Entry)
    BY DEF TimeInv, TypeOK
  <2>2. e \notin ToSet(ready)
    BY DEF TimeInv, ToSet
  <2>3. CASE Due
    <3>1. PICK now : now = call["releaser"].now
      OBVIOUS
    <3>2. /\ now \in 0..clock
          /\ held' = held \cup ToSet(ready)
                       \cup {Released(pending[i], DueReason(pending[i], now)) : i \in Ripe(now)}
      BY <2>1, <2>3, <3>1, DueParts
    <3>3. PICK i \in Ripe(now) : e = Released(pending[i], DueReason(pending[i], now))
      BY <2>2, <3>2
    <3>4. pending[i] \in Entry /\ DueReason(pending[i], now) \in Reason
      BY <2>1 DEF Ripe, DueReason, Reason
    <3>5. e.reason = DueReason(pending[i], now) /\ e.path = pending[i].path
      BY <3>3, <3>4, ReleasedType
    <3>6. now - pending[i].last_seen >= QuietSeconds
      BY <3>5 DEF DueReason, SettledNaturally
    <3>7. Timely(pending[i])
      BY DEF TimeInv, Ripe
    <3>8. /\ pending[i].last_seen \in Int /\ pending[i].path \in Path
          /\ evidence[pending[i].path] \in Int
      BY <2>1, <3>4, EntryTimes DEF Evidence
    <3>9. evidence[pending[i].path] <= pending[i].last_seen + StallBound
      BY <3>7 DEF Timely
    <3>10. clock - evidence[pending[i].path] >= QuietSeconds - StallBound
      <4>1. PICK last \in Int : last = pending[i].last_seen
        BY <3>8
      <4>2. PICK shown \in Int : shown = evidence[pending[i].path]
        BY <3>8
      <4>3. now \in Int /\ now <= clock /\ clock \in Int /\ StallBound \in Int /\ QuietSeconds \in Int
        BY <2>1, <3>2, Clocks, TrackerAssumption
      <4>4. now - last >= QuietSeconds /\ shown <= last + StallBound
        BY <3>6, <3>9, <4>1, <4>2
      <4>5. clock - shown >= QuietSeconds - StallBound
        BY <4>3, <4>4
      <4>6. QED
        BY <4>2, <4>5
    <3>11. QED
      BY <3>5, <3>10
  <2>4. CASE Flush
    <3>1. PICK f \in ToSet(pending) : e = Released(f, "shutdown")
      BY <2>2, <2>4 DEF Flush
    <3>2. f \in Entry /\ "shutdown" \in Reason
      BY <2>1 DEF ToSet, Reason
    <3>3. e.reason = "shutdown"
      BY <3>1, <3>2, ReleasedType
    <3>4. QED
      BY <3>3
  <2>5. ASSUME \/ Observe \/ Reintroduce \/ Tick \/ EnterDue
               \/ \E p \in Path : EnterObserve(p)
               \/ \E f \in held : EnterReintroduce(f) \/ Report(f)
        PROVE  FALSE
    BY <2>5 DEF Observe, Reintroduce, Tick, EnterDue, EnterObserve, EnterReintroduce, Enter,
                Report
  <2>6. QED
    BY <2>3, <2>4, <2>5 DEF Next
<1>2. TimeInv /\ [Next]_vars => TimeInv'
  BY TimeStep
<1>3. QED
  BY <1>1, <1>2, InitialTime, PTL DEF Spec, QuietMeansQuiet
===============================================================================
