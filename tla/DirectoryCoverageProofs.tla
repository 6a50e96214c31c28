------------------------ MODULE DirectoryCoverageProofs ------------------------
(***************************************************************************)
(* Proofs about DirectoryCoverage, for any set of directories and any      *)
(* number of changes of the file system: what each party knows of a        *)
(* directory agrees with what the others know, a stop is final, no loss is *)
(* hidden behind "active", and "active" means watched.                     *)
(***************************************************************************)
EXTENDS DirectoryCoverage, TLAPS, FiniteSetTheorems, SequenceTheorems

(* Lists of directories *)

\* A function on 1..n is a sequence of length n.
LEMMA FunctionIsSequence ==
    ASSUME NEW S, NEW n \in Nat, NEW f \in [1..n -> S]
    PROVE  f \in Seq(S) /\ Len(f) = n
OBVIOUS

\* SetToSeq lists each element once.
LEMMA ListOfSet ==
    ASSUME NEW S, IsFiniteSet(S)
    PROVE  /\ SetToSeq(S) \in Seq(S)
           /\ IsInjective(SetToSeq(S))
           /\ ToSet(SetToSeq(S)) = S
           /\ Len(SetToSeq(S)) = Cardinality(S)
<1> DEFINE n == Cardinality(S)
<1>1. n \in Nat /\ ExistsBijection(1..n, S)
  BY FS_CardinalityType
<1>2. PICK g \in [1..n -> S] : IsInjective(g)
  BY <1>1 DEF ExistsBijection, Bijection, Injection, IsInjective
<1>3. \E f \in [1..n -> S] : IsInjective(f)
  BY <1>2
<1>4. PICK f : f = SetToSeq(S)
  OBVIOUS
<1>5. f \in [1..n -> S] /\ IsInjective(f)
  BY <1>3, <1>4 DEF SetToSeq
<1>6. f \in Seq(S) /\ Len(f) = n
  BY <1>1, <1>5, FunctionIsSequence
<1>7. ToSet(f) = S
  <2>1. IsFiniteSet(1..n) /\ Cardinality(1..n) = n
    BY <1>1, FS_Interval
  <2>2. f \in Injection(1..n, S)
    BY <1>5 DEF Injection, IsInjective
  <2>3. f \in Surjection(1..n, S)
    BY <2>1, <2>2, FS_Injection
  <2> QED
    BY <1>5, <2>3 DEF Surjection, ToSet
<1> QED
  BY <1>4, <1>5, <1>6, <1>7

\* Appending a list of other elements.
LEMMA ListsTogether ==
    ASSUME NEW S, NEW s \in Seq(S), NEW t \in Seq(S), IsInjective(s), IsInjective(t),
           ToSet(s) \cap ToSet(t) = {}
    PROVE  /\ s \o t \in Seq(S) /\ IsInjective(s \o t)
           /\ ToSet(s \o t) = ToSet(s) \cup ToSet(t)
<1>1. \A i \in 1..Len(s) : \A j \in 1..Len(t) : s[i] # t[j]
  BY DEF ToSet
<1>2. \A i \in 1..Len(s) + Len(t) :
         (s \o t)[i] = IF i <= Len(s) THEN s[i] ELSE t[i - Len(s)]
  OBVIOUS
<1>3. IsInjective(s \o t)
  BY <1>1, <1>2 DEF IsInjective
<1>4. ToSet(s \o t) \subseteq ToSet(s) \cup ToSet(t)
  BY <1>2 DEF ToSet
<1>5. ToSet(s) \subseteq ToSet(s \o t)
  BY <1>2 DEF ToSet
<1>6. ASSUME NEW x \in ToSet(t) PROVE x \in ToSet(s \o t)
  <2>1. PICK j \in 1..Len(t) : x = t[j]
    BY DEF ToSet
  <2>2. j + Len(s) \in 1..Len(s) + Len(t) /\ (s \o t)[j + Len(s)] = x
    BY <1>2, <2>1
  <2> QED
    BY <2>2 DEF ToSet
<1> QED
  BY <1>3, <1>4, <1>5, <1>6

\* Taking one element out.
LEMMA ListWithout ==
    ASSUME NEW S, NEW s \in Seq(S), IsInjective(s), NEW d \in ToSet(s)
    PROVE  /\ Unlist(s, d) \in Seq(S) /\ IsInjective(Unlist(s, d))
           /\ ToSet(Unlist(s, d)) = ToSet(s) \ {d}
<1>1. PICK k : k = Place(s, d)
  OBVIOUS
<1>2. k \in 1..Len(s) /\ s[k] = d
  BY <1>1 DEF ToSet, Place
<1>3. PICK r : r = Unlist(s, d)
  OBVIOUS
<1>4. r = SubSeq(s, 1, k - 1) \o SubSeq(s, k + 1, Len(s))
  BY <1>1, <1>3 DEF Unlist, RemoveAt
<1>5. PICK a, b : a = SubSeq(s, 1, k - 1) /\ b = SubSeq(s, k + 1, Len(s))
  OBVIOUS
<1>6. /\ a \in Seq(S) /\ Len(a) = k - 1 /\ \A i \in 1..k - 1 : a[i] = s[i]
      /\ b \in Seq(S) /\ Len(b) = Len(s) - k /\ \A i \in 1..Len(s) - k : b[i] = s[i + k]
  <2>1. /\ 1 \in 1..Len(s) + 1 /\ k - 1 \in 0..Len(s)
        /\ k + 1 \in 1..Len(s) + 1 /\ Len(s) \in k..Len(s)
    BY <1>2
  <2>2. a \in Seq(S) /\ Len(a) = k - 1 /\ \A i \in 1..k - 1 : a[i] = s[i]
    BY <1>2, <1>5, <2>1, SubSeqProperties
  <2>3. b \in Seq(S) /\ Len(b) = Len(s) - k /\ \A i \in 1..Len(s) - k : b[i] = s[i + k]
    BY <1>2, <1>5, <2>1, SubSeqProperties
  <2> QED
    BY <2>2, <2>3
<1>7. /\ r \in Seq(S) /\ Len(r) = Len(s) - 1
      /\ \A i \in 1..Len(s) - 1 : r[i] = IF i < k THEN s[i] ELSE s[i + 1]
  <2>1. /\ r \in Seq(S) /\ Len(r) = Len(a) + Len(b)
        /\ \A i \in 1..Len(a) + Len(b) : r[i] = IF i <= Len(a) THEN a[i] ELSE b[i - Len(a)]
    BY <1>4, <1>5, <1>6, SMTT(30)
  <2>2. Len(a) + Len(b) = Len(s) - 1
    BY <1>2, <1>6
  <2>3. ASSUME NEW i \in 1..Len(s) - 1, i < k PROVE r[i] = s[i]
    <3>1. i \in 1..k - 1 /\ i <= Len(a)
      BY <1>2, <1>6, <2>3
    <3>2. r[i] = a[i] /\ a[i] = s[i]
      BY <1>6, <2>1, <2>2, <3>1
    <3> QED
      BY <3>2
  <2>4. ASSUME NEW i \in 1..Len(s) - 1, ~(i < k) PROVE r[i] = s[i + 1]
    <3>1. i - Len(a) \in 1..Len(s) - k /\ (i - Len(a)) + k = i + 1 /\ ~(i <= Len(a))
      BY <1>2, <1>6, <2>4
    <3>2. b[i - Len(a)] = s[(i - Len(a)) + k]
      BY <1>6, <3>1
    <3>3. r[i] = b[i - Len(a)]
      BY <2>1, <2>2, <3>1
    <3> QED
      BY <3>1, <3>2, <3>3
  <2> QED
    BY <2>1, <2>2, <2>3, <2>4
<1>8. IsInjective(r)
  BY <1>2, <1>7, SMTT(30) DEF IsInjective
<1>9. ASSUME NEW x \in ToSet(r) PROVE x \in ToSet(s) \ {d}
  <2>1. PICK i \in 1..Len(s) - 1 : x = r[i]
    BY <1>7 DEF ToSet
  <2>2. PICK j \in 1..Len(s) : x = s[j] /\ j # k
    BY <1>2, <1>7, <2>1
  <2> QED
    BY <1>2, <2>2 DEF ToSet, IsInjective
<1>10. ASSUME NEW x \in ToSet(s) \ {d} PROVE x \in ToSet(r)
  <2>1. PICK j \in 1..Len(s) : x = s[j]
    BY DEF ToSet
  <2>2. CASE j < k
    BY <1>2, <1>7, <2>1, <2>2 DEF ToSet
  <2>3. CASE j > k
    <3>1. j - 1 \in 1..Len(s) - 1 /\ r[j - 1] = x
      BY <1>2, <1>7, <2>1, <2>3
    <3> QED
      BY <1>7, <3>1 DEF ToSet
  <2> QED
    BY <1>2, <2>1, <2>2, <2>3
<1> QED
  BY <1>3, <1>7, <1>8, <1>9, <1>10

\* The head of a list and the rest.
LEMMA ListFromHead ==
    ASSUME NEW S, NEW s \in Seq(S), s # <<>>, IsInjective(s)
    PROVE  /\ Head(s) \in ToSet(s)
           /\ Tail(s) \in Seq(S) /\ IsInjective(Tail(s))
           /\ ToSet(Tail(s)) = ToSet(s) \ {Head(s)}
<1>1. Len(s) >= 1 /\ Head(s) = s[1]
  OBVIOUS
<1>2. Tail(s) \in Seq(S) /\ Len(Tail(s)) = Len(s) - 1
  OBVIOUS
<1>3. \A i \in 1..Len(s) - 1 : Tail(s)[i] = s[i + 1]
  OBVIOUS
<1>4. IsInjective(Tail(s))
  BY <1>1, <1>2, <1>3 DEF IsInjective
<1>5. ASSUME NEW x \in ToSet(Tail(s)) PROVE x \in ToSet(s) \ {Head(s)}
  BY <1>1, <1>2, <1>3 DEF ToSet, IsInjective
<1>6. ASSUME NEW x \in ToSet(s) \ {Head(s)} PROVE x \in ToSet(Tail(s))
  <2>1. PICK j \in 1..Len(s) : x = s[j]
    BY DEF ToSet
  <2>2. j - 1 \in 1..Len(s) - 1 /\ Tail(s)[j - 1] = x
    BY <1>1, <1>3, <2>1
  <2> QED
    BY <1>2, <2>2 DEF ToSet
<1>7. Head(s) \in ToSet(s)
  BY <1>1 DEF ToSet
<1> QED
  BY <1>2, <1>4, <1>5, <1>6, <1>7

-----------------------------------------------------------------------------
(* Types *)

\* What a pass still has to look at is listed as unwatched, once; nothing is done outside
\* a pass, and one directory is scheduled at a time.
PassInv ==
    /\ IsInjective(pass.todo)
    /\ ToSet(pass.todo) \subseteq Directory \ DOMAIN emitter
    /\ pass.scheduled \subseteq DOMAIN emitter
    /\ \A d, e \in pass.scheduled : d = e
    /\ ~pass.busy => pass.todo = <<>> /\ pass.scheduled = {}

TypeInv == TypeOK /\ PassInv

LEMMA EmptyList ==
    <<>> \in Seq(Directory) /\ IsInjective(<<>>) /\ ToSet(<<>>) = {}
BY DEF IsInjective, ToSet

LEMMA InitialTypes == Init => TypeInv
<1> SUFFICES ASSUME Init PROVE TypeInv
  OBVIOUS
<1>1. PICK found \in SUBSET Directory \ {{}} :
          LET list == SetToSeq(found)
          IN  /\ at = [d \in Directory |->
                          IF d \in found THEN CHOOSE i \in DOMAIN list : list[i] = d
                          ELSE Nothing]
              /\ made = Len(list)
              /\ emitter = [d \in found |-> Alive(at[d])]
              /\ identity = [d \in found |-> at[d]]
              /\ unwatched = SetToSeq(Directory \ found)
  BY DEF Init
<1>2. PICK list : list = SetToSeq(found)
  OBVIOUS
<1>3. list \in Seq(found) /\ ToSet(list) = found /\ made = Len(list) /\ made \in Nat
  BY <1>1, <1>2, ListOfSet, CoverageAssumption, FS_Subset
<1> DEFINE place(d) == CHOOSE i \in DOMAIN list : list[i] = d
<1>4. \A d \in found : place(d) \in 1..made
  BY <1>3 DEF ToSet
<1>5. /\ at \in [Directory -> 0..made]
      /\ \A d \in found : at[d] \in 1..made
  <2>1. at = [d \in Directory |-> IF d \in found THEN place(d) ELSE 0]
    BY <1>1, <1>2 DEF Nothing
  <2> HIDE DEF place
  <2>2. \A d \in Directory : at[d] = IF d \in found THEN place(d) ELSE 0
    BY <2>1
  <2>3. \A d \in Directory : at[d] \in 0..made
    BY <1>3, <1>4, <2>2
  <2> QED
    BY <1>4, <2>1, <2>2, <2>3
<1>6. /\ DOMAIN emitter = found /\ DOMAIN identity = found
      /\ \A d \in found : emitter[d] \in [inode : 1..made, alive : BOOLEAN]
      /\ \A d \in found : identity[d] \in 0..made
  BY <1>1, <1>5 DEF Alive
<1>7. /\ unwatched \in Seq(Directory) /\ IsInjective(unwatched)
      /\ ToSet(unwatched) = Directory \ found
  <2>1. IsFiniteSet(Directory \ found)
    BY CoverageAssumption, FS_Subset
  <2>2. /\ unwatched \in Seq(Directory \ found) /\ IsInjective(unwatched)
        /\ ToSet(unwatched) = Directory \ found
    BY <1>1, <2>1, ListOfSet
  <2> QED
    BY <2>2, SeqMonotonic
<1>8. pass = Idle /\ pass.scheduled = {} /\ pass.todo = <<>> /\ pass.busy = FALSE
      /\ pass \in [busy : BOOLEAN, todo : Seq(Directory), scheduled : SUBSET Directory]
  BY EmptyList DEF Init, Idle
<1>9. PassInv
  BY <1>8, EmptyList DEF PassInv
<1>10. /\ {known, latch, counted, unassessed, unheard} \subseteq SUBSET Directory
       /\ heartbeat \in [state : {"none", "active", "partial"}, news : SUBSET Directory]
       /\ stopping \in BOOLEAN /\ observer \in {"running", "stopped"}
       /\ changes \in 0..MaxChanges /\ away = {}
  <2>1. known = {} /\ latch = {} /\ counted = {} /\ unassessed = {} /\ unheard = {}
    BY DEF Init
  <2>2. heartbeat = [state |-> "none", news |-> {}]
    BY DEF Init, Silent
  <2>3. stopping = FALSE /\ observer = "running" /\ changes = 0 /\ away = {}
    BY DEF Init
  <2>4. MaxChanges \in Nat
    BY CoverageAssumption
  <2>5. {known, latch, counted, unassessed, unheard} \subseteq SUBSET Directory
    BY <2>1
  <2>6. heartbeat \in [state : {"none", "active", "partial"}, news : SUBSET Directory]
    BY <2>2
  <2>7. changes \in 0..MaxChanges
    BY <2>3, <2>4
  <2> QED
    BY <2>3, <2>5, <2>6, <2>7
<1> QED
  BY <1>3, <1>5, <1>6, <1>7, <1>8, <1>9, <1>10 DEF TypeInv, TypeOK

\* The file system and watchdog keep their own types and touch no list.
LEMMA EnvironmentTypes ==
    ASSUME TypeInv, Environment
    PROVE  TypeInv'
<1> USE DEF TypeInv, TypeOK, PassInv, Change, watches, losses, history, threads, disk, Nothing
<1>0. PICK d \in Directory :
        DeleteDirectory(d) \/ MakeDirectory(d) \/ MoveAway(d) \/ MoveBack(d) \/ EmitterStops(d)
  BY DEF Environment
<1>1. CASE DeleteDirectory(d)
  BY <1>1, CoverageAssumption, SMTT(30) DEF DeleteDirectory
<1>2. CASE MakeDirectory(d)
  BY <1>2, CoverageAssumption DEF MakeDirectory
<1>3. CASE MoveAway(d)
  <2>1. at[d] \in 1..made
    BY <1>3 DEF MoveAway
  <2>2. away' \subseteq 1..made
    BY <1>3, <2>1 DEF MoveAway
  <2> QED
    BY <1>3, <2>2, CoverageAssumption DEF MoveAway
<1>4. CASE MoveBack(d)
  BY <1>4, CoverageAssumption DEF MoveBack
<1>5. CASE EmitterStops(d)
  BY <1>5 DEF EmitterStops
<1> QED
  BY <1>0, <1>1, <1>2, <1>3, <1>4, <1>5

\* What is lost was watched, and is finite.
LEMMA LostIsWatched ==
    ASSUME TypeOK
    PROVE  Lost \subseteq DOMAIN emitter /\ Lost \subseteq Directory /\ IsFiniteSet(Lost)
<1>1. Lost \subseteq DOMAIN emitter /\ Lost \subseteq Directory
  BY DEF Lost, TypeOK
<1> QED
  BY <1>1, CoverageAssumption, FS_Subset

\* The lost directories change over from the one map to the other.
LEMMA BeginPassTypes ==
    ASSUME TypeInv, BeginPass
    PROVE  TypeInv'
<1>1. PICK l : l = SetToSeq(Lost)
  OBVIOUS
<1>2. l \in Seq(Directory) /\ IsInjective(l) /\ ToSet(l) = Lost
  <2>1. l \in Seq(Lost) /\ IsInjective(l) /\ ToSet(l) = Lost
    BY <1>1, LostIsWatched, ListOfSet DEF TypeInv
  <2> QED
    BY <2>1, LostIsWatched, SeqMonotonic DEF TypeInv
<1>3. ~pass.busy /\ pass.scheduled = {}
  BY DEF BeginPass, BeginPassWith, TypeInv, PassInv
<1>4. /\ unwatched \in Seq(Directory) /\ IsInjective(unwatched)
      /\ ToSet(unwatched) = Directory \ DOMAIN emitter
      /\ Lost \subseteq DOMAIN emitter /\ DOMAIN emitter \subseteq Directory
  BY <1>3, LostIsWatched DEF TypeInv, TypeOK
<1>5. PICK w : w = unwatched \o l
  OBVIOUS
<1>6. /\ w \in Seq(Directory) /\ IsInjective(w)
      /\ ToSet(w) = (Directory \ DOMAIN emitter) \cup Lost
  BY <1>2, <1>4, <1>5, ListsTogether
<1>7. /\ unwatched' = w /\ pass' = [busy |-> TRUE, todo |-> w, scheduled |-> {}]
  BY <1>1, <1>5 DEF BeginPass, BeginPassWith
<1>8. /\ DOMAIN emitter' = DOMAIN emitter \ Lost /\ DOMAIN identity' = DOMAIN identity \ Lost
      /\ \A d \in DOMAIN emitter' : emitter'[d] = emitter[d]
      /\ \A d \in DOMAIN identity' : identity'[d] = identity[d]
  BY DEF BeginPass, Unschedule, Without
<1>9. ToSet(w) = Directory \ DOMAIN emitter'
  BY <1>4, <1>6, <1>8
<1>10. PassInv'
  BY <1>6, <1>7, <1>9 DEF PassInv
<1>11. {known, latch, counted, unassessed, unheard}' \subseteq SUBSET Directory
  BY LostIsWatched DEF TypeInv, TypeOK, BeginPass, BeginPassWith, Notice, Latched, News
<1>12. /\ (unwatched \in Seq(Directory) /\ IsInjective(unwatched))'
       /\ (ToSet(unwatched) = (Directory \ DOMAIN emitter) \cup pass.scheduled)'
       /\ (pass \in [busy : BOOLEAN, todo : Seq(Directory), scheduled : SUBSET Directory])'
  BY <1>6, <1>7, <1>9
<1>13. DOMAIN identity' = DOMAIN emitter' \ pass'.scheduled
  BY <1>3, <1>7, <1>8 DEF TypeInv, TypeOK
<1>14. UNCHANGED <<disk, stopping, observer, heartbeat>>
  BY DEF BeginPass, BeginPassWith
<1>15. /\ made' \in Nat /\ changes' \in 0..MaxChanges
       /\ at' \in [Directory -> 0..made'] /\ away' \subseteq 1..made'
       /\ DOMAIN emitter' \subseteq Directory
       /\ \A d \in DOMAIN emitter' : emitter'[d] \in [inode : 1..made', alive : BOOLEAN]
       /\ \A d \in DOMAIN identity' : identity'[d] \in 0..made'
       /\ (heartbeat \in [state : {"none", "active", "partial"}, news : SUBSET Directory])'
       /\ stopping' \in BOOLEAN /\ observer' \in {"running", "stopped"}
  BY <1>8, <1>14 DEF TypeInv, TypeOK, disk
<1> QED
  BY <1>10, <1>11, <1>12, <1>13, <1>15 DEF TypeInv, TypeOK

LEMMA SkipTypes ==
    ASSUME TypeInv, SkipDirectory
    PROVE  TypeInv'
<1>1. /\ Tail(pass.todo) \in Seq(Directory) /\ IsInjective(Tail(pass.todo))
      /\ ToSet(Tail(pass.todo)) \subseteq ToSet(pass.todo)
  BY ListFromHead DEF TypeInv, TypeOK, PassInv, SkipDirectory
<1>2. /\ pass' = [pass EXCEPT !.todo = Tail(pass.todo)] /\ pass.busy
      /\ UNCHANGED <<disk, watches, losses, stopping, observer, heartbeat>>
  BY DEF SkipDirectory
<1>3. /\ pass'.todo = Tail(pass.todo) /\ pass'.busy = pass.busy /\ pass'.scheduled = pass.scheduled
      /\ pass' \in [busy : BOOLEAN, todo : Seq(Directory), scheduled : SUBSET Directory]
  BY <1>1, <1>2 DEF TypeInv, TypeOK
<1> QED
  BY <1>1, <1>2, <1>3 DEF TypeInv, TypeOK, PassInv, disk, watches, losses, history

LEMMA ScheduleTypes ==
    ASSUME TypeInv, NEW d \in Directory, ScheduleDirectory(d)
    PROVE  TypeInv'
<1>1. d = Head(pass.todo)
  BY DEF ScheduleDirectory
<1>2. /\ pass.busy /\ pass.scheduled = {} /\ pass.todo # <<>> /\ at[d] # Nothing
      /\ pass' = [pass EXCEPT !.todo = Tail(pass.todo), !.scheduled = {d}]
      /\ emitter' = [e \in DOMAIN emitter \cup {d} |->
                        IF e = d THEN Alive(at[d]) ELSE emitter[e]]
      /\ UNCHANGED <<disk, identity, unwatched, losses, stopping, observer, heartbeat>>
  BY <1>1 DEF ScheduleDirectory
<1>3. /\ d \in ToSet(pass.todo)
      /\ Tail(pass.todo) \in Seq(Directory) /\ IsInjective(Tail(pass.todo))
      /\ ToSet(Tail(pass.todo)) = ToSet(pass.todo) \ {d}
  BY <1>1, <1>2, ListFromHead DEF TypeInv, TypeOK, PassInv
<1>4. d \in Directory \ DOMAIN emitter
  BY <1>3 DEF TypeInv, PassInv
<1>5. /\ pass'.todo = Tail(pass.todo) /\ pass'.busy = pass.busy /\ pass'.scheduled = {d}
      /\ pass' \in [busy : BOOLEAN, todo : Seq(Directory), scheduled : SUBSET Directory]
  BY <1>2, <1>3, <1>4 DEF TypeInv, TypeOK
<1>6. DOMAIN emitter' = DOMAIN emitter \cup {d}
  BY <1>2
<1>7. PassInv'
  BY <1>3, <1>4, <1>5, <1>6, <1>2 DEF TypeInv, TypeOK, PassInv
<1>8. at[d] \in 1..made
  BY <1>2, <1>4 DEF TypeInv, TypeOK, Nothing
<1>9. \A e \in DOMAIN emitter' : emitter'[e] \in [inode : 1..made', alive : BOOLEAN]
  BY <1>2, <1>8 DEF TypeInv, TypeOK, Alive, disk
<1>10. DOMAIN identity' = DOMAIN emitter' \ pass'.scheduled
  BY <1>2, <1>4, <1>5, <1>6, ZenonT(60) DEF TypeInv, TypeOK
<1>11. ToSet(unwatched') = (Directory \ DOMAIN emitter') \cup pass'.scheduled
  <2>1. ToSet(unwatched) = Directory \ DOMAIN emitter /\ unwatched' = unwatched
    BY <1>2 DEF TypeInv, TypeOK
  <2> QED
    BY <1>4, <1>5, <1>6, <2>1
<1> QED
  BY <1>2, <1>4, <1>5, <1>6, <1>7, <1>9, <1>10, <1>11 DEF TypeInv, TypeOK, disk, losses, history

LEMMA ReadIdentityTypes ==
    ASSUME TypeInv, ReadIdentity
    PROVE  TypeInv'
<1>1. PICK d \in pass.scheduled :
        /\ identity' = [e \in DOMAIN identity \cup {d} |->
                           IF e = d THEN at[d] ELSE identity[e]]
        /\ unwatched' = Unlist(unwatched, d)
        /\ Recover(d)
        /\ pass' = [pass EXCEPT !.scheduled = {}]
        /\ UNCHANGED <<disk, emitter, stopping, observer, heartbeat>>
  BY DEF ReadIdentity
<1>2. pass.scheduled = {d} /\ d \in DOMAIN emitter /\ d \in Directory /\ pass.busy
  BY DEF TypeInv, TypeOK, PassInv
<1>3. /\ unwatched \in Seq(Directory) /\ IsInjective(unwatched)
      /\ ToSet(unwatched) = (Directory \ DOMAIN emitter) \cup {d}
  BY <1>2 DEF TypeInv, TypeOK
<1>4. /\ unwatched' \in Seq(Directory) /\ IsInjective(unwatched')
      /\ ToSet(unwatched') = Directory \ DOMAIN emitter
  BY <1>1, <1>2, <1>3, ListWithout
<1>5. /\ pass'.todo = pass.todo /\ pass'.busy = pass.busy /\ pass'.scheduled = {}
      /\ pass' \in [busy : BOOLEAN, todo : Seq(Directory), scheduled : SUBSET Directory]
  BY <1>1 DEF TypeInv, TypeOK
<1>6. PassInv'
  BY <1>1, <1>2, <1>5 DEF TypeInv, PassInv
<1>7. DOMAIN identity' = DOMAIN emitter'
  BY <1>1, <1>2 DEF TypeInv, TypeOK
<1>8. \A e \in DOMAIN identity' : identity'[e] \in 0..made'
  BY <1>1, <1>2 DEF TypeInv, TypeOK, disk
<1>9. {known, latch, counted, unassessed, unheard}' \subseteq SUBSET Directory
  BY <1>1 DEF TypeInv, TypeOK, Recover
<1> QED
  BY <1>1, <1>4, <1>5, <1>6, <1>7, <1>8, <1>9 DEF TypeInv, TypeOK, disk

LEMMA EndPassTypes ==
    ASSUME TypeInv, EndPass
    PROVE  TypeInv'
<1>1. /\ pass'.todo = <<>> /\ pass'.busy = FALSE /\ pass'.scheduled = {} /\ pass.scheduled = {}
      /\ pass' \in [busy : BOOLEAN, todo : Seq(Directory), scheduled : SUBSET Directory]
      /\ UNCHANGED <<disk, watches, losses, stopping, observer, heartbeat>>
  BY EmptyList DEF EndPass, Idle
<1> QED
  BY <1>1, EmptyList DEF TypeInv, TypeOK, PassInv, disk, watches, losses, history

LEMMA MainTypes ==
    ASSUME TypeInv, Assess \/ Deliver \/ HeartbeatFails \/ Stop \/ StopObserver
    PROVE  TypeInv'
<1> USE DEF TypeInv, TypeOK, PassInv, disk, watches, losses, history
<1>1. CASE Assess
  <2>1. {known, latch, counted, unassessed, unheard}' \subseteq SUBSET Directory
    BY <1>1, LostIsWatched, SMTT(30) DEF Assess, Notice, News
  <2>2. heartbeat' \in [state : {"none", "active", "partial"}, news : SUBSET Directory]
    BY <1>1, <2>1 DEF Assess
  <2> QED
    BY <1>1, <2>1, <2>2 DEF Assess
<1>2. CASE Deliver
  BY <1>2 DEF Deliver, Silent
<1>3. CASE HeartbeatFails
  BY <1>3 DEF HeartbeatFails, Silent
<1>4. CASE Stop
  BY <1>4 DEF Stop
<1>5. CASE StopObserver
  BY <1>5, ZenonT(60) DEF StopObserver
<1> QED
  BY <1>1, <1>2, <1>3, <1>4, <1>5

\* Every step keeps the types and the agreement of the maps.
LEMMA TypeInvKept ==
    ASSUME TypeInv, [Next]_vars
    PROVE  TypeInv'
<1>1. CASE UNCHANGED vars
  BY <1>1 DEF TypeInv, TypeOK, PassInv, vars, disk, watches, losses, history, threads
<1> QED
  BY <1>1, EnvironmentTypes, BeginPassTypes, SkipTypes, ScheduleTypes, ReadIdentityTypes,
     EndPassTypes, MainTypes DEF Next, RecoveryStep

\* Outside a pass each configured directory is watched or listed as unwatched, once, and
\* never both, whatever the file system does between the steps of the pass.
THEOREM TypeCorrect == Spec => []TypeOK
<1>1. TypeInv => TypeOK
  BY DEF TypeInv
<1> QED
  BY <1>1, InitialTypes, TypeInvKept, PTL DEF Spec

-----------------------------------------------------------------------------
(* A stop is final *)

\* stop takes the lock, so no pass is under way once the recovery thread was told;
\* the observer is stopped later.
StopOrder ==
    /\ stopping => ~pass.busy
    /\ observer = "stopped" => stopping
    /\ NothingStartsAfterStop

LEMMA StopOrderKept ==
    ASSUME TypeInv, StopOrder, [Next]_vars
    PROVE  StopOrder'
<1> USE DEF StopOrder, NothingStartsAfterStop, disk, watches, losses, threads, history
<1>1. CASE Environment
  BY <1>1 DEF Environment, DeleteDirectory, MakeDirectory, MoveAway, MoveBack, Change,
              EmitterStops
<1>2. CASE RecoveryStep
  <2>1. CASE BeginPass
    BY <2>1 DEF BeginPass, BeginPassWith, Unschedule, Without
  <2>2. CASE SkipDirectory
    BY <2>2 DEF SkipDirectory
  <2>5. CASE \E d \in Directory : ScheduleDirectory(d)
    <3>1. PICK d \in Directory : ScheduleDirectory(d)
      BY <2>5
    <3>2. /\ pass.busy /\ stopping' = stopping /\ observer' = observer
          /\ pass' = [pass EXCEPT !.todo = Tail(@), !.scheduled = {d}]
      BY <3>1 DEF ScheduleDirectory
    <3>3. pass \in [busy : BOOLEAN, todo : Seq(Directory), scheduled : SUBSET Directory]
      BY DEF TypeInv, TypeOK
    <3>4. pass'.busy
      BY <3>2, <3>3
    <3> QED
      BY <3>2, <3>4
  <2>3. CASE ReadIdentity
    BY <2>3 DEF ReadIdentity
  <2>4. CASE EndPass
    BY <2>4 DEF EndPass, Idle
  <2> QED
    BY <1>2, <2>1, <2>2, <2>3, <2>4, <2>5 DEF RecoveryStep
<1>3. CASE Assess \/ Deliver \/ HeartbeatFails
  BY <1>3 DEF Assess, Deliver, HeartbeatFails
<1>4. CASE Stop
  BY <1>4 DEF Stop
<1>5. CASE StopObserver
  BY <1>5 DEF StopObserver, TypeInv, TypeOK, PassInv
<1>6. CASE UNCHANGED vars
  BY <1>6 DEF vars
<1> QED
  BY <1>1, <1>2, <1>3, <1>4, <1>5, <1>6 DEF Next

\* After stop no recovery pass starts an emitter on the observer that is stopping,
\* whenever it was asked to stop and however the file system changed.
THEOREM StopIsFinal == Spec => []NothingStartsAfterStop
<1>1. Init => StopOrder
  BY DEF Init, StopOrder, NothingStartsAfterStop, Idle
<1>2. TypeInv /\ StopOrder /\ [Next]_vars => StopOrder'
  BY StopOrderKept
<1>3. StopOrder => NothingStartsAfterStop
  BY DEF StopOrder
<1> QED
  BY <1>1, <1>2, <1>3, InitialTypes, TypeInvKept, PTL DEF Spec

-----------------------------------------------------------------------------
(* No loss is hidden *)

\* What was noticed was counted, and what no assessment has seen is in the latch.
LatchInv == known \subseteq counted /\ unassessed \subseteq latch

\* It is the return of a noticed directory, without a recovery, that breaks it.
LEMMA LatchInvKept ==
    ASSUME MayReturn = FALSE, LatchInv, [Next]_vars
    PROVE  LatchInv'
<1> USE DEF LatchInv, disk, watches, losses, threads, history, Change
<1>1. CASE \E d \in Directory : DeleteDirectory(d) \/ MakeDirectory(d) \/ MoveAway(d)
  BY <1>1 DEF DeleteDirectory, MakeDirectory, MoveAway
<1>2. CASE \E d \in Directory : MoveBack(d)
  BY <1>2 DEF MoveBack
<1>3. CASE \E d \in Directory : EmitterStops(d)
  BY <1>3 DEF EmitterStops
<1>4. CASE BeginPass
  BY <1>4 DEF BeginPass, BeginPassWith, Notice, Latched, News
<1>5. CASE SkipDirectory \/ EndPass \/ \E d \in Directory : ScheduleDirectory(d)
  BY <1>5 DEF SkipDirectory, ScheduleDirectory, EndPass
<1>6. CASE ReadIdentity
  BY <1>6 DEF ReadIdentity, Recover
<1>7. CASE Assess
  BY <1>7 DEF Assess, Notice, Latched, News
<1>8. CASE Deliver \/ HeartbeatFails \/ Stop \/ StopObserver
  BY <1>8 DEF Deliver, HeartbeatFails, Stop, StopObserver
<1>9. CASE UNCHANGED vars
  BY <1>9 DEF vars
<1> QED
  BY <1>1, <1>2, <1>3, <1>4, <1>5, <1>6, <1>7, <1>8, <1>9
     DEF Next, Environment, RecoveryStep

\* Only an assessment puts a heartbeat on its way.
LEMMA OnlyAssessSpeaks ==
    ASSUME Next, heartbeat = Silent, heartbeat'.state = "active"
    PROVE  Assess
<1>1. Silent.state # "active"
  BY DEF Silent
<1> QED
  BY <1>1 DEF Next, Environment, RecoveryStep, DeleteDirectory, MakeDirectory, MoveAway,
              MoveBack, Change, EmitterStops, BeginPass, BeginPassWith, SkipDirectory,
              ScheduleDirectory, ReadIdentity, EndPass, Deliver, HeartbeatFails, Stop,
              StopObserver, losses, threads

\* However short a loss is and whoever noticed it, an assessment that saw it comes
\* before the next "active", as long as a directory whose loss was noticed does not
\* come back by itself.
THEOREM NoLossIsHidden ==
    ASSUME MayReturn = FALSE
    PROVE  Spec => ActiveHidesNoLoss
<1>1. Init => LatchInv
  BY DEF Init, LatchInv
<1>2. LatchInv /\ [Next]_vars => LatchInv'
  BY LatchInvKept
<1>3. LatchInv /\ [Next]_vars =>
        [heartbeat = Silent /\ heartbeat'.state = "active" => unassessed' = {}]_vars
  <2> SUFFICES ASSUME LatchInv, Next, heartbeat = Silent, heartbeat'.state = "active"
               PROVE  unassessed' = {}
    OBVIOUS
  <2>1. Assess
    BY OnlyAssessSpeaks
  <2>2. Lost = {} /\ Latched = {}
    BY <2>1 DEF Assess
  <2> QED
    BY <2>1, <2>2 DEF Assess, LatchInv, Latched, News
<1> QED
  BY <1>1, <1>2, <1>3, PTL DEF Spec, ActiveHidesNoLoss

-----------------------------------------------------------------------------
(* "Active" means watched *)

\* At an assessment that says "active" each path holds the directory its emitter watches,
\* but for one that was replaced between schedule and the read of its identity.
THEOREM ActiveIsWatched == Spec => ActiveMeansWatched
<1>1. TypeInv /\ [Next]_vars =>
        [heartbeat = Silent /\ heartbeat'.state = "active" =>
            \A d \in Directory :
                /\ d \in DOMAIN emitter
                /\ at[d] = emitter[d].inode \/ identity[d] # emitter[d].inode]_vars
  <2> SUFFICES ASSUME TypeInv, Next, heartbeat = Silent, heartbeat'.state = "active",
                      NEW d \in Directory
               PROVE  /\ d \in DOMAIN emitter
                      /\ at[d] = emitter[d].inode \/ identity[d] # emitter[d].inode
    OBVIOUS
  <2>1. Assess
    BY OnlyAssessSpeaks
  <2>2. Lost = {} /\ unwatched = <<>> /\ ~pass.busy
    BY <2>1 DEF Assess
  <2>3. d \in DOMAIN emitter
    BY <2>2, EmptyList DEF TypeInv, TypeOK
  <2>4. at[d] = identity[d]
    BY <2>2, <2>3 DEF Lost
  <2> QED
    BY <2>3, <2>4
<1> QED
  BY <1>1, InitialTypes, TypeInvKept, PTL DEF Spec, ActiveMeansWatched
===============================================================================
