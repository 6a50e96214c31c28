-------------------------- MODULE EventDeliveryProofs --------------------------
(***************************************************************************)
(* Theorems about EventDelivery, for every set of events and all limits:   *)
(* the types and the price of at-least-once, with and without rollbacks;   *)
(* at-least-once itself, the order of the queue and the refinement of      *)
(* EventQueue as long as SQLite gives no transaction up.                   *)
(***************************************************************************)
EXTENDS EventDelivery, TLAPS, FiniteSetTheorems

LEMMA MembersAppend ==
    ASSUME NEW S, NEW s \in Seq(S), NEW e \in S
    PROVE  /\ Append(s, e) \in Seq(S) /\ Len(Append(s, e)) = Len(s) + 1
           /\ ToSet(Append(s, e)) = ToSet(s) \cup {e}
<1>1. DOMAIN Append(s, e) = DOMAIN s \cup {Len(s) + 1}
  OBVIOUS
<1>2. Append(s, e)[Len(s) + 1] = e /\ \A i \in DOMAIN s : Append(s, e)[i] = s[i]
  OBVIOUS
<1>3. QED
  BY <1>1, <1>2 DEF ToSet

LEMMA MembersCut ==
    ASSUME NEW S, NEW s \in Seq(S), NEW m \in 0..Len(s)
    PROVE  /\ SubSeq(s, 1, m) \in Seq(S) /\ SubSeq(s, m + 1, Len(s)) \in Seq(S)
           /\ Len(SubSeq(s, 1, m)) = m
           /\ Len(SubSeq(s, m + 1, Len(s))) = Len(s) - m
           /\ ToSet(s) = ToSet(SubSeq(s, 1, m)) \cup ToSet(SubSeq(s, m + 1, Len(s)))
<1> DEFINE l == SubSeq(s, 1, m)  r == SubSeq(s, m + 1, Len(s))
<1>1. /\ l \in Seq(S) /\ DOMAIN l = 1..m /\ Len(l) = m
      /\ \A i \in 1..m : l[i] = s[i]
  OBVIOUS
<1>2. /\ r \in Seq(S) /\ DOMAIN r = 1..(Len(s) - m) /\ Len(r) = Len(s) - m
      /\ \A i \in 1..(Len(s) - m) : r[i] = s[m + i]
  OBVIOUS
<1>3. Len(s) \in Nat /\ DOMAIN s = 1..Len(s) /\ m \in Nat /\ m <= Len(s)
  OBVIOUS
<1> HIDE DEF l, r
<1>4. \A i \in DOMAIN l : i \in DOMAIN s /\ l[i] = s[i]
  BY <1>1, <1>3
<1>5. \A i \in DOMAIN r : m + i \in DOMAIN s /\ r[i] = s[m + i]
  BY <1>2, <1>3
<1>6. \A i \in DOMAIN s : \/ i \in DOMAIN l /\ l[i] = s[i]
                          \/ i - m \in DOMAIN r /\ r[i - m] = s[i]
  BY <1>1, <1>2, <1>3
<1>7. ToSet(s) = ToSet(l) \cup ToSet(r)
  BY <1>4, <1>5, <1>6 DEF ToSet
<1>8. QED
  BY <1>1, <1>2, <1>7 DEF l, r

LEMMA EmptyIffNoItems ==
    ASSUME NEW S, NEW s \in Seq(S)
    PROVE  s = <<>> <=> Len(s) = 0
OBVIOUS

\* Removing one item leaves the others.
LEMMA MembersRemoveAt ==
    ASSUME NEW S, NEW s \in Seq(S), NEW k \in DOMAIN s
    PROVE  /\ RemoveAt(s, k) \in Seq(S) /\ Len(RemoveAt(s, k)) <= Len(s)
           /\ ToSet(RemoveAt(s, k)) \subseteq ToSet(s)
           /\ ToSet(s) \subseteq ToSet(RemoveAt(s, k)) \cup {s[k]}
<1> DEFINE l == SubSeq(s, 1, k - 1)  r == SubSeq(s, k + 1, Len(s))  t == l \o r
<1>1. /\ k - 1 \in 0..Len(s) /\ k \in 0..Len(s) /\ k - 1 + 1 = k
      /\ DOMAIN s = 1..Len(s) /\ Len(s) \in Nat
  OBVIOUS
<1>2. /\ l \in Seq(S) /\ Len(l) = k - 1
      /\ ToSet(s) = ToSet(l) \cup ToSet(SubSeq(s, k, Len(s)))
  <2>1. /\ SubSeq(s, 1, k - 1) \in Seq(S) /\ Len(SubSeq(s, 1, k - 1)) = k - 1
        /\ ToSet(s) = ToSet(SubSeq(s, 1, k - 1)) \cup ToSet(SubSeq(s, k - 1 + 1, Len(s)))
    BY <1>1, MembersCut
  <2>2. QED  BY <2>1, <1>1
<1>3. /\ r \in Seq(S) /\ Len(r) = Len(s) - k
      /\ ToSet(s) = ToSet(SubSeq(s, 1, k)) \cup ToSet(r)
  BY <1>1, MembersCut
<1>4. /\ SubSeq(s, 1, k) \in Seq(S) /\ Len(SubSeq(s, 1, k)) = k
      /\ \A i \in 1..k : SubSeq(s, 1, k)[i] = s[i]
  OBVIOUS
<1>5. \A i \in 1..(k - 1) : l[i] = s[i]
  BY <1>1
<1>6. ToSet(SubSeq(s, 1, k)) \subseteq ToSet(l) \cup {s[k]}
  <2>1. DOMAIN SubSeq(s, 1, k) = 1..k /\ DOMAIN l = 1..(k - 1)
    BY <1>2, <1>4
  <2>2. \A i \in 1..k : i = k \/ i \in 1..(k - 1)
    BY <1>1
  <2> HIDE DEF l
  <2>3. QED  BY <2>1, <2>2, <1>4, <1>5 DEF ToSet
<1> HIDE DEF l, r
<1>7. /\ t \in Seq(S) /\ Len(t) = Len(l) + Len(r) /\ DOMAIN t = 1..(Len(l) + Len(r))
      /\ \A i \in 1..Len(l) : t[i] = l[i]
      /\ \A i \in 1..Len(r) : t[Len(l) + i] = r[i]
  <2>1. l \in Seq(S) /\ r \in Seq(S)
    BY <1>2, <1>3
  <2>2. QED  BY <2>1
<1>8. DOMAIN l = 1..Len(l) /\ DOMAIN r = 1..Len(r) /\ Len(l) \in Nat /\ Len(r) \in Nat
  BY <1>2, <1>3
<1> HIDE DEF t
<1>9. ToSet(t) = ToSet(l) \cup ToSet(r)
  <2>1. ASSUME NEW i \in DOMAIN t
        PROVE  t[i] \in ToSet(l) \cup ToSet(r)
    <3>1. CASE i <= Len(l)
      <4>1. i \in DOMAIN l /\ t[i] = l[i]
        BY <3>1, <1>7, <1>8
      <4>2. QED  BY <4>1 DEF ToSet
    <3>2. CASE i > Len(l)
      <4>1. i - Len(l) \in DOMAIN r /\ Len(l) + (i - Len(l)) = i
        BY <3>2, <1>7, <1>8
      <4>2. t[i] = r[i - Len(l)]
        BY <4>1, <1>7, <1>8
      <4>3. QED  BY <4>1, <4>2 DEF ToSet
    <3>3. QED
      BY <3>1, <3>2, <1>7, <1>8
  <2>2. \A i \in DOMAIN l : i \in DOMAIN t /\ t[i] = l[i]
    BY <1>7, <1>8
  <2>3. \A i \in DOMAIN r : Len(l) + i \in DOMAIN t /\ t[Len(l) + i] = r[i]
    BY <1>7, <1>8
  <2>4. ToSet(l) \subseteq ToSet(t) /\ ToSet(r) \subseteq ToSet(t)
    BY <2>2, <2>3 DEF ToSet
  <2>5. QED
    BY <2>1, <2>4 DEF ToSet
<1>10. RemoveAt(s, k) = t
  BY DEF RemoveAt, t, l, r
<1>11. Len(t) <= Len(s)
  BY <1>1, <1>2, <1>3, <1>7
<1>12. QED
  BY <1>2, <1>3, <1>6, <1>7, <1>9, <1>10, <1>11

-----------------------------------------------------------------------------
(* Databases *)

DbOK(db) ==
    /\ db \in Database
    /\ \A r, q \in ToSet(db.rows) : r.id <= db.lastId /\ (r.id = q.id => r = q)

\* What enqueue may do to a database: ids are new, and an event that loses its row
\* is evicted.
Follows(new, db) ==
    /\ DbOK(new)
    /\ db.lastId <= new.lastId
    /\ \A r \in ToSet(new.rows) : r \in ToSet(db.rows) \/ r.id > db.lastId
    /\ EventsOf(db.rows) \cup db.evicted \subseteq EventsOf(new.rows) \cup new.evicted

LEMMA RowsType ==
    ASSUME NEW s \in Seq(Row)
    PROVE  /\ \A r \in ToSet(s) : r \in Row /\ r.id \in Nat /\ r.event \in Event
           /\ EventsOf(s) \subseteq Event
<1>1. \A r \in ToSet(s) : r \in Row
  BY DEF ToSet
<1>2. QED
  BY <1>1 DEF Row, EventsOf

LEMMA FollowsItself ==
    ASSUME NEW db, DbOK(db)
    PROVE  Follows(db, db)
<1>1. db.lastId \in Nat
  BY DEF DbOK, Database
<1>2. QED
  BY <1>1 DEF Follows, DbOK

\* AUTOINCREMENT: the new row has an id no row ever had.
LEMMA InsertFollows ==
    ASSUME NEW db, NEW e \in Event, DbOK(db)
    PROVE  /\ Follows(Insert(db, e), db)
           /\ e \in EventsOf(Insert(db, e).rows)
           /\ Len(Insert(db, e).rows) = Len(db.rows) + 1
           /\ ToSet(Insert(db, e).rows) =
                 ToSet(db.rows) \cup {[id |-> db.lastId + 1, event |-> e]}
           /\ Insert(db, e).evicted = db.evicted
<1> DEFINE new == Insert(db, e)
<1>0. PICK row : row = [id |-> db.lastId + 1, event |-> e]
  OBVIOUS
<1>1. /\ db \in Database /\ db.rows \in Seq(Row) /\ db.lastId \in Nat
      /\ db.evicted \in SUBSET Event
  BY DEF DbOK, Database
<1>2. row \in Row /\ row.id = db.lastId + 1 /\ row.event = e
  BY <1>0, <1>1 DEF Row
<1>3. /\ new.rows = Append(db.rows, row) /\ new.lastId = db.lastId + 1
      /\ new.evicted = db.evicted
      /\ new = [rows |-> Append(db.rows, row), lastId |-> db.lastId + 1,
                evicted |-> db.evicted]
  <2>1. PICK list, next : list = Append(db.rows, row) /\ next = db.lastId + 1
    OBVIOUS
  <2>2. PICK mid : mid = [db EXCEPT !.rows = list]
    OBVIOUS
  <2>3. mid = [rows |-> list, lastId |-> db.lastId, evicted |-> db.evicted]
    BY <1>1, <2>2 DEF Database
  <2>4. new = [mid EXCEPT !.lastId = next]
    BY <1>0, <2>1, <2>2 DEF Insert
  <2>5. new = [rows |-> list, lastId |-> next, evicted |-> db.evicted]
    BY <2>3, <2>4
  <2>6. QED
    BY <2>1, <2>5
<1> HIDE DEF new
<1>4. /\ new.rows \in Seq(Row) /\ Len(new.rows) = Len(db.rows) + 1
      /\ ToSet(new.rows) = ToSet(db.rows) \cup {row}
  BY <1>1, <1>2, <1>3, MembersAppend
<1>5. new \in Database
  BY <1>1, <1>3, <1>4 DEF Database
<1>6. \A r \in ToSet(db.rows) : r.id \in Nat /\ r.id <= db.lastId
  BY <1>1, RowsType DEF DbOK
<1>7. ASSUME NEW r \in ToSet(new.rows), NEW q \in ToSet(new.rows)
      PROVE  r.id <= new.lastId /\ (r.id = q.id => r = q)
  <2>1. (r \in ToSet(db.rows) \/ r = row) /\ (q \in ToSet(db.rows) \/ q = row)
    BY <1>4
  <2>2. r \in ToSet(db.rows) /\ q \in ToSet(db.rows) => (r.id = q.id => r = q)
    BY DEF DbOK
  <2>3. QED
    BY <2>1, <2>2, <1>1, <1>2, <1>3, <1>6
<1>8. DbOK(new)
  BY <1>5, <1>7 DEF DbOK
<1>9. /\ EventsOf(new.rows) = EventsOf(db.rows) \cup {e}
      /\ \A r \in ToSet(new.rows) : r \in ToSet(db.rows) \/ r.id > db.lastId
  BY <1>1, <1>2, <1>4 DEF EventsOf
<1>10. Follows(new, db)
  BY <1>1, <1>3, <1>8, <1>9 DEF Follows
<1>11. QED
  BY <1>0, <1>3, <1>4, <1>9, <1>10 DEF new

LEMMA EvictFollows ==
    ASSUME NEW db, DbOK(db)
    PROVE  /\ Follows(EvictOldestIfFull(db), db)
           /\ Len(EvictOldestIfFull(db).rows) <= MaxEvents
           /\ ToSet(EvictOldestIfFull(db).rows) \subseteq ToSet(db.rows)
           /\ db.evicted \subseteq EvictOldestIfFull(db).evicted
           /\ EvictOldestIfFull(db).evicted \subseteq db.evicted \cup EventsOf(db.rows)
<1> DEFINE overflow == Len(db.rows) - MaxEvents  new == EvictOldestIfFull(db)
<1>1. /\ db \in Database /\ db.rows \in Seq(Row) /\ db.lastId \in Nat
      /\ db.evicted \in SUBSET Event /\ Len(db.rows) \in Nat
      /\ MaxEvents \in Nat
  BY DeliveryAssumption DEF DbOK, Database
<1>2. CASE overflow <= 0
  <2>1. new = db
    BY <1>2 DEF EvictOldestIfFull
  <2>2. QED
    BY <1>1, <1>2, <2>1, FollowsItself
<1>3. CASE ~(overflow <= 0)
  <2> DEFINE gone == SubSeq(db.rows, 1, overflow)
             kept == SubSeq(db.rows, overflow + 1, Len(db.rows))
  <2>1. overflow \in 0..Len(db.rows) /\ Len(db.rows) - overflow = MaxEvents
    BY <1>1, <1>3
  <2>2. /\ new.rows = kept /\ new.lastId = db.lastId
        /\ new.evicted = db.evicted \cup EventsOf(gone)
        /\ new = [rows |-> kept, lastId |-> db.lastId,
                  evicted |-> db.evicted \cup EventsOf(gone)]
    BY <1>1, <1>3 DEF EvictOldestIfFull, Database
  <2> HIDE DEF overflow, new
  <2>3. /\ gone \in Seq(Row) /\ kept \in Seq(Row)
        /\ Len(kept) = Len(db.rows) - overflow
        /\ ToSet(db.rows) = ToSet(gone) \cup ToSet(kept)
    BY <1>1, <2>1, MembersCut
  <2> HIDE DEF gone, kept
  <2>4. EventsOf(gone) \subseteq Event
    BY <2>3, RowsType
  <2>5. new \in Database
    BY <1>1, <2>2, <2>3, <2>4 DEF Database
  <2>6. DbOK(new)
    BY <2>2, <2>3, <2>5 DEF DbOK
  <2>7. /\ \A r \in ToSet(new.rows) : r \in ToSet(db.rows)
        /\ EventsOf(db.rows) \subseteq EventsOf(new.rows) \cup EventsOf(gone)
    BY <2>2, <2>3 DEF EventsOf
  <2>8. db.lastId <= new.lastId
    BY <1>1, <2>2
  <2>9. Follows(new, db)
    BY <2>2, <2>6, <2>7, <2>8 DEF Follows
  <2>10. Len(new.rows) <= MaxEvents
    BY <1>1, <2>1, <2>2, <2>3
  <2>11. /\ ToSet(new.rows) \subseteq ToSet(db.rows) /\ db.evicted \subseteq new.evicted
         /\ new.evicted \subseteq db.evicted \cup EventsOf(db.rows)
    BY <2>2, <2>3 DEF EventsOf
  <2>12. QED
    BY <2>9, <2>10, <2>11 DEF new
<1>4. QED
  BY <1>2, <1>3

LEMMA FollowsTransitive ==
    ASSUME NEW a, NEW b, NEW c, DbOK(a), Follows(b, a), Follows(c, b)
    PROVE  Follows(c, a)
<1>1. a.lastId \in Nat /\ b.lastId \in Nat /\ c.lastId \in Nat
  BY DEF Follows, DbOK, Database
<1>2. \A r \in ToSet(c.rows) : r.id \in Nat
  <2>1. c.rows \in Seq(Row)
    BY DEF Follows, DbOK, Database
  <2>2. QED
    BY <2>1, RowsType
<1>3. DbOK(c) /\ a.lastId <= c.lastId
  BY <1>1 DEF Follows
<1>4. \A r \in ToSet(c.rows) : r \in ToSet(a.rows) \/ r.id > a.lastId
  <2> TAKE r \in ToSet(c.rows)
  <2>1. r \in ToSet(b.rows) \/ r.id > b.lastId
    BY DEF Follows
  <2>2. r \in ToSet(b.rows) => r \in ToSet(a.rows) \/ r.id > a.lastId
    BY DEF Follows
  <2>3. a.lastId <= b.lastId
    BY DEF Follows
  <2>4. QED
    BY <1>1, <1>2, <2>1, <2>2, <2>3
<1>5. EventsOf(a.rows) \cup a.evicted \subseteq EventsOf(c.rows) \cup c.evicted
  BY DEF Follows
<1>6. QED
  BY <1>3, <1>4, <1>5 DEF Follows

\* mark_sent: no other row goes.
LEMMA DeleteKeepsOthers ==
    ASSUME NEW db, NEW id, DbOK(db)
    PROVE  /\ DbOK(Delete(db, id))
           /\ Len(Delete(db, id).rows) <= Len(db.rows)
           /\ Delete(db, id).lastId = db.lastId
           /\ Delete(db, id).evicted = db.evicted
           /\ ToSet(Delete(db, id).rows) \subseteq ToSet(db.rows)
           /\ \A r \in ToSet(db.rows) : r.id # id => r \in ToSet(Delete(db, id).rows)
<1> DEFINE new == Delete(db, id)
<1>1. /\ db \in Database /\ db.rows \in Seq(Row) /\ db.lastId \in Nat
      /\ db.evicted \in SUBSET Event /\ Len(db.rows) \in Nat
  BY DEF DbOK, Database
<1>2. CASE ~\E i \in DOMAIN db.rows : db.rows[i].id = id
  <2>1. new = db
    BY <1>2 DEF Delete
  <2>2. QED
    BY <1>1, <2>1
<1>3. CASE \E i \in DOMAIN db.rows : db.rows[i].id = id
  <2>1. PICK k : k = CHOOSE i \in DOMAIN db.rows : db.rows[i].id = id
    OBVIOUS
  <2>2. k \in DOMAIN db.rows /\ db.rows[k].id = id
    BY <1>3, <2>1
  <2>3. /\ new.rows = RemoveAt(db.rows, k) /\ new.lastId = db.lastId
        /\ new.evicted = db.evicted
        /\ new = [rows |-> RemoveAt(db.rows, k), lastId |-> db.lastId,
                  evicted |-> db.evicted]
    BY <1>1, <1>3, <2>1 DEF Delete, Database
  <2> HIDE DEF new
  <2>4. /\ new.rows \in Seq(Row) /\ Len(new.rows) <= Len(db.rows)
        /\ ToSet(new.rows) \subseteq ToSet(db.rows)
        /\ ToSet(db.rows) \subseteq ToSet(new.rows) \cup {db.rows[k]}
    BY <1>1, <2>2, <2>3, MembersRemoveAt
  <2>5. new \in Database
    BY <1>1, <2>3, <2>4 DEF Database
  <2>6. DbOK(new)
    BY <2>3, <2>4, <2>5 DEF DbOK
  <2>7. \A r \in ToSet(db.rows) : r.id # id => r \in ToSet(new.rows)
    BY <2>2, <2>4
  <2>8. QED
    BY <2>3, <2>4, <2>6, <2>7 DEF new
<1>4. QED
  BY <1>2, <1>3

-----------------------------------------------------------------------------
(* Types *)

\* TypeOK is inductive once it speaks of the committed rows too.
TypeInv ==
    /\ TypeOK
    /\ Len(disk.rows) <= MaxEvents + faults
    /\ DbOK(disk) /\ DbOK(conn)

LEMMA TypeFacts ==
    ASSUME TypeInv
    PROVE  /\ faults \in Nat /\ MaxEvents \in Nat \ {0} /\ BatchSize \in Nat \ {0}
           /\ MaxEmitAttempts \in Nat \ {0} /\ MaxFaults \in Nat
           /\ conn.rows \in Seq(Row) /\ Len(conn.rows) \in Nat
           /\ disk.rows \in Seq(Row) /\ Len(disk.rows) \in Nat
           /\ conn.lastId \in Nat
BY DeliveryAssumption DEF TypeInv, TypeOK, Database

LEMMA FaultType ==
    ASSUME TypeInv, Fault
    PROVE  faults' \in 0..MaxFaults /\ faults' = faults + 1
BY TypeFacts DEF TypeInv, TypeOK, Fault

\* The three states enqueue takes the connection through.
LEMMA EnqueueStages ==
    ASSUME TypeInv, NEW e \in Event,
           NEW db \in {conn, Insert(conn, e), EvictOldestIfFull(Insert(conn, e))}
    PROVE  /\ Follows(db, conn)
           /\ Len(db.rows) <= MaxEvents + faults + 1
           /\ db = EvictOldestIfFull(Insert(conn, e)) =>
                 /\ Len(db.rows) <= MaxEvents
                 /\ e \in EventsOf(db.rows) \cup db.evicted
<1> DEFINE mid == Insert(conn, e)  new == EvictOldestIfFull(mid)
<1>1. DbOK(conn) /\ Len(conn.rows) <= MaxEvents + faults
  BY DEF TypeInv, TypeOK
<1>2. /\ Follows(mid, conn) /\ e \in EventsOf(mid.rows)
      /\ Len(mid.rows) = Len(conn.rows) + 1
  BY <1>1, InsertFollows
<1>3. DbOK(mid)
  BY <1>2 DEF Follows
<1>4. Follows(new, mid) /\ Len(new.rows) <= MaxEvents
  BY <1>3, EvictFollows
<1>5. Follows(new, conn)
  BY <1>1, <1>2, <1>4, FollowsTransitive
<1>6. e \in EventsOf(new.rows) \cup new.evicted
  BY <1>2, <1>4 DEF Follows
<1>7. Follows(conn, conn)
  BY <1>1, FollowsItself
<1>8. /\ Len(conn.rows) <= MaxEvents + faults + 1
      /\ Len(mid.rows) <= MaxEvents + faults + 1
      /\ Len(new.rows) <= MaxEvents => Len(new.rows) <= MaxEvents + faults + 1
  <2>1. Len(new.rows) \in Nat
    BY <1>5 DEF Follows, DbOK, Database
  <2> HIDE DEF new, mid
  <2>2. QED
    BY <1>1, <1>2, <2>1, TypeFacts, SMTT(30)
<1> HIDE DEF mid, new
<1>9. db \in {conn, mid, new}
  BY DEF mid, new
<1>10. QED
  BY <1>2, <1>4, <1>5, <1>6, <1>7, <1>8, <1>9 DEF mid, new

\* Where a call that raised leaves the connection.
LEMMA RaiseOutcome ==
    ASSUME NEW partial, Raise(partial)
    PROVE  conn' \in partial \/ (RollsBack /\ conn' = disk)
BY DEF Raise

\* What every step preserves: conn' and disk' are well-formed and short enough.
LEMMA TypeInvFrom ==
    ASSUME TypeInv,
           faults' \in 0..MaxFaults, disk' \in {disk, conn'}, faults' >= faults,
           DbOK(conn'), Len(conn'.rows) <= MaxEvents + faults',
           attempts' \in [Event -> 0..MaxEmitAttempts], accepted' \subseteq Event,
           batch' \in Seq(Row),
           phase' \in {"idle", "send", "sent", "rejected", "failed"},
           batch' = <<>> <=> phase' = "idle",
           copies' \in [Event -> Nat], rejected' \subseteq Event
    PROVE  TypeInv'
<1>1. DbOK(disk') /\ Len(disk'.rows) <= MaxEvents + faults'
  <2>1. CASE disk' = conn'
    BY <2>1
  <2>2. CASE disk' = disk
    <3>1. Len(disk'.rows) \in Nat /\ Len(disk'.rows) <= MaxEvents + faults
      BY <2>2, TypeFacts DEF TypeInv
    <3>2. DbOK(disk')
      BY <2>2 DEF TypeInv
    <3>3. QED
      BY <3>1, <3>2, TypeFacts
  <2>3. QED
    BY <2>1, <2>2
<1>2. conn' \in Database /\ disk' \in Database
  BY <1>1 DEF DbOK
<1>3. TypeOK'
  BY <1>2 DEF TypeOK
<1>4. DbOK(disk)' /\ DbOK(conn)'
  BY <1>1 DEF DbOK
<1>5. QED
  BY <1>1, <1>3, <1>4 DEF TypeInv

LEMMA EmitTypes ==
    ASSUME TypeInv, NEW e \in Event, Emit(e)
    PROVE  TypeInv'
<1>1. /\ batch' = batch /\ phase' = phase /\ copies' = copies /\ rejected' = rejected
      /\ batch \in Seq(Row) /\ (batch = <<>> <=> phase = "idle")
      /\ phase \in {"idle", "send", "sent", "rejected", "failed"}
      /\ copies \in [Event -> Nat] /\ rejected \subseteq Event
      /\ attempts \in [Event -> 0..MaxEmitAttempts] /\ accepted \subseteq Event
      /\ faults \in 0..MaxFaults /\ Len(conn.rows) <= MaxEvents + faults
      /\ DbOK(conn) /\ DbOK(disk) /\ Len(disk.rows) <= MaxEvents + faults
  BY DEF Emit, server, TypeInv, TypeOK
<1>2. CASE Enqueue(e)
  <2>1. /\ conn' = EvictOldestIfFull(Insert(conn, e)) /\ disk' = conn' /\ faults' = faults
        /\ accepted' = accepted \cup {e} /\ attempts' = attempts
    BY <1>2 DEF Enqueue, Commit
  <2>2. Follows(conn', conn) /\ Len(conn'.rows) <= MaxEvents
    BY <2>1, EnqueueStages
  <2>3. DbOK(conn') /\ Len(conn'.rows) \in Nat
    BY <2>2 DEF Follows, DbOK, Database
  <2>4. Len(conn'.rows) <= MaxEvents + faults' /\ faults' >= faults
    BY <2>1, <2>2, <2>3, TypeFacts
  <2>5. QED
    BY <1>1, <2>1, <2>3, <2>4, TypeInvFrom
<1>3. CASE EnqueueRaises(e)
  <2>1. /\ Raise({conn, Insert(conn, e), EvictOldestIfFull(Insert(conn, e))})
        /\ attempts' = [attempts EXCEPT ![e] = @ + 1] /\ accepted' = accepted
    BY <1>3 DEF EnqueueRaises
  <2>2. faults' \in 0..MaxFaults /\ faults' = faults + 1 /\ disk' = disk
    BY <2>1, FaultType DEF Raise
  <2>3. DbOK(conn') /\ Len(conn'.rows) <= MaxEvents + faults + 1
    <3>1. CASE conn' \in {conn, Insert(conn, e), EvictOldestIfFull(Insert(conn, e))}
      BY <3>1, EnqueueStages DEF Follows
    <3>2. CASE conn' = disk
      BY <3>2, <1>1, TypeFacts
    <3>3. QED
      BY <3>1, <3>2, <2>1, RaiseOutcome
  <2>4. Len(conn'.rows) <= MaxEvents + faults' /\ faults' >= faults
    BY <2>2, <2>3, TypeFacts
  <2>5. attempts' \in [Event -> 0..MaxEmitAttempts]
    <3>1. attempts[e] \in 0..MaxEmitAttempts /\ attempts[e] < MaxEmitAttempts
      BY <1>1 DEF Emit, Offered
    <3>2. attempts[e] + 1 \in 0..MaxEmitAttempts
      BY <3>1, TypeFacts
    <3>3. QED
      BY <1>1, <2>1, <3>2
  <2>6. QED
    BY <1>1, <2>1, <2>2, <2>3, <2>4, <2>5, TypeInvFrom
<1>4. QED
  BY <1>2, <1>3 DEF Emit

\* The dispatcher and a restart leave the rows as they are.
LEMMA PeekTypes ==
    ASSUME TypeInv, PeekBatch
    PROVE  TypeInv' /\ ToSet(batch') \subseteq ToSet(conn.rows)
<1> DEFINE n == IF Len(conn.rows) < BatchSize THEN Len(conn.rows) ELSE BatchSize
<1>1. /\ conn.rows # <<>> /\ batch' = SubSeq(conn.rows, 1, n) /\ phase' = "send"
      /\ UNCHANGED <<disk, conn, producer, server, faults>>
  BY DEF PeekBatch
<1>2. n \in 1..Len(conn.rows)
  BY <1>1, TypeFacts
<1> HIDE DEF n
<1>3. /\ batch' \in Seq(Row) /\ Len(batch') = n
      /\ ToSet(batch') \subseteq ToSet(conn.rows)
  <2>1. conn.rows \in Seq(Row) /\ n \in 0..Len(conn.rows)
    BY <1>2, TypeFacts
  <2>2. QED
    BY <1>1, <2>1, MembersCut
<1>4. batch' # <<>>
  BY <1>2, <1>3
<1>5. TypeInv'
  BY <1>1, <1>3, <1>4 DEF TypeInv, TypeOK, DbOK, producer, server
<1>6. QED
  BY <1>3, <1>5

LEMMA BatchFacts ==
    ASSUME TypeInv, phase # "idle"
    PROVE  /\ batch \in Seq(Row) /\ batch # <<>> /\ Head(batch) \in Row
           /\ Head(batch) \in ToSet(batch) /\ Head(batch).event \in Event
<1>1. batch \in Seq(Row) /\ batch # <<>>
  BY DEF TypeInv, TypeOK
<1>2. Head(batch) \in Row /\ Head(batch) = batch[1] /\ 1 \in DOMAIN batch
  BY <1>1
<1>3. QED
  BY <1>1, <1>2 DEF ToSet, Row

\* Proceed and Finish keep the batch a tail of what was peeked.
LEMMA BatchEnds ==
    ASSUME TypeInv, phase # "idle", Proceed \/ Finish
    PROVE  /\ batch' \in Seq(Row) /\ ToSet(batch') \subseteq ToSet(batch)
           /\ phase' \in {"idle", "send"}
           /\ batch' = <<>> <=> phase' = "idle"
<1>1. batch \in Seq(Row) /\ batch # <<>>
  BY BatchFacts
<1>2. CASE Finish
  <2>1. batch' = <<>> /\ phase' = "idle"
    BY <1>2 DEF Finish
  <2>2. ToSet(batch') \subseteq ToSet(batch) /\ batch' \in Seq(Row)
    BY <2>1 DEF ToSet
  <2>3. QED
    BY <2>1, <2>2
<1>3. CASE Proceed
  <2>1. batch' = Tail(batch) /\ phase' = IF Len(batch) = 1 THEN "idle" ELSE "send"
    BY <1>3 DEF Proceed
  <2>2. /\ Tail(batch) \in Seq(Row) /\ Len(Tail(batch)) = Len(batch) - 1
        /\ Len(batch) \in Nat \ {0}
        /\ \A i \in DOMAIN Tail(batch) : i + 1 \in DOMAIN batch
                                         /\ Tail(batch)[i] = batch[i + 1]
    BY <1>1
  <2>3. ToSet(Tail(batch)) \subseteq ToSet(batch)
    BY <2>2 DEF ToSet
  <2>4. Tail(batch) = <<>> <=> Len(Tail(batch)) = 0
    BY <2>2, EmptyIffNoItems
  <2>5. Len(batch) = 1 <=> Len(Tail(batch)) = 0
    BY <2>2
  <2>6. QED
    BY <2>1, <2>2, <2>3, <2>4, <2>5
<1>4. QED
  BY <1>2, <1>3

LEMMA SendTypes ==
    ASSUME TypeInv, SendSucceeds \/ SendLosesAnswer \/ SendFails \/ SendIsFatal
    PROVE  TypeInv'
<1>1. /\ phase = "send" /\ phase' \in {"sent", "failed", "rejected"}
      /\ disk' = disk /\ conn' = conn /\ batch' = batch
      /\ attempts' = attempts /\ accepted' = accepted
  BY DEF SendSucceeds, SendLosesAnswer, SendFails, SendIsFatal, Send, producer
<1>2. batch # <<>> /\ Head(batch).event \in Event
  BY <1>1, BatchFacts
<1>3. faults' \in 0..MaxFaults /\ faults' >= faults
  <2>1. faults \in 0..MaxFaults
    BY DEF TypeInv, TypeOK
  <2>2. faults' = faults \/ Fault
    BY DEF SendSucceeds, SendLosesAnswer, SendFails, SendIsFatal
  <2>3. QED
    BY <2>1, <2>2, FaultType, TypeFacts
<1>4. copies' \in [Event -> Nat] /\ rejected' \subseteq Event
  <2>1. copies \in [Event -> Nat] /\ rejected \subseteq Event
    BY DEF TypeInv, TypeOK
  <2>2. Received => copies' \in [Event -> Nat]
    BY <2>1, <1>2 DEF Received
  <2>3. QED
    BY <2>1, <2>2, <1>2
       DEF SendSucceeds, SendLosesAnswer, SendFails, SendIsFatal, server
<1>5. DbOK(conn') /\ Len(conn'.rows) <= MaxEvents + faults'
  <2>1. DbOK(conn) /\ Len(conn.rows) <= MaxEvents + faults
    BY DEF TypeInv, TypeOK
  <2>2. QED
    BY <1>1, <1>3, <2>1, TypeFacts
<1>6. QED
  BY <1>1, <1>2, <1>3, <1>4, <1>5, TypeInvFrom DEF TypeInv, TypeOK

\* What MarkSent and RecordAttempt leave: db is the connection, or SQLite gave up.
LEMMA CloseTypes ==
    ASSUME TypeInv, phase # "idle", Proceed \/ Finish, UNCHANGED <<producer, server>>,
           NEW db, DbOK(db), Len(db.rows) <= Len(conn.rows),
           Commit(db) \/ Raise({conn, db})
    PROVE  TypeInv'
<1>1. /\ batch' \in Seq(Row) /\ (batch' = <<>> <=> phase' = "idle")
      /\ phase' \in {"idle", "send", "sent", "rejected", "failed"}
  BY BatchEnds
<1>2. /\ attempts' = attempts /\ accepted' = accepted
      /\ copies' = copies /\ rejected' = rejected
  BY DEF producer, server
<1>3. /\ DbOK(conn) /\ DbOK(disk) /\ Len(conn.rows) <= MaxEvents + faults
      /\ Len(disk.rows) <= MaxEvents + faults /\ faults \in 0..MaxFaults
      /\ Len(db.rows) <= MaxEvents + faults
  <2>1. Len(db.rows) \in Nat
    BY DEF DbOK, Database
  <2>2. /\ DbOK(conn) /\ DbOK(disk) /\ Len(conn.rows) <= MaxEvents + faults
        /\ Len(disk.rows) <= MaxEvents + faults /\ faults \in 0..MaxFaults
    BY DEF TypeInv, TypeOK
  <2>3. QED
    BY <2>1, <2>2, TypeFacts
<1>4. /\ faults' \in 0..MaxFaults /\ faults' >= faults /\ disk' \in {disk, conn'}
      /\ conn' \in {db, conn, disk}
  <2>1. CASE Commit(db)
    BY <2>1, <1>3, TypeFacts DEF Commit
  <2>2. CASE Raise({conn, db})
    <3>1. faults' \in 0..MaxFaults /\ faults' = faults + 1 /\ disk' = disk
      BY <2>2, FaultType DEF Raise
    <3>2. conn' \in {db, conn, disk}
      BY <2>2, RaiseOutcome
    <3>3. QED
      BY <3>1, <3>2, TypeFacts
  <2>3. QED
    BY <2>1, <2>2
<1>5. DbOK(conn') /\ Len(conn'.rows) <= MaxEvents + faults
  BY <1>3, <1>4
<1>6. Len(conn'.rows) <= MaxEvents + faults'
  <2>1. Len(conn'.rows) \in Nat
    BY <1>5 DEF DbOK, Database
  <2>2. QED
    BY <1>4, <1>5, <2>1, TypeFacts
<1>7. /\ attempts \in [Event -> 0..MaxEmitAttempts] /\ accepted \subseteq Event
      /\ copies \in [Event -> Nat] /\ rejected \subseteq Event
  BY DEF TypeInv, TypeOK
<1>8. QED
  BY <1>1, <1>2, <1>4, <1>5, <1>6, <1>7, TypeInvFrom

LEMMA MarkSentTypes ==
    ASSUME TypeInv, MarkSent
    PROVE  TypeInv'
<1>1. /\ phase # "idle" /\ (Proceed \/ Finish) /\ UNCHANGED <<producer, server>>
      /\ \/ Commit(Delete(conn, Head(batch).id))
         \/ Raise({conn, Delete(conn, Head(batch).id)})
  BY DEF MarkSent
<1>2. DbOK(conn)
  BY DEF TypeInv
<1>3. /\ DbOK(Delete(conn, Head(batch).id))
      /\ Len(Delete(conn, Head(batch).id).rows) <= Len(conn.rows)
  BY <1>2, DeleteKeepsOthers
<1>4. QED
  BY <1>1, <1>3, CloseTypes

LEMMA RecordAttemptTypes ==
    ASSUME TypeInv, RecordAttempt
    PROVE  TypeInv'
<1>1. /\ phase # "idle" /\ Finish /\ UNCHANGED <<producer, server>>
      /\ (Commit(conn) \/ Raise({conn}))
  BY DEF RecordAttempt
<1>2. DbOK(conn) /\ Len(conn.rows) <= Len(conn.rows) /\ {conn} = {conn, conn}
  BY TypeFacts DEF TypeInv
<1>3. QED
  BY <1>1, <1>2, CloseTypes

LEMMA RestartTypes ==
    ASSUME TypeInv, Restart
    PROVE  TypeInv'
<1>1. /\ Fault /\ conn' = disk /\ disk' = disk /\ accepted' = accepted
      /\ batch' = <<>> /\ phase' = "idle" /\ copies' = copies /\ rejected' = rejected
      /\ attempts' = [e \in Event |-> IF attempts[e] > 0 THEN MaxEmitAttempts ELSE 0]
  BY DEF Restart, Finish, server
<1>2. faults' \in 0..MaxFaults /\ faults' = faults + 1
  BY <1>1, FaultType
<1>3. attempts' \in [Event -> 0..MaxEmitAttempts]
  BY <1>1, TypeFacts
<1>4. DbOK(disk) /\ Len(disk.rows) <= MaxEvents + faults
  BY DEF TypeInv
<1>5. Len(conn'.rows) <= MaxEvents + faults' /\ faults' >= faults
  BY <1>1, <1>2, <1>4, TypeFacts
<1>6. QED
  BY <1>1, <1>2, <1>3, <1>4, <1>5, TypeInvFrom DEF TypeInv, TypeOK

LEMMA TypeStep ==
    ASSUME TypeInv, [Next]_vars
    PROVE  TypeInv'
<1>1. ASSUME NEW e \in Event, Emit(e)
      PROVE  TypeInv'
  BY <1>1, EmitTypes
<1>2. CASE DispatcherStep
  BY <1>2, PeekTypes, SendTypes, MarkSentTypes, RecordAttemptTypes DEF DispatcherStep
<1>3. CASE Restart
  BY <1>3, RestartTypes
<1>4. CASE UNCHANGED vars
  BY <1>4 DEF vars, producer, server, TypeInv, TypeOK, DbOK
<1>5. QED
  BY <1>1, <1>2, <1>3, <1>4 DEF Next

LEMMA TypeInit ==
    ASSUME Init
    PROVE  TypeInv
<1>1. EmptyDatabase.rows = <<>> /\ EmptyDatabase \in Database
  BY DEF EmptyDatabase, Database
<1>2. DbOK(EmptyDatabase)
  BY <1>1 DEF DbOK, ToSet
<1>3. disk = EmptyDatabase /\ conn = EmptyDatabase /\ faults = 0
  BY DEF Init
<1>4. Len(conn.rows) <= MaxEvents + faults /\ Len(disk.rows) <= MaxEvents + faults
  BY <1>1, <1>3, DeliveryAssumption
<1>5. attempts \in [Event -> 0..MaxEmitAttempts] /\ faults \in 0..MaxFaults
  BY DeliveryAssumption DEF Init
<1>6. QED
  BY <1>1, <1>2, <1>3, <1>4, <1>5 DEF Init, TypeInv, TypeOK

\* The variables keep their types, and the spool its bound: max_events rows and at
\* most one more for each fault.
THEOREM TypeCorrect == Spec => []TypeOK
<1>1. Init => TypeInv
  BY TypeInit
<1>2. TypeInv /\ [Next]_vars => TypeInv'
  BY TypeStep
<1>3. TypeInv => TypeOK
  BY DEF TypeInv
<1>4. QED
  BY <1>1, <1>2, <1>3, PTL DEF Spec

-----------------------------------------------------------------------------
(* At least once *)

\* AcceptedIsNotLost for one of the two views of the database.
Holds(db) ==
    \A e \in accepted :
        \/ e \in EventsOf(db.rows) \cup db.evicted
        \/ copies[e] > 0 \/ e \in rejected

\* The id of a row that is being sent belongs to no other event.
BatchIsCurrent ==
    \A b \in ToSet(batch) :
        /\ b.id <= conn.lastId
        /\ \A r \in ToSet(conn.rows) : r.id = b.id => r.event = b.event

\* mark_sent is only called for an event the server has seen.
Told ==
    /\ phase = "sent" => copies[Head(batch).event] > 0
    /\ phase = "rejected" => Head(batch).event \in rejected

\* Inductive when no transaction is given up. An early view (conn) must hold every
\* accepted event as well as the disk: the next commit makes it the disk.
LossInv ==
    /\ TypeInv
    /\ Holds(disk) /\ Holds(conn)
    /\ BatchIsCurrent /\ Told

LEMMA LossInit ==
    ASSUME Init
    PROVE  LossInv
<1>1. accepted = {} /\ batch = <<>> /\ phase = "idle"
  BY DEF Init
<1>2. Holds(disk) /\ Holds(conn) /\ BatchIsCurrent /\ Told
  BY <1>1 DEF Holds, BatchIsCurrent, Told, ToSet
<1>3. QED
  BY <1>2, TypeInit DEF LossInv

\* New rows get new ids.
LEMMA BatchStaysCurrent ==
    ASSUME TypeInv, BatchIsCurrent, batch' = batch, Follows(conn', conn)
    PROVE  BatchIsCurrent'
<1>1. conn.lastId \in Nat /\ conn'.lastId \in Nat /\ conn.lastId <= conn'.lastId
  BY TypeFacts DEF Follows, DbOK, Database
<1>2. conn'.rows \in Seq(Row) /\ batch \in Seq(Row)
  BY DEF Follows, DbOK, Database, TypeInv, TypeOK
<1>3. (\A b \in ToSet(batch) : b.id \in Nat) /\ (\A r \in ToSet(conn'.rows) : r.id \in Nat)
  BY <1>2, RowsType
<1>4. ASSUME NEW b \in ToSet(batch)
      PROVE  /\ b.id <= conn'.lastId
             /\ \A r \in ToSet(conn'.rows) : r.id = b.id => r.event = b.event
  <2>1. b.id \in Nat /\ b.id <= conn.lastId
    BY <1>3 DEF BatchIsCurrent
  <2>2. ASSUME NEW r \in ToSet(conn'.rows), r.id = b.id
        PROVE  r.event = b.event
    <3>1. r \in ToSet(conn.rows) \/ r.id > conn.lastId
      BY DEF Follows
    <3>2. r.id \in Nat /\ ~(r.id > conn.lastId)
      BY <1>1, <2>1, <2>2
    <3>3. QED
      BY <2>2, <3>1, <3>2 DEF BatchIsCurrent
  <2>3. b.id <= conn'.lastId
    BY <1>1, <2>1
  <2>4. QED
    BY <2>2, <2>3
<1>5. QED
  BY <1>4 DEF BatchIsCurrent

LEMMA EmitLosesNothing ==
    ASSUME LossInv, ~RollsBack, NEW e \in Event, Emit(e)
    PROVE  LossInv'
<1>1. /\ batch' = batch /\ phase' = phase /\ copies' = copies /\ rejected' = rejected
  BY DEF Emit, server
<1>2. TypeInv /\ TypeInv'
  BY EmitTypes DEF LossInv
<1>3. Follows(conn', conn)
  <2>1. CASE Enqueue(e)
    BY <2>1, <1>2, EnqueueStages DEF Enqueue, Commit
  <2>2. CASE EnqueueRaises(e)
    <3>1. conn' \in {conn, Insert(conn, e), EvictOldestIfFull(Insert(conn, e))}
      BY <2>2, RaiseOutcome DEF EnqueueRaises
    <3>2. QED
      BY <1>2, <3>1, EnqueueStages
  <2>3. QED
    BY <2>1, <2>2 DEF Emit
<1>4. \A x \in accepted : \/ x \in EventsOf(conn'.rows) \cup conn'.evicted
                          \/ copies'[x] > 0 \/ x \in rejected'
  BY <1>1, <1>3 DEF Follows, LossInv, Holds
<1>5. Holds(conn)' /\ Holds(disk)'
  <2>1. CASE Enqueue(e)
    <3>1. /\ conn' = EvictOldestIfFull(Insert(conn, e)) /\ disk' = conn'
          /\ accepted' = accepted \cup {e}
      BY <2>1 DEF Enqueue, Commit
    <3>2. e \in EventsOf(conn'.rows) \cup conn'.evicted
      BY <1>2, <3>1, EnqueueStages
    <3>3. QED
      BY <1>4, <3>1, <3>2 DEF Holds
  <2>2. CASE EnqueueRaises(e)
    <3>1. accepted' = accepted /\ disk' = disk
      BY <2>2 DEF EnqueueRaises, Raise
    <3>2. QED
      BY <1>1, <1>4, <3>1 DEF Holds, LossInv
  <2>3. QED
    BY <2>1, <2>2 DEF Emit
<1>6. BatchIsCurrent'
  BY <1>1, <1>2, <1>3, BatchStaysCurrent DEF LossInv
<1>7. Told'
  BY <1>1 DEF Told, LossInv
<1>8. QED
  BY <1>2, <1>5, <1>6, <1>7 DEF LossInv

LEMMA PeekLosesNothing ==
    ASSUME LossInv, PeekBatch
    PROVE  LossInv'
<1>1. TypeInv' /\ ToSet(batch') \subseteq ToSet(conn.rows)
  BY PeekTypes DEF LossInv
<1>2. /\ conn' = conn /\ disk' = disk /\ phase' = "send" /\ accepted' = accepted
      /\ copies' = copies /\ rejected' = rejected
  BY DEF PeekBatch, producer, server
<1>3. BatchIsCurrent'
  <2>1. \A r, q \in ToSet(conn.rows) : r.id <= conn.lastId /\ (r.id = q.id => r = q)
    BY DEF LossInv, TypeInv, DbOK
  <2>2. QED
    BY <1>1, <1>2, <2>1 DEF BatchIsCurrent
<1>4. Holds(disk)' /\ Holds(conn)' /\ Told'
  BY <1>2 DEF Holds, Told, LossInv
<1>5. QED
  BY <1>1, <1>3, <1>4 DEF LossInv

LEMMA SendLosesNothing ==
    ASSUME LossInv, SendSucceeds \/ SendLosesAnswer \/ SendFails \/ SendIsFatal
    PROVE  LossInv'
<1>1. /\ phase = "send" /\ disk' = disk /\ conn' = conn /\ batch' = batch
      /\ accepted' = accepted
  BY DEF SendSucceeds, SendLosesAnswer, SendFails, SendIsFatal, Send, producer
<1>2. TypeInv /\ TypeInv'
  BY SendTypes DEF LossInv
<1>3. copies \in [Event -> Nat] /\ Head(batch).event \in Event
  BY <1>1, <1>2, BatchFacts DEF TypeInv, TypeOK
<1>4. Received => /\ copies'[Head(batch).event] > 0
                  /\ \A e \in Event : copies[e] > 0 => copies'[e] > 0
  BY <1>3 DEF Received
<1>5. /\ \A e \in Event : copies[e] > 0 => copies'[e] > 0
      /\ rejected \subseteq rejected'
  BY <1>4 DEF SendSucceeds, SendLosesAnswer, SendFails, SendIsFatal, server
<1>6. accepted \subseteq Event
  BY <1>2 DEF TypeInv, TypeOK
<1>7. Holds(disk)' /\ Holds(conn)'
  BY <1>1, <1>5, <1>6 DEF Holds, LossInv
<1>8. Told'
  BY <1>1, <1>4 DEF SendSucceeds, SendLosesAnswer, SendFails, SendIsFatal, Send, Told
<1>9. BatchIsCurrent'
  BY <1>1 DEF BatchIsCurrent, LossInv
<1>10. QED
  BY <1>2, <1>7, <1>8, <1>9 DEF LossInv

\* The row that mark_sent deletes is the one the server was told about.
LEMMA DeleteLosesNothing ==
    ASSUME LossInv, phase \in {"sent", "rejected"}
    PROVE  Holds(Delete(conn, Head(batch).id))
<1> DEFINE id == Head(batch).id  new == Delete(conn, id)
<1>1. /\ new.evicted = conn.evicted
      /\ \A r \in ToSet(conn.rows) : r.id # id => r \in ToSet(new.rows)
  BY DeleteKeepsOthers DEF LossInv, TypeInv
<1>2. Head(batch) \in ToSet(batch)
  BY BatchFacts DEF LossInv
<1> HIDE DEF new
<1>3. ASSUME NEW e \in accepted
      PROVE  \/ e \in EventsOf(new.rows) \cup new.evicted
             \/ copies[e] > 0 \/ e \in rejected
  <2>1. CASE e \in EventsOf(conn.rows)
    <3>1. PICK r \in ToSet(conn.rows) : r.event = e
      BY <2>1 DEF EventsOf
    <3>2. CASE r.id = id
      <4>1. e = Head(batch).event
        BY <1>2, <3>1, <3>2 DEF LossInv, BatchIsCurrent
      <4>2. QED
        BY <4>1 DEF LossInv, Told
    <3>3. CASE r.id # id
      BY <1>1, <3>1, <3>3 DEF EventsOf
    <3>4. QED
      BY <3>2, <3>3
  <2>2. CASE e \notin EventsOf(conn.rows)
    BY <1>1, <2>2 DEF LossInv, Holds
  <2>3. QED
    BY <2>1, <2>2
<1>4. QED
  BY <1>3 DEF Holds, new

\* MarkSent and RecordAttempt, for the database they commit.
LEMMA CloseLosesNothing ==
    ASSUME LossInv, ~RollsBack, TypeInv', phase # "idle", Proceed \/ Finish,
           UNCHANGED <<producer, server>>,
           NEW db, Commit(db) \/ Raise({conn, db}), Holds(db),
           db.lastId = conn.lastId, ToSet(db.rows) \subseteq ToSet(conn.rows)
    PROVE  LossInv'
<1>1. /\ accepted' = accepted /\ copies' = copies /\ rejected' = rejected
  BY DEF producer, server
<1>2. conn' \in {conn, db} /\ disk' \in {disk, db}
  <2>1. CASE Commit(db)
    BY <2>1 DEF Commit
  <2>2. CASE Raise({conn, db})
    BY <2>2, RaiseOutcome DEF Raise
  <2>3. QED
    BY <2>1, <2>2
<1>3. Holds(conn)' /\ Holds(disk)'
  BY <1>1, <1>2 DEF Holds, LossInv
<1>4. ToSet(batch') \subseteq ToSet(batch) /\ phase' \in {"idle", "send"}
  BY BatchEnds DEF LossInv
<1>5. conn'.lastId = conn.lastId /\ ToSet(conn'.rows) \subseteq ToSet(conn.rows)
  BY <1>2
<1>6. BatchIsCurrent' /\ Told'
  BY <1>4, <1>5 DEF BatchIsCurrent, Told, LossInv
<1>7. QED
  BY <1>3, <1>6 DEF LossInv

LEMMA MarkSentLosesNothing ==
    ASSUME LossInv, ~RollsBack, MarkSent
    PROVE  LossInv'
<1>1. TypeInv /\ TypeInv'
  BY MarkSentTypes DEF LossInv
<1>2. /\ phase \in {"sent", "rejected"} /\ phase # "idle" /\ (Proceed \/ Finish)
      /\ UNCHANGED <<producer, server>>
      /\ \/ Commit(Delete(conn, Head(batch).id))
         \/ Raise({conn, Delete(conn, Head(batch).id)})
  BY DEF MarkSent
<1>3. Holds(Delete(conn, Head(batch).id))
  BY <1>2, DeleteLosesNothing
<1>4. /\ Delete(conn, Head(batch).id).lastId = conn.lastId
      /\ ToSet(Delete(conn, Head(batch).id).rows) \subseteq ToSet(conn.rows)
  BY <1>1, DeleteKeepsOthers DEF TypeInv
<1>5. QED
  BY <1>1, <1>2, <1>3, <1>4, CloseLosesNothing

LEMMA RecordAttemptLosesNothing ==
    ASSUME LossInv, ~RollsBack, RecordAttempt
    PROVE  LossInv'
<1>1. TypeInv'
  BY RecordAttemptTypes DEF LossInv
<1>2. /\ phase # "idle" /\ Finish /\ UNCHANGED <<producer, server>>
      /\ (Commit(conn) \/ Raise({conn})) /\ {conn} = {conn, conn}
  BY DEF RecordAttempt
<1>3. Holds(conn)
  BY DEF LossInv
<1>4. QED
  BY <1>1, <1>2, <1>3, CloseLosesNothing

LEMMA RestartLosesNothing ==
    ASSUME LossInv, Restart
    PROVE  LossInv'
<1>1. /\ conn' = disk /\ disk' = disk /\ accepted' = accepted
      /\ batch' = <<>> /\ phase' = "idle" /\ copies' = copies /\ rejected' = rejected
  BY DEF Restart, Finish, server
<1>2. TypeInv'
  BY RestartTypes DEF LossInv
<1>3. Holds(conn)' /\ Holds(disk)'
  BY <1>1 DEF Holds, LossInv
<1>4. BatchIsCurrent' /\ Told'
  BY <1>1 DEF BatchIsCurrent, Told, ToSet
<1>5. QED
  BY <1>2, <1>3, <1>4 DEF LossInv

LEMMA LossStep ==
    ASSUME LossInv, ~RollsBack, [Next]_vars
    PROVE  LossInv'
<1>1. ASSUME NEW e \in Event, Emit(e)
      PROVE  LossInv'
  BY <1>1, EmitLosesNothing
<1>2. CASE DispatcherStep
  BY <1>2, PeekLosesNothing, SendLosesNothing, MarkSentLosesNothing,
     RecordAttemptLosesNothing DEF DispatcherStep
<1>3. CASE Restart
  BY <1>3, RestartLosesNothing
<1>4. CASE UNCHANGED vars
  <2>1. TypeInv'
    BY TypeStep DEF LossInv
  <2>2. Holds(conn)' /\ Holds(disk)' /\ BatchIsCurrent' /\ Told'
    BY <1>4 DEF vars, producer, server, LossInv, Holds, BatchIsCurrent, Told
  <2>3. QED
    BY <2>1, <2>2 DEF LossInv
<1>5. QED
  BY <1>1, <1>2, <1>3, <1>4 DEF Next

\* At-least-once: unless SQLite gives an open transaction up, no crash, failed
\* commit, lost answer or eviction makes an accepted event disappear.
THEOREM AtLeastOnce ==
    ASSUME ~RollsBack
    PROVE  Spec => []AcceptedIsNotLost
<1>1. Init => LossInv
  BY LossInit
<1>2. LossInv /\ [Next]_vars => LossInv'
  BY LossStep
<1>3. LossInv => AcceptedIsNotLost
  BY DEF LossInv, Holds, AcceptedIsNotLost, Settled
<1>4. QED
  BY <1>1, <1>2, <1>3, PTL DEF Spec

-----------------------------------------------------------------------------
(* The order of the queue *)

Ascending(s) == \A i, j \in DOMAIN s : i < j => s[i].id < s[j].id

LEMMA AscendingAppend ==
    ASSUME NEW s \in Seq(Row), NEW row \in Row, Ascending(s), \A r \in ToSet(s) : r.id < row.id
    PROVE  Ascending(Append(s, row))
<1>1. PICK t : t = Append(s, row)
  OBVIOUS
<1>2. /\ DOMAIN t = DOMAIN s \cup {Len(s) + 1} /\ t[Len(s) + 1] = row
      /\ \A i \in DOMAIN s : t[i] = s[i] /\ i \in Nat /\ i <= Len(s)
      /\ Len(s) \in Nat
  BY <1>1
<1>3. \A i \in DOMAIN s : s[i].id < row.id
  BY DEF ToSet
<1>4. ASSUME NEW i \in DOMAIN t, NEW j \in DOMAIN t, i < j
      PROVE  t[i].id < t[j].id
  <2>1. i \in DOMAIN s
    BY <1>2, <1>4
  <2>2. CASE j \in DOMAIN s
    BY <1>2, <1>4, <2>1, <2>2 DEF Ascending
  <2>3. CASE j = Len(s) + 1
    BY <1>2, <1>3, <2>1, <2>3
  <2>4. QED
    BY <1>2, <2>2, <2>3
<1>5. QED
  BY <1>1, <1>4 DEF Ascending

LEMMA AscendingCut ==
    ASSUME NEW s \in Seq(Row), NEW m \in 1..(Len(s) + 1), NEW n \in 0..Len(s), Ascending(s)
    PROVE  Ascending(SubSeq(s, m, n))
<1>1. PICK t : t = SubSeq(s, m, n)
  OBVIOUS
<1>2. \A i \in DOMAIN t : i \in Nat /\ m - 1 + i \in DOMAIN s /\ t[i] = s[m - 1 + i]
  BY <1>1, SMTT(30)
<1>3. \A i, j \in DOMAIN t : i < j => m - 1 + i < m - 1 + j
  BY <1>2
<1>4. QED
  BY <1>1, <1>2, <1>3 DEF Ascending

LEMMA AscendingRemove ==
    ASSUME NEW s \in Seq(Row), NEW k \in DOMAIN s, Ascending(s)
    PROVE  /\ Ascending(RemoveAt(s, k))
           /\ \A r \in ToSet(RemoveAt(s, k)) : r.id # s[k].id
<1> DEFINE l == SubSeq(s, 1, k - 1)  r == SubSeq(s, k + 1, Len(s))
<1>1. k \in 1..Len(s) /\ Len(s) \in Nat /\ DOMAIN s = 1..Len(s)
  OBVIOUS
<1>2. l \in Seq(Row) /\ Len(l) = k - 1 /\ \A i \in 1..(k - 1) : l[i] = s[i]
  BY <1>1
<1>3. r \in Seq(Row) /\ Len(r) = Len(s) - k /\ \A i \in 1..(Len(s) - k) : r[i] = s[k + i]
  BY <1>1, SMTT(30)
<1>4. PICK t : t = RemoveAt(s, k) /\ t = l \o r
  BY DEF RemoveAt
<1> HIDE DEF l, r
<1>5. /\ DOMAIN t = 1..(Len(s) - 1)
      /\ \A i \in DOMAIN t : t[i] = IF i < k THEN s[i] ELSE s[i + 1]
  <2>1. /\ DOMAIN t = 1..(Len(l) + Len(r))
        /\ \A i \in DOMAIN t : t[i] = IF i <= Len(l) THEN l[i] ELSE r[i - Len(l)]
    BY <1>2, <1>3, <1>4
  <2>2. DOMAIN t = 1..(Len(s) - 1)
    BY <1>1, <1>2, <1>3, <2>1
  <2>3. ASSUME NEW i \in DOMAIN t
        PROVE  t[i] = IF i < k THEN s[i] ELSE s[i + 1]
    <3>1. CASE i < k
      BY <3>1, <1>1, <1>2, <2>1, <2>2
    <3>2. CASE ~(i < k)
      <4>1. t[i] = r[i - (k - 1)] /\ i - (k - 1) \in 1..(Len(s) - k)
        BY <3>2, <1>1, <1>2, <2>1, <2>2
      <4>2. k + (i - (k - 1)) = i + 1
        BY <1>1, <2>2
      <4>3. QED
        BY <3>2, <1>3, <4>1, <4>2
    <3>3. QED
      BY <3>1, <3>2
  <2>4. QED
    BY <2>2, <2>3
<1>6. ASSUME NEW i \in DOMAIN t
      PROVE  \E j \in DOMAIN s : j # k /\ t[i] = s[j] /\ j = IF i < k THEN i ELSE i + 1
  BY <1>1, <1>5
<1>7. ASSUME NEW i \in DOMAIN t, NEW j \in DOMAIN t, i < j
      PROVE  t[i].id < t[j].id
  <2>1. PICK a \in DOMAIN s : t[i] = s[a] /\ a = IF i < k THEN i ELSE i + 1
    BY <1>6
  <2>2. PICK b \in DOMAIN s : t[j] = s[b] /\ b = IF j < k THEN j ELSE j + 1
    BY <1>6
  <2>3. a < b
    BY <1>1, <1>5, <1>7, <2>1, <2>2
  <2>4. QED
    BY <2>1, <2>2, <2>3 DEF Ascending
<1>8. ASSUME NEW i \in DOMAIN t
      PROVE  t[i].id # s[k].id
  <2>1. PICK j \in DOMAIN s : j # k /\ t[i] = s[j]
    BY <1>6
  <2>2. j < k \/ k < j
    BY <1>1, <2>1
  <2>3. s[j].id < s[k].id \/ s[k].id < s[j].id
    BY <2>2 DEF Ascending
  <2>4. s[j].id \in Nat /\ s[k].id \in Nat
    <3>1. s[j] \in Row /\ s[k] \in Row
      OBVIOUS
    <3>2. QED
      BY <3>1 DEF Row
  <2>5. QED
    BY <2>1, <2>3, <2>4
<1>9. QED
  BY <1>4, <1>7, <1>8 DEF Ascending, ToSet

LEMMA AscendingInsert ==
    ASSUME NEW db, NEW e \in Event, DbOK(db), Ascending(db.rows)
    PROVE  Ascending(Insert(db, e).rows)
<1>1. PICK row : row = [id |-> db.lastId + 1, event |-> e]
  OBVIOUS
<1>2. db \in Database /\ db.rows \in Seq(Row) /\ db.lastId \in Nat
  BY DEF DbOK, Database
<1>3. row \in Row /\ row.id = db.lastId + 1
  BY <1>1, <1>2 DEF Row
<1>4. \A r \in ToSet(db.rows) : r.id \in Nat /\ r.id <= db.lastId
  BY <1>2, RowsType DEF DbOK
<1>5. Insert(db, e).rows = Append(db.rows, row)
  <2>1. PICK list : list = Append(db.rows, row)
    OBVIOUS
  <2>2. PICK mid : mid = [db EXCEPT !.rows = list]
    OBVIOUS
  <2>3. mid.rows = list /\ "rows" \in DOMAIN mid
    BY <1>2, <2>2 DEF Database
  <2>4. Insert(db, e) = [mid EXCEPT !.lastId = db.lastId + 1]
    BY <1>1, <2>1, <2>2 DEF Insert, Database
  <2>5. QED
    BY <2>1, <2>3, <2>4
<1>6. \A r \in ToSet(db.rows) : r.id < row.id
  BY <1>2, <1>3, <1>4
<1>7. QED
  BY <1>2, <1>3, <1>5, <1>6, AscendingAppend

LEMMA AscendingEvict ==
    ASSUME NEW db, DbOK(db), Ascending(db.rows)
    PROVE  Ascending(EvictOldestIfFull(db).rows)
<1>1. /\ db \in Database /\ db.rows \in Seq(Row) /\ Len(db.rows) \in Nat
      /\ MaxEvents \in Nat \ {0}
  BY DeliveryAssumption DEF DbOK, Database
<1>2. CASE Len(db.rows) - MaxEvents <= 0
  BY <1>2 DEF EvictOldestIfFull
<1>3. CASE ~(Len(db.rows) - MaxEvents <= 0)
  <2>1. PICK m : m = Len(db.rows) - MaxEvents + 1
    OBVIOUS
  <2>2. m \in 1..(Len(db.rows) + 1)
    BY <1>1, <1>3, <2>1
  <2>3. EvictOldestIfFull(db).rows = SubSeq(db.rows, m, Len(db.rows))
    BY <1>1, <1>3, <2>1 DEF EvictOldestIfFull, Database
  <2>4. Len(db.rows) \in 0..Len(db.rows)
    BY <1>1
  <2>5. QED
    BY <1>1, <2>2, <2>3, <2>4, AscendingCut
<1>4. QED
  BY <1>2, <1>3

LEMMA AscendingDelete ==
    ASSUME NEW db, NEW id, DbOK(db), Ascending(db.rows)
    PROVE  /\ Ascending(Delete(db, id).rows)
           /\ \A r \in ToSet(Delete(db, id).rows) : r.id # id
<1>1. db \in Database /\ db.rows \in Seq(Row)
  BY DEF DbOK, Database
<1>2. CASE ~\E i \in DOMAIN db.rows : db.rows[i].id = id
  BY <1>2 DEF Delete, ToSet
<1>3. CASE \E i \in DOMAIN db.rows : db.rows[i].id = id
  <2>1. PICK k : k = CHOOSE i \in DOMAIN db.rows : db.rows[i].id = id
    OBVIOUS
  <2>2. k \in DOMAIN db.rows /\ db.rows[k].id = id
    BY <1>3, <2>1
  <2>3. Delete(db, id).rows = RemoveAt(db.rows, k)
    BY <1>1, <1>3, <2>1 DEF Delete, Database
  <2>4. QED
    BY <1>1, <2>2, <2>3, AscendingRemove
<1>4. QED
  BY <1>2, <1>3

\* Each list of rows is in the order of its ids, whether SQLite rolls back or not.
Sorted == Ascending(conn.rows) /\ Ascending(disk.rows) /\ Ascending(batch)

LEMMA SortedInit ==
    ASSUME Init
    PROVE  Sorted
<1>1. batch = <<>> /\ conn.rows = <<>> /\ disk.rows = <<>>
  BY DEF Init, EmptyDatabase
<1>2. QED
  BY <1>1 DEF Sorted, Ascending

\* The rest of a batch is in order and without its first row.
LEMMA SortedTail ==
    ASSUME NEW s \in Seq(Row), s # <<>>, Ascending(s)
    PROVE  /\ Ascending(Tail(s))
           /\ ToSet(Tail(s)) \subseteq ToSet(s)
           /\ \A r \in ToSet(Tail(s)) : Head(s).id < r.id
           /\ \A r \in ToSet(s) : r = Head(s) \/ r \in ToSet(Tail(s))
<1>1. /\ DOMAIN s = 1..Len(s) /\ Len(s) \in Nat \ {0}
      /\ DOMAIN Tail(s) = 1..(Len(s) - 1)
      /\ \A i \in 1..(Len(s) - 1) : Tail(s)[i] = s[i + 1]
      /\ Head(s) = s[1]
  OBVIOUS
<1>2. \A i, j \in DOMAIN Tail(s) :
         /\ 1 \in DOMAIN s /\ i + 1 \in DOMAIN s /\ j + 1 \in DOMAIN s
         /\ 1 < i + 1 /\ (i < j => i + 1 < j + 1)
  BY <1>1
<1>3. \A r \in ToSet(Tail(s)) : r \in ToSet(s) /\ Head(s).id < r.id
  BY <1>1, <1>2 DEF Ascending, ToSet
<1>4. Ascending(Tail(s))
  BY <1>1, <1>2 DEF Ascending
<1>5. ASSUME NEW r \in ToSet(s), r # Head(s)
      PROVE  r \in ToSet(Tail(s))
  <2>1. PICK i \in DOMAIN s : r = s[i]
    BY DEF ToSet
  <2>2. i - 1 \in DOMAIN Tail(s) /\ Tail(s)[i - 1] = r
    BY <1>1, <1>5, <2>1
  <2>3. QED
    BY <2>2 DEF ToSet
<1>6. QED
  BY <1>3, <1>4, <1>5

LEMMA EmitSorted ==
    ASSUME TypeInv, Sorted, NEW e \in Event, Emit(e)
    PROVE  Sorted'
<1>1. DbOK(conn) /\ Ascending(conn.rows) /\ Ascending(disk.rows) /\ Ascending(batch)
  BY DEF Sorted, TypeInv
<1>2. DbOK(Insert(conn, e)) /\ Ascending(Insert(conn, e).rows)
  BY <1>1, InsertFollows, AscendingInsert DEF Follows
<1>3. Ascending(EvictOldestIfFull(Insert(conn, e)).rows)
  BY <1>2, AscendingEvict
<1>4. /\ conn' \in {conn, Insert(conn, e), EvictOldestIfFull(Insert(conn, e)), disk}
      /\ disk' \in {disk, conn'}
  <2>1. CASE Enqueue(e)
    BY <2>1 DEF Enqueue, Commit
  <2>2. CASE EnqueueRaises(e)
    BY <2>2, RaiseOutcome DEF EnqueueRaises, Raise
  <2>3. QED
    BY <2>1, <2>2 DEF Emit
<1>5. Ascending(conn'.rows) /\ Ascending(disk'.rows)
  BY <1>1, <1>2, <1>3, <1>4
<1>6. batch' = batch
  BY DEF Emit
<1>7. QED
  BY <1>1, <1>5, <1>6 DEF Sorted, Ascending

LEMMA PeekSorted ==
    ASSUME TypeInv, Sorted, PeekBatch
    PROVE  Sorted'
<1>1. PICK n : n = IF Len(conn.rows) < BatchSize THEN Len(conn.rows) ELSE BatchSize
  OBVIOUS
<1>2. /\ batch' = SubSeq(conn.rows, 1, n) /\ conn' = conn /\ disk' = disk
      /\ conn.rows # <<>>
  BY <1>1 DEF PeekBatch
<1>3. conn.rows \in Seq(Row) /\ n \in 0..Len(conn.rows) /\ 1 \in 1..(Len(conn.rows) + 1)
  BY <1>1, <1>2, TypeFacts
<1>4. Ascending(batch')
  BY <1>2, <1>3, AscendingCut DEF Sorted
<1>5. QED
  BY <1>2, <1>4 DEF Sorted, Ascending

LEMMA CloseSorted ==
    ASSUME TypeInv, Sorted, MarkSent \/ RecordAttempt \/ Restart
    PROVE  Sorted'
<1>1. PICK h, new : h = Head(batch) /\ new = Delete(conn, h.id)
  OBVIOUS
<1>2. /\ DbOK(conn) /\ Ascending(conn.rows) /\ Ascending(disk.rows) /\ Ascending(batch)
      /\ batch \in Seq(Row)
  BY DEF Sorted, TypeInv, TypeOK
<1>3. Ascending(new.rows)
  BY <1>1, <1>2, AscendingDelete
<1>4. conn' \in {conn, new, disk} /\ disk' \in {disk, conn'}
  <2>1. CASE MarkSent
    BY <1>1, <2>1, RaiseOutcome DEF MarkSent, Commit, Raise
  <2>2. CASE RecordAttempt
    BY <2>2, RaiseOutcome DEF RecordAttempt, Commit, Raise
  <2>3. CASE Restart
    BY <2>3 DEF Restart
  <2>4. QED
    BY <2>1, <2>2, <2>3
<1>5. Ascending(batch')
  <2>1. CASE Finish
    BY <2>1 DEF Finish, Ascending
  <2>2. CASE MarkSent /\ Proceed
    <3>1. batch # <<>> /\ batch' = Tail(batch)
      BY <2>2, BatchFacts DEF MarkSent, Proceed
    <3>2. QED
      BY <1>2, <3>1, SortedTail
  <2>3. QED
    BY <2>1, <2>2 DEF MarkSent, RecordAttempt, Restart
<1>6. Ascending(conn'.rows) /\ Ascending(disk'.rows)
  BY <1>2, <1>3, <1>4
<1>7. QED
  BY <1>5, <1>6 DEF Sorted, Ascending

LEMMA SortedStep ==
    ASSUME TypeInv, Sorted, [Next]_vars
    PROVE  Sorted'
<1>1. ASSUME NEW e \in Event, Emit(e)
      PROVE  Sorted'
  BY <1>1, EmitSorted
<1>2. CASE UNCHANGED vars \/ SendSucceeds \/ SendLosesAnswer \/ SendFails \/ SendIsFatal
  <2>1. UNCHANGED <<conn, disk, batch>>
    BY <1>2 DEF vars, SendSucceeds, SendLosesAnswer, SendFails, SendIsFatal, Send
  <2>2. QED
    BY <2>1 DEF Sorted, Ascending
<1>3. QED
  BY <1>1, <1>2, PeekSorted, CloseSorted DEF Next, DispatcherStep

\* The batch is the front of the queue: every row is part of it or behind it.
BatchIsFront ==
    \A b \in ToSet(batch) :
        /\ b.id <= conn.lastId
        /\ \A r \in ToSet(conn.rows) : r \in ToSet(batch) \/ b.id < r.id

\* Inductive when no transaction is given up: a rollback brings back older rows.
OrderInv == TypeInv /\ Sorted /\ BatchIsFront

LEMMA OrderInit ==
    ASSUME Init
    PROVE  OrderInv
<1>1. batch = <<>>
  BY DEF Init
<1>2. QED
  BY <1>1, TypeInit, SortedInit DEF OrderInv, BatchIsFront, ToSet

LEMMA EmitKeepsFront ==
    ASSUME OrderInv, ~RollsBack, NEW e \in Event, Emit(e)
    PROVE  BatchIsFront'
<1>1. batch' = batch /\ TypeInv /\ TypeInv'
  BY EmitTypes DEF Emit, OrderInv
<1>2. conn' \in {conn, Insert(conn, e), EvictOldestIfFull(Insert(conn, e))}
  <2>1. CASE Enqueue(e)
    BY <2>1 DEF Enqueue, Commit
  <2>2. CASE EnqueueRaises(e)
    BY <2>2, RaiseOutcome DEF EnqueueRaises, Raise
  <2>3. QED
    BY <2>1, <2>2 DEF Emit
<1>3. Follows(conn', conn)
  BY <1>1, <1>2, EnqueueStages
<1>4. ASSUME NEW b \in ToSet(batch)
      PROVE  /\ b.id <= conn'.lastId
             /\ \A r \in ToSet(conn'.rows) : r \in ToSet(batch) \/ b.id < r.id
  <2>1. /\ b.id \in Nat /\ conn.lastId \in Nat /\ conn'.lastId \in Nat
        /\ \A r \in ToSet(conn'.rows) : r.id \in Nat
    <3>1. batch \in Seq(Row) /\ conn'.rows \in Seq(Row) /\ conn'.lastId \in Nat
      BY <1>1, <1>3 DEF Follows, DbOK, Database, TypeInv, TypeOK
    <3>2. QED
      BY <1>1, <3>1, RowsType, TypeFacts
  <2>2. b.id <= conn.lastId /\ conn.lastId <= conn'.lastId
    BY <1>3 DEF OrderInv, BatchIsFront, Follows
  <2>3. ASSUME NEW r \in ToSet(conn'.rows)
        PROVE  r \in ToSet(batch) \/ b.id < r.id
    <3>1. r \in ToSet(conn.rows) \/ r.id > conn.lastId
      BY <1>3 DEF Follows
    <3>2. QED
      BY <2>1, <2>2, <3>1 DEF OrderInv, BatchIsFront
  <2>4. QED
    BY <2>1, <2>2, <2>3
<1>5. QED
  BY <1>1, <1>4 DEF BatchIsFront

LEMMA PeekTakesFront ==
    ASSUME OrderInv, PeekBatch
    PROVE  BatchIsFront'
<1>1. PICK n : n = IF Len(conn.rows) < BatchSize THEN Len(conn.rows) ELSE BatchSize
  OBVIOUS
<1>2. /\ batch' = SubSeq(conn.rows, 1, n) /\ conn' = conn
      /\ conn.rows # <<>> /\ TypeInv
  BY <1>1 DEF PeekBatch, OrderInv
<1>3. conn.rows \in Seq(Row) /\ n \in 0..Len(conn.rows)
  BY <1>1, <1>2, TypeFacts
<1>4. /\ DOMAIN batch' = 1..n /\ \A i \in 1..n : batch'[i] = conn.rows[i]
      /\ DOMAIN conn.rows = 1..Len(conn.rows) /\ Len(conn.rows) \in Nat /\ n \in Nat
  BY <1>2, <1>3
<1>5. ASSUME NEW b \in ToSet(batch')
      PROVE  /\ b.id <= conn.lastId
             /\ \A r \in ToSet(conn.rows) : r \in ToSet(batch') \/ b.id < r.id
  <2>1. PICK i \in 1..n : b = conn.rows[i] /\ i \in DOMAIN conn.rows
    BY <1>3, <1>4 DEF ToSet
  <2>2. b.id <= conn.lastId
    BY <1>2, <2>1 DEF TypeInv, DbOK, ToSet
  <2>3. ASSUME NEW r \in ToSet(conn.rows)
        PROVE  r \in ToSet(batch') \/ b.id < r.id
    <3>1. PICK j \in DOMAIN conn.rows : r = conn.rows[j]
      BY DEF ToSet
    <3>2. CASE j \in 1..n
      BY <1>4, <3>1, <3>2 DEF ToSet
    <3>3. CASE i < j
      BY <2>1, <3>1, <3>3 DEF OrderInv, Sorted, Ascending
    <3>4. QED
      BY <1>4, <3>2, <3>3
  <2>4. QED
    BY <2>2, <2>3
<1>6. QED
  BY <1>2, <1>5 DEF BatchIsFront

LEMMA EmptyBatch ==
    ASSUME Finish
    PROVE  BatchIsFront'
BY DEF Finish, BatchIsFront, ToSet

LEMMA MarkSentKeepsFront ==
    ASSUME OrderInv, MarkSent
    PROVE  BatchIsFront'
<1>1. PICK h, new : h = Head(batch) /\ new = Delete(conn, h.id)
  OBVIOUS
<1>2. DbOK(conn) /\ Ascending(conn.rows) /\ Ascending(batch) /\ TypeInv
  BY DEF OrderInv, TypeInv, Sorted
<1>3. /\ new.lastId = conn.lastId
      /\ ToSet(new.rows) \subseteq ToSet(conn.rows)
      /\ \A r \in ToSet(new.rows) : r.id # h.id
  BY <1>1, <1>2, AscendingDelete, DeleteKeepsOthers
<1>4. CASE Commit(new) /\ Proceed
  <2>1. conn' = new /\ batch' = Tail(batch)
    BY <1>4 DEF Commit, Proceed
  <2>2. batch \in Seq(Row) /\ batch # <<>>
    BY <1>2, BatchFacts DEF MarkSent
  <2>3. /\ ToSet(Tail(batch)) \subseteq ToSet(batch)
        /\ \A r \in ToSet(batch) : r = h \/ r \in ToSet(Tail(batch))
    BY <1>1, <1>2, <2>2, SortedTail
  <2>4. ASSUME NEW b \in ToSet(Tail(batch))
        PROVE  /\ b.id <= new.lastId
               /\ \A r \in ToSet(new.rows) : r \in ToSet(Tail(batch)) \/ b.id < r.id
    BY <1>3, <2>3 DEF OrderInv, BatchIsFront
  <2>5. QED
    BY <2>1, <2>4 DEF BatchIsFront
<1>5. QED
  BY <1>1, <1>4, EmptyBatch DEF MarkSent

LEMMA OrderStep ==
    ASSUME OrderInv, ~RollsBack, [Next]_vars
    PROVE  OrderInv'
<1>1. TypeInv' /\ Sorted'
  BY TypeStep, SortedStep DEF OrderInv
<1>2. BatchIsFront'
  <2>1. ASSUME NEW e \in Event, Emit(e)
        PROVE  BatchIsFront'
    BY <2>1, EmitKeepsFront
  <2>2. CASE UNCHANGED vars \/ SendSucceeds \/ SendLosesAnswer \/ SendFails \/ SendIsFatal
    <3>1. UNCHANGED <<conn, batch>>
      BY <2>2 DEF vars, SendSucceeds, SendLosesAnswer, SendFails, SendIsFatal, Send
    <3>2. QED
      BY <3>1 DEF OrderInv, BatchIsFront
  <2>3. CASE RecordAttempt \/ Restart
    BY <2>3, EmptyBatch DEF RecordAttempt, Restart
  <2>4. QED
    BY <2>1, <2>2, <2>3, PeekTakesFront, MarkSentKeepsFront DEF Next, DispatcherStep
<1>3. QED
  BY <1>1, <1>2 DEF OrderInv

\* The server meets the events in the order of the queue: unless SQLite gives an
\* open transaction up, a row that is sent has no older row before it.
THEOREM OrderIsKept ==
    ASSUME ~RollsBack
    PROVE  Spec => OldestFirst
<1>1. Init => OrderInv
  BY OrderInit
<1>2. OrderInv /\ [Next]_vars => OrderInv'
  BY OrderStep
<1>3. OrderInv /\ [Next]_vars =>
         [\A e \in Event :
             copies[e] = 0 /\ copies'[e] = 1 =>
                 \A r \in ToSet(conn.rows) :
                     r.id < Head(batch).id => copies[r.event] > 0]_vars
  <2> SUFFICES ASSUME OrderInv, Next, NEW e \in Event, copies[e] = 0, copies'[e] = 1,
                      NEW r \in ToSet(conn.rows), r.id < Head(batch).id
               PROVE  copies[r.event] > 0
    OBVIOUS
  <2>1. phase = "send"
    <3>1. \/ copies' = copies
          \/ phase = "send"
      BY DEF Next, DispatcherStep, Emit, PeekBatch, MarkSent, RecordAttempt, Restart, server,
             SendSucceeds, SendLosesAnswer, SendFails, SendIsFatal, Send
    <3>2. QED
      BY <3>1
  <2>2. batch \in Seq(Row) /\ Head(batch) = batch[1] /\ 1 \in DOMAIN batch
    BY <2>1, BatchFacts DEF OrderInv
  <2>3. /\ DOMAIN batch = 1..Len(batch) /\ Len(batch) \in Nat
        /\ Head(batch) \in ToSet(batch)
    BY <2>2 DEF ToSet
  <2>4. r.id \in Nat /\ Head(batch).id \in Nat
    BY <2>2, <2>3, RowsType, TypeFacts DEF OrderInv
  <2>5. r \in ToSet(batch)
    BY <2>3, <2>4 DEF OrderInv, BatchIsFront
  <2>6. PICK i \in DOMAIN batch : r = batch[i]
    BY <2>5 DEF ToSet
  <2>7. i = 1 \/ Head(batch).id < r.id
    BY <2>2, <2>3, <2>6 DEF OrderInv, Sorted, Ascending
  <2>8. QED
    BY <2>2, <2>4, <2>6, <2>7
<1>4. QED
  BY <1>1, <1>2, <1>3, PTL DEF Spec, OldestFirst
-----------------------------------------------------------------------------
(* What at-least-once costs *)

\* Rows the server has no use for any more: it has heard of their event, or an older
\* row stands for it.
Surplus(rows, heard) ==
    {r \in rows : \/ r.event \in heard
                  \/ \E q \in rows : q.event = r.event /\ q.id < r.id}

LEMMA SurplusShrinks ==
    ASSUME NEW R, NEW Q \in SUBSET R, NEW H
    PROVE  Surplus(Q, H) \subseteq Surplus(R, H)
BY DEF Surplus

\* At most one row stands for an event.
LEMMA OneStandsFor ==
    ASSUME NEW R \in SUBSET Row, NEW H, NEW r \in R, NEW q \in R, r.event = q.event,
           r \notin Surplus(R, H), q \notin Surplus(R, H)
    PROVE  r = q
<1>1. r \in Row /\ q \in Row
  OBVIOUS
<1>2. ~(q.id < r.id) /\ ~(r.id < q.id)
  BY DEF Surplus
<1>3. r.id = q.id
  BY <1>1, <1>2 DEF Row
<1>4. r = [id |-> r.id, event |-> r.event] /\ q = [id |-> q.id, event |-> q.event]
  BY <1>1 DEF Row
<1>5. QED
  BY <1>3, <1>4

\* One more row, or one more event the server has heard of, makes one more row
\* useless at most.
LEMMA SurplusGrows ==
    ASSUME NEW R \in SUBSET Row, NEW H, NEW row \in Row
    PROVE  \E x : Surplus(R \cup {row}, H) \subseteq Surplus(R, H) \cup {x}
<1>1. PICK e : e = row.event
  OBVIOUS
<1>2. CASE \E n \in R : n.event = e /\ n \notin Surplus(R, H)
  <2>1. PICK n \in R : n.event = e /\ n \notin Surplus(R, H)
    BY <1>2
  <2>2. PICK x : x = IF row.id < n.id THEN n ELSE row
    OBVIOUS
  <2>3. ASSUME NEW r \in Surplus(R \cup {row}, H)
        PROVE  r \in Surplus(R, H) \cup {x}
    <3>1. CASE r \in R /\ r \notin Surplus(R, H)
      <4>1. r.event = e /\ row.id < r.id
        BY <1>1, <2>3, <3>1 DEF Surplus
      <4>2. r = n
        BY <2>1, <3>1, <4>1, OneStandsFor
      <4>3. QED
        BY <2>2, <4>1, <4>2
    <3>2. CASE r = row /\ row.id < n.id
      <4>1. e \notin H /\ \A q \in R : q.event = e => ~(q.id < n.id)
        BY <2>1 DEF Surplus
      <4>2. \A q \in R : q.event = e => ~(q.id < row.id)
        <5>1. \A q \in R : q.id \in Nat
          BY DEF Row
        <5>2. row.id \in Nat /\ n.id \in Nat
          BY <5>1 DEF Row
        <5>3. QED
          BY <3>2, <4>1, <5>1, <5>2
      <4>3. ~(row.id < row.id)
        BY DEF Row
      <4>4. row \notin Surplus(R \cup {row}, H)
        BY <1>1, <4>1, <4>2, <4>3 DEF Surplus
      <4>5. QED
        BY <2>3, <3>2, <4>4
    <3>3. r \in R \/ r = row
      BY <2>3 DEF Surplus
    <3>4. QED
      BY <2>2, <3>1, <3>2, <3>3
  <2>4. QED
    BY <2>3
<1>3. CASE \A n \in R : n.event = e => n \in Surplus(R, H)
  <2>1. ASSUME NEW r \in Surplus(R \cup {row}, H)
        PROVE  r \in Surplus(R, H) \cup {row}
    BY <1>1, <1>3, <2>1 DEF Surplus
  <2>2. QED
    BY <2>1
<1>4. QED
  BY <1>2, <1>3

LEMMA SurplusHears ==
    ASSUME NEW R \in SUBSET Row, NEW H, NEW e
    PROVE  \E x : Surplus(R, H \cup {e}) \subseteq Surplus(R, H) \cup {x}
<1>1. CASE \E n \in R : n.event = e /\ n \notin Surplus(R, H)
  <2>1. PICK n \in R : n.event = e /\ n \notin Surplus(R, H)
    BY <1>1
  <2>2. ASSUME NEW r \in Surplus(R, H \cup {e}), r \notin Surplus(R, H)
        PROVE  r = n
    <3>1. r \in R /\ r.event = e
      BY <2>2 DEF Surplus
    <3>2. QED
      BY <2>1, <2>2, <3>1, OneStandsFor
  <2>3. QED
    BY <2>2
<1>2. CASE \A n \in R : n.event = e => n \in Surplus(R, H)
  BY <1>2 DEF Surplus
<1>3. QED
  BY <1>1, <1>2

\* The first row of an event the server has not heard of is of use.
LEMMA SurplusFresh ==
    ASSUME NEW R \in SUBSET Row, NEW H, NEW row \in Row,
           row.event \notin H, \A r \in R : r.event # row.event
    PROVE  Surplus(R \cup {row}, H) \subseteq Surplus(R, H)
<1>1. ~(row.id < row.id)
  BY DEF Row
<1>2. QED
  BY <1>1 DEF Surplus

\* B has at most d elements more than A.
Within(B, A, d) ==
    /\ IsFiniteSet(A) /\ IsFiniteSet(B)
    /\ Cardinality(B) <= Cardinality(A) + d

LEMMA WithinZero ==
    ASSUME NEW A, IsFiniteSet(A), NEW B \in SUBSET A
    PROVE  Within(B, A, 0)
<1>1. IsFiniteSet(B) /\ Cardinality(B) <= Cardinality(A)
  BY FS_Subset
<1>2. Cardinality(A) \in Nat
  BY FS_CardinalityType
<1>3. QED
  BY <1>1, <1>2 DEF Within

LEMMA WithinOne ==
    ASSUME NEW A, IsFiniteSet(A), NEW x, NEW B \in SUBSET (A \cup {x})
    PROVE  Within(B, A, 1)
<1>1. /\ IsFiniteSet(A \cup {x})
      /\ Cardinality(A \cup {x}) = IF x \in A THEN Cardinality(A) ELSE Cardinality(A) + 1
  BY FS_AddElement
<1>2. IsFiniteSet(B) /\ Cardinality(B) <= Cardinality(A \cup {x})
  BY <1>1, FS_Subset
<1>3. Cardinality(A) \in Nat /\ Cardinality(B) \in Nat
  BY <1>2, FS_CardinalityType
<1>4. QED
  BY <1>1, <1>2, <1>3 DEF Within

LEMMA WithinLess ==
    ASSUME NEW A, IsFiniteSet(A), NEW x \in A, NEW B \in SUBSET (A \ {x})
    PROVE  Within(B, A, -1)
<1>1. IsFiniteSet(A \ {x}) /\ Cardinality(A \ {x}) = Cardinality(A) - 1
  BY FS_RemoveElement
<1>2. IsFiniteSet(B) /\ Cardinality(B) <= Cardinality(A \ {x})
  BY <1>1, FS_Subset
<1>3. Cardinality(A) \in Nat /\ Cardinality(B) \in Nat
  BY <1>2, FS_CardinalityType
<1>4. QED
  BY <1>1, <1>2, <1>3 DEF Within

\* The rows that are anywhere, and those among them that can only cause duplicates.
Rows == ToSet(disk.rows) \cup ToSet(conn.rows) \cup ToSet(batch)

Heard == {e \in Event : copies[e] > 0}

Useless == Surplus(Rows, Heard)

\* Payloads with a failed attempt behind them, which may be in the spool already.
Retried == {e \in Event \ accepted : attempts[e] > 0}

\* The row of the delivery that is to be marked.
Owed == IF phase = "sent" THEN 1 ELSE 0

FreshIsNew ==
    \A e \in Event \ accepted :
        attempts[e] = 0 => copies[e] = 0 /\ \A r \in Rows : r.event # e

\* Useless rows, payloads that will be offered again and duplicates: each is paid
\* for by a fault, but for the row that is about to be deleted.
Paid ==
    /\ IsFiniteSet(Useless) /\ IsFiniteSet(Retried) /\ IsFiniteSet(Duplicates)
    /\ Cardinality(Useless) + Cardinality(Retried) + Cardinality(Duplicates)
          <= faults + Owed

CopyInv == TypeInv /\ Sorted /\ Told /\ FreshIsNew /\ Paid

\* Duplicates, spelled out.
LEMMA DuplicatePairs ==
    ASSUME NEW d
    PROVE  d \in Duplicates <=> \E e \in Event : \E n \in 2..copies[e] : d = <<e, n>>
BY DEF Duplicates

LEMMA RowsAreRows ==
    ASSUME TypeInv
    PROVE  Rows \in SUBSET Row
<1>1. /\ disk.rows \in Seq(Row) /\ conn.rows \in Seq(Row) /\ batch \in Seq(Row)
  BY TypeFacts DEF TypeInv, TypeOK
<1>2. QED
  BY <1>1, RowsType DEF Rows

LEMMA CopyInit ==
    ASSUME Init
    PROVE  CopyInv
<1>1. /\ disk.rows = <<>> /\ conn.rows = <<>> /\ batch = <<>> /\ phase = "idle"
      /\ faults = 0 /\ \A e \in Event : attempts[e] = 0 /\ copies[e] = 0
  BY DEF Init, EmptyDatabase
<1>2. Rows = {}
  BY <1>1 DEF Rows, ToSet
<1>3. Useless = {} /\ Retried = {} /\ Owed = 0
  BY <1>1, <1>2 DEF Useless, Surplus, Retried, Owed
<1>4. Duplicates = {}
  <2>1. ASSUME NEW d \in Duplicates
        PROVE  FALSE
    <3>1. PICK e \in Event : \E n \in 2..copies[e] : d = <<e, n>>
      BY DuplicatePairs
    <3>2. QED
      BY <1>1, <3>1
  <2>2. QED
    BY <2>1
<1>5. Paid
  BY <1>1, <1>3, <1>4, FS_EmptySet DEF Paid
<1>6. FreshIsNew /\ Told
  BY <1>1, <1>2 DEF FreshIsNew, Told
<1>7. QED
  BY <1>5, <1>6, TypeInit, SortedInit DEF CopyInv

\* The books of one step: what is added is paid for by faults or by the owed row.
LEMMA PaidStep ==
    ASSUME CopyInv, TypeInv',
           NEW u \in Int, NEW t \in Int, NEW d \in Int,
           Within(Useless', Useless, u), Within(Retried', Retried, t),
           Within(Duplicates', Duplicates, d),
           u + t + d <= (faults' - faults) + (Owed' - Owed)
    PROVE  Paid'
<1>1. /\ Cardinality(Useless) \in Nat /\ Cardinality(Useless') \in Nat
      /\ Cardinality(Retried) \in Nat /\ Cardinality(Retried') \in Nat
      /\ Cardinality(Duplicates) \in Nat /\ Cardinality(Duplicates') \in Nat
  BY FS_CardinalityType DEF Within
<1>2. /\ Cardinality(Useless') <= Cardinality(Useless) + u
      /\ Cardinality(Retried') <= Cardinality(Retried) + t
      /\ Cardinality(Duplicates') <= Cardinality(Duplicates) + d
      /\ IsFiniteSet(Useless') /\ IsFiniteSet(Retried') /\ IsFiniteSet(Duplicates')
  BY DEF Within
<1>3. Cardinality(Useless) + Cardinality(Retried) + Cardinality(Duplicates) <= faults + Owed
  BY DEF CopyInv, Paid
<1>4. faults \in Nat /\ faults' \in Nat /\ Owed \in Nat /\ Owed' \in Nat
  <2>1. faults \in 0..MaxFaults /\ faults' \in 0..MaxFaults
    BY DEF CopyInv, TypeInv, TypeOK
  <2>2. QED
    BY <2>1 DEF Owed
<1>5. Cardinality(Useless') + Cardinality(Retried') + Cardinality(Duplicates')
        <= faults' + Owed'
  <2>1. PICK a \in Nat, b \in Nat, c \in Nat :
           a = Cardinality(Useless) /\ b = Cardinality(Retried) /\ c = Cardinality(Duplicates)
    BY <1>1
  <2>2. PICK x \in Nat, y \in Nat, z \in Nat :
           /\ x = Cardinality(Useless') /\ y = Cardinality(Retried')
           /\ z = Cardinality(Duplicates')
    BY <1>1
  <2>3. x <= a + u /\ y <= b + t /\ z <= c + d /\ a + b + c <= faults + Owed
    BY <1>2, <1>3, <2>1, <2>2
  <2>4. x + y + z <= a + b + c + (u + t + d)
    BY <2>3
  <2>5. PICK f \in Nat, g \in Nat, o \in Nat, p \in Nat :
           f = faults /\ g = faults' /\ o = Owed /\ p = Owed'
    BY <1>4
  <2>6. a + b + c <= f + o /\ u + t + d <= (g - f) + (p - o)
    BY <2>3, <2>5
  <2>7. x + y + z <= g + p
    BY <2>4, <2>6
  <2>8. QED
    BY <2>2, <2>5, <2>7
<1>6. QED
  BY <1>2, <1>5 DEF Paid

\* A step that brings no row and tells the server nothing adds nothing.
LEMMA NothingAdded ==
    ASSUME CopyInv, Rows' \subseteq Rows, copies' = copies, accepted' = accepted,
           \A e \in Event : attempts'[e] = 0 <=> attempts[e] = 0,
           \A e \in Event : attempts'[e] > 0 <=> attempts[e] > 0
    PROVE  /\ FreshIsNew' /\ Heard' = Heard
           /\ Within(Useless', Useless, 0) /\ Within(Retried', Retried, 0)
           /\ Within(Duplicates', Duplicates, 0)
<1>1. Heard' = Heard /\ Retried' = Retried /\ Duplicates' = Duplicates
  BY DEF Heard, Retried, Duplicates
<1>2. Useless' \in SUBSET Useless
  BY <1>1, SurplusShrinks DEF Useless
<1>3. IsFiniteSet(Useless) /\ IsFiniteSet(Retried) /\ IsFiniteSet(Duplicates)
  BY DEF CopyInv, Paid
<1>4. FreshIsNew'
  BY DEF FreshIsNew, CopyInv
<1>5. Within(Useless', Useless, 0)
  BY <1>2, <1>3, WithinZero
<1>6. Within(Retried', Retried, 0) /\ Within(Duplicates', Duplicates, 0)
  BY <1>1, <1>3, WithinZero
<1>7. QED
  BY <1>1, <1>4, <1>5, <1>6

\* enqueue, whatever it leaves behind, adds the one row of its payload.
LEMMA EmitRows ==
    ASSUME TypeInv, NEW e \in Event, Emit(e)
    PROVE  Rows' \subseteq Rows \cup {[id |-> conn.lastId + 1, event |-> e]}
<1>1. PICK row : row = [id |-> conn.lastId + 1, event |-> e]
  OBVIOUS
<1>2. DbOK(conn)
  BY DEF TypeInv
<1>3. DbOK(Insert(conn, e)) /\ ToSet(Insert(conn, e).rows) = ToSet(conn.rows) \cup {row}
  BY <1>1, <1>2, InsertFollows DEF Follows
<1>4. ToSet(EvictOldestIfFull(Insert(conn, e)).rows) \subseteq ToSet(Insert(conn, e).rows)
  BY <1>3, EvictFollows
<1>5. /\ conn' \in {conn, Insert(conn, e), EvictOldestIfFull(Insert(conn, e)), disk}
      /\ disk' \in {disk, conn'}
  <2>1. CASE Enqueue(e)
    BY <2>1 DEF Enqueue, Commit
  <2>2. CASE EnqueueRaises(e)
    BY <2>2, RaiseOutcome DEF EnqueueRaises, Raise
  <2>3. QED
    BY <2>1, <2>2 DEF Emit
<1>6. ToSet(conn'.rows) \subseteq Rows \cup {row}
  BY <1>3, <1>4, <1>5 DEF Rows
<1>7. ToSet(disk'.rows) \subseteq Rows \cup {row}
  BY <1>5, <1>6 DEF Rows
<1>8. batch' = batch
  BY DEF Emit
<1>9. QED
  BY <1>1, <1>6, <1>7, <1>8 DEF Rows

LEMMA EmitIsPaid ==
    ASSUME CopyInv, NEW e \in Event, Emit(e)
    PROVE  CopyInv'
<1>1. /\ batch' = batch /\ phase' = phase /\ copies' = copies /\ rejected' = rejected
      /\ e \notin accepted
  BY DEF Emit, Offered, server
<1>2. TypeInv /\ TypeInv' /\ Sorted'
  BY EmitTypes, EmitSorted DEF CopyInv
<1>3. Told'
  BY <1>1 DEF Told, CopyInv
<1>4. PICK row : row = [id |-> conn.lastId + 1, event |-> e]
  OBVIOUS
<1>5. row \in Row /\ row.event = e
  BY <1>2, <1>4, TypeFacts DEF Row
<1>6. Rows' \subseteq Rows \cup {row} /\ Rows \in SUBSET Row
  BY <1>2, <1>4, EmitRows, RowsAreRows
<1>7. /\ attempts \in [Event -> 0..MaxEmitAttempts] /\ attempts[e] \in Nat
      /\ faults \in Nat /\ Owed' = Owed /\ Owed \in Nat
  <2>1. attempts \in [Event -> 0..MaxEmitAttempts] /\ faults \in 0..MaxFaults
    BY <1>2 DEF TypeInv, TypeOK
  <2>2. QED
    BY <1>1, <2>1 DEF Owed
<1>8. \/ /\ accepted' = accepted \cup {e} /\ attempts' = attempts /\ faults' = faults
      \/ /\ accepted' = accepted /\ attempts' = [attempts EXCEPT ![e] = @ + 1]
         /\ faults' = faults + 1
  BY DEF Emit, Enqueue, EnqueueRaises, Commit, Raise, Fault
<1>9. ASSUME NEW x \in Event \ accepted', attempts'[x] = 0
      PROVE  x # e /\ x \notin accepted /\ attempts[x] = 0
  BY <1>7, <1>8, <1>9
<1>10. FreshIsNew'
  <2>1. ASSUME NEW x \in Event \ accepted', attempts'[x] = 0
        PROVE  copies'[x] = 0 /\ \A r \in Rows' : r.event # x
    <3>1. x # e /\ copies[x] = 0 /\ \A r \in Rows : r.event # x
      BY <1>9, <2>1 DEF CopyInv, FreshIsNew
    <3>2. QED
      BY <1>1, <1>5, <1>6, <3>1
  <2>2. QED
    BY <2>1 DEF FreshIsNew
<1>11. IsFiniteSet(Useless) /\ IsFiniteSet(Retried) /\ IsFiniteSet(Duplicates)
  BY DEF CopyInv, Paid
<1>12. Within(Duplicates', Duplicates, 0) /\ Heard' = Heard
  <2>1. Duplicates' = Duplicates /\ Heard' = Heard
    BY <1>1 DEF Duplicates, Heard
  <2>2. QED
    BY <2>1, <1>11, WithinZero
<1>13. Useless' \subseteq Surplus(Rows \cup {row}, Heard)
  <2>1. Rows' \in SUBSET (Rows \cup {row})
    BY <1>6
  <2>2. QED
    BY <2>1, <1>12, SurplusShrinks DEF Useless
<1>14. Within(Useless', Useless, 1)
  <2>1. PICK x : Surplus(Rows \cup {row}, Heard) \subseteq Surplus(Rows, Heard) \cup {x}
    BY <1>5, <1>6, SurplusGrows
  <2>2. Useless' \in SUBSET (Useless \cup {x})
    BY <1>13, <2>1 DEF Useless
  <2>3. QED
    BY <2>2, <1>11, WithinOne
<1>15. CASE attempts[e] = 0
  <2>1. copies[e] = 0 /\ \A r \in Rows : r.event # e
    BY <1>1, <1>15 DEF CopyInv, FreshIsNew
  <2>2. row.event \notin Heard
    BY <1>5, <2>1 DEF Heard
  <2>3. Surplus(Rows \cup {row}, Heard) \subseteq Surplus(Rows, Heard)
    BY <1>5, <1>6, <2>1, <2>2, SurplusFresh
  <2>4. Useless' \in SUBSET Useless
    BY <1>13, <2>3 DEF Useless
  <2>5. Within(Useless', Useless, 0)
    BY <2>4, <1>11, WithinZero
  <2>6. CASE faults' = faults /\ accepted' = accepted \cup {e} /\ attempts' = attempts
    <3>1. Retried' \in SUBSET Retried
      BY <2>6 DEF Retried
    <3>2. Within(Retried', Retried, 0)
      BY <3>1, <1>11, WithinZero
    <3>3. 0 + 0 + 0 <= (faults' - faults) + (Owed' - Owed)
      BY <1>7, <2>6
    <3>4. QED
      BY <1>2, <1>3, <1>10, <1>12, <2>5, <3>2, <3>3, PaidStep DEF CopyInv
  <2>7. CASE /\ faults' = faults + 1 /\ accepted' = accepted
             /\ attempts' = [attempts EXCEPT ![e] = @ + 1]
    <3>1. Retried' \in SUBSET (Retried \cup {e})
      BY <1>7, <2>7 DEF Retried
    <3>2. Within(Retried', Retried, 1)
      BY <3>1, <1>11, WithinOne
    <3>3. 0 + 1 + 0 <= (faults' - faults) + (Owed' - Owed)
      BY <1>7, <2>7
    <3>4. QED
      BY <1>2, <1>3, <1>10, <1>12, <2>5, <3>2, <3>3, PaidStep DEF CopyInv
  <2>8. QED
    BY <1>8, <2>6, <2>7
<1>16. CASE attempts[e] # 0
  <2>1. e \in Retried
    BY <1>1, <1>7, <1>16 DEF Retried
  <2>2. CASE faults' = faults /\ accepted' = accepted \cup {e} /\ attempts' = attempts
    <3>1. Retried' \in SUBSET (Retried \ {e})
      BY <2>2 DEF Retried
    <3>2. Within(Retried', Retried, -1)
      BY <2>1, <3>1, <1>11, WithinLess
    <3>3. 1 + (-1) + 0 <= (faults' - faults) + (Owed' - Owed)
      BY <1>7, <2>2
    <3>4. QED
      BY <1>2, <1>3, <1>10, <1>12, <1>14, <3>2, <3>3, PaidStep DEF CopyInv
  <2>3. CASE /\ faults' = faults + 1 /\ accepted' = accepted
             /\ attempts' = [attempts EXCEPT ![e] = @ + 1]
    <3>1. Retried' \in SUBSET Retried
      BY <1>7, <2>1, <2>3 DEF Retried
    <3>2. Within(Retried', Retried, 0)
      BY <3>1, <1>11, WithinZero
    <3>3. 1 + 0 + 0 <= (faults' - faults) + (Owed' - Owed)
      BY <1>7, <2>3
    <3>4. QED
      BY <1>2, <1>3, <1>10, <1>12, <1>14, <3>2, <3>3, PaidStep DEF CopyInv
  <2>4. QED
    BY <1>8, <2>2, <2>3
<1>17. QED
  BY <1>15, <1>16

LEMMA PeekIsPaid ==
    ASSUME CopyInv, PeekBatch
    PROVE  CopyInv'
<1>1. TypeInv' /\ ToSet(batch') \subseteq ToSet(conn.rows) /\ Sorted'
  BY PeekTypes, PeekSorted DEF CopyInv
<1>2. /\ conn' = conn /\ disk' = disk /\ phase = "idle" /\ phase' = "send"
      /\ attempts' = attempts /\ accepted' = accepted /\ copies' = copies
      /\ faults' = faults
  BY DEF PeekBatch, producer, server
<1>3. Rows' \subseteq Rows
  BY <1>1, <1>2 DEF Rows
<1>4. /\ FreshIsNew'
      /\ Within(Useless', Useless, 0) /\ Within(Retried', Retried, 0)
      /\ Within(Duplicates', Duplicates, 0)
  BY <1>2, <1>3, NothingAdded
<1>5. Told' /\ Owed' = 0 /\ Owed = 0
  BY <1>2 DEF Told, Owed
<1>6. 0 + 0 + 0 <= (faults' - faults) + (Owed' - Owed)
  <2>1. faults \in 0..MaxFaults
    BY DEF CopyInv, TypeInv, TypeOK
  <2>2. QED
    BY <1>2, <1>5, <2>1
<1>7. QED
  BY <1>1, <1>4, <1>5, <1>6, PaidStep DEF CopyInv

\* A copy that reaches the server is the first one, and makes the row it came from
\* useless, or a duplicate.
LEMMA ReceiptCounts ==
    ASSUME CopyInv, phase # "idle", Received, Rows' = Rows,
           attempts' = attempts, accepted' = accepted
    PROVE  /\ FreshIsNew' /\ Within(Retried', Retried, 0)
           /\ \E u, d \in Int : /\ u + d = 1
                                /\ Within(Useless', Useless, u)
                                /\ Within(Duplicates', Duplicates, d)
<1>1. PICK h : h = Head(batch).event
  OBVIOUS
<1>2. TypeInv
  BY DEF CopyInv
<1>3. /\ h \in Event /\ copies \in [Event -> Nat]
      /\ copies' = [copies EXCEPT ![h] = @ + 1]
  BY <1>1, <1>2, BatchFacts DEF Received, TypeInv, TypeOK
<1>4. Rows \in SUBSET Row /\ \E r \in Rows : r.event = h
  <2>1. Head(batch) \in Rows
    BY <1>2, BatchFacts DEF Rows
  <2>2. QED
    BY <1>1, <1>2, <2>1, RowsAreRows
<1>5. IsFiniteSet(Useless) /\ IsFiniteSet(Retried) /\ IsFiniteSet(Duplicates)
  BY DEF CopyInv, Paid
<1>6. Retried' = Retried
  BY DEF Retried
<1>7. Within(Retried', Retried, 0)
  BY <1>5, <1>6, WithinZero
<1>8. FreshIsNew'
  <2>1. ASSUME NEW e \in Event \ accepted, attempts[e] = 0
        PROVE  copies'[e] = 0 /\ \A r \in Rows : r.event # e
    <3>1. copies[e] = 0 /\ \A r \in Rows : r.event # e
      BY <2>1 DEF CopyInv, FreshIsNew
    <3>2. e # h
      BY <1>4, <3>1
    <3>3. QED
      BY <1>3, <3>1, <3>2
  <2>2. QED
    BY <2>1 DEF FreshIsNew
<1>9. CASE copies[h] = 0
  <2>1. Heard' = Heard \cup {h}
    BY <1>3, <1>9 DEF Heard
  <2>2. PICK x : Surplus(Rows, Heard \cup {h}) \subseteq Surplus(Rows, Heard) \cup {x}
    BY <1>4, SurplusHears
  <2>3. Useless' \in SUBSET (Useless \cup {x})
    BY <2>1, <2>2 DEF Useless
  <2>4. Within(Useless', Useless, 1)
    BY <1>5, <2>3, WithinOne
  <2>5. Duplicates' \in SUBSET Duplicates
    <3>1. ASSUME NEW p \in Duplicates'
          PROVE  p \in Duplicates
      <4>1. PICK e \in Event : \E n \in 2..copies'[e] : p = <<e, n>>
        BY DuplicatePairs DEF Duplicates
      <4>2. copies'[e] = IF e = h THEN 1 ELSE copies[e]
        BY <1>3, <1>9, <4>1
      <4>3. \E n \in 2..copies[e] : p = <<e, n>>
        BY <4>1, <4>2
      <4>4. QED
        BY <4>1, <4>3, DuplicatePairs
    <3>2. QED
      BY <3>1
  <2>6. Within(Duplicates', Duplicates, 0)
    BY <1>5, <2>5, WithinZero
  <2>7. 1 \in Int /\ 0 \in Int /\ 1 + 0 = 1
    OBVIOUS
  <2>8. QED
    BY <1>7, <1>8, <2>4, <2>6, <2>7
<1>10. CASE copies[h] # 0
  <2>1. Heard' = Heard
    BY <1>3, <1>10 DEF Heard
  <2>2. Useless' = Useless
    BY <2>1 DEF Useless
  <2>3. Within(Useless', Useless, 0)
    BY <1>5, <2>2, WithinZero
  <2>4. PICK x : x = <<h, copies[h] + 1>>
    OBVIOUS
  <2>5. Duplicates' \in SUBSET (Duplicates \cup {x})
    <3>1. ASSUME NEW p \in Duplicates', p # x
          PROVE  p \in Duplicates
      <4>1. PICK e \in Event : \E n \in 2..copies'[e] : p = <<e, n>>
        BY DuplicatePairs DEF Duplicates
      <4>2. PICK n \in 2..copies'[e] : p = <<e, n>>
        BY <4>1
      <4>3. copies'[e] = IF e = h THEN copies[e] + 1 ELSE copies[e]
        BY <1>3, <4>1
      <4>4. e = h => n # copies[h] + 1
        BY <2>4, <3>1, <4>2
      <4>5. copies[e] \in Nat
        BY <1>3
      <4>6. n \in 2..copies[e]
        BY <4>2, <4>3, <4>4, <4>5
      <4>7. QED
        BY <4>2, <4>6, DuplicatePairs
    <3>2. QED
      BY <3>1
  <2>6. Within(Duplicates', Duplicates, 1)
    BY <1>5, <2>5, WithinOne
  <2>7. 1 \in Int /\ 0 \in Int /\ 0 + 1 = 1
    OBVIOUS
  <2>8. QED
    BY <1>7, <1>8, <2>3, <2>6, <2>7
<1>11. QED
  BY <1>9, <1>10

LEMMA SendIsPaid ==
    ASSUME CopyInv, SendSucceeds \/ SendLosesAnswer \/ SendFails \/ SendIsFatal
    PROVE  CopyInv'
<1>1. /\ phase = "send" /\ disk' = disk /\ conn' = conn /\ batch' = batch
      /\ attempts' = attempts /\ accepted' = accepted
  BY DEF SendSucceeds, SendLosesAnswer, SendFails, SendIsFatal, Send, producer
<1>2. TypeInv /\ TypeInv'
  BY SendTypes DEF CopyInv
<1>3. Sorted' /\ Rows' = Rows
  BY <1>1 DEF Sorted, Ascending, CopyInv, Rows
<1>4. Owed = 0 /\ faults \in Nat
  <2>1. faults \in 0..MaxFaults
    BY <1>2 DEF TypeInv, TypeOK
  <2>2. QED
    BY <1>1, <2>1 DEF Owed
<1>5. CASE SendSucceeds \/ SendLosesAnswer
  <2>1. Received /\ (faults' - faults) + (Owed' - Owed) = 1
    <3>1. CASE SendSucceeds
      BY <1>4, <3>1 DEF SendSucceeds, Send, Owed
    <3>2. CASE SendLosesAnswer
      BY <1>4, <3>2 DEF SendLosesAnswer, Send, Fault, Owed
    <3>3. QED
      BY <1>5, <3>1, <3>2
  <2>2. phase # "idle"
    BY <1>1
  <2>3. /\ FreshIsNew' /\ Within(Retried', Retried, 0)
        /\ \E u, d \in Int : /\ u + d = 1
                             /\ Within(Useless', Useless, u)
                             /\ Within(Duplicates', Duplicates, d)
    BY <1>1, <1>3, <2>1, <2>2, ReceiptCounts
  <2>4. PICK u \in Int, d \in Int : /\ u + d = 1
                                    /\ Within(Useless', Useless, u)
                                    /\ Within(Duplicates', Duplicates, d)
    BY <2>3
  <2>5. u + 0 + d <= (faults' - faults) + (Owed' - Owed)
    BY <2>1, <2>4
  <2>6. Paid'
    BY <1>2, <2>3, <2>4, <2>5, PaidStep
  <2>7. Told'
    <3>1. copies \in [Event -> Nat] /\ Head(batch).event \in Event
      BY <1>2, <2>2, BatchFacts DEF TypeInv, TypeOK
    <3>2. copies'[Head(batch).event] > 0
      BY <2>1, <3>1 DEF Received
    <3>3. phase' # "rejected"
      BY <1>5 DEF SendSucceeds, SendLosesAnswer, Send
    <3>4. QED
      BY <1>1, <3>2, <3>3 DEF Told
  <2>8. QED
    BY <1>2, <1>3, <2>3, <2>6, <2>7 DEF CopyInv
<1>6. CASE SendFails \/ SendIsFatal
  <2>1. copies' = copies /\ faults' = faults /\ Owed' = 0
    BY <1>6 DEF SendFails, SendIsFatal, Send, server, Owed
  <2>2. Rows' \subseteq Rows
    BY <1>3
  <2>3. /\ FreshIsNew'
        /\ Within(Useless', Useless, 0) /\ Within(Retried', Retried, 0)
        /\ Within(Duplicates', Duplicates, 0)
    BY <1>1, <2>1, <2>2, NothingAdded
  <2>4. 0 + 0 + 0 <= (faults' - faults) + (Owed' - Owed)
    BY <1>4, <2>1
  <2>5. Paid'
    BY <1>2, <2>3, <2>4, PaidStep
  <2>6. Told'
    BY <1>1, <1>6 DEF SendFails, SendIsFatal, Send, Told
  <2>7. QED
    BY <1>2, <1>3, <2>3, <2>5, <2>6 DEF CopyInv
<1>7. QED
  BY <1>5, <1>6

\* mark_sent that went through: the delivered row, of no use any more, is gone from
\* the disk, the connection and the batch.
LEMMA DeliveredRowGoes ==
    ASSUME CopyInv, phase \in {"sent", "rejected"},
           Commit(Delete(conn, Head(batch).id)), Proceed
    PROVE  Rows' \subseteq Rows \ {Head(batch)}
<1>1. PICK h, new : h = Head(batch) /\ new = Delete(conn, h.id)
  OBVIOUS
<1>2. /\ DbOK(conn) /\ Ascending(conn.rows) /\ Ascending(batch) /\ TypeInv
      /\ phase # "idle"
  BY DEF CopyInv, TypeInv, Sorted
<1>3. /\ ToSet(new.rows) \subseteq ToSet(conn.rows)
      /\ \A r \in ToSet(new.rows) : r.id # h.id
  BY <1>1, <1>2, AscendingDelete, DeleteKeepsOthers
<1>4. conn' = new /\ disk' = new /\ batch' = Tail(batch)
  BY <1>1 DEF Commit, Proceed
<1>5. batch \in Seq(Row) /\ batch # <<>> /\ h \in Row
  BY <1>1, <1>2, BatchFacts
<1>6. ToSet(Tail(batch)) \subseteq ToSet(batch) /\ \A r \in ToSet(Tail(batch)) : h.id < r.id
  BY <1>1, <1>2, <1>5, SortedTail
<1>7. h.id \in Nat /\ ~(h.id < h.id)
  BY <1>5 DEF Row
<1>8. h \notin ToSet(new.rows) /\ h \notin ToSet(Tail(batch))
  BY <1>3, <1>6, <1>7
<1>9. QED
  BY <1>1, <1>3, <1>4, <1>6, <1>8 DEF Rows

\* The end of an attempt, a call that raised and a restart bring no row.
LEMMA ClosingRows ==
    ASSUME CopyInv, MarkSent \/ RecordAttempt \/ Restart
    PROVE  /\ Rows' \subseteq Rows /\ copies' = copies /\ accepted' = accepted
           /\ \A e \in Event : /\ attempts'[e] = 0 <=> attempts[e] = 0
                               /\ attempts'[e] > 0 <=> attempts[e] > 0
           /\ phase' \in {"idle", "send"}
<1>1. DbOK(conn) /\ TypeInv
  BY DEF CopyInv, TypeInv
<1>2. ToSet(Delete(conn, Head(batch).id).rows) \subseteq ToSet(conn.rows)
  BY <1>1, DeleteKeepsOthers
<1>3. conn' \in {conn, Delete(conn, Head(batch).id), disk} /\ disk' \in {disk, conn'}
  <2>1. CASE MarkSent
    BY <2>1, RaiseOutcome DEF MarkSent, Commit, Raise
  <2>2. CASE RecordAttempt
    BY <2>2, RaiseOutcome DEF RecordAttempt, Commit, Raise
  <2>3. CASE Restart
    BY <2>3 DEF Restart
  <2>4. QED
    BY <2>1, <2>2, <2>3
<1>4. ToSet(batch') \subseteq ToSet(batch) /\ phase' \in {"idle", "send"}
  <2>1. CASE Finish
    BY <2>1 DEF Finish, ToSet
  <2>2. CASE MarkSent /\ Proceed
    <3>1. phase # "idle" /\ (Proceed \/ Finish)
      BY <2>2 DEF MarkSent
    <3>2. QED
      BY <1>1, <3>1, BatchEnds
  <2>3. QED
    BY <2>1, <2>2 DEF MarkSent, RecordAttempt, Restart
<1>5. Rows' \subseteq Rows
  BY <1>2, <1>3, <1>4 DEF Rows
<1>6. \A e \in Event : /\ attempts'[e] = 0 <=> attempts[e] = 0
                       /\ attempts'[e] > 0 <=> attempts[e] > 0
  <2>1. CASE attempts' = attempts
    BY <2>1
  <2>2. CASE attempts' = [e \in Event |-> IF attempts[e] > 0 THEN MaxEmitAttempts ELSE 0]
    <3>1. attempts \in [Event -> 0..MaxEmitAttempts] /\ MaxEmitAttempts \in Nat \ {0}
      BY <1>1, TypeFacts DEF TypeInv, TypeOK
    <3>2. QED
      BY <2>2, <3>1
  <2>3. QED
    BY <2>1, <2>2 DEF MarkSent, RecordAttempt, Restart, producer
<1>7. copies' = copies /\ accepted' = accepted
  BY DEF MarkSent, RecordAttempt, Restart, producer, server
<1>8. QED
  BY <1>4, <1>5, <1>6, <1>7

LEMMA ClosingIsPaid ==
    ASSUME CopyInv, MarkSent \/ RecordAttempt \/ Restart
    PROVE  CopyInv'
<1>1. /\ Rows' \subseteq Rows /\ copies' = copies /\ accepted' = accepted
      /\ \A e \in Event : /\ attempts'[e] = 0 <=> attempts[e] = 0
                          /\ attempts'[e] > 0 <=> attempts[e] > 0
      /\ phase' \in {"idle", "send"}
  BY ClosingRows
<1>2. TypeInv' /\ Sorted'
  BY CloseSorted, MarkSentTypes, RecordAttemptTypes, RestartTypes DEF CopyInv
<1>3. /\ FreshIsNew' /\ Heard' = Heard
      /\ Within(Useless', Useless, 0) /\ Within(Retried', Retried, 0)
      /\ Within(Duplicates', Duplicates, 0)
  BY <1>1, NothingAdded
<1>4. Told' /\ Owed' = 0
  BY <1>1 DEF Told, Owed
<1>5. faults \in Nat /\ Owed \in {0, 1}
  <2>1. faults \in 0..MaxFaults
    BY DEF CopyInv, TypeInv, TypeOK
  <2>2. QED
    BY <2>1 DEF Owed
<1>6. CASE faults' = faults + 1
  <2>1. 0 + 0 + 0 <= (faults' - faults) + (Owed' - Owed)
    BY <1>4, <1>5, <1>6
  <2>2. QED
    BY <1>2, <1>3, <1>4, <2>1, PaidStep DEF CopyInv
<1>7. CASE faults' = faults /\ phase # "sent"
  <2>1. 0 + 0 + 0 <= (faults' - faults) + (Owed' - Owed)
    BY <1>4, <1>5, <1>7 DEF Owed
  <2>2. QED
    BY <1>2, <1>3, <1>4, <2>1, PaidStep DEF CopyInv
<1>8. CASE /\ faults' = faults /\ phase = "sent"
           /\ Commit(Delete(conn, Head(batch).id)) /\ Proceed
  <2>1. PICK h : h = Head(batch)
    OBVIOUS
  <2>2. Rows' \in SUBSET (Rows \ {h})
    BY <1>8, <2>1, DeliveredRowGoes
  <2>3. h \in Rows /\ h.event \in Event /\ copies[h.event] > 0
    <3>1. phase # "idle" /\ TypeInv
      BY <1>8 DEF CopyInv
    <3>2. QED
      BY <1>8, <2>1, <3>1, BatchFacts DEF Rows, Told, CopyInv
  <2>4. h \in Useless
    BY <2>3 DEF Useless, Surplus, Heard
  <2>5. Useless' \in SUBSET (Useless \ {h})
    <3>1. Surplus(Rows', Heard) \subseteq Surplus(Rows, Heard)
      BY <2>2, SurplusShrinks
    <3>2. Surplus(Rows', Heard) \subseteq Rows'
      BY DEF Surplus
    <3>3. QED
      BY <1>3, <2>2, <3>1, <3>2 DEF Useless
  <2>6. Within(Useless', Useless, -1)
    BY <2>4, <2>5, WithinLess DEF CopyInv, Paid
  <2>7. -1 + 0 + 0 <= (faults' - faults) + (Owed' - Owed)
    BY <1>4, <1>5, <1>8 DEF Owed
  <2>8. QED
    BY <1>2, <1>3, <1>4, <2>6, <2>7, PaidStep DEF CopyInv
<1>9. \/ faults' = faults + 1
      \/ faults' = faults /\ phase # "sent"
      \/ faults' = faults /\ Commit(Delete(conn, Head(batch).id)) /\ Proceed
  BY DEF MarkSent, RecordAttempt, Restart, Commit, Raise, Fault
<1>10. QED
  BY <1>6, <1>7, <1>8, <1>9

LEMMA CopyStep ==
    ASSUME CopyInv, [Next]_vars
    PROVE  CopyInv'
<1>1. ASSUME NEW e \in Event, Emit(e)
      PROVE  CopyInv'
  BY <1>1, EmitIsPaid
<1>2. CASE UNCHANGED vars
  <2>1. TypeInv' /\ Sorted'
    BY TypeStep, SortedStep DEF CopyInv
  <2>2. Told' /\ FreshIsNew' /\ Paid'
    BY <1>2 DEF vars, producer, server, CopyInv, Told, FreshIsNew, Paid, Useless, Rows, Heard,
                Retried, Duplicates, Owed
  <2>3. QED
    BY <2>1, <2>2 DEF CopyInv
<1>3. QED
  BY <1>1, <1>2, PeekIsPaid, SendIsPaid, ClosingIsPaid DEF Next, DispatcherStep

\* In a state where the books balance there is no more than one duplicate per fault:
\* a row that is owed is useless itself.
LEMMA CopiesArePaid ==
    ASSUME CopyInv
    PROVE  DuplicatesHaveACause
<1>1. /\ Cardinality(Useless) \in Nat /\ Cardinality(Retried) \in Nat
      /\ Cardinality(Duplicates) \in Nat /\ faults \in Nat
  <2>1. faults \in 0..MaxFaults
    BY DEF CopyInv, TypeInv, TypeOK
  <2>2. QED
    BY <2>1, FS_CardinalityType DEF CopyInv, Paid
<1>2. Cardinality(Useless) + Cardinality(Retried) + Cardinality(Duplicates) <= faults + Owed
  BY DEF CopyInv, Paid
<1>3. CASE phase # "sent"
  BY <1>1, <1>2, <1>3 DEF Owed, DuplicatesHaveACause
<1>4. CASE phase = "sent"
  <2>1. phase # "idle" /\ TypeInv
    BY <1>4 DEF CopyInv
  <2>2. Head(batch) \in Useless
    BY <1>4, <2>1, BatchFacts DEF Useless, Surplus, Heard, Rows, Told, CopyInv
  <2>3. Cardinality(Useless) # 0
    BY <2>2, FS_EmptySet DEF CopyInv, Paid
  <2>4. QED
    BY <1>1, <1>2, <2>3 DEF Owed, DuplicatesHaveACause
<1>5. QED
  BY <1>3, <1>4

\* The price of at-least-once: the server sees no more duplicates than there were
\* lost answers, failed statements or commits, and crashes, whether or not SQLite
\* gives transactions up, and however often payloads are offered again.
THEOREM DuplicatesArePaidFor == Spec => []DuplicatesHaveACause
<1>1. Init => CopyInv
  BY CopyInit
<1>2. CopyInv /\ [Next]_vars => CopyInv'
  BY CopyStep
<1>3. CopyInv => DuplicatesHaveACause
  BY CopiesArePaid
<1>4. QED
  BY <1>1, <1>2, <1>3, PTL DEF Spec

-----------------------------------------------------------------------------
(* The queue that all of it implements *)

Known == accepted \cup {e \in Event : attempts[e] > 0}

\* What db held is in new, settled or not; no eviction is forgotten.
Keeps(new, db) ==
    /\ db.evicted \subseteq new.evicted
    /\ \A e \in EventsOf(db.rows) :
          e \in EventsOf(new.rows) \cup new.evicted \/ copies[e] > 0 \/ e \in rejected

\* Nothing is given up that was not offered.
GivenUpIsKnown == rejected \cup disk.evicted \cup conn.evicted \subseteq Known

\* The connection is ahead of the disk: no commit brings an event back or loses one.
QueueInv == LossInv /\ CopyInv /\ Keeps(conn, disk) /\ GivenUpIsKnown

LEMMA KeepsTransitive ==
    ASSUME NEW a, NEW b, NEW c, Keeps(b, a), Keeps(c, b)
    PROVE  Keeps(c, a)
BY DEF Keeps

\* The server learns, no event is unlearnt.
LEMMA KeepsLater ==
    ASSUME TypeInv, conn' = conn, disk' = disk, rejected \subseteq rejected',
           \A e \in Event : copies[e] > 0 => copies'[e] > 0,
           Keeps(conn, disk)
    PROVE  Keeps(conn, disk)'
<1>1. EventsOf(disk.rows) \subseteq Event
  BY TypeFacts, RowsType
<1>2. QED
  BY <1>1 DEF Keeps

LEMMA KnownRows ==
    ASSUME CopyInv
    PROVE  /\ \A r \in Rows : r.event \in Known
           /\ Heard \subseteq Known
<1>1. attempts \in [Event -> 0..MaxEmitAttempts] /\ Rows \in SUBSET Row
  BY RowsAreRows DEF CopyInv, TypeInv, TypeOK
<1>2. \A r \in Rows : r.event \in Event
  BY <1>1 DEF Row
<1>3. \A e \in Event : attempts[e] = 0 \/ attempts[e] > 0
  BY <1>1
<1>4. \A e \in Event : e \notin Known => copies[e] = 0 /\ \A r \in Rows : r.event # e
  BY <1>3 DEF Known, CopyInv, FreshIsNew
<1>5. \A e \in Heard : e \in Event /\ copies[e] > 0
  BY DEF Heard
<1>6. QED
  BY <1>2, <1>4, <1>5

\* The three states enqueue takes the connection through lose nothing, and evict
\* nothing but what was in it.
LEMMA EnqueueKeeps ==
    ASSUME TypeInv, NEW e \in Event,
           NEW db \in {conn, Insert(conn, e), EvictOldestIfFull(Insert(conn, e))}
    PROVE  /\ Keeps(db, conn)
           /\ db.evicted \subseteq conn.evicted \cup EventsOf(conn.rows) \cup {e}
<1> DEFINE mid == Insert(conn, e)  new == EvictOldestIfFull(mid)
<1>1. DbOK(conn)
  BY DEF TypeInv
<1>2. /\ DbOK(mid) /\ mid.evicted = conn.evicted
      /\ ToSet(mid.rows) = ToSet(conn.rows) \cup {[id |-> conn.lastId + 1, event |-> e]}
  BY <1>1, InsertFollows DEF Follows
<1>3. mid.evicted \subseteq new.evicted /\ new.evicted \subseteq mid.evicted \cup EventsOf(mid.rows)
  BY <1>2, EvictFollows
<1>4. EventsOf(mid.rows) = EventsOf(conn.rows) \cup {e}
  <2>1. PICK row : row = [id |-> conn.lastId + 1, event |-> e]
    OBVIOUS
  <2>2. row.event = e /\ ToSet(mid.rows) = ToSet(conn.rows) \cup {row}
    BY <1>2, <2>1
  <2> HIDE DEF mid
  <2>3. QED
    BY <2>2 DEF EventsOf
<1>5. Follows(db, conn)
  BY EnqueueStages
<1> HIDE DEF mid, new
<1>6. /\ conn.evicted \subseteq db.evicted
      /\ db.evicted \subseteq conn.evicted \cup EventsOf(conn.rows) \cup {e}
  <2>1. db \in {conn, mid, new}
    BY DEF mid, new
  <2>2. QED
    BY <2>1, <1>2, <1>3, <1>4
<1>7. QED
  BY <1>5, <1>6 DEF Follows, Keeps

LEMMA DeleteKeeps ==
    ASSUME LossInv, phase \in {"sent", "rejected"}
    PROVE  Keeps(Delete(conn, Head(batch).id), conn)
<1>1. PICK id, new : id = Head(batch).id /\ new = Delete(conn, id)
  OBVIOUS
<1>2. /\ new.evicted = conn.evicted
      /\ \A r \in ToSet(conn.rows) : r.id # id => r \in ToSet(new.rows)
  BY <1>1, DeleteKeepsOthers DEF LossInv, TypeInv
<1>3. Head(batch) \in ToSet(batch)
  BY BatchFacts DEF LossInv
<1>4. ASSUME NEW e \in EventsOf(conn.rows)
      PROVE  e \in EventsOf(new.rows) \/ copies[e] > 0 \/ e \in rejected
  <2>1. PICK r \in ToSet(conn.rows) : r.event = e
    BY DEF EventsOf
  <2>2. CASE r.id = id
    <3>1. e = Head(batch).event
      BY <1>1, <1>3, <2>1, <2>2 DEF LossInv, BatchIsCurrent
    <3>2. QED
      BY <3>1 DEF LossInv, Told
  <2>3. CASE r.id # id
    BY <1>2, <2>1, <2>3 DEF EventsOf
  <2>4. QED
    BY <2>2, <2>3
<1>5. QED
  BY <1>1, <1>2, <1>4 DEF Keeps

LEMMA KnownRowsNext ==
    CopyInv' => (\A r \in Rows : r.event \in Known)' /\ (Heard \subseteq Known)'
<1>1. CopyInv => (\A r \in Rows : r.event \in Known) /\ (Heard \subseteq Known)
  BY KnownRows
<1>2. QED
  BY <1>1, PTL

QueueStep == Queue!Next \/ UNCHANGED Queue!queue

\* What a commit leaves is what the connection had, but for settled events.
LEMMA CommitIsWrite ==
    ASSUME TypeInv, Keeps(conn, disk), CopyInv', GivenUpIsKnown',
           NEW db, Commit(db), Keeps(db, conn),
           copies' = copies, rejected' = rejected
    PROVE  Queue!Write
<1>1. Keeps(db, disk) /\ disk' = db
  BY KeepsTransitive DEF Commit
<1>2. EventsOf(disk'.rows) \subseteq Known'
  BY KnownRowsNext DEF EventsOf, Rows
<1>3. rejected' \cup disk'.evicted \subseteq Known'
  BY DEF GivenUpIsKnown
<1>4. \A e \in EventsOf(disk.rows) : e \in Event
  <2>1. EventsOf(disk.rows) \subseteq Event
    BY TypeFacts, RowsType
  <2>2. QED
    BY <2>1
<1>5. QED
  BY <1>1, <1>2, <1>3, <1>4 DEF Queue!Write, Keeps, Known

\* The invariant of the queue without what LossStep and CopyStep carry.
QueueKeeps == Keeps(conn, disk) /\ GivenUpIsKnown

LEMMA EmitIsQueued ==
    ASSUME QueueInv, ~RollsBack, NEW e \in Event, Emit(e), CopyInv'
    PROVE  QueueKeeps' /\ QueueStep
<1>1. /\ TypeInv /\ CopyInv /\ copies' = copies /\ rejected' = rejected
      /\ Keeps(conn, disk) /\ GivenUpIsKnown
  BY DEF QueueInv, CopyInv, Emit, server
<1>2. Known' = Known \cup {e}
  <2>1. attempts \in [Event -> 0..MaxEmitAttempts]
    BY <1>1 DEF TypeInv, TypeOK
  <2>2. CASE Enqueue(e)
    BY <2>2 DEF Enqueue, Known
  <2>3. CASE EnqueueRaises(e)
    <3>1. attempts' = [attempts EXCEPT ![e] = @ + 1] /\ accepted' = accepted
      BY <2>3 DEF EnqueueRaises
    <3>2. \A x \in Event : attempts'[x] > 0 <=> attempts[x] > 0 \/ x = e
      BY <2>1, <3>1
    <3>3. QED
      BY <3>1, <3>2 DEF Known
  <2>4. QED
    BY <2>2, <2>3 DEF Emit
<1>3. Heard' = Heard
  BY <1>1 DEF Heard
<1>4. PICK db : db = conn'
  OBVIOUS
<1>5. db \in {conn, Insert(conn, e), EvictOldestIfFull(Insert(conn, e))}
  <2>1. CASE Enqueue(e)
    BY <2>1, <1>4 DEF Enqueue, Commit
  <2>2. CASE EnqueueRaises(e)
    BY <2>2, <1>4, RaiseOutcome DEF EnqueueRaises
  <2>3. QED
    BY <2>1, <2>2 DEF Emit
<1>6. /\ Keeps(db, conn)
      /\ db.evicted \subseteq conn.evicted \cup EventsOf(conn.rows) \cup {e}
  BY <1>1, <1>5, EnqueueKeeps
<1>7. EventsOf(conn.rows) \subseteq Known
  BY <1>1, KnownRows DEF EventsOf, Rows
<1>8. rejected' \cup disk.evicted \cup conn'.evicted \subseteq Known'
  BY <1>1, <1>2, <1>3, <1>4, <1>6, <1>7 DEF GivenUpIsKnown
<1>9. CASE Enqueue(e)
  <2>1. /\ Commit(db) /\ disk' = conn' /\ conn' = db /\ accepted' = accepted \cup {e}
        /\ db = EvictOldestIfFull(Insert(conn, e))
    BY <1>4, <1>9 DEF Enqueue, Commit
  <2>2. GivenUpIsKnown'
    BY <1>8, <2>1 DEF GivenUpIsKnown
  <2>3. Keeps(conn, disk)'
    BY <2>1 DEF Keeps
  <2>4. Queue!Write
    BY <1>1, <1>6, <2>1, <2>2, CommitIsWrite
  <2>5. e \in EventsOf(disk'.rows) \cup disk'.evicted
    BY <1>1, <1>5, <2>1, EnqueueStages
  <2>6. Queue!Put(e)
    BY <1>2, <1>3, <2>1, <2>4, <2>5 DEF Queue!Put, Known, Heard
  <2>7. QED
    BY <2>2, <2>3, <2>6 DEF QueueKeeps, QueueStep, Queue!Next
<1>10. CASE EnqueueRaises(e)
  <2>1. disk' = disk /\ accepted' = accepted
    BY <1>10 DEF EnqueueRaises, Raise
  <2>2. GivenUpIsKnown'
    BY <1>8, <2>1 DEF GivenUpIsKnown
  <2>3. Keeps(db, disk)
    BY <1>1, <1>6, KeepsTransitive
  <2>4. Keeps(conn, disk)'
    BY <1>1, <1>4, <2>1, <2>3 DEF Keeps
  <2>5. Queue!Attempt(e)
    BY <1>1, <1>2, <1>3, <2>1 DEF Queue!Attempt, Known, Heard
  <2>6. QED
    BY <2>2, <2>4, <2>5 DEF QueueKeeps, QueueStep, Queue!Next
<1>11. QED
  BY <1>9, <1>10 DEF Emit

LEMMA SendIsQueued ==
    ASSUME QueueInv, SendSucceeds \/ SendLosesAnswer \/ SendFails \/ SendIsFatal
    PROVE  QueueKeeps' /\ QueueStep
<1>1. /\ phase = "send" /\ disk' = disk /\ conn' = conn
      /\ attempts' = attempts /\ accepted' = accepted
  BY DEF SendSucceeds, SendLosesAnswer, SendFails, SendIsFatal, Send, producer
<1>2. TypeInv /\ CopyInv /\ Keeps(conn, disk) /\ GivenUpIsKnown /\ phase # "idle"
  BY <1>1 DEF QueueInv, CopyInv
<1>3. PICK h : h = Head(batch).event
  OBVIOUS
<1>4. h \in Event /\ h \in Known /\ copies \in [Event -> Nat]
  <2>1. Head(batch) \in Rows /\ Head(batch).event \in Event
    BY <1>2, BatchFacts DEF Rows
  <2>2. QED
    BY <1>2, <1>3, <2>1, KnownRows DEF TypeInv, TypeOK
<1>5. Known' = Known
  BY <1>1 DEF Known
<1>6. /\ \A e \in Event : copies[e] > 0 => copies'[e] > 0
      /\ rejected' \in {rejected, rejected \cup {h}}
      /\ \/ Heard' = Heard \cup {h} /\ rejected' = rejected
         \/ Heard' = Heard /\ rejected' = rejected \cup {h}
         \/ Heard' = Heard /\ rejected' = rejected
  <2>1. CASE Received /\ rejected' = rejected
    <3>1. copies' = [copies EXCEPT ![h] = @ + 1]
      BY <1>3, <2>1 DEF Received
    <3>2. \A e \in Event : copies'[e] > 0 <=> copies[e] > 0 \/ e = h
      BY <1>4, <3>1
    <3>3. Heard' = Heard \cup {h}
      BY <1>4, <3>2 DEF Heard
    <3>4. QED
      BY <2>1, <3>2, <3>3
  <2>2. CASE copies' = copies /\ rejected' \in {rejected, rejected \cup {h}}
    BY <2>2 DEF Heard
  <2>3. QED
    BY <1>3, <2>1, <2>2 DEF SendSucceeds, SendLosesAnswer, SendFails, SendIsFatal, server
<1>7. Keeps(conn, disk)'
  BY <1>1, <1>2, <1>6, KeepsLater
<1>8. GivenUpIsKnown'
  BY <1>1, <1>2, <1>4, <1>5, <1>6 DEF GivenUpIsKnown
<1>9. CASE Heard' = Heard \cup {h} /\ rejected' = rejected
  <2>1. Queue!Deliver(h)
    BY <1>1, <1>4, <1>5, <1>9 DEF Queue!Deliver, Known, Heard
  <2>2. QED
    BY <1>4, <1>7, <1>8, <2>1 DEF QueueKeeps, QueueStep, Queue!Next
<1>10. CASE Heard' = Heard /\ rejected' = rejected \cup {h}
  <2>1. Queue!Reject(h)
    BY <1>1, <1>4, <1>5, <1>10 DEF Queue!Reject, Known, Heard
  <2>2. QED
    BY <1>4, <1>7, <1>8, <2>1 DEF QueueKeeps, QueueStep, Queue!Next
<1>11. CASE Heard' = Heard /\ rejected' = rejected
  BY <1>1, <1>5, <1>7, <1>8, <1>11
     DEF QueueKeeps, QueueStep, Queue!queue, Known, Heard
<1>12. QED
  BY <1>6, <1>9, <1>10, <1>11

\* A commit of the dispatcher cleans; a call of it that raised shows nothing.
LEMMA CloseIsQueued ==
    ASSUME QueueInv, ~RollsBack, CopyInv', UNCHANGED <<producer, server>>,
           NEW db, Keeps(db, conn), db.evicted = conn.evicted,
           Commit(db) \/ Raise({conn, db})
    PROVE  QueueKeeps' /\ QueueStep
<1>1. /\ TypeInv /\ CopyInv /\ Keeps(conn, disk) /\ GivenUpIsKnown
      /\ attempts' = attempts /\ accepted' = accepted
      /\ copies' = copies /\ rejected' = rejected
  BY DEF QueueInv, CopyInv, producer, server
<1>2. Known' = Known /\ Heard' = Heard
  BY <1>1 DEF Known, Heard
<1>3. CASE Commit(db)
  <2>1. conn' = db /\ disk' = db
    BY <1>3 DEF Commit
  <2>2. GivenUpIsKnown'
    BY <1>1, <1>2, <2>1 DEF GivenUpIsKnown
  <2>3. Keeps(conn, disk)'
    BY <2>1 DEF Keeps
  <2>4. Queue!Write
    BY <1>1, <1>3, <2>2, CommitIsWrite
  <2>5. Queue!Clean
    BY <1>1, <1>2, <2>4 DEF Queue!Clean, Known, Heard
  <2>6. QED
    BY <2>2, <2>3, <2>5 DEF QueueKeeps, QueueStep, Queue!Next
<1>4. CASE Raise({conn, db})
  <2>1. disk' = disk /\ conn' \in {conn, db}
    BY <1>4, RaiseOutcome DEF Raise
  <2>2. GivenUpIsKnown'
    BY <1>1, <1>2, <2>1 DEF GivenUpIsKnown
  <2>3. Keeps(db, disk)
    BY <1>1, KeepsTransitive
  <2>4. Keeps(conn, disk)'
    BY <1>1, <2>1, <2>3 DEF Keeps
  <2>5. UNCHANGED Queue!queue
    BY <1>1, <1>2, <2>1 DEF Queue!queue, Known, Heard
  <2>6. QED
    BY <2>2, <2>4, <2>5 DEF QueueKeeps, QueueStep
<1>5. QED
  BY <1>3, <1>4

LEMMA ClosingIsQueued ==
    ASSUME QueueInv, ~RollsBack, CopyInv', MarkSent \/ RecordAttempt
    PROVE  QueueKeeps' /\ QueueStep
<1>1. LossInv /\ TypeInv
  BY DEF QueueInv, LossInv
<1>2. CASE MarkSent
  <2>1. /\ phase \in {"sent", "rejected"} /\ UNCHANGED <<producer, server>>
        /\ \/ Commit(Delete(conn, Head(batch).id))
           \/ Raise({conn, Delete(conn, Head(batch).id)})
    BY <1>2 DEF MarkSent
  <2>2. /\ Keeps(Delete(conn, Head(batch).id), conn)
        /\ Delete(conn, Head(batch).id).evicted = conn.evicted
    BY <1>1, <2>1, DeleteKeeps, DeleteKeepsOthers DEF TypeInv
  <2>3. QED
    BY <2>1, <2>2, CloseIsQueued
<1>3. CASE RecordAttempt
  <2>1. /\ UNCHANGED <<producer, server>>
        /\ (Commit(conn) \/ Raise({conn})) /\ {conn} = {conn, conn}
    BY <1>3 DEF RecordAttempt
  <2>2. Keeps(conn, conn)
    BY DEF Keeps
  <2>3. QED
    BY <2>1, <2>2, CloseIsQueued
<1>4. QED
  BY <1>2, <1>3

\* A restart takes the connection back to the disk, where nothing is missing.
LEMMA RestartIsQueued ==
    ASSUME QueueInv, Restart
    PROVE  QueueKeeps' /\ QueueStep
<1>1. /\ conn' = disk /\ disk' = disk /\ accepted' = accepted
      /\ copies' = copies /\ rejected' = rejected
      /\ attempts' = [e \in Event |-> IF attempts[e] > 0 THEN MaxEmitAttempts ELSE 0]
      /\ MaxEmitAttempts > 0
  BY TypeFacts DEF Restart, server, QueueInv, CopyInv
<1>2. Known' = Known /\ Heard' = Heard
  BY <1>1 DEF Known, Heard
<1>3. Keeps(conn, disk)'
  BY <1>1 DEF Keeps
<1>4. GivenUpIsKnown'
  BY <1>1, <1>2 DEF GivenUpIsKnown, QueueInv
<1>5. UNCHANGED Queue!queue
  BY <1>1, <1>2 DEF Queue!queue, Known, Heard
<1>6. QED
  BY <1>3, <1>4, <1>5 DEF QueueKeeps, QueueStep

LEMMA QueueFollows ==
    ASSUME QueueInv, ~RollsBack, [Next]_vars
    PROVE  QueueInv' /\ QueueStep
<1>1. LossInv' /\ CopyInv'
  BY LossStep, CopyStep DEF QueueInv
<1>2. QueueKeeps' /\ QueueStep
  <2>1. ASSUME NEW e \in Event, Emit(e)
        PROVE  QueueKeeps' /\ QueueStep
    BY <1>1, <2>1, EmitIsQueued
  <2>2. CASE PeekBatch \/ UNCHANGED vars
    <3>1. /\ disk' = disk /\ conn' = conn /\ attempts' = attempts /\ accepted' = accepted
          /\ copies' = copies /\ rejected' = rejected
      BY <2>2 DEF PeekBatch, vars, producer, server
    <3>2. QueueKeeps'
      BY <3>1 DEF QueueKeeps, QueueInv, Keeps, GivenUpIsKnown, Known
    <3>3. UNCHANGED Queue!queue
      BY <3>1 DEF Queue!queue
    <3>4. QED
      BY <3>2, <3>3 DEF QueueStep
  <2>3. QED
    BY <1>1, <2>1, <2>2, SendIsQueued, ClosingIsQueued, RestartIsQueued
       DEF Next, DispatcherStep
<1>3. QED
  BY <1>1, <1>2 DEF QueueInv, QueueKeeps

\* Unless SQLite gives a transaction up, spool, hasher and dispatcher implement the
\* at-least-once queue: each of their steps, failed or not, is one of its steps or
\* does not show.
THEOREM ImplementsTheQueue ==
    ASSUME ~RollsBack
    PROVE  Spec => QueueKept
<1>1. Init => QueueInv /\ Queue!Init
  <2> SUFFICES ASSUME Init PROVE QueueInv /\ Queue!Init
    OBVIOUS
  <2>1. LossInv /\ CopyInv
    BY LossInit, CopyInit
  <2>2. /\ disk.rows = <<>> /\ disk.evicted = {} /\ conn = disk /\ rejected = {}
        /\ accepted = {} /\ \A e \in Event : attempts[e] = 0 /\ copies[e] = 0
    BY DEF Init, EmptyDatabase
  <2>3. EventsOf(disk.rows) = {}
    BY <2>2 DEF EventsOf, ToSet
  <2>4. Keeps(conn, disk) /\ GivenUpIsKnown
    BY <2>2, <2>3 DEF Keeps, GivenUpIsKnown
  <2>5. Queue!Init
    BY <2>2, <2>3 DEF Queue!Init
  <2>6. QED
    BY <2>1, <2>4, <2>5 DEF QueueInv
<1>2. QueueInv /\ [Next]_vars => QueueInv' /\ QueueStep
  BY QueueFollows
<1>3. QueueStep => [Queue!Next]_(Queue!queue)
  BY DEF QueueStep
<1>4. QED
  BY <1>1, <1>2, <1>3, PTL DEF Spec, QueueKept, Queue!Spec

\* The queue promises what a client of enqueue relies on: in any system that implements
\* it, an accepted event is on the disk until the server saw it, refused it, or it was
\* evicted.  Neither connection nor transactions are needed to see that.
StoredOrSettled ==
    accepted \subseteq EventsOf(disk.rows) \cup {e \in Event : copies[e] > 0}
                         \cup rejected \cup disk.evicted

THEOREM TheQueueIsAtLeastOnce == QueueKept => []AcceptedIsNotLost
<1>1. Queue!Init => StoredOrSettled
  BY DEF Queue!Init, StoredOrSettled
<1>2. StoredOrSettled /\ [Queue!Next]_(Queue!queue) => StoredOrSettled'
  <2> SUFFICES ASSUME StoredOrSettled, [Queue!Next]_(Queue!queue) PROVE StoredOrSettled'
    OBVIOUS
  <2>1. CASE UNCHANGED Queue!queue
    BY <2>1 DEF Queue!queue, StoredOrSettled
  <2>2. CASE Queue!Clean
    BY <2>2 DEF Queue!Clean, Queue!Write, StoredOrSettled
  <2>3. ASSUME NEW e \in Event, Queue!Put(e) PROVE StoredOrSettled'
    BY <2>3 DEF Queue!Put, Queue!Write, StoredOrSettled
  <2>4. ASSUME NEW e \in Event, Queue!Attempt(e) \/ Queue!Deliver(e) \/ Queue!Reject(e)
        PROVE  StoredOrSettled'
    BY <2>4 DEF Queue!Attempt, Queue!Deliver, Queue!Reject, StoredOrSettled
  <2>5. QED
    BY <2>1, <2>2, <2>3, <2>4 DEF Queue!Next
<1>3. StoredOrSettled => AcceptedIsNotLost
  BY DEF StoredOrSettled, AcceptedIsNotLost, Settled
<1>4. QED
  BY <1>1, <1>2, <1>3, PTL DEF QueueKept, Queue!Spec
===============================================================================
