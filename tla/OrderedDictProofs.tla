--------------------------- MODULE OrderedDictProofs ---------------------------
(***************************************************************************)
(* What the operations on lists and ordered dictionaries return: a list of *)
(* the same type, of the expected length, and the same observations.       *)
(***************************************************************************)
EXTENDS OrderedDict, TLAPS

LEMMA ObsEmpty == Obs(<<>>) = {}
BY DEF Obs

LEMMA ObsAppend ==
    ASSUME NEW S, NEW s \in Seq(S), NEW e \in S
    PROVE  /\ Append(s, e) \in Seq(S)
           /\ Obs(Append(s, e)) = Obs(s) \cup e.obs
<1>1. DOMAIN Append(s, e) = DOMAIN s \cup {Len(s) + 1}
  OBVIOUS
<1>2. Append(s, e)[Len(s) + 1] = e /\ \A i \in DOMAIN s : Append(s, e)[i] = s[i]
  OBVIOUS
<1>3. QED
  BY <1>1, <1>2 DEF Obs

LEMMA ObsMember ==
    ASSUME NEW s, NEW x
    PROVE  x \in Obs(s) <=> \E i \in DOMAIN s : x \in s[i].obs
BY DEF Obs

LEMMA ConcatItems ==
    ASSUME NEW S, NEW s \in Seq(S), NEW t \in Seq(S)
    PROVE  /\ s \o t \in Seq(S) /\ Len(s \o t) = Len(s) + Len(t)
           /\ DOMAIN (s \o t) = 1..(Len(s) + Len(t))
           /\ \A i \in 1..Len(s) : (s \o t)[i] = s[i]
           /\ \A i \in 1..Len(t) : (s \o t)[Len(s) + i] = t[i]
OBVIOUS

LEMMA SubSeqItems ==
    ASSUME NEW S, NEW s \in Seq(S), NEW m \in Nat \ {0}, NEW n \in 0..Len(s), m <= n + 1
    PROVE  /\ SubSeq(s, m, n) \in Seq(S) /\ Len(SubSeq(s, m, n)) = n - m + 1
           /\ \A i \in 1..(n - m + 1) : SubSeq(s, m, n)[i] = s[m + i - 1]
OBVIOUS

LEMMA ObsConcat ==
    ASSUME NEW S, NEW s \in Seq(S), NEW t \in Seq(S)
    PROVE  /\ s \o t \in Seq(S)
           /\ Obs(s \o t) = Obs(s) \cup Obs(t)
<1> DEFINE c == s \o t
<1>1. /\ c \in Seq(S) /\ DOMAIN c = 1..(Len(s) + Len(t))
      /\ \A i \in 1..Len(s) : c[i] = s[i]
      /\ \A i \in 1..Len(t) : c[Len(s) + i] = t[i]
  OBVIOUS
<1> DOMAIN s = 1..Len(s) /\ DOMAIN t = 1..Len(t) /\ Len(s) \in Nat /\ Len(t) \in Nat
  OBVIOUS
<1> HIDE DEF c
<1>2. \A i \in DOMAIN c : \/ \E j \in DOMAIN s : c[i] = s[j]
                          \/ \E j \in DOMAIN t : c[i] = t[j]
  <2> TAKE i \in DOMAIN c
  <2>1. CASE i <= Len(s)
    BY <1>1, <2>1
  <2>2. CASE i > Len(s)
    <3>1. i - Len(s) \in DOMAIN t /\ Len(s) + (i - Len(s)) = i
      BY <1>1, <2>2
    <3>2. QED  BY <1>1, <3>1
  <2>3. QED
    BY <1>1, <2>1, <2>2
<1>3. \A j \in DOMAIN s : j \in DOMAIN c /\ c[j] = s[j]
  BY <1>1
<1>4. \A j \in DOMAIN t : Len(s) + j \in DOMAIN c /\ c[Len(s) + j] = t[j]
  BY <1>1
<1>5. Obs(c) = Obs(s) \cup Obs(t)
  <2>1. ASSUME NEW x \in Obs(c)
        PROVE  x \in Obs(s) \cup Obs(t)
    BY <2>1, <1>2, ObsMember
  <2>2. ASSUME NEW x \in Obs(s)
        PROVE  x \in Obs(c)
    BY <2>2, <1>3, ObsMember
  <2>3. ASSUME NEW x \in Obs(t)
        PROVE  x \in Obs(c)
    BY <2>3, <1>4, ObsMember
  <2>4. QED
    BY <2>1, <2>2, <2>3
<1>6. QED
  BY <1>1, <1>5 DEF c

LEMMA ObsSubSeq ==
    ASSUME NEW S, NEW s \in Seq(S), NEW m \in Nat \ {0}, NEW n \in 0..Len(s), m <= n + 1
    PROVE  /\ SubSeq(s, m, n) \in Seq(S)
           /\ Len(SubSeq(s, m, n)) = n - m + 1
           /\ Obs(SubSeq(s, m, n)) = UNION {s[i].obs : i \in m..n}
<1> DEFINE t == SubSeq(s, m, n)
<1>1. /\ t \in Seq(S) /\ Len(t) = n - m + 1 /\ DOMAIN t = 1..(n - m + 1)
      /\ \A i \in 1..(n - m + 1) : t[i] = s[m + i - 1]
  OBVIOUS
<1> HIDE DEF t
<1>2. \A i \in m..n : i - m + 1 \in DOMAIN t /\ t[i - m + 1] = s[i]
  BY <1>1
<1>3. \A i \in DOMAIN t : m + i - 1 \in m..n /\ t[i] = s[m + i - 1]
  BY <1>1
<1>4. Obs(t) = UNION {s[i].obs : i \in m..n}
  <2>1. ASSUME NEW x \in Obs(t)
        PROVE  x \in UNION {s[i].obs : i \in m..n}
    BY <2>1, <1>3 DEF Obs
  <2>2. ASSUME NEW x \in UNION {s[i].obs : i \in m..n}
        PROVE  x \in Obs(t)
    <3>1. PICK i \in m..n : x \in s[i].obs
      BY <2>2
    <3>2. i - m + 1 \in DOMAIN t /\ x \in t[i - m + 1].obs
      BY <3>1, <1>2
    <3>3. QED
      BY <3>2 DEF Obs
  <2>3. QED
    BY <2>1, <2>2
<1>5. QED
  BY <1>1, <1>4 DEF t

LEMMA ObsHeadTail ==
    ASSUME NEW S, NEW s \in Seq(S), s # <<>>
    PROVE  /\ Head(s) \in S /\ Tail(s) \in Seq(S) /\ Len(Tail(s)) = Len(s) - 1
           /\ Obs(s) = Head(s).obs \cup Obs(Tail(s))
<1> DEFINE t == Tail(s)
<1>1. /\ Head(s) = s[1] /\ s[1] \in S /\ t \in Seq(S) /\ Len(t) = Len(s) - 1
      /\ Len(s) \in Nat /\ Len(s) >= 1 /\ DOMAIN s = 1..Len(s) /\ DOMAIN t = 1..(Len(s) - 1)
      /\ \A i \in 1..(Len(s) - 1) : t[i] = s[i + 1]
  OBVIOUS
<1> HIDE DEF t
<1>2. \A i \in DOMAIN t : i + 1 \in DOMAIN s /\ t[i] = s[i + 1]
  BY <1>1
<1>3. \A i \in DOMAIN s : i = 1 \/ (i - 1 \in DOMAIN t /\ t[i - 1] = s[i])
  BY <1>1
<1>4. ASSUME NEW x \in Obs(s)
      PROVE  x \in s[1].obs \cup Obs(t)
  BY <1>4, <1>3, ObsMember
<1>5. ASSUME NEW x \in Obs(t)
      PROVE  x \in Obs(s)
  BY <1>5, <1>2, ObsMember
<1>6. ASSUME NEW x \in s[1].obs
      PROVE  x \in Obs(s)
  BY <1>6, <1>1, ObsMember
<1>7. Obs(s) = s[1].obs \cup Obs(t)
  BY <1>4, <1>5, <1>6
<1>8. QED
  BY <1>1, <1>7 DEF t

LEMMA ObsSingleton ==
    ASSUME NEW e
    PROVE  Obs(<<e>>) = e.obs
BY DEF Obs

\* Adding observations to one entry.
Updated(s, k, e) == [s EXCEPT ![k] = e]

LEMMA ObsUpdated ==
    ASSUME NEW S, NEW s \in Seq(S), NEW k \in DOMAIN s, NEW e \in S, NEW X,
           e.obs = s[k].obs \cup X
    PROVE  /\ Updated(s, k, e) \in Seq(S)
           /\ Len(Updated(s, k, e)) = Len(s)
           /\ Obs(Updated(s, k, e)) = Obs(s) \cup X
<1> DEFINE t == Updated(s, k, e)
<1>1. t \in Seq(S) /\ Len(t) = Len(s)
  BY DEF Updated
<1>2. DOMAIN t = DOMAIN s /\ t[k].obs = s[k].obs \cup X
  BY DEF Updated
<1>3. \A i \in DOMAIN s : i # k => t[i] = s[i]
  BY DEF Updated
<1>4. Obs(t) = Obs(s) \cup X
  <2> HIDE DEF t
  <2> QED  BY <1>2, <1>3 DEF Obs
<1>5. QED
  BY <1>1, <1>4

\* A list cut in two.
LEMMA ObsCut ==
    ASSUME NEW S, NEW s \in Seq(S), NEW m \in 0..Len(s)
    PROVE  /\ SubSeq(s, 1, m) \in Seq(S) /\ SubSeq(s, m + 1, Len(s)) \in Seq(S)
           /\ Len(SubSeq(s, 1, m)) = m
           /\ Len(SubSeq(s, m + 1, Len(s))) = Len(s) - m
           /\ Obs(s) = Obs(SubSeq(s, 1, m)) \cup Obs(SubSeq(s, m + 1, Len(s)))
<1> DEFINE l == SubSeq(s, 1, m)  r == SubSeq(s, m + 1, Len(s))
<1>1. /\ l \in Seq(S) /\ DOMAIN l = 1..m /\ Len(l) = m
      /\ \A i \in 1..m : l[i] = s[i]
  OBVIOUS
<1>2. /\ r \in Seq(S) /\ DOMAIN r = 1..(Len(s) - m) /\ Len(r) = Len(s) - m
      /\ \A i \in 1..(Len(s) - m) : r[i] = s[m + i]
  OBVIOUS
<1>3. Len(s) \in Nat /\ DOMAIN s = 1..Len(s) /\ m \in Nat /\ m <= Len(s)
  OBVIOUS
<1> HIDE DEF l, r
<1>4. \A i \in DOMAIN l : i \in DOMAIN s /\ l[i] = s[i]
  BY <1>1, <1>3
<1>5. \A i \in DOMAIN r : m + i \in DOMAIN s /\ r[i] = s[m + i]
  BY <1>2, <1>3
<1>6. \A i \in DOMAIN s : \/ i \in DOMAIN l /\ l[i] = s[i]
                          \/ i - m \in DOMAIN r /\ r[i - m] = s[i]
  BY <1>1, <1>2, <1>3
<1>7. ASSUME NEW x \in Obs(s)
      PROVE  x \in Obs(l) \cup Obs(r)
  BY <1>7, <1>6, ObsMember
<1>8. ASSUME NEW x \in Obs(l)
      PROVE  x \in Obs(s)
  BY <1>8, <1>4, ObsMember
<1>9. ASSUME NEW x \in Obs(r)
      PROVE  x \in Obs(s)
  BY <1>9, <1>5, ObsMember
<1>10. Obs(s) = Obs(l) \cup Obs(r)
  BY <1>7, <1>8, <1>9
<1>11. QED
  BY <1>1, <1>2, <1>10 DEF l, r

\* popitem(last=False) until the limit is met: evicted and kept are the whole.
LEMMA ObsEvict ==
    ASSUME NEW S, NEW s \in Seq(S), NEW n \in Nat
    PROVE  /\ Kept(s, n) \in Seq(S) /\ Evicted(s, n) \in Seq(S)
           /\ Len(Kept(s, n)) <= n
           /\ Obs(s) = Obs(Kept(s, n)) \cup Obs(Evicted(s, n))
<1> DEFINE m == Excess(s, n)
<1>1. m \in 0..Len(s) /\ Len(s) - m <= n
  BY DEF Excess
<1> HIDE DEF m
<1>2. /\ SubSeq(s, 1, m) \in Seq(S) /\ SubSeq(s, m + 1, Len(s)) \in Seq(S)
      /\ Len(SubSeq(s, m + 1, Len(s))) = Len(s) - m
      /\ Obs(s) = Obs(SubSeq(s, 1, m)) \cup Obs(SubSeq(s, m + 1, Len(s)))
  BY <1>1, ObsCut
<1>3. Kept(s, n) = SubSeq(s, m + 1, Len(s)) /\ Evicted(s, n) = SubSeq(s, 1, m)
  BY DEF Kept, Evicted, m
<1>4. QED
  BY <1>1, <1>2, <1>3

\* RemoveAt closes the gap.
LEMMA RemoveItems ==
    ASSUME NEW S, NEW s \in Seq(S), NEW k \in DOMAIN s
    PROVE  /\ RemoveAt(s, k) \in Seq(S)
           /\ Len(RemoveAt(s, k)) = Len(s) - 1
           /\ DOMAIN RemoveAt(s, k) = 1..(Len(s) - 1)
           /\ \A i \in 1..(k - 1) : /\ i \in DOMAIN RemoveAt(s, k)
                                    /\ RemoveAt(s, k)[i] = s[i]
           /\ \A i \in 1..(Len(s) - k) : /\ k - 1 + i \in DOMAIN RemoveAt(s, k)
                                         /\ RemoveAt(s, k)[k - 1 + i] = s[k + i]
<1> DEFINE l == SubSeq(s, 1, k - 1)  r == SubSeq(s, k + 1, Len(s))  t == l \o r
<1>1. k \in DOMAIN s
  OBVIOUS
<1>2. k \in 1..Len(s) /\ Len(s) \in Nat /\ s[k] \in S /\ DOMAIN s = 1..Len(s)
  BY <1>1
<1>3. /\ l \in Seq(S) /\ Len(l) = k - 1
      /\ \A i \in 1..(k - 1) : l[i] = s[i]
  BY <1>2
<1>4. /\ r \in Seq(S) /\ Len(r) = Len(s) - k
      /\ \A i \in 1..(Len(s) - k) : r[i] = s[k + i]
  <2>1. /\ k + 1 \in Nat \ {0} /\ Len(s) \in 0..Len(s) /\ k + 1 <= Len(s) + 1
        /\ Len(s) - (k + 1) + 1 = Len(s) - k
    BY <1>2
  <2>2. \A i \in 1..(Len(s) - k) : k + 1 + i - 1 = k + i
    BY <1>2
  <2>3. /\ r \in Seq(S) /\ Len(r) = Len(s) - (k + 1) + 1
        /\ \A i \in 1..(Len(s) - (k + 1) + 1) : r[i] = s[k + 1 + i - 1]
    BY <2>1, SubSeqItems
  <2> HIDE DEF r
  <2>4. QED
    BY <2>1, <2>2, <2>3
<1> HIDE DEF l, r
<1>5. /\ t \in Seq(S) /\ Len(t) = Len(l) + Len(r) /\ DOMAIN t = 1..(Len(l) + Len(r))
      /\ \A i \in 1..Len(l) : t[i] = l[i]
      /\ \A i \in 1..Len(r) : t[Len(l) + i] = r[i]
  <2>1. l \in Seq(S) /\ r \in Seq(S)
    BY <1>3, <1>4
  <2>2. QED
    BY <2>1
<1> HIDE DEF t
<1>6. Len(t) = Len(s) - 1 /\ DOMAIN t = 1..(Len(s) - 1)
  BY <1>2, <1>3, <1>4, <1>5
<1>7. \A i \in 1..(k - 1) : i \in DOMAIN t /\ t[i] = s[i]
  BY <1>2, <1>3, <1>5, <1>6
<1>8. \A i \in 1..(Len(s) - k) : /\ k - 1 + i \in DOMAIN t
                                 /\ t[k - 1 + i] = s[k + i]
  <2> TAKE i \in 1..(Len(s) - k)
  <2>1. k - 1 + i \in DOMAIN t
    BY <1>2, <1>6
  <2>2. t[k - 1 + i] = r[i]
    BY <1>3, <1>4, <1>5
  <2>3. QED
    BY <2>1, <2>2, <1>4
<1>9. RemoveAt(s, k) = t
  BY DEF RemoveAt, l, r, t
<1>10. QED
  BY <1>5, <1>6, <1>7, <1>8, <1>9

\* pop(key, None).
LEMMA ObsDiscard ==
    ASSUME NEW S, NEW s \in Seq(S), NEW p
    PROVE  /\ Discard(s, p) \in Seq(S)
           /\ p \in Keys(s) => /\ Position(s, p) \in DOMAIN s
                               /\ Lookup(s, p) \in S
                               /\ Len(Discard(s, p)) = Len(s) - 1
                               /\ Obs(s) = Lookup(s, p).obs \cup Obs(Discard(s, p))
           /\ p \notin Keys(s) => Discard(s, p) = s
<1>1. CASE p \notin Keys(s)
  BY <1>1, SMTT(60) DEF Discard
<1>2. CASE p \in Keys(s)
  <2> DEFINE k == Position(s, p)  t == RemoveAt(s, k)
  <2>1. k \in DOMAIN s
    BY <1>2 DEF Keys, Position
  <2> HIDE DEF k
  <2>2. k \in 1..Len(s) /\ Len(s) \in Nat /\ s[k] \in S /\ DOMAIN s = 1..Len(s)
    BY <2>1
  <2>3. /\ t \in Seq(S) /\ Len(t) = Len(s) - 1 /\ DOMAIN t = 1..(Len(s) - 1)
        /\ \A i \in 1..(k - 1) : i \in DOMAIN t /\ t[i] = s[i]
        /\ \A i \in 1..(Len(s) - k) : k - 1 + i \in DOMAIN t /\ t[k - 1 + i] = s[k + i]
    BY <2>1, RemoveItems
  <2> HIDE DEF t
  <2>4. \A i \in DOMAIN s : i = k \/ \E j \in DOMAIN t : t[j] = s[i]
    <3> SUFFICES ASSUME NEW i \in DOMAIN s, i # k
                 PROVE  \E j \in DOMAIN t : t[j] = s[i]
      OBVIOUS
    <3>1. CASE i < k
      BY <3>1, <2>2, <2>3
    <3>2. CASE i > k
      <4>1. i - k \in 1..(Len(s) - k) /\ k + (i - k) = i
        BY <3>2, <2>2
      <4>2. QED
        BY <4>1, <2>3
    <3>3. QED
      BY <3>1, <3>2, <2>2
  <2>5. \A j \in DOMAIN t : \E i \in DOMAIN s : t[j] = s[i]
    <3> TAKE j \in DOMAIN t
    <3>1. CASE j < k
      BY <3>1, <2>2, <2>3
    <3>2. CASE j >= k
      <4>1. /\ j - k + 1 \in 1..(Len(s) - k) /\ k - 1 + (j - k + 1) = j
            /\ k + (j - k + 1) \in DOMAIN s
        BY <3>2, <2>2, <2>3
      <4>2. QED
        BY <4>1, <2>3
    <3>3. QED
      BY <3>1, <3>2, <2>2, <2>3
  <2>6. ASSUME NEW x \in Obs(s)
         PROVE  x \in s[k].obs \cup Obs(t)
    BY <2>6, <2>4, ObsMember
  <2>7. ASSUME NEW x \in Obs(t)
         PROVE  x \in Obs(s)
    BY <2>7, <2>5, ObsMember
  <2>8. ASSUME NEW x \in s[k].obs
         PROVE  x \in Obs(s)
    BY <2>8, <2>1, ObsMember
  <2>9. Obs(s) = s[k].obs \cup Obs(t)
    BY <2>6, <2>7, <2>8
  <2>10. Discard(s, p) = t /\ Lookup(s, p) = s[k]
    BY <1>2 DEF Discard, Lookup, k, t
  <2>11. Position(s, p) = k
    BY DEF k
  <2>12. QED
    BY <1>2, <2>1, <2>2, <2>3, <2>9, <2>10, <2>11, Zenon
<1>3. QED
  BY <1>1, <1>2

\* due() cuts _pending in two.
LEMMA ObsSplit ==
    ASSUME NEW S, NEW d \in Seq(S), NEW s \in Splits(Len(d))
    PROVE  /\ Select(d, s[1]) \in Seq(S) /\ Select(d, s[2]) \in Seq(S)
           /\ Len(Select(d, s[2])) <= Len(d)
           /\ Obs(d) = Obs(Select(d, s[1])) \cup Obs(Select(d, s[2]))
<1>1. PICK f, g : /\ f = s[1] /\ f \in Selections(Len(d))
                  /\ g = s[2] /\ g \in Selections(Len(d))
                  /\ Range(f) \cup Range(g) = 1..Len(d)
  BY DEF Splits
<1>2. PICK m \in 0..Len(d) : f \in [1..m -> 1..Len(d)]
  BY <1>1 DEF Selections
<1>3. PICK n \in 0..Len(d) : g \in [1..n -> 1..Len(d)]
  BY <1>1 DEF Selections
<1> DEFINE a == Select(d, f)  b == Select(d, g)
<1>4. /\ DOMAIN a = 1..m /\ \A i \in 1..m : a[i] = d[f[i]] /\ f[i] \in DOMAIN d
      /\ a \in [1..m -> S]
  BY <1>2 DEF Select
<1>5. /\ DOMAIN b = 1..n /\ \A i \in 1..n : b[i] = d[g[i]] /\ g[i] \in DOMAIN d
      /\ b \in [1..n -> S]
  BY <1>3 DEF Select
<1> HIDE DEF a, b
<1>6. a \in Seq(S) /\ b \in Seq(S) /\ Len(b) <= Len(d)
  BY <1>4, <1>5
<1>7. ASSUME NEW j \in DOMAIN d
      PROVE  (\E i \in 1..m : f[i] = j) \/ (\E i \in 1..n : g[i] = j)
  <2>1. DOMAIN d = 1..Len(d)
    OBVIOUS
  <2>2. j \in Range(f) \/ j \in Range(g)
    BY <2>1, <1>1
  <2>3. DOMAIN f = 1..m /\ DOMAIN g = 1..n
    BY <1>2, <1>3
  <2>4. QED
    BY <2>2, <2>3 DEF Range
<1>8. ASSUME NEW x \in Obs(d)
      PROVE  x \in Obs(a) \cup Obs(b)
  <2>1. PICK j \in DOMAIN d : x \in d[j].obs
    BY <1>8, ObsMember
  <2>2. CASE \E i \in 1..m : f[i] = j
    <3>1. PICK i \in 1..m : f[i] = j
      BY <2>2
    <3>2. i \in DOMAIN a /\ a[i] = d[j]
      BY <3>1, <1>4
    <3>3. QED
      BY <3>2, <2>1, ObsMember
  <2>3. CASE \E i \in 1..n : g[i] = j
    <3>1. PICK i \in 1..n : g[i] = j
      BY <2>3
    <3>2. i \in DOMAIN b /\ b[i] = d[j]
      BY <3>1, <1>5
    <3>3. QED
      BY <3>2, <2>1, ObsMember
  <2>4. QED
    BY <2>2, <2>3, <1>7
<1>9. ASSUME NEW x \in Obs(a) \cup Obs(b)
      PROVE  x \in Obs(d)
  <2>1. ASSUME x \in Obs(a)
        PROVE  x \in Obs(d)
    <3>1. PICK i \in DOMAIN a : x \in a[i].obs
      BY <2>1, ObsMember
    <3>2. a[i] = d[f[i]] /\ f[i] \in DOMAIN d
      BY <3>1, <1>4
    <3>3. \E j \in DOMAIN d : x \in d[j].obs
      BY <3>1, <3>2
    <3>4. QED
      BY <3>3, ObsMember
  <2>2. ASSUME x \in Obs(b)
        PROVE  x \in Obs(d)
    <3>1. PICK i \in DOMAIN b : x \in b[i].obs
      BY <2>2, ObsMember
    <3>2. b[i] = d[g[i]] /\ g[i] \in DOMAIN d
      BY <3>1, <1>5
    <3>3. \E j \in DOMAIN d : x \in d[j].obs
      BY <3>1, <3>2
    <3>4. QED
      BY <3>3, ObsMember
  <2>3. QED
    BY <1>9, <2>1, <2>2
<1>10. Obs(d) = Obs(a) \cup Obs(b)
  BY <1>8, <1>9
<1>11. QED
  BY <1>1, <1>6, <1>10 DEF a, b

-----------------------------------------------------------------------------
(* No observation twice: the same operations, and entries that share none *)

Apart(s) == \A i, j \in DOMAIN s : i # j => s[i].obs \cap s[j].obs = {}

LEMMA ApartEmpty == Apart(<<>>)
BY DEF Apart

LEMMA ApartSingleton == ASSUME NEW e PROVE Apart(<<e>>)
BY DEF Apart

LEMMA ApartAppend ==
    ASSUME NEW S, NEW s \in Seq(S), NEW e \in S, Apart(s), e.obs \cap Obs(s) = {}
    PROVE  Apart(Append(s, e))
<1>1. DOMAIN Append(s, e) = DOMAIN s \cup {Len(s) + 1}
  OBVIOUS
<1>2. Append(s, e)[Len(s) + 1] = e /\ \A i \in DOMAIN s : Append(s, e)[i] = s[i]
  OBVIOUS
<1>3. \A i \in DOMAIN s : e.obs \cap s[i].obs = {}
  BY DEF Obs
<1>4. QED
  BY <1>1, <1>2, <1>3 DEF Apart

\* t lists items of s, those at the indexes f.
Picks(t, s, f) == \A i \in DOMAIN t : f[i] \in DOMAIN s /\ t[i].obs = s[f[i]].obs

\* A list of items picked from another one, none of them twice.
LEMMA ApartPicked ==
    ASSUME NEW s, NEW t, NEW f, Apart(s), Picks(t, s, f),
           \A i, j \in DOMAIN t : i # j => f[i] # f[j]
    PROVE  Apart(t)
BY DEF Apart, Picks

\* Two lists picked from it, with no item in both.
LEMMA ApartHalves ==
    ASSUME NEW s, NEW t, NEW u, NEW f, NEW g, Apart(s), Picks(t, s, f), Picks(u, s, g),
           \A i \in DOMAIN t, j \in DOMAIN u : f[i] # g[j]
    PROVE  Obs(t) \cap Obs(u) = {}
<1> SUFFICES ASSUME NEW x \in Obs(t), x \in Obs(u) PROVE FALSE
  OBVIOUS
<1>1. PICK i \in DOMAIN t : x \in t[i].obs
  BY ObsMember
<1>2. PICK j \in DOMAIN u : x \in u[j].obs
  BY ObsMember
<1>3. x \in s[f[i]].obs /\ x \in s[g[j]].obs /\ f[i] # g[j]
  BY <1>1, <1>2 DEF Picks
<1>4. QED
  BY <1>1, <1>2, <1>3 DEF Apart, Picks

LEMMA ApartConcat ==
    ASSUME NEW S, NEW s \in Seq(S), NEW t \in Seq(S), Apart(s), Apart(t),
           Obs(s) \cap Obs(t) = {}
    PROVE  Apart(s \o t)
<1> DEFINE c == s \o t
<1>1. /\ DOMAIN c = 1..(Len(s) + Len(t))
      /\ \A i \in 1..Len(s) : c[i] = s[i]
      /\ \A i \in 1..Len(t) : c[Len(s) + i] = t[i]
  BY ConcatItems
<1>2. DOMAIN s = 1..Len(s) /\ DOMAIN t = 1..Len(t) /\ Len(s) \in Nat /\ Len(t) \in Nat
  OBVIOUS
<1> HIDE DEF c
<1>3. ASSUME NEW i \in DOMAIN c
      PROVE  \/ i \in DOMAIN s /\ c[i] = s[i]
             \/ i - Len(s) \in DOMAIN t /\ c[i] = t[i - Len(s)]
  <2>1. CASE i <= Len(s)
    BY <1>1, <1>2, <2>1
  <2>2. CASE i > Len(s)
    <3>1. i - Len(s) \in 1..Len(t) /\ Len(s) + (i - Len(s)) = i
      BY <1>1, <1>2, <2>2
    <3>2. QED
      BY <1>1, <1>2, <3>1
  <2>3. QED
    BY <1>1, <1>2, <2>1, <2>2
<1>4. \A i \in DOMAIN s, j \in DOMAIN t : s[i].obs \cap t[j].obs = {}
  BY DEF Obs
<1>5. ASSUME NEW i \in DOMAIN c, NEW j \in DOMAIN c, i # j
      PROVE  c[i].obs \cap c[j].obs = {}
  <2>1. i - Len(s) # j - Len(s)
    BY <1>1, <1>2, <1>5
  <2>2. QED
    BY <1>3, <1>4, <1>5, <2>1 DEF Apart
<1>6. QED
  BY <1>5 DEF Apart, c

LEMMA ApartHeadTail ==
    ASSUME NEW S, NEW s \in Seq(S), s # <<>>, Apart(s)
    PROVE  Apart(Tail(s)) /\ Head(s).obs \cap Obs(Tail(s)) = {}
<1> DEFINE t == Tail(s)
<1>1. /\ Head(s) = s[1] /\ Len(s) \in Nat /\ Len(s) >= 1 /\ DOMAIN s = 1..Len(s)
      /\ DOMAIN t = 1..(Len(s) - 1) /\ \A i \in 1..(Len(s) - 1) : t[i] = s[i + 1]
  OBVIOUS
<1> HIDE DEF t
<1>2. \A i \in DOMAIN t : i + 1 \in DOMAIN s /\ i + 1 # 1 /\ t[i] = s[i + 1]
  BY <1>1
<1>3. \A i, j \in DOMAIN t : i # j => i + 1 # j + 1
  BY <1>1
<1>4. Apart(t)
  BY <1>2, <1>3 DEF Apart
<1>5. s[1].obs \cap Obs(t) = {}
  <2>1. \A i \in DOMAIN t : s[1].obs \cap t[i].obs = {}
    BY <1>1, <1>2 DEF Apart
  <2>2. QED
    BY <2>1 DEF Obs
<1>6. QED
  BY <1>1, <1>4, <1>5 DEF t

LEMMA ApartUpdated ==
    ASSUME NEW S, NEW s \in Seq(S), NEW k \in DOMAIN s, NEW e \in S, NEW X,
           Apart(s), e.obs = s[k].obs \cup X, X \cap Obs(s) = {}
    PROVE  Apart(Updated(s, k, e))
<1> DEFINE t == Updated(s, k, e)
<1>1. /\ DOMAIN t = DOMAIN s /\ t[k].obs = s[k].obs \cup X
      /\ \A i \in DOMAIN s : i # k => t[i] = s[i]
  BY DEF Updated
<1>2. \A i \in DOMAIN s : X \cap s[i].obs = {}
  BY DEF Obs
<1> HIDE DEF t
<1>3. QED
  BY <1>1, <1>2 DEF Apart, t

\* Eviction: what goes and what stays.
LEMMA ApartEvict ==
    ASSUME NEW S, NEW s \in Seq(S), NEW n \in Nat, Apart(s)
    PROVE  /\ Apart(Kept(s, n)) /\ Apart(Evicted(s, n))
           /\ Obs(Kept(s, n)) \cap Obs(Evicted(s, n)) = {}
<1> DEFINE m == Excess(s, n)
<1>1. m \in 0..Len(s) /\ Len(s) \in Nat /\ DOMAIN s = 1..Len(s)
  BY DEF Excess
<1> HIDE DEF m
<1> DEFINE l == SubSeq(s, 1, m)  r == SubSeq(s, m + 1, Len(s))
           f == [i \in 1..m |-> i]  g == [i \in 1..(Len(s) - m) |-> m + i]
<1>2. DOMAIN l = 1..m /\ \A i \in 1..m : l[i] = s[i]
  BY <1>1
<1>3. DOMAIN r = 1..(Len(s) - m) /\ \A i \in 1..(Len(s) - m) : r[i] = s[m + i]
  BY <1>1
<1>4. Evicted(s, n) = l /\ Kept(s, n) = r
  BY DEF Evicted, Kept, m
<1> HIDE DEF l, r
<1>5. Picks(l, s, f) /\ Picks(r, s, g)
  BY <1>1, <1>2, <1>3 DEF Picks
<1>6. /\ \A i, j \in DOMAIN l : i # j => f[i] # f[j]
      /\ \A i, j \in DOMAIN r : i # j => g[i] # g[j]
      /\ \A i \in DOMAIN r, j \in DOMAIN l : g[i] # f[j]
  BY <1>1, <1>2, <1>3
<1> HIDE DEF f, g
<1>7. Apart(l) /\ Apart(r)
  BY <1>5, <1>6, ApartPicked
<1>8. Obs(r) \cap Obs(l) = {}
  BY <1>5, <1>6, ApartHalves
<1>9. QED
  BY <1>4, <1>7, <1>8

LEMMA ApartDiscard ==
    ASSUME NEW S, NEW s \in Seq(S), NEW p, Apart(s)
    PROVE  /\ Apart(Discard(s, p))
           /\ p \in Keys(s) => Lookup(s, p).obs \cap Obs(Discard(s, p)) = {}
<1>1. CASE p \notin Keys(s)
  BY <1>1 DEF Discard
<1>2. CASE p \in Keys(s)
  <2> DEFINE k == Position(s, p)  t == RemoveAt(s, k)
             f == [i \in 1..(Len(s) - 1) |-> IF i < k THEN i ELSE i + 1]
  <2>1. k \in DOMAIN s
    BY <1>2 DEF Keys, Position
  <2>2. Discard(s, p) = t /\ Lookup(s, p) = s[k]
    BY <1>2 DEF Discard, Lookup
  <2> HIDE DEF k
  <2>3. k \in 1..Len(s) /\ Len(s) \in Nat /\ DOMAIN s = 1..Len(s)
    BY <2>1
  <2>4. /\ DOMAIN t = 1..(Len(s) - 1)
        /\ \A i \in 1..(k - 1) : t[i] = s[i]
        /\ \A i \in 1..(Len(s) - k) : t[k - 1 + i] = s[k + i]
    BY <2>1, RemoveItems
  <2> HIDE DEF t
  <2>5. \A i \in DOMAIN t : f[i] \in DOMAIN s /\ f[i] # k
    BY <2>3, <2>4
  <2>6. \A i, j \in DOMAIN t : i # j => f[i] # f[j]
    BY <2>3, <2>4
  <2>7. ASSUME NEW i \in DOMAIN t
        PROVE  t[i] = s[f[i]]
    <3>1. CASE i < k
      BY <3>1, <2>3, <2>4
    <3>2. CASE i >= k
      <4>1. /\ i - k + 1 \in 1..(Len(s) - k) /\ k - 1 + (i - k + 1) = i
            /\ k + (i - k + 1) = i + 1
        BY <3>2, <2>3, <2>4
      <4>2. f[i] = i + 1
        BY <3>2, <2>3, <2>4
      <4>3. t[k - 1 + (i - k + 1)] = s[k + (i - k + 1)]
        BY <4>1, <2>4
      <4>4. QED
        BY <4>1, <4>2, <4>3
    <3>3. QED
      BY <3>1, <3>2, <2>3, <2>4
  <2> HIDE DEF f
  <2>8. Apart(t)
    BY <2>5, <2>6, <2>7, ApartPicked DEF Picks
  <2>9. \A i \in DOMAIN t : s[k].obs \cap t[i].obs = {}
    BY <2>1, <2>5, <2>7 DEF Apart
  <2>10. s[k].obs \cap Obs(t) = {}
    BY <2>9 DEF Obs
  <2>11. QED
    BY <2>2, <2>8, <2>10
<1>3. QED
  BY <1>1, <1>2

LEMMA ApartSplit ==
    ASSUME NEW S, NEW d \in Seq(S), NEW s \in Splits(Len(d)), Apart(d)
    PROVE  /\ Apart(Select(d, s[1])) /\ Apart(Select(d, s[2]))
           /\ Obs(Select(d, s[1])) \cap Obs(Select(d, s[2])) = {}
<1>1. PICK f, g : /\ f = s[1] /\ f \in Selections(Len(d))
                  /\ g = s[2] /\ g \in Selections(Len(d))
                  /\ Range(f) \cap Range(g) = {}
  BY DEF Splits
<1>2. PICK m \in 0..Len(d) : /\ f \in [1..m -> 1..Len(d)]
                             /\ \A i, j \in 1..m : i < j => f[i] < f[j]
  BY <1>1 DEF Selections
<1>3. PICK n \in 0..Len(d) : /\ g \in [1..n -> 1..Len(d)]
                             /\ \A i, j \in 1..n : i < j => g[i] < g[j]
  BY <1>1 DEF Selections
<1> DEFINE a == Select(d, f)  b == Select(d, g)
<1>4. DOMAIN d = 1..Len(d) /\ Len(d) \in Nat
  OBVIOUS
<1>5. DOMAIN a = 1..m /\ Picks(a, d, f)
  BY <1>2, <1>4 DEF Select, Picks
<1>6. DOMAIN b = 1..n /\ Picks(b, d, g)
  BY <1>3, <1>4 DEF Select, Picks
<1> HIDE DEF a, b
<1>7. ASSUME NEW i \in DOMAIN a, NEW j \in DOMAIN a, i # j
      PROVE  f[i] # f[j]
  <2>1. i \in 1..m /\ j \in 1..m /\ (i < j \/ j < i) /\ f[i] \in Int /\ f[j] \in Int
    BY <1>7, <1>2, <1>5
  <2>2. f[i] < f[j] \/ f[j] < f[i]
    BY <1>2, <2>1
  <2>3. QED
    BY <2>1, <2>2
<1>8. ASSUME NEW i \in DOMAIN b, NEW j \in DOMAIN b, i # j
      PROVE  g[i] # g[j]
  <2>1. i \in 1..n /\ j \in 1..n /\ (i < j \/ j < i) /\ g[i] \in Int /\ g[j] \in Int
    BY <1>8, <1>3, <1>6
  <2>2. g[i] < g[j] \/ g[j] < g[i]
    BY <1>3, <2>1
  <2>3. QED
    BY <2>1, <2>2
<1>9. \A i \in DOMAIN a, j \in DOMAIN b : f[i] # g[j]
  <2>1. DOMAIN f = 1..m /\ DOMAIN g = 1..n
    BY <1>2, <1>3
  <2>2. QED
    BY <1>1, <1>5, <1>6, <2>1 DEF Range
<1>10. Apart(a) /\ Apart(b)
  BY <1>5, <1>6, <1>7, <1>8, ApartPicked
<1>11. Obs(a) \cap Obs(b) = {}
  BY <1>5, <1>6, <1>9, ApartHalves, SMTT(60)
<1>12. QED
  BY <1>1, <1>10, <1>11 DEF a, b

-----------------------------------------------------------------------------
(* Order: the operations take entries out and move none past another one *)

Subsequence(t, s) ==
    \E f : /\ \A i \in DOMAIN t : f[i] \in DOMAIN s /\ t[i] = s[f[i]]
           /\ \A i, j \in DOMAIN t : i < j => f[i] < f[j]

LEMMA SubsequenceEvict ==
    ASSUME NEW S, NEW s \in Seq(S), NEW n \in Nat
    PROVE  Subsequence(Kept(s, n), s) /\ Subsequence(Evicted(s, n), s)
<1> DEFINE m == Excess(s, n)
<1>1. m \in 0..Len(s) /\ Len(s) \in Nat /\ DOMAIN s = 1..Len(s)
  BY DEF Excess
<1> HIDE DEF m
<1> DEFINE l == SubSeq(s, 1, m)  r == SubSeq(s, m + 1, Len(s))
           f == [i \in 1..m |-> i]  g == [i \in 1..(Len(s) - m) |-> m + i]
<1>2. DOMAIN l = 1..m /\ \A i \in 1..m : l[i] = s[i]
  BY <1>1
<1>3. DOMAIN r = 1..(Len(s) - m) /\ \A i \in 1..(Len(s) - m) : r[i] = s[m + i]
  BY <1>1
<1>4. Evicted(s, n) = l /\ Kept(s, n) = r
  BY DEF Evicted, Kept, m
<1> HIDE DEF l, r
<1>5. /\ \A i \in DOMAIN l : f[i] \in DOMAIN s /\ l[i] = s[f[i]]
      /\ \A i, j \in DOMAIN l : i < j => f[i] < f[j]
  BY <1>1, <1>2
<1>6. /\ \A i \in DOMAIN r : g[i] \in DOMAIN s /\ r[i] = s[g[i]]
      /\ \A i, j \in DOMAIN r : i < j => g[i] < g[j]
  BY <1>1, <1>3
<1> HIDE DEF f, g
<1>7. QED
  BY <1>4, <1>5, <1>6 DEF Subsequence

LEMMA SubsequenceDiscard ==
    ASSUME NEW S, NEW s \in Seq(S), NEW p,
           \A i, j \in DOMAIN s : s[i].path = s[j].path => i = j
    PROVE  Subsequence(Discard(s, p), s) /\ p \notin Keys(Discard(s, p))
<1>1. CASE p \notin Keys(s)
  <2> DEFINE f == [i \in DOMAIN s |-> i]
  <2>1. /\ \A i \in DOMAIN s : f[i] \in DOMAIN s /\ s[i] = s[f[i]]
        /\ \A i, j \in DOMAIN s : i < j => f[i] < f[j]
    OBVIOUS
  <2> HIDE DEF f
  <2>2. Subsequence(s, s)
    BY <2>1 DEF Subsequence
  <2>3. QED
    BY <1>1, <2>2 DEF Discard
<1>2. CASE p \in Keys(s)
  <2> DEFINE k == Position(s, p)  t == RemoveAt(s, k)
             f == [i \in 1..(Len(s) - 1) |-> IF i < k THEN i ELSE i + 1]
  <2>1. k \in DOMAIN s /\ s[k].path = p
    BY <1>2 DEF Keys, Position
  <2>2. Discard(s, p) = t
    BY <1>2 DEF Discard
  <2> HIDE DEF k
  <2>3. k \in 1..Len(s) /\ Len(s) \in Nat /\ DOMAIN s = 1..Len(s)
    BY <2>1
  <2>4. /\ DOMAIN t = 1..(Len(s) - 1)
        /\ \A i \in 1..(k - 1) : t[i] = s[i]
        /\ \A i \in 1..(Len(s) - k) : t[k - 1 + i] = s[k + i]
    BY <2>1, RemoveItems
  <2> HIDE DEF t
  <2>5. \A i \in DOMAIN t : f[i] \in DOMAIN s /\ f[i] # k
    BY <2>3, <2>4
  <2>6. \A i, j \in DOMAIN t : i < j => f[i] < f[j]
    BY <2>3, <2>4
  <2>7. ASSUME NEW i \in DOMAIN t
        PROVE  t[i] = s[f[i]]
    <3>1. CASE i < k
      BY <3>1, <2>3, <2>4
    <3>2. CASE i >= k
      <4>1. /\ i - k + 1 \in 1..(Len(s) - k) /\ k - 1 + (i - k + 1) = i
            /\ k + (i - k + 1) = i + 1
        BY <3>2, <2>3, <2>4
      <4>2. f[i] = i + 1
        BY <3>2, <2>3, <2>4
      <4>3. t[k - 1 + (i - k + 1)] = s[k + (i - k + 1)]
        BY <4>1, <2>4
      <4>4. QED
        BY <4>1, <4>2, <4>3
    <3>3. QED
      BY <3>1, <3>2, <2>3, <2>4
  <2> HIDE DEF f
  <2>8. Subsequence(t, s)
    BY <2>5, <2>6, <2>7 DEF Subsequence
  <2>9. \A i \in DOMAIN t : t[i].path # p
    BY <2>1, <2>5, <2>7
  <2>10. QED
    BY <2>2, <2>8, <2>9 DEF Keys
<1>3. QED
  BY <1>1, <1>2

LEMMA SubsequenceSplit ==
    ASSUME NEW S, NEW d \in Seq(S), NEW s \in Splits(Len(d))
    PROVE  Subsequence(Select(d, s[2]), d)
<1>1. PICK g : g = s[2] /\ g \in Selections(Len(d))
  BY DEF Splits
<1>2. PICK n \in 0..Len(d) : /\ g \in [1..n -> 1..Len(d)]
                             /\ \A i, j \in 1..n : i < j => g[i] < g[j]
  BY <1>1 DEF Selections
<1> DEFINE b == Select(d, g)
<1>3. DOMAIN b = 1..n /\ \A i \in 1..n : g[i] \in DOMAIN d /\ b[i] = d[g[i]]
  BY <1>2 DEF Select
<1> HIDE DEF b
<1>4. Subsequence(b, d)
  BY <1>2, <1>3 DEF Subsequence
<1>5. QED
  BY <1>1, <1>4 DEF b
===============================================================================
