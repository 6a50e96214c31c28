----------------------------- MODULE OrderedDict -----------------------------
(***************************************************************************)
(* The collections.OrderedDict that SettleTracker keeps its entries in:    *)
(* a sequence of records with pairwise distinct .path, oldest insertion    *)
(* first.  Assigning to a key already present keeps its place.             *)
(***************************************************************************)
EXTENDS Integers, SequencesExt

Keys(d) == {d[i].path : i \in DOMAIN d}

Position(d, p) == CHOOSE i \in DOMAIN d : d[i].path = p

Lookup(d, p) == d[Position(d, p)]

\* pop(key, None)
Discard(d, p) == IF p \in Keys(d) THEN RemoveAt(d, Position(d, p)) ELSE d

\* What popitem(last=False) removes while len(d) > limit, and what it leaves.
Excess(d, limit) == IF Len(d) > limit THEN Len(d) - limit ELSE 0
Evicted(d, limit) == SubSeq(d, 1, Excess(d, limit))
Kept(d, limit) == SubSeq(d, Excess(d, limit) + 1, Len(d))

\* The strictly increasing sequences of indexes into a sequence of length n.
Selections(n) ==
    UNION {{f \in [1..k -> 1..n] : \A i, j \in 1..k : i < j => f[i] < f[j]} :
              k \in 0..n}

\* The ways to cut a sequence of length n in two, both halves in their order.
Splits(n) ==
    {s \in Selections(n) \X Selections(n) :
        /\ Range(s[1]) \cup Range(s[2]) = 1..n
        /\ Range(s[1]) \cap Range(s[2]) = {}}

\* The observations that a list of entries, or of events about them, stands for.
Obs(d) == UNION {d[i].obs : i \in DOMAIN d}

\* The items of d at the selected indexes, in order.
Select(d, sel) == [i \in DOMAIN sel |-> d[sel[i]]]
===============================================================================
