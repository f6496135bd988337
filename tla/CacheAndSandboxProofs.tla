----------------------- MODULE CacheAndSandboxProofs -----------------------
(***************************************************************************)
(* Proofs for the two parts that the chart tools stand on: the cache of    *)
(* charts (BoundedTTLCache, which is also the store of results) and, after *)
(* it, the sandbox their code runs in (ChartSandbox).                      *)
(*                                                                         *)
(* The cache has any finite set of keys, any capacity and any clock.  That *)
(* its dictionaries agree and that it is bounded support each other: an    *)
(* eviction frees a place because what it finds among the expiries is      *)
(* stored.                                                                 *)
(***************************************************************************)
EXTENDS BoundedTTLCache, ChartSandbox, FiniteSetTheorems, SequenceTheorems, TLAPS

Inv ==
    /\ stored \subseteq Keys
    /\ SameKeys
    /\ Bounded

\* What a set and a removal do to a count.
LEMMA Counting ==
    ASSUME NEW S, NEW x, IsFiniteSet(S)
    PROVE  /\ IsFiniteSet(S \cup {x}) /\ Cardinality(S \cup {x}) \in Nat
           /\ Cardinality(S) \in Nat
           /\ Cardinality(S \cup {x}) <= Cardinality(S) + 1
           /\ IsFiniteSet(S \ {x}) /\ Cardinality(S \ {x}) \in Nat
           /\ Cardinality(S \ {x}) <= Cardinality(S)
           /\ x \in S => Cardinality(S \ {x}) = Cardinality(S) - 1
BY FS_AddElement, FS_RemoveElement, FS_CardinalityType

\* At least one entry is allowed.
LEMMA CapacityIsPositive == Capacity \in Nat \ {0}
BY CacheConstants DEF Capacity

\* An empty cache satisfies the invariant.
LEMMA InvInit == Init => Inv
BY FS_EmptySet, CapacityIsPositive DEF Init, Inv, SameKeys, Bounded

\* set: no more than one entry too many, and that one is evicted.
LEMMA SetPreserves ==
    ASSUME Inv, NEW k \in Keys, Set(k)
    PROVE  Inv'
<1> DEFINE s == stored \cup {k}
           t == timed \cup {k}
           e == [expiry EXCEPT ![k] = Deadline]
           b == IF k \in timed THEN before ELSE before \cup (timed \X {k})
<1>1. s = t /\ s \subseteq Keys /\ IsFiniteSet(stored)
    BY CacheConstants, FS_Subset DEF Inv, SameKeys
<1>2. /\ IsFiniteSet(s) /\ Cardinality(s) \in Nat
      /\ Cardinality(s) <= Capacity + 1
    <2>1. Cardinality(stored) \in Nat /\ Cardinality(stored) <= Capacity
        BY <1>1, FS_CardinalityType DEF Inv, Bounded
    <2>2. /\ IsFiniteSet(s) /\ Cardinality(s) \in Nat
          /\ Cardinality(s) <= Cardinality(stored) + 1
        BY <1>1, Counting
    <2> QED
        BY <2>1, <2>2, CapacityIsPositive
<1>3. CASE ~Over(s) /\ stored' = s /\ timed' = t
    BY <1>1, <1>2, <1>3, CapacityIsPositive DEF Inv, SameKeys, Bounded, Over
<1>4. ASSUME NEW o \in t, Evict(o, s, t, e, b) PROVE Inv'
    <2>1. stored' = s \ {o} /\ timed' = t \ {o}
        BY <1>4 DEF Evict
    <2>2. Cardinality(s \ {o}) = Cardinality(s) - 1
        BY <1>1, <1>2, Counting
    <2> QED
        BY <1>1, <1>2, <2>1, <2>2, CapacityIsPositive DEF Inv, SameKeys, Bounded
<1> QED
    BY <1>3, <1>4 DEF Set

\* Everything else takes entries out of both dictionaries, or none.
LEMMA InvNext == Inv /\ [Next]_vars => Inv'
<1> SUFFICES ASSUME Inv, [Next]_vars PROVE Inv'
    OBVIOUS
<1>1. ASSUME NEW k \in Keys, Set(k) PROVE Inv'
    BY <1>1, SetPreserves
<1>2. ASSUME NEW k \in Keys, Remove(k) PROVE Inv'
    <2>1. stored' = stored \ {k} /\ timed' = timed \ {k}
        BY <1>2 DEF Remove
    <2>2. IsFiniteSet(stored)
        BY CacheConstants, FS_Subset DEF Inv
    <2>3. Cardinality(stored') <= Cardinality(stored)
        BY <2>1, <2>2, Counting
    <2>4. Cardinality(stored) \in Nat /\ Cardinality(stored') \in Nat
        BY <2>1, <2>2, Counting
    <2> QED
        BY <2>1, <2>3, <2>4, CapacityIsPositive DEF Inv, SameKeys, Bounded
<1>3. CASE Clear
    <2>1. stored' = {} /\ timed' = {}
        BY <1>3 DEF Clear, ClearAll
    <2> QED
        BY <2>1, FS_EmptySet, CapacityIsPositive DEF Inv, SameKeys, Bounded
<1>4. CASE UNCHANGED dicts
    BY <1>4 DEF dicts, Inv, SameKeys, Bounded
<1> QED
    BY <1>1, <1>2, <1>3, <1>4 DEF Next, GetExpired, Pop, Tick, SetBack, vars

-----------------------------------------------------------------------------
(* RecentIsKept: what expires first and, of that, comes first was set first *)

\* Of two entries the one that is evicted first.
Older(k, j, e, b) == e[k] < e[j] \/ (e[k] = e[j] /\ <<k, j>> \in b)

\* The entries t, with the expiries e and the iteration order b, are in the order
\* of r, which those that are not in r precede.
Ranked(t, e, b, r) ==
    /\ t \subseteq Keys
    /\ e \in [Keys -> Nat]
    /\ b \subseteq t \X t
    /\ \A k, j \in t : <<k, j>> \in b => <<j, k>> \notin b
    /\ r \in Seq(t)
    /\ \A i, j \in DOMAIN r : i < j => Older(r[i], r[j], e, b)
    /\ \A k \in t : (\A i \in DOMAIN r : r[i] # k) =>
                        \A i \in DOMAIN r : Older(k, r[i], e, b)

Kept ==
    back = 0 /\ ~again =>
        /\ Ranked(timed, expiry, before, recent)
        /\ \A k \in timed : expiry[k] <= now + TTL

LEMMA WithoutNone ==
    ASSUME NEW s, NEW k, \A i \in DOMAIN s : s[i] # k
    PROVE  Without(s, k) = s
BY DEF Without

\* q is s without its place p.
Skips(q, s, p) ==
    /\ Len(q) = Len(s) - 1
    /\ \A i \in 1..(Len(s) - 1) : q[i] = IF i < p THEN s[i] ELSE s[i + 1]

\* What is left of a sequence without a place of k.
LEMMA WithoutOne ==
    ASSUME NEW S, NEW s \in Seq(S), NEW n \in Nat, Len(s) = n, NEW k,
           NEW l \in DOMAIN s, s[l] = k
    PROVE  /\ Without(s, k) \in Seq(S) /\ n > 0
           /\ \E p \in 1..n : s[p] = k /\ Skips(Without(s, k), s, p)
<1>0. DOMAIN s = 1..n /\ \A i \in 1..n : s[i] \in S
    BY LenProperties, ElementOfSeq
<1>1. PICK p : p = CHOOSE i \in DOMAIN s : s[i] = k
    OBVIOUS
<1>2. p \in 1..n /\ s[p] = k
    BY <1>0, <1>1
<1>3. PICK u, v : u = SubSeq(s, 1, p - 1) /\ v = SubSeq(s, p + 1, n)
    OBVIOUS
<1>4. Without(s, k) = u \o v
    BY <1>1, <1>3 DEF Without
<1>5. u \in Seq(S) /\ Len(u) = p - 1 /\ \A i \in 1..(p - 1) : u[i] = s[i]
  <2>1. 1 \in Int /\ p - 1 \in Int /\ \A i \in 1..(p - 1) : s[i] \in S
      BY <1>0, <1>2
  <2>2. /\ u \in Seq(S) /\ Len(u) = IF 1 <= p - 1 THEN p - 1 - 1 + 1 ELSE 0
        /\ \A i \in 1..(p - 1 - 1 + 1) : u[i] = s[1 + i - 1]
      BY <1>3, <2>1, SubSeqProperties
  <2>3. /\ (IF 1 <= p - 1 THEN p - 1 - 1 + 1 ELSE 0) = p - 1
        /\ p - 1 - 1 + 1 = p - 1 /\ \A i \in 1..(p - 1) : 1 + i - 1 = i
      BY <1>2
  <2> QED BY <2>2, <2>3
<1>6. v \in Seq(S) /\ Len(v) = n - p /\ \A i \in 1..(n - p) : v[i] = s[p + i]
  <2>1. p + 1 \in Int /\ n \in Int /\ \A i \in (p + 1)..n : s[i] \in S
      BY <1>0, <1>2
  <2>2. /\ v \in Seq(S)
        /\ Len(v) = IF p + 1 <= n THEN n - (p + 1) + 1 ELSE 0
        /\ \A i \in 1..(n - (p + 1) + 1) : v[i] = s[p + 1 + i - 1]
      BY <1>3, <2>1, SubSeqProperties
  <2>3. /\ (IF p + 1 <= n THEN n - (p + 1) + 1 ELSE 0) = n - p
        /\ n - (p + 1) + 1 = n - p /\ \A i \in 1..(n - p) : p + 1 + i - 1 = p + i
      BY <1>2
  <2> QED BY <2>2, <2>3
<1>7. /\ u \o v \in Seq(S) /\ Len(u \o v) = Len(u) + Len(v)
      /\ \A i \in 1..(Len(u) + Len(v)) :
            (u \o v)[i] = IF i <= Len(u) THEN u[i] ELSE v[i - Len(u)]
    BY <1>5, <1>6, ConcatProperties
<1>8. Len(u) + Len(v) = n - 1
    BY <1>2, <1>5, <1>6
<1>9. ASSUME NEW i \in 1..(n - 1)
      PROVE  Without(s, k)[i] = IF i < p THEN s[i] ELSE s[i + 1]
  <2>1. CASE i < p
    <3>1. i <= p - 1 /\ i \in 1..(p - 1)
        BY <1>2, <2>1
    <3> QED BY <1>4, <1>5, <1>7, <1>8, <2>1, <3>1
  <2>2. CASE ~(i < p)
    <3>1. ~(i <= p - 1) /\ i - (p - 1) \in 1..(n - p) /\ p + (i - (p - 1)) = i + 1
        BY <1>2, <2>2
    <3>2. (u \o v)[i] = v[i - (p - 1)] /\ v[i - (p - 1)] = s[p + (i - (p - 1))]
        BY <1>5, <1>6, <1>7, <1>8, <3>1
    <3> QED BY <1>4, <2>2, <3>1, <3>2
  <2> QED BY <2>1, <2>2
<1>10. Without(s, k) \in Seq(S) /\ Len(Without(s, k)) = n - 1
    BY <1>4, <1>7, <1>8
<1>11. n > 0
    BY <1>2
<1>12. Skips(Without(s, k), s, p)
    BY <1>9, <1>10 DEF Skips
<1> QED BY <1>2, <1>10, <1>11, <1>12

\* What was set first may leave the ranking, and remains older than the others.
LEMMA RankedTail ==
    ASSUME NEW t, NEW e, NEW b, NEW r, Ranked(t, e, b, r), r # <<>>
    PROVE  /\ Ranked(t, e, b, Tail(r))
           /\ r[1] \in t /\ \A i \in DOMAIN Tail(r) : Older(r[1], Tail(r)[i], e, b)
<1>0. /\ r \in Seq(t) /\ Len(r) \in Nat /\ DOMAIN r = 1..Len(r) /\ Len(r) > 0
      /\ \A i \in 1..Len(r) : r[i] \in t
    BY EmptySeq, LenProperties, ElementOfSeq DEF Ranked
<1>1. /\ Tail(r) \in Seq(t) /\ Len(Tail(r)) = Len(r) - 1
      /\ \A i \in 1..(Len(r) - 1) : Tail(r)[i] = r[i + 1]
    BY <1>0, HeadTailProperties
<1>2. PICK q \in Seq(t) : q = Tail(r)
    BY <1>1
<1>3. /\ DOMAIN q = 1..(Len(r) - 1)
      /\ \A i \in DOMAIN q : i + 1 \in DOMAIN r /\ q[i] = r[i + 1]
    BY <1>0, <1>1, <1>2, LenProperties
<1>4. \A i, j \in DOMAIN q : i < j => Older(q[i], q[j], e, b)
    BY <1>0, <1>3 DEF Ranked
<1>5. ASSUME NEW i \in DOMAIN q PROVE Older(r[1], q[i], e, b)
  <2>1. 1 \in DOMAIN r /\ i + 1 \in DOMAIN r /\ 1 < i + 1 /\ q[i] = r[i + 1]
      BY <1>0, <1>3
  <2> QED BY <2>1 DEF Ranked
<1>6. ASSUME NEW k \in t, \A i \in DOMAIN q : q[i] # k
      PROVE  \A i \in DOMAIN q : Older(k, q[i], e, b)
  <2>1. CASE k = r[1]
      BY <1>5, <2>1
  <2>2. CASE k # r[1]
    <3>1. ASSUME NEW i \in DOMAIN r PROVE r[i] # k
      <4>1. CASE i = 1
          BY <2>2, <4>1
      <4>2. CASE i # 1
        <5>1. i - 1 \in DOMAIN q /\ (i - 1) + 1 = i
            BY <1>0, <1>3, <4>2
        <5> QED BY <1>3, <1>6, <5>1
      <4> QED BY <4>1, <4>2
    <3> QED BY <1>3, <3>1 DEF Ranked
  <2> QED BY <2>1, <2>2
<1> QED BY <1>0, <1>2, <1>4, <1>5, <1>6 DEF Ranked

\* An entry that leaves.
LEMMA RankedLess ==
    ASSUME NEW t, NEW e, NEW b, NEW r, Ranked(t, e, b, r), NEW o \in Keys
    PROVE  Ranked(t \ {o}, [e EXCEPT ![o] = 0], b \ Pairs(b, o), Without(r, o))
<1> DEFINE f == [e EXCEPT ![o] = 0]
           c == b \ Pairs(b, o)
<1> PICK n \in Nat : n = Len(r)
    BY LenProperties DEF Ranked
<1>0. /\ r \in Seq(t) /\ Len(r) = n /\ DOMAIN r = 1..n
      /\ \A i \in 1..n : r[i] \in t
      /\ t \subseteq Keys /\ e \in [Keys -> Nat]
    BY LenProperties, ElementOfSeq DEF Ranked
<1>1. ASSUME NEW i \in DOMAIN r, NEW j \in DOMAIN r, i # j PROVE r[i] # r[j]
  <2>1. ASSUME NEW x \in t, Older(x, x, e, b) PROVE FALSE
      BY <1>0, <2>1 DEF Ranked, Older
  <2>2. i < j \/ j < i
      BY <1>0, <1>1
  <2> QED BY <1>0, <2>1, <2>2 DEF Ranked
<1>2. ASSUME NEW x \in t \ {o}, NEW y \in t \ {o}, Older(x, y, e, b) PROVE Older(x, y, f, c)
  <2>1. f[x] = e[x] /\ f[y] = e[y]
      BY <1>0
  <2>2. <<x, y>> \in b => <<x, y>> \in c
      BY DEF Pairs
  <2> QED BY <1>2, <2>1, <2>2 DEF Older
<1>3. PICK q : q = Without(r, o)
    OBVIOUS
<1>4. /\ q \in Seq(t \ {o})
      /\ \A i, j \in DOMAIN q : i < j => Older(q[i], q[j], f, c)
      /\ \A k \in t \ {o} : (\A i \in DOMAIN q : q[i] # k) =>
                                \A i \in DOMAIN q : Older(k, q[i], f, c)
  <2> HIDE DEF f, c
  <2>1. CASE \A i \in DOMAIN r : r[i] # o
    <3>1. q = r
        BY <1>3, <2>1, WithoutNone
    <3>2. r \in [1..n -> t \ {o}]
        BY <1>0, <2>1
    <3>3. r \in Seq(t \ {o}) /\ \A i \in DOMAIN r : r[i] \in t \ {o}
        BY <1>0, <2>1, <3>2
    <3> QED BY <1>2, <3>1, <3>3 DEF Ranked
  <2>2. CASE \E i \in DOMAIN r : r[i] = o
    <3>0. Without(r, o) \in Seq(t) /\ n > 0 /\ \E p \in 1..n : r[p] = o /\ Skips(q, r, p)
      <4>1. PICK l \in DOMAIN r : r[l] = o
          BY <2>2
      <4> QED BY <1>0, <1>3, <4>1, WithoutOne
    <3>1. PICK p \in 1..n :
              /\ r[p] = o /\ Len(q) = n - 1
              /\ \A i \in 1..(n - 1) : q[i] = IF i < p THEN r[i] ELSE r[i + 1]
        BY <1>0, <3>0 DEF Skips
    <3>2. DOMAIN q = 1..(n - 1)
        BY <1>3, <3>0, <3>1, LenProperties
    <3>3. ASSUME NEW i \in DOMAIN q
          PROVE  \E l \in DOMAIN r : /\ q[i] = r[l] /\ l # p
                                     /\ l = IF i < p THEN i ELSE i + 1
      <4>1. CASE i < p
        <5>1. i \in 1..(n - 1) /\ i \in DOMAIN r /\ i # p /\ q[i] = r[i]
            BY <1>0, <3>1, <3>2, <4>1
        <5> QED BY <4>1, <5>1
      <4>2. CASE ~(i < p)
        <5>1. i + 1 \in DOMAIN r /\ i + 1 # p
            BY <1>0, <3>1, <3>2, <4>2
        <5> QED BY <3>1, <3>2, <4>2, <5>1
      <4> QED BY <4>1, <4>2
    <3>4. \A i \in DOMAIN q : q[i] \in t \ {o}
        BY <1>0, <1>1, <3>1, <3>3
    <3>5. q \in Seq(t \ {o})
      <4>1. q \in [1..(n - 1) -> t \ {o}] /\ n - 1 \in Nat
          BY <1>3, <3>0, <3>1, <3>2, <3>4, LenProperties
      <4> QED BY <4>1
    <3>6. ASSUME NEW i \in DOMAIN q, NEW j \in DOMAIN q, i < j
          PROVE  Older(q[i], q[j], f, c)
      <4>1. PICK l \in DOMAIN r : q[i] = r[l] /\ l = IF i < p THEN i ELSE i + 1
          BY <3>3
      <4>2. PICK m \in DOMAIN r : q[j] = r[m] /\ m = IF j < p THEN j ELSE j + 1
          BY <3>3
      <4>3. l < m
          BY <1>0, <3>2, <3>6, <4>1, <4>2
      <4> QED BY <1>2, <3>4, <4>1, <4>2, <4>3 DEF Ranked
    <3>7. ASSUME NEW k \in t \ {o}, \A i \in DOMAIN q : q[i] # k
          PROVE  \A i \in DOMAIN q : Older(k, q[i], f, c)
      <4>1. ASSUME NEW l \in DOMAIN r PROVE r[l] # k
        <5>1. CASE l < p
          <6>1. l \in 1..(n - 1)
              BY <1>0, <5>1
          <6> QED BY <3>1, <3>2, <3>7, <5>1, <6>1
        <5>2. CASE l > p
          <6>1. l - 1 \in 1..(n - 1) /\ ~(l - 1 < p) /\ (l - 1) + 1 = l
              BY <1>0, <5>2
          <6> QED BY <3>1, <3>2, <3>7, <6>1
        <5>3. CASE l = p
            BY <3>1, <5>3
        <5> QED BY <1>0, <5>1, <5>2, <5>3
      <4>2. \A i \in DOMAIN q : Older(k, q[i], e, b)
          BY <3>3, <4>1 DEF Ranked
      <4> QED BY <1>2, <3>4, <4>2
    <3> QED BY <3>5, <3>6, <3>7
  <2> QED BY <2>1, <2>2
<1>5. f \in [Keys -> Nat]
    BY <1>0
<1>6. c \subseteq (t \ {o}) \X (t \ {o})
    BY DEF Ranked, Pairs
<1>7. \A k, j \in t \ {o} : <<k, j>> \in c => <<j, k>> \notin c
    BY DEF Ranked
<1> HIDE DEF f, c
<1>8. t \ {o} \subseteq Keys
    BY <1>0
<1>9. Ranked(t \ {o}, f, c, q)
    BY <1>4, <1>5, <1>6, <1>7, <1>8 DEF Ranked
<1> QED BY <1>3, <1>9 DEF f, c

\* A new entry, which nothing expires after, is the last one.
LEMMA RankedMore ==
    ASSUME NEW t, NEW e, NEW b, NEW r, Ranked(t, e, b, r), NEW k \in Keys, k \notin t,
           NEW d \in Nat, \A j \in t : e[j] <= d
    PROVE  Ranked(t \cup {k}, [e EXCEPT ![k] = d], b \cup (t \X {k}), Append(r, k))
<1> DEFINE f == [e EXCEPT ![k] = d]
           c == b \cup (t \X {k})
<1>0. /\ r \in Seq(t) /\ Len(r) \in Nat /\ DOMAIN r = 1..Len(r)
      /\ \A i \in 1..Len(r) : r[i] \in t
      /\ t \subseteq Keys /\ e \in [Keys -> Nat]
    BY LenProperties, ElementOfSeq DEF Ranked
<1>1. ASSUME NEW x \in t, NEW y \in t, Older(x, y, e, b) PROVE Older(x, y, f, c)
    BY <1>0, <1>1 DEF Older
<1>2. ASSUME NEW x \in t PROVE Older(x, k, f, c)
  <2>1. f[x] = e[x] /\ f[k] = d /\ e[x] <= d /\ e[x] \in Nat
      BY <1>0
  <2>2. <<x, k>> \in c
      OBVIOUS
  <2> QED BY <2>1, <2>2 DEF Older
<1>3. f \in [Keys -> Nat]
    BY <1>0
<1>4. c \subseteq (t \cup {k}) \X (t \cup {k})
    BY DEF Ranked
<1>5. ASSUME NEW x \in t \cup {k}, NEW y \in t \cup {k}, <<x, y>> \in c
      PROVE  <<y, x>> \notin c
    BY <1>5 DEF Ranked
<1> HIDE DEF f, c
<1>6. r \in Seq(t \cup {k})
    BY <1>0, SeqMonotonic
<1>7. PICK q : q = Append(r, k)
    OBVIOUS
<1>8. /\ q \in Seq(t \cup {k}) /\ Len(q) = Len(r) + 1
      /\ \A i \in 1..Len(r) : q[i] = r[i]
      /\ q[Len(r) + 1] = k
    BY <1>6, <1>7, AppendProperties
<1>9. DOMAIN q = 1..(Len(r) + 1)
    BY <1>8, LenProperties
<1>10. ASSUME NEW i \in DOMAIN q, NEW j \in DOMAIN q, i < j
       PROVE  Older(q[i], q[j], f, c)
  <2>1. i \in 1..Len(r) /\ q[i] = r[i] /\ r[i] \in t
      BY <1>0, <1>8, <1>9, <1>10
  <2>2. CASE j \in 1..Len(r)
    <3>1. q[j] = r[j] /\ r[j] \in t /\ Older(r[i], r[j], e, b)
        BY <1>0, <1>8, <1>10, <2>1, <2>2 DEF Ranked
    <3> QED BY <1>1, <2>1, <3>1
  <2>3. CASE j = Len(r) + 1
      BY <1>2, <1>8, <2>1, <2>3
  <2> QED BY <1>0, <1>9, <2>2, <2>3
<1>11. ASSUME NEW x \in t \cup {k}, \A i \in DOMAIN q : q[i] # x, NEW j \in DOMAIN q
       PROVE  Older(x, q[j], f, c)
  <2>1. x \in t
      BY <1>0, <1>8, <1>9, <1>11
  <2>2. CASE j \in 1..Len(r)
    <3>1. \A i \in DOMAIN r : r[i] # x
        BY <1>0, <1>8, <1>9, <1>11
    <3>2. q[j] = r[j] /\ r[j] \in t /\ Older(x, r[j], e, b)
        BY <1>0, <1>8, <2>1, <2>2, <3>1 DEF Ranked
    <3> QED BY <1>1, <2>1, <3>2
  <2>3. CASE j = Len(r) + 1
      BY <1>2, <1>8, <2>1, <2>3
  <2> QED BY <1>0, <1>9, <2>2, <2>3
<1>12. t \cup {k} \subseteq Keys
    BY <1>0
<1>13. Ranked(t \cup {k}, f, c, q)
    BY <1>3, <1>4, <1>5, <1>8, <1>10, <1>11, <1>12 DEF Ranked
<1> QED BY <1>7, <1>13 DEF f, c

\* What is evicted is none of the last ones, if some entry is older than they.
LEMMA OldestIsNotRecent ==
    ASSUME NEW t, NEW e, NEW b, NEW r, Ranked(t, e, b, r), NEW o \in t, Oldest(o, t, e, b),
           NEW x \in t, \A i \in DOMAIN r : Older(x, r[i], e, b)
    PROVE  \A i \in DOMAIN r : r[i] # o
<1>1. SUFFICES ASSUME Older(x, o, e, b)
               PROVE  FALSE
    OBVIOUS
<1>2. e[x] \in Nat /\ e[o] \in Nat
    BY DEF Ranked
<1>3. e[o] < e[x] \/ (e[o] = e[x] /\ (x = o \/ <<o, x>> \in b))
    BY DEF Oldest
<1>4. e[x] < e[o] \/ (e[x] = e[o] /\ <<x, o>> \in b)
    BY <1>1 DEF Older
<1>5. <<x, o>> \in b /\ (x = o \/ <<o, x>> \in b)
    BY <1>2, <1>3, <1>4
<1> QED BY <1>5 DEF Ranked

\* Of more entries than r has room for, one precedes all of r.
LEMMA OneIsOlder ==
    ASSUME NEW t, NEW e, NEW b, NEW r, Ranked(t, e, b, r), IsFiniteSet(t),
           Cardinality(t) > Len(r)
    PROVE  \E x \in t : \A i \in DOMAIN r : Older(x, r[i], e, b)
<1> PICK n \in Nat : n = Len(r) /\ r \in [1..n -> t] /\ DOMAIN r = 1..n
    BY LenProperties DEF Ranked
<1>1. \E x \in t : \A i \in DOMAIN r : r[i] # x
  <2>1. SUFFICES ASSUME \A x \in t : \E i \in 1..n : r[i] = x
                 PROVE  FALSE
      OBVIOUS
  <2>2. r \in Surjection(1..n, t)
      BY <2>1 DEF Surjection
  <2>3. 1 \in Int /\ n \in Int
      OBVIOUS
  <2>4. IsFiniteSet(1..n) /\ Cardinality(1..n) = IF 1 > n THEN 0 ELSE n - 1 + 1
      BY <2>3, FS_Interval
  <2>5. Cardinality(t) <= Cardinality(1..n) /\ Cardinality(t) \in Nat
      BY <2>2, <2>4, FS_Surjection, FS_CardinalityType
  <2> QED BY <2>4, <2>5
<1> QED BY <1>1 DEF Ranked

\* set of a key that was not there: what is evicted is none of the last ones.
LEMMA SetKeeps ==
    ASSUME TypeOK, Inv, Kept, NEW k \in Keys, Set(k), back = 0, ~again'
    PROVE  /\ Ranked(timed', expiry', before', recent')
           /\ \A j \in timed' : expiry'[j] <= now' + TTL
<1> DEFINE s == stored \cup {k}
           t == timed \cup {k}
           e == [expiry EXCEPT ![k] = Deadline]
           b == before \cup (timed \X {k})
<1>1. ~again /\ k \notin stored /\ k \notin timed /\ s = t /\ now' = now
    BY DEF Set, Inv, SameKeys
<1>2. /\ Ranked(timed, expiry, before, recent)
      /\ \A j \in timed : expiry[j] <= Deadline
      /\ Deadline \in Nat /\ now \in Nat
    BY <1>1, CacheConstants DEF Kept, TypeOK, Deadline
<1>3. /\ Without(recent, k) = recent
      /\ recent \in Seq(timed) /\ Len(recent) \in Nat
  <2>1. recent \in Seq(timed) /\ DOMAIN recent = 1..Len(recent) /\ Len(recent) \in Nat
      BY <1>2, LenProperties DEF Ranked
  <2>2. \A i \in DOMAIN recent : recent[i] # k
      BY <1>1, <2>1, ElementOfSeq
  <2> QED BY <2>1, <2>2, WithoutNone
<1>4. PICK latest : latest = Append(recent, k)
    OBVIOUS
<1>5. Ranked(t, e, b, latest)
    BY <1>1, <1>2, <1>4, RankedMore
<1>6. recent' = IF Len(latest) > Capacity THEN Tail(latest) ELSE latest
    BY <1>3, <1>4 DEF Set
<1>7. \A j \in t : e[j] <= now' + TTL
  <2>1. expiry \in [Keys -> 0..(MaxTime + TTL)] /\ t \subseteq Keys
      BY DEF TypeOK
  <2>2. \A j \in t : e[j] <= Deadline
      BY <1>2, <2>1
  <2> QED BY <1>1, <2>2 DEF Deadline
<1>8. IsFiniteSet(t) /\ Cardinality(t) \in Nat /\ Len(latest) \in Nat /\ latest # <<>>
  <2>1. t \subseteq Keys
      BY DEF TypeOK
  <2>2. IsFiniteSet(t) /\ Cardinality(t) \in Nat
      BY <2>1, CacheConstants, FS_Subset, FS_CardinalityType
  <2>3. recent \in Seq(Keys)
      BY DEF TypeOK
  <2>4. latest \in Seq(Keys) /\ Len(latest) = Len(recent) + 1
      BY <1>4, <2>3, AppendProperties
  <2>5. latest # <<>>
      BY <1>3, <2>4, EmptySeq
  <2> QED BY <1>3, <2>2, <2>4, <2>5
<1>9. /\ Ranked(t, e, b, recent')
      /\ Over(s) => \E x \in t : \A i \in DOMAIN recent' : Older(x, recent'[i], e, b)
  <2> HIDE DEF t, e, b, s
  <2>1. CASE Len(latest) > Capacity
      BY <1>5, <1>6, <1>8, <2>1, RankedTail
  <2>2. CASE ~(Len(latest) > Capacity)
    <3>1. recent' = latest
        BY <1>6, <2>2
    <3>2. Over(s) => Cardinality(t) > Len(latest)
        BY <1>1, <1>8, <2>2, CapacityIsPositive DEF Over
    <3> QED BY <1>5, <1>8, <3>1, <3>2, OneIsOlder
  <2> QED BY <2>1, <2>2
<1>10. CASE /\ ~Over(s)
            /\ stored' = s /\ timed' = t /\ expiry' = e /\ before' = b
    BY <1>7, <1>9, <1>10
<1>11. ASSUME Over(s), NEW o \in t, Oldest(o, t, e, b), Evict(o, s, t, e, b)
       PROVE  /\ Ranked(timed', expiry', before', recent')
              /\ \A j \in timed' : expiry'[j] <= now' + TTL
  <2>1. timed' = t \ {o} /\ expiry' = [e EXCEPT ![o] = 0] /\ before' = b \ Pairs(b, o)
      BY <1>11 DEF Evict
  <2>2. t \subseteq Keys /\ e \in [Keys -> Nat]
      BY <1>5 DEF Ranked
  <2>3. \A j \in timed' : expiry'[j] <= now' + TTL
    <3>1. \A j \in timed' : expiry'[j] = e[j] /\ j \in t
        BY <2>1, <2>2
    <3> QED BY <1>7, <3>1
  <2>4. Ranked(timed', expiry', before', recent')
    <3> HIDE DEF t, e, b, s
    <3>1. \A i \in DOMAIN recent' : recent'[i] # o
        BY <1>9, <1>11, OldestIsNotRecent
    <3>2. Without(recent', o) = recent'
        BY <3>1, WithoutNone
    <3>3. Ranked(t \ {o}, [e EXCEPT ![o] = 0], b \ Pairs(b, o), Without(recent', o))
        BY <1>9, <1>11, <2>2, RankedLess
    <3> QED BY <2>1, <3>2, <3>3
  <2> QED BY <2>3, <2>4
<1>12. (IF k \in timed THEN before ELSE before \cup (timed \X {k})) = b
    BY <1>1
<1>13. \/ /\ ~Over(s)
          /\ stored' = s /\ timed' = t /\ expiry' = e /\ before' = b
       \/ /\ Over(s)
          /\ \E o \in t : Oldest(o, t, e, b) /\ Evict(o, s, t, e, b)
    BY <1>12 DEF Set
<1> QED BY <1>10, <1>11, <1>13

LEMMA StepKept ==
    ASSUME TypeOK, Inv, Kept, [Next]_vars
    PROVE  Kept'
<1> SUFFICES ASSUME back' = 0, ~again'
             PROVE  /\ Ranked(timed', expiry', before', recent')
                    /\ \A k \in timed' : expiry'[k] <= now' + TTL
    BY DEF Kept, Ranked, Older
<1>0. /\ timed \subseteq Keys /\ now \in Nat /\ TTL \in Nat
      /\ expiry \in [Keys -> 0..(MaxTime + TTL)]
    BY CacheConstants DEF TypeOK
<1>1. ASSUME NEW k \in Keys, Set(k)
      PROVE  /\ Ranked(timed', expiry', before', recent')
             /\ \A j \in timed' : expiry'[j] <= now' + TTL
  <2>1. back = 0
      BY <1>1 DEF Set
  <2> QED BY <1>1, <2>1, SetKeeps
<1>2. ASSUME NEW k \in Keys, Remove(k)
      PROVE  /\ Ranked(timed', expiry', before', recent')
             /\ \A j \in timed' : expiry'[j] <= now' + TTL
  <2>1. /\ timed' = timed \ {k} /\ expiry' = [expiry EXCEPT ![k] = 0]
        /\ before' = before \ Pairs(before, k) /\ recent' = Without(recent, k)
        /\ UNCHANGED <<now, back, again>>
      BY <1>2 DEF Remove
  <2>2. Ranked(timed, expiry, before, recent) /\ \A j \in timed : expiry[j] <= now + TTL
      BY <2>1 DEF Kept
  <2>3. Ranked(timed', expiry', before', recent')
      BY <2>1, <2>2, RankedLess
  <2>4. \A j \in timed' : j \in timed /\ expiry'[j] = expiry[j]
      BY <1>0, <2>1
  <2> QED BY <2>1, <2>2, <2>3, <2>4
<1>3. CASE Clear
  <2>1. /\ timed' = {} /\ expiry' = [k \in Keys |-> 0] /\ before' = {} /\ recent' = <<>>
      BY <1>3 DEF Clear, ClearAll
  <2>2. Ranked({}, [k \in Keys |-> 0], {}, <<>>)
    <3>1. DOMAIN <<>> = {} /\ <<>> \in Seq({})
        OBVIOUS
    <3> QED BY <3>1 DEF Ranked
  <2> QED BY <2>1, <2>2
<1>4. CASE UNCHANGED <<dicts, recent>> /\ back' = back /\ again' = again /\ now' \in {now, now + 1}
  <2>1. UNCHANGED <<timed, expiry, before, recent>>
      BY <1>4 DEF dicts
  <2>2. Ranked(timed, expiry, before, recent) /\ \A j \in timed : expiry[j] <= now + TTL
      BY <1>4 DEF Kept
  <2>3. \A j \in timed : expiry[j] <= now' + TTL
    <3>1. \A j \in timed : expiry[j] \in Int
        BY <1>0, CacheConstants
    <3> QED BY <1>0, <1>4, <2>2, <3>1
  <2> QED BY <2>1, <2>2, <2>3
<1>5. CASE SetBack
  <2>1. back' = back + 1 /\ back \in Nat
      BY <1>5 DEF SetBack, TypeOK
  <2> QED BY <2>1
<1> QED
    BY <1>1, <1>2, <1>3, <1>4, <1>5 DEF Next, GetExpired, Pop, Tick, vars

LEMMA StepTypeOK ==
    ASSUME TypeOK, [Next]_vars
    PROVE  TypeOK'
<1>0. /\ TTL \in Nat /\ MaxTime \in Nat /\ MaxBack \in Nat /\ Capacity \in Nat \ {0}
      /\ recent \in Seq(Keys) /\ Len(recent) \in Nat /\ Len(recent) <= Capacity
    BY CacheConstants, CapacityIsPositive, LenProperties DEF TypeOK
<1>1. ASSUME NEW k PROVE /\ Without(recent, k) \in Seq(Keys)
                         /\ Len(Without(recent, k)) \in Nat
                         /\ Len(Without(recent, k)) <= Len(recent)
  <2>1. CASE \A i \in DOMAIN recent : recent[i] # k
      BY <1>0, <2>1, WithoutNone
  <2>2. ASSUME NEW l \in DOMAIN recent, recent[l] = k
        PROVE  /\ Without(recent, k) \in Seq(Keys)
               /\ Len(Without(recent, k)) = Len(recent) - 1
    <3>1. PICK n \in Nat : n = Len(recent)
        BY <1>0
    <3> QED BY <1>0, <2>2, <3>1, WithoutOne DEF Skips
  <2> QED BY <1>0, <2>1, <2>2, LenProperties
<1>2. ASSUME NEW k \in Keys, Set(k) PROVE TypeOK'
  <2> DEFINE s == stored \cup {k}
             t == timed \cup {k}
             e == [expiry EXCEPT ![k] = Deadline]
             b == IF k \in timed THEN before ELSE before \cup (timed \X {k})
             latest == Append(Without(recent, k), k)
  <2>1. Deadline \in 0..(MaxTime + TTL)
      BY <1>0 DEF Deadline, TypeOK
  <2>2. /\ s \subseteq Keys /\ t \subseteq Keys /\ b \subseteq t \X t
        /\ e \in [Keys -> 0..(MaxTime + TTL)]
      BY <2>1 DEF TypeOK
  <2>3. /\ stored' \subseteq Keys /\ timed' \subseteq Keys
        /\ expiry' \in [Keys -> 0..(MaxTime + TTL)] /\ before' \subseteq timed' \X timed'
    <3>1. CASE stored' = s /\ timed' = t /\ expiry' = e /\ before' = b
        BY <2>2, <3>1
    <3>2. ASSUME NEW o \in t, Evict(o, s, t, e, b)
          PROVE  /\ stored' \subseteq Keys /\ timed' \subseteq Keys
                 /\ expiry' \in [Keys -> 0..(MaxTime + TTL)]
                 /\ before' \subseteq timed' \X timed'
      <4> HIDE DEF s, t, e, b
      <4>1. 0 \in 0..(MaxTime + TTL)
          BY <1>0
      <4>2. expiry' \in [Keys -> 0..(MaxTime + TTL)]
          BY <2>2, <3>2, <4>1 DEF Evict
      <4> QED BY <2>2, <3>2, <4>2 DEF Evict, Pairs
    <3> QED BY <1>2, <3>1, <3>2 DEF Set
  <2>4. recent' \in Seq(Keys) /\ Len(recent') <= Capacity
    <3>1. PICK w : w = Without(recent, k)
        OBVIOUS
    <3>2. PICK l : l = Append(w, k)
        OBVIOUS
    <3>3. l \in Seq(Keys) /\ Len(l) = Len(w) + 1 /\ Len(w) \in Nat /\ Len(w) <= Capacity
        BY <1>0, <1>1, <3>1, <3>2, AppendProperties
    <3>4. l # <<>> /\ Tail(l) \in Seq(Keys) /\ Len(Tail(l)) = Len(l) - 1
      <4>1. l # <<>>
          BY <3>3, EmptySeq
      <4> QED BY <3>3, <4>1, HeadTailProperties
    <3>5. recent' = IF Len(l) > Capacity THEN Tail(l) ELSE l
        BY <1>2, <3>1, <3>2 DEF Set
    <3> QED BY <1>0, <3>3, <3>4, <3>5
  <2>5. UNCHANGED <<now, back>> /\ again' \in BOOLEAN
      BY <1>2 DEF Set, TypeOK
  <2> QED BY <2>3, <2>4, <2>5 DEF TypeOK
<1>3. ASSUME NEW k \in Keys, Remove(k) PROVE TypeOK'
  <2>1. /\ stored' = stored \ {k} /\ timed' = timed \ {k}
        /\ expiry' = [expiry EXCEPT ![k] = 0] /\ before' = before \ Pairs(before, k)
        /\ recent' = Without(recent, k) /\ UNCHANGED <<now, back, again>>
      BY <1>3 DEF Remove
  <2>2. 0 \in 0..(MaxTime + TTL)
      BY <1>0
  <2>3. expiry' \in [Keys -> 0..(MaxTime + TTL)]
      BY <2>1, <2>2 DEF TypeOK
  <2>4. before' \subseteq timed' \X timed'
      BY <2>1 DEF TypeOK, Pairs
  <2>5. recent' \in Seq(Keys) /\ Len(recent') <= Capacity
      BY <1>0, <1>1, <2>1
  <2> QED BY <2>1, <2>3, <2>4, <2>5 DEF TypeOK
<1>4. CASE Clear
  <2>1. Len(<<>>) = 0 /\ <<>> \in Seq(Keys) /\ 0 \in 0..(MaxTime + TTL)
      BY <1>0
  <2> QED BY <1>0, <1>4, <2>1 DEF Clear, ClearAll, TypeOK
<1>5. CASE Tick
    BY <1>0, <1>5 DEF Tick, TypeOK, dicts
<1>6. CASE SetBack
    BY <1>0, <1>6 DEF SetBack, TypeOK, dicts
<1>7. CASE UNCHANGED vars
    BY <1>7 DEF vars, dicts, TypeOK
<1> QED
    BY <1>2, <1>3, <1>4, <1>5, <1>6, <1>7 DEF Next, GetExpired, Pop

LEMMA InitKept ==
    ASSUME Init
    PROVE  TypeOK /\ Kept
<1>1. DOMAIN <<>> = {} /\ Len(<<>>) = 0 /\ <<>> \in Seq({}) /\ <<>> \in Seq(Keys)
    OBVIOUS
<1>2. TypeOK
  <2>1. 0 \in 0..(MaxTime + TTL) /\ 0 \in 0..MaxTime /\ 0 \in 0..MaxBack /\ 0 <= Capacity
      BY CacheConstants, CapacityIsPositive
  <2>2. expiry \in [Keys -> 0..(MaxTime + TTL)]
      BY <2>1 DEF Init
  <2>3. recent \in Seq(Keys) /\ Len(recent) <= Capacity
      BY <1>1, <2>1 DEF Init
  <2> QED BY <2>1, <2>2, <2>3 DEF Init, TypeOK
<1>3. Ranked(timed, expiry, before, recent)
    BY <1>1 DEF Init, Ranked
<1>4. timed = {}
    BY DEF Init
<1> QED BY <1>2, <1>3, <1>4 DEF Kept

-----------------------------------------------------------------------------

\* The inductive invariant holds of BoundedTTLCache, for any keys, capacity,
\* lifetime and clock.
THEOREM Invariance == Spec => []Inv
    BY InvInit, InvNext, PTL DEF Spec

\* The cache never holds more than max(max_entries, 1) entries, however many
\* are set and whatever the clock does (bounded_cache.py:30, :41-42).
THEOREM NeverOverCapacity == Spec => []Bounded
<1>1. Inv => Bounded
    BY DEF Inv
<1> QED
    BY <1>1, Invariance, PTL

\* No value is ever left without an expiry, and no expiry without its value.
THEOREM DictionariesAgree == Spec => []SameKeys
<1>1. Inv => SameKeys
    BY DEF Inv
<1> QED
    BY <1>1, Invariance, PTL

\* Every variable keeps its type, and the expiries lie on the clock.
THEOREM CacheTyping == Spec => []TypeOK
<1>1. Init => TypeOK
    BY InitKept
<1>2. TypeOK /\ [Next]_vars => TypeOK'
    BY StepTypeOK
<1> QED
    BY <1>1, <1>2, PTL DEF Spec

\* The last entries that were set are kept, as many as the cache holds, while ids
\* are fresh and the clock is not set back: what min() finds expires first and, of
\* those that expire together, was set first (bounded_cache.py:35-42, :82-86).
THEOREM LastOnesAreKept == Spec => []RecentIsKept
<1>1. Init => Kept
    BY InitKept
<1>2. TypeOK /\ Inv /\ Kept /\ [Next]_vars => Kept'
    BY StepKept
<1>3. ASSUME Inv, Kept, back = 0, ~again, NEW i \in DOMAIN recent
      PROVE  recent[i] \in stored
  <2>1. recent \in Seq(timed) /\ timed = stored
      BY <1>3 DEF Kept, Ranked, Inv, SameKeys
  <2>2. DOMAIN recent = 1..Len(recent)
      BY <2>1, LenProperties
  <2> QED BY <2>1, <2>2, ElementOfSeq
<1>4. Inv /\ Kept => RecentIsKept
    BY <1>3 DEF RecentIsKept
<1> QED
    BY <1>1, <1>2, <1>4, CacheTyping, Invariance, PTL DEF Spec

-----------------------------------------------------------------------------
(***************************************************************************)
(* The sandbox of the charts, for any set of calls and any size of the     *)
(* pools.  Its state has nothing to do with that of the cache.             *)
(***************************************************************************)
\* What the variables hold.
Mapped ==
    /\ pc \in [Charts -> {"idle", "asked", "waiting", "shown", "failed"}]
    /\ run \in [Charts -> {"none", "submitted", "started", "drawn", "saved", "done"}]
    /\ image \in [Charts -> [drawn : SUBSET Charts, saved : BOOLEAN]]
    /\ asked \in Seq(Charts) /\ submitted \in Seq(Charts) /\ figures \in Seq(SUBSET Charts)
    /\ loops \in [Charts -> BOOLEAN]
    /\ drew \subseteq Charts
    /\ overlapped \in BOOLEAN /\ timedOut \in BOOLEAN

\* Where a call and its run stand together.
Stands(c) ==
    /\ pc[c] \in {"idle", "asked"} => run[c] = "none"
    /\ pc[c] = "waiting" => run[c] # "none"
    /\ pc[c] \in {"shown", "failed"} => run[c] = "done"

\* What the process has open while a run is under way.
FiguresAre(c) ==
    /\ run[c] \in {"none", "submitted", "started"} => c \notin drew
    /\ run[c] = "submitted" => figures = <<>>
    /\ run[c] = "started" => figures = <<{}>>
    /\ run[c] = "drawn" => figures = <<{c}>> /\ c \in drew

\* What a call has saved.
ImageIs(c) ==
    /\ image[c].saved => run[c] \in {"saved", "done"} /\ image[c].drawn = {c} \cap drew
    /\ pc[c] = "shown" => image[c].saved

\* While calls are made one after the other, and none has timed out.
Solo ==
    ~overlapped /\ ~timedOut =>
        /\ \A c, d \in Charts : InProgress(c) /\ InProgress(d) => c = d
        /\ asked # <<>> => \E c \in Charts : asked = <<c>> /\ pc[c] = "asked"
        /\ submitted # <<>> => \E c \in Charts : submitted = <<c>> /\ run[c] = "submitted"
        /\ \A c \in Charts : Stands(c) /\ FiguresAre(c) /\ ImageIs(c)

\* A step keeps what the variables hold.
LEMMA StepMapped ==
    ASSUME Mapped, SandboxNext
    PROVE  Mapped'
<1>0. /\ \A s \in Seq(Charts) : s # <<>> => Head(s) \in Charts /\ Tail(s) \in Seq(Charts)
      /\ \A s \in Seq(Charts), c \in Charts : Append(s, c) \in Seq(Charts)
      /\ <<>> \in Seq(SUBSET Charts)
    BY HeadTailProperties, AppendProperties
<1>1. ASSUME NEW c \in Charts,
             \/ Call(c) \/ Submit(c)
             \/ Return(c) \/ Timeout(c)
      PROVE  Mapped'
  <2>1. CASE Call(c)
    <3>1. overlapped' \in BOOLEAN
        BY <2>1 DEF Call, Mapped
    <3>2. /\ pc' = [pc EXCEPT ![c] = "asked"] /\ asked' = Append(asked, c)
          /\ UNCHANGED <<loops, submitted, run, figures, image, drew, timedOut>>
        BY <2>1 DEF Call, At
    <3> QED BY <1>0, <3>1, <3>2 DEF Mapped
  <2>2. CASE Submit(c)
    <3>1. asked # <<>> /\ asked' = Tail(asked) /\ submitted' = Append(submitted, c)
        BY <2>2 DEF Submit
    <3>2. asked' \in Seq(Charts) /\ submitted' \in Seq(Charts)
        BY <1>0, <3>1 DEF Mapped
    <3> QED BY <1>0, <2>2, <3>2
        DEF Mapped, Submit, At, Runs, CloseAll
  <2>3. CASE Return(c)
    <3>1. PICK place \in {"shown", "failed"} : pc' = [pc EXCEPT ![c] = place]
        BY <2>3 DEF Return, At
    <3> QED BY <2>3, <3>1 DEF Mapped, Return
  <2>4. CASE Timeout(c)
    <3>1. timedOut' = TRUE
        BY <2>4 DEF Timeout
    <3> QED BY <1>0, <2>4, <3>1 DEF Mapped, Timeout, At, CloseAll
  <2> QED BY <1>1, <2>1, <2>2, <2>3, <2>4
<1>2. WithCurrent \in Seq(SUBSET Charts) /\ Len(WithCurrent) \in Nat \ {0}
  <2>0. PICK none : none = {}
      OBVIOUS
  <2>1. <<none>> \in Seq(SUBSET Charts) /\ Len(<<none>>) = 1
      BY <2>0
  <2>2. figures # <<>> => Len(figures) \in Nat \ {0}
      BY EmptySeq, LenProperties DEF Mapped
  <2>3. CASE figures = <<>>
      BY <2>0, <2>1, <2>3 DEF WithCurrent
  <2>4. CASE figures # <<>>
      BY <2>2, <2>4 DEF Mapped, WithCurrent
  <2> QED BY <2>3, <2>4
<1>3. ASSUME NEW c \in Charts, StartRun(c) PROVE Mapped'
  <2>1. figures' \in Seq(SUBSET Charts)
      BY <1>3, AppendProperties DEF Mapped, StartRun
  <2> QED BY <1>0, <1>3, <2>1 DEF Mapped, StartRun, Runs
<1>4. ASSUME NEW c \in Charts, Draw(c) PROVE Mapped'
  <2>1. PICK w \in Seq(SUBSET Charts) : w = WithCurrent /\ Len(w) \in Nat \ {0}
      BY <1>2
  <2>2. [w EXCEPT ![Len(w)] = @ \cup {c}] \in Seq(SUBSET Charts)
    <3>1. Len(w) \in 1..Len(w) /\ w[Len(w)] \cup {c} \in SUBSET Charts
        BY <2>1, ElementOfSeq
    <3> QED BY <2>1, <3>1, ExceptSeq
  <2>3. figures' \in Seq(SUBSET Charts)
      BY <1>4, <2>1, <2>2 DEF Draw
  <2> QED BY <1>4, <2>3 DEF Mapped, Draw, Runs
<1>5. ASSUME NEW c \in Charts, Save(c) PROVE Mapped'
  <2>1. WithCurrent[Len(WithCurrent)] \in SUBSET Charts
      BY <1>2, ElementOfSeq
  <2> QED BY <1>2, <1>5, <2>1 DEF Mapped, Save, Runs
<1>6. ASSUME NEW c \in Charts, Raise(c) \/ Close(c) PROVE Mapped'
    BY <1>0, <1>6 DEF Mapped, Raise, Close, Runs, CloseAll
<1> QED BY <1>1, <1>3, <1>4, <1>5, <1>6 DEF SandboxNext

\* As long as there is no overlap and no timeout, a step is one of the only call: a
\* run starts without figures, draws on its own, and ends with all of them closed
\* before its call can return and the next one can be made.
LEMMA StepSolo ==
    ASSUME Mapped, Solo, SandboxNext
    PROVE  Solo'
<1> SUFFICES ASSUME ~overlapped', ~timedOut'
             PROVE  Solo'
    BY DEF Solo
<1>0. ~overlapped /\ ~timedOut
  <2>1. ASSUME NEW c \in Charts, Call(c) PROVE ~overlapped /\ ~timedOut
      BY <2>1 DEF Call
  <2>2. ASSUME NEW c \in Charts, Timeout(c) PROVE FALSE
      BY <2>2 DEF Timeout
  <2>3. ASSUME NEW c \in Charts, UNCHANGED <<overlapped, timedOut>>
        PROVE  ~overlapped /\ ~timedOut
      BY <2>3
  <2> QED
      BY <2>1, <2>2, <2>3
      DEF SandboxNext, Submit, Return, StartRun, Draw,
          Save, Raise, Close
<1>1. /\ \A c, d \in Charts : InProgress(c) /\ InProgress(d) => c = d
      /\ asked # <<>> => \E c \in Charts : asked = <<c>> /\ pc[c] = "asked"
      /\ submitted # <<>> => \E c \in Charts : submitted = <<c>> /\ run[c] = "submitted"
      /\ \A c \in Charts : Stands(c) /\ FiguresAre(c) /\ ImageIs(c)
    BY <1>0 DEF Solo
<1>2. \A c \in Charts : run[c] \in {"submitted", "started", "drawn", "saved"} => pc[c] = "waiting"
    BY <1>1 DEF Mapped, Stands
<1>3. \A c : Len(<<c>>) = 1 /\ Head(<<c>>) = c /\ Tail(<<c>>) = <<>> /\ Append(<<>>, c) = <<c>>
    OBVIOUS
<1>4. ASSUME NEW c \in Charts, Call(c) PROVE Solo'
  <2>1. /\ pc[c] = "idle" /\ pc' = [pc EXCEPT ![c] = "asked"] /\ asked' = Append(asked, c)
        /\ \A d \in Charts : ~InProgress(d)
        /\ UNCHANGED <<submitted, run, figures, image, drew>>
      BY <1>4 DEF Call, At
  <2>2. asked = <<>> /\ submitted = <<>>
      BY <1>1, <1>2, <2>1 DEF InProgress
  <2>3. asked' = <<c>> /\ pc'[c] = "asked" /\ \A d \in Charts \ {c} : pc'[d] = pc[d]
      BY <1>3, <2>1, <2>2 DEF Mapped
  <2>4. \A d \in Charts : InProgress(d)' => d = c
      BY <2>1, <2>3 DEF InProgress
  <2>5. ASSUME NEW d \in Charts PROVE (Stands(d) /\ FiguresAre(d) /\ ImageIs(d))'
      BY <1>1, <2>1, <2>3 DEF Stands, FiguresAre, ImageIs
  <2> QED BY <2>1, <2>2, <2>3, <2>4, <2>5 DEF Solo
<1>5. ASSUME NEW c \in Charts, Submit(c) PROVE Solo'
  <2>1. asked = <<c>> /\ pc[c] = "asked" /\ run[c] = "none"
      BY <1>1, <1>3, <1>5 DEF Submit, Stands
  <2>2. /\ asked' = <<>> /\ pc' = [pc EXCEPT ![c] = "waiting"] /\ figures' = <<>>
        /\ submitted' = Append(submitted, c) /\ run' = [run EXCEPT ![c] = "submitted"]
        /\ image' = image /\ drew' = drew
      BY <1>3, <1>5, <2>1 DEF Submit, At, Runs, CloseAll
  <2>3. \A d \in Charts \ {c} : ~InProgress(d) /\ pc'[d] = pc[d] /\ run'[d] = run[d]
      BY <1>1, <2>1, <2>2 DEF InProgress, Mapped
  <2>4. submitted = <<>>
      BY <1>1, <1>2, <2>1, <2>3 DEF InProgress
  <2>5. submitted' = <<c>> /\ run'[c] = "submitted" /\ pc'[c] = "waiting"
      BY <1>3, <2>2, <2>4 DEF Mapped
  <2>6. ASSUME NEW d \in Charts PROVE (Stands(d) /\ FiguresAre(d) /\ ImageIs(d))'
    <3>1. CASE d = c
        BY <1>1, <2>1, <2>2, <2>5, <3>1 DEF Stands, FiguresAre, ImageIs
    <3>2. CASE d # c
        BY <1>1, <1>2, <2>2, <2>3, <3>2 DEF Stands, FiguresAre, ImageIs, InProgress
    <3> QED BY <3>1, <3>2
  <2>7. \A d \in Charts : InProgress(d)' => d = c
      BY <2>3 DEF InProgress
  <2> QED BY <2>2, <2>5, <2>6, <2>7 DEF Solo
<1>6. ASSUME NEW c \in Charts, Return(c) PROVE Solo'
  <2>1. /\ pc[c] = "waiting" /\ run[c] = "done"
        /\ pc' = [pc EXCEPT ![c] = IF image[c].saved THEN "shown" ELSE "failed"]
        /\ UNCHANGED <<asked, submitted, run, figures, image, drew>>
      BY <1>6 DEF Return, HasEnded, At
  <2>2. \A d \in Charts \ {c} : ~InProgress(d) /\ pc'[d] = pc[d]
      BY <1>1, <2>1 DEF InProgress, Mapped
  <2>3. /\ pc'[c] \in {"shown", "failed"} /\ (pc'[c] = "shown" => image[c].saved)
      BY <2>1 DEF Mapped
  <2>4. asked = <<>> /\ submitted = <<>>
      BY <1>1, <1>2, <2>1, <2>2 DEF InProgress
  <2>5. ASSUME NEW d \in Charts PROVE (Stands(d) /\ FiguresAre(d) /\ ImageIs(d))'
    <3>1. CASE d = c
        BY <1>1, <2>1, <2>3, <3>1 DEF Stands, FiguresAre, ImageIs
    <3>2. CASE d # c
        BY <1>1, <2>1, <2>2, <3>2 DEF Stands, FiguresAre, ImageIs
    <3> QED BY <3>1, <3>2
  <2>6. \A d \in Charts : ~InProgress(d)'
      BY <2>2, <2>3 DEF InProgress
  <2> QED BY <2>1, <2>4, <2>5, <2>6 DEF Solo
<1>7. ASSUME NEW c \in Charts, Timeout(c) PROVE FALSE
    BY <1>7 DEF Timeout
\* The run of the only call goes on.
<1>8. ASSUME NEW c \in Charts, run[c] \in {"submitted", "started", "drawn", "saved"},
             NEW place \in {"started", "drawn", "saved", "done"},
             run' = [run EXCEPT ![c] = place], UNCHANGED <<pc, asked>>,
             submitted' = <<>>,
             \A d \in Charts \ {c} : image'[d] = image[d] /\ (d \in drew' <=> d \in drew),
             image'[c].saved =>
                 place \in {"saved", "done"} /\ image'[c].drawn = {c} \cap drew',
             place = "started" => figures' = <<{}>> /\ c \notin drew',
             place = "drawn" => figures' = <<{c}>> /\ c \in drew'
      PROVE  Solo'
  <2>1. pc[c] = "waiting" /\ \A d \in Charts \ {c} : ~InProgress(d) /\ run'[d] = run[d]
      BY <1>1, <1>2, <1>8 DEF InProgress, Mapped
  <2>2. run'[c] = place
      BY <1>8 DEF Mapped
  <2>3. asked = <<>>
      BY <1>1, <2>1 DEF InProgress
  <2>4. ASSUME NEW d \in Charts PROVE (Stands(d) /\ FiguresAre(d) /\ ImageIs(d))'
    <3>1. CASE d = c
        BY <1>8, <2>1, <2>2, <3>1 DEF Stands, FiguresAre, ImageIs
    <3>2. CASE d # c
        BY <1>1, <1>2, <1>8, <2>1, <3>2 DEF Stands, FiguresAre, ImageIs, InProgress
    <3> QED BY <3>1, <3>2
  <2>5. \A d, f \in Charts : InProgress(d)' /\ InProgress(f)' => d = f
      BY <1>1, <1>8 DEF InProgress
  <2> QED BY <1>8, <2>3, <2>4, <2>5 DEF Solo
<1>9. \A c \in Charts : run[c] \in {"started", "drawn", "saved"} => submitted = <<>>
    BY <1>1, <1>2 DEF InProgress
<1>10. ASSUME NEW c \in Charts, StartRun(c) PROVE Solo'
  <2>1. submitted = <<c>> /\ run[c] = "submitted"
      BY <1>1, <1>3, <1>10 DEF StartRun
  <2>2. figures = <<>>
      BY <1>1, <2>1 DEF FiguresAre
  <2>3. /\ run' = [run EXCEPT ![c] = "started"] /\ figures' = Append(figures, {})
        /\ submitted' = <<>> /\ UNCHANGED <<pc, asked, image, drew>> /\ c \notin drew
      BY <1>1, <1>3, <1>10, <2>1 DEF StartRun, Runs, FiguresAre
  <2> QED BY <1>1, <1>3, <1>8, <2>1, <2>2, <2>3 DEF ImageIs
<1>11. ASSUME NEW c \in Charts, Draw(c) PROVE Solo'
  <2>1. /\ run[c] \in {"started", "drawn"} /\ run' = [run EXCEPT ![c] = "drawn"]
        /\ figures' = [WithCurrent EXCEPT ![Len(WithCurrent)] = @ \cup {c}]
        /\ drew' = drew \cup {c} /\ UNCHANGED <<pc, asked, submitted, image>>
      BY <1>11 DEF Draw, Runs
  <2>2. figures = <<{}>> \/ figures = <<{c}>>
      BY <1>1, <2>1 DEF FiguresAre
  <2>3. PICK x \in {{}, {c}} : WithCurrent = <<x>> /\ x \cup {c} = {c}
      BY <2>2 DEF WithCurrent
  <2>4. figures' = <<{c}>>
    <3>1. [<<x>> EXCEPT ![1] = x \cup {c}] = <<{c}>>
        BY <2>3
    <3> QED BY <1>3, <2>1, <2>3, <3>1
  <2>5. ~image[c].saved
      BY <1>1, <2>1 DEF ImageIs
  <2> QED BY <1>8, <1>9, <2>1, <2>4, <2>5
<1>12. ASSUME NEW c \in Charts, Save(c) PROVE Solo'
  <2>1. /\ run[c] \in {"started", "drawn"} /\ run' = [run EXCEPT ![c] = "saved"]
        /\ image' = [image EXCEPT ![c] = [drawn |-> WithCurrent[Len(WithCurrent)], saved |-> TRUE]]
        /\ UNCHANGED <<pc, asked, submitted, drew>>
      BY <1>12 DEF Save, Runs
  <2>2. PICK x : x = {c} \cap drew
      OBVIOUS
  <2>3. WithCurrent = <<x>>
      BY <1>1, <2>1, <2>2 DEF FiguresAre, WithCurrent
  <2>4. WithCurrent[Len(WithCurrent)] = x
      BY <1>3, <2>3
  <2>5. image'[c].drawn = {c} \cap drew /\ \A d \in Charts \ {c} : image'[d] = image[d]
      BY <2>1, <2>2, <2>4 DEF Mapped
  <2> QED BY <1>8, <1>9, <2>1, <2>5
<1>13. ASSUME NEW c \in Charts, Raise(c) PROVE Solo'
  <2>1. /\ run[c] \in {"started", "drawn"} /\ run' = [run EXCEPT ![c] = "saved"]
        /\ UNCHANGED <<pc, asked, submitted, image, drew>>
      BY <1>13 DEF Raise, Runs
  <2> QED BY <1>1, <1>8, <1>9, <2>1 DEF ImageIs
<1>14. ASSUME NEW c \in Charts, Close(c) PROVE Solo'
  <2>1. /\ run[c] = "saved" /\ run' = [run EXCEPT ![c] = "done"]
        /\ UNCHANGED <<pc, asked, submitted, image, drew>>
      BY <1>14 DEF Close, Runs
  <2> QED BY <1>1, <1>8, <1>9, <2>1 DEF ImageIs
<1> QED
    BY <1>4, <1>5, <1>6, <1>7, <1>10, <1>11, <1>12, <1>13, <1>14 DEF SandboxNext

\* Nothing has been called yet.
LEMMA InitSolo ==
    ASSUME SandboxInit
    PROVE  Mapped /\ Solo
<1>1. Mapped
  <2>1. <<>> \in Seq(Charts) /\ <<>> \in Seq(SUBSET Charts)
      OBVIOUS
  <2>2. NoImage \in [drawn : SUBSET Charts, saved : BOOLEAN]
      BY DEF NoImage
  <2>3. overlapped \in BOOLEAN /\ timedOut \in BOOLEAN
      BY DEF SandboxInit
  <2> QED BY <2>1, <2>2, <2>3 DEF SandboxInit, Mapped
<1>2. Solo
    BY DEF SandboxInit, Solo, InProgress, Stands, FiguresAre, ImageIs, NoImage
<1> QED BY <1>1, <1>2

\* A chart shows what its own code has drawn and nothing else, for any number of
\* calls and threads, as long as no call is made while another one is in progress and
\* none has timed out (utils/chart_sandbox.py:89-108).
THEOREM ImageIsOwn == SandboxSpec => []SoloImageIsOwn
<1>1. SandboxInit => Mapped /\ Solo
    BY InitSolo
<1>2. Mapped /\ Solo /\ [SandboxNext]_sandboxVars => Mapped' /\ Solo'
  <2>1. CASE UNCHANGED sandboxVars
      BY <2>1 DEF sandboxVars, Mapped, Solo, InProgress, Stands, FiguresAre, ImageIs
  <2> QED BY <2>1, StepMapped, StepSolo
<1>3. Solo => SoloImageIsOwn
    BY DEF Solo, SoloImageIsOwn, ImageIs
<1> QED
    BY <1>1, <1>2, <1>3, PTL DEF SandboxSpec

\* Threads that run code, each one taken by a run until the code ends.
LEMMA StepRunning ==
    ASSUME Mapped, SandboxNext,
           IsFiniteSet(Running), Cardinality(Running) <= PoolSize
    PROVE  IsFiniteSet(Running') /\ Cardinality(Running') <= PoolSize
<1>1. ASSUME NEW c \in Charts, StartRun(c)
      PROVE  IsFiniteSet(Running') /\ Cardinality(Running') <= PoolSize
  <2>1. /\ run' = [run EXCEPT ![c] = "started"]
        /\ Cardinality(Running) < PoolSize
      BY <1>1 DEF StartRun, Runs
  <2>2. Running' = Running \cup {c}
      BY <2>1 DEF Running, Mapped
  <2>3. /\ IsFiniteSet(Running \cup {c})
        /\ Cardinality(Running \cup {c}) <= Cardinality(Running) + 1
        /\ Cardinality(Running) \in Nat
        /\ Cardinality(Running \cup {c}) \in Nat
      BY Counting
  <2> QED BY <2>1, <2>2, <2>3, PoolAssumption
<1>2. ASSUME NEW S, S \subseteq Running, Running' = S
      PROVE  IsFiniteSet(Running') /\ Cardinality(Running') <= PoolSize
  <2>1. /\ IsFiniteSet(S) /\ Cardinality(S) <= Cardinality(Running)
        /\ Cardinality(S) \in Nat /\ Cardinality(Running) \in Nat
      BY <1>2, FS_Subset, FS_CardinalityType
  <2> QED BY <1>2, <2>1, PoolAssumption
<1>3. ASSUME NEW c \in Charts,
             \/ Draw(c) \/ Save(c) \/ Raise(c) \/ Close(c)
      PROVE  Running' \subseteq Running
  <2>1. PICK place \in {"drawn", "saved", "done"} : run' = [run EXCEPT ![c] = place]
      BY <1>3 DEF Draw, Save, Raise, Close, Runs
  <2>2. c \in Running
      BY <1>3 DEF Draw, Save, Raise, Close, Running
  <2> QED BY <2>1, <2>2 DEF Running, Mapped
<1>4. ASSUME NEW c \in Charts, Submit(c)
      PROVE  Running' \subseteq Running
  <2>1. run' = [run EXCEPT ![c] = "submitted"]
      BY <1>4 DEF Submit, Runs
  <2> QED BY <2>1 DEF Running, Mapped
<1>5. ASSUME NEW c \in Charts, Call(c) \/ Return(c) \/ Timeout(c)
      PROVE  Running' = Running
  <2>1. run' = run
      BY <1>5 DEF Call, Return, Timeout
  <2> QED BY <2>1 DEF Running
<1> QED BY <1>1, <1>2, <1>3, <1>4, <1>5 DEF SandboxNext

\* The variables of the sandbox keep their types, and its second pool never runs more
\* code than it has threads, also when calls give up runs that go on
\* (utils/chart_sandbox.py:25-28).
THEOREM SandboxTyping == SandboxSpec => []SandboxTypeOK
<1> DEFINE Few == IsFiniteSet(Running) /\ Cardinality(Running) <= PoolSize
<1>1. SandboxInit => Mapped /\ Few
  <2>1. SandboxInit => Running = {}
      BY DEF SandboxInit, Running
  <2> QED BY <2>1, InitSolo, FS_EmptySet, PoolAssumption
<1>2. Mapped /\ Few /\ [SandboxNext]_sandboxVars => Mapped' /\ Few'
  <2>1. CASE UNCHANGED sandboxVars
      BY <2>1 DEF sandboxVars, Running, Mapped
  <2> QED BY <2>1, StepMapped, StepRunning
<1>3. Mapped /\ Few => SandboxTypeOK
    BY DEF Mapped, SandboxTypeOK
<1> QED
    BY <1>1, <1>2, <1>3, PTL DEF SandboxSpec
=============================================================================
