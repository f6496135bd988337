-------------------------- MODULE BoundedTTLCache --------------------------
(***************************************************************************)
(* BoundedTTLCache of utils/bounded_cache.py, behind the results that      *)
(* query_database leaves for create_chart (utils/result_store.py) and the  *)
(* chart options that /chart/option serves (tools/chart_tools.py).         *)
(*                                                                         *)
(* The two dictionaries of the class are kept apart: `stored` holds the    *)
(* keys of _store, `timed` those of _expiry.  Every key has one value for  *)
(* life, so values are left out.  Time is the wall clock in steps of any   *)
(* length: entries may be set at the same time, and the clock may be set   *)
(* back.  Every method runs without an await.                              *)
(***************************************************************************)
EXTENDS Integers, Sequences, FiniteSets

CONSTANTS
    Keys,        \* result ids, or chart ids
    MaxEntries,  \* max_entries
    TTL,         \* ttl_seconds
    MaxTime,     \* bound: readings of the clock
    MaxBack      \* bound: how often the clock is set back

ASSUME CacheConstants ==
    /\ IsFiniteSet(Keys)
    /\ MaxEntries \in Int
    /\ TTL \in Nat
    /\ MaxTime \in Nat
    /\ MaxBack \in Nat

VARIABLES
    stored,   \* the keys of _store
    timed,    \* the keys of _expiry
    expiry,   \* _expiry; 0 for keys that are not in it
    before,   \* pairs of keys of _expiry, in the order the dict iterates
    now,      \* time.time()
    back,     \* how often the clock was set back
    again,    \* history: a key was set that was in the cache
    recent    \* history: the last keys that were set and not taken out since,
              \*   as many as there are entries allowed

dicts == <<stored, timed, expiry, before>>
vars == <<dicts, now, back, again, recent>>

\* max(max_entries, 1)
Capacity == IF MaxEntries < 1 THEN 1 ELSE MaxEntries

TypeOK ==
    /\ stored \subseteq Keys
    /\ timed \subseteq Keys
    /\ expiry \in [Keys -> 0..(MaxTime + TTL)]
    /\ before \subseteq timed \X timed
    /\ now \in 0..MaxTime
    /\ back \in 0..MaxBack
    /\ again \in BOOLEAN
    /\ recent \in Seq(Keys) /\ Len(recent) <= Capacity

Init ==
    /\ stored = {}
    /\ timed = {}
    /\ expiry = [k \in Keys |-> 0]
    /\ before = {}
    /\ now = 0
    /\ back = 0
    /\ again = FALSE
    /\ recent = <<>>

-----------------------------------------------------------------------------

\* s without the place of k, if k has one.
Without(s, k) ==
    IF \E i \in DOMAIN s : s[i] = k
    THEN LET p == CHOOSE i \in DOMAIN s : s[i] = k
         IN  SubSeq(s, 1, p - 1) \o SubSeq(s, p + 1, Len(s))
    ELSE s
Pairs(b, k) == {p \in b : k \in {p[1], p[2]}}

\* The last of those that expire first.
LastOldest(k, t, e, b) ==
    \A j \in t : \/ e[k] < e[j]
                 \/ e[k] = e[j] /\ (j = k \/ <<j, k>> \in b)

\* min(_expiry, key=_expiry.get): the first of those that expire first.
Oldest(k, t, e, b) ==
    \A j \in t : \/ e[k] < e[j]
                 \/ e[k] = e[j] /\ (j = k \/ <<k, j>> \in b)

\* _evict_oldest on the entries s, t, e, b.
Evict(o, s, t, e, b) ==
    /\ stored' = s \ {o}
    /\ timed' = t \ {o}
    /\ expiry' = [e EXCEPT ![o] = 0]
    /\ before' = b \ Pairs(b, o)

\* One entry more than allowed.
OverLater(s) == Cardinality(s) > Capacity + 1
Over(s) == Cardinality(s) > Capacity

\* A time to live taken twice.
DeadlineLater == now + 2 * TTL
Deadline == now + TTL

\* set: a key that is there keeps its place in the iteration order; one entry
\* is evicted if there are too many.
Set(k) ==
    LET s == stored \cup {k}
        t == timed \cup {k}
        e == [expiry EXCEPT ![k] = Deadline]
        b == IF k \in timed THEN before ELSE before \cup (timed \X {k})
        latest == Append(Without(recent, k), k) IN
    /\ \/ /\ ~Over(s)
          /\ stored' = s /\ timed' = t /\ expiry' = e /\ before' = b
       \/ /\ Over(s)
          /\ \E o \in t : Oldest(o, t, e, b) /\ Evict(o, s, t, e, b)
    /\ again' = (again \/ k \in stored)
    /\ recent' = IF Len(latest) > Capacity THEN Tail(latest) ELSE latest
    /\ UNCHANGED <<now, back>>

\* The entry of k leaves both dictionaries.
Remove(k) ==
    /\ stored' = stored \ {k}
    /\ timed' = timed \ {k}
    /\ expiry' = [expiry EXCEPT ![k] = 0]
    /\ before' = before \ Pairs(before, k)
    /\ recent' = Without(recent, k)
    /\ UNCHANGED <<now, back, again>>

\* What get finds past its expiry; the other reads of get, and all of peek,
\* change nothing.
Live(k) == now <= expiry[k]

GetExpired(k) ==
    /\ k \in timed
    /\ ~Live(k)
    /\ Remove(k)

Pop(k) ==
    /\ k \in stored
    /\ Remove(k)

\* The clear that leaves the expiries.
ClearValues == stored' = {} /\ UNCHANGED <<timed, expiry, before>>
ClearAll ==
    /\ stored' = {}
    /\ timed' = {}
    /\ expiry' = [k \in Keys |-> 0]
    /\ before' = {}

Clear ==
    /\ ClearAll
    /\ recent' = <<>>
    /\ UNCHANGED <<now, back, again>>

Tick ==
    /\ now < MaxTime
    /\ now' = now + 1
    /\ UNCHANGED <<dicts, back, again, recent>>

\* The clock of the machine is set back.
SetBack ==
    /\ back < MaxBack
    /\ now' \in 0..(now - 1)
    /\ back' = back + 1
    /\ UNCHANGED <<dicts, again, recent>>

Next ==
    \/ \E k \in Keys : Set(k) \/ GetExpired(k) \/ Pop(k)
    \/ Clear
    \/ Tick
    \/ SetBack

Spec == Init /\ [][Next]_vars

-----------------------------------------------------------------------------
(* Properties *)

\* The cache never holds more entries than allowed: one eviction per set is
\* enough because it always removes a value (bounded_cache.py:41-42, :82-86).
Bounded == Cardinality(stored) <= Capacity

\* The dictionaries agree on their keys, so that every value can expire and
\* every eviction frees a place.
SameKeys == stored = timed

\* As long as the clock is not set back and no key is set twice (ids are
\* fresh), the last entries that were set are kept, as many as the cache holds:
\* a result is there for the chart that is drawn from it unless that many others
\* came meanwhile, be they set at one reading of the clock.
RecentIsKept ==
    back = 0 /\ ~again => \A i \in DOMAIN recent : recent[i] \in stored
=============================================================================
