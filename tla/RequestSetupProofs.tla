------------------------- MODULE RequestSetupProofs -------------------------
(***************************************************************************)
(* Theorems about PromptCache, for any number of requests and prefixes and *)
(* any max_entries, and then about RequestSetup, whose requests use it,    *)
(* for any tokens, bodies, models to map to and overflows, and any         *)
(* configuration.  What needs the requests to come one after another says  *)
(* so; PromptCacheShared shows that two of them are too many.              *)
(***************************************************************************)
EXTENDS RequestSetup, FiniteSetTheorems, SequenceTheorems, TLAPS

-----------------------------------------------------------------------------
(* The cache: the inductive invariant *)

\* A prefix has one entry.
NoRepeats == \A i, j \in 1 .. Len(entries) : entries[i] = entries[j] => i = j

\* Who is in get_or_convert has a prefix; only who has scanned has a victim.
HasPrefix ==
    \A t \in Threads :
        /\ pc[t] # "idle" => prefix[t] \in Prompts
        /\ pc[t] # "evict" => victim[t] = NoPrefix

CacheInv == CacheTypeOK /\ NoRepeats /\ HasPrefix

\* What a request that is alone with the cache knows of it from the steps
\* before: it was full, what it found is the oldest entry, there is room.
Foresees(t) ==
    /\ pc[t] = "remove" => prefix[t] \in expired
    /\ pc[t] = "scan" => Len(entries) >= MaxEntries
    /\ pc[t] = "evict" => entries # <<>> /\ victim[t] = entries[1]
    /\ pc[t] = "insert" => Len(entries) < MaxEntries

AloneInv == CacheBounded /\ \A t \in Threads : Foresees(t)

Alone == \A t, u \in Threads : t = u

\* A single request has nobody to share the cache with.
LEMMA OneIsAlone ==
    ASSUME Cardinality(Threads) = 1
    PROVE  Alone
BY CacheAssumption, FS_Singleton DEF Alone

-----------------------------------------------------------------------------
(* Removing an entry. *)

\* Position finds a prefix that is there.
LEMMA PositionFound ==
    ASSUME NEW p, entries \in Seq(Prompts), Contains(entries, p)
    PROVE  Position(p) \in 1 .. Len(entries) /\ entries[Position(p)] = p
<1>1. \E i \in DOMAIN entries : entries[i] = p
  BY DEF Contains
<1> QED
  BY <1>1 DEF Position

\* RemoveAt closes the gap.
LEMMA RemoveAtElements ==
    ASSUME NEW S, NEW s \in Seq(S), NEW n \in 1 .. Len(s)
    PROVE  /\ RemoveAt(s, n) \in Seq(S)
           /\ Len(RemoveAt(s, n)) = Len(s) - 1
           /\ \A i \in 1 .. Len(s) - 1 :
                 RemoveAt(s, n)[i] = IF i < n THEN s[i] ELSE s[i + 1]
<1> DEFINE front == SubSeq(s, 1, n - 1)
           back  == SubSeq(s, n + 1, Len(s))
<1>1. /\ front \in Seq(S) /\ Len(front) = n - 1
      /\ \A i \in 1 .. n - 1 : front[i] = s[i]
  <2>1. \A i \in 1 .. n - 1 : s[i] \in S
    OBVIOUS
  <2>2. /\ SubSeq(s, 1, n - 1) \in Seq(S)
        /\ Len(SubSeq(s, 1, n - 1)) = IF 1 <= n - 1 THEN n - 1 - 1 + 1 ELSE 0
        /\ \A i \in 1 .. n - 1 - 1 + 1 : SubSeq(s, 1, n - 1)[i] = s[1 + i - 1]
    BY <2>1, SubSeqProperties
  <2> QED
    BY <2>2
<1>2. /\ back \in Seq(S) /\ Len(back) = Len(s) - n
      /\ \A i \in 1 .. Len(s) - n : back[i] = s[n + i]
  <2>1. \A i \in n + 1 .. Len(s) : s[i] \in S
    OBVIOUS
  <2>2. /\ SubSeq(s, n + 1, Len(s)) \in Seq(S)
        /\ Len(SubSeq(s, n + 1, Len(s))) = IF n + 1 <= Len(s) THEN Len(s) - (n + 1) + 1 ELSE 0
        /\ \A i \in 1 .. Len(s) - (n + 1) + 1 : SubSeq(s, n + 1, Len(s))[i] = s[n + 1 + i - 1]
    BY <2>1, SubSeqProperties
  <2> QED
    BY <2>2
<1>3. RemoveAt(s, n) = front \o back
  BY DEF RemoveAt
<1> HIDE DEF front, back
<1>4. /\ front \o back \in Seq(S)
      /\ Len(front \o back) = Len(front) + Len(back)
      /\ \A i \in 1 .. Len(front) + Len(back) :
            (front \o back)[i] = IF i <= Len(front) THEN front[i] ELSE back[i - Len(front)]
  BY <1>1, <1>2, ConcatProperties
<1>5. n \in Nat /\ Len(s) \in Nat /\ 1 <= n /\ n <= Len(s)
  OBVIOUS
<1>6. ASSUME NEW i \in 1 .. Len(s) - 1
      PROVE  (front \o back)[i] = IF i < n THEN s[i] ELSE s[i + 1]
  <2>1. CASE i < n
    <3>1. (front \o back)[i] = front[i]
      BY <1>1, <1>2, <1>4, <1>5, <2>1
    <3> QED
      BY <1>1, <1>5, <2>1, <3>1
  <2>2. CASE ~(i < n)
    <3>1. (front \o back)[i] = back[i - (n - 1)]
      BY <1>1, <1>2, <1>4, <1>5, <2>2
    <3>2. i - (n - 1) \in 1 .. Len(s) - n
      BY <1>5, <2>2
    <3>3. n + (i - (n - 1)) = i + 1
      BY <1>5
    <3> QED
      BY <1>2, <2>2, <3>1, <3>2, <3>3
  <2> QED
    BY <2>1, <2>2
<1> QED
  BY <1>1, <1>2, <1>3, <1>4, <1>5, <1>6

\* Without takes one prefix out of the map and keeps the others in order.
LEMMA WithoutElements ==
    ASSUME NEW p, entries \in Seq(Prompts), NoRepeats
    PROVE  /\ Without(p) \in Seq(Prompts)
           /\ \A i, j \in 1 .. Len(Without(p)) : Without(p)[i] = Without(p)[j] => i = j
           /\ Range(Without(p)) = Range(entries) \ {p}
           /\ Len(Without(p)) = IF Contains(entries, p) THEN Len(entries) - 1 ELSE Len(entries)
<1>1. CASE ~Contains(entries, p)
  <2>1. Without(p) = entries
    BY <1>1 DEF Without
  <2>2. p \notin Range(entries)
    BY <1>1 DEF Contains, Range
  <2> QED
    BY <1>1, <2>1, <2>2 DEF NoRepeats
<1>2. CASE Contains(entries, p)
  <2> DEFINE n == Position(p)
  <2>1. n \in 1 .. Len(entries) /\ entries[n] = p
    BY <1>2, PositionFound
  <2> HIDE DEF n
  <2>2. Without(p) = RemoveAt(entries, n)
    BY <1>2 DEF Without, n
  <2> DEFINE w == Without(p)
  <2>3. /\ w \in Seq(Prompts)
        /\ Len(w) = Len(entries) - 1
        /\ \A i \in 1 .. Len(entries) - 1 : w[i] = IF i < n THEN entries[i] ELSE entries[i + 1]
    BY <2>1, <2>2, RemoveAtElements
  <2> HIDE DEF w
  <2>4. ASSUME NEW i \in 1 .. Len(w), NEW j \in 1 .. Len(w), w[i] = w[j]
        PROVE  i = j
    <3> DEFINE at(k) == IF k < n THEN k ELSE k + 1
    <3>1. \A k \in 1 .. Len(w) : at(k) \in 1 .. Len(entries) /\ w[k] = entries[at(k)]
      BY <2>1, <2>3
    <3>2. at(i) = at(j)
      BY <2>4, <3>1 DEF NoRepeats
    <3> QED
      BY <2>1, <2>3, <3>2
  <2>5. ASSUME NEW i \in 1 .. Len(w) PROVE w[i] \in Range(entries) \ {p}
    <3>1. CASE i < n
      <4>1. w[i] = entries[i] /\ i \in 1 .. Len(entries) /\ i # n
        BY <2>1, <2>3, <2>5, <3>1
      <4> QED
        BY <2>1, <4>1 DEF NoRepeats, Range
    <3>2. CASE ~(i < n)
      <4>1. w[i] = entries[i + 1] /\ i + 1 \in 1 .. Len(entries) /\ i + 1 # n
        BY <2>1, <2>3, <2>5, <3>2
      <4> QED
        BY <2>1, <4>1 DEF NoRepeats, Range
    <3> QED
      BY <3>1, <3>2
  <2>6. ASSUME NEW i \in 1 .. Len(entries), entries[i] # p PROVE entries[i] \in Range(w)
    <3>1. i # n
      BY <2>1, <2>6
    <3>2. CASE i < n
      <4>1. i \in 1 .. Len(w) /\ w[i] = entries[i]
        BY <2>1, <2>3, <3>2
      <4> QED
        BY <2>3, <4>1 DEF Range
    <3>3. CASE i > n
      <4>1. i - 1 \in 1 .. Len(w) /\ w[i - 1] = entries[i]
        BY <2>1, <2>3, <3>3
      <4> QED
        BY <2>3, <4>1 DEF Range
    <3> QED
      BY <2>1, <3>1, <3>2, <3>3
  <2>7. Range(w) = Range(entries) \ {p}
    BY <2>3, <2>5, <2>6 DEF Range
  <2> QED
    BY <1>2, <2>3, <2>4, <2>7 DEF w
<1> QED
  BY <1>1, <1>2

\* What a sequence contains is its range.
LEMMA ContainsIsRange ==
    ASSUME NEW S, NEW s \in Seq(S), NEW p
    PROVE  Contains(s, p) <=> p \in Range(s)
BY DEF Contains, Range

\* The entry of a prefix that has none goes to the end.
LEMMA AppendElements ==
    ASSUME NEW S, NEW s \in Seq(S), NEW p \in S, ~Contains(s, p),
           \A i, j \in 1 .. Len(s) : s[i] = s[j] => i = j
    PROVE  /\ Append(s, p) \in Seq(S)
           /\ Len(Append(s, p)) = Len(s) + 1
           /\ \A i, j \in 1 .. Len(s) + 1 : Append(s, p)[i] = Append(s, p)[j] => i = j
           /\ Range(Append(s, p)) = Range(s) \cup {p}
<1> DEFINE a == Append(s, p)
<1>1. /\ a \in Seq(S) /\ Len(a) = Len(s) + 1 /\ a[Len(s) + 1] = p
      /\ \A i \in 1 .. Len(s) : a[i] = s[i]
  OBVIOUS
<1> HIDE DEF a
<1>2. Len(s) \in Nat
  OBVIOUS
<1>3. ASSUME NEW i \in 1 .. Len(s) + 1, NEW j \in 1 .. Len(s) + 1, a[i] = a[j]
      PROVE  i = j
  <2>1. \A k \in 1 .. Len(s) + 1 : k = Len(s) + 1 \/ k \in 1 .. Len(s)
    BY <1>2
  <2>2. \A k \in 1 .. Len(s) : a[k] # p
    BY <1>1 DEF Contains
  <2> QED
    BY <1>1, <1>3, <2>1, <2>2
<1>4. Range(a) = Range(s) \cup {p}
  <2>1. DOMAIN a = 1 .. Len(s) + 1 /\ DOMAIN s = 1 .. Len(s)
    BY <1>1
  <2>2. ASSUME NEW i \in 1 .. Len(s) + 1 PROVE a[i] \in Range(s) \cup {p}
    <3>1. i = Len(s) + 1 \/ i \in 1 .. Len(s)
      BY <1>2
    <3> QED
      BY <1>1, <3>1 DEF Range
  <2>3. ASSUME NEW i \in 1 .. Len(s) PROVE s[i] \in Range(a)
    <3>1. i \in 1 .. Len(s) + 1
      BY <1>2
    <3> QED
      BY <1>1, <2>1, <3>1 DEF Range
  <2>4. p \in Range(a)
    <3>1. Len(s) + 1 \in 1 .. Len(s) + 1
      BY <1>2
    <3> QED
      BY <1>1, <2>1, <3>1 DEF Range
  <2> QED
    BY <2>1, <2>2, <2>3, <2>4 DEF Range
<1> QED
  BY <1>1, <1>3, <1>4 DEF a

-----------------------------------------------------------------------------
(* Every step keeps the invariant, whoever else is at work. *)

\* The cache starts empty, with nobody in it.
LEMMA CacheInvInit ==
    ASSUME CacheInit
    PROVE  CacheInv
BY DEF CacheInit, CacheInv, CacheTypeOK, NoRepeats, HasPrefix, Range

\* No access to the map, by any request, gives a prefix a second entry.
LEMMA CacheInvStep ==
    ASSUME CacheInv, (\E t \in Threads : Begin(t) \/ CacheStep(t)) \/ Expire
    PROVE  CacheInv'
<1> USE DEF CacheInv
<1> DEFINE Kept == entries' = entries /\ expired' \subseteq Range(entries)
<1>1. ASSUME Kept PROVE NoRepeats' /\ entries' \in Seq(Prompts) /\ expired' \subseteq Range(entries')
  BY <1>1 DEF NoRepeats, CacheTypeOK
<1>2. ASSUME NEW t \in Threads, Begin(t) PROVE CacheInv'
  <2>1. Kept
    BY <1>2 DEF Begin, CacheTypeOK
  <2>2. PICK p \in Prompts : prefix' = [prefix EXCEPT ![t] = p]
    BY <1>2 DEF Begin
  <2> QED
    BY <1>1, <1>2, <2>1, <2>2 DEF Begin, Goto, CacheTypeOK, HasPrefix
<1>3. ASSUME NEW t \in Threads, Lookup(t) \/ CheckSize(t) PROVE CacheInv'
  <2>1. Kept
    BY <1>3 DEF Lookup, CheckSize, CacheTypeOK
  <2> QED
    BY <1>1, <1>3, <2>1 DEF Lookup, CheckSize, Goto, CacheTypeOK, HasPrefix
<1>4. ASSUME NEW t \in Threads, Scan(t) PROVE CacheInv'
  <2>1. Kept
    BY <1>4 DEF Scan, CacheTypeOK
  <2>2. (IF entries = <<>> THEN NoPrefix ELSE Head(entries)) \in Prompts \cup {NoPrefix}
    BY DEF CacheTypeOK
  <2> QED
    BY <1>1, <1>4, <2>1, <2>2 DEF Scan, Goto, CacheTypeOK, HasPrefix
<1>5. ASSUME NEW p, entries' = Without(p), expired' = expired \ {p}
      PROVE  NoRepeats' /\ entries' \in Seq(Prompts) /\ expired' \subseteq Range(entries')
  BY <1>5, WithoutElements DEF NoRepeats, CacheTypeOK
<1>6. ASSUME NEW t \in Threads, RemoveExpired(t) PROVE CacheInv'
  BY <1>5, <1>6 DEF RemoveExpired, Goto, CacheTypeOK, HasPrefix
<1>7. ASSUME NEW t \in Threads, Evict(t) PROVE CacheInv'
  BY <1>5, <1>7 DEF Evict, Goto, CacheTypeOK, HasPrefix
<1>8. ASSUME NEW t \in Threads, Insert(t) PROVE CacheInv'
  <2>1. prefix[t] \in Prompts
    BY <1>8 DEF Insert, HasPrefix
  <2> DEFINE w == Without(prefix[t])
  <2>2. /\ w \in Seq(Prompts)
        /\ \A i, j \in 1 .. Len(w) : w[i] = w[j] => i = j
        /\ Range(w) = Range(entries) \ {prefix[t]}
    BY WithoutElements DEF CacheTypeOK
  <2>3. entries' = Append(w, prefix[t]) /\ expired' = expired \ {prefix[t]}
    BY <1>8 DEF Insert
  <2> HIDE DEF w
  <2>4. ~Contains(w, prefix[t])
    BY <2>2, ContainsIsRange
  <2>5. /\ entries' \in Seq(Prompts) /\ Len(entries') = Len(w) + 1
        /\ \A i, j \in 1 .. Len(w) + 1 : entries'[i] = entries'[j] => i = j
        /\ Range(entries') = Range(w) \cup {prefix[t]}
    BY <2>1, <2>2, <2>3, <2>4, AppendElements
  <2>6. expired' \subseteq Range(entries')
    BY <2>2, <2>3, <2>5 DEF CacheTypeOK
  <2>7. NoRepeats'
    BY <2>5 DEF NoRepeats
  <2> QED
    BY <1>8, <2>5, <2>6, <2>7 DEF Insert, Goto, CacheTypeOK, HasPrefix
<1>9. ASSUME Expire PROVE CacheInv'
  <2>1. PICK i \in DOMAIN entries : expired' = expired \cup {entries[i]}
    BY <1>9 DEF Expire
  <2>2. entries[i] \in Range(entries)
    BY DEF Range
  <2>3. Kept
    BY <1>9, <2>1, <2>2 DEF Expire, CacheTypeOK
  <2> QED
    BY <1>1, <1>9, <2>3 DEF Expire, CacheTypeOK, HasPrefix
<1> QED
  BY <1>2, <1>3, <1>4, <1>6, <1>7, <1>8, <1>9 DEF CacheStep

-----------------------------------------------------------------------------
(* A request that is alone. *)

\* Nothing is removed before it expired but the oldest entry, and the map never
\* outgrows max_entries.
LEMMA AloneStep ==
    ASSUME Alone, CacheInv, AloneInv, (\E t \in Threads : Begin(t) \/ CacheStep(t)) \/ Expire
    PROVE  /\ AloneInv'
           /\ \A p \in Prompts :
                 Contains(entries, p) /\ ~Contains(entries', p) => entries[1] = p \/ p \in expired
<1> USE DEF CacheInv
<1> DEFINE Goal == \A p \in Prompts :
                      Contains(entries, p) /\ ~Contains(entries', p) => entries[1] = p \/ p \in expired
<1>1. entries \in Seq(Prompts) /\ Len(entries) \in Nat /\ MaxEntries \in Nat \ {0}
  BY CacheAssumption DEF CacheTypeOK
<1>2. ASSUME NEW t \in Threads, Begin(t) \/ Lookup(t) \/ CheckSize(t) \/ Scan(t) PROVE AloneInv' /\ Goal
  <2>1. entries' = entries /\ expired' = expired
    BY <1>2 DEF Begin, Lookup, CheckSize, Scan
  <2>2. CASE Begin(t)
    BY <2>1, <2>2 DEF Begin, Goto, AloneInv, Foresees, Alone, CacheBounded, CacheTypeOK
  <2>3. CASE Lookup(t)
    BY <2>1, <2>3 DEF Lookup, Goto, AloneInv, Foresees, Alone, CacheBounded, CacheTypeOK
  <2>4. CASE CheckSize(t)
    BY <1>1, <2>1, <2>4 DEF CheckSize, Goto, AloneInv, Foresees, Alone, CacheBounded, CacheTypeOK
  <2>5. CASE Scan(t)
    <3>1. entries # <<>>
      BY <1>1, <2>5 DEF Scan, AloneInv, Foresees
    <3>2. victim'[t] = entries[1]
      BY <1>1, <2>5, <3>1 DEF Scan, CacheTypeOK
    <3> QED
      BY <2>1, <2>5, <3>1, <3>2 DEF Scan, Goto, AloneInv, Foresees, Alone, CacheBounded, CacheTypeOK
  <2> QED
    BY <1>2, <2>2, <2>3, <2>4, <2>5
<1>3. ASSUME NEW q, entries' = Without(q)
      PROVE  /\ Len(entries') = IF Contains(entries, q) THEN Len(entries) - 1 ELSE Len(entries)
             /\ \A p \in Prompts : Contains(entries, p) /\ ~Contains(entries', p) => p = q
  <2>1. /\ entries' \in Seq(Prompts) /\ Range(entries') = Range(entries) \ {q}
        /\ Len(entries') = IF Contains(entries, q) THEN Len(entries) - 1 ELSE Len(entries)
    BY <1>1, <1>3, WithoutElements
  <2> QED
    BY <1>1, <2>1, ContainsIsRange
<1>4. ASSUME NEW t \in Threads, RemoveExpired(t) PROVE AloneInv' /\ Goal
  <2>1. entries' = Without(prefix[t]) /\ prefix[t] \in expired
    BY <1>4 DEF RemoveExpired, AloneInv, Foresees
  <2>2. Len(entries') <= MaxEntries
    BY <1>1, <1>3, <2>1 DEF AloneInv, CacheBounded
  <2>3. pc' = [pc EXCEPT ![t] = "convert"]
    BY <1>4 DEF RemoveExpired, Goto
  <2>4. AloneInv'
    BY <2>2, <2>3 DEF AloneInv, Foresees, Alone, CacheBounded, CacheTypeOK
  <2> QED
    BY <1>3, <2>1, <2>4
<1>5. ASSUME NEW t \in Threads, Evict(t) PROVE AloneInv' /\ Goal
  <2>1. entries' = Without(victim[t]) /\ victim[t] = entries[1] /\ entries # <<>>
    BY <1>5 DEF Evict, AloneInv, Foresees
  <2>2. Contains(entries, victim[t])
    BY <1>1, <2>1 DEF Contains
  <2>3. Len(entries') < MaxEntries
    BY <1>1, <1>3, <2>1, <2>2 DEF AloneInv, CacheBounded
  <2>4. pc' = [pc EXCEPT ![t] = "insert"]
    BY <1>5 DEF Evict, Goto
  <2>5. Len(entries') \in Nat
    BY <1>1, <1>3, <2>1, <2>2
  <2>6. AloneInv'
    BY <1>1, <2>3, <2>4, <2>5 DEF AloneInv, Foresees, Alone, CacheBounded, CacheTypeOK
  <2> QED
    BY <1>3, <2>1, <2>6
<1>6. ASSUME NEW t \in Threads, Insert(t) PROVE AloneInv' /\ Goal
  <2> DEFINE w == Without(prefix[t])
  <2>1. entries' = Append(w, prefix[t]) /\ Len(entries) < MaxEntries
    BY <1>6 DEF Insert, AloneInv, Foresees
  <2>2. /\ w \in Seq(Prompts) /\ Range(w) = Range(entries) \ {prefix[t]}
        /\ Len(w) <= Len(entries)
        /\ \A i, j \in 1 .. Len(w) : w[i] = w[j] => i = j
    BY <1>1, WithoutElements
  <2>3. prefix[t] \in Prompts
    BY <1>6 DEF Insert, HasPrefix
  <2> HIDE DEF w
  <2>4. ~Contains(w, prefix[t])
    BY <2>2, ContainsIsRange
  <2>5. /\ entries' \in Seq(Prompts) /\ Len(entries') = Len(w) + 1
        /\ Range(entries') = Range(w) \cup {prefix[t]}
    BY <2>1, <2>2, <2>3, <2>4, AppendElements
  <2>6. pc' = [pc EXCEPT ![t] = "idle"]
    BY <1>6 DEF Insert, Goto
  <2>7. Len(w) \in Nat
    BY <2>2
  <2>8. AloneInv'
    BY <1>1, <2>1, <2>2, <2>5, <2>6, <2>7 DEF AloneInv, Foresees, Alone, CacheBounded, CacheTypeOK
  <2>9. Goal
    BY <1>1, <2>2, <2>5, ContainsIsRange
  <2> QED
    BY <2>8, <2>9
<1>7. ASSUME Expire PROVE AloneInv' /\ Goal
  BY <1>7 DEF Expire, AloneInv, Foresees, CacheBounded
<1> QED
  BY <1>2, <1>4, <1>5, <1>6, <1>7 DEF CacheStep

-----------------------------------------------------------------------------
(* The theorems *)

\* However requests interleave, an entry is what a prefix is converted to, no
\* prefix has two, and only what is in the map counts as expired.
THEOREM CacheTypeCorrect == CacheSpec => []CacheInv
<1>1. CacheInit => CacheInv
  BY CacheInvInit
<1>2. CacheInv /\ [CacheNext]_cacheVars => CacheInv'
  <2> SUFFICES ASSUME CacheInv, [CacheNext]_cacheVars PROVE CacheInv'
    OBVIOUS
  <2>1. CASE UNCHANGED cacheVars
    BY <2>1 DEF cacheVars, CacheInv, CacheTypeOK, NoRepeats, HasPrefix
  <2> QED
    BY <2>1, CacheInvStep DEF CacheNext
<1> QED
  BY <1>1, <1>2, PTL DEF CacheSpec

-----------------------------------------------------------------------------
(* Requests: the inductive invariant *)

Typed ==
    /\ CacheInv
    /\ Alone => AloneInv
    /\ config \in Configs
    /\ tokens \in [Values -> Status]
    /\ req \in [Threads -> Request]
    /\ \A t \in Threads : pc[t] # "idle" => req[t].at = "cache"

\* Between the two reads of the token check: what the table says now is among
\* the views, a token to be looked up has had a row or is one an operator
\* chose, and one that was looked up and not found stays absent.
Checking(r) ==
    /\ r.at \in {"token", "count"} => Admits(tokens, r.token) \in r.views
    /\ r.at = "token" => r.token # NoToken /\ tokens[r.token] # "new"
    /\ r.at = "count" /\ ~r.blind => r.token = NoToken \/ tokens[r.token] = "absent"

Attempted(r) == r.at \in {"select", "sent"}

\* Attempts change the model and the limits, never the effort.
EffortSettled(r) == Attempted(r) => r.out.effort = Sent(r.asked).effort

\* One limit, and no shrinking before the first attempt.
LimitSettled(r) ==
    /\ ~Attempted(r) => r.shrunk = Absent
    /\ Attempted(r) =>
          /\ r.out.max_tokens = Absent \/ r.out.max_completion_tokens = Absent
          /\ r.asked.max_tokens # Absent => Limit(r.out) # Absent /\ (r.misled \/ Limit(r.out) <= r.asked.max_tokens)
          /\ r.shrunk # Absent => Limit(r.out) # Absent /\ Limit(r.out) + 1000 <= r.shrunk

Settled(r) == Checking(r) /\ EffortSettled(r) /\ LimitSettled(r)

SetupInv ==
    /\ Typed
    /\ \A t \in Threads : Settled(req[t])

-----------------------------------------------------------------------------
(* The parameters sent *)

\* The optimizer leaves the model and the limit of a body alone.
LEMMA OptimizedType ==
    ASSUME NEW b \in Body
    PROVE  /\ Optimized(b) \in Body
           /\ Optimized(b).model = b.model /\ Optimized(b).max_tokens = b.max_tokens
           /\ Optimized(b).effort = IF b.model = "opus-4-6" THEN "max" ELSE b.effort
<1>1. Target(b) \in Nat
  BY SetupAssumption DEF Body, Target
<1>2. /\ [b EXCEPT !.thinking = "adaptive", !.budget = Absent, !.effort = "max"] \in Body
      /\ [b EXCEPT !.thinking = "enabled", !.budget = Target(b)] \in Body
  BY <1>1 DEF Body
<1> HIDE DEF Target
<1> QED
  BY <1>1, <1>2 DEF Optimized, Body

\* The conversion sends the client's limit under one of its two names.
LEMMA ConvertedType ==
    ASSUME NEW b \in Body
    PROVE  /\ Converted(b) \in OpenAI
           /\ Converted(b).max_tokens = Absent \/ Converted(b).max_completion_tokens = Absent
           /\ Limit(Converted(b)) = b.max_tokens
<1>1. ThinkingEffort(b) \in {"none", "low", "medium", "high"}
  BY DEF ThinkingEffort
<1>2. ResolveEffort(b) \in {"none", "low", "medium", "high", "xhigh"}
  BY <1>1 DEF ResolveEffort, Body
<1> DEFINE effort == IF SupportsEffort(b.model) THEN ResolveEffort(b) ELSE "none"
<1>3. effort \in {"none", "low", "medium", "high", "xhigh"}
  BY <1>2
<1>4. Converted(b) = [model |-> b.model, effort |-> effort,
                      max_tokens |-> IF OSeries(b.model) THEN Absent ELSE b.max_tokens,
                      max_completion_tokens |-> IF OSeries(b.model) THEN b.max_tokens ELSE Absent]
  BY DEF Converted
<1> HIDE DEF effort
<1>5. b.model \in Models /\ b.max_tokens \in Nat \cup {Absent}
  BY DEF Body
<1> QED
  BY <1>3, <1>4, <1>5 DEF OpenAI, Limit

\* So does the optimizer followed by the conversion.
LEMMA SentType ==
    ASSUME NEW b \in Body
    PROVE  /\ Sent(b) \in OpenAI
           /\ Sent(b).max_tokens = Absent \/ Sent(b).max_completion_tokens = Absent
           /\ Limit(Sent(b)) = b.max_tokens
BY OptimizedType, ConvertedType DEF Sent

\* Every effort that a body resolves to has a strength.
LEMMA ResolvedStrength ==
    ASSUME NEW b \in Body
    PROVE  Strength(ResolveEffort(b)) \in Nat
<1>1. ThinkingEffort(b) \in {"none", "low", "medium", "high"}
  BY DEF ThinkingEffort
<1>2. ResolveEffort(b) \in {"none", "low", "medium", "high", "xhigh"}
  BY <1>1 DEF ResolveEffort, Body
<1> QED
  BY <1>2 DEF Strength

\* More thinking does not resolve to less effort, nor a larger budget.
LEMMA ThinkingGrows ==
    ASSUME NEW b \in Body, NEW c \in Body, b.effort = c.effort,
           \/ c.thinking = b.thinking /\ c.budget = b.budget
           \/ b.thinking \in {"none", "disabled"}
           \/ /\ b.thinking = "enabled" /\ c.thinking = "enabled"
              /\ b.budget \in Nat /\ c.budget \in Nat /\ b.budget <= c.budget
    PROVE  Strength(ResolveEffort(b)) <= Strength(ResolveEffort(c))
<1>1. Strength(ThinkingEffort(b)) <= Strength(ThinkingEffort(c))
  <2>1. \A d \in Body : Strength(ThinkingEffort(d)) \in Nat
    BY SetupAssumption DEF Strength, ThinkingEffort
  <2>2. CASE c.thinking = b.thinking /\ c.budget = b.budget
    <3>1. ThinkingEffort(b) = ThinkingEffort(c)
      BY <2>2 DEF ThinkingEffort
    <3> QED
      BY <2>1, <3>1
  <2>3. CASE b.thinking \in {"none", "disabled"}
    <3>1. Strength(ThinkingEffort(b)) = 0
      BY <2>3 DEF ThinkingEffort, Strength
    <3> QED
      BY <2>1, <3>1
  <2>4. CASE /\ b.thinking = "enabled" /\ c.thinking = "enabled"
             /\ b.budget \in Nat /\ c.budget \in Nat /\ b.budget <= c.budget
    BY <2>4, SetupAssumption DEF ThinkingEffort, Strength
  <2> QED
    BY <2>2, <2>3, <2>4
<1>2. CASE b.effort = "none"
  BY <1>1, <1>2 DEF ResolveEffort
<1>3. CASE b.effort # "none"
  <2>1. ResolveEffort(b) = ResolveEffort(c)
    BY <1>3 DEF ResolveEffort, Body
  <2>2. Strength(ResolveEffort(b)) \in Nat
    BY <1>3 DEF ResolveEffort, Body, Strength
  <2> QED
    BY <2>1, <2>2
<1> QED
  BY <1>2, <1>3

\* The optimizer never asks for less effort.
LEMMA OptimizerKeepsEffort ==
    ASSUME NEW b \in Body, ~(b.thinking = "enabled" /\ b.budget = Absent)
    PROVE  Strength(Sent(b).effort) >= Strength(Converted(b).effort)
<1> DEFINE c == Optimized(b)
<1>1. c \in Body /\ c.model = b.model
  BY OptimizedType
<1>2. Converted(b).effort = (IF SupportsEffort(b.model) THEN ResolveEffort(b) ELSE "none")
      /\ Converted(c).effort = (IF SupportsEffort(c.model) THEN ResolveEffort(c) ELSE "none")
  BY DEF Converted
<1>3. Strength("none") = 0
  BY DEF Strength
<1>4. CASE SupportsEffort(b.model)
  <2>1. b.model # "opus-4-6"
    BY <1>4 DEF SupportsEffort, OSeries
  <2>2. c.effort = b.effort
    BY <2>1, OptimizedType
  <2>3. Target(b) \in Nat /\ Current(b) \in Nat
    BY SetupAssumption DEF Body, Target, Current
  <2>4. \/ c.thinking = b.thinking /\ c.budget = b.budget
        \/ /\ ~(b.thinking = "adaptive") /\ ~(b.thinking = "enabled" /\ Current(b) >= Target(b))
           /\ c.thinking = "enabled" /\ c.budget = Target(b)
    <3>1. \/ c = b
          \/ /\ ~(b.thinking = "adaptive") /\ ~(b.thinking = "enabled" /\ Current(b) >= Target(b))
             /\ c = [b EXCEPT !.thinking = "enabled", !.budget = Target(b)]
      BY <2>1 DEF Optimized
    <3> QED
      BY <3>1 DEF Body
  <2>5. b.thinking = "enabled" => b.budget \in Nat /\ Current(b) = b.budget
    BY SetupAssumption DEF Body, Current
  <2>6. b.thinking \in {"none", "disabled", "enabled", "adaptive"}
    BY DEF Body
  <2> HIDE DEF c
  <2>7. \/ c.thinking = b.thinking /\ c.budget = b.budget
        \/ b.thinking \in {"none", "disabled"}
        \/ /\ b.thinking = "enabled" /\ c.thinking = "enabled"
           /\ b.budget \in Nat /\ c.budget \in Nat /\ b.budget <= c.budget
    BY <2>3, <2>4, <2>5, <2>6
  <2>8. Strength(ResolveEffort(b)) <= Strength(ResolveEffort(c))
    BY <1>1, <2>2, <2>7, ThinkingGrows
  <2>9. Strength(ResolveEffort(b)) \in Nat /\ Strength(ResolveEffort(c)) \in Nat
    BY <1>1, ResolvedStrength
  <2> QED
    BY <1>1, <1>2, <1>4, <2>8, <2>9 DEF Sent, c
<1>5. CASE ~SupportsEffort(b.model)
  BY <1>1, <1>2, <1>3, <1>5 DEF Sent
<1> QED
  BY <1>4, <1>5

-----------------------------------------------------------------------------
(* Types *)

\* A request that is over has no state left.
LEMMA IdleType == Idle \in Request /\ Idle.at = "idle" /\ Idle.shrunk = Absent /\ Idle.misled = FALSE /\ Idle.blind = FALSE
<1>1. Bodies \subseteq Body /\ Bodies # {}
  BY SetupAssumption
<1>2. (CHOOSE b \in Bodies : TRUE) \in Body
  BY <1>1
<1> QED
  BY <1>2 DEF Idle, Request, OpenAI

\* What an upstream that complains leaves of the limit.
LEMMA Shrinks ==
    ASSUME NEW out \in OpenAI, NEW overflow \in Overflows, NEW max, NEW room,
           out.max_tokens = Absent \/ out.max_completion_tokens = Absent,
           room = Minus(overflow[2], overflow[1]), max = Minus(room, 1000),
           max >= 1000
    PROVE  /\ room \in Nat /\ max \in Nat /\ max + 1000 = room
           /\ WithLimit(out, max) \in OpenAI
           /\ \/ WithLimit(out, max).max_tokens = Absent
              \/ WithLimit(out, max).max_completion_tokens = Absent
           /\ Limit(WithLimit(out, max)) = max
           /\ Rightly(out, overflow) /\ Limit(out) # Absent => max <= Limit(out)
           /\ WithLimit(out, max).effort = out.effort
<1>1. overflow[1] \in Nat /\ overflow[2] \in Nat
  BY SetupAssumption
<1>2. room \in Nat
  BY <1>1 DEF Minus
<1>3. max \in Nat
  BY <1>2 DEF Minus
<1>4. max + 1000 = room /\ room + overflow[1] = overflow[2]
  BY <1>1, <1>2, <1>3 DEF Minus
<1>5. Limit(out) \in Nat \cup {Absent}
  BY DEF OpenAI, Limit
<1>6. Rightly(out, overflow) /\ Limit(out) # Absent => max <= Limit(out)
  BY <1>1, <1>3, <1>4, <1>5 DEF Rightly
<1>7. max # Absent
  BY <1>3, SetupAssumption
<1>8. /\ WithLimit(out, max) \in OpenAI
      /\ WithLimit(out, max).effort = out.effort
      /\ \/ WithLimit(out, max).max_tokens = Absent
         \/ WithLimit(out, max).max_completion_tokens = Absent
      /\ Limit(WithLimit(out, max)) = max
  <2>1. CASE out.max_completion_tokens # Absent
    <3>1. WithLimit(out, max) = [out EXCEPT !.max_completion_tokens = max]
      BY <2>1 DEF WithLimit
    <3> QED
      BY <1>3, <1>7, <2>1, <3>1 DEF OpenAI, Limit
  <2>2. CASE out.max_completion_tokens = Absent
    <3>1. WithLimit(out, max) = [out EXCEPT !.max_tokens = max]
      BY <2>2 DEF WithLimit
    <3> QED
      BY <1>3, <1>7, <2>2, <3>1 DEF OpenAI, Limit
  <2> QED
    BY <2>1, <2>2
<1> QED
  BY <1>2, <1>3, <1>4, <1>6, <1>8

\* A request that arrives with one token or none, from either header.
LEMMA ArriveStep ==
    ASSUME NEW t \in Threads, Arrive(t)
    PROVE  \E token \in Values \cup {NoToken}, b \in Bodies :
              /\ token # NoToken => tokens[token] # "new"
              /\ req' = [req EXCEPT ![t] = [Idle EXCEPT !.at = IF token = NoToken THEN "count" ELSE "token",
                                                        !.token = token, !.asked = b,
                                                        !.views = {Admits(tokens, token)}]]
<1>1. PICK key \in {v \in Values : tokens[v] # "new"} \cup {NoToken},
           bearer \in {v \in Values : tokens[v] # "new"} \cup {NoToken}, b \in Bodies :
         req' = [req EXCEPT ![t] = [Idle EXCEPT !.at = IF ExtractToken(key, bearer) = NoToken THEN "count" ELSE "token",
                                                !.token = ExtractToken(key, bearer), !.asked = b,
                                                !.views = {Admits(tokens, ExtractToken(key, bearer))}]]
  BY DEF Arrive
<1>2. PICK token : token = ExtractToken(key, bearer)
  OBVIOUS
<1>3. token \in {v \in Values : tokens[v] # "new"} \cup {NoToken}
  BY <1>2 DEF ExtractToken
<1> QED
  BY <1>1, <1>2, <1>3

\* What a read of the tokens decides is yes or no.
LEMMA AdmitsIsBoolean == \A table, token : Admits(table, token) \in BOOLEAN
BY DEF Admits

-----------------------------------------------------------------------------
(* Steps of a request that leave the cache and the tokens alone: it is     *)
(* enough to look at what the request becomes.                             *)

\* What a body is converted to depends on nothing but the configuration.
LEMMA SentStays ==
    ASSUME NEW u, config' = config
    PROVE  Sent(req[u].asked)' = Sent(req'[u].asked)
<1>1. PICK b : b = req'[u].asked
  OBVIOUS
<1>2. Sent(b)' = Sent(b)
  BY DEF Sent
<1>3. Sent(req[u].asked)' = Sent(b)'
  BY <1>1 DEF Sent, Converted, Optimized, Target, Current, SupportsEffort, OSeries, ResolveEffort, ThinkingEffort
<1> QED
  BY <1>1, <1>2, <1>3

\* What was settled stays so while the tokens do not change.
LEMMA SettledStays ==
    ASSUME NEW u \in Threads, Settled(req'[u]), tokens' = tokens, config' = config
    PROVE  Settled(req[u])'
<1>1. Checking(req[u])'
  BY DEF Settled, Checking, Admits, Empty
<1>2. EffortSettled(req[u])'
  BY SentStays DEF Settled, EffortSettled, Attempted
<1>3. LimitSettled(req[u])'
  BY DEF Settled, LimitSettled, Attempted, Limit
<1> QED
  BY <1>1, <1>2, <1>3 DEF Settled

\* A step of one request outside the cache that keeps it settled keeps the invariant.
LEMMA ChangeOne ==
    ASSUME SetupInv, NEW t \in Threads, NEW r \in Request,
           req' = [req EXCEPT ![t] = r], UNCHANGED <<cacheVars, config, tokens>>,
           Settled(r), r.at = "cache" \/ req[t].at # "cache" \/ pc[t] = "idle"
    PROVE  SetupInv'
<1>1. CacheInv' /\ (Alone => AloneInv')
  BY DEF SetupInv, Typed, cacheVars, CacheInv, CacheTypeOK, NoRepeats, HasPrefix, AloneInv, Foresees, CacheBounded
<1>2. /\ config' \in Configs /\ tokens' \in [Values -> Status] /\ req' \in [Threads -> Request]
      /\ \A u \in Threads : req'[u] = IF u = t THEN r ELSE req[u]
  BY DEF SetupInv, Typed
<1>3. \A u \in Threads : pc'[u] # "idle" => req'[u].at = "cache"
  BY <1>2 DEF SetupInv, Typed, cacheVars
<1>4. Typed'
  BY <1>1, <1>2, <1>3 DEF Typed, Alone
<1>5. ASSUME NEW u \in Threads PROVE Settled(req[u])'
  <2>1. req'[u] = r \/ req'[u] = req[u]
    BY <1>2
  <2>2. Settled(req'[u])
    BY <2>1 DEF SetupInv
  <2>3. tokens' = tokens /\ config' = config
    OBVIOUS
  <2> QED
    BY <2>2, <2>3, SettledStays
<1> QED
  BY <1>4, <1>5 DEF SetupInv

\* A request that is over has nothing to keep.
LEMMA IdleSettled == Settled(Idle)
BY IdleType DEF Settled, Checking, EffortSettled, LimitSettled, Attempted

\* A request arrives: what the table says then is its first view.
LEMMA ArriveKeeps ==
    ASSUME SetupInv, NEW t \in Threads, Arrive(t)
    PROVE  SetupInv'
<1>1. PICK token \in Values \cup {NoToken}, b \in Bodies :
         /\ token # NoToken => tokens[token] # "new"
         /\ req' = [req EXCEPT ![t] = [Idle EXCEPT !.at = IF token = NoToken THEN "count" ELSE "token",
                                                   !.token = token, !.asked = b,
                                                   !.views = {Admits(tokens, token)}]]
  BY ArriveStep
<1> DEFINE r == [Idle EXCEPT !.at = IF token = NoToken THEN "count" ELSE "token",
                             !.token = token, !.asked = b, !.views = {Admits(tokens, token)}]
<1>2. b \in Body /\ {Admits(tokens, token)} \in SUBSET BOOLEAN
  BY SetupAssumption, AdmitsIsBoolean
<1>3. /\ r \in Request /\ r.at = (IF token = NoToken THEN "count" ELSE "token")
      /\ r.token = token /\ r.views = {Admits(tokens, token)} /\ r.shrunk = Absent
  BY <1>2, IdleType DEF Request
<1>4. req' = [req EXCEPT ![t] = r]
  BY <1>1
<1> HIDE DEF r
<1>5. Settled(r)
  BY <1>1, <1>3 DEF Settled, Checking, EffortSettled, LimitSettled, Attempted
<1>6. req[t].at # "cache"
  BY DEF Arrive
<1> QED
  BY <1>3, <1>4, <1>5, <1>6, ChangeOne DEF Arrive

\* A request is refused, or over.
LEMMA RefuseKeeps ==
    ASSUME SetupInv, NEW t \in Threads, req' = [req EXCEPT ![t] = Idle],
           UNCHANGED <<cacheVars, config, tokens>>, req[t].at # "cache"
    PROVE  SetupInv'
BY ChangeOne, IdleType, IdleSettled

\* Proceed to another step of the check, or past it.
LEMMA CheckKeeps ==
    ASSUME SetupInv, NEW t \in Threads,
           LookupToken(t) \/ LookupFails(t) \/ CountTokens(t)
    PROVE  SetupInv'
<1>1. req[t] \in Request /\ Settled(req[t])
  BY DEF SetupInv, Typed
<1>2. CASE LookupToken(t)
  <2>1. CASE tokens[req[t].token] = "disabled"
    BY <1>2, <2>1, RefuseKeeps DEF LookupToken, Refuse
  <2>2. CASE tokens[req[t].token] # "disabled"
    <3> DEFINE r == [req[t] EXCEPT !.at = IF tokens[req[t].token] = "active" THEN "prepare" ELSE "count"]
    <3>1. req' = [req EXCEPT ![t] = r] /\ req[t].at = "token" /\ UNCHANGED <<cacheVars, config, tokens>>
      BY <1>1, <1>2, <2>2 DEF LookupToken, Proceed, SetupInv, Typed
    <3>2. r \in Request
      BY <1>1 DEF Request
    <3>3. req[t].token \in Values /\ tokens[req[t].token] \in Status /\ tokens[req[t].token] # "new"
      BY <1>1, <3>1 DEF Settled, Checking, Request, SetupInv, Typed
    <3>4. Settled(r)
      BY <1>1, <2>2, <3>1, <3>3 DEF Settled, Checking, EffortSettled, LimitSettled, Attempted, Request, Status
    <3> HIDE DEF r
    <3> QED
      BY <3>1, <3>2, <3>4, ChangeOne
  <2> QED
    BY <2>1, <2>2
<1>3. CASE LookupFails(t)
  <2> DEFINE r == [req[t] EXCEPT !.at = "count", !.blind = TRUE]
  <2>1. req' = [req EXCEPT ![t] = r] /\ req[t].at = "token" /\ UNCHANGED <<cacheVars, config, tokens>>
    BY <1>1, <1>3 DEF LookupFails, SetupInv, Typed
  <2>2. r \in Request /\ Settled(r)
    BY <1>1, <2>1, ZenonT(40) DEF Settled, Checking, EffortSettled, LimitSettled, Attempted, Request
  <2> HIDE DEF r
  <2> QED
    BY <2>1, <2>2, ChangeOne
<1>4. CASE CountTokens(t)
  <2>1. req[t].at = "count" /\ UNCHANGED <<cacheVars, config, tokens>>
    BY <1>4 DEF CountTokens
  <2>2. \/ req' = [req EXCEPT ![t] = Idle]
        \/ \E fails \in BOOLEAN, open \in BOOLEAN :
              req' = [req EXCEPT ![t].at = "prepare", ![t].blind = @ \/ fails,
                                 ![t].token = IF open THEN NoToken ELSE @]
    BY <1>4, AdmitsIsBoolean DEF CountTokens, Refuse
  <2>3. CASE req' = [req EXCEPT ![t] = Idle]
    BY <2>1, <2>3, RefuseKeeps
  <2>4. ASSUME NEW fails \in BOOLEAN, NEW open \in BOOLEAN,
               req' = [req EXCEPT ![t].at = "prepare", ![t].blind = @ \/ fails,
                                  ![t].token = IF open THEN NoToken ELSE @]
        PROVE  SetupInv'
    <3> DEFINE r == [req[t] EXCEPT !.at = "prepare", !.blind = @ \/ fails,
                                   !.token = IF open THEN NoToken ELSE @]
    <3>1. req' = [req EXCEPT ![t] = r]
      BY <1>1, <2>4 DEF SetupInv, Typed
    <3>2. r \in Request /\ r.at = "prepare" /\ r.shrunk = req[t].shrunk
      BY <1>1 DEF Request
    <3>3. Settled(r)
      BY <1>1, <2>1, <3>2 DEF Settled, Checking, EffortSettled, LimitSettled, Attempted
    <3> HIDE DEF r
    <3> QED
      BY <2>1, <3>1, <3>2, <3>3, ChangeOne
  <2> QED
    BY <2>2, <2>3, <2>4
<1> QED
  BY <1>2, <1>3, <1>4

\* Leaving the cache, a request gets the parameters its body converts to.
LEMMA ConvertKeeps ==
    ASSUME SetupInv, NEW t \in Threads, Convert(t)
    PROVE  SetupInv'
<1>1. req[t] \in Request /\ Settled(req[t]) /\ req[t].asked \in Body
  BY DEF SetupInv, Typed, Request
<1> DEFINE r == [req[t] EXCEPT !.at = "select", !.out = Sent(req[t].asked)]
<1>2. /\ req' = [req EXCEPT ![t] = r] /\ req[t].at = "cache" /\ pc[t] = "idle"
      /\ UNCHANGED <<cacheVars, config, tokens>>
  BY <1>1 DEF Convert, SetupInv, Typed
<1>3. /\ Sent(req[t].asked) \in OpenAI /\ Limit(Sent(req[t].asked)) = req[t].asked.max_tokens
      /\ \/ Sent(req[t].asked).max_tokens = Absent
         \/ Sent(req[t].asked).max_completion_tokens = Absent
  BY <1>1, SentType
<1>4. /\ r \in Request /\ r.at = "select" /\ r.out = Sent(req[t].asked)
      /\ r.asked = req[t].asked /\ r.shrunk = req[t].shrunk
  BY <1>1, <1>3 DEF Request
<1>5. r.shrunk = Absent
  BY <1>1, <1>2, <1>4 DEF Settled, LimitSettled, Attempted
<1>6. r.asked.max_tokens \in Nat \cup {Absent}
  BY <1>1, <1>4 DEF Body
<1> HIDE DEF r
<1>7. Settled(r)
  BY <1>3, <1>4, <1>5, <1>6 DEF Settled, Checking, EffortSettled, LimitSettled, Attempted
<1> QED
  BY <1>2, <1>4, <1>7, ChangeOne

\* An attempt, and what follows one, changes the model or shrinks the limit.
LEMMA AttemptKeeps ==
    ASSUME SetupInv, NEW t \in Threads,
           SelectKey(t) \/ SelectFallback(t) \/ ShrinkAndRetry(t) \/ Retry(t) \/ End(t)
    PROVE  SetupInv'
<1>1. req[t] \in Request /\ Settled(req[t]) /\ req[t].out \in OpenAI
  BY DEF SetupInv, Typed, Request
<1>2. UNCHANGED <<cacheVars, config, tokens>> /\ req[t].at \in {"select", "sent"}
  BY DEF SelectKey, SelectFallback, ShrinkAndRetry, Retry, End
<1>3. CASE SelectKey(t)
  <2>1. PICK target \in Targets \cup {req[t].out.model} :
           req' = [req EXCEPT ![t].at = "sent", ![t].out.model = target]
    BY <1>3 DEF SelectKey
  <2> DEFINE out == [req[t].out EXCEPT !.model = target]
             r   == [req[t] EXCEPT !.at = "sent", !.out = out]
  <2>2. target \in Models \cup {"none"}
    BY <1>1, <2>1, SetupAssumption DEF OpenAI
  <2>3. /\ out \in OpenAI /\ out.effort = req[t].out.effort /\ out.max_tokens = req[t].out.max_tokens
        /\ out.max_completion_tokens = req[t].out.max_completion_tokens
    BY <1>1, <2>2 DEF OpenAI
  <2>4. req' = [req EXCEPT ![t] = r]
    BY <1>1, <2>1 DEF SetupInv, Typed
  <2> HIDE DEF out
  <2>5. /\ r \in Request /\ r.at = "sent" /\ r.out = out
        /\ r.asked = req[t].asked /\ r.shrunk = req[t].shrunk /\ r.misled = req[t].misled
    BY <1>1, <2>3 DEF Request
  <2>6. Limit(out) = Limit(req[t].out)
    BY <2>3 DEF Limit
  <2> HIDE DEF r
  <2>7. Settled(r)
    BY <1>1, <1>2, <2>3, <2>5, <2>6 DEF Settled, Checking, EffortSettled, LimitSettled, Attempted
  <2> QED
    BY <1>2, <2>4, <2>5, <2>7, ChangeOne
<1>4. ASSUME NEW label \in {"select", "sent"}, Proceed(t, label)
      PROVE  SetupInv'
  <2> DEFINE r == [req[t] EXCEPT !.at = label]
  <2>1. req' = [req EXCEPT ![t] = r]
    BY <1>1, <1>4 DEF Proceed, SetupInv, Typed
  <2>2. /\ r \in Request /\ r.at = label /\ r.out = req[t].out
        /\ r.asked = req[t].asked /\ r.shrunk = req[t].shrunk /\ r.misled = req[t].misled
    BY <1>1 DEF Request
  <2> HIDE DEF r
  <2>3. Settled(r)
    BY <1>1, <1>2, <2>2 DEF Settled, Checking, EffortSettled, LimitSettled, Attempted
  <2> QED
    BY <1>2, <2>1, <2>2, <2>3, ChangeOne
<1>5. CASE SelectFallback(t)
  BY <1>2, <1>4, <1>5, RefuseKeeps DEF SelectFallback, Refuse
<1>6. CASE ShrinkAndRetry(t)
  <2>1. PICK overflow \in Overflows :
           LET room == Minus(overflow[2], overflow[1])
               max  == Minus(room, 1000)
           IN  /\ max >= 1000
               /\ req' = [req EXCEPT ![t].at = "select", ![t].shrunk = room, ![t].out = WithLimit(@, max),
                                     ![t].misled = @ \/ ~Rightly(req[t].out, overflow)]
    BY <1>6 DEF ShrinkAndRetry
  <2>2. PICK room : room = Minus(overflow[2], overflow[1])
    OBVIOUS
  <2>3. PICK max : max = Minus(room, 1000)
    OBVIOUS
  <2>4. PICK out : out = WithLimit(req[t].out, max)
    OBVIOUS
  <2>5. \/ req[t].out.max_tokens = Absent
        \/ req[t].out.max_completion_tokens = Absent
    BY <1>1, <1>2 DEF Settled, LimitSettled, Attempted
  <2> DEFINE misled == req[t].misled \/ ~Rightly(req[t].out, overflow)
  <2>6. /\ max >= 1000
        /\ req' = [req EXCEPT ![t].at = "select", ![t].shrunk = room, ![t].out = out, ![t].misled = misled]
    BY <2>1, <2>2, <2>3, <2>4
  <2>7. /\ room \in Nat /\ max \in Nat /\ max + 1000 = room
        /\ out \in OpenAI
        /\ out.max_tokens = Absent \/ out.max_completion_tokens = Absent
        /\ Limit(out) = max
        /\ ~misled /\ Limit(req[t].out) # Absent => max <= Limit(req[t].out)
        /\ out.effort = req[t].out.effort
    BY <1>1, <2>2, <2>3, <2>4, <2>5, <2>6, Shrinks
  <2> DEFINE r == [req[t] EXCEPT !.at = "select", !.shrunk = room, !.out = out, !.misled = misled]
  <2>8. req' = [req EXCEPT ![t] = r]
    BY <1>1, <2>6 DEF SetupInv, Typed
  <2>9. /\ r \in Request /\ r.at = "select" /\ r.out = out
        /\ r.asked = req[t].asked /\ r.shrunk = room /\ r.misled = misled
    <3>1. room \in Nat \cup {Absent} /\ out \in OpenAI /\ misled \in BOOLEAN
      BY <2>7
    <3> QED
      BY <1>1, <3>1 DEF Request
  <2> HIDE DEF r
  <2>10. LimitSettled(r)
    <3>1. req[t].asked \in Body
      BY <1>1 DEF Request
    <3>2. req[t].asked.max_tokens \in Nat \cup {Absent} /\ Limit(req[t].out) \in Nat \cup {Absent}
      BY <1>1, <3>1 DEF Body, OpenAI, Limit
    <3>3. req[t].asked.max_tokens # Absent => misled \/ max <= req[t].asked.max_tokens
      BY <1>1, <1>2, <2>7, <3>2 DEF Settled, LimitSettled, Attempted
    <3>4. max # Absent /\ max + 1000 <= room
      BY <2>7, SetupAssumption
    <3>5. r.misled <=> misled
      BY <2>9
    <3> HIDE DEF misled
    <3> QED
      BY <2>7, <2>9, <3>3, <3>4, <3>5 DEF LimitSettled, Attempted
  <2>11. Settled(r)
    BY <1>1, <1>2, <2>7, <2>9, <2>10 DEF Settled, Checking, EffortSettled, Attempted
  <2> QED
    BY <1>2, <2>8, <2>9, <2>11, ChangeOne
<1>7. CASE Retry(t)
  BY <1>4, <1>7 DEF Retry
<1>8. CASE End(t)
  BY <1>2, <1>8, RefuseKeeps DEF End
<1> QED
  BY <1>3, <1>5, <1>6, <1>7, <1>8

-----------------------------------------------------------------------------
(* Steps of the cache. *)

\* A step of the cache keeps what is typed, if the requests still agree with it.
LEMMA CacheKeepsTypes ==
    ASSUME SetupInv, (\E t \in Threads : Begin(t) \/ CacheStep(t)) \/ Expire
    PROVE  CacheInv' /\ (Alone => AloneInv')
BY CacheInvStep, AloneStep DEF SetupInv, Typed

\* Entering the cache starts get_or_convert with nothing found yet.
LEMMA EnterKeeps ==
    ASSUME SetupInv, NEW t \in Threads, Enter(t)
    PROVE  SetupInv'
<1>1. req[t] \in Request /\ Settled(req[t])
  BY DEF SetupInv, Typed
<1> DEFINE r == [req[t] EXCEPT !.at = "cache", !.views = {}, !.blind = FALSE]
<1>2. req' = [req EXCEPT ![t] = r] /\ req[t].at = "prepare" /\ Begin(t) /\ tokens' = tokens /\ config' = config
  BY <1>1 DEF Enter, SetupInv, Typed
<1>3. r \in Request /\ r.at = "cache" /\ r.shrunk = req[t].shrunk
  BY <1>1 DEF Request
<1> HIDE DEF r
<1>4. Settled(r)
  BY <1>1, <1>2, <1>3 DEF Settled, Checking, EffortSettled, LimitSettled, Attempted
<1>5. \A u \in Threads : req'[u] = IF u = t THEN r ELSE req[u]
  BY <1>2 DEF SetupInv, Typed
<1>6. \A u \in Threads : pc'[u] # "idle" => req'[u].at = "cache"
  BY <1>2, <1>3, <1>5 DEF Begin, Goto, SetupInv, Typed, CacheInv, CacheTypeOK
<1>7. Typed'
  <2>1. req' \in [Threads -> Request]
    BY <1>2, <1>3 DEF SetupInv, Typed
  <2> QED
    BY <1>2, <1>6, <2>1, CacheKeepsTypes DEF SetupInv, Typed, Alone
<1>8. ASSUME NEW u \in Threads PROVE Settled(req[u])'
  BY <1>2, <1>4, <1>5, SettledStays DEF SetupInv
<1> QED
  BY <1>7, <1>8 DEF SetupInv

\* The steps in the cache and expiries change nothing else of a request.
LEMMA UsesCacheKeeps ==
    ASSUME SetupInv, UsesCache
    PROVE  SetupInv'
<1>1. tokens' = tokens /\ config' = config /\ req' = req
  BY DEF UsesCache
<1>2. \A u \in Threads : pc'[u] # "idle" => req'[u].at = "cache"
  <2>1. \A u \in Threads : pc'[u] # "idle" => pc[u] # "idle"
    <3>1. CASE Expire
      BY <3>1 DEF Expire
    <3>2. ASSUME NEW t \in Threads, CacheStep(t)
          PROVE  \A u \in Threads : pc'[u] # "idle" => pc[u] # "idle"
      <4>1. pc[t] # "idle" /\ \E label : pc' = [pc EXCEPT ![t] = label]
        BY <3>2 DEF CacheStep, Lookup, RemoveExpired, CheckSize, Scan, Evict, Insert, Goto
      <4> QED
        BY <4>1 DEF SetupInv, Typed, CacheInv, CacheTypeOK
    <3> QED
      BY <3>1, <3>2 DEF UsesCache
  <2> QED
    BY <1>1, <2>1 DEF SetupInv, Typed
<1>3. Typed'
  BY <1>1, <1>2, CacheKeepsTypes DEF UsesCache, SetupInv, Typed, Alone
<1>4. ASSUME NEW u \in Threads PROVE Settled(req[u])'
  BY <1>1, SettledStays DEF SetupInv
<1> QED
  BY <1>3, <1>4 DEF SetupInv

-----------------------------------------------------------------------------
(* The administrator. *)

\* Every change of a token adds what the table then says to the views of the
\* checks under way; a token that is absent stays so.
LEMMA ChangeTokenKeeps ==
    ASSUME SetupInv, NEW v \in Values, NEW status \in Status, ChangeToken(v, status)
    PROVE  SetupInv'
<1>1. /\ tokens[v] \in {"new", "active", "disabled"} /\ status \in {"active", "disabled", "absent"}
      /\ tokens' = [tokens EXCEPT ![v] = status] /\ config' = config
  BY DEF ChangeToken
<1>2. tokens' \in [Values -> Status] /\ \A w \in Values : tokens'[w] = IF w = v THEN status ELSE tokens[w]
  BY <1>1 DEF SetupInv, Typed, Status
<1> DEFINE seen(u) == [req[u] EXCEPT !.views = @ \cup {Admits(tokens', req[u].token)}]
<1>3. req' = [u \in Threads |-> IF req[u].at \notin {"token", "count"} THEN req[u] ELSE seen(u)]
  BY DEF ChangeToken
<1>4. ASSUME NEW u \in Threads
      PROVE  /\ seen(u) \in Request /\ seen(u).views = req[u].views \cup {Admits(tokens', req[u].token)}
             /\ seen(u).at = req[u].at /\ seen(u).token = req[u].token /\ seen(u).blind = req[u].blind
             /\ seen(u).asked = req[u].asked /\ seen(u).out = req[u].out /\ seen(u).shrunk = req[u].shrunk /\ seen(u).misled = req[u].misled
  <2>1. PICK admitted : admitted = Admits(tokens', req[u].token)
    OBVIOUS
  <2>2. req[u] \in Request /\ admitted \in BOOLEAN
    BY <2>1, AdmitsIsBoolean DEF SetupInv, Typed
  <2>3. req[u].views \cup {admitted} \in SUBSET BOOLEAN
    BY <2>2 DEF Request
  <2>4. seen(u) = [req[u] EXCEPT !.views = @ \cup {admitted}]
    BY <2>1
  <2> QED
    BY <2>1, <2>2, <2>3, <2>4 DEF Request
<1> HIDE DEF seen
<1>5. Typed'
  <2>1. req' \in [Threads -> Request] /\ \A u \in Threads : req'[u].at = req[u].at
    BY <1>3, <1>4 DEF SetupInv, Typed
  <2>2. CacheInv' /\ (Alone => AloneInv')
    BY DEF ChangeToken, SetupInv, Typed, cacheVars, CacheInv, CacheTypeOK, NoRepeats, HasPrefix, AloneInv, Foresees, CacheBounded
  <2>3. pc' = pc
    BY DEF ChangeToken, cacheVars
  <2> QED
    BY <1>1, <1>2, <2>1, <2>2, <2>3 DEF SetupInv, Typed, Alone
<1>6. ASSUME NEW u \in Threads PROVE Settled(req[u])'
  <2>1. Settled(req[u]) /\ req[u] \in Request
    BY DEF SetupInv, Typed
  <2>2. /\ req'[u].at = req[u].at /\ req'[u].token = req[u].token /\ req'[u].blind = req[u].blind
        /\ req'[u].asked = req[u].asked /\ req'[u].out = req[u].out /\ req'[u].shrunk = req[u].shrunk /\ req'[u].misled = req[u].misled
        /\ req[u].at \in {"token", "count"} => Admits(tokens', req[u].token) \in req'[u].views
    BY <1>3, <1>4
  <2>3. Checking(req[u])'
    <3>1. req[u].at \in {"token", "count"} => Admits(tokens, req[u].token)' \in req'[u].views
      BY <1>1, <2>2 DEF Admits, Empty
    <3>2. req[u].token \in Values \cup {NoToken}
      BY <2>1 DEF Request
    <3>3. req[u].at = "token" => req[u].token # NoToken /\ tokens'[req[u].token] # "new"
      BY <1>1, <1>2, <2>1, <3>2 DEF Settled, Checking
    <3>4. req[u].at = "count" /\ ~req[u].blind => req[u].token = NoToken \/ tokens'[req[u].token] = "absent"
      BY <1>1, <1>2, <2>1, <3>2 DEF Settled, Checking
    <3> QED
      BY <2>2, <3>1, <3>3, <3>4 DEF Checking
  <2>4. EffortSettled(req[u])'
    BY <1>1, <2>1, <2>2, SentStays DEF Settled, EffortSettled, Attempted
  <2>5. LimitSettled(req[u])'
    BY <2>1, <2>2 DEF Settled, LimitSettled, Attempted, Limit
  <2> QED
    BY <2>3, <2>4, <2>5 DEF Settled
<1> QED
  BY <1>5, <1>6 DEF SetupInv

-----------------------------------------------------------------------------
(* The invariant holds. *)

\* At first there are no requests and the cache is empty.
LEMMA SetupInvInit ==
    ASSUME Init
    PROVE  SetupInv
<1>1. CacheInv
  BY CacheInvInit DEF Init
<1>2. AloneInv
  BY CacheAssumption DEF Init, CacheInit, AloneInv, CacheBounded, Foresees
<1>3. req \in [Threads -> Request] /\ \A t \in Threads : req[t] = Idle
  BY IdleType DEF Init
<1>4. tokens \in [Values -> Status]
  BY DEF Init, Status
<1> QED
  BY <1>1, <1>2, <1>3, <1>4, IdleSettled DEF Init, CacheInit, SetupInv, Typed

\* Every step of a request, of the cache and of the operator keeps the invariant.
LEMMA SetupInvStep ==
    ASSUME SetupInv, [Next]_vars
    PROVE  SetupInv'
<1>1. CASE UNCHANGED vars
  <2>1. Typed'
    BY <1>1 DEF vars, cacheVars, SetupInv, Typed, Alone, CacheInv, CacheTypeOK, NoRepeats, HasPrefix,
                AloneInv, Foresees, CacheBounded
  <2>2. \A u \in Threads : Settled(req[u])'
    BY <1>1, SettledStays DEF vars, SetupInv
  <2> QED
    BY <2>1, <2>2 DEF SetupInv
<1>2. ASSUME NEW t \in Threads, RequestStep(t) PROVE SetupInv'
  BY <1>2, ArriveKeeps, CheckKeeps, EnterKeeps, ConvertKeeps, AttemptKeeps DEF RequestStep
<1> QED
  BY <1>1, <1>2, UsesCacheKeeps, ChangeTokenKeeps DEF Next

\* The invariant holds for any number of requests, tokens and prefixes.
THEOREM SetupInvariant == Spec => []SetupInv
BY SetupInvInit, SetupInvStep, PTL DEF Spec

-----------------------------------------------------------------------------
(* What it gives. *)

\* The state is of its types, and requests that come one after another never
\* leave more than max_entries in the cache, whatever max_entries is (TypeOK).
THEOREM TypeCorrect == Spec => []TypeOK
<1>1. SetupInv => TypeOK
  BY OneIsAlone DEF SetupInv, Typed, CacheInv, AloneInv, TypeOK
<1> QED
  BY <1>1, SetupInvariant, PTL

\* No body, model to map to or overflow makes the optimizer lower the effort a
\* request ends up with (EffortKept).
THEOREM EffortKeptHolds == Spec => []EffortKept
<1>1. SetupInv => EffortKept
  <2> SUFFICES ASSUME SetupInv, NEW t \in Threads, Attempted(req[t]),
                      ~(req[t].asked.thinking = "enabled" /\ req[t].asked.budget = Absent)
               PROVE  Strength(req[t].out.effort) >= Strength(Converted(req[t].asked).effort)
    BY DEF EffortKept, Attempted
  <2>1. req[t].asked \in Body
    BY DEF SetupInv, Typed, Request
  <2>2. req[t].out.effort = Sent(req[t].asked).effort
    BY DEF SetupInv, Settled, EffortSettled
  <2> QED
    BY <2>1, <2>2, OptimizerKeepsEffort
<1> QED
  BY <1>1, SetupInvariant, PTL

\* For every overflow an upstream may complain of, a request keeps one limit
\* that fits the context, and is no higher than the client's unless the
\* complaint was without cause (OneLimit).
THEOREM OneLimitHolds == Spec => []OneLimit
<1>1. SetupInv => OneLimit
  BY DEF SetupInv, Settled, LimitSettled, Attempted, OneLimit
<1> QED
  BY <1>1, SetupInvariant, PTL

\* A step of one request is none of another.
LEMMA StepChangesOne ==
    ASSUME SetupInv, NEW u \in Threads, RequestStep(u)
    PROVE  \A w \in Threads \ {u} : req'[w] = req[w]
<1>1. req \in [Threads -> Request]
  BY DEF SetupInv, Typed
<1>2. CASE Arrive(u)
  BY <1>1, <1>2, ArriveStep
<1>3. CASE LookupToken(u) \/ LookupFails(u)
  BY <1>1, <1>3 DEF LookupToken, LookupFails, Refuse, Proceed
<1>4. CASE CountTokens(u)
  BY <1>1, <1>4 DEF CountTokens, Refuse
<1>5. CASE Enter(u) \/ Convert(u)
  BY <1>1, <1>5 DEF Enter, Convert
<1>6. CASE SelectKey(u) \/ ShrinkAndRetry(u)
  BY <1>1, <1>6, ZenonT(40) DEF SelectKey, ShrinkAndRetry
<1>7. CASE SelectFallback(u) \/ Retry(u) \/ End(u)
  BY <1>1, <1>7 DEF SelectFallback, Retry, End, Refuse, Proceed
<1> QED
  BY <1>2, <1>3, <1>4, <1>5, <1>6, <1>7 DEF RequestStep

\* With one request at a time the cache parts with nothing but its oldest entry
\* and what has expired, whatever else happens around it (OldestGoesFirst).
THEOREM OldestGoesFirstHolds ==
    ASSUME Cardinality(Threads) = 1
    PROVE  Spec => OldestGoesFirst
<1>1. SetupInv /\ [Next]_vars
        => [\A p \in Prompts :
              Contains(entries, p) /\ ~Contains(entries', p) => entries[1] = p \/ p \in expired]_cacheVars
  <2> SUFFICES ASSUME SetupInv, [Next]_vars, ~UNCHANGED cacheVars
               PROVE  \A p \in Prompts :
                         Contains(entries, p) /\ ~Contains(entries', p) => entries[1] = p \/ p \in expired
    OBVIOUS
  <2>1. (\E t \in Threads : Begin(t) \/ CacheStep(t)) \/ Expire
    <3>1. ASSUME NEW t \in Threads, RequestStep(t) PROVE Begin(t)
      BY <3>1, ZenonT(40) DEF RequestStep, Arrive, LookupToken, LookupFails, CountTokens, Enter, Convert,
                  SelectKey, SelectFallback, ShrinkAndRetry, Retry, End
    <3>2. ASSUME NEW v \in Values, NEW status \in Status, ChangeToken(v, status) PROVE FALSE
      BY <3>2 DEF ChangeToken
    <3>3. CASE UNCHANGED vars
      BY <3>3 DEF vars
    <3> QED
      BY <3>1, <3>2, <3>3 DEF Next, UsesCache
  <2> QED
    BY <2>1, OneIsAlone, AloneStep DEF SetupInv, Typed
<1> QED
  BY <1>1, SetupInvariant, PTL DEF Spec, OldestGoesFirst

\* The decision of a token check is the one some single moment of the check
\* would have given, for any number of checks and any changes of the tokens
\* between their two reads (AuthJustified).
THEOREM AuthJustifiedHolds == Spec => AuthJustified
<1>1. SetupInv /\ [Next]_vars
        => [\A t \in Threads :
              req[t].at \in {"token", "count"} /\ req'[t].at \notin {"token", "count"} =>
                  \/ req[t].blind \/ req'[t].blind
                  \/ (req'[t].at = "prepare") \in req[t].views]_vars
  <2> SUFFICES ASSUME SetupInv, Next, NEW t \in Threads,
                      req[t].at \in {"token", "count"}, req'[t].at \notin {"token", "count"},
                      ~req[t].blind, ~req'[t].blind
               PROVE  (req'[t].at = "prepare") \in req[t].views
    BY DEF vars
  <2>1. /\ req[t] \in Request /\ req \in [Threads -> Request] /\ tokens \in [Values -> Status]
        /\ Admits(tokens, req[t].token) \in req[t].views
        /\ req[t].at = "token" => req[t].token # NoToken /\ tokens[req[t].token] # "new"
        /\ req[t].at = "count" => req[t].token = NoToken \/ tokens[req[t].token] = "absent"
    BY DEF SetupInv, Typed, Settled, Checking
  <2>2. LookupToken(t) \/ CountTokens(t)
    <3>1. ASSUME NEW u \in Threads, RequestStep(u), u # t PROVE FALSE
      BY <3>1, StepChangesOne
    <3>2. CASE UsesCache
      BY <3>2 DEF UsesCache
    <3>3. ASSUME NEW v \in Values, NEW status \in Status, ChangeToken(v, status) PROVE FALSE
      <4>1. req'[t].at = req[t].at
        BY <2>1, <3>3 DEF ChangeToken, Request
      <4> QED
        BY <4>1
    <3>4. CASE RequestStep(t)
      <4>1. ~LookupFails(t)
        BY <2>1 DEF LookupFails, Request
      <4> QED
        BY <3>4, <4>1 DEF RequestStep, Arrive, Enter, Convert, SelectKey, SelectFallback, ShrinkAndRetry, Retry, End
    <3> QED
      BY <3>1, <3>2, <3>3, <3>4 DEF Next
  <2>3. (req'[t].at = "prepare") = Admits(tokens, req[t].token)
    <3>1. Idle.at = "idle"
      BY IdleType
    <3>2. CASE LookupToken(t)
      <4>1. req[t].token \in Values /\ req[t].token # NoToken
        BY <2>1, <3>2 DEF LookupToken, Request
      <4>2. tokens[req[t].token] \in {"absent", "active", "disabled"}
        BY <2>1, <3>2, <4>1 DEF LookupToken, Status
      <4>3. CASE tokens[req[t].token] = "disabled"
        <5>1. req'[t].at = "idle"
          BY <2>1, <3>1, <3>2, <4>3 DEF LookupToken, Refuse
        <5>2. ~Admits(tokens, req[t].token)
          BY <4>1, <4>3 DEF Admits, Empty
        <5> QED
          BY <5>1, <5>2, AdmitsIsBoolean
      <4>4. CASE tokens[req[t].token] = "active"
        <5>1. req'[t].at = "prepare"
          BY <2>1, <3>2, <4>4 DEF LookupToken, Proceed, Request
        <5>2. Admits(tokens, req[t].token)
          BY <4>1, <4>4 DEF Admits
        <5> QED
          BY <5>1, <5>2, AdmitsIsBoolean
      <4>5. CASE tokens[req[t].token] = "absent"
        <5>1. req'[t].at = "count"
          BY <2>1, <3>2, <4>5 DEF LookupToken, Proceed, Request
        <5> QED
          BY <5>1
      <4> QED
        BY <4>2, <4>3, <4>4, <4>5
    <3>3. CASE CountTokens(t)
      <4>1. PICK fails \in BOOLEAN :
               LET none    == fails \/ Empty(tokens)
                   open    == none /\ config.auth_token = NoToken
                   matches == req[t].token # NoToken /\ req[t].token = config.auth_token
               IN  IF open \/ matches
                   THEN req' = [req EXCEPT ![t].at = "prepare", ![t].blind = @ \/ fails,
                                           ![t].token = IF open THEN NoToken ELSE @]
                   ELSE Refuse(t)
        BY <3>3 DEF CountTokens
      <4> DEFINE open    == (fails \/ Empty(tokens)) /\ config.auth_token = NoToken
                 matches == req[t].token # NoToken /\ req[t].token = config.auth_token
      <4>2. req[t].token = NoToken \/ tokens[req[t].token] = "absent"
        BY <2>1, <3>3 DEF CountTokens
      <4>3. Admits(tokens, req[t].token) <=> matches \/ (Empty(tokens) /\ config.auth_token = NoToken)
        BY <4>2 DEF Admits
      <4>4. CASE open \/ matches
        <5>1. req' = [req EXCEPT ![t].at = "prepare", ![t].blind = @ \/ fails,
                                 ![t].token = IF open THEN NoToken ELSE @]
          BY <4>1, <4>4
        <5>2. req'[t].at = "prepare" /\ req'[t].blind = (req[t].blind \/ fails)
          BY <2>1, <5>1 DEF Request
        <5>3. ~fails
          BY <5>2
        <5>4. Admits(tokens, req[t].token)
          BY <4>3, <4>4, <5>3
        <5> QED
          BY <5>2, <5>4, AdmitsIsBoolean
      <4>5. CASE ~(open \/ matches)
        <5>1. req'[t].at = "idle"
          BY <2>1, <3>1, <4>1, <4>5 DEF Refuse
        <5>2. ~Admits(tokens, req[t].token)
          BY <4>3, <4>5
        <5> QED
          BY <5>1, <5>2, AdmitsIsBoolean
      <4> QED
        BY <4>4, <4>5
    <3> QED
      BY <2>2, <3>2, <3>3
  <2> QED
    BY <2>1, <2>3
<1> QED
  BY <1>1, SetupInvariant, PTL DEF Spec, AuthJustified
=============================================================================
