---------------------------- MODULE PromptCache ----------------------------
(***************************************************************************)
(* The prompt prefix cache of src/src/prompt_cache.rs, shared by all       *)
(* requests through a DashMap: every access to the map is atomic, and      *)
(* get_or_convert is a sequence of such accesses that other requests       *)
(* interleave with.                                                        *)
(*                                                                         *)
(* An entry is named by its prefix (system and tools): the 64-bit hash is  *)
(* taken as injective and the conversion as a function of the prefix.      *)
(* Entries only compare by age, so the map is the sequence of its          *)
(* prefixes, oldest first.                                                 *)
(***************************************************************************)
EXTENDS Naturals, Sequences, FiniteSets, SequencesExt

CONSTANTS
    Threads,        \* requests in get_or_convert at once
    Prompts,        \* distinct system+tools prefixes
    MaxEntries,     \* max_entries (200 in create_prompt_cache)
    MaxBound,       \* bound on the entries of the model
    NoPrefix

ASSUME CacheAssumption ==
    /\ IsFiniteSet(Threads)
    /\ MaxEntries \in Nat \ {0}
    /\ MaxBound \in Nat
    /\ NoPrefix \notin Prompts

VARIABLES
    entries,    \* the prefixes in the map, in the order of created_at
    expired,    \* those whose created_at is a ttl ago
    pc,         \* where each request is in get_or_convert
    prefix,     \* the prefix it asks for
    victim      \* oldest_key, as its scan found it

cacheVars == <<entries, expired, pc, prefix, victim>>

Goto(t, label) == pc' = [pc EXCEPT ![t] = label]

-----------------------------------------------------------------------------
\* A request enters with its prefix.
Begin(t) ==
    /\ pc[t] = "idle"
    /\ \E p \in Prompts : prefix' = [prefix EXCEPT ![t] = p]
    /\ Goto(t, "lookup")
    /\ UNCHANGED <<entries, expired, victim>>

\* entries.get: a live entry is the answer, an expired one is to be removed.
Lookup(t) ==
    /\ pc[t] = "lookup"
    /\ LET live == Contains(entries, prefix[t]) /\ prefix[t] \notin expired
       IN  Goto(t, IF live THEN "idle"
                   ELSE IF prefix[t] \in expired THEN "remove" ELSE "convert")
    /\ UNCHANGED <<entries, expired, prefix, victim>>

Position(p) == CHOOSE i \in DOMAIN entries : entries[i] = p

\* entries.remove: no prefix is in the map twice.
Without(p) == IF Contains(entries, p) THEN RemoveAt(entries, Position(p)) ELSE entries

\* The read guard is dropped first: what is removed may be a newer entry.
RemoveExpired(t) ==
    /\ pc[t] = "remove"
    /\ entries' = Without(prefix[t])
    /\ expired' = expired \ {prefix[t]}
    /\ Goto(t, "convert")
    /\ UNCHANGED <<prefix, victim>>

Bug_FullIsNotTooMany(t) ==
    /\ pc[t] = "convert"
    /\ Goto(t, IF Len(entries) > MaxEntries THEN "scan" ELSE "insert")
    /\ UNCHANGED <<entries, expired, prefix, victim>>

\* After the conversion: entries.len() >= max_entries asks for an eviction.
CheckSize(t) ==
    /\ pc[t] = "convert"
    /\ Goto(t, IF Len(entries) >= MaxEntries THEN "scan" ELSE "insert")
    /\ UNCHANGED <<entries, expired, prefix, victim>>

Bug_ScanFindsNewest(t) ==
    /\ pc[t] = "scan"
    /\ victim' = [victim EXCEPT ![t] = IF entries = <<>> THEN NoPrefix ELSE Last(entries)]
    /\ Goto(t, "evict")
    /\ UNCHANGED <<entries, expired, prefix>>

\* evict_oldest finds the oldest entry ...  The code scans shard by shard, while
\* others go on, and passes over an entry as young as the scan itself: the scan
\* is taken at one instant, after all the entries.
Scan(t) ==
    /\ pc[t] = "scan"
    /\ victim' = [victim EXCEPT ![t] = IF entries = <<>> THEN NoPrefix ELSE Head(entries)]
    /\ Goto(t, "evict")
    /\ UNCHANGED <<entries, expired, prefix>>

\* ... and removes that key, whatever is there by now.
Evict(t) ==
    /\ pc[t] = "evict"
    /\ entries' = Without(victim[t])
    /\ expired' = expired \ {victim[t]}
    /\ victim' = [victim EXCEPT ![t] = NoPrefix]
    /\ Goto(t, "insert")
    /\ UNCHANGED prefix

\* entries.insert replaces an entry another request made meanwhile.
Insert(t) ==
    /\ pc[t] = "insert"
    /\ Len(entries) < MaxBound
    /\ entries' = Append(Without(prefix[t]), prefix[t])
    /\ expired' = expired \ {prefix[t]}
    /\ Goto(t, "idle")
    /\ UNCHANGED <<prefix, victim>>

\* Time passes: entries expire in the order of their creation.
Expire ==
    \E i \in DOMAIN entries :
        /\ entries[i] \notin expired
        /\ \A j \in 1 .. i - 1 : entries[j] \in expired
        /\ expired' = expired \cup {entries[i]}
        /\ UNCHANGED <<entries, pc, prefix, victim>>

-----------------------------------------------------------------------------
CacheInit ==
    /\ entries = <<>>
    /\ expired = {}
    /\ pc = [t \in Threads |-> "idle"]
    /\ prefix = [t \in Threads |-> NoPrefix]
    /\ victim = [t \in Threads |-> NoPrefix]

CacheStep(t) ==
    \/ Lookup(t) \/ RemoveExpired(t) \/ CheckSize(t)
    \/ Scan(t) \/ Evict(t) \/ Insert(t)

CacheNext == (\E t \in Threads : Begin(t) \/ CacheStep(t)) \/ Expire

CacheSpec == CacheInit /\ [][CacheNext]_cacheVars

-----------------------------------------------------------------------------
CacheTypeOK ==
    /\ entries \in Seq(Prompts)
    /\ expired \subseteq Range(entries)
    /\ pc \in [Threads -> {"idle", "lookup", "remove", "convert", "scan", "evict", "insert"}]
    /\ prefix \in [Threads -> Prompts \cup {NoPrefix}]
    /\ victim \in [Threads -> Prompts \cup {NoPrefix}]

\* One request at a time, the cache never holds more than max_entries, however
\* hits, expiries and evictions follow each other (prompt_cache.rs test_eviction).
CacheBounded == Len(entries) <= MaxEntries

\* One request at a time, an eviction takes the oldest entry and nothing else
\* makes a live entry of another prefix disappear (evict_oldest).
OldestGoesFirst ==
    [][\A p \in Prompts :
         Contains(entries, p) /\ ~Contains(entries', p) =>
             entries[1] = p \/ p \in expired]_cacheVars

\* [Violated] prompt_cache.rs:39: max_entries keeps the memory from growing
\* without limit.  Two requests that find the cache full can choose the same
\* oldest entry: one goes, two come, and no later call makes up for it.
GrowthBounded == Len(entries) <= MaxEntries + Cardinality(Threads)
=============================================================================
