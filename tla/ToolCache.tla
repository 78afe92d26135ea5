----------------------------- MODULE ToolCache -----------------------------
(***************************************************************************)
(* The cache of tool answers (src/gateway/tool_cache.py) as operators on a *)
(* value, the set of its entries; idle puts them in the order in which they *)
(* were used, the last one first.                                          *)
(* A key is a tool, its arguments and the tenant that asks (_make_key).    *)
(* Instead of the time at which it expires, an entry has the ticks that    *)
(* are left to it.                                                         *)
(***************************************************************************)
EXTENDS Integers, FiniteSetsExt

CONSTANTS
  Keys,         \* [tool, args, tenant]
  MaxEntries,   \* max_entries
  Ttl,          \* tool -> its time to live: per_tool_ttl_seconds or the default
  MaxTtl,       \* the longest of them
  Bypassed      \* arguments that match bypass_keys

ASSUME ToolCacheAssumption ==
  /\ MaxEntries \in Nat \ {0}
  /\ MaxTtl \in Nat /\ \A k \in Keys : Ttl[k.tool] \in 0 .. MaxTtl

\* max(1, effective_ttl)
Lifetime(key) == Max({1, Ttl[key.tool]})

Entry(key, value, left, idle) == [key |-> key, value |-> value, left |-> left, idle |-> idle]

Without(cache, key) == {e \in cache : e.key # key}
EntriesOf(cache, key) == {e \in cache : e.key = key /\ key.args \notin Bypassed}

\* The entries in their order, behind one that is used now.
Behind(cache) ==
  {Entry(e.key, e.value, e.left, 1 + Cardinality({x \in cache : x.idle < e.idle})) : e \in cache}

\* get: what is found, if anything.
Found(cache, key) == {e.value : e \in {x \in EntriesOf(cache, key) : x.left > 0}}

\* Mutant: an entry that is used lives on.
Renewed(cache, key) ==
  Behind(Without(cache, key)) \union {Entry(key, v, Lifetime(key), 0) : v \in Found(cache, key)}

\* get: what it leaves.  An entry that is found becomes the last one used, and
\* its time is not prolonged; one that has expired is dropped.
Used(cache, key) ==
  IF key.args \in Bypassed THEN cache
  ELSE Behind(Without(cache, key))
       \union {Entry(key, e.value, e.left, 0) : e \in {x \in EntriesOf(cache, key) : x.left > 0}}

\* set: the expired entries go, then the least recently used ones.
Stored(cache, key, value) ==
  LET live == {e \in Without(cache, key) : e.left > 0}
      all  == {Entry(key, value, Lifetime(key), 0)} \union Behind(live)
  IN  IF key.args \in Bypassed THEN cache ELSE {e \in all : e.idle < MaxEntries}

\* invalidate: the entries of one tool; of all of them, that is {}.
Invalidated(cache, tool) == {e \in cache : e.key.tool # tool}
=============================================================================
