-------------------------- MODULE ArenaThreadCache --------------------------
(***************************************************************************)
(* The Arena of a build with the thread_local feature: module Arena with   *)
(* the THREAD_CACHE of each thread (src/thread_local.rs), which            *)
(* allocate_raw looks into before the chunks.  The arena is used by one    *)
(* thread at a time and may move; a cache is filled by callers that give a *)
(* block back with thread_local_dealloc, on whatever thread they are.      *)
(*                                                                         *)
(* A cache is the record [entries, total_bytes, arena_id], an entry        *)
(* [ptr, size, arena_id] with the block for its ptr.  Id 0 is this arena's *)
(* and 1 any other's.  A block given back leaves an empty place in `log`.  *)
(*                                                                         *)
(* Scopes and pop_and_rewind rewind through the same function as explicit  *)
(* checkpoints do, which alone are used here.                              *)
(***************************************************************************)
EXTENDS Arena, SequencesExt

CONSTANTS
  Threads,
  CacheLayouts,   \* the layouts callers ask for, some of Layouts
  CacheEntries,   \* the length of ThreadCache::entries
  CacheSize,      \* THREAD_CACHE_SIZE, the 512 of allocate_raw
  CacheMaxId,     \* bound: checkpoints taken
  CacheUsize      \* 2^64: usize arithmetic is modulo CacheUsize without overflow checks

ASSUME ArenaThreadCacheAssumption ==
  /\ CacheLayouts \subseteq Layouts
  /\ CacheEntries \in Nat \ {0} /\ CacheSize \in Nat
  /\ CacheUsize \in Nat /\ 2 * CacheSize < CacheUsize

VARIABLES
  cache,            \* THREAD_CACHE of each thread
  at,               \* the thread that has the arena
  overflow_checks,  \* does the build panic on overflow?
  approximate,      \* threads whose cache was cleared in part since it was last emptied
  stale             \* has the arena released memory a cache kept that it did not reset?

history == <<approximate, stale>>
tcVars == <<vars, cache, at, overflow_checks, history>>

-----------------------------------------------------------------------------
(* ThreadCache *)

NewCache == [entries |-> <<>>, total_bytes |-> 0, arena_id |-> 0]

Clear(c) == [c EXCEPT !.entries = <<>>, !.total_bytes = 0]

\* What alloc and dealloc begin with: a cache serves one arena id at a time.
Serving(c, id) == IF c.arena_id = id THEN c ELSE [Clear(c) EXCEPT !.arena_id = id]

\* The entry alloc finds: the first one large enough.
Suitable(c, size, id) ==
  {i \in DOMAIN c.entries : c.entries[i].size >= size /\ c.entries[i].arena_id = id}
First(is) == CHOOSE i \in is : \A j \in is : i <= j

\* The last entry takes the place of entry i.
SwapRemove(entries, i) == Front([entries EXCEPT ![i] = Last(entries)])

ClearPartial(c) ==
  [c EXCEPT !.entries = SubSeq(@, Len(@) \div 2 + 1, Len(@)), !.total_bytes = @ \div 2]

FullByCount(c, size) == Len(c.entries) >= CacheEntries
Full(c, size) ==
  Len(c.entries) >= CacheEntries \/ (c.total_bytes + size) % CacheUsize > CacheSize

\* dealloc clears half of a full cache, and drops e if there is still no room.
Dealloc(c, e) ==
  LET served == Serving(c, e.arena_id)
      room   == IF Full(served, e.size) THEN ClearPartial(served) ELSE served
  IN  IF Full(room, e.size) THEN room
      ELSE [room EXCEPT !.entries = Append(@, e),
                        !.total_bytes = (@ + e.size) % CacheUsize]

-----------------------------------------------------------------------------

TCInit ==
  /\ Init
  /\ cache = [t \in Threads |-> NewCache]
  /\ at \in Threads
  /\ overflow_checks \in BOOLEAN
  /\ approximate = {} /\ stale = FALSE

Cacheable(l) == l.size > 0 /\ l.size <= CacheSize

Found(l) == Suitable(Serving(cache[at], 0), l.size, 0)

\* allocate_raw when the cache of this thread has an entry; the subtraction
\* of the requested size may go below zero, and the entry is gone by then.
AllocFromCache(l) ==
  LET served  == Serving(cache[at], 0)
      i       == First(Found(l))
      block   == served.entries[i].ptr
      removed == [served EXCEPT !.entries = SwapRemove(@, i)]
      below   == removed.total_bytes < l.size
  IN
  /\ Alive /\ Len(log) < MaxLive
  /\ Cacheable(l) /\ Found(l) # {}
  /\ \/ /\ below /\ overflow_checks
        /\ cache' = [cache EXCEPT ![at] = removed]
        /\ outcome' = "panic"
        /\ UNCHANGED <<log, allocation_count>>
     \/ /\ ~(below /\ overflow_checks)
        /\ cache' = [cache EXCEPT ![at] =
             [removed EXCEPT !.total_bytes = (@ + CacheUsize - l.size) % CacheUsize]]
        /\ log' = Append(log, [block EXCEPT !.hi = block.lo + l.size, !.align = l.align])
        /\ allocation_count' = allocation_count + 1
        /\ outcome' = "ok"
  /\ UNCHANGED <<chunks, current_chunk, bytes_used, bytes_allocated, marks,
                 at, overflow_checks, history>>

\* A miss leaves the cache serving this arena; larger requests do not look.
AllocPastCache(l) ==
  /\ Cacheable(l) => Found(l) = {}
  /\ AllocateRaw(l)
  /\ cache' = [cache EXCEPT ![at] = IF Cacheable(l) THEN Serving(@, 0) ELSE @]
  /\ approximate' = IF cache'[at].arena_id # cache[at].arena_id THEN approximate \ {at}
                    ELSE approximate
  /\ UNCHANGED <<at, overflow_checks, stale>>

NoBlock == [chunk |-> 0, lo |-> 0, hi |-> 0, align |-> 1]

\* thread_local_dealloc of entry e on thread t.
PutInto(t, e) ==
  /\ cache' = [cache EXCEPT ![t] = Dealloc(@, e)]
  /\ approximate' =
       IF Full(Serving(cache[t], e.arena_id), e.size) THEN approximate \cup {t}
       ELSE IF cache[t].arena_id # e.arena_id THEN approximate \ {t} ELSE approximate

\* The caller gives back live allocation i, with its size and this arena's id.
GiveBack(t, i) ==
  LET size == log[i].hi - log[i].lo IN
  /\ Alive
  /\ size \in 1..CacheSize
  /\ PutInto(t, [ptr |-> log[i], size |-> size, arena_id |-> 0])
  /\ log' = [log EXCEPT ![i] = NoBlock]
  /\ outcome' = "ok"
  /\ UNCHANGED <<chunks, current_chunk, stats, marks, at, overflow_checks, stale>>

\* A block of another arena is given back; a second one would only be a
\* second entry that this arena never takes.
GiveBackOther(t) ==
  /\ Alive /\ cache[t].arena_id = 0
  /\ PutInto(t, [ptr |-> NoBlock, size |-> 1, arena_id |-> 1])
  /\ UNCHANGED <<vars, at, overflow_checks, stale>>

\* reset_thread_cache, clear_thread_cache, and cleanup_thread_cache(id) when
\* the cache serves id, on thread t.
ResetThreadCache(t) ==
  /\ Alive
  /\ cache' = [cache EXCEPT ![t] = Clear(@)]
  /\ approximate' = approximate \ {t}
  /\ UNCHANGED <<vars, at, overflow_checks, stale>>

\* Arena is Send: without a Scope borrowing it, it can be moved.
Move(t) ==
  /\ Alive /\ NoScopeOpen /\ t # at
  /\ at' = t
  /\ UNCHANGED <<vars, cache, overflow_checks, history>>

-----------------------------------------------------------------------------
(* Rewinds and resets: only the cache of the thread they run on is reset *)

Cached(t) == {e \in ToSet(cache[t].entries) : e.arena_id = 0}

Held(b, chs) == b.chunk \in DOMAIN chs /\ b.hi <= chs[b.chunk].used

KeptBy(ts) == \E t \in ts : \E e \in Cached(t) : ~Held(e.ptr, chunks')

NoCacheReset ==
  /\ stale' = (stale \/ KeptBy(Threads \ {at}))
  /\ UNCHANGED <<cache, approximate, at, overflow_checks>>
CacheReset ==
  /\ cache' = [cache EXCEPT ![at] = Clear(@)]
  /\ approximate' = approximate \ {at}
  /\ stale' = (stale \/ KeptBy(Threads \ {at}))
  /\ UNCHANGED <<at, overflow_checks>>

\* reset_and_shrink_to_fit resets no cache.
ShrinkKeepsCaches ==
  /\ ResetAndShrinkToFit
  /\ stale' = (stale \/ KeptBy(Threads))
  /\ UNCHANGED <<cache, approximate, at, overflow_checks>>

\* Bound: a behaviour is followed until it is stale.
TCNext ==
  \/ /\ ~stale
     /\ \/ \E l \in CacheLayouts : AllocFromCache(l) \/ AllocPastCache(l)
        \/ \E t \in Threads : \/ \E i \in DOMAIN log : GiveBack(t, i)
                              \/ GiveBackOther(t) \/ ResetThreadCache(t) \/ Move(t)
        \/ \E c \in held : RewindToCheckpoint(c) /\ CacheReset
        \/ Reset /\ CacheReset
        \/ ShrinkKeepsCaches
        \/ /\ TakeCheckpoint /\ current_checkpoint_id < CacheMaxId
           /\ UNCHANGED <<cache, at, overflow_checks, history>>
  \/ stale /\ UNCHANGED tcVars

TCSpec == TCInit /\ [][TCNext]_tcVars

-----------------------------------------------------------------------------
(* Properties *)

CachedBlocks == UNION {{e.ptr : e \in Cached(t)} : t \in Threads}

Apart(a, b) == a.chunk # b.chunk \/ a.hi <= b.lo \/ b.hi <= a.lo

\* A block given back is either in one cache or owned by one caller, never
\* both: live allocations are disjoint, and the blocks in all the caches lie
\* in memory the arena has handed out, apart from each other and from every
\* live allocation - unless memory was released while a cache that the
\* release does not reset still held a block of it.
DisjointUnlessStale ==
  ~stale =>
    /\ LiveBlocksDisjoint
    /\ \A b \in CachedBlocks :
         /\ Held(b, chunks)
         /\ \A i \in DOMAIN log : log[i].lo < log[i].hi => Apart(b, log[i])
    /\ \A t, u \in Threads : \A i \in DOMAIN cache[t].entries, j \in DOMAIN cache[u].entries :
         LET e == cache[t].entries[i]
             f == cache[u].entries[j]
         IN  e.arena_id = 0 /\ f.arena_id = 0 /\ <<t, i>> # <<u, j>> => Apart(e.ptr, f.ptr)

EntryBytes(c) ==
  SumFunctionOnSet([i \in DOMAIN c.entries |-> c.entries[i].size], DOMAIN c.entries)

\* The cache never outgrows its array and holds entries of the one arena id
\* it serves; until a partial clear halves total_bytes "approximately",
\* total_bytes is at least what the entries hold and at most
\* THREAD_CACHE_SIZE, so that alloc's subtraction cannot go below zero.
CacheAccounting ==
  \A t \in Threads :
    /\ Len(cache[t].entries) <= CacheEntries
    /\ \A e \in ToSet(cache[t].entries) : e.arena_id = cache[t].arena_id
    /\ t \notin approximate =>
         EntryBytes(cache[t]) <= cache[t].total_bytes /\ cache[t].total_bytes <= CacheSize

=============================================================================
