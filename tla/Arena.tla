------------------------------- MODULE Arena -------------------------------
(***************************************************************************)
(* The bump allocator under the syntax trees, the requests and the intern  *)
(* pool (support/data_structure/arena.c).  An allocation is named by its   *)
(* offset: the words used before it, over all chunks.  Sizes are in words  *)
(* of eight bytes, the alignment of every allocation.                      *)
(***************************************************************************)
EXTENDS Integers, Sequences

CONSTANTS CHUNK_WORDS,      \* default_chunk_capacity
          AllocSizes,       \* the sizes asked for
          MaxGenerations,   \* bound on the resets
          MaxWords          \* bound on what one arena holds

ASSUME ArenaAssumption ==
    /\ CHUNK_WORDS \in Nat \ {0} /\ AllocSizes \subseteq Nat \ {0}
    /\ MaxGenerations \in Nat /\ MaxWords \in Nat

VARIABLES chunks,        \* [id, used, capacity], oldest first; the last is current
          total_prev,    \* total_prev_capacity
          cached,        \* cached_chunk and cached_base, or NoCache
          generation,
          saved,         \* the mark a caller holds
          live,          \* history: the allocations no reset has taken back
          borrowed       \* history: an allocation and the generation it was read at

arenaVars == <<chunks, total_prev, cached, generation, saved, live, borrowed>>

NoCache    == [id |-> <<>>, base |-> 0]
NoMark     == [id |-> <<>>, used |-> 0, total_prev |-> 0]
NoBorrow   == [alloc |-> <<>>, src_gen |-> 0]
Chunk(id, cap) == [id |-> id, used |-> 0, capacity |-> cap]
Place(id, local) == [chunk |-> id, local |-> local]
current    == chunks[Len(chunks)]
\* The position of a chunk in the chain; 0 when it has been freed.
IndexOf(id) ==
    LET found == {i \in DOMAIN chunks : chunks[i].id = id}
    IN  IF found = {} THEN 0 ELSE CHOOSE i \in found : TRUE

arena_total_used == IF chunks = <<>> THEN 0 ELSE total_prev + current.used

\* The words used in the chunks of a chain before the i-th.
BaseOf(chain, i) ==
    LET sum[j \in 0 .. Len(chain)] == IF j = 0 THEN 0 ELSE sum[j - 1] + chain[j].used
    IN  sum[i - 1]
Base(i) == BaseOf(chunks, i)
Holds(base, c, offset) == offset >= base /\ offset < base + c.used

\* Variant: the end of the cached chunk is not checked.
CacheHitAbove(offset) == cached # NoCache /\ offset >= cached.base

\* The chunk of the last answer is tried before the chain is walked.
CacheHit(offset) ==
    cached # NoCache /\ Holds(cached.base, chunks[IndexOf(cached.id)], offset)
Holder(offset) ==
    CHOOSE i \in DOMAIN chunks :
        /\ Holds(Base(i), chunks[i], offset)
        /\ \A j \in 1 .. i - 1 : ~Holds(Base(j), chunks[j], offset)
arena_get_ptr(offset) ==
    IF CacheHit(offset) THEN Place(cached.id, offset - cached.base)
    ELSE Place(chunks[Holder(offset)].id, offset - Base(Holder(offset)))

-----------------------------------------------------------------------------

\* The capacity of the last chunk, doubled until the allocation fits.
next_chunk_capacity(size) ==
    LET doubled[k \in 0 .. size] ==
          IF k = 0 THEN IF chunks = <<>> THEN CHUNK_WORDS ELSE current.capacity
          ELSE IF doubled[k - 1] < size THEN 2 * doubled[k - 1] ELSE doubled[k - 1]
    IN  doubled[size]

arena_alloc_raw(size) ==
    LET spill == chunks = <<>> \/ size > current.capacity - current.used
        fresh == Chunk(<<generation, Len(chunks) + 1>>, next_chunk_capacity(size))
        dest  == IF spill THEN fresh ELSE current
    IN  /\ arena_total_used + size <= MaxWords
        /\ chunks' = IF spill THEN Append(chunks, [fresh EXCEPT !.used = size])
                     ELSE [chunks EXCEPT ![Len(chunks)].used = @ + size]
        /\ total_prev' = IF spill /\ chunks # <<>> THEN total_prev + current.used
                         ELSE total_prev
        /\ live' = live \cup {[off |-> arena_total_used, size |-> size,
                               at |-> Place(dest.id, dest.used)]}
        /\ UNCHANGED <<cached, generation, saved, borrowed>>

\* A reader resolves an offset: the chunk it is found in is remembered, and
\* the pointer is good for as long as the generation stands.
ReadPayload(a) ==
    /\ cached' = IF CacheHit(a.off) THEN cached
                 ELSE [id |-> chunks[Holder(a.off)].id, base |-> Base(Holder(a.off))]
    /\ borrowed' = [alloc |-> a, src_gen |-> generation]
    /\ UNCHANGED <<chunks, total_prev, generation, saved, live>>

arena_mark ==
    /\ chunks # <<>>
    /\ saved' = [id |-> current.id, used |-> current.used, total_prev |-> total_prev]
    /\ UNCHANGED <<chunks, total_prev, cached, generation, live, borrowed>>

\* The chunks after the mark's are freed; a mark of a freed chunk is ignored.
arena_reset_to(mark) ==
    LET i == IndexOf(mark.id)
    IN  /\ generation < MaxGenerations
        /\ i # 0 /\ mark.used <= chunks[i].capacity
        /\ chunks' = [SubSeq(chunks, 1, i) EXCEPT ![i].used = mark.used]
        /\ total_prev' = mark.total_prev
        /\ cached' = NoCache
        /\ generation' = generation + 1
        /\ live' = {a \in live : \/ IndexOf(a.at.chunk) < i
                                 \/ IndexOf(a.at.chunk) = i /\ a.at.local + a.size <= mark.used}
        /\ UNCHANGED <<saved, borrowed>>

arena_reset ==
    /\ generation < MaxGenerations
    /\ chunks # <<>>
    /\ chunks' = <<[chunks[1] EXCEPT !.used = 0]>>
    /\ total_prev' = 0
    /\ cached' = NoCache
    /\ generation' = generation + 1
    /\ live' = {}
    /\ UNCHANGED <<saved, borrowed>>

arena_init ==
    /\ chunks = <<>> /\ total_prev = 0 /\ cached = NoCache /\ generation = 1
    /\ saved = NoMark /\ live = {} /\ borrowed = NoBorrow

ArenaNext ==
    \/ \E size \in AllocSizes : arena_alloc_raw(size)
    \/ \E a \in live : ReadPayload(a)
    \/ arena_mark
    \/ arena_reset_to(saved)
    \/ arena_reset

ArenaSpec == arena_init /\ [][ArenaNext]_arenaVars

-----------------------------------------------------------------------------

\* The offset recorded for an allocation leads to the words that were handed
\* out for it, whichever chunk they spilled into, whatever was reset since and
\* wherever the last reader left the cached chunk (arena_get_ptr); those words
\* are inside the chunk; no two live allocations share a word; and a pointer
\* whose generation still stands is to a live allocation, which is what ip_get
\* relies on for keys whose arrays live in an arena (IpKey.src_gen).
OffsetsResolve ==
    /\ \A a \in live : /\ arena_get_ptr(a.off) = a.at
                       /\ a.at.local + a.size <= chunks[IndexOf(a.at.chunk)].capacity
    /\ \A a, b \in live : a = b \/ a.off + a.size <= b.off \/ b.off + b.size <= a.off
    /\ borrowed # NoBorrow /\ borrowed.src_gen = generation => borrowed.alloc \in live
=============================================================================
