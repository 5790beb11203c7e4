------------------------------ MODULE HashMap ------------------------------
(***************************************************************************)
(* The integer-keyed map behind the compiler's routes, indexes and caches  *)
(* (support/data_structure/hashmap.c): open addressing, linear probing,    *)
(* growth at 70% load and removal by backward shift, without tombstones.   *)
(***************************************************************************)
EXTENDS Integers, FiniteSets

CONSTANTS MapKeys,               \* the keys
          hash_u64,              \* [MapKeys -> Nat]
          MapValues,             \* the values; NULL is one of them
          NULL,
          HASHMAP_MIN_CAPACITY,  \* a power of two
          MaxCapacity            \* bound: no growth past this capacity

ASSUME HashMapAssumption ==
    /\ hash_u64 \in [MapKeys -> Nat]
    /\ NULL \in MapValues
    /\ HASHMAP_MIN_CAPACITY \in Nat \ {0, 1}

VARIABLES slots,     \* keys, values and the occupied bits, slot by slot, from 0
          capacity,  \* the number of slots
          count,     \* the number of keys
          contents   \* history: what was put and not taken out, as a function

mapVars == <<slots, capacity, count, contents>>

Empty == [occupied |-> FALSE]
Entry(k, v) == [occupied |-> TRUE, key |-> k, value |-> v]
AllEmpty(n) == [i \in 0 .. n - 1 |-> Empty]

Natural(k, n) == hash_u64[k] % n
Cyclic(i, n) == i % n

\* The slot a probe for k in a table of n stops at: k's own, or the first
\* free one.
ProbeStop(table, n, k) ==
    LET Stops(d) == LET e == table[Cyclic(Natural(k, n) + d, n)]
                    IN  ~e.occupied \/ e.key = k
    IN  Cyclic(Natural(k, n) + (CHOOSE d \in 0 .. n - 1 :
                                  Stops(d) /\ \A c \in 0 .. d - 1 : ~Stops(c)), n)

hashmap_contains(k) == capacity # 0 /\ slots[ProbeStop(slots, capacity, k)].occupied
hashmap_get(k) ==
    IF hashmap_contains(k) THEN slots[ProbeStop(slots, capacity, k)].value ELSE NULL

-----------------------------------------------------------------------------

\* The rehash path: the key is known to be absent.
insert_existing(table, n, e) == [table EXCEPT ![ProbeStop(table, n, e.key)] = e]

next_capacity == IF capacity = 0 THEN HASHMAP_MIN_CAPACITY ELSE 2 * capacity

\* The entries of a table of n, slot by slot, put into a fresh one of m.
Rehashed(table, n, m) ==
    LET fresh[i \in 0 .. n] ==
          IF i = 0 THEN AllEmpty(m)
          ELSE IF table[i - 1].occupied THEN insert_existing(fresh[i - 1], m, table[i - 1])
          ELSE fresh[i - 1]
    IN  fresh[n]

hashmap_grow == Rehashed(slots, capacity, next_capacity)

hashmap_needs_grow ==
    \/ capacity = 0
    \/ count + 1 > (capacity \div 10) * 7 + ((capacity % 10) * 7) \div 10

hashmap_put(k, v) ==
    LET table == IF hashmap_needs_grow THEN hashmap_grow ELSE slots
        n     == IF hashmap_needs_grow THEN next_capacity ELSE capacity
        i     == ProbeStop(table, n, k)
    IN  /\ n <= MaxCapacity
        /\ slots' = [table EXCEPT ![i] = Entry(k, v)]
        /\ capacity' = n
        /\ count' = IF table[i].occupied THEN count ELSE count + 1
        /\ contents' = [x \in DOMAIN contents \cup {k} |-> IF x = k THEN v ELSE contents[x]]

\* Variant: the walk has not wrapped around the end of the table.
should_move_unwrapped(i, j, r) == r <= i

\* The entry at j belongs in the hole at i when i lies on its probe path,
\* which starts at its natural slot r.
should_move(i, j, r) == IF j > i THEN r <= i \/ r > j ELSE r <= i /\ r > j

\* The walk after a removal, at slot j: `hole` is the slot to fill; the walk
\* ends at the first free slot.
Shift(walk, j, n) ==
    LET e == walk.table[j]
    IN  IF walk.over \/ ~e.occupied THEN [walk EXCEPT !.over = TRUE]
        ELSE IF should_move(walk.hole, j, Natural(e.key, n))
        THEN [walk EXCEPT !.table = [@ EXCEPT ![walk.hole] = e, ![j] = Empty],
                          !.hole = j]
        ELSE walk

\* A table of n without the entry of slot i.
Erased(table, n, i) ==
    LET walk[d \in 0 .. n - 1] ==
          IF d = 0
          THEN [table |-> [table EXCEPT ![i] = Empty], hole |-> i, over |-> FALSE]
          ELSE Shift(walk[d - 1], Cyclic(i + d, n), n)
    IN  walk[n - 1].table

hashmap_remove(k) ==
    /\ hashmap_contains(k)
    /\ slots' = Erased(slots, capacity, ProbeStop(slots, capacity, k))
    /\ count' = count - 1
    /\ contents' = [x \in DOMAIN contents \ {k} |-> contents[x]]
    /\ UNCHANGED capacity

hashmap_clear ==
    /\ capacity # 0
    /\ slots' = AllEmpty(capacity)
    /\ count' = 0
    /\ contents' = <<>>
    /\ UNCHANGED capacity

hashmap_free == slots' = AllEmpty(0) /\ capacity' = 0 /\ count' = 0 /\ contents' = <<>>

hashmap_init == slots = AllEmpty(0) /\ capacity = 0 /\ count = 0 /\ contents = <<>>

MapNext ==
    \/ \E k \in MapKeys, v \in MapValues : hashmap_put(k, v)
    \/ \E k \in MapKeys : hashmap_remove(k)
    \/ hashmap_clear
    \/ hashmap_free

MapSpec == hashmap_init /\ [][MapNext]_mapVars

-----------------------------------------------------------------------------

\* A lookup finds exactly what the calls so far put in and did not take out,
\* whatever growth, removal and clearing did to the probe chains, and the
\* count is the number of keys (hashmap_get, hashmap_contains).
HashMapIsAMap ==
    /\ \A k \in MapKeys :
          /\ hashmap_contains(k) <=> k \in DOMAIN contents
          /\ k \in DOMAIN contents => hashmap_get(k) = contents[k]
    /\ count = Cardinality(DOMAIN contents)
=============================================================================
