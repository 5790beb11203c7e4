----------------------------- MODULE StringPool -----------------------------
(***************************************************************************)
(* The string interner (support/data_structure/stringpool.c).  A string is *)
(* stored once, in a block of a growing buffer; the block's offset is its  *)
(* StrId, and a table of offsets is probed by the string's hash.           *)
(***************************************************************************)
EXTENDS Integers, FiniteSets, FiniteSetsExt

CONSTANTS Strings,      \* the strings, "" among them
          strlen,       \* [Strings -> Nat]
          hash_bytes,   \* [Strings -> Nat]
          POOL_SLOTS,   \* the initial table, and the least one: a power of two
          MaxSlots,     \* bound: no table larger than this
          Batches       \* the sizes pool_reserve_slots is called with

EmptyString == ""

ASSUME StringPoolAssumption ==
    /\ EmptyString \in Strings
    /\ strlen \in [Strings -> Nat] /\ \A s \in Strings : strlen[s] = 0 <=> s = EmptyString
    /\ hash_bytes \in [Strings -> Nat]
    /\ POOL_SLOTS \in Nat \ {0} /\ MaxSlots \in Nat /\ Batches \subseteq Nat

VARIABLES str_slots,  \* the table, from slot 0: an offset, or POOL_EMPTY
          slot_count,
          slot_used,
          buffer,     \* offset -> the string of the block there
          len,        \* the bytes of the buffer in use
          issued      \* history: the StrId every string was answered with

stringVars == <<str_slots, slot_count, slot_used, buffer, len, issued>>

POOL_EMPTY == -1
Block(s) == strlen[s] + 4 + 1   \* the length, the bytes and a zero

NoStrings(n) == [i \in 0 .. n - 1 |-> POOL_EMPTY]
Home(s, n) == hash_bytes[s] % n

\* The slot a probe of a table of n stops at: the string's own, or the first
\* empty one.
find_slot(table, n, s) ==
    LET At(d) == (Home(s, n) + d) % n
        Stops(d) == table[At(d)] = POOL_EMPTY \/ buffer[table[At(d)]] = s
    IN  At(CHOOSE d \in 0 .. n - 1 : Stops(d) /\ \A c \in 0 .. d - 1 : ~Stops(c))

\* Variant: the slot the string hashes to is taken without probing.
ReslotHome(table, n, id) == [table EXCEPT ![Home(buffer[id], n)] = id]

Reslot(table, n, id) == [table EXCEPT ![find_slot(table, n, buffer[id])] = id]

\* The offsets of the table, slot by slot, put into a fresh one of n.
slots_resize(n) ==
    LET fresh[i \in 0 .. slot_count] ==
          IF i = 0 THEN NoStrings(n)
          ELSE IF str_slots[i - 1] = POOL_EMPTY THEN fresh[i - 1]
          ELSE Reslot(fresh[i - 1], n, str_slots[i - 1])
    IN  fresh[slot_count]

pool_lookup(s) ==
    LET id == str_slots[find_slot(str_slots, slot_count, s)]
    IN  IF s = EmptyString \/ id = POOL_EMPTY THEN 0 ELSE id

pool_get(id) == IF id = 0 THEN EmptyString ELSE buffer[id]

-----------------------------------------------------------------------------

\* The table is resized before it is probed, so also for a string it holds.
pool_intern(s) ==
    LET full  == (slot_used + 1) * 10 > slot_count * 7
        n     == IF full THEN 2 * slot_count ELSE slot_count
        table == IF full THEN slots_resize(n) ELSE str_slots
        at    == find_slot(table, n, s)
        hit   == table[at] # POOL_EMPTY
        id    == IF s = EmptyString THEN 0 ELSE IF hit THEN table[at] ELSE len
    IN  /\ issued' = issued \cup {<<s, id>>}
        /\ IF s = EmptyString THEN UNCHANGED <<str_slots, slot_count, slot_used, buffer, len>>
           ELSE /\ n <= MaxSlots
                /\ slot_count' = n
                /\ IF hit THEN str_slots' = table /\ UNCHANGED <<slot_used, buffer, len>>
                   ELSE /\ str_slots' = [table EXCEPT ![at] = len]
                        /\ slot_used' = slot_used + 1
                        /\ buffer' = [o \in DOMAIN buffer \cup {len} |->
                                        IF o = len THEN s ELSE buffer[o]]
                        /\ len' = len + Block(s)

\* The smallest table, doubled from the least one, under 70% after the batch.
Doubled(t, needed) == \E k \in 0 .. needed : t = POOL_SLOTS * 2^k
pool_reserve_slots(more) ==
    LET needed  == slot_used + more
        targets == {t \in 1 .. MaxSlots : Doubled(t, needed) /\ t * 7 >= needed * 10}
    IN  /\ targets # {} /\ slot_count < Min(targets)
        /\ str_slots' = slots_resize(Min(targets))
        /\ slot_count' = Min(targets)
        /\ UNCHANGED <<slot_used, buffer, len, issued>>

\* Offset 0 holds the empty string, which is not in the table.
pool_init ==
    /\ str_slots = NoStrings(POOL_SLOTS)
    /\ slot_count = POOL_SLOTS
    /\ slot_used = 0
    /\ buffer = [o \in {0} |-> EmptyString]
    /\ len = Block(EmptyString)
    /\ issued = {}

PoolNext ==
    \/ \E s \in Strings : pool_intern(s)
    \/ \E n \in Batches : pool_reserve_slots(n)

PoolSpec == pool_init /\ [][PoolNext]_stringVars

-----------------------------------------------------------------------------

\* A StrId names one string and a string has one StrId, for as long as the
\* pool lives: what was answered before a growth of the table is what a
\* lookup answers after it, a string that was never interned is not found,
\* and no two blocks overlap (pool_intern, pool_lookup, pool_get).
StrIdsAreNames ==
    /\ \A p \in issued : pool_get(p[2]) = p[1] /\ pool_lookup(p[1]) = p[2]
    /\ \A s \in Strings : pool_lookup(s) # 0 => <<s, pool_lookup(s)>> \in issued
    /\ \A a, b \in DOMAIN buffer : a < b => a + Block(buffer[a]) <= b
=============================================================================
