----------------------------- MODULE InternPool -----------------------------
(***************************************************************************)
(* The pool of types and values (db/intern_pool/intern_pool.c).  A key is  *)
(* encoded once, as a tag and a word, and its index is its identity: the   *)
(* compiler compares types by comparing indices.  The bucket table maps a  *)
(* key's hash to its index and is probed linearly; a removed item leaves   *)
(* its bucket behind.                                                      *)
(*                                                                         *)
(* A key is its kind and the words hash_key folds, in that order: an array *)
(* of indices or labels is its length and its elements, and const is 1.  A *)
(* payload of more than a word goes to the extra arena, here a sequence    *)
(* with its position as the offset (OffsetsResolve of Arena).              *)
(***************************************************************************)
EXTENDS Integers, Sequences

CONSTANTS Primitives,      \* the number of primitive types, from index 1; the
                           \* first three are the error type, u8 and void
          Keys,            \* the compound keys interned
          IpHash(_),       \* key -> [bucket, high], the halves of its hash
          INITIAL_BUCKETS, \* a power of two
          MaxItems,        \* bound on the items of the pool
          MaxFreshVars     \* bound on the fresh variables

VARIABLES items,           \* items_tag and items_data, from index 0
          buckets,         \* the table from slot 0, bucket_count and bucket_used
          extra,           \* extra_arena: the payloads
          next_var,        \* next_row_var_id, next_type_var_id
          answered         \* history: key -> index, of the keys in the pool

internVars == <<items, buckets, extra, next_var, answered>>

Key(kind, fields) == [kind |-> kind, fields |-> fields]
IP_ERROR_TYPE == 1
IP_U8_TYPE    == 2
IP_VOID_TYPE  == 3
IP_NONE       == 0

\* The reserved compounds follow the primitives and the reserved values,
\* of which there is one here.
ReservedBase == Primitives + 2
IP_EMPTY_EFFECT_ROW == ReservedBase + 4
ReservedCompounds == <<
    Key("ptr", <<IP_U8_TYPE, 1>>), Key("ptr", <<IP_VOID_TYPE, 0>>), Key("ptr", <<IP_VOID_TYPE, 1>>),
    Key("slice", <<IP_U8_TYPE, 1>>), Key("effect_row", <<0, IP_EMPTY_EFFECT_ROW>>)>>
IP_RESERVED_COUNT == ReservedBase + 5

-----------------------------------------------------------------------------
(* Keys.                                                                   *)

Mutability == {"ptr", "many_ptr", "slice"}
Single == {"optional", "struct", "enum", "row_var", "type_var", "effect", "namespace",
           "namespace_value", "fn_value"}
Stored == {"array", "fn", "instance", "effect_row", "distinct", "int", "float",
           "enum_variant"}

\* An absent effect row or tail is the empty row, in the hash, in the
\* comparison and in the payload.  It is the last field of both kinds.
Closed(key) ==
    LET last == Len(key.fields)
    IN  IF key.kind \in {"fn", "effect_row"} /\ key.fields[last] = IP_NONE
        THEN Key(key.kind, [key.fields EXCEPT ![last] = IP_EMPTY_EFFECT_ROW])
        ELSE key
hash_key(key) == IpHash(Closed(key))
\* Variant: an absent row is not the empty row in the comparison.
ip_key_eql_raw(a, b) == a = b

ip_key_eql(a, b) == Closed(a) = Closed(b)

\* A tag tells a kind and, of a pointer or a slice, whether it is to const.
Tag(kind, const) == [kind |-> kind, const |-> const]
tag_for_key(key) == Tag(key.kind, key.kind \in Mutability /\ key.fields[2] = 1)

Item(tag, data) == [tag |-> tag, data |-> data]
Removed == Tag("removed", FALSE)
Dead    == Tag("none", FALSE)

\* The payload goes to the end of the arena, if the key has one; the word for
\* items_data is its offset, or the key's first field.
encode_payload(key, arena) ==
    IF key.kind \in Stored THEN Append(arena, Closed(key).fields) ELSE arena
encode_items_data(key, arena) == IF key.kind \in Stored THEN Len(arena) ELSE key.fields[1]

ErrorKey == Key("primitive", <<IP_ERROR_TYPE>>)
ip_key_internal(pool, arena, idx) ==
    LET it   == pool[idx + 1]
        kind == it.tag.kind
    IN  CASE idx >= Len(pool) -> ErrorKey
          [] kind \in {"primitive", "reserved_value"} -> Key(kind, <<idx>>)
          [] kind \in Mutability -> Key(kind, <<it.data, IF it.tag.const THEN 1 ELSE 0>>)
          [] kind \in Single -> Key(kind, <<it.data>>)
          [] kind \in Stored -> Key(kind, arena[it.data + 1])
          [] OTHER -> ErrorKey

ip_key(idx) == ip_key_internal(items, extra, idx)

\* The keys a pool is asked for, as it stores them, and what they are made of.
WellFormed(key) ==
    /\ key = Key(key.kind, key.fields) /\ key.fields \in Seq(Int)
    /\ \/ key.kind \in Mutability /\ Len(key.fields) = 2 /\ key.fields[2] \in {0, 1}
       \/ key.kind \in Single /\ Len(key.fields) = 1
       \/ key.kind \in Stored /\ Len(key.fields) >= 1
VarKinds  == {"row_var", "type_var"}
FreshVars == {Key(kind, <<n>>) : kind \in VarKinds, n \in 1 .. MaxFreshVars}
Reserved  == {ReservedCompounds[i] : i \in 1 .. 5}
Asked     == UNION {Keys, FreshVars, Reserved}
PoolKeys  == {Closed(k) : k \in Asked}

ASSUME InternAssumption ==
    /\ Primitives \in Nat /\ Primitives >= 3
    /\ INITIAL_BUCKETS \in Nat /\ INITIAL_BUCKETS > 1
    /\ MaxItems \in Nat /\ MaxFreshVars \in Nat
    /\ \A k \in Keys : WellFormed(k)
    /\ \A k \in PoolKeys : IpHash(k) \in [bucket : Nat, high : Nat]

-----------------------------------------------------------------------------
(* Buckets: the high hash and the index plus one; 0 when free.             *)

NoBucket == [high |-> 0, item |-> 0]
Bucket(key, idx) == [high |-> hash_key(key).high, item |-> idx + 1]
NoBuckets(n) == [slot |-> [i \in 0 .. n - 1 |-> NoBucket], count |-> n, used |-> 0]
Crowded(b) == (b.used + 1) * 4 > b.count * 3

Slots(b) == 0 .. b.count - 1
Free(b)  == {i \in Slots(b) : b.slot[i] = NoBucket}
\* The buckets of the key's high hash whose item is not removed and decodes
\* to the key.
Matching(pool, arena, b, key) ==
    {i \in Slots(b) \ Free(b) :
        /\ b.slot[i].high = hash_key(key).high
        /\ pool[b.slot[i].item].tag # Removed
        /\ ip_key_eql(ip_key_internal(pool, arena, b.slot[i].item - 1), key)}

\* A probe goes up from slot h and around the end, to the first slot in S.
FirstFrom(S, h, n) ==
    LET At(d) == (h + d) % n
    IN  At(CHOOSE d \in 0 .. n - 1 : At(d) \in S /\ \A c \in 0 .. d - 1 : At(c) \notin S)
BucketHome(key, n) == hash_key(key).bucket % n
FirstFree(b, key) == FirstFrom(Free(b), BucketHome(key, b.count), b.count)
Found(pool, arena, b, key) ==
    FirstFrom(Free(b) \cup Matching(pool, arena, b, key), BucketHome(key, b.count), b.count)

Filled(b, at, key, idx) ==
    [slot |-> [b.slot EXCEPT ![at] = Bucket(key, idx)], count |-> b.count, used |-> b.used + 1]

\* Bucket e of the old table, put into b unless its item is removed.
Rebucket(pool, arena, b, e) ==
    LET key == ip_key_internal(pool, arena, e.item - 1)
    IN  IF e = NoBucket \/ pool[e.item].tag = Removed THEN b
        ELSE Filled(b, FirstFree(b, key), key, e.item - 1)
buckets_grow(pool, arena, b) ==
    LET grown[i \in 0 .. b.count] ==
          IF i = 0 THEN NoBuckets(2 * b.count)
          ELSE Rebucket(pool, arena, grown[i - 1], b.slot[i - 1])
    IN  grown[b.count]

\* The buckets an insertion is made in.
Roomy(pool, arena, b) == IF Crowded(b) THEN buckets_grow(pool, arena, b) ELSE b

register_bucket(pool, arena, b, idx) ==
    LET room == Roomy(pool, arena, b)
        key  == ip_key_internal(pool, arena, idx)
    IN  Filled(room, FirstFree(room, key), key, idx)

-----------------------------------------------------------------------------
(* The pool with its reserved items in an empty table of n buckets.        *)

ReservedItem(i) ==
    IF i = 0 THEN Item(Dead, 0)
    ELSE IF i <= Primitives THEN Item(Tag("primitive", FALSE), 0)
    ELSE IF i < ReservedBase THEN Item(Tag("reserved_value", FALSE), 0)
    ELSE LET key == ReservedCompounds[i - ReservedBase + 1]
         IN  Item(tag_for_key(key), encode_items_data(key, <<>>))
ReservedItems == [p \in 1 .. IP_RESERVED_COUNT |-> ReservedItem(p - 1)]
ReservedExtra == <<ReservedCompounds[5].fields>>

populate_reserved(n) ==
    LET Register(b, i) == register_bucket(ReservedItems, ReservedExtra, b, ReservedBase + i)
    IN  Register(Register(Register(Register(Register(NoBuckets(n), 0), 1), 2), 3), 4)

ReservedAnswers ==
    [k \in Reserved |-> ReservedBase - 1 + CHOOSE i \in 1 .. 5 : ReservedCompounds[i] = k]

ip_init ==
    /\ items = ReservedItems
    /\ buckets = populate_reserved(INITIAL_BUCKETS)
    /\ extra = ReservedExtra
    /\ next_var = [kind \in VarKinds |-> 0]
    /\ answered = ReservedAnswers

-----------------------------------------------------------------------------
(* Operations.                                                             *)

\* The table grows before it is probed, so also for a key it holds.
ip_get_compound(key) ==
    LET room == Roomy(items, extra, buckets)
        at   == Found(items, extra, room, key)
        miss == room.slot[at] = NoBucket
        idx  == IF miss THEN Len(items) ELSE room.slot[at].item - 1
    IN  /\ miss => Len(items) < MaxItems
        /\ buckets' = IF miss THEN Filled(room, at, key, idx) ELSE room
        /\ items' = IF miss THEN Append(items, Item(tag_for_key(key),
                                                    encode_items_data(key, extra)))
                    ELSE items
        /\ extra' = IF miss THEN encode_payload(key, extra) ELSE extra
        /\ answered' = [k \in DOMAIN answered \cup {Closed(key)} |->
                          IF k = Closed(key) THEN idx ELSE answered[k]]

ip_get(key) == ip_get_compound(key) /\ UNCHANGED next_var

\* A fresh variable: the counter is advanced first; 0 is never an id.
ip_fresh_var(kind) ==
    /\ next_var[kind] < MaxFreshVars
    /\ next_var' = [next_var EXCEPT ![kind] = @ + 1]
    /\ ip_get_compound(Key(kind, <<next_var[kind] + 1>>))

\* The item goes, its bucket and the count of used buckets stay.
ip_remove(idx) ==
    /\ items' = [items EXCEPT ![idx + 1].tag = Removed]
    /\ answered' = [k \in {x \in DOMAIN answered : answered[x] # idx} |-> answered[k]]
    /\ UNCHANGED <<buckets, extra, next_var>>

\* The buckets keep the size they have grown to.
ip_clear ==
    /\ buckets' = populate_reserved(buckets.count)
    /\ items' = ReservedItems
    /\ extra' = ReservedExtra
    /\ next_var' = [kind \in VarKinds |-> 0]
    /\ answered' = ReservedAnswers

InternNext ==
    \/ \E k \in Keys : ip_get(k)
    \/ \E kind \in VarKinds : ip_fresh_var(kind)
    \/ \E idx \in IP_RESERVED_COUNT .. Len(items) - 1 : ip_remove(idx)
    \/ ip_clear

InternSpec == ip_init /\ [][InternNext]_internVars

-----------------------------------------------------------------------------

\* Every probe ends: there is a free bucket, counting the ones removed items
\* keep (the load check of ip_get_compound and register_bucket).
ProbesEnd == Free(buckets) # {}

\* Two types are the same exactly when their indices are: no two live items
\* decode to equal keys, an index keeps the key it was answered for, and
\* asking again, after the table has grown, items were removed or the pool
\* was cleared, finds that index and no other (ip_get, ip_key).
IndexIsIdentity ==
    /\ ProbesEnd
    /\ \A i, j \in ReservedBase .. Len(items) - 1 :
          i # j /\ items[i + 1].tag # Removed /\ items[j + 1].tag # Removed
             => ~ip_key_eql(ip_key(i), ip_key(j))
    /\ \A k \in DOMAIN answered :
          /\ ip_key_eql(ip_key(answered[k]), k)
          /\ LET at == Found(items, extra, buckets, k)
             IN  buckets.slot[at] # NoBucket /\ buckets.slot[at].item = answered[k] + 1
=============================================================================
