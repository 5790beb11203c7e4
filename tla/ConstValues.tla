---------------------------- MODULE ConstValues ----------------------------
(***************************************************************************)
(* Compile-time values and the folds over them (infer.c 2229-2564, eval.c  *)
(* 116-151, tv_inspect.c, layout.c 19-67).  An integer value is a word of  *)
(* WORD bits, read as signed, and the type it was interned with; the word  *)
(* is 64 bits in the code.  Floating point values are not folded here:     *)
(* they are NoValue.                                                       *)
(***************************************************************************)
EXTENDS Integers, FiniteSets, Bitwise

CONSTANTS WORD    \* bits of an interned integer

ASSUME WordAssumption == WORD \in 2 .. 16

\* Types that carry values.
Simple(tag)     == [tag |-> tag]
NoType          == Simple("none")
ErrorType       == Simple("error")
NoReturn        == Simple("noreturn")
Nil             == Simple("nil")
Void            == Simple("void")
Bool            == Simple("bool")
TypeType        == Simple("type")
ComptimeInt     == Simple("comptime_int")
ComptimeFloat   == Simple("comptime_float")
Float           == Simple("float")
IntType(signed, n) == [tag |-> "int", signed |-> signed, bits |-> n]
USize           == IntType(FALSE, WORD)

is_concrete_int(t) == t.tag = "int"
is_unsigned_int(t) == t.tag = "int" /\ ~t.signed
is_signed_int(t)   == t.tag = "int" /\ t.signed
is_integer(t)      == t.tag \in {"int", "comptime_int"}
is_numeric(t)      == t.tag \in {"int", "float", "comptime_int", "comptime_float"}

NoValue           == [tag |-> "none"]
ErrorValue        == [tag |-> "error"]
BoolValue(b)      == [tag |-> "bool", val |-> b]
IntValue(t, word) == [tag |-> "int", type |-> t, word |-> word]
FnValue(f)        == [tag |-> "fn", def |-> f]
EnumVariantValue(e, i) == [tag |-> "variant", enum |-> e, idx |-> i]

Typed(t, v) == [type |-> t, value |-> v]
TvNone      == Typed(NoType, NoValue)
TvError     == Typed(ErrorType, ErrorValue)

Unsigned(word) == word % 2^WORD
Signed(n)      == LET u == n % 2^WORD IN IF u >= 2^(WORD - 1) THEN u - 2^WORD ELSE u
INT_MIN        == -(2^(WORD - 1))
INT_MAX        == 2^(WORD - 1) - 1

\* A literal is parsed as an unsigned word and kept as a signed one.
Literal(n) == Typed(ComptimeInt, IntValue(ComptimeInt, Signed(n)))

\* Variant: the largest number is one too large.
int_fits_signed_inclusive(word, bits) == word \in -(2^(bits - 1)) .. 2^(bits - 1)

int_fits_signed(word, bits)   == word \in -(2^(bits - 1)) .. 2^(bits - 1) - 1
int_fits_unsigned(word, bits) == word >= 0 /\ word < 2^bits

tv_fits_in(v, target) ==
    CASE v.tag = "int" ->
           \/ target = ComptimeInt
           \/ /\ is_unsigned_int(v.type) /\ is_unsigned_int(target)
              /\ Unsigned(v.word) < 2^target.bits
           \/ /\ is_signed_int(target)
              /\ int_fits_signed(v.word, target.bits)
           \/ /\ ~is_unsigned_int(v.type) /\ is_unsigned_int(target)
              /\ int_fits_unsigned(v.word, target.bits)
      [] v.tag = "bool" -> target = Bool
      [] OTHER -> FALSE

\* The type both operands take; NoType when there is none.
unify_arith(a, b) ==
    LET takes(x, y) ==
          \/ x = ComptimeInt /\ y.tag \in {"int", "float", "comptime_float"}
          \/ x = ComptimeFloat /\ y = Float
    IN  IF NoType \in {a, b} THEN NoType
        ELSE IF a = b \/ takes(b, a) THEN a
        ELSE IF takes(a, b) THEN b ELSE NoType

peer_unify(a, b) ==
    IF a = NoReturn THEN b
    ELSE IF b = NoReturn THEN a
    ELSE IF ErrorType \in {a, b} THEN ErrorType
    ELSE unify_arith(a, b)

-----------------------------------------------------------------------------
(* Folds.                                                                  *)

\* C's truncating division.
Quotient(l, r)  == LET q(a, b) == IF a >= 0 THEN a \div b ELSE -((-a) \div b)
                   IN  IF r > 0 THEN q(l, r) ELSE -q(l, -r)
Remainder(l, r) == l - r * Quotient(l, r)

ArithOps == {"+", "-", "*", "/", "%"}
BitOps   == {"&", "|", "^", "<<", ">>"}
Orders   == {"<", "<=", ">", ">="}

Exactly(op, l, r) ==
    CASE op = "+" -> l + r
      [] op = "-" -> l - r
      [] op = "*" -> l * r
      [] op = "/" -> Quotient(l, r)
      [] op = "%" -> Remainder(l, r)

\* A result outside the word of its signedness is no value.
tv_arith_fold(op, lv, rv, rty) ==
    LET uns == is_unsigned_int(rty)
        l == IF uns THEN Unsigned(lv.word) ELSE lv.word
        r == IF uns THEN Unsigned(rv.word) ELSE rv.word
    IN  IF \/ ~(lv.tag = "int" /\ rv.tag = "int") \/ op \notin ArithOps   \* op may be "**"
           \/ op \in {"/", "%"} /\ r = 0
        THEN NoValue
        ELSE LET n == Exactly(op, l, r)
             IN  IF n \in (IF uns THEN 0 .. 2^WORD - 1 ELSE INT_MIN .. INT_MAX)
                 THEN IntValue(rty, Signed(n)) ELSE NoValue

tv_bitop_fold(op, lv, rv, rty) ==
    LET l == Unsigned(lv.word)
        r == Unsigned(rv.word)
    IN  IF ~(lv.tag = "int" /\ rv.tag = "int") THEN NoValue
        ELSE CASE op = "&" -> IntValue(rty, Signed(l & r))
               [] op = "|" -> IntValue(rty, Signed(l | r))
               [] op = "^" -> IntValue(rty, Signed(l ^^ r))
               [] op \in {"<<", ">>"} /\ rv.word \notin 0 .. WORD - 1 -> NoValue
               [] op = "<<" /\ rv.word \in 0 .. WORD - 1 -> IntValue(rty, Signed(l * 2^rv.word))
               [] op = ">>" /\ rv.word \in 0 .. WORD - 1 ->
                    IntValue(rty, IF is_unsigned_int(rty) THEN Signed(l \div 2^rv.word)
                                  ELSE lv.word \div 2^rv.word)

tv_prefix_neg(v)  == IF v.tag = "int" /\ v.word # INT_MIN THEN IntValue(v.type, -v.word) ELSE NoValue
tv_prefix_comp(v) == IF v.tag = "int" THEN IntValue(v.type, -v.word - 1) ELSE NoValue
tv_prefix_not(v)  == IF v.tag = "bool" THEN BoolValue(~v.val) ELSE NoValue

\* Equality forgets the type an integer was interned with.
tv_value_semantic_eq(a, b) ==
    /\ a.tag \notin {"none", "error"} /\ a.tag = b.tag
    /\ IF a.tag = "int" THEN a.word = b.word ELSE a = b

Ordered(op, l, r) ==
    CASE op = "<" -> l < r [] op = "<=" -> l <= r [] op = ">" -> l > r [] op = ">=" -> l >= r

\* Unsigned when either operand is.
tv_int_compare(op, l, r) ==
    IF ~(l.tag = "int" /\ r.tag = "int") THEN NoValue
    ELSE IF is_unsigned_int(l.type) \/ is_unsigned_int(r.type)
    THEN BoolValue(Ordered(op, Unsigned(l.word), Unsigned(r.word)))
    ELSE BoolValue(Ordered(op, l.word, r.word))

tv_value_in_range(v, lo, hi, inclusive) ==
    /\ v.tag = "int" /\ lo.tag = "int" /\ hi.tag = "int"
    /\ v.word >= lo.word
    /\ IF inclusive THEN v.word <= hi.word ELSE v.word < hi.word

-----------------------------------------------------------------------------
(* Binary operators on typed values.                                       *)

Pointer(t) == t.tag = "many"

binop_arith(op, l, r) ==
    LET u == unify_arith(l.type, r.type)
    IN  IF Pointer(l.type) /\ is_integer(r.type) /\ op \in {"+", "-"} THEN Typed(l.type, NoValue)
        ELSE IF Pointer(r.type) /\ is_integer(l.type) /\ op = "+" THEN Typed(r.type, NoValue)
        ELSE IF Pointer(l.type) /\ Pointer(r.type) /\ op = "-"
        THEN IF l.type = r.type THEN Typed(USize, NoValue) ELSE TvError
        ELSE IF ~is_numeric(u) THEN TvError
        ELSE Typed(u, tv_arith_fold(op, l.value, r.value, u))

binop_compare(op, l, r) ==
    LET known == {l.value.tag, r.value.tag} \cap {"none", "error"} = {}
        equal == tv_value_semantic_eq(l.value, r.value)
        nilTest(a, b) == a = Nil /\ b.tag = "optional"
    IN  IF l.type = r.type /\ l.type.tag \in {"ptr", "many"} /\ op \in {"==", "!="}
        THEN Typed(Bool, NoValue)
        ELSE IF op \in {"==", "!="} /\ (nilTest(l.type, r.type) \/ nilTest(r.type, l.type))
        THEN Typed(Bool, NoValue)
        ELSE IF l.type # r.type /\ unify_arith(l.type, r.type) = NoType THEN TvError
        ELSE Typed(Bool, IF ~known THEN NoValue
                         ELSE IF op = "==" THEN BoolValue(equal)
                         ELSE IF op = "!=" THEN BoolValue(~equal)
                         ELSE tv_int_compare(op, l.value, r.value))

binop_logical(op, l, r) ==
    LET lb == l.value.tag = "bool" /\ l.value.val = (op = "||")   \* decides by itself
    IN  IF l.type # Bool \/ r.type # Bool THEN TvError
        ELSE Typed(Bool,
               IF lb THEN BoolValue(op = "||")
               ELSE IF l.value.tag = "bool" /\ r.value.tag = "bool" THEN r.value ELSE NoValue)

binop_bitop(op, l, r) ==
    LET u == unify_arith(l.type, r.type)
    IN  IF u = NoType \/ ~is_integer(l.type) \/ ~is_integer(r.type) THEN TvError
        ELSE Typed(u, tv_bitop_fold(op, l.value, r.value, u))

binop_orelse(l) == IF l.type.tag = "optional" THEN Typed(l.type.elem, NoValue) ELSE TvError
=============================================================================
