------------------------------ MODULE Coercion ------------------------------
(***************************************************************************)
(* Types and coercion (coerce.c): what may be used where another type is   *)
(* expected, and the type variables a generic call binds on the way.  The  *)
(* machine follows one value through a body: folded, annotated with wider  *)
(* types, passed to a generic function.                                    *)
(***************************************************************************)
EXTENDS ConstValues, Sequences, SequencesExt

CONSTANTS Sources,     \* the typed values a body starts from
          Operands,    \* the literals it is combined with
          Annotations, \* the types bindings and parameters are declared with
          Signatures,  \* functions with comptime parameters; their type variables are 1, 2, ...
          ArgTypes,    \* the types of the arguments besides the value
          Aggregates,  \* DefId -> [union, fields]: struct and union types
          LAYOUT_CYCLE_STACK_MAX,
          MaxTypeVars, \* bound on the type variables of one body
          MaxMoves     \* bound on the operations of one body

VARIABLES held,          \* the value: type and, when folded, value
          number,        \* the integer it stands for; Unspecified when none is promised
          origin,        \* the type it had before its annotations
          type_subst,    \* bindings, by type variable; NoType when unbound
          next_type_var,
          call,          \* the call being checked: its signature, the arguments so far
          moves

flowVars == <<held, number, origin, type_subst, next_type_var, call, moves>>

Ptr(const, elem)   == [tag |-> "ptr", const |-> const, elem |-> elem]
Slice(const, elem) == [tag |-> "slice", const |-> const, elem |-> elem]
Many(const, elem)  == [tag |-> "many", const |-> const, elem |-> elem]
Array(n, elem)     == [tag |-> "array", size |-> n, elem |-> elem]
Optional(elem)     == [tag |-> "optional", elem |-> elem]
FnBits(params, ret, row, comptime, typevalued) ==
    [tag |-> "fn", params |-> params, ret |-> ret, row |-> row, modifiers |-> 0,
     comptime |-> comptime, typevalued |-> typevalued]
Fn(params, ret, row) == FnBits(params, ret, row, {}, {})
TypeVar(id)        == [tag |-> "var", id |-> id]
Aggregate(def)     == [tag |-> "struct", def |-> def]
Byte               == IntType(FALSE, WORD \div 2)   \* the narrow unsigned type, for u8
StringSlice        == Slice(TRUE, Byte)
StrValue(n)        == [tag |-> "str", len |-> n]    \* a string literal of n bytes

HasElem(t) == t.tag \in {"ptr", "slice", "many", "array", "optional"}

type_resolve(s, t) ==
    LET at[n \in 0 .. MaxTypeVars] ==
          IF n = 0 THEN t
          ELSE LET u == at[n - 1]
               IN  IF u.tag = "var" /\ s[u.id] # NoType THEN s[u.id] ELSE u
    IN  at[MaxTypeVars]

RECURSIVE apply_type_subst(_, _)
apply_type_subst(s, x) ==
    LET t == type_resolve(s, x)
    IN  IF HasElem(t) THEN [t EXCEPT !.elem = apply_type_subst(s, t.elem)]
        ELSE IF t.tag = "fn"
        THEN [t EXCEPT !.ret = apply_type_subst(s, t.ret),
                       !.params = [i \in DOMAIN t.params |-> apply_type_subst(s, t.params[i])]]
        ELSE t

RECURSIVE TypeVarsOf(_)
TypeVarsOf(t) ==
    IF t.tag = "var" THEN {t.id}
    ELSE IF HasElem(t) THEN TypeVarsOf(t.elem)
    ELSE IF t.tag = "fn" THEN TypeVarsOf(t.ret) \cup UNION {TypeVarsOf(t.params[i]) : i \in DOMAIN t.params}
    ELSE {}

sig_has_unbound_hole(s, t) == TypeVarsOf(apply_type_subst(s, t)) # {}

ground_unbound_type_vars(s, t) ==
    [v \in DOMAIN s |-> IF v \in TypeVarsOf(apply_type_subst(s, t)) THEN ErrorType ELSE s[v]]

\* A type with its variables renamed: the same one to the same fresh one.
RECURSIVE instantiate_type(_, _)
instantiate_type(t, next) ==
    IF t.tag = "var" THEN TypeVar(next + t.id)
    ELSE IF HasElem(t) THEN [t EXCEPT !.elem = instantiate_type(t.elem, next)]
    ELSE IF t.tag = "fn"
    THEN [t EXCEPT !.ret = instantiate_type(t.ret, next),
                   !.params = [i \in DOMAIN t.params |-> instantiate_type(t.params[i], next)]]
    ELSE t

-----------------------------------------------------------------------------
(* Layout (layout.c 82-229): sizes in bytes, eight bits to a byte.         *)

Unknown == [known |-> FALSE, size |-> 0, align |-> 0]
Laid(size, align) == [known |-> TRUE, size |-> size, align |-> align]
WordBytes == 8
AlignTo(n, a) == ((n + a - 1) \div a) * a
primitive_layout(t) ==
    CASE t = Bool -> Laid(1, 1)
      [] t.tag = "int" -> Laid(IF t.bits = WORD THEN WordBytes ELSE 1, IF t.bits = WORD THEN WordBytes ELSE 1)
      [] t = Float -> Laid(WordBytes, WordBytes)
      [] OTHER -> Unknown

RECURSIVE layout_recurse(_, _)
layout_recurse(t, cycle) ==
    CASE t.tag \in {"ptr", "many", "fn"} -> Laid(WordBytes, WordBytes)
      [] t.tag = "slice" -> Laid(2 * WordBytes, WordBytes)
      [] t.tag = "array" ->
           LET e == layout_recurse(t.elem, cycle)
           IN  IF e.known THEN Laid(e.size * t.size, e.align) ELSE Unknown
      [] t.tag = "optional" ->
           LET e == layout_recurse(t.elem, cycle)
           IN  IF e.known THEN Laid(AlignTo(e.size + 1, e.align), e.align) ELSE Unknown
      [] t.tag = "struct" ->
           LET agg == Aggregates[t.def]
               n == Len(agg.fields)
               laid == [i \in 1 .. n |-> layout_recurse(agg.fields[i], cycle \cup {t.def})]
               align == Max({1} \cup {laid[i].align : i \in 1 .. n})
               end[i \in 0 .. n] == IF i = 0 THEN 0 ELSE AlignTo(end[i - 1], laid[i].align) + laid[i].size
               size == IF agg.union THEN Max({0} \cup {laid[i].size : i \in 1 .. n}) ELSE end[n]
           IN  IF \/ t.def \in cycle \/ Cardinality(cycle) >= LAYOUT_CYCLE_STACK_MAX
                  \/ \E i \in 1 .. n : ~laid[i].known
               THEN Unknown
               ELSE Laid(AlignTo(size, align), align)
      [] t.tag = "enum" -> Laid(WordBytes \div 2, WordBytes \div 2)
      [] OTHER -> primitive_layout(t)

db_layout_of_type(t) == layout_recurse(t, {})

-----------------------------------------------------------------------------
(* coerce_structural_ctx, one definition per rule.                         *)

Answer(ok, s) == [ok |-> ok, subst |-> s]

AddsConst(a, e) ==
    /\ a.tag = e.tag /\ a.tag \in {"ptr", "slice", "many"}
    /\ a.elem = e.elem /\ (a.const => e.const)
ArrayDecays(a, e) ==
    /\ a.tag = "ptr" /\ a.elem.tag = "array" /\ e.tag \in {"slice", "many"}
    /\ a.elem.elem = e.elem /\ (a.const => e.const)
LiteralTakes(a, e) ==
    \/ a = ComptimeInt /\ e.tag \in {"int", "float", "comptime_float"}
    \/ a = ComptimeFloat /\ e.tag = "float"
\* Variant: only the sizes are compared.
WidensAnySign(a, e) == is_concrete_int(a) /\ is_concrete_int(e) /\ e.bits > a.bits

Widens(a, e) ==
    /\ is_concrete_int(a) /\ is_concrete_int(e) /\ e.bits > a.bits
    /\ a.signed => e.signed
RowFits(a, e) == a.row = e.row \/ a.row = {}      \* closed rows; open ones: EffectRows

BindVar(s, a, e) ==
    IF a = e THEN Answer(TRUE, s)
    ELSE IF e.tag = "var" THEN Answer(TRUE, [s EXCEPT ![e.id] = a])
    ELSE Answer(TRUE, [s EXCEPT ![a.id] = e])

RECURSIVE coerce_structural(_, _, _)
\* Return types first, then the parameters the other way around.
CoerceFn(s, a, e) ==
    LET ret == coerce_structural(s, a.ret, e.ret)
        param(acc, i) == IF acc.ok THEN coerce_structural(acc.subst, e.params[i], a.params[i]) ELSE acc
        all == FoldLeft(param, ret, [i \in DOMAIN a.params |-> i])
    IN  IF Len(a.params) # Len(e.params) \/ a.modifiers # e.modifiers THEN Answer(FALSE, s)
        ELSE Answer(all.ok /\ RowFits(a, e), all.subst)

coerce_structural(s, a, e) ==
    LET ra == type_resolve(s, a)
        re == type_resolve(s, e)
    IN  IF NoType \in {a, e} \/ ErrorType \in {a, e} \/ a = e \/ a = NoReturn THEN Answer(TRUE, s)
        ELSE IF "var" \in {ra.tag, re.tag} THEN BindVar(s, ra, re)
        ELSE IF ra # a \/ re # e THEN coerce_structural(s, ra, re)
        ELSE IF AddsConst(a, e) \/ ArrayDecays(a, e) \/ LiteralTakes(a, e) \/ Widens(a, e)
        THEN Answer(TRUE, s)
        ELSE IF e.tag = "optional"
        THEN IF a = Nil THEN Answer(TRUE, s) ELSE coerce_structural(s, a, e.elem)
        ELSE IF a.tag = "fn" /\ e.tag = "fn" THEN CoerceFn(s, a, e)
        ELSE Answer(FALSE, s)

RECURSIVE unwrap_optional_chain(_)
unwrap_optional_chain(t) == IF t.tag = "optional" THEN unwrap_optional_chain(t.elem) ELSE t

\* A string literal, as such, fills a buffer it is not too long for.
FillsBuffer(tv, e) ==
    tv.value.tag = "str" /\ tv.type = StringSlice /\ e.tag = "array" /\ e.elem = Byte

\* With the value at hand: a literal is checked against the range of its
\* target, and an integer constant may narrow when it fits.
coerce(s, tv, e) ==
    LET answer == coerce_structural(s, tv.type, e)
        target == unwrap_optional_chain(e)
        valued == tv.value.tag \notin {"none", "error"}
        literal == tv.type \in {ComptimeInt, ComptimeFloat} /\ target.tag \in {"int", "float"}
    IN  IF FillsBuffer(tv, e) THEN Answer(tv.value.len <= e.size, s)
        ELSE IF answer.ok
        THEN Answer(literal /\ valued => tv_fits_in(tv.value, target), answer.subst)
        ELSE Answer(/\ is_concrete_int(tv.type) /\ is_concrete_int(target)
                    /\ tv.value.tag = "int" /\ tv_fits_in(tv.value, target), answer.subst)

-----------------------------------------------------------------------------
(* One value of a body.                                                    *)

Unspecified == 2^(3 * WORD)      \* no product of two words
NoCall == [fn |-> NoType, generic |-> FALSE, args |-> <<>>, recorded |-> <<>>, ok |-> {}]
Moving == moves < MaxMoves /\ moves' = moves + 1
ReadAs(v, t) == IF is_unsigned_int(t) THEN Unsigned(v.word) ELSE v.word
InType(n, t) ==
    is_concrete_int(t) =>
        n \in (IF t.signed THEN -(2^(t.bits - 1)) .. 2^(t.bits - 1) - 1 ELSE 0 .. 2^t.bits - 1)

FlowInit ==
    /\ held \in Sources
    /\ number = IF held.value.tag = "int" THEN ReadAs(held.value, held.type) ELSE Unspecified
    /\ origin = held.type
    /\ type_subst = [v \in 1 .. MaxTypeVars |-> NoType]
    /\ next_type_var = 0
    /\ call = NoCall
    /\ moves = 0

\* The value and a literal.  The code folds in whole words: nothing is promised
\* when an operand, or the result, is no number of the type they take.
Fold(op, n, swapped) ==
    LET lit == Literal(n)
        l == IF swapped THEN lit ELSE held
        r == IF swapped THEN held ELSE lit
        u == unify_arith(l.type, r.type)
        ln == IF swapped THEN lit.value.word ELSE number
        rn == IF swapped THEN number ELSE lit.value.word
    IN  /\ call = NoCall /\ is_numeric(held.type) /\ Moving
        /\ held' = IF op \in ArithOps THEN binop_arith(op, l, r) ELSE binop_bitop(op, l, r)
        /\ number' = IF \/ held.value.tag # "int" \/ number = Unspecified \/ op \in BitOps
                        \/ op \in {"/", "%"} /\ rn = 0
                        \/ ~(InType(ln, u) /\ InType(rn, u) /\ InType(Exactly(op, ln, rn), u))
                     THEN Unspecified ELSE Exactly(op, ln, rn)
        /\ origin' = held'.type
        /\ UNCHANGED <<type_subst, next_type_var, call>>

\* Nothing is promised of the negation of an unsigned value.
Negate ==
    /\ call = NoCall /\ is_numeric(held.type) /\ Moving
    /\ held' = [held EXCEPT !.value = tv_prefix_neg(held.value)]
    /\ number' = IF \/ number = Unspecified \/ held.value.tag # "int"
                    \/ is_unsigned_int(held.value.type) \/ ~InType(-number, held.type)
                 THEN Unspecified ELSE -number
    /\ origin' = held.type
    /\ UNCHANGED <<type_subst, next_type_var, call>>

\* `y : t : x`: the annotation is the type from here on, and y is no literal.
\* An unsigned number above the largest signed one is taken for a negative one
\* (int_fits_signed accepts every word): nothing is promised after that.
Annotate(t) ==
    LET answer == coerce(type_subst, held, t)
        signedAgain == /\ is_signed_int(unwrap_optional_chain(t)) /\ held.value.tag = "int"
                       /\ is_unsigned_int(held.value.type) /\ held.value.word < 0
    IN  /\ call = NoCall /\ Moving
        /\ answer.ok
        /\ held' = Typed(t, IF held.value.tag = "str" THEN NoValue ELSE held.value)
        /\ number' = IF signedAgain THEN Unspecified ELSE number
        /\ origin' = IF FillsBuffer(held, t) THEN t ELSE origin
        /\ type_subst' = answer.subst
        /\ UNCHANGED <<next_type_var, call>>

\* A function with comptime parameters is called; the value is the argument of
\* its first parameter that is no type.
BeginCall(sig) ==
    LET fn == instantiate_type(sig, next_type_var)
    IN  /\ call = NoCall /\ next_type_var + Cardinality(TypeVarsOf(sig)) <= MaxTypeVars
        /\ Moving
        /\ call' = [NoCall EXCEPT !.fn = fn, !.generic = sig_has_unbound_hole(type_subst, fn)]
        /\ next_type_var' = next_type_var + Cardinality(TypeVarsOf(sig))
        /\ UNCHANGED <<held, number, origin, type_subst>>

NextParam == Len(call.args) + 1
Argument(t) ==
    IF 1 .. NextParam - 1 \subseteq call.fn.typevalued THEN held ELSE Typed(t, NoValue)

\* A comptime parameter: the argument is not coerced.  A hole takes the type
\* the argument is (`t: type`) or the type it has (`anytype`), unless it is
\* bound already.
PassComptime(t) ==
    LET i == NextParam
        param == call.fn.params[i]
        target == IF i \in call.fn.typevalued THEN t ELSE Argument(t).type
    IN  /\ call # NoCall /\ i <= Len(call.fn.params) /\ i \in call.fn.comptime
        /\ type_subst' =
             IF /\ target \notin {NoType, ErrorType} /\ param.tag = "var"
                /\ type_resolve(type_subst, param) = param
             THEN [type_subst EXCEPT ![param.id] = target] ELSE type_subst
        /\ call' = [call EXCEPT !.args = Append(@, target), !.recorded = Append(@, target)]
        /\ UNCHANGED <<held, number, origin, next_type_var, moves>>

\* Every other parameter: check_expr coerces the argument, and records the
\* parameter's type for a compile-time number.
PassArg(t) ==
    LET i == NextParam
        arg == Argument(t)
        param == call.fn.params[i]
        answer == coerce(type_subst, arg, param)
        restamped == /\ answer.ok /\ arg.type \in {ComptimeInt, ComptimeFloat}
                     /\ param \notin {ComptimeInt, ComptimeFloat}
    IN  /\ call # NoCall /\ i <= Len(call.fn.params) /\ i \notin call.fn.comptime
        /\ type_subst' = answer.subst
        /\ call' = [call EXCEPT !.args = Append(@, arg.type),
                                !.recorded = Append(@, IF restamped THEN param ELSE arg.type),
                                !.ok = IF answer.ok /\ arg.value.tag = "none" THEN @ \cup {i} ELSE @]
        /\ UNCHANGED <<held, number, origin, next_type_var, moves>>

\* The key of the instance a generic call asks for, and the result type
\* db_query_infer_instance gives it: in a frame of its own each hole takes the
\* first argument, and what is left of the result's holes is an error.
KeyArgs == [i \in DOMAIN call.recorded |->
              IF call.fn.params[i].tag = "var" THEN apply_type_subst(type_subst, call.recorded[i])
              ELSE call.fn.params[i]]
AllConcrete ==
    \A i \in DOMAIN KeyArgs :
        call.fn.params[i].tag = "var" =>
            KeyArgs[i] \notin {NoType, ErrorType} /\ ~sig_has_unbound_hole(type_subst, KeyArgs[i])
db_query_infer_instance(fn, inst_args) ==
    LET bind(s, i) ==
          IF fn.params[i].tag = "var" /\ type_resolve(s, fn.params[i]) = fn.params[i]
          THEN [s EXCEPT ![fn.params[i].id] = inst_args[i]] ELSE s
        bound == FoldLeft(bind, [v \in 1 .. MaxTypeVars |-> NoType], [i \in DOMAIN inst_args |-> i])
    IN  apply_type_subst(ground_unbound_type_vars(bound, fn.ret), fn.ret)

\* The result of the call: the instance's; an error when instances are nested
\* too deep; the declared one under the bindings when there is no instance to
\* ask for or it is not available (it is running, or has no body of its own).
\* How deep and whether available is decided outside this state.
AllPassed == call # NoCall /\ Len(call.args) = Len(call.fn.params)
EndCall(result) ==
    /\ AllPassed
    /\ held' = Typed(result, NoValue)
    /\ number' = Unspecified
    /\ origin' = result
    /\ call' = NoCall
    /\ UNCHANGED <<type_subst, next_type_var, moves>>
EndInstance ==
    AllPassed /\ call.generic /\ AllConcrete /\ EndCall(db_query_infer_instance(call.fn, KeyArgs))
EndTooDeep == AllPassed /\ call.generic /\ EndCall(ErrorType)
EndDeclared == AllPassed /\ EndCall(apply_type_subst(type_subst, call.fn.ret))

FlowNext ==
    \/ \E op \in ArithOps \cup BitOps, n \in Operands, swapped \in BOOLEAN : Fold(op, n, swapped)
    \/ Negate
    \/ \E t \in Annotations : Annotate(t)
    \/ \E sig \in Signatures : BeginCall(sig)
    \/ \E t \in ArgTypes \cup {ErrorType} : PassComptime(t)
    \/ \E t \in ArgTypes : PassArg(t)
    \/ EndInstance
    \/ EndTooDeep
    \/ EndDeclared

-----------------------------------------------------------------------------
(* Properties.                                                             *)

\* A constant fold gives the exact number or nothing, through any chain of
\* operations whose operands belong to the type they take: 64-bit overflow,
\* division by zero and INT64_MIN / -1 never show as a value.
FoldIsExact ==
    number # Unspecified /\ held.value.tag = "int" =>
        ReadAs(held.value, unwrap_optional_chain(held.type)) = number

\* A literal expression accepted for an integer type, directly or inside
\* optionals, is a number of that type.
LiteralFits ==
    LET t == unwrap_optional_chain(held.type)
    IN  /\ number # Unspecified /\ held.value.tag = "int"
        /\ held.value.type = ComptimeInt /\ is_concrete_int(t)
        => InType(number, t)

\* Whatever types a value was annotated with on the way, its first type is
\* accepted where the last one is: coercion composes, so that naming an
\* intermediate value never makes a program acceptable.
CoercionComposes ==
    held.value = NoValue /\ ErrorType \notin {held.type, origin} =>
        coerce_structural(type_subst, origin, held.type).ok

\* No chain of annotations makes what is behind a const pointer writable, or
\* an integer lose values.
Reached(t) == IF t.tag = "optional" THEN unwrap_optional_chain(t) ELSE t
NoCapabilityGained ==
    LET from == Reached(origin)
        to == Reached(held.type)
    IN  /\ from.tag \in {"ptr", "slice", "many"} /\ to.tag \in {"ptr", "slice", "many"} =>
             (from.const => to.const)
        /\ is_concrete_int(from) /\ is_concrete_int(to) /\ held.value = NoValue =>
             /\ from.bits <= to.bits
             /\ to.signed = from.signed \/ (to.signed /\ from.bits < to.bits)

\* The variables a generic call binds fit every argument that was coerced and
\* accepted, also those checked before the binding was made: with the variables
\* replaced each is accepted again.  (A constant is left out: it is not compared
\* with the range of the type a variable stands for.)
CallFits ==
    \A i \in call.ok :
        coerce_structural(type_subst, apply_type_subst(type_subst, call.args[i]),
                          apply_type_subst(type_subst, call.fn.params[i])).ok

\* A generic call has the same type whether its instance is available or not:
\* what the instance works out from the key alone, first argument first, is the
\* declared result under the bindings the arguments made one after another.
InstanceAgrees ==
    AllPassed /\ call.generic /\ AllConcrete =>
        db_query_infer_instance(call.fn, KeyArgs) = apply_type_subst(type_subst, call.fn.ret)

\* A compile-time number is the exact one and belongs to the type it is accepted
\* for, or nothing is promised of it (tv_arith_fold, tv_fits_in).
ConstantsAreExact == FoldIsExact /\ LiteralFits

\* What coercion accepts it accepts whole, without giving anything away, and for
\* every argument of a call alike, whose result it fixes (coerce_structural_ctx,
\* the call case of type_of_expr).
CoercionIsSafe == CoercionComposes /\ NoCapabilityGained /\ CallFits /\ InstanceAgrees
=============================================================================
