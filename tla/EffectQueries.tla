--------------------------- MODULE EffectQueries ---------------------------
(***************************************************************************)
(* The bodies of the queries that infer effect rows: which query each one  *)
(* reads next and the row it returns.  The text of a function is the set   *)
(* of labels it performs itself and its calls, in the order of the walk;   *)
(* it stands for TOP_LEVEL_ENTRY and the tree behind it.  The shapes of    *)
(* all signatures are one input that no edit of a body changes.            *)
(***************************************************************************)
EXTENDS SccFixpoint

Sig(f)    == <<"sig", f>>
Bod(f)    == <<"body", f>>
TextOf(f) == <<"text", f>>
Shape     == <<"shape", "all">>

Row(labels)       == [row |-> labels]
Fn(labels, calls) == [own |-> labels, calls |-> calls]
IsText(v)         == "own" \in DOMAIN v
NoRow             == Row({})

Read(d)   == [op |-> "read", q |-> d, val |-> Bottom]
Return(v) == [op |-> "return", q |-> None, val |-> v]

\* FN_SIGNATURE of a function without an effect annotation: the shape, then
\* the row of the body.
SignatureBody(f, vs) ==
    CASE Len(vs) = 0 -> Read(Shape)
      [] Len(vs) = 1 -> Read(Bod(f))
      [] OTHER       -> Return(vs[2])

\* row_union over the call sites, closed and deduplicated at the end.
RowUnion(vs) == UNION {IF IsText(vs[k]) THEN {} ELSE vs[k].row :
                         k \in DOMAIN vs}

\* INFER_BODY: the text, then the signature of each function called.  Without a
\* text the row is empty.
InferBody(f, vs) ==
    IF Len(vs) = 0 THEN Read(TextOf(f))
    ELSE IF ~IsText(vs[1]) THEN Return(NoRow)
    ELSE IF Len(vs) <= Len(vs[1].calls) THEN Read(vs[1].calls[Len(vs)])
    ELSE Return(Row(vs[1].own \cup RowUnion(vs)))

EffectBody(q, vs) ==
    IF q \in Signatures THEN SignatureBody(q[2], vs) ELSE InferBody(q[2], vs)
=============================================================================
