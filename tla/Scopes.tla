------------------------------- MODULE Scopes -------------------------------
(***************************************************************************)
(* Names inside a function body: the walk that builds the scopes           *)
(* (body_scopes.c), the lookup, the references it records, the conflicts   *)
(* and unused declarations the check reports (check.c, scope.c), and the   *)
(* map from a node to its number in the declaration (ast_id.c), through    *)
(* edits of the body and of the text before it.                            *)
(*                                                                         *)
(* A body is the sequence of its nodes in preorder.  A node has a kind, a  *)
(* parent, a role in its parent and a name; its number is its RelAstId,    *)
(* and its pointer is its kind with its place in the file.                 *)
(***************************************************************************)
EXTENDS Integers, Sequences, FiniteSets, SequencesExt, FiniteSetsExt

CONSTANTS BodyTrees,    \* the bodies the function may have
          TopNames,     \* the other declarations of the file
          Exempt,       \* of those, the public ones and the function main
          PreludeNames, \* the prelude's, seen after the file's own
          MaxEdits

VARIABLES body, start_offset, \* the function's text and where it begins
          fn_body,          \* memo of body_scopes, and the body it is of
          decl_map,         \* decl_ast_id_maps: pointer to number
          shape,            \* the body fn_signature_shape was computed for
          inferred,         \* infer_body: the binding of every reference
          references,       \* body_references: top-level names
          conflicts, unused,\* what the last check reported
          goto,             \* the last go-to-definition
          dirty,            \* a dependency of infer_body has changed
          edits

scopeVars == <<body, start_offset, fn_body, decl_map, shape, inferred, references, conflicts,
               unused, goto, dirty, edits>>

Node(kind, up, role, name) == [kind |-> kind, up |-> up, role |-> role, name |-> name]
NoBody == <<>>

Kids(b, n)       == SelectSeq([i \in DOMAIN b |-> i], LAMBDA i : b[i].up = n)
KidAs(b, n, role) == LET S == {i \in DOMAIN b : b[i].up = n /\ b[i].role = role}
                     IN  IF S = {} THEN 0 ELSE Min(S)
RECURSIVE Under(_, _, _)
Under(b, n, i)   == i # 0 /\ (i = n \/ Under(b, n, b[i].up))
Subtree(b, n)    == {i \in DOMAIN b : Under(b, n, i)}
NodePtr(b, o, n) == <<b[n].kind, o + n>>

-----------------------------------------------------------------------------
(* body_scopes: walk.                                                      *)

BODY_SCOPE_NONE == 0
Visit(n, scope)     == [do |-> "visit", node |-> n, scope |-> scope]
VisitAll(ns, scope) == [i \in DOMAIN ns |-> Visit(ns[i], scope)]
Binding(scope, x, n) == [scope |-> scope, name |-> x, rel |-> n]
Plan(rows, binds, next) == [rows |-> rows, binds |-> binds, next |-> next]

\* The parameters a lambda or clause binds in its scope.
ParamBinds(b, n, scope) ==
    LET plist == KidAs(b, n, "params")
        params == IF plist = 0 THEN <<>> ELSE SelectSeq(Kids(b, plist), LAMBDA i : b[i].kind = "param")
    IN  [i \in DOMAIN params |-> Binding(scope, b[params[i]].name, params[i])]
BodyOnly(b, n, scope) == LET k == KidAs(b, n, "body") IN IF k = 0 THEN <<>> ELSE <<Visit(k, scope)>>

PlanBind(b, n, scope) ==     \* the binding comes after its initialiser
    Plan(<<>>, <<>>, VisitAll(Kids(b, n), scope) \o
                     <<[do |-> "bind", bind |-> Binding(scope, b[n].name, n)]>>)

PlanIf(b, n, scope, new) ==
    LET capture == KidAs(b, n, "capture")
        then == KidAs(b, n, "then")
        else == KidAs(b, n, "else")
        opens == capture # 0 \/ then # 0
        elseScope == IF opens THEN new + 1 ELSE new
    IN  Plan((IF opens THEN <<scope>> ELSE <<>>) \o (IF else # 0 THEN <<scope>> ELSE <<>>),
             IF capture # 0 THEN <<Binding(new, b[capture].name, capture)>> ELSE <<>>,
             [i \in DOMAIN Kids(b, n) |->
                LET k == Kids(b, n)[i]
                IN  Visit(k, IF k \in {capture, then} THEN new ELSE IF k = else THEN elseScope ELSE scope)])

\* Variant: the else branch is walked in the scope of the loop.
PlanLoopElseInside(b, n, scope, new) ==
    LET capture == KidAs(b, n, "capture")
    IN  Plan(<<scope>>,
             IF capture # 0 THEN <<Binding(new, b[capture].name, capture)>> ELSE <<>>,
             VisitAll(Kids(b, n), new))

PlanLoop(b, n, scope, new) ==
    LET capture == KidAs(b, n, "capture")
    IN  Plan(<<scope>>,
             IF capture # 0 THEN <<Binding(new, b[capture].name, capture)>> ELSE <<>>,
             [i \in DOMAIN Kids(b, n) |->
                LET k == Kids(b, n)[i] IN Visit(k, IF b[k].role = "else" THEN scope ELSE new)])

PlanReturnClause(b, n, scope, new) ==    \* only its first parameter is bound
    LET binds == ParamBinds(b, n, new)
    IN  Plan(<<scope>>, IF binds = <<>> THEN <<>> ELSE <<binds[1]>>,
             [i \in DOMAIN Kids(b, n) |->
                LET k == Kids(b, n)[i] IN Visit(k, IF b[k].role = "params" THEN scope ELSE new)])

\* Clauses and nested functions: parameter and result types are not walked.
PlanClause(b, n, scope, new) ==
    Plan(<<scope>>,
         ParamBinds(b, n, new) \o (IF b[n].kind = "ctl" THEN <<Binding(new, "resume", n)>> ELSE <<>>),
         BodyOnly(b, n, new))
PlanLambda(b, n, scope, new) == Plan(<<scope>>, ParamBinds(b, n, new), BodyOnly(b, n, new))

\* `with x := f(args)`: the rest of the block is the continuation, its last argument.
PlanWith(b, n, scope, new) ==
    LET args == KidAs(b, n, "args")
        cont == KidAs(b, args, "cont")
        arg(k) == IF k = cont THEN BodyOnly(b, k, new) ELSE <<Visit(k, scope)>>
        kid(k) == IF k = args THEN FlattenSeq([i \in DOMAIN Kids(b, args) |-> arg(Kids(b, args)[i])])
                  ELSE <<Visit(k, scope)>>
    IN  Plan(<<scope>>, LET p == ParamBinds(b, cont, new) IN IF p = <<>> THEN <<>> ELSE <<p[1]>>,
             FlattenSeq([i \in DOMAIN Kids(b, n) |-> kid(Kids(b, n)[i])]))

PlanFor(b, n, scope, new) ==
    CASE b[n].kind \in {"block", "arm"} -> Plan(<<scope>>, <<>>, VisitAll(Kids(b, n), new))
      [] b[n].kind = "bind" -> PlanBind(b, n, scope)
      [] b[n].kind = "if" -> PlanIf(b, n, scope, new)
      [] b[n].kind = "loop" -> PlanLoop(b, n, scope, new)
      [] b[n].kind = "return_clause" -> PlanReturnClause(b, n, scope, new)
      [] b[n].kind \in {"ctl", "op"} -> PlanClause(b, n, scope, new)
      [] b[n].kind = "lambda" -> PlanLambda(b, n, scope, new)
      [] b[n].kind = "with" -> PlanWith(b, n, scope, new)
      [] OTHER -> Plan(<<>>, <<>>, VisitAll(Kids(b, n), scope))

RECURSIVE walk(_, _, _)
walk(b, acc, todo) ==
    IF todo = <<>> THEN acc
    ELSE LET t == Head(todo)
         IN  IF t.do = "bind" THEN walk(b, [acc EXCEPT !.binds = Append(@, t.bind)], Tail(todo))
             ELSE LET p == PlanFor(b, t.node, t.scope, Len(acc.rows) + 1)
                  IN  walk(b, [acc EXCEPT !.rows = @ \o p.rows, !.binds = @ \o p.binds,
                                          !.scope_map = @ \cup {<<t.node, t.scope>>}],
                           p.next \o Tail(todo))

\* db_query_body_scopes: node 1 is the declaration, node 2 its function.  The
\* function's own parameters, result type and body are in its root scope.
Scoped(b) ==
    LET plist == KidAs(b, 2, "params")
        params == IF plist = 0 THEN <<>> ELSE Kids(b, plist)
        parts == params \o SelectSeq(Kids(b, 2), LAMBDA i : i # plist)
    IN  walk(b, [rows |-> <<BODY_SCOPE_NONE>>, binds |-> ParamBinds(b, 2, 1),
                 scope_map |-> {<<2, 1>>}], VisitAll(parts, 1))
body_scopes(b) == IF Len(b) > 1 /\ b[2].kind = "lambda" THEN Scoped(b)
                  ELSE [rows |-> <<>>, binds |-> <<>>, scope_map |-> {}]
Memo(b) == [of |-> b, scopes |-> body_scopes(b)]

-----------------------------------------------------------------------------
(* Lookup.                                                                 *)

\* decl_ast_id_map_walk: every node's pointer, in preorder.
decl_ast_id_map(b, o) == [p \in {NodePtr(b, o, n) : n \in DOMAIN b} |->
                            CHOOSE n \in DOMAIN b : NodePtr(b, o, n) = p]
\* decl_ast_id_resolve: the node with that number in the tree as it is now.
decl_ast_id_resolve(b, rel) == IF rel \in DOMAIN b THEN rel ELSE 0

RECURSIVE OutwardFrom(_, _, _)
OutwardFrom(scopes, scope, x) ==      \* the latest binding in the nearest scope
    LET i == SelectLastInSeq(scopes.binds, LAMBDA bd : bd.scope = scope /\ bd.name = x)
    IN  IF scope = BODY_SCOPE_NONE THEN 0
        ELSE IF i # 0 THEN scopes.binds[i].rel
        ELSE IF scope > Len(scopes.rows) THEN 0
        ELSE OutwardFrom(scopes, scopes.rows[scope], x)

db_body_scope_lookup(scopes, map, b, o, use, x) ==
    IF NodePtr(b, o, use) \notin DOMAIN map THEN 0
    ELSE LET hits == {h \in scopes.scope_map : h[1] = map[NodePtr(b, o, use)]}
         IN  IF hits = {} THEN 0
             ELSE decl_ast_id_resolve(b, OutwardFrom(scopes, (CHOOSE h \in hits : TRUE)[2], x))

Refs(b) == {n \in DOMAIN b : b[n].kind = "ref"}
LookupAll(scopes, map, b, o) ==
    [n \in Refs(b) |-> db_body_scope_lookup(scopes, map, b, o, n, b[n].name)]

\* resolve_ref: the file's names, then the prelude's; primitives are the
\* parent scope and name no declaration.
resolve_ref(x) == IF x \in TopNames THEN <<"own", x>>
                  ELSE IF x \in PreludeNames THEN <<"prelude", x>> ELSE <<"none", x>>
\* record_body_references, over the body: of a field expression only the base.
record_body_references(b, bindings) ==
    LET part == IF Len(b) > 1 THEN KidAs(b, 2, "body") ELSE 0
    IN  {resolve_ref(b[n].name) : n \in {m \in Refs(b) : /\ part # 0 /\ m \in Subtree(b, part)
                                                         /\ b[m].role # "field"
                                                         /\ bindings[m] = 0}}

\* build_fn_type resolves the types of the parameters in the file's scope.
SignatureNodes(b) ==
    LET plist == IF Len(b) > 1 THEN KidAs(b, 2, "params") ELSE 0
    IN  IF plist = 0 THEN {} ELSE Refs(b) \cap Subtree(b, plist)
signature_references(b) == {resolve_ref(b[n].name) : n \in SignatureNodes(b)}

-----------------------------------------------------------------------------
(* check.c.                                                                *)

RECURSIVE scope_is_ancestor(_, _, _)
scope_is_ancestor(rows, anc, scope) ==
    rows[scope] # BODY_SCOPE_NONE /\ (rows[scope] = anc \/ scope_is_ancestor(rows, anc, rows[scope]))

\* A binding conflicts with one pushed before it in its scope or an outer one.
emit_body_conflict_errors(scopes) ==
    {i \in DOMAIN scopes.binds :
        \E j \in 1 .. i - 1 :
            /\ scopes.binds[j].name = scopes.binds[i].name
            /\ \/ scopes.binds[j].scope = scopes.binds[i].scope
               \/ scope_is_ancestor(scopes.rows, scopes.binds[j].scope, scopes.binds[i].scope)}

emit_unused_warnings(refs) == {x \in TopNames \ Exempt : <<"own", x>> \notin refs}

\* db_check_namespace.  The signature shape is computed when the body's text
\* has changed and then writes the map; infer_body and body_references run when
\* the text or a dependency has changed and use the map as it is.
CheckNamespace ==
    LET stale == shape # body
        map == IF stale THEN decl_ast_id_map(body, start_offset) ELSE decl_map
        memo == IF fn_body.of = body THEN fn_body ELSE Memo(body)
        rerun == stale \/ dirty
        bindings == IF rerun THEN LookupAll(memo.scopes, map, body, start_offset) ELSE inferred
        refs == IF rerun THEN record_body_references(body, bindings) ELSE references
    IN  /\ shape' = body
        /\ decl_map' = map
        /\ fn_body' = memo
        /\ inferred' = bindings
        /\ references' = refs
        /\ conflicts' = emit_body_conflict_errors(memo.scopes)
        /\ unused' = emit_unused_warnings(refs \cup signature_references(body))
        /\ dirty' = FALSE
        /\ UNCHANGED <<body, start_offset, goto, edits>>

\* definition.c: no query is running, so the lookup brings the map up to date.
GotoDefinition(use) ==
    LET map == decl_ast_id_map(body, start_offset)
        memo == IF fn_body.of = body THEN fn_body ELSE Memo(body)
    IN  /\ use \in Refs(body)
        /\ decl_map' = map
        /\ fn_body' = memo
        /\ goto' = [body |-> body, use |-> use,
                    binding |-> db_body_scope_lookup(memo.scopes, map, body, start_offset, use, body[use].name)]
        /\ UNCHANGED <<body, start_offset, shape, inferred, references, conflicts, unused, dirty, edits>>

EditBody(b) ==
    /\ edits < MaxEdits /\ b # body
    /\ body' = b
    /\ edits' = edits + 1
    /\ UNCHANGED <<start_offset, fn_body, decl_map, shape, inferred, references, conflicts, unused, goto, dirty>>

\* An edit of the text before the function, which moves it; a declaration it
\* uses may be among what was edited.
EditBefore(by, used) ==
    /\ edits < MaxEdits
    /\ start_offset' = start_offset + by
    /\ dirty' = (dirty \/ used)
    /\ edits' = edits + 1
    /\ UNCHANGED <<body, fn_body, decl_map, shape, inferred, references, conflicts, unused, goto>>

ScopesInit ==
    /\ body \in BodyTrees /\ start_offset = 0
    /\ fn_body = [of |-> NoBody, scopes |-> body_scopes(NoBody)]
    /\ decl_map = <<>> /\ shape = NoBody /\ inferred = <<>> /\ references = {}
    /\ conflicts = {} /\ unused = {} /\ dirty = FALSE /\ edits = 0
    /\ goto = [body |-> NoBody, use |-> 0, binding |-> 0]

ScopesNext ==
    \/ CheckNamespace
    \/ \E use \in Refs(body) : GotoDefinition(use)
    \/ \E b \in BodyTrees : EditBody(b)
    \/ \E used \in BOOLEAN : EditBefore(1, used)

-----------------------------------------------------------------------------
(* Properties.  Reference: the part of the body a binder is visible in.    *)

Region(b, n) ==
    LET up == b[n].up
        owner == b[up].up
        last == Max(Subtree(b, n))
    IN  CASE b[n].kind = "bind" -> {i \in Subtree(b, up) : i > last}
          [] b[n].kind = "ctl" -> Subtree(b, KidAs(b, n, "body"))
          [] b[n].kind = "capture" /\ b[up].kind = "if" -> Subtree(b, KidAs(b, up, "then"))
          [] b[n].kind = "capture" -> Subtree(b, up) \ Subtree(b, KidAs(b, up, "else"))
          [] b[n].kind = "param" /\ owner = 2 -> Subtree(b, owner)
          [] b[n].kind = "param" -> Subtree(b, owner) \ Subtree(b, up)
          [] OTHER -> {}
Names(b, n) == IF b[n].kind = "ctl" THEN "resume" ELSE b[n].name
Visible(b, use) ==
    {n \in DOMAIN b : /\ b[n].kind \in {"bind", "ctl", "capture", "param"}
                      /\ Names(b, n) = b[use].name /\ use \in Region(b, n)}
\* References in the parameter list of a nested function are not resolved.
InNestedParams(b, use) ==
    \E n \in DOMAIN b : b[n].role = "params" /\ b[n].up # 2 /\ use \in Subtree(b, n)
Innermost(b, use) == IF Visible(b, use) = {} THEN 0 ELSE Max(Visible(b, use))
UsedBefore(b, use, n) == n # 0 /\ use <= Max(Subtree(b, n))

\* "Resolve a use-site name to its nearest enclosing binding's bind_site"
\* (body_scopes.c:14): in a body without conflicts go-to-definition finds the
\* innermost binding visible there, or one whose declaration comes later and
\* which inference then reports; however the text was edited.
GotoIsLexical ==
    LET b == goto.body
        use == goto.use
    IN  use # 0 /\ emit_body_conflict_errors(body_scopes(b)) = {} /\ ~InNestedParams(b, use) =>
            \/ goto.binding = Innermost(b, use)
            \/ Visible(b, use) = {} /\ UsedBefore(b, use, goto.binding)

\* A declaration is reported as unused only if no reference of the checked
\* signature and body can mean it: every one has a local binding in sight.
UnusedIsUnused ==
    shape = body /\ ~dirty =>
        \A n \in Refs(body) :
            /\ body[n].name \in unused /\ body[n].role # "field"
            /\ n \in Subtree(body, KidAs(body, 2, "body")) \cup SignatureNodes(body)
            => Visible(body, n) # {} \/ UsedBefore(body, n, inferred[n])

\* Every reference inference resolved is resolved as a lookup in the text as it
\* is now: "RelAstId ... survives sibling reparses" (type.c:325).
InferenceSeesTheText ==
    shape = body /\ ~dirty =>
        \A n \in DOMAIN inferred :
            inferred[n] = db_body_scope_lookup(body_scopes(body), decl_ast_id_map(body, start_offset),
                                               body, start_offset, n, body[n].name)

\* Names mean what the text says: for the editor that asks where a name is
\* declared and for the warning that a declaration is never used
\* (db_body_scope_lookup, record_body_references).
NamesResolveLexically == GotoIsLexical /\ UnusedIsUnused
=============================================================================
