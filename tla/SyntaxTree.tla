----------------------------- MODULE SyntaxTree -----------------------------
(***************************************************************************)
(* Red syntax trees (src/syntax/red.c, iter.c, text.c, ptr.c) over the     *)
(* green ones (green.c).  A tree is a function from paths to elements: the *)
(* root is <<>>, the i-th child of p is Append(p, i).  A token has a       *)
(* length, zero for the virtual ones; a node has its kind and may have no  *)
(* children.  Reference counts are left out: a handle here is a path.      *)
(***************************************************************************)
EXTENDS Naturals, Sequences, FiniteSets, FiniteSetsExt, SequencesExt

CONSTANT Trees

VARIABLES tree, root,                        \* the tree, the node walked from
          cursor, descending, skip_pending, \* SyntaxPreorder
          entered, open, skipped             \* what the walk reported so far

treeVars == <<tree, root, cursor, descending, skip_pending, entered, open, skipped>>

NONE == <<0>>

-----------------------------------------------------------------------------
(* Green trees.                                                            *)

IsNode(p)  == tree[p].node
Kind(p)    == tree[p].kind
Below(p)   == {q \in DOMAIN tree : IsPrefix(p, q)}

green_node_num_children(p) == Cardinality({q \in DOMAIN tree : Len(q) = Len(p) + 1 /\ IsPrefix(p, q)})
green_node_child(p, i)     == Append(p, i)
text_len(p) == MapThenSumSet(LAMBDA q : tree[q].len, {q \in Below(p) : ~IsNode(q)})

\* Each child's offset is the length of what stands before it in its parent.
rel_offset(p) == MapThenSumSet(LAMBDA i : text_len(Append(Front(p), i)), 1 .. Last(p) - 1)

-----------------------------------------------------------------------------
(* Red trees.                                                              *)

abs_offset(p) == MapThenSumSet(LAMBDA n : rel_offset(SubSeq(p, 1, n)), 1 .. Len(p))
text_range(p) == [start |-> abs_offset(p), end |-> abs_offset(p) + text_len(p)]
RangeContains(outer, inner) == outer.start <= inner.start /\ inner.end <= outer.end

Children(p) == {Append(p, i) : i \in 1 .. green_node_num_children(p)}

\* The nearest of a set of siblings in a direction, or NONE.
FirstOf(elements) == IF elements = {} THEN NONE ELSE CHOOSE p \in elements : \A q \in elements : Last(p) <= Last(q)
LastOf(elements)  == IF elements = {} THEN NONE ELSE CHOOSE p \in elements : \A q \in elements : Last(q) <= Last(p)

Siblings(p) == IF p = <<>> THEN {} ELSE Children(Front(p))
Later(p)    == {q \in Siblings(p) : Last(q) > Last(p)}
Earlier(p)  == {q \in Siblings(p) : Last(q) < Last(p)}
Nodes(elements) == {p \in elements : IsNode(p)}
OfKind(elements, kind) == {p \in elements : Kind(p) = kind}

syntax_node_parent(p)       == IF p = <<>> THEN NONE ELSE Front(p)
syntax_node_first_child(p)  == FirstOf(Nodes(Children(p)))
syntax_node_next_sibling(p) == FirstOf(Nodes(Later(p)))
syntax_node_prev_sibling(p) == LastOf(Nodes(Earlier(p)))
first_child_or_token(p)     == FirstOf(Children(p))
last_child_or_token(p)      == LastOf(Children(p))
next_sibling_or_token(p)    == FirstOf(Later(p))
prev_sibling_or_token(p)    == LastOf(Earlier(p))
first_child_or_token_by_kind(p, kind)  == FirstOf(OfKind(Children(p), kind))
next_sibling_or_token_by_kind(p, kind) == FirstOf(OfKind(Later(p), kind))

\* The first or last token below a node: nodes without text are passed over,
\* tokens without text are not.
EndToken(p, Pick(_)) ==
    LET end[q \in Below(p)] ==
          LET usable == {c \in Children(q) : ~IsNode(c) \/ text_len(c) > 0}
          IN  IF usable = {} THEN NONE
              ELSE IF IsNode(Pick(usable)) THEN end[Pick(usable)] ELSE Pick(usable)
    IN  IF IsNode(p) THEN end[p] ELSE p

syntax_node_first_token(p) == EndToken(p, FirstOf)
syntax_node_last_token(p)  == EndToken(p, LastOf)

\* The token after or before: the near end of the first sibling met on the
\* way up, whatever that sibling holds.
NeighbourToken(t, Sibling(_), End(_)) ==
    LET turns == {n \in 0 .. Len(t) : Sibling(SubSeq(t, 1, n)) # NONE}
    IN  IF turns = {} THEN NONE ELSE End(Sibling(SubSeq(t, 1, Max(turns))))

syntax_token_next_token(t) == NeighbourToken(t, next_sibling_or_token, syntax_node_first_token)
syntax_token_prev_token(t) == NeighbourToken(t, prev_sibling_or_token, syntax_node_last_token)

\* The tokens at an offset: one inside a token, two between tokens.
token_at_offset(offset) ==
    LET touches(p) == text_len(p) > 0 /\ text_range(p).start <= offset /\ offset <= text_range(p).end
        at[p \in DOMAIN tree] ==
          IF ~IsNode(p) THEN <<p>>
          ELSE LET hits  == {c \in Children(p) : touches(c)}
                   left  == FirstOf(hits)
                   right == FirstOf(hits \ {left})
               IN  CASE Cardinality(hits) = 0 -> <<>>
                     [] Cardinality(hits) = 1 -> at[left]
                     [] OTHER -> IF Len(at[left]) = 1 /\ Len(at[right]) = 1
                                 THEN at[left] \o at[right] ELSE <<>>
    IN  IF text_len(<<>>) > 0 /\ offset <= text_range(<<>>).end THEN at[<<>>] ELSE <<>>

child_or_token_at_range(p, range) ==
    FirstOf({c \in Children(p) : text_len(c) > 0 /\ RangeContains(text_range(c), range)})

syntax_node_covering_element(range) ==
    LET down[p \in DOMAIN tree] ==
          IF ~IsNode(p) \/ child_or_token_at_range(p, range) = NONE THEN p
          ELSE down[child_or_token_at_range(p, range)]
    IN  IF RangeContains(text_range(<<>>), range) THEN down[<<>>] ELSE NONE

-----------------------------------------------------------------------------
(* SyntaxNodePtr: a node remembered by its kind and range.                 *)

syntax_node_ptr_new(p) == [kind |-> Kind(p), range |-> text_range(p)]
Matches(p, ptr) == IsNode(p) /\ syntax_node_ptr_new(p) = ptr

\* Variant: a child that begins where the target does is passed by.
find_child_after(p, target) ==
    LET range(i) == text_range(Append(p, i))
        search[lo \in 0 .. green_node_num_children(p), hi \in 0 .. green_node_num_children(p)] ==
          LET mid == lo + (hi - lo) \div 2
          IN  CASE lo >= hi -> 0
                [] lo < hi /\ target.start >= range(mid + 1).end -> search[mid + 1, hi]
                [] lo < hi /\ target.start <= range(mid + 1).start -> search[lo, mid]
                [] OTHER -> IF RangeContains(range(mid + 1), target) THEN mid + 1 ELSE 0
    IN  search[0, green_node_num_children(p)]

\* A binary search among the children for the one the target starts in.
find_child_containing(p, target) ==
    LET range(i) == text_range(Append(p, i))
        search[lo \in 0 .. green_node_num_children(p), hi \in 0 .. green_node_num_children(p)] ==
          LET mid == lo + (hi - lo) \div 2
          IN  CASE lo >= hi -> 0
                [] lo < hi /\ target.start >= range(mid + 1).end -> search[mid + 1, hi]
                [] lo < hi /\ target.start < range(mid + 1).start -> search[lo, mid]
                [] OTHER -> IF RangeContains(range(mid + 1), target) THEN mid + 1 ELSE 0
    IN  search[0, green_node_num_children(p)]

\* The descent stops at a node of the target's range: what lies below it with
\* the same range is not looked at.
syntax_node_ptr_resolve(ptr) ==
    LET down[p \in DOMAIN tree] ==
          LET i    == find_child_containing(p, ptr.range)
              next == Append(p, i)
          IN  CASE text_range(p) = ptr.range -> NONE
                [] text_range(p) # ptr.range /\ (i = 0 \/ ~IsNode(next)) -> NONE
                [] OTHER -> IF Matches(next, ptr) THEN next ELSE down[next]
    IN  IF Matches(<<>>, ptr) THEN <<>> ELSE down[<<>>]

-----------------------------------------------------------------------------
(* Preorder walks.                                                         *)

\* Two nodes of one kind and range are the same to the walk.
LooksLikeRoot(p) == Matches(p, syntax_node_ptr_new(root))

syntax_preorder_init ==
    /\ tree \in Trees
    /\ root \in {p \in DOMAIN tree : tree[p].node}
    /\ cursor = NONE /\ descending = FALSE /\ skip_pending = FALSE
    /\ entered = {} /\ open = <<>> /\ skipped = {}

EnterElement(p) ==
    /\ cursor' = p /\ descending' = TRUE
    /\ entered' = entered \cup {p}
    /\ open' = Append(open, p)

LeaveElement(p) ==
    /\ cursor' = p /\ descending' = FALSE
    /\ open' = Front(open)
    /\ UNCHANGED entered

PreorderStart ==
    /\ cursor = NONE /\ entered = {}
    /\ EnterElement(root)
    /\ UNCHANGED <<tree, root, skip_pending, skipped>>

\* syntax_preorder_skip_subtree, between two calls of the walk.
PreorderSkip ==
    /\ cursor # NONE /\ descending /\ ~skip_pending
    /\ skip_pending' = TRUE
    /\ skipped' = skipped \cup {cursor}
    /\ UNCHANGED <<tree, root, cursor, descending, entered, open>>

PreorderDown ==
    /\ cursor # NONE /\ descending
    /\ IF skip_pending \/ ~IsNode(cursor) \/ first_child_or_token(cursor) = NONE
       THEN LeaveElement(cursor)
       ELSE EnterElement(first_child_or_token(cursor))
    /\ skip_pending' = FALSE
    /\ UNCHANGED <<tree, root, skipped>>

PreorderOn ==
    /\ cursor # NONE /\ ~descending
    /\ IF LooksLikeRoot(cursor)
       THEN cursor' = NONE /\ UNCHANGED <<descending, entered, open>>
       ELSE IF next_sibling_or_token(cursor) # NONE
            THEN EnterElement(next_sibling_or_token(cursor))
            ELSE LeaveElement(syntax_node_parent(cursor))
    /\ UNCHANGED <<tree, root, skip_pending, skipped>>

TreeNext == PreorderStart \/ PreorderSkip \/ PreorderDown \/ PreorderOn

\* syntax_descendants_next yields the nodes entered that are not the root.
Descendants == {p \in entered : IsNode(p) /\ ~LooksLikeRoot(p)}

\* syntax_text_for_each_chunk: the tokens of a node clipped to a window.
Clip(t, window) ==
    LET r == text_range(t)
    IN  [start |-> Max({r.start, window.start}), end |-> Min({r.end, window.end})]
Chunks(p, window) ==
    {Clip(t, window) : t \in {u \in Below(p) : /\ ~IsNode(u)
                                               /\ text_range(u).end > window.start
                                               /\ text_range(u).start < window.end}}

-----------------------------------------------------------------------------
(* Properties.                                                             *)

Before(p, q) ==
    \E n \in 1 .. Len(p) :
        n <= Len(q) /\ SubSeq(p, 1, n - 1) = SubSeq(q, 1, n - 1) /\ p[n] < q[n]
Tokens  == {p \in DOMAIN tree : ~IsNode(p)}
Offsets == 0 .. text_len(<<>>)
TextRanges  == {[start |-> a, end |-> b] : a, b \in Offsets}
Unwalked == entered = {} /\ root = <<>>    \* each tree is examined once

\* What the editor features ask of a position agrees with the flat text: the
\* tokens at an offset are the non-empty tokens that touch it, left to right;
\* the element covering a range lies below every other one that covers it;
\* the chunks of a window tile it.
PositionsAgreeWithText == Unwalked =>
    /\ \A offset \in Offsets :
         LET touching == {t \in Tokens : /\ tree[t].len > 0
                                         /\ text_range(t).start <= offset
                                         /\ offset <= text_range(t).end}
             found == token_at_offset(offset)
         IN  /\ ToSet(found) = touching
             /\ Len(found) = 2 => Before(found[1], found[2])
    /\ \A range \in {r \in TextRanges : r.start < r.end} :
         /\ \A p \in DOMAIN tree : RangeContains(text_range(p), range) =>
                IsPrefix(p, syntax_node_covering_element(range))
         /\ MapThenSumSet(LAMBDA c : c.end - c.start, Chunks(<<>>, range)) = range.end - range.start

\* The next token is the next one in the text and the previous token of that
\* one is the token itself, as long as no node without text stands between
\* them (at such a node the walk ends, as if at the end of the file).
NextTokenIsNext == Unwalked =>
    \A t, u \in Tokens :
        (/\ Before(t, u)
         /\ ~\E p \in DOMAIN tree : /\ Before(t, p) /\ Before(p, u)
                                    /\ ~IsNode(p) \/ text_len(p) = 0
         /\ \A p \in Nodes(DOMAIN tree) : IsPrefix(p, t) \/ IsPrefix(p, u) => text_len(p) > 0)
        => /\ syntax_token_next_token(t) = u
           /\ syntax_token_prev_token(u) = t

\* A pointer to a node with text finds the node again, or the outermost of
\* those it cannot be told from, unless a node of the same range and another
\* kind stands above it.
PtrResolves == Unwalked =>
    \A p \in Nodes(DOMAIN tree) :
        LET ptr  == syntax_node_ptr_new(p)
            above == {q \in DOMAIN tree : IsPrefix(q, p) /\ text_range(q) = text_range(p)}
        IN  text_len(p) > 0 /\ (\A q \in above : Kind(q) = Kind(p))
              => syntax_node_ptr_resolve(ptr) \in above

\* A walk enters every element below its root and leaves it again, except
\* below those that were skipped, and leaves only the innermost one it is in;
\* provided no node below the root has the root's kind and range.
PreorderComplete ==
    /\ (cursor # NONE /\ descending) => Last(open) = cursor
    /\ (entered # {} /\ cursor = NONE /\ Nodes(Below(root)) \cap {p \in DOMAIN tree : LooksLikeRoot(p)} = {root}) =>
         /\ open = <<>>
         /\ entered = {p \in Below(root) : \A s \in skipped : p = s \/ ~IsPrefix(s, p)}

\* The walks over a tree agree with the text and with each other: positions,
\* neighbours, remembered nodes and preorder (red.c, text.c, ptr.c, iter.c).
TreeWalksAgree ==
    PositionsAgreeWithText /\ NextTokenIsNext /\ PtrResolves /\ PreorderComplete
=============================================================================
