--------------------------- MODULE WorkspaceProofs ---------------------------
(***************************************************************************)
(* Theorems about Workspace, for every set of files, texts and imports, on *)
(* top of what QueryEngineProofs shows of the engine.                      *)
(***************************************************************************)
EXTENDS Workspace, QueryEngineProofs

-----------------------------------------------------------------------------
(* The constants.                                                            *)

\* The queries of two kinds, or of two files, are different.
LEMMA QueriesDiffer ==
    ASSUME NEW f, NEW g
    PROVE  /\ Src(f) = Src(g) => f = g
           /\ Set(f) = Set(g) => f = g
           /\ Ast(f) = Ast(g) => f = g
           /\ Items(f) = Items(g) => f = g
           /\ Imp(f) = Imp(g) => f = g
           /\ Src(f) # Set(g) /\ Ast(f) # Items(g)
           /\ Ast(f) # Imp(g) /\ Items(f) # Imp(g)
           /\ Path(f) # Src(g) /\ Path(f) # Set(g) /\ Path(f) # Ast(g)
           /\ Path(f) # Items(g) /\ Path(f) # Imp(g)
BY DEF Src, Set, Ast, Items, Imp, Path

\* Every query is about a file.
LEMMA QueryFile ==
    ASSUME NEW f
    PROVE  /\ Src(f)[2] = f /\ Set(f)[2] = f /\ Ast(f)[2] = f
           /\ Items(f)[2] = f /\ Imp(f)[2] = f
BY DEF Src, Set, Ast, Items, Imp

\* The text and the file set of a file are inputs of the engine, and no other
\* query that is called is one.
LEMMA InputQueries ==
    ASSUME NEW f \in Files
    PROVE  /\ Src(f) \in Inputs /\ Set(f) \in Inputs
           /\ Src(f) \in Queries /\ Set(f) \in Queries
           /\ Src(f) \notin Derived /\ Set(f) \notin Derived
BY QueriesAssumption, ConstantsAssumption DEF Queries

\* A query that is not an input is of one of the three kinds.
LEMMA DerivedKinds ==
    ASSUME NEW q \in Derived
    PROVE  /\ q \notin Inputs /\ q \in Queries /\ q \notin Paths
           /\ \/ \E f \in Files : q = Ast(f)
              \/ \E f \in Files : q = Items(f)
              \/ \E f \in DOMAIN ImportOf : q = Imp(f)
<1>1. /\ q \notin Inputs /\ q \in Queries
      /\ \/ \E f \in Files : q = Ast(f)
         \/ \E f \in Files : q = Items(f)
         \/ \E f \in DOMAIN ImportOf : q = Imp(f)
  BY QueriesAssumption, ConstantsAssumption DEF Queries
<1>2. \A f, g \in Files : Path(f) \notin {Ast(g), Items(g), Imp(g)}
  BY QueriesDiffer
<1>3. DOMAIN ImportOf \subseteq Files
  BY WorkspaceAssumption
<1> QED
  BY <1>1, <1>2, <1>3 DEF Paths

\* The values are told apart by what they hold.
LEMMA ValuesDiffer ==
    ASSUME NEW a, NEW b
    PROVE  /\ Tree(a) = Tree(b) => a = b
           /\ Members(a) = Members(b) => a = b
           /\ Exports(a) = Exports(b) => a = b
           /\ Members(a) # Tree(b)
           /\ Members(a).files = a
           /\ Exports(a).items = a
BY DEF Tree, Members, Exports


-----------------------------------------------------------------------------
(* What the bodies read and return.                                          *)

\* A body's next operation is the one WorkspaceBody gives.
LEMMA UpcomingBody ==
    ASSUME NEW t \in Frame
    PROVE  /\ Upcoming(t) = WorkspaceBody(t.q, t.vals)
           /\ t.q \in Derived /\ Len(t.vals) \in Nat
           /\ \A k \in 1 .. Len(t.vals) : t.vals[k] \in Results
<1>1. t.q \in Derived /\ t.vals \in Seq(Results) /\ Len(t.vals) <= MaxReads
  BY DEF Frame, FrameFields, ValueSeqs
<1>2. /\ Len(t.vals) \in Nat /\ t.vals \in [1 .. Len(t.vals) -> Results]
  BY <1>1, LenProperties
<1>3. Len(t.vals) \in 0 .. MaxReads
  BY <1>1, <1>2, ConstantsAssumption
<1> QED
  BY <1>1, <1>2, <1>3, QueriesAssumption DEF Upcoming

\* db_query_file_ast
LEMMA AstBody ==
    ASSUME NEW t \in Frame, NEW f \in Files, t.q = Ast(f)
    PROVE  /\ Upcoming(t).op = "read" =>
                t.vals = <<>> /\ Upcoming(t).q = Src(f)
           /\ Upcoming(t).op = "return" =>
                /\ Len(t.vals) > 0
                /\ Upcoming(t).val = IF t.vals[1] \in Texts
                                     THEN Tree(t.vals[1]) ELSE Bottom
<1>1. Upcoming(t) = FileAst(f, t.vals) /\ Len(t.vals) \in Nat
  BY UpcomingBody DEF WorkspaceBody, Ast
<1>2. t.vals \in Seq(Results)
  BY DEF Frame, FrameFields, ValueSeqs
<1>3. CASE Len(t.vals) = 0
  BY <1>1, <1>2, <1>3, EmptySeq DEF FileAst, Read
<1>4. CASE Len(t.vals) # 0
  BY <1>1, <1>4 DEF FileAst, Return
<1> QED
  BY <1>3, <1>4

\* db_query_namespace_items
LEMMA ItemsBody ==
    ASSUME NEW t \in Frame, NEW f \in Files, t.q = Items(f)
    PROVE  /\ Upcoming(t).op = "read" =>
                \/ t.vals = <<>> /\ Upcoming(t).q = Set(f)
                \/ /\ Len(t.vals) = 1 /\ t.vals[1] # Members(<<>>)
                   /\ Upcoming(t).q = Ast(f)
           /\ Upcoming(t).op = "return" =>
                /\ Len(t.vals) > 0
                /\ Len(t.vals) = 1 => t.vals[1] = Members(<<>>)
                /\ Upcoming(t).val =
                     Exports(UNION {u.names : u \in
                                      TextsBehind(t.vals[Len(t.vals)])})
<1>1. Upcoming(t) = NamespaceItems(f, t.vals) /\ Len(t.vals) \in Nat
  BY UpcomingBody DEF WorkspaceBody, Items
<1>2. t.vals \in Seq(Results)
  BY DEF Frame, FrameFields, ValueSeqs
<1>3. CASE Len(t.vals) = 0
  BY <1>1, <1>2, <1>3, EmptySeq DEF NamespaceItems, Read
<1>4. CASE Len(t.vals) = 1 /\ t.vals[1] # Members(<<>>)
  BY <1>1, <1>4 DEF NamespaceItems, Read
<1>5. CASE Len(t.vals) # 0 /\ ~(Len(t.vals) = 1 /\ t.vals[1] # Members(<<>>))
  BY <1>1, <1>5 DEF NamespaceItems, Return
<1> QED
  BY <1>3, <1>4, <1>5

\* builtin_import
LEMMA ImpBody ==
    ASSUME NEW t \in Frame, NEW f \in DOMAIN ImportOf, t.q = Imp(f)
    PROVE  /\ Upcoming(t).op = "read" =>
                \/ t.vals = <<>> /\ Upcoming(t).q = Ast(f)
                \/ Len(t.vals) = 1 /\ Upcoming(t).q = Path(ImportOf[f])
                \/ /\ Len(t.vals) = 2 /\ t.vals[2] # Bottom
                   /\ Upcoming(t).q = Items(ImportOf[f])
           /\ Upcoming(t).op = "return" =>
                /\ Len(t.vals) > 0
                /\ \/ Upcoming(t).val = Bottom
                   \/ Len(t.vals) > 2 /\ Upcoming(t).val = t.vals[3]
<1>1. Upcoming(t) = ImportBinding(f, t.vals) /\ Len(t.vals) \in Nat
  BY UpcomingBody DEF WorkspaceBody, Imp
<1>2. t.vals \in Seq(Results)
  BY DEF Frame, FrameFields, ValueSeqs
<1>3. CASE Len(t.vals) = 0
  BY <1>1, <1>2, <1>3, EmptySeq DEF ImportBinding, Read
<1>4. CASE Len(t.vals) = 1
  <2>1. Upcoming(t) = IF t.vals[1] = Bottom THEN Return(Bottom)
                      ELSE Read(Path(ImportOf[f]))
    BY <1>1, <1>4 DEF ImportBinding
  <2> QED
    BY <1>4, <2>1 DEF Read, Return
<1>5. CASE Len(t.vals) = 2
  <2>1. Upcoming(t) = IF t.vals[2] = Bottom THEN Return(Bottom)
                      ELSE Read(Items(ImportOf[f]))
    BY <1>1, <1>5 DEF ImportBinding
  <2> QED
    BY <1>5, <2>1 DEF Read, Return
<1>6. CASE Len(t.vals) > 2
  <2>1. Upcoming(t) = Return(t.vals[3])
    BY <1>1, <1>6 DEF ImportBinding
  <2> QED
    BY <1>6, <2>1 DEF Return
<1>7. Len(t.vals) \in {0, 1, 2} \/ Len(t.vals) > 2
  <2>1. \A n \in Nat : n \in {0, 1, 2} \/ n > 2
    OBVIOUS
  <2>2. Len(t.vals) \in Nat
    BY <1>1
  <2> QED
    BY <2>1, <2>2
<1> QED
  BY <1>3, <1>4, <1>5, <1>6, <1>7

-----------------------------------------------------------------------------
(***************************************************************************)
(* The inductive invariant, in two layers.  Base is about the inputs: a    *)
(* file with a row has its text and its file set, both agree with          *)
(* sources.evicted, and no query is called, memoized or recorded about a   *)
(* file without a row.  It needs the last part because a call of           *)
(* SOURCE_TEXT without a row would compute it like a derived query.        *)
(***************************************************************************)
Event == [file : Files, type : {"created", "changed", "deleted"}]

Ledger ==
    /\ evicted \subseteq registered /\ registered \subseteq Files
    /\ disk \in [Files -> Texts \cup {Bottom}]
    /\ \A f \in Files : disk[f] \in TextsOf[f]
    /\ events \in Seq(Event)
    /\ cancel = FALSE /\ req \in {0, cur}

HeldInput(f) ==
    /\ state[Src(f)] = "DONE" /\ state[Set(f)] = "DONE"
    /\ dur[Src(f)] = DUR_LOW /\ dur[Set(f)] = DUR_MEDIUM
    /\ fp[Src(f)] \in Texts
    /\ column[Src(f)] = IF f \in evicted THEN Bottom ELSE fp[Src(f)]
    /\ column[Set(f)] = Members(IF f \in evicted THEN <<>> ELSE <<f>>)
    /\ fp[Set(f)] = column[Set(f)]

InputsHeld ==
    /\ \A f \in registered : HeldInput(f)
    /\ \A i \in Inputs : deps[i] = <<>>

About(ds, R) == \A k \in DOMAIN ds : ds[k].q[2] \in R

KnownFrame(t, R) ==
    /\ About(t.deps, R)
    /\ \A f \in DOMAIN ImportOf :
         t.q = Imp(f) /\ Len(t.vals) > 1 /\ t.vals[2] # Bottom
            => ImportOf[f] \in R

KnownStack(s, R) == \A k \in 1 .. Len(s) : KnownFrame(s[k], R)

CallsKnown ==
    /\ \A q \in Derived :
         /\ state[q] \notin {"EMPTY", "ABSENT"} => q[2] \in registered
         /\ About(deps[q], registered)
    /\ KnownStack(stack, registered)

\* An event that makes the server read the file again is on its way.
Pending(ev, f) ==
    \E k \in 1 .. Len(ev) : ev[k].file = f /\ ev[k].type # "created"

FollowsDisk ==
    \A f \in Present \ opened : column[Src(f)] = disk[f] \/ Pending(events, f)

Base == Shell /\ Ledger /\ InputsHeld /\ CallsKnown /\ FollowsDisk

(***************************************************************************)
(* Memos is about what the queries have remembered.  A memo records the    *)
(* fingerprints it was computed from; when nothing of DUR_LOW has changed  *)
(* since it was verified (it is fresh), those are the fingerprints of now. *)
(* While a query is on the stack its frame carries the same: a walk has    *)
(* compared the dependencies before i, a body has read the inputs of now.  *)
(*                                                                         *)
(* c, y and d are the column, the fingerprint and the durability of a      *)
(* slot, ds its dependencies; x is the fingerprints of all slots, R and E  *)
(* the files that have a row and those that are evicted.                   *)
(***************************************************************************)
TextOf(f, x, E) == IF f \in E THEN Bottom ELSE x[Src(f)]
SetOf(f, E)     == Members(IF f \in E THEN <<>> ELSE <<f>>)

\* What an importer may be told about the exports of file g.
ExportsOK(g, v, x, R, E) ==
    \/ v = Exports({})
    \/ g \in R \ E /\ v = Exports(x[Src(g)].names)

AstSlot(f, ds, c, y, d, fresh, x) ==
    /\ Len(ds) = 1 /\ ds[1].q = Src(f)
    /\ y \in {Bottom, Tree(ds[1].fp)} /\ c \in {Bottom, y} /\ d = DUR_LOW
    /\ fresh => ds[1].fp = x[Src(f)]

ItemsSlot(f, ds, c, y, d, fresh, x, R, E) ==
    /\ Len(ds) \in {1, 2} /\ ds[1].q = Set(f)
    /\ Len(ds) = 2 => ds[2].q = Ast(f)
    /\ c = y
    /\ \/ c = Exports({})
       \/ /\ Len(ds) = 2 /\ ds[1].fp = Members(<<f>>) /\ d = DUR_LOW
          /\ \E u \in Texts :
               /\ c = Exports(u.names) /\ ds[2].fp = Tree(u)
               /\ fresh => f \in R \ E /\ u = x[Src(f)]

ImpSlot(f, ds, c, d, fresh, x, R, E) ==
    /\ Len(ds) > 0
    /\ \A k \in DOMAIN ds : ds[k].q \in {Ast(f), Items(ImportOf[f])}
    /\ \/ c = Bottom
       \/ /\ Len(ds) > 1 /\ d = DUR_LOW
          /\ \A k \in DOMAIN ds :
               ds[k].q = IF k = 2 THEN Items(ImportOf[f]) ELSE Ast(f)
          /\ ds[2].fp = c
          /\ fresh => ExportsOK(ImportOf[f], c, x, R, E)

SlotOK(q, ds, c, y, d, fresh, x, R, E) ==
    /\ \A f \in Files :
         /\ q = Ast(f) => AstSlot(f, ds, c, y, d, fresh, x)
         /\ q = Items(f) => ItemsSlot(f, ds, c, y, d, fresh, x, R, E)
    /\ \A f \in DOMAIN ImportOf :
         q = Imp(f) => ImpSlot(f, ds, c, d, fresh, x, R, E)

Fresh(q) == lastChanged[DUR_LOW] <= vrev[q]

Memo(q) == SlotOK(q, deps[q], column[q], fp[q], dur[q], Fresh(q), fp,
                  registered, evicted)

Memos ==
    /\ \A q \in Derived :
         /\ state[q] = "DONE" => Memo(q)
         /\ state[q] # "ERROR"
         /\ state[q] \in {"EMPTY", "ABSENT"} => deps[q] = <<>>
    /\ \A f \in evicted : Ast(f) \in Derived => column[Ast(f)] = Bottom

\* What a walk has to go on, dependency by dependency.
AstWalk(f, t, c, y, d, x) ==
    /\ Len(t.deps) = 1 /\ t.deps[1].q = Src(f)
    /\ y \in {Bottom, Tree(t.deps[1].fp)} /\ c \in {Bottom, y} /\ d = DUR_LOW
    /\ t.i > 1 => t.deps[1].fp = x[Src(f)]

ItemsWalk(f, t, c, y, d, x, R, E) ==
    /\ t.n = Len(t.deps) /\ t.n \in {1, 2} /\ t.deps[1].q = Set(f)
    /\ t.n = 2 => t.deps[2].q = Ast(f)
    /\ c = y
    /\ \/ c = Exports({})
       \/ /\ t.n = 2 /\ t.deps[1].fp = Members(<<f>>) /\ d = DUR_LOW
          /\ t.i > 1 => f \in R \ E
          /\ \E u \in Texts :
               /\ c = Exports(u.names)
               /\ IF t.i = 2 /\ t.pulled THEN t.want = Tree(u)
                  ELSE t.deps[2].fp = Tree(u)
               /\ t.i > 2 => u = x[Src(f)]

ImpWalk(f, t, c, d, x, R, E) ==
    /\ \A k \in DOMAIN t.deps : t.deps[k].q \in {Ast(f), Items(ImportOf[f])}
    /\ \/ c = Bottom
       \/ /\ t.n > 1 /\ d = DUR_LOW
          /\ \A k \in DOMAIN t.deps :
               t.deps[k].q = IF k = 2 THEN Items(ImportOf[f]) ELSE Ast(f)
          /\ IF t.i = 2 /\ t.pulled THEN t.want = c ELSE t.deps[2].fp = c
          /\ t.i > 2 => ExportsOK(ImportOf[f], c, x, R, E)

\* What a body has read.
AstBodyOK(f, t, x, E) ==
    \/ t.vals = <<>> /\ t.deps = <<>>
    \/ /\ t.vals = <<TextOf(f, x, E)>>
       /\ t.deps = <<[q |-> Src(f), fp |-> x[Src(f)]]>>
       /\ t.durSet /\ t.minDur = DUR_LOW

ItemsBodyOK(f, t, x, R, E) ==
    \/ t.vals = <<>> /\ t.deps = <<>>
    \/ /\ t.vals = <<SetOf(f, E)>>
       /\ t.deps = <<[q |-> Set(f), fp |-> SetOf(f, E)]>>
    \/ \E v \in Results, y \in Results \cup {None} :
         /\ t.vals = <<SetOf(f, E), v>> /\ f \in R \ E
         /\ t.deps = <<[q |-> Set(f), fp |-> SetOf(f, E)],
                       [q |-> Ast(f), fp |-> y]>>
         /\ v = Bottom \/ (v = y /\ v = Tree(x[Src(f)]))
         /\ t.durSet /\ t.minDur = DUR_LOW

ImpBodyOK(f, t, x, R, E) ==
    \/ t.vals = <<>> /\ t.deps = <<>>
    \/ /\ Len(t.vals) \in {1, 2} /\ Len(t.deps) = 1 /\ t.deps[1].q = Ast(f)
       /\ t.durSet /\ t.minDur = DUR_LOW
    \/ /\ Len(t.vals) = 3 /\ Len(t.deps) = 2 /\ t.deps[1].q = Ast(f)
       /\ t.deps[2] = [q |-> Items(ImportOf[f]), fp |-> t.vals[3]]
       /\ ExportsOK(ImportOf[f], t.vals[3], x, R, E)
       /\ t.durSet /\ t.minDur = DUR_LOW

WalkOK(t, c, y, d, x, R, E) ==
    /\ t.prev = "DONE" /\ t.vals = <<>> /\ t.n > 0
    /\ \A f \in Files :
         /\ t.q = Ast(f) => AstWalk(f, t, c, y, d, x)
         /\ t.q = Items(f) => ItemsWalk(f, t, c, y, d, x, R, E)
    /\ \A f \in DOMAIN ImportOf :
         t.q = Imp(f) => ImpWalk(f, t, c, d, x, R, E)

BodyOK(t, x, R, E) ==
    /\ \A f \in Files :
         /\ t.q = Ast(f) => AstBodyOK(f, t, x, E)
         /\ t.q = Items(f) => ItemsBodyOK(f, t, x, R, E)
    /\ \A f \in DOMAIN ImportOf : t.q = Imp(f) => ImpBodyOK(f, t, x, R, E)

FrameOK(t, c, y, d, x, R, E) ==
    IF t.mode = "walk" THEN WalkOK(t, c, y, d, x, R, E)
    ELSE BodyOK(t, x, R, E)

FramesOK(s, c, x, d, R, E) ==
    \A k \in 1 .. Len(s) :
        FrameOK(s[k], c[s[k].q], x[s[k].q], d[s[k].q], x, R, E)

\* The dependency a walk has just pulled is verified, and recorded anew.
Pulled(s, x) ==
    s # <<>> /\ Top(s).mode = "walk" /\ Top(s).pulled =>
        /\ Top(s).i <= Top(s).n
        /\ Top(s).i # 1 =>
             Top(s).deps[Top(s).i].fp = x[Top(s).deps[Top(s).i].q]

PulledIsLive ==
    /\ Pulled(stack, fp)
    /\ stack # <<>> /\ Top(stack).mode = "walk" /\ Top(stack).pulled =>
         Live(Top(stack).deps[Top(stack).i].q)

WInv == /\ Base /\ Memos /\ PulledIsLive
        /\ FramesOK(stack, column, fp, dur, registered, evicted)

-----------------------------------------------------------------------------
(* Frames keep to what is known.                                             *)

\* Recording a dependency about a known file.
LEMMA KnownRecorded ==
    ASSUME NEW t \in Frame, NEW q \in Queries,
           NEW x \in Results \cup {None}, NEW d \in Tiers, NEW R,
           KnownFrame(t, R), q[2] \in R
    PROVE  KnownFrame(RecordDep(t, q, x, d), R)
<1> DEFINE g == RecordDep(t, q, x, d)
           dep == [q |-> q, fp |-> x]
<1>1. /\ g \in Frame /\ g.q = t.q /\ g.vals = t.vals
      /\ Indexed(t, q) = {} => g.deps = Append(t.deps, dep)
      /\ Indexed(t, q) # {} =>
           /\ Len(g.deps) = Len(t.deps)
           /\ \A k \in 1 .. Len(t.deps) :
                g.deps[k] = IF k \in Indexed(t, q) THEN dep ELSE t.deps[k]
  BY RecordedFields
<1>2. /\ t.deps \in Seq(Dep) /\ Len(t.deps) \in Nat
      /\ DOMAIN t.deps = 1 .. Len(t.deps)
      /\ g.deps \in Seq(Dep) /\ DOMAIN g.deps = 1 .. Len(g.deps)
  BY <1>1 DEF Frame, FrameFields
<1>3. \A k \in 1 .. Len(t.deps) : t.deps[k].q[2] \in R
  BY <1>2 DEF KnownFrame, About
<1> HIDE DEF g
<1>4. \A k \in 1 .. Len(g.deps) : g.deps[k].q[2] \in R
  <2>1. CASE Indexed(t, q) = {}
    <3>1. /\ Len(g.deps) = Len(t.deps) + 1
          /\ \A k \in 1 .. Len(t.deps) : g.deps[k] = t.deps[k]
          /\ g.deps[Len(t.deps) + 1] = dep
      BY <1>1, <1>2, <2>1, AppendProperties
    <3> SUFFICES ASSUME NEW k \in 1 .. Len(t.deps) + 1
                 PROVE  g.deps[k].q[2] \in R
      BY <3>1
    <3>2. k \in 1 .. Len(t.deps) \/ k = Len(t.deps) + 1
      BY <1>2
    <3> QED
      BY <1>3, <3>1, <3>2
  <2>2. CASE Indexed(t, q) # {}
    <3> SUFFICES ASSUME NEW k \in 1 .. Len(t.deps)
                 PROVE  g.deps[k].q[2] \in R
      BY <1>1, <2>2
    <3>1. g.deps[k] \in {dep, t.deps[k]}
      BY <1>1, <2>2
    <3> QED
      BY <1>3, <3>1
  <2> QED
    BY <2>1, <2>2
<1> QED
  BY <1>1, <1>2, <1>4 DEF KnownFrame, About, g

\* An importer's second value is not handed over by a query.
LEMMA KnownHanded ==
    ASSUME NEW t \in Frame, NEW q, NEW v, NEW R, KnownFrame(t, R),
           t.mode = "body" => Upcoming(t).op = "read" /\ Upcoming(t).q = q,
           q \notin Paths
    PROVE  KnownFrame(Handed(t, v), R)
<1> DEFINE g == Handed(t, v)
<1>1. /\ g.q = t.q /\ g.deps = t.deps
      /\ g.vals = IF t.mode = "walk" THEN t.vals ELSE Append(t.vals, v)
  BY HandedFields
<1> HIDE DEF g
<1>2. ASSUME NEW f \in DOMAIN ImportOf, t.q = Imp(f), Len(g.vals) > 1,
             g.vals[2] # Bottom
      PROVE  ImportOf[f] \in R
  <2>1. CASE t.mode = "walk"
    BY <1>1, <1>2, <2>1 DEF KnownFrame
  <2>2. CASE t.mode # "walk"
    <3>1. /\ t.vals \in Seq(Results) /\ Len(t.vals) \in Nat
          /\ t.mode = "body"
      BY <2>2 DEF Frame, FrameFields, ValueSeqs
    <3>2. g.vals = Append(t.vals, v) /\ Len(g.vals) = Len(t.vals) + 1
      BY <1>1, <2>2, <3>1
    <3>3. Len(t.vals) # 1
      <4>1. Upcoming(t).op = "read" /\ Upcoming(t).q = q
        BY <3>1
      <4>2. \/ t.vals = <<>> /\ Upcoming(t).q = Ast(f)
            \/ Len(t.vals) = 1 /\ Upcoming(t).q = Path(ImportOf[f])
            \/ Len(t.vals) = 2
        BY <1>2, <4>1, ImpBody
      <4>3. Path(ImportOf[f]) \in Paths
        BY WorkspaceAssumption DEF Paths
      <4> QED
        BY <4>1, <4>2, <4>3
    <3>4. Len(t.vals) > 1
      <4>1. \A n \in Nat : n + 1 > 1 /\ n # 1 => n > 1
        OBVIOUS
      <4>2. Len(t.vals) \in Nat /\ Len(t.vals) + 1 > 1
        BY <1>2, <3>1, <3>2
      <4> QED
        BY <3>3, <4>1, <4>2
    <3>5. g.vals[2] = t.vals[2]
      BY <3>1, <3>2, <3>4
    <3> QED
      BY <1>2, <3>4, <3>5 DEF KnownFrame
  <2> QED
    BY <2>1, <2>2
<1> QED
  BY <1>1, <1>2 DEF KnownFrame, g

\* The top frame replaced.
LEMMA ReplacedTop ==
    ASSUME NEW s \in Seq(Frame), s # <<>>, NEW f
    PROVE  /\ Len(OnTop(s, f)) = Len(s) /\ Len(s) \in Nat \ {0}
           /\ \A k \in 1 .. Len(s) :
                OnTop(s, f)[k] = IF k = Len(s) THEN f ELSE s[k]
<1>1. Len(s) \in Nat \ {0} /\ DOMAIN s = 1 .. Len(s)
  BY TopIsFrame, LenProperties
<1> DEFINE u == OnTop(s, f)
<1>2. /\ DOMAIN u = 1 .. Len(s)
      /\ \A k \in 1 .. Len(s) : u[k] = IF k = Len(s) THEN f ELSE s[k]
  BY <1>1 DEF OnTop
<1>3. Len(u) = Len(s)
  <2>1. \A k \in 1 .. Len(s) : u[k] \in Frame \cup {f}
    BY <1>2, ElementOfSeq
  <2>2. u = [k \in 1 .. Len(s) |-> u[k]]
    BY <1>1, <1>2 DEF OnTop
  <2> HIDE DEF u
  <2>3. u \in [1 .. Len(s) -> Frame \cup {f}]
    BY <2>1, <2>2
  <2>4. u \in Seq(Frame \cup {f})
    BY <1>1, <2>3
  <2>5. DOMAIN u = 1 .. Len(u) /\ Len(u) \in Nat
    BY <2>4, LenProperties
  <2>6. \A m, n \in Nat : 1 .. m = 1 .. n => m = n
    OBVIOUS
  <2>7. 1 .. Len(u) = 1 .. Len(s)
    BY <1>2, <2>5
  <2>8. Len(s) \in Nat
    BY <1>1
  <2> QED
    BY <2>5, <2>6, <2>7, <2>8
<1> QED
  BY <1>1, <1>2, <1>3

\* A frame pushed.
LEMMA PushedTop ==
    ASSUME NEW s \in Seq(Frame), NEW f \in Frame
    PROVE  /\ Len(Append(s, f)) = Len(s) + 1 /\ Len(s) \in Nat
           /\ \A k \in 1 .. Len(s) + 1 :
                \/ k \in 1 .. Len(s) /\ Append(s, f)[k] = s[k]
                \/ k = Len(s) + 1 /\ Append(s, f)[k] = f
<1>1. /\ Len(s) \in Nat /\ Len(Append(s, f)) = Len(s) + 1
      /\ \A k \in 1 .. Len(s) : Append(s, f)[k] = s[k]
      /\ Append(s, f)[Len(s) + 1] = f
  BY AppendProperties
<1>2. \A k \in 1 .. Len(s) + 1 : k \in 1 .. Len(s) \/ k = Len(s) + 1
  BY <1>1
<1> QED
  BY <1>1, <1>2

\* The same for stacks: a frame is replaced, pushed, popped, or receives what
\* it called for.
LEMMA KnownReplaced ==
    ASSUME NEW s \in Seq(Frame), s # <<>>, NEW f, NEW R,
           KnownStack(s, R), KnownFrame(f, R)
    PROVE  KnownStack(OnTop(s, f), R)
BY ReplacedTop DEF KnownStack

\* ... pushed ...
LEMMA KnownPushed ==
    ASSUME NEW s \in Seq(Frame), NEW f \in Frame, NEW R,
           KnownStack(s, R), KnownFrame(f, R)
    PROVE  KnownStack(Append(s, f), R)
<1> DEFINE u == Append(s, f)
<1>1. /\ Len(u) = Len(s) + 1
      /\ \A k \in 1 .. Len(s) + 1 :
           (k \in 1 .. Len(s) /\ u[k] = s[k]) \/ u[k] = f
  BY PushedTop
<1> HIDE DEF u
<1>2. KnownStack(u, R)
  BY <1>1 DEF KnownStack
<1> QED
  BY <1>2 DEF u

\* ... popped ...
LEMMA KnownPopped ==
    ASSUME NEW s \in Seq(Frame), s # <<>>, NEW R, KnownStack(s, R)
    PROVE  KnownStack(Popped(s), R)
<1>1. /\ Len(Popped(s)) = Len(s) - 1 /\ Len(s) \in Nat \ {0}
      /\ \A k \in 1 .. Len(s) - 1 : Popped(s)[k] = s[k]
  BY PoppedFrames
<1>2. \A k \in 1 .. Len(s) - 1 : k \in 1 .. Len(s)
  BY <1>1
<1> QED
  BY <1>1, <1>2 DEF KnownStack

\* ... or its top frame receives what it called for.
LEMMA KnownReceived ==
    ASSUME NEW s \in Seq(Frame), NEW R, KnownStack(s, R),
           NEW q \in Queries, q \notin Paths, q[2] \in R,
           s # <<>> => Awaits(Top(s), q),
           NEW x \in Results \cup {None}, NEW d \in Tiers, NEW v \in Results
    PROVE  KnownStack(ReturnTo(RecordOnParent(s, q, x, d), v), R)
<1> DEFINE u == ReturnTo(RecordOnParent(s, q, x, d), v)
           r == RecordDep(Top(s), q, x, d)
<1>1. Receptive(s)
  BY AwaitsReceptive
<1>2. CASE s = <<>>
  <2>1. u = <<>>
    BY <1>1, <1>2, ReceivedTop
  <2> QED
    BY <2>1 DEF KnownStack
<1>3. CASE s # <<>>
  <2>1. /\ Len(u) = Len(s) /\ Len(s) \in Nat \ {0}
        /\ \A k \in 1 .. Len(s) :
             u[k] = IF k = Len(s) THEN Handed(r, v) ELSE s[k]
    BY <1>1, <1>3, ReceivedTop
  <2>2. Top(s) \in Frame /\ KnownFrame(Top(s), R)
    BY <1>3, <2>1, TopIsFrame DEF KnownStack, Top
  <2>3. r \in Frame /\ KnownFrame(r, R)
    BY <2>2, KnownRecorded, RecordDepFrame
  <2>4. r.q = Top(s).q /\ r.vals = Top(s).vals /\ r.mode = Top(s).mode
    BY <2>2, RecordDepFrame
  <2>5. r.mode = "body" => Upcoming(r).op = "read" /\ Upcoming(r).q = q
    BY <1>3, <2>4 DEF Awaits, Upcoming
  <2> HIDE DEF r, u
  <2>6. KnownFrame(Handed(r, v), R)
    BY <2>3, <2>5, KnownHanded
  <2> QED
    BY <2>1, <2>6 DEF KnownStack, u
<1> QED
  BY <1>2, <1>3

\* The caller is known as the callee finds it.
LEMMA KnownCaller ==
    ASSUME TypeOK, NEW q \in Queries, Calls(q), NEW R, KnownStack(stack, R)
    PROVE  KnownStack(Caller(q), R)
<1>1. CASE stack = <<>>
  BY <1>1 DEF Caller
<1>2. CASE stack # <<>>
  <2> DEFINE u == Caller(q)
             g == Calling(Top(stack), q)
  <2>1. /\ Len(u) = Len(stack) /\ Len(stack) \in Nat \ {0}
        /\ \A k \in 1 .. Len(stack) :
             u[k] = IF k = Len(stack) THEN g ELSE stack[k]
    BY <1>2, CallerTop
  <2>2. stack \in Seq(Frame)
    BY DEF TypeOK
  <2>3. Top(stack) \in Frame /\ KnownFrame(Top(stack), R)
    BY <1>2, <2>1, <2>2, TopIsFrame DEF KnownStack, Top
  <2>4. g.q = Top(stack).q /\ g.deps = Top(stack).deps /\ g.vals = Top(stack).vals
    BY <2>3, CallingFields
  <2> HIDE DEF g, u
  <2>5. KnownFrame(g, R)
    BY <2>3, <2>4 DEF KnownFrame
  <2> QED
    BY <2>1, <2>5 DEF KnownStack, u
<1> QED
  BY <1>1, <1>2

-----------------------------------------------------------------------------
(* The engine's steps preserve Base.                                         *)

\* No query is called about a file without a row.
LEMMA CalledKnown ==
    ASSUME Base, NEW q \in Queries \ Paths, Calls(q),
           stack = <<>> => q[2] \in registered
    PROVE  q[2] \in registered
<1> SUFFICES ASSUME stack # <<>>
             PROVE  q[2] \in registered
  OBVIOUS
<1> DEFINE t == Top(stack)
<1>1. Shell /\ CallsKnown
  BY DEF Base
<1>2. /\ t \in Frame /\ t.q \in Derived /\ state[t.q] = "RUNNING"
      /\ Len(stack) \in Nat \ {0}
  BY <1>1, TopFrame, TopIsFrame DEF Shell, TypeOK
<1>3. t.q[2] \in registered
  BY <1>1, <1>2 DEF CallsKnown
<1>4. KnownFrame(t, registered)
  BY <1>1, <1>2 DEF CallsKnown, KnownStack, Top
<1> HIDE DEF t
<1>5. CASE BodyCalls(q)
  <2>1. Upcoming(t).op = "read" /\ Upcoming(t).q = q
    BY <1>5 DEF BodyCalls, t
  <2>2. CASE \E f \in Files : t.q = Ast(f)
    BY <1>2, <1>3, <2>1, <2>2, AstBody, QueryFile
  <2>3. CASE \E f \in Files : t.q = Items(f)
    <3>1. PICK f \in Files : t.q = Items(f)
      BY <2>3
    <3>2. q \in {Set(f), Ast(f)}
      BY <1>2, <2>1, <3>1, ItemsBody
    <3> QED
      BY <1>3, <3>1, <3>2, QueryFile
  <2>4. CASE \E f \in DOMAIN ImportOf : t.q = Imp(f)
    <3>1. PICK f \in DOMAIN ImportOf : t.q = Imp(f)
      BY <2>4
    <3>2. \/ q = Ast(f)
          \/ q = Path(ImportOf[f])
          \/ /\ Len(t.vals) = 2 /\ t.vals[2] # Bottom
             /\ q = Items(ImportOf[f])
      BY <1>2, <2>1, <3>1, ImpBody
    <3>3. q # Path(ImportOf[f])
      BY WorkspaceAssumption DEF Paths
    <3>4. CASE q = Ast(f)
      BY <1>3, <3>1, <3>4, QueryFile
    <3>5. CASE Len(t.vals) = 2 /\ t.vals[2] # Bottom /\ q = Items(ImportOf[f])
      <4>1. Len(t.vals) > 1
        BY <3>5
      <4>2. ImportOf[f] \in registered
        BY <1>4, <3>1, <3>5, <4>1 DEF KnownFrame
      <4> QED
        BY <3>5, <4>2, QueryFile
    <3> QED
      BY <3>2, <3>3, <3>4, <3>5
  <2> QED
    BY <1>2, <2>2, <2>3, <2>4, DerivedKinds
<1>6. CASE WalkCalls(q)
  <2>1. /\ t.mode = "walk" /\ t.i <= t.n /\ t.deps[t.i].q = q
    BY <1>6 DEF WalkCalls, t
  <2>2. /\ t.deps \in Seq(Dep) /\ t.i \in Nat \ {0} /\ t.n \in Nat
        /\ t.n <= Len(t.deps)
    BY <1>2, <2>1 DEF Frame, FrameFields
  <2>3. Len(t.deps) \in Nat /\ DOMAIN t.deps = 1 .. Len(t.deps)
    BY <2>2, LenProperties
  <2>4. t.i \in DOMAIN t.deps
    BY <2>1, <2>2, <2>3
  <2> QED
    BY <1>4, <2>1, <2>4 DEF KnownFrame, About
<1> QED
  BY <1>5, <1>6 DEF Calls, ConsumerCalls

\* An input that is called is set, so only derived queries are pushed.
LEMMA PushedDerived ==
    ASSUME Base, NEW q \in Queries \ Paths, q[2] \in registered,
           \/ state[q] \in {"EMPTY", "ABSENT"}
           \/ ~VerifiedAtOnce(q)
    PROVE  q \in Derived
<1> SUFFICES ASSUME q \in Inputs
             PROVE  FALSE
  BY DEF Queries
<1>1. PICK f \in Files : q = Src(f) \/ q = Set(f)
  BY QueriesAssumption
<1>2. f \in registered
  BY <1>1, QueryFile
<1>3. state[q] = "DONE" /\ deps[q] = <<>>
  BY <1>1, <1>2 DEF Base, InputsHeld, HeldInput
<1> QED
  BY <1>3 DEF VerifiedAtOnce

\* A query step is a step of the engine that keeps Shell.
LEMMA QueryShell ==
    ASSUME Base, Query
    PROVE  Shell' /\ Machinery /\ UNCHANGED workspaceVars
<1>1. Shell
  BY DEF Base
<1>2. CASE \E q \in Queries \ Paths :
             /\ stack = <<>> => q[2] \in registered
             /\ BeginEmpty(q) \/ BeginHit(q) \/ BeginWalk(q)
  <2>1. PICK q \in Queries \ Paths :
               /\ stack = <<>> => q[2] \in registered
               /\ BeginEmpty(q) \/ BeginHit(q) \/ BeginWalk(q)
    BY <1>2
  <2>2. Calls(q)
    BY <2>1 DEF BeginEmpty, BeginHit, BeginWalk
  <2>3. q[2] \in registered
    BY <2>1, <2>2, CalledKnown
  <2>4. BeginEmpty(q) \/ BeginWalk(q) => q \in Derived
    BY <2>3, PushedDerived DEF BeginEmpty, BeginWalk
  <2>5. Shell'
    BY <1>1, <2>1, <2>4, BeginEmptyStep, BeginHitStep, BeginWalkStep
  <2> QED
    BY <2>1, <2>5 DEF Machinery, Begin, Query
<1>3. CASE WalkNext \/ WalkFail \/ WalkEnd \/ Succeed
  <2>1. Shell'
    BY <1>1, <1>3, WalkNextStep, WalkFailStep, WalkEndStep, SucceedStep
  <2> QED
    BY <1>3, <2>1 DEF Machinery, Query
<1> QED
  BY <1>2, <1>3 DEF Query

\* An input never gains a dependency.
LEMMA InputDeps ==
    ASSUME Shell, Machinery, NEW i \in Inputs, deps[i] = <<>>
    PROVE  deps'[i] = <<>>
<1> USE DEF slotVars
<1>1. deps \in [Queries -> Seq(Dep)] /\ i \in Queries /\ i \notin Derived
  BY ConstantsAssumption DEF Shell, TypeOK, Queries
<1>2. stack # <<>> => Top(stack).q # i
  BY TopFrame
<1>3. CASE \E q \in Queries : Begin(q)
  BY <1>3 DEF Begin, BeginCanceled, BeginCycle, BeginEmpty, BeginHit, BeginWalk
<1>4. CASE WalkNext \/ WalkFail \/ WalkEnd
  BY <1>1, <1>2, <1>4 DEF WalkNext, WalkFail, WalkEnd, AtDep, Walking
<1>5. CASE Succeed \/ Fail \/ BailOut
  BY <1>1, <1>2, <1>5 DEF Succeed, Fail, BailOut, Finishing
<1>6. CASE RequestEnd
  BY <1>1, <1>6 DEF RequestEnd
<1>7. CASE RequestCancel \/ \E r \in 1 .. MaxRev : RequestBegin(r)
  BY <1>7 DEF RequestCancel, RequestBegin
<1> QED
  BY <1>3, <1>4, <1>5, <1>6, <1>7 DEF Machinery

\* The engine leaves the inputs of the files that have a row as they are.
LEMMA EngineInputs ==
    ASSUME Base, Machinery, UNCHANGED workspaceVars
    PROVE  /\ InputsHeld' /\ FollowsDisk'
           /\ \A f \in registered :
                /\ column'[Src(f)] = column[Src(f)]
                /\ fp'[Src(f)] = fp[Src(f)]
                /\ column'[Set(f)] = column[Set(f)]
                /\ fp'[Set(f)] = fp[Set(f)]
<1>1. Shell /\ InputsHeld /\ FollowsDisk /\ registered \subseteq Files
  BY DEF Base, Ledger
<1>2. UNCHANGED <<registered, evicted, disk, events, opened>>
  BY DEF workspaceVars
<1>3. ASSUME NEW f \in registered, NEW i \in {Src(f), Set(f)}
      PROVE  /\ state'[i] = "DONE" /\ fp'[i] = fp[i]
             /\ column'[i] = column[i] /\ dur'[i] = dur[i]
  <2>1. i \in Inputs
    BY <1>1, <1>3, InputQueries
  <2>2. state[i] = "DONE" /\ deps[i] = <<>>
    BY <1>1, <1>3, <2>1 DEF InputsHeld, HeldInput
  <2> QED
    BY <1>1, <2>1, <2>2, InputUntouched
<1>4. ASSUME NEW f \in registered
      PROVE  HeldInput(f)'
  <2>1. HeldInput(f)
    BY <1>1 DEF InputsHeld
  <2>2. /\ state'[Src(f)] = "DONE" /\ fp'[Src(f)] = fp[Src(f)]
        /\ column'[Src(f)] = column[Src(f)] /\ dur'[Src(f)] = dur[Src(f)]
        /\ state'[Set(f)] = "DONE" /\ fp'[Set(f)] = fp[Set(f)]
        /\ column'[Set(f)] = column[Set(f)] /\ dur'[Set(f)] = dur[Set(f)]
    BY <1>3
  <2> QED
    BY <1>2, <2>1, <2>2 DEF HeldInput
<1>5. \A i \in Inputs : deps'[i] = <<>>
  BY <1>1, InputDeps DEF InputsHeld
<1>6. InputsHeld'
  BY <1>2, <1>4, <1>5 DEF InputsHeld
<1>7. FollowsDisk'
  BY <1>1, <1>2, <1>3 DEF FollowsDisk, Present
<1> QED
  BY <1>3, <1>6, <1>7

\* A query that starts, starts about a file that has a row.
LEMMA BeginKnown ==
    ASSUME Base, NEW q \in Queries \ Paths, q[2] \in registered,
           UNCHANGED workspaceVars,
           BeginEmpty(q) \/ BeginHit(q) \/ BeginWalk(q)
    PROVE  CallsKnown'
<1> USE DEF slotVars
<1>1. /\ Shell /\ CallsKnown /\ TypeOK /\ stack \in Seq(Frame)
      /\ KnownStack(stack, registered) /\ registered' = registered
  BY DEF Base, Shell, TypeOK, CallsKnown, workspaceVars
<1>2. Calls(q)
  BY DEF BeginEmpty, BeginHit, BeginWalk
<1>3. /\ Caller(q) \in Seq(Frame) /\ KnownStack(Caller(q), registered)
      /\ Caller(q) # <<>> => Awaits(Top(Caller(q)), q)
  BY <1>1, <1>2, CallerShape, KnownCaller
<1>4. CASE BeginHit(q)
  <2>1. /\ stack' = ReturnTo(RecordOnParent(Caller(q), q, fp[q], dur[q]),
                             CachedValue(q))
        /\ UNCHANGED <<state, deps>>
    BY <1>4 DEF BeginHit
  <2>2. /\ CachedValue(q) \in Results /\ fp[q] \in Results \cup {None}
        /\ dur[q] \in Tiers
    BY <1>1 DEF TypeOK, CachedValue, Results
  <2>3. KnownStack(stack', registered)
    BY <1>3, <2>1, <2>2, KnownReceived
  <2> QED
    BY <1>1, <2>1, <2>3 DEF CallsKnown
<1>5. CASE BeginEmpty(q) \/ BeginWalk(q)
  <2>1. q \in Derived
    BY <1>5, PushedDerived DEF BeginEmpty, BeginWalk
  <2>2. PICK mode \in {"walk", "body"}, prev \in {"DONE", "ERROR", "EMPTY"} :
          /\ stack' = Append(Caller(q), NewFrame(q, mode, prev))
          /\ state' = [state EXCEPT ![q] = "RUNNING"]
          /\ UNCHANGED deps
    BY <1>5 DEF BeginEmpty, BeginWalk
  <2> DEFINE f == NewFrame(q, mode, prev)
  <2>3. f \in Frame
    <3>1. <<>> \in ValueSeqs
      BY ConstantsAssumption DEF ValueSeqs
    <3>2. deps[q] \in Seq(Dep)
      BY <1>1 DEF TypeOK
    <3> QED
      BY <2>1, <3>1, <3>2 DEF NewFrame, Frame, FrameFields, Tiers, DUR_LOW,
                              DUR_HIGH
  <2>4. KnownFrame(f, registered)
    <3>1. f.deps = deps[q] /\ f.vals = <<>>
      BY DEF NewFrame
    <3>2. About(deps[q], registered)
      BY <1>1, <2>1 DEF CallsKnown
    <3>3. ~(Len(f.vals) > 1)
      BY <3>1
    <3> HIDE DEF f
    <3> QED
      BY <3>1, <3>2, <3>3 DEF KnownFrame
  <2> HIDE DEF f
  <2>5. KnownStack(stack', registered)
    BY <1>3, <2>2, <2>3, <2>4, KnownPushed DEF f
  <2>6. \A p \in Derived : state'[p] \notin {"EMPTY", "ABSENT"} =>
                              p[2] \in registered
    <3>1. state \in [Queries -> SlotStates] /\ Derived \subseteq Queries
      BY <1>1 DEF TypeOK, Queries
    <3> QED
      BY <1>1, <2>2, <3>1 DEF CallsKnown
  <2> QED
    BY <1>1, <2>2, <2>5, <2>6 DEF CallsKnown
<1> QED
  BY <1>4, <1>5

\* The walk and the end of a query keep to the files that have a row.
LEMMA ReturnKnown ==
    ASSUME Base, UNCHANGED workspaceVars,
           WalkNext \/ WalkFail \/ WalkEnd \/ Succeed
    PROVE  CallsKnown'
<1> USE DEF slotVars
<1> DEFINE t == Top(stack)
<1>1. /\ Shell /\ CallsKnown /\ TypeOK /\ stack \in Seq(Frame)
      /\ KnownStack(stack, registered) /\ registered' = registered
  BY DEF Base, Shell, TypeOK, CallsKnown, workspaceVars
<1>2. stack # <<>>
  BY DEF WalkNext, WalkFail, WalkEnd, Succeed, AtDep, Walking, Finishing
<1>3. /\ t \in Frame /\ t.q \in Derived /\ t.q \in Queries
      /\ state[t.q] = "RUNNING" /\ Len(stack) \in Nat \ {0}
  BY <1>1, <1>2, TopFrame, TopIsFrame
<1>4. t.q[2] \in registered
  BY <1>1, <1>3 DEF CallsKnown
<1>5. KnownFrame(t, registered)
  BY <1>1, <1>3 DEF KnownStack, Top
<1>6. t.q \notin Paths
  BY <1>3, DerivedKinds
<1>7. /\ state \in [Queries -> SlotStates] /\ Derived \subseteq Queries
      /\ deps \in [Queries -> Seq(Dep)]
  BY <1>1 DEF TypeOK, Queries
<1>8. CASE WalkNext
  <2> DEFINE f == [t EXCEPT !.i = @ + 1, !.pulled = FALSE]
  <2>1. stack' = OnTop(stack, f) /\ UNCHANGED <<state, deps>>
    BY <1>8 DEF WalkNext
  <2>2. f.q = t.q /\ f.deps = t.deps /\ f.vals = t.vals
    BY <1>3 DEF Frame, FrameFields
  <2> HIDE DEF f, t
  <2>3. KnownFrame(f, registered)
    BY <1>5, <2>2 DEF KnownFrame
  <2>4. KnownStack(stack', registered)
    BY <1>1, <1>2, <2>1, <2>3, KnownReplaced
  <2> QED
    BY <1>1, <2>1, <2>4 DEF CallsKnown
<1>9. CASE WalkFail
  <2> DEFINE f == [t EXCEPT !.mode = "body", !.deps = <<>>, !.pulled = FALSE]
  <2>1. stack' = OnTop(stack, f) /\ UNCHANGED <<state, deps>>
    BY <1>9 DEF WalkFail
  <2>2. f.q = t.q /\ f.deps = <<>> /\ f.vals = t.vals
    BY <1>3 DEF Frame, FrameFields
  <2> HIDE DEF f, t
  <2>3. KnownFrame(f, registered)
    BY <1>5, <2>2 DEF KnownFrame, About
  <2>4. KnownStack(stack', registered)
    BY <1>1, <1>2, <2>1, <2>3, KnownReplaced
  <2> QED
    BY <1>1, <2>1, <2>4 DEF CallsKnown
<1>10. CASE WalkEnd \/ Succeed
  <2>1. PICK s \in {"DONE", "ERROR", "EMPTY"}, x \in Results \cup {None},
             d \in Tiers, v \in Results :
          /\ state' = [state EXCEPT ![t.q] = s]
          /\ deps' = [deps EXCEPT ![t.q] = t.deps]
          /\ stack' = ReturnTo(RecordOnParent(Popped(stack), t.q, x, d), v)
    <3>1. CASE WalkEnd
      <4> DEFINE v == IF t.prev = "DONE" THEN column[t.q] ELSE Bottom
      <4>1. /\ t.prev \in {"DONE", "ERROR", "EMPTY"}
            /\ fp[t.q] \in Results \cup {None} /\ dur[t.q] \in Tiers
            /\ v \in Results
        BY <1>1, <1>3 DEF TypeOK, Frame, FrameFields, Results
      <4>2. /\ state' = [state EXCEPT ![t.q] = t.prev]
            /\ deps' = [deps EXCEPT ![t.q] = t.deps]
            /\ stack' = ReturnTo(RecordOnParent(Popped(stack), t.q, fp[t.q],
                                                dur[t.q]), v)
        BY <3>1 DEF WalkEnd
      <4> QED
        BY <4>1, <4>2
    <3>2. CASE Succeed
      <4>1. Upcoming(t).val \in Results /\ FrameDur(t) \in Tiers
        <5>1. Upcoming(t) \in Operations
          BY <1>3, UpcomingIsOperation
        <5> QED
          BY <1>3, <5>1, FrameDurType DEF Operations, Results
      <4>2. /\ state' = [state EXCEPT ![t.q] = "DONE"]
            /\ deps' = [deps EXCEPT ![t.q] = t.deps]
            /\ stack' = ReturnTo(RecordOnParent(Popped(stack), t.q,
                                      Upcoming(t).val, FrameDur(t)),
                                 Upcoming(t).val)
        BY <3>2 DEF Succeed
      <4> QED
        BY <4>1, <4>2
    <3> QED
      BY <1>10, <3>1, <3>2
  <2>2. /\ Popped(stack) \in Seq(Frame)
        /\ KnownStack(Popped(stack), registered)
        /\ Popped(stack) # <<>> => Awaits(Top(Popped(stack)), t.q)
    <3>1. StackInv(stack, running)
      BY <1>1, ShellShape
    <3> QED
      BY <1>1, <1>2, <3>1, PoppedFrames, KnownPopped, ShapePopped DEF StackInv
  <2> HIDE DEF t
  <2>3. KnownStack(stack', registered)
    BY <1>3, <1>4, <1>6, <2>1, <2>2, KnownReceived
  <2>4. \A p \in Derived : state'[p] \notin {"EMPTY", "ABSENT"} =>
                              p[2] \in registered
    BY <1>1, <1>3, <1>4, <1>7, <2>1 DEF CallsKnown
  <2>5. \A p \in Derived : About(deps'[p], registered)
    <3>1. About(t.deps, registered)
      BY <1>5 DEF KnownFrame
    <3>2. \A p \in Derived : deps'[p] = IF p = t.q THEN t.deps ELSE deps[p]
      BY <1>3, <1>7, <2>1
    <3> QED
      BY <1>1, <3>1, <3>2 DEF CallsKnown
  <2> QED
    BY <1>1, <2>3, <2>4, <2>5 DEF CallsKnown
<1> QED
  BY <1>8, <1>9, <1>10

\* Every query step preserves Base.
LEMMA QueryBase ==
    ASSUME Base, Query
    PROVE  Base'
<1>1. Shell' /\ Machinery /\ UNCHANGED workspaceVars
  BY QueryShell
<1>2. InputsHeld' /\ FollowsDisk'
  BY <1>1, EngineInputs
<1>3. CallsKnown'
  <2>1. CASE \E q \in Queries \ Paths :
               /\ stack = <<>> => q[2] \in registered
               /\ BeginEmpty(q) \/ BeginHit(q) \/ BeginWalk(q)
    <3>1. PICK q \in Queries \ Paths :
                 /\ stack = <<>> => q[2] \in registered
                 /\ BeginEmpty(q) \/ BeginHit(q) \/ BeginWalk(q)
      BY <2>1
    <3>2. Calls(q)
      BY <3>1 DEF BeginEmpty, BeginHit, BeginWalk
    <3>3. q[2] \in registered
      BY <3>1, <3>2, CalledKnown
    <3> QED
      BY <1>1, <3>1, <3>3, BeginKnown
  <2>2. CASE WalkNext \/ WalkFail \/ WalkEnd \/ Succeed
    BY <1>1, <2>2, ReturnKnown
  <2> QED
    BY <2>1, <2>2 DEF Query
<1>4. UNCHANGED <<cur, req, cancel>>
  BY DEF Query, BeginEmpty, BeginHit, BeginWalk, WalkNext, WalkFail, WalkEnd,
         Succeed, revVars
<1>5. Ledger'
  BY <1>1, <1>4 DEF Base, Ledger, workspaceVars
<1> QED
  BY <1>1, <1>2, <1>3, <1>5 DEF Base

\* So do the ends of a request.  What is reclaimed becomes EMPTY.
LEMMA RequestBase ==
    ASSUME Base, RequestBegin(cur) \/ RequestEnd, UNCHANGED workspaceVars
    PROVE  Base'
<1>1. Shell /\ CallsKnown /\ Ledger /\ TypeOK
  BY DEF Base, Shell
<1>2. Shell' /\ Machinery
  <2>1. cur \in 1 .. MaxRev
    BY <1>1 DEF TypeOK
  <2> QED
    BY <1>1, <2>1, RequestBeginStep, RequestEndStep DEF Machinery
<1>3. InputsHeld' /\ FollowsDisk'
  BY <1>2, EngineInputs
<1>4. /\ stack' = stack /\ stack = <<>> /\ cur' = cur /\ req' \in {0, cur}
      /\ cancel' = FALSE
  BY <1>1 DEF RequestBegin, RequestEnd, Ledger
<1>5. Ledger'
  BY <1>1, <1>4 DEF Ledger, workspaceVars
<1>6. CallsKnown'
  <2>1. KnownStack(stack', registered')
    BY <1>4 DEF KnownStack
  <2>2. ASSUME NEW q \in Derived
        PROVE  /\ state'[q] \notin {"EMPTY", "ABSENT"} => state'[q] = state[q]
               /\ deps'[q] \in {<<>>, deps[q]}
    <3>1. q \in Queries
      BY DEF Queries
    <3> QED
      BY <3>1 DEF RequestBegin, RequestEnd, slotVars
  <2>3. registered' = registered
    BY DEF workspaceVars
  <2>4. \A q \in Derived : About(deps'[q], registered)
    BY <1>1, <2>2 DEF CallsKnown, About
  <2> QED
    BY <1>1, <2>1, <2>2, <2>3, <2>4 DEF CallsKnown
<1> QED
  BY <1>2, <1>3, <1>5, <1>6 DEF Base

-----------------------------------------------------------------------------
(* The setters.                                                              *)

\* A step that writes slots without starting or ending a query keeps Shell.
LEMMA ShellWrite ==
    ASSUME Shell, TypeOK', StackInv(stack', running),
           Holds(stack') = Holds(stack), UNCHANGED <<running, cancel, req>>,
           req = 0 => stack' = stack,
           \A q \in Queries : state'[q] = "RUNNING" <=> state[q] = "RUNNING"
    PROVE  Shell'
<1>1. StackInv(stack, running) /\ RunningInv(state, stack, running, cancel)
  BY ShellShape
<1>2. Holds(stack) \subseteq Queries
  <2>1. \A k \in DOMAIN stack : stack[k] \in Frame
    BY <1>1 DEF StackInv
  <2> QED
    BY <2>1 DEF Holds, Frame, FrameFields, Queries
<1>3. RunningInv(state', stack', running', cancel')
  BY <1>1, <1>2 DEF RunningInv
<1>4. NoRunningBetweenRequests'
  BY DEF Shell, NoRunningBetweenRequests
<1> QED
  BY <1>3, <1>4, ShellShapePrime

\* The text of a file that has a row is set, and the file is a member again.
LEMMA ApplyEffect ==
    ASSUME Base, NEW f \in registered, NEW t \in Texts, ApplyText(f, t)
    PROVE  /\ req = 0 /\ stack = <<>> /\ evicted' = evicted \ {f}
           /\ UNCHANGED <<state, dur, deps, stack, req, cancel, running,
                          registered>>
           /\ column' \in [Queries -> Results]
           /\ fp' \in [Queries -> Results \cup {None}]
           /\ vrev' \in [Queries -> 0 .. cur']
           /\ cur' \in 1 .. MaxRev /\ lastChanged' \in [Tiers -> 1 .. cur']
           /\ \A q \in Queries :
                /\ column'[q] = IF q = Src(f) THEN t
                                ELSE IF q = Set(f) THEN Members(<<f>>)
                                ELSE column[q]
                /\ fp'[q] = IF q = Src(f) THEN t
                            ELSE IF q = Set(f) THEN Members(<<f>>) ELSE fp[q]
                /\ q \in Derived => vrev'[q] = vrev[q]
           /\ \/ /\ t = fp[Src(f)] /\ f \notin evicted
                 /\ UNCHANGED <<cur, lastChanged>>
              \/ cur' = cur + 1 /\ lastChanged'[DUR_LOW] = cur + 1
<1>1. /\ Shell /\ TypeOK /\ HeldInput(f) /\ f \in Files
      /\ column \in [Queries -> Results]
      /\ fp \in [Queries -> Results \cup {None}]
      /\ vrev \in [Queries -> 0 .. cur] /\ cur \in Nat \ {0}
  BY ConstantsAssumption DEF Base, Shell, TypeOK, InputsHeld, Ledger
<1>2. /\ Src(f) \in Queries /\ Set(f) \in Queries /\ Src(f) # Set(f)
      /\ Src(f) \notin Derived /\ Set(f) \notin Derived
  BY <1>1, InputQueries, QueriesDiffer
<1>3. Readmitted(f) = Members(<<f>>)
  <2>1. CASE f \in evicted
    <3>1. MembersOf(f) = <<>>
      BY <1>1, <2>1, ValuesDiffer DEF HeldInput, MembersOf
    <3>2. Append(MembersOf(f), f) = <<f>>
      BY <3>1
    <3> QED
      BY <2>1, <3>2 DEF Readmitted
  <2>2. CASE f \notin evicted
    BY <1>1, <2>2 DEF Readmitted, HeldInput
  <2> QED
    BY <2>1, <2>2
<1>4. t \in Results /\ Members(<<f>>) \in Results /\ Bottom \notin Texts
  BY <1>1, WorkspaceAssumption, QueriesAssumption DEF Results
<1>5. /\ evicted' = evicted \ {f}
      /\ UNCHANGED <<state, dur, deps, stack, req, cancel, running, registered>>
  BY DEF ApplyText
<1>6. CASE SameText(f, t)
  <2>1. /\ req = 0 /\ column' = [column EXCEPT ![Set(f)] = Members(<<f>>)]
        /\ fp' = [fp EXCEPT ![Set(f)] = Members(<<f>>)]
        /\ UNCHANGED <<vrev, cur, lastChanged>>
    BY <1>3, <1>6 DEF ApplyText
  <2>2. t = fp[Src(f)] /\ f \notin evicted /\ column[Src(f)] = t
    BY <1>1, <1>6 DEF SameText, HeldInput
  <2>3. stack = <<>>
    BY <1>1, <2>1 DEF Shell, NoRunningBetweenRequests
  <2>4. cur' \in 1 .. MaxRev /\ lastChanged' \in [Tiers -> 1 .. cur']
    BY <1>1, <2>1 DEF TypeOK
  <2>5. column' \in [Queries -> Results] /\ fp' \in [Queries -> Results \cup {None}]
    BY <1>1, <1>2, <1>4, <2>1
  <2>6. vrev' \in [Queries -> 0 .. cur']
    BY <1>1, <2>1
  <2>7. \A q \in Queries :
          /\ column'[q] = IF q = Src(f) THEN t
                          ELSE IF q = Set(f) THEN Members(<<f>>) ELSE column[q]
          /\ fp'[q] = IF q = Src(f) THEN t
                      ELSE IF q = Set(f) THEN Members(<<f>>) ELSE fp[q]
    BY <1>1, <1>2, <2>1, <2>2
  <2> QED
    BY <1>5, <2>1, <2>2, <2>3, <2>4, <2>5, <2>6, <2>7
<1>7. CASE ~SameText(f, t)
  <2>1. /\ Changed(DUR_LOW)
        /\ column' = [column EXCEPT ![Src(f)] = t, ![Set(f)] = Members(<<f>>)]
        /\ fp' = [fp EXCEPT ![Src(f)] = t, ![Set(f)] = Members(<<f>>)]
        /\ vrev' = [vrev EXCEPT ![Src(f)] = cur',
                                ![Set(f)] = IF f \in evicted THEN cur ELSE @]
    BY <1>3, <1>7 DEF ApplyText, TextChanged
  <2>2. DUR_LOW \in Tiers
    BY DEF Tiers, DUR_LOW, DUR_HIGH
  <2>3. /\ req = 0 /\ cur' = cur + 1 /\ cur' \in 1 .. MaxRev
        /\ lastChanged' \in [Tiers -> 1 .. cur']
    BY <1>1, <2>1, <2>2, ChangedType
  <2>4. lastChanged'[DUR_LOW] = cur + 1
    BY <2>1, <2>2 DEF Changed, DUR_LOW
  <2>5. stack = <<>>
    BY <1>1, <2>3 DEF Shell, NoRunningBetweenRequests
  <2>6. column' \in [Queries -> Results] /\ fp' \in [Queries -> Results \cup {None}]
    BY <1>1, <1>2, <1>4, <2>1
  <2>7. vrev' \in [Queries -> 0 .. cur']
    <3>1. cur' \in 0 .. cur' /\ cur \in 0 .. cur' /\ 0 .. cur \subseteq 0 .. cur'
      BY <1>1, <2>3
    <3>2. vrev \in [Queries -> 0 .. cur'] /\ vrev[Set(f)] \in 0 .. cur'
      BY <1>1, <1>2, <3>1
    <3> QED
      BY <2>1, <3>1, <3>2
  <2>8. \A q \in Queries :
          /\ column'[q] = IF q = Src(f) THEN t
                          ELSE IF q = Set(f) THEN Members(<<f>>) ELSE column[q]
          /\ fp'[q] = IF q = Src(f) THEN t
                      ELSE IF q = Set(f) THEN Members(<<f>>) ELSE fp[q]
          /\ q \in Derived => vrev'[q] = vrev[q]
    BY <1>1, <1>2, <2>1
  <2> QED
    BY <1>5, <2>3, <2>4, <2>5, <2>6, <2>7, <2>8
<1> QED
  BY <1>6, <1>7

\* Removing the only member, or a file that is not one, leaves no member.
LEMMA RemovedMember ==
    ASSUME NEW f
    PROVE  RemoveFirst(<<f>>, f) = <<>> /\ RemoveFirst(<<>>, f) = <<>>
<1>1. SelectInSeq(<<f>>, LAMBDA v : v = f) = 1
  BY DEF SelectInSeq, Min
<1>2. SelectInSeq(<<>>, LAMBDA v : v = f) = 0
  BY DEF SelectInSeq
<1>3. RemoveAt(<<f>>, 1) = <<>>
  BY DEF RemoveAt
<1> QED
  BY <1>1, <1>2, <1>3 DEF RemoveFirst, RemoveFirstMatch

\* An evicted file has no text, no tree and no place in its namespace.
LEMMA EvictEffect ==
    ASSUME Base, NEW f \in registered, Evict(f)
    PROVE  /\ req = 0 /\ stack = <<>> /\ evicted' = evicted \cup {f}
           /\ UNCHANGED <<state, dur, deps, stack, req, cancel, running,
                          registered>>
           /\ column' \in [Queries -> Results]
           /\ fp' \in [Queries -> Results \cup {None}]
           /\ vrev' \in [Queries -> 0 .. cur']
           /\ cur' \in 1 .. MaxRev /\ lastChanged' \in [Tiers -> 1 .. cur']
           /\ \A q \in Queries :
                /\ column'[q] = IF q \in {Src(f), Ast(f)} THEN Bottom
                                ELSE IF q = Set(f) THEN Members(<<>>)
                                ELSE column[q]
                /\ fp'[q] = IF q = Set(f) THEN Members(<<>>) ELSE fp[q]
                /\ q \in Derived => vrev'[q] = vrev[q]
           /\ cur' = cur + 1 /\ lastChanged'[DUR_LOW] = cur + 1
<1>1. /\ Shell /\ TypeOK /\ HeldInput(f) /\ f \in Files
      /\ column \in [Queries -> Results]
      /\ fp \in [Queries -> Results \cup {None}]
      /\ vrev \in [Queries -> 0 .. cur] /\ cur \in Nat \ {0}
  BY ConstantsAssumption DEF Base, Shell, TypeOK, InputsHeld, Ledger
<1>2. /\ Src(f) \in Queries /\ Set(f) \in Queries /\ Src(f) # Set(f)
      /\ Src(f) \notin Derived /\ Set(f) \notin Derived
      /\ Ast(f) # Set(f)
  BY <1>1, InputQueries, QueriesDiffer DEF Ast, Set
<1>3. Members(RemoveFirst(column[Set(f)].files, f)) = Members(<<>>)
  <2>1. column[Set(f)].files \in {<<>>, <<f>>}
    BY <1>1, ValuesDiffer DEF HeldInput
  <2> QED
    BY <2>1, RemovedMember
<1>4. Bottom \in Results /\ Members(<<>>) \in Results
  BY QueriesAssumption DEF Results
<1>5. column' = [column EXCEPT ![Src(f)] = Bottom, ![Ast(f)] = Bottom,
                               ![Set(f)] = Members(<<>>)]
  BY <1>3 DEF Evict, WithoutFile, MembersOf
<1>6. /\ evicted' = evicted \cup {f}
      /\ column' = WithoutFile(f)
      /\ fp' = [fp EXCEPT ![Set(f)] = WithoutFile(f)[Set(f)]]
      /\ vrev' = [vrev EXCEPT ![Set(f)] = cur]
      /\ Changed(DUR_MEDIUM)
      /\ UNCHANGED <<state, dur, deps, stack, req, cancel, running, registered>>
  BY DEF Evict
<1>7. column'[Set(f)] = Members(<<>>)
  BY <1>1, <1>2, <1>5
<1>8. fp' = [fp EXCEPT ![Set(f)] = Members(<<>>)]
  BY <1>6, <1>7
<1>9. DUR_MEDIUM \in Tiers /\ DUR_LOW \in Tiers /\ DUR_LOW <= DUR_MEDIUM
  BY DEF Tiers, DUR_LOW, DUR_MEDIUM, DUR_HIGH
<1>10. /\ req = 0 /\ cur' = cur + 1 /\ cur' \in 1 .. MaxRev
       /\ lastChanged' \in [Tiers -> 1 .. cur']
  BY <1>1, <1>6, <1>9, ChangedType
<1>11. lastChanged'[DUR_LOW] = cur + 1
  BY <1>6, <1>9 DEF Changed
<1>12. stack = <<>>
  BY <1>1, <1>10 DEF Shell, NoRunningBetweenRequests
<1>13. column' \in [Queries -> Results] /\ fp' \in [Queries -> Results \cup {None}]
  BY <1>1, <1>2, <1>4, <1>5, <1>8
<1>14. vrev' \in [Queries -> 0 .. cur']
  <2>1. cur \in 0 .. cur' /\ 0 .. cur \subseteq 0 .. cur'
    BY <1>1, <1>10
  <2>2. vrev \in [Queries -> 0 .. cur']
    BY <1>1, <2>1
  <2> QED
    BY <1>2, <1>6, <2>1, <2>2
<1>15. \A q \in Queries :
         /\ column'[q] = IF q \in {Src(f), Ast(f)} THEN Bottom
                         ELSE IF q = Set(f) THEN Members(<<>>) ELSE column[q]
         /\ fp'[q] = IF q = Set(f) THEN Members(<<>>) ELSE fp[q]
         /\ q \in Derived => vrev'[q] = vrev[q]
  BY <1>1, <1>2, <1>5, <1>6, <1>8
<1> QED
  BY <1>6, <1>10, <1>11, <1>12, <1>13, <1>14, <1>15

\* A file that had no row has its text and is a member.
LEMMA CreatedEffect ==
    ASSUME Base, NEW f \in Files \ registered, NEW t \in Texts, NEW r,
           Created(f, t, r), cur' \in {cur, cur + 1}, r \in {cur, cur'}
    PROVE  /\ registered' = registered \cup {f}
           /\ column' \in [Queries -> Results]
           /\ fp' \in [Queries -> Results \cup {None}]
           /\ state' \in [Queries -> SlotStates]
           /\ vrev' \in [Queries -> 0 .. cur']
           /\ dur' \in [Queries -> Tiers]
           /\ column'[Src(f)] = t /\ column'[Set(f)] = Members(<<f>>)
           /\ fp'[Src(f)] = t /\ fp'[Set(f)] = Members(<<f>>)
           /\ state'[Src(f)] = "DONE" /\ state'[Set(f)] = "DONE"
           /\ dur'[Src(f)] = DUR_LOW /\ dur'[Set(f)] = DUR_MEDIUM
           /\ \A q \in Queries : q \notin {Src(f), Set(f)} =>
                /\ column'[q] = column[q] /\ fp'[q] = fp[q]
                /\ state'[q] = state[q] /\ vrev'[q] = vrev[q]
                /\ dur'[q] = dur[q]
<1>1. /\ column \in [Queries -> Results]
      /\ fp \in [Queries -> Results \cup {None}]
      /\ state \in [Queries -> SlotStates]
      /\ vrev \in [Queries -> 0 .. cur] /\ cur \in Nat \ {0}
      /\ dur \in [Queries -> Tiers]
  BY ConstantsAssumption DEF Base, Shell, TypeOK
<1>2. /\ Src(f) \in Queries /\ Set(f) \in Queries /\ Src(f) # Set(f)
  BY InputQueries, QueriesDiffer
<1>3. /\ registered' = registered \cup {f}
      /\ column' = [column EXCEPT ![Src(f)] = t, ![Set(f)] = Members(<<f>>)]
      /\ fp' = [fp EXCEPT ![Src(f)] = t, ![Set(f)] = Members(<<f>>)]
      /\ state' = [state EXCEPT ![Src(f)] = "DONE", ![Set(f)] = "DONE"]
      /\ vrev' = [vrev EXCEPT ![Src(f)] = cur, ![Set(f)] = r]
      /\ dur' = [dur EXCEPT ![Src(f)] = DUR_LOW, ![Set(f)] = DUR_MEDIUM]
  BY DEF Created
<1>4. t \in Results /\ Members(<<f>>) \in Results
  BY WorkspaceAssumption, QueriesAssumption DEF Results
<1>5. vrev' \in [Queries -> 0 .. cur']
  <2>1. /\ cur \in 0 .. cur' /\ r \in 0 .. cur' /\ 0 .. cur \subseteq 0 .. cur'
    BY <1>1
  <2>2. vrev \in [Queries -> 0 .. cur']
    BY <1>1, <2>1
  <2> QED
    BY <1>2, <1>3, <2>1, <2>2
<1>6. column' \in [Queries -> Results] /\ fp' \in [Queries -> Results \cup {None}]
  BY <1>1, <1>2, <1>3, <1>4
<1>7. state' \in [Queries -> SlotStates] /\ dur' \in [Queries -> Tiers]
  BY <1>1, <1>2, <1>3 DEF SlotStates, Tiers, DUR_LOW, DUR_MEDIUM, DUR_HIGH
<1>8. /\ column'[Src(f)] = t /\ column'[Set(f)] = Members(<<f>>)
      /\ fp'[Src(f)] = t /\ fp'[Set(f)] = Members(<<f>>)
  BY <1>1, <1>2, <1>3
<1>9. /\ state'[Src(f)] = "DONE" /\ state'[Set(f)] = "DONE"
      /\ dur'[Src(f)] = DUR_LOW /\ dur'[Set(f)] = DUR_MEDIUM
  BY <1>1, <1>2, <1>3
<1>10. \A q \in Queries : q \notin {Src(f), Set(f)} =>
         /\ column'[q] = column[q] /\ fp'[q] = fp[q]
         /\ state'[q] = state[q] /\ vrev'[q] = vrev[q]
         /\ dur'[q] = dur[q]
  BY <1>1, <1>3
<1> QED
  BY <1>3, <1>5, <1>6, <1>7, <1>8, <1>9, <1>10

\* A text that is set, or a file that is evicted, touches no other file.
LEMMA HeldElsewhere ==
    ASSUME Base, NEW f \in Files, NEW g \in registered, g # f,
           state'[Src(g)] = state[Src(g)], state'[Set(g)] = state[Set(g)],
           dur'[Src(g)] = dur[Src(g)], dur'[Set(g)] = dur[Set(g)],
           \A q \in Queries : q \notin {Src(f), Set(f), Ast(f)} =>
              column'[q] = column[q] /\ fp'[q] = fp[q],
           g \in evicted' <=> g \in evicted
    PROVE  HeldInput(g)' /\ column'[Src(g)] = column[Src(g)]
<1>1. HeldInput(g) /\ g \in Files
  BY DEF Base, InputsHeld, Ledger
<1>2. /\ Src(g) \in Queries /\ Set(g) \in Queries
      /\ Src(g) \notin {Src(f), Set(f), Ast(f)}
      /\ Set(g) \notin {Src(f), Set(f), Ast(f)}
  BY <1>1, InputQueries, QueriesDiffer DEF Src, Set, Ast
<1>3. /\ column'[Src(g)] = column[Src(g)] /\ fp'[Src(g)] = fp[Src(g)]
      /\ column'[Set(g)] = column[Set(g)] /\ fp'[Set(g)] = fp[Set(g)]
  BY <1>2
<1> QED
  BY <1>1, <1>3 DEF HeldInput

\* What workspace_did_change does to Base, but for what the disk holds.
LEMMA ApplyBase ==
    ASSUME Base, NEW f \in registered, NEW t \in Texts, ApplyText(f, t),
           answer' = NoAnswer
    PROVE  /\ Shell' /\ InputsHeld' /\ CallsKnown' /\ column'[Src(f)] = t
           /\ evicted' \subseteq registered' /\ registered' = registered
           /\ cancel' = FALSE /\ req' \in {0, cur'}
           /\ \A g \in registered : g # f => column'[Src(g)] = column[Src(g)]
<1>1. /\ Shell /\ TypeOK /\ InputsHeld /\ CallsKnown /\ Ledger /\ f \in Files
  BY DEF Base, Shell, Ledger
<1>2. /\ req = 0 /\ stack = <<>> /\ evicted' = evicted \ {f}
      /\ UNCHANGED <<state, dur, deps, stack, req, cancel, running, registered>>
      /\ column' \in [Queries -> Results]
      /\ fp' \in [Queries -> Results \cup {None}]
      /\ vrev' \in [Queries -> 0 .. cur']
      /\ cur' \in 1 .. MaxRev /\ lastChanged' \in [Tiers -> 1 .. cur']
      /\ \A q \in Queries :
           /\ column'[q] = IF q = Src(f) THEN t
                           ELSE IF q = Set(f) THEN Members(<<f>>) ELSE column[q]
           /\ fp'[q] = IF q = Src(f) THEN t
                       ELSE IF q = Set(f) THEN Members(<<f>>) ELSE fp[q]
  BY ApplyEffect
<1>3. Shell'
  <2>1. req' \in 0 .. cur'
    BY <1>2 DEF TypeOK
  <2>2. answer' \in [q : Queries \cup {None}, val : Results \cup {None}]
    BY DEF NoAnswer
  <2>3. TypeOK'
    BY <1>1, <1>2, <2>1, <2>2 DEF TypeOK
  <2>4. StackInv(stack', running) /\ Holds(stack') = Holds(stack)
    BY <1>1, <1>2, ShellShape
  <2> QED
    BY <1>1, <1>2, <2>3, <2>4, ShellWrite
<1>4. /\ Src(f) \in Queries /\ Set(f) \in Queries /\ Src(f) # Set(f)
  BY <1>1, InputQueries, QueriesDiffer
<1>5. column'[Src(f)] = t /\ fp'[Src(f)] = t
      /\ column'[Set(f)] = Members(<<f>>) /\ fp'[Set(f)] = Members(<<f>>)
  BY <1>2, <1>4
<1>6. HeldInput(f)'
  BY <1>1, <1>2, <1>5 DEF InputsHeld, HeldInput
<1>7. \A g \in registered : g # f =>
         HeldInput(g)' /\ column'[Src(g)] = column[Src(g)]
  BY <1>1, <1>2, HeldElsewhere
<1>8. InputsHeld'
  BY <1>1, <1>2, <1>6, <1>7 DEF InputsHeld
<1>9. CallsKnown'
  BY <1>1, <1>2 DEF CallsKnown
<1> QED
  BY <1>1, <1>2, <1>3, <1>5, <1>7, <1>8, <1>9 DEF Ledger

\* What workspace_did_evict_source does to Base.
LEMMA EvictBase ==
    ASSUME Base, NEW f \in registered, Evict(f), answer' = NoAnswer
    PROVE  /\ Shell' /\ InputsHeld' /\ CallsKnown'
           /\ evicted' = evicted \cup {f} /\ registered' = registered
           /\ cancel' = FALSE /\ req' \in {0, cur'}
           /\ \A g \in registered : g # f => column'[Src(g)] = column[Src(g)]
<1>1. /\ Shell /\ TypeOK /\ InputsHeld /\ CallsKnown /\ Ledger /\ f \in Files
  BY DEF Base, Shell, Ledger
<1>2. /\ req = 0 /\ stack = <<>> /\ evicted' = evicted \cup {f}
      /\ UNCHANGED <<state, dur, deps, stack, req, cancel, running, registered>>
      /\ column' \in [Queries -> Results]
      /\ fp' \in [Queries -> Results \cup {None}]
      /\ vrev' \in [Queries -> 0 .. cur']
      /\ cur' \in 1 .. MaxRev /\ lastChanged' \in [Tiers -> 1 .. cur']
      /\ \A q \in Queries :
           /\ column'[q] = IF q \in {Src(f), Ast(f)} THEN Bottom
                           ELSE IF q = Set(f) THEN Members(<<>>) ELSE column[q]
           /\ fp'[q] = IF q = Set(f) THEN Members(<<>>) ELSE fp[q]
  BY EvictEffect
<1>3. Shell'
  <2>1. req' \in 0 .. cur'
    BY <1>2 DEF TypeOK
  <2>2. answer' \in [q : Queries \cup {None}, val : Results \cup {None}]
    BY DEF NoAnswer
  <2>3. TypeOK'
    BY <1>1, <1>2, <2>1, <2>2 DEF TypeOK
  <2>4. StackInv(stack', running) /\ Holds(stack') = Holds(stack)
    BY <1>1, <1>2, ShellShape
  <2> QED
    BY <1>1, <1>2, <2>3, <2>4, ShellWrite
<1>4. /\ Src(f) \in Queries /\ Set(f) \in Queries /\ Src(f) # Set(f)
      /\ Set(f) # Ast(f)
  BY <1>1, InputQueries, QueriesDiffer DEF Set, Ast
<1>5. column'[Src(f)] = Bottom /\ fp'[Src(f)] = fp[Src(f)]
      /\ column'[Set(f)] = Members(<<>>) /\ fp'[Set(f)] = Members(<<>>)
  BY <1>2, <1>4
<1>6. HeldInput(f)'
  BY <1>1, <1>2, <1>5 DEF InputsHeld, HeldInput
<1>7. \A g \in registered : g # f =>
         HeldInput(g)' /\ column'[Src(g)] = column[Src(g)]
  BY <1>1, <1>2, HeldElsewhere
<1>8. InputsHeld'
  BY <1>1, <1>2, <1>6, <1>7 DEF InputsHeld
<1>9. CallsKnown'
  BY <1>1, <1>2 DEF CallsKnown
<1> QED
  BY <1>1, <1>2, <1>3, <1>7, <1>8, <1>9 DEF Ledger

\* More rows, and what is known stays known.
LEMMA KnownMono ==
    ASSUME NEW s, NEW R, NEW Q, R \subseteq Q, KnownStack(s, R)
    PROVE  KnownStack(s, Q)
BY DEF KnownStack, KnownFrame, About

\* A new row preserves Base, whether an editor opens the file between two
\* requests or an @import loads it inside a body.
LEMMA CreatedBase ==
    ASSUME Base, NEW f \in Files \ registered, NEW t \in Texts, NEW r,
           Created(f, t, r), cur' \in {cur, cur + 1}, r \in {cur, cur'},
           cur' \in 1 .. MaxRev, lastChanged' \in [Tiers -> 1 .. cur'],
           answer' \in [q : Queries \cup {None}, val : Results \cup {None}],
           UNCHANGED <<deps, running, cancel, req, evicted>>,
           req' \in {0, cur'}, req = 0 => stack' = stack,
           StackInv(stack', running), Holds(stack') = Holds(stack),
           KnownStack(stack', registered')
    PROVE  /\ Shell' /\ InputsHeld' /\ CallsKnown'
           /\ column'[Src(f)] = t /\ registered' = registered \cup {f}
           /\ \A g \in registered : column'[Src(g)] = column[Src(g)]
<1>1. /\ Shell /\ TypeOK /\ InputsHeld /\ CallsKnown /\ Ledger
  BY DEF Base, Shell
<1>2. /\ registered' = registered \cup {f}
      /\ column' \in [Queries -> Results]
      /\ fp' \in [Queries -> Results \cup {None}]
      /\ state' \in [Queries -> SlotStates]
      /\ vrev' \in [Queries -> 0 .. cur']
      /\ dur' \in [Queries -> Tiers]
      /\ column'[Src(f)] = t /\ column'[Set(f)] = Members(<<f>>)
      /\ fp'[Src(f)] = t /\ fp'[Set(f)] = Members(<<f>>)
      /\ state'[Src(f)] = "DONE" /\ state'[Set(f)] = "DONE"
      /\ dur'[Src(f)] = DUR_LOW /\ dur'[Set(f)] = DUR_MEDIUM
      /\ \A q \in Queries : q \notin {Src(f), Set(f)} =>
           /\ column'[q] = column[q] /\ fp'[q] = fp[q]
           /\ state'[q] = state[q] /\ dur'[q] = dur[q]
  BY CreatedEffect
<1>3. /\ Src(f) \in Queries /\ Set(f) \in Queries
      /\ Src(f) \notin Derived /\ Set(f) \notin Derived
  BY InputQueries
<1>4. Shell'
  <2>1. TypeOK'
    <3>1. stack' \in Seq(Frame)
      BY DEF StackInv
    <3>2. req' \in 0 .. cur'
      OBVIOUS
    <3> QED
      BY <1>1, <1>2, <3>1, <3>2 DEF TypeOK
  <2>2. state[Src(f)] # "RUNNING" /\ state[Set(f)] # "RUNNING"
    <3>1. RunningInv(state, stack, running, cancel) /\ StackInv(stack, running)
      BY <1>1, ShellShape
    <3>2. Holds(stack) \subseteq Derived
      <4>1. \A k \in DOMAIN stack : stack[k] \in Frame
        BY <3>1 DEF StackInv
      <4> QED
        BY <4>1 DEF Holds, Frame, FrameFields
    <3>3. cancel = FALSE
      BY <1>1 DEF Ledger
    <3> QED
      BY <1>3, <3>1, <3>2, <3>3 DEF RunningInv
  <2>3. \A q \in Queries : state'[q] = "RUNNING" <=> state[q] = "RUNNING"
    BY <1>2, <2>2
  <2> QED
    BY <1>1, <2>1, <2>3, ShellWrite
<1>5. ASSUME NEW g \in registered
      PROVE  HeldInput(g)' /\ column'[Src(g)] = column[Src(g)]
  <2>1. g # f /\ g \in Files
    BY <1>1 DEF Ledger
  <2>2. /\ Src(g) \in Queries /\ Set(g) \in Queries
        /\ Src(g) \notin {Src(f), Set(f)} /\ Set(g) \notin {Src(f), Set(f)}
    BY <2>1, InputQueries, QueriesDiffer
  <2> QED
    BY <1>2, <2>1, <2>2, HeldElsewhere
<1>6. HeldInput(f)'
  <2>1. f \notin evicted
    BY <1>1 DEF Ledger
  <2> QED
    BY <1>2, <2>1 DEF HeldInput
<1>7. InputsHeld'
  BY <1>1, <1>2, <1>5, <1>6 DEF InputsHeld
<1>8. CallsKnown'
  <2>1. \A q \in Derived : state'[q] = state[q]
    BY <1>2, <1>3 DEF Queries
  <2>2. \A q \in Derived : About(deps'[q], registered')
    BY <1>1, <1>2 DEF CallsKnown, About
  <2> QED
    BY <1>1, <1>2, <2>1, <2>2 DEF CallsKnown
<1> QED
  BY <1>2, <1>4, <1>5, <1>7, <1>8

\* workspace_did_open of a new file preserves Base.
LEMMA DidOpenBase ==
    ASSUME Base, NEW f \in Files, NEW t \in Texts, DidOpen(f, t)
    PROVE  Base'
<1>1. /\ Shell /\ Ledger /\ FollowsDisk /\ CallsKnown
  BY DEF Base
<1>2. /\ f \in Files \ registered /\ Changed(DUR_MEDIUM)
      /\ Created(f, t, cur + 1) /\ opened' = opened \cup {f}
      /\ answer' = NoAnswer
      /\ UNCHANGED <<deps, stack, req, cancel, running, evicted, disk, events>>
  BY DEF DidOpen
<1>3. DUR_MEDIUM \in Tiers
  BY DEF Tiers, DUR_LOW, DUR_MEDIUM, DUR_HIGH
<1>4. /\ req = 0 /\ cur' = cur + 1 /\ cur' \in 1 .. MaxRev
      /\ lastChanged' \in [Tiers -> 1 .. cur']
  BY <1>1, <1>2, <1>3, ChangedType
<1>5. /\ stack' = stack /\ StackInv(stack', running)
      /\ Holds(stack') = Holds(stack)
  BY <1>1, <1>2, ShellShape
<1>6. KnownStack(stack', registered')
  BY <1>1, <1>2, KnownMono DEF CallsKnown, Created
<1>7. answer' \in [q : Queries \cup {None}, val : Results \cup {None}]
  BY <1>2 DEF NoAnswer
<1>8. /\ Shell' /\ InputsHeld' /\ CallsKnown'
      /\ registered' = registered \cup {f}
      /\ \A g \in registered : column'[Src(g)] = column[Src(g)]
  <2>1. /\ req' \in {0, cur'} /\ cur' \in {cur, cur + 1}
        /\ cur + 1 \in {cur, cur'}
        /\ UNCHANGED <<deps, running, cancel, req, evicted>>
    BY <1>2, <1>4
  <2> QED
    BY <1>2, <1>4, <1>5, <1>6, <1>7, <2>1, CreatedBase
<1>9. Ledger'
  BY <1>1, <1>2, <1>4, <1>8 DEF Ledger
<1>10. FollowsDisk'
  BY <1>1, <1>2, <1>8 DEF FollowsDisk, Present
<1> QED
  BY <1>8, <1>9, <1>10 DEF Base

\* workspace_did_change preserves Base.
LEMMA DidChangeBase ==
    ASSUME Base, NEW f \in Files, NEW t \in Texts, DidChange(f, t)
    PROVE  Base'
<1>1. /\ f \in registered /\ ApplyText(f, t) /\ opened' = opened \cup {f}
      /\ answer' = NoAnswer /\ UNCHANGED <<disk, events>>
  BY DEF DidChange
<1>2. /\ Shell' /\ InputsHeld' /\ CallsKnown'
      /\ evicted' \subseteq registered' /\ registered' = registered
      /\ cancel' = FALSE /\ req' \in {0, cur'}
      /\ \A g \in registered : g # f => column'[Src(g)] = column[Src(g)]
  BY <1>1, ApplyBase
<1>3. evicted' = evicted \ {f}
  BY <1>1 DEF ApplyText
<1>4. Ledger'
  BY <1>1, <1>2 DEF Base, Ledger
<1>5. FollowsDisk'
  BY <1>1, <1>2, <1>3 DEF Base, FollowsDisk, Present
<1> QED
  BY <1>2, <1>4, <1>5 DEF Base

\* A write to the disk is followed by an event that makes the server look,
\* unless there was no file, which a present file's text already differs from.
LEMMA DiskWriteBase ==
    ASSUME Base, NEW f \in Files, NEW t \in TextsOf[f], DiskWrite(f, t)
    PROVE  Base'
<1>1. /\ Shell /\ TypeOK /\ Ledger /\ InputsHeld /\ CallsKnown /\ FollowsDisk
  BY DEF Base, Shell
<1> DEFINE e == [file |-> f,
                 type |-> IF t = Bottom THEN "deleted"
                          ELSE IF disk[f] = Bottom THEN "created"
                          ELSE "changed"]
<1>2. /\ disk' = [disk EXCEPT ![f] = t] /\ events' = Append(events, e)
      /\ UNCHANGED <<vars, registered, evicted, opened>>
  BY DEF DiskWrite
<1>3. UNCHANGED <<state, fp, vrev, dur, deps, column, stack, cur, req,
                  lastChanged, cancel, running, answer>>
  BY <1>2 DEF vars, slotVars, revVars
<1>4. Shell'
  BY <1>1, <1>2, StutterStep
<1>5. t \in Texts \cup {Bottom}
  BY WorkspaceAssumption
<1>6. /\ events \in Seq(Event) /\ e \in Event
      /\ disk \in [Files -> Texts \cup {Bottom}]
  BY <1>1 DEF Ledger, Event
<1>7. Ledger'
  <2>1. events' \in Seq(Event)
    BY <1>2, <1>6
  <2>2. disk' \in [Files -> Texts \cup {Bottom}]
    BY <1>2, <1>5, <1>6
  <2>3. \A g \in Files : disk'[g] \in TextsOf[g]
    BY <1>1, <1>2, <1>6 DEF Ledger
  <2> QED
    BY <1>1, <1>2, <1>3, <2>1, <2>2, <2>3 DEF Ledger
<1>8. InputsHeld'
  BY <1>1, <1>2, <1>3 DEF InputsHeld, HeldInput
<1>9. CallsKnown'
  BY <1>1, <1>2, <1>3 DEF CallsKnown
<1>10. FollowsDisk'
  <2> SUFFICES ASSUME NEW g \in Present \ opened
               PROVE  column[Src(g)] = disk'[g] \/ Pending(events', g)
    BY <1>2, <1>3 DEF FollowsDisk, Present
  <2> HIDE DEF e
  <2>1. /\ Len(events') = Len(events) + 1 /\ Len(events) \in Nat
        /\ \A k \in 1 .. Len(events) : events'[k] = events[k]
        /\ events'[Len(events) + 1] = e
    BY <1>2, <1>6, AppendProperties
  <2>2. ASSUME Pending(events, g)
        PROVE  Pending(events', g)
    <3>1. PICK k \in 1 .. Len(events) :
                 events[k].file = g /\ events[k].type # "created"
      BY <2>2 DEF Pending
    <3>2. k \in 1 .. Len(events') /\ events'[k] = events[k]
      BY <2>1
    <3> QED
      BY <3>1, <3>2 DEF Pending
  <2>3. CASE g # f
    <3>1. disk'[g] = disk[g]
      BY <1>1, <1>2, <1>6, <2>3 DEF Present, Ledger
    <3> QED
      BY <1>1, <2>2, <3>1 DEF FollowsDisk
  <2>4. CASE g = f /\ e.type = "created"
    <3>1. disk[f] = Bottom
      BY <2>4 DEF e
    <3>2. column[Src(g)] # Bottom
      BY <1>1, WorkspaceAssumption DEF InputsHeld, HeldInput, Present
    <3> QED
      BY <1>1, <2>2, <2>4, <3>1, <3>2 DEF FollowsDisk
  <2>5. CASE g = f /\ e.type # "created"
    <3>1. Len(events) + 1 \in 1 .. Len(events')
      BY <2>1
    <3>2. e.file = f
      BY DEF e
    <3> QED
      BY <2>1, <2>5, <3>1, <3>2 DEF Pending
  <2> QED
    BY <2>3, <2>4, <2>5
<1> QED
  BY <1>4, <1>7, <1>8, <1>9, <1>10 DEF Base

\* A watcher event preserves Base: the file it is about is read again or
\* evicted, the events of the others stay.
LEMMA WatchEventBase ==
    ASSUME Base, WatchEvent
    PROVE  Base'
<1> DEFINE e == Head(events)
<1>1. /\ Shell /\ TypeOK /\ Ledger /\ InputsHeld /\ CallsKnown /\ FollowsDisk
  BY DEF Base, Shell
<1>2. /\ events # <<>> /\ events' = Tail(events) /\ answer' = NoAnswer
      /\ UNCHANGED <<disk, opened>>
      /\ IF e.file \notin registered \/ e.type = "created" THEN Ignored
         ELSE IF e.type = "changed" THEN ReSlurp(e.file)
         ELSE Evict(e.file)
  BY DEF WatchEvent
<1>3. /\ events \in Seq(Event) /\ e \in Event /\ events' \in Seq(Event)
      /\ e = events[1] /\ Len(events') = Len(events) - 1
      /\ Len(events) \in Nat \ {0}
      /\ \A k \in 1 .. Len(events) - 1 : events'[k] = events[k + 1]
  <2>1. events \in Seq(Event)
    BY <1>1 DEF Ledger
  <2> QED
    BY <1>2, <2>1, HeadTailProperties, EmptySeq
<1> HIDE DEF e
<1>4. ASSUME NEW g, Pending(events, g), ~Pending(events', g)
      PROVE  g = e.file /\ e.type # "created"
  <2>1. PICK k \in 1 .. Len(events) :
               events[k].file = g /\ events[k].type # "created"
    BY <1>4 DEF Pending
  <2>2. k = 1
    <3> SUFFICES ASSUME k # 1
                 PROVE  FALSE
      OBVIOUS
    <3> DEFINE j == k - 1
    <3>1. j \in 1 .. Len(events) - 1 /\ j + 1 = k
      BY <1>3
    <3> HIDE DEF j
    <3>2. j \in 1 .. Len(events') /\ events'[j] = events[k]
      BY <1>3, <3>1
    <3> QED
      BY <1>4, <2>1, <3>2 DEF Pending
  <2> QED
    BY <1>3, <2>1, <2>2
<1>5. CASE e.file \notin registered \/ e.type = "created"
  <2>1. UNCHANGED <<state, fp, vrev, dur, deps, column, stack, cur, req,
                    lastChanged, cancel, running, registered, evicted>>
    BY <1>2, <1>5 DEF Ignored, slotVars, revVars
  <2>2. Shell'
    <3>1. answer' \in [q : Queries \cup {None}, val : Results \cup {None}]
      BY <1>2 DEF NoAnswer
    <3>2. TypeOK'
      BY <1>1, <2>1, <3>1 DEF TypeOK
    <3>3. StackInv(stack', running) /\ Holds(stack') = Holds(stack)
      BY <1>1, <2>1, ShellShape
    <3> QED
      BY <1>1, <2>1, <3>2, <3>3, ShellWrite
  <2>3. Ledger'
    BY <1>1, <1>2, <1>3, <2>1 DEF Ledger
  <2>4. InputsHeld' /\ CallsKnown'
    BY <1>1, <2>1 DEF InputsHeld, HeldInput, CallsKnown
  <2>5. FollowsDisk'
    BY <1>1, <1>2, <1>4, <1>5, <2>1 DEF FollowsDisk, Present
  <2> QED
    BY <2>2, <2>3, <2>4, <2>5 DEF Base
<1>6. CASE /\ e.file \in registered /\ e.type = "changed"
           /\ disk[e.file] # Bottom
  <2>1. ApplyText(e.file, disk[e.file])
    BY <1>2, <1>6 DEF ReSlurp
  <2>2. disk[e.file] \in Texts
    BY <1>1, <1>6 DEF Ledger
  <2>3. /\ Shell' /\ InputsHeld' /\ CallsKnown'
        /\ column'[Src(e.file)] = disk[e.file]
        /\ evicted' \subseteq registered' /\ registered' = registered
        /\ cancel' = FALSE /\ req' \in {0, cur'}
        /\ \A g \in registered : g # e.file =>
             column'[Src(g)] = column[Src(g)]
    BY <1>2, <1>6, <2>1, <2>2, ApplyBase
  <2>4. evicted' = evicted \ {e.file}
    BY <2>1 DEF ApplyText
  <2>5. Ledger'
    BY <1>1, <1>2, <1>3, <2>3 DEF Ledger
  <2>6. FollowsDisk'
    BY <1>1, <1>2, <1>4, <2>3, <2>4 DEF FollowsDisk, Present
  <2> QED
    BY <2>3, <2>5, <2>6 DEF Base
<1>7. CASE /\ e.file \in registered /\ e.type # "created"
           /\ ~(e.type = "changed" /\ disk[e.file] # Bottom)
  <2>1. Evict(e.file)
    BY <1>2, <1>7 DEF ReSlurp
  <2>2. /\ Shell' /\ InputsHeld' /\ CallsKnown'
        /\ evicted' = evicted \cup {e.file} /\ registered' = registered
        /\ cancel' = FALSE /\ req' \in {0, cur'}
        /\ \A g \in registered : g # e.file =>
             column'[Src(g)] = column[Src(g)]
    BY <1>2, <1>7, <2>1, EvictBase
  <2>3. Ledger'
    BY <1>1, <1>2, <1>3, <1>7, <2>2 DEF Ledger
  <2>4. FollowsDisk'
    BY <1>1, <1>2, <1>4, <2>2 DEF FollowsDisk, Present
  <2> QED
    BY <2>2, <2>3, <2>4 DEF Base
<1> QED
  BY <1>5, <1>6, <1>7

\* workspace_resolve_import preserves Base, whoever calls it.
LEMMA ResolveBase ==
    ASSUME Base, NEW f \in DOMAIN ImportOf, Resolve(f),
           req = 0 => stack' = stack, StackInv(stack', running),
           Holds(stack') = Holds(stack), KnownStack(stack', registered')
    PROVE  Base'
<1> DEFINE g == ImportOf[f]
<1> USE DEF revVars
<1>1. /\ Shell /\ TypeOK /\ Ledger /\ InputsHeld /\ CallsKnown /\ FollowsDisk
  BY DEF Base, Shell
<1>2. /\ UNCHANGED <<deps, cur, req, lastChanged, cancel, running, answer>>
      /\ UNCHANGED <<evicted, disk, events, opened>>
  BY DEF Resolve
<1>3. g \in Files
  BY WorkspaceAssumption
<1>4. CASE Resolvable(f) /\ g \notin registered
  <2>1. Created(g, disk[g], cur)
    BY <1>4 DEF Resolve
  <2>2. disk[g] \in Texts
    BY <1>1, <1>3, <1>4 DEF Ledger, Resolvable
  <2>3. /\ g \in Files \ registered /\ cur' \in {cur, cur + 1}
        /\ cur \in {cur, cur'} /\ cur' \in 1 .. MaxRev
        /\ lastChanged' \in [Tiers -> 1 .. cur'] /\ req' \in {0, cur'}
        /\ answer' \in [q : Queries \cup {None}, val : Results \cup {None}]
        /\ UNCHANGED <<deps, running, cancel, req, evicted>>
    BY <1>1, <1>2, <1>3, <1>4 DEF TypeOK, Ledger
  <2> HIDE DEF g
  <2>4. /\ Shell' /\ InputsHeld' /\ CallsKnown'
        /\ column'[Src(g)] = disk[g] /\ registered' = registered \cup {g}
        /\ \A h \in registered : column'[Src(h)] = column[Src(h)]
    BY <2>1, <2>2, <2>3, CreatedBase
  <2>5. Ledger'
    BY <1>1, <1>2, <1>3, <2>4 DEF Ledger
  <2>6. FollowsDisk'
    BY <1>1, <1>2, <2>4 DEF FollowsDisk, Present
  <2> QED
    BY <2>4, <2>5, <2>6 DEF Base
<1>5. CASE ~(Resolvable(f) /\ g \notin registered)
  <2>1. UNCHANGED <<registered, column, fp, state, vrev, dur>>
    BY <1>5 DEF Resolve
  <2>2. Shell'
    <3>1. stack' \in Seq(Frame)
      BY DEF StackInv
    <3>2. TypeOK'
      BY <1>1, <1>2, <2>1, <3>1 DEF TypeOK
    <3> QED
      BY <1>1, <1>2, <2>1, <3>2, ShellWrite
  <2>3. Ledger' /\ InputsHeld' /\ FollowsDisk' /\ CallsKnown'
    BY <1>1, <1>2, <2>1 DEF Ledger, InputsHeld, HeldInput, FollowsDisk,
                            Present, CallsKnown
  <2> QED
    BY <2>2, <2>3 DEF Base
<1> QED
  BY <1>4, <1>5

\* What the importer's frame becomes when its path is resolved.
LEMMA ResolvedTop ==
    ASSUME Base, NEW f \in DOMAIN ImportOf, ResolveImport(f)
    PROVE  LET t == Top(stack)
               v == IF Resolvable(f) THEN Nspace(ImportOf[f]) ELSE Bottom
           IN  /\ stack # <<>> /\ req # 0 /\ t \in Frame /\ t.mode = "body"
               /\ t.q = Imp(f) /\ Len(t.vals) = 1 /\ v \in Results
               /\ StackInv(stack', running) /\ Holds(stack') = Holds(stack)
               /\ Len(stack') = Len(stack) /\ Len(stack) \in Nat \ {0}
               /\ \A k \in 1 .. Len(stack) :
                    stack'[k] = IF k = Len(stack) THEN Handed(t, v)
                                ELSE stack[k]
               /\ registered \subseteq registered'
               /\ v # Bottom => ImportOf[f] \in registered'
<1> DEFINE t == Top(stack)
           v == IF Resolvable(f) THEN Nspace(ImportOf[f]) ELSE Bottom
<1>1. /\ Shell /\ TypeOK /\ stack \in Seq(Frame) /\ StackInv(stack, running)
  BY ShellShape DEF Base, Shell, TypeOK
<1>2. /\ BodyCalls(Path(ImportOf[f])) /\ t.q = Imp(f)
      /\ stack' = ReturnTo(stack, v) /\ Resolve(f)
  BY DEF ResolveImport
<1>3. /\ stack # <<>> /\ t.mode = "body" /\ Upcoming(t).op = "read"
      /\ Upcoming(t).q = Path(ImportOf[f])
  BY <1>2 DEF BodyCalls
<1>4. t \in Frame /\ Len(stack) \in Nat \ {0}
  BY <1>1, <1>3, TopIsFrame
<1>5. req # 0
  BY <1>1, <1>3 DEF Shell, NoRunningBetweenRequests
<1>6. Len(t.vals) = 1
  <2>1. \/ t.vals = <<>> /\ Upcoming(t).q = Ast(f)
        \/ Len(t.vals) = 1 /\ Upcoming(t).q = Path(ImportOf[f])
        \/ Upcoming(t).q = Items(ImportOf[f])
    BY <1>2, <1>3, <1>4, ImpBody
  <2> QED
    BY <1>3, <2>1, QueriesDiffer
<1>7. v \in Results
  BY QueriesAssumption DEF Results
<1>8. registered \subseteq registered' /\ (v # Bottom => ImportOf[f] \in registered')
  BY <1>2 DEF Resolve, Created
<1>9. Receptive(stack)
  BY <1>3 DEF Receptive
<1> HIDE DEF v
<1>10. StackInv(stack', running) /\ Holds(stack') = Holds(stack)
  BY <1>1, <1>2, <1>7, <1>9, ReturnShape
<1>11. /\ Len(stack') = Len(stack)
       /\ \A k \in 1 .. Len(stack) :
            stack'[k] = IF k = Len(stack) THEN Handed(t, v) ELSE stack[k]
  BY <1>1, <1>2, <1>3, ReturnedTop
<1> HIDE DEF t
<1> QED
  BY <1>2, <1>3, <1>4, <1>5, <1>6, <1>7, <1>8, <1>10, <1>11 DEF t, v

\* Resolution inside a body preserves Base: the importer learns of a namespace
\* only when its file has a row.
LEMMA ResolveImportBase ==
    ASSUME Base, NEW f \in DOMAIN ImportOf, ResolveImport(f)
    PROVE  Base'
<1> DEFINE t == Top(stack)
           v == IF Resolvable(f) THEN Nspace(ImportOf[f]) ELSE Bottom
           h == Handed(t, v)
<1>1. /\ stack # <<>> /\ req # 0 /\ t \in Frame /\ t.mode = "body"
      /\ t.q = Imp(f) /\ Len(t.vals) = 1
      /\ StackInv(stack', running) /\ Holds(stack') = Holds(stack)
      /\ Len(stack') = Len(stack) /\ Len(stack) \in Nat \ {0}
      /\ \A k \in 1 .. Len(stack) :
           stack'[k] = IF k = Len(stack) THEN h ELSE stack[k]
      /\ registered \subseteq registered'
      /\ v # Bottom => ImportOf[f] \in registered'
  BY ResolvedTop
<1>2. KnownStack(stack, registered')
  BY <1>1, KnownMono DEF Base, CallsKnown
<1> HIDE DEF v
<1>3. /\ h.q = t.q /\ h.deps = t.deps /\ h.vals = Append(t.vals, v)
  BY <1>1, HandedFields
<1>4. t.vals \in Seq(Results)
  BY <1>1 DEF Frame, FrameFields, ValueSeqs
<1>5. h.vals[2] = v
  BY <1>1, <1>3, <1>4
<1> HIDE DEF h
<1>6. KnownFrame(h, registered')
  <2>1. About(t.deps, registered')
    BY <1>1, <1>2 DEF KnownStack, KnownFrame, Top
  <2>2. \A g \in DOMAIN ImportOf : Imp(f) = Imp(g) => f = g
    BY QueriesDiffer
  <2> HIDE DEF t
  <2> QED
    BY <1>1, <1>3, <1>5, <2>1, <2>2 DEF KnownFrame
<1>7. KnownStack(stack', registered')
  BY <1>1, <1>2, <1>6 DEF KnownStack
<1>8. Resolve(f)
  BY DEF ResolveImport
<1> QED
  BY <1>1, <1>7, <1>8, ResolveBase

\* So does the walk of compile_file over the import closure.
LEMMA CompileBase ==
    ASSUME Base, NEW f \in DOMAIN ImportOf, CompileResolves(f)
    PROVE  Base'
<1>1. /\ stack = <<>> /\ stack' = stack /\ Resolve(f)
  BY DEF CompileResolves
<1>2. StackInv(stack', running) /\ Holds(stack') = Holds(stack)
  BY <1>1, ShellShape DEF Base
<1>3. KnownStack(stack', registered')
  BY <1>1 DEF KnownStack
<1> QED
  BY <1>1, <1>2, <1>3, ResolveBase

\* db_init and an empty workspace establish Base.
LEMMA InitBase == WInit => Base
<1> SUFFICES ASSUME WInit
             PROVE  Base
  OBVIOUS
<1> USE DEF WInit
<1>1. /\ state \in [Queries -> SlotStates]
      /\ \A q \in Queries : state[q] \in {"EMPTY", "ABSENT"}
  BY DEF SlotStates
<1>2. TypeOK
  <2>1. column \in [Queries -> Results] /\ fp \in [Queries -> Results \cup {None}]
    BY DEF Results
  <2>2. vrev \in [Queries -> 0 .. cur]
    OBVIOUS
  <2>3. dur \in [Queries -> Tiers]
    BY DEF Tiers, DUR_LOW, DUR_HIGH
  <2>4. deps \in [Queries -> Seq(Dep)] /\ stack \in Seq(Frame)
    OBVIOUS
  <2>5. cur \in 1 .. MaxRev /\ req \in 0 .. cur /\ lastChanged \in [Tiers -> 1 .. cur]
    BY ConstantsAssumption
  <2>6. answer \in [q : Queries \cup {None}, val : Results \cup {None}]
    BY DEF NoAnswer
  <2> QED
    BY <1>1, <2>1, <2>2, <2>3, <2>4, <2>5, <2>6 DEF TypeOK
<1>3. Shell
  <2>1. StackInv(stack, running) /\ Holds(stack) = {}
    BY EmptyStackShape
  <2>2. RunningInv(state, stack, running, cancel)
    BY <1>1, <2>1 DEF RunningInv
  <2>3. NoRunningBetweenRequests
    BY <1>1 DEF NoRunningBetweenRequests
  <2> QED
    BY <1>2, <2>1, <2>2, <2>3, ShellShape
<1>4. Ledger
  BY DEF Ledger
<1>5. InputsHeld
  BY DEF InputsHeld, Queries
<1>6. CallsKnown
  <2>1. Derived \subseteq Queries
    BY DEF Queries
  <2>2. \A q \in Derived : deps[q] = <<>>
    BY <2>1
  <2>3. \A q \in Derived : About(deps[q], registered)
    BY <2>2 DEF About
  <2> QED
    BY <1>1, <2>1, <2>3 DEF CallsKnown, KnownStack
<1>7. FollowsDisk
  BY DEF FollowsDisk, Present
<1> QED
  BY <1>3, <1>4, <1>5, <1>6, <1>7 DEF Base

\* Every step of the workspace preserves Base.
THEOREM BaseInductive == Base /\ [WNext]_wVars => Base'
<1> SUFFICES ASSUME Base, [WNext]_wVars
             PROVE  Base'
  OBVIOUS
<1>1. CASE Query
  BY <1>1, QueryBase
<1>2. CASE (RequestBegin(cur) \/ RequestEnd) /\ UNCHANGED workspaceVars
  BY <1>2, RequestBase
<1>3. CASE \E f \in DOMAIN ImportOf : ResolveImport(f) \/ CompileResolves(f)
  BY <1>3, ResolveImportBase, CompileBase
<1>4. CASE \E f \in Files : \E t \in TextsOf[f] \ {Bottom} :
             DidOpen(f, t) \/ DidChange(f, t)
  <2>0. PICK f \in Files : \E t \in TextsOf[f] \ {Bottom} :
               DidOpen(f, t) \/ DidChange(f, t)
    BY <1>4
  <2>1. PICK t \in TextsOf[f] \ {Bottom} : DidOpen(f, t) \/ DidChange(f, t)
    BY <2>0
  <2>2. t \in Texts
    BY WorkspaceAssumption
  <2> QED
    BY <2>1, <2>2, DidOpenBase, DidChangeBase
<1>5. CASE \E f \in Files : \E t \in TextsOf[f] : DiskWrite(f, t)
  BY <1>5, DiskWriteBase
<1>6. CASE WatchEvent
  BY <1>6, WatchEventBase
<1>7. CASE UNCHANGED wVars
  <2>1. /\ UNCHANGED <<state, fp, vrev, dur, deps, column, stack, cur, req,
                       lastChanged, cancel, running, answer>>
        /\ UNCHANGED <<registered, evicted, disk, events, opened>>
    BY <1>7 DEF wVars, workspaceVars, vars, slotVars, revVars
  <2>2. Shell'
    BY <1>7, StutterStep DEF Base, wVars
  <2>3. Ledger' /\ InputsHeld' /\ FollowsDisk' /\ CallsKnown'
    BY <2>1 DEF Base, Ledger, InputsHeld, HeldInput, FollowsDisk, Present,
                CallsKnown
  <2> QED
    BY <2>2, <2>3 DEF Base
<1> QED
  BY <1>1, <1>2, <1>3, <1>4, <1>5, <1>6, <1>7 DEF WNext

\* Base holds in every reachable state of the workspace.
THEOREM BaseInvariance == WSpec => []Base
BY InitBase, BaseInductive, PTL DEF WSpec

\* A file is a member of its namespace exactly while it is present, through
\* any sequence of db_create_source, file_set_add, db_readmit_source and
\* workspace_did_evict_source.
THEOREM MembershipPresence == WSpec => []MembershipIsPresence
<1>1. Base => MembershipIsPresence
  <2> SUFFICES ASSUME Base, NEW f \in registered
               PROVE  /\ MembersOf(f) = IF f \in evicted THEN <<>> ELSE <<f>>
                      /\ fp[Set(f)] = column[Set(f)]
    BY DEF MembershipIsPresence
  <2>1. HeldInput(f)
    BY DEF Base, InputsHeld
  <2> QED
    BY <2>1, ValuesDiffer DEF HeldInput, MembersOf
<1> QED
  BY <1>1, BaseInvariance, PTL

\* A file that no editor has supplied has the text of the disk once its
\* watcher events are delivered: neither the lazy load of an @import nor a
\* Created event that handle_did_change_watched_files drops loses a write.
THEOREM FollowsTheDisk == WSpec => []PresentFollowsDisk
<1>1. Base => PresentFollowsDisk
  <2> SUFFICES ASSUME Base, NEW f \in Present \ opened,
                      \A k \in DOMAIN events : events[k].file # f
               PROVE  column[Src(f)] = disk[f]
    BY DEF PresentFollowsDisk
  <2>1. events \in Seq(Event) /\ FollowsDisk
    BY DEF Base, Ledger
  <2>2. DOMAIN events = 1 .. Len(events)
    BY <2>1, LenProperties
  <2> QED
    BY <2>1, <2>2 DEF FollowsDisk, Pending
<1> QED
  BY <1>1, BaseInvariance, PTL

-----------------------------------------------------------------------------
(* Memos and frames, apart from the state they are in.                       *)

\* What a query hands to its caller: the value v, the fingerprint y and the
\* durability d that are recorded with it.
Answers(q, v, y, d, x, R, E) ==
    \A g \in Files :
        /\ q = Src(g) => v = TextOf(g, x, E) /\ y = x[Src(g)] /\ d = DUR_LOW
        /\ q = Set(g) => v = SetOf(g, E) /\ y = SetOf(g, E)
        /\ q = Ast(g) => /\ v \in {Bottom, y} /\ y \in {Bottom, Tree(x[Src(g)])}
                         /\ v # Bottom => g \notin E
                         /\ d = DUR_LOW
        /\ q = Items(g) => v = y /\ ExportsOK(g, v, x, R, E)

\* A fresh memo answers for the inputs of now.
LEMMA SlotAnswers ==
    ASSUME NEW q \in Derived, NEW ds, NEW c, NEW y, NEW d, NEW x, NEW R, NEW E,
           SlotOK(q, ds, c, y, d, TRUE, x, R, E),
           \A f \in E : q = Ast(f) => c = Bottom
    PROVE  Answers(q, c, y, d, x, R, E)
<1> SUFFICES ASSUME NEW g \in Files
             PROVE  /\ q # Src(g) /\ q # Set(g)
                    /\ q = Ast(g) => /\ c \in {Bottom, y}
                                     /\ y \in {Bottom, Tree(x[Src(g)])}
                                     /\ c # Bottom => g \notin E
                                     /\ d = DUR_LOW
                    /\ q = Items(g) => c = y /\ ExportsOK(g, c, x, R, E)
  BY DEF Answers
<1>1. q # Src(g) /\ q # Set(g)
  BY InputQueries
<1>2. q = Ast(g) => /\ c \in {Bottom, y} /\ y \in {Bottom, Tree(x[Src(g)])}
                    /\ c # Bottom => g \notin E
                    /\ d = DUR_LOW
  BY DEF SlotOK, AstSlot
<1>3. q = Items(g) => c = y /\ ExportsOK(g, c, x, R, E)
  BY DEF SlotOK, ItemsSlot, ExportsOK
<1> QED
  BY <1>1, <1>2, <1>3

\* New rows, and the slots of other queries, leave a memo as it is.
LEMMA SlotSame ==
    ASSUME NEW q, NEW ds, NEW c, NEW y, NEW d, NEW fresh,
           NEW x, NEW x2, NEW R, NEW R2, NEW E, q[2] \in R,
           SlotOK(q, ds, c, y, d, fresh, x, R, E),
           R \subseteq R2, \A g \in R : x2[Src(g)] = x[Src(g)]
    PROVE  SlotOK(q, ds, c, y, d, fresh, x2, R2, E)
BY QueryFile DEF SlotOK, AstSlot, ItemsSlot, ImpSlot, ExportsOK

\* A memo the durability fast path accepts is fresh, or has nothing to say
\* about the inputs.
LEMMA SlotFast ==
    ASSUME NEW q, NEW ds, NEW c, NEW y, NEW d, NEW fresh, NEW x, NEW R, NEW E,
           SlotOK(q, ds, c, y, d, fresh, x, R, E), d = DUR_LOW => fresh
    PROVE  SlotOK(q, ds, c, y, d, TRUE, x, R, E)
BY DEF SlotOK, AstSlot, ItemsSlot, ImpSlot

\* A memo has dependencies.
LEMMA SlotDeps ==
    ASSUME NEW q \in Derived, NEW ds, NEW c, NEW y, NEW d, NEW fresh,
           NEW x, NEW R, NEW E, SlotOK(q, ds, c, y, d, fresh, x, R, E)
    PROVE  Len(ds) > 0
<1>1. Len(ds) = 1 \/ Len(ds) \in {1, 2} \/ Len(ds) > 0
  BY DerivedKinds DEF SlotOK, AstSlot, ItemsSlot, ImpSlot
<1> QED
  BY <1>1

\* db_engine_verify starts its walk on a memo.
LEMMA WalkStarts ==
    ASSUME NEW t \in Frame, t.mode = "walk", t.prev = "DONE", t.vals = <<>>,
           t.i = 1, t.n = Len(t.deps), ~t.pulled,
           NEW c, NEW y, NEW d, NEW fresh, NEW x, NEW R, NEW E,
           SlotOK(t.q, t.deps, c, y, d, fresh, x, R, E)
    PROVE  FrameOK(t, c, y, d, x, R, E)
<1>1. t.q \in Derived
  BY DEF Frame, FrameFields
<1>2. t.n > 0
  BY <1>1, SlotDeps
<1>3. ~(t.i > 1) /\ ~(t.i > 2) /\ t.i # 2
  OBVIOUS
<1> QED
  BY <1>2, <1>3 DEF FrameOK, WalkOK, AstWalk, ItemsWalk, ImpWalk, SlotOK,
                    AstSlot, ItemsSlot, ImpSlot

\* A walk that has compared every dependency leaves a fresh memo.
LEMMA WalkEnds ==
    ASSUME NEW t \in Frame, t.mode = "walk", t.i > t.n,
           NEW c, NEW y, NEW d, NEW x, NEW R, NEW E,
           FrameOK(t, c, y, d, x, R, E)
    PROVE  SlotOK(t.q, t.deps, c, y, d, TRUE, x, R, E) /\ t.prev = "DONE"
<1>1. /\ t.i \in Nat /\ t.n \in Nat /\ t.n <= Len(t.deps)
      /\ Len(t.deps) \in Nat /\ t.n > 0
      /\ WalkOK(t, c, y, d, x, R, E)
  BY DEF Frame, FrameFields, FrameOK, WalkOK
<1>2. /\ t.i > 1 /\ Len(t.deps) > 0
      /\ t.n > 1 => t.i > 2 /\ t.i # 2 /\ Len(t.deps) > 1
  BY <1>1
<1>3. t.n = 2 => t.n > 1
  OBVIOUS
<1>4. ASSUME NEW f \in Files, t.q = Ast(f)
      PROVE  AstSlot(f, t.deps, c, y, d, TRUE, x)
  BY <1>1, <1>2, <1>4 DEF WalkOK, AstWalk, AstSlot
<1>5. ASSUME NEW f \in Files, t.q = Items(f)
      PROVE  ItemsSlot(f, t.deps, c, y, d, TRUE, x, R, E)
  BY <1>1, <1>2, <1>3, <1>5 DEF WalkOK, ItemsWalk, ItemsSlot
<1>6. ASSUME NEW f \in DOMAIN ImportOf, t.q = Imp(f)
      PROVE  ImpSlot(f, t.deps, c, d, TRUE, x, R, E)
  BY <1>1, <1>2, <1>6 DEF WalkOK, ImpWalk, ImpSlot
<1> QED
  BY <1>1, <1>4, <1>5, <1>6 DEF SlotOK, WalkOK

\* A frame is about its own slot and the texts of files that have a row.
LEMMA FrameSame ==
    ASSUME NEW t, NEW c, NEW y, NEW d, NEW x, NEW x2, NEW R, NEW R2, NEW E,
           t.q[2] \in R, FrameOK(t, c, y, d, x, R, E),
           R \subseteq R2, \A g \in R : x2[Src(g)] = x[Src(g)]
    PROVE  FrameOK(t, c, y, d, x2, R2, E)
<1>1. \A g : ExportsOK(g, c, x, R, E) => ExportsOK(g, c, x2, R2, E)
  BY DEF ExportsOK
<1>2. CASE t.mode = "walk"
  <2>1. WalkOK(t, c, y, d, x, R, E)
    BY <1>2 DEF FrameOK
  <2>2. ASSUME NEW f \in Files, t.q = Ast(f)
        PROVE  AstWalk(f, t, c, y, d, x2)
    BY <2>1, <2>2, QueryFile DEF WalkOK, AstWalk
  <2>3. ASSUME NEW f \in Files, t.q = Items(f)
        PROVE  ItemsWalk(f, t, c, y, d, x2, R2, E)
    BY <2>1, <2>3, QueryFile DEF WalkOK, ItemsWalk
  <2>4. ASSUME NEW f \in DOMAIN ImportOf, t.q = Imp(f)
        PROVE  ImpWalk(f, t, c, d, x2, R2, E)
    BY <1>1, <2>1, <2>4 DEF WalkOK, ImpWalk
  <2> QED
    BY <1>2, <2>1, <2>2, <2>3, <2>4 DEF FrameOK, WalkOK
<1>3. CASE t.mode # "walk"
  <2>1. BodyOK(t, x, R, E)
    BY <1>3 DEF FrameOK
  <2>2. ASSUME NEW f \in Files, t.q = Ast(f)
        PROVE  AstBodyOK(f, t, x2, E)
    BY <2>1, <2>2, QueryFile DEF BodyOK, AstBodyOK, TextOf
  <2>3. ASSUME NEW f \in Files, t.q = Items(f)
        PROVE  ItemsBodyOK(f, t, x2, R2, E)
    BY <2>1, <2>3, QueryFile DEF BodyOK, ItemsBodyOK
  <2>4. ASSUME NEW f \in DOMAIN ImportOf, t.q = Imp(f)
        PROVE  ImpBodyOK(f, t, x2, R2, E)
    BY <2>1, <2>4 DEF BodyOK, ImpBodyOK, ExportsOK
  <2> QED
    BY <1>3, <2>2, <2>3, <2>4 DEF FrameOK, BodyOK
<1> QED
  BY <1>2, <1>3

\* A walk notes that it pulls.
LEMMA FrameCalling ==
    ASSUME NEW t \in Frame, NEW q, NEW c, NEW y, NEW d, NEW x, NEW R, NEW E,
           FrameOK(t, c, y, d, x, R, E), t.mode = "walk" => ~t.pulled
    PROVE  FrameOK(Calling(t, q), c, y, d, x, R, E)
<1> DEFINE g == Calling(t, q)
<1>1. /\ g.q = t.q /\ g.mode = t.mode /\ g.deps = t.deps
      /\ g.prev = t.prev /\ g.i = t.i /\ g.n = t.n /\ g.vals = t.vals
      /\ g.durSet = t.durSet /\ g.minDur = t.minDur
      /\ t.mode = "walk" => g.pulled /\ g.want = t.deps[t.i].fp
  BY CallingFields
<1> HIDE DEF g
<1>2. CASE t.mode = "walk"
  <2>1. WalkOK(t, c, y, d, x, R, E)
    BY <1>2 DEF FrameOK
  <2>2. ASSUME NEW f \in Files, t.q = Ast(f)
        PROVE  AstWalk(f, g, c, y, d, x)
    BY <1>1, <2>1, <2>2 DEF WalkOK, AstWalk
  <2>3. ASSUME NEW f \in Files, t.q = Items(f)
        PROVE  ItemsWalk(f, g, c, y, d, x, R, E)
    BY <1>1, <1>2, <2>1, <2>3 DEF WalkOK, ItemsWalk
  <2>4. ASSUME NEW f \in DOMAIN ImportOf, t.q = Imp(f)
        PROVE  ImpWalk(f, g, c, d, x, R, E)
    BY <1>1, <1>2, <2>1, <2>4 DEF WalkOK, ImpWalk
  <2> QED
    BY <1>1, <1>2, <2>1, <2>2, <2>3, <2>4 DEF FrameOK, WalkOK, g
<1>3. CASE t.mode # "walk"
  BY <1>3 DEF Calling
<1> QED
  BY <1>2, <1>3

-----------------------------------------------------------------------------
(* A caller receives what it asked for.                                      *)

\* Both steps together, field by field.
Received(h, t, q, y, e, v) ==
    /\ h.q = t.q /\ h.mode = t.mode /\ h.prev = t.prev
    /\ h.i = t.i /\ h.n = t.n /\ h.pulled = t.pulled
    /\ h.want = t.want /\ h.durSet
    /\ e = DUR_LOW \/ (t.durSet /\ t.minDur = DUR_LOW) => h.minDur = DUR_LOW
    /\ t.mode = "walk" => h.vals = t.vals
    /\ t.mode # "walk" => h.vals = Append(t.vals, v)
    /\ Indexed(t, q) = {} => h.deps = Append(t.deps, [q |-> q, fp |-> y])
    /\ Indexed(t, q) # {} =>
         /\ Len(h.deps) = Len(t.deps)
         /\ \A k \in 1 .. Len(t.deps) :
              h.deps[k] = IF k \in Indexed(t, q) THEN [q |-> q, fp |-> y]
                          ELSE t.deps[k]
    /\ h.deps \in Seq(Dep)

\* record_dep_on_parent and the return together, field by field.
LEMMA ReceivedFields ==
    ASSUME NEW t \in Frame, NEW q \in Queries,
           NEW y \in Results \cup {None}, NEW e \in Tiers, NEW v
    PROVE  Received(Handed(RecordDep(t, q, y, e), v), t, q, y, e, v)
<1> DEFINE g == RecordDep(t, q, y, e)
           h == Handed(g, v)
           dep == [q |-> q, fp |-> y]
<1>1. /\ g \in Frame /\ g.q = t.q /\ g.mode = t.mode
      /\ g.prev = t.prev /\ g.i = t.i /\ g.n = t.n
      /\ g.pulled = t.pulled /\ g.want = t.want /\ g.vals = t.vals
      /\ g.durSet
      /\ g.minDur = IF ~t.durSet \/ e < t.minDur THEN e ELSE t.minDur
      /\ Indexed(t, q) = {} => g.deps = Append(t.deps, dep)
      /\ Indexed(t, q) # {} =>
           /\ Len(g.deps) = Len(t.deps)
           /\ \A k \in 1 .. Len(t.deps) :
                g.deps[k] = IF k \in Indexed(t, q) THEN dep ELSE t.deps[k]
  BY RecordedFields
<1> HIDE DEF g, dep
<1>2. /\ h.q = g.q /\ h.mode = g.mode /\ h.deps = g.deps
      /\ h.prev = g.prev /\ h.i = g.i /\ h.n = g.n
      /\ h.pulled = g.pulled /\ h.want = g.want
      /\ h.durSet = g.durSet /\ h.minDur = g.minDur
      /\ h.vals = IF g.mode = "walk" THEN g.vals ELSE Append(g.vals, v)
  BY <1>1, HandedFields
<1> HIDE DEF h
<1>3. g.deps \in Seq(Dep) /\ t.minDur \in Tiers
  BY <1>1 DEF Frame, FrameFields
<1>4. /\ e = DUR_LOW => g.minDur = DUR_LOW
      /\ t.durSet /\ t.minDur = DUR_LOW => g.minDur = DUR_LOW
  BY <1>1, <1>3 DEF Tiers, DUR_LOW, DUR_HIGH
<1>5. Received(h, t, q, y, e, v)
  BY <1>1, <1>2, <1>3, <1>4 DEF Received, dep
<1> QED
  BY <1>5 DEF g, h

\* db_query_file_ast reads the text.
LEMMA AstReceives ==
    ASSUME NEW t \in Frame, t.mode = "body", NEW f \in Files, t.q = Ast(f),
           NEW q \in Queries, Awaits(t, q), NEW x, NEW R, NEW E,
           NEW y \in Results \cup {None}, NEW e \in Tiers, NEW v,
           Answers(q, v, y, e, x, R, E), AstBodyOK(f, t, x, E)
    PROVE  AstBodyOK(f, Handed(RecordDep(t, q, y, e), v), x, E)
<1> DEFINE h == Handed(RecordDep(t, q, y, e), v)
           dep == [q |-> q, fp |-> y]
<1>0. Received(h, t, q, y, e, v)
  BY ReceivedFields
<1> HIDE DEF h
<1>1. t.vals = <<>> /\ q = Src(f)
  BY AstBody DEF Awaits
<1>2. t.deps = <<>>
  BY <1>1 DEF AstBodyOK
<1>3. Indexed(t, q) = {}
  BY <1>2 DEF Indexed
<1>4. v = TextOf(f, x, E) /\ y = x[Src(f)] /\ e = DUR_LOW
  BY <1>1 DEF Answers
<1>5. /\ h.vals = Append(t.vals, v) /\ h.deps = Append(t.deps, dep)
      /\ h.durSet /\ h.minDur = DUR_LOW
  BY <1>0, <1>3, <1>4 DEF Received
<1>6. h.vals = <<v>> /\ h.deps = <<dep>>
  BY <1>1, <1>2, <1>5
<1> QED
  BY <1>1, <1>4, <1>5, <1>6 DEF AstBodyOK, h

\* One more after one makes two.
LEMMA PairAppended ==
    ASSUME NEW k, NEW m
    PROVE  Append(<<k>>, m) = <<k, m>>
<1> DEFINE S == {k, m}
           s == Append(<<k>>, m)
           u == <<k, m>>
<1>1. <<k>> \in Seq(S) /\ m \in S /\ Len(<<k>>) = 1
  OBVIOUS
<1>2. /\ s \in Seq(S) /\ Len(s) = 2 /\ s[1] = k /\ s[2] = m
  BY <1>1, AppendProperties
<1>3. u \in Seq(S) /\ Len(u) = 2 /\ u[1] = k /\ u[2] = m
  OBVIOUS
<1> HIDE DEF s, u, S
<1>4. \A j \in 1 .. Len(s) : s[j] = u[j]
  BY <1>2, <1>3
<1>5. s = u
  BY <1>2, <1>3, <1>4, SeqEqual
<1> QED
  BY <1>5 DEF s, u

\* db_query_namespace_items reads the file set, and the tree of its member.
LEMMA ItemsReceives ==
    ASSUME NEW t \in Frame, t.mode = "body", NEW f \in Files, t.q = Items(f),
           NEW q \in Queries, Awaits(t, q), NEW x, NEW R, NEW E, f \in R,
           NEW y \in Results \cup {None}, NEW e \in Tiers, NEW v \in Results,
           Answers(q, v, y, e, x, R, E), ItemsBodyOK(f, t, x, R, E)
    PROVE  ItemsBodyOK(f, Handed(RecordDep(t, q, y, e), v), x, R, E)
<1> DEFINE h == Handed(RecordDep(t, q, y, e), v)
           dep == [q |-> q, fp |-> y]
<1>0. Received(h, t, q, y, e, v)
  BY ReceivedFields
<1> HIDE DEF h
<1>1. \/ t.vals = <<>> /\ q = Set(f)
      \/ Len(t.vals) = 1 /\ t.vals[1] # Members(<<>>) /\ q = Ast(f)
  BY ItemsBody DEF Awaits
<1>2. CASE t.vals = <<>> /\ q = Set(f)
  <2>1. t.deps = <<>>
    BY <1>2 DEF ItemsBodyOK
  <2>2. Indexed(t, q) = {}
    BY <2>1 DEF Indexed
  <2>3. v = SetOf(f, E) /\ y = SetOf(f, E)
    BY <1>2 DEF Answers
  <2>4. h.vals = Append(t.vals, v) /\ h.deps = Append(t.deps, dep)
    BY <1>0, <2>2 DEF Received
  <2>5. h.vals = <<v>> /\ h.deps = <<dep>>
    BY <1>2, <2>1, <2>4
  <2> QED
    BY <1>2, <2>3, <2>5 DEF ItemsBodyOK, h
<1>3. CASE Len(t.vals) = 1 /\ t.vals[1] # Members(<<>>) /\ q = Ast(f)
  <2> DEFINE a == SetOf(f, E)
             da == [q |-> Set(f), fp |-> a]
  <2>1. t.vals = <<a>> /\ t.deps = <<da>>
    <3> HIDE DEF a, da
    <3>1. t.vals # <<>>
      BY <1>3
    <3>2. \A b : Len(<<a, b>>) # 1
      OBVIOUS
    <3>3. (t.vals = <<a>> /\ t.deps = <<da>>) \/ \E b : t.vals = <<a, b>>
      BY <3>1 DEF ItemsBodyOK, a, da
    <3> QED
      BY <1>3, <3>2, <3>3
  <2>2. f \in R \ E
    <3>1. a # Members(<<>>)
      <4> HIDE DEF a
      <4> QED
        BY <1>3, <2>1
    <3> QED
      BY <3>1 DEF SetOf
  <2> HIDE DEF a, da
  <2>3. Indexed(t, q) = {}
    BY <2>1 DEF Indexed
  <2>4. /\ v \in {Bottom, y} /\ y \in {Bottom, Tree(x[Src(f)])}
        /\ e = DUR_LOW
    BY <1>3 DEF Answers
  <2>5. /\ h.vals = Append(t.vals, v) /\ h.deps = Append(t.deps, dep)
        /\ h.durSet /\ h.minDur = DUR_LOW
    BY <1>0, <2>3, <2>4 DEF Received
  <2> HIDE DEF dep
  <2>6. h.vals = <<a, v>> /\ h.deps = <<da, dep>>
    BY <2>1, <2>5, PairAppended
  <2>7. v = Bottom \/ (v = y /\ v = Tree(x[Src(f)]))
    BY <2>4
  <2> QED
    BY <1>3, <2>2, <2>5, <2>6, <2>7 DEF ItemsBodyOK, a, da, dep, h
<1> QED
  BY <1>1, <1>2, <1>3

\* builtin_import reads the importer's tree, and the items of the namespace.
LEMMA ImpReceives ==
    ASSUME NEW t \in Frame, t.mode = "body", NEW f \in DOMAIN ImportOf,
           t.q = Imp(f), NEW q \in Queries, q \notin Paths, Awaits(t, q),
           NEW x, NEW R, NEW E,
           NEW y \in Results \cup {None}, NEW e \in Tiers, NEW v,
           Answers(q, v, y, e, x, R, E), ImpBodyOK(f, t, x, R, E)
    PROVE  ImpBodyOK(f, Handed(RecordDep(t, q, y, e), v), x, R, E)
<1> DEFINE h == Handed(RecordDep(t, q, y, e), v)
           dep == [q |-> q, fp |-> y]
<1>0. Received(h, t, q, y, e, v)
  BY ReceivedFields
<1> HIDE DEF h
<1>1. f \in Files /\ ImportOf[f] \in Files
  BY WorkspaceAssumption
<1>2. \/ t.vals = <<>> /\ q = Ast(f)
      \/ Len(t.vals) = 2 /\ q = Items(ImportOf[f])
  <2>1. Path(ImportOf[f]) \in Paths
    BY <1>1 DEF Paths
  <2> QED
    BY <2>1, ImpBody DEF Awaits
<1>3. t.vals \in Seq(Results) /\ t.deps \in Seq(Dep)
  BY DEF Frame, FrameFields, ValueSeqs
<1>4. CASE t.vals = <<>> /\ q = Ast(f)
  <2>1. t.deps = <<>>
    BY <1>4 DEF ImpBodyOK
  <2>2. Indexed(t, q) = {}
    BY <2>1 DEF Indexed
  <2>3. e = DUR_LOW
    BY <1>1, <1>4 DEF Answers
  <2>4. /\ h.vals = Append(t.vals, v) /\ h.deps = Append(t.deps, dep)
        /\ h.durSet /\ h.minDur = DUR_LOW
    BY <1>0, <2>2, <2>3 DEF Received
  <2>5. h.vals = <<v>> /\ h.deps = <<dep>>
    BY <1>4, <2>1, <2>4
  <2>6. Len(h.vals) = 1 /\ Len(h.deps) = 1 /\ h.deps[1].q = Ast(f)
    BY <1>4, <2>5
  <2> QED
    BY <2>4, <2>6 DEF ImpBodyOK, h
<1>5. CASE Len(t.vals) = 2 /\ q = Items(ImportOf[f])
  <2>1. /\ Len(t.deps) = 1 /\ t.deps[1].q = Ast(f)
        /\ t.durSet /\ t.minDur = DUR_LOW
    BY <1>5 DEF ImpBodyOK
  <2>2. Indexed(t, q) = {}
    BY <1>3, <2>1 DEF Indexed
  <2>3. v = y /\ ExportsOK(ImportOf[f], v, x, R, E)
    BY <1>1, <1>5 DEF Answers
  <2>4. /\ h.vals = Append(t.vals, v) /\ h.deps = Append(t.deps, dep)
        /\ h.durSet /\ h.minDur = DUR_LOW
    BY <1>0, <2>1, <2>2 DEF Received
  <2>5. Len(h.vals) = 3 /\ h.vals[3] = v
    <3>1. h.vals = Append(t.vals, v) /\ Len(t.vals) + 1 = 3
      BY <1>5, <2>4
    <3> QED
      BY <1>3, <3>1, AppendProperties
  <2>6. Len(h.deps) = 2 /\ h.deps[1] = t.deps[1] /\ h.deps[2] = dep
    BY <1>3, <2>1, <2>4
  <2> QED
    BY <1>5, <2>1, <2>3, <2>4, <2>5, <2>6 DEF ImpBodyOK, h, dep
<1> QED
  BY <1>2, <1>4, <1>5

\* A walk of NAMESPACE_ITEMS has pulled the tree: the dependency is refreshed
\* in place, after its recorded fingerprint was saved.
LEMMA ItemsPulls ==
    ASSUME NEW t \in Frame, t.mode = "walk", NEW f \in Files, t.q = Items(f),
           NEW q \in Queries, q \notin Inputs, Awaits(t, q),
           NEW c, NEW z, NEW d, NEW x, NEW R, NEW E,
           NEW y \in Results \cup {None}, NEW e \in Tiers, NEW v,
           ItemsWalk(f, t, c, z, d, x, R, E)
    PROVE  ItemsWalk(f, Handed(RecordDep(t, q, y, e), v), c, z, d, x, R, E)
<1> DEFINE h == Handed(RecordDep(t, q, y, e), v)
           dep == [q |-> q, fp |-> y]
<1>0. Received(h, t, q, y, e, v)
  BY ReceivedFields
<1> HIDE DEF h
<1>1. /\ t.pulled /\ t.i <= t.n /\ t.deps[t.i].q = q
      /\ t.i \in Nat \ {0} /\ t.deps \in Seq(Dep)
  BY DEF Awaits, Frame, FrameFields
<1>2. t.n = Len(t.deps) /\ t.n \in {1, 2} /\ t.deps[1].q = Set(f)
  BY DEF ItemsWalk
<1>3. t.i # 1
  BY <1>1, <1>2, InputQueries
<1>4. t.i = 2 /\ t.n = 2
  BY <1>1, <1>2, <1>3
<1>5. t.deps[2].q = Ast(f) /\ q = Ast(f)
  BY <1>1, <1>4 DEF ItemsWalk
<1>6. Indexed(t, q) = {2}
  <2>1. DOMAIN t.deps = 1 .. Len(t.deps) /\ Len(t.deps) = 2
    BY <1>1, <1>2, <1>4, LenProperties
  <2>2. DOMAIN t.deps = {1, 2}
    BY <2>1
  <2> QED
    BY <1>5, <2>2 DEF Indexed
<1>7. /\ h.i = t.i /\ h.n = t.n /\ h.pulled = t.pulled /\ h.want = t.want
      /\ Len(h.deps) = Len(t.deps)
      /\ \A k \in 1 .. Len(t.deps) :
           h.deps[k] = IF k \in {2} THEN dep ELSE t.deps[k]
  BY <1>0, <1>6 DEF Received
<1>8. h.deps[1] = t.deps[1] /\ h.deps[2] = dep
  BY <1>2, <1>4, <1>7
<1>9. h.i = 2 /\ h.pulled /\ h.n = 2 /\ Len(h.deps) = 2
  BY <1>1, <1>2, <1>4, <1>7
<1>10. h.deps[1] = t.deps[1] /\ h.deps[2].q = Ast(f) /\ h.want = t.want
  BY <1>5, <1>7, <1>8
<1>11. ~(2 > 2) /\ 2 > 1
  OBVIOUS
<1> HIDE DEF dep
<1>12. ItemsWalk(f, h, c, z, d, x, R, E)
  BY <1>1, <1>2, <1>4, <1>9, <1>10, <1>11 DEF ItemsWalk
<1> QED
  BY <1>12 DEF h

\* A walk of an import binding has pulled the tree or the items.
LEMMA ImpPulls ==
    ASSUME NEW t \in Frame, t.mode = "walk", NEW f \in DOMAIN ImportOf,
           t.q = Imp(f), NEW q \in Queries, Awaits(t, q),
           NEW c, NEW d, NEW x, NEW R, NEW E,
           NEW y \in Results \cup {None}, NEW e \in Tiers, NEW v,
           ImpWalk(f, t, c, d, x, R, E)
    PROVE  ImpWalk(f, Handed(RecordDep(t, q, y, e), v), c, d, x, R, E)
<1> DEFINE h == Handed(RecordDep(t, q, y, e), v)
           dep == [q |-> q, fp |-> y]
           g == ImportOf[f]
           D == 1 .. Len(t.deps)
<1>0. Received(h, t, q, y, e, v)
  BY ReceivedFields
<1> HIDE DEF h
<1>1. /\ t.pulled /\ t.i <= t.n /\ t.deps[t.i].q = q /\ t.n <= Len(t.deps)
      /\ t.i \in Nat \ {0} /\ t.n \in Nat /\ t.deps \in Seq(Dep)
  BY DEF Awaits, Frame, FrameFields
<1>2. /\ Len(t.deps) \in Nat /\ DOMAIN t.deps = D
  BY <1>1, LenProperties
<1>3. t.i \in D
  BY <1>1, <1>2
<1>4. \A k \in D : t.deps[k].q \in {Ast(f), Items(g)}
  BY <1>2 DEF ImpWalk
<1>5. q \in {Ast(f), Items(g)}
  BY <1>1, <1>3, <1>4
<1>6. /\ h.i = t.i /\ h.n = t.n /\ h.pulled = t.pulled /\ h.want = t.want
      /\ h.deps \in Seq(Dep)
      /\ Indexed(t, q) = {} => h.deps = Append(t.deps, dep)
      /\ Indexed(t, q) # {} =>
           /\ Len(h.deps) = Len(t.deps)
           /\ \A k \in D : h.deps[k] = IF k \in Indexed(t, q) THEN dep
                                       ELSE t.deps[k]
  BY <1>0 DEF Received
<1> HIDE DEF g
<1>7. /\ Len(h.deps) \in {Len(t.deps), Len(t.deps) + 1}
      /\ DOMAIN h.deps = 1 .. Len(h.deps)
      /\ \A k \in D : h.deps[k].q = t.deps[k].q
      /\ \A k \in D : k \notin Indexed(t, q) => h.deps[k] = t.deps[k]
      /\ Len(h.deps) = Len(t.deps) + 1 =>
           h.deps[Len(t.deps) + 1] = dep /\ Indexed(t, q) = {}
  <2>1. CASE Indexed(t, q) = {}
    <3>1. /\ Len(h.deps) = Len(t.deps) + 1
          /\ \A k \in D : h.deps[k] = t.deps[k]
          /\ h.deps[Len(t.deps) + 1] = dep
      BY <1>1, <1>6, <2>1, AppendProperties
    <3> QED
      BY <1>6, <2>1, <3>1, LenProperties
  <2>2. CASE Indexed(t, q) # {}
    <3>1. Len(h.deps) = Len(t.deps) /\ Len(t.deps) # Len(t.deps) + 1
      BY <1>2, <1>6, <2>2
    <3>2. \A k \in Indexed(t, q) : t.deps[k].q = q
      BY DEF Indexed
    <3>3. \A k \in D : h.deps[k].q = t.deps[k].q
      BY <1>6, <2>2, <3>2
    <3> QED
      BY <1>6, <2>2, <3>1, <3>3, LenProperties
  <2> QED
    BY <2>1, <2>2
<1>8. \A k \in DOMAIN h.deps : k \in D \/
         (k = Len(t.deps) + 1 /\ Len(h.deps) = Len(t.deps) + 1)
  BY <1>2, <1>7
<1>9. \A k \in DOMAIN h.deps : h.deps[k].q \in {Ast(f), Items(g)}
  <2> SUFFICES ASSUME NEW k \in DOMAIN h.deps
               PROVE  h.deps[k].q \in {Ast(f), Items(g)}
    OBVIOUS
  <2>1. CASE k \in D
    BY <1>4, <1>7, <2>1
  <2>2. CASE k = Len(t.deps) + 1 /\ Len(h.deps) = Len(t.deps) + 1
    BY <1>5, <1>7, <2>2
  <2> QED
    BY <1>8, <2>1, <2>2
<1>10. CASE c = Bottom
  BY <1>9, <1>10 DEF ImpWalk, h, g
<1>11. CASE c # Bottom
  <2>1. /\ t.n > 1 /\ d = DUR_LOW
        /\ \A k \in D : t.deps[k].q = IF k = 2 THEN Items(g) ELSE Ast(f)
        /\ IF t.i = 2 /\ t.pulled THEN t.want = c ELSE t.deps[2].fp = c
        /\ t.i > 2 => ExportsOK(g, c, x, R, E)
    BY <1>2, <1>11 DEF ImpWalk, g
  <2>2. 2 \in D /\ Items(g) # Ast(f) /\ Len(t.deps) + 1 # 2
    <3>1. \A m, n \in Nat : n > 1 /\ n <= m => 2 \in 1 .. m /\ m + 1 # 2
      OBVIOUS
    <3>2. t.n \in Nat /\ t.n <= Len(t.deps) /\ t.n > 1 /\ Len(t.deps) \in Nat
      BY <1>1, <1>2, <2>1
    <3>3. Items(g) # Ast(f)
      BY QueriesDiffer
    <3> QED
      BY <3>1, <3>2, <3>3
  <2>3. t.i # 2 => t.deps[2].fp = c /\ q = Ast(f)
    BY <1>1, <1>3, <2>1
  <2>4. t.i # 2 => 2 \notin Indexed(t, q)
    BY <2>1, <2>2, <2>3 DEF Indexed
  <2>5. t.i # 2 => h.deps[2].fp = c
    BY <1>7, <2>2, <2>3, <2>4
  <2>6. t.i = 2 => q = Items(g) /\ 2 \in Indexed(t, q)
    BY <1>1, <1>2, <2>1, <2>2 DEF Indexed
  <2>7. \A k \in DOMAIN h.deps :
          h.deps[k].q = IF k = 2 THEN Items(g) ELSE Ast(f)
    <3> SUFFICES ASSUME NEW k \in DOMAIN h.deps
                 PROVE  h.deps[k].q = IF k = 2 THEN Items(g) ELSE Ast(f)
      OBVIOUS
    <3>1. CASE k \in D
      BY <1>7, <2>1, <3>1
    <3>2. CASE k = Len(t.deps) + 1 /\ Len(h.deps) = Len(t.deps) + 1
      <4>1. h.deps[k] = dep /\ t.i # 2 /\ k # 2
        BY <1>7, <2>2, <2>6, <3>2
      <4> QED
        BY <2>3, <4>1
    <3> QED
      BY <1>8, <3>1, <3>2
  <2>8. IF h.i = 2 /\ h.pulled THEN h.want = c ELSE h.deps[2].fp = c
    BY <1>1, <1>6, <2>1, <2>5
  <2> QED
    BY <1>6, <1>9, <2>1, <2>7, <2>8 DEF ImpWalk, h, g
<1> QED
  BY <1>10, <1>11

\* So every frame stays in order when its callee returns.
LEMMA FrameReceives ==
    ASSUME NEW t \in Frame, NEW q \in Queries, q \notin Paths, Awaits(t, q),
           t.mode = "walk" => q \notin Inputs,
           NEW c, NEW z, NEW d, NEW x, NEW R, NEW E, t.q[2] \in R,
           NEW y \in Results \cup {None}, NEW e \in Tiers, NEW v \in Results,
           Answers(q, v, y, e, x, R, E), FrameOK(t, c, z, d, x, R, E)
    PROVE  FrameOK(Handed(RecordDep(t, q, y, e), v), c, z, d, x, R, E)
<1> DEFINE h == Handed(RecordDep(t, q, y, e), v)
<1>0. Received(h, t, q, y, e, v)
  BY ReceivedFields
<1> HIDE DEF h
<1>1. /\ h.q = t.q /\ h.mode = t.mode /\ h.prev = t.prev /\ h.n = t.n
      /\ t.mode = "walk" => h.vals = t.vals
      /\ t.mode \in {"walk", "body"}
  BY <1>0 DEF Received, Frame, FrameFields
<1>2. CASE t.mode = "walk"
  <2>1. WalkOK(t, c, z, d, x, R, E)
    BY <1>2 DEF FrameOK
  <2>2. ASSUME NEW f \in Files, t.q = Ast(f)
        PROVE  AstWalk(f, h, c, z, d, x)
    <3>1. Len(t.deps) = 1 /\ t.deps[1].q = Src(f)
      BY <2>1, <2>2 DEF WalkOK, AstWalk
    <3>2. /\ t.i <= t.n /\ t.n <= Len(t.deps) /\ t.i \in Nat \ {0}
          /\ t.n \in Nat /\ t.deps[t.i].q = q
      BY <1>2 DEF Awaits, Frame, FrameFields
    <3>3. t.i = 1
      BY <3>1, <3>2
    <3> QED
      BY <1>2, <3>1, <3>2, <3>3, InputQueries
  <2>3. ASSUME NEW f \in Files, t.q = Items(f)
        PROVE  ItemsWalk(f, h, c, z, d, x, R, E)
    BY <1>2, <2>1, <2>3, ItemsPulls DEF WalkOK, h
  <2>4. ASSUME NEW f \in DOMAIN ImportOf, t.q = Imp(f)
        PROVE  ImpWalk(f, h, c, d, x, R, E)
    BY <1>2, <2>1, <2>4, ImpPulls DEF WalkOK, h
  <2>5. WalkOK(h, c, z, d, x, R, E)
    BY <1>1, <1>2, <2>1, <2>2, <2>3, <2>4 DEF WalkOK
  <2> QED
    BY <1>1, <1>2, <2>5 DEF FrameOK, h
<1>3. CASE t.mode = "body"
  <2>1. BodyOK(t, x, R, E)
    BY <1>3 DEF FrameOK
  <2>2. ASSUME NEW f \in Files, t.q = Ast(f)
        PROVE  AstBodyOK(f, h, x, E)
    BY <1>3, <2>1, <2>2, AstReceives DEF BodyOK, h
  <2>3. ASSUME NEW f \in Files, t.q = Items(f)
        PROVE  ItemsBodyOK(f, h, x, R, E)
    BY <1>3, <2>1, <2>3, ItemsReceives, QueryFile DEF BodyOK, h
  <2>4. ASSUME NEW f \in DOMAIN ImportOf, t.q = Imp(f)
        PROVE  ImpBodyOK(f, h, x, R, E)
    BY <1>3, <2>1, <2>4, ImpReceives DEF BodyOK, h
  <2>5. BodyOK(h, x, R, E)
    BY <1>1, <2>2, <2>3, <2>4 DEF BodyOK
  <2> QED
    BY <1>1, <1>3, <2>5 DEF FrameOK, h
<1> QED
  BY <1>1, <1>2, <1>3

\* A body that returns leaves a fresh memo.
LEMMA BodyEnds ==
    ASSUME NEW t \in Frame, t.mode = "body", Upcoming(t).op = "return",
           NEW x, NEW R, NEW E, t.q[2] \in R, BodyOK(t, x, R, E),
           \A g \in R : x[Src(g)] \in Texts
    PROVE  LET v == Upcoming(t).val
           IN  /\ SlotOK(t.q, t.deps, v, v, FrameDur(t), TRUE, x, R, E)
               /\ \A f \in Files \cap E : t.q = Ast(f) => v = Bottom
<1> DEFINE v == Upcoming(t).val
           d == FrameDur(t)
<1>1. t.durSet /\ t.minDur = DUR_LOW => d = DUR_LOW
  BY DEF FrameDur
<1>2. t.vals \in Seq(Results) /\ t.deps \in Seq(Dep) /\ Len(t.vals) \in Nat
  BY DEF Frame, FrameFields, ValueSeqs
<1> HIDE DEF d
<1>3. ASSUME NEW f \in Files, t.q = Ast(f)
      PROVE  /\ AstSlot(f, t.deps, v, v, d, TRUE, x)
             /\ f \in E => v = Bottom
  <2>1. /\ Len(t.vals) > 0
        /\ v = IF t.vals[1] \in Texts THEN Tree(t.vals[1]) ELSE Bottom
    BY <1>3, AstBody
  <2>2. /\ t.vals = <<TextOf(f, x, E)>>
        /\ t.deps = <<[q |-> Src(f), fp |-> x[Src(f)]]>>
        /\ t.durSet /\ t.minDur = DUR_LOW
    BY <1>3, <2>1 DEF BodyOK, AstBodyOK
  <2>3. t.vals[1] = TextOf(f, x, E)
    BY <2>2
  <2>4. /\ Len(t.deps) = 1 /\ t.deps[1].q = Src(f) /\ t.deps[1].fp = x[Src(f)]
    BY <2>2
  <2>5. v \in {Bottom, Tree(x[Src(f)])} /\ (f \in E => v = Bottom)
    BY <2>1, <2>3, WorkspaceAssumption DEF TextOf
  <2> HIDE DEF v
  <2> QED
    BY <1>1, <2>2, <2>4, <2>5 DEF AstSlot
<1>4. ASSUME NEW f \in Files, t.q = Items(f)
      PROVE  ItemsSlot(f, t.deps, v, v, d, TRUE, x, R, E)
  <2> DEFINE a == SetOf(f, E)
             last == t.vals[Len(t.vals)]
  <2>1. /\ Len(t.vals) > 0
        /\ Len(t.vals) = 1 => t.vals[1] = Members(<<>>)
        /\ v = Exports(UNION {u.names : u \in TextsBehind(last)})
    BY <1>4, ItemsBody
  <2>2. f \in R
    BY <1>4, QueryFile
  <2>3. \A b : b = Bottom \/ (\E m : b = Members(m)) => TextsBehind(b) = {}
    <3>1. \A m, u : Members(m) # Tree(u)
      BY ValuesDiffer
    <3>2. \A u \in Texts : Bottom # Tree(u)
      BY QueriesAssumption
    <3> QED
      BY <3>1, <3>2 DEF TextsBehind
  <2>4. TextsBehind(last) = {} => v = Exports({})
    <3>1. TextsBehind(last) = {} =>
            UNION {u.names : u \in TextsBehind(last)} = {}
      OBVIOUS
    <3> QED
      BY <2>1, <3>1
  <2> HIDE DEF v
  <2>5. CASE /\ t.vals = <<a>>
             /\ t.deps = <<[q |-> Set(f), fp |-> a]>>
    <3>1. Len(t.vals) = 1 /\ last = t.vals[1]
      BY <2>5
    <3>2. Len(t.deps) = 1 /\ t.deps[1].q = Set(f)
      BY <2>5
    <3>3. v = Exports({})
      BY <2>1, <2>3, <2>4, <3>1
    <3> HIDE DEF last
    <3> QED
      BY <3>2, <3>3 DEF ItemsSlot
  <2>6. CASE \E b \in Results, y \in Results \cup {None} :
               /\ t.vals = <<a, b>> /\ f \in R \ E
               /\ t.deps = <<[q |-> Set(f), fp |-> a], [q |-> Ast(f), fp |-> y]>>
               /\ b = Bottom \/ (b = y /\ b = Tree(x[Src(f)]))
               /\ t.durSet /\ t.minDur = DUR_LOW
    <3>1. PICK b \in Results, y \in Results \cup {None} :
               /\ t.vals = <<a, b>> /\ f \in R \ E
               /\ t.deps = <<[q |-> Set(f), fp |-> a], [q |-> Ast(f), fp |-> y]>>
               /\ b = Bottom \/ (b = y /\ b = Tree(x[Src(f)]))
               /\ t.durSet /\ t.minDur = DUR_LOW
      BY <2>6
    <3>2. Len(t.vals) = 2 /\ last = b
      BY <3>1
    <3>3. /\ Len(t.deps) = 2 /\ t.deps[1].q = Set(f) /\ t.deps[1].fp = a
          /\ t.deps[2].q = Ast(f) /\ t.deps[2].fp = y
      BY <3>1
    <3>4. a = Members(<<f>>) /\ d = DUR_LOW
      BY <1>1, <3>1 DEF SetOf
    <3> HIDE DEF last, a
    <3>5. CASE b = Bottom
      <4>1. v = Exports({})
        BY <2>3, <2>4, <3>2, <3>5
      <4> QED
        BY <3>3, <4>1 DEF ItemsSlot
    <3>6. CASE b = y /\ b = Tree(x[Src(f)])
      <4>1. x[Src(f)] \in Texts
        BY <2>2
      <4>2. TextsBehind(last) = {x[Src(f)]}
        BY <3>2, <3>6, <4>1, ValuesDiffer DEF TextsBehind
      <4>3. UNION {u.names : u \in TextsBehind(last)} = x[Src(f)].names
        BY <4>2
      <4>4. v = Exports(x[Src(f)].names)
        BY <2>1, <4>3
      <4> QED
        BY <3>1, <3>3, <3>4, <3>6, <4>1, <4>4 DEF ItemsSlot
    <3> QED
      BY <3>1, <3>5, <3>6
  <2>7. t.vals # <<>>
    BY <2>1
  <2> QED
    BY <1>4, <2>5, <2>6, <2>7 DEF BodyOK, ItemsBodyOK
<1>5. ASSUME NEW f \in DOMAIN ImportOf, t.q = Imp(f)
      PROVE  ImpSlot(f, t.deps, v, d, TRUE, x, R, E)
  <2>1. /\ Len(t.vals) > 0
        /\ v = Bottom \/ (Len(t.vals) > 2 /\ v = t.vals[3])
    BY <1>5, ImpBody
  <2>2. t.vals # <<>> /\ DOMAIN t.deps = 1 .. Len(t.deps)
    BY <1>2, <2>1, LenProperties
  <2> HIDE DEF v
  <2>3. CASE /\ Len(t.vals) \in {1, 2} /\ Len(t.deps) = 1
             /\ t.deps[1].q = Ast(f)
    <3>1. v = Bottom
      BY <2>1, <2>3
    <3>2. Len(t.deps) > 0 /\ \A k \in DOMAIN t.deps : t.deps[k].q = Ast(f)
      BY <2>2, <2>3
    <3> QED
      BY <3>1, <3>2 DEF ImpSlot
  <2>4. CASE /\ Len(t.vals) = 3 /\ Len(t.deps) = 2 /\ t.deps[1].q = Ast(f)
             /\ t.deps[2] = [q |-> Items(ImportOf[f]), fp |-> t.vals[3]]
             /\ ExportsOK(ImportOf[f], t.vals[3], x, R, E)
             /\ t.durSet /\ t.minDur = DUR_LOW
    <3>1. /\ t.deps[2].q = Items(ImportOf[f]) /\ t.deps[2].fp = t.vals[3]
          /\ Len(t.deps) > 0 /\ Len(t.deps) > 1 /\ d = DUR_LOW
      BY <1>1, <2>4
    <3>2. \A k \in DOMAIN t.deps :
            t.deps[k].q = IF k = 2 THEN Items(ImportOf[f]) ELSE Ast(f)
      BY <2>2, <2>4, <3>1
    <3> QED
      BY <2>1, <2>4, <3>1, <3>2 DEF ImpSlot
  <2> QED
    BY <1>5, <2>2, <2>3, <2>4 DEF BodyOK, ImpBodyOK
<1> HIDE DEF v
<1>6. SlotOK(t.q, t.deps, v, v, d, TRUE, x, R, E)
  BY <1>3, <1>4, <1>5 DEF SlotOK
<1> QED
  BY <1>3, <1>6 DEF v, d

-----------------------------------------------------------------------------
(* The same for stacks.                                                      *)

\* Every frame is about a file that has a row.
Homed(s, R) == \A k \in 1 .. Len(s) : s[k].q[2] \in R

\* The slots of other queries may change under a stack.
LEMMA FramesSame ==
    ASSUME NEW s, NEW c, NEW x, NEW d, NEW R, NEW c2, NEW x2, NEW d2, NEW R2,
           NEW E, FramesOK(s, c, x, d, R, E), Homed(s, R), R \subseteq R2,
           \A g \in R : x2[Src(g)] = x[Src(g)],
           \A k \in 1 .. Len(s) : /\ c2[s[k].q] = c[s[k].q]
                                  /\ x2[s[k].q] = x[s[k].q]
                                  /\ d2[s[k].q] = d[s[k].q]
    PROVE  FramesOK(s, c2, x2, d2, R2, E)
<1> SUFFICES ASSUME NEW k \in 1 .. Len(s)
             PROVE  FrameOK(s[k], c2[s[k].q], x2[s[k].q], d2[s[k].q], x2, R2, E)
  BY DEF FramesOK
<1>1. FrameOK(s[k], c2[s[k].q], x2[s[k].q], d2[s[k].q], x, R, E)
  BY DEF FramesOK
<1>2. s[k].q[2] \in R
  BY DEF Homed
<1> QED
  BY <1>1, <1>2, FrameSame

\* A callee returns to the stack: its caller is in order, and a walk finds the
\* dependency recorded anew.
LEMMA FramesReceived ==
    ASSUME NEW s \in Seq(Frame), NEW c, NEW x, NEW d, NEW R, NEW E,
           FramesOK(s, c, x, d, R, E), Homed(s, R),
           NEW q \in Queries, q \notin Paths, s # <<>> => Awaits(Top(s), q),
           s # <<>> /\ Top(s).mode = "walk" => q \notin Inputs,
           NEW y \in Results \cup {None}, NEW e \in Tiers, NEW v \in Results,
           Answers(q, v, y, e, x, R, E)
    PROVE  LET u == ReturnTo(RecordOnParent(s, q, y, e), v)
           IN  /\ FramesOK(u, c, x, d, R, E)
               /\ u # <<>> /\ Top(u).mode = "walk" =>
                    /\ Top(u).i <= Top(u).n /\ Top(u).deps[Top(u).i].q = q
                    /\ Top(u).i # 1 => Top(u).deps[Top(u).i].fp = y
<1> DEFINE u == ReturnTo(RecordOnParent(s, q, y, e), v)
           t == Top(s)
           h == Handed(RecordDep(t, q, y, e), v)
<1>1. Receptive(s)
  BY AwaitsReceptive
<1>2. CASE s = <<>>
  <2>1. u = <<>>
    BY <1>1, <1>2, ReceivedTop
  <2> QED
    BY <2>1 DEF FramesOK
<1>3. CASE s # <<>>
  <2>1. /\ Len(u) = Len(s) /\ Len(s) \in Nat \ {0}
        /\ \A k \in 1 .. Len(s) : u[k] = IF k = Len(s) THEN h ELSE s[k]
    BY <1>1, <1>3, ReceivedTop
  <2>2. /\ t \in Frame /\ t.q[2] \in R /\ Awaits(t, q)
        /\ FrameOK(t, c[t.q], x[t.q], d[t.q], x, R, E)
    BY <1>3, <2>1, TopIsFrame DEF FramesOK, Homed, Top
  <2>3. FrameOK(h, c[t.q], x[t.q], d[t.q], x, R, E)
    BY <1>3, <2>2, FrameReceives
  <2>4. Received(h, t, q, y, e, v)
    BY <2>2, ReceivedFields
  <2> HIDE DEF h
  <2>5. h.q = t.q
    BY <2>4 DEF Received
  <2> HIDE DEF u
  <2>6. FramesOK(u, c, x, d, R, E)
    <3> SUFFICES ASSUME NEW k \in 1 .. Len(s)
                 PROVE  FrameOK(u[k], c[u[k].q], x[u[k].q], d[u[k].q], x, R, E)
      BY <2>1 DEF FramesOK
    <3>1. CASE k = Len(s)
      BY <2>1, <2>3, <2>5, <3>1
    <3>2. CASE k # Len(s)
      BY <2>1, <3>2 DEF FramesOK
    <3> QED
      BY <3>1, <3>2
  <2>7. Top(u) = h
    BY <2>1 DEF Top
  <2>8. ASSUME h.mode = "walk"
        PROVE  /\ h.i <= h.n /\ h.deps[h.i].q = q
               /\ h.i # 1 => h.deps[h.i].fp = y
    <3> HIDE DEF t
    <3>1. /\ t.mode = "walk" /\ h.i = t.i /\ h.n = t.n
      BY <2>4, <2>8 DEF Received
    <3>2. /\ t.i <= t.n /\ t.deps[t.i].q = q /\ t.n <= Len(t.deps)
          /\ t.i \in Nat \ {0} /\ t.n \in Nat /\ t.deps \in Seq(Dep)
      BY <2>2, <3>1 DEF Awaits, Frame, FrameFields
    <3>3. Len(t.deps) \in Nat /\ DOMAIN t.deps = 1 .. Len(t.deps)
      BY <3>2, LenProperties
    <3>4. t.i \in 1 .. Len(t.deps)
      BY <3>2, <3>3
    <3>5. CASE Indexed(t, q) = {}
      <4>1. t.i = 1
        BY <3>2, <3>3, <3>4, <3>5 DEF Indexed
      <4>2. h.deps = Append(t.deps, [q |-> q, fp |-> y])
        BY <2>4, <3>5 DEF Received
      <4>3. h.deps[t.i] = t.deps[t.i]
        BY <3>2, <3>4, <4>2, AppendProperties
      <4> QED
        BY <3>1, <3>2, <4>1, <4>3
    <3>6. CASE Indexed(t, q) # {}
      <4>1. h.deps[t.i] = IF t.i \in Indexed(t, q) THEN [q |-> q, fp |-> y]
                          ELSE t.deps[t.i]
        BY <2>4, <3>4, <3>6 DEF Received
      <4>2. t.i # 1 => t.i \in Indexed(t, q)
        BY <3>2, <3>3, <3>4 DEF Indexed
      <4> QED
        BY <3>1, <3>2, <4>1, <4>2
    <3> QED
      BY <3>5, <3>6
  <2> QED
    BY <2>6, <2>7, <2>8 DEF u
<1> QED
  BY <1>2, <1>3

\* The caller is in order as the callee finds it.
LEMMA FramesCaller ==
    ASSUME TypeOK, NEW q \in Queries, Calls(q), NEW c, NEW x, NEW d, NEW R,
           NEW E, FramesOK(stack, c, x, d, R, E), Homed(stack, R)
    PROVE  /\ FramesOK(Caller(q), c, x, d, R, E) /\ Homed(Caller(q), R)
           /\ Caller(q) # <<>> /\ Top(Caller(q)).mode = "walk" => q \notin Inputs
<1>1. CASE stack = <<>>
  BY <1>1 DEF Caller
<1>2. CASE stack # <<>>
  <2> DEFINE u == Caller(q)
             t == Top(stack)
             g == Calling(t, q)
  <2>1. /\ Len(u) = Len(stack) /\ Len(stack) \in Nat \ {0}
        /\ Top(u) = g
        /\ \A k \in 1 .. Len(stack) :
             u[k] = IF k = Len(stack) THEN g ELSE stack[k]
    BY <1>2, CallerTop
  <2>2. stack \in Seq(Frame)
    BY DEF TypeOK
  <2>3. /\ t \in Frame /\ t.q[2] \in R
        /\ FrameOK(t, c[t.q], x[t.q], d[t.q], x, R, E)
    BY <1>2, <2>1, <2>2, TopIsFrame DEF FramesOK, Homed, Top
  <2>4. t.mode = "walk" => ~t.pulled /\ q \notin Inputs
    BY <1>2 DEF Calls, ConsumerCalls, BodyCalls, WalkCalls
  <2>5. /\ FrameOK(g, c[t.q], x[t.q], d[t.q], x, R, E)
        /\ g.q = t.q /\ g.mode = t.mode
    BY <2>3, <2>4, FrameCalling, CallingFields
  <2> HIDE DEF g, u, t
  <2>6. ASSUME NEW k \in 1 .. Len(u)
        PROVE  /\ FrameOK(u[k], c[u[k].q], x[u[k].q], d[u[k].q], x, R, E)
               /\ u[k].q[2] \in R
    <3>1. CASE k = Len(stack)
      BY <2>1, <2>3, <2>5, <3>1
    <3>2. CASE k # Len(stack)
      BY <2>1, <3>2 DEF FramesOK, Homed
    <3> QED
      BY <3>1, <3>2
  <2>7. FramesOK(u, c, x, d, R, E) /\ Homed(u, R)
    BY <2>6 DEF FramesOK, Homed
  <2> QED
    BY <2>1, <2>4, <2>5, <2>7 DEF u
<1> QED
  BY <1>1, <1>2

\* A frame is pushed ...
LEMMA FramesPushed ==
    ASSUME NEW s \in Seq(Frame), NEW f \in Frame, NEW c, NEW x, NEW d, NEW R,
           NEW E, FramesOK(s, c, x, d, R, E),
           FrameOK(f, c[f.q], x[f.q], d[f.q], x, R, E)
    PROVE  FramesOK(Append(s, f), c, x, d, R, E) /\ Top(Append(s, f)) = f
<1> DEFINE u == Append(s, f)
<1>1. /\ Len(u) = Len(s) + 1 /\ Len(s) \in Nat
      /\ \A k \in 1 .. Len(s) + 1 :
           \/ k \in 1 .. Len(s) /\ u[k] = s[k]
           \/ k = Len(s) + 1 /\ u[k] = f
  BY PushedTop
<1>2. u[Len(s) + 1] = f
  BY AppendProperties
<1> HIDE DEF u
<1>3. FramesOK(u, c, x, d, R, E)
  BY <1>1 DEF FramesOK
<1> QED
  BY <1>1, <1>2, <1>3 DEF u, Top

\* ... popped ...
LEMMA FramesPopped ==
    ASSUME NEW s \in Seq(Frame), s # <<>>, NEW c, NEW x, NEW d, NEW R, NEW E,
           FramesOK(s, c, x, d, R, E), Homed(s, R)
    PROVE  FramesOK(Popped(s), c, x, d, R, E) /\ Homed(Popped(s), R)
<1>1. /\ Len(Popped(s)) = Len(s) - 1 /\ Len(s) \in Nat \ {0}
      /\ \A k \in 1 .. Len(s) - 1 : Popped(s)[k] = s[k]
  BY PoppedFrames
<1>2. \A k \in 1 .. Len(s) - 1 : k \in 1 .. Len(s)
  BY <1>1
<1> QED
  BY <1>1, <1>2 DEF FramesOK, Homed

\* ... or replaced on top.
LEMMA FramesReplaced ==
    ASSUME NEW s \in Seq(Frame), s # <<>>, NEW f, NEW c, NEW x, NEW d, NEW R,
           NEW E, FramesOK(Popped(s), c, x, d, R, E),
           FrameOK(f, c[f.q], x[f.q], d[f.q], x, R, E)
    PROVE  FramesOK(OnTop(s, f), c, x, d, R, E) /\ Top(OnTop(s, f)) = f
<1> DEFINE u == OnTop(s, f)
<1>1. /\ Len(u) = Len(s) /\ Len(s) \in Nat \ {0}
      /\ \A k \in 1 .. Len(s) : u[k] = IF k = Len(s) THEN f ELSE s[k]
  BY ReplacedTop
<1>2. /\ Len(Popped(s)) = Len(s) - 1
      /\ \A k \in 1 .. Len(s) - 1 : Popped(s)[k] = s[k]
  BY PoppedFrames
<1> HIDE DEF u
<1>3. ASSUME NEW k \in 1 .. Len(s)
      PROVE  FrameOK(u[k], c[u[k].q], x[u[k].q], d[u[k].q], x, R, E)
  <2>1. CASE k = Len(s)
    BY <1>1, <2>1
  <2>2. CASE k # Len(s)
    <3>1. k \in 1 .. Len(s) - 1
      BY <1>1, <2>2
    <3>2. u[k] = s[k] /\ Popped(s)[k] = s[k]
      BY <1>1, <1>2, <2>2, <3>1
    <3> QED
      BY <1>2, <3>1, <3>2 DEF FramesOK
  <2> QED
    BY <2>1, <2>2
<1>4. FramesOK(u, c, x, d, R, E)
  BY <1>1, <1>3 DEF FramesOK
<1> QED
  BY <1>1, <1>4 DEF u, Top

\* A dependency that held: the walk is in order for the next one.
LEMMA WalkAdvances ==
    ASSUME NEW t \in Frame, t.mode = "walk", t.i <= t.n,
           NEW c, NEW y, NEW d, NEW x, NEW R, NEW E, t.q[2] \in R,
           FrameOK(t, c, y, d, x, R, E),
           \A g \in R : x[Set(g)] = SetOf(g, E),
           LET p == t.deps[t.i]
           IN  IF p.q \in Inputs THEN x[p.q] = p.fp
               ELSE /\ t.pulled /\ x[p.q] = t.want
                    /\ t.i # 1 => p.fp = x[p.q]
                    /\ \E v, e : Answers(p.q, v, x[p.q], e, x, R, E)
    PROVE  FrameOK([t EXCEPT !.i = @ + 1, !.pulled = FALSE], c, y, d, x, R, E)
<1> DEFINE h == [t EXCEPT !.i = @ + 1, !.pulled = FALSE]
           p == t.deps[t.i]
<1>1. /\ t \in FrameFields /\ t.n <= Len(t.deps) /\ t.i \in Nat \ {0}
      /\ t.n \in Nat /\ Len(t.deps) \in Nat /\ DOMAIN t.deps = 1 .. Len(t.deps)
  <2>1. t.deps \in Seq(Dep)
    BY DEF Frame, FrameFields
  <2> QED
    BY <2>1, LenProperties DEF Frame, FrameFields
<1>2. /\ h.q = t.q /\ h.mode = t.mode /\ h.deps = t.deps /\ h.vals = t.vals
      /\ h.prev = t.prev /\ h.n = t.n /\ h.i = t.i + 1 /\ ~h.pulled
  BY <1>1 DEF FrameFields
<1> HIDE DEF h
<1>3. WalkOK(t, c, y, d, x, R, E)
  BY DEF FrameOK
<1>4. \A g : Ast(g) \notin Inputs /\ Items(g) \notin Inputs
  BY QueriesAssumption, QueriesDiffer DEF Src, Set, Ast, Items, Paths
<1>5. ASSUME NEW f \in Files, t.q = Ast(f)
      PROVE  AstWalk(f, h, c, y, d, x)
  <2>1. AstWalk(f, t, c, y, d, x)
    BY <1>3, <1>5 DEF WalkOK
  <2>2. t.i = 1 /\ p.q = Src(f)
    BY <1>1, <2>1 DEF AstWalk
  <2>3. x[Src(f)] = t.deps[1].fp
    BY <2>2, InputQueries
  <2> QED
    BY <1>2, <2>1, <2>3 DEF AstWalk
<1>6. ASSUME NEW f \in Files, t.q = Items(f)
      PROVE  ItemsWalk(f, h, c, y, d, x, R, E)
  <2>1. ItemsWalk(f, t, c, y, d, x, R, E) /\ f \in R
    BY <1>3, <1>6, QueryFile DEF WalkOK
  <2>2. /\ t.n = Len(t.deps) /\ t.n \in {1, 2} /\ t.deps[1].q = Set(f)
        /\ t.n = 2 => t.deps[2].q = Ast(f)
        /\ c = y
    BY <2>1 DEF ItemsWalk
  <2>3. CASE c = Exports({})
    BY <1>2, <2>2, <2>3 DEF ItemsWalk
  <2>4. CASE c # Exports({})
    <3>1. /\ t.n = 2 /\ t.deps[1].fp = Members(<<f>>) /\ d = DUR_LOW
          /\ t.i > 1 => f \in R \ E
      BY <2>1, <2>4 DEF ItemsWalk
    <3>2. PICK u \in Texts :
               /\ c = Exports(u.names)
               /\ IF t.i = 2 /\ t.pulled THEN t.want = Tree(u)
                  ELSE t.deps[2].fp = Tree(u)
      BY <2>1, <2>4 DEF ItemsWalk
    <3>3. CASE t.i = 1
      <4>1. x[Set(f)] = Members(<<f>>)
        BY <2>2, <3>1, <3>3, InputQueries
      <4>2. f \in R \ E
        <5>1. <<f>> # <<>>
          OBVIOUS
        <5> QED
          BY <2>1, <4>1, <5>1, ValuesDiffer DEF SetOf
      <4>3. h.i = 2 /\ ~(h.i > 2) /\ t.deps[2].fp = Tree(u)
        BY <1>2, <3>2, <3>3
      <4> QED
        BY <1>2, <2>2, <3>1, <3>2, <4>2, <4>3 DEF ItemsWalk
    <3>4. CASE t.i = 2
      <4>1. p.q = Ast(f) /\ p.q \notin Inputs
        BY <1>4, <2>2, <3>1, <3>4
      <4>2. /\ t.pulled /\ x[Ast(f)] = t.want /\ p.fp = x[Ast(f)]
            /\ \E v, e : Answers(Ast(f), v, x[Ast(f)], e, x, R, E)
        BY <3>4, <4>1
      <4>3. x[Ast(f)] = Tree(u) /\ t.deps[2].fp = Tree(u)
        BY <3>2, <3>4, <4>2
      <4>4. x[Ast(f)] \in {Bottom, Tree(x[Src(f)])}
        BY <4>2 DEF Answers
      <4>5. Tree(u) # Bottom
        BY QueriesAssumption
      <4>6. u = x[Src(f)]
        BY <4>3, <4>4, <4>5, ValuesDiffer
      <4>7. h.i # 2 /\ h.i > 1 /\ t.i > 1
        BY <1>2, <3>4
      <4> QED
        BY <1>2, <2>2, <3>1, <3>2, <4>3, <4>6, <4>7 DEF ItemsWalk
    <3> QED
      BY <1>1, <3>1, <3>3, <3>4
  <2> QED
    BY <2>3, <2>4
<1>7. ASSUME NEW f \in DOMAIN ImportOf, t.q = Imp(f)
      PROVE  ImpWalk(f, h, c, d, x, R, E)
  <2> DEFINE g == ImportOf[f]
  <2>1. ImpWalk(f, t, c, d, x, R, E) /\ g \in Files
    BY <1>3, <1>7, WorkspaceAssumption DEF WalkOK
  <2>2. \A k \in DOMAIN t.deps : t.deps[k].q \in {Ast(f), Items(g)}
    BY <2>1 DEF ImpWalk
  <2>3. CASE c = Bottom
    BY <1>2, <2>2, <2>3 DEF ImpWalk
  <2>4. CASE c # Bottom
    <3>1. /\ t.n > 1 /\ d = DUR_LOW
          /\ \A k \in DOMAIN t.deps :
               t.deps[k].q = IF k = 2 THEN Items(g) ELSE Ast(f)
          /\ IF t.i = 2 /\ t.pulled THEN t.want = c ELSE t.deps[2].fp = c
          /\ t.i > 2 => ExportsOK(g, c, x, R, E)
      BY <2>1, <2>4 DEF ImpWalk
    <3> HIDE DEF g
    <3>2. CASE t.i = 2
      <4>1. 2 \in DOMAIN t.deps
        BY <1>1, <3>2
      <4>2. p.q = Items(g) /\ p.q \notin Inputs
        BY <1>4, <3>1, <3>2, <4>1
      <4>3. /\ t.pulled /\ x[Items(g)] = t.want /\ p.fp = x[Items(g)]
            /\ \E v, e : Answers(Items(g), v, x[Items(g)], e, x, R, E)
        BY <3>2, <4>2
      <4>4. x[Items(g)] = c /\ t.deps[2].fp = c
        BY <3>1, <3>2, <4>3
      <4>5. ExportsOK(g, c, x, R, E)
        BY <2>1, <4>3, <4>4 DEF Answers
      <4>6. h.i # 2
        BY <1>2, <3>2
      <4> QED
        BY <1>2, <2>2, <3>1, <4>4, <4>5, <4>6 DEF ImpWalk, g
    <3>3. CASE t.i # 2
      <4>1. h.i > 2 => t.i > 2
        BY <1>1, <1>2, <3>3
      <4> QED
        BY <1>2, <2>2, <3>1, <3>3, <4>1 DEF ImpWalk, g
    <3> QED
      BY <3>2, <3>3
  <2> QED
    BY <2>3, <2>4
<1>8. WalkOK(h, c, y, d, x, R, E)
  BY <1>2, <1>3, <1>5, <1>6, <1>7 DEF WalkOK
<1> QED
  BY <1>2, <1>8 DEF FrameOK, h

-----------------------------------------------------------------------------
(* The engine's steps preserve the second layer.                             *)

\* What the invariant says about the stack.
LEMMA StackFacts ==
    ASSUME Base
    PROVE  /\ stack \in Seq(Frame) /\ StackInv(stack, running)
           /\ Homed(stack, registered)
           /\ \A k \in 1 .. Len(stack) : state[stack[k].q] = "RUNNING"
           /\ stack # <<>> => req = cur /\ Effective = cur
<1>1. /\ Shell /\ TypeOK /\ StackInv(stack, running) /\ CallsKnown
      /\ RunningInv(state, stack, running, cancel) /\ stack \in Seq(Frame)
  BY ShellShape DEF Base, Shell, TypeOK
<1>2. DOMAIN stack = 1 .. Len(stack) /\ \A k \in DOMAIN stack : stack[k] \in Frame
  BY <1>1, LenProperties, ElementOfSeq
<1>3. \A k \in 1 .. Len(stack) : /\ state[stack[k].q] = "RUNNING"
                                 /\ stack[k].q \in Derived
  BY <1>1, <1>2 DEF RunningInv, Holds, Frame, FrameFields
<1>4. Homed(stack, registered)
  BY <1>1, <1>3 DEF Homed, CallsKnown
<1>5. stack # <<>> => req = cur /\ Effective = cur
  BY <1>1 DEF Shell, NoRunningBetweenRequests, Base, Ledger, Effective, TypeOK
<1> QED
  BY <1>1, <1>3, <1>4, <1>5

\* A memo that verification accepts without a walk answers for the inputs of
\* now, whichever tier the fast path compared.
LEMMA LiveAnswers ==
    ASSUME WInv, NEW q \in Derived, state[q] = "DONE",
           vrev[q] = cur \/ lastChanged[dur[q]] <= vrev[q]
    PROVE  /\ SlotOK(q, deps[q], column[q], fp[q], dur[q], TRUE, fp,
                     registered, evicted)
           /\ Answers(q, column[q], fp[q], dur[q], fp, registered, evicted)
<1>1. /\ TypeOK /\ Memos
  BY DEF WInv, Base, Shell
<1>2. SlotOK(q, deps[q], column[q], fp[q], dur[q], Fresh(q), fp, registered,
             evicted)
  BY <1>1 DEF Memos, Memo
<1>3. dur[q] = DUR_LOW => Fresh(q)
  <2>1. lastChanged[DUR_LOW] \in 1 .. cur /\ cur \in Nat
    BY <1>1, ConstantsAssumption DEF TypeOK, Tiers, DUR_LOW, DUR_HIGH
  <2> QED
    BY <2>1 DEF Fresh
<1>4. SlotOK(q, deps[q], column[q], fp[q], dur[q], TRUE, fp, registered,
             evicted)
  BY <1>2, <1>3, SlotFast
<1>5. \A f \in evicted : q = Ast(f) => column[q] = Bottom
  BY <1>1 DEF Memos
<1> QED
  BY <1>4, <1>5, SlotAnswers

\* A step that leaves a memo in order, or as it is, leaves all of them so.
LEMMA MemosKept ==
    ASSUME WInv, registered \subseteq registered',
           UNCHANGED <<evicted, lastChanged>>,
           \A g \in registered : fp'[Src(g)] = fp[Src(g)],
           \A q \in Derived :
              \/ /\ state'[q] = state[q] /\ deps'[q] = deps[q]
                 /\ column'[q] = column[q] /\ fp'[q] = fp[q]
                 /\ dur'[q] = dur[q] /\ vrev'[q] = vrev[q]
              \/ /\ state'[q] = "DONE" => Memo(q)'
                 /\ state'[q] # "ERROR"
                 /\ state'[q] \in {"EMPTY", "ABSENT"} => deps'[q] = <<>>
                 /\ \A f \in evicted : q = Ast(f) => column'[q] = Bottom
    PROVE  Memos'
<1>1. Memos /\ CallsKnown
  BY DEF WInv, Base
<1>2. ASSUME NEW q \in Derived, state'[q] = "DONE",
             /\ state'[q] = state[q] /\ deps'[q] = deps[q]
             /\ column'[q] = column[q] /\ fp'[q] = fp[q]
             /\ dur'[q] = dur[q] /\ vrev'[q] = vrev[q]
      PROVE  Memo(q)'
  <2>1. Memo(q) /\ q[2] \in registered
    BY <1>1, <1>2 DEF Memos, CallsKnown
  <2>2. SlotOK(q, deps[q], column[q], fp[q], dur[q], Fresh(q), fp', registered',
               evicted)
    BY <2>1, SlotSame DEF Memo
  <2>3. Fresh(q)' <=> Fresh(q)
    BY <1>2 DEF Fresh
  <2>4. SlotOK(q, deps[q], column[q], fp[q], dur[q], Fresh(q)', fp', registered',
               evicted)
    BY <2>2, <2>3 DEF SlotOK, AstSlot, ItemsSlot, ImpSlot
  <2> QED
    BY <1>2, <2>4 DEF Memo
<1>3. \A q \in Derived : state'[q] = "DONE" => Memo(q)'
  BY <1>2
<1>4. \A q \in Derived : /\ state'[q] # "ERROR"
                         /\ state'[q] \in {"EMPTY", "ABSENT"} => deps'[q] = <<>>
  BY <1>1 DEF Memos
<1>5. \A f \in evicted' : Ast(f) \in Derived => column'[Ast(f)] = Bottom
  BY <1>1 DEF Memos
<1> QED
  BY <1>3, <1>4, <1>5 DEF Memos

\* A step that writes one query's slot, and leaves its memo in order.
LEMMA MemosWritten ==
    ASSUME WInv, NEW p, UNCHANGED <<registered, evicted, lastChanged>>,
           \A g \in registered : fp'[Src(g)] = fp[Src(g)],
           \A q \in Derived \ {p} :
              /\ state'[q] = state[q] /\ deps'[q] = deps[q]
              /\ column'[q] = column[q] /\ fp'[q] = fp[q]
              /\ dur'[q] = dur[q] /\ vrev'[q] = vrev[q],
           p \in Derived =>
              /\ state'[p] = "DONE" => Memo(p)'
              /\ state'[p] # "ERROR"
              /\ state'[p] \in {"EMPTY", "ABSENT"} => deps'[p] = <<>>
              /\ \A f \in evicted : p = Ast(f) => column'[p] = Bottom
    PROVE  Memos'
<1>1. registered \subseteq registered'
  OBVIOUS
<1> QED
  BY <1>1, MemosKept

\* What a query remembers, and what the queries on the stack have seen.
Remembered ==
    /\ Memos /\ PulledIsLive
    /\ FramesOK(stack, column, fp, dur, registered, evicted)

\* query_stack_push, field by field.
LEMMA NewFrameFields ==
    ASSUME TypeOK, NEW q \in Derived, NEW mode \in {"walk", "body"},
           NEW prev \in {"DONE", "ERROR", "EMPTY"}
    PROVE  LET f == NewFrame(q, mode, prev)
           IN  /\ f \in Frame /\ f.q = q /\ f.mode = mode /\ f.prev = prev
               /\ f.vals = <<>> /\ f.deps = deps[q] /\ f.n = Len(deps[q])
               /\ f.i = 1 /\ ~f.pulled
<1>1. <<>> \in ValueSeqs
  BY ConstantsAssumption DEF ValueSeqs
<1>2. deps[q] \in Seq(Dep)
  BY DEF TypeOK, Queries
<1> QED
  BY <1>1, <1>2 DEF NewFrame, Frame, FrameFields, Tiers, DUR_LOW, DUR_HIGH

\* A query that is called and is not on the stack finds its caller in order,
\* whatever is written to its own slot.
LEMMA CallerInOrder ==
    ASSUME WInv, NEW q \in Queries, Calls(q), state[q] # "RUNNING",
           UNCHANGED <<fp, dur>>,
           \A p \in Queries \ {q} : column'[p] = column[p]
    PROVE  /\ Caller(q) \in Seq(Frame) /\ Homed(Caller(q), registered)
           /\ FramesOK(Caller(q), column', fp', dur', registered, evicted)
           /\ Caller(q) # <<>> => Awaits(Top(Caller(q)), q)
           /\ Caller(q) # <<>> /\ Top(Caller(q)).mode = "walk" => q \notin Inputs
<1>1. /\ Base /\ Shell /\ TypeOK
      /\ FramesOK(stack, column, fp, dur, registered, evicted)
  BY DEF WInv, Base, Shell
<1>2. /\ Homed(stack, registered)
      /\ \A k \in 1 .. Len(stack) : state[stack[k].q] = "RUNNING"
      /\ stack \in Seq(Frame)
  BY <1>1, StackFacts
<1>3. /\ Caller(q) \in Seq(Frame) /\ Holds(Caller(q)) = Holds(stack)
      /\ Caller(q) # <<>> => Awaits(Top(Caller(q)), q)
  BY <1>1, CalledInRequest DEF StackInv
<1>4. /\ FramesOK(Caller(q), column, fp, dur, registered, evicted)
      /\ Homed(Caller(q), registered)
      /\ Caller(q) # <<>> /\ Top(Caller(q)).mode = "walk" => q \notin Inputs
  BY <1>1, <1>2, FramesCaller
<1>5. ASSUME NEW k \in 1 .. Len(Caller(q))
      PROVE  Caller(q)[k].q \in Queries \ {q}
  <2>1. k \in DOMAIN Caller(q) /\ Caller(q)[k] \in Frame
    BY <1>3, LenProperties, ElementOfSeq
  <2>2. Caller(q)[k].q \in Holds(stack)
    BY <1>3, <2>1 DEF Holds
  <2>3. DOMAIN stack = 1 .. Len(stack)
    BY <1>2, LenProperties
  <2>4. state[Caller(q)[k].q] = "RUNNING"
    BY <1>2, <2>2, <2>3 DEF Holds
  <2> QED
    BY <2>1, <2>4 DEF Frame, FrameFields, Queries
<1>6. \A k \in 1 .. Len(Caller(q)) :
        /\ column'[Caller(q)[k].q] = column[Caller(q)[k].q]
        /\ fp'[Caller(q)[k].q] = fp[Caller(q)[k].q]
        /\ dur'[Caller(q)[k].q] = dur[Caller(q)[k].q]
  BY <1>5
<1>7. FramesOK(Caller(q), column', fp', dur', registered, evicted)
  BY <1>4, <1>6, FramesSame
<1> QED
  BY <1>3, <1>4, <1>7

\* A query that is computed for the first time starts with a clean frame.
LEMMA BeginEmptyMemos ==
    ASSUME WInv, NEW q \in Queries \ Paths, q[2] \in registered,
           BeginEmpty(q), UNCHANGED workspaceVars
    PROVE  Remembered'
<1> DEFINE f == NewFrame(q, "body", "EMPTY")
<1>1. Base /\ Shell /\ TypeOK /\ Memos
  BY DEF WInv, Base, Shell
<1>2. /\ Calls(q) /\ state[q] \in {"EMPTY", "ABSENT"}
      /\ stack' = Append(Caller(q), f)
      /\ state' = [state EXCEPT ![q] = "RUNNING"]
      /\ UNCHANGED <<fp, dur, deps, lastChanged, registered, evicted>>
  BY DEF BeginEmpty, revVars, workspaceVars
<1>3. q \in Derived
  BY <1>1, <1>2, PushedDerived
<1>4. /\ state \in [Queries -> SlotStates] /\ column \in [Queries -> Results]
      /\ vrev \in [Queries -> 0 .. cur]
  BY <1>1 DEF TypeOK
<1>5. /\ state'[q] = "RUNNING"
      /\ \A p \in Queries \ {q} :
           /\ state'[p] = state[p] /\ column'[p] = column[p]
           /\ vrev'[p] = vrev[p]
      /\ column'[q] \in {Bottom, column[q]}
  BY <1>2, <1>4 DEF BeginEmpty
<1>6. \A e \in evicted : q = Ast(e) => column'[q] = Bottom
  BY <1>1, <1>3, <1>5 DEF Memos
<1>7. Memos'
  <2>1. \A p \in Derived \ {q} : p \in Queries \ {q}
    BY DEF Queries
  <2> QED
    BY <1>2, <1>5, <1>6, <2>1, MemosWritten
<1>8. /\ Caller(q) \in Seq(Frame)
      /\ FramesOK(Caller(q), column', fp', dur', registered, evicted)
  BY <1>2, <1>5, CallerInOrder
<1>9. /\ f \in Frame /\ f.q = q /\ f.mode = "body" /\ f.vals = <<>>
      /\ f.deps = <<>>
  <2>1. deps[q] = <<>>
    BY <1>1, <1>2, <1>3 DEF Memos
  <2> QED
    BY <1>1, <1>3, <2>1, NewFrameFields
<1> HIDE DEF f
<1>10. FrameOK(f, column'[f.q], fp'[f.q], dur'[f.q], fp', registered, evicted)
  BY <1>9 DEF FrameOK, BodyOK, AstBodyOK, ItemsBodyOK, ImpBodyOK
<1>11. /\ FramesOK(stack', column', fp', dur', registered, evicted)
       /\ Top(stack') = f
  BY <1>2, <1>8, <1>9, <1>10, FramesPushed
<1>12. PulledIsLive'
  BY <1>9, <1>11 DEF PulledIsLive, Pulled
<1> QED
  BY <1>2, <1>7, <1>11, <1>12 DEF Remembered

\* A memo that cannot be accepted at once is walked.
LEMMA BeginWalkMemos ==
    ASSUME WInv, NEW q \in Queries \ Paths, q[2] \in registered,
           BeginWalk(q), UNCHANGED workspaceVars
    PROVE  Remembered'
<1> DEFINE f == NewFrame(q, "walk", state[q])
<1> USE DEF slotVars
<1>1. Base /\ Shell /\ TypeOK /\ Memos
  BY DEF WInv, Base, Shell
<1>2. /\ Calls(q) /\ state[q] \in {"DONE", "ERROR"} /\ ~VerifiedAtOnce(q)
      /\ stack' = Append(Caller(q), f)
      /\ state' = [state EXCEPT ![q] = "RUNNING"]
      /\ UNCHANGED <<fp, dur, deps, column, vrev, lastChanged, registered,
                     evicted>>
  BY DEF BeginWalk, revVars, workspaceVars
<1>3. q \in Derived
  BY <1>1, <1>2, PushedDerived
<1>4. state[q] = "DONE" /\ Memo(q)
  BY <1>1, <1>2, <1>3 DEF Memos
<1>5. /\ state'[q] = "RUNNING"
      /\ \A p \in Queries \ {q} : state'[p] = state[p]
  BY <1>1, <1>2 DEF TypeOK
<1>6. Memos'
  <2>1. \A p \in Derived \ {q} : p \in Queries \ {q}
    BY DEF Queries
  <2>2. \A e \in evicted : q = Ast(e) => column'[q] = Bottom
    BY <1>1, <1>2, <1>3 DEF Memos
  <2> QED
    BY <1>2, <1>5, <2>1, <2>2, MemosWritten
<1>7. /\ Caller(q) \in Seq(Frame)
      /\ FramesOK(Caller(q), column', fp', dur', registered, evicted)
  BY <1>2, CallerInOrder
<1>8. /\ f \in Frame /\ f.q = q /\ f.mode = "walk" /\ f.prev = "DONE"
      /\ f.vals = <<>> /\ f.deps = deps[q] /\ f.n = Len(f.deps) /\ f.i = 1
      /\ ~f.pulled
  BY <1>1, <1>3, <1>4, NewFrameFields
<1> HIDE DEF f
<1>9. SlotOK(f.q, f.deps, column[q], fp[q], dur[q], Fresh(q), fp, registered,
             evicted)
  BY <1>4, <1>8 DEF Memo
<1>10. FrameOK(f, column'[f.q], fp'[f.q], dur'[f.q], fp', registered, evicted)
  BY <1>2, <1>8, <1>9, WalkStarts
<1>11. /\ FramesOK(stack', column', fp', dur', registered, evicted)
       /\ Top(stack') = f
  BY <1>2, <1>7, <1>8, <1>10, FramesPushed
<1>12. PulledIsLive'
  BY <1>8, <1>11 DEF PulledIsLive, Pulled
<1> QED
  BY <1>2, <1>6, <1>11, <1>12 DEF Remembered

\* An input that is set answers with what it holds.
LEMMA InputAnswers ==
    ASSUME Base, NEW q \in Inputs, q \notin Paths, q[2] \in registered
    PROVE  /\ state[q] = "DONE"
           /\ Answers(q, column[q], fp[q], dur[q], fp, registered, evicted)
<1>1. PICK f \in Files : q = Src(f) \/ q = Set(f)
  BY QueriesAssumption
<1>2. f \in registered /\ HeldInput(f)
  BY <1>1, QueryFile DEF Base, InputsHeld
<1>3. state[q] = "DONE"
  BY <1>1, <1>2 DEF HeldInput
<1>4. \A g : Ast(g) \notin Inputs /\ Items(g) \notin Inputs
  BY QueriesAssumption, QueriesDiffer DEF Src, Set, Ast, Items, Paths
<1>5. ASSUME NEW g \in Files
      PROVE  /\ q = Src(g) => /\ column[q] = TextOf(g, fp, evicted)
                              /\ fp[q] = fp[Src(g)] /\ dur[q] = DUR_LOW
             /\ q = Set(g) => /\ column[q] = SetOf(g, evicted)
                              /\ fp[q] = SetOf(g, evicted)
  <2>1. q \in {Src(g), Set(g)} => g = f
    BY <1>1, QueryFile
  <2> QED
    BY <1>1, <1>2, <2>1, QueriesDiffer DEF HeldInput, TextOf, SetOf
<1> QED
  BY <1>3, <1>4, <1>5 DEF Answers

\* A hit answers for the inputs of now.
LEMMA BeginHitMemos ==
    ASSUME WInv, NEW q \in Queries \ Paths, q[2] \in registered,
           BeginHit(q), UNCHANGED workspaceVars
    PROVE  Remembered'
<1> USE DEF slotVars
<1>1. Base /\ Shell /\ TypeOK /\ Memos /\ Ledger
  BY DEF WInv, Base, Shell
<1>2. /\ Calls(q) /\ state[q] \in {"DONE", "ERROR"} /\ VerifiedAtOnce(q)
      /\ vrev' = [vrev EXCEPT ![q] = Effective]
      /\ stack' = ReturnTo(RecordOnParent(Caller(q), q, fp[q], dur[q]),
                           CachedValue(q))
      /\ UNCHANGED <<state, fp, dur, deps, column, lastChanged, cur,
                     registered, evicted>>
  BY DEF BeginHit, revVars, workspaceVars
<1>3. Effective = cur
  <2>1. req # 0
    BY <1>1, <1>2, CalledInRequest
  <2> QED
    BY <1>1, <2>1 DEF Ledger, Effective
<1>4. /\ state[q] = "DONE"
      /\ Answers(q, column[q], fp[q], dur[q], fp, registered, evicted)
      /\ q \in Derived => SlotOK(q, deps[q], column[q], fp[q], dur[q], TRUE, fp,
                                 registered, evicted)
  <2>1. CASE q \in Inputs
    BY <1>1, <2>1, InputAnswers, ConstantsAssumption
  <2>2. CASE q \in Derived
    <3>1. state[q] = "DONE" /\ Memo(q)
      BY <1>1, <1>2, <2>2 DEF Memos
    <3>2. Len(deps[q]) > 0
      BY <2>2, <3>1, SlotDeps DEF Memo
    <3>3. deps[q] # <<>>
      BY <3>2
    <3>4. vrev[q] = cur \/ lastChanged[dur[q]] <= vrev[q]
      BY <1>2, <1>3, <3>3 DEF VerifiedAtOnce
    <3> QED
      BY <2>2, <3>1, <3>4, LiveAnswers
  <2> QED
    BY <2>1, <2>2 DEF Queries
<1>5. /\ vrev'[q] = cur
      /\ \A p \in Queries \ {q} : vrev'[p] = vrev[p]
  BY <1>1, <1>2, <1>3 DEF TypeOK
<1>6. q \in Derived => Memo(q)'
  <2>1. Fresh(q)'
    <3>1. lastChanged[DUR_LOW] \in 1 .. cur /\ cur \in Nat
      BY <1>1, ConstantsAssumption DEF TypeOK, Tiers, DUR_LOW, DUR_HIGH
    <3> QED
      BY <1>2, <1>5, <3>1 DEF Fresh
  <2>2. q \in Derived => SlotOK(q, deps[q], column[q], fp[q], dur[q], Fresh(q)',
                                fp, registered, evicted)
    BY <1>4, <2>1 DEF SlotOK, AstSlot, ItemsSlot, ImpSlot
  <2> QED
    BY <1>2, <2>2 DEF Memo
<1>7. Memos'
  <2>1. \A p \in Derived \ {q} : p \in Queries \ {q}
    BY DEF Queries
  <2>2. q \in Derived => \A e \in evicted : q = Ast(e) => column'[q] = Bottom
    BY <1>1, <1>2 DEF Memos
  <2> QED
    BY <1>2, <1>4, <1>5, <1>6, <2>1, <2>2, MemosWritten
<1>8. /\ Caller(q) \in Seq(Frame) /\ Homed(Caller(q), registered)
      /\ FramesOK(Caller(q), column, fp, dur, registered, evicted)
      /\ Caller(q) # <<>> => Awaits(Top(Caller(q)), q)
      /\ Caller(q) # <<>> /\ Top(Caller(q)).mode = "walk" => q \notin Inputs
  BY <1>2, <1>4, CallerInOrder
<1>9. /\ CachedValue(q) = column[q] /\ column[q] \in Results
      /\ fp[q] \in Results \cup {None} /\ dur[q] \in Tiers
  BY <1>1, <1>4 DEF CachedValue, TypeOK
<1>10. /\ FramesOK(stack', column, fp, dur, registered, evicted)
       /\ stack' # <<>> /\ Top(stack').mode = "walk" =>
            /\ Top(stack').i <= Top(stack').n
            /\ Top(stack').deps[Top(stack').i].q = q
            /\ Top(stack').i # 1 => Top(stack').deps[Top(stack').i].fp = fp[q]
  <2> DEFINE s == Caller(q)
  <2>1. stack' = ReturnTo(RecordOnParent(s, q, fp[q], dur[q]), column[q])
    BY <1>2, <1>9
  <2>2. /\ s \in Seq(Frame) /\ Homed(s, registered)
        /\ FramesOK(s, column, fp, dur, registered, evicted)
        /\ s # <<>> => Awaits(Top(s), q)
        /\ s # <<>> /\ Top(s).mode = "walk" => q \notin Inputs
    BY <1>8
  <2>3. Answers(q, column[q], fp[q], dur[q], fp, registered, evicted)
    BY <1>4
  <2> HIDE DEF s
  <2> QED
    BY <1>9, <2>1, <2>2, <2>3, FramesReceived
<1>11. PulledIsLive'
  BY <1>2, <1>4, <1>5, <1>10 DEF PulledIsLive, Pulled, Live
<1> QED
  BY <1>2, <1>7, <1>10, <1>11 DEF Remembered

\* A step that writes the slot of the top frame leaves the others in order.
LEMMA PoppedInOrder ==
    ASSUME WInv, stack # <<>>,
           \A p \in Queries \ {Top(stack).q} :
              /\ column'[p] = column[p] /\ fp'[p] = fp[p] /\ dur'[p] = dur[p]
    PROVE  /\ Popped(stack) \in Seq(Frame) /\ Homed(Popped(stack), registered)
           /\ FramesOK(Popped(stack), column', fp', dur', registered, evicted)
           /\ Popped(stack) # <<>> => Awaits(Top(Popped(stack)), Top(stack).q)
           /\ \A g \in registered : fp'[Src(g)] = fp[Src(g)]
<1> DEFINE s == Popped(stack)
           t == Top(stack)
<1>1. /\ Base /\ Shell /\ registered \subseteq Files
      /\ FramesOK(stack, column, fp, dur, registered, evicted)
  BY DEF WInv, Base, Ledger
<1>2. /\ Homed(stack, registered) /\ StackInv(stack, running)
      /\ stack \in Seq(Frame)
  BY <1>1, StackFacts
<1>3. /\ s \in Seq(Frame)
      /\ s # <<>> => Awaits(Top(s), t.q)
      /\ FramesOK(s, column, fp, dur, registered, evicted)
      /\ Homed(s, registered)
  BY <1>1, <1>2, PoppedFrames, ShapePopped, FramesPopped DEF StackInv
<1>4. ASSUME NEW k \in 1 .. Len(s)
      PROVE  s[k].q \in Queries \ {t.q}
  <2>1. /\ Len(s) = Len(stack) - 1 /\ Len(stack) \in Nat \ {0}
        /\ \A j \in 1 .. Len(stack) - 1 : s[j] = stack[j]
    BY <1>2, PoppedFrames
  <2>2. /\ k \in 1 .. Len(stack) /\ Len(stack) \in 1 .. Len(stack)
        /\ k # Len(stack) /\ s[k] = stack[k]
    BY <2>1
  <2>3. DOMAIN stack = 1 .. Len(stack) /\ stack[k] \in Frame
    BY <1>2, <2>2, LenProperties, ElementOfSeq
  <2>4. stack[k].q # stack[Len(stack)].q
    BY <1>2, <2>2, <2>3 DEF StackInv, Simple
  <2> QED
    BY <2>2, <2>3, <2>4 DEF Top, Frame, FrameFields, Queries
<1>5. \A g \in registered : fp'[Src(g)] = fp[Src(g)]
  <2>1. t.q \in Derived
    BY <1>1, TopFrame
  <2> QED
    BY <1>1, <2>1, InputQueries
<1> HIDE DEF s, t
<1>6. FramesOK(s, column', fp', dur', registered, evicted)
  <2>1. \A k \in 1 .. Len(s) : /\ column'[s[k].q] = column[s[k].q]
                               /\ fp'[s[k].q] = fp[s[k].q]
                               /\ dur'[s[k].q] = dur[s[k].q]
    BY <1>4 DEF t
  <2> QED
    BY <1>3, <1>5, <2>1, FramesSame
<1> QED
  BY <1>3, <1>5, <1>6 DEF s, t

\* A dependency that held.
LEMMA WalkNextMemos ==
    ASSUME WInv, WalkNext, UNCHANGED workspaceVars
    PROVE  Remembered'
<1> DEFINE t == Top(stack)
           p == t.deps[t.i]
           f == [t EXCEPT !.i = @ + 1, !.pulled = FALSE]
<1>1. /\ Base /\ Shell /\ Memos /\ PulledIsLive /\ InputsHeld
      /\ FramesOK(stack, column, fp, dur, registered, evicted)
  BY DEF WInv, Base
<1>2. /\ stack # <<>> /\ t.mode = "walk" /\ t.i <= t.n
      /\ t.pulled \/ p.q \in Inputs
      /\ DepHolds /\ stack' = OnTop(stack, f)
      /\ UNCHANGED <<state, fp, vrev, dur, deps, column, cur, lastChanged,
                     registered, evicted>>
  BY DEF WalkNext, AtDep, Walking, slotVars, revVars, workspaceVars
<1>3. /\ stack \in Seq(Frame) /\ Homed(stack, registered)
      /\ t \in Frame /\ Len(stack) \in Nat \ {0}
  BY <1>1, <1>2, StackFacts, TopIsFrame
<1>4. /\ t.q[2] \in registered
      /\ FrameOK(t, column[t.q], fp[t.q], dur[t.q], fp, registered, evicted)
  BY <1>1, <1>3 DEF FramesOK, Homed, Top
<1>5. p.q \in Queries
  <2>1. /\ t.deps \in Seq(Dep) /\ t.i \in Nat \ {0} /\ t.n \in Nat
        /\ t.n <= Len(t.deps)
    BY <1>2, <1>3 DEF Frame, FrameFields
  <2>2. Len(t.deps) \in Nat
    BY <2>1, LenProperties
  <2>3. t.i \in 1 .. Len(t.deps)
    BY <1>2, <2>1, <2>2
  <2>4. p \in Dep
    BY <2>1, <2>3, ElementOfSeq
  <2> QED
    BY <2>4 DEF Dep
<1>6. IF p.q \in Inputs THEN fp[p.q] = p.fp
      ELSE /\ t.pulled /\ fp[p.q] = t.want
           /\ t.i # 1 => p.fp = fp[p.q]
           /\ \E v, e : Answers(p.q, v, fp[p.q], e, fp, registered, evicted)
  <2>1. CASE p.q \in Inputs
    BY <1>2, <2>1 DEF DepHolds
  <2>2. CASE p.q \notin Inputs
    <3>1. t.pulled /\ fp[p.q] = t.want /\ state[p.q] = "DONE"
      BY <1>2, <2>2 DEF DepHolds
    <3>2. Live(p.q) /\ (t.i # 1 => p.fp = fp[p.q])
      BY <1>1, <1>2, <3>1 DEF PulledIsLive, Pulled
    <3>3. p.q \in Derived /\ vrev[p.q] = cur
      BY <1>5, <2>2, <3>2 DEF Queries, Live
    <3>4. Answers(p.q, column[p.q], fp[p.q], dur[p.q], fp, registered, evicted)
      BY <3>1, <3>3, LiveAnswers
    <3> QED
      BY <2>2, <3>1, <3>2, <3>4
  <2> QED
    BY <2>1, <2>2
<1>7. \A g \in registered : fp[Set(g)] = SetOf(g, evicted)
  BY <1>1 DEF InputsHeld, HeldInput, SetOf
<1>8. /\ FrameOK(f, column[t.q], fp[t.q], dur[t.q], fp, registered, evicted)
      /\ f.q = t.q /\ ~f.pulled
  <2>1. f.q = t.q /\ ~f.pulled
    BY <1>3 DEF Frame, FrameFields
  <2>2. FrameOK(f, column[t.q], fp[t.q], dur[t.q], fp, registered, evicted)
    <3> HIDE DEF t
    <3> QED
      BY <1>2, <1>3, <1>4, <1>6, <1>7, WalkAdvances
  <2> QED
    BY <2>1, <2>2
<1> HIDE DEF f, t
<1>9. FramesOK(Popped(stack), column, fp, dur, registered, evicted)
  BY <1>1, <1>2, <1>3, FramesPopped
<1>10. /\ FramesOK(stack', column, fp, dur, registered, evicted)
       /\ Top(stack') = f
  BY <1>2, <1>3, <1>8, <1>9, FramesReplaced
<1>11. PulledIsLive'
  BY <1>8, <1>10 DEF PulledIsLive, Pulled
<1>12. Memos'
  <2>1. None \notin Derived
    BY ConstantsAssumption DEF Queries
  <2>2. \A q \in Derived \ {None} :
          /\ state'[q] = state[q] /\ deps'[q] = deps[q]
          /\ column'[q] = column[q] /\ fp'[q] = fp[q]
          /\ dur'[q] = dur[q] /\ vrev'[q] = vrev[q]
    BY <1>2
  <2> QED
    BY <1>2, <2>1, <2>2, MemosWritten
<1> QED
  BY <1>2, <1>10, <1>11, <1>12 DEF Remembered

\* A dependency that did not: the body starts over.
LEMMA WalkFailMemos ==
    ASSUME WInv, WalkFail, UNCHANGED workspaceVars
    PROVE  Remembered'
<1> DEFINE t == Top(stack)
           f == [t EXCEPT !.mode = "body", !.deps = <<>>, !.pulled = FALSE]
<1>1. /\ Base /\ Shell /\ TypeOK /\ Memos
      /\ FramesOK(stack, column, fp, dur, registered, evicted)
  BY DEF WInv, Base, Shell
<1>2. /\ stack # <<>> /\ t.mode = "walk"
      /\ stack' = OnTop(stack, f) /\ fp' = [fp EXCEPT ![t.q] = None]
      /\ UNCHANGED <<state, vrev, dur, deps, column, cur, lastChanged,
                     registered, evicted>>
  BY DEF WalkFail, AtDep, Walking, revVars, workspaceVars
<1>3. /\ stack \in Seq(Frame) /\ t \in Frame /\ Len(stack) \in Nat \ {0}
      /\ t.q \in Derived /\ state[t.q] = "RUNNING"
  BY <1>1, <1>2, StackFacts, TopIsFrame, TopFrame
<1>4. t.vals = <<>>
  BY <1>1, <1>2, <1>3 DEF FramesOK, FrameOK, WalkOK, Top
<1>5. f.q = t.q /\ f.mode = "body" /\ f.deps = <<>> /\ f.vals = <<>>
  BY <1>3, <1>4 DEF Frame, FrameFields
<1>6. \A p \in Queries \ {t.q} : fp'[p] = fp[p]
  BY <1>1, <1>2 DEF TypeOK
<1>7. /\ FramesOK(Popped(stack), column', fp', dur', registered, evicted)
      /\ \A g \in registered : fp'[Src(g)] = fp[Src(g)]
  BY <1>2, <1>6, PoppedInOrder
<1> HIDE DEF f, t
<1>8. FrameOK(f, column'[f.q], fp'[f.q], dur'[f.q], fp', registered, evicted)
  BY <1>5 DEF FrameOK, BodyOK, AstBodyOK, ItemsBodyOK, ImpBodyOK
<1>9. /\ FramesOK(stack', column', fp', dur', registered, evicted)
      /\ Top(stack') = f
  BY <1>2, <1>3, <1>7, <1>8, FramesReplaced
<1>10. PulledIsLive'
  BY <1>5, <1>9 DEF PulledIsLive, Pulled
<1>11. Memos'
  <2>1. \A p \in Derived \ {t.q} : p \in Queries \ {t.q}
    BY DEF Queries
  <2>2. \A e \in evicted : t.q = Ast(e) => column'[t.q] = Bottom
    BY <1>1, <1>2, <1>3 DEF Memos
  <2> QED
    BY <1>2, <1>3, <1>6, <1>7, <2>1, <2>2, MemosWritten
<1> QED
  BY <1>2, <1>9, <1>10, <1>11 DEF Remembered

\* A query that returns: its memo is fresh, and its caller is told so.
LEMMA ReturnMemos ==
    ASSUME WInv, stack # <<>>, TypeOK',
           UNCHANGED <<cur, lastChanged, registered, evicted>>,
           \A p \in Queries \ {Top(stack).q} :
              /\ state'[p] = state[p] /\ vrev'[p] = vrev[p]
              /\ deps'[p] = deps[p] /\ column'[p] = column[p]
              /\ fp'[p] = fp[p] /\ dur'[p] = dur[p],
           state'[Top(stack).q] = "DONE", vrev'[Top(stack).q] = cur,
           SlotOK(Top(stack).q, deps'[Top(stack).q], column'[Top(stack).q],
                  fp'[Top(stack).q], dur'[Top(stack).q], TRUE, fp, registered,
                  evicted),
           \A f \in evicted :
              Top(stack).q = Ast(f) => column'[Top(stack).q] = Bottom,
           stack' = ReturnTo(RecordOnParent(Popped(stack), Top(stack).q,
                                            fp'[Top(stack).q],
                                            dur'[Top(stack).q]),
                             column'[Top(stack).q])
    PROVE  Remembered'
<1> DEFINE s == Popped(stack)
<1>0. PICK q : q = Top(stack).q
  OBVIOUS
<1>1. Base /\ Shell /\ TypeOK /\ CallsKnown
  BY DEF WInv, Base, Shell
<1>2. q \in Derived /\ q \in Queries \ Inputs /\ state[q] = "RUNNING"
  BY <1>0, <1>1, TopFrame
<1>3. q[2] \in registered /\ q \notin Paths
  BY <1>1, <1>2, DerivedKinds DEF CallsKnown
<1>4. /\ s \in Seq(Frame) /\ Homed(s, registered)
      /\ FramesOK(s, column', fp', dur', registered, evicted)
      /\ s # <<>> => Awaits(Top(s), q)
      /\ \A g \in registered : fp'[Src(g)] = fp[Src(g)]
  BY <1>0, PoppedInOrder
<1>5. /\ column'[q] \in Results /\ fp'[q] \in Results \cup {None}
      /\ dur'[q] \in Tiers
  BY <1>2 DEF TypeOK
<1> HIDE DEF s
<1>6. SlotOK(q, deps'[q], column'[q], fp'[q], dur'[q], TRUE, fp', registered,
             evicted)
  <2>1. SlotOK(q, deps'[q], column'[q], fp'[q], dur'[q], TRUE, fp, registered,
               evicted)
    BY <1>0
  <2>2. PICK ds, c, y, d : /\ ds = deps'[q] /\ c = column'[q] /\ y = fp'[q]
                            /\ d = dur'[q]
    OBVIOUS
  <2>3. SlotOK(q, ds, c, y, d, TRUE, fp, registered, evicted)
    BY <2>1, <2>2
  <2>4. /\ registered \subseteq registered
        /\ \A g \in registered : fp'[Src(g)] = fp[Src(g)]
    BY <1>4
  <2>5. SlotOK(q, ds, c, y, d, TRUE, fp', registered, evicted)
    BY <1>3, <2>3, <2>4, SlotSame
  <2> QED
    BY <2>2, <2>5
<1>7. Answers(q, column'[q], fp'[q], dur'[q], fp', registered, evicted)
  <2>1. \A f \in evicted : q = Ast(f) => column'[q] = Bottom
    BY <1>0
  <2> QED
    BY <1>2, <1>6, <2>1, SlotAnswers
<1>8. Memo(q)'
  <2>1. Fresh(q)'
    <3>1. lastChanged[DUR_LOW] \in 1 .. cur /\ cur \in Nat
      BY <1>1, ConstantsAssumption DEF TypeOK, Tiers, DUR_LOW, DUR_HIGH
    <3>2. vrev'[q] = cur
      BY <1>0
    <3> QED
      BY <3>1, <3>2 DEF Fresh
  <2>2. SlotOK(q, deps'[q], column'[q], fp'[q], dur'[q], Fresh(q)', fp',
               registered, evicted)
    BY <1>6, <2>1 DEF SlotOK, AstSlot, ItemsSlot, ImpSlot
  <2> QED
    BY <2>2 DEF Memo
<1>9. Memos'
  <2>1. \A p \in Derived \ {q} : p \in Queries \ {q}
    BY DEF Queries
  <2>2. \A p \in Derived \ {q} :
           /\ state'[p] = state[p] /\ deps'[p] = deps[p]
           /\ column'[p] = column[p] /\ fp'[p] = fp[p]
           /\ dur'[p] = dur[p] /\ vrev'[p] = vrev[p]
    BY <1>0, <2>1
  <2>3. state'[q] = "DONE" /\ \A f \in evicted : q = Ast(f) => column'[q] = Bottom
    BY <1>0
  <2> QED
    BY <1>4, <1>8, <2>2, <2>3, MemosWritten
<1>10. stack' = ReturnTo(RecordOnParent(s, q, fp'[q], dur'[q]), column'[q])
  BY <1>0 DEF s
<1>11. /\ FramesOK(stack', column', fp', dur', registered, evicted)
       /\ stack' # <<>> /\ Top(stack').mode = "walk" =>
            /\ Top(stack').i <= Top(stack').n
            /\ Top(stack').deps[Top(stack').i].q = q
            /\ Top(stack').i # 1 => Top(stack').deps[Top(stack').i].fp = fp'[q]
  BY <1>2, <1>3, <1>4, <1>5, <1>7, <1>10, FramesReceived
<1>12. PulledIsLive'
  <2>1. state'[q] = "DONE" /\ vrev'[q] = cur'
    BY <1>0
  <2> QED
    BY <1>11, <2>1 DEF PulledIsLive, Pulled, Live
<1> QED
  BY <1>9, <1>11, <1>12 DEF Remembered

\* A walk that ends verifies what was remembered.
LEMMA WalkEndMemos ==
    ASSUME WInv, TypeOK', WalkEnd, UNCHANGED workspaceVars
    PROVE  Remembered'
<1> DEFINE t == Top(stack)
<1>1. /\ Base /\ Shell /\ TypeOK /\ Memos
      /\ FramesOK(stack, column, fp, dur, registered, evicted)
  BY DEF WInv, Base, Shell
<1>2. /\ stack # <<>> /\ t.mode = "walk" /\ t.i > t.n
      /\ state' = [state EXCEPT ![t.q] = t.prev]
      /\ vrev' = [vrev EXCEPT ![t.q] = Effective]
      /\ deps' = [deps EXCEPT ![t.q] = t.deps]
      /\ UNCHANGED <<fp, dur, column, cur, lastChanged, registered, evicted>>
  BY DEF WalkEnd, Walking, revVars, workspaceVars
<1>3. stack' = ReturnTo(RecordOnParent(Popped(stack), t.q, fp[t.q], dur[t.q]),
                        IF t.prev = "DONE" THEN column[t.q] ELSE Bottom)
  BY DEF WalkEnd
<1>4. /\ t \in Frame /\ Len(stack) \in Nat \ {0} /\ t.q \in Derived
      /\ Effective = cur
  BY <1>1, <1>2, StackFacts, TopIsFrame, TopFrame
<1>5. FrameOK(t, column[t.q], fp[t.q], dur[t.q], fp, registered, evicted)
  BY <1>1, <1>4 DEF FramesOK, Top
<1>6. /\ SlotOK(t.q, t.deps, column[t.q], fp[t.q], dur[t.q], TRUE, fp,
                registered, evicted)
      /\ t.prev = "DONE"
  BY <1>2, <1>4, <1>5, WalkEnds
<1>7. /\ state'[t.q] = "DONE" /\ vrev'[t.q] = cur /\ deps'[t.q] = t.deps
      /\ \A p \in Queries \ {t.q} :
           /\ state'[p] = state[p] /\ vrev'[p] = vrev[p]
           /\ deps'[p] = deps[p]
  <2>1. t.q \in Queries
    BY <1>4 DEF Queries
  <2> QED
    BY <1>1, <1>2, <1>4, <1>6, <2>1 DEF TypeOK
<1>8. \A f \in evicted : t.q = Ast(f) => column'[t.q] = Bottom
  BY <1>1, <1>2, <1>4 DEF Memos
<1> QED
  BY <1>2, <1>3, <1>6, <1>7, <1>8, ReturnMemos

\* A body that returns leaves a memo of what it has read.
LEMMA SucceedMemos ==
    ASSUME WInv, TypeOK', Succeed, UNCHANGED workspaceVars
    PROVE  Remembered'
<1> DEFINE t == Top(stack)
           v == Upcoming(t).val
<1>1. /\ Base /\ Shell /\ TypeOK /\ InputsHeld /\ Ledger
      /\ FramesOK(stack, column, fp, dur, registered, evicted)
  BY DEF WInv, Base, Shell
<1>2. /\ stack # <<>> /\ t.mode = "body" /\ Upcoming(t).op = "return"
      /\ state' = [state EXCEPT ![t.q] = "DONE"]
      /\ vrev' = [vrev EXCEPT ![t.q] = cur]
      /\ deps' = [deps EXCEPT ![t.q] = t.deps]
      /\ column' = [column EXCEPT ![t.q] = v]
      /\ fp' = [fp EXCEPT ![t.q] = v]
      /\ dur' = [dur EXCEPT ![t.q] = FrameDur(t)]
      /\ stack' = ReturnTo(RecordOnParent(Popped(stack), t.q, v, FrameDur(t)), v)
      /\ UNCHANGED <<cur, lastChanged, registered, evicted>>
  BY DEF Succeed, Finishing, revVars, workspaceVars
<1>3. /\ t \in Frame /\ Len(stack) \in Nat \ {0} /\ t.q \in Derived
      /\ Homed(stack, registered)
  BY <1>1, <1>2, StackFacts, TopIsFrame, TopFrame
<1>4. /\ FrameOK(t, column[t.q], fp[t.q], dur[t.q], fp, registered, evicted)
      /\ t.q[2] \in registered
  BY <1>1, <1>3 DEF FramesOK, Homed, Top
<1>5. /\ SlotOK(t.q, t.deps, v, v, FrameDur(t), TRUE, fp, registered, evicted)
      /\ \A f \in Files \cap evicted : t.q = Ast(f) => v = Bottom
  <2>1. BodyOK(t, fp, registered, evicted)
    BY <1>2, <1>4 DEF FrameOK
  <2>2. \A g \in registered : fp[Src(g)] \in Texts
    BY <1>1 DEF InputsHeld, HeldInput
  <2> QED
    BY <1>2, <1>3, <1>4, <2>1, <2>2, BodyEnds
<1>6. /\ state'[t.q] = "DONE" /\ vrev'[t.q] = cur /\ deps'[t.q] = t.deps
      /\ column'[t.q] = v /\ fp'[t.q] = v /\ dur'[t.q] = FrameDur(t)
      /\ \A p \in Queries \ {t.q} :
           /\ state'[p] = state[p] /\ vrev'[p] = vrev[p]
           /\ deps'[p] = deps[p] /\ column'[p] = column[p]
           /\ fp'[p] = fp[p] /\ dur'[p] = dur[p]
  <2>1. t.q \in Queries
    BY <1>3 DEF Queries
  <2> HIDE DEF v, t
  <2> QED
    BY <1>1, <1>2, <2>1 DEF TypeOK
<1>7. \A f \in evicted : t.q = Ast(f) => column'[t.q] = Bottom
  <2>1. evicted \subseteq Files
    BY <1>1 DEF Ledger
  <2> QED
    BY <1>5, <1>6, <2>1
<1> HIDE DEF v
<1> QED
  BY <1>2, <1>5, <1>6, <1>7, ReturnMemos

-----------------------------------------------------------------------------
(* So do the requests, the editor, the watcher and the loads.                *)

\* Outside a request there is no frame to keep in order.
LEMMA NoFrames ==
    ASSUME stack' = <<>>
    PROVE  /\ PulledIsLive'
           /\ FramesOK(stack, column, fp, dur, registered, evicted)'
BY DEF PulledIsLive, Pulled, FramesOK

\* A request begins and ends without a new memo; a reclaimed slot is empty.
LEMMA RequestMemos ==
    ASSUME WInv, RequestBegin(cur) \/ RequestEnd, UNCHANGED workspaceVars
    PROVE  Remembered'
<1>1. Base /\ Memos /\ TypeOK
  BY DEF WInv, Base, Shell
<1>2. Machinery
  <2>1. cur \in 1 .. MaxRev
    BY <1>1 DEF TypeOK
  <2> QED
    BY <2>1 DEF Machinery
<1>3. \A g \in registered : fp'[Src(g)] = fp[Src(g)]
  BY <1>1, <1>2, EngineInputs
<1>4. UNCHANGED <<registered, evicted, lastChanged, column, vrev>> /\ stack' = <<>>
  BY DEF RequestBegin, RequestEnd, slotVars, workspaceVars
<1>5. ASSUME NEW q \in Derived
      PROVE  \/ /\ state'[q] = state[q] /\ deps'[q] = deps[q]
                /\ column'[q] = column[q] /\ fp'[q] = fp[q]
                /\ dur'[q] = dur[q] /\ vrev'[q] = vrev[q]
             \/ state'[q] \in {"EMPTY", "ABSENT"} /\ deps'[q] = <<>>
  <2>1. q \in Queries
    BY DEF Queries
  <2>2. CASE RequestBegin(cur)
    BY <2>2 DEF RequestBegin, slotVars
  <2>3. CASE RequestEnd
    BY <1>4, <2>1, <2>3 DEF RequestEnd
  <2> QED
    BY <2>2, <2>3
<1>6. \A q \in Derived : \A f \in evicted : q = Ast(f) => column'[q] = Bottom
  BY <1>1, <1>4 DEF Memos
<1>7. Memos'
  <2>1. registered \subseteq registered'
    BY <1>4
  <2> QED
    BY <1>3, <1>4, <1>5, <1>6, <2>1, MemosKept
<1> QED
  BY <1>4, <1>7, NoFrames DEF Remembered

\* After a bump no derived slot is fresh, so no memo has anything to say about
\* the inputs; a tree that is released is NULL.
LEMMA StaleMemos ==
    ASSUME WInv, stack' = <<>>, lastChanged'[DUR_LOW] = cur + 1, NEW f,
           \A q \in Derived :
              /\ state'[q] = state[q] /\ deps'[q] = deps[q] /\ fp'[q] = fp[q]
              /\ dur'[q] = dur[q] /\ vrev'[q] = vrev[q]
              /\ column'[q] = column[q] \/ (q = Ast(f) /\ column'[q] = Bottom),
           \A g \in evicted' : Ast(g) \in Derived => column'[Ast(g)] = Bottom
    PROVE  Remembered'
<1>1. TypeOK /\ Memos
  BY DEF WInv, Base, Shell
<1>2. ASSUME NEW q \in Derived, state'[q] = "DONE"
      PROVE  Memo(q)'
  <2>1. SlotOK(q, deps[q], column[q], fp[q], dur[q], Fresh(q), fp, registered,
               evicted)
    BY <1>1, <1>2 DEF Memos, Memo
  <2>2. Fresh(q) \in BOOLEAN
    BY DEF Fresh
  <2>3. SlotOK(q, deps[q], column[q], fp[q], dur[q], FALSE, fp', registered',
               evicted')
    <3>1. PICK b \in BOOLEAN :
               SlotOK(q, deps[q], column[q], fp[q], dur[q], b, fp, registered,
                      evicted)
      BY <2>1, <2>2
    <3> QED
      BY <3>1 DEF SlotOK, AstSlot, ItemsSlot, ImpSlot
  <2>4. SlotOK(q, deps[q], column'[q], fp[q], dur[q], FALSE, fp', registered',
               evicted')
    <3>1. CASE column'[q] = column[q]
      BY <2>3, <3>1
    <3>2. CASE q = Ast(f) /\ column'[q] = Bottom
      <4>1. /\ \A g : q # Items(g) /\ q # Imp(g)
            /\ \A g : q = Ast(g) => g = f
        BY <3>2, QueriesDiffer
      <4> QED
        BY <2>3, <3>2, <4>1 DEF SlotOK, AstSlot
    <3> QED
      BY <3>1, <3>2
  <2>5. ~Fresh(q)'
    <3>1. vrev[q] \in 0 .. cur /\ cur \in Nat /\ vrev'[q] = vrev[q]
      BY <1>1, ConstantsAssumption DEF TypeOK, Queries
    <3> QED
      BY <3>1 DEF Fresh
  <2>6. SlotOK(q, deps[q], column'[q], fp[q], dur[q], Fresh(q)', fp',
               registered', evicted')
    BY <2>4, <2>5 DEF SlotOK, AstSlot, ItemsSlot, ImpSlot
  <2> QED
    BY <2>6 DEF Memo
<1>3. Memos'
  <2>1. \A q \in Derived : state'[q] = "DONE" => Memo(q)'
    BY <1>2
  <2>2. \A q \in Derived : /\ state'[q] # "ERROR"
                           /\ state'[q] \in {"EMPTY", "ABSENT"} => deps'[q] = <<>>
    BY <1>1 DEF Memos
  <2> QED
    BY <2>1, <2>2 DEF Memos
<1> QED
  BY <1>3, NoFrames DEF Remembered

\* A new text makes every memo stale; the text that is there already is no
\* change at all.
LEMMA ApplyMemos ==
    ASSUME WInv, NEW f \in registered, NEW t \in Texts, ApplyText(f, t)
    PROVE  Remembered'
<1>1. /\ Base /\ Memos /\ HeldInput(f) /\ registered \subseteq Files
  BY DEF WInv, Base, InputsHeld, Ledger
<1>2. /\ stack' = <<>> /\ evicted' = evicted \ {f}
      /\ UNCHANGED <<state, dur, deps, registered>>
      /\ \A q \in Queries :
           /\ column'[q] = IF q = Src(f) THEN t
                           ELSE IF q = Set(f) THEN Members(<<f>>)
                           ELSE column[q]
           /\ fp'[q] = IF q = Src(f) THEN t
                       ELSE IF q = Set(f) THEN Members(<<f>>) ELSE fp[q]
           /\ q \in Derived => vrev'[q] = vrev[q]
      /\ \/ /\ t = fp[Src(f)] /\ f \notin evicted
            /\ UNCHANGED <<cur, lastChanged>>
         \/ cur' = cur + 1 /\ lastChanged'[DUR_LOW] = cur + 1
  BY <1>1, ApplyEffect
<1>3. ASSUME NEW q \in Derived
      PROVE  /\ column'[q] = column[q] /\ fp'[q] = fp[q] /\ vrev'[q] = vrev[q]
  <2>1. q \in Queries /\ q # Src(f) /\ q # Set(f)
    BY <1>1, InputQueries DEF Queries
  <2> QED
    BY <1>2, <2>1
<1>4. CASE lastChanged'[DUR_LOW] = cur + 1
  <2>1. \A g \in evicted' : Ast(g) \in Derived => column'[Ast(g)] = Bottom
    BY <1>1, <1>2, <1>3 DEF Memos
  <2> QED
    BY <1>2, <1>3, <1>4, <2>1, StaleMemos
<1>5. CASE t = fp[Src(f)] /\ f \notin evicted /\ UNCHANGED lastChanged
  <2>1. evicted' = evicted /\ registered \subseteq registered'
    BY <1>2, <1>5
  <2>2. \A g \in registered : fp'[Src(g)] = fp[Src(g)]
    <3> SUFFICES ASSUME NEW g \in registered
                 PROVE  fp'[Src(g)] = fp[Src(g)]
      OBVIOUS
    <3>1. Src(g) \in Queries /\ Src(g) # Set(f)
      BY <1>1, InputQueries, QueriesDiffer
    <3> QED
      BY <1>2, <1>5, <3>1
  <2>3. Memos'
    BY <1>2, <1>3, <1>5, <2>1, <2>2, MemosKept
  <2> QED
    BY <1>2, <2>3, NoFrames DEF Remembered
<1> QED
  BY <1>2, <1>4, <1>5

\* So does an eviction, which also releases the tree.
LEMMA EvictMemos ==
    ASSUME WInv, NEW f \in registered, Evict(f)
    PROVE  Remembered'
<1>1. /\ Base /\ Memos /\ registered \subseteq Files
  BY DEF WInv, Base, Ledger
<1>2. /\ stack' = <<>> /\ evicted' = evicted \cup {f}
      /\ UNCHANGED <<state, dur, deps, registered>>
      /\ \A q \in Queries :
           /\ column'[q] = IF q \in {Src(f), Ast(f)} THEN Bottom
                           ELSE IF q = Set(f) THEN Members(<<>>)
                           ELSE column[q]
           /\ fp'[q] = IF q = Set(f) THEN Members(<<>>) ELSE fp[q]
           /\ q \in Derived => vrev'[q] = vrev[q]
      /\ lastChanged'[DUR_LOW] = cur + 1
  BY <1>1, EvictEffect
<1>3. ASSUME NEW q \in Derived
      PROVE  /\ column'[q] = IF q = Ast(f) THEN Bottom ELSE column[q]
             /\ fp'[q] = fp[q] /\ vrev'[q] = vrev[q]
  <2>1. q \in Queries /\ q # Src(f) /\ q # Set(f)
    BY <1>1, InputQueries DEF Queries
  <2> QED
    BY <1>2, <2>1
<1>4. \A g \in evicted' : Ast(g) \in Derived => column'[Ast(g)] = Bottom
  BY <1>1, <1>2, <1>3 DEF Memos
<1> QED
  BY <1>2, <1>3, <1>4, StaleMemos

\* A new row leaves the derived slots and the other texts as they are.
LEMMA CreatedSlots ==
    ASSUME Base, NEW f \in Files \ registered, NEW t \in Texts, NEW r,
           Created(f, t, r), cur' \in {cur, cur + 1}, r \in {cur, cur'}
    PROVE  /\ registered' = registered \cup {f}
           /\ \A q \in Derived :
                /\ state'[q] = state[q] /\ column'[q] = column[q]
                /\ fp'[q] = fp[q] /\ dur'[q] = dur[q] /\ vrev'[q] = vrev[q]
           /\ \A g \in registered : fp'[Src(g)] = fp[Src(g)]
<1>1. /\ registered' = registered \cup {f}
      /\ \A q \in Queries : q \notin {Src(f), Set(f)} =>
           /\ column'[q] = column[q] /\ fp'[q] = fp[q]
           /\ state'[q] = state[q] /\ vrev'[q] = vrev[q]
           /\ dur'[q] = dur[q]
  BY CreatedEffect
<1>2. \A q \in Derived : q \in Queries /\ q \notin {Src(f), Set(f)}
  BY InputQueries DEF Queries
<1>3. \A g \in registered : Src(g) \in Queries /\ Src(g) \notin {Src(f), Set(f)}
  <2>1. registered \subseteq Files
    BY DEF Base, Ledger
  <2> QED
    BY <2>1, InputQueries, QueriesDiffer
<1> QED
  BY <1>1, <1>2, <1>3

\* workspace_did_open bumps, so every memo is stale.
LEMMA DidOpenMemos ==
    ASSUME WInv, NEW f \in Files, NEW t \in Texts, DidOpen(f, t)
    PROVE  Remembered'
<1>1. Base /\ Memos /\ Shell /\ TypeOK
  BY DEF WInv, Base, Shell
<1>2. /\ f \in Files \ registered /\ Changed(DUR_MEDIUM)
      /\ Created(f, t, cur + 1) /\ UNCHANGED <<deps, stack, evicted>>
  BY DEF DidOpen
<1>3. /\ req = 0 /\ cur' = cur + 1 /\ lastChanged'[DUR_LOW] = cur + 1
  BY <1>2 DEF Changed, Tiers, DUR_LOW, DUR_MEDIUM, DUR_HIGH
<1>4. stack' = <<>>
  BY <1>1, <1>2, <1>3 DEF Shell, NoRunningBetweenRequests
<1>5. \A q \in Derived :
        /\ state'[q] = state[q] /\ column'[q] = column[q]
        /\ fp'[q] = fp[q] /\ dur'[q] = dur[q] /\ vrev'[q] = vrev[q]
  <2>1. cur' \in {cur, cur + 1} /\ cur + 1 \in {cur, cur'}
    BY <1>3
  <2> QED
    BY <1>1, <1>2, <2>1, CreatedSlots
<1>6. \A g \in evicted' : Ast(g) \in Derived => column'[Ast(g)] = Bottom
  BY <1>1, <1>2, <1>5 DEF Memos
<1> QED
  BY <1>2, <1>3, <1>4, <1>5, <1>6, StaleMemos

\* A file that is loaded by an import leaves every memo as it is.
LEMMA ResolveMemos ==
    ASSUME WInv, NEW f \in DOMAIN ImportOf, Resolve(f)
    PROVE  /\ Memos' /\ registered \subseteq registered'
           /\ UNCHANGED <<evicted, cur>>
           /\ \A q \in Derived :
                /\ state'[q] = state[q] /\ column'[q] = column[q]
                /\ fp'[q] = fp[q] /\ dur'[q] = dur[q] /\ vrev'[q] = vrev[q]
           /\ \A g \in registered : fp'[Src(g)] = fp[Src(g)]
<1> DEFINE g == ImportOf[f]
<1>1. Base /\ Ledger
  BY DEF WInv, Base
<1>2. UNCHANGED <<deps, cur, lastChanged, evicted>>
  BY DEF Resolve, revVars
<1>3. /\ registered \subseteq registered'
      /\ \A q \in Derived :
           /\ state'[q] = state[q] /\ column'[q] = column[q]
           /\ fp'[q] = fp[q] /\ dur'[q] = dur[q] /\ vrev'[q] = vrev[q]
      /\ \A h \in registered : fp'[Src(h)] = fp[Src(h)]
  <2>1. CASE Resolvable(f) /\ g \notin registered
    <3>1. Created(g, disk[g], cur)
      BY <2>1 DEF Resolve
    <3>2. g \in Files \ registered
      BY <2>1, WorkspaceAssumption
    <3>3. disk[g] \in Texts
      BY <1>1, <2>1, <3>2 DEF Ledger, Resolvable
    <3>4. cur' \in {cur, cur + 1} /\ cur \in {cur, cur'}
      BY <1>2
    <3> HIDE DEF g
    <3> QED
      BY <1>1, <3>1, <3>2, <3>3, <3>4, CreatedSlots
  <2>2. CASE ~(Resolvable(f) /\ g \notin registered)
    BY <2>2 DEF Resolve
  <2> QED
    BY <2>1, <2>2
<1>4. Memos'
  BY <1>2, <1>3, MemosKept
<1> QED
  BY <1>2, <1>3, <1>4

\* The importer goes on with the namespace it was given.
LEMMA ResolveImportMemos ==
    ASSUME WInv, NEW f \in DOMAIN ImportOf, ResolveImport(f)
    PROVE  Remembered'
<1> DEFINE t == Top(stack)
           v == IF Resolvable(f) THEN Nspace(ImportOf[f]) ELSE Bottom
           h == Handed(t, v)
<1>1. /\ Base /\ FramesOK(stack, column, fp, dur, registered, evicted)
      /\ Resolve(f)
  BY DEF WInv, ResolveImport
<1>2. /\ stack # <<>> /\ t \in Frame /\ t.mode = "body"
      /\ t.q = Imp(f) /\ Len(t.vals) = 1
      /\ Len(stack') = Len(stack) /\ Len(stack) \in Nat \ {0}
      /\ \A k \in 1 .. Len(stack) :
           stack'[k] = IF k = Len(stack) THEN h ELSE stack[k]
  BY <1>1, ResolvedTop
<1>3. /\ Memos' /\ registered \subseteq registered' /\ UNCHANGED evicted
      /\ \A q \in Derived :
           /\ column'[q] = column[q] /\ fp'[q] = fp[q] /\ dur'[q] = dur[q]
      /\ \A g \in registered : fp'[Src(g)] = fp[Src(g)]
  BY <1>1, ResolveMemos
<1>4. FramesOK(stack, column', fp', dur', registered', evicted)
  <2>1. Homed(stack, registered) /\ stack \in Seq(Frame)
    BY <1>1, StackFacts
  <2>2. \A k \in 1 .. Len(stack) : stack[k].q \in Derived
    BY <2>1, ElementOfSeq DEF Frame, FrameFields
  <2>3. \A k \in 1 .. Len(stack) : /\ column'[stack[k].q] = column[stack[k].q]
                                   /\ fp'[stack[k].q] = fp[stack[k].q]
                                   /\ dur'[stack[k].q] = dur[stack[k].q]
    BY <1>3, <2>2
  <2> QED
    BY <1>1, <1>3, <2>1, <2>3, FramesSame
<1> HIDE DEF v
<1>5. /\ h.q = t.q /\ h.deps = t.deps /\ h.mode = t.mode
      /\ h.durSet = t.durSet /\ h.minDur = t.minDur
      /\ h.vals = Append(t.vals, v)
  BY <1>2, HandedFields
<1>6. Len(h.vals) = 2
  <2>1. t.vals \in Seq(Results)
    BY <1>2 DEF Frame, FrameFields, ValueSeqs
  <2> QED
    BY <1>2, <1>5, <2>1
<1> HIDE DEF h
<1>7. ImpBodyOK(f, h, fp', registered', evicted)
  <2>1. ImpBodyOK(f, t, fp', registered', evicted)
    BY <1>2, <1>4 DEF FramesOK, FrameOK, BodyOK, Top
  <2>2. t.vals # <<>> /\ Len(t.vals) # 3
    <3>1. \A x : Len(x) = 1 => x # <<>> /\ Len(x) # 3
      OBVIOUS
    <3> QED
      BY <1>2, <3>1
  <2> HIDE DEF t
  <2>3. /\ Len(t.deps) = 1 /\ t.deps[1].q = Ast(f)
        /\ t.durSet /\ t.minDur = DUR_LOW
    BY <2>1, <2>2 DEF ImpBodyOK
  <2> QED
    BY <1>5, <1>6, <2>3 DEF ImpBodyOK
<1>8. FrameOK(h, column'[h.q], fp'[h.q], dur'[h.q], fp', registered', evicted)
  <2>1. /\ \A g : h.q # Ast(g) /\ h.q # Items(g)
        /\ \A g : h.q = Imp(g) => g = f
    BY <1>2, <1>5, QueriesDiffer
  <2> QED
    BY <1>2, <1>5, <1>7, <2>1 DEF FrameOK, BodyOK
<1>9. FramesOK(stack', column', fp', dur', registered', evicted)
  <2> SUFFICES ASSUME NEW k \in 1 .. Len(stack)
               PROVE  FrameOK(stack'[k], column'[stack'[k].q],
                              fp'[stack'[k].q], dur'[stack'[k].q], fp',
                              registered', evicted)
    BY <1>2 DEF FramesOK
  <2>1. CASE k = Len(stack)
    BY <1>2, <1>8, <2>1
  <2>2. CASE k # Len(stack)
    BY <1>2, <1>4, <2>2 DEF FramesOK
  <2> QED
    BY <2>1, <2>2
<1>10. PulledIsLive'
  <2>1. Top(stack') = h
    BY <1>2 DEF Top
  <2> QED
    BY <1>2, <1>5, <2>1 DEF PulledIsLive, Pulled
<1> QED
  BY <1>3, <1>9, <1>10 DEF Remembered

\* What memos and frames say is about the slots and the rows alone.
LEMMA RememberedSame ==
    ASSUME WInv, UNCHANGED <<state, fp, vrev, dur, deps, column, stack, cur,
                             lastChanged, registered, evicted>>
    PROVE  Remembered'
<1>1. Memos'
  BY DEF WInv, Memos, Memo, Fresh
<1>2. PulledIsLive' /\ FramesOK(stack, column, fp, dur, registered, evicted)'
  BY DEF WInv, PulledIsLive, Live
<1> QED
  BY <1>1, <1>2 DEF Remembered

\* One event of handle_did_change_watched_files.
LEMMA WatchEventMemos ==
    ASSUME WInv, WatchEvent
    PROVE  Remembered'
<1> DEFINE e == Head(events)
<1>1. Base /\ Ledger
  BY DEF WInv, Base
<1>2. IF e.file \notin registered \/ e.type = "created" THEN Ignored
      ELSE IF e.type = "changed" THEN ReSlurp(e.file)
      ELSE Evict(e.file)
  BY DEF WatchEvent
<1> HIDE DEF e
<1>3. CASE Ignored
  BY <1>3, RememberedSame DEF Ignored, slotVars, revVars
<1>4. CASE e.file \in registered /\ Evict(e.file)
  BY <1>4, EvictMemos
<1>5. CASE e.file \in registered /\ ReSlurp(e.file)
  <2>1. disk[e.file] \in Texts \cup {Bottom}
    BY <1>1, <1>5 DEF Ledger
  <2>2. CASE disk[e.file] = Bottom
    BY <1>5, <2>2, EvictMemos DEF ReSlurp
  <2>3. CASE disk[e.file] # Bottom
    BY <1>5, <2>1, <2>3, ApplyMemos DEF ReSlurp
  <2> QED
    BY <2>2, <2>3
<1> QED
  BY <1>2, <1>3, <1>4, <1>5

-----------------------------------------------------------------------------
\* db_init and an empty workspace establish the invariant.
LEMMA InitMemos == WInit => WInv
<1> SUFFICES ASSUME WInit
             PROVE  WInv
  OBVIOUS
<1>1. Base
  BY InitBase
<1>2. /\ \A q \in Derived : state[q] \in {"EMPTY", "ABSENT"} /\ deps[q] = <<>>
      /\ evicted = {} /\ stack = <<>>
  <2>1. Derived \subseteq Queries
    BY DEF Queries
  <2> QED
    BY <2>1 DEF WInit
<1>3. Memos /\ PulledIsLive
  BY <1>2 DEF Memos, PulledIsLive, Pulled
<1>4. FramesOK(stack, column, fp, dur, registered, evicted)
  BY <1>2 DEF FramesOK
<1> QED
  BY <1>1, <1>3, <1>4 DEF WInv

\* A query step keeps what is remembered in order.
LEMMA QueryMemos ==
    ASSUME WInv, Query
    PROVE  Remembered'
<1>1. Base /\ Base'
  BY QueryBase DEF WInv
<1>2. TypeOK' /\ UNCHANGED workspaceVars
  BY <1>1 DEF Base, Shell, Query
<1>3. CASE \E q \in Queries \ Paths :
             /\ stack = <<>> => q[2] \in registered
             /\ BeginEmpty(q) \/ BeginHit(q) \/ BeginWalk(q)
  <2>1. PICK q \in Queries \ Paths :
               /\ stack = <<>> => q[2] \in registered
               /\ BeginEmpty(q) \/ BeginHit(q) \/ BeginWalk(q)
    BY <1>3
  <2>2. Calls(q)
    BY <2>1 DEF BeginEmpty, BeginHit, BeginWalk
  <2>3. q[2] \in registered
    BY <1>1, <2>1, <2>2, CalledKnown
  <2> QED
    BY <1>2, <2>1, <2>3, BeginEmptyMemos, BeginHitMemos, BeginWalkMemos
<1>4. CASE WalkNext \/ WalkFail \/ WalkEnd \/ Succeed
  BY <1>2, <1>4, WalkNextMemos, WalkFailMemos, WalkEndMemos, SucceedMemos
<1> QED
  BY <1>3, <1>4 DEF Query

\* Every step of the workspace preserves the invariant: whatever a query
\* remembers and verifies is about the texts and the files of now.
THEOREM WorkspaceInductive == WInv /\ [WNext]_wVars => WInv'
<1> SUFFICES ASSUME WInv, [WNext]_wVars
             PROVE  WInv'
  OBVIOUS
<1>1. Base'
  BY BaseInductive DEF WInv
<1> SUFFICES Remembered'
  BY <1>1 DEF WInv, Remembered
<1>2. CASE Query
  BY <1>2, QueryMemos
<1>3. CASE (RequestBegin(cur) \/ RequestEnd) /\ UNCHANGED workspaceVars
  BY <1>3, RequestMemos
<1>4. CASE \E f \in DOMAIN ImportOf : ResolveImport(f) \/ CompileResolves(f)
  <2>1. PICK f \in DOMAIN ImportOf : ResolveImport(f) \/ CompileResolves(f)
    BY <1>4
  <2>2. CASE ResolveImport(f)
    BY <2>2, ResolveImportMemos
  <2>3. CASE CompileResolves(f)
    <3>1. Resolve(f) /\ stack' = <<>>
      BY <2>3 DEF CompileResolves
    <3> QED
      BY <3>1, ResolveMemos, NoFrames DEF Remembered
  <2> QED
    BY <2>1, <2>2, <2>3
<1>5. CASE \E f \in Files : \E t \in TextsOf[f] \ {Bottom} :
             DidOpen(f, t) \/ DidChange(f, t)
  <2>0. PICK f \in Files : \E t \in TextsOf[f] \ {Bottom} :
               DidOpen(f, t) \/ DidChange(f, t)
    BY <1>5
  <2>1. PICK t \in TextsOf[f] \ {Bottom} : DidOpen(f, t) \/ DidChange(f, t)
    BY <2>0
  <2>2. t \in Texts
    BY WorkspaceAssumption
  <2> QED
    BY <2>1, <2>2, DidOpenMemos, ApplyMemos DEF DidChange
<1>6. CASE \E f \in Files : \E t \in TextsOf[f] : DiskWrite(f, t)
  BY <1>6, RememberedSame DEF DiskWrite, vars, slotVars, revVars
<1>7. CASE WatchEvent
  BY <1>7, WatchEventMemos
<1>8. CASE UNCHANGED wVars
  BY <1>8, RememberedSame DEF wVars, vars, slotVars, revVars, workspaceVars
<1> QED
  BY <1>2, <1>3, <1>4, <1>5, <1>6, <1>7, <1>8 DEF WNext

\* The invariant holds in every reachable state of the workspace.
THEOREM WorkspaceInvariance == WSpec => []WInv
<1>1. WInit => WInv
  BY InitMemos
<1> QED
  BY <1>1, WorkspaceInductive, PTL DEF WSpec

\* file_ast_read of a slot verified at this revision is the tree of the text
\* the source has now, or NULL, for any number of files, texts and edits.
THEOREM NoOldTree == WSpec => []NoTreeOfAnOlderText
<1>1. WInv => NoTreeOfAnOlderText
  <2> SUFFICES ASSUME WInv, NEW f \in registered, Live(Ast(f))
               PROVE  column[Ast(f)] \in {Bottom, Tree(column[Src(f)])}
    BY DEF NoTreeOfAnOlderText
  <2>1. HeldInput(f) /\ f \in Files
    BY DEF WInv, Base, InputsHeld, Ledger
  <2>2. Ast(f) \in Derived
    BY <2>1, QueriesAssumption
  <2>3. Answers(Ast(f), column[Ast(f)], fp[Ast(f)], dur[Ast(f)], fp, registered,
                evicted)
    BY <2>2, LiveAnswers DEF Live
  <2>4. /\ column[Ast(f)] \in {Bottom, Tree(fp[Src(f)])}
        /\ column[Ast(f)] # Bottom => f \notin evicted
    BY <2>1, <2>3 DEF Answers
  <2> QED
    BY <2>1, <2>4 DEF HeldInput
<1> QED
  BY <1>1, WorkspaceInvariance, PTL

\* What a verified import binding shows of a file are names the file declares
\* now, although the resolution of the path is recorded nowhere.
THEOREM NoOldExport == WSpec => []NoExportOfAnOlderText
<1>1. WInv => NoExportOfAnOlderText
  <2> SUFFICES ASSUME WInv, NEW f \in DOMAIN ImportOf, Imp(f) \in Derived,
                      Live(Imp(f)), column[Imp(f)] # Bottom
               PROVE  column[Imp(f)].items \subseteq
                        IF ImportOf[f] \in Present
                        THEN column[Src(ImportOf[f])].names ELSE {}
    BY DEF NoExportOfAnOlderText
  <2> DEFINE g == ImportOf[f]
             c == column[Imp(f)]
  <2>1. SlotOK(Imp(f), deps[Imp(f)], c, fp[Imp(f)], dur[Imp(f)], TRUE, fp,
               registered, evicted)
    BY LiveAnswers DEF Live
  <2>2. ExportsOK(g, c, fp, registered, evicted)
    BY <2>1 DEF SlotOK, ImpSlot
  <2>3. g \in registered \ evicted => column[Src(g)] = fp[Src(g)]
    BY DEF WInv, Base, InputsHeld, HeldInput
  <2> QED
    BY <2>2, <2>3, ValuesDiffer DEF ExportsOK, Present
<1> QED
  BY <1>1, WorkspaceInvariance, PTL
=============================================================================
