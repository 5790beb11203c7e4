# Ore: a TLA+ model of the incremental compiler

Ore is a compiler front end written in C as a database of *queries*. The
inputs are source texts and file sets; everything else (tokens, trees, scopes,
types, constants, diagnostics) is the memoized result of a query. A result is
kept with the list of queries its computation read. After an edit it is
revalidated against that list, recomputed only when something it read has
changed, and thrown away when nobody has asked for it for a while. The same
database serves the batch compiler (`compile_file`) and the language server.

The development is about the parts of that program whose errors are silent: an
incremental engine that goes wrong does not crash, it answers with the result
of an older program; a parser, an evaluator or a row unifier that goes wrong
accepts or misreads a program without a word. Section 3 says how each part is
modelled, section 4 what TLC checks, section 5 what is proved, section 7 what
comes next.

Paths below are relative to the repository, which is under `src/`; the C code
is in `src/src/`.

## 1. Inventory

### 1.1 The parts and how they interact

| Part | Code | State it keeps | Operations |
|---|---|---|---|
| Query engine | `db/query/engine.c`, `engine_verify.c`, `engine_dispatch.c`, `engine_internal.h` | one slot per (kind, key): state, fingerprint, verified revision, durability, dependency list; the stack of running queries; `running_slots` | `db_query_begin`, `db_query_succeed`, `db_query_fail`, `db_engine_verify`, `db_query_fixpoint_drive` |
| Requests and revisions | `engine.c` | `current_revision`, `request_revision`, `cancel_requested`, `dur_last_changed` | `db_request_begin`, `_end`, `_cancel`, `db_input_changed`, `db_input_set` |
| Reclamation | `engine_compact.c` | none of its own: rewrites slots, rows, pools | orphan slots at every `db_request_end`; compaction of the pools when they have grown |
| SCC fixpoint | `engine.c`, `type.c`, `infer.c`, `capability.c` | provisional bit per slot, the active SCC and its members | enrolment on re-entry, rerun of members until no fingerprint moves, finalization |
| Slot routing, identities | `engine.c`, `scope.c`, `ids/ids.c` | hash maps from key to row, free lists, DefId tables | lookup, allocation, reuse of a row |
| Inputs | `db/inputs/*.c` | source texts, files, modules, their hashes | create, set text, evict, readmit |
| Workspace | `db/workspace/*.c` | path to source, file to namespace | open, change, external change, evict, lazy `@import` |
| Parse layer | `db/query/parse.c`, `lexer/`, `parser_new/`, `syntax/` | green roots per file, node cache with reference counts | FILE_AST, LINE_INDEX, FILE_ITEMS... |
| Scope layer | `db/query/scope.c`, `body_scopes.c` | scopes, definitions | NAMESPACE_ITEMS, NAMESPACE_SCOPES, DEF_IDENTITY, RESOLVE_REF... |
| Type layer | `db/query/type.c`, `infer.c`, `coerce.c`, `layout.c`, `eval.c`, `capability.c`, `node_type.c` | types, effect rows, constants | TYPE_OF_DECL, FN_SIGNATURE, INFER_BODY, CONST_EVAL, LAYOUT... |
| Intern and string pools | `db/intern_pool/`, `support/data_structure/stringpool.c` | interned types, values, names | intern, compact |
| Diagnostics | `db/diag/`, `db/getters/diag.c` | a bundle per slot | emit, clear, collect |
| IDE features | `ide/*.c` | none | hover, completion, definition |
| LSP server | `consumers/lsp/` | protocol state, drafts, published hashes | the JSON-RPC handlers, publication |
| Driver | `compiler/compile.c`, `consumers/driver/`, `main.c` | none | one compilation |
| Support | `support/data_structure/` | hash map, paged vectors, arenas | |

The interaction is by call. A consumer opens a request, which pins a revision,
and pulls queries. A query's body calls other queries through
`DB_QUERY_GUARD`; each call that returns a value records a dependency on the
frame of its caller. Revalidation calls too: the walk of `db_engine_verify`
pulls each recorded dependency through the dispatch table before it compares
fingerprints, so the stack mixes bodies and walks. Inputs are set between
requests. The one thing another thread may do is set `cancel_requested`
(`db.h`, CONCURRENCY CONTRACT); every `db_query_begin` and every
`db_query_succeed` reads it.

### 1.2 What is hard, and what makes each part correct

*Query engine.* Correct when the memo table cannot be seen: each answer is what
evaluation from scratch would return. This rests on several mechanisms that
each look right alone: a dependency list that is complete, a walk that compares
with the fingerprint saved *before* the pull refreshed it, tiers that let a
whole walk be skipped, orphan reclamation that removes rows a walk is about to
look up, cycles answered with a bottom value, and a cancel that may arrive
between any two of them. Every call has to return.

*Requests and revisions.* A request, however it ends, leaves no slot RUNNING
(the next request would take it for a cycle); inputs do not move while a
request is open.

*SCC fixpoint.* The effect rows of mutually recursive functions are the least
fixed point; no provisional value outlives the drive; after an edit of any
member all of them are recomputed.

*Workspace and inputs.* The tree a file's queries answer from is the tree of
the file's text, through eviction, readmission, edits outside the editor and
imports of files that do not exist yet.

*Reclamation and pools.* Nothing reachable from a live slot is dropped or
renumbered under it.

*LSP server.* What the editor shows is what the compiler says about the last
text it accepted: no publication is lost, no diagnostics of a former revision
stay, stale `didChange` packets are ignored.

*Front end.* The tokens and the line starts give the text back; layout puts out
well-nested braces; the parser returns to its flags and its open nodes on every
path through an error, groups operands by precedence, and ends; the walks over a
tree agree with one another.

*Types, effects and constants.* No effect is lost between a call and the row of
its function, a handled one does not escape; what coercion accepts loses no value,
no `const` and no effect; a constant is the number its expression means; a name is
the innermost declaration in sight, before and after an edit; a function that is
accepted does not run off its end, a switch takes every value.

*Tables.* The hash map is a function, the string pool and the intern pool give one
number to each thing, an arena offset leads to what was allocated there.

Each of these has a reference definition that is much shorter than the code.

`PROJECT.json` lists each part with its sources and status ("components") and
the places where this code can go wrong in a way a test would hardly reach
("hazards").

## 2. Modules

| Module | Role |
|---|---|
| `QueryEngine` | the engine: slots, stack, verification, durability, requests, cancel, inputs, reclamation; the properties of the slot life cycle |
| `QuerySemantics` | the reference: what a query's value is, by evaluation from scratch |
| `QueryOracle` | the abstract specification: inputs change, answers are from scratch |
| `QueryEngineCheck` | the refinement `QueryEngine => QueryOracle` and the properties that compare memos with the reference |
| `MCQueryEngine` | small programs of queries for TLC |
| `QueryEngineProofs` | the TLAPS proofs about `QueryEngine` |
| `QueryEngineCheckProofs` | the TLAPS proofs of dependency completeness (`MemoIsReplayable`), of the absence of false cycles, that live memos are current and that the engine implements `QueryOracle` |
| `SccFixpoint` | the FIXPOINT cycle policy on top of the engine: enrolment, provisional values, the drive |
| `SccFixpointProofs` | the TLAPS proofs that an SCC ends with the call it arose in and that provisional slots are RUNNING |
| `EffectQueries` | the bodies of FN_SIGNATURE and INFER_BODY as readers of effect rows |
| `MCSccFixpoint` | call graphs for TLC |
| `Workspace` | sources, files and namespaces as inputs of the engine; the editor, the watcher and lazy imports |
| `WorkspaceProofs` | the TLAPS proofs about `Workspace`, on top of those about the engine |
| `MCWorkspace` | a main file that imports a library file |
| `LspServer` | the language server: protocol states, drafts, push and pull diagnostics, with the editor and the watcher around it |
| `MCLspServer` | two documents, one importing the other |
| `LspServerProofs` | the TLAPS proofs about `LspServer` |
| `Lexer` | the scanner over character classes: ranges and line starts |
| `Layout` | indentation into virtual braces and semicolons |
| `Induction` | induction over the natural numbers and recursive functions, for the proofs |
| `FrontendProofs` | the TLAPS proofs about `Lexer` and `Layout` |
| `ParserGrammar` | each parser procedure as a program of cursor and builder operations |
| `Parser` | the machine that runs these programs: lookahead, flags, recovery, the green-tree builder |
| `SyntaxTree` | the read side of red trees: neighbours, positions, pointers, preorder, text |
| `MCFrontend` | texts, token streams and trees for TLC |
| `EffectRows` | row variables, unification, union and discharge while a body is inferred, and the gate at its end |
| `ConstValues` | compile-time integers and the folds over them |
| `Coercion` | types, layout, coercion, generic calls and their instances |
| `ConstEval` | compile-time evaluation with its cycle stack, frames and quota |
| `Scopes` | lexical scopes of a body, the node map, lookup, unused names, edits |
| `Inference` | control flow: loops, labels, switch coverage, checking against a type, the missing-return gate |
| `HashMap`, `StringPool`, `Arena`, `InternPool` | the tables |
| `TableProofs` | the TLAPS proofs about `HashMap`, `StringPool`, `Arena` and `InternPool` |
| `MCMiddle` | programs, bodies, types and keys for TLC; runs one of the parts above at a time |

`QueryEngineCheck` extends `QueryEngine` and instantiates the other two with
the inputs read off the input columns (`text <- [i \in Inputs |-> column[i]]`).
`SccFixpoint` extends `QueryEngineCheck`: it takes the engine's own actions for
everything that is not a cycle and keeps `LiveSlotIsCurrent` as the statement
that a memo is right, the reference for a cycle being the value of the least
fixed point (the rounds of `FromScratch` start from the empty row and only add
labels, and a label needs at most as many rounds as there are queries to reach
every row it belongs to).
`Workspace` extends `QueryEngine` as well: it takes `Body` to be the bodies of
the parse and scope queries, and replaces the engine's input actions by the
setters of `db/inputs` in the order the workspace calls them.
`LspServer` stands above all of these and extends none: it takes `compile_file`
to answer from scratch, which is what the others examine.
`Inference` extends `ConstEval`, which extends `Coercion` and `ConstValues`: they
share types and values. `MCMiddle` and `MCFrontend` extend parts that have no
variable in common; a behaviour chooses a part at the start and the others stand
still.

## 3. The engine model

**State.** `state`, `fp`, `vrev`, `dur`, `deps` are the fields of `QuerySlot`;
`column` is the result column beside it; `stack` is `query_stack`; `cur`,
`req`, `cancel`, `lastChanged`, `running` are `current_revision`,
`request_revision`, `cancel_requested`, `dur_last_changed`, `running_slots`.
`answer` is what the last top-level call returned to the consumer. A frame has
the fields of `QueryFrame` and, with them, the position of the C code above it:
in the loop of `db_engine_verify` or in the body of the query.

**Granularity.** Queries run on one thread and no other thread writes what they
read except the cancel flag. An action therefore extends from one read of the
flag to just before the next: `Begin*` are the ways through `db_query_begin`,
`WalkNext`, `WalkFail`, `WalkEnd` one iteration and the two ends of the
dependency walk, `Succeed`, `Fail` and `BailOut` the end of a body (`BailOut`
is the cancelled path, which memoizes nothing). `RequestCancel` can happen
between any two of them. `RequestEnd` is `db_request_end` whole: the sweep of
RUNNING slots and then the reclamation of orphans.

**Data.** A (kind, key) pair is a *query*. A fingerprint is the value it hashes,
so collisions of the 64-bit hash are out of scope. The body of a query is the
constant operator `Body(q, vals)`: given the values read so far, the next read,
the returned value or a failure. What a body reads can therefore depend on what
it has read, which is what makes dependency lists change from run to run.
The proofs hold for *every* such operator; TLC runs four.

**Environment.** Consumers pull between `db_request_begin` and `_end` (`engine.h`:
"Outside a request, query results are undefined"). They pin the current
revision, except that `compile_file` opens its first request at revision 1 on
every call, pulls FILE_AST in it and drops the result; `RequestBegin` allows
exactly the two. Inputs change between requests: `db_input_changed` asserts it,
and `Changed` has it as a guard. `InputTouch` is the profile loop of
`compile_file`, which bumps a revision without an edit.

**Details kept because they matter.** The first dependency of a frame is stored
in `dep_index` as row 0 and read back as absent, so it is appended again. The
walk's loop bound is read once while pulls append to the same list. A slot whose
walk fails keeps the durability the walk has folded into the frame. The slot of
a dependency is located before it is pulled, so a reclaimed row of a routed kind
makes the walk fail even when the pull recreates it with the same value.
`db_query_fail` records nothing on the caller. The sweep empties a slot but
leaves its stamp, reclamation also leaves it; a fresh row starts at zero.

**Left out of this module.** The FIXPOINT cycle policy (`SccFixpoint`, below),
the routing of keys to rows and of rows to columns, `dep_dur` and
`computed_rev` (written, never read), the statistics counters.

### 3.1 The fixpoint of effect rows

`FN_SIGNATURE` reads `INFER_BODY` of the same function, which reads
`FN_SIGNATURE` of every function it calls. When these re-enter a running query,
`db_query_begin` does not return the bottom value but enrols the frames of the
cycle in `scc_store`.

*State.* `prov` is the provisional bit of the slots; `scc` is `scc_store`,
`scc_root` and, since the drive is a loop of C code that calls bodies, the
position in that loop: `phase`, the member index `i`, the pass number `iter`, the
fingerprint `before` the rerun and whether any has `changed`. `base` is the
number of frames below the drive. `phase = "idle"` is `scc_store == NULL`.

*Actions.* `Enroll`, `ReEnter`, `FallBack` and `Canceled` are the ways a call is
answered without a computation; `MemberReturns` and `RootReturns` the end of an
enrolled body (`db_query_fixpoint_record`, `db_query_provisional_pop`, and for the
root the entry of the drive); `Rerun`, `RerunReturns` and `PassEnds` the inner and
outer loop; `Finalize` one `db_query_succeed` of the last loop, `DriveEnds` the
release of the store. `Ordinary` and `Outside` are the engine's actions.

*Values.* A caller that is not given a value still reads something. For
INFER_BODY it reads the result column, whatever is in it; for FN_SIGNATURE it builds
a signature from the shape, whose row is empty. `Held` says so. Rows are sets of labels: the order of a C row and its tail variable are
left out. The text of a function stands for TOP_LEVEL_ENTRY and the tree behind
it; all signature shapes are one input, because editing a body leaves them
alone. No query of these programs fails, so `Fail` is not an action here, and
the threshold of reclamation is the code's own 8, which these bounds do not
reach: the interplay of reclamation with provisional slots is not covered.

### 3.2 The workspace

*State.* `registered` is `source_by_path`; `evicted` is the flag of `sources`;
`disk` is the file system and `events` the watcher notifications not yet
handled, both external; `opened` records which files an editor has supplied a
text for. The text, the namespace's file list and the tree are result columns of
the engine: `column[Src(f)]`, `column[Set(f)]`, `column[Ast(f)]`.

*Queries.* SOURCE_TEXT (LOW) and FILE_SET (MEDIUM) are inputs; FILE_AST,
NAMESPACE_ITEMS and the TYPE_OF_DECL of an `@import` binding are derived. The
call of `workspace_resolve_import` inside a body is not a query: it returns a
namespace and records nothing on the frame. It appears as a read of `Path(f)` that
only `ResolveImport` answers.

*Actions.* `DidOpen` and `DidChange` are `workspace_did_open` on a new path and
the change of a known one (`did_open` of a known path is the same code:
readmission, then `db_set_source_text`). `WatchEvent` handles one event of
`didChangeWatchedFiles`: `Created` and unknown paths are ignored, `Changed` reads
the file again and evicts it when it cannot be read, `Deleted` evicts.
`ResolveImport` and `CompileResolves` are the two callers of lazy loading, from a
body and from the import closure of `compile_file`. `DiskWrite` is the
environment. Setters are guarded by `req = 0`, as `db_input_changed` asserts;
the lazy load of a new file is the one creation of inputs inside a request.

*Kept because it matters.* Eviction empties the text, the tree and the
membership but leaves the SOURCE_TEXT fingerprint and the FILE_AST slot as they
were; readmission stamps FILE_SET with the current revision and does not bump a
tier; `db_set_source_text` compares hash and length, which is what makes a text that
returns after eviction count as a change.

*Left out.* Paths are canonical and distinct; virtual files, several files in a
namespace, and empty texts are not represented; no cancel.

### 3.3 The language server

*State.* `proto` is `LspState.proto`; `client` the capabilities read by
`initialize`; `synced`, `version`, `hash` and `reconciled` the fields of `Draft`;
`text` is SOURCE_TEXT. The code only ever asks whether a stored revision equals
the current one, so a revision is represented by the sets of things stamped with
it: `checked` (files whose slots are verified at it) and `reconciled` (drafts whose
`last_published_revision` is it); a setter that changes a text empties both.
`buffer`, `sent`, `shown` and `nudged` are the editor's side, `disk` and `events`
the file system's.

*What the compiler says.* A text is a record: whether it parses, its own errors,
what it exports, imports and uses, and the errors its calls provoke in generic
functions of other files (an INFER_INSTANCE diagnostic is anchored in the callee's
file). `Collected` is `db_collect_diags_for_file`: an instance is seen only while its
slot is live, that is, once the provoking file has been checked at this revision.
This is why the order of `compile_file` calls matters to what is published.

*Actions.* One per message. The handlers that call the compiler once per document
are split there (`job`): `DidOpen` and `DidChange` set the text, `Primary` compiles
and publishes the edited file, `RepublishOne` is an iteration of
`republish_all_open`, `ReportOne` one of `handle_workspace_diagnostic`. The loops
take the drafts in any order; the code takes them in the order of `SourceId`, which
depends on which file was loaded first. `Report` covers the full and the
`unchanged` answer of a pull.

*Environment.* The server reads a message when the handler of the last has
returned, so sending and reading are one step, except for `didChange`: packets wait
in a set and any may be read next, since the code provides for disorder. A client
closes a document when its packets have been read, closes its documents before
`shutdown`, pulls only for open documents, and numbers the versions of a document
upwards from 1. `exit` and the end of input end the process and are not actions.
The files exist on disk; several changes may reach the server in one watcher
notification.

*Left out.* Framing, JSON, URIs, malformed messages, `resultId`s as text (a result
identifier is the list it hashes), progress tokens (the same reports in another
envelope), the anchors and versions in a publication.

### 3.4 The front end

*Lexer.* A text is a sequence of characters, one for each class `scan_one` and its
helpers tell apart; each scan is a function from the position where a token begins
to the one where it ends, with the error paths (a broken number, an unclosed
literal, a NUL). `line_starts` is the table positions are computed from.

*Layout.* One action per numbered rule of `layout_stream`. A token is drawn with the
line and column it stands at, so the trivia between tokens is what puts it there;
`frames` and `current` are the frame stack, which is full at `LAYOUT_MAX_FRAMES`.
`opens` is what a reader of the output has open; it is history, used by the
property alone.

*Parser.* The procedures of `src/parser_new` call one another recursively. Each is a
definition of `ParserGrammar` that lists what the C function does to the cursor and to
the builder, in order; `Parser` runs the list. `todo` is the C stack, `locals` the C
locals that live across a call (checkpoints, saved flags, remembered positions). The
stream is drawn as it is looked at, so all continuations of a beginning are
explored and a test that looks ahead decides which token is there. Of the tree only the
number of children and the first child of every open node are kept: that is what
checkpoints are about.

*Trees.* A tree is a function from paths to elements; the offsets are derived from
lengths as `green_node_alloc` does. Lookups are functions of the tree; the preorder
iterator is a machine, because `skip_subtree` may be called between two events.

### 3.5 Types, effects, constants, names

*EffectRows.* One body under inference: `row_subst` are the bindings of row variables,
`body_rows` the row of the body and of each handled action that is being isolated
(`type_action_isolated`), `performed` a history of what was performed and not handled.
The actions are the places of `infer.c` that touch rows: a call with a fresh instance of
the callee's row, a parameter of function type, a higher-order call, a coercion of a
function value (with the fallback for a pure one), begin and end of a handled action, and
the end of the body: the gate that unifies the body's row with a declared one, and the row
that is written for the callers, which is read after the bindings are freed. `verdict` keeps
both. A row keeps repeated labels, as `row_union` does.

*ConstValues and Coercion.* The word of a compile-time integer has `WORD` bits (64 in the
code) and keeps the width rules, signed reading and overflow checks of the folds. The
machine of `Coercion` follows one value: folded with literals, annotated with a type,
passed to a generic function whose type variables are bound on the way; `origin` and
`number` remember what it was. A comptime argument binds its hole and is not coerced; every
other one is coerced. At the end of a generic call the key of the instance is made from the
recorded types, and the instance works its result out in a frame of its own
(`db_query_infer_instance`). That instances are nested too deep, or that one is not
available, is decided elsewhere in the program, so both can happen to any generic call.

*ConstEval.* `eval_expr` as a machine of tasks and results. What the C code keeps in static
variables is kept in `g_eval_cycle`, `g_eval_frames`, `g_eval_branch`, across the goals of a
session; the reference `Meaning` is an interpreter with lexical scope and exact numbers. A
goal stands at the top level or after some statements of a function: there a local is typed
by inference and may be used too early, while a function that is executed has no types. A
bare `.v` is an error unless the other side of the comparison gives it an enum.

*Scopes.* A body is its nodes in preorder. `walk` is the walk of `body_scopes.c`;
`fn_body`, `shape`, `decl_map` and `inferred` are memos of four queries that an edit of
the body, or of the text before it, invalidates in different ways. `CheckNamespace` is a
check of the file, `GotoDefinition` a request of the editor, which finds the query
stack empty. The names in a signature count as references; public declarations and
`main` (`Exempt`) are never reported as unused.

*Inference.* A statement is a record, an expression its type. `infer` follows
`infer_value_position` and what it calls, `check_expr` the checking against a type, which an
`if` and a `switch` hand on to their branches; `block_always_terminates` is the second pass.
The body of a generic function is skipped (`SkipGeneric`) until an instance asks for it;
`Analyse` is the analysis of a body, by INFER_BODY or for an instance.
The reference is `Exits`: the ways control can leave a statement.

*Tables.* One action per operation of the C interface; `contents`, `issued`, `live` and
`answered` are histories of what a caller was told. Hashes are constants, chosen to
collide and to wrap around the end of the table.

## 4. What TLC checks

Passing runs:

| Run | Program | What it shows |
|---|---|---|
| `engine_layered` | two inputs in two tiers, four queries, one of which reads another only for some texts | `AnswersAreFromScratch` (refinement of the oracle) and `LiveSlotIsCurrent` under every order of edits, touches, requests and reclamations |
| `engine_tangled` | `x` and `y` read each other for one of the two texts and fail on a bottom value, `z` fails for it | with a cancel at any step: `TypeOK`, `StackIsSimple`, `RunningIsAccounted`, `NoRunningBetweenRequests`, `InputsAreAuthoritative`, `VerifiedIsFinal`; `MemoIsReplayable`: every memo can be replayed from its recorded dependencies, although a sentinel of a cancelled callee could reach it; and `CallsReturn` |
| `scc_rings` | two functions, each calling at most one: every ring and every tail into a ring, entered anywhere, from an empty memo table, with a cancel at any step | `LiveSlotIsCurrent`: every finished signature and body has the least row; `DriveConverges`: the iteration cap is never what ends a drive |
| `scc_edits` | two functions; edits open and close self-recursion, mutual recursion and a cycle within a cycle | `SccEndsWithItsCall`, `ProvisionalIsRunning` when drives start inside bodies and inside verification walks (what a cancelled drive leaves is swept by the theorem `SccEnds`); `SccCallsReturn` |
| `workspace_sync` | a main file imports a library; the library is opened, edited, written and deleted behind the editor's back, evicted and readmitted, with queries in between | `MembershipIsPresence`, `NoTreeOfAnOlderText`, `NoExportOfAnOlderText`, `PresentFollowsDisk` |
| `lsp_session` | `a` imports `b` and may provoke an error in it; `b` is right, wrong or does not parse, and is also written on disk; a push, a pull and a refreshing client; `didChange` packets in any order | `PublishedIsCurrent`: between messages, a push client shows of every open file that parses exactly what the compiler says, in spite of the three gates (by hash, by revision, by parse error) and although errors provoked in a file are sent by the compilation of another; `NudgeCoversChange`: a refreshing client either has been told to ask again or lacks nothing the file and its imports say; `NoOlderEditWins` |
| `frontend` | texts up to seven characters around each kind of token; token streams of three to five tokens after seventeen beginnings; four shapes of trees with every choice of kinds, lengths and empty nodes | `LexingIsLossless`, `LayoutBalances`, `ParserStaysBalanced`, `OperandBinds`, `TreeWalksAgree`; `ParseEnds`: no loop of the grammar turns without taking a token |
| `middle` | bodies of four calls, coercions and handled actions; values moved three times and passed to generic functions; some 300 programs of constants and functions; six bodies edited twice; statements two deep and switches of up to three patterns; tables of up to 16 slots | `EffectsAccounted`, `ConstantsAreExact`, `CoercionIsSafe`, `FoldsAsMeant`, `NamesResolveLexically`, `TerminationSound`, `SwitchCoverage`, `HashMapIsAMap`, `StrIdsAreNames`, `OffsetsResolve`, `IndexIsIdentity`; `EvalEnds` |

The other runs are expected to fail; each is a place where the code does
something other than what a comment or document of the repository says:

| Run | Counterexample |
|---|---|
| `scc_stale` | `a` calls itself. The last rerun of `FN_SIGNATURE(a)` reads `INFER_BODY(a)` while it is RUNNING, and a provisional read records no dependency; the finalized signature depends on the shape alone. An edit that adds an effect to the body changes `INFER_BODY(a)`, and the signature verifies as unchanged. |
| `workspace_readmit` | The library is evicted. `NAMESPACE_ITEMS` is asked while the namespace is empty: it reads FILE_SET only, so it is MEDIUM, and its value is the empty set. The file is reopened: `db_readmit_source` restores the membership and stamps FILE_SET but bumps no tier, and the setter of the text bumps LOW only. No MEDIUM change has happened since the memo was verified, so the fast path keeps the empty exports of a file that is back. |
| `scopes_stale` | A declaration before `f` is edited, which moves `f` and changes something its body reads. INFER_BODY runs again; the signature shape verifies as unchanged, and it is the shape that refreshes the map from nodes to numbers. Inference looks every node up by a range it no longer has: with assertions on, `span_of` stops the compiler; without, every local is an unknown name. |
| `rows_cyclic` | `g :: fn(f: Fn() <io, ..e>) -> Fn() <..e>` returns `f`. Both rows of the signature end in the same variable; unifying `<io, ..e>` with `<..e>` takes a branch of `row_unify` that has no occurs check, and `e` is bound to `<io, ..e>`. The walks with a hop limit survive it; `ground_unbound_row_vars` has none and does not return if the body of an annotated function performs `..e`. |

Six more disagreements have no run of their own, but an invariant of the modules
states each, and putting it in place of the invariants of a cfg shows it:

- `LiveSlotIsCurrent` in `Engine_layered.cfg` with `CanCancel = TRUE`, the program
  `Chain` of `MCQueryEngine`, `Routed = {}`,
  `MaxRev = 3`: a cancel arrives while `db_engine_verify` walks (`engine_verify.c:76`).
  The pull of a dependency returns at once, its slot is still DONE with the recorded
  fingerprint, and the walk stamps the slot as verified at the current revision. The
  next request takes the stale memo for live. The compute path is protected against
  this (`engine.c:640`), the verify path is not.
- `LiveSlotIsCurrent` in `Engine_layered.cfg` with the program `Shifting` and
  `MaxRev = 4`: `items` is MEDIUM while it
  reads only the file set; an edit makes it read a LOW tree too, with the same result.
  Its reader verifies by fingerprint and stays MEDIUM, and a later LOW edit passes its
  fast path unseen (`engine_verify.c:44`).
- `ClosedFileReadsDisk` in `Lsp_session.cfg`: a document that is edited and closed without
  saving keeps the discarded text (`lsp/db.c:123`), where `lsp/db.h:31` says "reads should
  fall back to disk".
- `EndIsUnreachable` in `Middle.cfg` with `PartsRun = {"infer"}`:
  `block_always_terminates` accepts functions that can run off their end when a `break`
  is labelled or stands in the `else` of a nested loop, when a `break` or `continue`
  stands in no loop, and when a conditional loop breaks and has an `else` that returns
  (`infer.c:430`, `infer.c:2179`); the comment at `infer.c:411` says "false positives
  would silence the safety gate". `TerminationSound` is the same with these jumps excepted
  (`UntrackedJump`).
- `HandledStaysInside` in `Rows_cyclic.cfg`: an action performs an effect twice. `row_union`
  keeps both labels, the handler's row takes one (`infer.c:2777`), and the other is folded
  into the row of the enclosing function, which is then reported for an effect it handles;
  `infer.c:2759` says "a handled effect no longer escapes".
- `FoldsToItsMeaning` in `Middle.cfg` with `PartsRun = {"eval"}` and `Programs <- MCCaptured`:
  with `a :: 1`, `k :: a` and an `f(a)` that returns `k`, the initialiser of `k` is evaluated
  while the frame of `f` is on top (`eval.c:521`). `a` is looked up in the frame first, and
  `f(5)` is 5 where it means 1; `eval.c:208` says that a comptime function sees "ITS own
  params/locals, never the caller's", and a constant has neither. `FoldsAsMeant` is the
  same with such names excepted (`ConstantsKeptApart`).

Four more observations were made about the engine while modelling. The model has these
behaviours (the passing runs keep to programs where the first three do not arise);
they have no run of their own:

- A body that received the bottom value of a cycle succeeds, and its result is
  memoized without a dependency on the re-entered query (`engine.c:605`);
  `docs/architecture.md:284` says "Cycle results are NOT cached."
- `a` calls `b` and then `c`, and both call `a`. The re-entry through `b` enrols
  the frames on the stack; `c` runs later, is not a member, and memoizes a row
  computed from the provisional row of `a` (`engine.c:575`).
- An SCC discovered inside the dependency walk of its root, and closed through
  a declaration whose fingerprint does not change, is never driven: the root is
  answered as cached and `scc_store` stays set (`type.c:1685`). The theorem `SccEnds`
  (section 5) shows that the declaration is needed: with members alone it cannot happen.
- `dep_index` stores row 0 as NULL, so re-reading the first dependency of a
  frame appends it again (`engine.c:90`); and the fast path of a slot computed at
  revision 1 accepts equality where `db.c:401` says it declines. Both are
  harmless.

And four about the workspace; the first two need empty or repeated texts:

- A file that is evicted and comes back with the text it had has the same
  SOURCE_TEXT fingerprint. FILE_AST verifies as unchanged although eviction has
  released its tree, and the file exports nothing until it is edited. The model
  has this behaviour (`NoTreeOfAnOlderText` allows a missing tree for that reason).
- An evicted source has length 0 and keeps its hash, so readmitting a source whose
  text was empty changes nothing and leaves the text NULL.
- An `@import` of a file that does not exist records no dependency, so creating
  the file later does not re-resolve the import; `server.c:1048` says the file is
  loaded on the next `@import`. The model has this behaviour.
- `workspace_resolve_import` of an evicted file that exists again returns the
  empty namespace without readmitting, and the `Created` event of such a file is
  dropped. The model has this behaviour.

And six about the language server, all but the last two present in the model:

- A `Changed` event re-reads the file whether or not the document is open. When an
  editor saves and the user types on before the event arrives, the saved text
  replaces the newer one until the next edit. `NoOlderEditWins` allows it by naming
  the disk.
- In pull mode, a report for `b` made before `a` is checked at this revision lacks
  the errors `a` provokes in `b`, and nothing asks for it again; the nudge has then
  been used up. `NudgeCoversChange` has `Standing` on one side and `Collected` on the
  other for that reason. In push mode the compilation of `a` publishes `b` too.
- Closing a document clears neither its diagnostics nor those it provoked elsewhere,
  and triggers no republication.
- A file that is reopened while it does not parse is not published: the gate of
  `server.c:454` looks at the hash of the former session.
- `handle_text_document_diagnostic` indexes the drafts without a bound
  (`server.c:907`); a file that was only ever imported has none. The clients of the
  model pull for open documents.
- `oredb_did_change` looks its source up by the path of the URI, `oredb_did_open`
  registers the canonical one; through a symbolic link every edit is dropped as
  unknown. Paths are canonical in the model.

And about the front end; the properties state the exceptions:

- A backslash before a line break in a quoted literal hides the break from the line
  table (`lexer.c:404`); the bytes of a byte order mark are in no token.
- A stray `<` after a type swallows the file up to the matching `>` or its end
  (`parse_expr.c:259`); an error after a stray `;` is reported a second time
  (`parser.h:129`); `no_trailing_lambda` is not reset inside `[...]`.
- `syntax_token_next_token` and `prev_token` stop at a node without text (`syntax.h:490`
  does not say so); the preorder iterator takes a node with the root's kind and range for
  the root (`iter.c:213`); a pointer is resolved to the outermost of the nodes with its
  kind and range (`ptr.c:94`).
- `syntax_text_find_char` counts the chunks before its window twice (`text.c:424`); only
  tools call it.

About types, effects and constants:

- After a binding has closed a cycle (`rows_cyclic`) the model lets an annotated body end
  only if grounding its row returns (`GroundReturns`); every other step goes on, and
  `EffectsAccounted` holds of the cyclic bindings too.
- The gate compares rows with their repetitions: a body that performs a declared effect
  twice is reported (`infer.c:4268`). An open declaration absorbs whatever the body
  performs, so `SignatureTellsEffects` bounds closed ones only.
- An argument for a parameter whose type is a bound variable is not compared with the range
  of the bound type, and the elements of pointers are compared by identity, so that a
  parameter `^t` never takes `^u8`, whatever `t` is bound to (`coerce.c:1031`).
- `coerce_structural_ctx` leaves the bindings it made behind when a function type is
  refused half way.
- `FoldsAsMeant` also excepts functions that use a local before its declaration
  (`DeclaredBeforeUse`): inference reports these, but a call of one is executed all the
  same, with the later initialiser.
- The budget counts calls, and arguments that are calls are evaluated again for typing, so
  nested calls cost 2^depth (`eval.c:253`).
- An unsigned constant of 2^63 or more is held as a negative word: it narrows to `i64`,
  mixed comparisons are unsigned, and `9223372036854775808 ..< 9223372036854775808` is
  accepted as covering `i64` (`infer.c:1163`). Folds are checked at 64 bits only, a left
  shift is not checked, and the annotation of a top-level constant is ignored when it is
  evaluated (`eval.c:468`). `int_type_bounds` has no entry for `u64` and `usize`.
- A loop with `break 1` and a bare `break` has a value type; a labelled block that can run
  off its end has the type of its breaks; a nested lambda with a declared result has no
  missing-return check.
- The parameter and result types of a nested lambda are not walked for scopes
  (`body_scopes.c:427`), so names in them have no reference.

About the tables: `hashmap_put`, `pool_intern` and `ip_get` may grow the table when they only
replace or find; `ip_remove` does not protect the reserved indices, and a removed item
counts as used until the table grows; `ip_compact` does nothing; `arena_free` leaves the
generation as it was. None of these is reached by the compiler in a way that matters. A
chunk of the arena has an identity that is never used again; the address of a freed chunk
can be, so that a mark of a freed chunk might be taken for one of a new chunk at the same
address (`arena.c:55`). The model and the proof assume that no caller keeps a mark across a
reset that frees its chunk and a later allocation.

**Bounds.** `MaxRev = 3` or `4` allows two or three changes: enough for a memo
to be computed, invalidated, revalidated and asked again, and for one to become
an orphan with `OrphanThreshold = 1` (the code has 8; the comparison is the
same). Two values per input tell "changed" from "unchanged" and allow a change
and its reversal. `MaxReads = 2` gives bodies with a conditional second read.
The SCC runs need one revision (`scc_rings`: what is computed from an empty
table, the drive and the sweep) or two (`scc_edits`: a memo without a cycle is
walked into one and back). A ring of two functions has four members, so some are
neither the root nor its caller; two labels tell a missing contribution from a
foreign one. The workspace run has `MaxRev = 4`, `MaxEvents = 2` and two texts of
the library: a file can be loaded, deleted, queried and brought back, and a second
disk write can overtake the event of the first. `OrphanThreshold` is the code's 8
there, so no slot is reclaimed; reclamation is the subject of `engine_layered`. Its
`VIEW` leaves out `answer`, which no action reads, `running`, which only matters
to the sweep after a cancel, and `cancel`, which stays FALSE.
`lsp_session` has versions up to 2 for `a` and 3 for `b`: two edits of `b` can overtake
one another while `a` changes between provoking an error and not; `b` is also the
file that is written on disk, any number of times. Two files suffice for an importer
and its import, and each can be open, closed or loaded by the other.
`frontend` draws three to five tokens after each beginning: enough to enter a construct,
break it and reach the end or another construct; `PARSE_FIX_CAP = 3` lets the cap of
recovery be reached, `LAYOUT_MAX_FRAMES = 4` the limit of the frame stack, with three columns.
`middle`: two effects, three row variables (the function's own and two fresh ones), four
operations and chains of `HOPS = 4` let an effect travel through a call and a handler, or two
calls. Two type variables are the holes of the widest signature, and a structure in a
structure in a structure exceeds `LAYOUT_CYCLE_STACK_MAX = 2`. `WORD = 4` has every boundary of 64 bits at
a distance of a few values; half-word types stand for the narrower integers.
`EVAL_CYCLE_DEPTH_MAX = 4`, `EVAL_BRANCH_QUOTA = 5` and `FRAME_CAP = 3` (64, 1000 and 32 in the
code) are each exceeded by one of the programs and met exactly by another. Two edits
take a body away and back, or move it twice. The map grows from 4 to 16 slots over six
keys, two with one hash and two at the end of the table; the string pool likewise; the
arena has chunks of two words and allocations of one and three; the intern pool grows
once and has two keys with one hash.
The state graphs have between a few thousand and two million states. No symmetry is declared:
the programs tell every query apart.

**Fairness.** `CallsReturn` and `SccCallsReturn` assume weak fairness of
`EngineStep` (`SccEngineStep`), the steps of the query thread inside a top-level
call; `ParseEnds` of the steps of the parser, `EvalEnds` of those of the evaluator, which
are each one C call. The C code in question never
blocks, waits or yields, so a call that has started keeps being executed.
Consumers, editors and cancels are not assumed to do anything. Deadlock is
checked in every run but those of `LspServer`, where a session ends with `shutdown`, and
of `MCMiddle`, where a part stops at its bound.

**Mutants.** Every property of a passing run is paired with a variant of a
definition ("Variant:" in the comments of the modules) that a plausible
mistake in the C code would produce, under which TLC finds it violated.

## 5. What is proved

`QueryEngineProofs` proves, for every set of queries, every `Body` operator
that answers with an operation, and every bound:

| Theorem | Statement |
|---|---|
| `TypeCorrect` | `Spec => []TypeOK` |
| `NoReentry` | `Spec => []StackIsSimple` |
| `RunningAccounted` | `Spec => []RunningIsAccounted` |
| `RequestsEndClean` | `Spec => []NoRunningBetweenRequests` |
| `InputsAuthoritative` | `Spec => []InputsAreAuthoritative` |
| `VerifiedFinal` | `Spec => VerifiedIsFinal` |

Assumptions: `ConstantsAssumption` (the kinds are disjoint, the bounds are
numbers) and `BodyAssumption` (a body answers with an operation, and stops
reading after `MaxReads` reads), both in `QueryEngine` and evaluated by TLC.

The argument is one inductive invariant,

    Shell == TypeOK /\ StackIsSimple /\ CallChain /\ RunningIsAccounted
             /\ NoRunningBetweenRequests
    IInv  == Shell /\ InputsAreAuthoritative

`Shell` does not depend on how inputs are set, and `Machinery` shows that every
query step preserves it; `Workspace`, which has other setters, builds on that lemma.

None of the parts is inductive alone. `StackIsSimple` needs
`RunningIsAccounted`: a query is pushed only when its slot is not RUNNING, and
every query on the stack is RUNNING. `RunningIsAccounted` needs
`StackIsSimple`: popping a frame takes exactly one query off the stack, so its
slot may stop being RUNNING. `TypeOK` bounds the number of values a body has
received and needs `CallChain`: a frame that gets a value is one that asked for
it. `CallChain` (each frame but the top awaits the query above it) is used in
the proofs only. `NoRunningBetweenRequests` follows at `RequestEnd` from
`RunningIsAccounted`, since with an empty stack all RUNNING slots are in
`running_slots`. `InputsAreAuthoritative` needs the type of frames: only derived
queries are pushed, so no body writes an input's slot.

The proof is laid out as lemmas about stacks (replacing the top, popping,
pushing, recording a dependency, returning a value), one lemma per action, and
`Inductive`, which combines them.

Of the engine's properties only `CallsReturn` (liveness) is model-checked and not proved.

### Dependency completeness

`QueryEngineCheckProofs` proves that a memo can be replayed from what it recorded:

| Theorem | Statement |
|---|---|
| `MemoInvariance` | `Spec => []MInv` |
| `MemosReplay` | `FailsOnBottom => (Spec => []MemoIsReplayable)` |
| `NoFalseCycle` | `Acyclic => (Spec => [][\A q \in Queries : ~ BeginCycle(q)]_vars)` |

`MemoInvariance` needs no more than the engine's assumptions. In `MInv`, `MemosTold` says
of every DONE memo that there is a sequence of values for which its body returns the
memoized value, each of them recorded in its dependency list or the `Bottom` of a derived
query (`Told`), that column and fingerprint are equal, and that the list says one thing of
each query (`OneFp`; `record_dep_on_parent` may enter the first dependency twice).
Such an unrecorded `Bottom` is the sentinel of a cycle or of a
failure: `db_query_fail` and the cycle path of `db_query_begin` record nothing on the
caller. A body that swallows one and succeeds has a memo that does not follow from its
dependencies alone, so `MemoIsReplayable` is a theorem about bodies that fail when they
are handed one (`FailsOnBottom`, in `QueryEngineCheck`); TLC evaluates that hypothesis on
the program of `engine_tangled`, the run that checks the property with cycles, failures
and cancels.

    MInv == IInv /\ MemosTold /\ FramesTold(stack, column, fp, Settled, cancel)

`FramesTold` is what makes it inductive. A body in progress has recorded the
fingerprints of now, of queries that are answered at once for the rest of the request
(`Settled`); so a second read of a query cannot give a second value, and refreshing its
entry in place changes nothing. What it has read is recorded, unless a cancel was
requested: then `db_query_succeed` will not memoize it. A walk holds the entries of its
memo, except for the one it has just pulled, which the callee has refreshed under it:
`Restored` puts `want`, the fingerprint saved before the pull, back in its place, and
`Refreshed` says that nothing else happened to it. When the comparison succeeds the two
are the same and the walk goes on with the memo's own entries; when it fails the list is
emptied and the body starts over. That the walk compares with the saved fingerprint, and
not with the list, is therefore what the theorem rests on. The last step, that `ReadsOf` yields the
values of the story, uses the induction of `Induction`.

`MayFail` names the queries whose sentinel a body can be handed: every derived query in
general, and only those whose bodies fail when the program is acyclic, because then
`db_query_begin` never meets a RUNNING slot (`NoFalseCycle`): each frame awaits the one
above it, so the ranks fall along the stack, and every RUNNING slot that is asked for is
on it. That is not obvious from the code: a walk pulls the dependencies a body had in an
*older* revision, in the old order, and what it pulls may no longer be read by the
body. The lemma `CalleeReadable` has it that every entry of a list was read by a run of the same body.

### Answers are from scratch

The second half of `QueryEngineCheckProofs` proves the point of the whole engine:

| Theorem | Statement |
|---|---|
| `LiveCurrent` | `Steady => (Spec => []LiveSlotIsCurrent)` |
| `EngineImplementsOracle` | `Steady /\ MayFail = {} => (Spec => AnswersAreFromScratch)` |

`Steady` is about the program of queries and has five parts, each needed; TLC evaluates it
on the program of `engine_layered` (`LayeredIsSteady` in `MCQueryEngine`), the run that
checks both properties with edits in all tiers, reclamation and pinned requests.

| Hypothesis | Without it |
|---|---|
| `~ CanCancel` | a cancelled walk stamps a stale memo (`engine_verify.c:76`, section 4) |
| `Acyclic` | the sentinel of a cycle depends on which query was asked first; FIXPOINT kinds are `SccFixpoint`'s subject |
| `FailsOnBottom` | a body that swallows a failure has a memo that no dependency invalidates |
| `Tiered`: what a query reads cannot lower its durability tier from one revision to the next | the program `Shifting` of section 4: a reader keeps MEDIUM over a dependency that has become LOW (`engine_verify.c:44`) |
| `ProfiledReadInputs` | a request pinned at revision 1 takes every memo for live, and would build a query on stale ones |

The refinement asks besides that no body fails: a query that fails has no memo and is
answered by its sentinel, which the oracle's values do not contain.

    Setting    == MInv /\ ~ cancel /\ InputsKept /\ PinnedIsProfiled
    CInv(tier) == Setting /\ ValuesGood(Now, tier)

`Now` is the evaluation of the current inputs from scratch. It is reached in rounds
(`FromScratch`), and the first lemmas show that as many rounds as there are derived
queries end in a solution of the equations "each query is its body's result" (`ScratchSolves`, by induction over
the ranks) and that there is one solution (`SolutionsAgree`). `ValuesGood` says that

- a DONE memo has a tier no higher than its query's, and if no change of that tier
  happened since it was verified its fingerprint is `Now`'s (`MemosGood`). A memo that fails
  this test says nothing by itself: it is only as good as the replay of `MInv`;
- a body in progress has read current values, of queries whose tier is no lower than the
  tier it has accumulated (`Good`, `Covered`): this bounds the tier of the memo it will write;
- a walk has compared the entries behind it with the current fingerprints (`Passed`),
  and what it has just pulled is current unless it failed (`PullGood`).

An edit moves the clock of its tier and of the tiers below; `ChangeGood` shows that a memo
that still counts as verified cannot have read the edited input, through others or not.
The end of a walk makes the memo's story (from `MInv`) one whose entries are all current,
so its value is the solution's (`WalkEndGood`, `ToldIsCurrent`); a body that returns is
the same argument for its frame. `OracleStep` then maps each step: an edit is the
oracle's, the return of a top-level call is the oracle's answer, and all else stutters.

### The fixpoint

`SccFixpointProofs` proves, for every call graph, every sequence of edits and a cancel
at any step:

| Theorem | Statement |
|---|---|
| `SccInvariance` | `OnlyMembersRead => (SccSpec => []XInv)` |
| `SccTypeCorrect` | `OnlyMembersRead => (SccSpec => []SccTypeOK)` |
| `ProvisionalAreRunning` | `OnlyMembersRead => (SccSpec => []ProvisionalIsRunning)` |
| `SccEnds` | `OnlyMembersRead => (SccSpec => []SccEndsWithItsCall)` |

The hypothesis says that what reads a query of a FIXPOINT kind is of such a kind. It holds
by construction of the programs of `EffectQueries`, whose derived queries are all
FN_SIGNATURE and INFER_BODY, and `infer.c:765` routes references to functions past
TYPE_OF_DECL to keep the cycles to these two. It is not true of the whole
program: TYPE_OF_DECL of a function (`type.c:1757`) and the function values of `eval.c:542` read
FN_SIGNATURE from outside, and section 4 tells of a cycle through a declaration
that is never driven. The theorems are about everything short of that. They say nothing of the rows: `DriveConverges`, and `LiveSlotIsCurrent`
for FIXPOINT kinds, rest on the bodies being monotone and stay with TLC.

    XInv == TypeOK /\ prov \subseteq Fixpoint /\ SccRecord(scc)
            /\ Scene(stack, running, prov, scc) /\ RunOK(state, stack, running, cancel, prov)
            /\ Rest(req, state, stack, scc) /\ DepsOK(deps) /\ InputsAreAuthoritative

The engine's `Shell` does not hold here: a member whose body has returned is RUNNING with no
frame and no cancel. `RunOK` replaces it by three reasons for a slot to be RUNNING: a frame on the
stack, the provisional bit, or a body that bailed out under a cancel and waits in
`running_slots`. `Scene` says where the drive stands:

- while members are collected (`Collecting`), the root is still on the stack and no frame
  below it is a member. The SCC therefore cannot outlive the root's frame, and it is
  not left behind when that frame returns, provided that the frame reaches the wrapper's
  compute path. A body does. A walk would end with the slot restored, and this is where
  the hypothesis enters: an enrolled walk waits for another *member* (`FrameOK`: it has
  pulled, and what it pulled is provisional), so the pull comes back without a
  liveness, the walk gives up, and the body runs;
- during the reruns (`Rerunning`), the frames up to `base` hold no member, so that
  the rerun of a member never meets a frame of a caller outside, and the frame just above
  `base` is the body of the member at hand;
- during finalization (`Finalizing`), only the members from the `i`-th on can be
  provisional: each `db_query_succeed` clears its bit, cancelled or not.

`DepsOK` carries the hypothesis over to the recorded lists, which a walk follows instead of the
body and which may be those of an older revision; `Rest` is the claim between two requests.

### The language server

`LspServerProofs` proves, for every set of documents, texts and bounds:

| Theorem | Statement |
|---|---|
| `NewestEditWins` | `Spec => []NoOlderEditWins` |
| `LspTypeCorrect` | `Spec => []TypeOK` |
| `PublishedCurrent` | `Spec => []PublishedIsCurrent` |
| `NudgeCovers` | `Spec => []NudgeCoversChange` |

from `LspAssumption` (texts are records over `Files`, every file has a text). The
invariant of the first is

    EInv == Types /\ Drafts /\ Flight /\ Newest

`NoOlderEditWins` speaks of the moment when nothing is underway and says nothing of
how it got there. `Flight` adds that a packet carries a version no greater than
`sent`, and the text of the buffer when it is equal; `Newest` that the editor's
newest version is either still in a packet or is the one applied, in which case
the text is the buffer's or the disk's (or a watcher event is pending, which will
put the disk's there); `Drafts` ties `synced` to open buffers. A stale packet is
dropped because a later version has been applied, and then the newest one is not
lost with it. `TInv` adds `TypeOK` itself and `JobSource` (a handler that is about to compile has a
file) for the type invariant; of `Closure` it only needs that it is a set of files.

`PublishedCurrent` and `NudgeCovers` rest on one invariant `ShowInv`, with a part for
each kind of client. Both need that `checked` is closed under imports (`ClosedIn`):
`compile_file` adds whole closures, and a changed text empties it.
In push mode (`PushInv`) the remembered hash is the one of
what is shown, and a draft that is reconciled at this revision, or that the loop of
`republish_all_open` has passed, is `Settled`: shown as `Collected` finds it, unless it
does not parse. The one exception is the source of a handler that has not compiled yet.
A text that changes leaves nothing checked and nothing reconciled. A compile adds files
to `checked` and so may add to what is found in a settled draft: when the draft is in the
closure of the compiled file, `publish_grouped` publishes it too, or skips it because the
client has that very list, or because nothing is said of it now and so nothing was
before; when it is outside, nothing new is said of it (`AllOfOutside`). This is where
`Reach`, the least closed set that holds a file, and its transitivity are used; no import
graph is excluded. A write to the disk is not seen by the checked files, which are loaded
with all that they import. In pull mode (`PullInv`) the
client that has not been told to ask again has a report of every draft but those still
to be reported that contains what the draft itself says and nothing that is not found.

### The workspace

`WorkspaceProofs` proves, for every set of files and texts, every import relation with
one import per file, and every bound:

| Theorem | Statement |
|---|---|
| `MembershipPresence` | `WSpec => []MembershipIsPresence` |
| `FollowsTheDisk` | `WSpec => []PresentFollowsDisk` |
| `NoOldTree` | `WSpec => []NoTreeOfAnOlderText` |
| `NoOldExport` | `WSpec => []NoExportOfAnOlderText` |

from `WorkspaceAssumption` and `QueriesAssumption` (every file has its text, its file
set and its tree among the queries, the derived queries are of the three kinds and
their bodies are `WorkspaceBody`, values are told apart) besides the engine's
assumptions. The invariant has two layers.

    Base == Shell /\ Ledger /\ InputsHeld /\ CallsKnown /\ FollowsDisk
    WInv == Base /\ Memos /\ PulledIsLive /\ FramesOK(...)

`Base` is about inputs: a file with a row has a text and a file set whose slots are
DONE, and both agree with `sources.evicted`. It has to exclude that a query step
writes an input, and the engine would do so for an input without a row: its slot is
EMPTY and computing it runs like a derived query. `CallsKnown` says that no memo, no
recorded dependency and no frame mentions such a file. `Base` gives the first two
theorems; `FollowsDisk` counts the events underway.

`WInv` says what every memo knows. A memo is *fresh* when nothing of `DUR_LOW` changed
since it was verified; the fingerprints a fresh memo recorded are those of now, and its
column follows from them. A memo that is not fresh still has a column that follows from
what it recorded, which is what makes the dependency walk worth something: while a
query is verified its frame carries that the dependencies before `i` have been compared
with the fingerprints of now, that the one at `i`, if pulled, is live and recorded anew,
and that `want` is the value recorded before the pull (`WalkOK`, `PulledIsLive`); a
query that is computed carries that what it read is what the inputs are now (`BodyOK`).
The durability fast path is sound for these queries because a memo that tells anything
of a text has `DUR_LOW`; an empty list of exports may be `DUR_MEDIUM`, and may survive
a readmission, which is the violation `workspace_readmit` shows and why
`NoExportOfAnOlderText` is stated as an inclusion. Eviction frees a tree without
touching its slot: `Memos` allows the column `Bottom` beside any fingerprint.

### The front end

`FrontendProofs` proves `LayoutCorrect`, `LayoutSpec => []LayoutBalances`, for every
token stream, every number of columns and every limit of the frame stack. The invariant
`LInv` says that the frames above the root are, one for one, the braces that stand open
in the output (`Mirrors`), that `prev_kind` is the last token put out, and that at the
end nothing stands open. The braces are computed by a recursive function over the run of
tokens a step emits (`NestedAll`), whose equations have to be earned: `Induction` proves
that every non-empty set of naturals has a least element, from it induction in terms of
sets, and from that the existence of a function defined by recursion on the position.
The rules of the pass that emit a run (closing all blocks down to a column or to a
brace, the end of the file) are then followed token by token.

The same module proves `LexerCorrect`, `LexerSpec => []LexingIsLossless`, for every text
(`TextsAssumption`: a text is a sequence of characters). The invariant `LexInv` adds to the property
that every token ends at or before the cursor. What there is to show is about `scan_one`
(`ScanOneOK`): wherever it begins within the text, it ends further on and within the text; a scan
that is not over several lines and not of a quoted literal takes no line break
(`Clean`), and one over several lines does not end between the two characters of a CRLF
(`Sealed`), which would record a line that starts beyond the cursor. Quoted literals and block
comments are loops; their equations come from `SolutionExists` in `Induction`, which gives
a solution to any recursion that descends in a rank (here, the distance to the end),
and what they return is shown by induction from the end of the text backwards. An escape may
end at the end of the text and not beyond it (`EscapeInside`); the mutant of
this property drops that case.

### The tables

`TableProofs` proves, for every set of keys and strings, every hash, every size and every
bound:

| Theorem | Statement |
|---|---|
| `MapCorrect` | `MapSpec => []HashMapIsAMap` |
| `PoolCorrect` | `PoolSpec => []StrIdsAreNames` |
| `ArenaCorrect` | `ArenaSpec => []OffsetsResolve` |
| `InternCorrect` | `InternSpec => []IndexIsIdentity` |

from `HashMapAssumption`, `StringPoolAssumption`, `ArenaAssumption` and `InternAssumption`. Each specification is
the table's own next-state relation, the one `MCMiddle` runs as a part.

*The hash map.* `MapInv` says that the table is `Sound` (no key is stored twice, and every
slot on the way from the slot a key hashes to up to its entry is occupied), that its entries are
those of `contents` (`Matches`), and that there are fewer entries than slots, without which no probe
for an absent key would end; this is where the load of 70% comes in. A probe in a
sound table stops at the entry or at a free slot that shows there is none
(`ProbeStops`, `ProbeFinds`). A growth is followed slot by slot (`RehashRuns`,
`RehashedSound`). A removal is the hard part: while the walk of the
backward shift is underway, the table is not sound, and what is missing on the way to an
entry is at most the hole, for the entries the walk has not passed (`WalkPasses`,
`WalkMoves`). The condition `should_move` says in two cases that the hole lies on the arc from the natural slot to the
entry (`ShouldMove`, `InArc`); when the walk comes to a free slot, every arc through the hole
would also go through that slot, so there is none (`WalkEnds`).

*The string pool.* The same shape, with offsets in the slots and their strings in the
buffer: `SoundOffsets` and `HoldsAll` (every block but the first has its slot), that blocks
end where the next begins or before, and that what was issued is in the buffer.

*The arena.* `ArenaInv` says that the second part of a chunk's identity is its place in
the chain and the first the generation it was made in; that `total_prev` is the sum of the words used before the current chunk;
that the cache holds a chunk of the chain with its base; that a live allocation lies in the used words of its chunk at
its offset; that a mark of this generation has its chunk, and that no chunk made later has the identity of a mark that lost its own (`MarkOK`). Bases are
sums along the chain (`BaseSteps`), so that one chunk at most holds a word
(`OneHolder`): the cached chunk and the walk agree. Both resets cut the chain and refill its last chunk, which
moves no base up to that chunk (`BasePrefix`, `ResetKeepsInv`).

*The intern pool.* `InternInv` has three parts. `SoundItems`: the items that are not removed
decode to different keys, all of them keys with the absent row written as the empty row.
`SoundBuckets`: each of these items has one bucket, with its key's hash, and no slot on the
way to it is free; the other buckets are of removed items, which keep them until the table
grows; `used` is the number of used slots and less than `count`, so that every probe ends.
`AnswersHold`: an index that was answered is that of an item with its key. The bucket table alone is not
inductive: that a probe which finds nothing may append the key needs that every item with the
key has a bucket on the way (`SoundBuckets`), and that a grown table holds the same items
needs that rebucketing hashes what the item decodes to (`SoundItems`). A removal keeps a
slot used, so ways stay closed; clearing builds the reserved items again in the table of the
size it has. `InternAssumption` asks for more than one bucket (the code asserts sixteen), for
hashes that are numbers, and for keys that have the fields of their kind.

## 6. Not modelled

The remaining parts are listed with their reasons in `PROJECT.json`. Not worth a
model: typed AST views and getters (accessors without state), the driver
(arguments and printing), the build-target table, the rendering of hover and
completion texts, the tools and their workloads. Too large to be worth transcribing as a
whole: the resolution of written types in `type.c`, and of `infer.c` field access,
indexing, construction of values and builtins, which are tables of
cases over the types; of an instance of a generic function only its key and its result type
are modelled. Left out although they have state: the reference counts of green nodes and the node
cache, the mutable trees (only the tools edit trees), free lists and DEF_IDENTITY,
compaction of the per-definition heaps, the diagnostic bundles of slots.

With TLC only: the liveness properties; the values of the fixpoint (`DriveConverges`); what the recursive definitions of `ConstValues`,
`Coercion`, `ConstEval`, `Scopes` and `Inference` compute (they use RECURSIVE operators,
which the prover does not support; `Induction` serves recursive functions over positions).

## 7. Plan

Theorems worth proving next:

- `Parser`: `FramesNest` with the discipline of checkpoints
  (a checkpoint in `locals` is no less than the first child of the frame it was taken in).
- `EffectRows`: `NoEffectIsLost`, for every set of labels.
