----------------------------- MODULE Workspace -----------------------------
(***************************************************************************)
(* The input side of the database: sources and their texts, the one-file   *)
(* namespaces that own them, eviction and readmission, the watcher events  *)
(* that follow the disk, and the lazy loading of an @import.  The queries  *)
(* that read them (FILE_AST, NAMESPACE_ITEMS and the type of an import     *)
(* binding) run on QueryEngine.                                            *)
(*                                                                         *)
(* A path is the file it names (canonicalize_path is the identity on the   *)
(* canonical paths used here).  A text is a record whose names are its     *)
(* top-level declarations; equal texts have equal hashes and lengths.      *)
(***************************************************************************)
EXTENDS QueryEngine, SequencesExt

CONSTANTS
    Files,       \* the paths of the workspace
    Texts,       \* file contents, each with a field "names"; none is empty
    TextsOf,     \* the contents each file takes, Bottom for no file
    ImportOf,    \* the file each importing file names in its @import
    MaxEvents    \* bound: watcher events not yet delivered

ASSUME WorkspaceAssumption ==
    /\ DOMAIN ImportOf \subseteq Files
    /\ ImportOf \in [DOMAIN ImportOf -> Files]
    /\ Bottom \notin Texts /\ Texts \subseteq Values
    /\ TextsOf \in [Files -> SUBSET (Texts \cup {Bottom})]
    /\ MaxEvents \in Nat

VARIABLES
    registered,  \* source_by_path: the files that have a row
    evicted,     \* sources.evicted
    disk,        \* the content of each path, Bottom when there is no file
    events,      \* didChangeWatchedFiles, in the order the client sends them
    opened       \* the files an editor has supplied a text for

workspaceVars == <<registered, evicted, disk, events, opened>>
wVars == <<vars, workspaceVars>>

-----------------------------------------------------------------------------
(* Queries and their bodies. *)

Src(f)   == <<"SOURCE_TEXT", f>>
Set(f)   == <<"FILE_SET", f>>
Ast(f)   == <<"FILE_AST", f>>
Items(f) == <<"NAMESPACE_ITEMS", f>>
Imp(f)   == <<"TYPE_OF_DECL", f>>

\* Not a query: the call of workspace_resolve_import inside a body.
Path(f)  == <<"path", f>>
Paths    == {Path(f) : f \in Files}

Tree(t)    == [tree |-> t]
Members(s) == [files |-> s]
Exports(n) == [items |-> n]
Nspace(f)  == [ns |-> f]

Read(d)   == [op |-> "read", q |-> d, val |-> Bottom]
Return(v) == [op |-> "return", q |-> None, val |-> v]

\* db_query_file_ast: a NULL text has no tree.
FileAst(f, vs) ==
    IF Len(vs) = 0 THEN Read(Src(f))
    ELSE Return(IF vs[1] \in Texts THEN Tree(vs[1]) ELSE Bottom)

TextsBehind(v) == {t \in Texts : v = Tree(t)}

\* db_query_namespace_items: the file set, then the tree of its member.
NamespaceItems(f, vs) ==
    IF Len(vs) = 0 THEN Read(Set(f))
    ELSE IF Len(vs) = 1 /\ vs[1] # Members(<<>>) THEN Read(Ast(f))
    ELSE Return(Exports(UNION {t.names : t \in TextsBehind(vs[Len(vs)])}))

\* builtin_import and the uses of the members: the importer's tree, the
\* resolution of the path, the items of the namespace found.
ImportBinding(f, vs) ==
    CASE Len(vs) = 0 -> Read(Ast(f))
      [] Len(vs) = 1 -> IF vs[1] = Bottom THEN Return(Bottom)
                        ELSE Read(Path(ImportOf[f]))
      [] Len(vs) = 2 -> IF vs[2] = Bottom THEN Return(Bottom)
                        ELSE Read(Items(ImportOf[f]))
      [] Len(vs) > 2 -> Return(vs[3])

WorkspaceBody(q, vs) ==
    CASE q[1] = "FILE_AST" -> FileAst(q[2], vs)
      [] q[1] = "NAMESPACE_ITEMS" -> NamespaceItems(q[2], vs)
      [] q[1] = "TYPE_OF_DECL" -> ImportBinding(q[2], vs)

\* What is asked of the engine's constants: a text, a file set and a tree for
\* every file, derived queries of the three kinds with the bodies above, and a
\* sentinel that is not a value.
ASSUME QueriesAssumption ==
    /\ {Src(f) : f \in Files} \cup {Set(f) : f \in Files} \subseteq Inputs
    /\ Inputs \subseteq
         {Src(f) : f \in Files} \cup {Set(f) : f \in Files} \cup Paths
    /\ {Ast(f) : f \in Files} \subseteq Derived
    /\ Derived \subseteq {Ast(f) : f \in Files} \cup {Items(f) : f \in Files}
                           \cup {Imp(f) : f \in DOMAIN ImportOf}
    /\ Bottom \notin Values
    /\ {Tree(t) : t \in Texts} \subseteq Values
    /\ {Members(<<>>)} \cup {Members(<<f>>) : f \in Files} \subseteq Values
    /\ {Nspace(ImportOf[f]) : f \in DOMAIN ImportOf} \subseteq Values
    /\ \A q \in Derived :
         \A n \in 0 .. MaxReads : \A vs \in [1 .. n -> Results] :
            Body(q, vs) = WorkspaceBody(q, vs)

-----------------------------------------------------------------------------
(* The input setters.  Each takes the functions it updates. *)

MembersOf(f) == column[Set(f)].files

\* A new row: create_source_row, db_create_namespace and file_set_add.
Created(f, t, setRev) ==
    /\ registered' = registered \cup {f}
    /\ column' = [column EXCEPT ![Src(f)] = t, ![Set(f)] = Members(<<f>>)]
    /\ fp' = [fp EXCEPT ![Src(f)] = t, ![Set(f)] = Members(<<f>>)]
    /\ state' = [state EXCEPT ![Src(f)] = "DONE", ![Set(f)] = "DONE"]
    /\ vrev' = [vrev EXCEPT ![Src(f)] = cur, ![Set(f)] = setRev]
    /\ dur' = [dur EXCEPT ![Src(f)] = DUR_LOW, ![Set(f)] = DUR_MEDIUM]

\* Variant: a source that was evicted does not rejoin its namespace.
ReadmittedNot(f) == column[Set(f)]

\* db_readmit_source: file_set_add, unless the source is not evicted.
Readmitted(f) ==
    IF f \in evicted THEN Members(Append(MembersOf(f), f)) ELSE column[Set(f)]

\* Variant: the lengths are not compared.
SameTextByHash(f, t) == t = fp[Src(f)]

\* db_set_source_text compares the hash and the length; an evicted source has
\* length 0, so no text (none is empty) equals what is stored.
SameText(f, t) == t = fp[Src(f)] /\ column[Src(f)] # Bottom

\* Variant: the revision is not bumped.
TextChangedSilently == UNCHANGED <<cur, lastChanged>> /\ req = 0

TextChanged == Changed(DUR_LOW)

\* db_readmit_source at the current revision, then db_set_source_text.
ApplyText(f, t) ==
    /\ evicted' = evicted \ {f}
    /\ IF SameText(f, t)
       THEN /\ req = 0
            /\ column' = [column EXCEPT ![Set(f)] = Readmitted(f)]
            /\ fp' = [fp EXCEPT ![Set(f)] = Readmitted(f)]
            /\ UNCHANGED <<vrev, cur, lastChanged>>
       ELSE /\ TextChanged
            /\ column' = [column EXCEPT ![Src(f)] = t,
                                        ![Set(f)] = Readmitted(f)]
            /\ fp' = [fp EXCEPT ![Src(f)] = t, ![Set(f)] = Readmitted(f)]
            /\ vrev' = [vrev EXCEPT
                           ![Src(f)] = cur',
                           ![Set(f)] = IF f \in evicted THEN cur ELSE @]
    /\ UNCHANGED <<state, dur, deps, stack, req, cancel, running, registered>>

\* Variant: the tree is not released.
WithoutFileKeepingTree(f) ==
    [column EXCEPT ![Src(f)] = Bottom,
                   ![Set(f)] = Members(RemoveFirst(MembersOf(f), f))]

\* The rows that eviction clears: the text, the tree and the membership.  The
\* fingerprint of SOURCE_TEXT and the slot of FILE_AST stay.
WithoutFile(f) ==
    [column EXCEPT ![Src(f)] = Bottom, ![Ast(f)] = Bottom,
                   ![Set(f)] = Members(RemoveFirst(MembersOf(f), f))]

\* workspace_did_evict_source
Evict(f) ==
    /\ evicted' = evicted \cup {f}
    /\ column' = WithoutFile(f)
    /\ fp' = [fp EXCEPT ![Set(f)] = WithoutFile(f)[Set(f)]]
    /\ vrev' = [vrev EXCEPT ![Set(f)] = cur]
    /\ Changed(DUR_MEDIUM)
    /\ UNCHANGED <<state, dur, deps, stack, req, cancel, running, registered>>

-----------------------------------------------------------------------------
(* The editor and the watcher.  The server handles one message at a time,    *)
(* outside any request.                                                      *)

\* workspace_did_open of a path without a row.
DidOpen(f, t) ==
    /\ f \notin registered
    /\ Changed(DUR_MEDIUM)
    /\ Created(f, t, cur + 1)
    /\ opened' = opened \cup {f}
    /\ answer' = NoAnswer
    /\ UNCHANGED <<deps, stack, req, cancel, running, evicted, disk, events>>

\* workspace_did_open of a path with a row, and workspace_did_change.
DidChange(f, t) ==
    /\ f \in registered
    /\ ApplyText(f, t)
    /\ opened' = opened \cup {f}
    /\ answer' = NoAnswer
    /\ UNCHANGED <<disk, events>>

\* Another program writes or deletes the file; the client will say so.
DiskWrite(f, t) ==
    /\ Len(events) < MaxEvents
    /\ t # disk[f]
    /\ disk' = [disk EXCEPT ![f] = t]
    /\ events' = Append(events,
                        [file |-> f,
                         type |-> IF t = Bottom THEN "deleted"
                                  ELSE IF disk[f] = Bottom THEN "created"
                                  ELSE "changed"])
    /\ UNCHANGED <<vars, registered, evicted, opened>>

Ignored == UNCHANGED <<slotVars, stack, revVars, cancel, running, registered,
                       evicted>>

\* workspace_did_change_external, and eviction when the file cannot be read.
ReSlurp(f) == IF disk[f] = Bottom THEN Evict(f) ELSE ApplyText(f, disk[f])

\* One event of handle_did_change_watched_files.
WatchEvent ==
    /\ events # <<>>
    /\ req = 0
    /\ LET e == Head(events)
       IN  IF e.file \notin registered \/ e.type = "created" THEN Ignored
           ELSE IF e.type = "changed" THEN ReSlurp(e.file)
           ELSE Evict(e.file)
    /\ events' = Tail(events)
    /\ answer' = NoAnswer
    /\ UNCHANGED <<disk, opened>>

-----------------------------------------------------------------------------
(* workspace_resolve_import *)

\* The importer has a file, and the target exists on disk.
Resolvable(f) == MembersOf(f) # <<>> /\ disk[ImportOf[f]] # Bottom

\* The target's namespace, loading the file the first time.  Nothing is
\* recorded on the caller, and no revision is bumped.
Resolve(f) ==
    /\ IF Resolvable(f) /\ ImportOf[f] \notin registered
       THEN Created(ImportOf[f], disk[ImportOf[f]], cur)
       ELSE UNCHANGED <<registered, column, fp, state, vrev, dur>>
    /\ UNCHANGED <<deps, revVars, cancel, running, answer, evicted, disk,
                   events, opened>>

ResolveImport(f) ==
    /\ BodyCalls(Path(ImportOf[f]))
    /\ Top(stack).q = Imp(f)
    /\ stack' = ReturnTo(stack, IF Resolvable(f) THEN Nspace(ImportOf[f])
                                ELSE Bottom)
    /\ Resolve(f)

\* compile_file walks the import closure between two queries: the imports are
\* those of the file's live tree.
CompileResolves(f) ==
    /\ stack = <<>>
    /\ req = cur
    /\ f \in registered
    /\ state[Ast(f)] = "DONE" /\ vrev[Ast(f)] = cur
    /\ column[Ast(f)] # Bottom
    /\ Resolve(f)
    /\ UNCHANGED stack

-----------------------------------------------------------------------------
WInit ==
    /\ state = [q \in Queries |-> IF q \in Derived /\ q \in Routed THEN "ABSENT"
                                  ELSE "EMPTY"]
    /\ column = [q \in Queries |-> Bottom]
    /\ fp = [q \in Queries |-> None]
    /\ vrev = [q \in Queries |-> 0]
    /\ dur = [q \in Queries |-> DUR_LOW]
    /\ deps = [q \in Queries |-> <<>>]
    /\ stack = <<>>
    /\ cur = 1
    /\ req = 0
    /\ cancel = FALSE
    /\ lastChanged = [t \in Tiers |-> 1]
    /\ running = {}
    /\ answer = NoAnswer
    /\ registered = {}
    /\ evicted = {}
    /\ disk \in [Files -> Texts \cup {Bottom}]
    /\ \A f \in Files : disk[f] \in TextsOf[f]
    /\ events = <<>>
    /\ opened = {}

\* A consumer asks about files that have a row.
Query ==
    /\ \/ \E q \in Queries \ Paths :
            /\ stack = <<>> => q[2] \in registered
            /\ BeginEmpty(q) \/ BeginHit(q) \/ BeginWalk(q)
       \/ WalkNext \/ WalkFail \/ WalkEnd \/ Succeed
    /\ UNCHANGED workspaceVars

WNext ==
    \/ Query
    \/ RequestBegin(cur) /\ UNCHANGED workspaceVars
    \/ RequestEnd /\ UNCHANGED workspaceVars
    \/ \E f \in DOMAIN ImportOf : ResolveImport(f) \/ CompileResolves(f)
    \/ \E f \in Files : \E t \in TextsOf[f] \ {Bottom} :
         DidOpen(f, t) \/ DidChange(f, t)
    \/ \E f \in Files : \E t \in TextsOf[f] : DiskWrite(f, t)
    \/ WatchEvent

WSpec == WInit /\ [][WNext]_wVars

-----------------------------------------------------------------------------
Present == registered \ evicted
Live(q) == state[q] = "DONE" /\ vrev[q] = cur

\* A file with a row is a member of its namespace exactly once while it is
\* present and not at all while it is evicted, and the FILE_SET fingerprint
\* says so, through any sequence of evictions (repeated ones too), reopenings
\* and watcher events.
MembershipIsPresence ==
    \A f \in registered :
        /\ MembersOf(f) = IF f \in evicted THEN <<>> ELSE <<f>>
        /\ fp[Set(f)] = column[Set(f)]

\* file_ast_read of a live slot is the tree of the text the source has now or
\* NULL: no query is answered from the tree of an older text, nor from a tree
\* after the text is gone.
NoTreeOfAnOlderText ==
    \A f \in registered :
        Live(Ast(f)) => column[Ast(f)] \in {Bottom, Tree(column[Src(f)])}

\* What an importer sees of a file, when it sees anything, are names the file
\* declares now: no export of an older text, none of an evicted file.
NoExportOfAnOlderText ==
    \A f \in DOMAIN ImportOf :
        /\ Imp(f) \in Derived /\ Live(Imp(f)) /\ column[Imp(f)] # Bottom
        => column[Imp(f)].items \subseteq
             IF ImportOf[f] \in Present THEN column[Src(ImportOf[f])].names
             ELSE {}

\* workspace.c: "disk reads populate a memoized view of an immutable external
\* truth".  A file that is present and was never edited has the text of the disk
\* once its watcher events are delivered, however writes, deletions, lazy loads
\* and deliveries interleave.
PresentFollowsDisk ==
    \A f \in Present \ opened :
        (\A k \in DOMAIN events : events[k].file # f)
            => column[Src(f)] = disk[f]

\* file.c, db_readmit_source: "downstream queries re-verify and see the restored
\* membership": the live items of a present file are the names of its text.
ReadmittedFileExports ==
    \A f \in Present :
        Items(f) \in Derived /\ Live(Items(f))
            => column[Items(f)] = Exports(column[Src(f)].names)
=============================================================================
