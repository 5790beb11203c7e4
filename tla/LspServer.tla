----------------------------- MODULE LspServer -----------------------------
(***************************************************************************)
(* The language server between an editor and the compiler: the protocol    *)
(* states, the drafts of open documents, and the publication of            *)
(* diagnostics, pushed by the server or pulled by the client.              *)
(*                                                                         *)
(* compile_file is taken to answer from scratch (QueryEngine and Workspace *)
(* are about that).  What it returns still depends on the order of calls:  *)
(* a diagnostic is collected only while its slot is verified at the        *)
(* current revision, so an error that one file provokes in another is seen *)
(* once the provoking file has been checked at this revision.              *)
(*                                                                         *)
(* Only equality with the current revision is ever tested, so a revision   *)
(* is represented by the sets of files stamped with it.  The files exist   *)
(* on disk throughout; deletion and creation are in Workspace.             *)
(***************************************************************************)
EXTENDS Naturals

CONSTANTS
    Files,        \* the documents of the workspace
    Texts,        \* contents: see TextRecord
    TextsOf,      \* the contents each file takes
    None,         \* no text, no publication
    Watched,      \* bound: the files that are written on disk
    MaxVersion    \* bound: the last version of each document that is open

\* A text: whether it has a parse error, its own errors, the names it exports,
\* the files it imports, the names it uses of them, and the errors that its calls
\* provoke in the generic functions of other files.  A parse error is told from
\* the others by the query that owns it.
TextRecord(t) ==
    /\ DOMAIN t = {"broken", "own", "exports", "imports", "uses", "provokes"}
    /\ t.broken \in BOOLEAN
    /\ t.imports \subseteq Files
    /\ "parse" \notin t.own \cup t.uses
    /\ \A d \in t.provokes : DOMAIN d = {"at", "key"} /\ d.at \in Files /\ d.key # "parse"

ASSUME LspAssumption ==
    /\ \A t \in Texts : TextRecord(t)
    /\ None \notin Texts /\ None \notin Files
    /\ TextsOf \in [Files -> SUBSET Texts]
    /\ \A f \in Files : TextsOf[f] # {}
    /\ Watched \subseteq Files
    /\ MaxVersion \in [Files -> Nat]

VARIABLES
    proto,        \* LspState.proto
    client,       \* the capabilities of initialize: "push", "pull", "refresh"
    text,         \* SOURCE_TEXT of each source, None for an unknown path
    checked,      \* files whose slots are verified at the current revision
    synced,       \* Draft.lsp_synced
    version,      \* Draft.version
    hash,         \* Draft.last_published_diag_hash, None for 0
    reconciled,   \* drafts with last_published_revision = current_revision
    job,          \* where the handler of the last message is
    packets,      \* didChange notifications not yet read
    buffer,       \* the editor's text of each open document
    sent,         \* the editor's version of it
    shown,        \* the diagnostics the editor has for each document
    nudged,       \* a workspace/diagnostic/refresh the client has not acted on
    disk,         \* the files on disk
    events        \* files with a change the watcher has not reported

dbVars     == <<text, checked>>
draftVars  == <<synced, version, hash, reconciled>>
serverVars == <<proto, client, dbVars, draftVars, job>>
editorVars == <<buffer, sent, packets>>
vars == <<serverVars, editorVars, shown, nudged, disk, events>>

-----------------------------------------------------------------------------
(* compile_file *)

\* The text of each file, loading it from disk the first time it is imported.
Loaded == [f \in Files |-> IF text[f] = None THEN disk[f] ELSE text[f]]

\* The files reached from f along @imports.
Closure(f) ==
    {g \in Files : \A S \in SUBSET Files :
        f \in S /\ (\A h \in S : Loaded[h].imports \subseteq S) => g \in S}

Diag(f, k) == [at |-> f, key |-> k]

Parse(f)   == IF Loaded[f].broken THEN {Diag(f, "parse")} ELSE {}
Own(f)     == {Diag(f, k) : k \in Loaded[f].own}
Missing(f) == {Diag(f, k) : k \in Loaded[f].uses \
                  UNION {Loaded[g].exports : g \in Loaded[f].imports}}

\* What a file's own text and its imports say about it.
Standing(f) == Parse(f) \cup Own(f) \cup Missing(f)

\* db_collect_diags_for_file, when the files of S are verified.  A call reaches
\* only what its file imports, directly or not.
Provoked(f, S) ==
    {d \in UNION {Loaded[g].provokes : g \in {h \in S : f \in Closure(h)}} : d.at = f}
Collected(f, S) == Standing(f) \cup Provoked(f, S)

\* The slots that are live after compile_file(f).
LiveAfter(f) == checked \cup Closure(f)

Compile(f) ==
    /\ checked' = LiveAfter(f)
    /\ text' = [g \in Files |-> IF g \in Closure(f) THEN Loaded[g] ELSE text[g]]

-----------------------------------------------------------------------------
(* Publication *)

\* Variant: everything is published under the file that was compiled.
PrimaryOnly(f) == {f}

\* publish_grouped: the compiled file, and each open file a diagnostic is
\* anchored in.
Receivers(f) ==
    {f} \cup {g \in Closure(f) \cap synced : Collected(g, LiveAfter(f)) # {}}

\* The gates of publish_diagnostics: with something published before, hold
\* while the file does not parse, and skip what has been sent.
Sends(f, l) ==
    hash[f] = None \/ (Diag(f, "parse") \notin l /\ l # hash[f])

PublishGrouped(f) ==
    LET list == [g \in Files |-> Collected(g, LiveAfter(f))]
        out  == {g \in Receivers(f) : Sends(g, list[g])}
    IN  /\ reconciled' = reconciled \cup Receivers(f)
        /\ hash'  = [g \in Files |-> IF g \in out THEN list[g] ELSE hash[g]]
        /\ shown' = [g \in Files |-> IF g \in out THEN list[g] ELSE shown[g]]

Unpublished == UNCHANGED <<reconciled, hash, shown>>

Idle == [phase |-> "idle", src |-> None, todo |-> {}]

\* A loop over the drafts, in any order; it ends when none is left.
Loop(phase, S) ==
    IF S = {} THEN Idle ELSE [phase |-> phase, src |-> None, todo |-> S]

\* Variant: only an edited document makes pull clients ask again.
RepublishAfterEdits(f) ==
    IF client = "push"
    THEN job' = Loop("republish", synced' \ {f}) /\ UNCHANGED nudged
    ELSE job' = Idle /\ nudged' = (nudged \/ (client = "refresh" /\ f # None))

\* The start of republish_all_open.
RepublishAllOpen(f) ==
    IF client = "push"
    THEN job' = Loop("republish", synced' \ {f}) /\ UNCHANGED nudged
    ELSE job' = Idle /\ nudged' = (nudged \/ client = "refresh")

\* handle_did_open and handle_did_change after the text is set.
Primary ==
    /\ job.phase = "primary"
    /\ Compile(job.src)
    /\ IF client = "push" THEN PublishGrouped(job.src) ELSE Unpublished
    /\ UNCHANGED <<synced, version>>
    /\ RepublishAllOpen(job.src)
    /\ UNCHANGED <<proto, client, editorVars, disk, events>>

\* One iteration of republish_all_open.
RepublishOne(f) ==
    /\ job.phase = "republish" /\ f \in job.todo
    /\ IF f \in reconciled THEN UNCHANGED dbVars /\ Unpublished
       ELSE Compile(f) /\ PublishGrouped(f)
    /\ job' = Loop("republish", job.todo \ {f})
    /\ UNCHANGED <<proto, client, synced, version, editorVars, nudged,
                   disk, events>>

\* A report of pull diagnostics: "unchanged" when the client's resultId is the
\* hash of the list, else the list.
Report(f) ==
    LET list == Collected(f, LiveAfter(f))
    IN  /\ Compile(f)
        /\ reconciled' = reconciled \cup {f}
        /\ shown' = [shown EXCEPT ![f] = list]
        /\ hash' = IF shown[f] = list THEN hash ELSE [hash EXCEPT ![f] = list]

\* One iteration of handle_workspace_diagnostic.
ReportOne(f) ==
    /\ job.phase = "report" /\ f \in job.todo
    /\ Report(f)
    /\ job' = Loop("report", job.todo \ {f})
    /\ UNCHANGED <<proto, client, synced, version, editorVars, nudged,
                   disk, events>>

-----------------------------------------------------------------------------
(* The messages of the editor.  The server reads one at a time, when the      *)
(* handler of the last has returned.  Nothing the editor does meanwhile is    *)
(* read by a handler, so a message is sent and read in one step, except for   *)
(* edits, which may be late or overtake each other.                           *)

Ready == proto = "READY" /\ job = Idle

\* The setters of the texts: a change starts a revision.
SetTexts(new) ==
    /\ text' = new
    /\ IF new = text THEN UNCHANGED <<checked, reconciled>>
       ELSE checked' = {} /\ reconciled' = {}

\* The text and the draft of f after oredb_did_open and oredb_did_change.
Sync(f, t, v) ==
    /\ SetTexts([text EXCEPT ![f] = t])
    /\ synced' = synced \cup {f}
    /\ version' = [version EXCEPT ![f] = v]
    /\ job' = [phase |-> "primary", src |-> f, todo |-> {}]
    /\ UNCHANGED hash

\* handle_initialize
Initialize ==
    /\ proto = "PRE_INIT"
    /\ proto' = "READY"
    /\ client' \in {"push", "pull", "refresh"}
    /\ UNCHANGED <<dbVars, draftVars, job, editorVars, shown, nudged, disk,
                   events>>

DidOpen(f) ==
    /\ Ready
    /\ buffer[f] = None
    /\ buffer' = [buffer EXCEPT ![f] = disk[f]]
    /\ sent' = [sent EXCEPT ![f] = 1]
    /\ Sync(f, disk[f], 1)
    /\ UNCHANGED <<proto, client, packets, shown, nudged, disk, events>>

\* The editor changes its text and sends a didChange.
Type(f, t) ==
    /\ Ready
    /\ buffer[f] \notin {None, t}
    /\ sent[f] < MaxVersion[f]
    /\ buffer' = [buffer EXCEPT ![f] = t]
    /\ sent' = [sent EXCEPT ![f] = @ + 1]
    /\ packets' = packets \cup
                    {[file |-> f, text |-> t, version |-> sent[f] + 1]}
    /\ UNCHANGED <<serverVars, shown, nudged, disk, events>>

\* Variant: versions are not compared.
StaleNever(m) == FALSE

\* oredb_did_change: the packet is older than what has been applied.
Stale(m) == m.file \in synced /\ m.version < version[m.file]

\* "LSP doesn't guarantee strict ordering": any packet may be the next.
DidChange(m) ==
    /\ Ready
    /\ packets' = packets \ {m}
    /\ IF Stale(m) THEN UNCHANGED <<dbVars, draftVars, job>>
       ELSE Sync(m.file, m.text, m.version)
    /\ UNCHANGED <<proto, client, buffer, sent, shown, nudged, disk, events>>

Underway(f) == {m \in packets : m.file = f}

DidClose(f) ==
    /\ Ready
    /\ buffer[f] # None /\ Underway(f) = {}
    /\ buffer' = [buffer EXCEPT ![f] = None]
    /\ sent' = [sent EXCEPT ![f] = 0]
    /\ synced' = synced \ {f}
    /\ UNCHANGED <<proto, client, dbVars, version, hash, reconciled, job,
                   packets, shown, nudged, disk, events>>

\* handle_hover, handle_completion, handle_definition.
Ask(f) ==
    /\ Ready
    /\ buffer[f] # None
    /\ Compile(f)
    /\ UNCHANGED <<proto, client, draftVars, job, editorVars, shown, nudged,
                   disk, events>>

\* handle_text_document_diagnostic
DocumentDiagnostic(f) ==
    /\ Ready
    /\ client # "push"
    /\ buffer[f] # None
    /\ Report(f)
    /\ UNCHANGED <<proto, client, synced, version, job, editorVars, nudged,
                   disk, events>>

\* The start of handle_workspace_diagnostic.
WorkspaceDiagnostic ==
    /\ Ready
    /\ client # "push"
    /\ job' = Loop("report", synced)
    /\ nudged' = FALSE
    /\ UNCHANGED <<proto, client, dbVars, draftVars, editorVars, shown, disk,
                   events>>

\* handle_did_change_watched_files: one notification reports the changes of
\* the files of S; a path without a row is ignored.
DidChangeWatchedFiles(S) ==
    /\ Ready
    /\ S # {} /\ S \subseteq events
    /\ events' = events \ S
    /\ SetTexts([f \in Files |-> IF f \in S /\ text[f] # None THEN disk[f]
                                 ELSE text[f]])
    /\ UNCHANGED <<synced, version, hash>>
    /\ RepublishAllOpen(None)
    /\ UNCHANGED <<proto, client, editorVars, shown, disk>>

\* handle_shutdown, after the editor has closed its documents: from now on
\* everything but exit is dropped.
Shutdown ==
    /\ Ready
    /\ \A f \in Files : buffer[f] = None
    /\ proto' = "SHUTDOWN"
    /\ UNCHANGED <<client, dbVars, draftVars, job, editorVars, shown, nudged,
                   disk, events>>

\* A save of the editor or a write of another program.
Write(f, t) ==
    /\ Ready
    /\ f \in Watched
    /\ t # disk[f]
    /\ disk' = [disk EXCEPT ![f] = t]
    /\ events' = events \cup {f}
    /\ UNCHANGED <<serverVars, editorVars, shown, nudged>>

-----------------------------------------------------------------------------
Init ==
    /\ proto = "PRE_INIT"
    /\ client = "push"
    /\ text = [f \in Files |-> None]
    /\ checked = {}
    /\ synced = {}
    /\ version = [f \in Files |-> 0]
    /\ hash = [f \in Files |-> None]
    /\ reconciled = {}
    /\ job = Idle
    /\ packets = {}
    /\ buffer = [f \in Files |-> None]
    /\ sent = [f \in Files |-> 0]
    /\ shown = [f \in Files |-> None]
    /\ nudged = FALSE
    /\ disk \in [Files -> Texts] /\ \A f \in Files : disk[f] \in TextsOf[f]
    /\ events = {}

\* The rest of the handler of the last message.
HandlerStep == Primary \/ \E f \in Files : RepublishOne(f) \/ ReportOne(f)

Next ==
    \/ Initialize
    \/ HandlerStep
    \/ \E f \in Files : DidOpen(f) \/ DidClose(f)
    \/ \E m \in packets : DidChange(m)
    \/ \E f \in Files : Ask(f) \/ DocumentDiagnostic(f)
    \/ WorkspaceDiagnostic
    \/ \E S \in SUBSET Files : DidChangeWatchedFiles(S)
    \/ \E f \in Files : \E t \in TextsOf[f] : Type(f, t) \/ Write(f, t)
    \/ Shutdown

Spec == Init /\ [][Next]_vars

-----------------------------------------------------------------------------
TypeOK ==
    /\ proto \in {"PRE_INIT", "READY", "SHUTDOWN"}
    /\ client \in {"push", "pull", "refresh"}
    /\ text \in [Files -> Texts \cup {None}]
    /\ checked \subseteq Files /\ synced \subseteq Files
    /\ reconciled \subseteq Files
    /\ job.todo \subseteq synced
    /\ \A f \in checked \cup synced : text[f] # None

\* server.c, publish_grouped and republish_all_open: after a handler has run, a
\* push client shows for each open document that parses exactly the diagnostics the
\* compiler has for it now, those that other open files provoke in it included,
\* whatever the skips by hash, by revision and by parse error have left out.
PublishedIsCurrent ==
    Ready /\ client = "push" =>
        \A f \in synced :
            ~text[f].broken => shown[f] = Collected(f, checked)

\* republish_all_open: "we nudge the client via workspace/diagnostic/refresh".
\* A pull client that honours it is never left with diagnostics of an older
\* text: unless it has been told to ask again, what it shows of an open document
\* has all that the document and its imports say now, and nothing the compiler
\* does not say.
NudgeCoversChange ==
    Ready /\ client = "refresh" /\ ~nudged =>
        \A f \in synced :
            /\ Standing(f) \subseteq shown[f]
            /\ shown[f] \subseteq Collected(f, checked)

\* No edit of f is on its way, and no watcher event.
Quiet(f) == Ready /\ Underway(f) = {} /\ f \notin events

\* oredb_did_change: "Stale-packet check".  Once nothing is underway, the server
\* has the editor's newest text of an open document, or the text of the disk
\* that a watcher event put over it; an older edit never wins.
NoOlderEditWins ==
    \A f \in synced : Quiet(f) => text[f] \in {buffer[f], disk[f]}

\* lsp/db.h, Draft: "was closed (didClose); reads should fall back to disk".
ClosedFileReadsDisk ==
    \A f \in Files \ synced :
        Quiet(f) /\ text[f] # None => text[f] = disk[f]
=============================================================================
