-------------------------- MODULE LspServerProofs --------------------------
(***************************************************************************)
(* For every set of documents, every content, every import graph and every *)
(* bound on versions: an older edit never wins (NewestEditWins), a push    *)
(* client shows what the compiler finds (PublishedCurrent), and a refresh  *)
(* client is never left with an older report (NudgeCovers).                *)
(***************************************************************************)
EXTENDS LspServer, TLAPS

Packets == [file : Files, text : Texts, version : Nat]

Types ==
    /\ text \in [Files -> Texts \cup {None}]
    /\ buffer \in [Files -> Texts \cup {None}]
    /\ disk \in [Files -> Texts]
    /\ sent \in [Files -> Nat]
    /\ version \in [Files -> Nat]
    /\ packets \subseteq Packets
    /\ synced \subseteq Files

\* The drafts marked as synced are the documents the editor has open, and the
\* server has a text for each.
Drafts ==
    /\ \A f \in Files : f \in synced <=> buffer[f] # None
    /\ \A f \in synced : text[f] # None

\* An edit underway is of an open document; the newest one carries its text.
Flight ==
    \A m \in packets :
        /\ m.file \in synced
        /\ m.version <= sent[m.file]
        /\ m.version = sent[m.file] => m.text = buffer[m.file]

\* The newest edit has been applied or is underway.
Newest ==
    \A f \in synced :
        /\ version[f] <= sent[f]
        /\ version[f] = sent[f] /\ f \notin events
             => text[f] \in {buffer[f], disk[f]}
        /\ version[f] < sent[f]
             => \E m \in packets : m.file = f /\ m.version = sent[f]

EInv == Types /\ Drafts /\ Flight /\ Newest

editVars == <<buffer, sent, packets, version, synced, disk, events>>

-----------------------------------------------------------------------------
(* The steps that change texts only by loading files. *)

\* compile_file loads unknown files; the texts it finds it leaves alone.
LEMMA CompileKeeps ==
    ASSUME EInv, NEW f, Compile(f), UNCHANGED editVars
    PROVE  EInv'
<1>1. \A g \in Files : Loaded[g] \in Texts
  BY DEF EInv, Types, Loaded
<1>2. text' \in [Files -> Texts \cup {None}]
  BY <1>1 DEF EInv, Types, Compile
<1>3. \A g \in Files : text[g] # None => text'[g] = text[g]
  BY DEF Compile, Loaded, EInv, Types
<1>4. Types'
  BY <1>2 DEF EInv, Types, editVars
<1>5. Drafts' /\ Flight'
  BY <1>3 DEF EInv, Types, Drafts, Flight, editVars
<1>6. Newest'
  <2>1. ASSUME NEW g \in synced PROVE text'[g] = text[g]
    BY <1>3, <2>1 DEF EInv, Types, Drafts
  <2> QED
    BY <2>1 DEF EInv, Newest, editVars
<1> QED
  BY <1>4, <1>5, <1>6 DEF EInv

\* A step that leaves the texts and the edits alone.
LEMMA Keeps ==
    ASSUME EInv, UNCHANGED text, UNCHANGED editVars
    PROVE  EInv'
BY DEF EInv, Types, Drafts, Flight, Newest, editVars

LEMMA SetTextsSets ==
    ASSUME NEW new, SetTexts(new)
    PROVE  text' = new
BY DEF SetTexts

-----------------------------------------------------------------------------
(* The editor's steps. *)

LEMMA DidOpenKeeps ==
    ASSUME EInv, NEW f \in Files, DidOpen(f)
    PROVE  EInv'
<1>1. /\ text' = [text EXCEPT ![f] = disk[f]]
      /\ synced' = synced \cup {f}
      /\ version' = [version EXCEPT ![f] = 1]
      /\ buffer' = [buffer EXCEPT ![f] = disk[f]]
      /\ sent' = [sent EXCEPT ![f] = 1]
      /\ UNCHANGED <<packets, disk, events>>
      /\ f \notin synced
  BY SetTextsSets DEF DidOpen, Sync, EInv, Drafts
<1>2. disk[f] \in Texts /\ disk[f] # None
  BY LspAssumption DEF EInv, Types
<1>3. Types'
  BY <1>1, <1>2 DEF EInv, Types
<1>4. Drafts'
  BY <1>1, <1>2 DEF EInv, Types, Drafts
<1>5. Flight'
  <2>1. ASSUME NEW m \in packets
        PROVE  /\ m.file # f /\ m.file \in Files
               /\ sent'[m.file] = sent[m.file]
               /\ buffer'[m.file] = buffer[m.file]
    BY <1>1, <2>1 DEF EInv, Types, Flight, Packets
  <2> QED
    BY <1>1, <2>1 DEF EInv, Flight
<1>6. Newest'
  <2>1. ASSUME NEW g \in synced
        PROVE  /\ version'[g] = version[g] /\ sent'[g] = sent[g]
               /\ text'[g] = text[g] /\ buffer'[g] = buffer[g]
    BY <1>1, <2>1 DEF EInv, Types
  <2>2. version'[f] = 1 /\ sent'[f] = 1 /\ text'[f] = disk[f]
    BY <1>1 DEF EInv, Types
  <2> QED
    BY <1>1, <2>1, <2>2 DEF EInv, Newest
<1> QED
  BY <1>3, <1>4, <1>5, <1>6 DEF EInv

LEMMA TypeKeeps ==
    ASSUME EInv, NEW f \in Files, NEW t \in TextsOf[f], Type(f, t)
    PROVE  EInv'
<1> DEFINE p == [file |-> f, text |-> t, version |-> sent[f] + 1]
<1>1. /\ buffer' = [buffer EXCEPT ![f] = t]
      /\ sent' = [sent EXCEPT ![f] = @ + 1]
      /\ packets' = packets \cup {p}
      /\ UNCHANGED <<text, synced, version, disk, events>>
      /\ buffer[f] # None
  BY DEF Type, serverVars, dbVars, draftVars
<1>2. t \in Texts /\ t # None
  BY LspAssumption
<1>3. f \in synced /\ sent[f] \in Nat /\ sent'[f] = sent[f] + 1 /\ buffer'[f] = t
  BY <1>1 DEF EInv, Types, Drafts
<1>4. \A g \in Files : g # f => sent'[g] = sent[g] /\ buffer'[g] = buffer[g]
  BY <1>1 DEF EInv, Types
<1>5. p \in Packets
  BY <1>2, <1>3 DEF Packets
<1>6. Types'
  BY <1>1, <1>2, <1>3, <1>5 DEF EInv, Types
<1>7. Drafts'
  BY <1>1, <1>2, <1>3, <1>4 DEF EInv, Types, Drafts
<1>8. Flight'
  <2>1. ASSUME NEW m \in packets
        PROVE  /\ m.file \in synced /\ m.version <= sent'[m.file]
               /\ m.version = sent'[m.file] => m.text = buffer'[m.file]
    <3>1. /\ m.file \in Files /\ m.version \in Nat
          /\ m.file \in synced /\ m.version <= sent[m.file]
          /\ m.version = sent[m.file] => m.text = buffer[m.file]
      BY <2>1 DEF EInv, Types, Flight, Packets
    <3> QED
      BY <1>3, <1>4, <3>1
  <2> QED
    BY <1>1, <1>3, <2>1 DEF Flight
<1>9. Newest'
  <2>1. ASSUME NEW g \in synced, g # f
        PROVE  /\ version'[g] <= sent'[g]
               /\ version'[g] = sent'[g] /\ g \notin events'
                    => text'[g] \in {buffer'[g], disk'[g]}
               /\ version'[g] < sent'[g]
                    => \E m \in packets' : m.file = g /\ m.version = sent'[g]
    <3>1. g \in Files
      BY DEF EInv, Types
    <3> QED
      BY <1>1, <1>4, <2>1, <3>1 DEF EInv, Newest
  <2>2. version'[f] < sent'[f]
    BY <1>1, <1>3 DEF EInv, Types, Newest
  <2>3. \E m \in packets' : m.file = f /\ m.version = sent'[f]
    <3>1. p \in packets'
      BY <1>1
    <3>2. p.file = f /\ p.version = sent'[f]
      BY <1>3
    <3> QED
      BY <3>1, <3>2
  <2>4. version'[f] <= sent'[f] /\ version'[f] # sent'[f]
    BY <1>1, <1>3, <2>2 DEF EInv, Types
  <2> QED
    BY <1>1, <2>1, <2>2, <2>3, <2>4 DEF Newest
<1> QED
  BY <1>6, <1>7, <1>8, <1>9 DEF EInv

LEMMA DidChangeKeeps ==
    ASSUME EInv, NEW m \in packets, DidChange(m)
    PROVE  EInv'
<1>1. /\ packets' = packets \ {m}
      /\ UNCHANGED <<buffer, sent, disk, events>>
  BY DEF DidChange
<1>2. /\ m.file \in Files /\ m.text \in Texts /\ m.version \in Nat
      /\ m.file \in synced /\ m.version <= sent[m.file]
      /\ m.version = sent[m.file] => m.text = buffer[m.file]
      /\ m.text # None
  BY LspAssumption DEF EInv, Types, Flight, Packets
<1>3. CASE Stale(m)
  <2>1. UNCHANGED <<text, synced, version>>
    BY <1>3 DEF DidChange, dbVars, draftVars
  <2>2. m.version # sent[m.file]
    BY <1>2, <1>3 DEF Stale, EInv, Types, Newest
  <2>3. Types' /\ Drafts' /\ Flight'
    BY <1>1, <2>1 DEF EInv, Types, Drafts, Flight
  <2>4. ASSUME NEW f \in synced, version[f] < sent[f]
        PROVE  \E n \in packets' : n.file = f /\ n.version = sent[f]
    <3>1. PICK n \in packets : n.file = f /\ n.version = sent[f]
      BY <2>4 DEF EInv, Newest
    <3>2. n # m
      BY <2>2, <3>1
    <3> QED
      BY <1>1, <3>1, <3>2
  <2>5. Newest'
    BY <1>1, <2>1, <2>4 DEF EInv, Newest
  <2> QED
    BY <2>3, <2>5 DEF EInv
<1>4. CASE ~Stale(m)
  <2>1. /\ text' = [text EXCEPT ![m.file] = m.text]
        /\ synced' = synced
        /\ version' = [version EXCEPT ![m.file] = m.version]
    BY <1>2, <1>4, SetTextsSets DEF DidChange, Sync
  <2>2. Types'
    BY <1>1, <1>2, <2>1 DEF EInv, Types
  <2>3. Drafts' /\ Flight'
    BY <1>1, <1>2, <2>1 DEF EInv, Types, Drafts, Flight
  <2>4. ASSUME NEW f \in synced, f # m.file
        PROVE  /\ version'[f] = version[f] /\ text'[f] = text[f]
               /\ \A n \in packets : n.file = f => n \in packets'
    BY <1>1, <2>1, <2>4 DEF EInv, Types
  <2>5. version'[m.file] = m.version /\ text'[m.file] = m.text
    BY <1>2, <2>1 DEF EInv, Types
  <2>6. ASSUME m.version < sent[m.file]
        PROVE  \E n \in packets' : n.file = m.file /\ n.version = sent[m.file]
    <3>1. m.version \in Nat /\ version[m.file] \in Nat /\ sent[m.file] \in Nat
      BY <1>2 DEF EInv, Types
    <3>2. version[m.file] < sent[m.file]
      BY <1>2, <1>4, <2>6, <3>1 DEF Stale
    <3>3. PICK n \in packets : n.file = m.file /\ n.version = sent[m.file]
      BY <1>2, <3>2 DEF EInv, Newest
    <3>4. n # m
      BY <2>6, <3>1, <3>3
    <3> QED
      BY <1>1, <3>3, <3>4
  <2>7. Newest'
    <3>1. ASSUME NEW f \in synced, f # m.file
          PROVE  /\ version'[f] <= sent'[f]
                 /\ version'[f] = sent'[f] /\ f \notin events'
                      => text'[f] \in {buffer'[f], disk'[f]}
                 /\ version'[f] < sent'[f]
                      => \E n \in packets' : n.file = f /\ n.version = sent'[f]
      BY <1>1, <2>4, <3>1 DEF EInv, Newest
    <3>2. /\ version'[m.file] <= sent'[m.file]
          /\ version'[m.file] = sent'[m.file] => text'[m.file] = buffer'[m.file]
          /\ version'[m.file] < sent'[m.file]
               => \E n \in packets' : n.file = m.file /\ n.version = sent'[m.file]
      BY <1>1, <1>2, <2>5, <2>6
    <3> QED
      BY <2>1, <3>1, <3>2 DEF Newest
  <2> QED
    BY <2>2, <2>3, <2>7 DEF EInv
<1> QED
  BY <1>3, <1>4

LEMMA DidCloseKeeps ==
    ASSUME EInv, NEW f \in Files, DidClose(f)
    PROVE  EInv'
<1>1. /\ buffer' = [buffer EXCEPT ![f] = None]
      /\ sent' = [sent EXCEPT ![f] = 0]
      /\ synced' = synced \ {f}
      /\ UNCHANGED <<text, version, packets, disk, events>>
      /\ \A m \in packets : m.file # f
  BY DEF DidClose, dbVars, Underway
<1>2. \A g \in synced' : sent'[g] = sent[g] /\ buffer'[g] = buffer[g]
  BY <1>1 DEF EInv, Types
<1>3. Types'
  BY <1>1 DEF EInv, Types
<1>4. Drafts'
  BY <1>1 DEF EInv, Types, Drafts
<1>5. Flight'
  BY <1>1, <1>2 DEF EInv, Flight
<1>6. Newest'
  BY <1>1, <1>2 DEF EInv, Newest
<1> QED
  BY <1>3, <1>4, <1>5, <1>6 DEF EInv

-----------------------------------------------------------------------------
(* The disk. *)

LEMMA WriteKeeps ==
    ASSUME EInv, NEW f \in Files, NEW t \in TextsOf[f], Write(f, t)
    PROVE  EInv'
<1>1. /\ disk' = [disk EXCEPT ![f] = t]
      /\ events' = events \cup {f}
      /\ UNCHANGED <<text, buffer, sent, packets, version, synced>>
  BY DEF Write, serverVars, dbVars, draftVars, editorVars
<1>2. Types' /\ Drafts' /\ Flight'
  BY <1>1, LspAssumption DEF EInv, Types, Drafts, Flight
<1>3. \A g \in synced : g \notin events' => disk'[g] = disk[g]
  BY <1>1 DEF EInv, Types
<1>4. Newest'
  BY <1>1, <1>3 DEF EInv, Newest
<1> QED
  BY <1>2, <1>4 DEF EInv

LEMMA WatchedKeeps ==
    ASSUME EInv, NEW S \in SUBSET Files, DidChangeWatchedFiles(S)
    PROVE  EInv'
<1>1. /\ text' = [f \in Files |-> IF f \in S /\ text[f] # None THEN disk[f]
                                  ELSE text[f]]
      /\ events' = events \ S
      /\ UNCHANGED <<buffer, sent, packets, version, synced, disk>>
  BY SetTextsSets DEF DidChangeWatchedFiles, editorVars
<1>2. Types'
  BY <1>1 DEF EInv, Types
<1>3. Drafts' /\ Flight'
  BY <1>1, LspAssumption DEF EInv, Types, Drafts, Flight
<1>4. \A f \in synced : IF f \in S THEN text'[f] = disk[f] ELSE text'[f] = text[f]
  BY <1>1 DEF EInv, Types, Drafts
<1>5. Newest'
  BY <1>1, <1>4 DEF EInv, Newest
<1> QED
  BY <1>2, <1>3, <1>5 DEF EInv

-----------------------------------------------------------------------------
LEMMA EInvInit == Init => EInv
<1> SUFFICES ASSUME Init PROVE EInv
  OBVIOUS
<1>1. Types
  BY DEF Init, Types
<1>2. Drafts /\ Flight /\ Newest
  BY DEF Init, Drafts, Flight, Newest
<1> QED
  BY <1>1, <1>2 DEF EInv

\* No step lets an older edit win.
LEMMA EInvStep == EInv /\ [Next]_vars => EInv'
<1> SUFFICES ASSUME EInv, [Next]_vars PROVE EInv'
  OBVIOUS
<1>1. CASE Initialize
  BY <1>1, Keeps DEF Initialize, editVars, dbVars, draftVars, editorVars
<1>2. CASE Primary
  BY <1>2, CompileKeeps DEF Primary, editVars, editorVars
<1>3. ASSUME NEW f \in Files, RepublishOne(f) PROVE EInv'
  <2>1. UNCHANGED editVars
    BY <1>3 DEF RepublishOne, editVars, editorVars
  <2>2. UNCHANGED text \/ Compile(f)
    BY <1>3 DEF RepublishOne, dbVars
  <2> QED
    BY <2>1, <2>2, Keeps, CompileKeeps
<1>4. ASSUME NEW f \in Files, ReportOne(f) PROVE EInv'
  BY <1>4, CompileKeeps DEF ReportOne, Report, editVars, editorVars
<1>5. ASSUME NEW f \in Files, Ask(f) PROVE EInv'
  BY <1>5, CompileKeeps DEF Ask, editVars, draftVars, editorVars
<1>6. ASSUME NEW f \in Files, DocumentDiagnostic(f) PROVE EInv'
  BY <1>6, CompileKeeps DEF DocumentDiagnostic, Report, editVars, editorVars
<1>7. CASE WorkspaceDiagnostic
  BY <1>7, Keeps DEF WorkspaceDiagnostic, editVars, dbVars, draftVars, editorVars
<1>8. CASE Shutdown
  BY <1>8, Keeps DEF Shutdown, editVars, dbVars, draftVars, editorVars
<1>9. CASE UNCHANGED vars
  BY <1>9, Keeps DEF vars, serverVars, editVars, dbVars, draftVars, editorVars
<1> QED
  BY <1>1, <1>2, <1>3, <1>4, <1>5, <1>6, <1>7, <1>8, <1>9, DidOpenKeeps,
     DidCloseKeeps, DidChangeKeeps, TypeKeeps, WriteKeeps, WatchedKeeps
     DEF Next, HandlerStep

\* oredb_did_change: with every order of delivery, and with watcher events in
\* between, an open document ends with the newest text the editor has sent or with
\* the text of the disk.
THEOREM NewestEditWins == Spec => []NoOlderEditWins
<1>1. EInv => NoOlderEditWins
  <2> SUFFICES ASSUME EInv, NEW f \in synced, Quiet(f)
               PROVE  text[f] \in {buffer[f], disk[f]}
    BY DEF NoOlderEditWins
  <2>1. \A m \in packets : m.file # f
    BY DEF Quiet, Underway
  <2>2. version[f] \in Nat /\ sent[f] \in Nat
    BY DEF EInv, Types
  <2>3. version[f] = sent[f]
    BY <2>1, <2>2 DEF EInv, Newest
  <2> QED
    BY <2>3 DEF EInv, Newest, Quiet
<1> QED
  BY EInvInit, EInvStep, <1>1, PTL DEF Spec

-----------------------------------------------------------------------------
(* Type correctness. *)

\* A handler that has set a text compiles a document of the workspace.
JobSource == job.phase = "primary" => job.src \in Files

TInv == EInv /\ TypeOK /\ JobSource

\* The parts of TypeOK that are not about the job and the protocol.
DbTypes ==
    /\ text \in [Files -> Texts \cup {None}]
    /\ checked \subseteq Files /\ synced \subseteq Files
    /\ reconciled \subseteq Files
    /\ \A f \in checked \cup synced : text[f] # None

LEMMA LoopFacts ==
    ASSUME NEW phase \in {"republish", "report"}, NEW S
    PROVE  /\ Loop(phase, S).todo = S
           /\ Loop(phase, S).phase # "primary"
BY DEF Loop, Idle

LEMMA CompileTypes ==
    ASSUME TInv, NEW f \in Files, Compile(f), UNCHANGED synced
    PROVE  /\ text' \in [Files -> Texts \cup {None}]
           /\ checked' \subseteq Files
           /\ \A g \in checked' \cup synced : text'[g] # None
<1>1. \A g \in Files : Loaded[g] \in Texts /\ Loaded[g] # None
  BY LspAssumption DEF TInv, EInv, Types, Loaded
<1>2. Closure(f) \subseteq Files
  BY DEF Closure
<1> QED
  BY <1>1, <1>2 DEF Compile, LiveAfter, TInv, TypeOK

LEMMA PublishTypes ==
    ASSUME TInv, NEW f \in Files,
           PublishGrouped(f) \/ Unpublished \/ Report(f)
    PROVE  reconciled' \subseteq Files
BY DEF PublishGrouped, Unpublished, Report, Receivers, TInv, TypeOK

LEMMA SyncTypes ==
    ASSUME TInv, NEW f \in Files, NEW t \in Texts, NEW v, Sync(f, t, v)
    PROVE  DbTypes' /\ job'.todo \subseteq synced' /\ job'.src \in Files
<1>1. /\ text' = [text EXCEPT ![f] = t]
      /\ synced' = synced \cup {f}
      /\ checked' \subseteq checked /\ reconciled' \subseteq reconciled
      /\ job'.todo = {} /\ job'.src = f
  BY DEF Sync, SetTexts
<1> QED
  BY <1>1, LspAssumption DEF DbTypes, TInv, TypeOK

LEMMA RepublishTypes ==
    ASSUME TInv, NEW f, RepublishAllOpen(f)
    PROVE  job'.todo \subseteq synced' /\ job'.phase # "primary"
BY LoopFacts DEF RepublishAllOpen, Idle

LEMMA TInvStep == TInv /\ [Next]_vars => TInv'
<1> SUFFICES ASSUME TInv, [Next]_vars PROVE TypeOK' /\ JobSource'
  BY EInvStep DEF TInv
<1> USE DEF TInv
<1>1. CASE Initialize
  BY <1>1 DEF Initialize, TypeOK, JobSource, dbVars, draftVars
<1>2. CASE Primary
  <2>1. /\ job.src \in Files /\ Compile(job.src)
        /\ UNCHANGED <<synced, proto, client>>
        /\ PublishGrouped(job.src) \/ Unpublished
        /\ RepublishAllOpen(job.src)
    BY <1>2 DEF Primary, JobSource
  <2> QED
    BY <2>1, CompileTypes, PublishTypes, RepublishTypes DEF TypeOK, JobSource
<1>3. ASSUME NEW f \in Files, RepublishOne(f) PROVE TypeOK' /\ JobSource'
  <2>1. /\ UNCHANGED <<synced, proto, client>>
        /\ PublishGrouped(f) \/ Unpublished
        /\ job' = Loop("republish", job.todo \ {f})
        /\ UNCHANGED <<text, checked>> \/ Compile(f)
    BY <1>3 DEF RepublishOne, dbVars
  <2>2. job'.todo \subseteq synced /\ job'.phase # "primary"
    BY <2>1, LoopFacts DEF TypeOK
  <2> QED
    BY <2>1, <2>2, CompileTypes, PublishTypes DEF TypeOK, JobSource
<1>4. ASSUME NEW f \in Files, ReportOne(f) PROVE TypeOK' /\ JobSource'
  <2>1. /\ UNCHANGED <<synced, proto, client>> /\ Report(f)
        /\ job' = Loop("report", job.todo \ {f})
    BY <1>4 DEF ReportOne
  <2>2. job'.todo \subseteq synced /\ job'.phase # "primary"
    BY <2>1, LoopFacts DEF TypeOK
  <2>3. Compile(f)
    BY <2>1 DEF Report
  <2> QED
    BY <2>1, <2>2, <2>3, CompileTypes, PublishTypes DEF TypeOK, JobSource
<1>5. ASSUME NEW f \in Files, Ask(f) PROVE TypeOK' /\ JobSource'
  BY <1>5, CompileTypes DEF Ask, draftVars, TypeOK, JobSource
<1>6. ASSUME NEW f \in Files, DocumentDiagnostic(f) PROVE TypeOK' /\ JobSource'
  <2>1. /\ UNCHANGED <<synced, proto, client, job>> /\ Report(f)
    BY <1>6 DEF DocumentDiagnostic
  <2>2. Compile(f)
    BY <2>1 DEF Report
  <2> QED
    BY <2>1, <2>2, CompileTypes, PublishTypes DEF TypeOK, JobSource
<1>7. CASE WorkspaceDiagnostic
  BY <1>7, LoopFacts DEF WorkspaceDiagnostic, dbVars, draftVars, TypeOK, JobSource
<1>8. CASE Shutdown
  BY <1>8 DEF Shutdown, dbVars, draftVars, TypeOK, JobSource
<1>9. ASSUME NEW f \in Files, DidOpen(f) PROVE TypeOK' /\ JobSource'
  <2>1. disk[f] \in Texts /\ Sync(f, disk[f], 1) /\ UNCHANGED <<proto, client>>
    BY <1>9 DEF DidOpen, EInv, Types
  <2> QED
    BY <2>1, SyncTypes DEF TypeOK, DbTypes, JobSource
<1>10. ASSUME NEW f \in Files, DidClose(f) PROVE TypeOK' /\ JobSource'
  BY <1>10 DEF DidClose, Ready, Idle, dbVars, TypeOK, JobSource
<1>11. ASSUME NEW m \in packets, DidChange(m) PROVE TypeOK' /\ JobSource'
  <2>1. m.file \in Files /\ m.text \in Texts /\ UNCHANGED <<proto, client>>
    BY <1>11 DEF DidChange, EInv, Types, Packets
  <2>2. CASE Stale(m)
    BY <1>11, <2>1, <2>2 DEF DidChange, dbVars, draftVars, TypeOK, JobSource
  <2>3. CASE ~Stale(m)
    <3>1. Sync(m.file, m.text, m.version)
      BY <1>11, <2>3 DEF DidChange
    <3> QED
      BY <2>1, <3>1, SyncTypes DEF TypeOK, DbTypes, JobSource
  <2> QED
    BY <2>2, <2>3
<1>12. ASSUME NEW f \in Files, NEW t \in TextsOf[f], Type(f, t) \/ Write(f, t)
       PROVE  TypeOK' /\ JobSource'
  BY <1>12 DEF Type, Write, serverVars, dbVars, draftVars, TypeOK, JobSource
<1>13. ASSUME NEW S \in SUBSET Files, DidChangeWatchedFiles(S)
       PROVE  TypeOK' /\ JobSource'
  <2>1. /\ UNCHANGED <<synced, proto, client>> /\ RepublishAllOpen(None)
        /\ text' = [f \in Files |-> IF f \in S /\ text[f] # None THEN disk[f]
                                    ELSE text[f]]
        /\ checked' \subseteq checked /\ reconciled' \subseteq reconciled
    BY <1>13 DEF DidChangeWatchedFiles, SetTexts
  <2>2. disk \in [Files -> Texts]
    BY DEF EInv, Types
  <2> QED
    BY <2>1, <2>2, RepublishTypes, LspAssumption DEF TypeOK, JobSource
<1>14. CASE UNCHANGED vars
  BY <1>14 DEF vars, serverVars, dbVars, draftVars, TypeOK, JobSource
<1> QED
  BY <1>1, <1>2, <1>3, <1>4, <1>5, <1>6, <1>7, <1>8, <1>9, <1>10, <1>11, <1>12,
     <1>13, <1>14 DEF Next, HandlerStep

\* The server's state has its types; in particular every open document and
\* every checked file has a text, and republish_all_open only visits drafts
\* that are open.
THEOREM LspTypeCorrect == Spec => []TypeOK
<1>1. Init => TInv
  <2> SUFFICES ASSUME Init PROVE TypeOK /\ JobSource
    BY EInvInit DEF TInv
  <2> QED
    BY DEF Init, TypeOK, JobSource, Idle
<1>2. TInv => TypeOK
  BY DEF TInv
<1> QED
  BY <1>1, <1>2, TInvStep, PTL DEF Spec

-----------------------------------------------------------------------------
(***************************************************************************)
(* What the editor is shown.  All that a compile says of a file is a       *)
(* function of the texts it finds and of the files that are verified; the  *)
(* operators below say it of any texts L, so that a step that leaves both  *)
(* alone visibly changes nothing.                                          *)
(***************************************************************************)
Reach(L, f) ==
    {g \in Files : \A S \in SUBSET Files :
        f \in S /\ (\A h \in S : L[h].imports \subseteq S) => g \in S}

Says(L, f) ==
    (IF L[f].broken THEN {Diag(f, "parse")} ELSE {})
      \cup {Diag(f, k) : k \in L[f].own}
      \cup {Diag(f, k) : k \in L[f].uses \ UNION {L[g].exports : g \in L[f].imports}}

Calls(L, f, S) ==
    {d \in UNION {L[g].provokes : g \in {h \in S : f \in Reach(L, h)}} : d.at = f}

AllOf(L, f, S) == Says(L, f) \cup Calls(L, f, S)

Views == [Files -> Texts]

\* A set of files that imports nothing from outside.
ClosedIn(L, C) == C \subseteq Files /\ \A h \in C : L[h].imports \subseteq C

LEMMA ViewNow ==
    ASSUME NEW f, NEW S
    PROVE  /\ Closure(f) = Reach(Loaded, f)
           /\ Standing(f) = Says(Loaded, f)
           /\ Collected(f, S) = AllOf(Loaded, f, S)
<1>1. \A h : Closure(h) = Reach(Loaded, h)
  BY DEF Closure, Reach
<1>2. Standing(f) = Says(Loaded, f)
  BY DEF Standing, Says, Parse, Own, Missing
<1>3. Provoked(f, S) = Calls(Loaded, f, S)
  BY DEF Provoked, Calls, Closure, Reach
<1> QED
  BY <1>1, <1>2, <1>3 DEF Collected, AllOf

\* The import closure holds its file, and the closure of each file in it.
LEMMA ReachFacts ==
    ASSUME NEW L, NEW f \in Files
    PROVE  /\ f \in Reach(L, f)
           /\ Reach(L, f) \subseteq Files
           /\ \A h \in Reach(L, f) : Reach(L, h) \subseteq Reach(L, f)
BY DEF Reach

\* A closure stays within a closed set, and depends on the texts in it only.
LEMMA ReachFrame ==
    ASSUME NEW L, NEW M, NEW C, ClosedIn(L, C), \A h \in C : M[h] = L[h],
           NEW f \in C
    PROVE  Reach(L, f) \subseteq C /\ Reach(M, f) = Reach(L, f)
<1>1. C \in SUBSET Files /\ \A h \in C : L[h].imports \subseteq C /\ M[h].imports \subseteq C
  BY DEF ClosedIn
<1>2. Reach(L, f) \subseteq C /\ Reach(M, f) \subseteq C
  BY <1>1 DEF Reach
<1>3. ASSUME NEW g \in Reach(L, f), NEW S \in SUBSET Files,
             f \in S, \A h \in S : M[h].imports \subseteq S
      PROVE  g \in S
  <2> DEFINE T == S \cap C
  <2>1. T \in SUBSET Files /\ f \in T /\ \A h \in T : L[h].imports \subseteq T
    BY <1>1, <1>3
  <2>2. g \in T
    BY <1>3, <2>1 DEF Reach
  <2> QED
    BY <2>2
<1>4. ASSUME NEW g \in Reach(M, f), NEW S \in SUBSET Files,
             f \in S, \A h \in S : L[h].imports \subseteq S
      PROVE  g \in S
  <2> DEFINE T == S \cap C
  <2>1. T \in SUBSET Files /\ f \in T /\ \A h \in T : M[h].imports \subseteq T
    BY <1>1, <1>4
  <2>2. g \in T
    BY <1>4, <2>1 DEF Reach
  <2> QED
    BY <2>2
<1>5. Reach(L, f) \subseteq Reach(M, f)
  BY <1>3 DEF Reach
<1>6. Reach(M, f) \subseteq Reach(L, f)
  BY <1>4 DEF Reach
<1> QED
  BY <1>2, <1>5, <1>6

\* Who is called upon: membership in Calls.
LEMMA CallsMember ==
    ASSUME NEW L, NEW f, NEW S, NEW d
    PROVE  d \in Calls(L, f, S) <=>
             d.at = f /\ \E g \in S : f \in Reach(L, g) /\ d \in L[g].provokes
BY DEF Calls

\* More verified files say more ...
LEMMA AllOfMono ==
    ASSUME NEW L, NEW f, NEW S, NEW T, S \subseteq T
    PROVE  Says(L, f) \subseteq AllOf(L, f, S) /\ AllOf(L, f, S) \subseteq AllOf(L, f, T)
<1>1. Calls(L, f, S) \subseteq Calls(L, f, T)
  BY CallsMember
<1> QED
  BY <1>1 DEF AllOf

\* ... but nothing of a file that they do not import.
LEMMA AllOfOutside ==
    ASSUME NEW L, NEW f \in Files, NEW g \in Files, f \notin Reach(L, g), NEW S
    PROVE  AllOf(L, f, S \cup Reach(L, g)) = AllOf(L, f, S)
<1>1. \A h \in Reach(L, g) : f \notin Reach(L, h)
  BY ReachFacts
<1>2. Calls(L, f, S \cup Reach(L, g)) = Calls(L, f, S)
  <2>1. \A d : d \in Calls(L, f, S \cup Reach(L, g)) <=> d \in Calls(L, f, S)
    BY <1>1, CallsMember
  <2> QED
    BY <2>1
<1> QED
  BY <1>2 DEF AllOf

\* What is said of a file depends only on the texts of a closed set around it.
LEMMA AllOfFrame ==
    ASSUME NEW L, NEW M, NEW C, ClosedIn(L, C), \A h \in C : M[h] = L[h],
           NEW f \in C
    PROVE  Says(M, f) = Says(L, f) /\ AllOf(M, f, C) = AllOf(L, f, C)
<1>1. M[f] = L[f] /\ \A g \in L[f].imports : M[g] = L[g]
  BY DEF ClosedIn
<1>2. UNION {M[g].exports : g \in M[f].imports} = UNION {L[g].exports : g \in L[f].imports}
  BY <1>1
<1>3. Says(M, f) = Says(L, f)
  BY <1>1, <1>2 DEF Says
<1>4. \A h \in C : Reach(M, h) = Reach(L, h)
  BY ReachFrame
<1>5. Calls(M, f, C) = Calls(L, f, C)
  <2>1. ASSUME NEW d
        PROVE  d \in Calls(M, f, C) <=> d \in Calls(L, f, C)
    <3>1. \A g \in C : M[g].provokes = L[g].provokes
      OBVIOUS
    <3> QED
      BY <1>4, <3>1, CallsMember
  <2> QED
    BY <2>1
<1> QED
  BY <1>3, <1>5 DEF AllOf

\* A file that parses has no parse error.
LEMMA NoParseError ==
    ASSUME NEW L \in Views, NEW f \in Files, ~L[f].broken, NEW S \in SUBSET Files
    PROVE  Diag(f, "parse") \notin AllOf(L, f, S)
<1>1. \A g \in Files : TextRecord(L[g])
  BY LspAssumption DEF Views
<1>2. "parse" \notin L[f].own /\ "parse" \notin L[f].uses
  BY <1>1 DEF TextRecord
<1>3. \A g \in Files : \A d \in L[g].provokes : d.key # "parse"
  BY <1>1 DEF TextRecord
<1>4. Diag(f, "parse") \notin Says(L, f)
  BY <1>2 DEF Says, Diag
<1>5. Diag(f, "parse").key = "parse"
  BY DEF Diag
<1>6. Diag(f, "parse") \notin Calls(L, f, S)
  BY <1>3, <1>5, CallsMember
<1> QED
  BY <1>4, <1>6 DEF AllOf

-----------------------------------------------------------------------------
(***************************************************************************)
(* The invariant of publication.  The verified files import nothing that   *)
(* is not verified.  A push client shows of each reconciled open document  *)
(* what is said of it now, unless it does not parse or its own handler is  *)
(* about to publish it; the documents republish_all_open has not yet come  *)
(* to need not be reconciled.  A refresh client that has not been told to  *)
(* ask again has a current report of all but those still to be reported.   *)
(***************************************************************************)
Settled(f) ==
    f \in checked /\ (~Loaded[f].broken => shown[f] = AllOf(Loaded, f, checked))

Covered(f) ==
    /\ f \in checked
    /\ Says(Loaded, f) \subseteq shown[f]
    /\ shown[f] \subseteq AllOf(Loaded, f, checked)

PushInv ==
    /\ hash = shown
    /\ job.phase \in {"idle", "primary", "republish"}
    /\ job.phase # "primary" => synced \ job.todo \subseteq reconciled
    /\ \A f \in reconciled \cap synced :
         Settled(f) \/ (job.phase = "primary" /\ job.src = f)

PullInv ==
    /\ job.phase \in {"idle", "primary", "report"}
    /\ client = "refresh" /\ ~nudged /\ job.phase # "primary" =>
         \A f \in synced \ job.todo : Covered(f)

ShowInv ==
    /\ TInv
    /\ ClosedIn(Loaded, checked)
    /\ DOMAIN shown = Files
    /\ job.phase = "idle" => job.todo = {}
    /\ proto = "PRE_INIT" => client = "push" /\ synced = {} /\ job = Idle
    /\ IF client = "push" THEN PushInv ELSE PullInv

\* The texts a compile finds are texts of the workspace.
LEMMA LoadedView ==
    ASSUME ShowInv
    PROVE  Loaded \in Views
BY DEF ShowInv, TInv, EInv, Types, Loaded, Views

\* A compile reads the same texts before and after, and verifies the closure.
LEMMA CompileView ==
    ASSUME ShowInv, NEW f \in Files, Compile(f), UNCHANGED disk
    PROVE  /\ Loaded' = Loaded
           /\ checked' = checked \cup Reach(Loaded, f)
           /\ ClosedIn(Loaded, checked')
           /\ f \in checked'
           /\ LiveAfter(f) = checked'
<1>1. Closure(f) = Reach(Loaded, f) /\ Closure(f) \subseteq Files
  BY ViewNow, ReachFacts
<1>2. checked' = checked \cup Reach(Loaded, f) /\ LiveAfter(f) = checked'
  BY <1>1 DEF Compile, LiveAfter
<1>3. \A g \in Files : Loaded[g] \in Texts /\ Loaded[g] # None
  BY LoadedView, LspAssumption DEF Views
<1>4. ASSUME NEW g \in Files
      PROVE  Loaded'[g] = Loaded[g]
  <2>1. text'[g] = IF g \in Closure(f) THEN Loaded[g] ELSE text[g]
    BY DEF Compile
  <2>2. Loaded'[g] = IF text'[g] = None THEN disk[g] ELSE text'[g]
    BY DEF Loaded
  <2>3. Loaded[g] = IF text[g] = None THEN disk[g] ELSE text[g]
    BY DEF Loaded
  <2> QED
    BY <1>3, <2>1, <2>2, <2>3
<1>5. Loaded' = Loaded
  BY <1>4 DEF Loaded
<1>6. ClosedIn(Loaded, checked')
  <2>1. checked \subseteq Files /\ \A h \in checked : Loaded[h].imports \subseteq checked
    BY DEF ShowInv, ClosedIn
  <2>2. ASSUME NEW h \in Reach(Loaded, f)
        PROVE  Loaded[h].imports \subseteq Reach(Loaded, f)
    <3>1. h \in Files
      BY ReachFacts
    <3>2. Loaded[h].imports \subseteq Files
      BY <1>3, <3>1, LspAssumption DEF TextRecord
    <3> QED
      BY <3>2 DEF Reach
  <2> QED
    BY <1>1, <1>2, <2>1, <2>2 DEF ClosedIn
<1> QED
  BY <1>2, <1>5, <1>6, ReachFacts

\* publish_grouped settles the files it publishes and leaves settled those that
\* it skips: a file with the same hash shows that list already, a file outside
\* the closure is told nothing new, and one with nothing said of it had nothing
\* said of it before.
LEMMA PublishSettles ==
    ASSUME ShowInv, client = "push", NEW f \in Files, Compile(f), UNCHANGED disk,
           PublishGrouped(f), UNCHANGED synced, job.phase = "primary" => job.src = f
    PROVE  /\ hash' = shown' /\ DOMAIN shown' = Files
           /\ reconciled \subseteq reconciled' /\ f \in reconciled'
           /\ \A g \in reconciled' \cap synced : Settled(g)'
<1> DEFINE L == Loaded
           T == checked'
           list == [g \in Files |-> Collected(g, LiveAfter(f))]
           out  == {g \in Receivers(f) : Sends(g, list[g])}
<1>1. /\ reconciled' = reconciled \cup Receivers(f)
      /\ hash'  = [g \in Files |-> IF g \in out THEN list[g] ELSE hash[g]]
      /\ shown' = [g \in Files |-> IF g \in out THEN list[g] ELSE shown[g]]
  BY DEF PublishGrouped
<1>2. /\ Loaded' = L /\ T = checked \cup Reach(L, f) /\ ClosedIn(L, T)
      /\ f \in T /\ LiveAfter(f) = T /\ L \in Views
  BY CompileView, LoadedView
<1>3. hash = shown /\ \A g \in reconciled \cap synced :
                        Settled(g) \/ (job.phase = "primary" /\ job.src = g)
  BY DEF ShowInv, PushInv
<1>4. hash' = shown' /\ DOMAIN shown' = Files
  BY <1>1, <1>3
<1>5. \A g \in Files : list[g] = AllOf(L, g, T)
  <2> TAKE g \in Files
  <2>1. list[g] = Collected(g, LiveAfter(f))
    OBVIOUS
  <2> QED
    BY <1>2, <2>1, ViewNow
<1>6. /\ Receivers(f) = {f} \cup {g \in Closure(f) \cap synced : Collected(g, LiveAfter(f)) # {}}
      /\ Closure(f) = Reach(L, f) /\ Reach(L, f) \subseteq Files
  BY ViewNow, ReachFacts DEF Receivers
<1> HIDE DEF L, T, list
<1>7. \A g : g \in Receivers(f) <=> g = f \/ (g \in Reach(L, f) \cap synced /\ AllOf(L, g, T) # {})
  BY <1>2, <1>6, ViewNow DEF L
<1>8. f \in reconciled' /\ reconciled \subseteq reconciled'
  BY <1>1, <1>7
<1>9. ASSUME NEW g \in reconciled' \cap synced
      PROVE  g \in T /\ (~L[g].broken => shown'[g] = AllOf(L, g, T))
  <2>1. g \in Files
    BY DEF ShowInv, TInv, TypeOK
  <2>2. CASE g \in Receivers(f)
    <3>1. g \in T
      BY <1>2, <1>7, <2>2
    <3>2. ASSUME ~L[g].broken
          PROVE  shown'[g] = AllOf(L, g, T)
      <4>1. Diag(g, "parse") \notin list[g]
        <5>1. T \in SUBSET Files
          BY <1>2 DEF ClosedIn
        <5> QED
          BY <1>2, <1>5, <2>1, <3>2, <5>1, NoParseError
      <4>2. CASE Sends(g, list[g])
        BY <1>1, <1>5, <2>1, <2>2, <4>2
      <4>3. CASE ~Sends(g, list[g])
        <5>1. list[g] = hash[g] /\ g \notin out
          BY <4>1, <4>3 DEF Sends
        <5> QED
          BY <1>1, <1>3, <1>5, <2>1, <5>1
      <4> QED
        BY <4>2, <4>3
    <3> QED
      BY <3>1, <3>2
  <2>3. CASE g \notin Receivers(f)
    <3>1. g \in reconciled /\ g # f /\ shown'[g] = shown[g]
      BY <1>1, <1>7, <2>1, <2>3
    <3>2. Settled(g)
      BY <1>3, <3>1
    <3>3. AllOf(L, g, T) = AllOf(L, g, checked)
      <4>1. CASE g \notin Reach(L, f)
        BY <1>2, <2>1, <4>1, AllOfOutside
      <4>2. CASE g \in Reach(L, f)
        <5>1. AllOf(L, g, T) = {}
          BY <1>7, <2>3, <4>2
        <5>2. AllOf(L, g, checked) \subseteq AllOf(L, g, T)
          BY <1>2, AllOfMono
        <5> QED
          BY <5>1, <5>2
      <4> QED
        BY <4>1, <4>2
    <3> QED
      BY <1>2, <3>1, <3>2, <3>3 DEF Settled, L
  <2> QED
    BY <2>2, <2>3
<1> QED
  BY <1>2, <1>4, <1>8, <1>9 DEF Settled, L, T

\* One file verified more leaves a report current.
LEMMA CompileCovers ==
    ASSUME ShowInv, NEW f \in Files, Compile(f), UNCHANGED disk,
           NEW g, Covered(g), shown'[g] = shown[g]
    PROVE  Covered(g)'
<1>1. Loaded' = Loaded /\ checked \subseteq checked'
  BY CompileView
<1>2. AllOf(Loaded, g, checked) \subseteq AllOf(Loaded, g, checked')
  BY <1>1, AllOfMono
<1> QED
  BY <1>1, <1>2 DEF Covered

\* A report is current of its file and leaves the others' current.
LEMMA ReportCovers ==
    ASSUME ShowInv, NEW f \in Files, Report(f), UNCHANGED disk
    PROVE  /\ ClosedIn(Loaded, checked)' /\ DOMAIN shown' = Files
           /\ Covered(f)'
           /\ \A g \in Files : Covered(g) => Covered(g)'
<1>1. Compile(f) /\ shown' = [shown EXCEPT ![f] = Collected(f, LiveAfter(f))]
  BY DEF Report
<1>2. /\ Loaded' = Loaded /\ checked' = checked \cup Reach(Loaded, f) /\ f \in checked'
      /\ ClosedIn(Loaded, checked') /\ LiveAfter(f) = checked'
  BY <1>1, CompileView
<1>3. Collected(f, LiveAfter(f)) = AllOf(Loaded, f, checked')
  BY <1>2, ViewNow
<1>4. DOMAIN shown' = Files /\ shown'[f] = AllOf(Loaded, f, checked')
      /\ \A g \in Files : g # f => shown'[g] = shown[g]
  BY <1>1, <1>3 DEF ShowInv
<1>5. Says(Loaded, f) \subseteq AllOf(Loaded, f, checked')
  BY AllOfMono
<1>6. Covered(f)'
  BY <1>2, <1>4, <1>5 DEF Covered
<1>7. ASSUME NEW g \in Files, Covered(g), g # f
      PROVE  Covered(g)'
  BY <1>1, <1>4, <1>7, CompileCovers
<1> QED
  BY <1>2, <1>4, <1>6, <1>7

\* Texts set to what they were are read as they were, and texts set to
\* something else leave nothing verified or reconciled.
LEMMA SetTextsView ==
    ASSUME ShowInv, NEW new, SetTexts(new), UNCHANGED disk
    PROVE  /\ ClosedIn(Loaded, checked)'
           /\ reconciled' \subseteq reconciled
           /\ \A f \in reconciled' : shown'[f] = shown[f] /\ Settled(f) => Settled(f)'
<1>1. CASE new = text
  <2>1. text' = text /\ checked' = checked /\ reconciled' = reconciled
    BY <1>1 DEF SetTexts
  <2>2. Loaded' = Loaded
    BY <2>1 DEF Loaded
  <2> QED
    BY <2>1, <2>2 DEF ShowInv, Settled
<1>2. CASE new # text
  BY <1>2 DEF SetTexts, ClosedIn
<1> QED
  BY <1>1, <1>2

\* A text set by the editor: its handler goes on to publish it.
LEMMA SyncShows ==
    ASSUME ShowInv, Ready, NEW f \in Files, NEW t, NEW v, Sync(f, t, v), TInv',
           UNCHANGED <<proto, client, shown, nudged, disk>>
    PROVE  ShowInv'
<1>1. /\ SetTexts([text EXCEPT ![f] = t]) /\ synced' = synced \cup {f}
      /\ job' = [phase |-> "primary", src |-> f, todo |-> {}] /\ hash' = hash
  BY DEF Sync
<1>2. /\ ClosedIn(Loaded, checked)' /\ reconciled' \subseteq reconciled
      /\ \A g \in reconciled' : Settled(g) => Settled(g)'
  BY <1>1, SetTextsView
<1>3. proto = "READY" /\ job = Idle /\ job.phase = "idle"
  BY DEF Ready, Idle
<1>4. client = "push" => PushInv'
  <2> SUFFICES ASSUME client = "push", NEW g \in reconciled' \cap synced', g # f
               PROVE  Settled(g)'
    BY <1>1 DEF PushInv, ShowInv
  <2>1. Settled(g)
    BY <1>1, <1>2, <1>3 DEF ShowInv, PushInv
  <2> QED
    BY <1>2, <2>1
<1>5. client # "push" => PullInv'
  BY <1>1 DEF PullInv
<1> QED
  BY <1>1, <1>2, <1>3, <1>4, <1>5 DEF ShowInv

\* A step that leaves all of it alone.
LEMMA ShowKeeps ==
    ASSUME ShowInv, TInv', UNCHANGED <<proto, client, text, checked, synced, hash,
                                       reconciled, job, shown, nudged, disk>>
    PROVE  ShowInv'
<1>1. Loaded' = Loaded
  BY DEF Loaded
<1> QED
  BY <1>1 DEF ShowInv, PushInv, PullInv, Settled, Covered

\* handle_initialize
LEMMA InitializeShows ==
    ASSUME ShowInv, TInv', Initialize
    PROVE  ShowInv'
<1>1. /\ proto = "PRE_INIT" /\ proto' = "READY" /\ client' \in {"push", "pull", "refresh"}
      /\ UNCHANGED <<text, checked, synced, hash, reconciled, job, shown, nudged, disk>>
  BY DEF Initialize, dbVars, draftVars
<1>2. synced = {} /\ job.phase = "idle"
  BY <1>1 DEF ShowInv, Idle
<1>3. Loaded' = Loaded
  BY <1>1 DEF Loaded
<1>4. PullInv'
  BY <1>1, <1>2 DEF PullInv
<1>5. client' = "push" => PushInv'
  <2>1. hash = shown
    BY <1>1 DEF ShowInv, PushInv
  <2> QED
    BY <1>1, <1>2, <2>1 DEF PushInv
<1> QED
  BY <1>1, <1>2, <1>3, <1>4, <1>5 DEF ShowInv

\* The file of the handler is published, and republish_all_open takes the
\* others; a pull client is told to ask again.
LEMMA PrimaryShows ==
    ASSUME ShowInv, TInv', Primary
    PROVE  ShowInv'
<1> DEFINE f == job.src
<1>1. /\ job.phase = "primary" /\ Compile(f) /\ RepublishAllOpen(f)
      /\ IF client = "push" THEN PublishGrouped(f) ELSE Unpublished
      /\ UNCHANGED <<synced, proto, client, disk>>
  BY DEF Primary
<1>2. f \in Files
  BY <1>1 DEF ShowInv, TInv, JobSource
<1> HIDE DEF f
<1>3. ClosedIn(Loaded, checked)'
  BY <1>1, <1>2, CompileView
<1>4. proto # "PRE_INIT"
  BY <1>1 DEF ShowInv, Idle
<1>5. CASE client = "push"
  <2>1. PublishGrouped(f) /\ job' = Loop("republish", synced \ {f}) /\ client' = "push"
    BY <1>1, <1>5 DEF RepublishAllOpen
  <2>2. /\ hash' = shown' /\ DOMAIN shown' = Files /\ f \in reconciled'
        /\ \A g \in reconciled' \cap synced : Settled(g)'
    BY <1>1, <1>2, <1>5, <2>1, PublishSettles DEF f
  <2>3. /\ job'.todo = synced \ {f} /\ job'.phase \in {"idle", "republish"}
        /\ job'.phase = "idle" => job'.todo = {}
    BY <2>1 DEF Loop, Idle
  <2>4. PushInv'
    BY <1>1, <2>2, <2>3 DEF PushInv
  <2> QED
    BY <1>1, <1>3, <1>4, <2>1, <2>2, <2>3, <2>4 DEF ShowInv
<1>6. CASE client # "push"
  <2>1. /\ job' = Idle /\ nudged' = (nudged \/ client = "refresh") /\ shown' = shown
        /\ client' = client
    BY <1>1, <1>6 DEF RepublishAllOpen, Unpublished
  <2>2. PullInv'
    BY <2>1 DEF PullInv, Idle
  <2>3. DOMAIN shown' = Files /\ (job'.phase = "idle" => job'.todo = {})
    BY <2>1 DEF ShowInv, Idle
  <2> QED
    BY <1>1, <1>3, <1>4, <1>6, <2>1, <2>2, <2>3 DEF ShowInv
<1> QED
  BY <1>5, <1>6

\* One document is republished, or skipped because it is reconciled.
LEMMA RepublishShows ==
    ASSUME ShowInv, TInv', NEW f \in Files, RepublishOne(f)
    PROVE  ShowInv'
<1>1. /\ job.phase = "republish" /\ f \in job.todo
      /\ IF f \in reconciled THEN UNCHANGED <<text, checked, reconciled, hash, shown>>
         ELSE Compile(f) /\ PublishGrouped(f)
      /\ job' = Loop("republish", job.todo \ {f})
      /\ UNCHANGED <<synced, proto, client, disk, nudged>>
  BY DEF RepublishOne, dbVars, Unpublished
<1>2. client = "push" /\ client' = "push" /\ PushInv /\ proto # "PRE_INIT"
  BY <1>1 DEF ShowInv, PullInv, Idle
<1>3. /\ job'.todo = job.todo \ {f} /\ job'.phase \in {"idle", "republish"}
      /\ job'.phase = "idle" => job'.todo = {}
  BY <1>1 DEF Loop, Idle
<1>4. /\ hash' = shown' /\ DOMAIN shown' = Files /\ ClosedIn(Loaded, checked)'
      /\ reconciled \subseteq reconciled' /\ f \in reconciled'
      /\ \A g \in reconciled' \cap synced : Settled(g)'
  <2>1. CASE f \in reconciled
    <3>1. UNCHANGED <<text, checked, reconciled, hash, shown>>
      BY <1>1, <2>1
    <3>2. Loaded' = Loaded
      BY <1>1, <3>1 DEF Loaded
    <3> QED
      BY <1>1, <1>2, <2>1, <3>1, <3>2 DEF ShowInv, PushInv, Settled
  <2>2. CASE f \notin reconciled
    <3>1. Compile(f) /\ PublishGrouped(f)
      BY <1>1, <2>2
    <3>2. ClosedIn(Loaded, checked)'
      BY <1>1, <3>1, CompileView
    <3> QED
      BY <1>1, <1>2, <3>1, <3>2, PublishSettles
  <2> QED
    BY <2>1, <2>2
<1>5. synced' \ job'.todo \subseteq reconciled'
  BY <1>1, <1>2, <1>3, <1>4 DEF PushInv
<1>6. PushInv'
  BY <1>1, <1>3, <1>4, <1>5 DEF PushInv
<1> QED
  BY <1>1, <1>2, <1>3, <1>4, <1>6 DEF ShowInv

\* One document is reported.
LEMMA ReportShows ==
    ASSUME ShowInv, TInv', NEW f \in Files, ReportOne(f)
    PROVE  ShowInv'
<1>1. /\ job.phase = "report" /\ f \in job.todo /\ Report(f)
      /\ job' = Loop("report", job.todo \ {f})
      /\ UNCHANGED <<synced, proto, client, disk, nudged>>
  BY DEF ReportOne
<1>2. client # "push" /\ PullInv /\ proto # "PRE_INIT"
  BY <1>1 DEF ShowInv, PushInv, Idle
<1>3. /\ job'.todo = job.todo \ {f} /\ job'.phase \in {"idle", "report"}
      /\ job'.phase = "idle" => job'.todo = {}
  BY <1>1 DEF Loop, Idle
<1>4. /\ ClosedIn(Loaded, checked)' /\ DOMAIN shown' = Files
      /\ Covered(f)' /\ \A g \in Files : Covered(g) => Covered(g)'
  BY <1>1, ReportCovers
<1>5. PullInv'
  <2> SUFFICES ASSUME client = "refresh", ~nudged, NEW g \in synced \ job'.todo
               PROVE  Covered(g)'
    BY <1>1, <1>3 DEF PullInv
  <2>1. g \in Files
    BY DEF ShowInv, TInv, TypeOK
  <2>2. g = f \/ Covered(g)
    BY <1>1, <1>2, <1>3 DEF PullInv
  <2> QED
    BY <1>4, <2>1, <2>2
<1> QED
  BY <1>1, <1>2, <1>3, <1>4, <1>5 DEF ShowInv

\* A document report.
LEMMA DocumentShows ==
    ASSUME ShowInv, TInv', NEW f \in Files, DocumentDiagnostic(f)
    PROVE  ShowInv'
<1>1. /\ Ready /\ client # "push" /\ Report(f)
      /\ UNCHANGED <<synced, proto, client, disk, nudged, job>>
  BY DEF DocumentDiagnostic
<1>2. PullInv /\ proto # "PRE_INIT"
  BY <1>1 DEF ShowInv, Ready
<1>3. /\ ClosedIn(Loaded, checked)' /\ DOMAIN shown' = Files
      /\ \A g \in Files : Covered(g) => Covered(g)'
  BY <1>1, ReportCovers
<1>4. PullInv'
  <2>1. synced \subseteq Files
    BY DEF ShowInv, TInv, TypeOK
  <2> QED
    BY <1>1, <1>2, <1>3, <2>1 DEF PullInv
<1> QED
  BY <1>1, <1>2, <1>3, <1>4 DEF ShowInv

\* A query of an open document: for a push client it is verified already.
LEMMA AskShows ==
    ASSUME ShowInv, TInv', NEW f \in Files, Ask(f)
    PROVE  ShowInv'
<1>1. /\ Ready /\ buffer[f] # None /\ Compile(f)
      /\ UNCHANGED <<proto, client, synced, hash, reconciled, job, shown, nudged, disk>>
  BY DEF Ask, draftVars
<1>2. f \in synced /\ synced \subseteq Files
  BY <1>1 DEF ShowInv, TInv, EInv, Drafts, TypeOK
<1>3. /\ Loaded' = Loaded /\ checked' = checked \cup Reach(Loaded, f)
      /\ ClosedIn(Loaded, checked')
  BY <1>1, CompileView
<1>4. job.phase = "idle" /\ job.todo = {}
  BY <1>1 DEF Ready, Idle
<1>5. client = "push" => PushInv'
  <2> SUFFICES ASSUME client = "push"
               PROVE  PushInv'
    OBVIOUS
  <2>1. f \in checked
    BY <1>2, <1>4 DEF ShowInv, PushInv, Settled
  <2>2. Reach(Loaded, f) \subseteq checked
    BY <2>1, ReachFrame DEF ShowInv
  <2>3. checked' = checked
    BY <1>3, <2>2
  <2> QED
    BY <1>1, <1>3, <2>3 DEF ShowInv, PushInv, Settled
<1>6. client # "push" => PullInv'
  <2> SUFFICES ASSUME client # "push", client = "refresh", ~nudged, NEW g \in synced
               PROVE  Covered(g)'
    BY <1>1, <1>4 DEF PullInv, ShowInv
  <2>1. Covered(g)
    BY <1>4 DEF ShowInv, PullInv
  <2> QED
    BY <1>1, <2>1, CompileCovers
<1> QED
  BY <1>1, <1>3, <1>5, <1>6 DEF ShowInv

\* A closed document is no longer answered for.
LEMMA CloseShows ==
    ASSUME ShowInv, TInv', NEW f \in Files, DidClose(f)
    PROVE  ShowInv'
<1>1. /\ synced' = synced \ {f}
      /\ UNCHANGED <<proto, client, text, checked, hash, reconciled, job, shown, nudged, disk>>
  BY DEF DidClose, dbVars
<1>2. Loaded' = Loaded
  BY <1>1 DEF Loaded
<1> QED
  BY <1>1, <1>2 DEF ShowInv, PushInv, PullInv, Settled, Covered

\* Everything is to be reported.
LEMMA WorkspaceDiagnosticShows ==
    ASSUME ShowInv, TInv', WorkspaceDiagnostic
    PROVE  ShowInv'
<1>1. /\ Ready /\ client # "push" /\ job' = Loop("report", synced)
      /\ UNCHANGED <<proto, client, text, checked, synced, shown, disk>>
  BY DEF WorkspaceDiagnostic, dbVars, draftVars
<1>2. /\ job'.todo = synced /\ job'.phase \in {"idle", "report"}
      /\ job'.phase = "idle" => job'.todo = {}
  BY <1>1 DEF Loop, Idle
<1>3. Loaded' = Loaded
  BY <1>1 DEF Loaded
<1>4. PullInv'
  BY <1>1, <1>2 DEF PullInv
<1> QED
  BY <1>1, <1>2, <1>3, <1>4 DEF ShowInv, Ready

\* Changes the watcher reports: every open document is looked at again.
LEMMA WatchedShows ==
    ASSUME ShowInv, TInv', NEW S \in SUBSET Files, DidChangeWatchedFiles(S)
    PROVE  ShowInv'
<1> DEFINE new == [f \in Files |-> IF f \in S /\ text[f] # None THEN disk[f] ELSE text[f]]
<1>1. /\ Ready /\ SetTexts(new) /\ RepublishAllOpen(None)
      /\ UNCHANGED <<synced, hash, proto, client, shown, disk>>
  BY DEF DidChangeWatchedFiles
<1> HIDE DEF new
<1>2. /\ ClosedIn(Loaded, checked)' /\ reconciled' \subseteq reconciled
      /\ \A f \in reconciled' : Settled(f) => Settled(f)'
  BY <1>1, SetTextsView
<1>3. proto # "PRE_INIT" /\ job.phase = "idle"
  BY <1>1 DEF Ready, Idle
<1>4. CASE client = "push"
  <2>1. job' = Loop("republish", synced \ {None})
    BY <1>1, <1>4 DEF RepublishAllOpen
  <2>2. synced \ {None} = synced
    BY LspAssumption DEF ShowInv, TInv, TypeOK
  <2>3. /\ job'.todo = synced /\ job'.phase \in {"idle", "republish"}
        /\ job'.phase = "idle" => job'.todo = {}
    BY <2>1, <2>2 DEF Loop, Idle
  <2>4. \A f \in reconciled' \cap synced : Settled(f)'
    BY <1>2, <1>3, <1>4 DEF ShowInv, PushInv
  <2>5. PushInv'
    BY <1>1, <1>4, <2>3, <2>4 DEF ShowInv, PushInv
  <2> QED
    BY <1>1, <1>2, <1>3, <1>4, <2>3, <2>5 DEF ShowInv
<1>5. CASE client # "push"
  <2>1. job' = Idle /\ nudged' = (nudged \/ client = "refresh")
    BY <1>1, <1>5 DEF RepublishAllOpen
  <2>2. PullInv' /\ (job'.phase = "idle" => job'.todo = {})
    BY <1>1, <2>1 DEF PullInv, Idle
  <2> QED
    BY <1>1, <1>2, <1>3, <1>5, <2>2 DEF ShowInv
<1> QED
  BY <1>4, <1>5

\* A write to the disk is not seen by the verified files: they are loaded, and
\* so is all that they import.
LEMMA WriteShows ==
    ASSUME ShowInv, TInv', NEW f \in Files, NEW t, Write(f, t)
    PROVE  ShowInv'
<1>1. /\ UNCHANGED <<proto, client, text, checked, synced, hash, reconciled, job, shown, nudged>>
  BY DEF Write, serverVars, dbVars, draftVars
<1>2. \A h \in checked : Loaded'[h] = Loaded[h]
  BY <1>1 DEF ShowInv, TInv, TypeOK, Loaded
<1> DEFINE L == Loaded
           M == Loaded'
<1>3. ClosedIn(L, checked) /\ \A h \in checked : M[h] = L[h]
  BY <1>2 DEF ShowInv
<1> HIDE DEF L, M
<1>4. ClosedIn(M, checked)
  BY <1>3 DEF ClosedIn
<1>5. \A h \in checked : Says(M, h) = Says(L, h) /\ AllOf(M, h, checked) = AllOf(L, h, checked)
  BY <1>3, AllOfFrame
<1>6. \A h : Settled(h) => Settled(h)'
  BY <1>1, <1>3, <1>5 DEF Settled, L, M
<1>7. \A h : Covered(h) => Covered(h)'
  BY <1>1, <1>3, <1>5 DEF Covered, L, M
<1>8. client = "push" => PushInv'
  BY <1>1, <1>6 DEF ShowInv, PushInv
<1>9. client # "push" => PullInv'
  BY <1>1, <1>7 DEF ShowInv, PullInv
<1> QED
  BY <1>1, <1>4, <1>8, <1>9 DEF ShowInv, M

-----------------------------------------------------------------------------
LEMMA ShowInit == Init => ShowInv
<1> SUFFICES ASSUME Init PROVE ShowInv
  OBVIOUS
<1>1. TInv
  BY EInvInit DEF TInv, Init, TypeOK, JobSource, Idle
<1> QED
  BY <1>1 DEF Init, ShowInv, ClosedIn, PushInv, Idle

\* Every step keeps the invariant of publication.
LEMMA ShowStep == ShowInv /\ [Next]_vars => ShowInv'
<1> SUFFICES ASSUME ShowInv, [Next]_vars PROVE ShowInv'
  OBVIOUS
<1>1. TInv'
  BY TInvStep DEF ShowInv
<1>2. ASSUME NEW f \in Files, DidOpen(f) PROVE ShowInv'
  BY <1>1, <1>2, SyncShows DEF DidOpen
<1>3. ASSUME NEW m \in packets, DidChange(m) PROVE ShowInv'
  <2>1. CASE Stale(m)
    BY <1>1, <1>3, <2>1, ShowKeeps DEF DidChange, dbVars, draftVars
  <2>2. CASE ~Stale(m)
    <3>1. m.file \in Files
      BY DEF ShowInv, TInv, EInv, Types, Packets
    <3> QED
      BY <1>1, <1>3, <2>2, <3>1, SyncShows DEF DidChange
  <2> QED
    BY <2>1, <2>2
<1>4. ASSUME NEW f \in Files, NEW t \in TextsOf[f], Type(f, t) PROVE ShowInv'
  BY <1>1, <1>4, ShowKeeps DEF Type, serverVars, dbVars, draftVars
<1>5. CASE Shutdown
  <2>1. /\ proto' = "SHUTDOWN"
        /\ UNCHANGED <<client, text, checked, synced, hash, reconciled, job, shown, nudged, disk>>
    BY <1>5 DEF Shutdown, dbVars, draftVars
  <2>2. Loaded' = Loaded
    BY <2>1 DEF Loaded
  <2> QED
    BY <1>1, <2>1, <2>2 DEF ShowInv, PushInv, PullInv, Settled, Covered
<1>6. CASE UNCHANGED vars
  BY <1>1, <1>6, ShowKeeps DEF vars, serverVars, dbVars, draftVars
<1> QED
  BY <1>1, <1>2, <1>3, <1>4, <1>5, <1>6, InitializeShows, PrimaryShows, RepublishShows,
     ReportShows, DocumentShows, AskShows, CloseShows, WorkspaceDiagnosticShows,
     WatchedShows, WriteShows DEF Next, HandlerStep

\* publish_grouped and republish_all_open: between two messages a push client
\* shows, for each open document that parses, what the compiler says of it now.
THEOREM PublishedCurrent == Spec => []PublishedIsCurrent
<1>1. ShowInv => PublishedIsCurrent
  <2> SUFFICES ASSUME ShowInv, Ready, client = "push", NEW f \in synced, ~text[f].broken
               PROVE  shown[f] = Collected(f, checked)
    BY DEF PublishedIsCurrent
  <2>1. f \in Files /\ Loaded[f] = text[f]
    BY DEF ShowInv, TInv, TypeOK, Loaded
  <2>2. Settled(f)
    BY DEF ShowInv, PushInv, Ready, Idle
  <2> QED
    BY <2>1, <2>2, ViewNow DEF Settled
<1> QED
  BY <1>1, ShowInit, ShowStep, PTL DEF Spec

\* republish_all_open, the pull path: a refresh client that has not been told to
\* ask again is missing nothing an open document and its imports say now, and
\* shows nothing the compiler does not say.
THEOREM NudgeCovers == Spec => []NudgeCoversChange
<1>1. ShowInv => NudgeCoversChange
  <2> SUFFICES ASSUME ShowInv, Ready, client = "refresh", ~nudged, NEW f \in synced
               PROVE  Standing(f) \subseteq shown[f] /\ shown[f] \subseteq Collected(f, checked)
    BY DEF NudgeCoversChange
  <2>1. Covered(f)
    BY DEF ShowInv, PullInv, Ready, Idle
  <2> QED
    BY <2>1, ViewNow DEF Covered
<1> QED
  BY <1>1, ShowInit, ShowStep, PTL DEF Spec
=============================================================================
