--------------------------- MODULE LanguageServer ---------------------------
(***************************************************************************)
(* Documents of the language server: crates/trust-lsp/src/state/,          *)
(* handlers/sync.rs and handlers/workspace.rs, and the sources of a        *)
(* project, crates/trust-hir/src/project.rs.                               *)
(*                                                                         *)
(* A document is known in two places, each behind its own lock: the        *)
(* documents, with what the editor has, and the project, with what is      *)
(* analysed.  Handlers of notifications run one after the other; indexing  *)
(* runs in a task of its own, beside them.  Every operation takes the two  *)
(* locks one after the other, so the two tasks can come in between.        *)
(***************************************************************************)
EXTENDS Naturals, Sequences, FiniteSets

CONSTANTS
  Uris,        \* files of the workspace
  Texts,       \* their contents
  NoText,      \* no file, no document, no source
  Budget,      \* memory_budget_mb: closed documents of one size
  EvictTo,     \* evict_to_percent: down to so many
  MaxNotes,    \* bound: notifications
  MaxIndexings \* bound: runs of the background task

ASSUME LspAssumption ==
  /\ NoText \notin Texts /\ Budget \in Nat /\ EvictTo \in 0..Budget
  /\ MaxNotes \in Nat /\ MaxIndexings \in Nat

Tasks == {"handler", "indexer"}

VARIABLES
  onDisk,       \* per file: what it contains
  docs,       \* ServerState.documents: text and is_open
  sources,    \* the texts in ServerState.project
  access,     \* documents, the one that was not touched for longest first
  lpc, lloc,  \* per task: where it is; the file, its text, and what is still to do
  overlapped, \* files that both tasks worked on at once (history)
  notes, indexings \* counters for the bounds

lspVars == <<onDisk, docs, sources, access, lpc, lloc, overlapped, notes, indexings>>

MaybeText == Texts \cup {NoText}
NoDoc     == [text |-> NoText, open |-> FALSE]
NoWork    == [uri |-> CHOOSE u \in Uris : TRUE, text |-> NoText, todo |-> {}]
LspPcs    == {"idle", "open", "update", "index", "index_source", "index_doc", "remove_source",
              "budget", "evict", "evict_source", "next"}

LspTypeOK ==
  /\ onDisk \in [Uris -> MaybeText] /\ sources \in [Uris -> MaybeText]
  /\ docs \in [Uris -> [text : MaybeText, open : BOOLEAN]]
  /\ \A u \in Uris : docs[u].text = NoText => docs[u] = NoDoc
  /\ access \in Seq(Uris)
  /\ lpc \in [Tasks -> LspPcs]
  /\ lloc \in [Tasks -> [uri : Uris, text : MaybeText, todo : SUBSET Uris]]
  /\ overlapped \subseteq Uris /\ notes \in 0..MaxNotes /\ indexings \in 0..MaxIndexings

LspInit ==
  /\ onDisk \in [Uris -> Texts] /\ docs = [u \in Uris |-> NoDoc]
  /\ sources = [u \in Uris |-> NoText] /\ access = <<>>
  /\ lpc = [t \in Tasks |-> "idle"] /\ lloc = [t \in Tasks |-> NoWork]
  /\ overlapped = {} /\ notes = 0 /\ indexings = 0

LGoto(t, here, there) == lpc[t] = here /\ lpc' = [lpc EXCEPT ![t] = there]

\* Between the two locks of an operation on a file.
Halfway(t, u) ==
  lpc[t] \in {"open", "update", "index_source", "index_doc", "remove_source", "evict_source"}
    /\ lloc[t].uri = u

Working(t, u) ==
  overlapped' = overlapped \cup {v \in {u} : \E o \in Tasks \ {t} : Halfway(o, v)}

Touched(u) == Append(SelectSeq(access, LAMBDA v : v # u), u)

SetDoc(u, text, open) ==
  /\ docs' = [docs EXCEPT ![u] = [text |-> text, open |-> open]]
  /\ access' = Touched(u)

\* A notification of the editor starts a handler.
Notified(there, u, text) ==
  /\ notes < MaxNotes /\ notes' = notes + 1
  /\ LGoto("handler", "idle", there)
  /\ lloc' = [lloc EXCEPT !["handler"] = [uri |-> u, text |-> text, todo |-> {}]]

-----------------------------------------------------------------------------
(***************************************************************************)
(* did_open, did_change, did_close.                                        *)
(***************************************************************************)
DidOpen(u, text) ==
  /\ ~docs[u].open
  /\ Notified("open", u, text) /\ Working("handler", u)
  /\ sources' = [sources EXCEPT ![u] = text]
  /\ UNCHANGED <<onDisk, docs, access, indexings>>

OpenDoc ==
  LET l == lloc["handler"] IN
  /\ LGoto("handler", "open", "idle")
  /\ SetDoc(l.uri, l.text, TRUE)
  /\ Working("handler", l.uri)
  /\ UNCHANGED <<onDisk, sources, lloc, notes, indexings>>

\* A change of a document that is not known is passed over.
DidChange(u, text) ==
  /\ docs[u].open
  /\ Notified("update", u, text) /\ Working("handler", u)
  /\ sources' = [sources EXCEPT ![u] = text]
  /\ UNCHANGED <<onDisk, docs, access, indexings>>

UpdateDoc ==
  LET l == lloc["handler"] IN
  /\ LGoto("handler", "update", "idle")
  /\ IF docs[l.uri] = NoDoc THEN UNCHANGED <<docs, access>> ELSE SetDoc(l.uri, l.text, TRUE)
  /\ Working("handler", l.uri)
  /\ UNCHANGED <<onDisk, sources, lloc, notes, indexings>>

DidClose(u) ==
  /\ docs[u].open
  /\ Notified("budget", u, NoText) /\ Working("handler", u)
  /\ docs' = [docs EXCEPT ![u].open = FALSE]
  /\ UNCHANGED <<onDisk, sources, access, indexings>>

-----------------------------------------------------------------------------
(***************************************************************************)
(* did_change_watched_files and did_rename_files.                          *)
(***************************************************************************)
\* A file was written: it is read and indexed.
WatchedChange(u, text) ==
  /\ onDisk' = [onDisk EXCEPT ![u] = text]
  /\ Notified("index", u, text)
  /\ UNCHANGED <<docs, sources, access, overlapped, indexings>>

\* A file was deleted, or moved away: remove_document.
WatchedDelete(u) ==
  /\ onDisk[u] # NoText /\ onDisk' = [onDisk EXCEPT ![u] = NoText]
  /\ Notified(IF docs[u] = NoDoc THEN "idle" ELSE "remove_source", u, NoText)
  /\ docs' = [docs EXCEPT ![u] = NoDoc]
  /\ access' = SelectSeq(access, LAMBDA v : v # u)
  /\ Working("handler", u)
  /\ UNCHANGED <<sources, indexings>>

RemoveSource(t) ==
  /\ \/ t = "handler" /\ LGoto(t, "remove_source", "idle")
     \/ LGoto(t, "evict_source", "evict")
  /\ sources' = [sources EXCEPT ![lloc[t].uri] = NoText]
  /\ Working(t, lloc[t].uri)
  /\ UNCHANGED <<onDisk, docs, access, lloc, notes, indexings>>

\* rename_document of an open document, with both locks held.
DidRename(u, v) ==
  /\ u # v /\ docs[u].open /\ onDisk[u] # NoText
  /\ Notified("idle", u, NoText)
  /\ onDisk' = [onDisk EXCEPT ![v] = onDisk[u], ![u] = NoText]
  /\ docs' = [docs EXCEPT ![v] = docs[u], ![u] = NoDoc]
  /\ sources' = [sources EXCEPT ![v] = docs[u].text, ![u] = NoText]
  /\ access' = [i \in 1..Len(SelectSeq(access, LAMBDA w : w # v)) |->
                  LET w == SelectSeq(access, LAMBDA x : x # v)[i] IN IF w = u THEN v ELSE w]
  /\ overlapped' = overlapped \cup {w \in {u, v} : Halfway("indexer", w)}
  /\ UNCHANGED <<indexings>>

-----------------------------------------------------------------------------
(***************************************************************************)
(* index_document_impl, in a handler or in the background.                 *)
(***************************************************************************)
After(t) == IF t = "handler" THEN "budget" ELSE "next"
Done(t)  == IF t = "handler" THEN "idle" ELSE "next"

\* Variant: only an unchanged document is passed over.
IndexCheckAnyState(t) ==
  LET l == lloc[t] IN
  /\ lpc[t] = "index"
  /\ lpc' = [lpc EXCEPT ![t] =
               IF ~docs[l.uri].open /\ docs[l.uri].text = l.text
                 THEN Done(t) ELSE "index_source"]
  /\ UNCHANGED <<onDisk, docs, sources, access, lloc, overlapped, notes, indexings>>

\* An open document, and one that has not changed, is passed over.
IndexCheck(t) ==
  LET l == lloc[t] IN
  /\ lpc[t] = "index"
  /\ lpc' = [lpc EXCEPT ![t] =
               IF docs[l.uri].open \/ docs[l.uri].text = l.text THEN Done(t) ELSE "index_source"]
  /\ UNCHANGED <<onDisk, docs, sources, access, lloc, overlapped, notes, indexings>>

IndexSource(t) ==
  LET l == lloc[t] IN
  /\ LGoto(t, "index_source", "index_doc")
  /\ sources' = [sources EXCEPT ![l.uri] = l.text]
  /\ Working(t, l.uri)
  /\ UNCHANGED <<onDisk, docs, access, lloc, notes, indexings>>

\* The document is looked at again, the source has been changed already.
IndexDoc(t) ==
  LET l == lloc[t] IN
  /\ IF docs[l.uri].open
       THEN LGoto(t, "index_doc", Done(t)) /\ UNCHANGED <<docs, access>>
       ELSE LGoto(t, "index_doc", After(t)) /\ SetDoc(l.uri, l.text, FALSE)
  /\ Working(t, l.uri)
  /\ UNCHANGED <<onDisk, sources, lloc, notes, indexings>>

-----------------------------------------------------------------------------
(***************************************************************************)
(* enforce_memory_budget: what to evict is chosen under the lock of the    *)
(* documents, which is given back before anything is removed.              *)
(***************************************************************************)
Closed == SelectSeq(access, LAMBDA u : docs[u] # NoDoc /\ ~docs[u].open)

Victims ==
  IF Len(Closed) <= Budget THEN {}
  ELSE {Closed[i] : i \in 1..(Len(Closed) - EvictTo)}

ChooseVictims(t) ==
  /\ LGoto(t, "budget", "evict")
  /\ lloc' = [lloc EXCEPT ![t].todo = Victims]
  /\ UNCHANGED <<onDisk, docs, sources, access, overlapped, notes, indexings>>

\* remove_document, whether it is still closed or not.
Evict(t) ==
  /\ lpc[t] = "evict"
  /\ IF lloc[t].todo = {}
       THEN /\ lpc' = [lpc EXCEPT ![t] = "idle"]
            /\ UNCHANGED <<docs, access, lloc, overlapped>>
       ELSE \E u \in lloc[t].todo :
              /\ lloc' = [lloc EXCEPT ![t].uri = u, ![t].todo = @ \ {u}]
              /\ docs' = [docs EXCEPT ![u] = NoDoc]
              /\ access' = SelectSeq(access, LAMBDA v : v # u)
              /\ lpc' = [lpc EXCEPT ![t] = IF docs[u] = NoDoc THEN "evict" ELSE "evict_source"]
              /\ Working(t, u)
  /\ UNCHANGED <<onDisk, sources, notes, indexings>>

-----------------------------------------------------------------------------
(***************************************************************************)
(* index_workspace, in the background; one at a time (run_background).     *)
(***************************************************************************)
StartIndexing ==
  /\ indexings < MaxIndexings /\ indexings' = indexings + 1
  /\ LGoto("indexer", "idle", "next")
  /\ lloc' = [lloc EXCEPT !["indexer"].todo = {u \in Uris : onDisk[u] # NoText}]
  /\ UNCHANGED <<onDisk, docs, sources, access, overlapped, notes>>

\* The next file: passed over when it is open or cannot be read.  The cache
\* yields what the file contained, too.
IndexNext ==
  /\ lpc["indexer"] = "next"
  /\ IF lloc["indexer"].todo = {}
       THEN lpc' = [lpc EXCEPT !["indexer"] = "budget"] /\ UNCHANGED lloc
       ELSE \E u \in lloc["indexer"].todo :
              /\ lloc' = [lloc EXCEPT !["indexer"] =
                            [uri |-> u, text |-> onDisk[u], todo |-> @.todo \ {u}]]
              /\ lpc' = [lpc EXCEPT !["indexer"] =
                           IF docs[u].open \/ onDisk[u] = NoText THEN "next" ELSE "index"]
  /\ UNCHANGED <<onDisk, docs, sources, access, overlapped, notes, indexings>>

LspNext ==
  \/ \E u \in Uris, text \in Texts :
       DidOpen(u, text) \/ DidChange(u, text) \/ WatchedChange(u, text)
  \/ \E u \in Uris : DidClose(u) \/ WatchedDelete(u) \/ \E v \in Uris : DidRename(u, v)
  \/ OpenDoc \/ UpdateDoc
  \/ \E t \in Tasks :
       RemoveSource(t) \/ IndexCheck(t) \/ IndexSource(t) \/ IndexDoc(t)
         \/ ChooseVictims(t) \/ Evict(t)
  \/ StartIndexing \/ IndexNext

LspSpec == LspInit /\ [][LspNext]_lspVars

-----------------------------------------------------------------------------
(***************************************************************************)
(* Properties                                                              *)
(***************************************************************************)
AtRest(u) == \A t \in Tasks : ~Halfway(t, u)

\* What is analysed is what the documents hold: neither has a text the other
\* has not, over opening, editing, renaming, eviction and indexing, unless both
\* tasks were inside an operation on the same file at once.
SourcesFollowDocs ==
  \A u \in Uris \ overlapped : AtRest(u) => sources[u] = docs[u].text

\* crates/trust-lsp/src/state/mod.rs: index_document "Indexes a document that is
\* not currently open".  An open document is analysed with the editor's text.
OpenIsAnalysed ==
  \A u \in Uris : AtRest(u) /\ docs[u].open => sources[u] = docs[u].text
=============================================================================
