-------------------------------- MODULE WebIde --------------------------------
(***************************************************************************)
(* The documents and sessions of the web IDE:                              *)
(* crates/trust-runtime/src/web/ide.rs, served by crates/trust-runtime/    *)
(* src/web.rs.                                                             *)
(*                                                                         *)
(* One thread serves all requests, one after the other; a request reads    *)
(* the source file, then looks at sessions and documents, then writes the  *)
(* file, and other programs may touch the file between these steps.  The   *)
(* model has the clients too: what a client last read is what its next     *)
(* edit is based on.                                                       *)
(***************************************************************************)
EXTENDS Naturals, FiniteSets

CONSTANTS
  Clients, Paths,
  Contents,      \* what a source file may hold
  Large,         \* those of them above max_file_bytes
  Torn,          \* what a write that did not finish leaves
  Absent,        \* there is no file
  None,
  Ttl,           \* session_ttl_secs
  MaxSessions,   \* max_sessions
  MaxEdits,      \* bound: changes by other programs
  MaxTokens,     \* bound: sessions created
  MaxVersion,    \* bound: version of a document
  MaxNow,        \* bound: time
  MaxLaunches    \* bound: restarts of the process

ASSUME IdeAssumption ==
  /\ Large \subseteq Contents /\ Torn \in Contents
  /\ Absent \notin Contents
  /\ Ttl \in Nat /\ MaxSessions \in Nat /\ MaxEdits \in Nat
  /\ MaxTokens \in Nat /\ MaxVersion \in Nat
  /\ MaxNow \in Nat /\ MaxLaunches \in Nat

Versions == Nat \ {0}
Tokens   == 1..MaxTokens
Roles    == {"viewer", "editor"}

ASSUME NoneAssumption ==
  /\ None \notin Tokens
  /\ None \notin [content : Contents, version : Versions]

VARIABLES
  disk,      \* the source files
  sessions,  \* IdeStateInner.sessions, a partial function of tokens
  documents, \* IdeStateInner.documents
  opened,    \* IdeDocumentEntry.opened_by
  token,     \* the session each client holds
  view,      \* what each client last got for a path
  req,       \* the request being served
  tokens,    \* tokens given out
  launch,    \* how often the process was restarted
  now, edits

vars ==
  <<disk, sessions, documents, opened, token, view, req, tokens, launch, now, edits>>

Session  == [role : Roles, expires_at : Nat, open_paths : SUBSET Paths]
Document == [content : Contents, version : Versions]
\* What a client got, and from which launch of the process (history).
View     == [content : Contents, version : Versions, launch : Nat]
\* base, launch and touched are history: what the author of the edit had, from
\* which launch, and whether others wrote the file since the request began.
Request  ==
  [stage : {"open", "apply", "checked", "torn"}, client : Clients, path : Paths,
   seen : Contents, new : Contents, expected : Versions,
   base : Contents, launch : Nat, touched : BOOLEAN]

TypeOK ==
  /\ disk \in [Paths -> Contents \cup {Absent}]
  /\ sessions \in [Tokens -> Session \cup {None}]
  /\ documents \in [Paths -> Document \cup {None}]
  /\ opened \in [Paths -> SUBSET Tokens]
  /\ token \in [Clients -> Tokens \cup {None}]
  /\ view \in [Clients -> [Paths -> View \cup {None}]]
  /\ req \in Request \cup {None}
  /\ tokens \in 0..MaxTokens /\ launch \in Nat /\ now \in Nat /\ edits \in Nat

Init ==
  /\ disk \in [Paths -> Contents \ (Large \cup {Torn})]
  /\ sessions = [t \in Tokens |-> None]
  /\ documents = [p \in Paths |-> None]
  /\ opened = [p \in Paths |-> {}]
  /\ token = [c \in Clients |-> None]
  /\ view = [c \in Clients |-> [p \in Paths |-> None]]
  /\ req = None /\ tokens = 0 /\ launch = 0 /\ now = 0 /\ edits = 0

-----------------------------------------------------------------------------
(***************************************************************************)
(* Sessions.                                                               *)
(***************************************************************************)
Live == {t \in Tokens : sessions[t] # None /\ sessions[t].expires_at > now}

Kept == [t \in Tokens |-> IF t \in Live THEN sessions[t] ELSE None]

prune_expired ==
  /\ sessions' = Kept
  /\ opened' = [p \in Paths |-> opened[p] \cap Live]

\* The client gets the token; a refused request only prunes.
create_session(c, role) ==
  /\ req = None
  /\ tokens < MaxTokens
  /\ IF Cardinality(Live) < MaxSessions
     THEN /\ sessions' = [Kept EXCEPT ![tokens + 1] =
                            [role |-> role, expires_at |-> now + Ttl, open_paths |-> {}]]
          /\ opened' = [p \in Paths |-> opened[p] \cap Live]
          /\ token' = [token EXCEPT ![c] = tokens + 1]
          /\ tokens' = tokens + 1
     ELSE prune_expired /\ UNCHANGED <<token, tokens>>
  /\ UNCHANGED <<disk, documents, view, req, launch, now, edits>>

list_sources ==
  /\ req = None
  /\ prune_expired
  /\ UNCHANGED <<disk, documents, token, view, req, tokens, launch, now, edits>>

-----------------------------------------------------------------------------
(***************************************************************************)
(* Documents.  A request reads the file before it takes the lock.          *)
(***************************************************************************)
\* Variant: what others wrote is taken over under the old version.
RefreshedQuietly(p, content) ==
  IF documents[p] = None THEN [content |-> content, version |-> 1]
  ELSE [documents[p] EXCEPT !.content = content]

\* The entry of the document, brought up to date with the file.
Refreshed(p, content) ==
  IF documents[p] = None THEN [content |-> content, version |-> 1]
  ELSE IF documents[p].content = content THEN documents[p]
  ELSE [content |-> content, version |-> documents[p].version + 1]

\* Bound: a request may raise the version twice.
Roomy(p) == documents[p] # None => documents[p].version + 1 < MaxVersion

BeginOpen(c, p) ==
  /\ req = None
  /\ token[c] # None /\ Roomy(p)
  /\ disk[p] # Absent /\ disk[p] \notin Large
  /\ req' = [stage |-> "open", client |-> c, path |-> p, seen |-> disk[p],
             new |-> disk[p], expected |-> 1,
             base |-> disk[p], launch |-> launch, touched |-> FALSE]
  /\ UNCHANGED <<disk, sessions, documents, opened, token, view, tokens, launch, now, edits>>

\* A client edits what it has; write_enabled and the size are checked first.
BeginApply(c, p, content) ==
  /\ req = None
  /\ token[c] # None /\ Roomy(p)
  /\ view[c][p] # None /\ content \notin Large \cup {Torn}
  /\ disk[p] # Absent
  /\ req' = [stage |-> "apply", client |-> c, path |-> p, seen |-> disk[p],
             new |-> content, expected |-> view[c][p].version,
             base |-> view[c][p].content, launch |-> view[c][p].launch,
             touched |-> FALSE]
  /\ UNCHANGED <<disk, sessions, documents, opened, token, view, tokens, launch, now, edits>>

Caller == token[req.client]

\* ensure_session fails.
Unauthorized ==
  /\ req # None /\ req.stage \in {"open", "apply"}
  /\ Caller \notin Live
  /\ prune_expired
  /\ req' = None
  /\ UNCHANGED <<disk, documents, token, view, tokens, launch, now, edits>>

\* ensure_session, and the path noted in the session.
EnsureSession ==
  /\ Caller \in Live
  /\ sessions' = [Kept EXCEPT ![Caller].open_paths = @ \cup {req.path}]

\* The answer reaches the client, or is lost on the way.
Answered(doc) ==
  \/ view' = [view EXCEPT ![req.client][req.path] =
                [content |-> doc.content, version |-> doc.version, launch |-> launch]]
  \/ view' = view

open_source ==
  /\ req # None /\ req.stage = "open"
  /\ EnsureSession
  /\ documents' = [documents EXCEPT ![req.path] = Refreshed(req.path, req.seen)]
  /\ opened' = [p \in Paths |-> (opened[p] \cap Live)
                                  \cup (IF p = req.path THEN {Caller} ELSE {})]
  /\ Answered(Refreshed(req.path, req.seen))
  /\ req' = None
  /\ UNCHANGED <<disk, token, tokens, launch, now, edits>>

\* The role does not allow edits.
ApplyForbidden ==
  /\ req # None /\ req.stage = "apply"
  /\ EnsureSession
  /\ sessions[Caller].role # "editor"
  /\ opened' = [p \in Paths |-> opened[p] \cap Live]
  /\ req' = None
  /\ UNCHANGED <<disk, documents, token, view, tokens, launch, now, edits>>

\* The version is compared: a conflict ends the request.
CheckVersion ==
  /\ req # None /\ req.stage = "apply"
  /\ EnsureSession
  /\ sessions[Caller].role = "editor"
  /\ opened' = [p \in Paths |-> opened[p] \cap Live]
  /\ documents' = [documents EXCEPT ![req.path] = Refreshed(req.path, req.seen)]
  /\ req' = IF Refreshed(req.path, req.seen).version = req.expected
            THEN [req EXCEPT !.stage = "checked"] ELSE None
  /\ UNCHANGED <<disk, token, view, tokens, launch, now, edits>>

\* std::fs::write opens the file, truncating it, and writes.
Truncate ==
  /\ req # None /\ req.stage = "checked"
  /\ disk' = [disk EXCEPT ![req.path] = Torn]
  /\ req' = [req EXCEPT !.stage = "torn"]
  /\ UNCHANGED <<sessions, documents, opened, token, view, tokens, launch, now, edits>>

WriteFails ==
  /\ req # None /\ req.stage \in {"checked", "torn"}
  /\ req' = None
  /\ UNCHANGED <<disk, sessions, documents, opened, token, view, tokens, launch, now, edits>>

\* Variant: the version stays.
AppliedSameVersion == [content |-> req.new, version |-> documents[req.path].version]

Applied == [content |-> req.new, version |-> documents[req.path].version + 1]

apply_source ==
  /\ req # None /\ req.stage = "torn"
  /\ disk' = [disk EXCEPT ![req.path] = req.new]
  /\ documents' = [documents EXCEPT ![req.path] = Applied]
  /\ opened' = [opened EXCEPT ![req.path] = @ \cup {Caller}]
  /\ Answered(Applied)
  /\ req' = None
  /\ UNCHANGED <<sessions, token, tokens, launch, now, edits>>

-----------------------------------------------------------------------------
(***************************************************************************)
(* The surroundings.                                                       *)
(***************************************************************************)
\* Another editor, a checkout, or a deploy changes or removes a file, at any
\* moment.
EditOutside(p, content) ==
  /\ edits < MaxEdits
  /\ disk' = [disk EXCEPT ![p] = content]
  /\ req' = IF req # None /\ req.path = p THEN [req EXCEPT !.touched = TRUE] ELSE req
  /\ edits' = edits + 1
  /\ UNCHANGED <<sessions, documents, opened, token, view, tokens, launch, now>>

Tick ==
  /\ now < MaxNow
  /\ now' = now + 1
  /\ UNCHANGED <<disk, sessions, documents, opened, token, view, req, tokens, launch, edits>>

\* Sessions and documents live in memory only.
Restart ==
  /\ launch < MaxLaunches
  /\ launch' = launch + 1
  /\ sessions' = [t \in Tokens |-> None]
  /\ documents' = [p \in Paths |-> None]
  /\ opened' = [p \in Paths |-> {}]
  /\ req' = None
  /\ UNCHANGED <<disk, token, view, tokens, now, edits>>

Next ==
  \/ \E c \in Clients, role \in Roles : create_session(c, role)
  \/ list_sources
  \/ \E c \in Clients, p \in Paths : BeginOpen(c, p)
  \/ \E c \in Clients, p \in Paths, content \in Contents : BeginApply(c, p, content)
  \/ Unauthorized \/ open_source \/ ApplyForbidden \/ CheckVersion
  \/ Truncate \/ WriteFails \/ apply_source
  \/ \E p \in Paths, content \in Contents \cup {Absent} : EditOutside(p, content)
  \/ Tick \/ Restart

Spec == Init /\ [][Next]_vars

-----------------------------------------------------------------------------
(***************************************************************************)
(* Properties.                                                             *)
(***************************************************************************)
\* "Optimistic concurrency via expected_version prevents blind overwrite": the
\* file apply_source is about to overwrite holds what the author of the edit
\* had before editing, whatever others did to it before the request, and
\* unless they wrote during it or the author's copy is from an earlier launch.
NoBlindOverwrite ==
  req # None /\ req.stage = "checked" /\ req.launch = launch /\ ~req.touched
    => disk[req.path] = req.base

\* Two clients that got the same version of a document from one launch got the
\* same content, whatever writes failed, answers got lost and files changed in
\* between.
VersionsAgree ==
  \A c, d \in Clients, p \in Paths :
    /\ view[c][p] # None /\ view[d][p] # None
    /\ view[c][p].launch = view[d][p].launch
    /\ view[c][p].version = view[d][p].version
    => view[c][p].content = view[d][p].content

\* A document is open in sessions that exist and know of it: pruning and the
\* two records of who has opened what stay together.
OpenedByAgrees ==
  \A p \in Paths : \A t \in opened[p] :
    sessions[t] # None /\ p \in sessions[t].open_paths

-----------------------------------------------------------------------------
(***************************************************************************)
(* Statements of the documentation that the code does not keep: TLC finds  *)
(* each of them violated, README.md says how.                              *)
(***************************************************************************)
\* "Optimistic concurrency via expected_version prevents blind overwrite",
\* without exception, but for the remains of a write that did not finish: what
\* other people wrote is only overwritten by somebody who had it.
NoEditLost ==
  req # None /\ req.stage = "checked" => disk[req.path] \in {req.base, Torn}
=============================================================================
