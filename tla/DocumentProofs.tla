--------------------------- MODULE DocumentProofs ---------------------------
(***************************************************************************)
(* Proofs about documents that several parties work on: those of the web   *)
(* IDE, edited by several clients, and those of the language server, which *)
(* two of its tasks handle.                                                *)
(*                                                                         *)
(* In the web IDE a version number means one content because every view a  *)
(* client got from this launch of the process is at most as new as the     *)
(* document, and as new only with the same content (ViewKnown); the answer *)
(* to a request then cannot disagree with any view.  A checked edit        *)
(* overwrites what its author had because the copy of the file the request *)
(* works on is still true, unless others wrote the file during the request *)
(* (SeenTrue), and because the view of the author still is what the        *)
(* request was made from (BaseTrue).                                       *)
(***************************************************************************)
EXTENDS WebIde, LanguageServer, TLAPS

ReqFounded ==
  req # None =>
    /\ token[req.client] # None
    /\ req.stage \in {"checked", "torn"} => documents[req.path] # None

ViewKnown ==
  \A c \in Clients, p \in Paths :
    view[c][p] # None =>
      /\ view[c][p].launch <= launch
      /\ view[c][p].launch = launch =>
           /\ documents[p] # None
           /\ view[c][p].version <= documents[p].version
           /\ view[c][p].version = documents[p].version
                => view[c][p].content = documents[p].content

BaseTrue ==
  req # None /\ req.stage \in {"apply", "checked"} =>
    /\ view[req.client][req.path] # None
    /\ view[req.client][req.path].content = req.base
    /\ view[req.client][req.path].version = req.expected
    /\ view[req.client][req.path].launch = req.launch

SeenTrue ==
  req # None /\ req.stage \in {"open", "apply"} /\ ~req.touched
    => disk[req.path] = req.seen

CheckedTrue ==
  req # None /\ req.stage = "checked" =>
    /\ documents[req.path].version = req.expected
    /\ ~req.touched => documents[req.path].content = disk[req.path]

TInv == TypeOK /\ ReqFounded
VInv == ViewKnown /\ VersionsAgree
BInv == BaseTrue /\ SeenTrue /\ CheckedTrue

-----------------------------------------------------------------------------
(***************************************************************************)
(* Types.                                                                  *)
(***************************************************************************)
\* A refreshed entry holds what was read, is not older than the entry, and is
\* as new only if the entry held the same.
LEMMA RefreshedIsNewer ==
  ASSUME TypeOK, NEW p \in Paths, NEW content \in Contents
  PROVE  /\ Refreshed(p, content) \in Document
         /\ Refreshed(p, content).content = content
         /\ documents[p] # None =>
              /\ documents[p].version <= Refreshed(p, content).version
              /\ documents[p].version = Refreshed(p, content).version
                   => documents[p].content = content
<1>1. documents[p] \in Document \cup {None}
  BY DEF TypeOK
<1>2. CASE documents[p] = None
  BY <1>2 DEF Refreshed, Document, Versions
<1>3. CASE documents[p] # None
  BY <1>1, <1>3 DEF Refreshed, Document, Versions
<1> QED BY <1>2, <1>3

\* Pruning keeps sessions and documents what they are.
LEMMA KeptType ==
  ASSUME TypeOK
  PROVE  /\ Kept \in [Tokens -> Session \cup {None}]
         /\ Live \subseteq Tokens
         /\ \A t \in Live : Kept[t] \in Session
BY DEF TypeOK, Kept, Live

\* What ensure_session leaves.
LEMMA EnsuredType ==
  ASSUME TInv, req # None, EnsureSession
  PROVE  /\ sessions' \in [Tokens -> Session \cup {None}]
         /\ Caller \in Tokens
<1>1. req \in Request
  BY DEF TInv, TypeOK
<1>2. Caller \in Live /\ Caller \in Tokens
  BY KeptType DEF EnsureSession, TInv
<1>3. Kept[Caller] \in Session
  BY <1>2, KeptType DEF TInv
<1>4. [Kept[Caller] EXCEPT !.open_paths = @ \cup {req.path}] \in Session
  BY <1>1, <1>3 DEF Session, Request
<1> QED BY <1>2, <1>4, KeptType DEF TInv, EnsureSession

\* The answer to a request is a view of the right kind.
LEMMA AnsweredType ==
  ASSUME TypeOK, req # None, NEW doc \in Document, Answered(doc)
  PROVE  view' \in [Clients -> [Paths -> View \cup {None}]]
<1>1. [content |-> doc.content, version |-> doc.version, launch |-> launch] \in View
  BY DEF TypeOK, Document, View
<1> QED BY <1>1 DEF TypeOK, Answered, Request

LEMMA TypeInit == Init => TInv
<1> SUFFICES ASSUME Init PROVE TInv OBVIOUS
<1> USE IdeAssumption DEF Init
<1>1. TypeOK
  BY DEF TypeOK, Versions
<1>2. ReqFounded
  BY DEF ReqFounded
<1> QED BY <1>1, <1>2 DEF TInv

LEMMA TypeStep == TInv /\ [Next]_vars => TInv'
<1> SUFFICES ASSUME TInv, [Next]_vars PROVE TInv' OBVIOUS
<1> USE DEF TInv
<1>1. ASSUME NEW c \in Clients, NEW role \in Roles, create_session(c, role) PROVE TInv'
  <2>1. ReqFounded'
    BY <1>1 DEF create_session, ReqFounded
  <2>2. CASE Cardinality(Live) < MaxSessions
    <3>1. tokens + 1 \in Tokens /\ tokens + 1 \in 0..MaxTokens
      BY <1>1, IdeAssumption DEF create_session, TypeOK, Tokens
    <3>2. [role |-> role, expires_at |-> now + Ttl, open_paths |-> {}] \in Session
      BY IdeAssumption DEF Session, TypeOK
    <3>3. sessions' \in [Tokens -> Session \cup {None}]
      BY <1>1, <2>2, <3>1, <3>2, KeptType DEF create_session
    <3>4. opened' \in [Paths -> SUBSET Tokens] /\ token' \in [Clients -> Tokens \cup {None}]
      BY <1>1, <2>2, <3>1, KeptType DEF create_session, TypeOK
    <3> QED BY <1>1, <2>1, <2>2, <3>1, <3>3, <3>4 DEF create_session, TypeOK
  <2>3. CASE ~(Cardinality(Live) < MaxSessions)
    BY <1>1, <2>1, <2>3, KeptType DEF create_session, prune_expired, TypeOK
  <2> QED BY <2>2, <2>3
<1>2. CASE list_sources
  BY <1>2, KeptType DEF list_sources, prune_expired, TypeOK, ReqFounded
<1>3. ASSUME NEW c \in Clients, NEW p \in Paths, BeginOpen(c, p) PROVE TInv'
  <2>1. disk[p] \in Contents
    BY <1>3 DEF BeginOpen, TypeOK
  <2>2. req' \in Request /\ req'.client = c /\ req'.stage = "open"
    BY <1>3, <2>1 DEF BeginOpen, Request, Versions, TypeOK
  <2> QED BY <1>3, <2>2 DEF BeginOpen, TypeOK, ReqFounded
<1>4. ASSUME NEW c \in Clients, NEW p \in Paths, NEW content \in Contents, BeginApply(c, p, content)
      PROVE TInv'
  <2>1. disk[p] \in Contents /\ view[c][p] \in View
    BY <1>4 DEF BeginApply, TypeOK
  <2>2. req' \in Request /\ req'.client = c /\ req'.stage = "apply"
    BY <1>4, <2>1 DEF BeginApply, Request, View
  <2> QED BY <1>4, <2>2 DEF BeginApply, TypeOK, ReqFounded
<1>5. CASE Unauthorized
  BY <1>5, KeptType DEF Unauthorized, prune_expired, TypeOK, ReqFounded
<1>6. CASE open_source
  <2>1. req \in Request
    BY <1>6 DEF open_source, TypeOK
  <2>2. Refreshed(req.path, req.seen) \in Document
    BY <2>1, RefreshedIsNewer DEF Request
  <2>3. documents' \in [Paths -> Document \cup {None}]
    BY <1>6, <2>2 DEF open_source, TypeOK
  <2>4. view' \in [Clients -> [Paths -> View \cup {None}]]
    BY <1>6, <2>2, AnsweredType DEF open_source
  <2>5. sessions' \in [Tokens -> Session \cup {None}] /\ Caller \in Tokens
    BY <1>6, EnsuredType DEF open_source
  <2>6. opened' \in [Paths -> SUBSET Tokens]
    BY <1>6, <2>5, KeptType DEF open_source
  <2> QED BY <1>6, <2>3, <2>4, <2>5, <2>6 DEF open_source, TypeOK, ReqFounded
<1>7. CASE ApplyForbidden
  <2>1. sessions' \in [Tokens -> Session \cup {None}]
    BY <1>7, EnsuredType DEF ApplyForbidden
  <2> QED BY <1>7, <2>1, KeptType DEF ApplyForbidden, TypeOK, ReqFounded
<1>8. CASE CheckVersion
  <2>1. req \in Request
    BY <1>8 DEF CheckVersion, TypeOK
  <2>2. Refreshed(req.path, req.seen) \in Document
    BY <2>1, RefreshedIsNewer DEF Request
  <2>3. /\ documents' \in [Paths -> Document \cup {None}]
        /\ documents'[req.path] # None
    BY <1>8, <2>1, <2>2, NoneAssumption DEF CheckVersion, TypeOK, Request, Document
  <2>4. sessions' \in [Tokens -> Session \cup {None}]
    BY <1>8, EnsuredType DEF CheckVersion
  <2>5. opened' \in [Paths -> SUBSET Tokens]
    BY <1>8, KeptType DEF CheckVersion
  <2>6. req' \in Request \cup {None} /\ (req' # None => req'.client = req.client /\ req'.path = req.path)
    BY <1>8, <2>1 DEF CheckVersion, Request
  <2> QED BY <1>8, <2>3, <2>4, <2>5, <2>6 DEF CheckVersion, TypeOK, ReqFounded
<1>9. CASE Truncate
  <2>1. req \in Request
    BY <1>9 DEF Truncate, TypeOK
  <2>2. req' \in Request /\ req'.client = req.client /\ req'.path = req.path
    BY <1>9, <2>1 DEF Truncate, Request
  <2>3. disk' \in [Paths -> Contents \cup {Absent}]
    BY <1>9, IdeAssumption DEF Truncate, TypeOK
  <2> QED BY <1>9, <2>2, <2>3 DEF Truncate, TypeOK, ReqFounded
<1>10. CASE WriteFails
  BY <1>10 DEF WriteFails, TypeOK, ReqFounded
<1>11. CASE apply_source
  <2>1. req \in Request
    BY <1>11 DEF apply_source, TypeOK
  <2>2. documents[req.path] \in Document
    BY <1>11, <2>1 DEF apply_source, TypeOK, ReqFounded, Request
  <2>3. Applied \in Document
    BY <2>1, <2>2 DEF Applied, Document, Request, Versions
  <2>4. view' \in [Clients -> [Paths -> View \cup {None}]]
    BY <1>11, <2>3, AnsweredType DEF apply_source
  <2>5. Caller \in Tokens
    BY <1>11, <2>1 DEF apply_source, ReqFounded, Caller, TypeOK, Request
  <2>6. disk' \in [Paths -> Contents \cup {Absent}] /\ opened' \in [Paths -> SUBSET Tokens]
    BY <1>11, <2>1, <2>5 DEF apply_source, TypeOK, Request
  <2> QED BY <1>11, <2>3, <2>4, <2>6 DEF apply_source, TypeOK, ReqFounded
<1>12. ASSUME NEW p \in Paths, NEW content \in Contents \cup {Absent}, EditOutside(p, content)
       PROVE TInv'
  <2>1. disk' \in [Paths -> Contents \cup {Absent}]
    BY <1>12 DEF EditOutside, TypeOK
  <2>2. CASE req' = req
    <3>1. ReqFounded'
      BY <1>12, <2>2 DEF EditOutside, ReqFounded
    <3>2. req' \in Request \cup {None}
      BY <2>2 DEF TypeOK
    <3> QED BY <1>12, <2>1, <3>1, <3>2 DEF EditOutside, TypeOK
  <2>3. CASE req # None /\ req' = [req EXCEPT !.touched = TRUE]
    <3>1. /\ req' \in Request /\ req'.client = req.client /\ req'.path = req.path
          /\ req'.stage = req.stage
      BY <2>3 DEF TypeOK, Request
    <3>2. ReqFounded'
      BY <1>12, <2>3, <3>1 DEF EditOutside, ReqFounded
    <3> QED BY <1>12, <2>1, <3>1, <3>2 DEF EditOutside, TypeOK
  <2> QED BY <1>12, <2>2, <2>3 DEF EditOutside
<1>13. CASE Tick
  BY <1>13 DEF Tick, TypeOK, ReqFounded
<1>14. CASE Restart
  BY <1>14 DEF Restart, TypeOK, ReqFounded
<1>15. CASE UNCHANGED vars
  BY <1>15 DEF vars, TypeOK, ReqFounded
<1> QED
  BY <1>1, <1>2, <1>3, <1>4, <1>5, <1>6, <1>7, <1>8, <1>9, <1>10, <1>11, <1>12,
     <1>13, <1>14, <1>15 DEF Next

-----------------------------------------------------------------------------
(***************************************************************************)
(* Versions.                                                               *)
(***************************************************************************)
\* An entry that is newer than the one it replaces, or is it, agrees with every
\* view; so does a view of it.
LEMMA NewerAgrees ==
  ASSUME TypeOK, VInv, launch' = launch,
         NEW c \in Clients, NEW p \in Paths, NEW doc \in Document,
         documents[p] # None =>
           /\ documents[p].version <= doc.version
           /\ documents[p].version = doc.version => documents[p].content = doc.content,
         documents' = [documents EXCEPT ![p] = doc],
         view' = view
           \/ view' = [view EXCEPT ![c][p] =
                [content |-> doc.content, version |-> doc.version, launch |-> launch]]
  PROVE  VInv'
<1> DEFINE got == [content |-> doc.content, version |-> doc.version, launch |-> launch]
<1> USE DEF VInv
<1>1. documents[p] \in Document \cup {None} /\ doc # None
  BY NoneAssumption DEF TypeOK, Document
<1>2. \A d \in Clients, q \in Paths : view[d][q] \in View \cup {None}
  BY DEF TypeOK
<1>3. \A d \in Clients, q \in Paths :
        view'[d][q] = IF d = c /\ q = p /\ view' # view THEN got ELSE view[d][q]
  BY DEF TypeOK
<1>4. \A q \in Paths : documents'[q] = IF q = p THEN doc ELSE documents[q]
  BY DEF TypeOK
<1>g. /\ got.content = doc.content /\ got.version = doc.version
      /\ got.launch = launch /\ launch \in Nat
  BY DEF TypeOK
<1> HIDE DEF got
<1>5. \A d \in Clients :
        view[d][p] # None =>
          /\ view[d][p].launch <= launch
          /\ view[d][p].launch = launch =>
               /\ view[d][p].version <= doc.version
               /\ view[d][p].version = doc.version => view[d][p].content = doc.content
  <2> SUFFICES ASSUME NEW d \in Clients, view[d][p] # None, view[d][p].launch = launch
               PROVE  /\ view[d][p].version <= doc.version
                      /\ view[d][p].version = doc.version => view[d][p].content = doc.content
    BY DEF ViewKnown
  <2>1. /\ documents[p] # None
        /\ view[d][p].version <= documents[p].version
        /\ view[d][p].version = documents[p].version => view[d][p].content = documents[p].content
    BY DEF ViewKnown
  <2>2. view[d][p].version \in Nat /\ documents[p].version \in Nat /\ doc.version \in Nat
    BY <1>1, <1>2, <2>1 DEF Document, View, Versions
  <2> QED BY <2>1, <2>2
<1>6. ViewKnown'
  <2> SUFFICES ASSUME NEW d \in Clients, NEW q \in Paths, view'[d][q] # None
               PROVE  /\ view'[d][q].launch <= launch
                      /\ view'[d][q].launch = launch =>
                           /\ documents'[q] # None
                           /\ view'[d][q].version <= documents'[q].version
                           /\ view'[d][q].version = documents'[q].version
                                => view'[d][q].content = documents'[q].content
    BY DEF ViewKnown
  <2>1. CASE q # p
    BY <1>3, <1>4, <2>1 DEF ViewKnown
  <2>2. CASE q = p /\ view'[d][q] = view[d][q]
    BY <1>1, <1>4, <1>5, <2>2
  <2>3. CASE q = p /\ view'[d][q] = got
    BY <1>1, <1>4, <1>g, <2>3 DEF Document, Versions
  <2> QED BY <1>3, <2>1, <2>2, <2>3
<1>7. VersionsAgree'
  <2> SUFFICES ASSUME NEW d \in Clients, NEW e \in Clients, NEW q \in Paths,
                      view'[d][q] # None, view'[e][q] # None,
                      view'[d][q].launch = view'[e][q].launch,
                      view'[d][q].version = view'[e][q].version
               PROVE  view'[d][q].content = view'[e][q].content
    BY DEF VersionsAgree
  <2>1. CASE view'[d][q] = view[d][q] /\ view'[e][q] = view[e][q]
    BY <2>1 DEF VersionsAgree
  <2>2. CASE view'[d][q] # view[d][q]
    BY <1>3, <1>5, <1>g, <2>2
  <2>3. CASE view'[e][q] # view[e][q]
    BY <1>3, <1>5, <1>g, <2>3
  <2> QED BY <2>1, <2>2, <2>3
<1> QED BY <1>6, <1>7

LEMMA VersionStep ==
  ASSUME TInv, VInv, [Next]_vars
  PROVE  VInv'
<1> USE DEF TInv
<1>1. CASE open_source
  <2>1. req \in Request
    BY <1>1 DEF open_source, TypeOK
  <2>2. req.client \in Clients /\ req.path \in Paths /\ req.seen \in Contents
    BY <2>1 DEF Request
  <2>3. /\ launch' = launch
        /\ view' = view
             \/ view' = [view EXCEPT ![req.client][req.path] =
                  [content |-> Refreshed(req.path, req.seen).content,
                   version |-> Refreshed(req.path, req.seen).version, launch |-> launch]]
    BY <1>1 DEF open_source, Answered
  <2>4. documents' = [documents EXCEPT ![req.path] = Refreshed(req.path, req.seen)]
    BY <1>1 DEF open_source
  <2>5. /\ Refreshed(req.path, req.seen) \in Document
        /\ documents[req.path] # None =>
             /\ documents[req.path].version <= Refreshed(req.path, req.seen).version
             /\ documents[req.path].version = Refreshed(req.path, req.seen).version
                  => documents[req.path].content = Refreshed(req.path, req.seen).content
    BY <2>2, RefreshedIsNewer
  <2> QED BY <2>2, <2>3, <2>4, <2>5, NewerAgrees
<1>2. CASE CheckVersion
  <2>1. req \in Request
    BY <1>2 DEF CheckVersion, TypeOK
  <2>2. req.client \in Clients /\ req.path \in Paths /\ req.seen \in Contents
    BY <2>1 DEF Request
  <2>3. /\ documents' = [documents EXCEPT ![req.path] = Refreshed(req.path, req.seen)]
        /\ view' = view /\ launch' = launch
    BY <1>2 DEF CheckVersion
  <2>4. /\ Refreshed(req.path, req.seen) \in Document
        /\ documents[req.path] # None =>
             /\ documents[req.path].version <= Refreshed(req.path, req.seen).version
             /\ documents[req.path].version = Refreshed(req.path, req.seen).version
                  => documents[req.path].content = Refreshed(req.path, req.seen).content
    BY <2>2, RefreshedIsNewer
  <2> QED BY <2>2, <2>3, <2>4, NewerAgrees
<1>3. CASE apply_source
  <2>1. req \in Request
    BY <1>3 DEF apply_source, TypeOK
  <2>2. req.client \in Clients /\ req.path \in Paths
    BY <2>1 DEF Request
  <2>3. documents[req.path] \in Document
    BY <1>3, <2>2 DEF apply_source, ReqFounded, TypeOK
  <2>4. /\ Applied \in Document
        /\ documents[req.path].version <= Applied.version
        /\ documents[req.path].version # Applied.version
    BY <2>1, <2>3 DEF Applied, Document, Request, Versions
  <2>5. /\ launch' = launch
        /\ view' = view
             \/ view' = [view EXCEPT ![req.client][req.path] =
                  [content |-> Applied.content,
                   version |-> Applied.version, launch |-> launch]]
    BY <1>3 DEF apply_source, Answered
  <2>6. documents' = [documents EXCEPT ![req.path] = Applied]
    BY <1>3 DEF apply_source
  <2> QED BY <2>2, <2>4, <2>5, <2>6, NewerAgrees
<1>4. CASE Restart
  <2>1. \A c \in Clients, p \in Paths : view[c][p] # None => view[c][p].launch \in Nat
    BY DEF TypeOK, View
  <2>2. launch \in Nat /\ launch' = launch + 1 /\ view' = view
    BY <1>4 DEF Restart, TypeOK
  <2>3. \A c \in Clients, p \in Paths : view[c][p] # None => view[c][p].launch <= launch
    BY DEF VInv, ViewKnown
  <2>4. ViewKnown'
    BY <2>1, <2>2, <2>3 DEF ViewKnown
  <2>5. VersionsAgree'
    BY <2>2 DEF VInv, VersionsAgree
  <2> QED BY <2>4, <2>5 DEF VInv
<1>5. CASE UNCHANGED <<documents, view, launch>>
  BY <1>5 DEF VInv, ViewKnown, VersionsAgree
<1> QED
  BY <1>1, <1>2, <1>3, <1>4, <1>5 DEF Next, vars, create_session, list_sources, BeginOpen,
     BeginApply, Unauthorized, ApplyForbidden, Truncate, WriteFails, EditOutside,
     Tick

-----------------------------------------------------------------------------
(***************************************************************************)
(* Requests.                                                               *)
(***************************************************************************)
\* A checked edit replaces what its author had: equal versions, equal content.
LEMMA CheckedIsInformed == TInv /\ VInv /\ BInv => NoBlindOverwrite
<1> SUFFICES ASSUME TInv, VInv, BInv, req # None, req.stage = "checked",
                    req.launch = launch, ~req.touched
             PROVE  disk[req.path] = req.base
  BY DEF NoBlindOverwrite
<1>1. req.client \in Clients /\ req.path \in Paths
  BY DEF TInv, TypeOK, Request
<1>2. /\ view[req.client][req.path] # None
      /\ view[req.client][req.path].content = req.base
      /\ view[req.client][req.path].version = documents[req.path].version
      /\ view[req.client][req.path].launch = launch
  BY DEF BInv, BaseTrue, CheckedTrue
<1> QED BY <1>1, <1>2 DEF VInv, ViewKnown, BInv, CheckedTrue

LEMMA RequestStep ==
  ASSUME TInv, BInv, [Next]_vars
  PROVE  BInv'
<1> USE DEF TInv, BInv
<1>1. ASSUME NEW c \in Clients, NEW p \in Paths, BeginOpen(c, p) PROVE BInv'
  BY <1>1 DEF BeginOpen, BaseTrue, SeenTrue, CheckedTrue
<1>2. ASSUME NEW c \in Clients, NEW p \in Paths, NEW content \in Contents, BeginApply(c, p, content)
      PROVE BInv'
  BY <1>2 DEF BeginApply, BaseTrue, SeenTrue, CheckedTrue
<1>3. CASE CheckVersion
  <2>1. req \in Request
    BY <1>3 DEF CheckVersion, TypeOK
  <2>2. CASE Refreshed(req.path, req.seen).version # req.expected
    BY <1>3, <2>2 DEF CheckVersion, BaseTrue, SeenTrue, CheckedTrue
  <2>3. CASE Refreshed(req.path, req.seen).version = req.expected
    <3>1. /\ req'.stage = "checked" /\ req'.path = req.path /\ req'.client = req.client
          /\ req'.expected = req.expected /\ req'.base = req.base
          /\ req'.launch = req.launch /\ req'.touched = req.touched
      BY <1>3, <2>1, <2>3 DEF CheckVersion, Request
    <3>2. /\ documents'[req.path] = Refreshed(req.path, req.seen)
          /\ ~req.touched => disk[req.path] = req.seen
      BY <1>3, <2>1 DEF CheckVersion, TypeOK, Request, SeenTrue
    <3>3. Refreshed(req.path, req.seen).content = req.seen
      BY <2>1, RefreshedIsNewer DEF Request
    <3>4. BaseTrue' /\ SeenTrue'
      BY <1>3, <3>1 DEF CheckVersion, BaseTrue, SeenTrue
    <3>5. CheckedTrue'
      BY <1>3, <2>3, <3>1, <3>2, <3>3 DEF CheckVersion, CheckedTrue
    <3> QED BY <3>4, <3>5
  <2> QED BY <2>2, <2>3
<1>4. CASE Truncate
  <2>1. req \in Request
    BY <1>4 DEF Truncate, TypeOK
  <2>2. req' # None => req'.stage = "torn"
    BY <1>4, <2>1 DEF Truncate, Request
  <2> QED BY <2>2 DEF BaseTrue, SeenTrue, CheckedTrue
<1>5. ASSUME NEW p \in Paths, NEW content \in Contents \cup {Absent}, EditOutside(p, content)
      PROVE BInv'
  <2>1. CASE ~(req # None /\ req.path = p)
    <3>1. view' = view /\ documents' = documents /\ req' = req
      BY <1>5, <2>1 DEF EditOutside
    <3>2. req # None => disk'[req.path] = disk[req.path]
      BY <1>5, <2>1 DEF EditOutside, TypeOK, Request
    <3> QED BY <3>1, <3>2 DEF BaseTrue, SeenTrue, CheckedTrue
  <2>2. CASE req # None /\ req.path = p
    <3>1. req # None /\ req \in Request /\ req' = [req EXCEPT !.touched = TRUE]
      BY <1>5, <2>2 DEF EditOutside, TypeOK
    <3>2. /\ req'.stage = req.stage /\ req'.path = req.path /\ req'.client = req.client
          /\ req'.expected = req.expected /\ req'.base = req.base
          /\ req'.launch = req.launch /\ req'.touched
      BY <3>1 DEF Request
    <3>3. view' = view /\ documents' = documents
      BY <1>5 DEF EditOutside
    <3> QED BY <3>1, <3>2, <3>3 DEF BaseTrue, SeenTrue, CheckedTrue
  <2> QED BY <2>1, <2>2
<1>6. CASE req' = None
  BY <1>6 DEF BaseTrue, SeenTrue, CheckedTrue
<1>7. CASE UNCHANGED <<req, view, documents, disk>>
  BY <1>7 DEF BaseTrue, SeenTrue, CheckedTrue
<1> QED
  BY <1>1, <1>2, <1>3, <1>4, <1>5, <1>6, <1>7 DEF Next, vars, create_session,
     list_sources, Unauthorized, open_source, ApplyForbidden, WriteFails,
     apply_source, Tick, Restart

-----------------------------------------------------------------------------
(***************************************************************************)
(* Theorems.                                                               *)
(***************************************************************************)
\* Documents, sessions, requests and views stay what they are, in every
\* instance: no version is zero, and no request works without its document.
THEOREM IdeTypeCorrect == Spec => []TypeOK
<1>1. Spec => []TInv
  BY TypeInit, TypeStep, PTL DEF Spec
<1>2. TInv => TypeOK
  BY DEF TInv
<1> QED BY <1>1, <1>2, PTL

LEMMA VersionInit == Init => VInv
BY DEF Init, VInv, ViewKnown, VersionsAgree

\* Within a launch of the process a version of a document is one content for
\* all clients, also if other programs change the files at any moment.
THEOREM VersionsAlwaysAgree == Spec => []VersionsAgree
<1>1. Init => TInv /\ VInv
  BY TypeInit, VersionInit
<1>2. TInv /\ VInv /\ [Next]_vars => (TInv /\ VInv)'
  BY TypeStep, VersionStep
<1>3. TInv /\ VInv => VersionsAgree
  BY DEF VInv
<1> QED BY <1>1, <1>2, <1>3, PTL DEF Spec

LEMMA RequestInit == Init => BInv
BY DEF Init, BInv, BaseTrue, SeenTrue, CheckedTrue

\* No edit overwrites what its author had not seen, unless others write the
\* file during the request or the author's copy is from an earlier launch.
THEOREM NeverBlindOverwrite == Spec => []NoBlindOverwrite
<1>1. Init => TInv /\ VInv /\ BInv
  BY TypeInit, VersionInit, RequestInit
<1>2. TInv /\ VInv /\ BInv /\ [Next]_vars => (TInv /\ VInv /\ BInv)'
  BY TypeStep, VersionStep, RequestStep
<1>3. TInv /\ VInv /\ BInv => NoBlindOverwrite
  BY CheckedIsInformed
<1> QED BY <1>1, <1>2, <1>3, PTL DEF Spec

-----------------------------------------------------------------------------
(***************************************************************************)
(* Language server.  On a file that only one task works on, what is left   *)
(* of its operation brings the source and the document together: after the *)
(* first lock it is known which of the two is behind, and by what.  A task *)
(* that only looked at the document (index_source) has changed nothing.    *)
(***************************************************************************)
Other(t) == IF t = "handler" THEN "indexer" ELSE "handler"

Half(t, u) ==
  LET l == lloc[t] IN
  CASE lpc[t] = "open"   -> sources[u] = l.text
    [] lpc[t] = "update" -> sources[u] = l.text /\ docs[u].open
    [] lpc[t] = "index_source" -> sources[u] = docs[u].text /\ ~docs[u].open
    [] lpc[t] = "index_doc"    -> sources[u] = l.text /\ ~docs[u].open
    [] OTHER -> docs[u] = NoDoc

Follows(u) ==
  /\ AtRest(u) => sources[u] = docs[u].text
  /\ \A t \in Tasks : Halfway(t, u) /\ ~Halfway(Other(t), u) => Half(t, u)

LspShape ==
  /\ docs = [u \in Uris |-> docs[u]] /\ sources = [u \in Uris |-> sources[u]]
  /\ \A u \in Uris : DOMAIN docs[u] = {"text", "open"}
  /\ lpc = [t \in Tasks |-> lpc[t]] /\ lloc = [t \in Tasks |-> lloc[t]]
  /\ \A t \in Tasks : DOMAIN lloc[t] = {"uri", "text", "todo"}

LspInv == LspShape /\ \A u \in Uris \ overlapped : Follows(u)
LEMMA TwoTasks ==
  ASSUME NEW t \in Tasks
  PROVE  Other(t) \in Tasks \ {t} /\ Other(Other(t)) = t /\ \A o \in Tasks : o # t => o = Other(t)
BY DEF Tasks, Other

\* A file that is not touched, and of which no task begins or ends anything.
LEMMA Elsewhere ==
  ASSUME NEW u, Follows(u), docs'[u] = docs[u], sources'[u] = sources[u],
         \A t \in Tasks : Halfway(t, u) \/ Halfway(t, u)' =>
           lpc'[t] = lpc[t] /\ lloc'[t].uri = lloc[t].uri /\ lloc'[t].text = lloc[t].text
  PROVE  Follows(u)'
<1>1. \A t \in Tasks : Halfway(t, u)' <=> Halfway(t, u)
  BY DEF Halfway
<1>2. AtRest(u)' => sources'[u] = docs'[u].text
  BY <1>1 DEF Follows, AtRest
<1>3. ASSUME NEW t \in Tasks, Halfway(t, u)', ~Halfway(Other(t), u)' PROVE Half(t, u)'
  <2>1. Halfway(t, u) /\ ~Halfway(Other(t), u) /\ Other(t) \in Tasks
    BY <1>1, <1>3, TwoTasks
  <2>2. Half(t, u)
    BY <2>1 DEF Follows
  <2> QED
    BY <2>1, <2>2 DEF Half
<1> QED
  BY <1>2, <1>3 DEF Follows

\* An operation of one task on the file x: when both are at it, the file is noted.
LEMMA OneWorks ==
  ASSUME NEW t \in Tasks, NEW x, NEW u \in Uris \ overlapped', Follows(u), Working(t, x),
         lpc'[Other(t)] = lpc[Other(t)], lloc'[Other(t)] = lloc[Other(t)],
         Halfway(t, u) \/ Halfway(t, u)' => u = x,
         u # x => docs'[u] = docs[u] /\ sources'[u] = sources[u],
         u = x /\ ~Halfway(Other(t), u) =>
           IF Halfway(t, u)' THEN Half(t, u)' ELSE sources'[u] = docs'[u].text
  PROVE  Follows(u)'
<1>1. Other(t) \in Tasks \ {t} /\ \A o \in Tasks : o # t => o = Other(t)
  BY TwoTasks
<1>2. CASE u # x
  BY <1>1, <1>2, Elsewhere DEF Halfway
<1>3. CASE u = x
  <2>1. ~Halfway(Other(t), u) /\ ~Halfway(Other(t), u)'
    BY <1>1, <1>3 DEF Working, Halfway
  <2> QED
    BY <1>1, <1>3, <2>1 DEF Follows, AtRest
<1> QED
  BY <1>2, <1>3

\* What a task does outside the two locks touches no file.
LEMMA NobodyWorks ==
  ASSUME LspInv, NEW t \in Tasks, LspShape', UNCHANGED <<docs, sources, overlapped>>,
         lpc'[Other(t)] = lpc[Other(t)], lloc'[Other(t)] = lloc[Other(t)],
         \A u : ~Halfway(t, u) /\ ~Halfway(t, u)'
  PROVE  LspInv'
<1>1. ASSUME NEW u \in Uris \ overlapped' PROVE Follows(u)'
  <2>1. Follows(u)
    BY DEF LspInv
  <2> QED
    BY <2>1, TwoTasks, Elsewhere
<1> QED
  BY <1>1 DEF LspInv

\* A notification sets the work of the handler and touches nothing else of the tasks.
LEMMA NotifiedShape ==
  ASSUME LspShape, NEW there, NEW u, NEW text, Notified(there, u, text)
  PROVE  /\ "handler" \in Tasks /\ Other("handler") = "indexer"
         /\ lpc' = [t \in Tasks |-> lpc'[t]] /\ lloc' = [t \in Tasks |-> lloc'[t]]
         /\ \A t \in Tasks : DOMAIN lloc'[t] = {"uri", "text", "todo"}
         /\ lpc["handler"] = "idle" /\ lpc'["handler"] = there
         /\ lloc'["handler"].uri = u /\ lloc'["handler"].text = text
         /\ lpc'["indexer"] = lpc["indexer"] /\ lloc'["indexer"] = lloc["indexer"]
BY DEF LspShape, Notified, LGoto, Tasks, Other

LEMMA DidOpenInv ==
  ASSUME LspInv, NEW x \in Uris, NEW text \in Texts, DidOpen(x, text) PROVE LspInv'
<1>1. LspShape /\ Notified("open", x, text)
  BY DEF DidOpen, LspInv
<1>2. LspShape /\ Working("handler", x) /\ ~docs[x].open
      /\ sources' = [sources EXCEPT ![x] = text] /\ UNCHANGED docs
  BY DEF DidOpen, LspInv
<1>3. /\ "handler" \in Tasks /\ Other("handler") = "indexer"
      /\ lpc["handler"] = "idle" /\ lpc'["handler"] = "open"
      /\ lloc'["handler"].uri = x /\ lloc'["handler"].text = text
      /\ lpc'["indexer"] = lpc["indexer"] /\ lloc'["indexer"] = lloc["indexer"]
  BY <1>1, NotifiedShape
<1>4. LspShape'
  <2>1. docs' = [u \in Uris |-> docs'[u]] /\ sources' = [u \in Uris |-> sources'[u]]
    BY <1>2 DEF LspShape
  <2> QED
    BY <1>1, <1>2, <2>1, NotifiedShape DEF LspShape
<1>5. ASSUME NEW u \in Uris \ overlapped' PROVE Follows(u)'
  <2>1. Follows(u)
    BY <1>2 DEF LspInv, Working
  <2>2. u = x => sources'[u] = text
    BY <1>2 DEF LspShape
  <2>3. u # x => docs'[u] = docs[u] /\ sources'[u] = sources[u]
    BY <1>2 DEF LspShape
  <2>4. u = x /\ ~Halfway("indexer", u) => Halfway("handler", u)' /\ Half("handler", u)'
    BY <1>3, <2>2 DEF Halfway, Half
  <2>5. Halfway("handler", u) \/ Halfway("handler", u)' => u = x
    BY <1>3 DEF Halfway
  <2> QED
    BY <1>2, <1>3, <2>1, <2>3, <2>4, <2>5, OneWorks
<1> QED
  BY <1>4, <1>5 DEF LspInv

LEMMA DidChangeInv ==
  ASSUME LspInv, NEW x \in Uris, NEW text \in Texts, DidChange(x, text) PROVE LspInv'
<1>1. LspShape /\ Notified("update", x, text)
  BY DEF DidChange, LspInv
<1>2. LspShape /\ Working("handler", x) /\ docs[x].open
      /\ sources' = [sources EXCEPT ![x] = text] /\ UNCHANGED docs
  BY DEF DidChange, LspInv
<1>3. /\ "handler" \in Tasks /\ Other("handler") = "indexer"
      /\ lpc["handler"] = "idle" /\ lpc'["handler"] = "update"
      /\ lloc'["handler"].uri = x /\ lloc'["handler"].text = text
      /\ lpc'["indexer"] = lpc["indexer"] /\ lloc'["indexer"] = lloc["indexer"]
  BY <1>1, NotifiedShape
<1>4. LspShape'
  <2>1. docs' = [u \in Uris |-> docs'[u]] /\ sources' = [u \in Uris |-> sources'[u]]
    BY <1>2 DEF LspShape
  <2> QED
    BY <1>1, <1>2, <2>1, NotifiedShape DEF LspShape
<1>5. ASSUME NEW u \in Uris \ overlapped' PROVE Follows(u)'
  <2>1. Follows(u)
    BY <1>2 DEF LspInv, Working
  <2>2. u = x => sources'[u] = text /\ docs'[u].open
    BY <1>2 DEF LspShape
  <2>3. u # x => docs'[u] = docs[u] /\ sources'[u] = sources[u]
    BY <1>2 DEF LspShape
  <2>4. u = x /\ ~Halfway("indexer", u) => Halfway("handler", u)' /\ Half("handler", u)'
    BY <1>3, <2>2 DEF Halfway, Half
  <2>5. Halfway("handler", u) \/ Halfway("handler", u)' => u = x
    BY <1>3 DEF Halfway
  <2> QED
    BY <1>2, <1>3, <2>1, <2>3, <2>4, <2>5, OneWorks
<1> QED
  BY <1>4, <1>5 DEF LspInv

LEMMA DidCloseInv ==
  ASSUME LspInv, NEW x \in Uris, DidClose(x) PROVE LspInv'
<1>1. LspShape /\ Notified("budget", x, NoText)
  BY DEF DidClose, LspInv
<1>2. LspShape /\ Working("handler", x)
      /\ docs' = [docs EXCEPT ![x].open = FALSE] /\ UNCHANGED sources
  BY DEF DidClose, LspInv
<1>3. /\ "handler" \in Tasks /\ Other("handler") = "indexer"
      /\ lpc["handler"] = "idle" /\ lpc'["handler"] = "budget"
      /\ lpc'["indexer"] = lpc["indexer"] /\ lloc'["indexer"] = lloc["indexer"]
  BY <1>1, NotifiedShape
<1>4. \A u \in Uris : /\ u # x => docs'[u] = docs[u]
                      /\ u = x => docs'[u] = [docs[u] EXCEPT !.open = FALSE]
  BY <1>2 DEF LspShape
<1>5. LspShape'
  <2>1. docs' = [u \in Uris |-> docs'[u]]
    BY <1>2 DEF LspShape
  <2>2. \A u \in Uris : DOMAIN docs'[u] = {"text", "open"}
    BY <1>2, <1>4 DEF LspShape
  <2> QED
    BY <1>1, <1>2, <2>1, <2>2, NotifiedShape DEF LspShape
<1>6. ASSUME NEW u \in Uris \ overlapped' PROVE Follows(u)'
  <2>1. Follows(u)
    BY <1>2 DEF LspInv, Working
  <2>2. ~Halfway("handler", u) /\ ~Halfway("handler", u)'
    BY <1>3 DEF Halfway
  <2>3. \A t \in Tasks : t = "handler" \/ t = "indexer"
    BY DEF Tasks
  <2>4. u = x => docs'[u].text = docs[u].text
    BY <1>2, <1>4 DEF LspShape
  <2>5. u = x /\ ~Halfway("indexer", u) => sources'[u] = docs'[u].text
    BY <1>2, <2>1, <2>2, <2>3, <2>4 DEF Follows, AtRest
  <2> QED
    BY <1>2, <1>3, <1>4, <2>1, <2>2, <2>5, OneWorks
<1> QED
  BY <1>5, <1>6 DEF LspInv

LEMMA WatchedChangeInv ==
  ASSUME LspInv, NEW x \in Uris, NEW text \in Texts, WatchedChange(x, text) PROVE LspInv'
<1>1. LspShape /\ Notified("index", x, text) /\ UNCHANGED <<docs, sources, overlapped>>
  BY DEF WatchedChange, LspInv
<1>2. /\ "handler" \in Tasks /\ Other("handler") = "indexer"
      /\ lpc["handler"] = "idle" /\ lpc'["handler"] = "index"
      /\ lpc'["indexer"] = lpc["indexer"] /\ lloc'["indexer"] = lloc["indexer"] /\ LspShape'
  BY <1>1, NotifiedShape DEF LspShape
<1> QED
  BY <1>1, <1>2, NobodyWorks DEF Halfway

LEMMA WatchedDeleteInv ==
  ASSUME LspInv, NEW x \in Uris, WatchedDelete(x) PROVE LspInv'
<1> DEFINE there == IF docs[x] = NoDoc THEN "idle" ELSE "remove_source"
<1>1. LspShape /\ Notified(there, x, NoText) /\ Working("handler", x)
      /\ docs' = [docs EXCEPT ![x] = NoDoc] /\ UNCHANGED sources
  BY DEF WatchedDelete, LspInv
<1>2. /\ "handler" \in Tasks /\ Other("handler") = "indexer"
      /\ lpc["handler"] = "idle" /\ lpc'["handler"] = there /\ lloc'["handler"].uri = x
      /\ lpc'["indexer"] = lpc["indexer"] /\ lloc'["indexer"] = lloc["indexer"] /\ LspShape'
  BY <1>1, NotifiedShape DEF LspShape, NoDoc
<1>3. ASSUME NEW u \in Uris \ overlapped' PROVE Follows(u)'
  <2>1. Follows(u)
    BY <1>1 DEF LspInv, Working
  <2>2. u # x => docs'[u] = docs[u] /\ sources'[u] = sources[u]
    BY <1>1 DEF LspShape
  <2>3. u = x => docs'[u] = NoDoc
    BY <1>1 DEF LspShape
  <2>4. ~Halfway("handler", u) /\ \A t \in Tasks : t = "handler" \/ t = "indexer"
    BY <1>2 DEF Halfway, Tasks
  <2>5. ASSUME u = x, ~Halfway("indexer", u)
        PROVE  IF Halfway("handler", u)' THEN Half("handler", u)' ELSE sources'[u] = docs'[u].text
    <3>1. sources[u] = docs[u].text
      BY <2>1, <2>4, <2>5 DEF Follows, AtRest
    <3>2. CASE docs[x] = NoDoc
      BY <1>1, <1>2, <2>3, <2>5, <3>1, <3>2 DEF Halfway
    <3>3. CASE docs[x] # NoDoc
      BY <1>2, <2>3, <2>5, <3>3 DEF Halfway, Half
    <3> QED
      BY <3>2, <3>3
  <2>6. Halfway("handler", u)' => u = x
    BY <1>2 DEF Halfway
  <2> QED
    BY <1>1, <1>2, <2>1, <2>2, <2>4, <2>5, <2>6, OneWorks
<1> QED
  BY <1>2, <1>3 DEF LspInv

LEMMA DidRenameInv ==
  ASSUME LspInv, NEW x \in Uris, NEW v \in Uris, DidRename(x, v) PROVE LspInv'
<1>1. /\ LspShape /\ Notified("idle", x, NoText) /\ x # v
      /\ docs' = [docs EXCEPT ![v] = docs[x], ![x] = NoDoc]
      /\ sources' = [sources EXCEPT ![v] = docs[x].text, ![x] = NoText]
      /\ overlapped' = overlapped \cup {w \in {x, v} : Halfway("indexer", w)}
  BY DEF DidRename, LspInv
<1>2. /\ \A t \in Tasks : t = "handler" \/ t = "indexer"
      /\ lpc["handler"] = "idle" /\ lpc'["handler"] = "idle"
      /\ lpc'["indexer"] = lpc["indexer"] /\ lloc'["indexer"] = lloc["indexer"]
  BY <1>1, NotifiedShape DEF Tasks
<1>3. /\ docs'[x] = NoDoc /\ docs'[v] = docs[x]
      /\ sources'[x] = NoText /\ sources'[v] = docs[x].text
      /\ \A u \in Uris \ {x, v} : docs'[u] = docs[u] /\ sources'[u] = sources[u]
  BY <1>1 DEF LspShape
<1>4. LspShape'
  <2>1. docs' = [u \in Uris |-> docs'[u]] /\ sources' = [u \in Uris |-> sources'[u]]
    BY <1>1 DEF LspShape
  <2>2. \A u \in Uris : DOMAIN docs'[u] = {"text", "open"}
    BY <1>3 DEF LspShape, NoDoc, LspInv
  <2> QED
    BY <1>1, <2>1, <2>2, NotifiedShape DEF LspShape
<1>5. ASSUME NEW u \in Uris \ overlapped' PROVE Follows(u)'
  <2>1. Follows(u)
    BY <1>1 DEF LspInv
  <2>2. CASE u \notin {x, v}
    BY <1>2, <1>3, <2>1, <2>2, Elsewhere DEF Halfway
  <2>3. CASE u \in {x, v}
    <3>1. \A t \in Tasks : ~Halfway(t, u)'
      BY <1>1, <1>2, <2>3 DEF Halfway
    <3> QED
      BY <1>3, <2>3, <3>1 DEF Follows, AtRest, NoDoc
  <2> QED
    BY <2>2, <2>3
<1> QED
  BY <1>4, <1>5 DEF LspInv

\* The second lock of an operation: the locals stay, the task may go elsewhere.
Moves(t, there) ==
  /\ lpc' = [lpc EXCEPT ![t] = there] /\ UNCHANGED lloc

LEMMA MovesShape ==
  ASSUME LspShape, NEW t \in Tasks, NEW there, Moves(t, there)
  PROVE  /\ lpc' = [o \in Tasks |-> lpc'[o]] /\ lloc' = [o \in Tasks |-> lloc'[o]]
         /\ \A o \in Tasks : DOMAIN lloc'[o] = {"uri", "text", "todo"}
         /\ lpc'[t] = there /\ lloc'[t] = lloc[t]
         /\ lpc'[Other(t)] = lpc[Other(t)] /\ lloc'[Other(t)] = lloc[Other(t)]
BY TwoTasks DEF LspShape, Moves

LEMMA OpenDocInv == ASSUME LspInv, OpenDoc PROVE LspInv'
<1> DEFINE x == lloc["handler"].uri
<1>1. /\ LspShape /\ Moves("handler", "idle") /\ lpc["handler"] = "open" /\ "handler" \in Tasks
      /\ docs' = [docs EXCEPT ![x] = [text |-> lloc["handler"].text, open |-> TRUE]]
      /\ Working("handler", x) /\ UNCHANGED sources
  BY DEF OpenDoc, SetDoc, LspInv, LGoto, Moves, Tasks
<1>2. LspShape'
  BY <1>1, MovesShape DEF LspShape
<1>3. ASSUME NEW u \in Uris \ overlapped' PROVE Follows(u)'
  <2>1. Follows(u)
    BY <1>1 DEF LspInv, Working
  <2>2. u # x => docs'[u] = docs[u] /\ sources'[u] = sources[u]
    BY <1>1 DEF LspShape
  <2>3. ~Halfway("handler", u)'
    BY <1>1, MovesShape DEF Halfway
  <2>4. ASSUME u = x, ~Halfway(Other("handler"), u) PROVE sources'[u] = docs'[u].text
    <3>1. Half("handler", u)
      BY <1>1, <2>1, <2>4 DEF Halfway, Follows
    <3> QED
      BY <1>1, <2>4, <3>1 DEF Half, LspShape
  <2> QED
    BY <1>1, <2>1, <2>2, <2>3, <2>4, MovesShape, OneWorks DEF Halfway
<1> QED
  BY <1>2, <1>3 DEF LspInv

LEMMA UpdateDocInv == ASSUME LspInv, UpdateDoc PROVE LspInv'
<1> DEFINE x == lloc["handler"].uri
           new == [text |-> lloc["handler"].text, open |-> TRUE]
<1>1. /\ LspShape /\ Moves("handler", "idle") /\ lpc["handler"] = "update" /\ "handler" \in Tasks
      /\ docs' = IF docs[x] = NoDoc THEN docs ELSE [docs EXCEPT ![x] = new]
      /\ Working("handler", x) /\ UNCHANGED sources
  BY DEF UpdateDoc, SetDoc, LspInv, LGoto, Moves, Tasks
<1>2. LspShape'
  BY <1>1, MovesShape DEF LspShape
<1>3. ASSUME NEW u \in Uris \ overlapped' PROVE Follows(u)'
  <2>1. Follows(u)
    BY <1>1 DEF LspInv, Working
  <2>2. u # x => docs'[u] = docs[u] /\ sources'[u] = sources[u]
    BY <1>1 DEF LspShape
  <2>3. ~Halfway("handler", u)'
    BY <1>1, MovesShape DEF Halfway
  <2>4. ASSUME u = x, ~Halfway(Other("handler"), u) PROVE sources'[u] = docs'[u].text
    <3>1. Half("handler", u)
      BY <1>1, <2>1, <2>4 DEF Halfway, Follows
    <3>2. docs[x] # NoDoc
      BY <1>1, <2>4, <3>1 DEF Half, NoDoc
    <3> QED
      BY <1>1, <2>4, <3>1, <3>2 DEF Half, LspShape
  <2> QED
    BY <1>1, <2>1, <2>2, <2>3, <2>4, MovesShape, OneWorks DEF Halfway
<1> QED
  BY <1>2, <1>3 DEF LspInv

LEMMA RemoveSourceInv ==
  ASSUME LspInv, NEW t \in Tasks, RemoveSource(t) PROVE LspInv'
<1> DEFINE x == lloc[t].uri
<1>1. /\ LspShape /\ (Moves(t, "idle") \/ Moves(t, "evict"))
      /\ lpc[t] \in {"remove_source", "evict_source"}
      /\ sources' = [sources EXCEPT ![x] = NoText] /\ Working(t, x) /\ UNCHANGED docs
  BY DEF RemoveSource, LspInv, LGoto, Moves
<1>2. LspShape'
  BY <1>1, MovesShape DEF LspShape
<1>3. ASSUME NEW u \in Uris \ overlapped' PROVE Follows(u)'
  <2>1. Follows(u)
    BY <1>1 DEF LspInv, Working
  <2>2. u # x => docs'[u] = docs[u] /\ sources'[u] = sources[u]
    BY <1>1 DEF LspShape
  <2>3. ~Halfway(t, u)'
    BY <1>1, MovesShape DEF Halfway
  <2>4. ASSUME u = x, ~Halfway(Other(t), u) PROVE sources'[u] = docs'[u].text
    <3>1. Half(t, u)
      BY <1>1, <2>1, <2>4 DEF Halfway, Follows
    <3> QED
      BY <1>1, <2>4, <3>1 DEF Half, LspShape, NoDoc
  <2> QED
    BY <1>1, <2>1, <2>2, <2>3, <2>4, MovesShape, OneWorks DEF Halfway
<1> QED
  BY <1>2, <1>3 DEF LspInv

\* The check alone touches nothing; a closed document that has the text is passed over.
LEMMA IndexCheckInv ==
  ASSUME LspInv, NEW t \in Tasks, IndexCheck(t) PROVE LspInv'
<1> DEFINE x == lloc[t].uri
<1>1. /\ LspShape /\ lpc[t] = "index" /\ UNCHANGED <<docs, sources, overlapped>>
      /\ Moves(t, IF docs[x].open \/ docs[x].text = lloc[t].text THEN Done(t) ELSE "index_source")
  BY DEF IndexCheck, LspInv, Moves
<1>2. LspShape'
  BY <1>1, MovesShape DEF LspShape
<1>3. CASE docs[x].open \/ docs[x].text = lloc[t].text
  BY <1>1, <1>2, <1>3, MovesShape, NobodyWorks DEF Halfway, Done
<1>4. CASE ~(docs[x].open \/ docs[x].text = lloc[t].text)
  <2>1. /\ lpc'[t] = "index_source" /\ lloc'[t] = lloc[t]
        /\ lpc'[Other(t)] = lpc[Other(t)] /\ lloc'[Other(t)] = lloc[Other(t)]
    BY <1>1, <1>4, MovesShape
  <2>2. ASSUME NEW u \in Uris \ overlapped' PROVE Follows(u)'
    <3>1. Follows(u)
      BY <1>1, <2>2 DEF LspInv
    <3>2. CASE u # x
      <4>1. ~Halfway(t, u) => ~Halfway(t, u)'
        BY <2>1, <3>2 DEF Halfway
      <4>2. ~Halfway(t, u)
        BY <1>1 DEF Halfway
      <4> QED
        BY <1>1, <2>1, <3>1, <4>1, <4>2, TwoTasks, Elsewhere
    <3>3. CASE u = x
      <4>1. ~Halfway(t, u) /\ Halfway(t, u)'
        BY <1>1, <2>1, <3>3 DEF Halfway
      <4>2. ASSUME ~Halfway(Other(t), u)' PROVE Half(t, u)'
        <5>1. ~Halfway(Other(t), u)
          BY <2>1, <4>2 DEF Halfway
        <5>2. sources[u] = docs[u].text
          BY <3>1, <4>1, <5>1, TwoTasks DEF Follows, AtRest
        <5> QED
          BY <1>1, <1>4, <2>1, <3>3, <5>2 DEF Half
      <4>3. ~AtRest(u)' /\ Halfway(Other(Other(t)), u)'
        BY <4>1, TwoTasks DEF AtRest
      <4> QED
        BY <4>1, <4>2, <4>3, TwoTasks DEF Follows
    <3> QED
      BY <3>2, <3>3
  <2> QED
    BY <1>2, <2>2 DEF LspInv
<1> QED
  BY <1>3, <1>4

LEMMA IndexSourceInv ==
  ASSUME LspInv, NEW t \in Tasks, IndexSource(t) PROVE LspInv'
<1> DEFINE x == lloc[t].uri
<1>1. /\ LspShape /\ Moves(t, "index_doc") /\ lpc[t] = "index_source"
      /\ sources' = [sources EXCEPT ![x] = lloc[t].text] /\ Working(t, x) /\ UNCHANGED docs
  BY DEF IndexSource, LspInv, LGoto, Moves
<1>2. LspShape'
  BY <1>1, MovesShape DEF LspShape
<1>3. ASSUME NEW u \in Uris \ overlapped' PROVE Follows(u)'
  <2>1. Follows(u)
    BY <1>1 DEF LspInv, Working
  <2>2. u # x => docs'[u] = docs[u] /\ sources'[u] = sources[u]
    BY <1>1 DEF LspShape
  <2>3. lpc'[t] = "index_doc" /\ lloc'[t] = lloc[t]
    BY <1>1, MovesShape
  <2>4. ASSUME u = x, ~Halfway(Other(t), u) PROVE Halfway(t, u)' /\ Half(t, u)'
    <3>1. Half(t, u)
      BY <1>1, <2>1, <2>4 DEF Halfway, Follows
    <3> QED
      BY <1>1, <2>3, <2>4, <3>1 DEF Half, Halfway, LspShape
  <2> QED
    BY <1>1, <2>1, <2>2, <2>3, <2>4, MovesShape, OneWorks DEF Halfway
<1> QED
  BY <1>2, <1>3 DEF LspInv

LEMMA IndexDocInv ==
  ASSUME LspInv, NEW t \in Tasks, IndexDoc(t) PROVE LspInv'
<1> DEFINE x == lloc[t].uri
           new == [text |-> lloc[t].text, open |-> FALSE]
<1>1. /\ LspShape /\ (Moves(t, Done(t)) \/ Moves(t, After(t))) /\ lpc[t] = "index_doc"
      /\ docs' = IF docs[x].open THEN docs ELSE [docs EXCEPT ![x] = new]
      /\ Working(t, x) /\ UNCHANGED sources
  BY DEF IndexDoc, SetDoc, LspInv, LGoto, Moves
<1>2. LspShape'
  BY <1>1, MovesShape DEF LspShape
<1>3. ASSUME NEW u \in Uris \ overlapped' PROVE Follows(u)'
  <2>1. Follows(u)
    BY <1>1 DEF LspInv, Working
  <2>2. u # x => docs'[u] = docs[u] /\ sources'[u] = sources[u]
    BY <1>1 DEF LspShape
  <2>3. ~Halfway(t, u)'
    BY <1>1, MovesShape DEF Halfway, Done, After
  <2>4. ASSUME u = x, ~Halfway(Other(t), u) PROVE sources'[u] = docs'[u].text
    <3>1. Half(t, u)
      BY <1>1, <2>1, <2>4 DEF Halfway, Follows
    <3> QED
      BY <1>1, <2>4, <3>1 DEF Half, LspShape
  <2> QED
    BY <1>1, <2>1, <2>2, <2>3, <2>4, MovesShape, OneWorks DEF Halfway
<1> QED
  BY <1>2, <1>3 DEF LspInv

\* What is evicted loses its document first; one that is not known is left alone.
LEMMA EvictInv ==
  ASSUME LspInv, NEW t \in Tasks, Evict(t) PROVE LspInv'
<1>1. LspShape /\ lpc[t] = "evict" /\ UNCHANGED sources
  BY DEF Evict, LspInv
<1>2. CASE lloc[t].todo = {}
  <2>1. Moves(t, "idle") /\ UNCHANGED <<docs, overlapped>>
    BY <1>2 DEF Evict, Moves
  <2>2. LspShape'
    BY <1>1, <2>1, MovesShape DEF LspShape
  <2> QED
    BY <1>1, <2>1, <2>2, MovesShape, NobodyWorks DEF Halfway
<1>3. ASSUME NEW x \in lloc[t].todo,
             lloc' = [lloc EXCEPT ![t].uri = x, ![t].todo = @ \ {x}],
             docs' = [docs EXCEPT ![x] = NoDoc],
             lpc' = [lpc EXCEPT ![t] = IF docs[x] = NoDoc THEN "evict" ELSE "evict_source"],
             Working(t, x)
      PROVE  LspInv'
  <2>1. /\ lpc'[t] = IF docs[x] = NoDoc THEN "evict" ELSE "evict_source"
        /\ lloc'[t].uri = x /\ DOMAIN lloc'[t] = {"uri", "text", "todo"}
        /\ \A o \in Tasks \ {t} : lpc'[o] = lpc[o] /\ lloc'[o] = lloc[o]
        /\ lpc' = [o \in Tasks |-> lpc'[o]] /\ lloc' = [o \in Tasks |-> lloc'[o]]
    BY <1>1, <1>3 DEF LspShape
  <2>2. LspShape'
    BY <1>1, <1>3, <2>1 DEF LspShape, NoDoc
  <2>3. ASSUME NEW u \in Uris \ overlapped' PROVE Follows(u)'
    <3>1. Follows(u)
      BY <1>3 DEF LspInv, Working
    <3>2. u # x => docs'[u] = docs[u] /\ sources'[u] = sources[u]
      BY <1>1, <1>3 DEF LspShape
    <3>3. u = x => docs'[u] = NoDoc
      BY <1>1, <1>3 DEF LspShape
    <3>4. ~Halfway(t, u) /\ (Halfway(t, u)' => u = x)
      BY <1>1, <2>1 DEF Halfway
    <3>5. ASSUME u = x, ~Halfway(Other(t), u)
          PROVE  IF Halfway(t, u)' THEN Half(t, u)' ELSE sources'[u] = docs'[u].text
      <4>1. sources[u] = docs[u].text
        BY <3>1, <3>4, <3>5, TwoTasks DEF Follows, AtRest
      <4>2. CASE docs[x] = NoDoc
        BY <1>1, <2>1, <3>3, <3>5, <4>1, <4>2 DEF Halfway
      <4>3. CASE docs[x] # NoDoc
        BY <2>1, <3>3, <3>5, <4>3 DEF Halfway, Half
      <4> QED
        BY <4>2, <4>3
    <3>6. lpc'[Other(t)] = lpc[Other(t)] /\ lloc'[Other(t)] = lloc[Other(t)]
      BY <2>1, TwoTasks
    <3> QED
      BY <1>3, <3>1, <3>2, <3>4, <3>5, <3>6, OneWorks
  <2> QED
    BY <2>2, <2>3 DEF LspInv
<1> QED
  BY <1>2, <1>3 DEF Evict

LEMMA ChooseVictimsInv ==
  ASSUME LspInv, NEW t \in Tasks, ChooseVictims(t) PROVE LspInv'
<1>1. /\ LspShape /\ lpc[t] = "budget" /\ lpc' = [lpc EXCEPT ![t] = "evict"]
      /\ lloc' = [lloc EXCEPT ![t].todo = Victims] /\ UNCHANGED <<docs, sources, overlapped>>
  BY DEF ChooseVictims, LGoto, LspInv
<1>2. /\ lpc'[t] = "evict" /\ DOMAIN lloc'[t] = {"uri", "text", "todo"}
      /\ \A o \in Tasks \ {t} : lpc'[o] = lpc[o] /\ lloc'[o] = lloc[o]
      /\ lpc' = [o \in Tasks |-> lpc'[o]] /\ lloc' = [o \in Tasks |-> lloc'[o]]
  BY <1>1 DEF LspShape
<1>3. LspShape'
  BY <1>1, <1>2 DEF LspShape
<1>4. lpc'[Other(t)] = lpc[Other(t)] /\ lloc'[Other(t)] = lloc[Other(t)]
  BY <1>2, TwoTasks
<1> QED
  BY <1>1, <1>2, <1>3, <1>4, NobodyWorks DEF Halfway

\* The background task looks for its next file.
LEMMA LooksInv ==
  ASSUME LspInv, StartIndexing \/ IndexNext PROVE LspInv'
<1>1. /\ LspShape /\ lpc["indexer"] \in {"idle", "next"} /\ "indexer" \in Tasks
      /\ UNCHANGED <<docs, sources, overlapped>>
  BY DEF StartIndexing, IndexNext, LGoto, LspInv, Tasks
<1>2. /\ lpc'["indexer"] \in {"next", "budget", "index"}
      /\ DOMAIN lloc'["indexer"] = {"uri", "text", "todo"}
      /\ \A o \in Tasks \ {"indexer"} : lpc'[o] = lpc[o] /\ lloc'[o] = lloc[o]
      /\ lpc' = [o \in Tasks |-> lpc'[o]] /\ lloc' = [o \in Tasks |-> lloc'[o]]
  <2>1. CASE StartIndexing
    BY <1>1, <2>1 DEF StartIndexing, LGoto, LspShape
  <2>2. CASE IndexNext
    <3>1. CASE lloc["indexer"].todo = {}
      BY <1>1, <2>2, <3>1 DEF IndexNext, LspShape
    <3>2. CASE lloc["indexer"].todo # {}
      BY <1>1, <2>2, <3>2 DEF IndexNext, LspShape
    <3> QED
      BY <3>1, <3>2
  <2> QED
    BY <2>1, <2>2
<1>3. LspShape'
  BY <1>1, <1>2 DEF LspShape
<1>4. lpc'[Other("indexer")] = lpc[Other("indexer")] /\ lloc'[Other("indexer")] = lloc[Other("indexer")]
  BY <1>1, <1>2, TwoTasks
<1> QED
  BY <1>1, <1>2, <1>3, <1>4, NobodyWorks DEF Halfway

LEMMA LspInitInv == LspInit => LspInv
BY DEF LspInit, LspInv, LspShape, NoDoc, NoWork, Follows, AtRest, Halfway

LEMMA LspNextInv == LspInv /\ [LspNext]_lspVars => LspInv'
<1>1. CASE UNCHANGED lspVars
  BY <1>1 DEF lspVars, LspInv, LspShape, Follows, AtRest, Halfway, Half
<1> QED
  BY <1>1, DidOpenInv, DidChangeInv, WatchedChangeInv, DidCloseInv, WatchedDeleteInv, DidRenameInv,
     OpenDocInv, UpdateDocInv, RemoveSourceInv, IndexCheckInv, IndexSourceInv, IndexDocInv,
     ChooseVictimsInv, EvictInv, LooksInv
  DEF LspNext

\* crates/trust-lsp/src/state/: for any number of files and notifications, the text
\* that is analysed and the one of the document are the same whenever no operation
\* on the file is between its two locks, unless the two tasks met there: whichever
\* lock is taken first, the second step brings the other one after.
THEOREM SourcesAlwaysFollowDocs == LspSpec => []SourcesFollowDocs
<1>1. LspInv => SourcesFollowDocs
  BY DEF LspInv, Follows, SourcesFollowDocs
<1> QED
  BY <1>1, LspInitInv, LspNextInv, PTL DEF LspSpec
=============================================================================
