------------------------------ MODULE Pairing ------------------------------
(***************************************************************************)
(* Pairing of browsers with a runtime: PairingStore in                     *)
(* crates/trust-runtime/src/web/pairing.rs.                                *)
(*                                                                         *)
(* A code that is shown on the machine is exchanged once for a token; the  *)
(* tokens are kept in memory and, after every change, in a file that is    *)
(* truncated and written again.  Operations run under one mutex and answer *)
(* after the save, so an operation is its change of the memory, the two    *)
(* steps of the save and the answer; the process can end between them.     *)
(***************************************************************************)
EXTENDS Naturals, FiniteSets

CONSTANTS
  CodeTtl,     \* PAIRING_CODE_TTL_SECS
  TokenTtl,    \* PAIRING_TOKEN_TTL_SECS
  MaxPaired,   \* PAIRING_MAX_TOKENS
  MaxClock,    \* bound: seconds
  MaxCodes     \* bound: codes and tokens that are generated

ASSUME PairingAssumption ==
  /\ CodeTtl \in Nat /\ TokenTtl \in Nat /\ MaxPaired \in Nat
  /\ MaxClock \in Nat /\ MaxCodes \in Nat

VARIABLES
  paired,   \* PairingState.tokens
  pending,  \* PairingState.pending: at most one code
  file,     \* pairing.json: its tokens, and whether it is there in part only
  busy,     \* the operation under way: what it answers after the save
  clock,    \* seconds
  codes,    \* codes generated so far; each is used as the name of its token too
  revoked   \* tokens whose revocation was saved and answered (history)

pairVars == <<paired, pending, file, busy, clock, codes, revoked>>

Code  == 1..MaxCodes
Token == [tok : Code, created : 0..MaxClock, expires : 0..(MaxClock + TokenTtl),
          enabled : BOOLEAN]
PendingCode == [code : Code, expires : 0..(MaxClock + CodeTtl)]
NoCode == {}
NoFile == [torn |-> FALSE, tokens |-> {}]
TornFile   == [torn |-> TRUE, tokens |-> {}]
Idle   == [step |-> "idle", revokes |-> {}, saved |-> TRUE]

PairingTypeOK ==
  /\ paired \subseteq Token /\ file.torn \in BOOLEAN /\ file.tokens \subseteq Token
  /\ pending = NoCode \/ \E p \in PendingCode : pending = {p}
  /\ busy \in [step : {"idle", "truncate", "write", "answer"},
               revokes : SUBSET Code, saved : BOOLEAN]
  /\ clock \in 0..MaxClock /\ codes \in 0..MaxCodes
  /\ revoked \subseteq Code

PairingInit ==
  /\ paired = {} /\ pending = NoCode /\ file = NoFile /\ busy = Idle
  /\ clock = 0 /\ codes = 0 /\ revoked = {}

Unexpired(set) == {t \in set : t.expires >= clock}

\* After the change of the memory, save_tokens if the operation asks for it.
Operation(new, saves, revokes) ==
  /\ busy.step = "idle"
  /\ paired' = new
  /\ busy' = [step |-> IF saves THEN "truncate" ELSE "answer",
             revokes |-> revokes, saved |-> TRUE]

-----------------------------------------------------------------------------
StartPairing ==
  /\ codes < MaxCodes /\ codes' = codes + 1
  /\ Operation(Unexpired(paired), Unexpired(paired) # paired, {})
  /\ pending' = {[code |-> codes', expires |-> clock + CodeTtl]}
  /\ UNCHANGED <<file, clock, revoked>>

\* claim: the code is taken first and put back only if another one was given.
ClaimIssues(c) ==
  /\ \E p \in pending : p.code = c /\ p.expires >= clock
  /\ Cardinality({t \in Unexpired(paired) : t.enabled}) < MaxPaired
  /\ Operation(Unexpired(paired) \cup {[tok |-> c, created |-> clock,
                                   expires |-> clock + TokenTtl, enabled |-> TRUE]},
               TRUE, {})
  /\ pending' = NoCode
  /\ UNCHANGED <<file, clock, codes, revoked>>

ClaimRefused(c) ==
  /\ \/ \E p \in pending :
          /\ \/ p.expires < clock
             \/ p.code = c /\ Cardinality({t \in Unexpired(paired) : t.enabled}) >= MaxPaired
          /\ pending' = NoCode
     \/ \E p \in pending : p.expires >= clock /\ p.code # c /\ UNCHANGED pending
     \/ pending = NoCode /\ UNCHANGED pending
  /\ Operation(Unexpired(paired), FALSE, {})
  /\ UNCHANGED <<file, clock, codes, revoked>>

\* validate_with_role and list: only what has expired goes.
Look ==
  /\ Operation(Unexpired(paired), Unexpired(paired) # paired, {})
  /\ UNCHANGED <<pending, file, clock, codes, revoked>>

Revoking(hit, saves) ==
  /\ Operation({IF t \in hit THEN [t EXCEPT !.enabled = FALSE] ELSE t : t \in Unexpired(paired)},
               saves, {t.tok : t \in hit})
  /\ UNCHANGED <<pending, file, clock, codes, revoked>>

\* revoke: an id is made of the second a token was created in, so it may name
\* several.
Revoke(second) ==
  LET hit == {t \in Unexpired(paired) : t.created = second} IN Revoking(hit, hit # {})

\* Variant: only tokens that were disabled before are seen as a change.
RevokeAllUnsaved ==
  LET hit == {t \in Unexpired(paired) : t.enabled} IN Revoking(hit, hit = {})

RevokeAll ==
  LET hit == {t \in Unexpired(paired) : t.enabled} IN Revoking(hit, hit # {})

-----------------------------------------------------------------------------
(***************************************************************************)
(* save_tokens, the answer, time and the end of the process.               *)
(***************************************************************************)
TruncateTokens ==
  /\ busy.step = "truncate" /\ file' = TornFile
  /\ busy' = [busy EXCEPT !.step = "write"]
  /\ UNCHANGED <<paired, pending, clock, codes, revoked>>

WriteTokens ==
  /\ busy.step = "write" /\ file' = [torn |-> FALSE, tokens |-> paired]
  /\ busy' = [busy EXCEPT !.step = "answer"]
  /\ UNCHANGED <<paired, pending, clock, codes, revoked>>

\* The result of save_tokens is ignored.
SaveTokensFails ==
  /\ busy.step \in {"truncate", "write"}
  /\ busy' = [busy EXCEPT !.step = "answer", !.saved = FALSE]
  /\ UNCHANGED <<paired, pending, file, clock, codes, revoked>>

PairingAnswer ==
  /\ busy.step = "answer"
  /\ revoked' = revoked \cup (IF busy.saved THEN busy.revokes ELSE {})
  /\ busy' = Idle
  /\ UNCHANGED <<paired, pending, file, clock, codes>>

PairingTick ==
  /\ clock < MaxClock /\ clock' = clock + 1
  /\ UNCHANGED <<paired, pending, file, busy, codes, revoked>>

\* The process ends and is started again: load_tokens takes a file that does
\* not parse for an empty one.
Relaunch ==
  /\ paired' = (IF file.torn THEN {} ELSE file.tokens)
  /\ pending' = NoCode /\ busy' = Idle
  /\ UNCHANGED <<file, clock, codes, revoked>>

PairingNext ==
  \/ StartPairing \/ Look \/ RevokeAll \/ TruncateTokens \/ WriteTokens \/ SaveTokensFails \/ PairingAnswer
  \/ PairingTick \/ Relaunch
  \/ \E c \in Code : ClaimIssues(c) \/ ClaimRefused(c)
  \/ \E second \in 0..MaxClock : Revoke(second)

PairingSpec == PairingInit /\ [][PairingNext]_pairVars

-----------------------------------------------------------------------------
(***************************************************************************)
(* Properties                                                              *)
(***************************************************************************)
\* Once a revocation was answered the token never counts again, although the
\* process may end between any two steps of this or of a later save and read an
\* older, an empty or a torn file.  (A revocation whose own save failed is
\* answered all the same and is undone by a restart: it is not counted.)
RevokedStaysRevoked ==
  \A t \in paired : t.tok \in revoked => ~t.enabled
=============================================================================
