----------------------------- MODULE Deployment -----------------------------
(***************************************************************************)
(* Versioned deployment: run_deploy and run_rollback of                    *)
(* crates/trust-runtime/src/bin/trust-runtime/deploy.rs, and the deploy    *)
(* and rollback of the web server (crates/trust-runtime/src/web/deploy.rs).*)
(*                                                                         *)
(* A deploy root has a folder of bundles and two symbolic links, current   *)
(* and previous.  The command line copies a project into a new bundle,     *)
(* checks the copy, moves the links and removes the other bundles.  The    *)
(* web server, in the runtime's own process, swaps the links or overwrites *)
(* files of the bundle behind current.  Every process can be killed, and   *)
(* every file operation can fail, between any two steps.                   *)
(*                                                                         *)
(* A file holds the release it was copied from.                            *)
(***************************************************************************)
EXTENDS Naturals, Sequences, FiniteSets

CONSTANTS
  Labels,       \* names of bundles: default_bundle_label takes them from the clock
  Releases,     \* what can be deployed: a project that loads and validates
  Writers,      \* processes that change the root: commands and the web server
  NoLink,       \* the link does not exist
  MaxOps,       \* bound: operations started
  WebDeploys    \* whether files of the running bundle are overwritten

\* Names are ordered by the clock; no name is that of a missing link.
ASSUME DeploymentAssumption ==
  Labels \subseteq Nat /\ NoLink \notin Labels /\ Releases # {} /\ MaxOps \in Nat

Files == <<"runtime.toml", "program.stbc", "sources">>

VARIABLES
  bundle,    \* per label: its files, or NoBundle
  current,   \* the target of the link current
  previous,  \* the target of the link previous
  dpc,       \* per writer: where its operation is
  dlocal,    \* per writer: the locals of that operation
  disturbed, \* bundles changed after they were validated (history)
  named,     \* labels used so far (history: the clock moves on)
  ops        \* counter for the bound

depVars == <<bundle, current, previous, dpc, dlocal, disturbed, named, ops>>

NoBundle  == [f \in 1..Len(Files) |-> "absent"]
Empty   == [f \in 1..Len(Files) |-> "missing"]
Content == Releases \cup {"missing", "torn", "absent"}
Links   == Labels \cup {NoLink}

\* dest and the release copied, the next file, the links as they were read,
\* what prune_bundles has still to look at.
Locals == [dest : Links, rel : Releases, at : 1..(Len(Files) + 1),
           cur : Links, prev : Links, todo : SUBSET Labels]
NoLocals == [dest |-> NoLink, rel |-> CHOOSE r \in Releases : TRUE, at |-> 1,
             cur |-> NoLink, prev |-> NoLink, todo |-> {}]

DPcs == {"idle", "copy", "check", "links", "current", "link_current", "previous",
         "link_previous", "prune", "write"}

DepTypeOK ==
  /\ bundle \in [Labels -> [1..Len(Files) -> Content]]
  /\ current \in Links /\ previous \in Links
  /\ dpc \in [Writers -> DPcs] /\ dlocal \in [Writers -> Locals]
  /\ disturbed \subseteq Labels /\ named \subseteq Labels /\ ops \in 0..MaxOps

DepInit ==
  /\ bundle = [l \in Labels |-> NoBundle]
  /\ current = NoLink /\ previous = NoLink
  /\ dpc = [w \in Writers |-> "idle"]
  /\ dlocal = [w \in Writers |-> NoLocals]
  /\ disturbed = {} /\ named = {} /\ ops = 0

Exists(l) == l # NoLink /\ bundle[l] # NoBundle

\* What RuntimeBundle::load needs: the folder with a configuration and a
\* program that can be read.
Loads(b) == \A f \in {1, 2} : b[f] \in Releases

\* The copy of one project, complete.
Whole(b) == \E r \in Releases : \A f \in 1..Len(Files) : b[f] = r

Begin(w, pc, locals) ==
  /\ dpc[w] = "idle" /\ ops < MaxOps /\ ops' = ops + 1
  /\ dpc' = [dpc EXCEPT ![w] = pc] /\ dlocal' = [dlocal EXCEPT ![w] = locals]

DGoto(w, here, there) == dpc[w] = here /\ dpc' = [dpc EXCEPT ![w] = there]

Ended(w) == dpc' = [dpc EXCEPT ![w] = "idle"] /\ dlocal' = [dlocal EXCEPT ![w] = NoLocals]

\* Variant: the links move before the copy is complete.
DeployStartLinksFirst(w, l, r) ==
  /\ (\A k \in Labels : k < l <=> k \in named) /\ ~Exists(l)
  /\ Begin(w, "copy", [NoLocals EXCEPT !.dest = l, !.rel = r])
  /\ bundle' = [bundle EXCEPT ![l] = Empty]
  /\ named' = named \cup {l} /\ current' = l
  /\ UNCHANGED <<previous, disturbed>>

-----------------------------------------------------------------------------
(***************************************************************************)
(* run_deploy.                                                             *)
(***************************************************************************)
\* The project was loaded and validated; the name is the next one of the clock,
\* and dest must not exist yet.
DeployStart(w, l, r) ==
  /\ (\A k \in Labels : k < l <=> k \in named) /\ ~Exists(l)
  /\ Begin(w, "copy", [NoLocals EXCEPT !.dest = l, !.rel = r])
  /\ bundle' = [bundle EXCEPT ![l] = Empty]
  /\ named' = named \cup {l}
  /\ UNCHANGED <<current, previous, disturbed>>

\* copy_bundle, one file (the sources count as one).
CopyFile(w) ==
  LET s == dlocal[w] IN
  /\ dpc[w] = "copy"
  /\ IF s.at <= Len(Files)
       THEN /\ bundle' = [bundle EXCEPT ![s.dest][s.at] = s.rel]
            /\ dlocal' = [dlocal EXCEPT ![w].at = @ + 1]
            /\ UNCHANGED dpc
       ELSE dpc' = [dpc EXCEPT ![w] = "check"] /\ UNCHANGED <<bundle, dlocal>>
  /\ UNCHANGED <<current, previous, disturbed, named, ops>>

\* The copy is loaded and validated; a bundle that does not load ends the command.
CheckCopy(w) ==
  /\ dpc[w] = "check"
  /\ IF Loads(bundle[dlocal[w].dest])
       THEN dpc' = [dpc EXCEPT ![w] = "links"] /\ UNCHANGED dlocal
       ELSE Ended(w)
  /\ UNCHANGED <<bundle, current, previous, disturbed, named, ops>>

\* read_link_target of both links.  The summary that is written next can only fail.
ReadLinks(w) ==
  /\ DGoto(w, "links", "current")
  /\ dlocal' = [dlocal EXCEPT ![w].cur = current, ![w].prev = previous]
  /\ UNCHANGED <<bundle, current, previous, disturbed, named, ops>>

\* What the links become: a deploy makes its bundle current, a rollback swaps.
NewCurrent(s)  == IF s.dest # NoLink THEN s.dest ELSE s.prev
NewPrevious(s) == s.cur

-----------------------------------------------------------------------------
(***************************************************************************)
(* update_symlink: a link whose target exists is removed, then the new one *)
(* is created.  Path::exists follows the link, so one that dangles stays   *)
(* and symlink fails because the name is taken.                            *)
(***************************************************************************)
UnlinkCurrent(w) ==
  /\ DGoto(w, "current", "link_current")
  /\ current' = IF Exists(current) THEN NoLink ELSE current
  /\ UNCHANGED <<bundle, previous, dlocal, disturbed, named, ops>>

LinkCurrent(w) ==
  /\ dpc[w] = "link_current" /\ current = NoLink
  /\ current' = NewCurrent(dlocal[w])
  /\ dpc' = [dpc EXCEPT ![w] = IF NewPrevious(dlocal[w]) = NoLink THEN "prune" ELSE "previous"]
  /\ dlocal' = [dlocal EXCEPT ![w].todo = {l \in Labels : Exists(l)}]
  /\ UNCHANGED <<bundle, previous, disturbed, named, ops>>

UnlinkPrevious(w) ==
  /\ DGoto(w, "previous", "link_previous")
  /\ previous' = IF Exists(previous) THEN NoLink ELSE previous
  /\ UNCHANGED <<bundle, current, dlocal, disturbed, named, ops>>

LinkPrevious(w) ==
  LET s == dlocal[w] IN
  /\ dpc[w] = "link_previous" /\ previous = NoLink
  /\ previous' = NewPrevious(s)
  /\ IF s.dest = NoLink
       THEN Ended(w)
       ELSE /\ dpc' = [dpc EXCEPT ![w] = "prune"]
            /\ dlocal' = [dlocal EXCEPT ![w].todo = {l \in Labels : Exists(l)}]
  /\ UNCHANGED <<bundle, current, disturbed, named, ops>>

SymlinkFails(w) ==
  /\ \/ dpc[w] = "link_current" /\ current # NoLink
     \/ dpc[w] = "link_previous" /\ previous # NoLink
  /\ Ended(w)
  /\ UNCHANGED <<bundle, current, previous, disturbed, named, ops>>

\* bundle_targets: the new bundle and what the link previous named before.
KeptTargets(s) == {s.dest, s.prev} \ {NoLink}

\* prune_bundles, one folder.
Prune(w) ==
  LET s == dlocal[w] IN
  /\ dpc[w] = "prune"
  /\ IF s.todo = {}
       THEN Ended(w) /\ UNCHANGED <<bundle, disturbed>>
       ELSE \E l \in s.todo :
              /\ dlocal' = [dlocal EXCEPT ![w].todo = @ \ {l}]
              /\ bundle' = [bundle EXCEPT ![l] = IF l \in KeptTargets(s) THEN @ ELSE NoBundle]
              /\ disturbed' = IF l \in KeptTargets(s) THEN disturbed ELSE disturbed \cup {l}
              /\ UNCHANGED dpc
  /\ UNCHANGED <<current, previous, named, ops>>

-----------------------------------------------------------------------------
(***************************************************************************)
(* run_rollback and apply_rollback, which are the same.                    *)
(***************************************************************************)
Rollback(w) ==
  /\ current # NoLink /\ previous # NoLink
  /\ Begin(w, "current", [NoLocals EXCEPT !.cur = current, !.prev = previous])
  /\ UNCHANGED <<bundle, current, previous, disturbed, named>>

(***************************************************************************)
(* apply_deploy: files of the bundle behind current are overwritten one    *)
(* after the other; the path goes through the link each time.              *)
(***************************************************************************)
\* The request holds all files of a release, so the preflight, which looks at
\* the configuration the bundle would have, lets it pass.
WebDeployStart(w, r) ==
  /\ WebDeploys /\ Exists(current)
  /\ Begin(w, "write", [NoLocals EXCEPT !.rel = r])
  /\ UNCHANGED <<bundle, current, previous, disturbed, named>>

WriteFile(w) ==
  LET s == dlocal[w] IN
  /\ dpc[w] = "write"
  /\ IF s.at <= Len(Files) /\ Exists(current)
       THEN /\ bundle' = [bundle EXCEPT ![current][s.at] = s.rel]
            /\ disturbed' = disturbed \cup {current}
            /\ dlocal' = [dlocal EXCEPT ![w].at = @ + 1]
            /\ UNCHANGED dpc
       ELSE Ended(w) /\ UNCHANGED <<bundle, disturbed>>
  /\ UNCHANGED <<current, previous, named, ops>>

(***************************************************************************)
(* An error or the end of the process: nothing is undone.  A file that was *)
(* being written is there in part, a folder that was being removed too.    *)
(***************************************************************************)
TornBy(w) ==
  LET s == dlocal[w] IN
  CASE dpc[w] = "copy" /\ s.at <= Len(Files) ->
         {bundle, [bundle EXCEPT ![s.dest][s.at] = "torn"]}
    [] dpc[w] = "write" /\ s.at <= Len(Files) /\ Exists(current) ->
         {bundle, [bundle EXCEPT ![current][s.at] = "torn"]}
    [] dpc[w] = "prune" ->
         {bundle} \cup {[bundle EXCEPT ![l] = [f \in 1..Len(Files) |->
                           IF f = 1 THEN "missing" ELSE bundle[l][f]]]
                        : l \in s.todo \ KeptTargets(s)}
    [] OTHER -> {bundle}

Abort(w) ==
  /\ dpc[w] # "idle"
  /\ bundle' \in TornBy(w)
  /\ disturbed' = disturbed \cup {l \in Labels : bundle'[l] # bundle[l] /\ dpc[w] # "copy"}
  /\ Ended(w)
  /\ UNCHANGED <<current, previous, named, ops>>

DepNext ==
  \E w \in Writers :
    \/ \E l \in Labels, r \in Releases : DeployStart(w, l, r)
    \/ CopyFile(w) \/ CheckCopy(w) \/ ReadLinks(w)
    \/ UnlinkCurrent(w) \/ LinkCurrent(w) \/ UnlinkPrevious(w) \/ LinkPrevious(w)
    \/ SymlinkFails(w) \/ Prune(w) \/ Rollback(w)
    \/ \E r \in Releases : WebDeployStart(w, r)
    \/ WriteFile(w) \/ Abort(w)

DepSpec == DepInit /\ [][DepNext]_depVars

-----------------------------------------------------------------------------
(***************************************************************************)
(* Properties                                                              *)
(***************************************************************************)
\* However commands, swaps of the web server, errors and kills interleave,
\* the link current never leads to a bundle that was only partly copied: it is
\* moved after the copy was checked, and nothing that was not checked can get
\* into previous.  (Bundles that a later step removed or overwrote are excepted.)
CurrentIsWhole ==
  \A l \in Labels : l \in {current, previous} \ disturbed => Whole(bundle[l])

\* docs/guides/PLC_OPERATOR_GUIDE.md: a deploy "keeps last two known-good
\* project folders".  When no command is running, what previous names is there
\* to roll back to.
KeepsLastTwo ==
  (\A w \in Writers : dpc[w] = "idle") /\ previous # NoLink => Exists(previous)
=============================================================================
