---------------------------- MODULE Interpreter ----------------------------
(***************************************************************************)
(* Execution of programs, function blocks and functions by the evaluator:  *)
(* eval/mod.rs, eval/stmt.rs and eval/expr/, with the frames of memory.rs  *)
(* and the two ways in of runtime/cycle.rs, execute_program and            *)
(* execute_function_block_ref.                                             *)
(*                                                                         *)
(* The text of a program is not fixed: at every point the next statement   *)
(* is any that the scope of the running POU allows.  Every POU has one     *)
(* instance at most, named like it, and a function is a name of its own    *)
(* scope, its result.  IF and CASE add nothing to the statements in them,  *)
(* and an index or a field of a target nothing to its name.                *)
(***************************************************************************)
EXTENDS Naturals, Sequences, SequencesExt, Functions

CONSTANTS
  Program, Block,   \* a program and a function block, also run by a task
  Functions,
  GlobalNames,      \* VAR_GLOBAL
  Members,          \* of the program and the block: variables of the instance
  Temps,            \* of every POU: its VAR_TEMP, a function's variables
  Params,           \* of block and functions: parameters in their order
  Direction,        \* of every parameter: "in", "out" or "inout"
  Scope,            \* of every POU: the names its text may use
  Callees,          \* of every POU: what it calls
  Data, Default,    \* values, and the default one
  NoName,           \* none
  MaxStatements     \* bound

Pous == {Program, Block} \cup Functions
ParamsOf(pou)  == {Params[pou][i] : i \in DOMAIN Params[pou]}
InOuts(pou)    == {i \in DOMAIN Params[pou] : Direction[Params[pou][i]] = "inout"}
InOutsOf(pou)  == {p \in ParamsOf(pou) : Direction[p] = "inout"}
LocalsOf(pou)  == Temps[pou] \cup (IF pou \in Functions THEN ParamsOf(pou) \cup {pou} ELSE {})

ASSUME InterpreterAssumption ==
  /\ Default \in Data /\ MaxStatements \in Nat
  /\ NoName \notin Pous \cup Data /\ {Program, Block} \cap Functions = {} /\ Program # Block
  /\ \A pou \in Pous \ {Program} :
       /\ Params[pou] \in Seq(Scope[pou])
       /\ \A i, j \in DOMAIN Params[pou] : Params[pou][i] = Params[pou][j] => i = j
       /\ \A p \in ParamsOf(pou) : Direction[p] \in {"in", "out", "inout"}
  /\ ParamsOf(Block) \subseteq Members[Block] \ Temps[Block]
  /\ \A pou \in Pous :
       /\ Scope[pou] \subseteq LocalsOf(pou) \cup GlobalNames
                              \cup (IF pou \in Functions THEN {} ELSE Members[pou])
       /\ NoName \notin Scope[pou]
       /\ Callees[pou] \subseteq Pous \ {Program, pou}

\* What the block calls does not call the block again (IEC 61131-3 knows no
\* recursion; the evaluator does not look for it).
ASSUME BlockCallsNoBlock ==
  \E below \in SUBSET Functions :
    /\ Callees[Block] \subseteq below
    /\ \A f \in below : Callees[f] \subseteq below

VARIABLES
  mem,     \* VariableStorage: values by place, of the frames only existing locals
  frames,  \* VariableStorage.frames: return_value of each
  ctx,     \* EvalContext: current_instance, return_name, call_depth, loop_depth
  levels,  \* the stack of the thread: activations with what they will restore
  status,  \* "running", "fault" on its way out, "done" or "faulted"
  debug,   \* Runtime.debug: is the debug hook in its place?
  ref,     \* history: memory as if every VAR_IN_OUT were a reference
  count    \* counter for the bound

evalVars == <<mem, frames, ctx, levels, status, debug, ref, count>>

Depth   == Len(frames)
Level   == Last(levels)
Running == Level.pou
Outside == [instance |-> NoName, return_name |-> NoName, call_depth |-> 0, loop_depth |-> 0]

\* Names: the local of the newest frame, the variable of the current instance,
\* the global.
Place(n, c, depth) ==
  IF <<"local", depth, n>> \in DOMAIN mem THEN <<"local", depth, n>>
  ELSE IF c.instance # NoName /\ n \in Members[c.instance] THEN <<"member", c.instance, n>>
  ELSE <<"global", NoName, n>>
Here(n) == Place(n, ctx, Depth)

Lasting == {<<"global", NoName, g>> : g \in GlobalNames}
             \cup UNION {{<<"member", i, n>> : n \in Members[i]} : i \in {Program, Block}}
Fresh == [l \in Lasting |-> Default]
\* The entries of f, and those of g at other places.
Over(f, g) == [l \in DOMAIN f \cup DOMAIN g |-> IF l \in DOMAIN f THEN f[l] ELSE g[l]]
\* The values written one after the other, in the order of their indices.
CopiedOut(m, at, value) ==
  [l \in DOMAIN m |->
     LET here == {i \in DOMAIN at : at[i] = l} IN IF here = {} THEN m[l] ELSE value[Max(here)]]
\* Which index f has at l.
IndexOf(f, l) == CHOOSE i \in DOMAIN f : f[i] = l
Popped(m, depth) == Restrict(m, {l \in DOMAIN m : ~(l[1] = "local" /\ l[2] = depth)})

\* What the next statement sees, in memory and if every VAR_IN_OUT were its target.
Val(e)    == IF e \in Data THEN e ELSE mem[Here(e)]
Origin(l) == IF l \in DOMAIN ref.held THEN ref.held[l].origin ELSE l
RefVal(e) == IF e \in Data THEN e ELSE ref.mem[Origin(Here(e))]
Read(e)   == IF e \in Data \cup {NoName} THEN {} ELSE {Here(e)}

\* Who uses a variable by its name while it is passed on sees the difference
\* between a copy and a reference.
Lent(held)  == {held[l].lender : l \in DOMAIN held}
Unlike      == [mem |-> <<>>, held |-> <<>>, aliased |-> TRUE]
Faithful(r, used) == IF ref.aliased \/ used \cap Lent(r.held) # {} THEN Unlike ELSE r

EvalTypeOK ==
  /\ Lasting \subseteq DOMAIN mem /\ \A l \in DOMAIN mem : mem[l] \in Data
  /\ frames \in Seq(Data \cup {NoName})
  /\ ctx \in [instance : {NoName, Program, Block}, return_name : {NoName} \cup Functions,
              call_depth : Nat, loop_depth : Nat]
  /\ \A i \in DOMAIN levels : levels[i].pou \in Pous /\ levels[i].loops \in Nat
  /\ status \in {"running", "fault", "done", "faulted"}
  /\ debug \in {"runtime", "context", "lost"}
  /\ ref.aliased \in BOOLEAN
  /\ count \in 0..MaxStatements

EvalInit ==
  /\ mem = Fresh /\ frames = <<>> /\ ctx = Outside /\ levels = <<>>
  /\ status = "done" /\ debug = "runtime" /\ count = 0
  /\ ref = [mem |-> Fresh, held |-> <<>>, aliased |-> FALSE]

----------------------------------------------------------------------------
(* In and out: execute_program and execute_function_block_ref *)

\* A function keeps its parameters in the frame, a block in its instance.
HomeOf(pou, p, depth) ==
  IF pou = Block THEN <<"member", Block, p>> ELSE <<"local", depth, p>>

Initialised(pou, value) ==
  LET given == {i \in DOMAIN Params[pou] : Direction[Params[pou][i]] # "out"}
      home  == [i \in given |-> HomeOf(pou, Params[pou][i], Depth + 1)]
  IN  [l \in {home[i] : i \in given} \cup {<<"local", Depth + 1, n>> : n \in LocalsOf(pou)} |->
         IF \E i \in given : home[i] = l THEN value[IndexOf(home, l)] ELSE Default]

Execute(pou) ==
  /\ status = "done"
  /\ levels' = <<[pou |-> pou, saved |-> ctx, args |-> <<>>, into |-> NoName, loops |-> 0]>>
  /\ frames' = Append(frames, NoName)
  /\ mem' = Over([l \in {<<"local", Depth + 1, n>> : n \in Temps[pou]} |-> Default], mem)
  /\ ctx' = [Outside EXCEPT !.instance = pou]
  /\ debug' = IF debug = "runtime" THEN "context" ELSE debug
  /\ status' = "running"
  /\ ref' = [mem |-> mem', held |-> <<>>, aliased |-> FALSE]
  /\ UNCHANGED count

execute_program == Execute(Program)

\* An initial value that fails leaves through ?, past the pop of the frame and
\* the return of the hook.
execute_function_block_ref ==
  \/ Execute(Block)
  \/ /\ status = "done"
     /\ frames' = Append(frames, NoName)
     /\ debug' = "lost"
     /\ status' = "faulted"
     /\ UNCHANGED <<mem, ctx, levels, ref, count>>

Leave(how) ==
  /\ frames' = Front(frames)
  /\ mem' = Popped(mem, Depth)
  /\ levels' = <<>>
  /\ ctx' = Outside
  /\ debug' = IF debug = "context" THEN "runtime" ELSE debug
  /\ status' = how
  /\ UNCHANGED <<ref, count>>

\* A program must not end with RETURN; of a block any end will do.
Finish(explicit) ==
  /\ status = "running" /\ Len(levels) = 1
  /\ explicit \/ Level.loops = 0
  /\ Leave(IF explicit /\ Running = Program THEN "faulted" ELSE "done")

restart_after_fault ==
  /\ status = "faulted"
  /\ frames' = <<>> /\ mem' = Fresh /\ status' = "done"
  /\ ref' = [mem |-> Fresh, held |-> <<>>, aliased |-> FALSE]
  /\ UNCHANGED <<ctx, levels, debug, count>>

----------------------------------------------------------------------------
(* Statements *)

exec_stmt ==
  /\ status = "running" /\ count < MaxStatements
  /\ count' = count + 1

\* An assignment to the name of the running function is its result so far.
Returning(fs, c, x, v) == IF c.return_name = x THEN [fs EXCEPT ![Len(fs)] = v] ELSE fs

Assign(x, e) ==
  /\ exec_stmt
  /\ mem' = [mem EXCEPT ![Here(x)] = Val(e)]
  /\ frames' = Returning(frames, ctx, x, Val(e))
  /\ ref' = Faithful([ref EXCEPT !.mem[Origin(Here(x))] = RefVal(e)],
                     {Here(x)} \cup Read(e))
  /\ UNCHANGED <<ctx, levels, status, debug>>

\* FOR, WHILE and REPEAT around their body; CONTINUE and the next round change nothing.
EnterLoop ==
  /\ exec_stmt
  /\ levels' = [levels EXCEPT ![Len(levels)].loops = @ + 1]
  /\ ctx' = [ctx EXCEPT !.loop_depth = @ + 1]
  /\ UNCHANGED <<mem, frames, status, debug, ref>>

\* EXIT, or the body's end when the condition says so.
LeaveLoop ==
  /\ status = "running" /\ Level.loops > 0
  /\ levels' = [levels EXCEPT ![Len(levels)].loops = @ - 1]
  /\ ctx' = [ctx EXCEPT !.loop_depth = @ - 1]
  /\ UNCHANGED <<mem, frames, status, debug, ref, count>>

\* An error in any expression, and the deadline of a test.
Fault ==
  /\ exec_stmt
  /\ status' = "fault"
  /\ ref' = Unlike
  /\ UNCHANGED <<mem, frames, ctx, levels, debug>>

----------------------------------------------------------------------------
(* Calls *)

\* What prepare_bindings accepts: a variable for an output, any value for an input.
Arguments(pou) ==
  {args \in [DOMAIN Params[pou] -> Scope[Running] \cup Data] :
     \A i \in DOMAIN args : args[i] \in Data => Direction[Params[pou][i]] = "in"}

\* What a call lends: the argument of every VAR_IN_OUT, by its place.
LoanOf(pou, args) ==
  LET place == [i \in InOuts(pou) |-> HomeOf(pou, Params[pou][i], Depth + 1)]
  IN  [l \in {place[i] : i \in InOuts(pou)} |->
         LET lender == Here(args[IndexOf(place, l)])
         IN  [lender |-> lender, origin |-> Origin(lender)]]

CallPou(pou, args, into) ==
  LET targets == {i \in DOMAIN Params[pou] : Direction[Params[pou][i]] # "in"}
      twice   == \E i, j \in targets : i # j /\ Here(args[i]) = Here(args[j])
      used    == UNION {Read(args[i]) : i \in DOMAIN args}
  IN /\ exec_stmt
     /\ into # NoName => pou \in Functions
     /\ mem' = Over(Initialised(pou, [i \in DOMAIN args |-> Val(args[i])]), mem)
     /\ frames' = Append(frames, NoName)
     /\ ctx' = [ctx EXCEPT !.instance = IF pou = Block THEN Block ELSE @,
                           !.return_name = IF pou = Block THEN @ ELSE pou,
                           !.call_depth = @ + 1]
     /\ levels' = Append(levels, [pou |-> pou, saved |-> ctx, args |-> args,
                                  into |-> into, loops |-> 0])
     /\ ref' = IF ref.aliased \/ twice \/ used \cap Lent(ref.held) # {} THEN Unlike
               ELSE [mem |-> Over(Initialised(pou, [i \in DOMAIN args |-> RefVal(args[i])]),
                                  ref.mem),
                     held |-> Over(LoanOf(pou, args), ref.held), aliased |-> FALSE]
     /\ UNCHANGED <<status, debug>>

\* The places the newest activation was given for what it returns, in the caller.
Target(i) == Place(Level.args[i], Level.saved, Depth - 1)
\* Variant: a block's VAR_IN_OUT stay where they are, in the instance.
OutputsOfBlockStay(pou) ==
  {i \in DOMAIN Params[pou] : Direction[Params[pou][i]] # "in"
                                /\ (pou = Block => Direction[Params[pou][i]] = "out")}
Outputs(pou) == {i \in DOMAIN Params[pou] : Direction[Params[pou][i]] # "in"}

\* Variant: the error path forgets the instance.
RestoredButInstance == [Level.saved EXCEPT
  !.instance = IF status = "fault" THEN ctx.instance ELSE @,
  !.loop_depth = IF status = "fault" THEN ctx.loop_depth ELSE ctx.loop_depth - Level.loops]

\* Loops count on through calls, and an error leaves them as they are.
Restored == [Level.saved EXCEPT !.loop_depth =
               IF status = "fault" THEN ctx.loop_depth ELSE ctx.loop_depth - Level.loops]

\* RETURN e, RETURN or the end of the body: parameters are read, the frame is
\* popped, and what was read is written to the targets.  (A result that nobody
\* asked for is dropped, so its expression makes no difference.)
Return(e) ==
  LET pou    == Running
      from   == [i \in Outputs(pou) |-> Here(Params[pou][i])]
      at     == [i \in Outputs(pou) |-> Target(i)]
      outs   == {i \in Outputs(pou) : Direction[Params[pou][i]] = "out"}
      into   == Place(Level.into, Level.saved, Depth - 1)
      Given(v) == IF e # NoName THEN v ELSE IF Last(frames) # NoName THEN Last(frames) ELSE Default
      Result(m, l, v) == IF Level.into = NoName THEN m ELSE [m EXCEPT ![l] = v]
      held   == Restrict(ref.held, DOMAIN ref.held \ {Here(p) : p \in InOutsOf(pou)})
      Final(l) == IF l \in DOMAIN held THEN held[l].origin ELSE l
  IN /\ status = "running" /\ Len(levels) > 1
     /\ e # NoName => pou \in Functions /\ Level.into # NoName
     /\ mem' = Result(Popped(CopiedOut(mem, at, [i \in DOMAIN at |-> mem[from[i]]]), Depth),
                      into, Given(Val(e)))
     /\ frames' = IF Level.into = NoName THEN Front(frames)
                  ELSE Returning(Front(frames), Level.saved, Level.into, Given(Val(e)))
     /\ ctx' = Restored
     /\ levels' = Front(levels)
     /\ ref' = IF ref.aliased \/ Read(e) \cap Lent(ref.held) # {} THEN Unlike
               ELSE Faithful(
                 [mem |-> Result(Popped(CopiedOut(ref.mem, [i \in outs |-> Final(at[i])],
                                                [i \in outs |-> ref.mem[from[i]]]), Depth),
                                 Final(into), Given(RefVal(e))),
                  held |-> held, aliased |-> FALSE],
                 {at[i] : i \in outs} \cup IF Level.into = NoName THEN {} ELSE {into})
     /\ UNCHANGED <<status, debug, count>>

\* An error passes every level, and each puts back what it changed.
Unwind ==
  /\ status = "fault"
  /\ IF Len(levels) = 1 THEN Leave("faulted")
     ELSE /\ frames' = Front(frames)
          /\ mem' = Popped(mem, Depth)
          /\ ctx' = Restored
          /\ levels' = Front(levels)
          /\ UNCHANGED <<status, debug, ref, count>>

EvalNext ==
  \/ execute_program \/ execute_function_block_ref \/ restart_after_fault
  \/ \E explicit \in BOOLEAN : Finish(explicit)
  \/ EnterLoop \/ LeaveLoop \/ Fault \/ Unwind
  \/ status = "running" /\ \E x \in Scope[Running], e \in Scope[Running] \cup Data : Assign(x, e)
  \/ status = "running" /\ \E pou \in Callees[Running], into \in Scope[Running] \cup {NoName} :
       \E args \in Arguments(pou) : CallPou(pou, args, into)
  \/ status = "running" /\ \E e \in Scope[Running] \cup Data \cup {NoName} : Return(e)

EvalSpec == EvalInit /\ [][EvalNext]_evalVars

----------------------------------------------------------------------------
(* Properties *)

\* What the innermost of P among the first k activations of a stack is, if any.
Innermost(P, stack, k, value) ==
  \/ value = NoName /\ \A i \in 1..k : stack[i].pou \notin P
  \/ \E i \in 1..k : /\ value = stack[i].pou /\ stack[i].pou \in P
                     /\ \A j \in (i + 1)..k : stack[j].pou \notin P

\* The context that the first k activations of a stack call for: the loops are
\* those that activation k found when it began and its own.
Fits(c, stack, k, looping) ==
  /\ c.call_depth = k - 1
  /\ Innermost({Program, Block}, stack, k, c.instance)
  /\ Innermost(Functions, stack, k, c.return_name)
  /\ looping => c.loop_depth = stack[k].saved.loop_depth + stack[k].loops

\* Calls restore what they change, however they end (eval/mod.rs): there is a
\* frame for every activation, depth, instance, name of the result and count of
\* loops are those of the innermost ones, also in what callers have saved, and
\* what ended leaves no frame behind and the hook where it was, except for a
\* block of a task whose initial values failed: its frame stays until the
\* restart, the hook is lost.
ContextRestored ==
  IF levels = <<>> THEN /\ ctx = Outside
                        /\ debug = "runtime" \/ debug = "lost"
                        /\ frames = <<>> \/ (debug = "lost" /\ status = "faulted")
  ELSE /\ Depth = Len(levels) /\ levels[1].saved = Outside
       /\ Fits(ctx, levels, Len(levels), status = "running")
       /\ \A k \in 1..(Len(levels) - 1) : Fits(levels[k + 1].saved, levels, k, TRUE)

\* A VAR_IN_OUT is copied in and out (eval/mod.rs), and a program cannot tell:
\* unless somebody uses a variable by its name while it is passed on, or an error
\* ends the program, every variable in sight has the value it would have if the
\* parameter were the variable itself.
InOutByReference ==
  ~ref.aliased =>
    /\ status = "running" => \A n \in Scope[Running] :
         Here(n) \in Lent(ref.held) \/ mem[Here(n)] = ref.mem[Origin(Here(n))]
    /\ status = "done" => \A l \in Lasting : l[3] \in InOutsOf(Block) \/ mem[l] = ref.mem[l]

----------------------------------------------------------------------------
(* What the documentation says and the code does not keep *)

\* docs/specs/09-semantic-rules.md:13, "VAR: Within declaring POU only".  A call of
\* a function keeps current_instance (eval/mod.rs:186), so a VAR_EXTERNAL of the
\* function is looked up in the instance of the caller first.
LocalToPou ==
  status = "running" => \A n \in Scope[Running] : Here(n)[1] = "member" => Here(n)[2] = Running

\* docs/specs/06-statements.md:195, "In FB/Program (early exit)": only an error
\* faults.  A program that executes RETURN faults its resource (cycle.rs:193).
OnlyErrorsFault ==
  [][status = "running" => status' # "faulted"]_status

\* docs/specs/10-runtime.md:682, "Return value: Via function name assignment or
\* RETURN statement".  What is written to the name by a call with the name as its
\* output argument is not the result (eval/stmt.rs:131).
ResultIsAssigned ==
  status = "running" /\ Running \in Functions =>
    mem[Here(Running)] = IF Last(frames) = NoName THEN Default ELSE Last(frames)

\* docs/specs/10-runtime.md:1672, the runtime emits "Breakpoint hit / step events
\* (statement boundaries)".  Once an initial value of a block of a task has failed,
\* the hook is gone and no statement reaches it any more (cycle.rs:385).
DebuggerKept == debug # "lost"
=============================================================================
