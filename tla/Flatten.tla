------------------------------ MODULE Flatten ------------------------------
(***************************************************************************)
(* From structured statements to bytecode vectors: the block statements of *)
(* a function become flat statements with explicit targets (zkc/compiler/  *)
(* lower/flatten.go), each of which is compiled into one vector (zkc/      *)
(* compiler/codegen/statement.go).  Program counters start at 1.           *)
(*                                                                         *)
(* A target that is not known yet is a placeholder label.  Labels count    *)
(* downward from the largest machine integer: here from -1.                *)
(***************************************************************************)
EXTENDS Vectors

(* Conditions and statements of the source.                                *)

Cmp(eq, l, r) == [op |-> "cmp", eq |-> eq, left |-> l, const |-> FALSE, right |-> r]
CmpConst(eq, l, k) == [op |-> "cmp", eq |-> eq, left |-> l, const |-> TRUE, right |-> k]
AllOf(cs) == [op |-> "and", args |-> cs]
AnyOf(cs) == [op |-> "or", args |-> cs]
Not(c) == [op |-> "not", arg |-> c]

Assign(r, s, k) == [op |-> "assign", target |-> r, source |-> s, constant |-> k]
IfElse(c, t, f) == [op |-> "if", cond |-> c, true |-> t, false |-> f]
While(c, b) == [op |-> "while", cond |-> c, body |-> b]
For(i, c, p, b) == [op |-> "for", init |-> i, cond |-> c, post |-> p, body |-> b]
SwitchOn(r, bs) == [op |-> "switch", source |-> r, branches |-> bs]
Case(labels, b) == [default |-> FALSE, labels |-> labels, body |-> b]
Default(b) == [default |-> TRUE, labels |-> <<>>, body |-> b]
Break == [op |-> "break"]
Continue == [op |-> "continue"]
ReturnStmt == [op |-> "return"]
DoneStmt == [op |-> "done"]
FailStmt == [op |-> "fail"]
Access(m) == [op |-> "access", memory |-> m]
CallTo(f) == [op |-> "call", callee |-> f]
NeverCall(f) == [op |-> "never", callee |-> f]

(* Flat statements, besides assignments, returns and failures.             *)

Goto(t) == [op |-> "goto", target |-> t]
IfGoto(c, t) == [op |-> "ifgoto", cond |-> c, target |-> t]
Dispatch(r, bs, d) == [op |-> "dispatch", source |-> r, branches |-> bs, default |-> d]
-----------------------------------------------------------------------------
PatchBranches(code, label, target) ==
    [i \in DOMAIN code |->
        IF code[i].op \in {"goto", "ifgoto"} /\ code[i].target = label
        THEN [code[i] EXCEPT !.target = target] ELSE code[i]]

NegateCmp(c) == [c EXCEPT !.eq = ~@]

\* Lowering yields the code and the next fresh label.
Lowered(code, label) == [code |-> code, label |-> label]

\* Code that is followed by more code.
Continued(acc, l) == Lowered(acc.code \o l.code, l.label)

\* Code at pc that goes to the target if the condition is what sign says and
\* falls through if not.
RECURSIVE FlattenCondition(_, _, _, _, _)
FlattenCondition(c, pc, sign, target, label) ==
    LET Each(s, t, next) ==
            FoldLeft(LAMBDA acc, arg :
                        Continued(acc, FlattenCondition(arg, pc + Len(acc.code), s, t, acc.label)),
                     Lowered(<<>>, next), c.args)
        \* Where all of the arguments are what sign says.
        Reached(l) ==
            Lowered(Append(PatchBranches(l.code, label, pc + Len(l.code) + 1), Goto(target)),
                    l.label)
    IN  CASE c.op = "cmp" ->
                Lowered(<<IfGoto(IF sign THEN c ELSE NegateCmp(c), target)>>, label)
          [] c.op = "not" -> FlattenCondition(c.arg, pc, ~sign, target, label)
          \* Jumps past the whole as soon as one argument is not what sign says.
          [] (c.op = "and") = sign /\ c.op \in {"and", "or"} ->
                Reached(Each(~sign, label, label - 1))
          \* Jumps to the target as soon as one argument is.
          [] (c.op = "and") # sign /\ c.op \in {"and", "or"} -> Each(sign, target, label)

\* The last statement of the block never falls through.
RECURSIVE BranchTerminates(_)
BranchTerminates(b) ==
    /\ b # <<>>
    /\ \/ Last(b).op \in {"break", "continue", "done", "return", "fail", "never"}
       \/ /\ Last(b).op = "if"
          /\ Last(b).false # <<>>
          /\ BranchTerminates(Last(b).true)
          /\ BranchTerminates(Last(b).false)

\* The environment: the next label and those of the enclosing loop.
RECURSIVE LowerStatements(_, _, _)

\* The block goes on where the code so far ends.
LowerBlock(pc, acc, stmts, env) ==
    Continued(acc, LowerStatements(pc + Len(acc.code), stmts, [env EXCEPT !.label = acc.label]))

LowerIfElse(pc, s, env) ==
    LET bypass == s.false # <<>> /\ ~BranchTerminates(s.true)
        FalsePC(upToTrue) == pc + Len(upToTrue.code) + (IF bypass THEN 1 ELSE 0)
        Joined(upToTrue, false) ==
            Lowered(PatchBranches(
                        upToTrue.code
                          \o (IF bypass THEN <<Goto(FalsePC(upToTrue) + Len(false.code))>> ELSE <<>>)
                          \o false.code,
                        env.label, FalsePC(upToTrue)), false.label)
        WithFalse(upToTrue) ==
            Joined(upToTrue, LowerStatements(FalsePC(upToTrue), s.false,
                                             [env EXCEPT !.label = upToTrue.label]))
        cond == FlattenCondition(s.cond, pc, FALSE, env.label, env.label - 1)
    IN  WithFalse(LowerBlock(pc, cond, s.true, env))

\* Faulty ContinueTarget: the condition, post statements or not.
ContinueAtCondition(pc, postPC, post) == pc

\* Where a continue goes: the post statements of the loop, if it has any.
ContinueTarget(pc, postPC, post) == IF post = <<>> THEN pc ELSE postPC

\* A loop whose condition starts at pc and whose continue goes to its post
\* statements, or to the condition when it has none.
LowerLoop(pc, cond, body, post, env) ==
    LET break  == env.label
        cont   == env.label - 1
        exit   == env.label - 2
        inner  == [env EXCEPT !.break = break, !.cont = cont]
        Bound(code, postPC) ==
            LET end == pc + Len(code)
            IN  PatchBranches(PatchBranches(PatchBranches(code, exit, end), break, end),
                              cont, ContinueTarget(pc, postPC, post))
        Closed(upToBody, upToPost) ==
            Lowered(Bound(Append(upToPost.code, Goto(pc)), pc + Len(upToBody.code)),
                    upToPost.label)
        WithPost(upToBody) == Closed(upToBody, LowerBlock(pc, upToBody, post, env))
    IN  WithPost(LowerBlock(pc, FlattenCondition(cond, pc, FALSE, exit, env.label - 3),
                            body, inner))

LowerFor(pc, s, env) ==
    LET WithLoop(init) ==
            Continued(init, LowerLoop(pc + Len(init.code), s.cond, s.body, <<s.post>>,
                                     [env EXCEPT !.label = init.label]))
    IN  WithLoop(LowerStatements(pc, <<s.init>>, env))

\* The dispatch, the bodies of the cases in their order and then that of the
\* default.
LowerSwitch(pc, s, env) ==
    LET end      == env.label
        cases    == SelectSeq(s.branches, LAMBDA b : ~b.default)
        defaults == SelectSeq(s.branches, LAMBDA b : b.default)
        default  == IF defaults = <<>> THEN <<>> ELSE defaults[1].body
        LaidOut(acc, b, body) ==
            [code   |-> body.code \o (IF BranchTerminates(b.body) THEN <<>> ELSE <<Goto(end)>>),
             label  |-> body.label,
             branches |-> Append(acc.branches,
                                 [labels |-> b.labels, target |-> pc + 1 + Len(acc.code)])]
        LayOut(acc, b) == LaidOut(acc, b, LowerBlock(pc + 1, acc, b.body, env))
        Headed(bodies, all) ==
            Lowered(PatchBranches(
                        <<Dispatch(s.source, bodies.branches, pc + 1 + Len(bodies.code))>>
                          \o all.code,
                        end, pc + 1 + Len(all.code)), all.label)
        WithDefault(bodies) == Headed(bodies, LowerBlock(pc + 1, bodies, default, env))
    IN  CASE s.branches = <<>> -> Lowered(<<>>, env.label)
          [] s.branches # <<>> /\ cases = <<>> -> LowerStatements(pc, default, env)
          [] OTHER ->
                WithDefault(FoldLeft(LayOut, [code |-> <<>>, label |-> env.label - 1,
                                              branches |-> <<>>], cases))

LowerStatement(pc, s, env) ==
    CASE s.op = "if"       -> LowerIfElse(pc, s, env)
      [] s.op = "while"    -> LowerLoop(pc, s.cond, s.body, <<>>, env)
      [] s.op = "for"      -> LowerFor(pc, s, env)
      [] s.op = "switch"   -> LowerSwitch(pc, s, env)
      [] s.op = "break"    -> Lowered(<<Goto(env.break)>>, env.label)
      [] s.op = "continue" -> Lowered(<<Goto(env.cont)>>, env.label)
      [] OTHER             -> Lowered(<<s>>, env.label)

LowerStatements(pc, stmts, env) ==
    FoldLeft(LAMBDA acc, s :
                Continued(acc, LowerStatement(pc + Len(acc.code), s,
                                             [env EXCEPT !.label = acc.label])),
             Lowered(<<>>, env.label), stmts)

FlattenFunction(body) ==
    LowerStatements(1, body, [label |-> -1, break |-> None, cont |-> None]).code
-----------------------------------------------------------------------------
(* Code generation.  An assignment goes on to the next vector; conditions  *)
(* and dispatches are jump tables.                                         *)

\* A register on the right is compared from the right.
CompileCondition(pc, c, target) ==
    <<IF c.const THEN SkipIfConst(c.eq, c.left, c.right, 1)
      ELSE SkipIf(c.eq, c.right, c.left, 1), Jump(pc + 1), Jump(target)>>

CompileDispatch(s) ==
    LET Cases(i) == [k \in DOMAIN s.branches[i].labels |->
                        [value |-> s.branches[i].labels[k], skip |-> i]]
    IN  <<Switch(s.source, FlattenSeq([i \in DOMAIN s.branches |-> Cases(i)])),
          Jump(s.default)>>
        \o [i \in DOMAIN s.branches |-> Jump(s.branches[i].target)]

CompileStatement(pc, s) ==
    CASE s.op = "assign"   -> <<Set(s.target, s.source, s.constant), Jump(pc + 1)>>
      [] s.op = "ifgoto"   -> CompileCondition(pc, s.cond, s.target)
      [] s.op = "dispatch" -> CompileDispatch(s)
      [] s.op = "goto"     -> <<Jump(s.target)>>
      [] s.op = "access"   -> <<ReadWrite(s.memory, None), Jump(pc + 1)>>
      [] s.op = "call"     -> <<CallFun(s.callee, <<>>, <<>>), Jump(pc + 1)>>
      [] s.op = "never"    -> <<NeverCallFun(s.callee, <<>>)>>
      [] s.op = "return"   -> <<Return>>
      [] s.op = "done"     -> <<Done>>
      [] s.op = "fail"     -> <<Fail>>

Compile(body) ==
    LET flat == FlattenFunction(body)
    IN  [pc \in DOMAIN flat |-> CompileStatement(pc, flat[pc])]
-----------------------------------------------------------------------------
(* What a function does, twice: by the meaning of its statements and by    *)
(* running its vectors.  Either has a budget of steps, beyond which it is  *)
(* taken to run forever.  An outcome is the way it ends, the registers it  *)
(* returns and the accesses to memories on the way.                        *)

Outcome(end, env, log) ==
    [end |-> end,
     env |-> IF end = "return" THEN env ELSE <<>>,
     log |-> IF end = "forever" THEN <<>> ELSE log]

RECURSIVE CondHolds(_, _)
CondHolds(c, env) ==
    CASE c.op = "cmp" -> (env[c.left] = (IF c.const THEN c.right ELSE env[c.right])) = c.eq
      [] c.op = "and" -> \A i \in DOMAIN c.args : CondHolds(c.args[i], env)
      [] c.op = "or"  -> \E i \in DOMAIN c.args : CondHolds(c.args[i], env)
      [] c.op = "not" -> ~CondHolds(c.arg, env)

\* The state of a run: how it left the statement ("" if it fell through), the
\* registers and the number of iterations it may still make.
RECURSIVE RunBlock(_, _, _)

RECURSIVE RunLoop(_, _, _, _, _)
RunLoop(cond, body, post, st, max) ==
    LET once  == RunBlock(body, st, max)
        again == RunBlock(post, [once EXCEPT !.end = ""], max)
    IN  CASE ~CondHolds(cond, st.env) -> st
          [] CondHolds(cond, st.env) /\ st.fuel = 0 -> [st EXCEPT !.end = "forever"]
          [] CondHolds(cond, st.env) /\ st.fuel > 0 ->
                CASE once.end \in {"", "continue"} ->
                        IF again.end = ""
                        THEN RunLoop(cond, body, post, [again EXCEPT !.fuel = @ - 1], max)
                        ELSE again
                  [] once.end = "break" -> [once EXCEPT !.end = ""]
                  [] OTHER              -> once

RunStatement(s, st, max) ==
    CASE s.op = "assign" ->
            IF Sum(s, st.env) > max[s.target] THEN [st EXCEPT !.end = "fail"]
            ELSE [st EXCEPT !.env[s.target] = Sum(s, st.env)]
      [] s.op = "if"     ->
            RunBlock(IF CondHolds(s.cond, st.env) THEN s.true ELSE s.false, st, max)
      [] s.op = "while"  -> RunLoop(s.cond, s.body, <<>>, st, max)
      [] s.op = "for"    ->
            LET init == RunBlock(<<s.init>>, st, max)
            IN  IF init.end = "" THEN RunLoop(s.cond, s.body, <<s.post>>, init, max)
                ELSE init
      [] s.op = "switch" ->
            LET Matches(b) == st.env[s.source] \in Range(b.labels)
                hits == SelectSeq(s.branches, Matches)
                rest == SelectSeq(s.branches, LAMBDA b : b.default)
            IN  RunBlock(CASE hits # <<>>                 -> hits[1].body
                           [] hits = <<>> /\ rest # <<>>  -> rest[1].body
                           [] OTHER                       -> <<>>, st, max)
      [] s.op = "access" -> [st EXCEPT !.log = Append(@, Stamped(s.memory, 0))]
      [] s.op \in {"call", "never"} ->
            [st EXCEPT !.log = @ \o CalleeLog(CallFun(s.callee, <<>>, <<>>), st.env),
                       !.end = IF s.op = "never" THEN "never" ELSE ""]
      [] OTHER -> [st EXCEPT !.end = s.op]

RunBlock(stmts, st, max) ==
    FoldLeft(LAMBDA acc, s : IF acc.end = "" THEN RunStatement(s, acc, max) ELSE acc,
             st, stmts)

RunSource(body, env, max, fuel) ==
    LET st == RunBlock(body, [end |-> "", env |-> env, fuel |-> fuel, log |-> <<>>], max)
    IN  Outcome(st.end, st.env, st.log)

RECURSIVE RunLogged(_, _, _, _, _, _)
RunLogged(vectors, pc, env, max, fuel, log) ==
    LET x == Execute(vectors[pc], env, max)
        c == vectors[pc][x.end]
        all == log \o x.log
    IN  CASE pc \notin DOMAIN vectors -> Outcome("astray", env, log)
          [] pc \in DOMAIN vectors /\ fuel = 0 -> Outcome("forever", env, log)
          [] OTHER -> CASE x.failed -> Outcome("fail", env, all)
                        [] ~x.failed /\ c.op = "call" -> Outcome("never", env, all)
                        [] ~x.failed /\ c.op = "ret" ->
                              Outcome(IF c.done THEN "done" ELSE "return", x.env, all)
                        [] ~x.failed /\ c.op = "jmp" ->
                              RunLogged(vectors, c.target, x.env, max, fuel - 1, all)

RunVectors(vectors, pc, env, max, fuel) == RunLogged(vectors, pc, env, max, fuel, <<>>)
=============================================================================
