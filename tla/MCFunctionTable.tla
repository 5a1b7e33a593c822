-------------------------- MODULE MCFunctionTable --------------------------
(***************************************************************************)
(* Small functions for the tracing pipeline: two inputs, an output and a   *)
(* variable, x and v bits and y and o of 0..2, so that comparing y is      *)
(* factored.  Every function first assigns what is not an input, as the    *)
(* front end makes sure it does.                                           *)
(***************************************************************************)
EXTENDS FunctionTable

x == 1
y == 2
o == 3
v == 4

MCMaxOf == <<1, 2, 2, 1>>
MCCallees == <<>>
MCStampMax == <<>>
MCKinds == <<"in", "in", "out", "var">>

XisZero == CmpConst(TRUE, x, 0)
YisNotOne == CmpConst(FALSE, y, 1)
YisO == Cmp(TRUE, y, o)
VisX == Cmp(TRUE, v, x)

\* The second assignment of o starts a second vector, which keeps the values of
\* v that it does not write.
Prelude == <<Assign(v, None, 0), Assign(o, None, 0), Assign(o, y, 0)>>
Ends == {<<ReturnStmt>>, <<Assign(o, v, 1), ReturnStmt>>}
Blocks == {<<>>, <<Assign(o, None, 1)>>, <<Assign(v, x, 0)>>, <<Assign(v, None, 1)>>}
Exits == {<<ReturnStmt>>, <<FailStmt>>}

Branching == {Prelude \o <<IfElse(c, t, IF Len(e) = 1 THEN <<>> ELSE <<Assign(v, x, 0)>>)>> \o e :
                 c \in {AllOf(<<XisZero, YisNotOne>>), AnyOf(<<VisX, YisNotOne>>), Not(YisO)},
                 t \in Blocks \cup Exits, e \in Ends}

Looping == {Prelude \o <<While(c, <<IfElse(VisX, e, t), Assign(o, o, 1)>>), ReturnStmt>> :
               c \in {YisNotOne, Not(YisO)}, e \in {<<Break>>, <<Continue>>, <<Assign(v, None, 1)>>},
               t \in {<<>>, <<Assign(v, x, 0)>>}}

Switching == {Prelude \o <<SwitchOn(y, <<Case(<<0>>, s), Case(<<1>>, t)>> \o d), ReturnStmt>> :
                 s \in Exits \cup {<<Assign(v, None, 1)>>}, t \in {<<>>, <<Assign(v, x, 0)>>},
                 d \in {<<>>, <<Default(<<FailStmt>>)>>, <<Default(<<Assign(v, None, 1)>>)>>}}
             \cup {Prelude \o <<SwitchOn(y, <<Case(<<0>>, <<>>), Case(<<1, 2>>, t)>>)>> \o e :
                 t \in Blocks, e \in Ends}

\* A single vector, with and without a jump to itself.
Single == {<<IfElse(c, t, <<Assign(o, None, 1)>>), Assign(v, x, 0), ReturnStmt>> :
              c \in {XisZero, YisNotOne, AllOf(<<XisZero, YisNotOne>>)},
              t \in {<<Assign(o, y, 0)>>, <<Assign(o, x, 1)>>} \cup {<<FailStmt>>}}
          \cup {<<While(XisZero, <<>>), Assign(o, y, 0), ReturnStmt>>}

\* A bit is tested again where the answer is known.
Repeated == {Prelude \o <<IfElse(XisZero, <<IfElse(XisZero, <<a>>, <<>>)>>, <<>>)>> \o e :
                a \in {Assign(v, x, 0), Assign(o, None, 1)}, e \in Ends}

\* The second vector can fail before it writes v.
Failing == {Prelude \o <<IfElse(c, <<FailStmt>>, <<>>), Assign(v, x, 0), ReturnStmt>> :
               c \in {XisZero, VisX}}

MCPrograms == Branching \cup Looping \cup Switching \cup Single
                \cup Repeated \cup Failing

\* Short circuits over two bits, which every valuation can pass either way.
MCBits == <<1, 1, 1, 1>>
ShortCircuits == {<<IfElse(AnyOf(<<p, AllOf(<<CmpConst(TRUE, y, 0), q>>)>>),
                           <<Assign(v, None, 1)>>, <<Assign(v, x, 0)>>),
                    Assign(o, y, 0), ReturnStmt>> :
                     p \in {XisZero, YisNotOne}, q \in {CmpConst(FALSE, x, 1), XisZero}}
=============================================================================
