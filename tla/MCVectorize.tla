---------------------------- MODULE MCVectorize ----------------------------
(***************************************************************************)
(* Small functions for the vectoriser: x is a bit, y holds 0..2 and z has  *)
(* no width.  Each family makes one construct meet branches, loops, exits  *)
(* and assignments that conflict.                                          *)
(***************************************************************************)
EXTENDS Vectorize

x == 1
y == 2
z == 3

MCMaxOf == <<1, 2, 0>>
MCCallees == <<>>

XisZero == CmpConst(TRUE, x, 0)
YisNotOne == CmpConst(FALSE, y, 1)
XisY == Cmp(TRUE, x, y)

Assigns == {Assign(x, None, 1), Assign(y, x, 0), Assign(y, y, 1), Assign(z, None, 0)}
Exits == {<<ReturnStmt>>, <<FailStmt>>}
LoopExits == {<<Break>>, <<Continue>>, <<>>}
Blocks == {<<>>} \cup {<<a>> : a \in Assigns}

\* Short circuits under both signs, in and out of each other.
Conditions == {AllOf(<<XisZero, YisNotOne>>), AnyOf(<<XisZero, YisNotOne>>)}
    \cup {Not(AllOf(<<XisZero, AnyOf(<<YisNotOne, XisY>>)>>)),
          AnyOf(<<AllOf(<<XisY, XisZero>>), Not(AnyOf(<<XisZero, YisNotOne>>))>>),
          AllOf(<<Not(XisY), AnyOf(<<XisZero, YisNotOne>>), YisNotOne>>)}

Branching == {<<IfElse(c, t, f), a, ReturnStmt>> :
                 c \in Conditions \cup {XisY}, t \in Blocks \cup Exits,
                 f \in Blocks, a \in {Assign(x, None, 1), Assign(y, y, 1)}}

Nested == {<<Assign(y, None, 0),
             IfElse(XisZero, <<IfElse(c, t, u)>>, <<Assign(y, y, 1)>>), a, ReturnStmt>> :
              c \in {XisY, YisNotOne}, t \in Blocks \cup Exits, u \in Exits \cup {<<>>},
              a \in {Assign(x, None, 1), Assign(y, x, 0)}}

Looping == {<<While(c, <<IfElse(XisZero, e, t)>> \o b), ReturnStmt>> :
               c \in {XisY, YisNotOne, AnyOf(<<XisY, YisNotOne>>)},
               e \in LoopExits \cup {<<Assign(y, y, 1), Continue>>},
               t \in {<<>>, <<Break>>, <<Assign(y, y, 1)>>},
               b \in {<<>>, <<Assign(x, None, 1)>>}}

Counting == {<<For(Assign(y, None, 0), YisNotOne, Assign(y, y, 1),
                   <<IfElse(c, e, <<>>)>> \o b), ReturnStmt>> :
                c \in {XisZero, XisY}, e \in LoopExits \cup Exits,
                b \in {<<>>, <<Assign(x, None, 1)>>, <<While(XisZero, <<Break>>)>>}}

Switching == {<<SwitchOn(y, <<Case(<<0>>, s), Case(<<1, 2>>, t)>> \o d), a, ReturnStmt>> :
                 s \in Blocks \cup Exits, t \in {<<>>, <<Assign(x, None, 1)>>},
                 d \in {<<>>, <<Default(<<FailStmt>>)>>}, a \in {Assign(x, None, 1), Assign(y, x, 0)}}

MCPrograms == Branching \cup Nested \cup Looping \cup Counting \cup Switching
=============================================================================
