----------------------------- MODULE MCPipeline -----------------------------
(***************************************************************************)
(* Small functions for the tracing pipeline: an input x, a bit, and an     *)
(* output y of 0..2, with two memories whose clocks end at 4.  A second    *)
(* assignment of y starts a new vector; main's x stands for a value it has *)
(* read.                                                                   *)
(***************************************************************************)
EXTENDS Pipeline

x == 1
y == 2

MCMaxOf == <<1, 2>>
MCKinds == <<"in", "out">>
MCStampMax == <<4, 4>>

Declares(m, n) == [memory |-> m, accesses |-> n]
MCCallees == <<<<Declares(1, 2)>>, <<Declares(2, 1), Declares(1, 1)>>>>

XisZero == CmpConst(TRUE, x, 0)
YisNotOne == CmpConst(FALSE, y, 1)
YisNotTwo == CmpConst(FALSE, y, 2)
YisX == Cmp(TRUE, y, x)

Twice == <<Access(1), Access(1)>>
Accessing == {<<Access(1)>>, <<Access(1), Access(2)>>, <<CallTo(2)>>}
Bodies == {<<>>, <<Access(1), ReturnStmt>>, <<FailStmt>>} \cup Accessing
Then == {<<>>, <<Access(1)>>, <<Assign(y, None, 0), Access(1)>>,
         <<Assign(y, None, 0), Access(1), Assign(y, None, 1), Access(2), Access(1)>>}

Branching == {<<Assign(y, x, 1)>> \o b \o <<IfElse(c, t, f)>> \o e \o <<ReturnStmt>> :
                 b \in {<<>>, Twice, <<CallTo(1)>>}, c \in {XisZero, YisNotOne},
                 t \in Bodies, f \in {<<>>, <<Access(1)>>}, e \in Then}

\* Two branches; where the second one assigns y on both sides, nothing but its
\* jumps follows it in its vector.
Deciding == {<<Assign(y, x, 1), b, IfElse(YisNotOne, a, <<Assign(y, None, 0)>> \o e), ReturnStmt>> :
                b \in {IfElse(XisZero, t, <<>>) : t \in Bodies} \cup {IfElse(XisZero, <<>>, <<Access(1)>>)},
                a \in {<<Access(1)>>, <<Assign(y, None, 2)>>}, e \in {<<>>, <<Access(1)>>}}

Looping == {<<Assign(y, None, 0)>> \o b \o
               <<While(c, <<IfElse(XisZero, s, <<>>), Assign(y, y, 1)>> \o e), ReturnStmt>> :
               b \in {<<>>, <<Access(1)>>}, c \in {YisNotTwo, YisX}, s \in Bodies,
               e \in {<<>>, <<IfElse(YisX, <<Continue>>, <<Access(1)>>)>>}}
           \cup {<<While(XisZero, b), Assign(y, x, 0)>> \o b \o <<ReturnStmt>> :
                   b \in {<<>>} \cup Accessing}

Switching == {<<Assign(y, x, 1), SwitchOn(y, <<Case(l, s), Case(<<1>>, t)>> \o d)>> \o e \o <<ReturnStmt>> :
                 l \in {<<0>>, <<0, 2>>}, s \in {<<>>} \cup Accessing, t \in {<<>>, Twice, <<ReturnStmt>>},
                 d \in {<<>>, <<Default(<<Access(1)>>)>>}, e \in {<<>>, <<Access(1)>>}}

\* Ends other than a return.
Ends == {DoneStmt, FailStmt, NeverCall(2)}
Ending == UNION {{<<Assign(y, x, 1), IfElse(XisZero, s, t), Access(1), e>> :
                     s \in Accessing, t \in {<<>>, <<e>>}} : e \in Ends}
          \cup {<<Assign(y, None, 0), While(XisZero, <<IfElse(YisX, t, s)>>), NeverCall(1)>> :
              s \in Accessing, t \in {<<>>, <<FailStmt>>}}

MCPrograms == Branching \cup Deciding \cup Looping \cup Switching \cup Ending
-----------------------------------------------------------------------------
\* A branch whose sides both end the vector, after one that skips to it:
\* threading it fails to keep the times, which is why no run has it.
LastBranches == {<<Assign(y, x, 1), IfElse(XisZero, <<>>, <<Access(1)>>),
                   IfElse(YisNotOne, <<Assign(y, None, 2)>>, <<Assign(y, None, 0), Access(1)>>),
                   ReturnStmt>>}
=============================================================================
