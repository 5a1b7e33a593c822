---------------------------- MODULE MCSplitWords ----------------------------
(***************************************************************************)
(* Programs of one bytecode, or of a few that belong together, over small  *)
(* registers.  The first two targets are those of functions that are only  *)
(* executed, where a word is twice as wide as a register; the others are   *)
(* those of functions that are traced over a field.                        *)
(***************************************************************************)
EXTENDS SplitWords

Target(R, B, W, static, prime) ==
    [reg |-> R, band |-> B, word |-> W, static |-> static, prime |-> prime]

Narrow == Target(2, 4, 4, 0, 0)
Wide   == Target(4, 8, 8, 0, 0)
GF67   == Target(2, 6, 16, 2, 67)
GF251  == Target(4, 7, 16, 2, 251)
Tabled == Target(4, 7, 16, 4, 251)
GF521  == Target(5, 9, 16, 2, 521)

\* The code is that of the main function.
Program(target, inputs, bytecodes) ==
    [modules |-> <<Function(inputs, <<>>, Append(bytecodes, Ret))>>, target |-> target,
     tracing |-> FALSE, proved |-> FALSE]

\* What is traced, and what is proved: that takes prime fields.
Traced(target, inputs, bytecodes) ==
    [Program(target, inputs, bytecodes) EXCEPT !.tracing = TRUE]
Proved(target, inputs, bytecodes) ==
    [Traced(target, inputs, bytecodes) EXCEPT !.proved = TRUE]

Either(target, inputs, bytecodes) ==
    IF target.prime = 0 THEN Program(target, inputs, bytecodes)
    ELSE Proved(target, inputs, bytecodes)

x(w) == Register("x", w)
y(w) == Register("y", w)
z(w) == Register("z", w)
r(w) == Register("r", w)
q(w) == Register("q", w)
s(w) == Register("s", w)
t    == Register("t", 1)

\* A branch, and which way it went.
Branch(cond, left, right) ==
    <<SkipIf(cond, left, right, 2), LoadConst(<<t>>, 0), Skip(1), LoadConst(<<t>>, 1)>>

\* All small values, and those of larger ones where limbs begin and end.
Values(w, R) ==
    IF w <= 3 THEN 0..(2^w - 1)
    ELSE {v \in {0, 1, 2^R - 1, 2^R, 2^R + 1, 2^(2 * R) - 1, 2^(2 * R), 2^(w - 1),
                 2^w - 2^R, 2^w - 2, 2^w - 1} : v < 2^w}

MCArguments(p) ==
    LET inputs == p.modules[1].inputs
        V(i) == Values(inputs[i].width, p.target.reg)
    IN  CASE Len(inputs) = 1 -> {<<a>> : a \in V(1)}
          [] Len(inputs) = 2 -> {<<a, b>> : a \in V(1), b \in V(2)}
          [] Len(inputs) = 3 -> {<<a, b, c>> : a \in V(1), b \in V(2), c \in V(3)}

Sums ==
    {Program(Narrow, <<x(3), y(w)>>, <<Add(<<r(v)>>, <<x(3), y(w)>>, k)>>) :
        w \in {1, 5}, v \in {2, 4, 6}, k \in {0, 1, 9}}
    \cup {Proved(GF251, <<x(9), y(5), z(3)>>,
                 <<Add(<<r(v), q(1)>>, <<x(9), y(5), z(3)>>, k)>>) :
              v \in {6, 10}, k \in {0, 17}}
    \cup {Proved(f, <<x(3), y(5)>>, <<Add(<<r(v)>>, <<x(3), y(5)>>, k)>>) :
              f \in {GF67, Tabled, GF521}, v \in {4, 6}, k \in {0, 9}}

\* The operands and the target of a difference are as wide as one another.
Differences ==
    {Program(Narrow, <<x(w), y(w)>>, <<Sub(<<r(w)>>, <<x(w), y(w)>>, k)>>) :
        w \in {2, 3, 5}, k \in {0, 1}}
    \cup {Program(Wide, <<x(10)>>, <<Sub(<<r(10)>>, <<x(10)>>, k)>>) : k \in {0, 17, 600}}
    \cup {Proved(f, <<x(w), y(w), z(w)>>,
                 <<Sub(<<r(w)>>, <<x(w), y(w), z(w)>>, 3)>>) : f \in {GF67, GF521}, w \in {2, 5}}

Products ==
    {Program(Narrow, <<x(3), y(w)>>, <<Mul(<<r(v)>>, <<x(3), y(w)>>, k)>>) :
        w \in {1, 4}, v \in {3, 7}, k \in {0, 1, 6}}
    \cup {Proved(GF251, <<x(w), y(5)>>, <<Mul(<<r(w + 3), q(4)>>, <<x(w), y(5)>>, k)>>) :
              w \in {3, 9}, k \in {1, 19}}
    \cup {Proved(f, <<x(4), y(3), z(2)>>, <<Mul(<<r(v)>>, <<x(4), y(3), z(2)>>, k)>>) :
              f \in {GF251, GF67}, v \in {5, 9}, k \in {1, 3}}
    \cup {Program(f, <<x(6)>>, <<Mul(<<r(8)>>, <<x(6)>>, k)>>) :
              f \in {Narrow, Wide}, k \in {1, 5, 18}}
    \cup {Program(Narrow, <<x(2), y(2), z(2)>>, <<Mul(<<r(2)>>, <<x(2), y(2), z(2)>>, k)>>) :
              k \in {1, 2}}
    \cup {Program(Narrow, <<x(3)>>, <<Arith("mul", <<r(5)>>, <<>>, 21)>>)}

\* Registers of the given widths.
Vector(name, widths) ==
    [i \in DOMAIN widths |-> [Register(name, widths[i]) EXCEPT !.at = <<i>>]]

Concatenations ==
    {Either(f, Vector("x", ss), <<Cat(Vector("r", ts), Vector("x", ss))>>) :
        f \in {Narrow, GF251},
        ss \in {<<5, 3>>, <<3, 5>>, <<1, 2, 5>>, <<8>>, <<1, 7>>},
        ts \in {<<8>>, <<3, 5>>, <<1, 4, 3>>, <<6>>, <<2, 9>>, <<1, 1, 1, 5>>}}

Bits ==
    {Program(Narrow, <<x(w), y(w)>>, <<BitOp(op, r(v), x(w), Of(<<y(w)>>), w)>>) :
        op \in {"and", "or", "xor"}, w \in {2, 5}, v \in {3, 6}}
    \cup {Program(Narrow, <<x(w)>>, <<BitOp(op, r(w), x(w), OfConst(k), w)>>) :
        op \in {"and", "or", "xor"}, w \in {2, 5}, k \in {0, 3}}
    \cup {Program(Narrow, <<x(5)>>, <<BitOp(op, r(5), x(5), OfConst(13), 5)>>) :
        op \in {"and", "or", "xor"}}
    \cup {Proved(f, <<x(w), y(w)>>, <<BitOp(op, r(w), x(w), Of(<<y(w)>>), w)>>) :
        f \in {GF67, GF251, Tabled, GF521}, op \in {"and", "or", "xor"}, w \in {1, 3, 5}}
    \cup {Proved(f, <<x(5)>>, <<BitOp(op, r(5), x(5), OfConst(k), 5)>>) :
        f \in {GF67, Tabled}, op \in {"and", "or", "xor"}, k \in {0, 13, 31}}
    \cup {Either(f, <<x(w)>>, <<BitOp("not", r(w), x(w), Of(<<x(w)>>), w)>>) :
        f \in {Narrow, GF67, GF251}, w \in {1, 2, 5}}

Shifts ==
    {Program(f, <<x(w), y(v)>>, <<BitOp(op, r(w), x(w), Of(<<y(v)>>), w)>>) :
        f \in {Narrow, Wide}, op \in {"shl", "shr"}, w \in {2, 5, 9}, v \in {2, 5}}
    \cup {Proved(f, <<x(w), y(v)>>, <<BitOp(op, r(w), x(w), Of(<<y(v)>>), w)>>) :
        f \in {GF67, GF251}, op \in {"shl", "shr"}, w \in {1, 5}, v \in {1, 2, 4}}
    \cup {Proved(GF251, <<x(3), y(2), z(6)>>,
                 <<BitOp("shl", r(3), x(3), Of(<<y(2)>>), 3),
                   BitOp("shr", q(6), z(6), Of(<<y(2)>>), 6)>>)}

Divisions ==
    {Program(Narrow, <<x(w), y(w)>>, <<DivMod(q(w), r(w), x(w), Of(<<y(w)>>))>>) : w \in {2, 5}}
    \cup {Program(Narrow, <<x(w)>>, <<DivMod(q(w), r(BitLen(k)), x(w), OfConst(k))>>) :
              w \in {3, 5}, k \in {1, 3, 6}}
    \cup {Traced(f, <<x(w), y(v)>>, <<DivMod(q(w), r(v), x(w), Of(<<y(v)>>))>>) :
              f \in {GF251, GF67}, w \in {3, 6}, v \in {2, 3}}
    \cup {Traced(f, <<x(5)>>, <<DivMod(q(5), r(BitLen(k)), x(5), OfConst(k))>>) :
              f \in {GF251, GF67}, k \in {1, 3, 6}}

\* Whoever proves these may hint at any quotient and remainder.
Hinted ==
    {Proved(GF67, <<x(w[1]), y(w[2])>>, <<DivMod(q(w[1]), r(w[2]), x(w[1]), Of(<<y(w[2])>>))>>) :
        w \in {<<3, 1>>, <<3, 2>>, <<2, 3>>}}
    \cup {Proved(GF67, <<x(5)>>, <<DivMod(q(5), r(2), x(5), OfConst(3))>>)}

Checks ==
    {Program(Narrow, <<x(7)>>, <<Add(<<r(7)>>, <<x(7)>>, 0), CheckCast(r(7), n)>>) : n \in 1..7}

Relations == {"eq", "neq", "lt", "gteq", "gt", "lteq"}

Skips ==
    {Either(f, <<x(w), y(w)>>, Branch(cond, <<x(w)>>, Of(<<y(w)>>))) :
        f \in {Narrow, GF251, GF67}, w \in {1, 3, 5}, cond \in Relations}
    \cup {Program(Narrow, <<x(w)>>, Branch(cond, <<x(w)>>, OfConst(k))) :
        w \in {2, 5}, cond \in Relations, k \in {0, 2, 3}}
    \cup {Program(Narrow, <<x(5)>>, Branch(cond, <<x(5)>>, OfConst(k))) :
        cond \in Relations, k \in {4, 15, 30, 31}}
    \cup {Proved(GF67, <<x(w)>>, Branch(cond, <<x(w)>>, OfConst(k))) :
        w \in {2, 5}, cond \in Relations, k \in {0, 2}}
    \cup {Proved(GF67, <<x(5)>>, Branch(cond, <<x(5)>>, OfConst(k))) :
        cond \in Relations, k \in {7, 16, 30}}

\* Guards of a failure.
Failures ==
    {Either(f, <<x(5), y(5)>>,
            <<SkipIf(cond, <<x(5)>>, Of(<<y(5)>>), 1), Fail, Sub(<<r(5)>>, <<y(5), x(5)>>, 0)>>) :
        f \in {Narrow, GF67, GF251}, cond \in {"lt", "neq", "lteq"}}

\* The function returns its arguments.
Copy(w) ==
    LET a(i) == Register("a", w[i])
        b(i) == Register("b", w[i])
        ins  == <<[a(1) EXCEPT !.at = <<1>>], [a(2) EXCEPT !.at = <<2>>]>>
        outs == <<[b(1) EXCEPT !.at = <<1>>], [b(2) EXCEPT !.at = <<2>>]>>
    IN  Function(ins, outs, <<Add(<<outs[1]>>, <<ins[1]>>, 0), Add(<<outs[2]>>, <<ins[2]>>, 0), Ret>>)

Calling(p, w) == [p EXCEPT !.modules = Append(@, Copy(w))]

\* An argument may be narrower than its parameter, or wider once it is checked;
\* a result narrower, wider or dropped.
Calls ==
    LET Results == {<<r(5), q(6)>>, <<r(2), q(6)>>, <<r(9), Discard>>}
    IN  {Calling(Program(Narrow, <<x(3), y(6)>>,
                         <<CheckCast(y(6), w), Call(2, <<x(3), y(6)>>, rets, <<5, w>>, <<5, w>>)>>),
                 <<5, w>>) : w \in {2, 4, 6}, rets \in Results}
        \cup {Calling(Traced(f, <<x(3), y(6)>>,
                         <<CheckCast(y(6), w), Call(2, <<x(3), y(6)>>, rets, <<5, w>>, <<5, w>>)>>),
                 <<5, w>>) : f \in {GF67, GF251}, w \in {2, 4, 6}, rets \in Results}
        \cup {Calling(Proved(f, <<x(3), y(6)>>,
                         <<Call(2, <<x(3), y(6)>>, rets, <<5, 6>>, <<5, 6>>)>>), <<5, 6>>) :
                 f \in {GF67, GF251, GF521}, rets \in Results}

\* A table of eight rows of two values.
Table(address) ==
    Memory(address, <<5, 2>>, [i \in 1..16 |-> IF i % 2 = 0 THEN i % 4 ELSE (7 * i) % 32])

Reads ==
    {Program(Narrow, <<x(w)>>, <<Read(<<x(w)>>, data, Table(<<3>>))>>) :
        w \in {1, 3}, data \in {<<r(5), q(2)>>, <<r(4), q(5)>>, <<Discard, q(2)>>}}
    \cup {Traced(GF67, <<x(6)>>, <<CheckCast(x(6), 3), Read(<<x(6)>>, data, Table(<<3>>))>>) :
        data \in {<<r(5), q(2)>>, <<r(4), q(5)>>}}
    \cup {Proved(f, <<x(3)>>, <<Read(<<x(3)>>, data, Table(<<3>>))>>) :
        f \in {GF67, GF521}, data \in {<<r(5), q(2)>>, <<r(4), q(5)>>, <<Discard, q(2)>>}}
    \cup {Program(Narrow, <<x(2), y(1)>>, <<Read(<<x(2), y(1)>>, <<r(5), q(2)>>, Table(<<2, 1>>))>>)}

\* x * y + z and how it compares with the first operand; the second and third
\* operand one after the other.
Expressions ==
    {Proved(f, <<x(4), y(2), z(5)>>,
            <<Mul(<<q(6)>>, <<x(4), y(2)>>, 1), Add(<<r(6)>>, <<q(6), z(5)>>, 0),
              Add(<<s(6)>>, <<x(4)>>, 0)>> \o Branch(cond, <<r(6)>>, Of(<<s(6)>>))) :
        f \in {GF251, GF67}, cond \in {"lt", "gteq", "eq"}}
    \cup {Program(Narrow, <<x(3), y(5)>>,
            <<Cat(<<q(8)>>, <<x(3), y(5)>>), Sub(<<r(8)>>, <<q(8)>>, 7),
              CheckCast(r(8), 6), BitOp("xor", s(8), r(8), Of(<<q(8)>>), 8)>>)}

MCPrograms == Sums \cup Differences \cup Products \cup Concatenations \cup Bits \cup Shifts
    \cup Divisions \cup Hinted \cup Checks \cup Skips \cup Failures \cup Calls \cup Reads
    \cup Expressions
-----------------------------------------------------------------------------
(* What is not among them: in each of these families is a function that    *)
(* means something else once it is lowered or split.                       *)

\* The target is narrower than the operands: a middle chunk has fewer bits than
\* the difference of its limbs.
NarrowedDifferences ==
    {Program(f, <<x(6), y(6)>>, <<Sub(<<r(3)>>, <<x(6), y(6)>>, 0)>>) : f \in {Narrow, Wide}}

\* The target is wider: the chunks beyond the operands subtract nothing.
WidenedDifferences == {Program(Narrow, <<x(3), y(3)>>, <<Sub(<<r(6)>>, <<x(3), y(3)>>, 0)>>)}

\* What is shifted into a narrower target is cut off.
NarrowedShifts == {Program(Narrow, <<x(6), y(2)>>, <<BitOp("shr", r(3), x(6), Of(<<y(2)>>), 6)>>)}

\* What is shifted into a wider target keeps more bits than the operand has.
WidenedShifts == {Program(Narrow, <<x(3), y(2)>>, <<BitOp("shl", r(6), x(3), Of(<<y(2)>>), 3)>>)}

\* The complement of a value that was widened: its upper bits stay zero.
WidenedComplements == {Program(Narrow, <<x(2)>>, <<BitOp("not", r(4), x(2), Of(<<x(2)>>), 4)>>)}

\* Its difference has a target wider than its operands, and no bit for the sign.
TracedComplements == {Traced(GF67, <<x(2)>>, <<BitOp("not", r(4), x(2), Of(<<x(2)>>), 4)>>)}

\* A check that a register has fewer bits than its width is no constraint.
NarrowingChecks ==
    {Proved(GF67, <<x(4)>>, <<Add(<<r(4)>>, <<x(4)>>, 0), CheckCast(r(4), 3)>>)}

\* A constant divisor of several limbs, and hints at any outcome.
WideDivisors == {Proved(GF67, <<x(4)>>, <<DivMod(q(4), r(4), x(4), OfConst(8))>>)}

\* A comparison with the largest value.
MaximalComparisons ==
    {Traced(GF67, <<x(4)>>, Branch(cond, <<x(4)>>, OfConst(15))) : cond \in Relations}
=============================================================================
