---------------------------- MODULE Propositions ----------------------------
(***************************************************************************)
(* Propositions over (in)equalities between variables and constants, as    *)
(* pkg/util/logical keeps them: in disjunctive normal form, simplified     *)
(* after every operation.  They are the conditions of the branch table of  *)
(* a bytecode vector, hence the guards of its constraints.                 *)
(*                                                                         *)
(* A variable is a number (the order of Variable.Cmp).  An atom is the     *)
(* tuple of the fields Equality.Cmp compares, in the order it compares     *)
(* them: <<0 if it is an equality and 1 if not, left variable, 0 if the    *)
(* right side is a variable and 1 if a constant, right side>>.  A clause   *)
(* (Conjunction) is a sorted sequence of atoms and a proposition a sorted  *)
(* sequence of clauses: the order in which the loops of the simplification *)
(* meet them decides what it returns, so it is kept.                       *)
(***************************************************************************)
EXTENDS Integers, Sequences, SequencesExt

IsEquality(a) == a[1] = 0
LeftOf(a) == a[2]
HasConstant(a) == a[3] = 1
RightOf(a) == a[4]

Negate(a) == [a EXCEPT ![1] = 1 - @]

\* The lowest variable goes to the left.
VarAtom(eq, l, r) == <<IF eq THEN 0 ELSE 1, IF l > r THEN r ELSE l,
                       0, IF l > r THEN l ELSE r>>
ConstAtom(eq, l, c) == <<IF eq THEN 0 ELSE 1, l, 1, c>>

\* x = x is the true atom and x # x the false one.
AtomIs(a, truth) ==
    IsEquality(a) = truth /\ ~HasConstant(a) /\ LeftOf(a) = RightOf(a)

\* What is left of p once its left variable is known to equal the right side
\* of the equality o.
Equate(p, o) ==
    LET eq == IsEquality(p)
    IN  CASE ~HasConstant(p) /\ ~HasConstant(o) ->
                VarAtom(eq, RightOf(p), RightOf(o))
          [] ~HasConstant(p) /\ HasConstant(o)  ->
                ConstAtom(eq, RightOf(p), RightOf(o))
          [] HasConstant(p) /\ ~HasConstant(o)  ->
                ConstAtom(eq, RightOf(o), RightOf(p))
          [] OTHER ->
                VarAtom((RightOf(p) = RightOf(o)) = eq, LeftOf(p), LeftOf(p))

CloseOver(p, o) ==
    CASE p = o \/ ~IsEquality(o)                         -> p
      [] p # o /\ IsEquality(o) /\ LeftOf(p) = LeftOf(o) -> Equate(p, o)
      [] p # o /\ IsEquality(o) /\ LeftOf(p) # LeftOf(o)
           /\ ~HasConstant(p) /\ RightOf(p) = LeftOf(o)  ->
            <<p[1], p[2], o[3], o[4]>>
      [] OTHER                                           -> p
-----------------------------------------------------------------------------
(* Sorted sets (any_sorted_set.go), ordered by the comparisons of their    *)
(* elements: atoms field by field, clauses by length and then atom by atom.*)

LexLess(s, t, less(_, _)) ==
    \E i \in DOMAIN s : less(s[i], t[i]) /\ \A j \in 1..(i - 1) : s[j] = t[j]

AtomLess(a, b) == LexLess(a, b, LAMBDA x, y : x < y)

ClauseLess(c, d) ==
    \/ Len(c) < Len(d)
    \/ Len(c) = Len(d) /\ LexLess(c, d, AtomLess)

InsertSorted(s, x, less(_, _)) ==
    SelectSeq(s, LAMBDA y : less(y, x)) \o <<x>>
        \o SelectSeq(s, LAMBDA y : less(x, y))

SortAtoms(c) == FoldLeft(LAMBDA s, x : InsertSorted(s, x, AtomLess), <<>>, c)
SortClauses(p) ==
    FoldLeft(LAMBDA s, x : InsertSorted(s, x, ClauseLess), <<>>, p)

\* The pairs of positions 1..n that two nested loops visit, in their order.
LoopPairs(n) == [k \in 1..(n * n) |-> <<((k - 1) \div n) + 1, ((k - 1) % n) + 1>>]
DistinctPairs(n) == SelectSeq(LoopPairs(n), LAMBDA q : q[1] # q[2])
OrderedPairs(n) == SelectSeq(LoopPairs(n), LAMBDA q : q[1] < q[2])
-----------------------------------------------------------------------------
(* Clauses.                                                                *)

Contradictory(c) == \E i \in DOMAIN c : AtomIs(c[i], FALSE)

\* One turn of the loops of Conjunction.simplify, which rewrite in place and
\* give up at the first false atom.
CloseAt(c, q) ==
    IF Contradictory(c) THEN c
    ELSE [c EXCEPT ![q[1]] = CloseOver(c[q[1]], c[q[2]])]

RECURSIVE Closure(_)

ClosureAfter(c, d) == IF d = c \/ Contradictory(d) THEN d ELSE Closure(d)

Closure(c) == ClosureAfter(c, FoldLeft(CloseAt, c, DistinctPairs(Len(c))))

SimplifyClause(c) == SortAtoms(SelectSeq(Closure(c), LAMBDA a : ~AtomIs(a, TRUE)))

Implies(c, d) == Range(c) \subseteq Range(d)
-----------------------------------------------------------------------------
(* Propositions.                                                           *)

True == <<>>
False == << <<>> >>

IsTrue(p) == p = True
IsFalse(p) == p = False

NewProposition(a) ==
    CASE AtomIs(a, TRUE)  -> True
      [] AtomIs(a, FALSE) -> False
      [] OTHER            -> << <<a>> >>

\* A clause of one atom removes its negation from the other clause.
UnitPropagation(p, i, j) ==
    IF (Len(p[i]) = 1) = (Len(p[j]) = 1) \/ p[i] = <<>> \/ p[j] = <<>> THEN p
    ELSE LET u == IF Len(p[i]) = 1 THEN i ELSE j
             w == IF u = i THEN j ELSE i
         IN  [p EXCEPT ![w] = Remove(@, Negate(p[u][1]))]

\* The stronger of two clauses gives way to the weaker one.
Absorb(p, i, j) ==
    CASE Implies(p[i], p[j]) /\ ~Implies(p[j], p[i]) -> [p EXCEPT ![j] = p[i]]
      [] Implies(p[j], p[i]) /\ ~Implies(p[i], p[j]) -> [p EXCEPT ![i] = p[j]]
      [] OTHER                                       -> p

Tautology(p, i, j) ==
    Len(p[i]) = 1 /\ Len(p[j]) = 1 /\ p[i][1] = Negate(p[j][1])

AbsorbAfter(acc, unit, q) ==
    [acc EXCEPT !.p = Absorb(unit, q[1], q[2]), !.changed = @ \/ unit # acc.p]

SimplifyConjuncts(acc, q) ==
    CASE acc.tautology -> acc
      [] ~acc.tautology /\ Tautology(acc.p, q[1], q[2]) -> [acc EXCEPT !.tautology = TRUE]
      [] OTHER -> AbsorbAfter(acc, UnitPropagation(acc.p, q[1], q[2]), q)

\* Two clauses of one length that differ in one atom, negated in the other.
Resolvable(c, d) ==
    /\ Len(c) = Len(d)
    /\ \E a \in Range(c) : /\ Range(c) \ Range(d) = {a}
                           /\ Negate(a) \in Range(d)

Resolve(p, i, j) ==
    RemoveAt([p EXCEPT ![i] = SelectSeq(@, LAMBDA a : a \in Range(p[j]))], j)

ResolveFirst(p, qs) == IF qs = <<>> THEN p ELSE Resolve(p, qs[1][1], qs[1][2])

\* The first such pair is replaced by what the two share.
Consensus(p) ==
    ResolveFirst(p, SelectSeq(OrderedPairs(Len(p)),
                              LAMBDA q : Resolvable(p[q[1]], p[q[2]])))

RECURSIVE Simplify(_)

SimplifyAfter(r, q) ==
    CASE r.tautology                             -> True
      [] ~r.tautology /\ (r.changed \/ q # r.p)  -> Simplify(q)
      [] OTHER                                   -> SortClauses(q)

SimplifyWith(r) == SimplifyAfter(r, Consensus(r.p))

Simplify(p) ==
    SimplifyWith(FoldLeft(SimplifyConjuncts,
                          [p |-> p, changed |-> FALSE, tautology |-> FALSE],
                          OrderedPairs(Len(p))))

Or(p, q) ==
    CASE IsTrue(p) \/ IsTrue(q)                 -> True
      [] ~IsTrue(q) /\ IsFalse(p)               -> q
      [] ~IsTrue(p) /\ ~IsFalse(p) /\ IsFalse(q) -> p
      [] OTHER                                  -> Simplify(SortClauses(p \o q))

FromClauses(ds) == IF ds = <<>> THEN False ELSE SortClauses(ds)

AndClause(c, p) ==
    FromClauses(SelectSeq([i \in DOMAIN p |-> SimplifyClause(SortAtoms(c \o p[i]))],
                          LAMBDA d : ~Contradictory(d)))

\* The disjunction of a non-empty sequence of propositions, from the left.
OrAll(ps) == FoldLeft(Or, Head(ps), Tail(ps))

And(p, q) ==
    CASE IsFalse(p) \/ IsFalse(q)                 -> False
      [] ~IsFalse(q) /\ IsTrue(p)                 -> q
      [] ~IsFalse(p) /\ ~IsTrue(p) /\ IsTrue(q)   -> p
      [] OTHER -> OrAll([i \in DOMAIN p |-> AndClause(p[i], q)])

\* The conjunction of a non-empty sequence of propositions.
AndAll(ps) == FoldLeft(And, Head(ps), Tail(ps))

NegateClause(c) == OrAll([i \in DOMAIN c |-> NewProposition(Negate(c[i]))])

NegateProposition(p) ==
    CASE IsTrue(p)  -> False
      [] IsFalse(p) -> True
      [] OTHER      -> AndAll([i \in DOMAIN p |-> NegateClause(p[i])])
-----------------------------------------------------------------------------
(* What atoms, clauses and propositions mean under a valuation of the      *)
(* variables: the reference the operations are compared with.              *)

AtomHolds(a, env) ==
    (env[LeftOf(a)] = (IF HasConstant(a) THEN RightOf(a) ELSE env[RightOf(a)]))
        = IsEquality(a)

Holds(p, env) ==
    \/ IsTrue(p)
    \/ \E i \in DOMAIN p : p[i] # <<>> /\ \A j \in DOMAIN p[i] : AtomHolds(p[i][j], env)
=============================================================================
