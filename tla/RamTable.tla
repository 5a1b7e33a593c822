------------------------------ MODULE RamTable ------------------------------
(***************************************************************************)
(* The trace table of a read-write memory, composed with the memory that   *)
(* records it.  zkc/constraints/trace/process_ram.go turns the access log  *)
(* into rows, one per logical access after a row of padding;               *)
(* zkc/constraints/translate_ram.go states the constraints a verifier      *)
(* checks on them.  A row the tracer writes must satisfy every constraint, *)
(* whatever the program did, or an honest execution has no proof.          *)
(*                                                                         *)
(* A timestamp is split into limbs, the most significant first; TsWidths   *)
(* are their widths in bits.                                               *)
(***************************************************************************)
EXTENDS RandomAccess

CONSTANT TsWidths

ASSUME WidthsAssumption == TsWidths \in Seq(Nat \ {0}) /\ Len(TsWidths) > 0

Limbs == 1 .. Len(TsWidths)

-----------------------------------------------------------------------------
\* process_ram.go

\* The shift by w bits of a machine word.
Pow2(w) ==
    LET power[i \in 0 .. w] == IF i = 0 THEN 1 ELSE 2 * power[i - 1]
    IN  power[w]

\* The limb that is handled in step s: the least significant one comes first.
LimbAt(s) == Len(TsWidths) - s + 1

\* What is left of a stamp when the limbs of s steps are taken from it.
Shifted(stamp) ==
    LET rest[s \in 0 .. Len(TsWidths)] ==
            IF s = 0 THEN stamp ELSE rest[s - 1] \div Pow2(TsWidths[LimbAt(s)])
    IN  rest

\* The stamps a program threads have the declared width, so an execution that
\* outgrows it fails before the memory's clock does.
ASSUME StampsFit == Shifted(MaxClock)[Len(TsWidths)] = 0

\* splitLimbs, fillLimbs
Split(stamp) ==
    [i \in Limbs |-> Shifted(stamp)[Len(TsWidths) - i] % Pow2(TsWidths[i])]

\* Faulty CarriesFrom: the increment is left out.
CarriesOfSum(r, d) ==
    LET carry[s \in 0 .. Len(TsWidths)] ==
            IF s = 0 THEN 0
            ELSE LET i == LimbAt(s)
                 IN  (r[i] + d[i] + carry[s - 1]) \div Pow2(TsWidths[i])
    IN  carry

\* The carry out of the limb of each step of the sum of r, d and 1, which comes
\* into the first of them.
CarriesFrom(r, d) ==
    LET carry[s \in 0 .. Len(TsWidths)] ==
            IF s = 0 THEN 1
            ELSE LET i == LimbAt(s)
                 IN  (r[i] + d[i] + carry[s - 1]) \div Pow2(TsWidths[i])
    IN  carry

\* timestampCarries: those of the sum read + 1 + delta, but for that out of the
\* most significant limb.
Carries(read, delta) ==
    [i \in Limbs \ {1} |-> CarriesFrom(Split(read), Split(delta))[LimbAt(i)]]

\* groupRamAccesses: a run of records with equal write stamps is one access;
\* its row takes everything but the values from the first of them.
RunStarts(l) ==
    LET starts[i \in 0 .. Len(l)] ==
            IF i = 0 THEN <<>>
            ELSE IF i = 1 \/ l[i - 1].writeStamp # l[i].writeStamp
                 THEN Append(starts[i - 1], i)
                 ELSE starts[i - 1]
    IN  starts[Len(l)]

\* Faulty RunFrom: a record is taken for a whole access.
RunOfOne(l, i) == {i}

RunFrom(l, i) == {j \in i .. Len(l) : \A k \in i .. j : l[k].writeStamp = l[i].writeStamp}

PaddingRow ==
    [exec |-> 0, isWrite |-> 0, execWrite |-> 0, execRead |-> 0, address |-> 0,
     valueWritten |-> [l \in 0 .. (Lanes - 1) |-> Zero],
     valueRead |-> [l \in 0 .. (Lanes - 1) |-> Zero],
     tsWritten |-> Split(0), tsRead |-> Split(0), tsDelta |-> Split(0),
     tsCarry |-> [i \in Limbs \ {1} |-> 0],
     temporalTs |-> Split(0), temporalTsCarry |-> [i \in Limbs \ {1} |-> 0]]

\* The temporal stamps count up by one from the first record's.
TemporalOf(l, n) == l[1].writeStamp + n - 1

\* The row of the n-th access, whose run starts at i.
AccessRowOf(l, n, i) ==
    LET acc   == l[i]
        run   == RunFrom(l, i)
        delta == acc.writeStamp - acc.readStamp - 1
        prev  == IF n = 1 THEN 0 ELSE TemporalOf(l, n - 1)
    IN  [exec |-> 1,
         isWrite |-> IF acc.isWrite THEN 1 ELSE 0,
         execWrite |-> IF acc.isWrite THEN 1 ELSE 0,
         execRead |-> IF acc.isWrite THEN 0 ELSE 1,
         address |-> acc.address \div Lanes,
         valueWritten |-> [k \in {j - i : j \in run} |-> l[i + k].valueWritten],
         valueRead |-> [k \in {j - i : j \in run} |-> l[i + k].valueRead],
         tsWritten |-> Split(acc.writeStamp),
         tsRead |-> Split(acc.readStamp),
         tsDelta |-> Split(delta),
         tsCarry |-> Carries(acc.readStamp, delta),
         temporalTs |-> Split(TemporalOf(l, n)),
         temporalTsCarry |-> Carries(prev, 0)]

\* traceReadWriteMemory
Table(l) ==
    LET starts == RunStarts(l)
    IN  <<PaddingRow>> \o [n \in 1 .. Len(starts) |-> AccessRowOf(l, n, starts[n])]

-----------------------------------------------------------------------------
\* translate_ram.go

\* multiLimbIncrement: out = base + 1 + delta, limb by limb, no carry leaving
\* the most significant limb.
LimbIncrement(out, base, delta, carry) ==
    \A i \in Limbs :
        base[i] + delta[i] + (IF i = Len(TsWidths) THEN 1 ELSE carry[i + 1])
          = out[i] + (IF i = 1 THEN 0 ELSE carry[i] * Pow2(TsWidths[i]))

\* ramGeneralConstraints
GeneralConstraints(t) ==
    /\ t[1].exec = 0
    /\ \A n \in DOMAIN t :
          /\ t[n].exec \in {0, 1} /\ t[n].isWrite \in {0, 1}
          /\ n > 1 /\ t[n - 1].exec = 1 => t[n].exec = 1
          /\ t[n].execWrite = t[n].exec * t[n].isWrite
          /\ t[n].execWrite + t[n].execRead = t[n].exec

\* ramExecConstraints
ExecConstraints(t) ==
    \A n \in DOMAIN t : t[n].exec # 0 =>
        /\ LimbIncrement(t[n].tsWritten, t[n].tsRead, t[n].tsDelta, t[n].tsCarry)
        /\ t[n].isWrite = 0 => t[n].valueRead = t[n].valueWritten

\* ramChronologyConstraints
ChronologyConstraints(t) ==
    \A n \in DOMAIN t \ {1} : t[n - 1].exec = 1 /\ t[n].exec = 1 =>
        LimbIncrement(t[n].temporalTs, t[n - 1].temporalTs,
                      [i \in Limbs |-> 0], t[n].temporalTsCarry)

\* addRangeProofConstraints on the columns the tracer fills on its own: a
\* limb fits its width, a carry is a bit.
RangeConstraints(t) ==
    \A n \in DOMAIN t : \A i \in Limbs :
        /\ \A limbs \in {t[n].tsWritten, t[n].tsRead, t[n].tsDelta, t[n].temporalTs} :
              limbs[i] \in 0 .. (Pow2(TsWidths[i]) - 1)
        /\ i # 1 => t[n].tsCarry[i] \in {0, 1} /\ t[n].temporalTsCarry[i] \in {0, 1}

-----------------------------------------------------------------------------

\* Every table traced from an execution satisfies every constraint of the RAM
\* module: the deltas and carries the tracer computes in machine integers
\* witness the limb-wise additions for all pairs of stamps, across limb
\* boundaries and after a restore.
TableAccepted ==
    LET t == Table(log)
    IN  /\ GeneralConstraints(t)
        /\ ExecConstraints(t)
        /\ ChronologyConstraints(t)
        /\ RangeConstraints(t)

\* A row of the table is a whole access: it has a value for every data line,
\* at the address and in the order of the program's accesses, the clock of the
\* table shows the stamp it wrote, also in a shard that starts late, and the
\* memory ends with what the last row of an address wrote there.
TableReplaysMemory ==
    LET t == Table(log)
        rowsOf(a) == {n \in DOMAIN t \ {1} : t[n].address = a}
    IN  /\ \A n \in DOMAIN t : /\ DOMAIN t[n].valueWritten = 0 .. (Lanes - 1)
                                /\ t[n].temporalTs = t[n].tsWritten
        /\ \A row \in Row : rowsOf(row) # {} =>
              t[Latest(rowsOf(row))].valueWritten = ValuesFrom(data, row * Lanes, Lanes)
=============================================================================
