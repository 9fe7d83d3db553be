--------------------------- MODULE MipsAsm_proofs ---------------------------
(***************************************************************************)
(* The assembler's promises, for every source, table size and buffer size. *)
(* Pass 1 enters every label at the place its line then begins, so that a  *)
(* reference to a label that is already defined is right; the label table  *)
(* after pass 0 decides which references are refused; and while the passes *)
(* agree about the sizes of lines, forward references are right as well.   *)
(***************************************************************************)
EXTENDS MipsAsm, SequenceTheorems, FiniteSetTheorems, WellFoundedInduction, TLAPS

OutOps == {"byte", "word", "plain", "lui", "ori", "branch", "jump"}

CellType == [line : Nat, op : OutOps, val : Int, ref : Names \union {NoName}]

LineType == [def : Names \union {NoName}, op : Ops, num : Nat, ref : Names \union {NoName}]

(* Types.                                                                  *)
Shape == TypeOK /\ code \in Seq(CellType) /\ IsFiniteSet(DOMAIN labels)

(* d is c with more cells of line l.                                       *)
Grown(c, d, l) ==
  /\ d \in Seq(CellType) /\ Len(c) <= Len(d) /\ Len(d) <= CodeMax
  /\ \A a \in 1 .. Len(c) : d[a] = c[a]
  /\ \A a \in Len(c) + 1 .. Len(d) : d[a].line = next /\ d[a].ref = l.ref

(* What Reaches says of a cell at a, when its label is at dest.            *)
Holds(a, cell, dest) ==
  LET away == dest - (Origin + a - 1 + 4)
  IN  CASE cell.op = "branch" ->
             away % 4 = 0 /\ ToImmediate(away \div 4) = away \div 4 => 4 * cell.val = away
        [] cell.op = "jump" -> dest % 4 = 0 => 4 * cell.val = dest
        [] cell.op = "lui"  -> cell.val = (dest \div HalfBase) % HalfBase
        [] cell.op = "ori"  -> cell.val = dest % HalfBase
        [] OTHER -> TRUE

-----------------------------------------------------------------------------
(* Emission.                                                               *)
LEMMA CellIsCell ==
  ASSUME NEW l \in LineType, NEW op \in OutOps, NEW v \in Int, next \in Nat
  PROVE  /\ Cell(l, op, v) \in CellType
         /\ Cell(l, op, v).line = next /\ Cell(l, op, v).ref = l.ref
         /\ Cell(l, op, v).op = op /\ Cell(l, op, v).val = v
BY DEF Cell, CellType, LineType

LEMMA ByteIsCell ==
  ASSUME NEW l \in LineType, next \in Nat
  PROVE  /\ Byte(l) \in CellType
         /\ Byte(l).line = next /\ Byte(l).ref = l.ref /\ Byte(l).op = "byte"
BY CellIsCell DEF Byte, OutOps

LEMMA Put4Grows ==
  ASSUME NEW c \in Seq(CellType), Len(c) <= CodeMax, NEW l \in LineType,
         NEW op \in OutOps, NEW v \in Int, next \in Nat
  PROVE  /\ Grown(c, Put4(c, l, op, v), l)
         /\ \A a \in Len(c) + 1 .. Len(Put4(c, l, op, v)) :
              LET cell == Put4(c, l, op, v)[a]
              IN  cell.op = "byte" \/ (a = Len(c) + 1 /\ cell.op = op /\ cell.val = v)
<1> DEFINE four == <<Cell(l, op, v), Byte(l), Byte(l), Byte(l)>>
<1>1. Len(c) \in Nat /\ CodeMax \in Nat
  BY AsmAssumption
<1>2. CASE Len(c) + 4 <= CodeMax
  <2>1. Put4(c, l, op, v) = c \o four
    BY <1>2 DEF Put4
  <2>2. four \in Seq(CellType) /\ Len(four) = 4
    BY CellIsCell, ByteIsCell
  <2>3. /\ c \o four \in Seq(CellType) /\ Len(c \o four) = Len(c) + 4
        /\ \A a \in 1 .. Len(c) : (c \o four)[a] = c[a]
        /\ \A a \in Len(c) + 1 .. Len(c) + 4 : (c \o four)[a] = four[a - Len(c)]
    <3> HIDE DEF four
    <3>1. /\ c \o four \in Seq(CellType) /\ Len(c \o four) = Len(c) + 4
          /\ \A a \in 1 .. Len(c) + 4 :
               (c \o four)[a] = IF a <= Len(c) THEN c[a] ELSE four[a - Len(c)]
      <4>1. /\ c \o four \in Seq(CellType) /\ Len(c \o four) = Len(c) + Len(four)
            /\ \A a \in 1 .. Len(c) + Len(four) :
                 (c \o four)[a] = IF a <= Len(c) THEN c[a] ELSE four[a - Len(c)]
        BY <2>2, ConcatProperties, Zenon
      <4> QED
        BY <2>2, <4>1
    <3> QED
      BY <1>1, <3>1
  <2>4. ASSUME NEW a \in Len(c) + 1 .. Len(c) + 4
        PROVE  LET cell == (c \o four)[a]
               IN  /\ cell.line = next /\ cell.ref = l.ref
                   /\ cell.op = "byte" \/ (a = Len(c) + 1 /\ cell.op = op /\ cell.val = v)
    <3>1. a - Len(c) \in 1 .. 4
      BY <1>1
    <3>2. four[a - Len(c)] = IF a = Len(c) + 1 THEN Cell(l, op, v) ELSE Byte(l)
      BY <1>1, <3>1
    <3>3. (c \o four)[a] = IF a = Len(c) + 1 THEN Cell(l, op, v) ELSE Byte(l)
      BY <2>3, <3>2
    <3>4. CASE a = Len(c) + 1
      BY <3>3, <3>4, CellIsCell
    <3>5. CASE a # Len(c) + 1
      <4>1. (c \o four)[a] = Byte(l)
        BY <3>3, <3>5
      <4>2. Byte(l).line = next /\ Byte(l).ref = l.ref /\ Byte(l).op = "byte"
        BY ByteIsCell
      <4> HIDE DEF four
      <4> QED
        BY <4>1, <4>2, Zenon
    <3> QED
      BY <3>4, <3>5
  <2> HIDE DEF four
  <2> QED
    BY <1>1, <1>2, <2>1, <2>3, <2>4 DEF Grown
<1>3. CASE ~(Len(c) + 4 <= CodeMax)
  BY <1>1, <1>3 DEF Put4, Grown
<1> QED
  BY <1>2, <1>3

LEMMA PutBytesGrows ==
  ASSUME NEW c \in Seq(CellType), Len(c) <= CodeMax, NEW l \in LineType, NEW n \in Nat,
         next \in Nat
  PROVE  /\ Grown(c, PutBytes(c, l, n), l)
         /\ \A a \in Len(c) + 1 .. Len(PutBytes(c, l, n)) : PutBytes(c, l, n)[a].op = "byte"
<1> DEFINE m == IF n <= CodeMax - Len(c) THEN n ELSE CodeMax - Len(c)
           bytes == [k \in 1 .. m |-> Byte(l)]
<1>1. Len(c) \in Nat /\ CodeMax \in Nat
  BY AsmAssumption
<1>2. m \in Nat /\ Len(c) + m <= CodeMax
  BY <1>1
<1>3. PutBytes(c, l, n) = c \o bytes
  BY DEF PutBytes
<1> HIDE DEF m
<1>4. bytes \in Seq(CellType) /\ Len(bytes) = m
  BY <1>2, ByteIsCell
<1>5. /\ c \o bytes \in Seq(CellType) /\ Len(c \o bytes) = Len(c) + m
      /\ \A a \in 1 .. Len(c) : (c \o bytes)[a] = c[a]
      /\ \A a \in Len(c) + 1 .. Len(c) + m : (c \o bytes)[a] = bytes[a - Len(c)]
  <2> HIDE DEF bytes
  <2>1. /\ c \o bytes \in Seq(CellType) /\ Len(c \o bytes) = Len(c) + m
        /\ \A a \in 1 .. Len(c) + m :
             (c \o bytes)[a] = IF a <= Len(c) THEN c[a] ELSE bytes[a - Len(c)]
    <3>1. /\ c \o bytes \in Seq(CellType) /\ Len(c \o bytes) = Len(c) + Len(bytes)
          /\ \A a \in 1 .. Len(c) + Len(bytes) :
               (c \o bytes)[a] = IF a <= Len(c) THEN c[a] ELSE bytes[a - Len(c)]
      BY <1>4, ConcatProperties, Zenon
    <3> QED
      BY <1>4, <3>1
  <2> QED
    BY <1>1, <1>2, <2>1
<1>6. ASSUME NEW a \in Len(c) + 1 .. Len(c) + m
      PROVE  (c \o bytes)[a] = Byte(l)
  <2>1. a - Len(c) \in 1 .. m
    BY <1>1, <1>2
  <2>2. bytes[a - Len(c)] = Byte(l)
    BY <2>1
  <2> QED
    BY <1>5, <2>2
<1> HIDE DEF bytes
<1> QED
  BY <1>1, <1>2, <1>3, <1>5, <1>6, ByteIsCell DEF Grown

LEMMA GrownTwice ==
  ASSUME NEW l, NEW c \in Seq(CellType), NEW d, NEW e, Grown(c, d, l), Grown(d, e, l)
  PROVE  Grown(c, e, l)
<1>1. Len(c) \in Nat /\ Len(d) \in Nat /\ Len(e) \in Nat
  BY DEF Grown
<1>2. \A a \in Len(c) + 1 .. Len(e) : a \in Len(c) + 1 .. Len(d) \/ a \in Len(d) + 1 .. Len(e)
  BY <1>1
<1>3. \A a \in 1 .. Len(c) : a \in 1 .. Len(d)
  BY <1>1 DEF Grown
<1>4. \A a \in Len(c) + 1 .. Len(d) : a \in 1 .. Len(d)
  BY <1>1
<1> QED
  BY <1>1, <1>2, <1>3, <1>4 DEF Grown

(* What the fields of l's output hold: nothing, a label's address, or what *)
(* leads to it from here.                                                  *)
LEMMA HalvesHold ==
  ASSUME NEW v \in Nat, NEW a
  PROVE  /\ \A cell : cell.op = "lui" /\ cell.val = (v \div HalfBase) % HalfBase => Holds(a, cell, v)
         /\ \A cell : cell.op = "ori" /\ cell.val = v % HalfBase => Holds(a, cell, v)
         /\ \A cell : cell.op \in {"byte", "word", "plain"} => Holds(a, cell, v)
BY DEF Holds

LEMMA HalvesGrow ==
  ASSUME NEW c \in Seq(CellType), Len(c) <= CodeMax, NEW l \in LineType,
         NEW v \in Nat, next \in Nat
  PROVE  /\ Grown(c, PutHalves(c, l, v), l)
         /\ \A a \in Len(c) + 1 .. Len(PutHalves(c, l, v)) : Holds(a, PutHalves(c, l, v)[a], v)
<1> DEFINE upper == (v \div HalfBase) % HalfBase
           lower == v % HalfBase
           c1    == IF upper # 0 THEN Put4(c, l, "lui", upper) ELSE c
           d     == PutHalves(c, l, v)
<1>1. upper \in Int /\ lower \in Int
  BY AsmAssumption
<1>2. d = IF lower # 0 \/ upper = 0 THEN Put4(c1, l, "ori", lower) ELSE c1
  BY DEF PutHalves
<1>3. Grown(c, c1, l) /\ \A a \in Len(c) + 1 .. Len(c1) : Holds(a, c1[a], v)
  <2>1. CASE upper # 0
    <3>1. c1 = Put4(c, l, "lui", upper)
      BY <2>1
    <3>2. /\ Grown(c, c1, l)
          /\ \A a \in Len(c) + 1 .. Len(c1) :
               c1[a].op = "byte" \/ (c1[a].op = "lui" /\ c1[a].val = upper)
      <4> HIDE DEF upper
      <4> QED
        BY <1>1, <3>1, Put4Grows DEF OutOps
    <3> HIDE DEF c1
    <3> QED
      BY <3>2, HalvesHold
  <2>2. CASE ~(upper # 0)
    <3>1. c1 = c
      BY <2>2
    <3>2. Len(c) \in Nat
      OBVIOUS
    <3> QED
      BY <3>1, <3>2 DEF Grown
  <2> QED
    BY <2>1, <2>2
<1> HIDE DEF c1
<1>4. CASE lower # 0 \/ upper = 0
  <2>1. d = Put4(c1, l, "ori", lower)
    BY <1>2, <1>4
  <2>2. c1 \in Seq(CellType) /\ Len(c1) <= CodeMax
    BY <1>3 DEF Grown
  <2>3. /\ Grown(c1, d, l)
        /\ \A a \in Len(c1) + 1 .. Len(d) :
             d[a].op = "byte" \/ (d[a].op = "ori" /\ d[a].val = lower)
    <3> HIDE DEF d, lower
    <3> QED
      BY <1>1, <2>1, <2>2, Put4Grows DEF OutOps
  <2> HIDE DEF d
  <2>4. Grown(c, d, l)
    BY <1>3, <2>3, GrownTwice
  <2>5. ASSUME NEW a \in Len(c) + 1 .. Len(d) PROVE Holds(a, d[a], v)
    <3>1. Len(c) \in Nat /\ Len(c1) \in Nat /\ Len(d) \in Nat
      BY <2>2, <2>4 DEF Grown
    <3>2. CASE a \in Len(c) + 1 .. Len(c1)
      <4>1. a \in 1 .. Len(c1)
        BY <3>1, <3>2
      <4>2. d[a] = c1[a]
        BY <2>3, <4>1 DEF Grown
      <4> QED
        BY <1>3, <3>2, <4>2
    <3>3. CASE a \in Len(c1) + 1 .. Len(d)
      BY <3>3, <2>3, HalvesHold
    <3> QED
      BY <3>1, <3>2, <3>3
  <2> QED
    BY <2>4, <2>5 DEF d
<1>5. CASE ~(lower # 0 \/ upper = 0)
  <2>1. d = c1
    BY <1>2, <1>5
  <2> HIDE DEF d
  <2> QED
    BY <1>3, <2>1 DEF d
<1> QED
  BY <1>4, <1>5

(* What the other statements emit.                                         *)
LEMMA FieldHolds ==
  ASSUME NEW c \in Seq(CellType), Len(c) <= CodeMax, NEW l \in LineType, next \in Nat,
         NEW op \in OutOps, NEW v \in Int, NEW dest,
         Holds(Len(c) + 1, Cell(l, op, v), dest)
  PROVE  /\ Grown(c, Put4(c, l, op, v), l)
         /\ \A a \in Len(c) + 1 .. Len(Put4(c, l, op, v)) : Holds(a, Put4(c, l, op, v)[a], dest)
<1> DEFINE d == Put4(c, l, op, v)
<1>1. /\ Grown(c, d, l)
      /\ \A a \in Len(c) + 1 .. Len(d) :
           d[a].op = "byte" \/ (a = Len(c) + 1 /\ d[a].op = op /\ d[a].val = v)
  BY Put4Grows
<1>2. Cell(l, op, v).op = op /\ Cell(l, op, v).val = v
  BY CellIsCell
<1>3. ASSUME NEW a \in Len(c) + 1 .. Len(d) PROVE Holds(a, d[a], dest)
  <2>1. CASE d[a].op = "byte"
    BY <2>1 DEF Holds
  <2>2. CASE a = Len(c) + 1 /\ d[a].op = op /\ d[a].val = v
    BY <1>2, <2>2 DEF Holds
  <2> HIDE DEF d
  <2> QED
    BY <1>1, <2>1, <2>2
<1> QED
  BY <1>1, <1>3

LEMMA EmittedHolds ==
  ASSUME Shape, Reading(1), NEW l \in LineType, l.op # "unknown", l.op # "bad_number",
         NEW table, l.ref # NoName => table[l.ref] \in Nat,
         l.op \in {"branch", "jump"} => l.ref # NoName
  PROVE  /\ Grown(code, Emitted(l, table), l)
         /\ l.ref # NoName => \A a \in Len(code) + 1 .. Len(Emitted(l, table)) :
                                Holds(a, Emitted(l, table)[a], table[l.ref])
<1>1. /\ code \in Seq(CellType) /\ code_len = Len(code) /\ Len(code) <= CodeMax
      /\ Len(code) \in Nat /\ next \in Nat
  <2>1. pass = 1 /\ pass # 0
    BY DEF Reading
  <2>2. code \in Seq(CellType) /\ code_len = Len(code) /\ code_len <= CodeMax
    BY <2>1 DEF Shape, TypeOK
  <2>3. Len(source) \in Nat /\ next \in 1 .. Len(source) + 1
    BY DEF Shape, TypeOK
  <2> QED
    BY <2>2, <2>3
<1>2. l.num \in Nat /\ Origin \in Nat
  BY AsmAssumption DEF LineType
<1> DEFINE d == Emitted(l, table)
<1>3. CASE l.op = "blank"
  <2>1. d = code
    BY <1>3 DEF Emitted
  <2>2. Grown(code, code, l) /\ \A a : a \notin Len(code) + 1 .. Len(code)
    BY <1>1 DEF Grown
  <2> QED
    BY <2>1, <2>2, Zenon
<1>4. CASE l.op \in {"byte", "string", "space"}
  <2>1. PICK n \in Nat : d = PutBytes(code, l, n)
    BY <1>2, <1>4 DEF Emitted
  <2>2. Grown(code, d, l) /\ \A a \in Len(code) + 1 .. Len(d) : d[a].op = "byte"
    <3> HIDE DEF d
    <3> QED
      BY <1>1, <2>1, PutBytesGrows
  <2> HIDE DEF d
  <2>3. \A a \in Len(code) + 1 .. Len(d) : Holds(a, d[a], table[l.ref])
    BY <2>2 DEF Holds
  <2> QED
    BY <2>2, <2>3 DEF d
<1>5. CASE l.op \in {"word", "plain"}
  <2>1. d = Put4(code, l, l.op, 0)
    BY <1>5 DEF Emitted
  <2>2. Holds(Len(code) + 1, Cell(l, l.op, 0), table[l.ref])
    BY <1>5, CellIsCell DEF Holds, Cell
  <2>3. l.op \in OutOps
    BY <1>5 DEF OutOps
  <2> HIDE DEF d
  <2> QED
    BY <1>1, <2>1, <2>2, <2>3, FieldHolds DEF d
<1>6. CASE l.op = "li"
  <2> DEFINE v == IF l.ref = NoName THEN l.num ELSE table[l.ref]
  <2>1. d = PutHalves(code, l, v) /\ v \in Nat
    BY <1>2, <1>6 DEF Emitted
  <2>2. l.ref # NoName => v = table[l.ref]
    OBVIOUS
  <2> HIDE DEF d, v
  <2> QED
    BY <1>1, <2>1, <2>2, HalvesGrow DEF d
<1>7. CASE l.op = "branch"
  <2> DEFINE dest == table[l.ref]
             v == Offset(dest)
  <2>0. l.ref # NoName
    BY <1>7
  <2>1. d = Put4(code, l, "branch", v) /\ dest \in Nat
    BY <1>7, <2>0 DEF Emitted
  <2>2. v = ToImmediate((dest - (Origin + (Len(code) + 1) - 1 + 4)) \div 4)
    <3>1. Here + 4 = Origin + (Len(code) + 1) - 1 + 4
      BY <1>1, <1>2 DEF Here
    <3> QED
      BY <3>1 DEF Offset
  <2>3. v \in Int
    <3> HIDE DEF dest
    <3>1. (dest - (Here + 4)) \div 4 \in Int
      BY <1>1, <1>2, <2>1 DEF Here
    <3>2. \A n \in Int : ToImmediate(n) \in Int
      BY AsmAssumption DEF ToImmediate
    <3> QED
      BY <3>1, <3>2 DEF Offset
  <2>4. Cell(l, "branch", v).op = "branch" /\ Cell(l, "branch", v).val = v
    BY DEF Cell
  <2> HIDE DEF d, v, dest
  <2>5. Holds(Len(code) + 1, Cell(l, "branch", v), dest)
    <3> DEFINE away == dest - (Origin + (Len(code) + 1) - 1 + 4)
    <3>1. away \in Int
      BY <1>1, <1>2, <2>1
    <3>2. away % 4 = 0 /\ ToImmediate(away \div 4) = away \div 4 => 4 * v = away
      <4>1. v = ToImmediate(away \div 4)
        BY <2>2
      <4> HIDE DEF away
      <4>2. away % 4 = 0 => 4 * (away \div 4) = away
        BY <3>1
      <4> QED
        BY <4>1, <4>2
    <3> QED
      BY <2>4, <3>2 DEF Holds
  <2> QED
    BY <1>1, <2>1, <2>3, <2>5, FieldHolds DEF OutOps, d, dest
<1>8. CASE l.op = "jump"
  <2> DEFINE dest == table[l.ref]
             v == dest \div 4
  <2>0. l.ref # NoName
    BY <1>8
  <2>1. d = Put4(code, l, "jump", v) /\ dest \in Nat
    BY <1>8, <2>0 DEF Emitted
  <2>2. v \in Int
    <3> HIDE DEF dest, d
    <3> QED
      BY <2>1
  <2>3. Holds(Len(code) + 1, Cell(l, "jump", v), dest)
    <3>1. dest % 4 = 0 => 4 * v = dest
      <4> HIDE DEF dest, d
      <4> QED
        BY <2>1
    <3> QED
      BY <3>1 DEF Holds, Cell
  <2> HIDE DEF d, v, dest
  <2> QED
    BY <1>1, <2>1, <2>2, <2>3, FieldHolds DEF OutOps, d, dest
<1>9. l.op \in Ops
  BY DEF LineType
<1> QED
  BY <1>3, <1>4, <1>5, <1>6, <1>7, <1>8, <1>9 DEF Ops

-----------------------------------------------------------------------------
(* The label table.                                                        *)
Before(j) == {n \in Names : \E i \in 1 .. j - 1 : Defines(i, n)}

(* The labels that found room in the first j - 1 lines.                    *)
Roomy(k, n) ==
  Cardinality({m \in Names \ {n} : \E i \in 1 .. k - 1 : Defines(i, m)}) < LabelsMax

KnownTo(j) == {n \in Names : \E k \in 1 .. j - 1 : Defines(k, n) /\ Roomy(k, n)}

(* The lines whose labels are in the table.                                *)
Collected == IF pass = 0 THEN next ELSE Len(source) + 1

(* The table holds the labels that found room, all of them while there is  *)
(* room left.                                                              *)
Full(j) == Cardinality(DOMAIN labels) < LabelsMax => DOMAIN labels = Before(j)

Tabled ==
  result = "none" =>
    /\ DOMAIN labels = KnownTo(Collected)
    /\ Full(Collected)
    /\ IsFiniteSet(Before(Collected))

LEMMA SourceLines ==
  ASSUME Shape
  PROVE  /\ Len(source) \in Nat /\ next \in Nat /\ next >= 1 /\ next <= Len(source) + 1
         /\ \A k \in 1 .. Len(source) :
              source[k] \in LineType /\ (source[k].op \in {"branch", "jump"} => source[k].ref # NoName)
<1>1. source \in Seq(Lines) /\ next \in 1 .. Len(source) + 1
  BY DEF Shape, TypeOK
<1>2. \A k \in 1 .. Len(source) : source[k] \in Lines
  BY <1>1
<1>3. \A l \in Lines : l \in LineType /\ (l.op \in {"branch", "jump"} => l.ref # NoName)
  BY AsmAssumption DEF LineType
<1> QED
  BY <1>1, <1>2, <1>3

(* A line's label is in the table at the place where the line begins.      *)
LEMMA LabelledTable ==
  ASSUME Shape, NEW l \in LineType
  PROVE  /\ DOMAIN Labelled(l) \subseteq Names /\ IsFiniteSet(DOMAIN Labelled(l))
         /\ Cardinality(DOMAIN Labelled(l)) <= LabelsMax
         /\ DOMAIN labels \subseteq DOMAIN Labelled(l)
         /\ DOMAIN Labelled(l) \subseteq DOMAIN labels \union {l.def}
         /\ \A n \in DOMAIN Labelled(l) : /\ Labelled(l)[n] = IF n = l.def THEN Here ELSE labels[n]
                                          /\ Labelled(l)[n] \in Nat
<1>1. /\ DOMAIN labels \subseteq Names /\ IsFiniteSet(DOMAIN labels)
      /\ Cardinality(DOMAIN labels) <= LabelsMax /\ LabelsMax \in Nat
      /\ \A n \in DOMAIN labels : labels[n] \in Nat
      /\ Here \in Nat
  BY AsmAssumption DEF Shape, TypeOK, Here
<1>2. l.def \in Names \union {NoName} /\ NoName \notin Names
  BY AsmAssumption DEF LineType
<1> DEFINE added == [m \in DOMAIN labels \union {l.def} |-> IF m = l.def THEN Here ELSE labels[m]]
<1>3. CASE Labelled(l) = labels /\ l.def \notin DOMAIN labels
  BY <1>1, <1>3
<1>4. CASE Labelled(l) = added /\ l.def \in Names
           /\ (l.def \in DOMAIN labels \/ Cardinality(DOMAIN labels) < LabelsMax)
  <2>1. DOMAIN added = DOMAIN labels \union {l.def}
    OBVIOUS
  <2>2. /\ IsFiniteSet(DOMAIN labels \union {l.def})
        /\ Cardinality(DOMAIN labels \union {l.def}) =
             IF l.def \in DOMAIN labels THEN Cardinality(DOMAIN labels) ELSE Cardinality(DOMAIN labels) + 1
    BY <1>1, FS_AddElement
  <2>3. Cardinality(DOMAIN labels) \in Nat
    BY <1>1, FS_CardinalityType
  <2>4. Cardinality(DOMAIN labels \union {l.def}) <= LabelsMax
    BY <1>1, <1>4, <2>2, <2>3
  <2>5. \A n \in DOMAIN labels \union {l.def} :
           added[n] = (IF n = l.def THEN Here ELSE labels[n]) /\ added[n] \in Nat
    BY <1>1
  <2> HIDE DEF added
  <2>6. DOMAIN Labelled(l) = DOMAIN labels \union {l.def}
    BY <1>4, <2>1
  <2> QED
    BY <1>1, <1>4, <2>2, <2>4, <2>5, <2>6
<1>5. \/ Labelled(l) = labels /\ l.def \notin DOMAIN labels
      \/ /\ Labelled(l) = added /\ l.def \in Names
         /\ (l.def \in DOMAIN labels \/ Cardinality(DOMAIN labels) < LabelsMax)
  BY <1>1, <1>2 DEF Labelled, AddLabel
<1> HIDE DEF added
<1> QED
  BY <1>3, <1>4, <1>5

(* A label is added when there is room for it.                             *)
LEMMA LabelledRoom ==
  ASSUME Shape, NEW l \in LineType
  PROVE  DOMAIN Labelled(l) = IF l.def \in Names /\ Cardinality(DOMAIN labels) < LabelsMax
                              THEN DOMAIN labels \union {l.def} ELSE DOMAIN labels
<1>1. DOMAIN labels \subseteq Names /\ l.def \in Names \union {NoName} /\ NoName \notin Names
  BY AsmAssumption DEF Shape, TypeOK, LineType
<1>2. CASE l.def \notin Names
  BY <1>1, <1>2 DEF Labelled
<1>3. CASE l.def \in DOMAIN labels
  <2>1. DOMAIN Labelled(l) = DOMAIN labels \union {l.def}
    BY <1>1, <1>3 DEF Labelled, AddLabel
  <2> QED
    BY <1>3, <2>1
<1>4. CASE l.def \in Names /\ l.def \notin DOMAIN labels
  BY <1>1, <1>4 DEF Labelled, AddLabel
<1> QED
  BY <1>2, <1>3, <1>4

(* Pass 0: one line more.                                                  *)
LEMMA CollectLine ==
  ASSUME Shape, Tabled, Reading(0), NEW l, l = source[next]
  PROVE  /\ DOMAIN Labelled(l) = KnownTo(next + 1)
         /\ Cardinality(DOMAIN Labelled(l)) < LabelsMax => DOMAIN Labelled(l) = Before(next + 1)
         /\ IsFiniteSet(Before(next + 1))
<1> DEFINE old == DOMAIN labels
           d   == l.def
           more == {n \in Names : d = n}
<1>1. Len(source) \in Nat /\ next \in Nat /\ next >= 1 /\ l \in LineType /\ Collected = next
  BY SourceLines DEF Reading, Collected
<1>2. /\ old = KnownTo(next) /\ IsFiniteSet(old) /\ IsFiniteSet(Before(next))
      /\ Cardinality(old) < LabelsMax => old = Before(next)
      /\ old \subseteq Names /\ Cardinality(old) \in Nat /\ LabelsMax \in Nat
  BY <1>1, FS_CardinalityType, AsmAssumption DEF Tabled, Full, Shape, TypeOK, Reading
<1>3. \A i : i \in 1 .. (next + 1) - 1 <=> i \in 1 .. next - 1 \/ i = next
  BY <1>1
<1>4. \A n : Defines(next, n) <=> d = n
  BY DEF Defines
<1>5. Before(next + 1) = Before(next) \union more
  BY <1>3, <1>4 DEF Before
<1>6. KnownTo(next + 1) = KnownTo(next) \union {n \in more : Roomy(next, n)}
  BY <1>3, <1>4 DEF KnownTo
<1>7. KnownTo(next) \subseteq Before(next)
  BY DEF KnownTo, Before
<1>8. \A n : {m \in Names \ {n} : \E i \in 1 .. next - 1 : Defines(i, m)} = Before(next) \ {n}
  BY DEF Before
<1>9. \A n : Roomy(next, n) <=> Cardinality(Before(next) \ {n}) < LabelsMax
  BY <1>8 DEF Roomy
<1>10. d \in Names => more = {d}
  OBVIOUS
<1>11. d \notin Names => more = {}
  OBVIOUS
<1>12. IsFiniteSet(Before(next) \union {d})
  BY <1>2, FS_AddElement
<1>13. IsFiniteSet(Before(next + 1))
  BY <1>2, <1>5, <1>10, <1>11, <1>12
<1>14. DOMAIN Labelled(l) = IF d \in Names /\ Cardinality(old) < LabelsMax THEN old \union {d} ELSE old
  BY <1>1, LabelledRoom
<1> HIDE DEF old, d, more
<1>15. CASE d \notin Names
  <2>1. DOMAIN Labelled(l) = old /\ Before(next + 1) = Before(next) /\ KnownTo(next + 1) = KnownTo(next)
    BY <1>5, <1>6, <1>11, <1>14, <1>15
  <2> QED
    BY <1>2, <1>13, <2>1
<1>16. CASE d \in Names /\ Cardinality(old) < LabelsMax
  <2>1. DOMAIN Labelled(l) = old \union {d} /\ old = Before(next)
    BY <1>2, <1>14, <1>16
  <2>2. DOMAIN Labelled(l) = Before(next + 1)
    BY <1>5, <1>10, <1>16, <2>1
  <2>3. Cardinality(Before(next) \ {d}) < LabelsMax
    <3>1. Cardinality(old \ {d}) = IF d \in old THEN Cardinality(old) - 1 ELSE Cardinality(old)
      BY <1>2, FS_RemoveElement
    <3> QED
      BY <1>2, <1>16, <2>1, <3>1
  <2>4. KnownTo(next + 1) = old \union {d}
    BY <1>2, <1>6, <1>9, <1>10, <1>16, <2>3
  <2> QED
    BY <1>13, <2>1, <2>2, <2>4
<1>17. CASE d \in Names /\ ~(Cardinality(old) < LabelsMax)
  <2>1. DOMAIN Labelled(l) = old
    BY <1>14, <1>17
  <2>2. CASE d \in old
    <3>1. KnownTo(next + 1) = old
      BY <1>2, <1>6, <1>10, <1>17, <2>2
    <3> QED
      BY <1>13, <1>17, <2>1, <3>1
  <2>3. CASE d \notin old
    <3>1. old \in SUBSET (Before(next) \ {d})
      BY <1>2, <1>7, <2>3
    <3>2. IsFiniteSet(Before(next) \ {d})
      BY <1>2, FS_RemoveElement
    <3>3. Cardinality(old) <= Cardinality(Before(next) \ {d}) /\ Cardinality(Before(next) \ {d}) \in Nat
      BY <3>1, <3>2, FS_Subset, FS_CardinalityType
    <3>4. ~Roomy(next, d)
      BY <1>2, <1>9, <1>17, <3>3
    <3>5. KnownTo(next + 1) = old
      BY <1>2, <1>6, <1>10, <1>17, <3>4
    <3> QED
      BY <1>13, <1>17, <2>1, <3>5
  <2> QED
    BY <2>2, <2>3
<1> QED
  BY <1>15, <1>16, <1>17

(* Pass 1: no label is new to the table.                                   *)
LEMMA NothingNew ==
  ASSUME Shape, Tabled, Reading(1), NEW l, l = source[next]
  PROVE  DOMAIN Labelled(l) = DOMAIN labels
<1>1. Len(source) \in Nat /\ next \in 1 .. Len(source) /\ l \in LineType /\ Collected = Len(source) + 1
  BY SourceLines DEF Reading, Collected
<1>2. CASE l.def \in Names /\ Cardinality(DOMAIN labels) < LabelsMax
  <2>1. DOMAIN labels = Before(Len(source) + 1)
    BY <1>1, <1>2 DEF Tabled, Full, Reading
  <2>2. next \in 1 .. (Len(source) + 1) - 1 /\ Defines(next, l.def)
    BY <1>1 DEF Defines
  <2>3. l.def \in DOMAIN labels
    BY <1>2, <2>1, <2>2 DEF Before
  <2> QED
    BY <1>1, <1>2, <2>3, LabelledRoom
<1> QED
  BY <1>1, <1>2, LabelledRoom

-----------------------------------------------------------------------------
(* The invariant.                                                          *)
Known1(n) == \E k \in 1 .. Len(source) : Defines(k, n)

(* What is in the buffer came from lines read, and names labels that are   *)
(* defined somewhere.                                                      *)
Cells ==
  \A a \in DOMAIN code :
    /\ code[a].line < next
    /\ code[a].ref # NoName => Known1(code[a].ref)

(* In pass 1, labels of lines read are where these lines begin.            *)
PlacedBy(table, j) ==
  \A n \in DOMAIN table : \A k \in 1 .. j : Defines(k, n) => table[n] = Place(k)

Placed == pass = 1 /\ result = "none" /\ Unique => PlacedBy(labels, next - 1)

(* The lines read are not refused, and a source with a bad line is.        *)
Judged ==
  /\ pass = 0 /\ result = "none" => \A k \in 1 .. next - 1 : source[k].op # "bad_number"
  /\ pass = 1 /\ result # "error" =>
       \A k \in 1 .. Len(source) : source[k].op # "bad_number" /\ (k < next => ~BadLine(source[k]))
  /\ result = "ok" => pass = 1 /\ next = Len(source) + 1
  /\ result = "error" => \E k \in 1 .. Len(source) : BadLine(source[k])

AsmInv == Shape /\ Tabled /\ Cells /\ Placed /\ BackwardResolved /\ Judged

-----------------------------------------------------------------------------
(* Places.                                                                 *)
LEMMA PlaceIsNat ==
  ASSUME Shape, NEW k
  PROVE  Place(k) \in Nat
<1>1. DOMAIN code = 1 .. Len(code) /\ Len(code) \in Nat
  BY DEF Shape
<1>2. IsFiniteSet(DOMAIN code)
  BY <1>1, FS_Interval
<1>3. {a \in DOMAIN code : code[a].line < k} \in SUBSET DOMAIN code
  OBVIOUS
<1>4. IsFiniteSet({a \in DOMAIN code : code[a].line < k})
  BY <1>2, <1>3, FS_Subset
<1>5. Cardinality({a \in DOMAIN code : code[a].line < k}) \in Nat
  BY <1>4, FS_CardinalityType
<1> QED
  BY <1>5, AsmAssumption DEF Place

LEMMA PlaceHere ==
  ASSUME Shape, Cells, pass = 1
  PROVE  Place(next) = Here
<1>1. DOMAIN code = 1 .. Len(code) /\ Len(code) \in Nat /\ code_len = Len(code)
  BY DEF Shape, TypeOK
<1>2. {a \in DOMAIN code : code[a].line < next} = 1 .. Len(code)
  BY <1>1 DEF Cells
<1>3. Cardinality(1 .. Len(code)) = Len(code)
  <2>1. 1 \in Int /\ Len(code) \in Int
    BY <1>1
  <2>2. Cardinality(1 .. Len(code)) = IF 1 > Len(code) THEN 0 ELSE Len(code) - 1 + 1
    BY <2>1, FS_Interval, Zenon
  <2> QED
    BY <1>1, <2>2
<1>4. Origin + Len(code) = Len(code) + Origin
  BY <1>1, AsmAssumption
<1> QED
  BY <1>1, <1>2, <1>3, <1>4 DEF Place, Here

LEMMA PlaceKept ==
  ASSUME Shape, Cells, NEW l, Grown(code, code', l), NEW k \in Nat, k <= next, next \in Nat
  PROVE  Place(k)' = Place(k)
<1>1. /\ DOMAIN code = 1 .. Len(code) /\ DOMAIN code' = 1 .. Len(code')
      /\ Len(code) \in Nat /\ Len(code') \in Nat /\ Len(code) <= Len(code')
  BY DEF Shape, Grown
<1>2. \A a \in DOMAIN code : a \in DOMAIN code' /\ code'[a] = code[a]
  BY <1>1 DEF Grown
<1>3. \A a \in DOMAIN code' : a \in DOMAIN code \/ code'[a].line = next
  <2>1. \A a \in DOMAIN code' : a \in DOMAIN code \/ a \in Len(code) + 1 .. Len(code')
    BY <1>1
  <2> QED
    BY <2>1 DEF Grown
<1>4. {a \in DOMAIN code' : code'[a].line < k} = {a \in DOMAIN code : code[a].line < k}
  BY <1>2, <1>3
<1> QED
  BY <1>4 DEF Place

(* Where a label is defined, when it is defined once.                      *)
LEMMA DefinedOnce ==
  ASSUME Unique, NEW n \in Names, NEW k \in 1 .. Len(source), Defines(k, n)
  PROVE  DefinedAt(n) = k
<1>1. \A j \in 1 .. Len(source) : Defines(j, n) => j = k
  BY AsmAssumption DEF Unique, Defines
<1> QED
  BY <1>1 DEF DefinedAt

-----------------------------------------------------------------------------
LEMMA AsmStart == Init => AsmInv
<1> SUFFICES ASSUME Init PROVE AsmInv
  OBVIOUS
<1>1. /\ source \in Seq(Lines) /\ pass = 0 /\ next = 1 /\ labels = << >> /\ code_len = 0
      /\ code = << >> /\ result = "none" /\ Len(source) \in Nat
  BY AsmAssumption DEF Init
<1>2. DOMAIN labels = {} /\ DOMAIN code = {} /\ code \in Seq(CellType)
  BY <1>1
<1>3. IsFiniteSet(DOMAIN labels) /\ Cardinality(DOMAIN labels) = 0
  BY <1>2, FS_EmptySet
<1>4. Shape
  <2>1. LabelsMax \in Nat /\ next \in 1 .. Len(source) + 1
    BY <1>1, AsmAssumption
  <2>2. DOMAIN labels \subseteq Names /\ Cardinality(DOMAIN labels) <= LabelsMax
    BY <1>2, <1>3, <2>1
  <2>3. \A n \in DOMAIN labels : labels[n] \in Nat
    BY <1>2
  <2>4. TypeOK
    BY <1>1, <2>1, <2>2, <2>3 DEF TypeOK
  <2> QED
    BY <1>2, <1>3, <2>4 DEF Shape
<1>5. Tabled
  <2>1. Collected = 1
    BY <1>1 DEF Collected
  <2>2. 1 .. 1 - 1 = {}
    OBVIOUS
  <2>3. KnownTo(1) = {} /\ Before(1) = {}
    BY <2>2 DEF KnownTo, Before
  <2> QED
    BY <1>2, <1>3, <2>1, <2>3 DEF Tabled, Full
<1>6. Cells /\ BackwardResolved
  BY <1>2 DEF Cells, BackwardResolved, References
<1>7. Placed /\ Judged
  BY <1>1 DEF Placed, Judged
<1> QED
  BY <1>4, <1>5, <1>6, <1>7 DEF AsmInv

(* What reads neither the source nor the buffer anew.                      *)
LEMMA BufferKept ==
  ASSUME AsmInv, UNCHANGED <<source, code>>, next' = next
  PROVE  Cells' /\ BackwardResolved'
<1>1. Cells'
  BY DEF AsmInv, Cells, Known1, Defines
<1>2. Unique' <=> Unique
  BY DEF Unique
<1>3. References' = References
  BY DEF References
<1>4. ASSUME NEW n PROVE DefinedAt(n)' = DefinedAt(n)
  BY DEF DefinedAt, Defines
<1>5. ASSUME NEW k PROVE Place(k)' = Place(k)
  BY DEF Place
<1>6. ASSUME NEW a PROVE Reaches(a)' <=> Reaches(a)
  BY <1>4, <1>5 DEF Reaches
<1> QED
  BY <1>1, <1>2, <1>3, <1>4, <1>6 DEF AsmInv, BackwardResolved

(* A refusal: only table and result change.                                *)
LEMMA FailKeeps ==
  ASSUME AsmInv, NEW l \in LineType, labels' = Labelled(l), Fail,
         \E k \in 1 .. Len(source) : BadLine(source[k])
  PROVE  AsmInv'
<1>1. /\ result' = "error" /\ UNCHANGED <<source, pass, next, code_len, code>>
      /\ Shape
  BY DEF Fail, AsmInv
<1>2. /\ DOMAIN labels' \subseteq Names /\ IsFiniteSet(DOMAIN labels')
      /\ Cardinality(DOMAIN labels') <= LabelsMax
      /\ \A n \in DOMAIN labels' : labels'[n] \in Nat
  BY <1>1, LabelledTable
<1>3. Shape'
  BY <1>1, <1>2 DEF Shape, TypeOK
<1>4. Cells' /\ BackwardResolved'
  BY <1>1, BufferKept
<1>5. Tabled' /\ Placed'
  BY <1>1 DEF Tabled, Placed
<1>6. Judged'
  <2>1. \A k : BadLine(source[k])' <=> BadLine(source[k])
    BY <1>1 DEF BadLine, Known, Defines
  <2> QED
    BY <1>1, <2>1 DEF Judged
<1> QED
  BY <1>3, <1>4, <1>5, <1>6 DEF AsmInv

LEMMA CountLineKeeps ==
  ASSUME AsmInv, CountLine
  PROVE  AsmInv'
<1> DEFINE l == source[next]
<1>1. /\ Shape /\ Tabled /\ Judged /\ Reading(0) /\ labels' = Labelled(l)
      /\ Len(source) \in Nat /\ next \in 1 .. Len(source) /\ l \in LineType
      /\ pass = 0 /\ result = "none" /\ code = << >>
  BY SourceLines DEF AsmInv, CountLine, Reading, Shape, TypeOK
<1> HIDE DEF l
<1>2. CASE l.op = "bad_number"
  <2>1. Fail
    BY <1>2 DEF CountLine, l
  <2>2. BadLine(source[next])
    BY <1>2 DEF BadLine, l
  <2> QED
    BY <1>1, <2>1, <2>2, FailKeeps
<1>3. CASE l.op # "bad_number"
  <2>1. /\ code_len' = code_len + Counted(l) /\ next' = next + 1
        /\ UNCHANGED <<source, pass, result, code>>
    BY <1>3 DEF CountLine, Advance, l
  <2>2. Counted(l) \in Nat /\ code_len \in Nat
    BY <1>1 DEF Counted, LineType, Shape, TypeOK
  <2>3. /\ DOMAIN labels' \subseteq Names /\ IsFiniteSet(DOMAIN labels')
        /\ Cardinality(DOMAIN labels') <= LabelsMax
        /\ \A n \in DOMAIN labels' : labels'[n] \in Nat
    BY <1>1, LabelledTable
  <2>4. next' \in 1 .. Len(source') + 1 /\ code_len' \in Nat
    BY <1>1, <2>1, <2>2
  <2>5. Shape'
    BY <1>1, <2>1, <2>3, <2>4 DEF Shape, TypeOK
  <2>6. Tabled'
    <3>1. /\ DOMAIN labels' = KnownTo(next + 1)
          /\ Cardinality(DOMAIN labels') < LabelsMax => DOMAIN labels' = Before(next + 1)
          /\ IsFiniteSet(Before(next + 1))
      BY <1>1, CollectLine DEF l
    <3>2. Collected' = next + 1
      BY <1>1, <2>1 DEF Collected
    <3>3. \A j : KnownTo(j)' = KnownTo(j) /\ Before(j)' = Before(j)
      BY <2>1 DEF KnownTo, Before, Roomy, Defines
    <3> QED
      BY <3>1, <3>2, <3>3 DEF Tabled, Full
  <2>7. Cells' /\ BackwardResolved'
    <3>1. code' = << >>
      BY <1>1, <2>1
    <3>2. DOMAIN code' = {}
      BY <3>1
    <3> QED
      BY <3>2 DEF Cells, BackwardResolved, References
  <2>8. Placed'
    BY <1>1, <2>1 DEF Placed
  <2>9. Judged'
    <3>1. \A k \in 1 .. next' - 1 : k \in 1 .. next - 1 \/ k = next
      BY <1>1, <2>1
    <3> QED
      BY <1>1, <1>3, <2>1, <3>1 DEF Judged, l
  <2> QED
    BY <2>5, <2>6, <2>7, <2>8, <2>9 DEF AsmInv
<1> QED
  BY <1>2, <1>3

LEMMA SecondPassKeeps ==
  ASSUME AsmInv, SecondPass
  PROVE  AsmInv'
<1>1. /\ Shape /\ Tabled /\ Judged /\ pass = 0 /\ result = "none" /\ code = << >>
      /\ next > Len(source) /\ pass' = 1 /\ next' = 1 /\ code_len' = 0
      /\ UNCHANGED <<source, labels, code, result>>
  BY DEF AsmInv, SecondPass, Shape, TypeOK
<1>2. Len(source) \in Nat /\ next = Len(source) + 1
  BY <1>1, SourceLines
<1>3. DOMAIN code' = {} /\ Len(code') = 0
  BY <1>1
<1>4. Shape'
  <2>1. CodeMax \in Nat /\ next' \in 1 .. Len(source') + 1
    BY <1>1, <1>2, AsmAssumption
  <2> QED
    BY <1>1, <1>3, <2>1 DEF Shape, TypeOK
<1>5. Tabled'
  <2>1. Collected = Len(source) + 1 /\ Collected' = Len(source) + 1
    BY <1>1, <1>2 DEF Collected
  <2>2. \A j : KnownTo(j)' = KnownTo(j) /\ Before(j)' = Before(j)
    BY <1>1 DEF KnownTo, Before, Roomy, Defines
  <2> QED
    BY <1>1, <2>1, <2>2 DEF Tabled, Full
<1>6. Cells' /\ BackwardResolved'
  BY <1>3 DEF Cells, BackwardResolved, References
<1>7. Placed'
  <2>1. \A k : k \notin 1 .. next' - 1
    BY <1>1
  <2> QED
    BY <2>1 DEF Placed, PlacedBy
<1>8. Judged'
  <2>1. \A k \in 1 .. Len(source) : k \in 1 .. next - 1
    BY <1>2
  <2>2. \A k \in 1 .. Len(source) : ~(k < next')
    BY <1>1, <1>2
  <2> QED
    BY <1>1, <2>1, <2>2 DEF Judged
<1> QED
  BY <1>4, <1>5, <1>6, <1>7, <1>8 DEF AsmInv

LEMMA ReturnKeeps ==
  ASSUME AsmInv, Return
  PROVE  AsmInv'
<1>1. /\ Shape /\ Judged /\ pass = 1 /\ result = "none" /\ result' = "ok"
      /\ next > Len(source)
      /\ UNCHANGED <<source, pass, next, labels, code_len, code>>
  BY DEF AsmInv, Return
<1>2. Len(source) \in Nat /\ next = Len(source) + 1
  BY <1>1, SourceLines
<1>3. Shape'
  BY <1>1 DEF Shape, TypeOK
<1>4. Tabled' /\ Placed'
  BY <1>1 DEF Tabled, Placed
<1>5. Cells' /\ BackwardResolved'
  BY <1>1, BufferKept
<1>6. Judged'
  <2>1. \A k : BadLine(source[k])' <=> BadLine(source[k])
    BY <1>1 DEF BadLine, Known, Defines
  <2> QED
    BY <1>1, <1>2, <2>1 DEF Judged
<1> QED
  BY <1>3, <1>4, <1>5, <1>6 DEF AsmInv

(* The table a line's statement sees is right about every line so far, its *)
(* own included.                                                           *)
LEMMA LabelledPlaced ==
  ASSUME AsmInv, Reading(1), NEW l, l = source[next], Unique
  PROVE  PlacedBy(Labelled(l), next)
<1>1. /\ Shape /\ Cells /\ PlacedBy(labels, next - 1) /\ pass = 1
      /\ next \in Nat /\ next \in 1 .. Len(source) /\ Len(source) \in Nat /\ l \in LineType
  BY SourceLines DEF AsmInv, Placed, Reading
<1> SUFFICES ASSUME NEW n \in DOMAIN Labelled(l), NEW k \in 1 .. next, Defines(k, n)
             PROVE  Labelled(l)[n] = Place(k)
  BY DEF PlacedBy
<1>2. /\ n \in Names /\ n \in DOMAIN labels \union {l.def}
      /\ Labelled(l)[n] = IF n = l.def THEN Here ELSE labels[n]
  BY <1>1, LabelledTable
<1>3. CASE k = next
  <2>1. n = l.def
    BY <1>3 DEF Defines
  <2> QED
    BY <1>1, <1>2, <1>3, <2>1, PlaceHere
<1>4. CASE k # next
  <2>1. k \in 1 .. next - 1 /\ k \in 1 .. Len(source)
    BY <1>1, <1>4
  <2>2. n # l.def
    BY <1>1, <1>2, <1>4, <2>1, AsmAssumption DEF Unique, Defines
  <2>3. n \in DOMAIN labels /\ Labelled(l)[n] = labels[n]
    BY <1>2, <2>2
  <2> QED
    BY <1>1, <2>1, <2>3 DEF PlacedBy
<1> QED
  BY <1>3, <1>4

(* A line that emits.                                                      *)
LEMMA AdvanceKeeps ==
  ASSUME AsmInv, Reading(1), NEW l, l = source[next],
         labels' = Labelled(l), code' = Emitted(l, labels'), code_len' = Len(code'),
         Advance, l.op # "unknown", l.op # "bad_number", ~Missing(l, labels')
  PROVE  AsmInv'
<1>1. /\ Shape /\ Tabled /\ Cells /\ BackwardResolved /\ Judged
      /\ pass = 1 /\ pass # 0 /\ result = "none" /\ next \in 1 .. Len(source)
      /\ next \in Nat /\ Len(source) \in Nat /\ l \in LineType
      /\ l.op \in {"branch", "jump"} => l.ref # NoName
      /\ next' = next + 1 /\ UNCHANGED <<source, pass, result>>
  BY SourceLines DEF AsmInv, Reading, Advance
<1>2. /\ DOMAIN labels' \subseteq Names /\ IsFiniteSet(DOMAIN labels')
      /\ Cardinality(DOMAIN labels') <= LabelsMax
      /\ \A n \in DOMAIN labels' : labels'[n] \in Nat
  BY <1>1, LabelledTable
<1>3. DOMAIN labels' = DOMAIN labels /\ DOMAIN labels = KnownTo(Len(source) + 1)
  BY <1>1, NothingNew DEF Tabled, Collected
<1>4. l.ref # NoName => l.ref \in DOMAIN labels' /\ l.ref \in Names /\ Known1(l.ref)
  <2>1. l.ref # NoName => l.ref \in DOMAIN labels'
    BY DEF Missing
  <2>2. \A n \in KnownTo(Len(source) + 1) : n \in Names /\ Known1(n)
    BY <1>1 DEF KnownTo, Known1
  <2> QED
    BY <1>3, <2>1, <2>2
<1>5. /\ Grown(code, code', l)
      /\ l.ref # NoName => \A a \in Len(code) + 1 .. Len(code') : Holds(a, code'[a], labels'[l.ref])
  <2>1. l.ref # NoName => Labelled(l)[l.ref] \in Nat
    BY <1>2, <1>4
  <2>2. code' = Emitted(l, Labelled(l))
    OBVIOUS
  <2> QED
    BY <1>1, <2>1, <2>2, EmittedHolds
<1>6. /\ code' \in Seq(CellType) /\ DOMAIN code = 1 .. Len(code) /\ DOMAIN code' = 1 .. Len(code')
      /\ Len(code) \in Nat /\ Len(code') \in Nat /\ Len(code') <= CodeMax
      /\ code \in Seq(CellType)
  BY <1>1, <1>5 DEF Grown, Shape
<1>7. \A a \in DOMAIN code : a \in DOMAIN code' /\ code'[a] = code[a]
  BY <1>5, <1>6 DEF Grown
<1>8. \A a \in DOMAIN code' :
        \/ a \in DOMAIN code
        \/ a \in Len(code) + 1 .. Len(code') /\ code'[a].line = next /\ code'[a].ref = l.ref
  <2>1. \A a \in DOMAIN code' : a \in DOMAIN code \/ a \in Len(code) + 1 .. Len(code')
    BY <1>6
  <2> QED
    BY <1>5, <2>1 DEF Grown
<1>9. Shape'
  <2>1. next' \in 1 .. Len(source') + 1
    BY <1>1
  <2> QED
    BY <1>1, <1>2, <1>6, <2>1 DEF Shape, TypeOK
<1>10. Tabled'
  <2>1. Collected' = Len(source) + 1 /\ Collected = Len(source) + 1
    BY <1>1 DEF Collected
  <2>2. \A j : KnownTo(j)' = KnownTo(j) /\ Before(j)' = Before(j)
    BY <1>1 DEF KnownTo, Before, Roomy, Defines
  <2> QED
    BY <1>1, <1>3, <2>1, <2>2 DEF Tabled, Full
<1>11. Cells'
  <2>1. ASSUME NEW n PROVE Known1(n)' <=> Known1(n)
    <3>1. UNCHANGED source
      BY <1>1
    <3> QED
      BY <3>1 DEF Known1, Defines
  <2>2. \A a \in DOMAIN code : code[a].line \in Nat
    <3>1. \A a \in DOMAIN code : code[a] \in CellType
      BY <1>6
    <3> QED
      BY <3>1 DEF CellType
  <2>3. ASSUME NEW a \in DOMAIN code'
        PROVE  code'[a].line < next' /\ (code'[a].ref # NoName => Known1(code'[a].ref))
    <3>1. CASE a \in DOMAIN code
      BY <1>1, <1>7, <2>2, <3>1 DEF Cells
    <3>2. CASE code'[a].line = next /\ code'[a].ref = l.ref
      BY <1>1, <1>4, <3>2
    <3> QED
      BY <1>8, <3>1, <3>2
  <2> QED
    BY <2>1, <2>3 DEF Cells
<1>12. \A n \in DOMAIN labels' : \A k \in 1 .. next : Unique /\ Defines(k, n) => labels'[n] = Place(k)
  BY LabelledPlaced DEF PlacedBy
<1>13. \A k \in 1 .. next : Place(k)' = Place(k)
  BY <1>1, <1>5, PlaceKept
<1>14. Unique' <=> Unique
  BY <1>1 DEF Unique
<1>15. Placed'
  <2>1. next' - 1 = next
    BY <1>1
  <2>2. \A k, n : Defines(k, n)' <=> Defines(k, n)
    BY <1>1 DEF Defines
  <2> QED
    BY <1>12, <1>13, <1>14, <2>1, <2>2 DEF Placed, PlacedBy
<1>16. BackwardResolved'
  <2>1. ASSUME NEW n PROVE DefinedAt(n)' = DefinedAt(n)
    BY <1>1 DEF DefinedAt, Defines
  <2> SUFFICES ASSUME Unique, NEW a \in DOMAIN code', NEW n, n = code'[a].ref, n # NoName,
                      NEW k, k = DefinedAt(n), code'[a].line >= k
               PROVE  Reaches(a)'
    BY <1>14, <2>1 DEF BackwardResolved, References
  <2>2. code'[a] \in CellType
    BY <1>6
  <2>3. n \in Names /\ Known1(n)
    <3>1. n \in Names
      BY <2>2 DEF CellType
    <3>2. a \in DOMAIN code => Known1(n)
      BY <1>1, <1>7 DEF Cells
    <3> QED
      BY <1>4, <1>8, <3>1, <3>2
  <2>4. k \in 1 .. Len(source) /\ Defines(k, n)
    BY <2>3, DefinedOnce DEF Known1
  <2>5. code'[a].line \in Nat /\ code'[a].line <= next
    <3>1. code'[a].line < next + 1
      BY <1>1, <1>11 DEF Cells
    <3> QED
      BY <1>1, <2>2, <3>1 DEF CellType
  <2>6. k \in 1 .. next /\ k \in Nat
    BY <1>1, <2>4, <2>5
  <2>7. Place(k)' = Place(k)
    BY <1>13, <2>6
  <2>8. Holds(a, code'[a], Place(k)) => Reaches(a)'
    <3>1. Place(DefinedAt(code[a].ref))' = Place(k)
      BY <2>1, <2>7
    <3> QED
      BY <3>1 DEF Holds, Reaches
  <2>9. CASE a \in DOMAIN code
    <3>1. code'[a] = code[a] /\ a \in References
      BY <1>7, <2>9 DEF References
    <3>2. Reaches(a)
      BY <1>1, <3>1 DEF BackwardResolved
    <3>3. Holds(a, code'[a], Place(k))
      BY <3>1, <3>2 DEF Holds, Reaches
    <3> QED
      BY <2>8, <3>3
  <2>10. CASE a \in Len(code) + 1 .. Len(code') /\ n = l.ref
    <3>1. Holds(a, code'[a], labels'[n]) /\ n \in DOMAIN labels'
      BY <1>4, <1>5, <2>10
    <3>2. labels'[n] = Place(k)
      BY <1>12, <2>4, <2>6, <3>1
    <3> QED
      BY <2>8, <3>1, <3>2
  <2> QED
    BY <1>8, <2>9, <2>10
<1>17. Judged'
  <2>1. \A j : BadLine(source[j])' <=> BadLine(source[j])
    BY <1>1 DEF BadLine, Known, Defines
  <2>2. Known = KnownTo(Len(source) + 1)
    <3>1. (Len(source) + 1) - 1 = Len(source)
      BY <1>1
    <3> QED
      BY <3>1 DEF Known, KnownTo, Roomy
  <2>3. ~BadLine(l)
    BY <1>3, <1>4, <2>2 DEF BadLine
  <2>4. \A j \in 1 .. Len(source) : j < next' => j < next \/ j = next
    BY <1>1
  <2> QED
    BY <1>1, <2>1, <2>3, <2>4 DEF Judged
<1> QED
  BY <1>9, <1>10, <1>11, <1>15, <1>16, <1>17 DEF AsmInv

LEMMA EmitLineKeeps ==
  ASSUME AsmInv, EmitLine
  PROVE  AsmInv'
<1> DEFINE l == source[next]
           refused == l.op \in {"unknown", "bad_number"} \/ Missing(l, Labelled(l))
<1>1. /\ Shape /\ Tabled /\ Reading(1) /\ labels' = Labelled(l)
      /\ next \in 1 .. Len(source) /\ Len(source) \in Nat /\ l \in LineType /\ pass # 0
  BY SourceLines DEF AsmInv, EmitLine, Reading
<1>2. IF refused THEN Fail
      ELSE code' = Emitted(l, Labelled(l)) /\ code_len' = Len(code') /\ Advance
  BY DEF EmitLine
<1>3. CASE refused
  <2>1. Known = DOMAIN Labelled(l)
    <3>1. DOMAIN Labelled(l) = KnownTo(Len(source) + 1)
      BY <1>1, NothingNew DEF Tabled, Collected, Reading
    <3>2. (Len(source) + 1) - 1 = Len(source)
      BY <1>1
    <3> QED
      BY <3>1, <3>2 DEF Known, KnownTo, Roomy
  <2>2. BadLine(l)
    BY <1>3, <2>1 DEF BadLine, Missing
  <2>3. Fail
    BY <1>2, <1>3
  <2> QED
    BY <1>1, <2>2, <2>3, FailKeeps
<1>4. CASE ~refused
  <2>1. /\ code' = Emitted(l, labels') /\ code_len' = Len(code') /\ Advance
        /\ l.op # "unknown" /\ l.op # "bad_number" /\ ~Missing(l, labels')
    BY <1>1, <1>2, <1>4
  <2> HIDE DEF refused
  <2> QED
    BY <1>1, <2>1, AdvanceKeeps
<1> QED
  BY <1>3, <1>4

LEMMA AsmNext == AsmInv /\ [Next]_vars => AsmInv'
<1> SUFFICES ASSUME AsmInv, [Next]_vars PROVE AsmInv'
  OBVIOUS
<1>1. CASE UNCHANGED vars
  <2>1. UNCHANGED <<source, pass, next, labels, code_len, code, result>>
    BY <1>1 DEF vars
  <2>2. Shape' /\ Tabled'
    <3>1. Shape'
      BY <2>1 DEF AsmInv, Shape, TypeOK
    <3>2. ASSUME NEW j PROVE KnownTo(j)' = KnownTo(j) /\ Before(j)' = Before(j)
      BY <2>1 DEF KnownTo, Before, Roomy, Defines
    <3>3. Collected' = Collected
      BY <2>1 DEF Collected
    <3> QED
      BY <2>1, <3>1, <3>2, <3>3 DEF AsmInv, Tabled, Full
  <2>5. Placed'
    <3>1. ASSUME NEW k PROVE Place(k)' = Place(k)
      BY <2>1 DEF Place
    <3>2. Unique' <=> Unique
      BY <2>1 DEF Unique
    <3> QED
      BY <2>1, <3>1, <3>2 DEF AsmInv, Placed, PlacedBy, Defines
  <2>3. Cells' /\ BackwardResolved'
    BY <2>1, BufferKept
  <2>4. Judged'
    <3>1. ASSUME NEW k PROVE BadLine(source[k])' <=> BadLine(source[k])
      BY <2>1 DEF BadLine, Known, Defines
    <3> QED
      BY <2>1, <3>1 DEF AsmInv, Judged
  <2> QED
    BY <2>2, <2>3, <2>4, <2>5 DEF AsmInv
<1> QED
  BY <1>1, CountLineKeeps, SecondPassKeeps, EmitLineKeeps, ReturnKeeps DEF Next

(* What both passes keep true.                                             *)
THEOREM AsmCorrect == Spec => []AsmInv
BY AsmStart, AsmNext, PTL DEF Spec

(* Whatever the source, the output stays in its buffer and the table in    *)
(* its size.                                                               *)
THEOREM AsmTypeCorrect == Spec => []TypeOK
<1>1. AsmInv => TypeOK
  BY DEF AsmInv, Shape
<1> QED
  BY <1>1, AsmCorrect, PTL

(* References to labels that are already defined are right, in every       *)
(* source, although the passes disagree about sizes.                       *)
THEOREM BackwardReferences == Spec => []BackwardResolved
<1>1. AsmInv => BackwardResolved
  BY DEF AsmInv
<1> QED
  BY <1>1, AsmCorrect, PTL

LEMMA AsmRefuses == AsmInv => RefusedExactly
<1> SUFFICES ASSUME AsmInv, result # "none"
             PROVE  (result = "error") = \E k \in 1 .. Len(source) : BadLine(source[k])
  BY DEF RefusedExactly
<1>1. Judged /\ result \in {"none", "ok", "error"} /\ Len(source) \in Nat
  BY SourceLines DEF AsmInv, Shape, TypeOK
<1>2. CASE result = "error"
  BY <1>1, <1>2 DEF Judged
<1>3. CASE result = "ok"
  <2>1. pass = 1 /\ \A k \in 1 .. Len(source) : k < next
    BY <1>1, <1>3 DEF Judged
  <2>2. \A k \in 1 .. Len(source) : ~BadLine(source[k])
    BY <1>1, <1>3, <2>1 DEF Judged
  <2> QED
    BY <1>3, <2>2
<1> QED
  BY <1>1, <1>2, <1>3

(* A source is refused exactly when a line is bad or names a label that is *)
(* not defined or found no room.                                           *)
THEOREM RefusalsAreExact == Spec => []RefusedExactly
BY AsmRefuses, AsmCorrect, PTL

-----------------------------------------------------------------------------
(* A set of numbers with 0 and every successor is all of them: induction,  *)
(* stated of a set and proved from its least missing element.              *)
LEMMA NatSets ==
  ASSUME NEW S, 0 \in S, \A n \in Nat : n \in S => n + 1 \in S
  PROVE  Nat \subseteq S
<1> DEFINE R == {ss \in Nat \X Nat : ss[1] < ss[2]}
           T == Nat \ S
<1> SUFFICES ASSUME T # {} PROVE FALSE
  OBVIOUS
<1>1. IsWellFoundedOn(R, Nat)
  BY NatLessThanWellFounded, Zenon DEF OpToRel
<1>2. T \in SUBSET Nat
  OBVIOUS
<1> HIDE DEF R, T
<1>3. PICK x \in T : \A y \in T : ~(<<y, x>> \in R)
  BY <1>1, <1>2, WFMin, Zenon
<1>4. x \in Nat /\ x \notin S /\ x # 0
  BY <1>3 DEF T
<1>5. x - 1 \in Nat /\ x - 1 \in T
  BY <1>4 DEF T
<1>6. <<x - 1, x>> \in R
  BY <1>4, <1>5 DEF R
<1> QED
  BY <1>3, <1>5, <1>6

(* The sums of c from o on: there is such a function, for every length.    *)
Sums(f, o, c, m) == f = [k \in 1 .. m + 1 |-> IF k = 1 THEN o ELSE f[k - 1] + c[k - 1]]

LEMMA SumsExist ==
  ASSUME NEW o, NEW c, NEW m \in Nat
  PROVE  \E f : Sums(f, o, c, m)
<1> DEFINE S == {n \in Nat : \E f : Sums(f, o, c, n)}
<1>1. 0 \in S
  <2> DEFINE f == [k \in 1 .. 0 + 1 |-> o]
  <2>1. Sums(f, o, c, 0)
    <3>1. \A k \in 1 .. 0 + 1 : k = 1
      OBVIOUS
    <3> QED
      BY <3>1 DEF Sums
  <2> HIDE DEF f
  <2> QED
    BY <2>1
<1>2. ASSUME NEW n \in Nat, n \in S
      PROVE  n + 1 \in S
  <2>1. PICK f : Sums(f, o, c, n)
    BY <1>2
  <2> DEFINE g == [k \in 1 .. (n + 1) + 1 |-> IF k = n + 2 THEN f[n + 1] + c[n + 1] ELSE f[k]]
             h == [k \in 1 .. (n + 1) + 1 |-> IF k = 1 THEN o ELSE g[k - 1] + c[k - 1]]
  <2>2. ASSUME NEW k \in 1 .. (n + 1) + 1
        PROVE  g[k] = h[k]
    <3>1. CASE k = n + 2
      <4>1. k # 1 /\ k - 1 = n + 1 /\ n + 1 # n + 2 /\ n + 1 \in 1 .. (n + 1) + 1
        BY <3>1
      <4>2. g[n + 1] = f[n + 1]
        BY <4>1
      <4>3. g[k] = f[n + 1] + c[n + 1] /\ h[k] = g[k - 1] + c[k - 1]
        BY <3>1, <4>1
      <4> QED
        BY <4>1, <4>2, <4>3
    <3>2. CASE k # n + 2 /\ k # 1
      <4>1. k \in 1 .. n + 1 /\ k - 1 \in 1 .. (n + 1) + 1 /\ k - 1 # n + 2
        BY <3>2
      <4>2. f[k] = f[k - 1] + c[k - 1]
        BY <2>1, <3>2, <4>1 DEF Sums
      <4>3. g[k] = f[k] /\ g[k - 1] = f[k - 1] /\ h[k] = g[k - 1] + c[k - 1]
        BY <3>2, <4>1
      <4> QED
        BY <4>2, <4>3
    <3>3. CASE k = 1
      <4>1. k \in 1 .. n + 1 /\ k # n + 2
        BY <3>3
      <4>2. f[k] = o
        BY <2>1, <3>3, <4>1 DEF Sums
      <4> QED
        BY <3>3, <4>1, <4>2
    <3> QED
      BY <3>1, <3>2, <3>3
  <2>3. g = h
    BY <2>2
  <2>4. Sums(g, o, c, n + 1)
    BY <2>3 DEF Sums
  <2> HIDE DEF g
  <2> QED
    BY <2>4
<1> HIDE DEF S
<1>3. Nat \subseteq S
  BY <1>1, <1>2, NatSets
<1> QED
  BY <1>3 DEF S

(* What such sums are, when every c is a number: they never decrease.      *)
LEMMA SumsGrow ==
  ASSUME NEW o \in Nat, NEW c, NEW m \in Nat, NEW f, Sums(f, o, c, m),
         \A k \in 1 .. m : c[k] \in Nat
  PROVE  /\ f[1] = o
         /\ \A k \in 1 .. m : f[k + 1] = f[k] + c[k]
         /\ \A k \in 1 .. m + 1 : f[k] \in Nat
         /\ \A j, k \in 1 .. m + 1 : j <= k => f[j] <= f[k]
<1> DEFINE S == {n \in Nat : n <= m => /\ f[n + 1] \in Nat
                                       /\ \A j \in 1 .. n + 1 : f[j] \in Nat /\ f[j] <= f[n + 1]}
<1>1. f[1] = o
  BY DEF Sums
<1>2. ASSUME NEW k \in 1 .. m
      PROVE  f[k + 1] = f[k] + c[k]
  <2>1. k + 1 \in 1 .. m + 1 /\ k + 1 # 1 /\ (k + 1) - 1 = k
    OBVIOUS
  <2> QED
    BY <2>1 DEF Sums
<1>3. 0 \in S
  BY <1>1
<1>4. ASSUME NEW n \in Nat, n \in S
      PROVE  n + 1 \in S
  <2> SUFFICES ASSUME n + 1 <= m
               PROVE  /\ f[(n + 1) + 1] \in Nat
                      /\ \A j \in 1 .. (n + 1) + 1 : f[j] \in Nat /\ f[j] <= f[(n + 1) + 1]
    OBVIOUS
  <2>1. f[n + 1] \in Nat /\ \A j \in 1 .. n + 1 : f[j] \in Nat /\ f[j] <= f[n + 1]
    BY <1>4
  <2>2. n + 1 \in 1 .. m
    OBVIOUS
  <2>3. f[(n + 1) + 1] = f[n + 1] + c[n + 1] /\ c[n + 1] \in Nat
    BY <1>2, <2>2
  <2>4. f[(n + 1) + 1] \in Nat /\ f[n + 1] <= f[(n + 1) + 1]
    BY <2>1, <2>3
  <2>5. ASSUME NEW j \in 1 .. (n + 1) + 1
        PROVE  f[j] \in Nat /\ f[j] <= f[(n + 1) + 1]
    <3>1. j \in 1 .. n + 1 \/ j = (n + 1) + 1
      OBVIOUS
    <3> QED
      BY <2>1, <2>4, <3>1
  <2> QED
    BY <2>4, <2>5
<1> HIDE DEF S
<1>5. Nat \subseteq S
  BY <1>3, <1>4, NatSets
<1>6. ASSUME NEW k \in 1 .. m + 1
      PROVE  f[k] \in Nat /\ \A j \in 1 .. k : f[j] <= f[k]
  <2>1. k - 1 \in Nat /\ k - 1 <= m /\ (k - 1) + 1 = k
    OBVIOUS
  <2>2. k - 1 \in S
    BY <1>5, <2>1
  <2> QED
    BY <2>1, <2>2 DEF S
<1> QED
  BY <1>1, <1>2, <1>6

-----------------------------------------------------------------------------
(* Start is what its definition says: the sums of what pass 0 counts.      *)
LEMMA StartSums ==
  ASSUME Shape
  PROVE  /\ Start[1] = Origin
         /\ \A k \in 1 .. Len(source) : /\ Counted(source[k]) \in Nat
                                        /\ Start[k + 1] = Start[k] + Counted(source[k])
         /\ \A k \in 1 .. Len(source) + 1 : Start[k] \in Nat
         /\ \A j, k \in 1 .. Len(source) + 1 : j <= k => Start[j] <= Start[k]
<1> DEFINE m == Len(source)
           c == [k \in 1 .. m |-> Counted(source[k])]
<1>1. m \in Nat /\ Origin \in Nat /\ \A k \in 1 .. m : source[k] \in LineType
  BY SourceLines, AsmAssumption
<1>2. \A k \in 1 .. m : c[k] = Counted(source[k]) /\ Counted(source[k]) \in Nat
  BY <1>1 DEF Counted, LineType
<1> HIDE DEF c
<1>3. ASSUME NEW f
      PROVE  Sums(f, Origin, c, m) <=>
               f = [k \in 1 .. Len(source) + 1 |->
                      IF k = 1 THEN Origin ELSE f[k - 1] + Counted(source[k - 1])]
  <2>1. \A k \in 1 .. m + 1 : k # 1 => k - 1 \in 1 .. m
    BY <1>1
  <2>2. \A k \in 1 .. m + 1 : k # 1 => c[k - 1] = Counted(source[k - 1])
    BY <1>2, <2>1
  <2>3. [k \in 1 .. m + 1 |-> IF k = 1 THEN Origin ELSE f[k - 1] + c[k - 1]] =
        [k \in 1 .. m + 1 |-> IF k = 1 THEN Origin ELSE f[k - 1] + Counted(source[k - 1])]
    BY <2>2
  <2> QED
    BY <2>3 DEF Sums
<1>4. PICK f : Sums(f, Origin, c, m)
  BY <1>1, SumsExist
<1>5. Start = [k \in 1 .. Len(source) + 1 |->
                 IF k = 1 THEN Origin ELSE Start[k - 1] + Counted(source[k - 1])]
  <2>1. \E g : g = [k \in 1 .. Len(source) + 1 |->
                      IF k = 1 THEN Origin ELSE g[k - 1] + Counted(source[k - 1])]
    BY <1>3, <1>4, Zenon
  <2> QED
    BY <2>1, Zenon DEF Start
<1>6. Sums(Start, Origin, c, m)
  BY <1>3, <1>5
<1>7. /\ Start[1] = Origin
      /\ \A k \in 1 .. m : Start[k + 1] = Start[k] + c[k]
      /\ \A k \in 1 .. m + 1 : Start[k] \in Nat
      /\ \A j, k \in 1 .. m + 1 : j <= k => Start[j] <= Start[k]
  <2>1. \A k \in 1 .. m : c[k] \in Nat
    BY <1>2
  <2> HIDE DEF m
  <2> QED
    BY <1>1, <1>6, <2>1, SumsGrow, Zenon
<1> QED
  BY <1>2, <1>7

(* How much a statement emits when there is room for it.                   *)
LEMMA Put4Emits ==
  ASSUME NEW c \in Seq(CellType), Len(c) + 4 <= CodeMax, NEW l \in LineType,
         NEW op \in OutOps, NEW v \in Int, next \in Nat
  PROVE  Len(Put4(c, l, op, v)) = Len(c) + 4
<1> DEFINE four == <<Cell(l, op, v), Byte(l), Byte(l), Byte(l)>>
<1>1. four \in Seq(CellType) /\ Len(four) = 4
  BY CellIsCell, ByteIsCell
<1>2. Put4(c, l, op, v) = c \o four
  BY DEF Put4
<1> HIDE DEF four
<1>3. Len(c \o four) = Len(c) + Len(four)
  BY <1>1, ConcatProperties, Zenon
<1> QED
  BY <1>1, <1>2, <1>3

LEMMA PutBytesEmits ==
  ASSUME NEW c \in Seq(CellType), NEW l \in LineType, NEW n \in Nat, Len(c) + n <= CodeMax,
         next \in Nat
  PROVE  Len(PutBytes(c, l, n)) = Len(c) + n
<1> DEFINE bytes == [k \in 1 .. n |-> Byte(l)]
<1>1. Len(c) \in Nat /\ CodeMax \in Nat /\ n <= CodeMax - Len(c)
  BY AsmAssumption
<1>2. PutBytes(c, l, n) = c \o bytes
  BY <1>1 DEF PutBytes
<1>3. bytes \in Seq(CellType) /\ Len(bytes) = n
  BY ByteIsCell
<1> HIDE DEF bytes
<1>4. Len(c \o bytes) = Len(c) + Len(bytes)
  BY <1>3, ConcatProperties, Zenon
<1> QED
  BY <1>2, <1>3, <1>4

(* A value with one half takes one instruction.                            *)
LEMMA HalvesEmit ==
  ASSUME NEW c \in Seq(CellType), Len(c) + 4 <= CodeMax, NEW l \in LineType,
         NEW v \in Nat, OneHalf(v), next \in Nat
  PROVE  Len(PutHalves(c, l, v)) = Len(c) + 4
<1> DEFINE upper == (v \div HalfBase) % HalfBase
           lower == v % HalfBase
<1>1. upper \in Int /\ lower \in Int /\ "lui" \in OutOps /\ "ori" \in OutOps
  BY AsmAssumption DEF OutOps
<1>2. upper = 0 \/ lower = 0
  BY DEF OneHalf
<1>3. PutHalves(c, l, v) = IF upper = 0 THEN Put4(c, l, "ori", lower) ELSE Put4(c, l, "lui", upper)
  BY <1>2 DEF PutHalves
<1> HIDE DEF upper, lower
<1> QED
  BY <1>1, <1>3, Put4Emits

(* A line of a steady source emits what pass 0 counted for it.             *)
LEMMA EmitsCounted ==
  ASSUME Shape, Reading(1), NEW l \in LineType, l.op # "unknown", l.op # "bad_number",
         l.op # "byte", Len(code) + Counted(l) <= CodeMax,
         NEW table, l.ref # NoName => table[l.ref] \in Nat,
         l.op \in {"branch", "jump"} => l.ref # NoName,
         l.op = "li" => OneHalf(IF l.ref = NoName THEN l.num ELSE table[l.ref])
  PROVE  Len(Emitted(l, table)) = Len(code) + Counted(l)
<1>1. code \in Seq(CellType) /\ Len(code) \in Nat /\ next \in Nat /\ l.num \in Nat
  BY SourceLines DEF Shape, LineType
<1>2. CASE l.op = "blank"
  BY <1>1, <1>2 DEF Emitted, Counted
<1>3. CASE l.op \in {"string", "space"}
  <2>1. Counted(l) = l.num /\ Emitted(l, table) = PutBytes(code, l, l.num)
    BY <1>3 DEF Counted, Emitted
  <2> QED
    BY <1>1, <2>1, PutBytesEmits
<1>4. CASE l.op \in {"word", "plain"}
  <2>1. Counted(l) = 4 /\ Emitted(l, table) = Put4(code, l, l.op, 0) /\ l.op \in OutOps
    BY <1>4 DEF Counted, Emitted, OutOps
  <2> QED
    BY <1>1, <2>1, Put4Emits
<1>5. CASE l.op = "li"
  <2> DEFINE v == IF l.ref = NoName THEN l.num ELSE table[l.ref]
  <2>1. Counted(l) = 4 /\ Emitted(l, table) = PutHalves(code, l, v)
    BY <1>5 DEF Counted, Emitted
  <2>2. v \in Nat /\ OneHalf(v)
    BY <1>1, <1>5
  <2> HIDE DEF v
  <2> QED
    BY <1>1, <2>1, <2>2, HalvesEmit
<1>6. CASE l.op = "branch"
  <2>1. Counted(l) = 4 /\ Emitted(l, table) = Put4(code, l, "branch", Offset(table[l.ref]))
    BY <1>6 DEF Counted, Emitted
  <2>2. Offset(table[l.ref]) \in Int /\ "branch" \in OutOps
    <3>1. table[l.ref] \in Nat /\ Here \in Nat
      BY <1>6, AsmAssumption DEF Here, Shape, TypeOK
    <3> QED
      BY <3>1, AsmAssumption DEF Offset, ToImmediate, OutOps
  <2> HIDE DEF Offset
  <2> QED
    BY <1>1, <2>1, <2>2, Put4Emits
<1>7. CASE l.op = "jump"
  <2>1. Counted(l) = 4 /\ Emitted(l, table) = Put4(code, l, "jump", table[l.ref] \div 4)
    BY <1>7 DEF Counted, Emitted
  <2>2. table[l.ref] \div 4 \in Int /\ "jump" \in OutOps
    BY <1>7 DEF OutOps
  <2> QED
    BY <1>1, <2>1, <2>2, Put4Emits
<1>8. l.op \in {"blank", "string", "space", "word", "plain", "li", "branch", "jump"}
  BY DEF LineType, Ops
<1> QED
  BY <1>2, <1>3, <1>4, <1>5, <1>6, <1>7, <1>8

-----------------------------------------------------------------------------
(* The labels of the first j lines are where pass 0 puts these lines.      *)
FromStart(j) == \A n \in DOMAIN labels : \A k \in 1 .. j : Defines(k, n) => labels[n] = Start[k]

(* Pass 0 is where it counts to be; and pass 1, in a steady source, begins *)
(* every line there, so that a label means the same place in both.         *)
SteadyInv ==
  /\ pass = 0 /\ result = "none" =>
       Here = Start[next] /\ (Unique => FromStart(next - 1))
  /\ pass = 1 /\ result # "error" /\ Steady =>
       /\ Here = Start[next]
       /\ FromStart(Len(source))
       /\ \A k \in 1 .. next : Place(k) = Start[k]
       /\ \A a \in References : Holds(a, code[a], Start[DefinedAt(code[a].ref)])

LEMMA SameSource ==
  ASSUME UNCHANGED source
  PROVE  /\ Start' = Start /\ (Unique' <=> Unique) /\ (Steady' <=> Steady)
         /\ \A n : DefinedAt(n)' = DefinedAt(n)
         /\ \A k, n : Defines(k, n)' <=> Defines(k, n)
<1>1. Start' = Start
  BY DEF Start
<1>2. Unique' <=> Unique
  BY DEF Unique
<1>3. /\ \A n : DefinedAt(n)' = DefinedAt(n)
      /\ \A k, n : Defines(k, n)' <=> Defines(k, n)
  BY DEF DefinedAt, Defines
<1>4. \A l : Constant(l)' = Constant(l)
  BY <1>1, <1>3 DEF Constant
<1>5. Steady' <=> Steady
  BY <1>1, <1>2, <1>4 DEF Steady
<1> QED
  BY <1>1, <1>2, <1>3, <1>5

(* A line's own label, entered here, is where pass 0 puts the line.        *)
LEMMA LabelledStart ==
  ASSUME Shape, Unique, Here = Start[next], NEW l, l = source[next],
         next \in 1 .. Len(source), NEW j \in Nat, j <= Len(source), FromStart(j)
  PROVE  \A n \in DOMAIN Labelled(l) : \A k \in 1 .. Len(source) :
           (k <= j \/ k = next) /\ Defines(k, n) => Labelled(l)[n] = Start[k]
<1>1. Len(source) \in Nat /\ l \in LineType
  BY SourceLines
<1> SUFFICES ASSUME NEW n \in DOMAIN Labelled(l), NEW k \in 1 .. Len(source),
                    k <= j \/ k = next, Defines(k, n)
             PROVE  Labelled(l)[n] = Start[k]
  OBVIOUS
<1>2. /\ n \in Names /\ n \in DOMAIN labels \union {l.def}
      /\ Labelled(l)[n] = IF n = l.def THEN Here ELSE labels[n]
  BY <1>1, LabelledTable
<1>3. CASE n = l.def
  <2>1. k = next
    BY <1>2, <1>3, AsmAssumption DEF Unique, Defines
  <2> QED
    BY <1>2, <1>3, <2>1
<1>4. CASE n # l.def
  <2>1. k # next
    BY <1>4 DEF Defines
  <2>2. k \in 1 .. j
    BY <1>1, <2>1
  <2> QED
    BY <1>2, <1>4, <2>2 DEF FromStart
<1> QED
  BY <1>3, <1>4

LEMMA SteadyStart == Init => SteadyInv
<1> SUFFICES ASSUME Init PROVE SteadyInv
  OBVIOUS
<1>1. Shape /\ pass = 0 /\ next = 1 /\ code_len = 0 /\ labels = << >> /\ Origin \in Nat
  BY AsmStart, AsmAssumption DEF Init, AsmInv
<1>2. Here = Start[1] /\ DOMAIN labels = {}
  BY <1>1, StartSums DEF Here
<1> QED
  BY <1>1, <1>2 DEF SteadyInv, FromStart

LEMMA CountLineSteady ==
  ASSUME AsmInv, SteadyInv, CountLine
  PROVE  SteadyInv'
<1> DEFINE l == source[next]
<1>1. /\ Shape /\ labels' = Labelled(l) /\ pass = 0 /\ result = "none"
      /\ Len(source) \in Nat /\ next \in 1 .. Len(source) /\ next \in Nat
      /\ UNCHANGED <<source, pass>>
      /\ Here = Start[next] /\ (Unique => FromStart(next - 1))
  BY SourceLines DEF AsmInv, SteadyInv, CountLine, Reading, Fail, Advance
<1>2. CASE l.op = "bad_number"
  <2>1. result' = "error" /\ pass' = 0
    BY <1>1, <1>2 DEF CountLine, Fail
  <2> QED
    BY <2>1 DEF SteadyInv
<1>3. CASE l.op # "bad_number"
  <2>1. code_len' = code_len + Counted(l) /\ next' = next + 1 /\ result' = "none"
    BY <1>1, <1>3 DEF CountLine, Advance
  <2>2. Here' = Start'[next']
    <3>1. Counted(l) \in Nat /\ Start[next + 1] = Start[next] + Counted(l)
      BY <1>1, StartSums
    <3>2. code_len \in Nat /\ Origin \in Nat
      BY <1>1, AsmAssumption DEF Shape, TypeOK
    <3>3. Here' = Here + Counted(l)
      BY <2>1, <3>1, <3>2 DEF Here
    <3> QED
      BY <1>1, <2>1, <3>1, <3>3, SameSource
  <2>3. Unique' => FromStart(next - 1)'
    <3> SUFFICES ASSUME Unique, NEW n \in DOMAIN labels', NEW k \in 1 .. next' - 1, Defines(k, n)
                 PROVE  labels'[n] = Start[k]
      <4>1. Start' = Start /\ (Unique' <=> Unique) /\ \A k, n : Defines(k, n)' <=> Defines(k, n)
        BY <1>1, SameSource
      <4> QED
        BY <4>1, <1>1 DEF FromStart
    <3>1. k \in 1 .. Len(source) /\ (k <= next - 1 \/ k = next) /\ next - 1 \in Nat
          /\ next - 1 <= Len(source)
      BY <1>1, <2>1
    <3> QED
      BY <1>1, <3>1, LabelledStart
  <2>4. pass' = 0
    BY <1>1
  <2> QED
    BY <2>2, <2>3, <2>4 DEF SteadyInv
<1> QED
  BY <1>2, <1>3

LEMMA SecondPassSteady ==
  ASSUME AsmInv, SteadyInv, SecondPass
  PROVE  SteadyInv'
<1>1. /\ Shape /\ pass = 0 /\ result = "none" /\ code = << >> /\ code' = << >>
      /\ pass' = 1 /\ next' = 1 /\ code_len' = 0 /\ next > Len(source)
      /\ UNCHANGED <<source, labels>> /\ (Unique => FromStart(next - 1)) /\ Origin \in Nat
  BY AsmAssumption DEF AsmInv, SteadyInv, SecondPass, Shape, TypeOK
<1>2. Len(source) \in Nat /\ next - 1 = Len(source)
  BY <1>1, SourceLines
<1>3. /\ Start' = Start /\ (Steady' <=> Steady) /\ Start[1] = Origin
      /\ \A k, n : Defines(k, n)' <=> Defines(k, n)
  BY <1>1, SameSource, StartSums
<1>4. Here' = Start'[next']
  BY <1>1, <1>3 DEF Here
<1>5. Steady => FromStart(Len(source))'
  BY <1>1, <1>2, <1>3 DEF FromStart, Steady
<1>6. DOMAIN code' = {}
  BY <1>1
<1>7. ASSUME NEW k \in 1 .. next' PROVE Place(k)' = Start'[k]
  <2>1. {a \in DOMAIN code' : code'[a].line < k} = {}
    BY <1>6
  <2>2. Cardinality({}) = 0
    BY FS_EmptySet
  <2>3. Place(k)' = Origin + Cardinality({a \in DOMAIN code' : code'[a].line < k})
    BY DEF Place
  <2>4. k = 1
    BY <1>1
  <2> QED
    BY <1>1, <1>3, <2>1, <2>2, <2>3, <2>4
<1>8. References' = {}
  BY <1>6 DEF References
<1> QED
  BY <1>1, <1>3, <1>4, <1>5, <1>7, <1>8 DEF SteadyInv

(* A line of pass 1.                                                       *)
LEMMA AdvanceSteady ==
  ASSUME AsmInv, AsmInv', SteadyInv, Reading(1), NEW l, l = source[next],
         labels' = Labelled(l), code' = Emitted(l, labels'), code_len' = Len(code'),
         Advance, l.op # "unknown", l.op # "bad_number", ~Missing(l, labels')
  PROVE  SteadyInv'
<1>1. /\ Shape /\ Cells /\ pass = 1 /\ pass' = 1 /\ result = "none" /\ next \in 1 .. Len(source)
      /\ next \in Nat /\ Len(source) \in Nat /\ l \in LineType
      /\ l.op \in {"branch", "jump"} => l.ref # NoName
      /\ next' = next + 1 /\ UNCHANGED <<source, pass, result>>
  BY SourceLines DEF AsmInv, Reading, Advance
<1>2. /\ Start' = Start /\ (Steady' <=> Steady) /\ \A n : DefinedAt(n)' = DefinedAt(n)
      /\ \A k, n : Defines(k, n)' <=> Defines(k, n)
  BY <1>1, SameSource
<1> SUFFICES ASSUME Steady
             PROVE  /\ Here' = Start[next + 1]
                    /\ FromStart(Len(source))'
                    /\ \A k \in 1 .. next + 1 : Place(k)' = Start[k]
                    /\ \A a \in References' :
                         Holds(a, code'[a], Start[DefinedAt(code'[a].ref)])
  <2>1. (\A a \in References' : Holds(a, code'[a], Start[DefinedAt(code'[a].ref)])) =>
        (\A a \in References : Holds(a, code[a], Start[DefinedAt(code[a].ref)]))'
    BY <1>2 DEF Holds, ToImmediate
  <2> QED
    BY <1>1, <1>2, <2>1 DEF SteadyInv
<1>3. /\ Unique /\ Here = Start[next] /\ FromStart(Len(source))
      /\ \A k \in 1 .. next : Place(k) = Start[k]
      /\ \A a \in References : Holds(a, code[a], Start[DefinedAt(code[a].ref)])
      /\ Start[Len(source) + 1] - Origin <= CodeMax
      /\ l.op # "byte" /\ (l.op = "li" => OneHalf(Constant(l)))
  BY <1>1 DEF SteadyInv, Steady
<1>4. \A n \in DOMAIN labels' : \A k \in 1 .. Len(source) : Defines(k, n) => labels'[n] = Start[k]
  <2>1. \A k \in 1 .. Len(source) : k <= Len(source)
    BY <1>1
  <2> QED
    BY <1>1, <1>3, <2>1, LabelledStart
<1>5. l.ref # NoName => /\ l.ref \in Names /\ labels'[l.ref] \in Nat
                        /\ labels'[l.ref] = Start[DefinedAt(l.ref)]
  <2> SUFFICES ASSUME l.ref # NoName
               PROVE  /\ l.ref \in Names /\ labels'[l.ref] \in Nat
                      /\ labels'[l.ref] = Start[DefinedAt(l.ref)]
    OBVIOUS
  <2>1. l.ref \in DOMAIN labels'
    BY DEF Missing
  <2>2. l.ref \in Names /\ labels'[l.ref] \in Nat
    BY <1>1, <2>1, LabelledTable
  <2>3. DOMAIN labels' = KnownTo(Len(source) + 1)
    BY <1>1, NothingNew DEF AsmInv, Tabled, Collected
  <2>4. PICK k \in 1 .. Len(source) : Defines(k, l.ref)
    BY <1>1, <2>1, <2>3 DEF KnownTo
  <2>5. DefinedAt(l.ref) = k
    BY <1>3, <2>2, <2>4, DefinedOnce
  <2> QED
    BY <1>4, <2>1, <2>2, <2>4, <2>5
<1>6. /\ Grown(code, code', l)
      /\ l.ref # NoName => \A a \in Len(code) + 1 .. Len(code') : Holds(a, code'[a], labels'[l.ref])
  BY <1>1, <1>5, EmittedHolds
<1>7. /\ code \in Seq(CellType) /\ Len(code) \in Nat /\ Len(code') \in Nat /\ code_len = Len(code)
      /\ DOMAIN code = 1 .. Len(code) /\ DOMAIN code' = 1 .. Len(code') /\ Origin \in Nat
  BY <1>1, <1>6, AsmAssumption DEF Grown, Shape, TypeOK
<1>8. Len(code') = Len(code) + Counted(l)
  <2>1. /\ Counted(l) \in Nat /\ Start[next + 1] = Start[next] + Counted(l)
        /\ Start[next + 1] <= Start[Len(source) + 1] /\ Start[Len(source) + 1] \in Nat
        /\ Start[next + 1] \in Nat /\ Start[next] \in Nat
    <3>1. next + 1 \in 1 .. Len(source) + 1 /\ Len(source) + 1 \in 1 .. Len(source) + 1
          /\ next \in 1 .. Len(source) + 1 /\ next + 1 <= Len(source) + 1
      BY <1>1
    <3> QED
      BY <1>1, <3>1, StartSums
  <2>2. Len(code) + Counted(l) <= CodeMax
    <3>1. CodeMax \in Nat
      BY AsmAssumption
    <3>2. Start[next] = Len(code) + Origin
      BY <1>3, <1>7 DEF Here
    <3>3. Start[Len(source) + 1] - Origin <= CodeMax
      BY <1>3
    <3> DEFINE now   == Start[next]
               after == Start[next + 1]
               end   == Start[Len(source) + 1]
               size  == Len(code)
               more  == Counted(l)
    <3>4. /\ now \in Nat /\ after \in Nat /\ end \in Nat /\ size \in Nat /\ more \in Nat
          /\ after = now + more /\ after <= end /\ now = size + Origin /\ end - Origin <= CodeMax
      BY <1>7, <2>1, <3>2, <3>3
    <3>5. Origin \in Nat
      BY <1>7
    <3> HIDE DEF now, after, end, size, more
    <3>6. size + more <= CodeMax
      BY <3>1, <3>4, <3>5
    <3> QED
      BY <3>6 DEF size, more
  <2>3. l.op = "li" => OneHalf(IF l.ref = NoName THEN l.num ELSE labels'[l.ref])
    BY <1>3, <1>5 DEF Constant
  <2> QED
    BY <1>1, <1>3, <1>5, <2>2, <2>3, EmitsCounted
<1>9. Here' = Start[next + 1]
  <2>1. Start[next + 1] = Start[next] + Counted(l) /\ Counted(l) \in Nat
    BY <1>1, StartSums
  <2>2. Here' = Len(code') + Origin /\ Here = Len(code) + Origin
    BY <1>7 DEF Here
  <2> QED
    BY <1>3, <1>7, <1>8, <2>1, <2>2
<1>10. FromStart(Len(source))'
  BY <1>1, <1>2, <1>4 DEF FromStart
<1>11. ASSUME NEW k \in 1 .. next + 1
       PROVE  Place(k)' = Start[k]
  <2>1. CASE k \in 1 .. next
    <3>1. Place(k)' = Place(k)
      BY <1>1, <1>6, <2>1, PlaceKept
    <3> QED
      BY <1>3, <2>1, <3>1
  <2>2. CASE k = next + 1
    <3>1. {a \in DOMAIN code' : code'[a].line < k} = 1 .. Len(code')
      BY <1>1, <1>7, <2>2 DEF AsmInv, Cells
    <3>2. Cardinality(1 .. Len(code')) = Len(code')
      <4>1. 1 \in Int /\ Len(code') \in Int
        BY <1>7
      <4>2. Cardinality(1 .. Len(code')) = IF 1 > Len(code') THEN 0 ELSE Len(code') - 1 + 1
        BY <4>1, FS_Interval, Zenon
      <4> QED
        BY <1>7, <4>2
    <3>3. Place(k)' = Origin + Len(code')
      BY <3>1, <3>2 DEF Place
    <3> QED
      BY <1>7, <1>9, <2>2, <3>3 DEF Here
  <2> QED
    BY <1>1, <2>1, <2>2
<1>12. ASSUME NEW a \in References'
       PROVE  Holds(a, code'[a], Start[DefinedAt(code'[a].ref)])
  <2>1. a \in DOMAIN code' /\ code'[a].ref # NoName
    BY DEF References
  <2>2. CASE a \in DOMAIN code
    <3>1. code'[a] = code[a]
      BY <1>6, <1>7, <2>2 DEF Grown
    <3>2. a \in References
      BY <2>1, <2>2, <3>1 DEF References
    <3> QED
      BY <1>3, <3>1, <3>2
  <2>3. CASE a \in Len(code) + 1 .. Len(code')
    <3>1. code'[a].ref = l.ref
      BY <1>6, <2>3 DEF Grown
    <3> QED
      BY <1>5, <1>6, <2>1, <2>3, <3>1
  <2> QED
    BY <1>7, <2>1, <2>2, <2>3
<1> QED
  BY <1>9, <1>10, <1>11, <1>12

LEMMA SteadyNext ==
  ASSUME AsmInv, AsmInv', SteadyInv, [Next]_vars
  PROVE  SteadyInv'
<1>1. CASE CountLine
  BY <1>1, CountLineSteady
<1>2. CASE SecondPass
  BY <1>2, SecondPassSteady
<1>3. CASE EmitLine
  <2> DEFINE l == source[next]
             refused == l.op \in {"unknown", "bad_number"} \/ Missing(l, Labelled(l))
  <2>1. Reading(1) /\ labels' = Labelled(l)
        /\ IF refused THEN Fail
           ELSE code' = Emitted(l, Labelled(l)) /\ code_len' = Len(code') /\ Advance
    BY <1>3 DEF EmitLine
  <2>2. CASE refused
    <3>1. result' = "error" /\ pass' = 1
      BY <2>1, <2>2 DEF Fail, Reading
    <3> QED
      BY <3>1 DEF SteadyInv
  <2>3. CASE ~refused
    <3>1. /\ code' = Emitted(l, labels') /\ code_len' = Len(code') /\ Advance
          /\ l.op # "unknown" /\ l.op # "bad_number" /\ ~Missing(l, labels')
      BY <2>1, <2>3
    <3> HIDE DEF refused
    <3> QED
      BY <2>1, <3>1, AdvanceSteady
  <2> QED
    BY <2>2, <2>3
<1>4. CASE Return \/ UNCHANGED vars
  <2>1. /\ UNCHANGED <<source, pass, next, labels, code_len, code>>
        /\ result' \in {result, "ok"} /\ (result' # "error" => result # "error")
        /\ (result' = "none" => result = "none")
    BY <1>4 DEF Return, vars
  <2>2. /\ Start' = Start /\ (Steady' <=> Steady) /\ (Unique' <=> Unique)
        /\ \A n : DefinedAt(n)' = DefinedAt(n)
        /\ \A k, n : Defines(k, n)' <=> Defines(k, n)
    BY <2>1, SameSource
  <2>3. \A j : FromStart(j)' <=> FromStart(j)
    BY <2>1, <2>2 DEF FromStart
  <2>4. \A k : Place(k)' = Place(k)
    BY <2>1 DEF Place
  <2>5. Here' = Here /\ References' = References
    BY <2>1 DEF Here, References
  <2>6. (\A a \in References : Holds(a, code[a], Start[DefinedAt(code[a].ref)])) =>
        (\A a \in References : Holds(a, code[a], Start[DefinedAt(code[a].ref)]))'
    BY <2>1, <2>2, <2>5 DEF Holds, ToImmediate
  <2> QED
    BY <2>1, <2>2, <2>3, <2>4, <2>5, <2>6 DEF SteadyInv
<1> QED
  BY <1>1, <1>2, <1>3, <1>4 DEF Next

(* What SteadyInv adds holds in every run.                                 *)
THEOREM SteadyCorrect == Spec => []SteadyInv
<1>1. AsmInv /\ AsmInv' /\ SteadyInv /\ [Next]_vars => SteadyInv'
  BY SteadyNext
<1> QED
  BY <1>1, SteadyStart, AsmCorrect, PTL DEF Spec

LEMMA SteadyResolves == AsmInv /\ SteadyInv => SteadyResolved
<1> SUFFICES ASSUME AsmInv, SteadyInv, result = "ok", Steady, NEW a \in References
             PROVE  Reaches(a)
  BY DEF SteadyResolved
<1> DEFINE n == code[a].ref
           k == DefinedAt(n)
<1>1. /\ pass = 1 /\ next = Len(source) + 1 /\ Unique /\ Len(source) \in Nat
      /\ code \in Seq(CellType) /\ a \in DOMAIN code /\ n # NoName
  BY SourceLines DEF AsmInv, Judged, Steady, References, Shape
<1>2. n \in Names /\ Known1(n)
  <2>1. code[a] \in CellType
    BY <1>1
  <2> QED
    BY <1>1, <2>1 DEF AsmInv, Cells, CellType
<1>3. PICK j \in 1 .. Len(source) : Defines(j, n)
  BY <1>2 DEF Known1
<1>4. k = j
  BY <1>1, <1>2, <1>3, DefinedOnce
<1>5. Place(k) = Start[k] /\ Holds(a, code[a], Start[k])
  BY <1>1, <1>4 DEF SteadyInv
<1>6. Holds(a, code[a], Place(k))
  BY <1>5
<1> QED
  BY <1>6 DEF Holds, Reaches

(* When the passes agree about every line and the output fits, every       *)
(* reference, forward or backward, is right.                               *)
THEOREM SteadyReferences == Spec => []SteadyResolved
BY SteadyResolves, AsmCorrect, SteadyCorrect, PTL
=============================================================================
