--------------------------- MODULE GraphSetupProofs ---------------------------
(***************************************************************************)
(* The executor made of a graph, for every graph the compiler may write,   *)
(* with any number of nodes, entries, outputs and dimensions.              *)
(***************************************************************************)
EXTENDS GraphSetup, FiniteSetTheorems, SequenceTheorems, WellFoundedInduction, TLAPS

-----------------------------------------------------------------------------
(* Numbers: the least of a set, induction over a set, and products.         *)
LEMMA LeastNumber ==
  ASSUME NEW T, T \subseteq Nat, T # {}
  PROVE  \E x \in T : \A y \in T : x <= y
<1> DEFINE R == OpToRel(<, Nat)
<1>1. IsWellFoundedOn(R, Nat)
  BY NatLessThanWellFounded
<1>2. \A x, y \in Nat : x < y => <<x, y>> \in R
  BY DEF OpToRel
<1> HIDE DEF R
<1>3. PICK x \in T : \A y \in T : ~(<<y, x>> \in R)
  BY <1>1, WFMin
<1>4. \A y \in T : x \in Nat /\ y \in Nat /\ ~(y < x)
  BY <1>2, <1>3
<1> QED  BY <1>4

LEMMA SetInduction ==
  ASSUME NEW P, 0 \in P, \A n \in Nat : n \in P => n + 1 \in P
  PROVE  \A n \in Nat : n \in P
<1> SUFFICES ASSUME Nat \ P # {} PROVE FALSE
  OBVIOUS
<1>1. PICK x \in Nat \ P : \A y \in Nat \ P : x <= y
  BY LeastNumber
<1>2. x - 1 \in Nat /\ ~(x <= x - 1) /\ (x - 1) + 1 = x
  BY <1>1
<1> QED  BY <1>1, <1>2

LEMMA ProductsOrdered ==
  ASSUME NEW a \in Nat, NEW b \in Nat, a <= b, NEW c \in Nat
  PROVE  a * c \in Nat /\ b * c \in Nat /\ a * c <= b * c /\ c * a <= c * b
  OBVIOUS

(* A size that can be counted does not wrap.                                *)
LEMMA SmallMod ==
  ASSUME NEW w \in Nat \ {0}, NEW x \in Nat, x < w
  PROVE  x % w = x
<1> DEFINE q == x \div w
           r == x % w
<1>1. q \in Int /\ r \in 0 .. w - 1 /\ x = w * q + r
  OBVIOUS
<1>2. ASSUME q >= 1 PROVE FALSE
  <2>1. w * q >= w
    BY <1>1, <1>2
  <2> QED  BY <1>1, <2>1
<1>3. ASSUME q <= -1 PROVE FALSE
  <2>1. w * q <= -w
    BY <1>1, <1>3
  <2> QED  BY <1>1, <2>1
<1>4. q = 0
  BY <1>1, <1>2, <1>3
<1> QED  BY <1>1, <1>4

(* A function on 0 .. n may be given by its first value and a step.         *)
LEMMA Recursion ==
  ASSUME NEW n \in Nat, NEW step \in [(1 .. n) \X Nat -> Nat]
  PROVE  \E f \in [0 .. n -> Nat] : f[0] = 1 /\ \A i \in 1 .. n : f[i] = step[<<i, f[i - 1]>>]
<1> DEFINE Upto(f, k) == f[0] = 1 /\ \A i \in 1 .. k : f[i] = step[<<i, f[i - 1]>>]
           P == {k \in Nat : k <= n => \E f \in [0 .. k -> Nat] : Upto(f, k)}
<1>1. 0 \in P
  <2>1. [i \in 0 .. 0 |-> 1] \in [0 .. 0 -> Nat] /\ Upto([i \in 0 .. 0 |-> 1], 0)
    OBVIOUS
  <2> QED  BY <2>1
<1>2. ASSUME NEW k \in Nat, k \in P PROVE k + 1 \in P
  <2> SUFFICES ASSUME k + 1 <= n PROVE \E f \in [0 .. k + 1 -> Nat] : Upto(f, k + 1)
    OBVIOUS
  <2>1. PICK f \in [0 .. k -> Nat] : Upto(f, k)
    BY <1>2
  <2> DEFINE g == [i \in 0 .. k + 1 |-> IF i = k + 1 THEN step[<<k + 1, f[k]>>] ELSE f[i]]
  <2>2. step[<<k + 1, f[k]>>] \in Nat
    <3>1. <<k + 1, f[k]>> \in (1 .. n) \X Nat
      OBVIOUS
    <3> QED  BY <3>1
  <2>3. g \in [0 .. k + 1 -> Nat] /\ \A i \in 0 .. k : g[i] = f[i]
    BY <2>2
  <2>4. g[k + 1] = step[<<k + 1, f[k]>>] /\ g[k] = f[k]
    OBVIOUS
  <2> HIDE DEF g
  <2>5. ASSUME NEW i \in 1 .. k + 1 PROVE g[i] = step[<<i, g[i - 1]>>]
    <3>1. CASE i = k + 1
      <4>1. i - 1 = k
        BY <3>1
      <4> QED  BY <2>4, <3>1, <4>1
    <3>2. CASE i # k + 1
      <4>1. i \in 1 .. k /\ i \in 0 .. k /\ i - 1 \in 0 .. k
        BY <3>2
      <4> QED  BY <2>1, <2>3, <4>1
    <3> QED  BY <3>1, <3>2
  <2>6. g[0] = 1
    BY <2>1, <2>3
  <2> QED  BY <2>3, <2>5, <2>6
<1>3. n \in P
  <2> HIDE DEF P
  <2> QED  BY <1>1, <1>2, SetInduction
<1> QED  BY <1>3

(* Of finitely many numbers one is the largest.                             *)
LEMMA LargestExists ==
  ASSUME NEW n \in Nat, NEW T \in SUBSET (1 .. n), NEW g \in [T -> Nat]
  PROVE  \E m \in {0} \cup {g[i] : i \in T} : \A x \in {0} \cup {g[i] : i \in T} : m >= x
<1> DEFINE Low(k) == {j \in T : j <= k}
           S(k) == {0} \cup {g[i] : i \in Low(k)}
           P == {k \in Nat : \E m \in S(k) : \A x \in S(k) : m >= x}
<1>1. \A i \in T : i \in Nat /\ ~(i <= 0) /\ i <= n /\ g[i] \in Nat
  OBVIOUS
<1>2. \A k, i : i \in Low(k) <=> (i \in T /\ i <= k)
  OBVIOUS
<1> HIDE DEF Low
<1>3. \A k, x : x \in S(k) <=> (x = 0 \/ \E i \in Low(k) : x = g[i])
  OBVIOUS
<1> HIDE DEF S
<1>4. 0 \in P
  <2>1. S(0) = {0}
    BY <1>1, <1>2, <1>3
  <2> QED  BY <2>1
<1>5. ASSUME NEW k \in Nat, k \in P PROVE k + 1 \in P
  <2>1. PICK m \in S(k) : \A x \in S(k) : m >= x
    BY <1>5
  <2>2. \A x \in S(k) : x \in Nat
    <3>1. \A i \in Low(k) : g[i] \in Nat
      BY <1>1, <1>2
    <3> QED  BY <1>3, <3>1
  <2>3. \A i \in T : i <= k + 1 <=> (i <= k \/ i = k + 1)
    <3>1. \A i \in Nat : i <= k + 1 <=> (i <= k \/ i = k + 1)
      OBVIOUS
    <3> QED  BY <1>1, <3>1
  <2>4. CASE k + 1 \in T
    <3>1. \A x : x \in S(k + 1) <=> (x \in S(k) \/ x = g[k + 1])
      <4>1. \A i : i \in Low(k + 1) <=> (i \in Low(k) \/ i = k + 1)
        BY <1>2, <2>3, <2>4
      <4> QED  BY <1>3, <4>1
    <3>2. g[k + 1] \in Nat /\ m \in Nat
      BY <1>1, <2>1, <2>2, <2>4
    <3>3. \E l \in S(k + 1) : \A x \in S(k + 1) : l >= x
      BY <2>1, <2>2, <3>1, <3>2
    <3> QED  BY <3>3
  <2>5. CASE k + 1 \notin T
    <3>1. \A x : x \in S(k + 1) <=> x \in S(k)
      <4>1. \A i : i \in Low(k + 1) <=> i \in Low(k)
        BY <1>2, <2>3, <2>5
      <4> QED  BY <1>3, <4>1
    <3> QED  BY <2>1, <3>1
  <2> QED  BY <2>4, <2>5
<1>6. n \in P
  <2> HIDE DEF P
  <2> QED  BY <1>4, <1>5, SetInduction
<1>7. Low(n) = T
  BY <1>1, <1>2
<1>8. S(n) = {0} \cup {g[i] : i \in T}
  BY <1>7 DEF S
<1> QED  BY <1>6, <1>8

LEMMA MaxIsLargest ==
  ASSUME NEW n \in Nat, NEW T \in SUBSET (1 .. n), NEW g \in [T -> Nat]
  PROVE  LET S == {0} \cup {g[i] : i \in T} IN
         Max(S) \in S /\ Max(S) \in Nat /\ \A x \in S : x <= Max(S)
<1> DEFINE S == {0} \cup {g[i] : i \in T}
<1>1. S \subseteq Nat
  OBVIOUS
<1>2. \E m \in S : \A x \in S : m >= x
  BY LargestExists
<1> HIDE DEF S
<1>3. Max(S) \in S /\ \A x \in S : Max(S) >= x
  BY <1>2 DEF Max
<1>4. Max(S) \in S /\ Max(S) \in Nat /\ \A x \in S : x <= Max(S)
  BY <1>1, <1>3
<1> QED  BY <1>4 DEF S

-----------------------------------------------------------------------------
(* The two products of a shape, step by step: that of all its dimensions,   *)
(* and the one Shape_Accumulate stops at a zero.                            *)
Product(shape, f) ==
  /\ f[0] = 1
  /\ \A i \in 1 .. Len(shape) : f[i] = f[i - 1] * shape[i]
HasZero(shape, i) == \E j \in 1 .. i : shape[j] = 0
Accumulated(shape, f) ==
  /\ f[0] = 1
  /\ \A i \in 1 .. Len(shape) :
       f[i] = IF HasZero(shape, i) THEN f[i - 1] ELSE f[i - 1] * shape[i]

LEMMA ElementsMultiplied ==
  ASSUME NEW shape \in Seq(Nat)
  PROVE  \E f : Product(shape, f) /\ Elements(shape) = f[Len(shape)]
<1> DEFINE n == Len(shape)
           step == [x \in (1 .. n) \X Nat |-> x[2] * shape[x[1]]]
           Is(f) == f = [i \in 0 .. n |-> IF i = 0 THEN 1 ELSE f[i - 1] * shape[i]]
<1>1. n \in Nat /\ \A i \in 1 .. n : shape[i] \in Nat
  OBVIOUS
<1>2. step \in [(1 .. n) \X Nat -> Nat]
  BY <1>1
<1>3. \A i \in 1 .. n, v \in Nat : step[<<i, v>>] = v * shape[i]
  OBVIOUS
<1> HIDE DEF step, n
<1>4. PICK f \in [0 .. n -> Nat] : f[0] = 1 /\ \A i \in 1 .. n : f[i] = step[<<i, f[i - 1]>>]
  BY <1>1, <1>2, Recursion
<1>5. ASSUME NEW i \in 0 .. n PROVE f[i] = IF i = 0 THEN 1 ELSE f[i - 1] * shape[i]
  <2>1. CASE i # 0
    <3>1. i \in 1 .. n /\ i - 1 \in 0 .. n
      BY <1>1, <2>1
    <3>2. f[i - 1] \in Nat
      BY <3>1
    <3> QED  BY <1>3, <1>4, <2>1, <3>1, <3>2
  <2> QED  BY <1>4, <2>1
<1>6. Is(f)
  BY <1>5
<1> DEFINE product[i \in 0 .. n] == IF i = 0 THEN 1 ELSE product[i - 1] * shape[i]
<1>7. Elements(shape) = product[Len(shape)]
  BY DEF Elements, n
<1>8. product = CHOOSE g : Is(g)
  OBVIOUS
<1> HIDE DEF product
<1>9. Is(product)
  BY <1>6, <1>8
<1>10. product[0] = 1 /\ \A i \in 1 .. n : product[i] = product[i - 1] * shape[i]
  BY <1>1, <1>9
<1> QED  BY <1>7, <1>10 DEF Product, n

LEMMA DimensionsAccumulated ==
  ASSUME NEW shape \in Seq(Nat)
  PROVE  \E f : Accumulated(shape, f) /\ AccumulatedDims(shape) = f[Len(shape)]
<1> DEFINE n == Len(shape)
           step == [x \in (1 .. n) \X Nat |->
                      IF HasZero(shape, x[1]) THEN x[2] ELSE x[2] * shape[x[1]]]
           Is(f) == f = [i \in 0 .. n |->
                           IF i = 0 THEN 1
                           ELSE IF HasZero(shape, i) THEN f[i - 1] ELSE f[i - 1] * shape[i]]
<1>1. n \in Nat /\ \A i \in 1 .. n : shape[i] \in Nat
  OBVIOUS
<1>2. step \in [(1 .. n) \X Nat -> Nat]
  BY <1>1
<1>3. \A i \in 1 .. n, v \in Nat :
        step[<<i, v>>] = IF HasZero(shape, i) THEN v ELSE v * shape[i]
  OBVIOUS
<1> HIDE DEF step, n
<1>4. PICK f \in [0 .. n -> Nat] : f[0] = 1 /\ \A i \in 1 .. n : f[i] = step[<<i, f[i - 1]>>]
  BY <1>1, <1>2, Recursion
<1>5. ASSUME NEW i \in 0 .. n
      PROVE  f[i] = IF i = 0 THEN 1
                    ELSE IF HasZero(shape, i) THEN f[i - 1] ELSE f[i - 1] * shape[i]
  <2>1. CASE i # 0
    <3>1. i \in 1 .. n /\ i - 1 \in 0 .. n
      BY <1>1, <2>1
    <3>2. f[i - 1] \in Nat
      BY <3>1
    <3> QED  BY <1>3, <1>4, <2>1, <3>1, <3>2
  <2> QED  BY <1>4, <2>1
<1>6. Is(f)
  BY <1>5
<1> DEFINE accum[i \in 0 .. n] ==
             IF i = 0 THEN 1
             ELSE IF \E j \in 1 .. i : shape[j] = 0 THEN accum[i - 1] ELSE accum[i - 1] * shape[i]
<1>7. AccumulatedDims(shape) = accum[Len(shape)]
  BY DEF AccumulatedDims, n
<1>8. accum = CHOOSE g : Is(g)
  BY DEF HasZero
<1> HIDE DEF accum
<1>9. Is(accum)
  BY <1>6, <1>8
<1>10. accum[0] = 1 /\ \A i \in 1 .. n :
         accum[i] = IF HasZero(shape, i) THEN accum[i - 1] ELSE accum[i - 1] * shape[i]
  BY <1>1, <1>9
<1> QED  BY <1>7, <1>10 DEF Accumulated, n

(* A product with a zero in it is zero, so that what Shape_Accumulate       *)
(* leaves out only makes it larger.                                         *)
LEMMA AccumulateCovers ==
  ASSUME NEW shape \in Seq(Nat)
  PROVE  /\ Elements(shape) \in Nat /\ AccumulatedDims(shape) \in Nat
         /\ Elements(shape) <= AccumulatedDims(shape)
<1>1. PICK p : Product(shape, p) /\ Elements(shape) = p[Len(shape)]
  BY ElementsMultiplied
<1>2. PICK a : Accumulated(shape, a) /\ AccumulatedDims(shape) = a[Len(shape)]
  BY DimensionsAccumulated
<1> DEFINE Covered(i) == /\ p[i] \in Nat /\ a[i] \in Nat /\ p[i] <= a[i]
                         /\ HasZero(shape, i) => p[i] = 0
           P == {k \in Nat : k <= Len(shape) => Covered(k)}
<1>3. 0 \in P
  BY <1>1, <1>2 DEF Product, Accumulated, HasZero
<1>4. ASSUME NEW k \in Nat, k \in P, NEW i \in Nat, i = k + 1, i <= Len(shape) PROVE Covered(i)
  <2>1. i \in 1 .. Len(shape) /\ k <= Len(shape) /\ i - 1 = k /\ shape[i] \in Nat
    BY <1>4
  <2>2. Covered(k)
    BY <1>4, <2>1
  <2>3. p[i] = p[k] * shape[i] /\ a[i] = IF HasZero(shape, i) THEN a[k] ELSE a[k] * shape[i]
    BY <1>1, <1>2, <2>1 DEF Product, Accumulated
  <2>4. CASE HasZero(shape, i)
    <3>1. HasZero(shape, k) \/ shape[i] = 0
      <4>1. PICK j \in 1 .. i : shape[j] = 0
        BY <2>4 DEF HasZero
      <4>2. j = i \/ j \in 1 .. k
        BY <1>4
      <4> QED  BY <4>1, <4>2 DEF HasZero
    <3>2. p[k] = 0 \/ shape[i] = 0
      BY <2>2, <3>1
    <3>3. p[i] = 0
      BY <2>1, <2>2, <2>3, <3>2
    <3> QED  BY <2>2, <2>3, <2>4, <3>3
  <2>5. CASE ~HasZero(shape, i)
    <3> DEFINE x == p[k]
               y == a[k]
               z == shape[i]
    <3>1. x \in Nat /\ y \in Nat /\ z \in Nat /\ x <= y
      BY <2>1, <2>2
    <3>2. p[i] = x * z /\ a[i] = y * z
      BY <2>3, <2>5
    <3> HIDE DEF x, y, z
    <3>3. x * z \in Nat /\ y * z \in Nat /\ x * z <= y * z
      BY <3>1, ProductsOrdered
    <3> QED  BY <2>5, <3>2, <3>3
  <2> QED  BY <2>4, <2>5
<1>5. Len(shape) \in P
  <2>1. \A k \in Nat : k \in P => k + 1 \in P
    BY <1>4
  <2> HIDE DEF P
  <2> QED  BY <1>3, <2>1, SetInduction
<1> QED  BY <1>1, <1>2, <1>5

-----------------------------------------------------------------------------
(* What the compiler wrote of a document, and its entries: each node has    *)
(* its own between two rows, and their number is that of all outputs.       *)
LEMMA DocumentWritten ==
  ASSUME document \in DOMAIN Documents
  PROVE  /\ NodesWritten(written.nodes) /\ RowsWritten(written.nodes, written.node_row_ptr)
         /\ EntriesWritten(written)
         /\ Documents[document].refused \/ Acceptable(written)
BY DocumentAssumption DEF written

LEMMA RowsOrdered ==
  ASSUME NEW nodes \in Seq(GraphNode), NEW row, RowsWritten(nodes, row), NEW n \in 1 .. Len(nodes)
  PROVE  /\ row[n] \in Nat /\ nodes[n].outputs \in Nat /\ row[n + 1] = row[n] + nodes[n].outputs
         /\ row[n + 1] <= Last(row) /\ Last(row) \in Nat
<1> DEFINE l == Len(nodes)
           P == {k \in Nat : k <= l => \A j \in 1 .. k + 1 : row[j] <= row[k + 1]}
<1>1. /\ l \in Nat /\ \A k \in 1 .. l + 1 : row[k] \in Nat
      /\ \A k \in 1 .. l : nodes[k].outputs \in Nat /\ row[k + 1] = row[k] + nodes[k].outputs
      /\ Last(row) = row[l + 1]
  <2>1. l \in Nat /\ row \in Seq(Nat) /\ Len(row) = l + 1
    BY DEF RowsWritten
  <2>2. \A k \in 1 .. l : nodes[k] \in GraphNode
    OBVIOUS
  <2>3. \A k \in 1 .. l : nodes[k].outputs \in Nat
    BY <2>2 DEF GraphNode
  <2>4. \A k \in 1 .. l : row[k + 1] = row[k] + nodes[k].outputs
    <3>1. DOMAIN nodes = 1 .. l
      OBVIOUS
    <3>2. \A k \in DOMAIN nodes : row[k + 1] = row[k] + nodes[k].outputs
      BY Zenon DEF RowsWritten
    <3> QED  BY Zenon, <3>1, <3>2
  <2>5. \A k \in 1 .. l + 1 : row[k] \in Nat
    BY <2>1
  <2> QED  BY <2>1, <2>3, <2>4, <2>5 DEF Last
<1> HIDE DEF l
<1>2. 0 \in P
  BY <1>1
<1>3. ASSUME NEW k \in Nat, k \in P PROVE k + 1 \in P
  <2> SUFFICES ASSUME k + 1 <= l, NEW j \in 1 .. k + 2 PROVE row[j] <= row[k + 2]
    OBVIOUS
  <2>1. k + 1 \in 1 .. l /\ k + 1 \in 1 .. l + 1 /\ (k + 1) + 1 = k + 2
    BY <1>1
  <2>2. row[k + 1] <= row[k + 2] /\ row[k + 1] \in Nat /\ row[k + 2] \in Nat
    <3>1. row[k + 2] = row[k + 1] + nodes[k + 1].outputs /\ nodes[k + 1].outputs \in Nat
          /\ row[k + 1] \in Nat
      BY <1>1, <2>1
    <3> QED  BY <3>1
  <2>3. CASE j # k + 2
    <3>1. j \in 1 .. k + 1 /\ j \in 1 .. l + 1 /\ k <= l
      BY <1>1, <2>1, <2>3
    <3>2. row[j] <= row[k + 1] /\ row[j] \in Nat
      BY <1>1, <1>3, <3>1
    <3> QED  BY <2>2, <3>2
  <2> QED  BY <2>2, <2>3
<1>4. l \in P
  <2> HIDE DEF P
  <2> QED  BY <1>1, <1>2, <1>3, SetInduction
<1>5. n \in 1 .. l /\ n + 1 \in 1 .. l + 1
  BY <1>1 DEF l
<1>6. row[n + 1] <= row[l + 1]
  BY <1>1, <1>4, <1>5
<1> QED  BY <1>1, <1>5, <1>6

(* The outputs of the first n nodes, and how many they are.                 *)
Outputs(n) == UNION {{k} \X (1 .. written.nodes[k].outputs) : k \in 1 .. n}

LEMMA OutputsNumbered ==
  ASSUME document \in DOMAIN Documents, NEW n \in 0 .. Len(written.nodes), NEW index
  PROVE  NumberOf(n, index) = written.node_row_ptr[n + 1] + index
<1> DEFINE nodes == written.nodes
           row == written.node_row_ptr
           Rows(k) == IsFiniteSet(Outputs(k)) /\ Cardinality(Outputs(k)) = row[k + 1]
           P == {k \in Nat : k <= Len(nodes) => Rows(k)}
<1>1. nodes \in Seq(GraphNode) /\ RowsWritten(nodes, row) /\ Len(nodes) \in Nat
  BY DocumentWritten DEF NodesWritten
<1>2. 0 \in P
  <2>1. Outputs(0) = {}
    BY DEF Outputs
  <2>2. row[0 + 1] = 0
    BY <1>1 DEF RowsWritten
  <2>3. Rows(0)
    BY <2>1, <2>2, FS_EmptySet
  <2> QED  BY <2>3
<1>3. ASSUME NEW k \in Nat, k \in P, NEW i \in Nat, i = k + 1, i <= Len(nodes) PROVE Rows(i)
  <2>1. k <= Len(nodes) /\ i \in 1 .. Len(nodes)
    BY <1>1, <1>3
  <2>2. /\ row[i] \in Nat /\ nodes[i].outputs \in Nat /\ row[i + 1] = row[i] + nodes[i].outputs
    <3> HIDE DEF nodes, row
    <3> QED  BY <1>1, <2>1, RowsOrdered
  <2> DEFINE last == nodes[i].outputs
             outs == 1 .. last
             new == {i} \X outs
  <2>3. IsFiniteSet(outs) /\ Cardinality(outs) = nodes[i].outputs
    <3>1. last \in Nat
      BY <2>2
    <3> HIDE DEF last
    <3>2. IsFiniteSet(outs) /\ Cardinality(outs) = IF 1 > last THEN 0 ELSE last - 1 + 1
      BY <3>1, FS_Interval
    <3>3. Cardinality(outs) = last
      BY <3>1, <3>2
    <3> QED  BY <3>2, <3>3 DEF last
  <2>4. IsFiniteSet({i}) /\ Cardinality({i}) = 1
    BY FS_Singleton
  <2>5. IsFiniteSet(new) /\ Cardinality(new) = nodes[i].outputs
    <3> HIDE DEF outs
    <3>1. IsFiniteSet(new) /\ Cardinality(new) = 1 * Cardinality(outs)
      BY <2>3, <2>4, FS_Product
    <3> QED  BY <2>2, <2>3, <3>1
  <2>6. Outputs(i) = Outputs(k) \cup new
    <3>1. 1 .. i = 1 .. k \cup {i}
      BY <1>3
    <3> QED  BY <3>1 DEF Outputs
  <2>7. Outputs(k) \cap new = {}
    <3>1. i \notin 1 .. k
      BY <1>3
    <3> QED  BY <3>1 DEF Outputs
  <2>8. IsFiniteSet(Outputs(k)) /\ Cardinality(Outputs(k)) = row[i]
    BY <1>3, <2>1
  <2> HIDE DEF new
  <2>9. IsFiniteSet(Outputs(k) \cup new)
        /\ Cardinality(Outputs(k) \cup new) = Cardinality(Outputs(k)) + Cardinality(new) - 0
    BY <2>5, <2>7, <2>8, FS_Union, FS_EmptySet
  <2> QED  BY <2>2, <2>5, <2>6, <2>8, <2>9
<1>4. n \in P
  <2>1. \A k \in Nat : k \in P => k + 1 \in P
    BY <1>3
  <2> HIDE DEF P
  <2> QED  BY <1>1, <1>2, <2>1, SetInduction
<1>5. Cardinality(Outputs(n)) = row[n + 1]
  BY <1>1, <1>4
<1> QED  BY <1>5 DEF NumberOf, Outputs

-----------------------------------------------------------------------------
(* The entries the compiler counted. *)
Entries == Last(written.node_row_ptr)

LEMMA LastRow ==
  ASSUME document \in DOMAIN Documents
  PROVE  Entries \in Nat
<1>1. written.node_row_ptr \in Seq(Nat) /\ Len(written.node_row_ptr) = Len(written.nodes) + 1
      /\ Len(written.nodes) \in Nat
  BY DocumentWritten DEF RowsWritten, NodesWritten
<1> DEFINE row == written.node_row_ptr
<1>2. row[Len(row)] \in Nat
  BY <1>1
<1> QED  BY <1>2 DEF Entries, Last

(* What SetupStorage takes an entry to need is enough for it; a shape       *)
(* without dimensions is accumulated as one with a single zero, to 1.       *)
LEMMA ScalarAccumulated ==
  Elements(<<>>) = 1 /\ AccumulatedDims(<<>>) = 1 /\ AccumulatedDims(<<0>>) = 1
<1>1. <<>> \in Seq(Nat) /\ Len(<<>>) = 0 /\ <<0>> \in Seq(Nat) /\ Len(<<0>>) = 1 /\ <<0>>[1] = 0
  OBVIOUS
<1>2. PICK f : Product(<<>>, f) /\ Elements(<<>>) = f[0]
  BY <1>1, ElementsMultiplied
<1>3. PICK g : Accumulated(<<0>>, g) /\ AccumulatedDims(<<0>>) = g[1]
  BY <1>1, DimensionsAccumulated
<1>4. AccumulatedDims(<<>>) = 1
  <2>1. PICK h : Accumulated(<<>>, h) /\ AccumulatedDims(<<>>) = h[0]
    BY <1>1, DimensionsAccumulated
  <2> QED  BY <2>1 DEF Accumulated
<1>5. HasZero(<<0>>, 1)
  BY <1>1 DEF HasZero
<1>6. g[1] = g[1 - 1] /\ g[0] = 1
  BY <1>1, <1>3, <1>5 DEF Accumulated
<1> QED  BY <1>2, <1>3, <1>4, <1>6 DEF Product

LEMMA EntryFits ==
  ASSUME document \in DOMAIN Documents, AsWritten(executor), NEW i \in 1 .. Entries
  PROVE  /\ TensorBytes(i) \in Nat /\ EntryBytes(i) \in Nat
         /\ TensorBytes(i) <= EntryBytes(i) /\ EntryBytes(i) + 3 < WordSize
<1> DEFINE w == TypeBytes(written.dltype[i])
           shape == written.shape[i]
           read == executor.attrs.shape[i]
           a == Elements(shape)
           b == AccumulatedDims(shape)
<1>1. /\ written.dltype \in [1 .. Entries -> DOMAIN Bits]
      /\ written.shape \in [1 .. Entries -> Seq(Nat)]
      /\ w * b + 3 < WordSize
  BY DocumentWritten DEF EntriesWritten, Entries
<1>2. Bits[written.dltype[i]] \in Nat \ {0}
  BY <1>1, SizesAssumption
<1>3. w \in Nat /\ w >= 1
  <2>1. \A n \in Nat \ {0} : (n + 7) \div 8 \in Nat /\ (n + 7) \div 8 >= 1
    OBVIOUS
  <2> QED  BY <1>2, <2>1 DEF TypeBytes
<1>4. read = IF shape = <<>> THEN <<0>> ELSE shape
  BY <1>1 DEF AsWritten
<1>5. shape \in Seq(Nat)
  BY <1>1
<1>6. a \in Nat /\ b \in Nat /\ a <= b
  <2> HIDE DEF shape
  <2> QED  BY <1>5, AccumulateCovers
<1>7. AccumulatedDims(read) = b
  BY <1>4, ScalarAccumulated
<1>8. TensorBytes(i) = w * a /\ EntryBytes(i) = (w * (b % WordSize)) % WordSize
  <2>1. executor.attrs.dltype = written.dltype
    BY DEF AsWritten
  <2> QED  BY <1>7, <2>1 DEF TensorBytes, EntryBytes, Shape_Accumulate
<1> HIDE DEF w, a, b
<1>9. w * a \in Nat /\ w * b \in Nat /\ w * a <= w * b /\ b <= w * b
  <2>1. w * a \in Nat /\ w * b \in Nat /\ w * a <= w * b
    BY <1>3, <1>6, ProductsOrdered
  <2>2. 1 * b <= w * b
    BY <1>3, <1>6, ProductsOrdered
  <2> QED  BY <1>6, <2>1, <2>2
<1>10. WordSize \in Nat \ {0} /\ b < WordSize /\ w * b < WordSize
  BY <1>1, <1>6, <1>9, SizesAssumption
<1>11. b % WordSize = b /\ (w * b) % WordSize = w * b
  BY <1>6, <1>9, <1>10, SmallMod
<1> QED  BY <1>1, <1>8, <1>9, <1>11

(* A pool entry is as large as each entry that shares it.                   *)
LEMMA PoolCovers ==
  ASSUME document \in DOMAIN Documents, AsWritten(executor), NEW i \in 1 .. Entries
  PROVE  LET s == executor.attrs.storage_id[i] IN
         /\ s \in 0 .. PoolEntryCount - 1
         /\ TensorBytes(i) <= 4 * Floats(PoolSize(s))
<1> DEFINE ids == executor.attrs.storage_id
           s == ids[i]
<1>1. Entries \in Nat
  BY LastRow
<1>2. ids \in [1 .. Entries -> Nat]
  <2>1. ids = written.storage_id
    BY DEF AsWritten
  <2>2. written.storage_id \in [1 .. Entries -> 0 .. Len(written.nodes) - 1]
    BY DocumentWritten DEF EntriesWritten, Entries
  <2> HIDE DEF ids
  <2> QED  BY <2>1, <2>2
<1> DEFINE counts == [j \in 1 .. Entries |-> ids[j] + 1]
           number == {0} \cup {counts[j] : j \in 1 .. Entries}
<1>3. Max(number) \in Nat /\ \A x \in number : x <= Max(number)
  <2>1. counts \in [1 .. Entries -> Nat]
    <3> HIDE DEF ids
    <3> QED  BY <1>2
  <2> HIDE DEF counts
  <2> QED  BY <1>1, <2>1, MaxIsLargest
<1>4. PoolEntryCount = Max(number)
  <2>1. DOMAIN ids = 1 .. Entries
    BY <1>2
  <2>2. number = {0} \cup {ids[j] + 1 : j \in 1 .. Entries}
    OBVIOUS
  <2> QED  BY <2>1, <2>2 DEF PoolEntryCount
<1>5. ids[i] + 1 \in number
  OBVIOUS
<1>6. s \in 0 .. PoolEntryCount - 1
  <2> HIDE DEF number, ids
  <2>1. s \in Nat
    BY <1>2
  <2>2. s + 1 <= PoolEntryCount /\ PoolEntryCount \in Nat
    BY <1>3, <1>4, <1>5
  <2> QED  BY <2>1, <2>2
<1> DEFINE sharing == Sharing(s)
           sizes == [j \in sharing |-> EntryBytes(j)]
           needed == {0} \cup {sizes[j] : j \in sharing}
<1>7. sharing \in SUBSET (1 .. Entries) /\ i \in sharing
  BY <1>2 DEF Sharing
<1>8. sizes \in [sharing -> Nat]
  <2> HIDE DEF sharing
  <2> QED  BY <1>7, EntryFits
<1>9. Max(needed) \in needed /\ Max(needed) \in Nat /\ \A x \in needed : x <= Max(needed)
  <2> HIDE DEF sizes, sharing
  <2> QED  BY <1>1, <1>7, <1>8, MaxIsLargest
<1>10. PoolSize(s) = Max(needed)
  <2>1. needed = {0} \cup {EntryBytes(j) : j \in sharing}
    OBVIOUS
  <2> QED  BY <2>1 DEF PoolSize
<1>11. EntryBytes(i) \in needed
  <2> HIDE DEF sharing
  <2> QED  BY <1>7
<1> DEFINE size == PoolSize(s)
<1>12. size \in Nat /\ EntryBytes(i) <= size
  <2> HIDE DEF needed
  <2> QED  BY <1>9, <1>10, <1>11
<1>13. size + 3 < WordSize
  <2>1. size = 0 \/ \E j \in sharing : size = EntryBytes(j)
    BY <1>9, <1>10
  <2>2. \A j \in sharing : EntryBytes(j) + 3 < WordSize
    <3> HIDE DEF sharing
    <3> QED  BY <1>7, EntryFits
  <2>3. EntryBytes(i) + 3 < WordSize /\ EntryBytes(i) \in Nat
    BY EntryFits
  <2>4. size = 0 => size + 3 < WordSize
    BY <2>3, SizesAssumption
  <2> HIDE DEF sharing, size
  <2> QED  BY <2>1, <2>2, <2>4
<1>14. TensorBytes(i) \in Nat /\ EntryBytes(i) \in Nat /\ TensorBytes(i) <= EntryBytes(i)
  BY EntryFits
<1> HIDE DEF size
<1>15. size <= 4 * Floats(size) /\ Floats(size) \in Nat
  <2>1. WordSize \in Nat \ {0} /\ size + 3 \in Nat
    BY <1>12, <1>13, SizesAssumption
  <2>2. (size + 3) % WordSize = size + 3
    BY <1>13, <2>1, SmallMod
  <2> QED  BY <1>12, <2>2 DEF Floats
<1>16. TensorBytes(i) <= 4 * Floats(size)
  BY <1>12, <1>14, <1>15
<1> QED  BY <1>6, <1>16 DEF size

-----------------------------------------------------------------------------
(* An output of a node has the number of an entry, the same by its row as   *)
(* by counting.                                                             *)
LEMMA EntryIdWritten ==
  ASSUME document \in DOMAIN Documents, AsWritten(executor), NEW n \in 1 .. Len(written.nodes),
         NEW m, m = n - 1, NEW index \in Nat, index < written.nodes[n].outputs
  PROVE  /\ GetEntryId(m, index) = NumberOf(m, index)
         /\ GetEntryId(m, index) \in 0 .. Entries - 1
<1> DEFINE nodes == written.nodes
           row == written.node_row_ptr
<1>1. nodes \in Seq(GraphNode) /\ RowsWritten(nodes, row) /\ Len(nodes) \in Nat
  BY DocumentWritten DEF NodesWritten
<1>2. executor.node_row_ptr = row
  BY DEF AsWritten
<1>3. /\ row[n] \in Nat /\ nodes[n].outputs \in Nat /\ row[n + 1] = row[n] + nodes[n].outputs
      /\ row[n + 1] <= Last(row) /\ Last(row) \in Nat
  <2> HIDE DEF nodes, row
  <2> QED  BY <1>1, RowsOrdered DEF nodes
<1>4. m \in 0 .. Len(nodes) /\ m + 1 = n
  BY <1>1
<1>5. GetEntryId(m, index) = row[n] + index
  BY <1>2, <1>4 DEF GetEntryId
<1>6. NumberOf(m, index) = row[n] + index
  BY <1>4, OutputsNumbered
<1>7. row[n] + index \in 0 .. Last(row) - 1
  <2> DEFINE r == row[n]
             l == Last(row)
             o == nodes[n].outputs
  <2>1. r \in Nat /\ o \in Nat /\ l \in Nat /\ r + o <= l /\ index < o
    BY <1>3
  <2> HIDE DEF r, l, o
  <2>2. r + index \in 0 .. l - 1
    BY <2>1
  <2> QED  BY <2>2 DEF r, l
<1> QED  BY <1>5, <1>6, <1>7 DEF Entries

LEMMA FunctionIsSequence ==
  ASSUME NEW S, NEW n \in Nat, NEW f \in [1 .. n -> S]
  PROVE  f \in Seq(S) /\ Len(f) = n
OBVIOUS

LEMMA SequenceElements ==
  ASSUME NEW S, NEW s \in Seq(S)
  PROVE  \A i \in DOMAIN s : s[i] \in S
OBVIOUS

(* The arguments of an operator are the entries the compiler meant.         *)
LEMMA ArgsWritten ==
  ASSUME document \in DOMAIN Documents, AsWritten(executor), NEW n \in 1 .. Len(written.nodes),
         NEW m, m = n - 1, written.nodes[n].op # "null"
  PROVE  /\ Args(m) = OperatorOf(n).args
         /\ Args(m) \in Seq(0 .. Entries - 1)
         /\ Len(Args(m)) = Len(written.nodes[n].inputs) + written.nodes[n].outputs
<1> DEFINE nodes == written.nodes
           node == nodes[n]
           inputs == node.inputs
           ins == [i \in DOMAIN inputs |-> NumberOf(inputs[i].node_id, inputs[i].index)]
           outs == [i \in 1 .. node.outputs |-> NumberOf(n - 1, i - 1)]
<1>1. nodes \in Seq(GraphNode) /\ Len(nodes) \in Nat /\ DOMAIN nodes = 1 .. Len(nodes)
  BY DocumentWritten DEF NodesWritten
<1>2. node \in GraphNode
  BY <1>1
<1>3. inputs \in Seq(NodeEntry) /\ node.outputs \in Nat /\ Len(inputs) \in Nat
      /\ DOMAIN inputs = 1 .. Len(inputs)
  BY <1>2 DEF GraphNode
<1>4. m + 1 = n /\ m \in Nat /\ n - 1 = m
  BY <1>1
<1>5. /\ executor.nodes[n].inputs = inputs
      /\ executor.nodes[n].param.num_outputs = node.outputs
  <2>1. NodeAsWritten(executor.nodes[n], node)
    BY <1>1 DEF AsWritten
  <2> QED  BY <2>1 DEF NodeAsWritten
<1>6. ASSUME NEW i \in DOMAIN inputs
      PROVE  /\ GetEntryId(inputs[i].node_id, inputs[i].index)
                  = NumberOf(inputs[i].node_id, inputs[i].index)
             /\ NumberOf(inputs[i].node_id, inputs[i].index) \in 0 .. Entries - 1
  <2> DEFINE k == inputs[i].node_id
             index == inputs[i].index
  <2>1. inputs[i] \in NodeEntry
    BY <1>3
  <2>2. k \in Nat /\ index \in Nat
    BY <2>1 DEF NodeEntry
  <2>3. k < Len(nodes) /\ index < nodes[k + 1].outputs
    BY <1>1, DocumentWritten DEF NodesWritten
  <2>4. k + 1 \in 1 .. Len(nodes) /\ (k + 1) - 1 = k
    BY <1>1, <2>2, <2>3
  <2> HIDE DEF k, index
  <2> QED  BY <2>2, <2>3, <2>4, EntryIdWritten DEF k, index
<1>7. ASSUME NEW i \in 1 .. node.outputs
      PROVE  /\ GetEntryId(m, i - 1) = NumberOf(n - 1, i - 1)
             /\ NumberOf(n - 1, i - 1) \in 0 .. Entries - 1
  <2>1. i - 1 \in Nat /\ i - 1 < node.outputs
    BY <1>3
  <2> QED  BY <1>4, <2>1, EntryIdWritten
<1> DEFINE got == [i \in DOMAIN inputs |-> GetEntryId(inputs[i].node_id, inputs[i].index)]
           made == [i \in 1 .. node.outputs |-> GetEntryId(m, i - 1)]
<1>8. Args(m) = got \o made
  BY <1>4, <1>5 DEF Args
<1>9. got = ins /\ made = outs
  <2> HIDE DEF node, inputs
  <2> QED  BY <1>6, <1>7
<1>10. OperatorOf(n).args = ins \o outs
  BY DEF OperatorOf
<1>11. ins \in [1 .. Len(inputs) -> 0 .. Entries - 1] /\ outs \in [1 .. node.outputs -> 0 .. Entries - 1]
  <2> HIDE DEF node, inputs
  <2> QED  BY <1>3, <1>6, <1>7
<1> HIDE DEF ins, outs, got, made
<1>12. /\ ins \in Seq(0 .. Entries - 1) /\ Len(ins) = Len(inputs)
       /\ outs \in Seq(0 .. Entries - 1) /\ Len(outs) = node.outputs
  <2> HIDE DEF node, inputs
  <2> QED  BY <1>3, <1>11, FunctionIsSequence
<1>13. ins \o outs \in Seq(0 .. Entries - 1) /\ Len(ins \o outs) = Len(ins) + Len(outs)
  <2> DEFINE Ids == 0 .. Entries - 1
  <2>1. ins \in Seq(Ids) /\ outs \in Seq(Ids)
    BY <1>12
  <2> HIDE DEF Ids
  <2>2. ins \o outs \in Seq(Ids) /\ Len(ins \o outs) = Len(ins) + Len(outs)
    BY <2>1
  <2> QED  BY <2>2 DEF Ids
<1> QED  BY <1>8, <1>9, <1>10, <1>12, <1>13

-----------------------------------------------------------------------------
(* The invariant.  After Load the executor is as it was written, until it   *)
(* is ready; each operator bound so far is that of its node, on entries     *)
(* that have views, unless the module has no such function.                 *)
Operator ==
  [func : Functions \cup {"null", Garbage}, args : Seq(0 .. Entries - 1) \cup {Garbage}]

Bound(n, op) ==
  LET node == written.nodes[n] IN
  /\ op \in Operator
  /\ node.op = "null" => op = NoOperator
  /\ node.op # "null" /\ node.func \in Functions =>
       op = OperatorOf(n) /\ op.args \in Seq(0 .. Entries - 1)

ViewsMade ==
  /\ DOMAIN data_entry = 0 .. Entries - 1 /\ Len(written.shape) = Entries
  /\ \A e \in DOMAIN data_entry :
       data_entry[e].storage \in DOMAIN pool /\ TensorBytes(e + 1) <= pool[data_entry[e].storage]

OperatorsBound ==
  /\ op_execs \in Seq(Operator) /\ Len(op_execs) <= Len(written.nodes)
  /\ \A n \in 1 .. Len(op_execs) : Bound(n, op_execs[n])

Inv ==
  /\ document \in DOMAIN Documents
  /\ at \in {"storage", "operators", "ready"} => AsWritten(executor)
  /\ at = "failed" => Documents[document].refused
  /\ at \in {"load", "storage"} => op_execs = <<>>
  /\ at \in {"operators", "ready"} => ViewsMade /\ OperatorsBound
  /\ at = "ready" => Len(op_execs) = Len(written.nodes)

(* The parts of the invariant are about the document, what was read of it   *)
(* and what was made of that.                                               *)
LEMMA BoundKept ==
  ASSUME written' = written
  PROVE  Entries' = Entries /\ Operator' = Operator /\ \A n, op : Bound(n, op)' = Bound(n, op)
<1>1. Entries' = Entries
  BY DEF Entries
<1>2. \A n : OperatorOf(n)' = OperatorOf(n)
  BY DEF OperatorOf, NumberOf
<1> QED  BY <1>1, <1>2 DEF Operator, Bound

LEMMA PartsKept ==
  ASSUME document' = document, executor' = executor, pool' = pool, data_entry' = data_entry,
         op_execs' = op_execs
  PROVE  /\ written' = written /\ AsWritten(executor)' = AsWritten(executor)
         /\ ViewsMade' = ViewsMade /\ OperatorsBound' = OperatorsBound
<1>1. written' = written
  BY DEF written
<1>2. Entries' = Entries /\ Operator' = Operator /\ \A n, op : Bound(n, op)' = Bound(n, op)
  BY <1>1, BoundKept
<1>3. AsWritten(executor)' = AsWritten(executor)
  BY <1>1 DEF AsWritten, NodeAsWritten
<1>4. ViewsMade' = ViewsMade
  BY <1>1, <1>2 DEF ViewsMade, TensorBytes
<1>5. OperatorsBound' = OperatorsBound
  BY <1>1, <1>2 DEF OperatorsBound
<1> QED  BY <1>1, <1>3, <1>4, <1>5

LEMMA LoadingKeeps ==
  ASSUME Inv, Loading
  PROVE  Inv'
<1>1. document' = document /\ op_execs' = op_execs /\ op_execs = <<>>
  BY DEF Loading, Inv
<1>2. at' \in {"load", "storage", "misread", "failed"}
  BY DEF Loading
<1>3. at' = "failed" => Documents[document].refused
  BY DEF Loading
<1>4. at' = "storage" => AsWritten(executor)'
  BY <1>1 DEF Loading, AsWritten, written
<1> QED  BY <1>1, <1>2, <1>3, <1>4 DEF Inv

LEMMA SetupStorageKeeps ==
  ASSUME Inv, SetupStorage
  PROVE  Inv'
<1>1. /\ document' = document /\ executor' = executor /\ op_execs' = op_execs /\ op_execs = <<>>
      /\ at' = "operators" /\ AsWritten(executor) /\ document \in DOMAIN Documents
  BY DEF SetupStorage, Inv
<1>2. written' = written /\ AsWritten(executor)' /\ Entries' = Entries
  BY <1>1 DEF written, AsWritten, Entries
<1>3. Entries \in Nat /\ Last(executor.node_row_ptr) = Entries
  BY <1>1, LastRow DEF AsWritten, Entries
<1>4. Len(written.shape) = Entries
  <2>1. written.shape \in [1 .. Entries -> Seq(Nat)]
    BY <1>1, DocumentWritten DEF EntriesWritten, Entries
  <2> QED  BY <1>3, <2>1, FunctionIsSequence
<1>5. DOMAIN data_entry' = 0 .. Entries - 1
  BY <1>3 DEF SetupStorage
<1>6. ASSUME NEW e \in 0 .. Entries - 1
      PROVE  data_entry'[e].storage \in DOMAIN pool' /\ TensorBytes(e + 1) <= pool'[data_entry'[e].storage]
  <2> DEFINE s == executor.attrs.storage_id[e + 1]
  <2>1. e + 1 \in 1 .. Entries
    BY <1>3
  <2>2. data_entry'[e].storage = s
    BY <1>3 DEF SetupStorage
  <2>3. s \in 0 .. PoolEntryCount - 1 /\ TensorBytes(e + 1) <= 4 * Floats(PoolSize(s))
    BY <1>1, <2>1, PoolCovers
  <2>4. pool' = [t \in 0 .. PoolEntryCount - 1 |-> 4 * Floats(PoolSize(t))]
    BY DEF SetupStorage
  <2> HIDE DEF s
  <2>5. s \in DOMAIN pool' /\ pool'[s] = 4 * Floats(PoolSize(s))
    BY <2>3, <2>4
  <2> QED  BY <2>2, <2>3, <2>5
<1>7. ViewsMade'
  BY <1>2, <1>4, <1>5, <1>6 DEF ViewsMade, TensorBytes
<1>8. OperatorsBound'
  <2>1. Len(written.nodes) \in Nat
    BY <1>1, DocumentWritten DEF NodesWritten
  <2> QED  BY <1>1, <1>2, <2>1 DEF OperatorsBound
<1> QED  BY <1>1, <1>2, <1>7, <1>8 DEF Inv

(* A node with an operator is one the executor takes, unless the document   *)
(* was to be refused; what CreateTVMOp leaves is then Bound to the node.    *)
LEMMA NodeTaken ==
  ASSUME document \in DOMAIN Documents, AsWritten(executor), NEW n \in 1 .. Len(written.nodes),
         NEW m, m = n - 1, executor.nodes[n].op # "null", ~Takes(m)
  PROVE  Documents[document].refused
<1> DEFINE node == written.nodes[n]
<1>1. written.nodes \in Seq(GraphNode) /\ Len(written.nodes) \in Nat
      /\ DOMAIN written.nodes = 1 .. Len(written.nodes)
  BY DocumentWritten DEF NodesWritten
<1>2. executor.nodes[n].op = node.op
  BY <1>1 DEF AsWritten, NodeAsWritten
<1>3. Len(Args(m)) = Len(node.inputs) + node.outputs
  BY <1>2, ArgsWritten
<1>4. m + 1 = n
  BY <1>1
<1>5. ~Acceptable(written)
  BY <1>1, <1>2, <1>3, <1>4 DEF Acceptable, Takes
<1> QED  BY <1>5, DocumentWritten

LEMMA CreateTVMOpBinds ==
  ASSUME Inv, at = "operators", NEW n \in 1 .. Len(written.nodes), NEW m, m = n - 1,
         executor.nodes[n].op # "null", NEW op \in CreateTVMOp(m)
  PROVE  Bound(n, op)
<1> DEFINE node == written.nodes[n]
           func == executor.nodes[n].param.func_name
<1>1. document \in DOMAIN Documents /\ AsWritten(executor) /\ OperatorsBound
  BY DEF Inv
<1>2. written.nodes \in Seq(GraphNode) /\ Len(written.nodes) \in Nat /\ m + 1 = n
      /\ DOMAIN written.nodes = 1 .. Len(written.nodes)
  BY <1>1, DocumentWritten DEF NodesWritten
<1>3. NodeAsWritten(executor.nodes[n], node)
  BY <1>1, <1>2 DEF AsWritten
<1>4. node.op # "null" /\ func = node.func
  BY <1>3 DEF NodeAsWritten
<1>5. Args(m) = OperatorOf(n).args /\ Args(m) \in Seq(0 .. Entries - 1)
  BY <1>1, <1>4, ArgsWritten
<1>6. CASE func \in Functions
  <2>1. op = [func |-> func, args |-> Args(m)]
    BY <1>2, <1>6 DEF CreateTVMOp
  <2>2. OperatorOf(n) = [func |-> node.func, args |-> OperatorOf(n).args]
    BY DEF OperatorOf
  <2>3. op = OperatorOf(n)
    BY <1>4, <1>5, <2>1, <2>2
  <2>4. op \in Operator /\ op.args \in Seq(0 .. Entries - 1)
    BY <1>5, <1>6, <2>1 DEF Operator
  <2> QED  BY <1>4, <2>3, <2>4 DEF Bound
<1>7. CASE func \notin Functions
  <2>1. op \in {op_execs[i] : i \in DOMAIN op_execs} \cup {Uninitialized}
    BY <1>2, <1>7 DEF CreateTVMOp
  <2>2. op \in Operator
    <3>1. \A i \in DOMAIN op_execs : op_execs[i] \in Operator
      BY <1>1 DEF OperatorsBound
    <3>2. Uninitialized \in Operator
      BY DEF Uninitialized, Operator
    <3> QED  BY <2>1, <3>1, <3>2
  <2> QED  BY <1>4, <1>7, <2>2 DEF Bound
<1> QED  BY <1>6, <1>7

LEMMA SetupOpExecKeeps ==
  ASSUME Inv, SetupOpExec
  PROVE  Inv'
<1> DEFINE m == Len(op_execs)
           n == m + 1
           op == executor.nodes[n].op
<1>1. /\ document' = document /\ executor' = executor /\ pool' = pool /\ data_entry' = data_entry
      /\ at = "operators" /\ m < Len(executor.nodes)
  BY DEF SetupOpExec
<1>2. AsWritten(executor) /\ document \in DOMAIN Documents /\ ViewsMade /\ OperatorsBound
  BY <1>1 DEF Inv
<1>3. written' = written /\ AsWritten(executor)' /\ ViewsMade' /\ Entries' = Entries
  BY <1>1, <1>2 DEF written, AsWritten, ViewsMade, TensorBytes, Entries
<1>4. /\ written.nodes \in Seq(GraphNode) /\ Len(written.nodes) \in Nat /\ m \in Nat
      /\ n \in 1 .. Len(written.nodes) /\ m = n - 1 /\ DOMAIN written.nodes = 1 .. Len(written.nodes)
  <2>1. written.nodes \in Seq(GraphNode)
    BY <1>2, DocumentWritten DEF NodesWritten
  <2>2. Len(executor.nodes) = Len(written.nodes)
    BY <1>2 DEF AsWritten
  <2>3. op_execs \in Seq(Operator)
    BY <1>2 DEF OperatorsBound
  <2> QED  BY <1>1, <2>1, <2>2, <2>3
<1>5. ASSUME NEW pf, Bound(n, pf), op_execs' = Append(op_execs, pf), at' = at PROVE Inv'
  <2>1. op_execs \in Seq(Operator) /\ pf \in Operator
    BY <1>2, <1>5 DEF OperatorsBound, Bound
  <2>2. /\ op_execs' \in Seq(Operator) /\ Len(op_execs') = n /\ op_execs'[n] = pf
        /\ \A i \in 1 .. m : op_execs'[i] = op_execs[i]
    BY <1>5, <2>1
  <2>3. \A i \in 1 .. n : Bound(i, op_execs'[i])
    <3>1. \A i \in 1 .. n : i \in 1 .. m \/ i = n
      BY <1>4
    <3> QED  BY <1>2, <1>5, <2>2, <3>1 DEF OperatorsBound
  <2>4. Operator' = Operator /\ \A i, x : Bound(i, x)' = Bound(i, x)
    BY <1>3, BoundKept
  <2>5. OperatorsBound'
    BY <1>3, <1>4, <2>2, <2>3, <2>4 DEF OperatorsBound
  <2> QED  BY <1>1, <1>2, <1>3, <1>5, <2>5 DEF Inv
<1>6. CASE op = "null" /\ op_execs' = Append(op_execs, NoOperator) /\ UNCHANGED at
  <2>1. NodeAsWritten(executor.nodes[n], written.nodes[n])
    BY <1>2, <1>4 DEF AsWritten
  <2>2. NoOperator \in Operator
    BY DEF NoOperator, Operator
  <2>3. Bound(n, NoOperator)
    BY <1>6, <2>1, <2>2 DEF Bound, NodeAsWritten
  <2> QED  BY <1>5, <1>6, <2>3
<1>7. CASE op # "null" /\ UNCHANGED at /\ \E pf \in CreateTVMOp(m) : op_execs' = Append(op_execs, pf)
  <2>1. PICK pf \in CreateTVMOp(m) : op_execs' = Append(op_execs, pf)
    BY <1>7
  <2>2. Bound(n, pf)
    <3> HIDE DEF m
    <3> QED  BY <1>1, <1>4, <1>7, CreateTVMOpBinds
  <2> QED  BY <1>5, <1>7, <2>1, <2>2
<1>8. CASE at' = "stopped"
  BY <1>1, <1>2, <1>8 DEF Inv
<1>9. CASE op # "null" /\ ~Takes(m) /\ at' = "failed" /\ UNCHANGED op_execs
  <2>1. Documents[document].refused
    <3> HIDE DEF m
    <3> QED  BY <1>2, <1>4, <1>9, NodeTaken
  <2> QED  BY <1>1, <1>2, <1>9, <2>1 DEF Inv
<1> QED  BY <1>6, <1>7, <1>8, <1>9 DEF SetupOpExec

LEMMA Inductive ==
  Spec => []Inv
<1>1. Init => Inv
  BY DEF Init, Inv
<1>2. Inv /\ [Next]_vars => Inv'
  <2> SUFFICES ASSUME Inv, [Next]_vars PROVE Inv'
    OBVIOUS
  <2>1. CASE Loading
    BY <2>1, LoadingKeeps
  <2>2. CASE NoMemory
    BY <2>2 DEF NoMemory, Inv
  <2>3. CASE SetupStorage
    BY <2>3, SetupStorageKeeps
  <2>4. CASE SetupOpExec
    BY <2>4, SetupOpExecKeeps
  <2>5. CASE SetupEnds
    <3>1. /\ document' = document /\ executor' = executor /\ pool' = pool /\ data_entry' = data_entry
          /\ op_execs' = op_execs /\ at' = "ready" /\ at = "operators"
          /\ Len(op_execs) = Len(written.nodes)
      BY <2>5 DEF SetupEnds, Inv, AsWritten
    <3>2. AsWritten(executor) /\ ViewsMade /\ OperatorsBound /\ document \in DOMAIN Documents
      BY <3>1 DEF Inv
    <3>3. AsWritten(executor)' /\ ViewsMade' /\ written' = written /\ OperatorsBound'
      BY <3>1, <3>2, PartsKept
    <3> QED  BY <3>1, <3>2, <3>3 DEF Inv
  <2>6. CASE UNCHANGED vars
    <3>1. /\ document' = document /\ executor' = executor /\ pool' = pool /\ data_entry' = data_entry
          /\ op_execs' = op_execs /\ at' = at
      BY <2>6 DEF vars
    <3>2. /\ written' = written /\ AsWritten(executor)' = AsWritten(executor)
          /\ ViewsMade' = ViewsMade /\ OperatorsBound' = OperatorsBound
      BY <3>1, PartsKept
    <3> QED  BY <3>1, <3>2 DEF Inv
  <2> QED  BY <2>1, <2>2, <2>3, <2>4, <2>5, <2>6 DEF Next, SetupNext
<1> QED  BY <1>1, <1>2, PTL DEF Spec

(* Every entry has a view whose storage is large enough for it, whichever   *)
(* entries of other sizes and types share it (SetupStorage).                *)
THEOREM StorageSuffices == Spec => []ViewsFit
<1>1. Inv => ViewsFit
  BY DEF Inv, ViewsMade, ViewsFit
<1> QED  BY <1>1, Inductive, PTL

(* Of every graph the executor that is ready runs, for each node whose      *)
(* function the module has, that function on the entries of the node's      *)
(* inputs and outputs, each of which has a view, and only a node it has no  *)
(* use for ends the setup (SetupOpExecs, TVMGraphExecutor_GetEntryId).      *)
THEOREM OperatorsAsCompiled == Spec => []OperatorsAsWritten
<1>1. Inv => OperatorsAsWritten
  <2> SUFFICES ASSUME Inv, at = "ready", NEW n \in DOMAIN written.nodes
               PROVE  LET node == written.nodes[n] IN
                      /\ node.op = "null" => op_execs[n] = NoOperator
                      /\ node.op # "null" /\ node.func \in Functions =>
                           /\ op_execs[n] = OperatorOf(n)
                           /\ \A a \in DOMAIN op_execs[n].args :
                                op_execs[n].args[a] \in DOMAIN data_entry
    BY DEF Inv, OperatorsAsWritten
  <2>1. document \in DOMAIN Documents /\ ViewsMade /\ OperatorsBound
        /\ Len(op_execs) = Len(written.nodes)
    BY DEF Inv
  <2>2. written.nodes \in Seq(GraphNode)
    BY <2>1, DocumentWritten DEF NodesWritten
  <2>3. n \in 1 .. Len(op_execs)
    BY <2>1, <2>2
  <2>4. Bound(n, op_execs[n]) /\ DOMAIN data_entry = 0 .. Entries - 1
    BY <2>1, <2>3 DEF OperatorsBound, ViewsMade
  <2>5. op_execs[n].args \in Seq(0 .. Entries - 1) =>
          \A a \in DOMAIN op_execs[n].args : op_execs[n].args[a] \in 0 .. Entries - 1
    BY SequenceElements
  <2> QED  BY <2>4, <2>5 DEF Bound
<1> QED  BY <1>1, Inductive, PTL
=============================================================================
