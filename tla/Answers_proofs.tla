--------------------------- MODULE Answers_proofs ---------------------------
(***************************************************************************)
(* Lemmas about sequences that are put together of sequences, and about    *)
(* sums of lengths: what a complete access sends, and where the loop of    *)
(* read_sdo_complete looks in it.                                          *)
(*                                                                         *)
(* They need induction over numbers and recursive definitions.  Both are   *)
(* stated with sets and functions: an induction shows that a set contains  *)
(* all numbers, and a recursion follows a function of functions.           *)
(***************************************************************************)
EXTENDS SdoAccess, WellFoundedInduction, TLAPS

\* There is a smallest one in every set of numbers.
LEMMA Smallest ==
  ASSUME NEW T, T \subseteq Nat, T # {}
  PROVE  \E x \in T : \A y \in T : x <= y
<1> DEFINE R == OpToRel(<, Nat)
<1>1. \A x, y \in Nat : <<x, y>> \in R <=> x < y
  BY DEF OpToRel
<1>2. IsWellFoundedOn(R, Nat)
  BY NatLessThanWellFounded DEF OpToRel
<1> HIDE DEF R
<1>3. PICK x \in T : \A y \in T : <<y, x>> \notin R
  BY <1>2, WFMin
<1>4. ASSUME NEW y \in T PROVE x <= y
  <2>1. x \in Nat /\ y \in Nat /\ ~(y < x)
    BY <1>1, <1>3
  <2> QED
    BY <2>1
<1> QED
  BY <1>4

LEMMA MinIsElement == ASSUME NEW T, T \subseteq Nat, T # {} PROVE Min(T) \in T
  BY Smallest, Zenon DEF Min

\* A set that contains 0, and n + 1 with n, contains every number: otherwise
\* there would be a smallest one outside.
LEMMA SetInduction ==
  ASSUME NEW S, 0 \in S, \A n \in Nat : n \in S => n + 1 \in S
  PROVE  \A n \in Nat : n \in S
<1> DEFINE T == Nat \ S
<1> SUFFICES ASSUME T # {} PROVE FALSE
  OBVIOUS
<1>1. PICK x \in T : \A y \in T : x <= y
  <2>1. T \subseteq Nat
    OBVIOUS
  <2> HIDE DEF T
  <2> QED
    BY <2>1, Smallest
<1>2. x \in Nat /\ x # 0 /\ x \notin S
  OBVIOUS
<1>3. x - 1 \in Nat /\ x - 1 \notin S /\ x - 1 < x
  BY <1>2
<1> QED
  BY <1>1, <1>2, <1>3

\* The same up to a bound.
LEMMA BoundedInduction ==
  ASSUME NEW S, NEW m \in Nat, 0 \in S, \A n \in 0..(m - 1) : n \in S => n + 1 \in S
  PROVE  \A n \in 0..m : n \in S
<1> DEFINE T == {n \in Nat : n <= m => n \in S}
<1>1. 0 \in T
  OBVIOUS
<1>2. \A n \in Nat : n \in T => n + 1 \in T
  OBVIOUS
<1> HIDE DEF T
<1>3. \A n \in Nat : n \in T
  BY <1>1, <1>2, SetInduction
<1> QED
  BY <1>3 DEF T

\* A recursion over 1..m in which step[i] makes the next result of the last.
Follows(f, n, A, first, step) ==
  f \in [0..n -> A] /\ f[0] = first /\ \A i \in 1..n : f[i] = step[i][f[i - 1]]

LEMMA Recursion ==
  ASSUME NEW A, NEW m \in Nat, NEW first \in A, NEW step \in [1..m -> [A -> A]]
  PROVE  \E f : Follows(f, m, A, first, step)
<1> USE DEF Follows
<1> DEFINE Partial(n, f) == Follows(f, n, A, first, step)
           S == {n \in 0..m : \E f : Partial(n, f)}
<1>1. 0 \in S
  <2> DEFINE f == [i \in 0..0 |-> first]
  <2>1. f \in [0..0 -> A] /\ f[0] = first /\ 1..0 = {}
    OBVIOUS
  <2>2. Partial(0, f)
    BY <2>1
  <2> HIDE DEF f
  <2> QED
    BY <2>2
<1>2. ASSUME NEW n \in 0..(m - 1), n \in S PROVE n + 1 \in S
  <2>1. PICK f : Partial(n, f)
    BY <1>2
  <2> DEFINE g == [i \in 0..(n + 1) |-> IF i = n + 1 THEN step[n + 1][f[n]] ELSE f[i]]
  <2>2. f[n] \in A /\ n + 1 \in 1..m
    BY <2>1
  <2>3. step[n + 1][f[n]] \in A
    BY <2>2
  <2>4. g \in [0..(n + 1) -> A]
    BY <2>1, <2>3
  <2>5. g[0] = first
    BY <2>1
  <2>6. ASSUME NEW i \in 1..(n + 1) PROVE g[i] = step[i][g[i - 1]]
    <3>1. i - 1 \in 0..n /\ g[i - 1] = f[i - 1]
      OBVIOUS
    <3>2. CASE i = n + 1
      BY <3>1, <3>2
    <3>3. CASE i \in 1..n
      BY <2>1, <3>1, <3>3
    <3> QED
      BY <3>2, <3>3
  <2> HIDE DEF g
  <2>7. Partial(n + 1, g)
    BY <2>4, <2>5, <2>6
  <2> HIDE DEF Partial
  <2> QED
    BY <2>2, <2>7
<1> HIDE DEF S
<1>3. \A n \in 0..m : n \in S
  BY <1>1, <1>2, BoundedInduction
<1>4. \E f : Partial(m, f)
  BY <1>3 DEF S
<1> QED
  BY <1>4

----------------------------------------------------------------------------
(* Sequences of sequences.                                                 *)

\* The parts of a flattened sequence, one after the other.
Flattening(seqs, f, T) ==
  /\ f \in [0..Len(seqs) -> Seq(T)]
  /\ f[0] = <<>>
  /\ \A i \in 1..Len(seqs) : f[i] = f[i - 1] \o seqs[i]

LEMMA Flattens ==
  ASSUME NEW T, NEW seqs \in Seq(Seq(T))
  PROVE  \E f : Flattening(seqs, f, T) /\ FlattenSeq(seqs) = f[Len(seqs)]
<1> DEFINE m == Len(seqs)
           step == [i \in 1..m |-> [q \in Seq(T) |-> q \o seqs[i]]]
<1>1. m \in Nat /\ \A i \in 1..m : seqs[i] \in Seq(T)
  OBVIOUS
<1> HIDE DEF m
<1>2. <<>> \in Seq(T)
  OBVIOUS
<1>3. step \in [1..m -> [Seq(T) -> Seq(T)]]
  <2>1. \A i \in 1..m : \A q \in Seq(T) : q \o seqs[i] \in Seq(T)
    BY <1>1
  <2> QED
    BY <2>1
<1> HIDE DEF step
<1>4. PICK f :
        /\ f \in [0..m -> Seq(T)]
        /\ f[0] = <<>> /\ \A i \in 1..m : f[i] = step[i][f[i - 1]]
  <2> DEFINE A == Seq(T)
             empty == <<>>
  <2>1. m \in Nat /\ empty \in A /\ step \in [1..m -> [A -> A]]
    BY <1>1, <1>2, <1>3
  <2> HIDE DEF A, empty
  <2>2. \E f : Follows(f, m, A, empty, step)
    BY <2>1, Recursion
  <2> QED
    BY <2>2 DEF A, empty, Follows
<1>5. \A i \in 1..m : i - 1 \in 0..m /\ f[i - 1] \in Seq(T)
  BY <1>1, <1>4
<1>6. \A i \in 1..m : f[i] = f[i - 1] \o seqs[i]
  BY <1>4, <1>5 DEF step
<1>7. Flattening(seqs, f, T)
  BY <1>4, <1>6 DEF Flattening, m
<1>8. CASE m = 0
  <2>1. seqs = <<>> /\ FlattenSeq(seqs) = seqs
    BY <1>8 DEF FlattenSeq, m
  <2> QED
    BY <1>4, <1>7, <1>8, <2>1 DEF m
<1>9. CASE m # 0
  <2> DEFINE flatten == CHOOSE g : g = [i \in 1..m |-> IF i = 1 THEN seqs[i] ELSE g[i - 1] \o seqs[i]]
             h == [i \in 1..m |-> f[i]]
  <2>1. h = [i \in 1..m |-> IF i = 1 THEN seqs[i] ELSE h[i - 1] \o seqs[i]]
    <3> SUFFICES ASSUME NEW i \in 1..m
                 PROVE  f[i] = IF i = 1 THEN seqs[i] ELSE h[i - 1] \o seqs[i]
      OBVIOUS
    <3>1. CASE i = 1
      <4>1. <<>> \o seqs[1] = seqs[1]
        BY <1>1, <3>1
      <4>2. f[1] = f[0] \o seqs[1]
        <5>1. 1 \in 1..m /\ 1 - 1 = 0
          BY <3>1
        <5> QED
          BY <1>6, <5>1
      <4> QED
        BY <1>4, <3>1, <4>1, <4>2
    <3>2. CASE i # 1
      <4>1. i - 1 \in 1..m
        BY <1>1, <3>2
      <4> QED
        BY <1>6, <3>2, <4>1
    <3> QED
      BY <3>1, <3>2
  <2>2. flatten = [i \in 1..m |-> IF i = 1 THEN seqs[i] ELSE flatten[i - 1] \o seqs[i]]
    <3> HIDE DEF h
    <3> QED
      BY <2>1, Zenon
  <2>3. FlattenSeq(seqs) = flatten[m]
    BY <1>9, Zenon DEF FlattenSeq, m
  <2> HIDE DEF flatten
  <2>4. flatten[1] = f[1]
    <3>1. 1 \in 1..m /\ 1 - 1 = 0
      BY <1>1, <1>9
    <3>2. h[1] = seqs[1] /\ h[1] = f[1]
      BY <2>1, <3>1
    <3>3. flatten[1] = seqs[1]
      BY <2>2, <3>1
    <3> QED
      BY <3>2, <3>3
  <2> DEFINE S == {i \in 0..m : i # 0 => flatten[i] = f[i]}
  <2>5. 0 \in S
    BY <1>1
  <2>6. ASSUME NEW i \in 0..(m - 1), i \in S PROVE i + 1 \in S
    <3>1. CASE i = 0
      BY <1>1, <1>9, <2>4, <3>1
    <3>2. CASE i # 0
      <4>1. i + 1 \in 1..m /\ i + 1 # 1 /\ (i + 1) - 1 = i
        BY <1>1, <3>2
      <4>2. flatten[i + 1] = flatten[i] \o seqs[i + 1]
        BY <2>2, <4>1
      <4>3. f[i + 1] = f[i] \o seqs[i + 1]
        BY <1>6, <4>1
      <4>4. flatten[i] = f[i] /\ i + 1 \in 0..m
        BY <1>1, <2>6, <3>2
      <4>5. flatten[i + 1] = f[i + 1]
        BY <4>2, <4>3, <4>4
      <4> QED
        BY <4>4, <4>5
    <3> QED
      BY <3>1, <3>2
  <2> HIDE DEF S
  <2>7. m \in S
    <3>1. \A i \in 0..m : i \in S
      BY <1>1, <2>5, <2>6, BoundedInduction
    <3> QED
      BY <1>1, <3>1
  <2>8. flatten[m] = f[m]
    BY <1>9, <2>7 DEF S
  <2> QED
    BY <1>7, <2>3, <2>8 DEF m
<1> QED
  BY <1>8, <1>9 DEF m

LEMMA FlattenedType ==
  ASSUME NEW T, NEW seqs \in Seq(Seq(T)) PROVE FlattenSeq(seqs) \in Seq(T)
<1>1. PICK f : Flattening(seqs, f, T) /\ FlattenSeq(seqs) = f[Len(seqs)]
  BY Flattens
<1>2. Len(seqs) \in 0..Len(seqs)
  OBVIOUS
<1> QED
  BY <1>1, <1>2 DEF Flattening

LEMMA FlatteningSteps ==
  ASSUME NEW T, NEW seqs \in Seq(Seq(T)), NEW f, Flattening(seqs, f, T),
         NEW i \in 0..(Len(seqs) - 1)
  PROVE  /\ i + 1 \in 1..Len(seqs) /\ seqs[i + 1] \in Seq(T)
         /\ f[i] \in Seq(T) /\ f[i + 1] \in Seq(T)
         /\ f[i + 1] = f[i] \o seqs[i + 1]
         /\ Len(f[i + 1]) = Len(f[i]) + Len(seqs[i + 1])
<1>1. i + 1 \in 1..Len(seqs) /\ (i + 1) - 1 = i /\ i \in 0..Len(seqs)
  OBVIOUS
<1>2. seqs[i + 1] \in Seq(T)
  BY <1>1
<1>3. f[i] \in Seq(T) /\ f[i + 1] = f[i] \o seqs[i + 1]
  BY <1>1 DEF Flattening
<1> QED
  BY <1>1, <1>2, <1>3

\* Parts of length b at most make a sequence of length b * Len(seqs) at most.
LEMMA FlattenedBound ==
  ASSUME NEW T, NEW seqs \in Seq(Seq(T)), NEW b \in Nat,
         \A i \in 1..Len(seqs) : Len(seqs[i]) <= b
  PROVE  Len(FlattenSeq(seqs)) <= b * Len(seqs)
<1>1. PICK f : Flattening(seqs, f, T) /\ FlattenSeq(seqs) = f[Len(seqs)]
  BY Flattens
<1> DEFINE S == {i \in 0..Len(seqs) : Len(f[i]) <= b * i}
<1>2. 0 \in S
  <2>1. Len(f[0]) = 0 /\ b * 0 = 0 /\ 0 \in 0..Len(seqs)
    BY <1>1 DEF Flattening
  <2> QED
    BY <2>1
<1>3. ASSUME NEW i \in 0..(Len(seqs) - 1), i \in S PROVE i + 1 \in S
  <2>1. /\ i + 1 \in 1..Len(seqs) /\ seqs[i + 1] \in Seq(T) /\ f[i] \in Seq(T)
        /\ Len(f[i + 1]) = Len(f[i]) + Len(seqs[i + 1])
    BY <1>1, FlatteningSteps
  <2>2. Len(f[i]) \in Nat /\ Len(seqs[i + 1]) \in Nat /\ i \in Nat
    BY <2>1
  <2>3. Len(f[i]) <= b * i /\ Len(seqs[i + 1]) <= b
    BY <1>3, <2>1
  <2>4. \A x, y, z \in Nat : x <= b * z /\ y <= b => x + y <= b * (z + 1)
    OBVIOUS
  <2>5. Len(f[i + 1]) <= b * (i + 1)
    BY <2>1, <2>2, <2>3, <2>4
  <2>6. i + 1 \in 0..Len(seqs)
    BY <2>1
  <2> QED
    BY <2>5, <2>6
<1> HIDE DEF S
<1>4. Len(seqs) \in Nat /\ Len(seqs) \in 0..Len(seqs)
  OBVIOUS
<1>5. Len(seqs) \in S
  BY <1>2, <1>3, <1>4, BoundedInduction
<1> QED
  BY <1>1, <1>5 DEF S

LEMMA Concatenation ==
  ASSUME NEW T, NEW a \in Seq(T), NEW b \in Seq(T)
  PROVE  Len(a) <= Len(a \o b) /\ \A k \in 1..Len(a) : (a \o b)[k] = a[k]
OBVIOUS

\* What follows does not change what is there.
LEMMA FlatteningGrows ==
  ASSUME NEW T, NEW seqs \in Seq(Seq(T)), NEW f, Flattening(seqs, f, T),
         NEW j \in 0..Len(seqs), NEW i \in 0..j
  PROVE  Len(f[i]) <= Len(f[j]) /\ \A k \in 1..Len(f[i]) : f[j][k] = f[i][k]
<1> DEFINE Extends(n) ==
             Len(f[i]) <= Len(f[n]) /\ \A k \in 1..Len(f[i]) : f[n][k] = f[i][k]
           S == {n \in 0..Len(seqs) : i <= n => Extends(n)}
<1>1. i \in 0..Len(seqs) /\ Len(seqs) \in Nat /\ f[i] \in Seq(T)
  <2>1. Len(seqs) \in Nat
    OBVIOUS
  <2>2. i \in 0..Len(seqs)
    BY <2>1
  <2> QED
    BY <2>1, <2>2 DEF Flattening
<1>2. 0 \in S
  <2>1. 0 \in 0..Len(seqs)
    BY <1>1
  <2>2. i <= 0 => i = 0
    BY <1>1
  <2>3. Len(f[i]) <= Len(f[i])
    BY <1>1
  <2> QED
    BY <2>1, <2>2, <2>3
<1>3. ASSUME NEW n \in 0..(Len(seqs) - 1), n \in S PROVE n + 1 \in S
  <2>1. /\ n + 1 \in 1..Len(seqs) /\ seqs[n + 1] \in Seq(T) /\ f[n] \in Seq(T)
        /\ f[n + 1] = f[n] \o seqs[n + 1]
        /\ Len(f[n + 1]) = Len(f[n]) + Len(seqs[n + 1])
    BY FlatteningSteps
  <2>2. n + 1 \in 0..Len(seqs)
    BY <2>1
  <2>3. CASE i = n + 1
    <3>1. Len(f[i]) <= Len(f[i])
      BY <1>1
    <3> QED
      BY <2>2, <2>3, <3>1
  <2>4. CASE i <= n
    <3>1. Extends(n)
      BY <1>3, <2>4
    <3>2. Len(f[n]) <= Len(f[n + 1]) /\ \A k \in 1..Len(f[n]) : f[n + 1][k] = f[n][k]
      <4>1. \A a, b \in Seq(T) :
              Len(a) <= Len(a \o b) /\ \A k \in 1..Len(a) : (a \o b)[k] = a[k]
        BY Concatenation
      <4> QED
        BY <2>1, <4>1
    <3>3. Len(f[n]) \in Nat /\ Len(f[n + 1]) \in Nat /\ Len(f[i]) \in Nat
      <4>1. f[n] \in Seq(T) /\ f[n + 1] \in Seq(T)
        BY FlatteningSteps
      <4>2. \A a \in Seq(T) : Len(a) \in Nat
        OBVIOUS
      <4> QED
        BY <1>1, <4>1, <4>2
    <3>4. Len(f[i]) <= Len(f[n + 1])
      BY <3>1, <3>2, <3>3
    <3>5. ASSUME NEW k \in 1..Len(f[i]) PROVE f[n + 1][k] = f[i][k]
      <4>1. k \in 1..Len(f[n])
        BY <3>1, <3>3
      <4> QED
        BY <3>1, <3>2, <4>1
    <3> QED
      BY <2>2, <3>4, <3>5
  <2>5. CASE i > n + 1
    BY <1>1, <2>2, <2>5
  <2> QED
    BY <1>1, <2>3, <2>4, <2>5
<1> HIDE DEF S
<1>4. j \in S
  BY <1>1, <1>2, <1>3, BoundedInduction
<1> QED
  BY <1>4 DEF S

----------------------------------------------------------------------------
(* The positions of the loop.                                              *)

\* The lengths of the entries are numbers.
Counted(entries) ==
  /\ Len(entries) \in Nat /\ DOMAIN entries = 1..Len(entries)
  /\ \A i \in 1..Len(entries) : Cnt(entries[i]) \in Nat

LEMMA Positions ==
  ASSUME NEW entries, Counted(entries)
  PROVE  /\ \A j \in 1..(Len(entries) + 1) : BytePos(entries, j) \in Nat
         /\ BytePos(entries, 1) = 0
         /\ \A j \in 1..Len(entries) : BytePos(entries, j + 1) = EndPos(entries, j)
<1> DEFINE m == Len(entries)
           step == [i \in 1..m |-> [n \in Nat |-> n + Cnt(entries[i])]]
<1>1. m \in Nat /\ \A i \in 1..m : Cnt(entries[i]) \in Nat
  BY DEF Counted
<1> HIDE DEF m
<1>2. step \in [1..m -> [Nat -> Nat]]
  BY <1>1
<1> HIDE DEF step
<1>3. PICK f : Follows(f, m, Nat, 0, step)
  BY <1>1, <1>2, Recursion
<1>4. f \in [0..m -> Nat] /\ f[0] = 0
  BY <1>3 DEF Follows
<1>5. ASSUME NEW i \in 1..m
      PROVE  i - 1 \in 0..m /\ f[i - 1] \in Nat /\ f[i] = f[i - 1] + Cnt(entries[i])
  <2>1. i - 1 \in 0..m
    BY <1>1
  <2>2. f[i] = step[i][f[i - 1]] /\ f[i - 1] \in Nat
    BY <1>3, <2>1 DEF Follows
  <2> QED
    BY <2>1, <2>2 DEF step
<1> DEFINE pos == CHOOSE g : g = [i \in 0..m |-> IF i = 0 THEN 0 ELSE g[i - 1] + Cnt(entries[i])]
<1>6. f = [i \in 0..m |-> IF i = 0 THEN 0 ELSE f[i - 1] + Cnt(entries[i])]
  <2>1. \A i \in 0..m : f[i] = IF i = 0 THEN 0 ELSE f[i - 1] + Cnt(entries[i])
    BY <1>1, <1>4, <1>5
  <2> QED
    BY <1>4, <2>1
<1>7. pos = [i \in 0..m |-> IF i = 0 THEN 0 ELSE pos[i - 1] + Cnt(entries[i])]
  BY <1>6, Zenon
<1>8. \A j : BytePos(entries, j) = pos[j - 1]
  BY Zenon DEF BytePos, m
<1> HIDE DEF pos
<1> DEFINE S == {n \in 0..m : pos[n] \in Nat}
<1>9. pos[0] = 0 /\ 0 \in S
  BY <1>1, <1>7
<1>10. ASSUME NEW n \in 0..(m - 1) PROVE pos[n + 1] = pos[n] + Cnt(entries[n + 1])
  <2>1. n + 1 \in 0..m /\ n + 1 # 0 /\ (n + 1) - 1 = n
    BY <1>1
  <2> QED
    BY <1>7, <2>1
<1>11. ASSUME NEW n \in 0..(m - 1), n \in S PROVE n + 1 \in S
  <2>1. n + 1 \in 0..m /\ n + 1 \in 1..m
    BY <1>1
  <2> QED
    BY <1>1, <1>10, <1>11, <2>1
<1> HIDE DEF S
<1>12. \A n \in 0..m : n \in S
  BY <1>1, <1>9, <1>11, BoundedInduction
<1>13. ASSUME NEW j \in 1..(m + 1) PROVE BytePos(entries, j) \in Nat
  <2>1. j - 1 \in 0..m
    BY <1>1
  <2> QED
    BY <1>8, <1>12, <2>1 DEF S
<1>14. BytePos(entries, 1) = 0
  BY <1>8, <1>9
<1>15. ASSUME NEW j \in 1..m PROVE BytePos(entries, j + 1) = EndPos(entries, j)
  <2>1. j - 1 \in 0..(m - 1) /\ (j - 1) + 1 = j /\ (j + 1) - 1 = j
    BY <1>1
  <2>2. BytePos(entries, j + 1) = pos[j] /\ BytePos(entries, j) = pos[j - 1]
    BY <1>8, <2>1
  <2>3. pos[j] = pos[j - 1] + Cnt(entries[j])
    BY <1>10, <2>1
  <2> QED
    BY <2>2, <2>3 DEF EndPos
<1> QED
  BY <1>13, <1>14, <1>15 DEF m

LEMMA PositionTypes ==
  ASSUME NEW entries, Counted(entries), NEW j \in 1..Len(entries)
  PROVE  /\ BytePos(entries, j) \in Nat /\ Cnt(entries[j]) \in Nat
         /\ EndPos(entries, j) \in Nat /\ BytePos(entries, j) <= EndPos(entries, j)
<1>1. j \in 1..(Len(entries) + 1)
  BY DEF Counted
<1>2. BytePos(entries, j) \in Nat /\ Cnt(entries[j]) \in Nat
  BY <1>1, Positions DEF Counted
<1> QED
  BY <1>2 DEF EndPos

\* The position of an entry is not behind the part of the answer that begins
\* with it, if the parts before are at least as long as described; and it is at
\* its beginning, if they are as long as described.
LEMMA PositionsInFlattening ==
  ASSUME NEW T, NEW seqs \in Seq(Seq(T)), NEW f, Flattening(seqs, f, T),
         NEW entries, Counted(entries), Len(entries) = Len(seqs),
         NEW j \in 0..Len(seqs)
  PROVE  /\ (\A i \in 1..j : Cnt(entries[i]) <= Len(seqs[i])) =>
              BytePos(entries, j + 1) <= Len(f[j])
         /\ (\A i \in 1..j : Cnt(entries[i]) = Len(seqs[i])) =>
              BytePos(entries, j + 1) = Len(f[j])
<1> DEFINE S == {n \in 0..Len(seqs) :
                   /\ (\A i \in 1..n : Cnt(entries[i]) <= Len(seqs[i])) =>
                        BytePos(entries, n + 1) <= Len(f[n])
                   /\ (\A i \in 1..n : Cnt(entries[i]) = Len(seqs[i])) =>
                        BytePos(entries, n + 1) = Len(f[n])}
<1>1. Len(seqs) \in Nat
  OBVIOUS
<1>2. 0 \in S
  <2>1. f[0] = <<>> /\ Len(<<>>) = 0 /\ 0 + 1 = 1
    BY DEF Flattening
  <2>2. BytePos(entries, 1) = 0
    BY Positions
  <2> QED
    BY <1>1, <2>1, <2>2
<1>3. ASSUME NEW n \in 0..(Len(seqs) - 1), n \in S PROVE n + 1 \in S
  <2>1. /\ n + 1 \in 1..Len(seqs) /\ seqs[n + 1] \in Seq(T) /\ f[n] \in Seq(T)
        /\ Len(f[n + 1]) = Len(f[n]) + Len(seqs[n + 1])
    BY FlatteningSteps
  <2>2. Len(f[n]) \in Nat /\ Len(seqs[n + 1]) \in Nat
    BY <2>1
  <2>3. /\ BytePos(entries, (n + 1) + 1) = EndPos(entries, n + 1)
        /\ EndPos(entries, n + 1) = BytePos(entries, n + 1) + Cnt(entries[n + 1])
    BY <2>1, Positions DEF EndPos
  <2>4. BytePos(entries, n + 1) \in Nat /\ Cnt(entries[n + 1]) \in Nat
    BY <2>1, PositionTypes
  <2>5. n \in Nat /\ n + 1 \in 0..Len(seqs) /\ n + 1 \in 1..(n + 1)
        /\ \A i \in 1..n : i \in 1..(n + 1)
    BY <1>1
  <2>6. ASSUME \A i \in 1..(n + 1) : Cnt(entries[i]) <= Len(seqs[i])
        PROVE  BytePos(entries, (n + 1) + 1) <= Len(f[n + 1])
    <3>1. BytePos(entries, n + 1) <= Len(f[n])
      BY <1>3, <2>5, <2>6
    <3>2. Cnt(entries[n + 1]) <= Len(seqs[n + 1])
      BY <2>5, <2>6
    <3>3. \A p, c, l, q \in Nat : p <= l /\ c <= q => p + c <= l + q
      OBVIOUS
    <3> QED
      BY <2>1, <2>2, <2>3, <2>4, <3>1, <3>2, <3>3
  <2>7. ASSUME \A i \in 1..(n + 1) : Cnt(entries[i]) = Len(seqs[i])
        PROVE  BytePos(entries, (n + 1) + 1) = Len(f[n + 1])
    <3>1. BytePos(entries, n + 1) = Len(f[n])
      BY <1>3, <2>5, <2>7
    <3>2. Cnt(entries[n + 1]) = Len(seqs[n + 1])
      BY <2>5, <2>7
    <3> QED
      BY <2>1, <2>3, <3>1, <3>2
  <2> QED
    BY <2>5, <2>6, <2>7
<1> HIDE DEF S
<1>4. j \in S
  BY <1>1, <1>2, <1>3, BoundedInduction
<1> QED
  BY <1>4 DEF S

\* No entry is described beyond the end of an answer whose parts are at least as
\* long as described.
LEMMA EndsWithin ==
  ASSUME NEW T, NEW seqs \in Seq(Seq(T)),
         NEW entries, Counted(entries), Len(entries) = Len(seqs),
         \A i \in 1..Len(seqs) : Cnt(entries[i]) <= Len(seqs[i]),
         NEW j \in 1..Len(entries)
  PROVE  EndPos(entries, j) <= Len(FlattenSeq(seqs))
<1>1. PICK f : Flattening(seqs, f, T) /\ FlattenSeq(seqs) = f[Len(seqs)]
  BY Flattens
<1>2. Len(seqs) \in Nat /\ j \in 0..Len(seqs) /\ Len(seqs) \in 0..Len(seqs)
  OBVIOUS
<1>3. BytePos(entries, j + 1) <= Len(f[j])
  <2>1. \A i \in 1..j : i \in 1..Len(seqs)
    BY <1>2
  <2> QED
    BY <1>1, <1>2, <2>1, PositionsInFlattening
<1>4. BytePos(entries, j + 1) = EndPos(entries, j) /\ EndPos(entries, j) \in Nat
  BY Positions, PositionTypes
<1>5. Len(f[j]) <= Len(f[Len(seqs)])
  BY <1>1, <1>2, FlatteningGrows
<1>6. Len(f[j]) \in Nat /\ Len(f[Len(seqs)]) \in Nat
  <2>1. \A a \in Seq(T) : Len(a) \in Nat
    OBVIOUS
  <2> QED
    BY <1>1, <1>2, <2>1 DEF Flattening
<1> QED
  BY <1>1, <1>3, <1>4, <1>5, <1>6

LEMMA SliceOfConcatenation ==
  ASSUME NEW T, NEW a \in Seq(T), NEW b \in Seq(T)
  PROVE  \A k \in 1..Len(b) : (a \o b)[Len(a) + k] = b[k]
OBVIOUS

\* The slice of an entry is its part of the answer, if the parts up to it are as
\* long as described.
LEMMA SliceIsPart ==
  ASSUME NEW T, NEW seqs \in Seq(Seq(T)),
         NEW entries, Counted(entries), Len(entries) = Len(seqs),
         NEW j \in 1..Len(entries),
         \A i \in 1..j : Cnt(entries[i]) = Len(seqs[i])
  PROVE  SubSeq(FlattenSeq(seqs), BytePos(entries, j) + 1, EndPos(entries, j)) = seqs[j]
<1> DEFINE raw == FlattenSeq(seqs)
           part == seqs[j]
<1>1. PICK f : Flattening(seqs, f, T) /\ raw = f[Len(seqs)]
  BY Flattens
<1> DEFINE before == f[j - 1]
           through == f[j]
           at == Len(before)
           len == Len(part)
<1>2. Len(seqs) \in Nat /\ j \in 0..Len(seqs) /\ Len(seqs) \in 0..Len(seqs)
      /\ j - 1 \in 0..(Len(seqs) - 1) /\ j - 1 \in 0..Len(seqs) /\ (j - 1) + 1 = j
  OBVIOUS
<1>3. /\ part \in Seq(T) /\ before \in Seq(T) /\ through \in Seq(T)
      /\ through = before \o part
      /\ Len(through) = at + len
  BY <1>1, <1>2, FlatteningSteps
<1>4. at \in Nat /\ len \in Nat
  BY <1>3
<1>5. BytePos(entries, j) = at
  <2>1. \A i \in 1..(j - 1) : i \in 1..j
    BY <1>2
  <2>2. \A i \in 0..Len(seqs) :
          (\A k \in 1..i : Cnt(entries[k]) = Len(seqs[k])) => BytePos(entries, i + 1) = Len(f[i])
    <3> HIDE DEF raw, part, before, through
    <3> QED
      BY <1>1, PositionsInFlattening
  <2>3. BytePos(entries, (j - 1) + 1) = Len(f[j - 1])
    <3> HIDE DEF raw, part, before, through
    <3> QED
      BY <1>2, <2>1, <2>2
  <2> QED
    BY <1>2, <2>3
<1>6. EndPos(entries, j) = at + len
  <2>1. Cnt(entries[j]) = len
    BY <1>2
  <2> QED
    BY <1>5, <2>1 DEF EndPos
<1>7. \A k \in 1..(at + len) : raw[k] = through[k]
  <2>1. \A k \in 1..Len(f[j]) : f[Len(seqs)][k] = f[j][k]
    <3> HIDE DEF raw, part, before, through
    <3>1. \A a \in 0..Len(seqs) : \A i \in 0..a : \A k \in 1..Len(f[i]) : f[a][k] = f[i][k]
      BY <1>1, FlatteningGrows
    <3> QED
      BY <1>2, <3>1
  <2> HIDE DEF raw, part, at, len
  <2> QED
    BY <1>1, <1>3, <2>1
<1> HIDE DEF raw, part, before, through
<1>8. \A k \in 1..len : through[at + k] = part[k]
  BY <1>3, SliceOfConcatenation
<1>9. \A k \in 1..len : raw[at + k] = part[k]
  <2> HIDE DEF at, len
  <2>1. \A k \in 1..len : at + k \in 1..(at + len)
    BY <1>4
  <2> QED
    BY <1>7, <1>8, <2>1
<1>10. part = [k \in 1..len |-> part[k]]
  BY <1>3
<1> HIDE DEF at, len, raw, part
<1>11. SubSeq(raw, at + 1, at + len) = [k \in 1..len |-> raw[at + k]]
  <2>1. \A x, y \in Nat : (x + y) - (x + 1) + 1 = y /\ \A k \in 1..y : x + 1 + k - 1 = x + k
    OBVIOUS
  <2> QED
    BY <1>4, <2>1
<1> QED
  BY <1>5, <1>6, <1>9, <1>10, <1>11 DEF raw, part

----------------------------------------------------------------------------
(* The answer to a complete access, and what becomes of it.                *)

\* The parts a slave sends: the contents of the first n entries, maybe with a
\* byte more behind the first one.
Parts(contents, n, padded) ==
  SubSeq(IF padded /\ n > 1 THEN [contents EXCEPT ![1] = Append(@, {})] ELSE contents, 1, n)

LEMMA SentParts ==
  ASSUME NEW contents \in Seq(Seq(Byte)), NEW n \in 1..Len(contents), NEW padded \in BOOLEAN
  PROVE  /\ Parts(contents, n, padded) \in Seq(Seq(Byte))
         /\ Len(Parts(contents, n, padded)) = n
         /\ \A i \in 1..n : Len(contents[i]) <= Len(Parts(contents, n, padded)[i])
         /\ ~(padded /\ n > 1) => \A i \in 1..n : Parts(contents, n, padded)[i] = contents[i]
         /\ CompleteAnswer(contents, n, padded) = FlattenSeq(Parts(contents, n, padded))
         /\ CompleteAnswer(contents, n, padded) \in Seq(Byte)
<1> DEFINE aligned == [contents EXCEPT ![1] = Append(@, {})]
           sent == IF padded /\ n > 1 THEN aligned ELSE contents
<1>1. Len(contents) \in Nat /\ n \in Nat /\ n >= 1 /\ 1 \in 1..Len(contents)
  OBVIOUS
<1>2. contents[1] \in Seq(Byte) /\ {} \in Byte
  BY <1>1 DEF Byte
<1>3. Append(contents[1], {}) \in Seq(Byte) /\ Len(contents[1]) <= Len(Append(contents[1], {}))
  <2>1. \A q \in Seq(Byte) : Append(q, {}) \in Seq(Byte) /\ Len(q) <= Len(Append(q, {}))
    BY <1>2
  <2> QED
    BY <1>2, <2>1
<1>4. /\ aligned \in Seq(Seq(Byte)) /\ Len(aligned) = Len(contents)
      /\ \A i \in 1..Len(contents) : Len(contents[i]) <= Len(aligned[i])
  <2>1. \A i \in 1..Len(contents) :
          aligned[i] = IF i = 1 THEN Append(contents[1], {}) ELSE contents[i]
    BY <1>1
  <2>2. DOMAIN aligned = 1..Len(contents)
    OBVIOUS
  <2>3. ASSUME NEW i \in 1..Len(contents)
        PROVE  aligned[i] \in Seq(Byte) /\ Len(contents[i]) <= Len(aligned[i])
    <3>1. contents[i] \in Seq(Byte) /\ Len(contents[i]) \in Nat
      OBVIOUS
    <3>2. aligned[i] = IF i = 1 THEN Append(contents[1], {}) ELSE contents[i]
      BY <2>1
    <3> HIDE DEF aligned
    <3>3. CASE i = 1
      BY <1>3, <3>2, <3>3
    <3>4. CASE i # 1
      <4>1. aligned[i] = contents[i]
        BY <3>2, <3>4
      <4>2. Len(contents[i]) <= Len(contents[i])
        BY <3>1
      <4> QED
        BY <3>1, <4>1, <4>2
    <3> QED
      BY <3>3, <3>4
  <2>4. aligned = [i \in 1..Len(contents) |-> aligned[i]]
    <3>1. DOMAIN contents = 1..Len(contents)
      OBVIOUS
    <3>2. aligned = [i \in 1..Len(contents) |-> IF i = 1 THEN Append(contents[1], {}) ELSE contents[i]]
      BY <3>1
    <3> QED
      BY <3>2
  <2> HIDE DEF aligned
  <2> QED
    BY <1>1, <2>2, <2>3, <2>4
<1> HIDE DEF aligned
<1>5. /\ sent \in Seq(Seq(Byte)) /\ Len(sent) = Len(contents)
      /\ \A i \in 1..Len(contents) : Len(contents[i]) <= Len(sent[i])
      /\ ~(padded /\ n > 1) => sent = contents
  <2>1. \A i \in 1..Len(contents) : Len(contents[i]) <= Len(contents[i])
    <3>1. \A i \in 1..Len(contents) : Len(contents[i]) \in Nat
      OBVIOUS
    <3> QED
      BY <3>1
  <2> QED
    BY <1>4, <2>1
<1>6. Parts(contents, n, padded) = SubSeq(sent, 1, n)
  BY DEF Parts, aligned
<1> HIDE DEF sent
<1>7. /\ SubSeq(sent, 1, n) \in Seq(Seq(Byte)) /\ Len(SubSeq(sent, 1, n)) = n
      /\ \A i \in 1..n : SubSeq(sent, 1, n)[i] = sent[i]
  BY <1>1, <1>5
<1>8. CompleteAnswer(contents, n, padded) = FlattenSeq(Parts(contents, n, padded))
  BY DEF CompleteAnswer, Parts
<1>9. CompleteAnswer(contents, n, padded) \in Seq(Byte)
  BY <1>6, <1>7, <1>8, FlattenedType
<1>10. \A i \in 1..n : i \in 1..Len(contents)
  BY <1>1
<1> QED
  BY <1>5, <1>6, <1>7, <1>8, <1>9, <1>10

\* There is a largest of the lengths.
LEMMA LargestCnt ==
  ASSUME NEW entries, Counted(entries)
  PROVE  /\ MaxCnt(entries) \in Nat
         /\ \A j \in 1..Len(entries) : Cnt(entries[j]) <= MaxCnt(entries)
<1> DEFINE m == Len(entries)
           Lengths(n) == {Cnt(entries[j]) : j \in 1..n} \cup {0}
           Largest(n, x) == x \in Lengths(n) /\ \A y \in Lengths(n) : x >= y
           S == {n \in 0..m : \E x \in Nat : Largest(n, x)}
<1>1. m \in Nat /\ \A i \in 1..m : Cnt(entries[i]) \in Nat
  BY DEF Counted
<1>2. 0 \in S
  BY <1>1
<1>3. ASSUME NEW n \in 0..(m - 1), n \in S PROVE n + 1 \in S
  <2>1. PICK x \in Nat : Largest(n, x)
    BY <1>3
  <2> DEFINE c == Cnt(entries[n + 1])
  <2>2. n \in Nat /\ n + 1 \in 1..m /\ n + 1 \in 0..m /\ c \in Nat
    BY <1>1
  <2>3. 1..(n + 1) = (1..n) \cup {n + 1}
    BY <2>2
  <2>4. Lengths(n + 1) = Lengths(n) \cup {c}
    BY <2>3
  <2> HIDE DEF Lengths, c
  <2>5. CASE c <= x
    <3>1. Largest(n + 1, x)
      BY <2>1, <2>2, <2>4, <2>5
    <3> QED
      BY <2>2, <3>1
  <2>6. CASE x < c
    <3>1. \A y \in Lengths(n) : y \in Nat
      BY <1>1, <2>2 DEF Lengths
    <3>2. Largest(n + 1, c)
      BY <2>1, <2>2, <2>4, <2>6, <3>1
    <3> QED
      BY <2>2, <3>2
  <2> QED
    BY <2>2, <2>5, <2>6
<1>4. m \in S
  <2> HIDE DEF S
  <2>1. \A n \in 0..m : n \in S
    BY <1>1, <1>2, <1>3, BoundedInduction
  <2> QED
    BY <1>1, <2>1
<1>5. PICK x \in Nat : Largest(m, x)
  BY <1>4
<1>6. MaxCnt(entries) = Max(Lengths(m))
  <2>1. DOMAIN entries = 1..m
    BY DEF Counted
  <2> QED
    BY <2>1, Zenon DEF MaxCnt
<1>7. Max(Lengths(m)) \in Lengths(m) /\ \A y \in Lengths(m) : Max(Lengths(m)) >= y
  <2>1. \E largest \in Lengths(m) : \A y \in Lengths(m) : largest >= y
    BY <1>5
  <2> HIDE DEF Lengths
  <2> QED
    BY <2>1, Zenon DEF Max
<1>8. Lengths(m) \subseteq Nat /\ \A j \in 1..m : Cnt(entries[j]) \in Lengths(m)
  BY <1>1
<1> HIDE DEF Lengths
<1>9. MaxCnt(entries) \in Nat
  BY <1>6, <1>7, <1>8
<1>10. ASSUME NEW j \in 1..m PROVE Cnt(entries[j]) <= MaxCnt(entries)
  <2>1. MaxCnt(entries) >= Cnt(entries[j]) /\ Cnt(entries[j]) \in Nat
    BY <1>1, <1>6, <1>7, <1>8
  <2> QED
    BY <1>9, <2>1
<1> QED
  BY <1>9, <1>10

\* An answer without padding, of parts that are no longer than the largest
\* described entry, is not larger than the buffer.
LEMMA PartsFit ==
  ASSUME NEW contents \in Seq(Seq(Byte)), NEW n \in 1..Len(contents), NEW padded \in BOOLEAN,
         ~(padded /\ n > 1),
         NEW entries, Counted(entries), Len(entries) = Len(contents),
         \A i \in 1..Len(contents) : Len(contents[i]) <= MaxCnt(entries)
  PROVE  ~(Len(CompleteAnswer(contents, n, padded)) > BuffSize(entries))
<1> DEFINE seqs == Parts(contents, n, padded)
           raw == CompleteAnswer(contents, n, padded)
           b == MaxCnt(entries)
<1>1. /\ seqs \in Seq(Seq(Byte)) /\ Len(seqs) = n /\ raw = FlattenSeq(seqs)
      /\ \A i \in 1..n : seqs[i] = contents[i]
      /\ raw \in Seq(Byte)
  BY SentParts
<1>2. b \in Nat /\ Len(contents) \in Nat /\ n \in Nat /\ n <= Len(contents)
  BY LargestCnt
<1> HIDE DEF seqs, raw, b
<1>3. \A i \in 1..Len(seqs) : Len(seqs[i]) <= b
  BY <1>1, <1>2 DEF b
<1>4. Len(raw) <= b * n
  BY <1>1, <1>2, <1>3, FlattenedBound
<1>5. b * n <= b * Len(contents)
  <2>1. \A x, y, z \in Nat : x <= y => z * x <= z * y
    OBVIOUS
  <2> QED
    BY <1>2, <2>1
<1>6. BuffSize(entries) = b * Len(contents)
  BY DEF BuffSize, b
<1>7. Len(raw) \in Nat /\ b * n \in Nat /\ b * Len(contents) \in Nat
  BY <1>1, <1>2
<1>8. ~(Len(raw) > BuffSize(entries))
  BY <1>4, <1>5, <1>6, <1>7
<1> QED
  BY <1>8 DEF raw

\* A complete answer of parts that are at least as long as described, padded or
\* not, is decoded or refused, but does not panic.
LEMMA WholeAnswerDecodes ==
  ASSUME NEW contents \in Seq(Seq(Byte)), NEW n \in 1..Len(contents), NEW padded \in BOOLEAN,
         n = Len(contents),
         NEW entries, Counted(entries), Len(entries) = Len(contents),
         \A i \in 1..Len(contents) : Cnt(entries[i]) <= Len(contents[i])
  PROVE  Complete(entries, CompleteAnswer(contents, n, padded)) # "panic"
<1> DEFINE seqs == Parts(contents, n, padded)
           raw == CompleteAnswer(contents, n, padded)
           bad == {j \in DOMAIN entries : Missing(entries, raw, j) \/ Unfit(entries, raw, j)}
<1>1. /\ seqs \in Seq(Seq(Byte)) /\ Len(seqs) = n /\ raw = FlattenSeq(seqs)
      /\ \A i \in 1..n : Len(contents[i]) <= Len(seqs[i])
      /\ raw \in Seq(Byte)
  BY SentParts
<1> HIDE DEF seqs, raw
<1>2. \A i \in 1..Len(seqs) : Cnt(entries[i]) <= Len(seqs[i])
  <2> SUFFICES ASSUME NEW i \in 1..Len(seqs) PROVE Cnt(entries[i]) <= Len(seqs[i])
    OBVIOUS
  <2>1. i \in 1..Len(contents) /\ i \in 1..n /\ i \in 1..Len(entries)
    BY <1>1
  <2>2. Cnt(entries[i]) <= Len(contents[i]) /\ Len(contents[i]) <= Len(seqs[i])
    BY <1>1, <2>1
  <2>3. contents[i] \in Seq(Byte) /\ seqs[i] \in Seq(Byte) /\ Cnt(entries[i]) \in Nat
    BY <1>1, <2>1 DEF Counted
  <2>4. Len(contents[i]) \in Nat /\ Len(seqs[i]) \in Nat
    BY <2>3
  <2> QED
    BY <2>2, <2>3, <2>4
<1>3. \A j \in 1..Len(entries) : ~Missing(entries, raw, j)
  <2> SUFFICES ASSUME NEW j \in 1..Len(entries) PROVE ~(EndPos(entries, j) > Len(raw))
    BY DEF Missing
  <2>1. EndPos(entries, j) <= Len(raw)
    BY <1>1, <1>2, EndsWithin
  <2>2. EndPos(entries, j) \in Nat /\ Len(raw) \in Nat
    BY <1>1, PositionTypes
  <2> QED
    BY <2>1, <2>2
<1>4. DOMAIN entries = 1..Len(entries)
  BY DEF Counted
<1>5. bad # {} => Min(bad) \in DOMAIN entries
  <2>1. bad \subseteq Nat /\ bad \subseteq DOMAIN entries
    BY <1>4 DEF Counted
  <2> HIDE DEF bad
  <2> QED
    BY <2>1, MinIsElement
<1>6. bad # {} => ~Missing(entries, raw, Min(bad))
  BY <1>3, <1>4, <1>5
<1>7. \/ Complete(entries, raw) = "Ok" \/ Complete(entries, raw) = "ValueConversion"
  <2>1. Complete(entries, raw) =
          CASE bad = {} -> "Ok"
            [] bad # {} /\ Missing(entries, raw, Min(bad)) -> "panic"
            [] bad # {} /\ ~Missing(entries, raw, Min(bad)) -> "ValueConversion"
    BY Zenon DEF Complete
  <2> HIDE DEF bad
  <2> QED
    BY <1>6, <2>1
<1> QED
  BY <1>7 DEF raw

\* A complete answer without padding, whose parts are as long as described as far
\* as anything is described, is decoded part by part.
LEMMA PartByPart ==
  ASSUME NEW contents \in Seq(Seq(Byte)), NEW n \in 1..Len(contents), NEW padded \in BOOLEAN,
         n = Len(contents), ~(padded /\ n > 1),
         NEW entries, Counted(entries), Len(entries) = Len(contents),
         NEW j \in 1..Len(contents),
         entries[j] # {} => \A i \in 1..j : Cnt(entries[i]) = Len(contents[i])
  PROVE  ValueAt(entries, CompleteAnswer(contents, n, padded), j)
           = Decode(entries[j], contents[j])
<1> DEFINE seqs == Parts(contents, n, padded)
           raw == CompleteAnswer(contents, n, padded)
<1>1. /\ seqs \in Seq(Seq(Byte)) /\ Len(seqs) = n /\ raw = FlattenSeq(seqs)
      /\ \A i \in 1..n : seqs[i] = contents[i]
  BY SentParts
<1> HIDE DEF seqs, raw
<1>2. CASE entries[j] = {}
  <2>1. \A r : Decode({}, r) = {}
    BY DEF Decode
  <2>2. ValueAt(entries, raw, j) = {} /\ Decode(entries[j], contents[j]) = {}
    BY <1>2, <2>1, Zenon DEF ValueAt
  <2> QED
    BY <2>2 DEF raw
<1>3. CASE entries[j] # {}
  <2>1. j \in 1..Len(entries) /\ \A i \in 1..j : i \in 1..n
    OBVIOUS
  <2>2. \A i \in 1..j : Cnt(entries[i]) = Len(seqs[i])
    BY <1>1, <1>3, <2>1
  <2>3. SubSeq(raw, BytePos(entries, j) + 1, EndPos(entries, j)) = seqs[j]
    BY <1>1, <2>1, <2>2, SliceIsPart
  <2>4. seqs[j] = contents[j]
    BY <1>1
  <2>5. ValueAt(entries, raw, j) = Decode(entries[j], contents[j])
    BY <2>3, <2>4, Zenon DEF ValueAt
  <2> QED
    BY <2>5 DEF raw
<1> QED
  BY <1>2, <1>3

----------------------------------------------------------------------------
(* Descriptions and values.                                                *)

\* What a dictionary can have for an entry.
IsDescription(info) ==
  info = {} \/ \E t \in Types, bits \in Nat : info = {[type |-> t, bits |-> bits]}

LEMMA OneMoreIsNat == ASSUME NEW n \in Nat PROVE n + 1 \in Nat
  OBVIOUS

LEMMA DescribedCnt ==
  ASSUME NEW e, e.bits \in Nat
  PROVE  /\ IsDescription(Described(e))
         /\ Described(e) = {} => Cnt(Described(e)) = 0
         /\ Described(e) # {} =>
              e.type \in Types /\ e.bits # 0 /\ Cnt(Described(e)) = byte_cnt(e.bits)
<1>1. CASE e.type \in Types /\ e.bits # 0
  <2>1. Described(e) = {[type |-> e.type, bits |-> e.bits]}
    BY <1>1 DEF Described
  <2>2. Cnt(Described(e)) = byte_cnt(e.bits)
    <3> DEFINE info == Described(e)
    <3>1. info # {} /\ (CHOOSE d \in info : TRUE) \in info
      BY <2>1
    <3>2. (CHOOSE d \in info : TRUE).bits = e.bits
      BY <2>1, <3>1
    <3> QED
      BY <3>1, <3>2 DEF Cnt
  <2>3. Described(e) # {}
    BY <2>1
  <2> QED
    BY <1>1, <2>1, <2>2, <2>3 DEF IsDescription
<1>2. CASE ~(e.type \in Types /\ e.bits # 0)
  <2>1. Described(e) = {}
    BY <1>2 DEF Described
  <2> QED
    BY <2>1 DEF IsDescription, Cnt
<1> QED
  BY <1>1, <1>2

LEMMA ByteCntType == ASSUME NEW bits \in Nat PROVE byte_cnt(bits) \in Nat
<1>1. ByteBits \in Nat \ {0}
  BY ByteAssumption
<1>2. bits \div ByteBits \in Nat
  BY <1>1
<1>3. bits \div ByteBits + 1 \in Nat
  BY <1>2, OneMoreIsNat
<1> QED
  BY <1>2, <1>3 DEF byte_cnt

LEMMA CntType == ASSUME NEW info, IsDescription(info) PROVE Cnt(info) \in Nat
<1>1. CASE info = {}
  BY <1>1 DEF Cnt
<1>2. ASSUME NEW t \in Types, NEW bits \in Nat, info = {[type |-> t, bits |-> bits]}
      PROVE  Cnt(info) \in Nat
  <2>1. info # {} /\ (CHOOSE d \in info : TRUE) \in info
    BY <1>2
  <2>2. (CHOOSE d \in info : TRUE).bits = bits
    BY <1>2, <2>1
  <2> QED
    BY <2>1, <2>2, ByteCntType DEF Cnt
<1> QED
  BY <1>1, <1>2 DEF IsDescription

LEMMA OneByteValue ==
  ASSUME NEW t \in {"Bool", "U8"}, NEW c \in Byte, t = "Bool" => c \in {{}, {0}}
  PROVE  [type |-> t, bytes |-> <<c>>] \in ValueType
<1> DEFINE b == <<c>>
           v == [type |-> t, bytes |-> b]
<1>1. b \in Seq(Byte) /\ Len(b) = 1 /\ b[1] = c
  OBVIOUS
<1> HIDE DEF b
<1>2. v.type = t /\ v.bytes = b /\ v \in [type : Types, bytes : Seq(Byte)]
  BY <1>1 DEF Types
<1>3. Width[t] = 1
  BY DEF Width
<1> HIDE DEF v
<1>4. v \in ValueType
  BY <1>1, <1>2, <1>3 DEF ValueType
<1> QED
  BY <1>4 DEF v, b

\* What is converted is a value.
LEMMA ConvertedType ==
  ASSUME NEW t \in Types, NEW raw \in Seq(Byte)
  PROVE  ValueFromSlice(t, raw, 0) \subseteq ValueType
<1>1. raw # <<>> => raw[1] \in Byte
  OBVIOUS
<1>2. 0 \in Bits /\ {0} \in Byte /\ {} \in Byte
  BY ByteAssumption DEF Bits, Byte
<1>3. CASE raw = <<>> \/ t = "Bit4"
  BY <1>3 DEF ValueFromSlice
<1>4. CASE raw # <<>> /\ t = "Bool"
  <2> DEFINE c == IF 0 \in raw[1] THEN {0} ELSE {}
  <2>1. c \in Byte /\ c \in {{}, {0}}
    BY <1>2
  <2>2. ValueFromSlice(t, raw, 0) = {[type |-> t, bytes |-> <<c>>]}
    BY <1>4 DEF ValueFromSlice
  <2> HIDE DEF c
  <2>3. [type |-> t, bytes |-> <<c>>] \in ValueType
    BY <1>4, <2>1, OneByteValue
  <2> QED
    BY <2>2, <2>3
<1>5. CASE raw # <<>> /\ t = "U8"
  <2>1. ValueFromSlice(t, raw, 0) = {[type |-> t, bytes |-> <<raw[1]>>]}
    BY <1>5 DEF ValueFromSlice
  <2>2. [type |-> t, bytes |-> <<raw[1]>>] \in ValueType
    BY <1>1, <1>5, OneByteValue
  <2> QED
    BY <2>1, <2>2
<1>6. CASE raw # <<>> /\ t = "U16"
  <2>1. ValueFromSlice(t, raw, 0) =
          IF Len(raw) = Width[t] THEN {[type |-> t, bytes |-> raw]} ELSE {}
    BY <1>6 DEF ValueFromSlice
  <2> QED
    BY <1>6, <2>1 DEF ValueType
<1>7. CASE raw # <<>> /\ t = "Raw"
  <2>1. ValueFromSlice(t, raw, 0) = {[type |-> t, bytes |-> raw]}
    BY <1>7 DEF ValueFromSlice
  <2> QED
    BY <1>7, <2>1 DEF ValueType, Width
<1> QED
  BY <1>3, <1>4, <1>5, <1>6, <1>7 DEF Types

LEMMA DecodeType ==
  ASSUME NEW info, \A d \in info : d.type \in Types, NEW raw \in Seq(Byte)
  PROVE  Decode(info, raw) \subseteq ValueType
  BY ConvertedType DEF Decode

\* If all goes well every slice lies in the answer.
LEMMA ValuesOfAnswer ==
  ASSUME NEW entries, Counted(entries), \A j \in 1..Len(entries) : IsDescription(entries[j]),
         NEW raw \in Seq(Byte), Complete(entries, raw) = "Ok",
         NEW j \in 1..Len(entries)
  PROVE  ValueAt(entries, raw, j) \subseteq ValueType
<1> DEFINE bad == {i \in DOMAIN entries : Missing(entries, raw, i) \/ Unfit(entries, raw, i)}
           from == BytePos(entries, j)
           to == EndPos(entries, j)
<1>1. bad = {}
  <2>1. Complete(entries, raw) =
          CASE bad = {} -> "Ok"
            [] bad # {} /\ Missing(entries, raw, Min(bad)) -> "panic"
            [] bad # {} /\ ~Missing(entries, raw, Min(bad)) -> "ValueConversion"
    BY Zenon DEF Complete
  <2> HIDE DEF bad
  <2> QED
    BY <2>1
<1>2. CASE entries[j] = {}
  <2>1. \A r : Decode({}, r) = {}
    BY DEF Decode
  <2>2. ValueAt(entries, raw, j) = {}
    BY <1>2, <2>1, Zenon DEF ValueAt
  <2> QED
    BY <2>2
<1>3. CASE entries[j] # {}
  <2>1. j \in DOMAIN entries
    BY DEF Counted
  <2>2. ~(to > Len(raw))
    BY <1>1, <1>3, <2>1 DEF Missing
  <2>3. from \in Nat /\ to \in Nat /\ from <= to
    BY PositionTypes
  <2> HIDE DEF from, to
  <2>4. SubSeq(raw, from + 1, to) \in Seq(Byte)
    <3>1. Len(raw) \in Nat /\ to <= Len(raw)
      BY <2>2, <2>3
    <3>2. \A k \in (from + 1)..to : raw[k] \in Byte
      BY <2>3, <3>1
    <3> QED
      BY <2>3, <3>1, <3>2
  <2>5. \A d \in entries[j] : d.type \in Types
    BY DEF IsDescription
  <2>6. Decode(entries[j], SubSeq(raw, from + 1, to)) \subseteq ValueType
    BY <2>4, <2>5, DecodeType
  <2> QED
    BY <2>6 DEF ValueAt, from, to
<1> QED
  BY <1>2, <1>3
=============================================================================
