--------------------------- MODULE MCUploadsProofs ---------------------------
(* Proofs about how an upload is read, for any bounds, chunks, columns, rows, *)
(* hints and answers of the model: how a table is cut into rows (CsvRows) and *)
(* made into records (CsvChat), and what becomes of any format (Conversion). *)
(***************************************************************************)
EXTENDS MCDatasets, Integers, SequenceTheorems, FiniteSetTheorems, WellFoundedInduction, TLAPS

-----------------------------------------------------------------------------
(* Folds over sequences                                                    *)

\* The order of the naturals as a relation.
Less == {p \in Nat \X Nat : p[1] < p[2]}

\* A set of naturals that is not empty has a least member.
LEMMA LeastNat ==
  ASSUME NEW T, T \subseteq Nat, T # {} PROVE \E n \in T : \A m \in T : n <= m
<1>1. IsWellFoundedOn(Less, Nat)
  <2>1. Less = OpToRel(<, Nat)
    BY Zenon DEF Less, OpToRel
  <2> QED
    BY <2>1, NatLessThanWellFounded, Zenon
<1>2. PICK n \in T : \A m \in T : <<m, n>> \notin Less
  BY <1>1, WFMin, Zenon
<1>3. \A m \in T : n <= m
  <2> SUFFICES ASSUME NEW m \in T PROVE n <= m
    OBVIOUS
  <2>1. m \in Nat /\ n \in Nat
    OBVIOUS
  <2>2. m < n => <<m, n>> \in Less
    BY <2>1 DEF Less
  <2> QED
    BY <1>2, <2>1, <2>2
<1> QED
  BY <1>3

\* A bounded set of naturals that is not empty has a largest member.
LEMMA LargestNat ==
  ASSUME NEW S, S \subseteq Nat, S # {}, NEW b \in Nat, \A i \in S : i <= b
  PROVE  \E n \in S : \A i \in S : i <= n
<1> DEFINE T == {n \in Nat : \A i \in S : i <= n}
<1>1. T # {} /\ T \subseteq Nat
  OBVIOUS
<1> HIDE DEF T
<1>2. PICK n \in T : \A m \in T : n <= m
  BY <1>1, LeastNat
<1>3. n \in Nat /\ \A i \in S : i <= n
  BY DEF T
<1>4. CASE n \in S
  BY <1>3, <1>4
<1>5. CASE n \notin S
  <2>1. PICK x \in S : x \in Nat /\ x <= n /\ x # n
    BY <1>3, <1>5
  <2>2. n - 1 \in Nat /\ \A i \in S : i <= n - 1
    BY <1>3, <1>5, <2>1
  <2>3. n - 1 \in T
    BY <2>2 DEF T
  <2> QED
    BY <1>2, <1>3, <2>3
<1> QED
  BY <1>4, <1>5

\* Induction over the naturals, of a set.
LEMMA NatSet ==
  ASSUME NEW T, 0 \in T, \A n \in Nat : n \in T => n + 1 \in T PROVE Nat \subseteq T
<1> SUFFICES ASSUME ~(Nat \subseteq T) PROVE FALSE
  OBVIOUS
<1>1. Nat \ T # {} /\ Nat \ T \subseteq Nat
  OBVIOUS
<1>2. PICK n \in Nat \ T : \A m \in Nat \ T : n <= m
  BY <1>1, LeastNat
<1>3. n \in Nat /\ n # 0 /\ n - 1 \in Nat
  OBVIOUS
<1>4. n - 1 \in T
  BY <1>2, <1>3
<1> QED
  BY <1>3, <1>4

\* The largest member, as the community modules define it.
Largest(S) == CHOOSE x \in S : \A y \in S : x >= y

\* It is the largest of some numbers.
LEMMA LargestOfSet ==
  ASSUME NEW S, S \subseteq Nat, NEW n \in S, \A i \in S : i <= n
  PROVE  Largest(S) = n
<1>1. \E x \in S : \A y \in S : x >= y
  OBVIOUS
<1>2. Largest(S) \in S /\ \A y \in S : Largest(S) >= y
  BY <1>1, Zenon DEF Largest
<1>3. PICK m \in Nat : m = Largest(S) /\ m \in S
  BY <1>2
<1>4. m >= n /\ m <= n
  BY <1>2, <1>3
<1> QED
  BY <1>3, <1>4

\* Of the first positions the largest is the last.
LEMMA LargestSoFar ==
  ASSUME NEW k \in Nat
  PROVE  /\ Largest(1 .. k + 1) = k + 1
         /\ (1 .. k + 1) \ {k + 1} = 1 .. k
         /\ \A s \in SUBSET (1 .. k + 1) :
              k + 1 \in s => Largest(s) = k + 1 /\ s \ {k + 1} \in SUBSET (1 .. k)
<1>1. ASSUME NEW s \in SUBSET (1 .. k + 1), k + 1 \in s PROVE Largest(s) = k + 1 /\ s \ {k + 1} \in SUBSET (1 .. k)
  <2>1. s \subseteq Nat /\ \A i \in s : i <= k + 1
    OBVIOUS
  <2>2. Largest(s) = k + 1
    BY <1>1, <2>1, LargestOfSet
  <2>3. \A i \in s \ {k + 1} : i \in 1 .. k
    OBVIOUS
  <2> QED
    BY <2>2, <2>3
<1>2. 1 .. k + 1 \in SUBSET (1 .. k + 1) /\ k + 1 \in 1 .. k + 1
  OBVIOUS
<1>3. (1 .. k + 1) \ {k + 1} = 1 .. k
  OBVIOUS
<1> QED
  BY <1>1, <1>2, <1>3

\* The largest member of a set of positions is one of them.
LEMMA LargestInSet ==
  ASSUME NEW n \in Nat, NEW s \in SUBSET (1 .. n), s # {}
  PROVE  Largest(s) \in s
<1>1. s \subseteq Nat /\ \A i \in s : i <= n
  OBVIOUS
<1>2. PICK m \in s : \A i \in s : i <= m
  BY <1>1, LargestNat
<1> QED
  BY <1>1, <1>2, LargestOfSet

\* A fold over the positions 1 .. n, as the community modules define it.
Folds(h, g, base, n) ==
  \A s \in SUBSET (1 .. n) :
    h[s] = IF s = {} THEN base ELSE g[<<h[s \ {Largest(s)}], Largest(s)>>]

\* There is one.
LEMMA FoldExists ==
  ASSUME NEW D, NEW base \in D, NEW g \in [D \X Nat -> D], NEW n \in Nat
  PROVE  \E h \in [SUBSET (1 .. n) -> D] : Folds(h, g, base, n)
<1> DEFINE T == {k \in Nat : \E h \in [SUBSET (1 .. k) -> D] : Folds(h, g, base, k)}
<1>1. 0 \in T
  <2>1. [s \in SUBSET (1 .. 0) |-> base] \in [SUBSET (1 .. 0) -> D]
    OBVIOUS
  <2>2. \A s \in SUBSET (1 .. 0) : s = {}
    OBVIOUS
  <2>3. Folds([s \in SUBSET (1 .. 0) |-> base], g, base, 0)
    BY <2>2, Zenon DEF Folds
  <2> QED
    BY <2>1, <2>3
<1>2. ASSUME NEW k \in Nat, k \in T PROVE k + 1 \in T
  <2>1. PICK h \in [SUBSET (1 .. k) -> D] : Folds(h, g, base, k)
    BY <1>2
  <2> PICK k1 \in Nat : k1 = k + 1
    OBVIOUS
  <2>2. /\ \A s \in SUBSET (1 .. k1) : k1 \in s => Largest(s) = k1 /\ s \ {k1} \in SUBSET (1 .. k)
        /\ \A s \in SUBSET (1 .. k1) : k1 \notin s => s \in SUBSET (1 .. k)
        /\ \A s \in SUBSET (1 .. k) : s \in SUBSET (1 .. k1) /\ k1 \notin s
    <3>1. \A i \in 1 .. k1 : i = k1 \/ i \in 1 .. k
      OBVIOUS
    <3>2. 1 .. k \subseteq 1 .. k1 /\ k1 \notin 1 .. k
      OBVIOUS
    <3>3. \A s \in SUBSET (1 .. k1) : k1 \in s => Largest(s) = k1 /\ s \ {k1} \in SUBSET (1 .. k)
      BY LargestSoFar
    <3> QED
      BY <3>1, <3>2, <3>3
  <2> PICK f : f = [s \in SUBSET (1 .. k1) |-> IF k1 \in s THEN g[<<h[s \ {k1}], k1>>] ELSE h[s]]
    OBVIOUS
  <2>3. f \in [SUBSET (1 .. k1) -> D]
    <3>1. ASSUME NEW s \in SUBSET (1 .. k1) PROVE f[s] \in D
      BY <2>1, <2>2
    <3> QED
      BY <3>1
  <2>4. Folds(f, g, base, k1)
    <3> SUFFICES ASSUME NEW s \in SUBSET (1 .. k1)
                 PROVE  f[s] = IF s = {} THEN base ELSE g[<<f[s \ {Largest(s)}], Largest(s)>>]
      BY DEF Folds
    <3>1. CASE k1 \in s
      <4>1. Largest(s) = k1 /\ s \ {k1} \in SUBSET (1 .. k) /\ s # {}
        BY <2>2, <3>1
      <4>2. f[s \ {k1}] = h[s \ {k1}]
        BY <2>2, <4>1
      <4> QED
        BY <3>1, <4>1, <4>2
    <3>2. CASE k1 \notin s
      <4>1. s \in SUBSET (1 .. k) /\ f[s] = h[s]
        BY <2>2, <3>2
      <4>2. ASSUME s # {} PROVE f[s \ {Largest(s)}] = h[s \ {Largest(s)}]
        <5>1. s \ {Largest(s)} \in SUBSET (1 .. k)
          BY <4>1
        <5> QED
          BY <2>2, <5>1
      <4>3. h[s] = IF s = {} THEN base ELSE g[<<h[s \ {Largest(s)}], Largest(s)>>]
        BY <2>1, <4>1 DEF Folds
      <4> QED
        BY <4>1, <4>2, <4>3, Zenon
    <3> QED
      BY <3>1, <3>2
  <2> QED
    BY <2>3, <2>4
<1> HIDE DEF T
<1>3. n \in T
  BY <1>1, <1>2, NatSet
<1> QED
  BY <1>3 DEF T

\* Position by position: what the fold has come to after each of them.
Runs(f, g, base, n) == f[0] = base /\ \A k \in 0 .. n - 1 : f[k + 1] = g[<<f[k], k + 1>>]

\* The equations of a fold, as far as what it comes to is in D.
Unfolds(h, g, base, n, D) ==
  /\ base \in D /\ g \in [D \X Nat -> D] /\ n \in Nat
  /\ h[{}] = base
  /\ \A s \in SUBSET (1 .. n) :
       s # {} /\ h[s \ {Largest(s)}] \in D => h[s] = g[<<h[s \ {Largest(s)}], Largest(s)>>]

\* What it comes to at the end.
ComesTo(x, g, base, n, D) == \E f \in [0 .. n -> D] : Runs(f, g, base, n) /\ f[n] = x

\* What follows the equations of a fold comes to what its steps make.
LEMMA FoldRuns ==
  ASSUME NEW D, NEW base, NEW g, NEW n, NEW h, Unfolds(h, g, base, n, D)
  PROVE  ComesTo(h[1 .. n], g, base, n, D)
<1> base \in D /\ g \in [D \X Nat -> D] /\ n \in Nat
  BY DEF Unfolds
<1>0. /\ h[{}] = base
      /\ \A s \in SUBSET (1 .. n) :
           s # {} /\ h[s \ {Largest(s)}] \in D => h[s] = g[<<h[s \ {Largest(s)}], Largest(s)>>]
  BY DEF Unfolds
<1> DEFINE T == {k \in Nat : k <= n => h[1 .. k] \in D /\ (k > 0 => h[1 .. k] = g[<<h[1 .. k - 1], k>>])}
<1>1. 0 \in T
  <2>1. 1 .. 0 = {}
    OBVIOUS
  <2> QED
    BY <1>0, <2>1
<1>2. ASSUME NEW k \in Nat, k \in T PROVE k + 1 \in T
  <2> SUFFICES ASSUME k + 1 <= n PROVE h[1 .. k + 1] \in D /\ h[1 .. k + 1] = g[<<h[1 .. k], k + 1>>]
    OBVIOUS
  <2>1. 1 .. k + 1 \in SUBSET (1 .. n) /\ 1 .. k + 1 # {} /\ h[1 .. k] \in D
    <3>1. k <= n /\ k + 1 \in 1 .. k + 1 /\ \A i \in 1 .. k + 1 : i \in 1 .. n
      OBVIOUS
    <3>2. h[1 .. k] \in D
      BY <1>2, <3>1
    <3> QED
      BY <3>1, <3>2
  <2>2. Largest(1 .. k + 1) = k + 1 /\ (1 .. k + 1) \ {k + 1} = 1 .. k
    BY LargestSoFar
  <2>3. h[1 .. k + 1] = g[<<h[1 .. k], k + 1>>]
    BY <1>0, <2>1, <2>2
  <2>4. <<h[1 .. k], k + 1>> \in D \X Nat
    BY <2>1
  <2> QED
    BY <2>3, <2>4
<1>3. \A k \in Nat : k \in T
  <2> HIDE DEF T
  <2> QED
    BY <1>1, <1>2, NatSet
<1> PICK f : f = [k \in 0 .. n |-> h[1 .. k]]
  OBVIOUS
<1>4. f \in [0 .. n -> D] /\ f[n] = h[1 .. n]
  <2>1. \A k \in 0 .. n : k \in Nat /\ k <= n
    OBVIOUS
  <2>2. \A k \in 0 .. n : h[1 .. k] \in D
    BY <1>3, <2>1
  <2> QED
    BY <2>2
<1>5. f[0] = base
  <2>1. 1 .. 0 = {}
    OBVIOUS
  <2> QED
    BY <1>0, <2>1
<1>6. ASSUME NEW k \in 0 .. n - 1 PROVE f[k + 1] = g[<<f[k], k + 1>>]
  <2>1. k + 1 \in T /\ k + 1 <= n /\ k + 1 > 0 /\ (k + 1) - 1 = k /\ k + 1 \in 0 .. n /\ k \in 0 .. n
    BY <1>3
  <2>2. h[1 .. k + 1] = g[<<h[1 .. k], k + 1>>]
    BY <2>1
  <2> QED
    BY <2>1, <2>2
<1> QED
  BY <1>4, <1>5, <1>6 DEF Runs, ComesTo

\* The same of the elements of a sequence: op takes what the fold has come to and
\* the next element.
Indexed(op, base, a, D) ==
  [p \in D \X Nat |-> IF p[2] \in DOMAIN a THEN op[<<p[1], a[p[2]]>>] ELSE base]

\* What may be folded.
Foldable(op, base, a, D, R) == base \in D /\ op \in [D \X R -> D] /\ a \in Seq(R)

\* The equations of a fold over a, as far as it stays in D.
FoldOf(h, op, base, a, D, R) ==
  /\ Foldable(op, base, a, D, R)
  /\ h[{}] = base
  /\ \A s \in SUBSET DOMAIN a :
       s # {} /\ h[s \ {Largest(s)}] \in D => h[s] = op[<<h[s \ {Largest(s)}], a[Largest(s)]>>]

\* x is what op makes of base and the elements of a, one after the other.
FoldsTo(x, op, base, a, D) ==
  \E f \in [0 .. Len(a) -> D] :
    /\ f[0] = base /\ \A k \in 0 .. Len(a) - 1 : f[k + 1] = op[<<f[k], a[k + 1]>>]
    /\ f[Len(a)] = x

\* A function that does.
IsIndexed(g, op, a, D) ==
  /\ g \in [D \X Nat -> D] /\ \A d \in D, i \in DOMAIN a : g[<<d, i>>] = op[<<d, a[i]>>]
  /\ Len(a) \in Nat /\ DOMAIN a = 1 .. Len(a)

\* Indexed is one.
LEMMA IndexedIs ==
  ASSUME NEW D, NEW R, NEW base, NEW op, NEW a, Foldable(op, base, a, D, R)
  PROVE  IsIndexed(Indexed(op, base, a, D), op, a, D)
<1>0. base \in D /\ op \in [D \X R -> D] /\ a \in Seq(R)
  BY DEF Foldable
<1>1. Len(a) \in Nat /\ DOMAIN a = 1 .. Len(a) /\ \A i \in DOMAIN a : a[i] \in R
  BY <1>0
<1>2. \A d \in D, i \in DOMAIN a : op[<<d, a[i]>>] \in D
  BY <1>0, <1>1
<1>3. Indexed(op, base, a, D) \in [D \X Nat -> D]
  BY <1>0, <1>2 DEF Indexed
<1>4. \A d \in D, i \in DOMAIN a : Indexed(op, base, a, D)[<<d, i>>] = op[<<d, a[i]>>]
  BY <1>1 DEF Indexed
<1> QED
  BY <1>1, <1>3, <1>4 DEF IsIndexed

\* A fold that is defined everywhere.
FoundFold(h, op, base, a, D) ==
  /\ h \in [SUBSET DOMAIN a -> D]
  /\ \A s \in SUBSET DOMAIN a :
       /\ s # {} => Largest(s) \in DOMAIN a /\ h[s \ {Largest(s)}] \in D
       /\ h[s] = IF s = {} THEN base ELSE op[<<h[s \ {Largest(s)}], a[Largest(s)]>>]

\* There is such a fold.
LEMMA FoldFound ==
  ASSUME NEW D, NEW R, NEW base, NEW op, NEW a, Foldable(op, base, a, D, R)
  PROVE  \E h : FoundFold(h, op, base, a, D)
<1> PICK g, n : g = Indexed(op, base, a, D) /\ n = Len(a)
  OBVIOUS
<1>0. IsIndexed(g, op, a, D)
  BY IndexedIs, Zenon
<1>1. /\ g \in [D \X Nat -> D] /\ \A d \in D, i \in DOMAIN a : g[<<d, i>>] = op[<<d, a[i]>>]
      /\ n \in Nat /\ DOMAIN a = 1 .. n /\ base \in D
  BY <1>0, Zenon DEF IsIndexed, Foldable
<1>2. PICK h \in [SUBSET (1 .. n) -> D] : Folds(h, g, base, n)
  BY <1>1, FoldExists
<1>3. ASSUME NEW s \in SUBSET (1 .. n), s # {} PROVE Largest(s) \in 1 .. n /\ s \ {Largest(s)} \in SUBSET (1 .. n)
  BY <1>1, <1>3, LargestInSet
<1>4. ASSUME NEW s \in SUBSET (1 .. n)
      PROVE  /\ s # {} => Largest(s) \in DOMAIN a /\ h[s \ {Largest(s)}] \in D
             /\ h[s] = IF s = {} THEN base ELSE op[<<h[s \ {Largest(s)}], a[Largest(s)]>>]
  <2>1. s # {} => Largest(s) \in DOMAIN a /\ h[s \ {Largest(s)}] \in D
    BY <1>1, <1>2, <1>3
  <2>2. h[s] = IF s = {} THEN base ELSE g[<<h[s \ {Largest(s)}], Largest(s)>>]
    BY <1>2 DEF Folds
  <2> QED
    BY <1>1, <2>1, <2>2, Zenon
<1>5. FoundFold(h, op, base, a, D)
  BY <1>1, <1>2, <1>4, Zenon DEF FoundFold
<1> QED
  BY <1>5

\* What follows its equations comes to it step by step.
LEMMA FoldReached ==
  ASSUME NEW D, NEW R, NEW base, NEW op, NEW a, NEW h, FoldOf(h, op, base, a, D, R)
  PROVE  FoldsTo(h[DOMAIN a], op, base, a, D)
<1>1. Foldable(op, base, a, D, R) /\ base \in D
  BY DEF FoldOf, Foldable
<1> PICK g, n : g = Indexed(op, base, a, D) /\ n = Len(a)
  OBVIOUS
<1>0. IsIndexed(g, op, a, D)
  BY <1>1, IndexedIs, Zenon
<1>2. /\ g \in [D \X Nat -> D] /\ \A d \in D, i \in DOMAIN a : g[<<d, i>>] = op[<<d, a[i]>>]
      /\ n \in Nat /\ DOMAIN a = 1 .. n
  BY <1>0, Zenon DEF IsIndexed
<1>3. Unfolds(h, g, base, n, D)
  <2>1. ASSUME NEW s \in SUBSET (1 .. n), s # {}, h[s \ {Largest(s)}] \in D
        PROVE  h[s] = g[<<h[s \ {Largest(s)}], Largest(s)>>]
    <3>1. Largest(s) \in DOMAIN a
      BY <1>2, <2>1, LargestInSet
    <3>2. h[s] = op[<<h[s \ {Largest(s)}], a[Largest(s)]>>]
      BY <1>2, <2>1 DEF FoldOf
    <3> QED
      BY <1>2, <2>1, <3>1, <3>2, Zenon
  <2>2. h[{}] = base
    BY DEF FoldOf
  <2> QED
    BY <1>1, <1>2, <2>1, <2>2, Zenon DEF Unfolds
<1>4. ComesTo(h[1 .. n], g, base, n, D)
  BY ONLY <1>3, FoldRuns, Zenon
<1>5. PICK f \in [0 .. n -> D] : Runs(f, g, base, n) /\ f[n] = h[1 .. n]
  BY <1>4 DEF ComesTo
<1>6. ASSUME NEW k \in 0 .. n - 1 PROVE f[k + 1] = op[<<f[k], a[k + 1]>>]
  <2>1. k \in 0 .. n /\ k + 1 \in 1 .. n
    BY <1>2
  <2>2. f[k + 1] = g[<<f[k], k + 1>>]
    BY <1>5 DEF Runs
  <2> QED
    BY <1>2, <1>5, <2>1, <2>2
<1> QED
  BY <1>2, <1>5, <1>6 DEF FoldsTo, Runs

\* What a fold comes to is of its kind, and over nothing it is the base.
LEMMA FoldsToIs ==
  ASSUME NEW D, NEW R, NEW op, NEW base, NEW a, Foldable(op, base, a, D, R),
         NEW x, FoldsTo(x, op, base, a, D)
  PROVE  x \in D /\ (a = <<>> => x = base)
<1>1. Len(a) \in Nat /\ Len(a) \in 0 .. Len(a) /\ (a = <<>> => Len(a) = 0)
  BY DEF Foldable
<1> QED
  BY <1>1 DEF FoldsTo

\* One more element takes one more step.
LEMMA FoldsToNext ==
  ASSUME NEW D, NEW R, NEW op, NEW base, NEW a, Foldable(op, base, a, D, R), NEW r \in R,
         NEW x, FoldsTo(x, op, base, a, D),
         NEW y, FoldsTo(y, op, base, Append(a, r), D)
  PROVE  y = op[<<x, r>>]
<1> op \in [D \X R -> D] /\ base \in D /\ a \in Seq(R)
  BY DEF Foldable
<1> PICK n \in Nat : n = Len(a)
  OBVIOUS
<1>1. /\ Len(Append(a, r)) = n + 1 /\ Append(a, r)[n + 1] = r
      /\ \A i \in 1 .. n : Append(a, r)[i] = a[i]
  BY AppendProperties
<1>2. PICK f \in [0 .. n -> D] :
        f[0] = base /\ (\A k \in 0 .. n - 1 : f[k + 1] = op[<<f[k], a[k + 1]>>]) /\ f[n] = x
  BY DEF FoldsTo
<1>3. PICK e \in [0 .. n + 1 -> D] :
        /\ e[0] = base /\ \A k \in 0 .. n : e[k + 1] = op[<<e[k], Append(a, r)[k + 1]>>]
        /\ e[n + 1] = y
  <2>1. (n + 1) - 1 = n
    OBVIOUS
  <2> QED
    BY <1>1, <2>1 DEF FoldsTo
<1> DEFINE T == {k \in Nat : k <= n => e[k] = f[k]}
<1>4. 0 \in T
  BY <1>2, <1>3
<1>5. ASSUME NEW k \in Nat, k \in T PROVE k + 1 \in T
  <2> SUFFICES ASSUME k + 1 <= n PROVE e[k + 1] = f[k + 1]
    OBVIOUS
  <2>1. k <= n /\ k \in 0 .. n /\ k \in 0 .. n - 1 /\ k + 1 \in 1 .. n
    OBVIOUS
  <2>2. e[k] = f[k] /\ Append(a, r)[k + 1] = a[k + 1]
    BY <1>1, <1>5, <2>1
  <2>3. e[k + 1] = op[<<e[k], Append(a, r)[k + 1]>>] /\ f[k + 1] = op[<<f[k], a[k + 1]>>]
    BY <1>2, <1>3, <2>1
  <2> QED
    BY <2>2, <2>3
<1>6. n \in T
  <2> HIDE DEF T
  <2> QED
    BY <1>4, <1>5, NatSet
<1>7. e[n] = x
  BY <1>2, <1>6
<1>8. n \in 0 .. n
  OBVIOUS
<1> QED
  BY <1>1, <1>3, <1>7, <1>8

\* The first n and one more of a sequence.
LEMMA OneMore ==
  ASSUME NEW R, NEW c \in Seq(R), NEW n \in 0 .. Len(c), n < Len(c)
  PROVE  /\ SubSeq(c, 1, n) \in Seq(R) /\ c[n + 1] \in R /\ n + 1 \in 0 .. Len(c)
         /\ SubSeq(c, 1, n + 1) = Append(SubSeq(c, 1, n), c[n + 1])
         /\ Len(SubSeq(c, 1, n)) = n /\ Len(SubSeq(c, 1, n + 1)) = n + 1
<1>1. Len(c) \in Nat /\ n \in Nat /\ n + 1 \in 1 .. Len(c)
  OBVIOUS
<1>2. /\ SubSeq(c, 1, n) \in Seq(R) /\ Len(SubSeq(c, 1, n)) = n
      /\ \A i \in 1 .. n : SubSeq(c, 1, n)[i] = c[i]
  BY <1>1
<1>3. /\ SubSeq(c, 1, n + 1) \in Seq(R) /\ Len(SubSeq(c, 1, n + 1)) = n + 1
      /\ \A i \in 1 .. n + 1 : SubSeq(c, 1, n + 1)[i] = c[i]
  BY <1>1
<1> PICK a, b, r : a = SubSeq(c, 1, n) /\ b = SubSeq(c, 1, n + 1) /\ r = c[n + 1]
  OBVIOUS
<1>4. r \in R
  BY <1>1
<1>5. /\ Append(a, r) \in Seq(R) /\ Len(Append(a, r)) = n + 1
      /\ \A i \in 1 .. n : Append(a, r)[i] = a[i]
      /\ Append(a, r)[n + 1] = r
  BY <1>1, <1>2, <1>4, AppendProperties
<1>6. \A i \in 1 .. n + 1 : b[i] = Append(a, r)[i]
  <2>1. \A i \in 1 .. n + 1 : i \in 1 .. n \/ i = n + 1
    BY <1>1
  <2> QED
    BY <1>2, <1>3, <1>5, <2>1
<1>7. b = Append(a, r)
  BY <1>3, <1>5, <1>6
<1>8. c[n + 1] \in R /\ n + 1 \in 0 .. Len(c)
  <2>1. n + 1 \in 0 .. Len(c)
    BY ONLY <1>1
  <2> QED
    BY <1>4, <2>1, Zenon
<1> QED
  BY <1>2, <1>3, <1>7, <1>8, Zenon

\* The members of a sequence, and of one more.
LEMMA Members ==
  ASSUME NEW R, NEW s \in Seq(R), NEW r \in R
  PROVE  /\ SE!ToSet(s) \subseteq R
         /\ SE!ToSet(Append(s, r)) = SE!ToSet(s) \cup {r}
         /\ Append(s, r) \in Seq(R) /\ Len(Append(s, r)) = Len(s) + 1 /\ Len(s) \in Nat
         /\ SE!Last(Append(s, r)) = r /\ Append(s, r) # <<>>
<1>1. Len(s) \in Nat /\ DOMAIN s = 1 .. Len(s) /\ \A i \in 1 .. Len(s) : s[i] \in R
  OBVIOUS
<1>2. /\ Append(s, r) \in Seq(R) /\ Len(Append(s, r)) = Len(s) + 1
      /\ \A i \in 1 .. Len(s) : Append(s, r)[i] = s[i]
      /\ Append(s, r)[Len(s) + 1] = r
  BY AppendProperties
<1>3. DOMAIN Append(s, r) = 1 .. Len(s) + 1
  BY <1>2
<1>4. \A i \in 1 .. Len(s) + 1 : i \in 1 .. Len(s) \/ i = Len(s) + 1
  BY <1>1
<1>5. SE!ToSet(Append(s, r)) \subseteq SE!ToSet(s) \cup {r}
  BY <1>1, <1>2, <1>3, <1>4 DEF SE!ToSet
<1>6. SE!ToSet(s) \cup {r} \subseteq SE!ToSet(Append(s, r))
  <2>1. \A i \in 1 .. Len(s) : i \in 1 .. Len(s) + 1
    BY <1>1
  <2>2. Len(s) + 1 \in 1 .. Len(s) + 1
    BY <1>1
  <2> QED
    BY <1>1, <1>2, <1>3, <2>1, <2>2 DEF SE!ToSet
<1>7. SE!ToSet(s) \subseteq R
  BY <1>1 DEF SE!ToSet
<1> QED
  BY <1>1, <1>2, <1>5, <1>6, <1>7 DEF SE!Last

-----------------------------------------------------------------------------
(* Rows of a table                                                         *)

\* A state of the csv reader.
ReaderState(a, f, r, o, b) == [at |-> a, field |-> f, row |-> r, out |-> o, bad |-> b]
ReaderAts == {"row", "field", "unquoted", "quoted", "closing"}
Fields    == Seq(CR!Symbols)
Found     == Seq(Fields)
ReaderStates ==
  [at : ReaderAts, field : Fields, row : Found, out : Seq(Found), bad : BOOLEAN]

\* Its parts.
LEMMA ReaderParts ==
  ASSUME NEW a, NEW f, NEW r, NEW o, NEW b
  PROVE  /\ ReaderState(a, f, r, o, b).at = a /\ ReaderState(a, f, r, o, b).field = f
         /\ ReaderState(a, f, r, o, b).row = r /\ ReaderState(a, f, r, o, b).out = o
         /\ ReaderState(a, f, r, o, b).bad = b
BY DEF ReaderState

\* Any such parts are those of a state.
LEMMA ReaderIs ==
  ASSUME NEW a \in ReaderAts, NEW f \in Fields, NEW r \in Found, NEW o \in Seq(Found), NEW b \in BOOLEAN
  PROVE  ReaderState(a, f, r, o, b) \in ReaderStates
BY DEF ReaderState, ReaderStates

\* It has no others.
LEMMA ReaderWhole ==
  ASSUME NEW p \in ReaderStates
  PROVE  \E a \in ReaderAts, f \in Fields, r \in Found, o \in Seq(Found), b \in BOOLEAN :
           p = ReaderState(a, f, r, o, b)
<1>1. p = ReaderState(p.at, p.field, p.row, p.out, p.bad)
  BY DEF ReaderState, ReaderStates
<1>2. p.at \in ReaderAts /\ p.field \in Fields /\ p.row \in Found /\ p.out \in Seq(Found) /\ p.bad \in BOOLEAN
  BY DEF ReaderStates
<1> QED
  BY <1>1, <1>2, Zenon

\* One part of it is replaced.
AtOf(p, w)    == [p EXCEPT !.at = w]
FieldOf(p, w) == [p EXCEPT !.field = w]
RowOf(p, w)   == [p EXCEPT !.row = w]
OutOf(p, w)   == [p EXCEPT !.out = w]
BadOf(p, w)   == [p EXCEPT !.bad = w]

\* Only that part is another then.
LEMMA ReaderUpdates ==
  ASSUME NEW a, NEW f, NEW r, NEW o, NEW b, NEW w
  PROVE  /\ AtOf(ReaderState(a, f, r, o, b), w) = ReaderState(w, f, r, o, b)
         /\ FieldOf(ReaderState(a, f, r, o, b), w) = ReaderState(a, w, r, o, b)
         /\ RowOf(ReaderState(a, f, r, o, b), w) = ReaderState(a, f, w, o, b)
         /\ OutOf(ReaderState(a, f, r, o, b), w) = ReaderState(a, f, r, w, b)
         /\ BadOf(ReaderState(a, f, r, o, b), w) = ReaderState(a, f, r, o, w)
BY DEF ReaderState, AtOf, FieldOf, RowOf, OutOf, BadOf

\* The moves of the reader replace them one after the other.
LEMMA MovesAre ==
  ASSUME NEW p
  PROVE  /\ CR!EndField(p) = FieldOf(RowOf(p, Append(p.row, p.field)), <<>>)
         /\ CR!EndRow(p) = AtOf(RowOf(OutOf(p, Append(p.out, p.row)), <<>>), "row")
         /\ \A s, w : CR!AddTo(p, s, w) = AtOf(FieldOf(p, Append(p.field, s)), w)
<1>1. CR!EndField(p) = FieldOf(RowOf(p, Append(p.row, p.field)), <<>>)
  BY DEF CR!EndField, FieldOf, RowOf
<1>2. CR!EndRow(p) = AtOf(RowOf(OutOf(p, Append(p.out, p.row)), <<>>), "row")
  BY DEF CR!EndRow, AtOf, RowOf, OutOf
<1>3. ASSUME NEW s, NEW w PROVE CR!AddTo(p, s, w) = AtOf(FieldOf(p, Append(p.field, s)), w)
  BY DEF CR!AddTo, AtOf, FieldOf
<1> QED
  BY <1>1, <1>2, <1>3, Zenon

\* What they make of the parts.
LEMMA ReaderMoves ==
  ASSUME NEW a, NEW f, NEW r, NEW o, NEW b
  PROVE  /\ CR!EndField(ReaderState(a, f, r, o, b)) = ReaderState(a, <<>>, Append(r, f), o, b)
         /\ CR!EndRow(ReaderState(a, f, r, o, b)) = ReaderState("row", f, <<>>, Append(o, r), b)
         /\ \A s, w : CR!AddTo(ReaderState(a, f, r, o, b), s, w) = ReaderState(w, Append(f, s), r, o, b)
<1> PICK p : p = ReaderState(a, f, r, o, b)
  OBVIOUS
<1>1. p.at = a /\ p.field = f /\ p.row = r /\ p.out = o /\ p.bad = b
  BY ReaderParts
<1>2. CR!EndField(p) = ReaderState(a, <<>>, Append(r, f), o, b)
  BY <1>1, MovesAre, ReaderUpdates
<1>3. CR!EndRow(p) = ReaderState("row", f, <<>>, Append(o, r), b)
  BY <1>1, MovesAre, ReaderUpdates
<1>4. \A s, w : CR!AddTo(p, s, w) = ReaderState(w, Append(f, s), r, o, b)
  BY <1>1, MovesAre, ReaderUpdates
<1> QED
  BY <1>2, <1>3, <1>4, Zenon

\* What one symbol makes of the state.
LEMMA SymbolRead ==
  ASSUME NEW a \in ReaderAts, NEW f, NEW r, NEW o, NEW b, NEW s \in CR!Symbols, NEW x,
         x = CR!ReadSymbol(ReaderState(a, f, r, o, b), s)
  PROVE  /\ a = "quoted" /\ s = "quote" => x = ReaderState("closing", f, r, o, b)
         /\ a = "quoted" /\ s # "quote" => x = ReaderState("quoted", Append(f, s), r, o, b)
         /\ a = "closing" /\ s = "quote" => x = ReaderState("quoted", Append(f, s), r, o, b)
         /\ a = "row" /\ s = "newline" => x = ReaderState("row", f, <<>>, Append(o, r), b)
         /\ a \notin {"quoted", "row"} /\ s = "newline" =>
              x = ReaderState("row", <<>>, <<>>, Append(o, Append(r, f)), b)
         /\ a # "quoted" /\ s = "comma" => x = ReaderState("field", <<>>, Append(r, f), o, b)
         /\ a \in {"row", "field"} /\ s = "quote" => x = ReaderState("quoted", f, r, o, b)
         /\ (a # "quoted" /\ s = "x") \/ (a = "unquoted" /\ s = "quote") =>
              x = ReaderState("unquoted", Append(f, s), r, o, b)
<1> PICK p : p = ReaderState(a, f, r, o, b)
  OBVIOUS
<1>0. /\ CR!EndField(p) = ReaderState(a, <<>>, Append(r, f), o, b)
      /\ CR!EndRow(p) = ReaderState("row", f, <<>>, Append(o, r), b)
      /\ \A w : CR!AddTo(p, s, w) = ReaderState(w, Append(f, s), r, o, b)
  BY ReaderMoves
<1>5. AtOf(p, "closing") = ReaderState("closing", f, r, o, b) /\ AtOf(p, "quoted") = ReaderState("quoted", f, r, o, b)
  BY ReaderUpdates
<1>1. p.at = a /\ x = CR!ReadSymbol(p, s)
  BY ReaderParts
<1>2. CASE a = "quoted"
  <2>1. x = IF s = "quote" THEN AtOf(p, "closing") ELSE CR!AddTo(p, s, "quoted")
    BY <1>1, <1>2, Zenon DEF CR!ReadSymbol, AtOf
  <2>2. s = "quote" => x = ReaderState("closing", f, r, o, b)
    BY <2>1, <1>0, <1>5, Zenon
  <2>3. s # "quote" => x = ReaderState("quoted", Append(f, s), r, o, b)
    BY <2>1, <1>0, <1>5, Zenon
  <2> QED
    BY <1>2, <2>2, <2>3
<1>3. CASE a = "closing" /\ s = "quote"
  <2>1. a # "quoted"
    BY <1>3
  <2>2. x = CR!AddTo(p, s, "quoted")
    BY <1>1, <1>3, <2>1, Zenon DEF CR!ReadSymbol, AtOf
  <2>3. x = ReaderState("quoted", Append(f, s), r, o, b)
    BY <2>2, <1>0, <1>5, Zenon
  <2> QED
    BY <1>3, <2>3
<1>4. CASE a # "quoted" /\ ~(a = "closing" /\ s = "quote")
  <2>1. x = CASE s = "newline" -> CR!EndRow(IF p.at = "row" THEN p ELSE CR!EndField(p))
              [] s = "comma"   -> AtOf(CR!EndField(p), "field")
              [] s = "quote" /\ p.at \in {"row", "field"} -> AtOf(p, "quoted")
              [] OTHER -> CR!AddTo(p, s, "unquoted")
    BY <1>1, <1>4, Zenon DEF CR!ReadSymbol, AtOf
  <2>2. /\ s = "newline" => x = CR!EndRow(IF a = "row" THEN p ELSE CR!EndField(p))
        /\ s = "comma" => x = AtOf(CR!EndField(p), "field")
        /\ s = "quote" /\ a \in {"row", "field"} => x = AtOf(p, "quoted")
        /\ s = "x" \/ (a = "unquoted" /\ s = "quote") => x = CR!AddTo(p, s, "unquoted")
    <3> PICK x1, x2, x3, x4 :
          /\ x1 = CR!EndRow(IF p.at = "row" THEN p ELSE CR!EndField(p))
          /\ x2 = AtOf(CR!EndField(p), "field")
          /\ x3 = AtOf(p, "quoted") /\ x4 = CR!AddTo(p, s, "unquoted")
      OBVIOUS
    <3>1. x = CASE s = "newline" -> x1 [] s = "comma" -> x2
                [] s = "quote" /\ a \in {"row", "field"} -> x3 [] OTHER -> x4
      BY <1>1, <2>1, Zenon
    <3>2. /\ s = "newline" => x = x1
          /\ s = "comma" => x = x2
          /\ s = "quote" /\ a \in {"row", "field"} => x = x3
          /\ s = "x" \/ (a = "unquoted" /\ s = "quote") => x = x4
      BY <3>1
    <3> QED
      BY <1>1, <3>2, Zenon
  <2> PICK r1 : r1 = Append(r, f)
    OBVIOUS
  <2>3. /\ CR!EndField(p) = ReaderState(a, <<>>, r1, o, b)
        /\ CR!EndRow(ReaderState(a, <<>>, r1, o, b)) = ReaderState("row", <<>>, <<>>, Append(o, r1), b)
    BY <1>0, ReaderMoves
  <2>9. AtOf(ReaderState(a, <<>>, r1, o, b), "field") = ReaderState("field", <<>>, r1, o, b)
    BY ReaderUpdates
  <2>4. a = "row" /\ s = "newline" => x = ReaderState("row", f, <<>>, Append(o, r), b)
    BY <2>2, <1>0, <1>5, Zenon
  <2>5. a # "row" /\ s = "newline" => x = ReaderState("row", <<>>, <<>>, Append(o, Append(r, f)), b)
    BY <2>2, <2>3, <1>0, <1>5, Zenon
  <2>6. s = "comma" => x = ReaderState("field", <<>>, Append(r, f), o, b)
    BY <2>2, <2>3, <2>9, Zenon
  <2>7. s = "quote" /\ a \in {"row", "field"} => x = ReaderState("quoted", f, r, o, b)
    BY <2>2, <1>0, <1>5, Zenon
  <2>8. s = "x" \/ (a = "unquoted" /\ s = "quote") => x = ReaderState("unquoted", Append(f, s), r, o, b)
    BY <2>2, <1>0, <1>5, Zenon
  <2> QED
    BY <1>4, <2>4, <2>5, <2>6, <2>7, <2>8
<1> QED
  BY <1>2, <1>3, <1>4

\* One more symbol, and one more row, as functions of what there is and it.
ReadOp(D, R)  == [p \in D \X R |-> CR!ReadSymbol(p[1], p[2])]
InRowOp(D, R) == [p \in D \X R |-> CR!ReadInRow(p[1], p[2])]
TextOf(d, r)  == IF CR!HasText(r) THEN Append(d, r) ELSE d
TextOp(D, R)  == [p \in D \X R |-> TextOf(p[1], p[2])]

\* The reader stays in its states.
LEMMA ReaderStays ==
  /\ CR!Parser \in ReaderStates
  /\ \A p \in ReaderStates, s \in CR!Symbols :
       CR!ReadSymbol(p, s) \in ReaderStates /\ CR!ReadInRow(p, s) \in ReaderStates
<1>1. CR!Parser \in ReaderStates
  BY DEF CR!Parser, ReaderStates, ReaderAts, Fields, Found
<1>2. ASSUME NEW p \in ReaderStates, NEW s \in CR!Symbols PROVE CR!ReadSymbol(p, s) \in ReaderStates
  <2> PICK a \in ReaderAts, f \in Fields, r \in Found, o \in Seq(Found), b \in BOOLEAN :
        p = ReaderState(a, f, r, o, b)
    BY ReaderWhole, Zenon
  <2> PICK x : x = CR!ReadSymbol(p, s)
    OBVIOUS
  <2>1. Append(f, s) \in Fields /\ <<>> \in Fields
    BY DEF Fields
  <2>2. Append(r, f) \in Found /\ <<>> \in Found
    BY DEF Found
  <2>3. Append(o, r) \in Seq(Found) /\ Append(o, Append(r, f)) \in Seq(Found)
    BY <2>2
  <2>4. \E a1 \in ReaderAts, f1 \in Fields, r1 \in Found, o1 \in Seq(Found) :
          x = ReaderState(a1, f1, r1, o1, b)
    <3>1. \A w \in ReaderAts : w \in {"row", "field", "unquoted", "quoted", "closing"}
      BY DEF ReaderAts
    <3>2. "row" \in ReaderAts /\ "field" \in ReaderAts /\ "unquoted" \in ReaderAts /\ "quoted" \in ReaderAts
          /\ "closing" \in ReaderAts
      BY DEF ReaderAts
    <3>3. s \in {"x", "comma", "quote", "newline"}
      BY DEF CR!Symbols
    <3>4. \/ x = ReaderState("closing", f, r, o, b) \/ x = ReaderState("quoted", Append(f, s), r, o, b)
          \/ x = ReaderState("row", f, <<>>, Append(o, r), b)
          \/ x = ReaderState("row", <<>>, <<>>, Append(o, Append(r, f)), b)
          \/ x = ReaderState("field", <<>>, Append(r, f), o, b) \/ x = ReaderState("quoted", f, r, o, b)
          \/ x = ReaderState("unquoted", Append(f, s), r, o, b)
      BY <3>1, <3>3, SymbolRead
    <3> QED
      BY <2>1, <2>2, <2>3, <3>2, <3>4, ZenonT(40)
  <2> PICK a1 \in ReaderAts, f1 \in Fields, r1 \in Found, o1 \in Seq(Found) : x = ReaderState(a1, f1, r1, o1, b)
    BY <2>4
  <2> QED
    BY ReaderIs
<1>3. ASSUME NEW p \in ReaderStates, NEW s \in CR!Symbols PROVE CR!ReadInRow(p, s) \in ReaderStates
  <2> PICK a \in ReaderAts, f \in Fields, r \in Found, o \in Seq(Found), b \in BOOLEAN :
        p = ReaderState(a, f, r, o, b)
    BY ReaderWhole, Zenon
  <2> PICK c \in BOOLEAN : c = (p.bad \/ (p.out # <<>> /\ s # "newline"))
    OBVIOUS
  <2>1. CR!ReadInRow(p, s) = CR!ReadSymbol(BadOf(p, c), s)
    BY Zenon DEF CR!ReadInRow, BadOf
  <2>2. BadOf(p, c) = ReaderState(a, f, r, o, c)
    BY ReaderUpdates
  <2>3. BadOf(p, c) \in ReaderStates
    BY <2>2, ReaderIs
  <2> QED
    BY <1>2, <2>1, <2>3, Zenon
<1> QED
  BY <1>1, <1>2, <1>3, Zenon

\* A text is read symbol by symbol.
LEMMA ReadFolds ==
  ASSUME NEW D, NEW R, CR!Parser \in D, NEW a \in Seq(R), \A d \in D, r \in R : CR!ReadSymbol(d, r) \in D
  PROVE  /\ Foldable(ReadOp(D, R), CR!Parser, a, D, R)
         /\ FoldsTo(CR!Read(a), ReadOp(D, R), CR!Parser, a, D)
<1> DEFINE step(h) == [s \in SUBSET DOMAIN a |->
                        IF s = {} THEN CR!Parser ELSE CR!ReadSymbol(h[s \ {Largest(s)}], a[Largest(s)])]
           fold == CHOOSE h : h = step(h)
<1> PICK op, base : op = ReadOp(D, R) /\ base = CR!Parser
  OBVIOUS
<1>1. op \in [D \X R -> D] /\ \A d \in D, r \in R : op[<<d, r>>] = CR!ReadSymbol(d, r)
  BY DEF ReadOp
<1>2. DOMAIN a = 1 .. Len(a) /\ Len(a) \in Nat /\ \A i \in DOMAIN a : a[i] \in R
  OBVIOUS
<1>0. Foldable(op, base, a, D, R)
  BY <1>1 DEF Foldable
<1>3. \E h : h = step(h)
  <2>1. PICK h : FoundFold(h, op, base, a, D)
    BY ONLY <1>0, FoldFound, Zenon
  <2>2. \A s \in SUBSET DOMAIN a :
          h[s] = IF s = {} THEN CR!Parser ELSE CR!ReadSymbol(h[s \ {Largest(s)}], a[Largest(s)])
    BY <1>1, <1>2, <2>1, ZenonT(30) DEF FoundFold
  <2>3. h = step(h)
    BY <2>1, <2>2 DEF FoundFold
  <2> QED
    BY <2>3, Zenon
<1>4. fold = step(fold)
  <2> HIDE DEF step
  <2> QED
    BY <1>3, Zenon
<1>5. CR!Read(a) = fold[DOMAIN a]
  BY Zenon DEF CR!Read, CR!FoldLeft, CR!MapThenFoldSet, CR!Max, Largest
<1> PICK h : h = fold
  OBVIOUS
<1>6. FoldOf(h, op, base, a, D, R)
  <2>1. h[{}] = base
    BY <1>4
  <2>2. ASSUME NEW s \in SUBSET DOMAIN a, s # {}, h[s \ {Largest(s)}] \in D
        PROVE  h[s] = op[<<h[s \ {Largest(s)}], a[Largest(s)]>>]
    <3>1. a[Largest(s)] \in R
      BY <1>2, <2>2, LargestInSet
    <3>2. h[s] = CR!ReadSymbol(h[s \ {Largest(s)}], a[Largest(s)])
      BY <1>4, <2>2
    <3> QED
      BY <1>1, <2>2, <3>1, <3>2, Zenon
  <2> QED
    BY <1>0, <2>1, <2>2, Zenon DEF FoldOf
<1>7. FoldsTo(h[DOMAIN a], op, base, a, D)
  BY ONLY <1>6, FoldReached, Zenon
<1> QED
  BY <1>0, <1>5, <1>7, Zenon

\* So is one row.
LEMMA ReadRowFolds ==
  ASSUME NEW D, NEW R, CR!Parser \in D, NEW a \in Seq(R), \A d \in D, r \in R : CR!ReadInRow(d, r) \in D
  PROVE  /\ Foldable(InRowOp(D, R), CR!Parser, a, D, R)
         /\ FoldsTo(CR!ReadRow(a), InRowOp(D, R), CR!Parser, a, D)
<1> DEFINE step(h) == [s \in SUBSET DOMAIN a |->
                        IF s = {} THEN CR!Parser ELSE CR!ReadInRow(h[s \ {Largest(s)}], a[Largest(s)])]
           fold == CHOOSE h : h = step(h)
<1> PICK op, base : op = InRowOp(D, R) /\ base = CR!Parser
  OBVIOUS
<1>1. op \in [D \X R -> D] /\ \A d \in D, r \in R : op[<<d, r>>] = CR!ReadInRow(d, r)
  BY DEF InRowOp
<1>2. DOMAIN a = 1 .. Len(a) /\ Len(a) \in Nat /\ \A i \in DOMAIN a : a[i] \in R
  OBVIOUS
<1>0. Foldable(op, base, a, D, R)
  BY <1>1 DEF Foldable
<1>3. \E h : h = step(h)
  <2>1. PICK h : FoundFold(h, op, base, a, D)
    BY ONLY <1>0, FoldFound, Zenon
  <2>2. \A s \in SUBSET DOMAIN a :
          h[s] = IF s = {} THEN CR!Parser ELSE CR!ReadInRow(h[s \ {Largest(s)}], a[Largest(s)])
    BY <1>1, <1>2, <2>1, ZenonT(30) DEF FoundFold
  <2>3. h = step(h)
    BY <2>1, <2>2 DEF FoundFold
  <2> QED
    BY <2>3, Zenon
<1>4. fold = step(fold)
  <2> HIDE DEF step
  <2> QED
    BY <1>3, Zenon
<1>5. CR!ReadRow(a) = fold[DOMAIN a]
  BY Zenon DEF CR!ReadRow, CR!FoldLeft, CR!MapThenFoldSet, CR!Max, Largest
<1> PICK h : h = fold
  OBVIOUS
<1>6. FoldOf(h, op, base, a, D, R)
  <2>1. h[{}] = base
    BY <1>4
  <2>2. ASSUME NEW s \in SUBSET DOMAIN a, s # {}, h[s \ {Largest(s)}] \in D
        PROVE  h[s] = op[<<h[s \ {Largest(s)}], a[Largest(s)]>>]
    <3>1. a[Largest(s)] \in R
      BY <1>2, <2>2, LargestInSet
    <3>2. h[s] = CR!ReadInRow(h[s \ {Largest(s)}], a[Largest(s)])
      BY <1>4, <2>2
    <3> QED
      BY <1>1, <2>2, <3>1, <3>2, Zenon
  <2> QED
    BY <1>0, <2>1, <2>2, Zenon DEF FoldOf
<1>7. FoldsTo(h[DOMAIN a], op, base, a, D)
  BY ONLY <1>6, FoldReached, Zenon
<1> QED
  BY <1>0, <1>5, <1>7, Zenon

\* The rows with text are taken row by row.
LEMMA WithTextFolds ==
  ASSUME NEW D, NEW R, <<>> \in D, NEW a \in Seq(R), \A d \in D, r \in R : TextOf(d, r) \in D
  PROVE  /\ Foldable(TextOp(D, R), <<>>, a, D, R)
         /\ FoldsTo(CR!WithText(a), TextOp(D, R), <<>>, a, D)
<1> DEFINE step(h) == [s \in SUBSET DOMAIN a |->
                        IF s = {} THEN <<>> ELSE TextOf(h[s \ {Largest(s)}], a[Largest(s)])]
           fold == CHOOSE h : h = step(h)
<1> PICK op, base : op = TextOp(D, R) /\ base = <<>>
  OBVIOUS
<1>1. op \in [D \X R -> D] /\ \A d \in D, r \in R : op[<<d, r>>] = TextOf(d, r)
  BY DEF TextOp
<1>2. DOMAIN a = 1 .. Len(a) /\ Len(a) \in Nat /\ \A i \in DOMAIN a : a[i] \in R
  OBVIOUS
<1>0. Foldable(op, base, a, D, R)
  BY <1>1 DEF Foldable
<1>3. \E h : h = step(h)
  <2>1. PICK h : FoundFold(h, op, base, a, D)
    BY ONLY <1>0, FoldFound, Zenon
  <2>2. \A s \in SUBSET DOMAIN a :
          h[s] = IF s = {} THEN <<>> ELSE TextOf(h[s \ {Largest(s)}], a[Largest(s)])
    BY <1>1, <1>2, <2>1, ZenonT(30) DEF FoundFold
  <2>3. h = step(h)
    BY <2>1, <2>2 DEF FoundFold
  <2> QED
    BY <2>3, Zenon
<1>4. fold = step(fold)
  <2> HIDE DEF step
  <2> QED
    BY <1>3, Zenon
<1>5. CR!WithText(a) = fold[DOMAIN a]
  BY Zenon DEF CR!WithText, CR!FoldLeft, CR!MapThenFoldSet, CR!Max, Largest, TextOf
<1> PICK h : h = fold
  OBVIOUS
<1>6. FoldOf(h, op, base, a, D, R)
  <2>1. h[{}] = base
    BY <1>4
  <2>2. ASSUME NEW s \in SUBSET DOMAIN a, s # {}, h[s \ {Largest(s)}] \in D
        PROVE  h[s] = op[<<h[s \ {Largest(s)}], a[Largest(s)]>>]
    <3>1. a[Largest(s)] \in R
      BY <1>2, <2>2, LargestInSet
    <3>2. h[s] = TextOf(h[s \ {Largest(s)}], a[Largest(s)])
      BY <1>4, <2>2
    <3> QED
      BY <1>1, <2>2, <3>1, <3>2, Zenon
  <2> QED
    BY <1>0, <2>1, <2>2, Zenon DEF FoldOf
<1>7. FoldsTo(h[DOMAIN a], op, base, a, D)
  BY ONLY <1>6, FoldReached, Zenon
<1> QED
  BY <1>0, <1>5, <1>7, Zenon

\* What one more symbol makes of what is read.
LEMMA ReadGoes ==
  ASSUME NEW a \in Seq(CR!Symbols)
  PROVE  /\ CR!Read(<<>>) = CR!Parser /\ CR!Read(a) \in ReaderStates
         /\ \A r \in CR!Symbols : CR!Read(Append(a, r)) = CR!ReadSymbol(CR!Read(a), r)
<1> PICK D, R, op, base : D = ReaderStates /\ R = CR!Symbols /\ op = ReadOp(D, R) /\ base = CR!Parser
  OBVIOUS
<1>1. base \in D /\ \A d \in D, r \in R : CR!ReadSymbol(d, r) \in D
  BY ReaderStays
<1>2. \A c \in Seq(R) : Foldable(op, base, c, D, R) /\ FoldsTo(CR!Read(c), op, base, c, D)
  BY <1>1, ReadFolds, Zenon
<1> PICK c : c = <<>>
  OBVIOUS
<1>3. c \in Seq(R) /\ a \in Seq(R)
  OBVIOUS
<1>4. Foldable(op, base, c, D, R) /\ FoldsTo(CR!Read(c), op, base, c, D)
  BY <1>2, <1>3, Zenon
<1>5. Foldable(op, base, a, D, R) /\ FoldsTo(CR!Read(a), op, base, a, D)
  BY <1>2, <1>3, Zenon
<1>6. CR!Read(c) = base
  <2>1. c = <<>>
    OBVIOUS
  <2> QED
    BY ONLY <1>4, <2>1, FoldsToIs
<1>7. CR!Read(a) \in D
  BY ONLY <1>5, FoldsToIs
<1>8. ASSUME NEW r \in R PROVE CR!Read(Append(a, r)) = CR!ReadSymbol(CR!Read(a), r)
  <2> PICK x, y : x = CR!Read(a) /\ y = CR!Read(Append(a, r))
    OBVIOUS
  <2>1. Append(a, r) \in Seq(R)
    BY <1>3
  <2>2. Foldable(op, base, a, D, R) /\ r \in R /\ FoldsTo(x, op, base, a, D) /\ FoldsTo(y, op, base, Append(a, r), D)
    BY <1>2, <1>5, <2>1, Zenon
  <2>3. y = op[<<x, r>>]
    BY ONLY <2>2, FoldsToNext
  <2> QED
    BY <1>7, <2>3 DEF ReadOp
<1> QED
  BY <1>6, <1>7, <1>8

\* The same within a row.
LEMMA ReadRowGoes ==
  ASSUME NEW a \in Seq(CR!Symbols)
  PROVE  /\ CR!ReadRow(<<>>) = CR!Parser /\ CR!ReadRow(a) \in ReaderStates
         /\ \A r \in CR!Symbols : CR!ReadRow(Append(a, r)) = CR!ReadInRow(CR!ReadRow(a), r)
<1> PICK D, R, op, base : D = ReaderStates /\ R = CR!Symbols /\ op = InRowOp(D, R) /\ base = CR!Parser
  OBVIOUS
<1>1. base \in D /\ \A d \in D, r \in R : CR!ReadInRow(d, r) \in D
  BY ReaderStays
<1>2. \A c \in Seq(R) : Foldable(op, base, c, D, R) /\ FoldsTo(CR!ReadRow(c), op, base, c, D)
  BY <1>1, ReadRowFolds, Zenon
<1> PICK c : c = <<>>
  OBVIOUS
<1>3. c \in Seq(R) /\ a \in Seq(R)
  OBVIOUS
<1>4. Foldable(op, base, c, D, R) /\ FoldsTo(CR!ReadRow(c), op, base, c, D)
  BY <1>2, <1>3, Zenon
<1>5. Foldable(op, base, a, D, R) /\ FoldsTo(CR!ReadRow(a), op, base, a, D)
  BY <1>2, <1>3, Zenon
<1>6. CR!ReadRow(c) = base
  <2>1. c = <<>>
    OBVIOUS
  <2> QED
    BY ONLY <1>4, <2>1, FoldsToIs
<1>7. CR!ReadRow(a) \in D
  BY ONLY <1>5, FoldsToIs
<1>8. ASSUME NEW r \in R PROVE CR!ReadRow(Append(a, r)) = CR!ReadInRow(CR!ReadRow(a), r)
  <2> PICK x, y : x = CR!ReadRow(a) /\ y = CR!ReadRow(Append(a, r))
    OBVIOUS
  <2>1. Append(a, r) \in Seq(R)
    BY <1>3
  <2>2. Foldable(op, base, a, D, R) /\ r \in R /\ FoldsTo(x, op, base, a, D) /\ FoldsTo(y, op, base, Append(a, r), D)
    BY <1>2, <1>5, <2>1, Zenon
  <2>3. y = op[<<x, r>>]
    BY ONLY <2>2, FoldsToNext
  <2> QED
    BY <1>7, <2>3 DEF InRowOp
<1> QED
  BY <1>6, <1>7, <1>8

\* What one more row makes of those with text.
LEMMA WithTextGoes ==
  ASSUME NEW a \in Seq(Found)
  PROVE  /\ CR!WithText(<<>>) = <<>> /\ CR!WithText(a) \in Seq(Found)
         /\ \A r \in Found : CR!WithText(Append(a, r)) = TextOf(CR!WithText(a), r)
<1> PICK D, R, op, base : D = Seq(Found) /\ R = Found /\ op = TextOp(D, R) /\ base = <<>>
  OBVIOUS
<1>1. base \in D /\ \A d \in D, r \in R : TextOf(d, r) \in D
  BY DEF TextOf
<1>2. \A c \in Seq(R) : Foldable(op, base, c, D, R) /\ FoldsTo(CR!WithText(c), op, base, c, D)
  BY <1>1, WithTextFolds, Zenon
<1> PICK c : c = <<>>
  OBVIOUS
<1>3. c \in Seq(R) /\ a \in Seq(R)
  OBVIOUS
<1>4. Foldable(op, base, c, D, R) /\ FoldsTo(CR!WithText(c), op, base, c, D)
  BY <1>2, <1>3, Zenon
<1>5. Foldable(op, base, a, D, R) /\ FoldsTo(CR!WithText(a), op, base, a, D)
  BY <1>2, <1>3, Zenon
<1>6. CR!WithText(c) = base
  <2>1. c = <<>>
    OBVIOUS
  <2> QED
    BY ONLY <1>4, <2>1, FoldsToIs
<1>7. CR!WithText(a) \in D
  BY ONLY <1>5, FoldsToIs
<1>8. ASSUME NEW r \in R PROVE CR!WithText(Append(a, r)) = TextOf(CR!WithText(a), r)
  <2> PICK x, y : x = CR!WithText(a) /\ y = CR!WithText(Append(a, r))
    OBVIOUS
  <2>1. Append(a, r) \in Seq(R)
    BY <1>3
  <2>2. Foldable(op, base, a, D, R) /\ r \in R /\ FoldsTo(x, op, base, a, D) /\ FoldsTo(y, op, base, Append(a, r), D)
    BY <1>2, <1>5, <2>1, Zenon
  <2>3. y = op[<<x, r>>]
    BY ONLY <2>2, FoldsToNext
  <2> QED
    BY <1>7, <2>3 DEF TextOp
<1> QED
  BY <1>6, <1>7, <1>8

\* A state that has seen nothing bad.
StateOf(a, f, r, o) == ReaderState(a, f, r, o, FALSE)

\* Its parts.
LEMMA StateParts ==
  ASSUME NEW p, NEW a, NEW f, NEW r, NEW o, p = StateOf(a, f, r, o)
  PROVE  /\ p.at = a /\ p.field = f /\ p.row = r /\ p.out = o
         /\ (a \in ReaderAts /\ f \in Fields /\ r \in Found /\ o \in Seq(Found)) => p \in ReaderStates
<1> PICK b \in BOOLEAN : b = FALSE
  OBVIOUS
<1>1. p = ReaderState(a, f, r, o, b)
  BY Zenon DEF StateOf
<1>2. p.at = a /\ p.field = f /\ p.row = r /\ p.out = o
  BY <1>1, ReaderParts
<1>3. (a \in ReaderAts /\ f \in Fields /\ r \in Found /\ o \in Seq(Found)) => p \in ReaderStates
  BY <1>1, ReaderIs
<1> QED
  BY <1>2, <1>3, Zenon

\* A symbol inside a row moves the reader within it, and a quote opens or closes.
LEMMA SymbolInRow ==
  ASSUME NEW a \in ReaderAts, NEW f \in Fields, NEW r \in Found, NEW s \in CR!Symbols,
         s = "newline" => a = "quoted", s = "quote" => a # "unquoted"
  PROVE  \E a1 \in ReaderAts, f1 \in Fields, r1 \in Found :
           /\ \A o, b : CR!ReadSymbol(ReaderState(a, f, r, o, b), s) = ReaderState(a1, f1, r1, o, b)
           /\ a1 # "row" /\ (a1 = "quoted" <=> IF s = "quote" THEN a # "quoted" ELSE a = "quoted")
<1>1. Append(f, s) \in Fields /\ <<>> \in Fields /\ Append(r, f) \in Found
  BY DEF Fields, Found
<1>2. "row" \in ReaderAts /\ "field" \in ReaderAts /\ "unquoted" \in ReaderAts /\ "quoted" \in ReaderAts
      /\ "closing" \in ReaderAts
  BY DEF ReaderAts
<1> USE <1>1, <1>2
<1>3. CASE a = "quoted" /\ s = "quote"
  <2>1. \A o, b : CR!ReadSymbol(ReaderState(a, f, r, o, b), s) = ReaderState("closing", f, r, o, b)
    BY <1>3, SymbolRead
  <2> WITNESS "closing" \in ReaderAts, f \in Fields, r \in Found
  <2> QED
    BY <1>3, <2>1
<1>4. CASE a = "quoted" /\ s # "quote"
  <2>1. \A o, b : CR!ReadSymbol(ReaderState(a, f, r, o, b), s) = ReaderState("quoted", Append(f, s), r, o, b)
    BY <1>4, SymbolRead
  <2> WITNESS "quoted" \in ReaderAts, Append(f, s) \in Fields, r \in Found
  <2> QED
    BY <1>4, <2>1
<1>5. CASE a = "closing" /\ s = "quote"
  <2>1. \A o, b : CR!ReadSymbol(ReaderState(a, f, r, o, b), s) = ReaderState("quoted", Append(f, s), r, o, b)
    BY <1>5, SymbolRead
  <2> WITNESS "quoted" \in ReaderAts, Append(f, s) \in Fields, r \in Found
  <2> QED
    BY <1>5, <2>1
<1>6. CASE a \in {"row", "field"} /\ s = "quote"
  <2>1. \A o, b : CR!ReadSymbol(ReaderState(a, f, r, o, b), s) = ReaderState("quoted", f, r, o, b)
    BY <1>6, SymbolRead
  <2> WITNESS "quoted" \in ReaderAts, f \in Fields, r \in Found
  <2> QED
    BY <1>6, <2>1
<1>7. CASE a # "quoted" /\ s = "comma"
  <2>1. \A o, b : CR!ReadSymbol(ReaderState(a, f, r, o, b), s) = ReaderState("field", <<>>, Append(r, f), o, b)
    BY <1>7, SymbolRead
  <2> WITNESS "field" \in ReaderAts, <<>> \in Fields, Append(r, f) \in Found
  <2> QED
    BY <1>7, <2>1
<1>8. CASE a # "quoted" /\ s = "x"
  <2>1. \A o, b : CR!ReadSymbol(ReaderState(a, f, r, o, b), s) = ReaderState("unquoted", Append(f, s), r, o, b)
    BY <1>8, SymbolRead
  <2> WITNESS "unquoted" \in ReaderAts, Append(f, s) \in Fields, r \in Found
  <2> QED
    BY <1>8, <2>1
<1> QED
  BY <1>3, <1>4, <1>5, <1>6, <1>7, <1>8 DEF ReaderAts, CR!Symbols

\* Within a row the reader of the row does the same.
LEMMA SymbolOfRow ==
  ASSUME NEW p, NEW s, p \in ReaderStates, p.out = <<>>
  PROVE  CR!ReadInRow(p, s) = CR!ReadSymbol(p, s)
<1> PICK a \in ReaderAts, f \in Fields, r \in Found, o \in Seq(Found), b \in BOOLEAN :
      p = ReaderState(a, f, r, o, b)
  BY ReaderWhole, Zenon
<1>1. p.bad = b
  BY ReaderParts
<1> PICK c : c = (p.bad \/ (p.out # <<>> /\ s # "newline"))
  OBVIOUS
<1>2. c = b
  BY <1>1, Zenon
<1>3. CR!ReadInRow(p, s) = CR!ReadSymbol(BadOf(p, c), s)
  BY Zenon DEF CR!ReadInRow, BadOf
<1>4. BadOf(p, b) = p
  BY ReaderUpdates
<1> QED
  BY <1>2, <1>3, <1>4, Zenon

\* The quotes of a text, one symbol after the other.
LEMMA QuotesGo ==
  ASSUME NEW t \in Seq(CR!Symbols)
  PROVE  /\ CR!Quotes(t, 0) = 0
         /\ \A k \in Nat : CR!Quotes(t, k) \in Nat
         /\ \A k \in Nat : k < Len(t) =>
              CR!Quotes(t, k + 1) = IF t[k + 1] = "quote" THEN CR!Quotes(t, k) + 1 ELSE CR!Quotes(t, k)
<1> DEFINE QuotesIn(k) == {i \in 1 .. k : t[i] = "quote"}
<1>1. \A S : CR!Cardinality(S) = Cardinality(S)
  BY Zenon DEF CR!Cardinality, Cardinality
<1>2. \A k : CR!Quotes(t, k) = Cardinality(QuotesIn(k))
  BY <1>1, Zenon DEF CR!Quotes
<1>3. ASSUME NEW k \in Nat PROVE IsFiniteSet(QuotesIn(k)) /\ Cardinality(QuotesIn(k)) \in Nat
  <2>1. IsFiniteSet(1 .. k) /\ QuotesIn(k) \subseteq 1 .. k
    BY FS_Interval
  <2>2. IsFiniteSet(QuotesIn(k))
    BY <2>1, FS_Subset
  <2> QED
    BY <2>2, FS_CardinalityType
<1>4. Cardinality(QuotesIn(0)) = 0
  <2>1. QuotesIn(0) = {}
    OBVIOUS
  <2> QED
    BY <2>1, FS_EmptySet
<1>5. ASSUME NEW k \in Nat
      PROVE  Cardinality(QuotesIn(k + 1)) = IF t[k + 1] = "quote" THEN Cardinality(QuotesIn(k)) + 1 ELSE Cardinality(QuotesIn(k))
  <2>1. CASE t[k + 1] = "quote"
    <3>1. QuotesIn(k + 1) = QuotesIn(k) \cup {k + 1} /\ k + 1 \notin QuotesIn(k)
      BY <2>1
    <3>2. Cardinality(QuotesIn(k) \cup {k + 1}) = Cardinality(QuotesIn(k)) + 1
      BY <1>3, <3>1, FS_AddElement
    <3> QED
      BY <2>1, <3>1, <3>2
  <2>2. CASE t[k + 1] # "quote"
    <3>1. QuotesIn(k + 1) = QuotesIn(k)
      BY <2>2
    <3> QED
      BY <2>2, <3>1
  <2> QED
    BY <2>1, <2>2
<1> HIDE DEF QuotesIn
<1> QED
  BY <1>2, <1>3, <1>4, <1>5

\* They are those of the symbols before.
LEMMA QuotesAlike ==
  ASSUME NEW t, NEW u, NEW k \in Nat, \A i \in 1 .. k : t[i] = u[i]
  PROVE  CR!Quotes(t, k) = CR!Quotes(u, k)
<1>1. {i \in 1 .. k : t[i] = "quote"} = {i \in 1 .. k : u[i] = "quote"}
  OBVIOUS
<1> QED
  BY <1>1, Zenon DEF CR!Quotes

\* The reader of the file, k symbols into a row that begins after s of them, is
\* where the reader of the row alone is.
InRow(F, s, t, o, k) ==
  \E a \in ReaderAts, f \in Fields, r \in Found :
    /\ CR!Read(SubSeq(F, 1, s + k)) = StateOf(a, f, r, o)
    /\ CR!ReadRow(SubSeq(t, 1, k)) = StateOf(a, f, r, <<>>)
    /\ a = "quoted" <=> CR!Quotes(t, k) % 2 = 1
    /\ a = "row" <=> k = 0
    /\ k = 0 => f = <<>> /\ r = <<>>

\* A row begins after s symbols of the file, and t has the next m of them.
RowBegins(F, s, t, o, m) ==
  /\ F \in Seq(CR!Symbols) /\ t \in Seq(CR!Symbols) /\ s \in Nat /\ m \in Nat
  /\ s + m <= Len(F) /\ m <= Len(t) /\ \A i \in 1 .. m : t[i] = F[s + i]
  /\ CR!Regular(F) /\ o \in Seq(Found)
  /\ CR!Read(SubSeq(F, 1, s)) = StateOf("row", <<>>, <<>>, o)

\* As long as no newline ends the row, the reader is in it.
LEMMA StaysInRow ==
  ASSUME NEW F, NEW s, NEW t, NEW o, NEW m, RowBegins(F, s, t, o, m),
         \A i \in 1 .. m : ~(t[i] = "newline" /\ CR!Quotes(t, i) % 2 = 0)
  PROVE  InRow(F, s, t, o, m)
<1>1. /\ F \in Seq(CR!Symbols) /\ t \in Seq(CR!Symbols) /\ s \in Nat /\ m \in Nat
      /\ s + m <= Len(F) /\ m <= Len(t) /\ \A i \in 1 .. m : t[i] = F[s + i]
      /\ CR!Regular(F) /\ o \in Seq(Found)
      /\ CR!Read(SubSeq(F, 1, s)) = StateOf("row", <<>>, <<>>, o)
  BY Zenon DEF RowBegins
<1> DEFINE T == {k \in Nat : k <= m => InRow(F, s, t, o, k)}
<1>2. 0 \in T
  <2>1. s + 0 = s /\ SubSeq(t, 1, 0) = <<>> /\ CR!Quotes(t, 0) % 2 # 1
    BY <1>1, QuotesGo
  <2>2. CR!ReadRow(<<>>) = CR!Parser
    BY <1>1, ReadRowGoes
  <2>3. CR!Parser = StateOf("row", <<>>, <<>>, <<>>)
    BY Zenon DEF CR!Parser, ReaderState, StateOf
  <2>4. "row" \in ReaderAts /\ <<>> \in Fields /\ <<>> \in Found /\ "row" # "quoted"
    BY DEF ReaderAts, Fields, Found
  <2>5. InRow(F, s, t, o, 0)
    BY <1>1, <2>1, <2>2, <2>3, <2>4, Zenon DEF InRow
  <2> QED
    BY <2>5
<1>3. ASSUME NEW k \in Nat, k \in T PROVE k + 1 \in T
  <2> SUFFICES ASSUME k + 1 <= m PROVE InRow(F, s, t, o, k + 1)
    OBVIOUS
  <2>1. InRow(F, s, t, o, k)
    BY <1>1, <1>3
  <2> PICK a \in ReaderAts, f \in Fields, r \in Found :
        /\ CR!Read(SubSeq(F, 1, s + k)) = StateOf(a, f, r, o)
        /\ CR!ReadRow(SubSeq(t, 1, k)) = StateOf(a, f, r, <<>>)
        /\ a = "quoted" <=> CR!Quotes(t, k) % 2 = 1
    BY <2>1, Zenon DEF InRow
  <2> PICK v : v = t[k + 1]
    OBVIOUS
  <2>2. v \in CR!Symbols /\ v = F[s + k + 1] /\ k + 1 \in 1 .. m
    BY <1>1
  <2>3. /\ SubSeq(F, 1, s + k + 1) = Append(SubSeq(F, 1, s + k), v) /\ SubSeq(F, 1, s + k) \in Seq(CR!Symbols)
        /\ SubSeq(t, 1, k + 1) = Append(SubSeq(t, 1, k), v) /\ SubSeq(t, 1, k) \in Seq(CR!Symbols)
    <3> PICK n, S : n = s + k /\ S = CR!Symbols
      OBVIOUS
    <3>1. n \in 0 .. Len(F) /\ n < Len(F) /\ k \in 0 .. Len(t) /\ k < Len(t) /\ F \in Seq(S) /\ t \in Seq(S)
      BY <1>1
    <3>2. SubSeq(F, 1, n + 1) = Append(SubSeq(F, 1, n), F[n + 1]) /\ SubSeq(F, 1, n) \in Seq(S)
      BY ONLY <3>1, OneMore
    <3>3. SubSeq(t, 1, k + 1) = Append(SubSeq(t, 1, k), t[k + 1]) /\ SubSeq(t, 1, k) \in Seq(S)
      BY ONLY <3>1, OneMore
    <3> QED
      BY <2>2, <3>2, <3>3, Zenon
  <2>4. /\ CR!Quotes(t, k) \in Nat
        /\ CR!Quotes(t, k + 1) = IF v = "quote" THEN CR!Quotes(t, k) + 1 ELSE CR!Quotes(t, k)
    BY <1>1, QuotesGo
  <2>5. v = "newline" => a = "quoted"
    <3>1. v = "newline" => CR!Quotes(t, k + 1) = CR!Quotes(t, k) /\ CR!Quotes(t, k + 1) % 2 # 0
      BY <2>2, <2>4
    <3> QED
      BY <2>4, <3>1
  <2>6. v = "quote" => a # "unquoted"
    <3>1. s + k + 1 \in 1 .. Len(F) /\ (s + k + 1) - 1 = s + k
      BY <1>1
    <3>2. v = "quote" => CR!Read(SubSeq(F, 1, s + k)).at # "unquoted"
      BY <1>1, <2>2, <3>1 DEF CR!Regular
    <3> PICK p : p = StateOf(a, f, r, o)
      OBVIOUS
    <3>3. p.at = a
      BY StateParts
    <3> QED
      BY <3>2, <3>3, Zenon
  <2> PICK a1 \in ReaderAts, f1 \in Fields, r1 \in Found :
        /\ \A q, b : CR!ReadSymbol(ReaderState(a, f, r, q, b), v) = ReaderState(a1, f1, r1, q, b)
        /\ a1 # "row" /\ (a1 = "quoted" <=> IF v = "quote" THEN a # "quoted" ELSE a = "quoted")
    BY <2>2, <2>5, <2>6, SymbolInRow
  <2>7. \A q : CR!ReadSymbol(StateOf(a, f, r, q), v) = StateOf(a1, f1, r1, q)
    BY Zenon DEF StateOf
  <2>8. CR!Read(SubSeq(F, 1, s + k + 1)) = StateOf(a1, f1, r1, o)
    <3>1. CR!Read(SubSeq(F, 1, s + k + 1)) = CR!ReadSymbol(CR!Read(SubSeq(F, 1, s + k)), v)
      BY <2>2, <2>3, ReadGoes
    <3> QED
      BY <2>7, <3>1, Zenon
  <2>9. CR!ReadRow(SubSeq(t, 1, k + 1)) = StateOf(a1, f1, r1, <<>>)
    <3> PICK p : p = StateOf(a, f, r, <<>>)
      OBVIOUS
    <3>1. CR!ReadRow(SubSeq(t, 1, k + 1)) = CR!ReadInRow(p, v)
      BY <2>2, <2>3, ReadRowGoes
    <3>2. p.out = <<>> /\ p \in ReaderStates
      <4> PICK o1 : o1 = <<>>
        OBVIOUS
      <4>1. o1 \in Seq(Found) /\ p = StateOf(a, f, r, o1)
        OBVIOUS
      <4>2. p.out = o1 /\ p \in ReaderStates
        BY ONLY <4>1, StateParts, a \in ReaderAts, f \in Fields, r \in Found
      <4> QED
        BY <4>2, Zenon
    <3>3. CR!ReadInRow(p, v) = CR!ReadSymbol(p, v)
      BY <3>2, SymbolOfRow
    <3> QED
      BY <2>7, <3>1, <3>3, Zenon
  <2>10. a1 = "quoted" <=> CR!Quotes(t, k + 1) % 2 = 1
    BY <2>4
  <2>11. s + (k + 1) = s + k + 1 /\ k + 1 # 0
    BY <1>1
  <2> QED
    BY <2>8, <2>9, <2>10, <2>11, Zenon DEF InRow
<1>4. m \in T
  <2> HIDE DEF T
  <2> QED
    BY <1>1, <1>2, <1>3, NatSet
<1> QED
  BY <1>1, <1>4

\* The end of a file ends the row.
LEMMA EndIs ==
  ASSUME NEW p, NEW a, NEW f, NEW r, NEW o, p = StateOf(a, f, r, o)
  PROVE  CR!EndOfFile(p) = IF a = "row" THEN p
                           ELSE StateOf("row", <<>>, <<>>, Append(o, Append(r, f)))
<1> PICK b, r1 : b = FALSE /\ r1 = Append(r, f)
  OBVIOUS
<1>1. p.at = a /\ p = ReaderState(a, f, r, o, b)
  <2>1. p.at = a
    BY StateParts
  <2> QED
    BY <2>1, Zenon DEF StateOf
<1>2. CR!EndOfFile(p) = IF a = "row" THEN p ELSE CR!EndRow(CR!EndField(p))
  BY <1>1, Zenon DEF CR!EndOfFile
<1>3. /\ CR!EndField(ReaderState(a, f, r, o, b)) = ReaderState(a, <<>>, r1, o, b)
      /\ CR!EndRow(ReaderState(a, <<>>, r1, o, b)) = ReaderState("row", <<>>, <<>>, Append(o, r1), b)
  BY ReaderMoves
<1> QED
  BY <1>1, <1>2, <1>3, Zenon DEF StateOf

\* So does a newline outside quotes.
LEMMA NewlineIs ==
  ASSUME NEW a \in ReaderAts, a # "quoted", NEW f, NEW r, NEW o
  PROVE  CR!ReadSymbol(StateOf(a, f, r, o), "newline") =
           IF a = "row" THEN StateOf("row", f, <<>>, Append(o, r))
           ELSE StateOf("row", <<>>, <<>>, Append(o, Append(r, f)))
<1> PICK b, s, x : b = FALSE /\ s = "newline" /\ x = CR!ReadSymbol(ReaderState(a, f, r, o, b), s)
  OBVIOUS
<1>1. s \in CR!Symbols
  BY DEF CR!Symbols
<1>2. /\ a = "row" => x = ReaderState("row", f, <<>>, Append(o, r), b)
      /\ a # "row" => x = ReaderState("row", <<>>, <<>>, Append(o, Append(r, f)), b)
  BY <1>1, SymbolRead
<1> QED
  BY <1>2, Zenon DEF StateOf

\* The row a text ends, as its reader gives it and as the reader of the file has it.
LEMMA RowIsRead ==
  ASSUME NEW a, NEW f \in Fields, NEW r \in Found, NEW t,
         CR!ReadRow(t) = StateOf(a, f, r, <<>>)
  PROVE  CR!ReadOne(t) = IF a = "row" THEN <<>> ELSE Append(r, f)
<1> PICK p, q : p = CR!ReadRow(t) /\ q = CR!EndOfFile(p)
  OBVIOUS
<1>1. p.at = a /\ p.out = <<>>
  BY StateParts
<1>5. \A w, x, y, z : StateOf(w, x, y, z).bad = FALSE
  BY Zenon DEF StateOf, ReaderState
<1>6. p.bad = FALSE
  BY <1>5, Zenon
<1>2. CR!ReadOne(t) = IF q.bad THEN <<<<"error">>>> ELSE IF q.out = <<>> THEN <<>> ELSE Head(q.out)
  BY Zenon DEF CR!ReadOne
<1>3. CASE a = "row"
  <2>1. q = p
    BY <1>1, <1>3, Zenon DEF CR!EndOfFile
  <2> QED
    BY <1>1, <1>2, <1>3, <1>6, <2>1, Zenon
<1>4. CASE a # "row"
  <2> PICK cells, n, o : cells = Append(r, f) /\ n = <<>> /\ o = Append(n, cells)
    OBVIOUS
  <2>1. p = StateOf(a, f, r, n)
    OBVIOUS
  <2>2. q = StateOf("row", <<>>, <<>>, o)
    BY ONLY <1>4, <2>1, EndIs, q = CR!EndOfFile(p), cells = Append(r, f), o = Append(n, cells)
  <2>3. q.out = o
    BY <2>2, StateParts
  <2>4. o # <<>> /\ Head(o) = cells
    <3>1. cells \in Found
      BY DEF Found
    <3> QED
      BY <3>1
  <2> QED
    BY <1>2, <1>4, <1>5, <2>2, <2>3, <2>4, ZenonT(40)
<1> QED
  BY <1>3, <1>4

\* A row that a newline ends is the next one of the file.
LEMMA RowIsNext ==
  ASSUME NEW F, NEW s, NEW t, NEW o, NEW m \in Nat, RowBegins(F, s, t, o, m), InRow(F, s, t, o, m),
         s + m < Len(F), F[s + m + 1] = "newline", CR!Quotes(t, m) % 2 = 0
  PROVE  CR!Read(SubSeq(F, 1, s + m + 1))
           = StateOf("row", <<>>, <<>>, Append(o, CR!ReadOne(SubSeq(t, 1, m))))
<1>1. F \in Seq(CR!Symbols) /\ t \in Seq(CR!Symbols) /\ s \in Nat /\ o \in Seq(Found)
  BY Zenon DEF RowBegins
<1> PICK a \in ReaderAts, f \in Fields, r \in Found :
      /\ CR!Read(SubSeq(F, 1, s + m)) = StateOf(a, f, r, o)
      /\ CR!ReadRow(SubSeq(t, 1, m)) = StateOf(a, f, r, <<>>)
      /\ a = "quoted" <=> CR!Quotes(t, m) % 2 = 1
      /\ a = "row" <=> m = 0
      /\ m = 0 => f = <<>> /\ r = <<>>
  BY Zenon DEF InRow
<1> PICK cells, v, x : cells = CR!ReadOne(SubSeq(t, 1, m)) /\ v = "newline" /\ x = CR!Read(SubSeq(F, 1, s + m + 1))
  OBVIOUS
<1>2. cells = IF a = "row" THEN <<>> ELSE Append(r, f)
  BY RowIsRead, Zenon
<1>3. a # "quoted"
  OBVIOUS
<1>4. x = CR!ReadSymbol(StateOf(a, f, r, o), v)
  <2> PICK n, S : n = s + m /\ S = CR!Symbols
    OBVIOUS
  <2>1. n \in 0 .. Len(F) /\ n < Len(F) /\ F \in Seq(S) /\ v \in S
    BY <1>1 DEF CR!Symbols
  <2>2. SubSeq(F, 1, n + 1) = Append(SubSeq(F, 1, n), F[n + 1]) /\ SubSeq(F, 1, n) \in Seq(S)
    BY ONLY <2>1, OneMore
  <2>3. x = CR!ReadSymbol(CR!Read(SubSeq(F, 1, n)), v)
    BY <2>1, <2>2, ReadGoes
  <2> QED
    BY <2>3, Zenon
<1>6. a = "row" => x = StateOf("row", f, <<>>, Append(o, r))
  BY <1>3, <1>4, NewlineIs
<1>7. a # "row" => x = StateOf("row", <<>>, <<>>, Append(o, Append(r, f)))
  BY <1>3, <1>4, NewlineIs
<1> QED
  BY <1>2, <1>6, <1>7, Zenon

\* A row that the end of the file ends is its last one, if there is any of it.
LEMMA RowIsLast ==
  ASSUME NEW F, NEW s, NEW t, NEW o, NEW m \in Nat, RowBegins(F, s, t, o, m), InRow(F, s, t, o, m),
         s + m = Len(F)
  PROVE  CR!EndOfFile(CR!Read(F)).out = IF m = 0 THEN o ELSE Append(o, CR!ReadOne(SubSeq(t, 1, m)))
<1>1. F \in Seq(CR!Symbols) /\ s \in Nat
  BY Zenon DEF RowBegins
<1> PICK a \in ReaderAts, f \in Fields, r \in Found :
      /\ CR!Read(SubSeq(F, 1, s + m)) = StateOf(a, f, r, o)
      /\ CR!ReadRow(SubSeq(t, 1, m)) = StateOf(a, f, r, <<>>)
      /\ a = "row" <=> m = 0
  BY Zenon DEF InRow
<1> PICK p, q, cells : p = CR!Read(F) /\ q = CR!EndOfFile(p) /\ cells = CR!ReadOne(SubSeq(t, 1, m))
  OBVIOUS
<1>2. cells = IF a = "row" THEN <<>> ELSE Append(r, f)
  BY RowIsRead, Zenon
<1>3. SubSeq(F, 1, s + m) = F
  BY <1>1
<1>4. p = StateOf(a, f, r, o)
  BY <1>3, Zenon
<1>5. p.at = a /\ p.out = o
  BY <1>4, StateParts
<1>6. CASE m = 0
  <2>1. q = p
    BY <1>5, <1>6, Zenon DEF CR!EndOfFile
  <2> QED
    BY <1>5, <1>6, <2>1, Zenon
<1>7. CASE m # 0
  <2> PICK o1 : o1 = Append(o, Append(r, f))
    OBVIOUS
  <2>2. q = StateOf("row", <<>>, <<>>, o1)
    BY <1>4, <1>7, EndIs
  <2>3. q.out = o1
    BY ONLY <2>2, StateParts
  <2> QED
    BY <1>2, <1>7, <2>3, Zenon
<1> QED
  BY <1>6, <1>7

\* What begins a sequence still does when there is more of it.
LEMMA PrefixGrows ==
  ASSUME NEW R, NEW a \in Seq(R), NEW b \in Seq(R), NEW x \in R, CR!IsPrefix(a, b)
  PROVE  CR!IsPrefix(a, Append(b, x))
<1>1. Len(a) \in Nat /\ Len(b) \in Nat /\ Len(a) <= Len(b) /\ SubSeq(a, 1, Len(a)) = SubSeq(b, 1, Len(a))
  BY DEF CR!IsPrefix
<1> PICK c : c = Append(b, x)
  OBVIOUS
<1>2. c \in Seq(R) /\ Len(c) = Len(b) + 1 /\ \A i \in 1 .. Len(b) : c[i] = b[i]
  BY AppendProperties
<1>3. SubSeq(c, 1, Len(a)) = SubSeq(b, 1, Len(a))
  <2> PICK n \in Nat : n = Len(a)
    BY <1>1
  <2>1. n <= Len(b) /\ n <= Len(c)
    BY <1>1, <1>2
  <2>2. SubSeq(c, 1, n) \in Seq(R) /\ Len(SubSeq(c, 1, n)) = n /\ \A i \in 1 .. n : SubSeq(c, 1, n)[i] = c[i]
    BY <1>2, <2>1
  <2>3. SubSeq(b, 1, n) \in Seq(R) /\ Len(SubSeq(b, 1, n)) = n /\ \A i \in 1 .. n : SubSeq(b, 1, n)[i] = b[i]
    BY <1>1, <2>1
  <2> PICK d, e : d = SubSeq(c, 1, n) /\ e = SubSeq(b, 1, n)
    OBVIOUS
  <2>4. \A i \in 1 .. n : d[i] = e[i]
    BY <1>1, <1>2, <2>1, <2>2, <2>3
  <2>5. d \in Seq(R) /\ e \in Seq(R) /\ Len(d) = n /\ Len(e) = n
    BY <2>2, <2>3
  <2>6. d = e
    BY ONLY <2>4, <2>5
  <2> QED
    BY <2>6, Zenon
<1>4. Len(a) <= Len(c)
  BY <1>1, <1>2
<1> QED
  BY <1>1, <1>3, <1>4, Zenon DEF CR!IsPrefix

\* A sequence begins itself.
LEMMA PrefixSelf == ASSUME NEW R, NEW a \in Seq(R) PROVE CR!IsPrefix(a, a)
BY DEF CR!IsPrefix

\* The rows with text of a beginning are the beginning of those with text.
LEMMA TextPrefix ==
  ASSUME NEW a \in Seq(Found), NEW b \in Seq(Found), CR!IsPrefix(a, b)
  PROVE  CR!IsPrefix(CR!WithText(a), CR!WithText(b))
<1> PICK m, n \in Nat : m = Len(a) /\ n = Len(b)
  OBVIOUS
<1>1. m <= n /\ SubSeq(b, 1, m) = a /\ SubSeq(b, 1, n) = b
  <2>1. SubSeq(a, 1, m) = a /\ SubSeq(b, 1, n) = b
    OBVIOUS
  <2> QED
    BY <2>1 DEF CR!IsPrefix
<1> DEFINE T == {k \in Nat : m + k <= n => CR!IsPrefix(CR!WithText(a), CR!WithText(SubSeq(b, 1, m + k)))}
<1>2. \A c \in Seq(Found) : CR!WithText(c) \in Seq(Found)
  BY WithTextGoes, Zenon
<1>3. 0 \in T
  <2>1. SubSeq(b, 1, m + 0) = a
    BY <1>1
  <2>2. CR!IsPrefix(CR!WithText(a), CR!WithText(a))
    BY <1>2, PrefixSelf
  <2> QED
    BY <2>1, <2>2
<1>4. ASSUME NEW k \in Nat, k \in T PROVE k + 1 \in T
  <2> SUFFICES ASSUME m + (k + 1) <= n
               PROVE  CR!IsPrefix(CR!WithText(a), CR!WithText(SubSeq(b, 1, m + (k + 1))))
    OBVIOUS
  <2> PICK i \in Nat : i = m + k
    OBVIOUS
  <2>1. i \in 0 .. Len(b) /\ i < Len(b) /\ m + (k + 1) = i + 1
    OBVIOUS
  <2> PICK c, r, x, y : c = SubSeq(b, 1, i) /\ r = b[i + 1] /\ x = CR!WithText(a) /\ y = CR!WithText(c)
    OBVIOUS
  <2>2. SubSeq(b, 1, i + 1) = Append(c, r) /\ c \in Seq(Found) /\ r \in Found
    BY <2>1, OneMore
  <2>3. CR!IsPrefix(x, y) /\ x \in Seq(Found) /\ y \in Seq(Found)
    <3>1. i <= n
      BY <2>1
    <3>2. CR!IsPrefix(x, y)
      BY <1>4, <3>1
    <3> QED
      BY <1>2, <2>2, <3>2, Zenon
  <2>4. CR!WithText(Append(c, r)) = TextOf(y, r)
    BY <2>2, WithTextGoes
  <2>5. CR!IsPrefix(x, Append(y, r))
    BY <2>2, <2>3, PrefixGrows
  <2>6. CR!IsPrefix(x, TextOf(y, r))
    BY <2>3, <2>5, Zenon DEF TextOf
  <2> QED
    BY <2>1, <2>2, <2>4, <2>6, Zenon
<1>5. n - m \in T
  <2>1. n - m \in Nat
    BY <1>1
  <2> HIDE DEF T
  <2> QED
    BY <1>3, <1>4, <2>1, NatSet
<1>6. CR!IsPrefix(CR!WithText(a), CR!WithText(SubSeq(b, 1, m + (n - m))))
  BY <1>1, <1>5
<1>7. m + (n - m) = n
  OBVIOUS
<1> QED
  BY <1>1, <1>6, <1>7, Zenon

\* The rows that a state has.
LEMMA OutIs ==
  ASSUME NEW p, NEW a, NEW f, NEW r, NEW o, NEW b, p = ReaderState(a, f, r, o, b) PROVE p.out = o
BY Zenon DEF ReaderState

\* The rows that are read stay when one more symbol is.
LEMMA RowsStay ==
  ASSUME NEW p \in ReaderStates, NEW s \in CR!Symbols, NEW a \in Seq(Found), CR!IsPrefix(a, p.out)
  PROVE  CR!IsPrefix(a, CR!ReadSymbol(p, s).out)
<1> PICK w \in ReaderAts, f \in Fields, r \in Found, o \in Seq(Found), b \in BOOLEAN :
      p = ReaderState(w, f, r, o, b)
  BY ReaderWhole, Zenon
<1> PICK x : x = CR!ReadSymbol(p, s)
  OBVIOUS
<1>2. p.out = o
  BY ReaderParts
<1>3. Append(r, f) \in Found
  BY DEF Found
<1>4. \/ x = ReaderState("closing", f, r, o, b) \/ x = ReaderState("quoted", Append(f, s), r, o, b)
      \/ x = ReaderState("row", f, <<>>, Append(o, r), b)
      \/ x = ReaderState("row", <<>>, <<>>, Append(o, Append(r, f)), b)
      \/ x = ReaderState("field", <<>>, Append(r, f), o, b) \/ x = ReaderState("quoted", f, r, o, b)
      \/ x = ReaderState("unquoted", Append(f, s), r, o, b)
  <2>1. w \in {"row", "field", "unquoted", "quoted", "closing"} /\ s \in {"x", "comma", "quote", "newline"}
    BY DEF ReaderAts, CR!Symbols
  <2> QED
    BY <2>1, SymbolRead
<1>5. x.out \in {o, Append(o, r), Append(o, Append(r, f))}
  <2> PICK n, fs, rf, or, orf :
        n = <<>> /\ fs = Append(f, s) /\ rf = Append(r, f) /\ or = Append(o, r) /\ orf = Append(o, rf)
    OBVIOUS
  <2>1. \/ \E a1, f1, r1 : x = ReaderState(a1, f1, r1, o, b)
        \/ \E a1, f1, r1 : x = ReaderState(a1, f1, r1, or, b)
        \/ \E a1, f1, r1 : x = ReaderState(a1, f1, r1, orf, b)
    BY <1>4, Zenon
  <2>2. \A a1, f1, r1, q : x = ReaderState(a1, f1, r1, q, b) => x.out = q
    BY OutIs, Zenon
  <2> QED
    BY <2>1, <2>2, Zenon
<1>6. CR!IsPrefix(a, Append(o, r)) /\ CR!IsPrefix(a, Append(o, Append(r, f)))
  BY <1>2, <1>3, PrefixGrows
<1> QED
  BY <1>2, <1>5, <1>6, Zenon

\* The rows read of a beginning of the file begin those of the file.
LEMMA ReadPrefix ==
  ASSUME NEW F \in Seq(CR!Symbols), NEW m \in 0 .. Len(F)
  PROVE  CR!IsPrefix(CR!Read(SubSeq(F, 1, m)).out, CR!ReadFile(F)) /\ CR!ReadFile(F) \in Seq(Found)
<1> PICK n \in Nat : n = Len(F)
  OBVIOUS
<1> PICK S, a : S = CR!Symbols /\ a = CR!Read(SubSeq(F, 1, m)).out
  OBVIOUS
<1>0. \A c \in Seq(S) : CR!Read(c) \in ReaderStates
  BY ReadGoes, Zenon
<1>1. \A p \in ReaderStates : p.out \in Seq(Found)
  BY DEF ReaderStates
<1>2. a \in Seq(Found) /\ m \in Nat /\ m <= n
  <2>1. SubSeq(F, 1, m) \in Seq(S)
    OBVIOUS
  <2>2. a \in Seq(Found)
    BY <1>0, <1>1, <2>1, Zenon
  <2> QED
    BY <2>2
<1> DEFINE T == {k \in Nat : m + k <= n => CR!IsPrefix(a, CR!Read(SubSeq(F, 1, m + k)).out)}
<1>3. 0 \in T
  <2>1. m + 0 = m /\ CR!IsPrefix(a, a)
    BY <1>2, PrefixSelf
  <2> QED
    BY <2>1
<1>4. ASSUME NEW k \in Nat, k \in T PROVE k + 1 \in T
  <2> SUFFICES ASSUME m + (k + 1) <= n PROVE CR!IsPrefix(a, CR!Read(SubSeq(F, 1, m + (k + 1))).out)
    OBVIOUS
  <2> PICK i \in Nat : i = m + k
    BY <1>2
  <2>1. i \in 0 .. Len(F) /\ i < Len(F) /\ m + (k + 1) = i + 1 /\ F \in Seq(S)
    BY <1>2
  <2> PICK c, r, p : c = SubSeq(F, 1, i) /\ r = F[i + 1] /\ p = CR!Read(c)
    OBVIOUS
  <2>2. SubSeq(F, 1, i + 1) = Append(c, r) /\ c \in Seq(S) /\ r \in S
    BY <2>1, OneMore
  <2>3. CR!IsPrefix(a, p.out) /\ p \in ReaderStates
    <3>1. i <= n
      BY <2>1
    <3>2. CR!IsPrefix(a, p.out)
      BY <1>4, <3>1
    <3> QED
      BY <1>0, <2>2, <3>2, Zenon
  <2>4. CR!Read(Append(c, r)) = CR!ReadSymbol(p, r)
    BY <2>2, ReadGoes
  <2>5. CR!IsPrefix(a, CR!ReadSymbol(p, r).out)
    BY <1>2, <2>2, <2>3, RowsStay
  <2> QED
    BY <2>1, <2>2, <2>4, <2>5, Zenon
<1>5. n - m \in T
  <2>1. n - m \in Nat
    BY <1>2
  <2> HIDE DEF T
  <2> QED
    BY <1>3, <1>4, <2>1, NatSet
<1> PICK p : p = CR!Read(F)
  OBVIOUS
<1>6. CR!IsPrefix(a, p.out) /\ p \in ReaderStates
  <2>1. m + (n - m) = n /\ m + (n - m) <= n /\ SubSeq(F, 1, n) = F
    BY <1>2
  <2> QED
    BY <1>0, <1>5, <2>1
<1> PICK w \in ReaderAts, f \in Fields, r \in Found, o \in Seq(Found), b \in BOOLEAN :
      p = ReaderState(w, f, r, o, b)
  BY <1>6, ReaderWhole, Zenon
<1>8. p.out = o /\ Append(r, f) \in Found
  <2>1. Append(r, f) \in Found
    BY DEF Found
  <2> QED
    BY <2>1, ReaderParts
<1>9. CR!ReadFile(F) = o \/ CR!ReadFile(F) = Append(o, Append(r, f))
  <2> PICK x : x = Append(r, f)
    OBVIOUS
  <2>1. CR!ReadFile(F) = CR!EndOfFile(p).out /\ (CR!EndOfFile(p) = p \/ CR!EndOfFile(p) = CR!EndRow(CR!EndField(p)))
    BY Zenon DEF CR!ReadFile, CR!EndOfFile
  <2>2. /\ CR!EndField(p) = ReaderState(w, <<>>, x, o, b)
        /\ CR!EndRow(ReaderState(w, <<>>, x, o, b)) = ReaderState("row", <<>>, <<>>, Append(o, x), b)
    BY ReaderMoves
  <2>3. CR!EndOfFile(p) = p \/ CR!EndOfFile(p) = ReaderState("row", <<>>, <<>>, Append(o, x), b)
    BY <2>1, <2>2, Zenon
  <2> PICK z, at1, q, o1 : z = <<>> /\ at1 = "row" /\ q = CR!EndOfFile(p) /\ o1 = Append(o, x)
    OBVIOUS
  <2>4. q = p \/ q = ReaderState(at1, z, z, o1, b)
    BY <2>3
  <2>5. q.out = o \/ q.out = o1
    BY <1>8, <2>4, OutIs, Zenon
  <2> QED
    BY <2>1, <2>5, Zenon
<1>10. CR!IsPrefix(a, o) /\ CR!IsPrefix(a, Append(o, Append(r, f))) /\ Append(o, Append(r, f)) \in Seq(Found)
  BY <1>2, <1>6, <1>8, PrefixGrows
<1> QED
  BY <1>9, <1>10, Zenon

\* Texts are sequences of symbols within the bound.
LEMMA TextsAre == ASSUME NEW t PROVE t \in CR!Texts <=> t \in Seq(CR!Symbols) /\ Len(t) <= MaxSymbols
<1>1. MaxSymbols \in Nat
  BY DatasetsAssumption
<1>2. ASSUME t \in CR!Texts PROVE t \in Seq(CR!Symbols) /\ Len(t) <= MaxSymbols
  <2>1. PICK n \in 0 .. MaxSymbols : t \in [1 .. n -> CR!Symbols]
    BY <1>2 DEF CR!Texts
  <2>2. n \in Nat
    BY <1>1
  <2> QED
    BY <1>1, <2>1, <2>2
<1>3. ASSUME t \in Seq(CR!Symbols), Len(t) <= MaxSymbols PROVE t \in CR!Texts
  <2> PICK n : n = Len(t)
    OBVIOUS
  <2>1. n \in 0 .. MaxSymbols /\ t \in [1 .. n -> CR!Symbols]
    BY <1>1, <1>3
  <2> QED
    BY <2>1 DEF CR!Texts
<1> QED
  BY <1>2, <1>3

\* A part of a file.
LEMMA PartIs ==
  ASSUME NEW R, NEW F \in Seq(R), NEW m \in Nat, NEW n \in Nat, m <= n, n <= Len(F)
  PROVE  /\ SubSeq(F, m + 1, n) \in Seq(R) /\ Len(SubSeq(F, m + 1, n)) = n - m
         /\ \A i \in 1 .. n - m : SubSeq(F, m + 1, n)[i] = F[m + i]
<1>1. SubSeq(F, m + 1, n) \in Seq(R) /\ Len(SubSeq(F, m + 1, n)) = n - m
  OBVIOUS
<1>2. ASSUME NEW i \in 1 .. n - m PROVE SubSeq(F, m + 1, n)[i] = F[m + i]
  <2>1. (m + 1) + i - 1 = m + i /\ i \in 1 .. (n - (m + 1)) + 1
    OBVIOUS
  <2> QED
    BY <2>1
<1> QED
  BY <1>1, <1>2

\* The next part joins it.
LEMMA PartsJoin ==
  ASSUME NEW R, NEW F \in Seq(R), NEW m \in Nat, NEW n \in Nat, NEW k \in Nat, m <= n, n <= k, k <= Len(F)
  PROVE  SubSeq(F, m + 1, n) \o SubSeq(F, n + 1, k) = SubSeq(F, m + 1, k)
<1> PICK a, b, c : a = SubSeq(F, m + 1, n) /\ b = SubSeq(F, n + 1, k) /\ c = SubSeq(F, m + 1, k)
  OBVIOUS
<1>1. a \in Seq(R) /\ Len(a) = n - m /\ \A i \in 1 .. n - m : a[i] = F[m + i]
  BY PartIs
<1>2. b \in Seq(R) /\ Len(b) = k - n /\ \A i \in 1 .. k - n : b[i] = F[n + i]
  BY PartIs
<1>3. c \in Seq(R) /\ Len(c) = k - m /\ \A i \in 1 .. k - m : c[i] = F[m + i]
  <2>1. m <= k
    OBVIOUS
  <2> QED
    BY <2>1, PartIs
<1> PICK d : d = a \o b
  OBVIOUS
<1>4. d \in Seq(R) /\ Len(d) = k - m
  BY <1>1, <1>2
<1>5. ASSUME NEW i \in 1 .. k - m PROVE d[i] = c[i]
  <2>1. CASE i <= n - m
    <3>1. i \in 1 .. n - m /\ d[i] = a[i]
      BY <1>1, <1>2, <2>1, SMTT(30)
    <3> QED
      BY <1>1, <1>3, <3>1
  <2>2. CASE i > n - m
    <3>1. i - (n - m) \in 1 .. k - n /\ n + (i - (n - m)) = m + i
      BY <2>2
    <3>2. d[i] = b[i - (n - m)]
      <4>1. i \in 1 .. Len(a) + Len(b) /\ ~(i <= Len(a))
        BY <1>1, <1>2, <2>2
      <4>2. d[i] = b[i - Len(a)]
        BY <1>1, <1>2, <4>1, ConcatProperties, ZenonT(40)
      <4> QED
        BY <1>1, <4>2
    <3>3. b[i - (n - m)] = F[m + i]
      BY <1>2, <3>1
    <3> QED
      BY <1>3, <3>2, <3>3
  <2>3. i <= n - m \/ i > n - m
    BY ONLY i \in 1 .. k - m, n \in Nat, m \in Nat, k \in Nat
  <2> QED
    BY <2>1, <2>2, <2>3, Zenon
<1>6. d = c
  BY ONLY <1>3, <1>4, <1>5
<1> QED
  BY <1>6, Zenon

\* A part of it is one of the file.
LEMMA PartOfPart ==
  ASSUME NEW R, NEW F \in Seq(R), NEW m \in Nat, NEW n \in Nat, NEW j \in Nat, m + j <= n, n <= Len(F)
  PROVE  SubSeq(SubSeq(F, m + 1, n), j + 1, n - m) = SubSeq(F, m + j + 1, n)
<1> PICK a, l, h : a = SubSeq(F, m + 1, n) /\ l = n - m /\ h = m + j
  OBVIOUS
<1>1. l \in Nat /\ h \in Nat /\ j <= l /\ m <= n /\ h <= n
  OBVIOUS
<1>2. a \in Seq(R) /\ Len(a) = l /\ \A i \in 1 .. l : a[i] = F[m + i]
  BY <1>1, PartIs
<1> PICK b, c : b = SubSeq(a, j + 1, l) /\ c = SubSeq(F, h + 1, n)
  OBVIOUS
<1>3. b \in Seq(R) /\ Len(b) = l - j /\ \A i \in 1 .. l - j : b[i] = a[j + i]
  BY <1>1, <1>2, PartIs
<1>4. c \in Seq(R) /\ Len(c) = n - h /\ \A i \in 1 .. n - h : c[i] = F[h + i]
  BY <1>1, PartIs
<1>5. l - j = n - h
  OBVIOUS
<1>6. ASSUME NEW i \in 1 .. n - h PROVE b[i] = c[i]
  <2>1. j + i \in 1 .. l /\ m + (j + i) = h + i /\ i \in 1 .. l - j
    BY <1>1
  <2> QED
    BY <1>2, <1>3, <1>4, <2>1
<1>7. b = c
  BY <1>3, <1>4, <1>5, <1>6
<1> QED
  BY <1>7, Zenon

\* What each of the rows is read as.
Ones(rs) == [i \in 1 .. Len(rs) |-> CR!ReadOne(rs[i])]

\* One more row is read as one more.
LEMMA OneMoreRowRead ==
  ASSUME NEW rs \in Seq(CR!Texts), NEW t \in CR!Texts
  PROVE  Ones(Append(rs, t)) = Append(Ones(rs), CR!ReadOne(t))
<1> PICK S, n : S = {CR!ReadOne(u) : u \in CR!Texts} /\ n = Len(rs)
  OBVIOUS
<1> PICK a, b, x, r1 : r1 = Append(rs, t) /\ a = Ones(r1) /\ b = Ones(rs) /\ x = CR!ReadOne(t)
  OBVIOUS
<1>1. /\ n \in Nat /\ Len(r1) = n + 1 /\ r1[n + 1] = t /\ r1 \in Seq(CR!Texts)
      /\ \A i \in 1 .. n : r1[i] = rs[i] /\ rs[i] \in CR!Texts
  BY AppendProperties
<1>2. b = [i \in 1 .. n |-> CR!ReadOne(rs[i])] /\ a = [i \in 1 .. n + 1 |-> CR!ReadOne(r1[i])]
  BY <1>1, Zenon DEF Ones
<1>3. b \in Seq(S) /\ Len(b) = n /\ x \in S
  BY <1>1, <1>2
<1>4. a \in Seq(S) /\ Len(a) = n + 1
  <2>1. \A i \in 1 .. n + 1 : r1[i] \in CR!Texts
    BY <1>1
  <2> QED
    BY <1>1, <1>2, <2>1
<1> PICK c : c = Append(b, x)
  OBVIOUS
<1>5. c \in Seq(S) /\ Len(c) = n + 1 /\ c[n + 1] = x /\ \A i \in 1 .. n : c[i] = b[i]
  BY <1>3, AppendProperties
<1>6. ASSUME NEW i \in 1 .. n + 1 PROVE a[i] = c[i]
  <2>1. CASE i = n + 1
    BY <1>1, <1>2, <1>5, <2>1
  <2>2. CASE i # n + 1
    <3>1. i \in 1 .. n
      BY <1>1, <2>2
    <3> QED
      BY <1>1, <1>2, <1>5, <3>1
  <2> QED
    BY <2>1, <2>2
<1>7. a = c
  BY ONLY <1>1, <1>4, <1>5, <1>6
<1> QED
  BY <1>7, Zenon

\* The row end is the first newline outside quotes.
LEMMA RowEndIs ==
  ASSUME NEW t \in Seq(CR!Symbols), CR!HasRowEnd(t)
  PROVE  /\ CR!RowEnd(t) \in 1 .. Len(t) /\ t[CR!RowEnd(t)] = "newline" /\ CR!Quotes(t, CR!RowEnd(t)) % 2 = 0
         /\ \A i \in 1 .. Len(t) : t[i] = "newline" /\ CR!Quotes(t, i) % 2 = 0 => CR!RowEnd(t) <= i
<1> PICK S : S = CR!OutsideQuotes(t)
  OBVIOUS
<1>1. S = {i \in 1 .. Len(t) : t[i] = "newline" /\ CR!Quotes(t, i) % 2 = 0}
  BY DEF CR!OutsideQuotes
<1>2. S # {} /\ S \subseteq Nat
  BY <1>1 DEF CR!HasRowEnd
<1>3. \E i \in S : \A j \in S : i <= j
  BY <1>2, LeastNat
<1>4. CR!RowEnd(t) \in S /\ \A j \in S : CR!RowEnd(t) <= j
  BY <1>3, Zenon DEF CR!RowEnd
<1> QED
  BY <1>1, <1>4

\* Between two rows the reader has nothing of the next.
LEMMA BetweenRows ==
  ASSUME NEW p \in ReaderStates
  PROVE  /\ p.out \in Seq(Found)
         /\ \A o : (p.at = "row" /\ p.field = <<>> /\ p.row = <<>> /\ o = p.out /\ ~p.bad)
                     <=> p = StateOf("row", <<>>, <<>>, o)
<1> PICK a \in ReaderAts, f \in Fields, r \in Found, q \in Seq(Found), b \in BOOLEAN :
      p = ReaderState(a, f, r, q, b)
  BY ReaderWhole, Zenon
<1>1. p.at = a /\ p.field = f /\ p.row = r /\ p.out = q /\ p.bad = b
  BY ReaderParts
<1> PICK c : c = FALSE
  OBVIOUS
<1>2. \A w, x, y, z : StateOf(w, x, y, z) = ReaderState(w, x, y, z, c)
  BY Zenon DEF StateOf
<1>3. ASSUME NEW o, p = StateOf("row", <<>>, <<>>, o)
      PROVE  p.at = "row" /\ p.field = <<>> /\ p.row = <<>> /\ o = p.out /\ ~p.bad
  <2>1. p = ReaderState("row", <<>>, <<>>, o, c)
    BY <1>2, <1>3, Zenon
  <2>2. p.at = "row" /\ p.field = <<>> /\ p.row = <<>> /\ p.out = o /\ p.bad = c
    BY <2>1, ReaderParts
  <2> QED
    BY <2>2, Zenon
<1>4. ASSUME NEW o, p.at = "row", p.field = <<>>, p.row = <<>>, o = p.out, ~p.bad
      PROVE  p = StateOf("row", <<>>, <<>>, o)
  <2>1. a = "row" /\ f = <<>> /\ r = <<>> /\ q = o
    BY <1>1, <1>4, Zenon
  <2>2. b = c
    BY <1>1, <1>4
  <2> QED
    BY <1>2, <2>1, <2>2, Zenon
<1> QED
  BY <1>1, <1>3, <1>4, Zenon

\* The buffer t has what follows s symbols of the file, where a row begins and
\* the rows rs have been read.
Cuts(F, s, n, t, rs) ==
  /\ F \in Seq(CR!Symbols) /\ s \in Nat /\ n \in Nat /\ s <= n /\ n <= Len(F)
  /\ t = SubSeq(F, s + 1, n) /\ t \in CR!Texts /\ rs \in Seq(CR!Texts) /\ Ones(rs) \in Seq(Found)
  /\ CR!Regular(F) /\ CR!Read(SubSeq(F, 1, s)) = StateOf("row", <<>>, <<>>, Ones(rs))

\* Then its first m symbols are those of the row.
LEMMA CutBegins ==
  ASSUME NEW F, NEW s, NEW n, NEW t, NEW rs, Cuts(F, s, n, t, rs)
  PROVE  /\ t \in Seq(CR!Symbols) /\ Len(t) = n - s /\ \A i \in 1 .. n - s : t[i] = F[s + i]
         /\ \A m \in 0 .. n - s : RowBegins(F, s, t, Ones(rs), m) /\ SubSeq(t, 1, m) \in CR!Texts
<1>1. /\ F \in Seq(CR!Symbols) /\ s \in Nat /\ n \in Nat /\ s <= n /\ n <= Len(F)
      /\ t = SubSeq(F, s + 1, n) /\ t \in CR!Texts /\ Ones(rs) \in Seq(Found)
      /\ CR!Regular(F) /\ CR!Read(SubSeq(F, 1, s)) = StateOf("row", <<>>, <<>>, Ones(rs))
  BY Zenon DEF Cuts
<1>2. t \in Seq(CR!Symbols) /\ Len(t) = n - s /\ \A i \in 1 .. n - s : t[i] = F[s + i]
  BY <1>1, PartIs
<1>3. ASSUME NEW m \in 0 .. n - s
      PROVE  RowBegins(F, s, t, Ones(rs), m) /\ SubSeq(t, 1, m) \in CR!Texts
  <2>1. m \in Nat /\ s + m <= Len(F) /\ m <= Len(t) /\ \A i \in 1 .. m : t[i] = F[s + i]
    BY <1>1, <1>2
  <2>2. RowBegins(F, s, t, Ones(rs), m)
    BY <1>1, <1>2, <2>1, Zenon DEF RowBegins
  <2>3. SubSeq(t, 1, m) \in Seq(CR!Symbols) /\ Len(SubSeq(t, 1, m)) = m
    BY <1>2, <2>1
  <2>4. Len(t) <= MaxSymbols /\ MaxSymbols \in Nat
    BY <1>1, TextsAre, DatasetsAssumption
  <2>5. Len(SubSeq(t, 1, m)) <= MaxSymbols
    BY <1>2, <2>1, <2>3, <2>4
  <2> QED
    BY <2>2, <2>3, <2>5, TextsAre
<1> QED
  BY <1>2, <1>3

\* The row that the buffer completes is the next one of the file.
LEMMA TakesRow ==
  ASSUME NEW F, NEW s, NEW n, NEW t, NEW rs, Cuts(F, s, n, t, rs), CR!HasRowEnd(t), NEW e, e = CR!RowEnd(t)
  PROVE  CR!Read(SubSeq(F, 1, s + e)) = StateOf("row", <<>>, <<>>, Ones(Append(rs, SubSeq(t, 1, e - 1))))
<1>1. /\ F \in Seq(CR!Symbols) /\ s \in Nat /\ n \in Nat /\ s <= n /\ n <= Len(F)
      /\ rs \in Seq(CR!Texts)
  BY Zenon DEF Cuts
<1>2. t \in Seq(CR!Symbols) /\ Len(t) = n - s /\ \A i \in 1 .. n - s : t[i] = F[s + i]
  BY CutBegins
<1>3. /\ e \in 1 .. n - s /\ t[e] = "newline" /\ CR!Quotes(t, e) % 2 = 0
      /\ \A i \in 1 .. n - s : t[i] = "newline" /\ CR!Quotes(t, i) % 2 = 0 => e <= i
  BY <1>2, RowEndIs
<1> PICK m : m = e - 1
  OBVIOUS
<1>4. m \in Nat /\ m \in 0 .. n - s /\ m + 1 = e /\ s + m < Len(F) /\ s + m + 1 = s + e /\ m < Len(t)
  <2>1. e \in 1 .. n - s /\ Len(t) = n - s
    BY <1>2, <1>3
  <2>2. n \in Nat /\ s \in Nat /\ s <= n /\ n <= Len(F) /\ Len(F) \in Nat
    BY <1>1
  <2> QED
    BY ONLY <2>1, <2>2, m = e - 1
<1>5. F[s + m + 1] = "newline"
  BY <1>2, <1>3, <1>4
<1>6. CR!Quotes(t, m) % 2 = 0
  <2>1. CR!Quotes(t, m + 1) = IF t[m + 1] = "quote" THEN CR!Quotes(t, m) + 1 ELSE CR!Quotes(t, m)
    BY <1>2, <1>4, QuotesGo
  <2>2. CR!Quotes(t, m + 1) = CR!Quotes(t, m)
    BY <1>3, <1>4, <2>1
  <2> QED
    BY <1>3, <1>4, <2>2
<1> PICK o, u : o = Ones(rs) /\ u = SubSeq(t, 1, m)
  OBVIOUS
<1>7. RowBegins(F, s, t, o, m) /\ u \in CR!Texts
  BY <1>4, CutBegins
<1>8. \A i \in 1 .. m : ~(t[i] = "newline" /\ CR!Quotes(t, i) % 2 = 0)
  <2> SUFFICES ASSUME NEW i \in 1 .. m, t[i] = "newline", CR!Quotes(t, i) % 2 = 0 PROVE FALSE
    BY Zenon
  <2>1. i \in 1 .. n - s /\ i < e
    <3>1. m \in 0 .. n - s /\ n - s \in Nat /\ m + 1 = e /\ m \in Nat /\ e <= n - s
      BY <1>1, <1>3, <1>4
    <3> QED
      BY ONLY <3>1, i \in 1 .. m
  <2>2. e <= i
    BY <1>3, <2>1, Zenon
  <2>3. e \in Int /\ i \in Int
    BY ONLY <1>4, i \in 1 .. m
  <2> QED
    BY ONLY <2>1, <2>2, <2>3
<1>9. InRow(F, s, t, o, m)
  BY ONLY <1>7, <1>8, StaysInRow
<1>10. CR!Read(SubSeq(F, 1, s + m + 1)) = StateOf("row", <<>>, <<>>, Append(o, CR!ReadOne(u)))
  BY <1>4, <1>5, <1>6, <1>7, <1>9, RowIsNext
<1>11. Ones(Append(rs, u)) = Append(o, CR!ReadOne(u))
  BY <1>1, <1>7, OneMoreRowRead
<1> QED
  BY <1>4, <1>10, <1>11, Zenon

\* What remains at the end of the file is its last row.
LEMMA EndsRow ==
  ASSUME NEW F, NEW s, NEW t, NEW rs, Cuts(F, s, Len(F), t, rs), ~CR!HasRowEnd(t)
  PROVE  CR!EndOfFile(CR!Read(F)).out = Ones(IF t = <<>> THEN rs ELSE Append(rs, t))
<1> PICK n : n = Len(F)
  OBVIOUS
<1>1. F \in Seq(CR!Symbols) /\ s \in Nat /\ n \in Nat /\ s <= n /\ rs \in Seq(CR!Texts)
  BY Zenon DEF Cuts
<1>2. t \in Seq(CR!Symbols) /\ Len(t) = n - s
  BY CutBegins
<1> PICK m, o : m = n - s /\ o = Ones(rs)
  OBVIOUS
<1>3. m \in Nat /\ m \in 0 .. n - s /\ s + m = Len(F) /\ SubSeq(t, 1, m) = t /\ (m = 0 <=> t = <<>>)
  BY <1>1, <1>2
<1>4. RowBegins(F, s, t, o, m) /\ t \in CR!Texts
  <2>1. Cuts(F, s, n, t, rs)
    BY Zenon
  <2> QED
    BY <1>3, <2>1, CutBegins, TextsAre DEF Cuts
<1>5. \A i \in 1 .. m : ~(t[i] = "newline" /\ CR!Quotes(t, i) % 2 = 0)
  BY <1>2 DEF CR!HasRowEnd, CR!OutsideQuotes
<1>6. InRow(F, s, t, o, m)
  BY ONLY <1>4, <1>5, StaysInRow
<1>7. CR!EndOfFile(CR!Read(F)).out = IF m = 0 THEN o ELSE Append(o, CR!ReadOne(t))
  BY <1>3, <1>4, <1>6, RowIsLast, ZenonT(40)
<1>8. Ones(Append(rs, t)) = Append(o, CR!ReadOne(t))
  BY <1>1, <1>4, OneMoreRowRead
<1> QED
  BY <1>3, <1>7, <1>8, Zenon

\* The inductive invariant of a state, of its file, how much of it has been
\* read, the buffer, the rows and whether it has ended.
Between(p, rs) == p.at = "row" /\ p.field = <<>> /\ p.row = <<>> /\ Ones(rs) = p.out /\ ~p.bad
RowsTyped(F, n, b, rs, e) ==
  F \in CR!Texts /\ n \in 0 .. Len(F) /\ b \in CR!Texts /\ rs \in Seq(CR!Texts) /\ e \in BOOLEAN
BufferIs(F, n, b) == n - Len(b) \in 0 .. n /\ b = SubSeq(F, (n - Len(b)) + 1, n)
EndedWhole(F, n, b, e) == e => n = Len(F) /\ b = <<>>
RowsFound(F, s, rs, e) ==
  CR!Regular(F) => /\ e => Ones(rs) = CR!EndOfFile(CR!Read(SubSeq(F, 1, s))).out
                   /\ ~e => Between(CR!Read(SubSeq(F, 1, s)), rs)
RowsAt(F, n, b, rs, e) ==
  /\ RowsTyped(F, n, b, rs, e) /\ BufferIs(F, n, b) /\ EndedWhole(F, n, b, e)
  /\ RowsFound(F, n - Len(b), rs, e)

\* It is that of the module.
LEMMA RowsOfState ==
  /\ CR!IInv <=> RowsAt(file, at, buf, texts, ended)
  /\ CR!IInv' <=> RowsAt(file', at', buf', texts', ended')
<1>1. CR!TypeOK <=> RowsTyped(file, at, buf, texts, ended)
  BY Zenon DEF CR!TypeOK, RowsTyped
<1>2. CR!TypeOK' <=> RowsTyped(file', at', buf', texts', ended')
  BY Zenon DEF CR!TypeOK, RowsTyped
<1>3. CR!RowsAreReadSoFar <=> /\ BufferIs(file, at, buf) /\ EndedWhole(file, at, buf, ended)
                              /\ RowsFound(file, at - Len(buf), texts, ended)
  BY Zenon DEF CR!RowsAreReadSoFar, BufferIs, EndedWhole, RowsFound, Between, Ones, CR!RowsRead
<1>4. CR!RowsAreReadSoFar' <=> /\ BufferIs(file', at', buf') /\ EndedWhole(file', at', buf', ended')
                               /\ RowsFound(file', at' - Len(buf'), texts', ended')
  BY Zenon DEF CR!RowsAreReadSoFar, BufferIs, EndedWhole, RowsFound, Between, Ones, CR!RowsRead
<1> QED
  BY <1>1, <1>2, <1>3, <1>4, Zenon DEF CR!IInv, RowsAt

\* The reader is between two rows where it is in this state.
LEMMA BetweenIs ==
  ASSUME NEW F \in Seq(CR!Symbols), NEW s \in 0 .. Len(F), NEW rs
  PROVE  /\ Between(CR!Read(SubSeq(F, 1, s)), rs)
              <=> CR!Read(SubSeq(F, 1, s)) = StateOf("row", <<>>, <<>>, Ones(rs))
         /\ Between(CR!Read(SubSeq(F, 1, s)), rs) => Ones(rs) \in Seq(Found)
<1> PICK p : p = CR!Read(SubSeq(F, 1, s))
  OBVIOUS
<1>1. SubSeq(F, 1, s) \in Seq(CR!Symbols)
  OBVIOUS
<1>2. p \in ReaderStates
  BY <1>1, ReadGoes, Zenon
<1> PICK o : o = Ones(rs)
  OBVIOUS
<1>3. p.out \in Seq(Found) /\ ((p.at = "row" /\ p.field = <<>> /\ p.row = <<>> /\ o = p.out /\ ~p.bad)
                                <=> p = StateOf("row", <<>>, <<>>, o))
  BY <1>2, BetweenRows, ZenonT(40)
<1> QED
  BY <1>3, Zenon DEF Between

\* Before the end the buffer has what follows the rows.
LEMMA CutsAre ==
  ASSUME NEW F, NEW n, NEW b, NEW rs, NEW e, RowsAt(F, n, b, rs, e), ~e, CR!Regular(F),
         NEW s, s = n - Len(b)
  PROVE  Cuts(F, s, n, b, rs)
<1>1. F \in CR!Texts /\ n \in 0 .. Len(F) /\ b \in CR!Texts /\ rs \in Seq(CR!Texts)
  BY Zenon DEF RowsAt, RowsTyped
<1>2. s \in 0 .. n /\ b = SubSeq(F, s + 1, n)
  BY Zenon DEF RowsAt, BufferIs
<1>3. Between(CR!Read(SubSeq(F, 1, s)), rs)
  BY Zenon DEF RowsAt, RowsFound
<1>4. F \in Seq(CR!Symbols) /\ Len(F) \in Nat
  BY <1>1, TextsAre
<1>5. s \in Nat /\ n \in Nat /\ s <= n /\ n <= Len(F) /\ s \in 0 .. Len(F)
  BY <1>1, <1>2, <1>4
<1>6. CR!Read(SubSeq(F, 1, s)) = StateOf("row", <<>>, <<>>, Ones(rs)) /\ Ones(rs) \in Seq(Found)
  BY <1>3, <1>4, <1>5, BetweenIs
<1> QED
  BY <1>1, <1>2, <1>4, <1>5, <1>6, Zenon DEF Cuts

\* What is to be shown of a state before the end.
LEMMA RowsAtIs ==
  ASSUME NEW F \in CR!Texts, NEW n \in 0 .. Len(F), NEW b \in CR!Texts, NEW rs \in Seq(CR!Texts),
         NEW e \in BOOLEAN, ~e, NEW s \in 0 .. n, s = n - Len(b), b = SubSeq(F, s + 1, n),
         CR!Regular(F) => CR!Read(SubSeq(F, 1, s)) = StateOf("row", <<>>, <<>>, Ones(rs))
  PROVE  RowsAt(F, n, b, rs, e)
<1>1. RowsTyped(F, n, b, rs, e)
  BY Zenon DEF RowsTyped
<1>2. BufferIs(F, n, b)
  BY Zenon DEF BufferIs
<1>3. F \in Seq(CR!Symbols) /\ s \in 0 .. Len(F)
  BY TextsAre
<1>4. CR!Regular(F) => Between(CR!Read(SubSeq(F, 1, s)), rs)
  BY <1>3, BetweenIs, Zenon
<1>5. RowsFound(F, s, rs, e)
  BY <1>4, Zenon DEF RowsFound
<1> QED
  BY <1>1, <1>2, <1>5, Zenon DEF RowsAt, EndedWhole

\* No text is one.
LEMMA NoText == <<>> \in CR!Texts
<1>1. <<>> \in Seq(CR!Symbols) /\ Len(<<>>) = 0 /\ MaxSymbols \in Nat
  BY DatasetsAssumption
<1>2. Len(<<>>) <= MaxSymbols
  BY <1>1
<1> QED
  BY <1>1, <1>2, TextsAre

\* Nothing has been read of the file at first.
LEMMA RowsInit == CR!Init => CR!IInv
<1> SUFFICES ASSUME CR!Init PROVE CR!IInv
  OBVIOUS
<1> PICK F, n, b, rs, e : F = file /\ n = at /\ b = buf /\ rs = texts /\ e = ended
  OBVIOUS
<1>1. F \in CR!Texts /\ n = 0 /\ b = <<>> /\ rs = <<>> /\ e = FALSE
  BY Zenon DEF CR!Init
<1>2. F \in Seq(CR!Symbols) /\ Len(F) \in Nat /\ <<>> \in CR!Texts
  BY <1>1, TextsAre, NoText
<1> PICK s : s = 0
  OBVIOUS
<1>3. n \in 0 .. Len(F) /\ s \in 0 .. n /\ s = n - Len(b) /\ b = SubSeq(F, s + 1, n) /\ SubSeq(F, 1, s) = <<>>
  <2>1. n \in 0 .. Len(F) /\ s \in 0 .. n
    BY <1>1, <1>2
  <2>2. s = n - Len(b)
    <3>1. n = 0 /\ b = <<>> /\ Len(<<>>) = 0
      BY <1>1
    <3> QED
      <4>1. Len(b) = 0
        BY ONLY <3>1
      <4>2. n = 0 /\ s = 0
        BY <3>1
      <4> QED
        BY ONLY <4>1, <4>2
  <2>3. b = SubSeq(F, s + 1, n)
    BY <1>1, <1>2
  <2>4. SubSeq(F, 1, s) = <<>>
    BY <1>2
  <2> QED
    BY <2>1, <2>2, <2>3, <2>4
<1>4. rs \in Seq(CR!Texts) /\ b \in CR!Texts
  BY <1>1, <1>2
<1>5. Ones(rs) = <<>>
  BY <1>1 DEF Ones
<1>6. CR!Read(<<>>) = CR!Parser
  BY <1>2, ReadGoes
<1>7. CR!Parser = StateOf("row", <<>>, <<>>, <<>>)
  BY Zenon DEF CR!Parser, ReaderState, StateOf
<1>8. e \in BOOLEAN /\ ~e
  BY <1>1
<1>9. CR!Read(SubSeq(F, 1, s)) = StateOf("row", <<>>, <<>>, Ones(rs))
  BY <1>3, <1>5, <1>6, <1>7, Zenon
<1>10. RowsAt(F, n, b, rs, e)
  BY ONLY <1>1, <1>3, <1>4, <1>8, <1>9, RowsAtIs
<1> QED
  BY <1>10, RowsOfState, Zenon

\* A chunk goes into the buffer.
LEMMA ChunkRead ==
  ASSUME NEW F, NEW n, NEW b, NEW rs, NEW e, RowsAt(F, n, b, rs, e), ~e, NEW k \in Nat, k <= Len(F) - n
  PROVE  RowsAt(F, n + k, b \o SubSeq(F, n + 1, n + k), rs, e)
<1> PICK s, l : s = n - Len(b) /\ l = n + k
  OBVIOUS
<1>1. F \in CR!Texts /\ n \in 0 .. Len(F) /\ b \in CR!Texts /\ rs \in Seq(CR!Texts) /\ e \in BOOLEAN
  BY Zenon DEF RowsAt, RowsTyped
<1>2. s \in 0 .. n /\ b = SubSeq(F, s + 1, n)
  BY Zenon DEF RowsAt, BufferIs
<1>3. F \in Seq(CR!Symbols) /\ Len(F) \in Nat /\ Len(F) <= MaxSymbols /\ MaxSymbols \in Nat
  BY <1>1, TextsAre, DatasetsAssumption
<1>4. s \in Nat /\ n \in Nat /\ l \in Nat /\ s <= n /\ n <= l /\ l <= Len(F)
  BY <1>1, <1>2, <1>3
<1> PICK c, b1 : c = SubSeq(F, n + 1, l) /\ b1 = b \o c
  OBVIOUS
<1>5. b1 = SubSeq(F, s + 1, l)
  <2> PICK R : R = CR!Symbols
    OBVIOUS
  <2>1. F \in Seq(R)
    BY <1>3
  <2>2. SubSeq(F, s + 1, n) \o SubSeq(F, n + 1, l) = SubSeq(F, s + 1, l)
    BY ONLY <1>4, <2>1, PartsJoin
  <2> QED
    BY <1>2, <2>2, Zenon
<1>6. b1 \in Seq(CR!Symbols) /\ Len(b1) = l - s
  <2> PICK R : R = CR!Symbols
    OBVIOUS
  <2>1. s <= l /\ F \in Seq(R)
    BY <1>3, <1>4
  <2>2. SubSeq(F, s + 1, l) \in Seq(R) /\ Len(SubSeq(F, s + 1, l)) = l - s
    BY ONLY <1>4, <2>1, PartIs
  <2> QED
    BY <1>5, <2>2, Zenon
<1>7. b1 \in CR!Texts
  <2>1. Len(b1) <= MaxSymbols
    BY <1>3, <1>4, <1>6
  <2> QED
    BY <1>6, <2>1, TextsAre
<1>8. l \in 0 .. Len(F) /\ s \in 0 .. l /\ s = l - Len(b1)
  BY <1>3, <1>4, <1>6
<1>9. CR!Regular(F) => CR!Read(SubSeq(F, 1, s)) = StateOf("row", <<>>, <<>>, Ones(rs))
  <2>1. ASSUME CR!Regular(F) PROVE Cuts(F, s, n, b, rs)
    <3>1. RowsAt(F, n, b, rs, e) /\ ~e /\ s = n - Len(b) /\ CR!Regular(F)
      BY <2>1, Zenon
    <3> QED
      BY ONLY <3>1, CutsAre
  <2> QED
    BY <2>1, Zenon DEF Cuts
<1>10. RowsAt(F, l, b1, rs, e)
  BY ONLY <1>1, ~e, <1>5, <1>7, <1>8, <1>9, RowsAtIs
<1> QED
  BY <1>10, Zenon

\* A row that the buffer has whole is taken.
LEMMA RowTaken ==
  ASSUME NEW F, NEW n, NEW b, NEW rs, NEW e, RowsAt(F, n, b, rs, e), CR!HasRowEnd(b)
  PROVE  RowsAt(F, n, SubSeq(b, CR!RowEnd(b) + 1, Len(b)), Append(rs, SubSeq(b, 1, CR!RowEnd(b) - 1)), e)
<1> PICK s, l : s = n - Len(b) /\ l = CR!RowEnd(b)
  OBVIOUS
<1>1. F \in CR!Texts /\ n \in 0 .. Len(F) /\ b \in CR!Texts /\ rs \in Seq(CR!Texts) /\ e \in BOOLEAN
  BY Zenon DEF RowsAt, RowsTyped
<1>2. s \in 0 .. n /\ b = SubSeq(F, s + 1, n)
  BY Zenon DEF RowsAt, BufferIs
<1>3. /\ F \in Seq(CR!Symbols) /\ Len(F) \in Nat /\ MaxSymbols \in Nat
      /\ b \in Seq(CR!Symbols) /\ Len(b) \in Nat /\ Len(b) <= MaxSymbols
  BY <1>1, TextsAre, DatasetsAssumption
<1>4. l \in 1 .. Len(b)
  BY <1>3, RowEndIs
<1>5. ~e
  <2>1. e => b = <<>>
    BY Zenon DEF RowsAt, EndedWhole
  <2> QED
    BY <1>4, <2>1
<1> PICK m, h : m = l - 1 /\ h = s + l
  OBVIOUS
<1>6. /\ s \in Nat /\ n \in Nat /\ l \in Nat /\ m \in Nat /\ h \in Nat /\ h <= n /\ n <= Len(F) /\ s <= n
      /\ Len(b) = n - s /\ m <= Len(b) /\ h \in 0 .. n /\ l <= Len(b)
  BY <1>1, <1>2, <1>3, <1>4, SMTT(30)
<1> PICK b1, t, rs1 : b1 = SubSeq(b, l + 1, Len(b)) /\ t = SubSeq(b, 1, m) /\ rs1 = Append(rs, t)
  OBVIOUS
<1>7. b1 = SubSeq(F, h + 1, n)
  <2>1. SubSeq(SubSeq(F, s + 1, n), l + 1, n - s) = SubSeq(F, s + l + 1, n)
    <3> PICK R : R = CR!Symbols
      OBVIOUS
    <3>1. s + l <= n /\ F \in Seq(R)
      BY <1>3, <1>6
    <3> QED
      BY ONLY <1>6, <3>1, PartOfPart
  <2> QED
    BY <1>2, <1>6, <2>1, Zenon
<1>8. b1 \in Seq(CR!Symbols) /\ Len(b1) = n - h
  <2> PICK R : R = CR!Symbols
    OBVIOUS
  <2>1. F \in Seq(R)
    BY <1>3
  <2>2. SubSeq(F, h + 1, n) \in Seq(R) /\ Len(SubSeq(F, h + 1, n)) = n - h
    BY ONLY <1>6, <2>1, PartIs
  <2> QED
    BY <1>7, <2>2, Zenon
<1>9. t \in Seq(CR!Symbols) /\ Len(t) = m
  <2> PICK R : R = CR!Symbols
    OBVIOUS
  <2>1. b \in Seq(R)
    BY <1>3
  <2>2. SubSeq(b, 1, m) \in Seq(R) /\ Len(SubSeq(b, 1, m)) = m
    BY ONLY <1>6, <2>1
  <2> QED
    BY <2>2, Zenon
<1>10. b1 \in CR!Texts /\ t \in CR!Texts
  <2>1. Len(b1) <= MaxSymbols /\ Len(t) <= MaxSymbols
    <3>1. Len(b1) <= Len(b) /\ Len(t) <= Len(b)
      BY ONLY <1>6, <1>8, <1>9, h = s + l
    <3>2. Len(b1) \in Nat /\ Len(t) \in Nat /\ Len(b) \in Nat /\ Len(b) <= MaxSymbols /\ MaxSymbols \in Nat
      BY <1>3, <1>8, <1>9, SMTT(30)
    <3> QED
      BY ONLY <3>1, <3>2
  <2> QED
    BY <1>8, <1>9, <2>1, TextsAre
<1>11. rs1 \in Seq(CR!Texts) /\ h = n - Len(b1)
  <2>1. rs1 \in Seq(CR!Texts)
    BY <1>1, <1>10, AppendProperties
  <2>2. h = n - Len(b1)
    BY ONLY <1>6, <1>8
  <2> QED
    BY <2>1, <2>2
<1>12. CR!Regular(F) => CR!Read(SubSeq(F, 1, h)) = StateOf("row", <<>>, <<>>, Ones(rs1))
  <2> SUFFICES ASSUME CR!Regular(F) PROVE CR!Read(SubSeq(F, 1, h)) = StateOf("row", <<>>, <<>>, Ones(rs1))
    OBVIOUS
  <2>1. RowsAt(F, n, b, rs, e) /\ ~e /\ s = n - Len(b) /\ CR!Regular(F)
    BY <1>5, Zenon
  <2>3. Cuts(F, s, n, b, rs)
    BY ONLY <2>1, CutsAre
  <2>2. CR!Read(SubSeq(F, 1, s + l)) = StateOf("row", <<>>, <<>>, Ones(Append(rs, SubSeq(b, 1, l - 1))))
    <3>1. Cuts(F, s, n, b, rs) /\ CR!HasRowEnd(b) /\ l = CR!RowEnd(b)
      BY <2>3, Zenon
    <3> QED
      BY ONLY <3>1, TakesRow
  <2> QED
    BY <2>2, Zenon
<1>13. RowsAt(F, n, b1, rs1, e)
  BY ONLY <1>1, <1>5, <1>6, <1>7, <1>10, <1>11, <1>12, RowsAtIs
<1> QED
  BY <1>13, Zenon

\* The rows with what remains.
WithRest(b, rs) == IF b = <<>> THEN rs ELSE Append(rs, b)

\* All has been read; what remains is handed on.
AtTheEnd(F, n, b, rs, e, z, rs1, e1) ==
  /\ RowsAt(F, n, b, rs, e) /\ ~e /\ ~CR!HasRowEnd(b) /\ n = Len(F)
  /\ z = <<>> /\ rs1 = WithRest(b, rs) /\ e1 \in BOOLEAN /\ e1

\* The last row is handed on at the end.
LEMMA StreamEnded ==
  ASSUME NEW F, NEW n, NEW b, NEW rs, NEW e, NEW z, NEW rs1, NEW e1, AtTheEnd(F, n, b, rs, e, z, rs1, e1)
  PROVE  RowsAt(F, n, z, rs1, e1)
<1> PICK s : s = n - Len(b)
  OBVIOUS
<1>0. /\ RowsAt(F, n, b, rs, e) /\ ~e /\ ~CR!HasRowEnd(b) /\ n = Len(F)
      /\ z = <<>> /\ rs1 = WithRest(b, rs) /\ e1 \in BOOLEAN /\ e1
  BY Zenon DEF AtTheEnd
<1> USE <1>0
<1>1. F \in CR!Texts /\ n \in 0 .. n /\ b \in CR!Texts /\ rs \in Seq(CR!Texts)
  BY Zenon DEF RowsAt, RowsTyped
<1>2. F \in Seq(CR!Symbols) /\ n \in Nat /\ z \in CR!Texts
  BY <1>1, TextsAre, NoText
<1>3. rs1 \in Seq(CR!Texts)
  BY <1>1 DEF WithRest
<1>4. n - Len(z) = n /\ n \in 0 .. n /\ z = SubSeq(F, n + 1, n) /\ SubSeq(F, 1, n) = F
  BY <1>2
<1>5. CR!Regular(F) => Ones(rs1) = CR!EndOfFile(CR!Read(F)).out
  <2>1. ASSUME CR!Regular(F) PROVE Cuts(F, s, n, b, rs)
    <3>1. RowsAt(F, n, b, rs, e) /\ ~e /\ s = n - Len(b) /\ CR!Regular(F)
      BY <2>1, Zenon
    <3> QED
      BY ONLY <3>1, CutsAre
  <2> QED
    BY <2>1, EndsRow, Zenon DEF WithRest
<1>6. RowsTyped(F, n, z, rs1, e1)
  BY <1>1, <1>2, <1>3, Zenon DEF RowsTyped
<1>7. BufferIs(F, n, z)
  BY <1>4, Zenon DEF BufferIs
<1>8. RowsFound(F, n - Len(z), rs1, e1)
  BY <1>4, <1>5, Zenon DEF RowsFound
<1> QED
  BY <1>6, <1>7, <1>8, Zenon DEF RowsAt, EndedWhole

\* Every step of the stream keeps it.
LEMMA RowsStep == CR!IInv /\ [CR!Next]_(CR!vars) => CR!IInv'
<1> SUFFICES ASSUME CR!IInv, [CR!Next]_(CR!vars) PROVE CR!IInv'
  OBVIOUS
<1>0. RowsAt(file, at, buf, texts, ended)
  BY RowsOfState
<1>1. ASSUME NEW k \in ChunkSizes, CR!ReadChunk(k) PROVE RowsAt(file', at', buf', texts', ended')
  <2>1. /\ ~CR!HasRowEnd(buf) /\ k <= Len(file) - at
        /\ buf' = buf \o SubSeq(file, at + 1, at + k) /\ at' = at + k
        /\ file' = file /\ texts' = texts /\ ended' = ended
    BY <1>1, Zenon DEF CR!ReadChunk
  <2>2. k \in Nat
    BY <1>1, DatasetsAssumption
  <2>3. CASE ended
    <3>1. at = Len(file) /\ buf = <<>> /\ file \in CR!Texts
      BY <1>0, <2>3, Zenon DEF RowsAt, EndedWhole, RowsTyped
    <3>2. file \in Seq(CR!Symbols)
      BY <3>1, TextsAre
    <3>3. at' = at
      BY <2>1, <2>2, <3>1, <3>2
    <3>4. SubSeq(file, at + 1, at + k) = <<>>
      BY <2>1, <2>2, <3>1, <3>2
    <3>5. buf' = buf
      BY <2>1, <3>1, <3>4
    <3> QED
      BY <1>0, <2>1, <3>3, <3>5, Zenon
  <2>4. CASE ~ended
    BY <1>0, <2>1, <2>2, <2>4, ChunkRead, Zenon
  <2> QED
    BY <2>3, <2>4
<1>2. ASSUME CR!TakeRow PROVE RowsAt(file', at', buf', texts', ended')
  <2>1. /\ CR!HasRowEnd(buf) /\ texts' = Append(texts, SubSeq(buf, 1, CR!RowEnd(buf) - 1))
        /\ buf' = SubSeq(buf, CR!RowEnd(buf) + 1, Len(buf))
        /\ file' = file /\ at' = at /\ ended' = ended
    BY <1>2, Zenon DEF CR!TakeRow
  <2> QED
    BY <1>0, <2>1, RowTaken, Zenon
<1>3. ASSUME CR!EndStream PROVE RowsAt(file', at', buf', texts', ended')
  <2>1. /\ ~ended /\ at = Len(file) /\ ~CR!HasRowEnd(buf)
        /\ texts' = IF buf = <<>> THEN texts ELSE Append(texts, buf)
        /\ buf' = <<>> /\ ended' = TRUE /\ file' = file /\ at' = at
    BY <1>3, Zenon DEF CR!EndStream
  <2> PICK F, n, b, rs, e, z, rs1, e1 :
        /\ F = file /\ n = at /\ b = buf /\ rs = texts /\ e = ended
        /\ z = <<>> /\ rs1 = texts' /\ e1 = ended'
    OBVIOUS
  <2>2. RowsAt(F, n, b, rs, e) /\ ~e /\ ~CR!HasRowEnd(b) /\ n = Len(F)
    BY <1>0, <2>1, Zenon
  <2>4. z = <<>> /\ rs1 = WithRest(b, rs) /\ e1 \in BOOLEAN /\ e1
    BY <2>1, Zenon DEF WithRest
  <2>3. RowsAt(F, n, z, rs1, e1)
    <3>1. AtTheEnd(F, n, b, rs, e, z, rs1, e1)
      BY <2>2, <2>4, Zenon DEF AtTheEnd
    <3> QED
      BY ONLY <3>1, StreamEnded, Zenon
  <2> QED
    BY <2>1, <2>3, Zenon
<1>4. ASSUME UNCHANGED CR!vars PROVE RowsAt(file', at', buf', texts', ended')
  <2>1. file' = file /\ at' = at /\ buf' = buf /\ texts' = texts /\ ended' = ended
    BY <1>4, Zenon DEF CR!vars
  <2> QED
    BY <1>0, <2>1, Zenon
<1>5. RowsAt(file', at', buf', texts', ended')
  BY <1>1, <1>2, <1>3, <1>4, Zenon DEF CR!Next
<1> QED
  BY <1>5, RowsOfState, Zenon

\* So the stream yields the rows of the file.
LEMMA RowsAreRead == CR!IInv => CR!StreamReadsTheFile
<1> SUFFICES ASSUME CR!IInv PROVE CR!StreamReadsTheFile
  OBVIOUS
<1> PICK F, n, b, rs, e : F = file /\ n = at /\ b = buf /\ rs = texts /\ e = ended
  OBVIOUS
<1>0. RowsAt(F, n, b, rs, e)
  BY RowsOfState, Zenon
<1>1. /\ F \in CR!Texts /\ n \in 0 .. Len(F)
      /\ n - Len(b) \in 0 .. n /\ RowsFound(F, n - Len(b), rs, e) /\ (e => n = Len(F) /\ b = <<>>)
  BY <1>0, Zenon DEF RowsAt, RowsTyped, BufferIs, EndedWhole
<1>2. F \in Seq(CR!Symbols) /\ Len(F) \in Nat
  BY <1>1, TextsAre
<1> PICK s : s = n - Len(b)
  OBVIOUS
<1>3. s \in 0 .. Len(F) /\ (e => s = Len(F))
  BY <1>1, <1>2
<1> SUFFICES ASSUME CR!Regular(F)
             PROVE  IF e THEN CR!WithText(Ones(rs)) = CR!WithText(CR!ReadFile(F))
                    ELSE CR!IsPrefix(CR!WithText(Ones(rs)), CR!WithText(CR!ReadFile(F)))
  BY Zenon DEF CR!StreamReadsTheFile, CR!StreamedRows, CR!RowsRead, Ones
<1>4. ASSUME e PROVE Ones(rs) = CR!ReadFile(F)
  <2>1. Ones(rs) = CR!EndOfFile(CR!Read(SubSeq(F, 1, s))).out
    BY <1>1, <1>4, Zenon DEF RowsFound
  <2>2. SubSeq(F, 1, s) = F
    BY <1>2, <1>3, <1>4
  <2> QED
    BY <2>1, <2>2, Zenon DEF CR!ReadFile
<1>5. ASSUME ~e PROVE CR!IsPrefix(CR!WithText(Ones(rs)), CR!WithText(CR!ReadFile(F)))
  <2>1. Between(CR!Read(SubSeq(F, 1, s)), rs)
    BY <1>1, <1>5, Zenon DEF RowsFound
  <2>2. Ones(rs) = CR!Read(SubSeq(F, 1, s)).out
    BY <2>1, Zenon DEF Between
  <2>3. Ones(rs) \in Seq(Found)
    BY <1>2, <1>3, <2>1, BetweenIs
  <2>4. CR!IsPrefix(CR!Read(SubSeq(F, 1, s)).out, CR!ReadFile(F)) /\ CR!ReadFile(F) \in Seq(Found)
    BY <1>2, <1>3, ReadPrefix
  <2>5. CR!IsPrefix(Ones(rs), CR!ReadFile(F))
    BY <2>2, <2>4, Zenon
  <2> QED
    BY <2>3, <2>4, <2>5, TextPrefix, Zenon
<1> QED
  BY <1>4, <1>5, Zenon

-----------------------------------------------------------------------------
(* Tables                                                                  *)

\* One row cleaned, and one more sample, as functions of the state and the row.
CleanOp(D, m) == [p \in D \X Rows |-> CC!Clean(p[1], m, p[2])]
SampleOf(S, r) == IF r = Mismatch \/ Len(S) = SampleSize THEN S ELSE Append(S, r)
SampleOp(D) == [p \in D \X Rows |-> SampleOf(p[1], p[2])]
LongerBy(c, n, r) == n + Width[r[c]]
TotalOp(R, c) == [p \in Nat \X R |-> LongerBy(c, p[1], p[2])]

\* The rows are cleaned one after the other.
LEMMA CleanFolds ==
  ASSUME NEW D, NEW m, NEW base \in D, NEW a \in Seq(Rows), \A d \in D, r \in Rows : CC!Clean(d, m, r) \in D
  PROVE  /\ Foldable(CleanOp(D, m), base, a, D, Rows)
         /\ FoldsTo(CC!CleanRows(base, m, a), CleanOp(D, m), base, a, D)
<1> DEFINE step(h) == [s \in SUBSET DOMAIN a |->
                        IF s = {} THEN base ELSE CC!Clean(h[s \ {Largest(s)}], m, a[Largest(s)])]
           fold == CHOOSE h : h = step(h)
<1> PICK op : op = CleanOp(D, m)
  OBVIOUS
<1>1. op \in [D \X Rows -> D] /\ \A d \in D, r \in Rows : op[<<d, r>>] = CC!Clean(d, m, r)
  BY DEF CleanOp
<1>2. DOMAIN a = 1 .. Len(a) /\ Len(a) \in Nat /\ \A i \in DOMAIN a : a[i] \in Rows
  OBVIOUS
<1>0. Foldable(op, base, a, D, Rows)
  BY <1>1 DEF Foldable
<1>3. \E h : h = step(h)
  <2>1. PICK h : FoundFold(h, op, base, a, D)
    BY ONLY <1>0, FoldFound, Zenon
  <2>2. \A s \in SUBSET DOMAIN a :
          h[s] = IF s = {} THEN base ELSE CC!Clean(h[s \ {Largest(s)}], m, a[Largest(s)])
    BY <1>1, <1>2, <2>1, ZenonT(30) DEF FoundFold
  <2>3. h = step(h)
    BY <2>1, <2>2 DEF FoundFold
  <2> QED
    BY <2>3, Zenon
<1>4. fold = step(fold)
  <2> HIDE DEF step
  <2> QED
    BY <1>3, Zenon
<1>5. CC!CleanRows(base, m, a) = fold[DOMAIN a]
  BY Zenon DEF CC!CleanRows, CC!FoldLeft, CC!MapThenFoldSet, CC!Max, Largest
<1> PICK h : h = fold
  OBVIOUS
<1>6. FoldOf(h, op, base, a, D, Rows)
  <2>1. h[{}] = base
    BY <1>4
  <2>2. ASSUME NEW s \in SUBSET DOMAIN a, s # {}, h[s \ {Largest(s)}] \in D
        PROVE  h[s] = op[<<h[s \ {Largest(s)}], a[Largest(s)]>>]
    <3>1. a[Largest(s)] \in Rows
      BY <1>2, <2>2, LargestInSet
    <3>2. h[s] = CC!Clean(h[s \ {Largest(s)}], m, a[Largest(s)])
      BY <1>4, <2>2
    <3> QED
      BY <1>1, <2>2, <3>1, <3>2, Zenon
  <2> QED
    BY <1>0, <2>1, <2>2, Zenon DEF FoldOf
<1>7. FoldsTo(h[DOMAIN a], op, base, a, D)
  BY ONLY <1>6, FoldReached, Zenon
<1> QED
  BY <1>0, <1>5, <1>7, Zenon

\* The samples are taken row by row.
LEMMA SamplesFold ==
  ASSUME NEW D, <<>> \in D, NEW a \in Seq(Rows), \A d \in D, r \in Rows : SampleOf(d, r) \in D
  PROVE  CC!Samples(a) \in D
<1> DEFINE step(h) == [s \in SUBSET DOMAIN a |->
                        IF s = {} THEN <<>> ELSE SampleOf(h[s \ {Largest(s)}], a[Largest(s)])]
           fold == CHOOSE h : h = step(h)
<1> PICK op, base : op = SampleOp(D) /\ base = <<>>
  OBVIOUS
<1>1. op \in [D \X Rows -> D] /\ \A d \in D, r \in Rows : op[<<d, r>>] = SampleOf(d, r)
  BY DEF SampleOp
<1>2. DOMAIN a = 1 .. Len(a) /\ Len(a) \in Nat /\ \A i \in DOMAIN a : a[i] \in Rows
  OBVIOUS
<1>0. Foldable(op, base, a, D, Rows)
  BY <1>1 DEF Foldable
<1>3. \E h : h = step(h)
  <2>1. PICK h : FoundFold(h, op, base, a, D)
    BY ONLY <1>0, FoldFound, Zenon
  <2>2. \A s \in SUBSET DOMAIN a :
          h[s] = IF s = {} THEN <<>> ELSE SampleOf(h[s \ {Largest(s)}], a[Largest(s)])
    BY <1>1, <1>2, <2>1, ZenonT(30) DEF FoundFold
  <2>3. h = step(h)
    BY <2>1, <2>2 DEF FoundFold
  <2> QED
    BY <2>3, Zenon
<1>4. fold = step(fold)
  <2> HIDE DEF step
  <2> QED
    BY <1>3, Zenon
<1>5. CC!Samples(a) = fold[DOMAIN a]
  BY Zenon DEF CC!Samples, CC!FoldLeft, CC!MapThenFoldSet, CC!Max, Largest, SampleOf
<1> PICK h : h = fold
  OBVIOUS
<1>6. FoldOf(h, op, base, a, D, Rows)
  <2>1. h[{}] = base
    BY <1>4
  <2>2. ASSUME NEW s \in SUBSET DOMAIN a, s # {}, h[s \ {Largest(s)}] \in D
        PROVE  h[s] = op[<<h[s \ {Largest(s)}], a[Largest(s)]>>]
    <3>1. a[Largest(s)] \in Rows
      BY <1>2, <2>2, LargestInSet
    <3>2. h[s] = SampleOf(h[s \ {Largest(s)}], a[Largest(s)])
      BY <1>4, <2>2
    <3> QED
      BY <1>1, <2>2, <3>1, <3>2, Zenon
  <2> QED
    BY <1>0, <2>1, <2>2, Zenon DEF FoldOf
<1>7. FoldsTo(h[DOMAIN a], op, base, a, D)
  BY ONLY <1>6, FoldReached, Zenon
<1>8. h[DOMAIN a] \in D
  BY ONLY <1>0, <1>7, FoldsToIs, Zenon
<1> QED
  BY <1>5, <1>8, Zenon

\* The lengths of a column are added up.
LEMMA TotalFolds ==
  ASSUME NEW c \in CC!ToSet(Columns), NEW a \in Seq(Rows \ {Mismatch})
  PROVE  CC!Total(c, a) \in Nat
<1> DEFINE step(h) == [s \in SUBSET DOMAIN a |->
                        IF s = {} THEN 0 ELSE LongerBy(c, h[s \ {Largest(s)}], a[Largest(s)])]
           fold == CHOOSE h : h = step(h)
<1> PICK D, R, op, base : D = Nat /\ R = Rows \ {Mismatch} /\ op = TotalOp(R, c) /\ base = 0
  OBVIOUS
<1>9. \A r \in R : Width[r[c]] \in Nat
  BY DatasetsAssumption DEF CC!Cells
<1>1. op \in [D \X R -> D] /\ \A d \in D, r \in R : op[<<d, r>>] = LongerBy(c, d, r)
  BY <1>9 DEF TotalOp, LongerBy
<1>2. DOMAIN a = 1 .. Len(a) /\ Len(a) \in Nat /\ \A i \in DOMAIN a : a[i] \in R
  OBVIOUS
<1>0. Foldable(op, base, a, D, R)
  BY <1>1 DEF Foldable
<1>3. \E h : h = step(h)
  <2>1. PICK h : FoundFold(h, op, base, a, D)
    BY ONLY <1>0, FoldFound, Zenon
  <2>2. \A s \in SUBSET DOMAIN a :
          h[s] = IF s = {} THEN 0 ELSE LongerBy(c, h[s \ {Largest(s)}], a[Largest(s)])
    BY <1>1, <1>2, <2>1, ZenonT(30) DEF FoundFold
  <2>3. h = step(h)
    BY <2>1, <2>2 DEF FoundFold
  <2> QED
    BY <2>3, Zenon
<1>4. fold = step(fold)
  <2> HIDE DEF step
  <2> QED
    BY <1>3, Zenon
<1>5. CC!Total(c, a) = fold[DOMAIN a]
  BY Zenon DEF CC!Total, CC!FoldLeft, CC!MapThenFoldSet, CC!Max, Largest, LongerBy
<1> PICK h : h = fold
  OBVIOUS
<1>6. FoldOf(h, op, base, a, D, R)
  <2>1. h[{}] = base
    BY <1>4
  <2>2. ASSUME NEW s \in SUBSET DOMAIN a, s # {}, h[s \ {Largest(s)}] \in D
        PROVE  h[s] = op[<<h[s \ {Largest(s)}], a[Largest(s)]>>]
    <3>1. a[Largest(s)] \in R
      BY <1>2, <2>2, LargestInSet
    <3>2. h[s] = LongerBy(c, h[s \ {Largest(s)}], a[Largest(s)])
      BY <1>4, <2>2
    <3> QED
      BY <1>1, <2>2, <3>1, <3>2, Zenon
  <2> QED
    BY <1>0, <2>1, <2>2, Zenon DEF FoldOf
<1>7. FoldsTo(h[DOMAIN a], op, base, a, D)
  BY ONLY <1>6, FoldReached, Zenon
<1>8. h[DOMAIN a] \in D
  BY ONLY <1>0, <1>7, FoldsToIs, Zenon
<1>10. h[DOMAIN a] \in Nat
  <2> HIDE DEF step, fold
  <2> QED
    BY <1>8
<1> QED
  BY <1>5, <1>10, Zenon

\* Samples are rows of the header's width.
LEMMA SamplesAreRows == ASSUME NEW a \in Seq(Rows) PROVE CC!Samples(a) \in Seq(Rows \ {Mismatch})
<1> PICK R : R = Rows \ {Mismatch}
  OBVIOUS
<1>1. ASSUME NEW S \in Seq(R), NEW r \in Rows PROVE SampleOf(S, r) \in Seq(R)
  BY DEF SampleOf
<1>2. <<>> \in Seq(R)
  OBVIOUS
<1> QED
  BY <1>1, <1>2, SamplesFold

\* Of some numbers at positions there is the first of the largest.
LEMMA FirstOfLargest ==
  ASSUME NEW n \in Nat, NEW f, NEW C, C \subseteq 1 .. n, C # {}, \A i \in C : f[i] \in Nat
  PROVE  \E i \in C : (\A j \in C : f[i] >= f[j]) /\ \A k \in C : (\A j \in C : f[k] >= f[j]) => i <= k
<1> DEFINE T == {k \in Nat : \E b \in Nat : \A i \in C : i <= k => f[i] <= b}
<1>1. 0 \in T
  <2>1. \A i \in C : ~(i <= 0)
    OBVIOUS
  <2> QED
    BY <2>1
<1>2. ASSUME NEW k \in Nat, k \in T PROVE k + 1 \in T
  <2>1. PICK b \in Nat : \A i \in C : i <= k => f[i] <= b
    BY <1>2
  <2>2. PICK c \in Nat : b <= c /\ (k + 1 \in C => f[k + 1] <= c)
    <3>1. CASE k + 1 \in C
      <4>1. PICK d \in Nat : d = f[k + 1]
        BY <3>1
      <4>2. b + d \in Nat /\ b <= b + d /\ d <= b + d
        OBVIOUS
      <4> QED
        BY <4>1, <4>2
    <3>2. CASE k + 1 \notin C
      BY <3>2
    <3> QED
      BY <3>1, <3>2
  <2>3. ASSUME NEW i \in C, i <= k + 1 PROVE f[i] <= c
    <3>1. i \in Nat /\ f[i] \in Nat /\ (i <= k \/ i = k + 1)
      BY <2>3
    <3> QED
      BY <2>1, <2>2, <3>1
  <2> QED
    BY <2>3
<1>3. n \in T
  <2> HIDE DEF T
  <2> QED
    BY <1>1, <1>2, NatSet
<1>4. PICK b \in Nat : \A i \in C : f[i] <= b
  BY <1>3
<1> PICK S : S = {f[i] : i \in C}
  OBVIOUS
<1>5. S \subseteq Nat /\ S # {} /\ \A x \in S : x <= b
  BY <1>4
<1>6. PICK x \in S : \A y \in S : y <= x
  BY <1>5, LargestNat
<1> PICK B : B = {i \in C : f[i] = x}
  OBVIOUS
<1>7. B \subseteq Nat /\ B # {}
  <2>1. PICK i \in C : f[i] = x
    BY <1>6
  <2>2. i \in B
    BY <2>1
  <2>3. B \subseteq C /\ \A k \in C : k \in Nat
    OBVIOUS
  <2> QED
    BY <2>2, <2>3
<1>8. PICK i \in B : \A k \in B : i <= k
  BY <1>7, LeastNat
<1>9. \A j \in C : f[j] \in Nat /\ f[j] \in S /\ f[i] = x /\ x \in Nat
  BY <1>5
<1>10. \A j \in C : f[i] >= f[j]
  BY <1>6, <1>9
<1>11. ASSUME NEW k \in C, \A j \in C : f[k] >= f[j] PROVE i <= k
  <2>1. i \in C /\ f[k] >= f[i] /\ f[i] >= f[k]
    BY <1>10, <1>11
  <2>2. f[k] = x
    BY <1>9, <2>1
  <2> QED
    BY <1>8, <2>2
<1> QED
  BY <1>10, <1>11

\* The longest of some columns is one of them.
LEMMA LongestIsColumn ==
  ASSUME NEW C \in SUBSET CC!ToSet(Columns), C # {}, NEW S \in Seq(Rows \ {Mismatch})
  PROVE  CC!Longest(Columns, C, S) \in CC!ToSet(Columns)
<1>1. Columns \in Seq(STRING) /\ Len(Columns) \in Nat /\ DOMAIN Columns = 1 .. Len(Columns)
  BY DatasetsAssumption
<1> PICK f, K :
      /\ f = [i \in DOMAIN Columns |-> CC!Total(Columns[i], S)]
      /\ K = {i \in DOMAIN Columns : Columns[i] \in C}
  OBVIOUS
<1>2. \A i \in DOMAIN Columns : Columns[i] \in CC!ToSet(Columns)
  BY DEF CC!ToSet
<1>3. K \subseteq 1 .. Len(Columns) /\ K # {} /\ \A i \in K : f[i] \in Nat
  <2>1. K # {}
    <3>1. PICK c \in C : c \in CC!ToSet(Columns)
      OBVIOUS
    <3>2. PICK i \in DOMAIN Columns : Columns[i] = c
      BY <3>1 DEF CC!ToSet
    <3> QED
      BY <3>1, <3>2
  <2> QED
    BY <1>1, <1>2, <2>1, TotalFolds
<1>4. PICK i \in K : (\A j \in K : f[i] >= f[j]) /\ \A k \in K : (\A j \in K : f[k] >= f[j]) => i <= k
  BY <1>1, <1>3, FirstOfLargest
<1> DEFINE best == {k \in K : \A j \in K : CC!Total(Columns[k], S) >= CC!Total(Columns[j], S)}
<1>5. i \in best /\ \A k \in best : i <= k
  BY <1>4
<1>6. CC!Longest(Columns, C, S) = Columns[CHOOSE k \in best : \A j \in best : k <= j]
  BY Zenon DEF CC!Longest
<1>7. best \subseteq DOMAIN Columns
  OBVIOUS
<1> HIDE DEF best
<1>8. (CHOOSE k \in best : \A j \in best : k <= j) \in best
  BY <1>5, Zenon
<1> QED
  BY <1>2, <1>6, <1>7, <1>8

\* The columns chosen are two of the header's, or none.
LEMMA ResolveIsPair ==
  ASSUME NEW S \in Seq(Rows \ {Mismatch}), hints \in Hints
  PROVE  CC!Resolve(Columns, S) \in CC!Pairs(Columns) \cup {<<>>}
<1> PICK A, B : A = CC!Hinted(Columns, 1) /\ B = CC!Hinted(Columns, 2)
  OBVIOUS
<1>1. A \in SUBSET CC!ToSet(Columns) /\ B \in SUBSET CC!ToSet(Columns)
  BY DEF CC!Hinted
<1> PICK p, c : p = CC!Longest(Columns, A, S) /\ c = CC!Longest(Columns, B, S)
  OBVIOUS
<1>2. CC!Resolve(Columns, S) =
        IF Len(Columns) < 2 THEN <<>>
        ELSE IF A # {} /\ B # {} /\ p # c THEN <<p, c>>
        ELSE IF hermes \in CC!Pairs(Columns) /\ hermes[1] # hermes[2] THEN hermes ELSE <<>>
  BY Zenon DEF CC!Resolve
<1>3. ASSUME A # {}, B # {} PROVE <<p, c>> \in CC!Pairs(Columns)
  <2>1. p \in CC!ToSet(Columns) /\ c \in CC!ToSet(Columns)
    BY <1>1, <1>3, LongestIsColumn
  <2> QED
    BY <2>1 DEF CC!Pairs
<1> QED
  BY <1>2, <1>3, Zenon

\* Each row is counted once.
LEMMA FoldCounts ==
  ASSUME NEW D, NEW R, NEW base, NEW op, NEW a, Foldable(op, base, a, D, R),
         NEW x, FoldsTo(x, op, base, a, D),
         NEW c \in [D -> Nat], \A d \in D, r \in R : c[op[<<d, r>>]] = c[d] + 1
  PROVE  c[x] = c[base] + Len(a)
<1> base \in D /\ op \in [D \X R -> D] /\ a \in Seq(R)
  BY DEF Foldable
<1> PICK n \in Nat : n = Len(a) /\ DOMAIN a = 1 .. n
  OBVIOUS
<1>1. PICK f \in [0 .. n -> D] :
        f[0] = base /\ (\A k \in 0 .. n - 1 : f[k + 1] = op[<<f[k], a[k + 1]>>]) /\ f[n] = x
  BY DEF FoldsTo
<1> DEFINE T == {k \in Nat : k <= n => c[f[k]] = c[base] + k}
<1>2. 0 \in T
  BY <1>1
<1>3. ASSUME NEW k \in Nat, k \in T PROVE k + 1 \in T
  <2> SUFFICES ASSUME k + 1 <= n PROVE c[f[k + 1]] = c[base] + (k + 1)
    OBVIOUS
  <2>1. k \in 0 .. n - 1 /\ k \in 0 .. n /\ k + 1 \in DOMAIN a
    OBVIOUS
  <2>2. f[k] \in D /\ a[k + 1] \in R
    BY <1>1, <2>1
  <2>3. c[f[k + 1]] = c[f[k]] + 1
    BY <1>1, <2>1, <2>2
  <2>4. c[f[k]] = c[base] + k /\ c[base] \in Nat
    BY <1>3
  <2> QED
    BY <2>3, <2>4
<1>4. n \in T
  <2> HIDE DEF T
  <2> QED
    BY <1>2, <1>3, NatSet
<1> QED
  BY <1>1, <1>4

-----------------------------------------------------------------------------
\* What a cleaner may have kept: pairs of texts, all different, and which.
Texts2 == CC!Cells \X CC!Cells
Cleaned ==
  {st \in [seen : SUBSET Texts2, kept : Seq(Texts2), drops : Nat] :
     /\ st.seen = SE!ToSet(st.kept)
     /\ IsFiniteSet(SE!ToSet(st.kept)) /\ Cardinality(SE!ToSet(st.kept)) = Len(st.kept)}

\* The same of its parts.
LEMMA CleanedOf ==
  ASSUME NEW s, NEW k, NEW d
  PROVE  [seen |-> s, kept |-> k, drops |-> d] \in Cleaned <=>
           /\ s \in SUBSET Texts2 /\ k \in Seq(Texts2) /\ d \in Nat
           /\ s = SE!ToSet(k) /\ IsFiniteSet(SE!ToSet(k)) /\ Cardinality(SE!ToSet(k)) = Len(k)
<1> PICK st : st = [seen |-> s, kept |-> k, drops |-> d]
  OBVIOUS
<1>1. st.seen = s /\ st.kept = k /\ st.drops = d
  OBVIOUS
<1>2. st \in [seen : SUBSET Texts2, kept : Seq(Texts2), drops : Nat] <=>
        s \in SUBSET Texts2 /\ k \in Seq(Texts2) /\ d \in Nat
  BY <1>1
<1> QED
  BY <1>1, <1>2, Zenon DEF Cleaned

\* The rows it has been given.
Given == [st \in Cleaned |-> Len(st.kept) + st.drops]

\* One more row leaves it so, and is counted.
LEMMA RowIsCleaned ==
  ASSUME NEW st \in Cleaned, NEW m \in CC!Pairs(Columns), NEW r \in Rows
  PROVE  CC!Clean(st, m, r) \in Cleaned /\ Given[CC!Clean(st, m, r)] = Given[st] + 1
<1> PICK s, k, d :
      /\ s = st.seen /\ k = st.kept /\ d = st.drops
      /\ st = [seen |-> s, kept |-> k, drops |-> d]
  BY DEF Cleaned
<1>1. /\ s \in SUBSET Texts2 /\ k \in Seq(Texts2) /\ d \in Nat
      /\ s = SE!ToSet(k) /\ IsFiniteSet(SE!ToSet(k)) /\ Cardinality(SE!ToSet(k)) = Len(k)
  BY DEF Cleaned
<1>2. Given[st] = Len(k) + d /\ Len(k) \in Nat
  BY <1>1 DEF Given
<1> PICK x : x = CC!Clean(st, m, r)
  OBVIOUS
<1>3. CASE x = [st EXCEPT !.drops = st.drops + 1]
  <2> PICK e : e = d + 1
    OBVIOUS
  <2>1. x = [seen |-> s, kept |-> k, drops |-> e]
    BY <1>3
  <2>2. e \in Nat
    BY <1>1
  <2>3. x \in Cleaned
    BY <1>1, <2>1, <2>2, CleanedOf
  <2>4. x.kept = k /\ x.drops = e
    BY <2>1
  <2>5. Given[x] = Len(k) + e
    BY <2>3, <2>4 DEF Given
  <2> QED
    BY <1>1, <1>2, <2>3, <2>5
<1> PICK pair : pair = <<r[m[1]], r[m[2]]>>
  OBVIOUS
<1>4. CASE r # Mismatch /\ pair \notin s /\ x = [seen |-> s \cup {pair}, kept |-> Append(k, pair), drops |-> d]
  <2>1. pair \in Texts2
    <3>1. m[1] \in CC!ToSet(Columns) /\ m[2] \in CC!ToSet(Columns)
      BY DEF CC!Pairs
    <3> QED
      BY <1>4, <3>1 DEF CC!Cells, Texts2
  <2> PICK k1, s1 : k1 = Append(k, pair) /\ s1 = s \cup {pair}
    OBVIOUS
  <2>2. /\ k1 \in Seq(Texts2) /\ SE!ToSet(k1) = SE!ToSet(k) \cup {pair} /\ Len(k1) = Len(k) + 1
    BY <1>1, <2>1, Members
  <2>3. IsFiniteSet(SE!ToSet(k1)) /\ Cardinality(SE!ToSet(k1)) = Len(k1)
    <3>1. pair \notin SE!ToSet(k)
      BY <1>1, <1>4
    <3>2. IsFiniteSet(SE!ToSet(k) \cup {pair}) /\ Cardinality(SE!ToSet(k) \cup {pair}) = Len(k) + 1
      <4> PICK S : S = SE!ToSet(k)
        OBVIOUS
      <4>1. IsFiniteSet(S) /\ pair \notin S /\ Cardinality(S) = Len(k)
        BY <1>1, <3>1
      <4>2. IsFiniteSet(S \cup {pair}) /\ Cardinality(S \cup {pair}) = Cardinality(S) + 1
        BY ONLY <4>1, FS_AddElement
      <4> QED
        BY <4>1, <4>2
    <3> QED
      BY <2>2, <3>2
  <2>4. s1 \in SUBSET Texts2 /\ s1 = SE!ToSet(k1)
    BY <1>1, <2>1, <2>2
  <2>5. x \in Cleaned
    <3>1. [seen |-> s1, kept |-> k1, drops |-> d] \in Cleaned
      BY <1>1, <2>2, <2>3, <2>4, CleanedOf
    <3> QED
      BY <1>4, <3>1, Zenon
  <2>6. x.kept = k1 /\ x.drops = d
    BY <1>4
  <2>7. Given[x] = Len(k1) + d
    BY <2>5, <2>6 DEF Given
  <2> QED
    BY <1>1, <1>2, <2>2, <2>5, <2>7
<1>5. \/ x = [st EXCEPT !.drops = st.drops + 1]
      \/ r # Mismatch /\ pair \notin s /\ x = [seen |-> s \cup {pair}, kept |-> Append(k, pair), drops |-> d]
  <2>1. \/ x = [st EXCEPT !.drops = st.drops + 1]
        \/ r # Mismatch /\ pair \notin st.seen
           /\ x = [seen |-> st.seen \cup {pair}, kept |-> Append(st.kept, pair), drops |-> st.drops]
    BY Zenon DEF CC!Clean
  <2> QED
    BY <2>1, Zenon
<1> QED
  BY <1>3, <1>4, <1>5, Zenon

\* The rows given to it are all in it.
LEMMA RowsAreCleaned ==
  ASSUME NEW m \in CC!Pairs(Columns), NEW a \in Seq(Rows)
  PROVE  /\ CC!CleanRows(CC!Clean0, m, a) \in Cleaned
         /\ Given[CC!CleanRows(CC!Clean0, m, a)] = Len(a)
         /\ a = <<>> => CC!CleanRows(CC!Clean0, m, a) = CC!Clean0
         /\ \A r \in Rows :
              CC!CleanRows(CC!Clean0, m, Append(a, r)) = CC!Clean(CC!CleanRows(CC!Clean0, m, a), m, r)
<1>1. CC!Clean0 \in Cleaned /\ Given[CC!Clean0] = 0
  <2>1. SE!ToSet(<<>>) = {}
    BY DEF SE!ToSet
  <2>2. IsFiniteSet({}) /\ Cardinality({}) = 0
    BY FS_EmptySet
  <2>3. {} \in SUBSET Texts2 /\ <<>> \in Seq(Texts2) /\ 0 \in Nat /\ Len(<<>>) = 0
    OBVIOUS
  <2>4. CC!Clean0 \in Cleaned
    BY <2>1, <2>2, <2>3, CleanedOf DEF CC!Clean0
  <2>5. CC!Clean0.kept = <<>> /\ CC!Clean0.drops = 0
    BY DEF CC!Clean0
  <2> QED
    BY <2>3, <2>4, <2>5 DEF Given
<1> PICK D, R, base, op : D = Cleaned /\ R = Rows /\ base = CC!Clean0 /\ op = CleanOp(D, m)
  OBVIOUS
<1>2. /\ op \in [D \X R -> D] /\ base \in D /\ a \in Seq(R)
      /\ \A d \in D, r \in R : op[<<d, r>>] = CC!Clean(d, m, r) /\ CC!Clean(d, m, r) \in D
  BY <1>1, RowIsCleaned DEF CleanOp
<1>3. ASSUME NEW b \in Seq(R)
      PROVE  Foldable(op, base, b, D, R) /\ FoldsTo(CC!CleanRows(base, m, b), op, base, b, D)
  BY <1>2, CleanFolds, Zenon
<1>4. Foldable(op, base, a, D, R) /\ FoldsTo(CC!CleanRows(base, m, a), op, base, a, D)
  BY <1>2, <1>3
<1> PICK x : x = CC!CleanRows(base, m, a)
  OBVIOUS
<1>10. Foldable(op, base, a, D, R) /\ FoldsTo(x, op, base, a, D)
  BY <1>4, Zenon
<1>5. x \in D /\ (a = <<>> => x = base)
  BY ONLY <1>10, FoldsToIs
<1> PICK c : c = Given
  OBVIOUS
<1>6. Given \in [Cleaned -> Nat]
  BY DEF Given, Cleaned
<1>7. c \in [D -> Nat] /\ \A d \in D, r \in R : c[op[<<d, r>>]] = c[d] + 1
  BY <1>2, <1>6, RowIsCleaned
<1>8. c[x] = c[base] + Len(a)
  <2>1. Foldable(op, base, a, D, R) /\ FoldsTo(x, op, base, a, D) /\ c \in [D -> Nat]
        /\ \A d \in D, r \in R : c[op[<<d, r>>]] = c[d] + 1
    BY <1>7, <1>10
  <2> QED
    BY ONLY <2>1, FoldCounts
<1>9. ASSUME NEW r \in R PROVE CC!CleanRows(base, m, Append(a, r)) = CC!Clean(x, m, r)
  <2> PICK y : y = CC!CleanRows(base, m, Append(a, r))
    OBVIOUS
  <2>1. Append(a, r) \in Seq(R)
    BY <1>2
  <2>2. FoldsTo(x, op, base, a, D) /\ FoldsTo(y, op, base, Append(a, r), D)
    BY <1>3, <1>4, <2>1, Zenon
  <2>3. y = op[<<x, r>>]
    <3>1. r \in R /\ Foldable(op, base, a, D, R)
      BY <1>10
    <3> QED
      BY ONLY <2>2, <3>1, FoldsToNext
  <2> QED
    BY <1>2, <1>5, <2>3
<1> QED
  BY <1>1, <1>5, <1>8, <1>9

\* The instance has its own copies of these operators.
LEMMA ChatCounts == ASSUME NEW S PROVE CC!Cardinality(S) = Cardinality(S) /\ CC!ToSet(S) = SE!ToSet(S)
BY Zenon DEF CC!Cardinality, Cardinality, CC!ToSet, SE!ToSet

\* The columns chosen, of hints h and the skill's answer e.
HintedBy(h, i) == h[i] \cap CC!ToSet(Columns)
ResolvesTo(h, e, S) ==
  IF Len(Columns) < 2 THEN <<>>
  ELSE IF /\ HintedBy(h, 1) # {} /\ HintedBy(h, 2) # {}
          /\ CC!Longest(Columns, HintedBy(h, 1), S) # CC!Longest(Columns, HintedBy(h, 2), S)
       THEN <<CC!Longest(Columns, HintedBy(h, 1), S), CC!Longest(Columns, HintedBy(h, 2), S)>>
       ELSE IF e \in CC!Pairs(Columns) /\ e[1] # e[2] THEN e ELSE <<>>
First(c) == SubSeq(c, 1, IF Len(c) < BufferMax THEN Len(c) ELSE BufferMax)

\* The invariant of a state: the file c, hints h, answer e, rows read n, those
\* waiting p, columns m, pairs seen s, records k, drops d and phase ph.
ChatTypes(c, h, e, n, p, m, s, k, d, ph) ==
  /\ n \in 0 .. Len(c) /\ p \in Seq(Rows) /\ Len(p) < BufferMax
  /\ m \in CC!Pairs(Columns) \cup {<<>>}
  /\ s \subseteq Texts2 /\ k \in Seq(Texts2)
  /\ d \in 0 .. Len(c)
  /\ ph \in {"reading", "failed", "ended"}
ChatRows(c, h, e, n, p, m, s, k, d, ph) ==
  /\ (ph = "reading" /\ m = <<>>) =>
       p = SubSeq(c, 1, n) /\ [seen |-> s, kept |-> k, drops |-> d] = CC!Clean0
  /\ m # <<>> =>
       /\ p = <<>> /\ Len(First(c)) <= n
       /\ m = ResolvesTo(h, e, CC!Samples(First(c)))
       /\ [seen |-> s, kept |-> k, drops |-> d] = CC!CleanRows(CC!Clean0, m, SubSeq(c, 1, n))
  /\ ph = "ended" => m # <<>> /\ n = Len(c)
  /\ ph = "failed" =>
       /\ m = <<>> /\ [seen |-> s, kept |-> k, drops |-> d] = CC!Clean0
       /\ ResolvesTo(h, e, CC!Samples(First(c))) = <<>>
ChatIs(c, h, e, n, p, m, s, k, d, ph) ==
  /\ ChatTypes(c, h, e, n, p, m, s, k, d, ph)
  /\ c \in Seq(Rows) /\ h \in Hints
  /\ ChatRows(c, h, e, n, p, m, s, k, d, ph)
  /\ ph # "failed" => Len(k) + d + Len(p) = n
  /\ CC!Cardinality(CC!ToSet(k)) = Len(k)

\* It is that of the module.
LEMMA ChatOfState ==
  /\ CC!IInv <=> ChatIs(csv, hints, hermes, next, pending, mapping, seen, kept, drops, phase)
  /\ CC!IInv' <=> ChatIs(csv', hints', hermes', next', pending', mapping', seen', kept', drops', phase')
<1>1. /\ CC!TypeOK <=> ChatTypes(csv, hints, hermes, next, pending, mapping, seen, kept, drops, phase)
      /\ CC!TypeOK' <=> ChatTypes(csv', hints', hermes', next', pending', mapping', seen', kept', drops', phase')
  BY Zenon DEF CC!TypeOK, ChatTypes, Texts2
<1>2. CC!CleanedSoFar <=> ChatRows(csv, hints, hermes, next, pending, mapping, seen, kept, drops, phase)
  BY Zenon DEF CC!CleanedSoFar, ChatRows, CC!State0, CC!FirstRows, First, CC!Resolve, CC!Hinted, ResolvesTo, HintedBy
<1>3. CC!CleanedSoFar' <=> ChatRows(csv', hints', hermes', next', pending', mapping', seen', kept', drops', phase')
  BY Zenon DEF CC!CleanedSoFar, ChatRows, CC!State0, CC!FirstRows, First, CC!Resolve, CC!Hinted, ResolvesTo, HintedBy
<1> QED
  BY <1>1, <1>2, <1>3, Zenon DEF CC!IInv, ChatIs, CC!RowsAddUp

\* One more row of a file.
LEMMA OneMoreRow ==
  ASSUME NEW c \in Seq(Rows), NEW n \in 0 .. Len(c), n < Len(c)
  PROVE  /\ SubSeq(c, 1, n) \in Seq(Rows) /\ c[n + 1] \in Rows /\ n + 1 \in 0 .. Len(c)
         /\ SubSeq(c, 1, n + 1) = Append(SubSeq(c, 1, n), c[n + 1])
         /\ Len(SubSeq(c, 1, n)) = n /\ Len(SubSeq(c, 1, n + 1)) = n + 1
BY OneMore

\* What the rows of a file have been cleaned to, part by part.
LEMMA CleanedParts ==
  ASSUME NEW m \in CC!Pairs(Columns), NEW R \in Seq(Rows), NEW st, st = CC!CleanRows(CC!Clean0, m, R)
  PROVE  /\ [seen |-> st.seen, kept |-> st.kept, drops |-> st.drops] = st
         /\ st.seen \subseteq Texts2 /\ st.kept \in Seq(Texts2) /\ st.drops \in 0 .. Len(R)
         /\ Len(st.kept) + st.drops = Len(R)
         /\ CC!Cardinality(CC!ToSet(st.kept)) = Len(st.kept)
<1>1. st \in Cleaned /\ Given[st] = Len(R)
  BY RowsAreCleaned
<1>2. st \in [seen : SUBSET Texts2, kept : Seq(Texts2), drops : Nat]
      /\ Cardinality(SE!ToSet(st.kept)) = Len(st.kept)
  BY <1>1, Zenon DEF Cleaned
<1> PICK s, k, d : s = st.seen /\ k = st.kept /\ d = st.drops
  OBVIOUS
<1>3. s \in SUBSET Texts2 /\ k \in Seq(Texts2) /\ d \in Nat /\ Len(k) \in Nat
      /\ [seen |-> s, kept |-> k, drops |-> d] = st
  BY <1>2
<1>4. Len(k) + d = Len(R) /\ Len(R) \in Nat
  BY <1>1 DEF Given
<1>5. CC!Cardinality(CC!ToSet(k)) = Len(k)
  BY <1>2, ChatCounts
<1> QED
  BY <1>3, <1>4, <1>5

\* Before the first row nothing waits and nothing is cleaned.
LEMMA ChatStarts ==
  ASSUME NEW c \in Seq(Rows), NEW h \in Hints, NEW e
  PROVE  ChatIs(c, h, e, 0, <<>>, <<>>, {}, <<>>, 0, "reading")
<1>1. SubSeq(c, 1, 0) = <<>> /\ Len(c) \in Nat /\ Len(<<>>) = 0 /\ BufferMax \in Nat \ {0}
  BY DatasetsAssumption
<1>2. SE!ToSet(<<>>) = {} /\ Cardinality({}) = 0
  BY FS_EmptySet DEF SE!ToSet
<1>3. CC!Cardinality(CC!ToSet(<<>>)) = 0
  BY <1>2, ChatCounts
<1>4. CC!Clean0 = [seen |-> {}, kept |-> <<>>, drops |-> 0]
  BY DEF CC!Clean0
<1> QED
  BY <1>1, <1>3, <1>4 DEF ChatIs, ChatTypes, ChatRows

\* A row waits.
LEMMA RowWaits ==
  ASSUME NEW c, NEW h, NEW e, NEW n, NEW p, NEW s, NEW k, NEW d,
         ChatIs(c, h, e, n, p, <<>>, s, k, d, "reading"),
         n < Len(c), Len(p) + 1 < BufferMax
  PROVE  ChatIs(c, h, e, n + 1, Append(p, c[n + 1]), <<>>, s, k, d, "reading")
<1>1. /\ c \in Seq(Rows) /\ n \in 0 .. Len(c) /\ p \in Seq(Rows)
      /\ p = SubSeq(c, 1, n) /\ Len(k) + d + Len(p) = n
      /\ k \in Seq(Texts2) /\ d \in 0 .. Len(c)
  BY Zenon DEF ChatIs, ChatTypes, ChatRows
<1>2. /\ Append(p, c[n + 1]) = SubSeq(c, 1, n + 1) /\ Append(p, c[n + 1]) \in Seq(Rows)
      /\ Len(Append(p, c[n + 1])) = n + 1 /\ Len(p) = n /\ n + 1 \in 0 .. Len(c)
  <2>1. c[n + 1] \in Rows
    BY <1>1, OneMoreRow
  <2> QED
    BY <1>1, <2>1, OneMoreRow
<1> PICK q : q = Append(p, c[n + 1])
  OBVIOUS
<1>3. /\ q \in Seq(Rows) /\ Len(q) < BufferMax /\ Len(k) + d + Len(q) = n + 1
      /\ q = SubSeq(c, 1, n + 1) /\ n + 1 \in 0 .. Len(c)
  <2>1. Len(k) \in Nat /\ d \in Nat /\ n \in Nat
    BY <1>1
  <2> QED
    BY <1>1, <1>2, <2>1
<1>4. <<>> \in CC!Pairs(Columns) \cup {<<>>}
  OBVIOUS
<1> QED
  BY <1>3, <1>4, Zenon DEF ChatIs, ChatTypes, ChatRows

\* A row is cleaned.
LEMMA RowCleaned ==
  ASSUME NEW c, NEW h, NEW e, NEW n, NEW p, NEW m, NEW s, NEW k, NEW d,
         ChatIs(c, h, e, n, p, m, s, k, d, "reading"), m # <<>>, n < Len(c),
         NEW st, st = CC!Clean([seen |-> s, kept |-> k, drops |-> d], m, c[n + 1])
  PROVE  ChatIs(c, h, e, n + 1, p, m, st.seen, st.kept, st.drops, "reading")
<1>1. /\ c \in Seq(Rows) /\ h \in Hints /\ n \in 0 .. Len(c) /\ m \in CC!Pairs(Columns)
      /\ p = <<>> /\ p \in Seq(Rows) /\ Len(p) < BufferMax
      /\ Len(First(c)) <= n /\ m = ResolvesTo(h, e, CC!Samples(First(c)))
      /\ [seen |-> s, kept |-> k, drops |-> d] = CC!CleanRows(CC!Clean0, m, SubSeq(c, 1, n))
  BY Zenon DEF ChatIs, ChatTypes, ChatRows
<1> PICK R, a, r : R = SubSeq(c, 1, n + 1) /\ a = SubSeq(c, 1, n) /\ r = c[n + 1]
  OBVIOUS
<1>2. R = Append(a, r) /\ a \in Seq(Rows) /\ r \in Rows /\ Len(R) = n + 1 /\ n + 1 \in 0 .. Len(c)
  BY <1>1, OneMoreRow
<1>8. R \in Seq(Rows)
  BY <1>2
<1>3. st = CC!CleanRows(CC!Clean0, m, R)
  <2>1. CC!CleanRows(CC!Clean0, m, Append(a, r)) = CC!Clean(CC!CleanRows(CC!Clean0, m, a), m, r)
    BY <1>1, <1>2, RowsAreCleaned
  <2> QED
    BY <1>1, <1>2, <2>1
<1>4. /\ [seen |-> st.seen, kept |-> st.kept, drops |-> st.drops] = st
      /\ st.seen \subseteq Texts2 /\ st.kept \in Seq(Texts2) /\ st.drops \in 0 .. Len(R)
      /\ Len(st.kept) + st.drops = Len(R)
      /\ CC!Cardinality(CC!ToSet(st.kept)) = Len(st.kept)
  <2>1. m \in CC!Pairs(Columns) /\ R \in Seq(Rows) /\ st = CC!CleanRows(CC!Clean0, m, R)
    BY <1>1, <1>3, <1>8
  <2> QED
    BY ONLY <2>1, CleanedParts, ZenonT(60)
<1> PICK s1, k1, d1 : s1 = st.seen /\ k1 = st.kept /\ d1 = st.drops
  OBVIOUS
<1>5. /\ s1 \subseteq Texts2 /\ k1 \in Seq(Texts2) /\ d1 \in 0 .. Len(c)
      /\ Len(k1) + d1 + Len(p) = n + 1
      /\ CC!Cardinality(CC!ToSet(k1)) = Len(k1)
      /\ [seen |-> s1, kept |-> k1, drops |-> d1] = CC!CleanRows(CC!Clean0, m, SubSeq(c, 1, n + 1))
  <2>1. Len(c) \in Nat /\ n + 1 \in Nat /\ Len(p) = 0 /\ Len(k1) \in Nat
    BY <1>1, <1>2, <1>4
  <2> QED
    BY <1>2, <1>3, <1>4, <2>1
<1>6. Len(First(c)) <= n + 1
  <2>1. Len(First(c)) \in Nat /\ n \in Nat
    BY <1>1, DatasetsAssumption DEF First
  <2> QED
    BY <1>1, <2>1
<1>7. ChatIs(c, h, e, n + 1, p, m, s1, k1, d1, "reading")
  BY <1>1, <1>2, <1>5, <1>6, Zenon DEF ChatIs, ChatTypes, ChatRows
<1> QED
  BY <1>7, Zenon

\* The rows that waited are cleaned.
LEMMA BufferFlushed ==
  ASSUME NEW c \in Seq(Rows), NEW h \in Hints, NEW e, NEW n \in 0 .. Len(c), NEW R, NEW m \in CC!Pairs(Columns),
         R = SubSeq(c, 1, n), R = First(c), m = ResolvesTo(h, e, CC!Samples(R)), m # <<>>,
         NEW st, st = CC!CleanRows(CC!Clean0, m, R),
         NEW ph \in {"reading", "ended"}, ph = "ended" => n = Len(c)
  PROVE  ChatIs(c, h, e, n, <<>>, m, st.seen, st.kept, st.drops, ph)
<1>1. R \in Seq(Rows) /\ Len(R) = n /\ Len(c) \in Nat /\ n \in Nat
  OBVIOUS
<1>4. /\ [seen |-> st.seen, kept |-> st.kept, drops |-> st.drops] = st
      /\ st.seen \subseteq Texts2 /\ st.kept \in Seq(Texts2) /\ st.drops \in 0 .. Len(R)
      /\ Len(st.kept) + st.drops = Len(R)
      /\ CC!Cardinality(CC!ToSet(st.kept)) = Len(st.kept)
  BY <1>1, CleanedParts, Zenon
<1> PICK s1, k1, d1 : s1 = st.seen /\ k1 = st.kept /\ d1 = st.drops
  OBVIOUS
<1>5. /\ s1 \subseteq Texts2 /\ k1 \in Seq(Texts2) /\ d1 \in 0 .. Len(c)
      /\ Len(k1) + d1 + Len(<<>>) = n
      /\ CC!Cardinality(CC!ToSet(k1)) = Len(k1)
      /\ [seen |-> s1, kept |-> k1, drops |-> d1] = CC!CleanRows(CC!Clean0, m, SubSeq(c, 1, n))
  <2>1. Len(<<>>) = 0 /\ Len(k1) \in Nat
    BY <1>4
  <2>2. [seen |-> s1, kept |-> k1, drops |-> d1] = CC!CleanRows(CC!Clean0, m, SubSeq(c, 1, n))
    BY <1>4, Zenon
  <2>3. d1 \in 0 .. n /\ n <= Len(c) /\ Len(k1) + d1 = n
    BY <1>1, <1>4
  <2> QED
    BY <1>1, <1>4, <2>1, <2>2, <2>3
<1>6. Len(First(c)) <= n /\ <<>> \in Seq(Rows) /\ Len(<<>>) < BufferMax /\ ph # "failed"
      /\ ph \in {"reading", "failed", "ended"}
  BY <1>1, DatasetsAssumption
<1>7. ChatIs(c, h, e, n, <<>>, m, s1, k1, d1, ph)
  BY <1>5, <1>6, Zenon DEF ChatIs, ChatTypes, ChatRows
<1> QED
  BY <1>7, Zenon

\* No columns could be chosen.
LEMMA MappingFails ==
  ASSUME NEW c, NEW h, NEW e, NEW n, NEW p, NEW s, NEW k, NEW d,
         ChatIs(c, h, e, n, p, <<>>, s, k, d, "reading"), NEW n1 \in 0 .. Len(c),
         ResolvesTo(h, e, CC!Samples(First(c))) = <<>>
  PROVE  ChatIs(c, h, e, n1, <<>>, <<>>, s, k, d, "failed")
<1>1. <<>> \in Seq(Rows) /\ Len(<<>>) < BufferMax /\ <<>> \in CC!Pairs(Columns) \cup {<<>>}
  BY DatasetsAssumption
<1> QED
  BY <1>1, Zenon DEF ChatIs, ChatTypes, ChatRows

\* The file ends after the columns were chosen.
LEMMA FileEnds ==
  ASSUME NEW c, NEW h, NEW e, NEW n, NEW p, NEW m, NEW s, NEW k, NEW d,
         ChatIs(c, h, e, n, p, m, s, k, d, "reading"), m # <<>>, n = Len(c)
  PROVE  ChatIs(c, h, e, n, p, m, s, k, d, "ended")
BY Zenon DEF ChatIs, ChatTypes, ChatRows

\* The invariant holds before the first row.
LEMMA ChatInit == CC!Init => CC!IInv
<1> SUFFICES ASSUME CC!Init PROVE CC!IInv
  OBVIOUS
<1>1. csv \in Seq(Rows) /\ hints \in Hints
  <2>1. PICK n \in 0 .. MaxRows : csv \in [1 .. n -> Rows]
    BY DEF CC!Init
  <2>2. n \in Nat
    BY DatasetsAssumption
  <2>3. hints \in Hints
    BY DEF CC!Init
  <2>4. csv \in Seq(Rows)
    BY <2>1, <2>2
  <2> QED
    BY <2>3, <2>4
<1>2. /\ next = 0 /\ pending = <<>> /\ mapping = <<>>
      /\ seen = {} /\ kept = <<>> /\ drops = 0 /\ phase = "reading"
  BY DEF CC!Init
<1>3. ChatIs(csv, hints, hermes, next, pending, mapping, seen, kept, drops, phase)
  BY <1>1, <1>2, ChatStarts, Zenon
<1> QED
  BY <1>3, ChatOfState, Zenon

\* A row is read.
LEMMA ChatReads == ASSUME CC!IInv, CC!ReadRow PROVE CC!IInv'
<1> PICK c, h, e, n, p, m, s, k, d, r, read :
      /\ c = csv /\ h = hints /\ e = hermes /\ n = next /\ p = pending /\ m = mapping
      /\ s = seen /\ k = kept /\ d = drops /\ r = csv[next + 1] /\ read = Append(pending, r)
  OBVIOUS
<1>1. /\ ChatIs(c, h, e, n, p, m, s, k, d, "reading") /\ n < Len(c) /\ r = c[n + 1]
      /\ csv' = c /\ hints' = h /\ hermes' = e /\ next' = n + 1
  BY ChatOfState, Zenon DEF CC!ReadRow, CC!inputs
<1>2. /\ c \in Seq(Rows) /\ h \in Hints /\ n \in 0 .. Len(c) /\ m \in CC!Pairs(Columns) \cup {<<>>}
      /\ Len(p) < BufferMax /\ p \in Seq(Rows) /\ n + 1 \in 0 .. Len(c) /\ BufferMax \in Nat \ {0}
  <2>1. c \in Seq(Rows) /\ h \in Hints /\ n \in 0 .. Len(c) /\ m \in CC!Pairs(Columns) \cup {<<>>}
        /\ Len(p) < BufferMax /\ p \in Seq(Rows)
    BY <1>1, Zenon DEF ChatIs, ChatTypes
  <2> QED
    BY <1>1, <2>1, DatasetsAssumption
<1>3. CASE m # <<>>
  <2> PICK st : st = CC!Clean([seen |-> s, kept |-> k, drops |-> d], m, r)
    OBVIOUS
  <2>1. /\ seen' = st.seen /\ kept' = st.kept /\ drops' = st.drops
        /\ pending' = p /\ mapping' = m /\ phase' = "reading"
    BY <1>3, Zenon DEF CC!ReadRow, CC!Become, CC!State0
  <2>2. ChatIs(c, h, e, n + 1, p, m, st.seen, st.kept, st.drops, "reading")
    BY <1>1, <1>3, RowCleaned, Zenon
  <2> QED
    BY <1>1, <2>1, <2>2, ChatOfState, Zenon
<1>4. CASE m = <<>> /\ Len(p) + 1 < BufferMax
  <2>1. /\ seen' = s /\ kept' = k /\ drops' = d
        /\ pending' = Append(p, r) /\ mapping' = m /\ phase' = "reading"
    BY <1>4, Zenon DEF CC!ReadRow
  <2>2. ChatIs(c, h, e, n + 1, Append(p, r), m, s, k, d, "reading")
    BY <1>1, <1>4, RowWaits, Zenon
  <2> QED
    BY <1>1, <2>1, <2>2, ChatOfState, Zenon
<1>5. CASE m = <<>> /\ ~(Len(p) + 1 < BufferMax)
  <2>1. CC!Flush(read) /\ (mapping' # <<>> => phase' = "reading")
    BY <1>5, Zenon DEF CC!ReadRow
  <2>2. p = SubSeq(c, 1, n) /\ [seen |-> s, kept |-> k, drops |-> d] = CC!Clean0
    BY <1>1, <1>5, Zenon DEF ChatIs, ChatRows
  <2>3. read = SubSeq(c, 1, n + 1) /\ read = First(c) /\ read \in Seq(Rows)
    <3>1. /\ SubSeq(c, 1, n + 1) = Append(SubSeq(c, 1, n), c[n + 1]) /\ Len(SubSeq(c, 1, n)) = n
          /\ c[n + 1] \in Rows
      BY <1>1, <1>2, OneMoreRow
    <3>2. n + 1 = BufferMax /\ ~(Len(c) < BufferMax)
      BY <1>1, <1>2, <1>5, <2>2, <3>1
    <3>3. read = SubSeq(c, 1, n + 1)
      BY <1>1, <2>2, <3>1
    <3>4. read \in Seq(Rows)
      BY <1>1, <1>2, <3>1
    <3> QED
      BY <3>2, <3>3, <3>4 DEF First
  <2> PICK m1 : m1 = ResolvesTo(h, e, CC!Samples(read))
    OBVIOUS
  <2>4. /\ mapping' = m1 /\ pending' = <<>>
        /\ m1 = <<>> => phase' = "failed" /\ seen' = s /\ kept' = k /\ drops' = d
        /\ m1 # <<>> =>
             LET st == CC!CleanRows([seen |-> s, kept |-> k, drops |-> d], m1, read)
             IN  seen' = st.seen /\ kept' = st.kept /\ drops' = st.drops
    BY <2>1, Zenon DEF CC!Flush, CC!Become, CC!State0, CC!Resolve, CC!Hinted, ResolvesTo, HintedBy
  <2>5. CASE m1 = <<>>
    <3>1. ChatIs(c, h, e, n + 1, <<>>, <<>>, s, k, d, "failed")
      BY <1>1, <1>2, <1>5, <2>3, <2>5, MappingFails, Zenon
    <3> QED
      BY <1>1, <2>4, <2>5, <3>1, ChatOfState, Zenon
  <2>6. CASE m1 # <<>>
    <3> PICK st : st = CC!CleanRows(CC!Clean0, m1, read)
      OBVIOUS
    <3>1. seen' = st.seen /\ kept' = st.kept /\ drops' = st.drops
      BY <2>2, <2>4, <2>6, Zenon
    <3>2. m1 \in CC!Pairs(Columns)
      <4>1. CC!Samples(read) \in Seq(Rows \ {Mismatch})
        BY <2>3, SamplesAreRows
      <4>2. m1 = CC!Resolve(Columns, CC!Samples(read))
        BY Zenon DEF CC!Resolve, CC!Hinted, ResolvesTo, HintedBy
      <4>3. hints \in Hints
        BY <1>2
      <4>4. CC!Resolve(Columns, CC!Samples(read)) \in CC!Pairs(Columns) \cup {<<>>}
        BY ONLY <4>1, <4>3, ResolveIsPair
      <4> QED
        BY <2>6, <4>2, <4>4
    <3>3. ChatIs(c, h, e, n + 1, <<>>, m1, st.seen, st.kept, st.drops, "reading")
      BY <1>2, <2>3, <2>6, <3>2, BufferFlushed, Zenon
    <3> QED
      BY <1>1, <2>1, <2>4, <2>6, <3>1, <3>3, ChatOfState, Zenon
  <2> QED
    BY <2>5, <2>6
<1> QED
  BY <1>3, <1>4, <1>5

\* The file ends.
LEMMA ChatEnds == ASSUME CC!IInv, CC!EndCsv PROVE CC!IInv'
<1> PICK c, h, e, n, p, m, s, k, d :
      /\ c = csv /\ h = hints /\ e = hermes /\ n = next /\ p = pending /\ m = mapping
      /\ s = seen /\ k = kept /\ d = drops
  OBVIOUS
<1>1. /\ ChatIs(c, h, e, n, p, m, s, k, d, "reading") /\ n = Len(c)
      /\ csv' = c /\ hints' = h /\ hermes' = e /\ next' = n
  BY ChatOfState, Zenon DEF CC!EndCsv, CC!inputs
<1>2. /\ c \in Seq(Rows) /\ h \in Hints /\ n \in 0 .. Len(c) /\ m \in CC!Pairs(Columns) \cup {<<>>}
      /\ Len(p) < BufferMax /\ p \in Seq(Rows)
  BY <1>1, Zenon DEF ChatIs, ChatTypes
<1>3. CASE m # <<>>
  <2>1. /\ seen' = s /\ kept' = k /\ drops' = d
        /\ pending' = p /\ mapping' = m /\ phase' = "ended"
    BY <1>3, Zenon DEF CC!EndCsv
  <2>2. ChatIs(c, h, e, n, p, m, s, k, d, "ended")
    BY <1>1, <1>3, FileEnds, Zenon
  <2> QED
    BY <1>1, <2>1, <2>2, ChatOfState, Zenon
<1>4. CASE m = <<>>
  <2>1. CC!Flush(p) /\ (mapping' # <<>> => phase' = "ended")
    BY <1>4, Zenon DEF CC!EndCsv
  <2>2. p = SubSeq(c, 1, n) /\ [seen |-> s, kept |-> k, drops |-> d] = CC!Clean0
    BY <1>1, <1>4, Zenon DEF ChatIs, ChatRows
  <2>3. p = First(c)
    <3>1. Len(c) \in Nat /\ Len(p) = n /\ n = Len(c)
      BY <1>1, <1>2, <2>2
    <3>2. Len(c) < BufferMax
      BY <1>2, <3>1
    <3> QED
      BY <1>1, <2>2, <3>2 DEF First
  <2> PICK m1 : m1 = ResolvesTo(h, e, CC!Samples(p))
    OBVIOUS
  <2>4. /\ mapping' = m1 /\ pending' = <<>>
        /\ m1 = <<>> => phase' = "failed" /\ seen' = s /\ kept' = k /\ drops' = d
        /\ m1 # <<>> =>
             LET st == CC!CleanRows([seen |-> s, kept |-> k, drops |-> d], m1, p)
             IN  seen' = st.seen /\ kept' = st.kept /\ drops' = st.drops
    BY <2>1, Zenon DEF CC!Flush, CC!Become, CC!State0, CC!Resolve, CC!Hinted, ResolvesTo, HintedBy
  <2>5. CASE m1 = <<>>
    <3>1. ChatIs(c, h, e, n, <<>>, <<>>, s, k, d, "failed")
      BY <1>1, <1>2, <1>4, <2>3, <2>5, MappingFails, Zenon
    <3> QED
      BY <1>1, <2>4, <2>5, <3>1, ChatOfState, Zenon
  <2>6. CASE m1 # <<>>
    <3> PICK st : st = CC!CleanRows(CC!Clean0, m1, p)
      OBVIOUS
    <3>1. seen' = st.seen /\ kept' = st.kept /\ drops' = st.drops
      BY <2>2, <2>4, <2>6, Zenon
    <3>2. m1 \in CC!Pairs(Columns)
      <4>1. CC!Samples(p) \in Seq(Rows \ {Mismatch})
        BY <1>2, SamplesAreRows
      <4>2. m1 = CC!Resolve(Columns, CC!Samples(p))
        BY Zenon DEF CC!Resolve, CC!Hinted, ResolvesTo, HintedBy
      <4>3. hints \in Hints
        BY <1>2
      <4>4. CC!Resolve(Columns, CC!Samples(p)) \in CC!Pairs(Columns) \cup {<<>>}
        BY ONLY <4>1, <4>3, ResolveIsPair
      <4> QED
        BY <2>6, <4>2, <4>4
    <3>3. ChatIs(c, h, e, n, <<>>, m1, st.seen, st.kept, st.drops, "ended")
      BY <1>1, <1>2, <2>2, <2>3, <2>6, <3>2, BufferFlushed, Zenon
    <3> QED
      BY <1>1, <2>1, <2>4, <2>6, <3>1, <3>3, ChatOfState, Zenon
  <2> QED
    BY <2>5, <2>6
<1> QED
  BY <1>3, <1>4

\* Every step of the cleaner keeps the invariant.
LEMMA ChatStep == CC!IInv /\ [CC!Next]_(CC!vars) => CC!IInv'
<1> SUFFICES ASSUME CC!IInv, [CC!Next]_(CC!vars) PROVE CC!IInv'
  OBVIOUS
<1>1. CASE UNCHANGED CC!vars
  <2>1. /\ csv' = csv /\ hints' = hints /\ hermes' = hermes /\ next' = next /\ pending' = pending
        /\ mapping' = mapping /\ seen' = seen /\ kept' = kept /\ drops' = drops /\ phase' = phase
    BY <1>1 DEF CC!vars, CC!inputs
  <2> QED
    BY <2>1, ChatOfState, Zenon
<1> QED
  BY <1>1, ChatReads, ChatEnds DEF CC!Next

\* The comma is tried, whatever others are.
LEMMA CommaIsTried == "," \in CC!ToSet(CC!Delimiters)
<1>1. ASSUME NEW O \in Seq(STRING) PROVE 1 \in DOMAIN (<<",">> \o O) /\ (<<",">> \o O)[1] = ","
  OBVIOUS
<1>2. OtherDelimiters \in Seq(STRING)
  BY DatasetsAssumption
<1>3. 1 \in DOMAIN CC!Delimiters /\ CC!Delimiters[1] = ","
  BY <1>1, <1>2, Zenon DEF CC!Delimiters
<1> QED
  BY <1>3, Zenon DEF CC!ToSet

\* What the invariant says of a cleaned file.
LEMMA ChatIsCleaned == CC!IInv => CC!CsvIsCleaned
<1> SUFFICES ASSUME CC!IInv PROVE CC!CsvIsCleaned
  OBVIOUS
<1>1. ASSUME phase # "reading", CC!Usable = {} \/ CC!Picked = ",",
             CC!Samples(CC!FirstRows) = CC!Samples(csv)
      PROVE  CC!WholeFile = [mapping |-> mapping, made |-> CC!State0]
  <2> PICK m : m = CC!Resolve(Columns, CC!Samples(csv))
    OBVIOUS
  <2>1. csv \in Seq(Rows) /\ phase \in {"failed", "ended"}
    BY <1>1, Zenon DEF CC!IInv, CC!TypeOK
  <2>2. mapping = m
    BY <1>1, <2>1, Zenon DEF CC!IInv, CC!CleanedSoFar
  <2>3. mapping = <<>> => CC!State0 = CC!Clean0
    BY <2>1, Zenon DEF CC!IInv, CC!CleanedSoFar
  <2>4. mapping # <<>> => CC!State0 = CC!CleanRows(CC!Clean0, m, csv)
    <3>1. SubSeq(csv, 1, Len(csv)) = csv
      BY <2>1
    <3> QED
      BY <2>1, <2>2, <3>1, Zenon DEF CC!IInv, CC!CleanedSoFar
  <2>5. CASE CC!Usable = {}
    <3>1. Len(Columns) < 2
      <4>1. "," \in CC!ToSet(CC!Delimiters)
        BY CommaIsTried
      <4> PICK n : n = Len(Columns)
        OBVIOUS
      <4>2. ~(Len(CC!Table(",").header) >= 2)
        BY <2>5, <4>1, Zenon DEF CC!Usable
      <4>3. CC!Table(",").header = Columns
        BY DEF CC!Table
      <4>4. n \in Nat
        BY DatasetsAssumption
      <4>5. ~(n >= 2)
        BY <4>2, <4>3, Zenon
      <4>6. n < 2
        BY ONLY <4>4, <4>5
      <4> QED
        BY <4>6
    <3>2. m = <<>>
      <4> PICK p : p = CC!Longest(Columns, CC!Hinted(Columns, 1), CC!Samples(csv))
        OBVIOUS
      <4> PICK c : c = CC!Longest(Columns, CC!Hinted(Columns, 2), CC!Samples(csv))
        OBVIOUS
      <4>1. m = IF Len(Columns) < 2 THEN <<>>
                ELSE IF CC!Hinted(Columns, 1) # {} /\ CC!Hinted(Columns, 2) # {} /\ p # c THEN <<p, c>>
                ELSE IF hermes \in CC!Pairs(Columns) /\ hermes[1] # hermes[2] THEN hermes ELSE <<>>
        BY Zenon DEF CC!Resolve
      <4> QED
        BY ONLY <3>1, <4>1
    <3> QED
      BY <2>2, <2>3, <2>5, <3>2 DEF CC!WholeFile
  <2>6. CASE CC!Usable # {} /\ CC!Picked = ","
    <3>1. CC!WholeFile = CC!ReadTable([header |-> Columns, rows |-> csv])
      BY <2>6 DEF CC!WholeFile, CC!Table
    <3>2. CC!WholeFile = [mapping |-> m, made |-> IF m = <<>> THEN CC!Clean0 ELSE CC!CleanRows(CC!Clean0, m, csv)]
      BY <3>1 DEF CC!ReadTable
    <3> QED
      BY <2>2, <2>3, <2>4, <3>2
  <2> QED
    BY <1>1, <2>5, <2>6
<1>2. CC!StreamAgreesWithFile
  BY <1>1, Zenon DEF CC!StreamAgreesWithFile
<1> QED
  BY <1>2 DEF CC!IInv, CC!CsvIsCleaned

-----------------------------------------------------------------------------
(* Uploads of any format                                                   *)

\* One more value, as a function of those kept so far and the value.
OnlyOf(S, d, v) == IF v \in S THEN Append(d, v) ELSE d
OnlyOp(S, D, R) == [p \in D \X R |-> OnlyOf(S, p[1], p[2])]
LinesOf(d, v) == IF v = "split" THEN d \o <<"bad", "bad">> ELSE Append(d, v)
LinesOp(D, R) == [p \in D \X R |-> LinesOf(p[1], p[2])]

\* The values of a kind are taken one after the other.
LEMMA OnlyFolds ==
  ASSUME NEW S, NEW D, NEW R, <<>> \in D, NEW a \in Seq(R), \A d \in D, r \in R : OnlyOf(S, d, r) \in D
  PROVE  /\ Foldable(OnlyOp(S, D, R), <<>>, a, D, R)
         /\ FoldsTo(CO!Only(S, a), OnlyOp(S, D, R), <<>>, a, D)
<1> DEFINE step(h) == [s \in SUBSET DOMAIN a |->
                        IF s = {} THEN <<>> ELSE OnlyOf(S, h[s \ {Largest(s)}], a[Largest(s)])]
           fold == CHOOSE h : h = step(h)
<1> PICK op, base : op = OnlyOp(S, D, R) /\ base = <<>>
  OBVIOUS
<1>1. op \in [D \X R -> D] /\ \A d \in D, r \in R : op[<<d, r>>] = OnlyOf(S, d, r)
  BY DEF OnlyOp
<1>2. DOMAIN a = 1 .. Len(a) /\ Len(a) \in Nat /\ \A i \in DOMAIN a : a[i] \in R
  OBVIOUS
<1>0. Foldable(op, base, a, D, R)
  BY <1>1 DEF Foldable
<1>3. \E h : h = step(h)
  <2>1. PICK h : FoundFold(h, op, base, a, D)
    BY ONLY <1>0, FoldFound, Zenon
  <2>2. \A s \in SUBSET DOMAIN a :
          h[s] = IF s = {} THEN <<>> ELSE OnlyOf(S, h[s \ {Largest(s)}], a[Largest(s)])
    BY <1>1, <1>2, <2>1, ZenonT(30) DEF FoundFold
  <2>3. h = step(h)
    BY <2>1, <2>2 DEF FoundFold
  <2> QED
    BY <2>3, Zenon
<1>4. fold = step(fold)
  <2> HIDE DEF step
  <2> QED
    BY <1>3, Zenon
<1>5. CO!Only(S, a) = fold[DOMAIN a]
  BY Zenon DEF CO!Only, CO!FoldLeft, CO!MapThenFoldSet, CO!Max, Largest, OnlyOf
<1> PICK h : h = fold
  OBVIOUS
<1>6. FoldOf(h, op, base, a, D, R)
  <2>1. h[{}] = base
    BY <1>4
  <2>2. ASSUME NEW s \in SUBSET DOMAIN a, s # {}, h[s \ {Largest(s)}] \in D
        PROVE  h[s] = op[<<h[s \ {Largest(s)}], a[Largest(s)]>>]
    <3>1. a[Largest(s)] \in R
      BY <1>2, <2>2, LargestInSet
    <3>2. h[s] = OnlyOf(S, h[s \ {Largest(s)}], a[Largest(s)])
      BY <1>4, <2>2
    <3> QED
      BY <1>1, <2>2, <3>1, <3>2, Zenon
  <2> QED
    BY <1>0, <2>1, <2>2, Zenon DEF FoldOf
<1>7. FoldsTo(h[DOMAIN a], op, base, a, D)
  BY ONLY <1>6, FoldReached, Zenon
<1> QED
  BY <1>0, <1>5, <1>7, Zenon

\* The lines are cut one after the other.
LEMMA LinesFold ==
  ASSUME NEW D, NEW R, <<>> \in D, NEW a \in Seq(R), \A d \in D, r \in R : LinesOf(d, r) \in D
  PROVE  /\ Foldable(LinesOp(D, R), <<>>, a, D, R)
         /\ FoldsTo(CO!SplitLines(a), LinesOp(D, R), <<>>, a, D)
<1> DEFINE step(h) == [s \in SUBSET DOMAIN a |->
                        IF s = {} THEN <<>> ELSE LinesOf(h[s \ {Largest(s)}], a[Largest(s)])]
           fold == CHOOSE h : h = step(h)
<1> PICK op, base : op = LinesOp(D, R) /\ base = <<>>
  OBVIOUS
<1>1. op \in [D \X R -> D] /\ \A d \in D, r \in R : op[<<d, r>>] = LinesOf(d, r)
  BY DEF LinesOp
<1>2. DOMAIN a = 1 .. Len(a) /\ Len(a) \in Nat /\ \A i \in DOMAIN a : a[i] \in R
  OBVIOUS
<1>0. Foldable(op, base, a, D, R)
  BY <1>1 DEF Foldable
<1>3. \E h : h = step(h)
  <2>1. PICK h : FoundFold(h, op, base, a, D)
    BY ONLY <1>0, FoldFound, Zenon
  <2>2. \A s \in SUBSET DOMAIN a :
          h[s] = IF s = {} THEN <<>> ELSE LinesOf(h[s \ {Largest(s)}], a[Largest(s)])
    BY <1>1, <1>2, <2>1, ZenonT(30) DEF FoundFold
  <2>3. h = step(h)
    BY <2>1, <2>2 DEF FoundFold
  <2> QED
    BY <2>3, Zenon
<1>4. fold = step(fold)
  <2> HIDE DEF step
  <2> QED
    BY <1>3, Zenon
<1>5. CO!SplitLines(a) = fold[DOMAIN a]
  BY Zenon DEF CO!SplitLines, CO!FoldLeft, CO!MapThenFoldSet, CO!Max, Largest, LinesOf
<1> PICK h : h = fold
  OBVIOUS
<1>6. FoldOf(h, op, base, a, D, R)
  <2>1. h[{}] = base
    BY <1>4
  <2>2. ASSUME NEW s \in SUBSET DOMAIN a, s # {}, h[s \ {Largest(s)}] \in D
        PROVE  h[s] = op[<<h[s \ {Largest(s)}], a[Largest(s)]>>]
    <3>1. a[Largest(s)] \in R
      BY <1>2, <2>2, LargestInSet
    <3>2. h[s] = LinesOf(h[s \ {Largest(s)}], a[Largest(s)])
      BY <1>4, <2>2
    <3> QED
      BY <1>1, <2>2, <3>1, <3>2, Zenon
  <2> QED
    BY <1>0, <2>1, <2>2, Zenon DEF FoldOf
<1>7. FoldsTo(h[DOMAIN a], op, base, a, D)
  BY ONLY <1>6, FoldReached, Zenon
<1> QED
  BY <1>0, <1>5, <1>7, Zenon

\* What is kept is of the kind.
LEMMA OnlyIs == ASSUME NEW S, NEW R, NEW a \in Seq(R) PROVE CO!Only(S, a) \in Seq(S)
<1> PICK D, op, base : D = Seq(S) /\ op = OnlyOp(S, D, R) /\ base = <<>>
  OBVIOUS
<1>1. base \in D /\ \A d \in D, r \in R : OnlyOf(S, d, r) \in D
  BY DEF OnlyOf
<1>2. Foldable(op, base, a, D, R) /\ FoldsTo(CO!Only(S, a), op, base, a, D)
  BY <1>1, OnlyFolds, Zenon
<1>3. CO!Only(S, a) \in D
  BY ONLY <1>2, FoldsToIs
<1> QED
  BY <1>3

\* Lines are lines, and the same ones when none has a separator in it.
LEMMA LinesAre ==
  ASSUME NEW a \in Seq(CO!Lines)
  PROVE  /\ CO!SplitLines(a) \in Seq(CO!Lines)
         /\ "split" \notin CO!Range(a) => CO!SplitLines(a) = a
<1> PICK R, D, op, base : R = CO!Lines /\ D = Seq(R) /\ op = LinesOp(D, R) /\ base = <<>>
  OBVIOUS
<1>0. "bad" \in R
  BY DEF CO!Lines
<1>1. base \in D /\ \A d \in D, r \in R : LinesOf(d, r) \in D
  <2>1. <<"bad", "bad">> \in Seq(R)
    BY <1>0
  <2>2. ASSUME NEW d \in D, NEW r \in R PROVE LinesOf(d, r) \in D
    <3>1. d \in Seq(R) /\ d \o <<"bad", "bad">> \in Seq(R) /\ Append(d, r) \in Seq(R)
      BY <2>1
    <3> QED
      BY <3>1 DEF LinesOf
  <2> QED
    BY <2>2
<1>2. Foldable(op, base, a, D, R) /\ FoldsTo(CO!SplitLines(a), op, base, a, D)
  BY <1>1, LinesFold, Zenon
<1>3. CO!SplitLines(a) \in D
  BY ONLY <1>2, FoldsToIs
<1>4. ASSUME "split" \notin CO!Range(a) PROVE CO!SplitLines(a) = a
  <2> PICK n \in Nat : n = Len(a)
    OBVIOUS
  <2>1. PICK f \in [0 .. n -> D] :
          /\ f[0] = base /\ \A k \in 0 .. n - 1 : f[k + 1] = op[<<f[k], a[k + 1]>>]
          /\ f[n] = CO!SplitLines(a)
    BY <1>2 DEF FoldsTo
  <2> DEFINE T == {k \in Nat : k <= n => f[k] = SubSeq(a, 1, k)}
  <2>2. 0 \in T
    <3>1. SubSeq(a, 1, 0) = <<>>
      OBVIOUS
    <3> QED
      BY <2>1, <3>1
  <2>3. ASSUME NEW k \in Nat, k \in T PROVE k + 1 \in T
    <3> SUFFICES ASSUME k + 1 <= n PROVE f[k + 1] = SubSeq(a, 1, k + 1)
      OBVIOUS
    <3>1. k \in 0 .. n - 1 /\ k \in 0 .. Len(a) /\ k < Len(a) /\ k \in 0 .. n
      OBVIOUS
    <3>2. /\ SubSeq(a, 1, k + 1) = Append(SubSeq(a, 1, k), a[k + 1]) /\ a[k + 1] \in R
      BY <3>1, OneMore
    <3>3. f[k + 1] = op[<<f[k], a[k + 1]>>] /\ f[k] \in D /\ f[k] = SubSeq(a, 1, k)
      BY <2>1, <2>3, <3>1
    <3>4. a[k + 1] # "split"
      BY <1>4, <3>1 DEF CO!Range
    <3>5. op[<<f[k], a[k + 1]>>] = LinesOf(f[k], a[k + 1])
      BY <3>2, <3>3 DEF LinesOp
    <3> QED
      BY <3>2, <3>3, <3>4, <3>5 DEF LinesOf
  <2>4. n \in T
    <3> HIDE DEF T
    <3> QED
      BY <2>2, <2>3, NatSet
  <2>5. SubSeq(a, 1, n) = a
    OBVIOUS
  <2> QED
    BY <2>1, <2>4, <2>5
<1> QED
  BY <1>3, <1>4

\* What a file holds.
LEMMA BodyParts ==
  ASSUME body \in CO!Bodies
  PROVE  /\ body.form = "lines" => body.items \in Seq(CO!Lines)
         /\ body.form = "array" => body.items \in Seq(CO!Objects \cup {"list"})
         /\ body.form = "prose" => body.items \in Seq({"text"})
         /\ Len(body.items) \in Nat
<1>1. \A S : CO!BoundedSeq(S, MaxItems) \subseteq Seq(S)
  BY DEF CO!BoundedSeq, CO!SeqOf
<1> PICK F, I, C : [form |-> F, items |-> I, commas |-> C] = body
  BY DEF CO!Bodies
<1>3. body.form = F /\ body.items = I
  OBVIOUS
<1>4. CASE F = "lines"
  <2>1. I \in CO!BoundedSeq(CO!Lines, MaxItems)
    BY <1>3, <1>4 DEF CO!Bodies
  <2> QED
    BY <1>1, <1>3, <1>4, <2>1
<1>5. CASE F = "array"
  <2>1. I \in CO!BoundedSeq(CO!Objects \cup {"list"}, MaxItems)
    BY <1>3, <1>5 DEF CO!Bodies
  <2> QED
    BY <1>1, <1>3, <1>5, <2>1
<1>6. CASE F = "prose"
  <2>1. I \in CO!BoundedSeq({"text"}, MaxItems)
    BY <1>3, <1>6 DEF CO!Bodies
  <2> QED
    BY <1>1, <1>3, <1>6, <2>1
<1>7. CASE F \notin {"lines", "array", "prose"}
  <2>1. I \in {<<"chat">>, <<"odd">>} \cup CO!BoundedSeq({"row"}, MaxItems) \cup {<<>>}
    BY <1>3, <1>7 DEF CO!Bodies
  <2> QED
    BY <1>1, <1>3, <1>7, <2>1
<1> QED
  BY <1>4, <1>5, <1>6, <1>7

\* The file stays what it is while it is read.
LEMMA FileStays ==
  ASSUME ext' = ext, body' = body
  PROVE  /\ CO!DetectFileFormat' = CO!DetectFileFormat
         /\ (CO!ParseKnown(CO!DetectFileFormat))' = CO!ParseKnown(CO!DetectFileFormat)
         /\ CO!Streamed' = CO!Streamed
<1>1. CO!LooksLikeJsonl' <=> CO!LooksLikeJsonl
  BY Zenon DEF CO!LooksLikeJsonl
<1>2. CO!ClassifyJsonl' = CO!ClassifyJsonl
  BY Zenon DEF CO!ClassifyJsonl
<1>3. CO!Whole' = CO!Whole
  BY Zenon DEF CO!Whole
<1>4. (CO!IsJson' <=> CO!IsJson) /\ (CO!OpensList' <=> CO!OpensList) /\ (CO!Empty' <=> CO!Empty)
  BY Zenon DEF CO!IsJson, CO!OpensList, CO!Empty
<1>5. CO!DetectFileFormat' = CO!DetectFileFormat
  BY <1>1, <1>2, <1>3, <1>4, Zenon DEF CO!DetectFileFormat
<1>6. \A f : CO!ParseKnown(f)' = CO!ParseKnown(f)
  BY <1>4, Zenon DEF CO!ParseKnown
<1>7. CO!Streamed' = CO!Streamed
  BY Zenon DEF CO!Streamed
<1>8. (CO!ParseKnown(CO!DetectFileFormat))' = CO!ParseKnown(CO!DetectFileFormat)
  BY <1>4, <1>5, Zenon DEF CO!ParseKnown
<1> QED
  BY <1>5, <1>7, <1>8

\* What is read directly are objects, and of JSONL those a large upload reads.
LEMMA ReadDirectly ==
  ASSUME body \in CO!Bodies, NEW f
  PROVE  /\ CO!ParseKnown(f) \in Seq(CO!Objects)
         /\ (CO!IsJsonl(f) /\ "split" \notin CO!Range(body.items)) => CO!ParseKnown(f) = CO!Streamed
<1>1. \A a, R : a \in Seq(R) => CO!OnlyObjects(a) \in Seq(CO!Objects)
  BY OnlyIs DEF CO!OnlyObjects
<1>2. CASE CO!IsJsonl(f) /\ body.form = "lines"
  <2>1. body.items \in Seq(CO!Lines)
    BY <1>2, BodyParts
  <2>2. CO!ParseKnown(f) = CO!OnlyObjects(CO!SplitLines(body.items))
    BY <1>2, Zenon DEF CO!ParseKnown
  <2>3. CO!ParseKnown(f) \in Seq(CO!Objects)
    BY <1>1, <2>1, <2>2, LinesAre
  <2>4. ASSUME "split" \notin CO!Range(body.items) PROVE CO!ParseKnown(f) = CO!Streamed
    <3> PICK a : a = body.items
      OBVIOUS
    <3>1. \A i \in DOMAIN a : a[i] # "split"
      BY <2>4 DEF CO!Range
    <3>2. [i \in DOMAIN a |-> IF a[i] = "split" THEN "chat" ELSE a[i]] = a
      <4>1. [i \in DOMAIN a |-> IF a[i] = "split" THEN "chat" ELSE a[i]] = [i \in DOMAIN a |-> a[i]]
        BY <3>1
      <4>2. a = [i \in DOMAIN a |-> a[i]]
        BY <2>1
      <4> QED
        BY <4>1, <4>2, Zenon
    <3>3. CO!SplitLines(a) = a
      BY <2>1, <2>4, LinesAre
    <3>4. CO!Streamed = CO!OnlyObjects([i \in DOMAIN a |-> IF a[i] = "split" THEN "chat" ELSE a[i]])
      BY <1>2, Zenon DEF CO!Streamed
    <3> QED
      BY <2>2, <3>2, <3>3, <3>4, Zenon
  <2> QED
    BY <2>3, <2>4
<1>3. CASE CO!IsJsonl(f) /\ body.form # "lines"
  <2>1. CO!ParseKnown(f) = <<>> /\ CO!Streamed = <<>>
    BY <1>3, Zenon DEF CO!ParseKnown, CO!Streamed
  <2>2. <<>> \in Seq(CO!Objects)
    OBVIOUS
  <2> QED
    BY <2>1, <2>2, Zenon
<1>4. CASE ~CO!IsJsonl(f)
  <2>1. "text" \in CO!Objects
    BY DEF CO!Objects, CO!Trainable
  <2>2. <<>> \in Seq(CO!Objects) /\ <<"text">> \in Seq(CO!Objects) /\ Seq({"text"}) \subseteq Seq(CO!Objects)
    BY <2>1
  <2>3. body.form = "array" => CO!OnlyObjects(body.items) \in Seq(CO!Objects)
    BY <1>1, BodyParts
  <2>4. body.form = "prose" => body.items \in Seq(CO!Objects)
    BY <2>2, BodyParts
  <2>5. CO!ParseKnown(f) \in Seq(CO!Objects)
    BY <1>4, <2>2, <2>3, <2>4, Zenon DEF CO!ParseKnown
  <2> QED
    BY <1>4, <2>5, Zenon
<1> QED
  BY <1>2, <1>3, <1>4, Zenon

\* The records of a model are chats.
LEMMA ChatsAre == ASSUME NEW n \in Nat PROVE CO!Chats(n) \in Seq({"chat"}) /\ Len(CO!Chats(n)) = n
BY DEF CO!Chats

\* The invariant of a file of this format and these records, in terms of the state.
ConvTypes(q, s, r, g, c, a, d, n) ==
  /\ q.kind \in {"none", "upload", "preview", "large"} /\ q.force \in BOOLEAN
  /\ s \in {"idle", "convert", "model", "answer"}
  /\ r \in Seq(CO!Objects) /\ g \in Seq({"chat"})
  /\ c \in 0 .. MaxChunks /\ n \in 0 .. MaxRequests
  /\ a.code \in {0, 200, 202, 400, 409, 413, 422, 500}
  /\ d.records \in Seq(CO!Objects)

ConvAsked(F, P, q, s, r) ==
  s = "model" =>
    /\ q.force \/ F \in {"unknown", "json_array", "prose"}
    /\ ~q.force /\ F # "unknown" => ~CO!Enough(P)
    /\ r = IF q.force \/ F = "unknown" THEN <<>> ELSE P

ConvParsed(F, P, v, d) ==
  /\ \A made \in {v, d} : made.path = "direct" /\ F # "csv" => made.records = P
  /\ d # CO!NoDataset => d.records # <<>>

ConvSurvives(F, P, a) ==
  (F \in {"json_array", "prose"} /\ ~a.force) =>
    /\ (a.code = 400 /\ a.path # "refused") => P = <<>>
    /\ (a.code = 200 /\ CO!Enough(P)) => a.records = P

ConvIs(F, P, q, s, r, g, c, a, v, d, n) ==
  /\ ConvTypes(q, s, r, g, c, a, d, n)
  /\ s # "idle" => q.kind \in {"upload", "preview"}
  /\ ConvAsked(F, P, q, s, r) /\ ConvParsed(F, P, v, d) /\ ConvSurvives(F, P, a)

\* It is the invariant of the state, and of the next one of the same file.
LEMMA ConvOfState ==
  ASSUME NEW F, NEW P, F = CO!DetectFileFormat, P = CO!ParseKnown(CO!DetectFileFormat)
  PROVE  /\ CO!IInv <=>
              body \in CO!Bodies
                /\ ConvIs(F, P, request, convPc, records, got, chunks, answer, preview, dataset, requests)
         /\ (ext' = ext /\ body' = body /\ body \in CO!Bodies) =>
              (CO!IInv' <=>
                 ConvIs(F, P, request', convPc', records', got', chunks', answer', preview', dataset', requests'))
<1>1. CO!IInv <=>
        body \in CO!Bodies
          /\ ConvIs(F, P, request, convPc, records, got, chunks, answer, preview, dataset, requests)
  <2>1. CO!TypeOK <=> ConvTypes(request, convPc, records, got, chunks, answer, dataset, requests)
    BY Zenon DEF CO!TypeOK, ConvTypes
  <2>2. CO!ModelIsAsked <=> ConvAsked(F, P, request, convPc, records)
    BY Zenon DEF CO!ModelIsAsked, ConvAsked
  <2>3. CO!DirectIsParsed <=> ConvParsed(F, P, preview, dataset)
    BY Zenon DEF CO!DirectIsParsed, ConvParsed
  <2>4. CO!DirectSurvives <=> ConvSurvives(F, P, answer)
    BY Zenon DEF CO!DirectSurvives, ConvSurvives
  <2> QED
    BY <2>1, <2>2, <2>3, <2>4, Zenon DEF CO!IInv, ConvIs
<1>2. ASSUME ext' = ext, body' = body, body \in CO!Bodies
      PROVE  CO!IInv' <=>
               ConvIs(F, P, request', convPc', records', got', chunks', answer', preview', dataset', requests')
  <2>1. /\ CO!DetectFileFormat' = F /\ (CO!ParseKnown(CO!DetectFileFormat))' = P
        /\ body' \in CO!Bodies
    BY <1>2, FileStays, Zenon
  <2>2. CO!TypeOK' <=> ConvTypes(request', convPc', records', got', chunks', answer', dataset', requests')
    BY Zenon DEF CO!TypeOK, ConvTypes
  <2>3. CO!ModelIsAsked' <=> ConvAsked(F, P, request', convPc', records')
    BY <2>1, Zenon DEF CO!ModelIsAsked, ConvAsked
  <2>4. CO!DirectIsParsed' <=> ConvParsed(F, P, preview', dataset')
    BY <2>1, Zenon DEF CO!DirectIsParsed, ConvParsed
  <2>5. CO!DirectSurvives' <=> ConvSurvives(F, P, answer')
    BY <2>1, Zenon DEF CO!DirectSurvives, ConvSurvives
  <2> QED
    BY <2>1, <2>2, <2>3, <2>4, <2>5, Zenon DEF CO!IInv, ConvIs
<1> QED
  BY <1>1, <1>2, Zenon

\* What an answer must be, of a request, for the invariant.
Answers(F, P, q, code, path, made) ==
  /\ code \in {200, 400, 409, 413, 500} /\ made \in Seq(CO!Objects)
  /\ code = 200 => made # <<>>
  /\ (path = "direct" /\ code = 200 /\ F # "csv") => made = P
  /\ (F \in {"json_array", "prose"} /\ ~q.force) =>
       /\ (code = 400 /\ path # "refused") => P = <<>>
       /\ (code = 200 /\ CO!Enough(P)) => made = P

\* A request that is answered leaves the invariant.
LEMMA RequestAnswered ==
  ASSUME NEW F, NEW P, NEW q, NEW s, NEW r, NEW g, NEW c, NEW a, NEW v, NEW d, NEW n,
         ConvIs(F, P, q, s, r, g, c, a, v, d, n),
         NEW code, NEW path, NEW made, Answers(F, P, q, code, path, made),
         NEW says, says = [code |-> code, path |-> path, force |-> q.force, records |-> made],
         NEW v1, v1 \in {v, says}, code # 200 => v1 = v,
         NEW d1, d1 \in {d, [by |-> "sync", path |-> path, records |-> made]}, code # 200 => d1 = d
  PROVE  ConvIs(F, P, CO!NoRequest, "idle", <<>>, <<>>, 0, says, v1, d1, n)
<1> PICK up : up = [by |-> "sync", path |-> path, records |-> made]
  OBVIOUS
<1>1. /\ says.code = code /\ says.path = path /\ says.force = q.force /\ says.records = made
      /\ up.path = path /\ up.records = made
  BY Zenon
<1>2. /\ ConvTypes(q, s, r, g, c, a, d, n) /\ ConvParsed(F, P, v, d)
  BY Zenon DEF ConvIs
<1>3. /\ CO!NoRequest.kind = "none" /\ CO!NoRequest.force = FALSE
      /\ 0 \in 0 .. MaxChunks /\ <<>> \in Seq(CO!Objects) /\ <<>> \in Seq({"chat"})
  BY DatasetsAssumption DEF CO!NoRequest
<1>4. code = 200 \/ (v1 = v /\ d1 = d)
  OBVIOUS
<1>5. d1 \in {d, up}
  OBVIOUS
<1>6. d1.records \in Seq(CO!Objects) /\ code \in {200, 400, 409, 413, 500} /\ n \in 0 .. MaxRequests
  <2>1. d.records \in Seq(CO!Objects) /\ n \in 0 .. MaxRequests
    BY <1>2, Zenon DEF ConvTypes
  <2>2. up.records \in Seq(CO!Objects) /\ code \in {200, 400, 409, 413, 500}
    BY <1>1, Zenon DEF Answers
  <2> QED
    BY <1>5, <2>1, <2>2, Zenon
<1>7. ConvTypes(CO!NoRequest, "idle", <<>>, <<>>, 0, says, d1, n)
  BY <1>1, <1>3, <1>6, ZenonT(40) DEF ConvTypes
<1>8. ConvAsked(F, P, CO!NoRequest, "idle", <<>>)
  BY DEF ConvAsked
<1>9. ConvParsed(F, P, v1, d1)
  <2>1. ASSUME NEW x \in {v1, d1}, x.path = "direct", F # "csv" PROVE x.records = P
    <3>1. x \in {v, d} \/ (code = 200 /\ x \in {says, up})
      BY <1>4, <1>5, Zenon
    <3>2. x \in {v, d} => x.records = P
      BY <1>2, <2>1, Zenon DEF ConvParsed
    <3>3. (code = 200 /\ x \in {says, up}) => x.records = P
      BY <1>1, <2>1, Zenon DEF Answers
    <3> QED
      BY <3>1, <3>2, <3>3, Zenon
  <2>2. d1 # CO!NoDataset => d1.records # <<>>
    BY <1>1, <1>2, <1>4, <1>5, ZenonT(40) DEF ConvParsed, Answers
  <2> QED
    BY <2>1, <2>2, Zenon DEF ConvParsed
<1>10. ConvSurvives(F, P, says)
  BY <1>1, Zenon DEF ConvSurvives, Answers
<1> QED
  BY <1>7, <1>8, <1>9, <1>10, Zenon DEF ConvIs

\* So the answer of an endpoint does.
LEMMA Responds ==
  ASSUME CO!IInv, NEW code, NEW path, NEW made, CO!Respond(code, path, made),
         Answers(CO!DetectFileFormat, CO!ParseKnown(CO!DetectFileFormat), request, code, path, made)
  PROVE  CO!IInv'
<1> PICK F, P : F = CO!DetectFileFormat /\ P = CO!ParseKnown(CO!DetectFileFormat)
  OBVIOUS
<1> PICK q, s, r, g, c, a, v, d, n :
      /\ q = request /\ s = convPc /\ r = records /\ g = got /\ c = chunks /\ a = answer
      /\ v = preview /\ d = dataset /\ n = requests
  OBVIOUS
<1> PICK says : says = [code |-> code, path |-> path, force |-> q.force, records |-> made]
  OBVIOUS
<1>1. body \in CO!Bodies /\ ConvIs(F, P, q, s, r, g, c, a, v, d, n) /\ Answers(F, P, q, code, path, made)
  BY ConvOfState, Zenon
<1>2. /\ answer' = says /\ convPc' = "idle" /\ request' = CO!NoRequest /\ records' = <<>> /\ got' = <<>>
      /\ chunks' = 0 /\ ext' = ext /\ body' = body /\ requests' = n
      /\ preview' \in {v, says} /\ (code # 200 => preview' = v)
      /\ dataset' \in {d, [by |-> "sync", path |-> path, records |-> made]} /\ (code # 200 => dataset' = d)
  BY Zenon DEF CO!Respond
<1> PICK v1, d1 : v1 = preview' /\ d1 = dataset'
  OBVIOUS
<1>3. ConvIs(F, P, CO!NoRequest, "idle", <<>>, <<>>, 0, says, v1, d1, n)
  <2>1. v1 \in {v, says} /\ (code # 200 => v1 = v)
        /\ d1 \in {d, [by |-> "sync", path |-> path, records |-> made]} /\ (code # 200 => d1 = d)
        /\ says = [code |-> code, path |-> path, force |-> q.force, records |-> made]
    BY <1>2, Zenon
  <2> QED
    BY ONLY <1>1, <2>1, RequestAnswered
<1> QED
  BY <1>1, <1>2, <1>3, ConvOfState, Zenon

\* The invariant holds before the first request.
LEMMA ConvInit == CO!Init => CO!IInv
<1> SUFFICES ASSUME CO!Init PROVE CO!IInv
  OBVIOUS
<1> PICK F, P : F = CO!DetectFileFormat /\ P = CO!ParseKnown(CO!DetectFileFormat)
  OBVIOUS
<1>1. /\ body \in CO!Bodies /\ request = CO!NoRequest /\ convPc = "idle" /\ records = <<>> /\ got = <<>>
      /\ chunks = 0 /\ answer = CO!Nothing /\ preview = CO!Nothing /\ dataset = CO!NoDataset /\ requests = 0
  BY Zenon DEF CO!Init
<1>2. /\ CO!Nothing.code = 0 /\ CO!Nothing.path = "none" /\ CO!NoDataset.path = "none"
      /\ CO!NoDataset.records = <<>> /\ CO!NoRequest.kind = "none" /\ CO!NoRequest.force = FALSE
  BY DEF CO!Nothing, CO!NoDataset, CO!NoRequest
<1>3. 0 \in 0 .. MaxChunks /\ 0 \in 0 .. MaxRequests /\ <<>> \in Seq(CO!Objects) /\ <<>> \in Seq({"chat"})
  BY DatasetsAssumption
<1>4. ConvTypes(CO!NoRequest, "idle", <<>>, <<>>, 0, CO!Nothing, CO!NoDataset, 0)
  BY <1>2, <1>3, Zenon DEF ConvTypes
<1>5. ConvAsked(F, P, CO!NoRequest, "idle", <<>>)
  BY DEF ConvAsked
<1>6. ConvParsed(F, P, CO!Nothing, CO!NoDataset) /\ ConvSurvives(F, P, CO!Nothing)
  BY <1>2 DEF ConvParsed, ConvSurvives
<1>7. ConvIs(F, P, CO!NoRequest, "idle", <<>>, <<>>, 0, CO!Nothing, CO!Nothing, CO!NoDataset, 0)
  BY <1>4, <1>5, <1>6, Zenon DEF ConvIs
<1> QED
  BY <1>1, <1>7, ConvOfState, Zenon

\* A request begins, or asks the model for more.
LEMMA ConvMoves ==
  ASSUME CO!IInv, CO!AskModel \/ (\E kind \in {"upload", "preview"}, force \in BOOLEAN : CO!Request(kind, force))
                    \/ (\E n \in 0 .. 1 : CO!ModelAnswers(n))
  PROVE  CO!IInv'
<1> PICK F, P : F = CO!DetectFileFormat /\ P = CO!ParseKnown(CO!DetectFileFormat)
  OBVIOUS
<1> PICK q, s, r, g, c, a, v, d, n :
      /\ q = request /\ s = convPc /\ r = records /\ g = got /\ c = chunks /\ a = answer
      /\ v = preview /\ d = dataset /\ n = requests
  OBVIOUS
<1>1. body \in CO!Bodies /\ ConvIs(F, P, q, s, r, g, c, a, v, d, n)
  BY ConvOfState, Zenon
<1>2. /\ ConvTypes(q, s, r, g, c, a, d, n) /\ (s # "idle" => q.kind \in {"upload", "preview"})
      /\ ConvAsked(F, P, q, s, r) /\ ConvParsed(F, P, v, d) /\ ConvSurvives(F, P, a)
  BY <1>1, Zenon DEF ConvIs
<1>3. /\ q.force \in BOOLEAN /\ r \in Seq(CO!Objects) /\ g \in Seq({"chat"}) /\ c \in 0 .. MaxChunks
      /\ n \in 0 .. MaxRequests /\ a.code \in {0, 200, 202, 400, 409, 413, 422, 500}
      /\ d.records \in Seq(CO!Objects) /\ q.kind \in {"none", "upload", "preview", "large"}
      /\ MaxChunks \in Nat /\ MaxRequests \in Nat
  BY <1>2, DatasetsAssumption, Zenon DEF ConvTypes
<1>4. CASE \E kind \in {"upload", "preview"}, force \in BOOLEAN : CO!Request(kind, force)
  <2>1. PICK kind \in {"upload", "preview"}, force \in BOOLEAN : CO!Request(kind, force)
    BY <1>4
  <2> PICK q1 : q1 = [kind |-> kind, force |-> force]
    OBVIOUS
  <2>2. /\ n < MaxRequests /\ requests' = n + 1 /\ request' = q1 /\ convPc' = "convert" /\ s = "idle"
        /\ ext' = ext /\ body' = body /\ records' = r /\ got' = g /\ chunks' = c /\ answer' = a
        /\ preview' = v /\ dataset' = d
    BY <2>1, Zenon DEF CO!Request
  <2>3. n + 1 \in 0 .. MaxRequests
    BY <1>3, <2>2
  <2>4. q1.kind = kind /\ q1.force = force
    BY Zenon
  <2>5. ConvTypes(q1, "convert", r, g, c, a, d, n + 1)
    BY <1>3, <2>3, <2>4, Zenon DEF ConvTypes
  <2>6. ConvAsked(F, P, q1, "convert", r)
    BY DEF ConvAsked
  <2>7. ConvIs(F, P, q1, "convert", r, g, c, a, v, d, n + 1)
    BY <1>2, <2>4, <2>5, <2>6, Zenon DEF ConvIs
  <2> QED
    BY <1>1, <2>2, <2>7, ConvOfState, Zenon
<1>5. CASE CO!AskModel
  <2> PICK r1, c1 : r1 = records' /\ c1 = chunks'
    OBVIOUS
  <2>1. /\ requests' = n /\ request' = q /\ convPc' = "model" /\ s = "convert"
        /\ ext' = ext /\ body' = body /\ got' = g /\ answer' = a /\ preview' = v /\ dataset' = d
        /\ q.force \/ F = "unknown" \/ (F \in {"json_array", "prose"} /\ ~CO!Enough(P))
        /\ r1 = (IF ~q.force /\ F # "unknown" THEN P ELSE <<>>)
        /\ c1 \in {0} \cup 1 .. MaxChunks
    BY <1>5, Zenon DEF CO!AskModel
  <2>2. c1 \in 0 .. MaxChunks
    BY <1>3, <2>1
  <2>3. P \in Seq(CO!Objects) /\ <<>> \in Seq(CO!Objects)
    BY <1>1, ReadDirectly
  <2>4. r1 \in Seq(CO!Objects)
    BY <2>1, <2>3, Zenon
  <2>5. ConvTypes(q, "model", r1, g, c1, a, d, n)
    BY <1>3, <2>2, <2>4, Zenon DEF ConvTypes
  <2>6. ConvAsked(F, P, q, "model", r1)
    <3>1. CASE q.force \/ F = "unknown"
      BY <2>1, <3>1, Zenon DEF ConvAsked
    <3>2. CASE ~q.force /\ F # "unknown"
      BY <2>1, <3>2, Zenon DEF ConvAsked
    <3> QED
      BY <3>1, <3>2, Zenon
  <2>7. ConvIs(F, P, q, "model", r1, g, c1, a, v, d, n)
    BY <1>2, <2>1, <2>5, <2>6, Zenon DEF ConvIs
  <2> QED
    BY <1>1, <2>1, <2>7, ConvOfState, Zenon
<1>6. CASE \E k \in 0 .. 1 : CO!ModelAnswers(k)
  <2>1. PICK k \in 0 .. 1 : CO!ModelAnswers(k)
    BY <1>6
  <2> PICK g1 : g1 = g \o CO!Chats(k)
    OBVIOUS
  <2>2. /\ c > 0 /\ chunks' = c - 1 /\ got' = g1 /\ s = "model"
        /\ requests' = n /\ request' = q /\ convPc' = s /\ ext' = ext /\ body' = body
        /\ records' = r /\ answer' = a /\ preview' = v /\ dataset' = d
    BY <2>1, Zenon DEF CO!ModelAnswers
  <2>3. c - 1 \in 0 .. MaxChunks
    BY <1>3, <2>2
  <2>4. g1 \in Seq({"chat"})
    <3>1. CO!Chats(k) \in Seq({"chat"})
      BY ChatsAre
    <3> QED
      BY <1>3, <3>1
  <2>5. ConvTypes(q, s, r, g1, c - 1, a, d, n)
    BY <1>2, <1>3, <2>3, <2>4, Zenon DEF ConvTypes
  <2>6. ConvIs(F, P, q, s, r, g1, c - 1, a, v, d, n)
    BY <1>2, <2>5, Zenon DEF ConvIs
  <2> QED
    BY <1>1, <2>2, <2>6, ConvOfState, Zenon
<1> QED
  BY <1>4, <1>5, <1>6

\* A request is refused.
LEMMA ConvRefuses == ASSUME CO!IInv, CO!Refuse \/ CO!Taken \/ CO!ModelBreaks PROVE CO!IInv'
<1> PICK F, P : F = CO!DetectFileFormat /\ P = CO!ParseKnown(CO!DetectFileFormat)
  OBVIOUS
<1>1. <<>> \in Seq(CO!Objects)
  OBVIOUS
<1>2. \A code \in {400, 409, 413, 500} : Answers(F, P, request, code, "refused", <<>>)
  BY <1>1 DEF Answers
<1>3. PICK code \in {400, 409, 413, 500} : CO!Respond(code, "refused", <<>>)
  <2>1. CASE CO!Refuse
    <3>1. PICK code \in {400, 413} : CO!Respond(code, "refused", <<>>)
      BY <2>1 DEF CO!Refuse
    <3> QED
      BY <3>1
  <2>2. CASE CO!Taken
    BY <2>2, ZenonT(40) DEF CO!Taken
  <2>3. CASE CO!ModelBreaks
    BY <2>3, ZenonT(40) DEF CO!ModelBreaks
  <2> QED
    BY <2>1, <2>2, <2>3
<1>4. Answers(CO!DetectFileFormat, CO!ParseKnown(CO!DetectFileFormat), request, code, "refused", <<>>)
  BY <1>2, ZenonT(40)
<1> QED
  BY <1>3, <1>4, Responds, Zenon

\* A file is read as it is.
LEMMA ConvReads == ASSUME CO!IInv, CO!ReadFormatted \/ CO!ReadSoft PROVE CO!IInv'
<1> PICK F, P : F = CO!DetectFileFormat /\ P = CO!ParseKnown(CO!DetectFileFormat)
  OBVIOUS
<1>1. body \in CO!Bodies
  BY ConvOfState, Zenon
<1>2. P \in Seq(CO!Objects)
  BY <1>1, ReadDirectly
<1>3. CASE CO!ReadFormatted /\ F = "csv"
  <2>1. PICK n \in 0 .. Len(body.items) : CO!Respond(IF n = 0 THEN 400 ELSE 200, "direct", CO!Chats(n))
    BY <1>3, Zenon DEF CO!ReadFormatted
  <2>2. CO!Chats(n) \in Seq({"chat"}) /\ Len(CO!Chats(n)) = n /\ n \in Nat
    BY <1>1, BodyParts, ChatsAre
  <2>3. CO!Chats(n) \in Seq(CO!Objects) /\ (n # 0 => CO!Chats(n) # <<>>)
    BY <2>2 DEF CO!Objects, CO!Trainable
  <2>4. Answers(F, P, request, IF n = 0 THEN 400 ELSE 200, "direct", CO!Chats(n))
    BY <1>3, <2>3 DEF Answers
  <2> QED
    BY <2>1, <2>4, Responds, Zenon
<1>4. CASE CO!ReadFormatted /\ F # "csv"
  <2>1. CO!IsJsonl(F) /\ CO!Respond(IF P = <<>> THEN 400 ELSE 200, "direct", P)
    BY <1>4, Zenon DEF CO!ReadFormatted
  <2>2. F \notin {"json_array", "prose"}
    BY <2>1 DEF CO!IsJsonl
  <2>3. Answers(F, P, request, IF P = <<>> THEN 400 ELSE 200, "direct", P)
    BY <1>2, <2>2 DEF Answers
  <2> QED
    BY <2>1, <2>3, Responds, Zenon
<1>5. CASE CO!ReadSoft
  <2>1. CO!Enough(P) /\ CO!Respond(200, "direct", P)
    BY <1>5, Zenon DEF CO!ReadSoft
  <2>2. P # <<>>
    BY <2>1, DatasetsAssumption DEF CO!Enough
  <2>3. Answers(F, P, request, 200, "direct", P)
    BY <1>2, <2>2 DEF Answers
  <2> QED
    BY <2>1, <2>3, Responds, Zenon
<1> QED
  BY <1>3, <1>4, <1>5

\* The model is done.
LEMMA ConvFinishes == ASSUME CO!IInv, CO!FinishModel PROVE CO!IInv'
<1> PICK F, P : F = CO!DetectFileFormat /\ P = CO!ParseKnown(CO!DetectFileFormat)
  OBVIOUS
<1> PICK q, r, g : q = request /\ r = records /\ g = got
  OBVIOUS
<1>1. convPc = "model"
  BY Zenon DEF CO!FinishModel
<1>2. /\ ConvTypes(q, "model", r, g, chunks, answer, dataset, requests)
      /\ ConvAsked(F, P, q, "model", r)
  <2>1. ConvIs(F, P, q, "model", r, g, chunks, answer, preview, dataset, requests)
    BY <1>1, ConvOfState, Zenon
  <2> QED
    BY <2>1, Zenon DEF ConvIs
<1>3. /\ r \in Seq(CO!Objects) /\ g \in Seq({"chat"})
      /\ q.force \/ F \in {"unknown", "json_array", "prose"}
      /\ ~q.force /\ F # "unknown" => ~CO!Enough(P) /\ r = P
      /\ q.force \/ F = "unknown" => r = <<>>
  BY <1>2, Zenon DEF ConvTypes, ConvAsked
<1>4. g \in Seq(CO!Objects) /\ <<>> \in Seq(CO!Objects)
  BY <1>3 DEF CO!Objects, CO!Trainable
<1>5. CASE g # <<>>
  <2>1. CO!Respond(200, "ollama", g)
    BY <1>5, Zenon DEF CO!FinishModel
  <2>2. F \in {"json_array", "prose"} /\ ~q.force => ~CO!Enough(P)
    BY <1>3, Zenon
  <2>3. Answers(F, P, q, 200, "ollama", g)
    BY <1>4, <1>5, <2>2 DEF Answers
  <2> QED
    BY <2>1, <2>3, Responds, Zenon
<1>6. CASE g = <<>> /\ r # <<>>
  <2>1. CO!Respond(200, "direct", r)
    BY <1>6, Zenon DEF CO!FinishModel
  <2>2. r = P
    BY <1>3, <1>6, Zenon
  <2>3. Answers(F, P, q, 200, "direct", r)
    BY <1>3, <1>6, <2>2 DEF Answers
  <2> QED
    BY <2>1, <2>3, Responds, Zenon
<1>7. CASE g = <<>> /\ r = <<>>
  <2>1. CO!Respond(400, "none", <<>>)
    BY <1>7, Zenon DEF CO!FinishModel
  <2>2. F \in {"json_array", "prose"} /\ ~q.force => P = <<>>
    <3>1. F \in {"json_array", "prose"} => F # "unknown"
      OBVIOUS
    <3> QED
      BY <1>3, <1>7, <3>1, Zenon
  <2>3. Answers(F, P, q, 400, "none", <<>>)
    BY <1>4, <2>2 DEF Answers
  <2> QED
    BY <2>1, <2>3, Responds, Zenon
<1> QED
  BY <1>5, <1>6, <1>7

\* The records of a large upload are objects.
LEMMA StreamedAre == ASSUME body \in CO!Bodies PROVE CO!Only(CO!Trainable, CO!Streamed) \in Seq(CO!Objects)
<1>1. CO!Streamed \in Seq(CO!Objects)
  <2>1. CASE body.form = "lines"
    <3> PICK b : b = body.items
      OBVIOUS
    <3> PICK t : t = [i \in DOMAIN b |-> IF b[i] = "split" THEN "chat" ELSE b[i]]
      OBVIOUS
    <3>1. b \in Seq(CO!Lines)
      BY <2>1, BodyParts
    <3>2. "chat" \in CO!Lines
      BY DEF CO!Lines, CO!Objects, CO!Trainable
    <3>3. t \in Seq(CO!Lines)
      BY <3>1, <3>2
    <3>4. CO!Streamed = CO!Only(CO!Objects, t)
      BY <2>1, Zenon DEF CO!Streamed, CO!OnlyObjects
    <3> QED
      BY <3>3, <3>4, OnlyIs
  <2>2. CASE body.form # "lines"
    <3>1. CO!Streamed = <<>>
      BY <2>2, Zenon DEF CO!Streamed
    <3> QED
      BY <3>1
  <2> QED
    BY <2>1, <2>2
<1>2. CO!Only(CO!Trainable, CO!Streamed) \in Seq(CO!Trainable)
  BY <1>1, OnlyIs
<1>3. Seq(CO!Trainable) \subseteq Seq(CO!Objects)
  BY DEF CO!Objects
<1> QED
  BY <1>2, <1>3

\* A large upload is taken, and publishes what there is or nothing.
LEMMA ConvStreams == ASSUME CO!IInv, CO!LargeUpload PROVE CO!IInv'
<1> PICK F, P : F = CO!DetectFileFormat /\ P = CO!ParseKnown(CO!DetectFileFormat)
  OBVIOUS
<1> PICK q, s, r, g, c, a, v, d, n :
      /\ q = request /\ s = convPc /\ r = records /\ g = got /\ c = chunks /\ a = answer
      /\ v = preview /\ d = dataset /\ n = requests
  OBVIOUS
<1> PICK a1, d1 : a1 = answer' /\ d1 = dataset'
  OBVIOUS
<1> DEFINE Published(made) == [by |-> "large", path |-> "stream", records |-> made]
<1>1. body \in CO!Bodies /\ ConvIs(F, P, q, s, r, g, c, a, v, d, n)
  BY ConvOfState, Zenon
<1>2. /\ ConvTypes(q, s, r, g, c, a, d, n) /\ (s # "idle" => q.kind \in {"upload", "preview"})
      /\ ConvAsked(F, P, q, s, r) /\ ConvParsed(F, P, v, d)
  BY <1>1, Zenon DEF ConvIs
<1>3. /\ q.force \in BOOLEAN /\ r \in Seq(CO!Objects) /\ g \in Seq({"chat"}) /\ c \in 0 .. MaxChunks
      /\ n \in 0 .. MaxRequests /\ d.records \in Seq(CO!Objects)
      /\ q.kind \in {"none", "upload", "preview", "large"} /\ s \in {"idle", "convert", "model", "answer"}
      /\ MaxRequests \in Nat
  BY <1>2, DatasetsAssumption, Zenon DEF ConvTypes
<1>4. /\ requests' = n + 1 /\ n < MaxRequests /\ ext' = ext /\ body' = body /\ request' = q /\ convPc' = s
      /\ records' = r /\ got' = g /\ chunks' = c /\ preview' = v
  BY Zenon DEF CO!LargeUpload
<1>5. n + 1 \in 0 .. MaxRequests
  BY <1>3, <1>4
<1>6. /\ a1 \in {[CO!Nothing EXCEPT !.code = 202, !.path = "stream"], [CO!Nothing EXCEPT !.code = 422, !.path = "stream"]}
      /\ \/ d1 = d
         \/ \E made \in Seq(CO!Objects) : made # <<>> /\ d1 = Published(made)
  <2>1. CASE CO!IsJsonl(F)
    <3> PICK made : made = CO!Only(CO!Trainable, CO!Streamed)
      OBVIOUS
    <3>1. made \in Seq(CO!Objects)
      BY <1>1, StreamedAre
    <3>2. /\ a1 = [CO!Nothing EXCEPT !.code = 202, !.path = "stream"]
          /\ d1 = d \/ (made # <<>> /\ d1 = Published(made))
      BY <2>1, Zenon DEF CO!LargeUpload
    <3> QED
      BY <3>1, <3>2, Zenon
  <2>2. CASE ~CO!IsJsonl(F) /\ F = "csv"
    <3>1. PICK k \in 0 .. Len(body.items) :
            /\ a1 = [CO!Nothing EXCEPT !.code = 202, !.path = "stream"]
            /\ d1 = d \/ (k > 0 /\ d1 = Published(CO!Chats(k)))
      BY <2>2, Zenon DEF CO!LargeUpload
    <3>2. k \in Nat /\ CO!Chats(k) \in Seq({"chat"}) /\ Len(CO!Chats(k)) = k
      BY <1>1, BodyParts, ChatsAre
    <3>3. CO!Chats(k) \in Seq(CO!Objects) /\ (k > 0 => CO!Chats(k) # <<>>)
      BY <3>2 DEF CO!Objects, CO!Trainable
    <3> QED
      BY <3>1, <3>3, Zenon
  <2>3. CASE ~CO!IsJsonl(F) /\ F # "csv"
    BY <2>3, Zenon DEF CO!LargeUpload
  <2> QED
    BY <2>1, <2>2, <2>3
<1>7. a1.code \in {202, 422}
  <2>1. CASE a1 = [CO!Nothing EXCEPT !.code = 202, !.path = "stream"]
    BY <2>1, ZenonT(40) DEF CO!Nothing
  <2>2. CASE a1 = [CO!Nothing EXCEPT !.code = 422, !.path = "stream"]
    BY <2>2, ZenonT(40) DEF CO!Nothing
  <2> QED
    BY <1>6, <2>1, <2>2, Zenon
<1>8. d1 = d \/ (d1.path = "stream" /\ d1.records \in Seq(CO!Objects) /\ d1.records # <<>>)
  BY <1>6
<1>9. a1.code \in {0, 200, 202, 400, 409, 413, 422, 500} /\ a1.code # 200 /\ a1.code # 400
  BY <1>7
<1>10. ConvTypes(q, s, r, g, c, a1, d1, n + 1)
  <2>1. d1.records \in Seq(CO!Objects)
    BY <1>3, <1>8, Zenon
  <2> QED
    BY <1>3, <1>5, <1>9, <2>1, Zenon DEF ConvTypes
<1>11. ConvSurvives(F, P, a1)
  BY <1>9, Zenon DEF ConvSurvives
<1>12. ConvParsed(F, P, v, d1)
  <2>1. CASE d1 = d
    BY <1>2, <2>1, Zenon
  <2>2. CASE d1.path = "stream" /\ d1.records # <<>>
    <3>1. d1.path # "direct"
      BY <2>2
    <3> QED
      BY <1>2, <2>2, <3>1, Zenon DEF ConvParsed
  <2> QED
    BY <1>8, <2>1, <2>2
<1>13. ConvIs(F, P, q, s, r, g, c, a1, v, d1, n + 1)
  BY <1>2, <1>10, <1>11, <1>12, Zenon DEF ConvIs
<1> QED
  BY <1>1, <1>4, <1>13, ConvOfState, Zenon

\* Every step of the conversion keeps the invariant.
LEMMA ConvStep == CO!IInv /\ [CO!Next]_(CO!vars) => CO!IInv'
<1> SUFFICES ASSUME CO!IInv, [CO!Next]_(CO!vars) PROVE CO!IInv'
  OBVIOUS
<1>1. CASE UNCHANGED CO!vars
  <2>1. /\ ext' = ext /\ body' = body /\ request' = request /\ convPc' = convPc /\ records' = records
        /\ got' = got /\ chunks' = chunks /\ answer' = answer /\ preview' = preview
        /\ dataset' = dataset /\ requests' = requests
    BY <1>1 DEF CO!vars
  <2> QED
    BY <2>1, ConvOfState, Zenon
<1> QED
  BY <1>1, ConvMoves, ConvRefuses, ConvReads, ConvFinishes, ConvStreams DEF CO!Next

\* What the invariant says of what is read.
LEMMA ConvRead == CO!IInv => CO!UploadIsRead
<1> SUFFICES ASSUME CO!IInv PROVE CO!UploadIsRead
  OBVIOUS
<1>1. CO!DirectIsParsed /\ CO!DirectSurvives /\ body \in CO!Bodies
  BY DEF CO!IInv
<1>2. CO!ReadAlike
  <2> SUFFICES ASSUME dataset # CO!NoDataset PROVE
        /\ dataset.records # <<>>
        /\ (dataset.path = "direct" /\ CO!IsJsonl(CO!DetectFileFormat) /\ "split" \notin CO!Range(body.items))
             => dataset.records = CO!Streamed
    BY Zenon DEF CO!ReadAlike
  <2>1. dataset.records # <<>>
    BY <1>1, Zenon DEF CO!DirectIsParsed
  <2>2. ASSUME dataset.path = "direct", CO!IsJsonl(CO!DetectFileFormat), "split" \notin CO!Range(body.items)
        PROVE  dataset.records = CO!Streamed
    <3>1. CO!DetectFileFormat # "csv"
      BY <2>2 DEF CO!IsJsonl
    <3>2. dataset.records = CO!ParseKnown(CO!DetectFileFormat)
      BY <1>1, <2>2, <3>1, Zenon DEF CO!DirectIsParsed
    <3> QED
      BY <1>1, <2>2, <3>2, ReadDirectly, Zenon
  <2> QED
    BY <2>1, <2>2
<1>3. CO!PreviewPredicts
  BY <1>1, Zenon DEF CO!DirectIsParsed, CO!PreviewPredicts
<1> QED
  BY <1>1, <1>2, <1>3 DEF CO!UploadIsRead
=============================================================================
