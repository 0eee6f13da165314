------------------------- MODULE PrepFiles_proofs -------------------------
(***************************************************************************)
(* Proofs for any number of threads, any size of blocks, any declared      *)
(* usages and any number of runs: as long as no seek meets the rest of a   *)
(* block, no element is used twice in a run; and if tapes use what they    *)
(* declare, pruning removes all that was used and little else.             *)
(*                                                                         *)
(* The invariant gives every tape that has been started and has not run a  *)
(* share of the elements.  Shares are disjoint, since the positions of     *)
(* run_tapes are partial sums of what the tapes declare, and what has been *)
(* used is behind the start, before the position of the main tape and in   *)
(* nobody's share.                                                         *)
(***************************************************************************)
EXTENDS PrepFiles, SequenceTheorems, FiniteSetTheorems, WellFoundedInduction, TLAPS

---------------------------------------------------------------------------
(* Sums: what the fold of Total computes, by induction on finite sets.     *)

(* One choice of an element for every set, as the fold makes it.         *)
Pick(s) == CHOOSE e \in s : TRUE
Table(g, D, f) ==
  g = [s \in D |-> IF s = {} THEN 0 ELSE f[Pick(s)] + g[s \ {Pick(s)}]]

(* g[T] is the sum of f over T, for every subset T of S.                 *)
Sums(g, S, f) == Table(g, SUBSET S, f)

(* Of every finite set such a table exists.                              *)
LEMMA TableExists ==
  ASSUME NEW S, IsFiniteSet(S), NEW f
  PROVE  \E g : Table(g, SUBSET S, f)
  <1> DEFINE Part(n) == {T \in SUBSET S : Cardinality(T) <= n}
             Bad == {n \in Nat : ~ \E g : Table(g, Part(n), f)}
  <1>1. \A T \in SUBSET S : /\ IsFiniteSet(T) /\ Cardinality(T) \in Nat
                            /\ Cardinality(T) <= Cardinality(S)
    BY FS_Subset, FS_CardinalityType
  <1>2. ASSUME NEW n \in Bad, \A k \in Bad : ~(<<k, n>> \in OpToRel(<, Nat))
        PROVE  FALSE
    <2>1. CASE n = 0
      <3>1. \A T \in Part(0) : T = {}
        BY <1>1, FS_EmptySet
      <3>2. Table([s \in Part(0) |-> 0], Part(0), f)
        BY <3>1 DEF Table
      <3> QED
        BY <2>1, <3>2
    <2>2. CASE n # 0
      <3>1. n - 1 \in Nat /\ <<n - 1, n>> \in OpToRel(<, Nat)
        BY <2>2 DEF OpToRel
      <3>2. PICK g : Table(g, Part(n - 1), f)
        BY <3>1, <1>2
      <3> DEFINE h == [s \in Part(n) |->
                         IF s = {} THEN 0 ELSE f[Pick(s)] + g[s \ {Pick(s)}]]
      <3>3. ASSUME NEW s \in Part(n), s # {}
            PROVE  g[s \ {Pick(s)}] = h[s \ {Pick(s)}]
        <4>1. Pick(s) \in s
          BY <3>3 DEF Pick
        <4>2. Cardinality(s \ {Pick(s)}) = Cardinality(s) - 1
          BY <4>1, <1>1, FS_RemoveElement
        <4>3. s \ {Pick(s)} \in Part(n - 1) /\ s \ {Pick(s)} \in Part(n)
          BY <4>2, <1>1
        <4> QED
          BY <4>3, <3>2 DEF Table
      <3>4. Table(h, Part(n), f)
        BY <3>3 DEF Table
      <3> QED
        BY <3>4
    <2> QED
      BY <2>1, <2>2
  <1>3. Bad = {}
    <2> SUFFICES ASSUME Bad # {} PROVE FALSE
      OBVIOUS
    <2>1. PICK n \in Bad : \A k \in Bad : ~(<<k, n>> \in OpToRel(<, Nat))
      BY NatLessThanWellFounded, WFMin
    <2> QED
      BY <2>1, <1>2
  <1>4. Part(Cardinality(S)) = SUBSET S /\ Cardinality(S) \in Nat
    BY <1>1, FS_CardinalityType
  <1> QED
    BY <1>3, <1>4

(* Total reads the sum of the whole set from it.                         *)
LEMMA TotalTable ==
  ASSUME NEW S, IsFiniteSet(S), NEW f
  PROVE  \E g : Table(g, SUBSET S, f) /\ Total(f, S) = g[S]
  <1>1. \E g : Table(g, SUBSET S, f)
    BY TableExists
  <1> QED
    BY <1>1 DEF Total, FoldFunctionOnSet, MapThenFoldSet, Table, Pick

(* Removing an element makes a set smaller: the well-founded order of all  *)
(* inductions over the subsets of a finite set.                            *)
LEMMA Smallest ==
  ASSUME NEW S, IsFiniteSet(S), NEW B, B \subseteq SUBSET S, B # {}
  PROVE  \E T \in B : \A e \in T : T \ {e} \notin B
  <1> DEFINE Sizes == {n \in Nat : \E T \in B : Cardinality(T) = n}
  <1>1. \A T \in B : IsFiniteSet(T) /\ Cardinality(T) \in Nat
    BY FS_Subset, FS_CardinalityType
  <1>2. Sizes # {} /\ Sizes \subseteq Nat
    BY <1>1
  <1>3. PICK n \in Sizes : \A k \in Sizes : ~(<<k, n>> \in OpToRel(<, Nat))
    <2> HIDE DEF Sizes
    <2> QED
      BY <1>2, NatLessThanWellFounded, WFMin
  <1>4. PICK T \in B : Cardinality(T) = n
    BY <1>3
  <1>5. ASSUME NEW e \in T, T \ {e} \in B PROVE FALSE
    <2>1. Cardinality(T \ {e}) = n - 1 /\ Cardinality(T \ {e}) \in Nat
      BY <1>1, <1>4, <1>5, FS_RemoveElement
    <2>2. n - 1 \in Sizes /\ <<n - 1, n>> \in OpToRel(<, Nat)
      BY <1>5, <2>1 DEF OpToRel
    <2> QED
      BY <1>3, <2>2
  <1> QED
    BY <1>4, <1>5

(* There is only one, so parts of the sum are sums as well.              *)
LEMMA TablesAgree ==
  ASSUME NEW S, IsFiniteSet(S), NEW U, U \subseteq S, NEW f,
         NEW g, Sums(g, S, f), NEW h, Sums(h, U, f)
  PROVE  \A T \in SUBSET U : g[T] = h[T]
  <1> DEFINE B == {T \in SUBSET U : g[T] # h[T]}
  <1> SUFFICES ASSUME B # {} PROVE FALSE
    OBVIOUS
  <1>1. IsFiniteSet(U)
    BY FS_Subset
  <1>2. B \subseteq SUBSET U
    OBVIOUS
  <1> HIDE DEF B
  <1>3. PICK T \in B : \A e \in T : T \ {e} \notin B
    BY <1>1, <1>2, Smallest
  <1> USE DEF B
  <1>4. /\ g[T] = IF T = {} THEN 0 ELSE f[Pick(T)] + g[T \ {Pick(T)}]
        /\ h[T] = IF T = {} THEN 0 ELSE f[Pick(T)] + h[T \ {Pick(T)}]
    <2>1. T \in SUBSET S /\ T \in SUBSET U
      OBVIOUS
    <2> QED
      BY <2>1 DEF Table, Sums
  <1>5. CASE T = {}
    BY <1>4, <1>5
  <1>6. CASE T # {}
    <2>1. Pick(T) \in T
      BY <1>6 DEF Pick
    <2>2. g[T \ {Pick(T)}] = h[T \ {Pick(T)}]
      BY <1>3, <2>1
    <2> QED
      BY <1>4, <1>6, <2>2
  <1> QED
    BY <1>5, <1>6

(* What the fold of Total computes.                                        *)
LEMMA TotalPick ==
  ASSUME NEW S, IsFiniteSet(S), NEW f
  PROVE  Total(f, S) = IF S = {} THEN 0 ELSE f[Pick(S)] + Total(f, S \ {Pick(S)})
  <1>1. PICK g : Table(g, SUBSET S, f) /\ Total(f, S) = g[S]
    BY TotalTable
  <1>2. Total(f, S) = IF S = {} THEN 0 ELSE f[Pick(S)] + g[S \ {Pick(S)}]
    <2>1. S \in SUBSET S
      OBVIOUS
    <2> QED
      BY <1>1, <2>1 DEF Table
  <1>3. PICK U \in SUBSET S : U = S \ {Pick(S)}
    OBVIOUS
  <1>4. PICK h : Table(h, SUBSET U, f) /\ Total(f, U) = h[U]
    <2>1. IsFiniteSet(U)
      BY FS_Subset
    <2> QED
      BY <2>1, TotalTable
  <1>5. g[U] = h[U]
    <2>1. U \subseteq S /\ U \in SUBSET U
      OBVIOUS
    <2>2. \A T \in SUBSET U : g[T] = h[T]
      <3>1. Sums(g, S, f) /\ Sums(h, U, f) /\ IsFiniteSet(S)
        BY <1>1, <1>4 DEF Sums
      <3> QED
        BY <2>1, <3>1, TablesAgree
    <2> QED
      BY <2>1, <2>2
  <1> QED
    BY <1>2, <1>3, <1>4, <1>5

(* Sums of natural numbers are natural numbers.                          *)
LEMMA TotalNat ==
  ASSUME NEW S, IsFiniteSet(S), NEW f, \A e \in S : f[e] \in Nat
  PROVE  \A T \in SUBSET S : Total(f, T) \in Nat
  <1> DEFINE B == {T \in SUBSET S : Total(f, T) \notin Nat}
  <1> SUFFICES ASSUME B # {} PROVE FALSE
    OBVIOUS
  <1>1. B \subseteq SUBSET S
    OBVIOUS
  <1> HIDE DEF B
  <1>2. PICK T \in B : \A e \in T : T \ {e} \notin B
    BY <1>1, Smallest
  <1> USE DEF B
  <1>3. Total(f, T) = IF T = {} THEN 0 ELSE f[Pick(T)] + Total(f, T \ {Pick(T)})
    <2>1. IsFiniteSet(T)
      BY FS_Subset
    <2> QED
      BY <2>1, TotalPick
  <1>4. ASSUME T # {} PROVE Total(f, T \ {Pick(T)}) \in Nat /\ f[Pick(T)] \in Nat
    <2>1. Pick(T) \in T
      BY <1>4 DEF Pick
    <2> QED
      BY <1>2, <2>1
  <1> QED
    BY <1>3, <1>4

LEMMA TotalEmpty == \A f : Total(f, {}) = 0
  BY TotalPick, FS_EmptySet

(* Whichever element is added last.                                        *)
LEMMA TotalRemove ==
  ASSUME NEW S, IsFiniteSet(S), NEW f, \A e \in S : f[e] \in Nat,
         NEW T1 \in SUBSET S, NEW e1 \in T1
  PROVE  Total(f, T1) = f[e1] + Total(f, T1 \ {e1})
  <1> DEFINE B == {T \in SUBSET S : \E e \in T : Total(f, T) # f[e] + Total(f, T \ {e})}
  <1> SUFFICES ASSUME B # {} PROVE FALSE
    OBVIOUS
  <1>1. B \subseteq SUBSET S
    OBVIOUS
  <1> HIDE DEF B
  <1>2. PICK T \in B : \A e \in T : T \ {e} \notin B
    BY <1>1, Smallest
  <1>3. T \in SUBSET S /\ IsFiniteSet(T)
    BY <1>1, FS_Subset
  <1>4. PICK e \in T : Total(f, T) # f[e] + Total(f, T \ {e})
    BY DEF B
  <1>p. PICK p \in T : p = Pick(T)
    BY <1>4 DEF Pick
  <1>5. Total(f, T) = f[p] + Total(f, T \ {p})
    BY <1>3, <1>4, <1>p, TotalPick
  <1>6. p # e
    BY <1>4, <1>5
  <1>7. Total(f, T \ {p}) = f[e] + Total(f, (T \ {p}) \ {e})
    <2>1. T \ {p} \notin B /\ T \ {p} \in SUBSET S /\ e \in T \ {p}
      BY <1>2, <1>3, <1>6
    <2> QED
      BY <2>1 DEF B
  <1>8. Total(f, T \ {e}) = f[p] + Total(f, (T \ {e}) \ {p})
    <2>1. T \ {e} \notin B /\ T \ {e} \in SUBSET S /\ p \in T \ {e}
      BY <1>2, <1>3, <1>6
    <2> QED
      BY <2>1 DEF B
  <1>9. (T \ {p}) \ {e} = (T \ {e}) \ {p} /\ (T \ {p}) \ {e} \in SUBSET S
    BY <1>3
  <1>10. Total(f, (T \ {p}) \ {e}) \in Nat /\ f[e] \in Nat /\ f[p] \in Nat
    BY <1>3, <1>9, TotalNat
  <1> DEFINE w == Total(f, (T \ {p}) \ {e})
  <1>11. /\ Total(f, T) = f[p] + (f[e] + w) /\ Total(f, T \ {e}) = f[p] + w
         /\ w \in Nat /\ Total(f, T) # f[e] + Total(f, T \ {e})
    BY <1>4, <1>5, <1>7, <1>8, <1>9, <1>10
  <1> HIDE DEF w
  <1> QED
    BY <1>10, <1>11

(* A part of a sum of natural numbers.                                     *)
LEMMA TotalPart ==
  ASSUME NEW S, IsFiniteSet(S), NEW f, \A e \in S : f[e] \in Nat
  PROVE  \A T \in SUBSET S : \A U \in SUBSET T : Total(f, U) <= Total(f, T)
  <1> DEFINE B == {T \in SUBSET S : \E U \in SUBSET T : ~(Total(f, U) <= Total(f, T))}
  <1> SUFFICES ASSUME B # {} PROVE FALSE
    OBVIOUS
  <1>1. B \subseteq SUBSET S
    OBVIOUS
  <1> HIDE DEF B
  <1>2. PICK T \in B : \A e \in T : T \ {e} \notin B
    BY <1>1, Smallest
  <1>3. T \in SUBSET S
    BY <1>1
  <1>4. PICK U \in SUBSET T : ~(Total(f, U) <= Total(f, T))
    BY DEF B
  <1>5. U \in SUBSET S /\ Total(f, U) \in Nat /\ Total(f, T) \in Nat
    BY <1>3, TotalNat
  <1>6. U # T
    BY <1>4, <1>5
  <1>7. PICK e \in T : e \notin U
    BY <1>6
  <1>8. Total(f, U) <= Total(f, T \ {e})
    <2>1. T \ {e} \notin B /\ T \ {e} \in SUBSET S /\ U \in SUBSET (T \ {e})
      BY <1>2, <1>3, <1>7
    <2> QED
      BY <2>1 DEF B
  <1>9. Total(f, T) = f[e] + Total(f, T \ {e})
    BY <1>3, TotalRemove
  <1>10. f[e] \in Nat /\ Total(f, T \ {e}) \in Nat
    <2>1. T \ {e} \in SUBSET S /\ e \in S
      BY <1>3
    <2> QED
      BY <2>1, TotalNat
  <1> QED
    BY <1>4, <1>5, <1>8, <1>9, <1>10

(* Adding to some of the terms.                                            *)
LEMMA TotalAdd ==
  ASSUME NEW S, IsFiniteSet(S), NEW V \in SUBSET S,
         NEW f, \A e \in S : f[e] \in Nat, NEW g, \A e \in V : g[e] \in Nat,
         NEW h, \A e \in S : h[e] = IF e \in V THEN f[e] + g[e] ELSE f[e]
  PROVE  Total(h, S) = Total(f, S) + Total(g, V)
  <1> DEFINE B == {T \in SUBSET S : Total(h, T) # Total(f, T) + Total(g, V \cap T)}
  <1>0. V \cap S = V /\ S \in SUBSET S
    OBVIOUS
  <1>a. IsFiniteSet(V) /\ (\A e \in S : h[e] \in Nat)
    BY FS_Subset
  <1> SUFFICES ASSUME B # {} PROVE FALSE
    OBVIOUS
  <1>1. B \subseteq SUBSET S
    OBVIOUS
  <1> HIDE DEF B
  <1>2. PICK T \in B : \A e \in T : T \ {e} \notin B
    BY <1>1, Smallest
  <1>3. T \in SUBSET S /\ Total(h, T) # Total(f, T) + Total(g, V \cap T)
    BY DEF B
  <1>4. T # {}
    <2>1. Total(h, {}) = 0 /\ Total(f, {}) = 0 /\ Total(g, {}) = 0
      BY TotalEmpty
    <2>2. V \cap {} = {}
      OBVIOUS
    <2> QED
      BY <1>3, <2>1, <2>2
  <1>5. PICK e \in T : TRUE
    BY <1>4
  <1>6. Total(h, T \ {e}) = Total(f, T \ {e}) + Total(g, V \cap (T \ {e}))
    <2>1. T \ {e} \notin B /\ T \ {e} \in SUBSET S
      BY <1>2, <1>3
    <2> QED
      BY <2>1 DEF B
  <1>7. Total(h, T) = h[e] + Total(h, T \ {e}) /\ Total(f, T) = f[e] + Total(f, T \ {e})
    BY <1>3, <1>a, TotalRemove
  <1>8. /\ f[e] \in Nat /\ h[e] = (IF e \in V THEN f[e] + g[e] ELSE f[e])
        /\ (e \in V => g[e] \in Nat)
        /\ Total(f, T \ {e}) \in Nat /\ Total(g, V \cap (T \ {e})) \in Nat
    <2>1. T \ {e} \in SUBSET S /\ V \cap (T \ {e}) \in SUBSET V /\ e \in S
      BY <1>3
    <2> QED
      BY <2>1, <1>a, TotalNat
  <1>9. Total(g, V \cap T) = (IF e \in V THEN g[e] ELSE 0) + Total(g, V \cap (T \ {e}))
    <2>1. CASE e \in V
      <3>1. V \cap T \in SUBSET V /\ e \in V \cap T /\ (V \cap T) \ {e} = V \cap (T \ {e})
        BY <2>1
      <3>2. Total(g, V \cap T) = g[e] + Total(g, (V \cap T) \ {e})
        BY <3>1, <1>a, TotalRemove
      <3> QED
        BY <2>1, <3>1, <3>2
    <2>2. CASE e \notin V
      <3>1. V \cap T = V \cap (T \ {e})
        BY <2>2
      <3> QED
        BY <2>2, <3>1, <1>8
    <2> QED
      BY <2>1, <2>2
  <1> DEFINE k == Total(f, T \ {e})
             l == Total(g, V \cap (T \ {e}))
  <1>10. /\ Total(h, T) = h[e] + (k + l) /\ Total(f, T) = f[e] + k /\ k \in Nat /\ l \in Nat
         /\ Total(g, V \cap T) = (IF e \in V THEN g[e] ELSE 0) + l
    BY <1>6, <1>7, <1>8, <1>9
  <1> HIDE DEF k, l
  <1> QED
    BY <1>3, <1>8, <1>10

---------------------------------------------------------------------------
(* Readers: what a reader at a position of the file gets.                  *)

(* The w elements from position p of the file on.                          *)
Stretch(p, w) == [i \in 1 .. w |-> start + p + i - 1]

(* A reader at position p of the file, with the next k elements at hand.   *)
Holds(r, p, k) == r = [next |-> p + k, rest |-> Stretch(p, k)]
At(r, p) == \E k \in Nat : Holds(r, p, k)

(* The types of the constants.                                           *)
LEMMA SizeFacts ==
  /\ Block \in Nat \ {0} /\ MaxUse \in Nat /\ MaxRuns \in Nat /\ IsFiniteSet(Helpers)
  /\ Helpers \subseteq Nat \ {0} /\ 0 \in Threads /\ 0 \notin Helpers
  /\ \A t \in Helpers : t \in Threads
  /\ Declared \subseteq Nat
  BY PrepFilesAssumption DEF Threads

(* Whole blocks cover what is missing.                                     *)
LEMMA BlocksCover ==
  ASSUME NEW r, NEW k \in Nat, Len(r.rest) = k, NEW n \in Nat
  PROVE  Blocks(r, n) \in Nat /\ Blocks(r, n) * Block \in Nat /\ n <= k + Blocks(r, n) * Block
  <1>0. Block \in Nat \ {0}
    BY SizeFacts
  <1>1. CASE n <= k
    BY <1>0, <1>1 DEF Blocks
  <1>2. CASE ~(n <= k)
    <2> DEFINE a == n - k + Block - 1
               q == a \div Block
    <2>1. a \in Nat /\ a >= Block
      BY <1>0, <1>2
    <2>2. Blocks(r, n) = q
      BY <1>2 DEF Blocks
    <2> HIDE DEF a
    <2>3. q \in Int /\ a = q * Block + (a % Block) /\ a % Block \in 0 .. Block - 1
      BY <1>0, <2>1
    <2>4. q >= 0
      <3>1. q \in Nat
        BY <1>0, <2>1
      <3> QED
        BY <3>1
    <2> DEFINE m == a % Block
    <2>5. a = q * Block + m /\ m \in 0 .. Block - 1 /\ q \in Nat
      BY <2>3, <2>4
    <2> HIDE DEF q, m
    <2>6. q * Block \in Nat
      BY <1>0, <2>5
    <2>7. q * Block >= a - (Block - 1)
      BY <1>0, <2>1, <2>5, <2>6
    <2> QED
      BY <1>0, <2>2, <2>5, <2>6, <2>7 DEF a
  <1> QED
    BY <1>1, <1>2

(* Ahead of a reader are the elements from its position on.                *)
LEMMA AheadOf ==
  ASSUME start \in Nat, NEW p \in Nat, NEW k \in Nat, NEW r, Holds(r, p, k), NEW n \in Nat
  PROVE  \E w \in Nat : /\ w = k + Blocks(r, n) * Block /\ n <= w
                        /\ Ahead(r, n) = Stretch(p, w)
                        /\ r.next + Blocks(r, n) * Block = p + w
  <1> DEFINE B == Blocks(r, n) * Block
             c == [i \in 1 .. B |-> start + r.next + i - 1]
  <1>1. r.next = p + k /\ r.rest = [i \in 1 .. k |-> start + p + i - 1]
    BY DEF Holds, Stretch
  <1>2. Len(r.rest) = k /\ r.rest \in Seq(Int)
    BY <1>1
  <1>3. B \in Nat /\ n <= k + B
    BY <1>2, BlocksCover
  <1> HIDE DEF B
  <1>4. c \in Seq(Int) /\ Len(c) = B
    BY <1>1, <1>3
  <1>5. Ahead(r, n) = r.rest \o c
    BY DEF Ahead, B
  <1>6. /\ Ahead(r, n) \in Seq(Int) /\ Len(Ahead(r, n)) = k + B
        /\ \A i \in 1 .. k + B : Ahead(r, n)[i] = IF i <= k THEN r.rest[i] ELSE c[i - k]
    <2>1. r.rest \in Seq(Int) /\ c \in Seq(Int) /\ Len(r.rest) = k /\ Len(c) = B
      BY <1>2, <1>4
    <2> HIDE DEF c
    <2>2. /\ r.rest \o c \in Seq(Int) /\ Len(r.rest \o c) = Len(r.rest) + Len(c)
          /\ \A i \in 1 .. Len(r.rest) + Len(c) :
               (r.rest \o c)[i] = IF i <= Len(r.rest) THEN r.rest[i] ELSE c[i - Len(r.rest)]
      BY <2>1, ConcatProperties
    <2> QED
      BY <1>5, <2>1, <2>2
  <1>7. \A i \in 1 .. k + B : Ahead(r, n)[i] = start + p + i - 1
    <2> SUFFICES ASSUME NEW i \in 1 .. k + B PROVE Ahead(r, n)[i] = start + p + i - 1
      OBVIOUS
    <2>1. CASE i <= k
      <3>1. i \in 1 .. k
        BY <1>3, <2>1
      <3>2. r.rest[i] = start + p + i - 1
        BY <1>1, <3>1
      <3> QED
        BY <1>6, <2>1, <3>2
    <2>2. CASE ~(i <= k)
      <3>1. i - k \in 1 .. B
        BY <1>3, <2>2
      <3>2. c[i - k] = start + r.next + (i - k) - 1
        BY <3>1
      <3> QED
        BY <1>1, <1>3, <1>6, <2>2, <3>2
    <2> QED
      BY <2>1, <2>2
  <1>8. Ahead(r, n) = [i \in 1 .. k + B |-> start + p + i - 1]
    <2>1. Ahead(r, n) = [i \in 1 .. k + B |-> Ahead(r, n)[i]]
      BY <1>3, <1>6
    <2> QED
      BY <1>7, <2>1
  <1>9. k + B \in Nat /\ r.next + B = p + (k + B)
    BY <1>1, <1>3
  <1> QED
    BY <1>3, <1>8, <1>9 DEF B, Stretch

(* It gets the elements from its position on, and goes on behind them.     *)
LEMMA Reading ==
  ASSUME start \in Nat, NEW p \in Nat, NEW r, At(r, p), NEW n \in Nat
  PROVE  Got(r, n) = Stretch(p, n) /\ At(After(r, n), p + n)
  <1>1. PICK k \in Nat : Holds(r, p, k)
    BY DEF At
  <1>2. PICK w \in Nat : /\ n <= w /\ Ahead(r, n) = Stretch(p, w)
                         /\ r.next + Blocks(r, n) * Block = p + w
    <2>1. \E w \in Nat : /\ w = k + Blocks(r, n) * Block /\ n <= w
                         /\ Ahead(r, n) = Stretch(p, w)
                         /\ r.next + Blocks(r, n) * Block = p + w
      BY <1>1, AheadOf
    <2> QED
      BY <2>1
  <1>3. Ahead(r, n) \in Seq(Int) /\ Len(Ahead(r, n)) = w
    BY <1>2 DEF Stretch
  <1>4. Got(r, n) = Stretch(p, n)
    <2>1. /\ SubSeq(Ahead(r, n), 1, n) = [i \in 1 .. n |-> Ahead(r, n)[i]]
      BY <1>2, <1>3
    <2>2. \A i \in 1 .. n : Ahead(r, n)[i] = start + p + i - 1
      BY <1>2 DEF Stretch
    <2> QED
      BY <2>1, <2>2 DEF Got, Stretch
  <1>5. SubSeq(Ahead(r, n), n + 1, w) = [i \in 1 .. w - n |-> start + (p + n) + i - 1]
    <2>1. SubSeq(Ahead(r, n), n + 1, w) = [i \in 1 .. w - n |-> Ahead(r, n)[i + n]]
      BY <1>2, <1>3
    <2>2. \A i \in 1 .. w - n : Ahead(r, n)[i + n] = start + (p + n) + i - 1
      <3> SUFFICES ASSUME NEW i \in 1 .. w - n
                   PROVE  Ahead(r, n)[i + n] = start + (p + n) + i - 1
        OBVIOUS
      <3>1. i + n \in 1 .. w
        BY <1>2
      <3>2. Ahead(r, n)[i + n] = start + p + (i + n) - 1
        BY <1>2, <3>1 DEF Stretch
      <3> QED
        BY <3>2
    <2> QED
      BY <2>1, <2>2
  <1>6. After(r, n) = [next |-> p + w, rest |-> SubSeq(Ahead(r, n), n + 1, w)]
    BY <1>2, <1>3 DEF After
  <1>7. Holds(After(r, n), p + n, w - n) /\ w - n \in Nat
    <2>1. p + w = (p + n) + (w - n) /\ w - n \in Nat
      BY <1>2
    <2> QED
      BY <1>5, <1>6, <2>1 DEF Holds, Stretch
  <1> QED
    BY <1>4, <1>7 DEF At

(* Seeking goes to the position, unless there is the rest of a block.      *)
LEMMA Seeking ==
  ASSUME start \in Nat, NEW p \in Nat, NEW r, At(r, p), ~MeetsRest(r), NEW n \in Nat
  PROVE  At(Seek(r, n), n)
  <1>0. Block \in Nat \ {0}
    BY SizeFacts
  <1>1. PICK k \in Nat : Holds(r, p, k)
    BY DEF At
  <1>2. CASE ~setup.edabits
    <2>1. Seek(r, n) = [next |-> n, rest |-> <<>>]
      BY <1>2 DEF Seek
    <2>2. Holds(Seek(r, n), n, 0)
      <3>1. n + 0 = n /\ <<>> = [i \in 1 .. 0 |-> start + n + i - 1]
        OBVIOUS
      <3> QED
        BY <2>1, <3>1 DEF Holds, Stretch
    <2> QED
      BY <2>2 DEF At
  <1>3. CASE setup.edabits
    <2> DEFINE m == n % Block
               r0 == [r EXCEPT !.next = n - m]
    <2>1. m \in Nat /\ n - m \in Nat
      <3>1. m \in 0 .. Block - 1 /\ n = (n \div Block) * Block + m /\ n \div Block \in Nat
        BY <1>0
      <3> HIDE DEF m
      <3> DEFINE q == n \div Block
      <3>2. n = q * Block + m /\ q \in Nat
        BY <3>1
      <3> HIDE DEF q
      <3>3. q * Block \in Nat
        BY <1>0, <3>2
      <3> QED
        BY <1>0, <3>1, <3>2, <3>3
    <2>2. r.rest = <<>>
      BY <1>3 DEF MeetsRest
    <2>3. Seek(r, n) = After(r0, m)
      BY <1>3 DEF Seek
    <2> HIDE DEF m
    <2>4. r = [next |-> r.next, rest |-> r.rest]
      BY <1>1 DEF Holds, Stretch
    <2>5. r0 = [next |-> n - m, rest |-> <<>>]
      BY <2>2, <2>4
    <2>6. At(r0, n - m)
      <3>1. (n - m) + 0 = n - m /\ <<>> = [i \in 1 .. 0 |-> start + (n - m) + i - 1]
        BY <2>1
      <3>2. Holds(r0, n - m, 0)
        BY <2>5, <3>1 DEF Holds, Stretch
      <3> QED
        BY <3>2 DEF At
    <2> HIDE DEF r0
    <2>7. At(After(r0, m), (n - m) + m)
      BY <2>1, <2>6, Reading
    <2> QED
      BY <2>1, <2>3, <2>7
  <1> QED
    BY <1>2, <1>3

(* What prune removes: as much as was used, up to the end of a block.      *)
LEMMA Pruned ==
  ASSUME NEW n \in Nat
  PROVE  /\ Seek(AtFront, n).next \in Nat /\ n <= Seek(AtFront, n).next
         /\ Seek(AtFront, n).next - n <= (IF setup.edabits THEN Block - 1 ELSE 0)
  <1>0. Block \in Nat \ {0}
    BY SizeFacts
  <1>1. CASE ~setup.edabits
    BY <1>1 DEF Seek
  <1>2. CASE setup.edabits
    <2> DEFINE m == n % Block
               r0 == [next |-> n - m, rest |-> <<>>]
               b == Blocks(r0, m) * Block
    <2>1. m \in 0 .. Block - 1 /\ n - m \in Nat
      <3>1. m \in 0 .. Block - 1 /\ n = (n \div Block) * Block + m /\ n \div Block \in Nat
        BY <1>0
      <3> HIDE DEF m
      <3> DEFINE q == n \div Block
      <3>2. n = q * Block + m /\ q \in Nat
        BY <3>1
      <3> HIDE DEF q
      <3>3. q * Block \in Nat
        BY <1>0, <3>2
      <3> QED
        BY <1>0, <3>1, <3>2, <3>3
    <2>2. Seek(AtFront, n) = After(r0, m)
      BY <1>2 DEF Seek, AtFront
    <2> HIDE DEF m
    <2>3. Seek(AtFront, n).next = (n - m) + b
      BY <2>2 DEF After
    <2>4. b = IF m = 0 THEN 0 ELSE Block
      <3>1. Len(r0.rest) = 0
        OBVIOUS
      <3>2. CASE m = 0
        BY <3>1, <3>2, <1>0 DEF Blocks
      <3>3. CASE m # 0
        <4>1. Blocks(r0, m) = (m - 0 + Block - 1) \div Block
          BY <3>1, <3>3, <2>1 DEF Blocks
        <4>2. m - 0 + Block - 1 = 1 * Block + (m - 1) /\ m - 1 \in 0 .. Block - 1
          BY <2>1, <3>3, <1>0
        <4>3. ASSUME NEW e \in 0 .. Block - 1 PROVE (1 * Block + e) \div Block = 1
          BY <1>0
        <4>4. Blocks(r0, m) = 1
          BY <4>1, <4>2, <4>3
        <4> QED
          BY <3>3, <4>4, <1>0
      <3> QED
        BY <3>2, <3>3
    <2> HIDE DEF b
    <2> QED
      BY <1>0, <1>2, <2>1, <2>3, <2>4
  <1> QED
    BY <1>1, <1>2

(* The elements of a range are used once more, the others are not.         *)
LEMMA Using ==
  ASSUME NEW first \in Int, NEW n \in Nat, used \in [Elements -> Nat],
         Use([i \in 1 .. n |-> first + i - 1])
  PROVE  /\ used' \in [Elements -> Nat]
         /\ \A e \in Elements : used'[e] = used[e] + (IF e \in first .. first + n - 1 THEN 1 ELSE 0)
  <1> DEFINE c == [i \in 1 .. n |-> first + i - 1]
             P(e) == {i \in DOMAIN c : c[i] = e}
  <1>0. \A e \in Elements : e \in Int
    BY DEF Elements
  <1>1. ASSUME NEW e \in Elements
        PROVE  Cardinality(P(e)) = IF e \in first .. first + n - 1 THEN 1 ELSE 0
    <2>0. e \in Int
      BY <1>0
    <2>1. CASE e \in first .. first + n - 1
      <3>1. P(e) = {e - first + 1}
        <4>1. \A i \in 1 .. n : first + i - 1 = e <=> i = e - first + 1
          BY <2>0
        <4>2. e - first + 1 \in 1 .. n
          BY <2>0, <2>1
        <4>3. P(e) = {i \in 1 .. n : first + i - 1 = e}
          OBVIOUS
        <4> QED
          BY <4>1, <4>2, <4>3
      <3> QED
        BY <2>1, <3>1, FS_Singleton
    <2>2. CASE e \notin first .. first + n - 1
      <3>1. P(e) = {}
        <4>1. \A i \in 1 .. n : first + i - 1 # e
          BY <2>0, <2>2
        <4> QED
          BY <4>1
      <3> QED
        BY <2>2, <3>1, FS_EmptySet
    <2> QED
      BY <2>1, <2>2
  <1>2. used' = [e \in Elements |-> used[e] + Cardinality(P(e))]
    BY DEF Use
  <1> HIDE DEF P
  <1>3. \A e \in Elements : used[e] \in Nat
    OBVIOUS
  <1> QED
    BY <1>1, <1>2, <1>3

---------------------------------------------------------------------------
(* The invariant, its initial state, and the main tape using elements.     *)

(* The elements that the tape of helper t may use.                         *)
Share(t) == start + job[t].pos .. start + job[t].pos + job[t].declared - 1
Taken(e) == \E t \in Helpers : e \in Share(t)

(* The state is well typed.                                              *)
TypeInv ==
  /\ setup \in Setups
  /\ run \in Nat \ {0} /\ start \in Nat /\ usage \in 0 .. MaxUse /\ skipped \in 0 .. usage
  /\ DOMAIN reader = Threads
  /\ job \in [Helpers -> [pos : Int, declared : Nat]]
  /\ actual \in [Helpers -> Nat]
  /\ spent \subseteq Elements
  /\ stale \in BOOLEAN

(* Tapes that have not run yet: disjoint, behind the start and reserved.   *)
JobInv ==
  /\ \A t \in Helpers :
       job[t] # None => job[t].pos \in Nat /\ job[t].pos + job[t].declared <= usage
  /\ \A t, u \in Helpers : t # u => Share(t) \cap Share(u) = {}

(* The main tape reads on where its position is.                           *)
ReaderInv ==
  ~stale => /\ At(reader[0], usage)
            /\ \A t \in Helpers : \E p \in Nat : At(reader[t], p)

(* Elements used are behind the start, reserved, and no waiting tape's.    *)
UsedInv ==
  ~stale => /\ used \in [Elements -> Nat]
            /\ \A e \in Elements :
                 /\ used[e] <= 1
                 /\ used[e] > 0 => e \in start .. start + usage - 1 /\ ~Taken(e)

(* With exact declarations all others are used, and what earlier runs used *)
(* is before the start.                                                    *)
Promised == [t \in Helpers |-> actual[t] + job[t].declared]
Lost == IF setup.edabits THEN (run - 1) * (Block - 1) ELSE 0
ExactInv ==
  setup.exact =>
    /\ skipped = Total(Promised, Helpers)
    /\ ~stale => /\ \A e \in Elements :
                      e \in start .. start + usage - 1 /\ ~Taken(e) => used[e] > 0
                 /\ spent \subseteq 0 .. start - 1
                 /\ start <= (run - 1) * (MaxUse + Block)
                 /\ start - Cardinality(spent) <= Lost

PrepInv == TypeInv /\ JobInv /\ ReaderInv /\ UsedInv /\ ExactInv

LEMMA TotalZero ==
  ASSUME NEW S, IsFiniteSet(S), NEW f, \A e \in S : f[e] = 0
  PROVE  Total(f, S) = 0
  <1>1. S \in SUBSET S /\ \A e \in S : f[e] \in Nat /\ f[e] = IF e \in S THEN f[e] + f[e] ELSE f[e]
    OBVIOUS
  <1>2. Total(f, S) = Total(f, S) + Total(f, S)
    BY <1>1, TotalAdd
  <1>3. Total(f, S) \in Nat
    BY <1>1, TotalNat
  <1> DEFINE w == Total(f, S)
  <1>4. w = w + w /\ w \in Nat
    BY <1>2, <1>3
  <1> HIDE DEF w
  <1>5. w = 0
    BY <1>4
  <1> QED
    BY <1>5 DEF w

(* A helper without a tape has no share.                                 *)
LEMMA NoneFacts ==
  /\ None.pos = -1 /\ None.declared = 0 /\ None \in [pos : Int, declared : Nat]
  /\ \A t \in Helpers : TypeInv /\ job[t] = None => Share(t) = {}
  <1>1. None.pos = -1 /\ None.declared = 0 /\ None \in [pos : Int, declared : Nat]
    BY DEF None
  <1>2. ASSUME NEW t \in Helpers, TypeInv, job[t] = None PROVE Share(t) = {}
    <2>1. Share(t) = start - 1 .. start + (-1) + 0 - 1 /\ start \in Nat
      BY <1>1, <1>2 DEF Share, TypeInv
    <2> QED
      BY <2>1
  <1> QED
    BY <1>1, <1>2

(* The share of a tape that has not run is behind the start and reserved.  *)
LEMMA ShareFacts ==
  ASSUME TypeInv, JobInv, NEW t \in Helpers
  PROVE  Share(t) \subseteq start .. start + usage - 1
  <1>1. CASE job[t] = None
    BY <1>1, NoneFacts
  <1>2. CASE job[t] # None
    <2>1. /\ job[t].pos \in Nat /\ job[t].declared \in Nat /\ start \in Nat /\ usage \in Nat
          /\ job[t].pos + job[t].declared <= usage
      BY <1>2 DEF TypeInv, JobInv
    <2> QED
      BY <2>1 DEF Share
  <1> QED
    BY <1>1, <1>2

(* Initially nothing is used or reserved.                                *)
LEMMA PrepInit == Init => PrepInv
  <1> SUFFICES ASSUME Init PROVE PrepInv
    OBVIOUS
  <1>0. run = 1 /\ start = 0 /\ usage = 0 /\ skipped = 0 /\ used = Unused /\ spent = {} /\ stale = FALSE
        /\ reader = [t \in Threads |-> AtFront] /\ job = [t \in Helpers |-> None]
        /\ actual = [t \in Helpers |-> 0] /\ setup \in Setups
    BY DEF Init
  <1>1. TypeInv
    <2>1. job \in [Helpers -> [pos : Int, declared : Nat]]
      BY <1>0, NoneFacts
    <2>2. /\ usage \in 0 .. MaxUse /\ skipped \in 0 .. usage /\ run \in Nat \ {0} /\ start \in Nat
          /\ actual \in [Helpers -> Nat] /\ DOMAIN reader = Threads
      BY <1>0, SizeFacts
    <2>3. spent \subseteq Elements /\ stale \in BOOLEAN
      BY <1>0
    <2> QED
      BY <1>0, <2>1, <2>2, <2>3 DEF TypeInv
  <1>2. \A t \in Helpers : job[t] = None /\ Share(t) = {}
    BY <1>0, <1>1, NoneFacts
  <1>3. JobInv
    BY <1>2 DEF JobInv
  <1>4. At(AtFront, 0)
    <2>1. Holds(AtFront, 0, 0)
      BY <1>0 DEF Holds, Stretch, AtFront
    <2> QED
      BY <2>1 DEF At
  <1>5. ReaderInv
    BY <1>0, <1>4, SizeFacts DEF ReaderInv
  <1>6. UsedInv
    BY <1>0 DEF UsedInv, Unused
  <1>7. ExactInv
    <2>1. \A t \in Helpers : Promised[t] = 0
      BY <1>0, NoneFacts DEF Promised
    <2>2. Total(Promised, Helpers) = 0
      BY <2>1, SizeFacts, TotalZero
    <2>3. Cardinality(spent) = 0
      BY <1>0, FS_EmptySet
    <2>4. 0 <= (run - 1) * (MaxUse + Block) /\ 0 <= Lost
      <3>1. (1 - 1) * (MaxUse + Block) = 0 /\ (1 - 1) * (Block - 1) = 0
        BY SizeFacts
      <3> QED
        BY <1>0, <3>1 DEF Lost
    <2>5. \A e \in Elements : e \notin start .. start + usage - 1
      BY <1>0
    <2> QED
      BY <1>0, <2>2, <2>3, <2>4, <2>5 DEF ExactInv
  <1> QED
    BY <1>1, <1>3, <1>5, <1>6, <1>7 DEF PrepInv

(* The main tape uses the element at its position.                         *)
LEMMA StepUseOne == PrepInv /\ UseOne => PrepInv'
  <1> SUFFICES ASSUME PrepInv, UseOne PROVE PrepInv'
    OBVIOUS
  <1>0. TypeInv /\ JobInv /\ ReaderInv /\ UsedInv /\ ExactInv
    BY DEF PrepInv
  <1>1. /\ usage < MaxUse /\ Use(Got(reader[0], 1))
        /\ reader' = [reader EXCEPT ![0] = After(reader[0], 1)]
        /\ usage' = usage + 1
        /\ UNCHANGED <<setup, run, start, skipped, job, actual, spent, stale>>
    BY DEF UseOne
  <1>2. start \in Nat /\ usage \in Nat /\ MaxUse \in Nat
    BY <1>0, SizeFacts DEF TypeInv
  <1>3. TypeInv'
    BY <1>0, <1>1, <1>2 DEF TypeInv
  <1>4. \A t \in Helpers : Share(t)' = Share(t)
    BY <1>1 DEF Share
  <1>5. \A e : Taken(e)' <=> Taken(e)
    BY <1>4 DEF Taken
  <1>6. JobInv'
    <2>1. \A t \in Helpers : job[t] # None => job[t].pos \in Nat /\ job[t].declared \in Nat
                                              /\ job[t].pos + job[t].declared <= usage
      BY <1>0 DEF JobInv, TypeInv
    <2>2. \A t \in Helpers : job[t] # None => job[t].pos \in Nat /\ job[t].pos + job[t].declared <= usage + 1
      BY <2>1, <1>2
    <2> QED
      BY <1>0, <1>1, <1>4, <2>2 DEF JobInv
  <1>7. ASSUME ~stale
        PROVE  /\ At(After(reader[0], 1), usage + 1)
               /\ used' \in [Elements -> Nat]
               /\ \A e \in Elements :
                    used'[e] = used[e] + (IF e \in (start + usage) .. (start + usage) + 1 - 1 THEN 1 ELSE 0)
    <2>1. At(reader[0], usage) /\ used \in [Elements -> Nat]
      BY <1>0, <1>7 DEF ReaderInv, UsedInv
    <2>2. Got(reader[0], 1) = Stretch(usage, 1) /\ At(After(reader[0], 1), usage + 1)
      BY <1>2, <2>1, Reading
    <2>3. Use([i \in 1 .. 1 |-> (start + usage) + i - 1]) /\ start + usage \in Int
      BY <1>1, <1>2, <2>2 DEF Stretch
    <2> QED
      BY <2>1, <2>2, <2>3, Using
  <1>8. ReaderInv'
    <2> SUFFICES ASSUME ~stale PROVE ReaderInv'
      BY <1>1 DEF ReaderInv
    <2>1. \A r, p : At(r, p)' <=> At(r, p)
      BY <1>1 DEF At, Holds, Stretch
    <2>2. reader'[0] = After(reader[0], 1) /\ \A t \in Helpers : reader'[t] = reader[t]
      BY <1>0, <1>1, SizeFacts DEF TypeInv
    <2> QED
      BY <1>0, <1>1, <1>7, <2>1, <2>2 DEF ReaderInv
  <1>9. \A e \in Elements : e \in Nat
    BY <1>2, SizeFacts DEF Elements
  <1>10. \A e \in Elements : Taken(e) => e \in start .. start + usage - 1
    BY <1>0, ShareFacts DEF Taken
  <1>11. UsedInv'
    <2> SUFFICES ASSUME ~stale PROVE UsedInv'
      BY <1>1 DEF UsedInv
    <2>1. ASSUME NEW e \in Elements
          PROVE  /\ used'[e] <= 1
                 /\ used'[e] > 0 => e \in start .. start + (usage + 1) - 1 /\ ~Taken(e)
      <3>1. used[e] \in Nat /\ used[e] <= 1 /\ (used[e] > 0 => e \in start .. start + usage - 1 /\ ~Taken(e))
        BY <1>0 DEF UsedInv
      <3>2. used'[e] = used[e] + (IF e = start + usage THEN 1 ELSE 0)
        BY <1>2, <1>7, <1>9
      <3>3. CASE e = start + usage
        <4>1. ~Taken(e)
          BY <3>3, <1>2, <1>10
        <4>2. used[e] = 0
          BY <3>1, <3>3, <1>2
        <4> QED
          BY <1>2, <3>2, <3>3, <4>1, <4>2
      <3>4. CASE e # start + usage
        BY <1>2, <3>1, <3>2, <3>4
      <3> QED
        BY <3>3, <3>4
    <2> QED
      BY <1>1, <1>5, <1>7, <2>1 DEF UsedInv
  <1>12. ExactInv'
    <2>1. Promised' = Promised /\ Lost' = Lost
      BY <1>1 DEF Promised, Lost
    <2>2. ASSUME setup.exact, ~stale, NEW e \in Elements, e \in start .. start + (usage + 1) - 1, ~Taken(e)
          PROVE  used'[e] > 0
      <3>1. used[e] \in Nat /\ used'[e] = used[e] + (IF e = start + usage THEN 1 ELSE 0)
        BY <1>0, <1>2, <1>7, <1>9, <2>2 DEF UsedInv
      <3>2. e = start + usage \/ used[e] > 0
        BY <1>0, <1>2, <1>9, <2>2 DEF ExactInv
      <3> QED
        BY <3>1, <3>2
    <2> QED
      BY <1>0, <1>1, <1>5, <2>1, <2>2 DEF ExactInv
  <1> QED
    BY <1>3, <1>6, <1>8, <1>11, <1>12 DEF PrepInv

---------------------------------------------------------------------------
(* Positions: run_tapes divides what it reserves.                          *)

(* A finite set of numbers that is not empty has a last one.               *)
LEMMA LastOf ==
  ASSUME NEW S, IsFiniteSet(S), S \subseteq Nat
  PROVE  \A T \in SUBSET S : T # {} => \E m \in T : \A e \in T : e <= m
  <1> DEFINE B == {T \in SUBSET S : T # {} /\ ~ \E m \in T : \A e \in T : e <= m}
  <1> SUFFICES ASSUME B # {} PROVE FALSE
    OBVIOUS
  <1>1. B \subseteq SUBSET S
    OBVIOUS
  <1> HIDE DEF B
  <1>2. PICK T \in B : \A e \in T : T \ {e} \notin B
    BY <1>1, Smallest
  <1>3. T \in SUBSET S /\ T # {} /\ ~ \E m \in T : \A e \in T : e <= m
    BY DEF B
  <1>4. PICK a \in T : TRUE
    BY <1>3
  <1>5. PICK c \in T : ~(c <= a)
    BY <1>3
  <1>6. PICK m \in T \ {a} : \A e \in T \ {a} : e <= m
    <2>1. T \ {a} \in SUBSET S /\ T \ {a} \notin B
      BY <1>2, <1>3
    <2>2. a \in Nat /\ c \in Nat
      BY <1>3
    <2>3. c \in T \ {a}
      BY <1>5, <2>2
    <2> QED
      BY <2>1, <2>3 DEF B
  <1>7. a <= m
    <2>1. a \in Nat /\ c \in Nat /\ m \in Nat
      BY <1>3
    <2>2. c <= m
      BY <1>5, <1>6, <2>1
    <2> QED
      BY <1>5, <2>1, <2>2
  <1>8. \A e \in T : e <= m
    BY <1>6, <1>7
  <1> QED
    BY <1>3, <1>6, <1>8

(* The tapes that run_tapes starts before that of t.                     *)
Before(S, t) == {u \in S : u < t}

(* run_tapes gives the tapes ranges that follow each other without gaps.   *)
LEMMA PositionFacts ==
  ASSUME NEW S \in SUBSET Helpers, NEW decl, \A t \in S : decl[t] \in Nat, usage \in Nat
  PROVE  /\ Total(decl, S) \in Nat
         /\ \A t \in S : /\ Position(S, decl, t) \in Nat /\ usage <= Position(S, decl, t)
                         /\ Position(S, decl, t) + decl[t] <= usage + Total(decl, S)
         /\ \A t, u \in S : t < u => Position(S, decl, t) + decl[t] <= Position(S, decl, u)
         /\ \A p \in Nat : usage <= p /\ p < usage + Total(decl, S) =>
              \E t \in S : Position(S, decl, t) <= p /\ p < Position(S, decl, t) + decl[t]
  <1>0. IsFiniteSet(S) /\ S \subseteq Nat /\ (\A e \in S : decl[e] \in Nat)
    BY SizeFacts, FS_Subset
  <1>1. S \in SUBSET S /\ \A t \in S : Before(S, t) \in SUBSET S
    BY DEF Before
  <1>2. \A T \in SUBSET S : Total(decl, T) \in Nat
    BY <1>0, TotalNat
  <1>r. ASSUME NEW T \in SUBSET S, NEW e \in T
        PROVE  Total(decl, T) = decl[e] + Total(decl, T \ {e})
    <2>1. IsFiniteSet(S)
      BY <1>0
    <2> QED
      BY <2>1, TotalRemove
  <1>3. \A t \in S : Position(S, decl, t) = usage + Total(decl, Before(S, t))
    BY DEF Position, Before
  <1>4. ASSUME NEW t \in S, NEW U \in SUBSET S, t \in U, Before(S, t) \subseteq U
        PROVE  Total(decl, Before(S, t)) + decl[t] <= Total(decl, U)
    <2>1. PICK V \in SUBSET S : V = Before(S, t) \cup {t}
      BY <1>1
    <2>2. t \in V /\ V \ {t} = Before(S, t) /\ V \in SUBSET U
      BY <1>0, <1>4, <2>1 DEF Before
    <2>3. Total(decl, V) = decl[t] + Total(decl, V \ {t})
      BY <1>r, <2>1, <2>2
    <2>4. Total(decl, V) <= Total(decl, U)
      BY <1>0, <2>2, TotalPart
    <2>5. decl[t] \in Nat /\ Total(decl, Before(S, t)) \in Nat
      BY <1>0, <1>1, <1>2
    <2>6. Total(decl, V) = decl[t] + Total(decl, Before(S, t))
      BY <2>2, <2>3
    <2>7. Total(decl, U) \in Nat
      BY <1>2
    <2> QED
      BY <2>4, <2>5, <2>6, <2>7
  <1>5. ASSUME NEW t \in S
        PROVE  /\ Position(S, decl, t) \in Nat /\ usage <= Position(S, decl, t)
               /\ Position(S, decl, t) + decl[t] <= usage + Total(decl, S)
    <2>1. Total(decl, Before(S, t)) \in Nat /\ decl[t] \in Nat /\ Total(decl, S) \in Nat
      BY <1>0, <1>1, <1>2
    <2>2. Total(decl, Before(S, t)) + decl[t] <= Total(decl, S)
      BY <1>1, <1>4
    <2> QED
      BY <1>3, <2>1, <2>2
  <1>6. ASSUME NEW t \in S, NEW u \in S, t < u
        PROVE  Position(S, decl, t) + decl[t] <= Position(S, decl, u)
    <2>1. t \in Before(S, u) /\ Before(S, t) \subseteq Before(S, u)
      <3>1. t \in Nat /\ u \in Nat /\ \A v \in S : v \in Nat
        BY <1>0
      <3>2. \A v \in S : v < t => v < u
        BY <1>6, <3>1
      <3> QED
        BY <1>6, <3>2 DEF Before
    <2>2. Total(decl, Before(S, t)) + decl[t] <= Total(decl, Before(S, u))
      BY <1>1, <1>4, <2>1
    <2>3. Total(decl, Before(S, t)) \in Nat /\ Total(decl, Before(S, u)) \in Nat /\ decl[t] \in Nat
      BY <1>0, <1>1, <1>2
    <2> QED
      BY <1>3, <2>2, <2>3
  <1>7. ASSUME NEW p \in Nat, usage <= p, p < usage + Total(decl, S)
        PROVE  \E t \in S : Position(S, decl, t) <= p /\ p < Position(S, decl, t) + decl[t]
    <2> DEFINE B == {T \in SUBSET S : /\ \A t \in T : Before(S, t) \subseteq T
                                      /\ p < usage + Total(decl, T)}
    <2>1. S \in B
      BY <1>7 DEF Before
    <2>2. B \subseteq SUBSET S
      OBVIOUS
    <2> HIDE DEF B
    <2>3. PICK T \in B : \A e \in T : T \ {e} \notin B
      BY <1>0, <2>1, <2>2, Smallest
    <2>4. T \in SUBSET S /\ (\A t \in T : Before(S, t) \subseteq T) /\ p < usage + Total(decl, T)
      BY DEF B
    <2>5. T # {}
      <3>1. Total(decl, {}) = 0
        BY TotalEmpty
      <3> QED
        BY <1>7, <2>4, <3>1
    <2>6. PICK t \in T : \A e \in T : e <= t
      BY <1>0, <2>4, <2>5, LastOf
    <2>7. T \ {t} = Before(S, t)
      <3>1. \A e \in T \ {t} : e < t
        BY <1>0, <2>4, <2>6
      <3>2. \A e \in Before(S, t) : e \in T /\ e # t
        <4>1. ~(t < t)
          BY <1>0, <2>4
        <4> QED
          BY <2>4, <4>1 DEF Before
      <3>3. \A e \in T \ {t} : e \in Before(S, t)
        BY <2>4, <3>1 DEF Before
      <3> QED
        BY <3>2, <3>3
    <2>8. ~(p < usage + Total(decl, Before(S, t)))
      <3>1. T \ {t} \in SUBSET S /\ T \ {t} \notin B
        BY <2>3, <2>4
      <3>2. \A e \in T \ {t} : Before(S, e) \subseteq T \ {t}
        BY <1>0, <2>4, <2>7 DEF Before
      <3> QED
        BY <2>7, <3>1, <3>2 DEF B
    <2>9. Total(decl, T) = decl[t] + Total(decl, Before(S, t))
      BY <1>r, <2>4, <2>7
    <2>10. t \in S /\ Total(decl, Before(S, t)) \in Nat /\ decl[t] \in Nat
      BY <1>0, <1>1, <1>2, <2>4
    <2> QED
      BY <1>3, <2>4, <2>8, <2>9, <2>10
  <1> QED
    BY <1>1, <1>2, <1>5, <1>6, <1>7

---------------------------------------------------------------------------
(* The steps of starting and running tapes.                                *)

(* The tapes of S get ranges behind everything used or reserved.           *)
LEMMA StepRunTapes ==
  ASSUME PrepInv, NEW S \in SUBSET Helpers, NEW decl, \A t \in S : decl[t] \in Nat, RunTapes(S, decl)
  PROVE  PrepInv'
  <1>0. TypeInv /\ JobInv /\ ReaderInv /\ UsedInv /\ ExactInv
    BY DEF PrepInv
  <1> DEFINE res == Total(decl, S)
             Pos(t) == Position(S, decl, t)
  <1>1. /\ \A t \in S : job[t] = None
        /\ usage + res <= MaxUse
        /\ job' = [t \in Helpers |-> IF t \in S THEN [pos |-> Pos(t), declared |-> decl[t]] ELSE job[t]]
        /\ usage' = usage + res /\ skipped' = skipped + res
        /\ reader' = [reader EXCEPT ![0] = Seek(reader[0], usage + res)]
        /\ stale' = (stale \/ MeetsRest(reader[0]))
        /\ UNCHANGED <<setup, run, start, actual, used, spent>>
    BY DEF RunTapes
  <1>2. start \in Nat /\ usage \in Nat /\ MaxUse \in Nat /\ skipped \in Nat /\ skipped <= usage
    BY <1>0, SizeFacts DEF TypeInv
  <1>3. /\ res \in Nat
        /\ \A t \in S : Pos(t) \in Nat /\ usage <= Pos(t) /\ Pos(t) + decl[t] <= usage + res
        /\ \A t, u \in S : t < u => Pos(t) + decl[t] <= Pos(u)
        /\ \A p \in Nat : usage <= p /\ p < usage + res =>
             \E t \in S : Pos(t) <= p /\ p < Pos(t) + decl[t]
    BY <1>2, PositionFacts
  <1> HIDE DEF res, Pos
  <1>4. /\ \A t \in S : job'[t] = [pos |-> Pos(t), declared |-> decl[t]]
        /\ \A t \in Helpers : t \notin S => job'[t] = job[t]
    BY <1>1
  <1>5. TypeInv'
    <2>1. job' \in [Helpers -> [pos : Int, declared : Nat]]
      <3>1. ASSUME NEW t \in Helpers PROVE job'[t] \in [pos : Int, declared : Nat]
        <4>1. CASE t \in S
          <5>1. job'[t] = [pos |-> Pos(t), declared |-> decl[t]]
            BY <1>4, <4>1
          <5>2. Pos(t) \in Int /\ decl[t] \in Nat
            BY <1>3, <4>1
          <5> QED
            BY <5>1, <5>2
        <4>2. CASE t \notin S
          BY <1>0, <1>4, <4>2 DEF TypeInv
        <4> QED
          BY <4>1, <4>2
      <3>2. job' = [t \in Helpers |-> job'[t]]
        BY <1>1
      <3> QED
        BY <3>1, <3>2
    <2>2. usage' \in 0 .. MaxUse /\ skipped' \in 0 .. usage'
      BY <1>1, <1>2, <1>3
    <2>3. stale' \in BOOLEAN /\ DOMAIN reader' = Threads
      BY <1>0, <1>1 DEF TypeInv
    <2> QED
      BY <1>0, <1>1, <2>1, <2>2, <2>3 DEF TypeInv
  (* The shares of the others stay, those of S are new.                    *)
  <1>6. /\ \A t \in Helpers : t \notin S => Share(t)' = Share(t)
        /\ \A t \in S : Share(t)' = start + Pos(t) .. start + Pos(t) + decl[t] - 1
        /\ \A t \in S : Share(t) = {}
        /\ \A t \in Helpers : Share(t) \subseteq start .. start + usage - 1
    BY <1>0, <1>1, <1>4, ShareFacts, NoneFacts DEF Share
  <1>7. JobInv'
    <2>1. ASSUME NEW t \in Helpers, job'[t] # None
          PROVE  job'[t].pos \in Nat /\ job'[t].pos + job'[t].declared <= usage'
      <3>1. CASE t \in S
        <4>1. job'[t] = [pos |-> Pos(t), declared |-> decl[t]]
          BY <1>4, <3>1
        <4>2. job'[t].pos = Pos(t) /\ job'[t].declared = decl[t]
          BY <4>1
        <4>3. Pos(t) \in Nat /\ Pos(t) + decl[t] <= usage + res
          BY <1>3, <3>1
        <4> QED
          BY <1>1, <4>2, <4>3
      <3>2. CASE t \notin S
        <4>1. /\ job[t].pos \in Nat /\ job[t].declared \in Nat
              /\ job[t].pos + job[t].declared <= usage /\ job'[t] = job[t]
          BY <1>0, <1>4, <2>1, <3>2 DEF JobInv, TypeInv
        <4> QED
          BY <1>1, <1>2, <1>3, <4>1
      <3> QED
        BY <3>1, <3>2
    <2>2. ASSUME NEW t \in S, NEW u \in S, t # u PROVE Share(t)' \cap Share(u)' = {}
      <3>1. t \in Nat /\ u \in Nat
        BY SizeFacts
      <3>2. /\ Pos(t) \in Nat /\ Pos(u) \in Nat /\ decl[t] \in Nat /\ decl[u] \in Nat
            /\ t < u => Pos(t) + decl[t] <= Pos(u)
            /\ u < t => Pos(u) + decl[u] <= Pos(t)
        BY <1>3
      <3>3. Pos(t) + decl[t] <= Pos(u) \/ Pos(u) + decl[u] <= Pos(t)
        BY <2>2, <3>1, <3>2
      <3>4. /\ Share(t)' = start + Pos(t) .. start + Pos(t) + decl[t] - 1
            /\ Share(u)' = start + Pos(u) .. start + Pos(u) + decl[u] - 1
        BY <1>6
      <3>5. ASSUME NEW e \in Share(t)', e \in Share(u)' PROVE FALSE
        <4>1. e \in Int /\ start + Pos(t) <= e /\ e <= start + Pos(t) + decl[t] - 1
          BY <1>2, <3>2, <3>4
        <4>2. start + Pos(u) <= e /\ e <= start + Pos(u) + decl[u] - 1
          BY <1>2, <3>2, <3>4, <3>5
        <4> QED
          BY <1>2, <3>2, <3>3, <4>1, <4>2
      <3> QED
        BY <3>5
    <2>3. ASSUME NEW t \in S, NEW u \in Helpers, u \notin S PROVE Share(t)' \cap Share(u)' = {}
      <3>1. Share(u)' \subseteq start .. start + usage - 1
        BY <1>6, <2>3
      <3>2. Share(t)' = start + Pos(t) .. start + Pos(t) + decl[t] - 1
            /\ Pos(t) \in Nat /\ usage <= Pos(t) /\ decl[t] \in Nat
        BY <1>3, <1>6
      <3> QED
        BY <1>2, <3>1, <3>2
    <2>4. ASSUME NEW t \in Helpers, NEW u \in Helpers, t # u, t \notin S, u \notin S
          PROVE  Share(t)' \cap Share(u)' = {}
      BY <1>0, <1>6, <2>4 DEF JobInv
    <2>5. ASSUME NEW t \in Helpers, NEW u \in Helpers, t # u PROVE Share(t)' \cap Share(u)' = {}
      <3>1. CASE t \in S /\ u \in S
        BY <2>2, <2>5, <3>1
      <3>2. CASE t \in S /\ u \notin S
        BY <2>3, <3>2
      <3>3. CASE t \notin S /\ u \in S
        <4>1. Share(u)' \cap Share(t)' = {}
          BY <2>3, <3>3
        <4> QED
          BY <4>1
      <3>4. CASE t \notin S /\ u \notin S
        BY <2>4, <2>5, <3>4
      <3> QED
        BY <3>1, <3>2, <3>3, <3>4
    <2> QED
      BY <2>1, <2>5 DEF JobInv
  <1>8. ReaderInv'
    <2> SUFFICES ASSUME ~stale, ~MeetsRest(reader[0]) PROVE ReaderInv'
      BY <1>1 DEF ReaderInv
    <2>1. \A r, p : At(r, p)' <=> At(r, p)
      BY <1>1 DEF At, Holds, Stretch
    <2>2. At(reader[0], usage)
      BY <1>0 DEF ReaderInv
    <2>3. At(Seek(reader[0], usage + res), usage + res)
      <3>1. usage + res \in Nat
        BY <1>2, <1>3
      <3> QED
        BY <1>2, <2>2, <3>1, Seeking
    <2>4. reader'[0] = Seek(reader[0], usage + res) /\ \A t \in Helpers : reader'[t] = reader[t]
      BY <1>0, <1>1, SizeFacts DEF TypeInv
    <2> QED
      BY <1>0, <1>1, <2>1, <2>3, <2>4 DEF ReaderInv
  <1>9. \A e \in Elements : e \in Nat
    BY SizeFacts DEF Elements
  <1>10. ASSUME NEW e \in Elements, e \in start .. start + usage - 1
         PROVE  Taken(e)' => Taken(e)
    <2> SUFFICES ASSUME NEW t \in Helpers, e \in Share(t)' PROVE Taken(e)
      BY DEF Taken
    <2>1. t \notin S
      <3> SUFFICES ASSUME t \in S PROVE FALSE
        OBVIOUS
      <3>1. e \in start + Pos(t) .. start + Pos(t) + decl[t] - 1 /\ Pos(t) \in Nat /\ usage <= Pos(t)
        BY <1>3, <1>6
      <3> QED
        BY <1>2, <1>9, <1>10, <3>1
    <2> QED
      BY <1>6, <2>1 DEF Taken
  <1>11. \A e : Taken(e) => Taken(e)'
    <2> SUFFICES ASSUME NEW e, NEW t \in Helpers, e \in Share(t) PROVE Taken(e)'
      BY DEF Taken
    <2>1. t \notin S
      BY <1>6
    <2> QED
      BY <1>6, <2>1 DEF Taken
  <1>12. ASSUME NEW e \in Elements, e \in start .. start + (usage + res) - 1, ~Taken(e)'
         PROVE  e \in start .. start + usage - 1
    <2> SUFFICES ASSUME e >= start + usage PROVE FALSE
      BY <1>2, <1>3, <1>9, <1>12
    <2>1. e - start \in Nat /\ usage <= e - start /\ e - start < usage + res
      BY <1>2, <1>3, <1>9, <1>12
    <2>2. PICK t \in S : Pos(t) <= e - start /\ e - start < Pos(t) + decl[t]
      BY <1>3, <2>1
    <2>3. e \in Share(t)'
      <3>1. Pos(t) \in Nat /\ decl[t] \in Nat /\ e \in Nat
        BY <1>3, <1>9
      <3> QED
        BY <1>2, <1>6, <2>2, <3>1
    <2> QED
      BY <1>12, <2>3 DEF Taken
  <1>13. UsedInv'
    <2> SUFFICES ASSUME ~stale PROVE UsedInv'
      BY <1>1 DEF UsedInv
    <2>1. used \in [Elements -> Nat]
      BY <1>0 DEF UsedInv
    <2>2. ASSUME NEW e \in Elements
          PROVE  used[e] <= 1 /\ (used[e] > 0 => e \in start .. start + (usage + res) - 1 /\ ~Taken(e)')
      <3>1. used[e] <= 1 /\ (used[e] > 0 => e \in start .. start + usage - 1 /\ ~Taken(e))
        BY <1>0 DEF UsedInv
      <3> QED
        BY <1>2, <1>3, <1>9, <1>10, <3>1
    <2> QED
      BY <1>1, <2>1, <2>2 DEF UsedInv
  <1>14. ExactInv'
    <2>1. Lost' = Lost
      BY <1>1 DEF Lost
    <2>2. ASSUME setup.exact PROVE skipped + res = Total(Promised', Helpers)
      <3>1. \A t \in Helpers : Promised[t] \in Nat
        BY <1>0 DEF Promised, TypeInv
      <3>2. \A t \in Helpers : Promised'[t] = IF t \in S THEN Promised[t] + decl[t] ELSE Promised[t]
        <4> SUFFICES ASSUME NEW t \in Helpers
                     PROVE  Promised'[t] = IF t \in S THEN Promised[t] + decl[t] ELSE Promised[t]
          OBVIOUS
        <4>1. Promised[t] = actual[t] + job[t].declared /\ Promised'[t] = actual[t] + job'[t].declared
          BY <1>1 DEF Promised
        <4>2. CASE t \in S
          <5>1. job[t].declared = 0 /\ job'[t].declared = decl[t] /\ decl[t] \in Nat /\ actual[t] \in Nat
            BY <1>0, <1>1, <1>4, <4>2, NoneFacts DEF TypeInv
          <5> QED
            BY <4>1, <4>2, <5>1
        <4>3. CASE t \notin S
          BY <1>4, <4>1, <4>3
        <4> QED
          BY <4>2, <4>3
      <3> DEFINE p == Promised
                 q == Promised'
      <3>3. \A t \in Helpers : p[t] \in Nat
        BY <3>1
      <3>4. \A t \in Helpers : q[t] = IF t \in S THEN p[t] + decl[t] ELSE p[t]
        BY <3>2
      <3> HIDE DEF p, q
      <3>5. Total(q, Helpers) = Total(p, Helpers) + Total(decl, S)
        <4>1. IsFiniteSet(Helpers)
          BY SizeFacts
        <4> QED
          BY <3>3, <3>4, <4>1, TotalAdd
      <3>6. skipped = Total(p, Helpers)
        BY <1>0, <2>2 DEF ExactInv, p
      <3> QED
        BY <3>5, <3>6 DEF q, res
    <2>3. ASSUME setup.exact, ~stale, NEW e \in Elements, e \in start .. start + (usage + res) - 1, ~Taken(e)'
          PROVE  used[e] > 0
      <3>1. e \in start .. start + usage - 1 /\ ~Taken(e)
        BY <1>11, <1>12, <2>3
      <3> QED
        BY <1>0, <2>3, <3>1 DEF ExactInv
    <2> QED
      BY <1>0, <1>1, <2>1, <2>2, <2>3 DEF ExactInv
  <1> QED
    BY <1>5, <1>7, <1>8, <1>13, <1>14 DEF PrepInv

(* A tape uses elements of its share only, and gives the rest up.          *)
LEMMA StepExecute ==
  ASSUME PrepInv, NEW t \in Helpers, Execute(t)
  PROVE  PrepInv'
  <1>0. TypeInv /\ JobInv /\ ReaderInv /\ UsedInv /\ ExactInv
    BY DEF PrepInv
  <1> DEFINE pos == job[t].pos
             declared == job[t].declared
             r == Seek(reader[t], pos)
  <1>1. PICK n \in (IF setup.exact THEN {declared} ELSE 0 .. declared) :
          /\ Use(Got(r, n))
          /\ reader' = [reader EXCEPT ![t] = After(r, n)]
          /\ actual' = [actual EXCEPT ![t] = actual[t] + n]
    BY DEF Execute
  <1>2. /\ job[t] # None
        /\ stale' = (stale \/ MeetsRest(reader[t]))
        /\ job' = [job EXCEPT ![t] = None]
        /\ UNCHANGED <<setup, run, start, usage, skipped, spent>>
    BY DEF Execute
  <1>3. /\ pos \in Nat /\ declared \in Nat /\ pos + declared <= usage
        /\ start \in Nat /\ usage \in Nat /\ n \in 0 .. declared /\ n \in Nat
        /\ setup.exact => n = declared
    <2>1. pos \in Nat /\ declared \in Nat /\ pos + declared <= usage /\ start \in Nat /\ usage \in Nat
      BY <1>0, <1>2 DEF JobInv, TypeInv
    <2> HIDE DEF pos, declared
    <2> QED
      BY <1>1, <2>1
  <1>s. Share(t) = start + pos .. start + pos + declared - 1
    BY DEF Share
  <1> HIDE DEF pos, declared, r
  <1>4. /\ job'[t] = None /\ \A u \in Helpers : u # t => job'[u] = job[u]
        /\ job' \in [Helpers -> [pos : Int, declared : Nat]]
    BY <1>0, <1>2, NoneFacts DEF TypeInv
  <1>5. TypeInv'
    <2>1. actual' \in [Helpers -> Nat]
      BY <1>0, <1>1, <1>3 DEF TypeInv
    <2>2. stale' \in BOOLEAN /\ DOMAIN reader' = Threads
      BY <1>0, <1>1, <1>2 DEF TypeInv
    <2> QED
      BY <1>0, <1>2, <1>4, <2>1, <2>2 DEF TypeInv
  <1>6. Share(t)' = {} /\ \A u \in Helpers : u # t => Share(u)' = Share(u)
    <2>1. Share(t)' = start + (-1) .. start + (-1) + 0 - 1
      BY <1>2, <1>4, NoneFacts DEF Share
    <2> QED
      BY <1>2, <1>3, <1>4, <2>1 DEF Share
  <1>7. JobInv'
    BY <1>0, <1>2, <1>4, <1>6 DEF JobInv
  <1>8. ASSUME ~stale'
        PROVE  /\ ~stale /\ At(After(r, n), pos + n) /\ pos + n \in Nat
               /\ used' \in [Elements -> Nat]
               /\ \A e \in Elements :
                    used'[e] = used[e] + (IF e \in (start + pos) .. (start + pos) + n - 1 THEN 1 ELSE 0)
    <2>1. ~stale /\ ~MeetsRest(reader[t])
      BY <1>2, <1>8
    <2>2. PICK p \in Nat : At(reader[t], p)
      BY <1>0, <2>1 DEF ReaderInv
    <2>3. At(r, pos)
      BY <1>3, <2>1, <2>2, Seeking DEF r
    <2>4. Got(r, n) = Stretch(pos, n) /\ At(After(r, n), pos + n)
      BY <1>3, <2>3, Reading
    <2>5. used \in [Elements -> Nat]
      BY <1>0, <2>1 DEF UsedInv
    <2>6. Use([i \in 1 .. n |-> (start + pos) + i - 1]) /\ start + pos \in Int /\ pos + n \in Nat
      BY <1>1, <1>3, <2>4 DEF Stretch
    <2> QED
      BY <1>3, <2>1, <2>4, <2>5, <2>6, Using
  <1>9. ReaderInv'
    <2> SUFFICES ASSUME ~stale' PROVE ReaderInv'
      BY DEF ReaderInv
    <2>1. \A q, p : At(q, p)' <=> At(q, p)
      BY <1>2 DEF At, Holds, Stretch
    <2>2. /\ reader'[t] = After(r, n) /\ reader'[0] = reader[0]
          /\ \A u \in Helpers : u # t => reader'[u] = reader[u]
      BY <1>0, <1>1, SizeFacts DEF TypeInv
    <2>3. At(reader[0], usage) /\ \A u \in Helpers : \E p \in Nat : At(reader[u], p)
      BY <1>0, <1>8 DEF ReaderInv
    <2>4. ASSUME NEW u \in Helpers PROVE \E p \in Nat : At(reader'[u], p)
      BY <1>8, <2>2, <2>3
    <2> QED
      BY <1>2, <2>1, <2>2, <2>3, <2>4 DEF ReaderInv
  <1>10. \A e \in Elements : e \in Nat
    BY SizeFacts DEF Elements
  <1>11. \A e : Taken(e)' <=> Taken(e) /\ e \notin Share(t)
    <2>1. ASSUME NEW e, Taken(e)' PROVE Taken(e) /\ e \notin Share(t)
      <3>1. PICK u \in Helpers : e \in Share(u)'
        BY <2>1 DEF Taken
      <3>2. u # t /\ e \in Share(u)
        BY <1>6, <3>1
      <3> QED
        BY <1>0, <3>2 DEF Taken, JobInv
    <2>2. ASSUME NEW e, Taken(e), e \notin Share(t) PROVE Taken(e)'
      <3>1. PICK u \in Helpers : e \in Share(u)
        BY <2>2 DEF Taken
      <3> QED
        BY <1>6, <2>2, <3>1 DEF Taken
    <2> QED
      BY <2>1, <2>2
  <1>12. \A e \in Elements : e \in (start + pos) .. (start + pos) + n - 1 =>
           e \in Share(t) /\ Taken(e) /\ e \in start .. start + usage - 1
    BY <1>3, <1>10, <1>s DEF Taken
  <1>13. UsedInv'
    <2> SUFFICES ASSUME ~stale' PROVE UsedInv'
      BY DEF UsedInv
    <2>1. ASSUME NEW e \in Elements
          PROVE  used'[e] <= 1 /\ (used'[e] > 0 => e \in start .. start + usage - 1 /\ ~Taken(e)')
      <3>1. used[e] \in Nat /\ used[e] <= 1 /\ (used[e] > 0 => e \in start .. start + usage - 1 /\ ~Taken(e))
        BY <1>0, <1>8 DEF UsedInv
      <3>2. CASE e \in (start + pos) .. (start + pos) + n - 1
        <4>1. Taken(e) /\ e \in start .. start + usage - 1 /\ ~Taken(e)'
          BY <1>11, <1>12, <3>2
        <4>2. used[e] = 0
          BY <3>1, <4>1
        <4>3. used'[e] = used[e] + 1
          BY <1>8, <3>2
        <4> QED
          BY <4>1, <4>2, <4>3
      <3>3. CASE e \notin (start + pos) .. (start + pos) + n - 1
        <4>1. used'[e] = used[e]
          BY <1>8, <3>1, <3>3
        <4> QED
          BY <1>11, <3>1, <4>1
      <3> QED
        BY <3>2, <3>3
    <2> QED
      BY <1>2, <1>8, <2>1 DEF UsedInv
  <1>14. ExactInv'
    <2>1. Lost' = Lost
      BY <1>2 DEF Lost
    <2>2. ASSUME setup.exact PROVE Promised' = Promised
      <3>1. ASSUME NEW u \in Helpers PROVE actual'[u] + job'[u].declared = actual[u] + job[u].declared
        <4>1. actual[u] \in Nat /\ job[u].declared \in Nat
          BY <1>0 DEF TypeInv
        <4>2. CASE u = t
          <5>1. actual'[u] = actual[u] + job[u].declared
            BY <1>0, <1>1, <1>3, <2>2, <4>2 DEF TypeInv, declared
          <5>2. job'[u].declared = 0
            BY <1>4, <4>2, NoneFacts
          <5> QED
            BY <4>1, <5>1, <5>2
        <4>3. CASE u # t
          <5>1. actual'[u] = actual[u] /\ job'[u] = job[u]
            BY <1>0, <1>1, <1>4, <4>3 DEF TypeInv
          <5> QED
            BY <5>1
        <4> QED
          BY <4>2, <4>3
      <3> QED
        BY <3>1 DEF Promised
    <2>3. ASSUME setup.exact, ~stale', NEW e \in Elements, e \in start .. start + usage - 1, ~Taken(e)'
          PROVE  used'[e] > 0
      <3>1. used[e] \in Nat
        BY <1>0, <1>8, <2>3 DEF UsedInv
      <3>2. CASE Taken(e)
        <4>1. e \in (start + pos) .. (start + pos) + n - 1
          BY <1>3, <1>11, <1>s, <2>3, <3>2
        <4> QED
          BY <1>8, <2>3, <3>1, <4>1
      <3>3. CASE ~Taken(e)
        <4>1. used[e] > 0
          BY <1>0, <1>8, <2>3, <3>3 DEF ExactInv
        <4>2. used'[e] = used[e] \/ used'[e] = used[e] + 1
          BY <1>8, <2>3, <3>1
        <4> QED
          BY <3>1, <4>1, <4>2
      <3> QED
        BY <3>2, <3>3
    <2>4. ~stale' => ~stale
      BY <1>2
    <2> QED
      BY <1>0, <1>2, <2>1, <2>2, <2>3, <2>4 DEF ExactInv
  <1> QED
    BY <1>5, <1>7, <1>9, <1>13, <1>14 DEF PrepInv

---------------------------------------------------------------------------
(* The end of a run, and the results.                                      *)

(* What threads report is what was used, if tapes use what they declare.   *)
LEMMA Reported ==
  ASSUME TypeInv, ExactInv, \A t \in Helpers : job[t] = None
  PROVE  Sum \in Nat /\ (setup.exact => Sum = usage)
  <1>1. /\ \A t \in Helpers : actual[t] \in Nat
        /\ usage \in Nat /\ skipped \in Nat /\ skipped <= usage /\ MaxUse \in Nat
    BY SizeFacts DEF TypeInv
  <1>2. IsFiniteSet(Helpers) /\ Helpers \in SUBSET Helpers
    BY SizeFacts
  <1>3. Total(actual, Helpers) \in Nat
    BY <1>1, <1>2, TotalNat
  <1>4. ASSUME NEW t \in Helpers PROVE Promised[t] = actual[t]
    <2>1. job[t].declared = 0 /\ actual[t] \in Nat
      BY <1>1, NoneFacts
    <2> QED
      BY <2>1 DEF Promised
  <1>5. Total(Promised, Helpers) = Total(actual, Helpers)
    <2>1. {} \in SUBSET Helpers /\ \A t \in {} : actual[t] \in Nat
      OBVIOUS
    <2>2. \A t \in Helpers : Promised[t] = IF t \in {} THEN actual[t] + actual[t] ELSE actual[t]
      BY <1>4
    <2> DEFINE p == Promised
               a == Total(actual, Helpers)
    <2>3. \A t \in Helpers : p[t] = IF t \in {} THEN actual[t] + actual[t] ELSE actual[t]
      BY <2>2
    <2> HIDE DEF p
    <2>4. Total(p, Helpers) = Total(actual, Helpers) + Total(actual, {})
      BY <1>1, <1>2, <2>1, <2>3, TotalAdd
    <2>5. Total(p, Helpers) = a + 0 /\ a \in Nat
      BY <1>3, <2>4, TotalEmpty
    <2> HIDE DEF a
    <2>6. Total(p, Helpers) = a
      BY <2>5
    <2> QED
      BY <2>6 DEF p, a
  <1> DEFINE a == Total(actual, Helpers)
  <1>6. Sum = usage - skipped + a /\ a \in Nat
    BY <1>3 DEF Sum, MainUsage
  <1>7. setup.exact => skipped = a
    BY <1>5 DEF ExactInv
  <1> HIDE DEF a
  <1> QED
    BY <1>1, <1>6, <1>7

(* Pruning removes what was used, and at most the rest of a block.         *)
LEMMA StepPrune == PrepInv /\ Prune => PrepInv'
  <1> SUFFICES ASSUME PrepInv, Prune PROVE PrepInv'
    OBVIOUS
  <1>0. TypeInv /\ JobInv /\ ReaderInv /\ UsedInv /\ ExactInv
    BY DEF PrepInv
  <1> DEFINE w == Seek(AtFront, Sum).next
  <1>1. /\ \A t \in Helpers : job[t] = None
        /\ run < MaxRuns
        /\ start' = start + w /\ run' = run + 1
        /\ reader' = [t \in Threads |-> AtFront]
        /\ usage' = 0 /\ skipped' = 0
        /\ actual' = [t \in Helpers |-> 0]
        /\ used' = Unused
        /\ spent' = spent \cup {e \in Elements : used[e] > 0}
        /\ UNCHANGED <<setup, job, stale>>
    BY DEF Prune
  <1>2. /\ Sum \in Nat /\ (setup.exact => Sum = usage)
        /\ start \in Nat /\ run \in Nat \ {0} /\ usage \in Nat /\ usage <= MaxUse
        /\ Block \in Nat \ {0} /\ MaxUse \in Nat /\ MaxRuns \in Nat
    BY <1>0, <1>1, Reported, SizeFacts DEF TypeInv
  <1>3. w \in Nat /\ Sum <= w /\ w - Sum <= (IF setup.edabits THEN Block - 1 ELSE 0)
    BY <1>2, Pruned
  <1> HIDE DEF w
  <1>4. TypeInv'
    <2>1. actual' \in [Helpers -> Nat] /\ DOMAIN reader' = Threads /\ usage' \in 0 .. MaxUse
          /\ skipped' \in 0 .. usage' /\ start' \in Nat /\ run' \in Nat \ {0}
      BY <1>1, <1>2, <1>3
    <2> QED
      BY <1>0, <1>1, <2>1 DEF TypeInv
  <1>5. \A t \in Helpers : Share(t)' = {}
    <2>1. ASSUME NEW t \in Helpers PROVE Share(t)' = {}
      <3>1. job'[t].pos = -1 /\ job'[t].declared = 0
        BY <1>1, NoneFacts
      <3>2. Share(t)' = start' + (-1) .. start' + (-1) + 0 - 1
        BY <3>1 DEF Share
      <3>3. \A k \in Nat : k + (-1) .. k + (-1) + 0 - 1 = {}
        OBVIOUS
      <3> QED
        BY <1>1, <1>2, <1>3, <3>2, <3>3
    <2> QED
      BY <2>1
  <1>6. JobInv'
    BY <1>1, <1>5 DEF JobInv
  <1>7. ReaderInv'
    <2>1. At(AtFront, 0)'
      <3>1. Holds(AtFront, 0, 0)'
        BY <1>1, <1>2, <1>3 DEF Holds, Stretch, AtFront
      <3> QED
        BY <3>1 DEF At
    <2>2. reader'[0] = AtFront /\ \A t \in Helpers : reader'[t] = AtFront
      BY <1>1, SizeFacts
    <2> QED
      BY <1>1, <2>1, <2>2 DEF ReaderInv
  <1>8. UsedInv'
    BY <1>1 DEF UsedInv, Unused
  <1>9. ExactInv'
    <2> SUFFICES ASSUME setup.exact PROVE ExactInv'
      BY <1>1 DEF ExactInv
    <2>1. Total(Promised', Helpers) = 0
      <3> DEFINE p == Promised'
      <3>1. \A t \in Helpers : p[t] = 0
        BY <1>1, NoneFacts DEF Promised
      <3>2. IsFiniteSet(Helpers)
        BY SizeFacts
      <3> HIDE DEF p
      <3>3. Total(p, Helpers) = 0
        BY <3>1, <3>2, TotalZero
      <3> QED
        BY <3>3 DEF p
    <2>2. \A e \in Elements : e \notin start' .. start' + 0 - 1
      BY <1>2, <1>3, <1>1
    <2>3. ASSUME ~stale
          PROVE  /\ spent' \subseteq 0 .. start' - 1
                 /\ start' <= (run' - 1) * (MaxUse + Block)
                 /\ start' - Cardinality(spent') <= Lost'
      <3> DEFINE room == MaxUse + Block
                 before == (run - 1) * room
                 U == {e \in Elements : used[e] > 0}
      <3>1. Sum = usage /\ room \in Nat
        BY <1>2
      <3>2. before \in Nat /\ run * room = before + room /\ start <= before
            /\ (MaxRuns - run) * room >= room /\ MaxRuns * room = run * room + (MaxRuns - run) * room
        <4>1. run - 1 \in Nat /\ MaxRuns - run - 1 \in Nat /\ run \in Nat
          BY <1>1, <1>2
        <4>2. start <= before
          BY <1>0, <2>3 DEF ExactInv
        <4> HIDE DEF room
        <4>3. (run - 1) * room \in Nat /\ run * room = (run - 1) * room + room
          BY <3>1, <4>1
        <4>4. (MaxRuns - run) * room = (MaxRuns - run - 1) * room + room
              /\ (MaxRuns - run - 1) * room \in Nat
          BY <1>2, <3>1, <4>1
        <4>5. MaxRuns * room = run * room + (MaxRuns - run) * room
          BY <1>2, <3>1, <4>1
        <4> QED
          BY <3>1, <4>2, <4>3, <4>4, <4>5
      <3> HIDE DEF before
      (* The elements of this run are all there, as Elements is long enough. *)
      <3>3. \A e \in start .. start + usage - 1 : e \in Elements
        <4>1. start + usage <= MaxRuns * room
          <5> DEFINE a == run * room
                     c == (MaxRuns - run) * room
                     l == MaxRuns * room
          <5>1. a = before + room /\ c >= room /\ l = a + c /\ start <= before /\ before \in Nat
                /\ room \in Nat /\ usage <= room
            BY <1>2, <3>1, <3>2
          <5> HIDE DEF a, c, l, room
          <5>2. a \in Nat /\ c \in Int
            <6>1. c = (MaxRuns - run) * room /\ MaxRuns - run \in Int
              BY <1>2 DEF c
            <6> QED
              BY <5>1, <6>1
          <5>3. start + usage <= l
            BY <1>2, <5>1, <5>2
          <5> QED
            BY <5>3 DEF l
        <4>2. MaxRuns * room <= MaxRuns * (MaxUse + 2 * Block)
          <5>1. MaxRuns * (MaxUse + 2 * Block) = MaxRuns * room + MaxRuns * Block
            BY <1>2
          <5>2. MaxRuns * Block \in Nat /\ MaxRuns * room \in Nat
            BY <1>2
          <5> QED
            BY <5>1, <5>2
        <4> DEFINE l == MaxRuns * room
                   n == MaxRuns * (MaxUse + 2 * Block)
        <4>3. start + usage <= l /\ l <= n /\ l \in Int /\ n \in Int
          BY <1>2, <4>1, <4>2
        <4>4. Elements = 0 .. n
          BY DEF Elements
        <4> HIDE DEF l, n
        <4> QED
          BY <1>2, <4>3, <4>4
      <3>4. U = start .. start + usage - 1
        <4>1. \A e \in Elements : ~Taken(e)
          BY <1>0, <1>1, NoneFacts DEF Taken
        <4>2. ASSUME NEW e \in U PROVE e \in start .. start + usage - 1
          BY <1>0, <2>3 DEF UsedInv
        <4>3. ASSUME NEW e \in start .. start + usage - 1 PROVE e \in U
          <5>1. e \in Elements
            BY <3>3
          <5> QED
            BY <1>0, <2>3, <4>1, <5>1 DEF ExactInv
        <4> QED
          BY <4>2, <4>3
      <3>5. spent' = spent \cup U /\ spent \subseteq 0 .. start - 1
        BY <1>0, <1>1, <2>3 DEF ExactInv
      <3>6. IsFiniteSet(U) /\ Cardinality(U) = usage
        <4>1. IsFiniteSet(start .. start + usage - 1)
              /\ Cardinality(start .. start + usage - 1) = IF start > start + usage - 1 THEN 0 ELSE (start + usage - 1) - start + 1
          BY <1>2, FS_Interval
        <4>2. Cardinality(start .. start + usage - 1) = usage
          BY <1>2, <4>1
        <4> QED
          BY <3>4, <4>1, <4>2
      <3>7. IsFiniteSet(spent) /\ Cardinality(spent) \in Nat /\ spent \cap U = {}
        <4>1. IsFiniteSet(0 .. start - 1)
          BY <1>2, FS_Interval
        <4>2. IsFiniteSet(spent)
          BY <3>5, <4>1, FS_Subset
        <4>3. spent \cap U = {}
          BY <1>2, <3>4, <3>5
        <4> QED
          BY <4>2, <4>3, FS_CardinalityType
      <3>8. Cardinality(spent') = Cardinality(spent) + usage
        <4> HIDE DEF U
        <4>1. Cardinality(spent \cup U) = Cardinality(spent) + Cardinality(U) - Cardinality(spent \cap U)
          BY <3>6, <3>7, FS_Union
        <4>2. Cardinality(spent \cap U) = 0
          BY <3>7, FS_EmptySet
        <4> QED
          BY <1>2, <3>5, <3>6, <3>7, <4>1, <4>2
      <3> HIDE DEF U
      <3>9. spent' \subseteq 0 .. start' - 1
        <4>1. start \in Nat /\ w \in Nat /\ usage \in Nat /\ usage <= w /\ start' = start + w
          BY <1>1, <1>2, <1>3, <3>1
        <4>2. 0 .. start - 1 \subseteq 0 .. (start + w) - 1
              /\ start .. start + usage - 1 \subseteq 0 .. (start + w) - 1
          BY <4>1
        <4> QED
          BY <3>4, <3>5, <4>1, <4>2
      <3>10. start' <= (run' - 1) * (MaxUse + Block)
        <4>1. (run' - 1) * room = run * room
          <5>1. run' - 1 = run
            BY <1>1, <1>2
          <5> QED
            BY <5>1
        <4>2. w <= room
          BY <1>2, <1>3, <3>1
        <4>3. start' = start + w /\ run * room = before + room /\ start <= before /\ before \in Nat
          BY <1>1, <3>2
        <4> DEFINE a == run * room
        <4>4. a = before + room
          BY <4>3
        <4> HIDE DEF a, room
        <4>5. start' <= a
          BY <1>2, <1>3, <3>1, <4>2, <4>3, <4>4
        <4> QED
          BY <4>1, <4>5 DEF a, room
      <3>11. start' - Cardinality(spent') <= Lost'
        <4>1. start - Cardinality(spent) <= Lost
          BY <1>0, <2>3 DEF ExactInv
        <4>2. Lost' = Lost + (IF setup.edabits THEN Block - 1 ELSE 0) /\ Lost \in Nat
          <5>1. run' - 1 = run /\ setup' = setup /\ run - 1 \in Nat /\ Block - 1 \in Nat
            BY <1>1, <1>2
          <5>2. run * (Block - 1) = (run - 1) * (Block - 1) + (Block - 1) /\ (run - 1) * (Block - 1) \in Nat
            <6> DEFINE q == Block - 1
            <6>1. q \in Nat /\ run \in Nat /\ run - 1 \in Nat
              BY <1>2, <5>1
            <6> HIDE DEF q
            <6>2. run * q = (run - 1) * q + q /\ (run - 1) * q \in Nat
              BY <6>1
            <6> QED
              BY <6>2 DEF q
          <5>3. Lost' = IF setup.edabits THEN run * (Block - 1) ELSE 0
            BY <5>1 DEF Lost
          <5> QED
            BY <5>2, <5>3 DEF Lost
        <4> DEFINE k == Cardinality(spent)
        <4>3. start - k <= Lost /\ k \in Nat /\ Cardinality(spent') = k + usage
          BY <3>7, <3>8, <4>1
        <4> HIDE DEF k
        <4>4. start' = start + w /\ w - usage <= (IF setup.edabits THEN Block - 1 ELSE 0)
          BY <1>1, <1>3, <3>1
        <4> QED
          BY <1>2, <1>3, <4>2, <4>3, <4>4
      <3> QED
        BY <3>9, <3>10, <3>11
    <2> QED
      BY <1>1, <2>1, <2>2, <2>3 DEF ExactInv
  <1> QED
    BY <1>4, <1>6, <1>7, <1>8, <1>9 DEF PrepInv

(* Every step keeps the invariant.                                       *)
LEMMA PrepNext == PrepInv /\ [Next]_vars => PrepInv'
  <1> SUFFICES ASSUME PrepInv, [Next]_vars PROVE PrepInv'
    OBVIOUS
  <1>1. CASE UNCHANGED vars
    <2>1. \A t \in Helpers : Share(t)' = Share(t)
      BY <1>1 DEF vars, Share
    <2>2. \A e : Taken(e)' <=> Taken(e)
      BY <2>1 DEF Taken
    <2>3. \A r, p : At(r, p)' <=> At(r, p)
      BY <1>1 DEF vars, At, Holds, Stretch
    <2>4. Promised' = Promised /\ Lost' = Lost
      BY <1>1 DEF vars, Promised, Lost
    <2>5. TypeInv' /\ JobInv'
      BY <1>1, <2>1 DEF vars, PrepInv, TypeInv, JobInv
    <2>6. ReaderInv' /\ UsedInv'
      BY <1>1, <2>2, <2>3 DEF vars, PrepInv, ReaderInv, UsedInv
    <2>7. ExactInv'
      BY <1>1, <2>2, <2>4 DEF vars, PrepInv, ExactInv
    <2> QED
      BY <2>5, <2>6, <2>7 DEF PrepInv
  <1>2. CASE UseOne
    BY <1>2, StepUseOne
  <1>3. ASSUME NEW S \in SUBSET Helpers, NEW decl \in [S -> Declared], RunTapes(S, decl) PROVE PrepInv'
    <2>1. \A t \in S : decl[t] \in Nat
      BY SizeFacts
    <2> QED
      BY <1>3, <2>1, StepRunTapes
  <1>4. ASSUME NEW t \in Helpers, Execute(t) PROVE PrepInv'
    BY <1>4, StepExecute
  <1>5. CASE Prune
    BY <1>5, StepPrune
  <1> QED
    BY <1>1, <1>2, <1>3, <1>4, <1>5 DEF Next

LEMMA PrepAlways == Spec => []PrepInv
  BY PrepInit, PrepNext, PTL DEF Spec

(* Every thread reads the elements reserved for it and no others, so that  *)
(* none is used twice in a run, whatever the number of threads, the size   *)
(* of blocks and the order in which tapes run, as long as no seek meets    *)
(* the rest of a block (run_tapes and Sub_Data_Files::seekg).              *)
THEOREM SharesApart == Spec => []TapesApart
  <1>1. PrepInv => TapesApart
    BY DEF PrepInv, UsedInv, TapesApart
  <1> QED
    BY <1>1, PrepAlways, PTL

(* If tapes use what they declare, the usage that stop_threads adds up is  *)
(* the position of the main tape, and prune removes all that was used.     *)
THEOREM SpentRemoved == Spec => []NothingSpentAhead
  <1>1. PrepInv => NothingSpentAhead
    <2> SUFFICES ASSUME PrepInv, setup.exact, ~stale, NEW e \in spent PROVE e < start
      BY DEF NothingSpentAhead
    <2>1. e \in 0 .. start - 1 /\ start \in Nat
      BY DEF PrepInv, ExactInv, TypeInv
    <2> QED
      BY <2>1
  <1> QED
    BY <1>1, PrepAlways, PTL

(* And it removes no more than that but the rest of one block a run.       *)
THEOREM LittleWasted == Spec => []NothingWasted
  <1>1. PrepInv => NothingWasted
    BY DEF PrepInv, ExactInv, Lost, NothingWasted
  <1> QED
    BY <1>1, PrepAlways, PTL
===========================================================================
