--------------------------- MODULE AlgorithmsProofs ---------------------------
(***************************************************************************)
(* What the pure parts of the program promise, for every input that a      *)
(* theorem names, and with it the invariants of MCAlgorithms.              *)
(*                                                                         *)
(* A timeline is a fold over the results of a proof.  Walks turns a fold   *)
(* into the builders that it passes through, so that a claim about the     *)
(* last follows by induction over their positions; the sort at the end     *)
(* loses, invents and changes no bar (SortedTasks).  Of OpenVM the claim   *)
(* is that a batch of results keeps bars of one signature clear of one     *)
(* another (Batched), of ZisK that the bars are those of the records that  *)
(* reach into the proof (Covers).                                          *)
(*                                                                         *)
(* The cost of a profile is a fold as well, which wraps at every sample    *)
(* and agrees with the sum that wraps once (SumsAgree).                    *)
(*                                                                         *)
(* An envelope is read by a chain of readers that is walked along its      *)
(* encoding; the decoder of a journal is walked along the lines that were  *)
(* split (LinesDecoded), the writer of a relay along the characters of its *)
(* stream (Follow).                                                        *)
(***************************************************************************)
EXTENDS MCAlgorithms, ClusterConfigProofs

----------------------------------------------------------------------------
(* Sorts.                                                                  *)

\* The sort of a timeline loses and invents no bar, and puts them in order.
LEMMA SortedTasks ==
    ASSUME NEW B, NEW tasks \in Seq(B), \A b \in B : b.start \in Int /\ b.kind \in Int
    PROVE  /\ Sorted(tasks) \in Seq(B) /\ Len(Sorted(tasks)) = Len(tasks)
           /\ Ordered(Sorted(tasks))
           /\ \E f : /\ Permutes(f, DOMAIN tasks)
                     /\ Sorted(tasks) = [p \in DOMAIN tasks |-> tasks[f[p]]]
<1>. DEFINE D == DOMAIN tasks
            before(i, j) ==
               \/ tasks[i].start < tasks[j].start
               \/ /\ tasks[i].start = tasks[j].start
                  /\ tasks[i].kind < tasks[j].kind \/ (tasks[i].kind = tasks[j].kind /\ i < j)
            P == [x \in D |-> {y \in D : before(y, x)}]
            s == InOrder(D, before)
<1>1. D = 1..Len(tasks) /\ Len(tasks) \in Nat
  OBVIOUS
<1>2. IsFiniteSet(D) /\ Cardinality(D) = Len(tasks)
  <2>1. /\ IsFiniteSet(1..Len(tasks))
        /\ Cardinality(1..Len(tasks)) = IF 1 > Len(tasks) THEN 0 ELSE Len(tasks) - 1 + 1
    BY <1>1, FS_Interval
  <2>. QED
    BY <1>1, <2>1
<1>3. \A i \in D : tasks[i].start \in Int /\ tasks[i].kind \in Int /\ i \in Int /\ tasks[i] \in B
  BY <1>1
<1>4. \A x, y \in D : y \in P[x] <=> before(y, x)
  OBVIOUS
<1>5. /\ \A x \in D : ~before(x, x)
      /\ \A x, y, z \in D : before(x, y) /\ before(y, z) => before(x, z)
      /\ \A x, y \in D : x = y \/ before(x, y) \/ before(y, x)
  BY <1>3
<1>6. P \in [D -> SUBSET D]
  OBVIOUS
<1>7. \A x \in D : P[x] = {y \in D : before(y, x)}
  OBVIOUS
<1>8. s = [p \in 1..Cardinality(D) |-> CHOOSE x \in D : Cardinality({y \in D : before(y, x)}) = p - 1]
  BY DEF InOrder
<1>9. Sorted(tasks) = [p \in D |-> tasks[s[p]]]
  BY DEF Sorted
<1>. HIDE DEF P, s
<1>10. Precedes(D, P)
  <2>. HIDE DEF before, D
  <2>1. \A x, y \in D : y \in P[x] => P[y] \subseteq P[x]
    BY <1>4, <1>5, <1>6
  <2>. QED
    BY <1>4, <1>5, <1>6, <2>1 DEF Precedes
<1>. HIDE DEF D, before
<1>11. ASSUME NEW p \in 1..Cardinality(D)
       PROVE  s[p] \in D /\ Cardinality(P[s[p]]) = p - 1
  <2>1. PICK x \in D : Cardinality(P[x]) = p - 1
    BY <1>2, <1>10, Ranks
  <2>2. Cardinality({y \in D : before(y, x)}) = p - 1
    BY <1>7, <2>1
  <2>3. s[p] \in D /\ Cardinality({y \in D : before(y, s[p])}) = p - 1
    BY <1>8, <2>2
  <2>. QED
    BY <1>7, <2>3
<1>12. s \in [1..Cardinality(D) -> D]
  BY <1>8, <1>11
<1>13. SortsBy(s, D, P)
  BY <1>2, <1>10, <1>11, <1>12, Sorts
<1>14. Permutes(s, D)
  BY <1>1, <1>2, <1>13 DEF SortsBy, Permutes
<1>15. Sorted(tasks) \in Seq(B) /\ Len(Sorted(tasks)) = Len(tasks)
  <2>1. Sorted(tasks) \in [1..Len(tasks) -> B]
    BY <1>1, <1>3, <1>9, <1>14 DEF Permutes
  <2>. QED
    BY <1>1, <2>1
<1>16. Ordered(Sorted(tasks))
  <2>1. ASSUME NEW i \in D, NEW j \in D, i < j
        PROVE  LET a == Sorted(tasks)[i] b == Sorted(tasks)[j]
               IN  a.start < b.start \/ (a.start = b.start /\ a.kind <= b.kind)
    <3>1. s[i] \in D /\ s[j] \in D /\ s[i] \in P[s[j]]
      BY <1>1, <1>2, <1>13, <2>1 DEF SortsBy
    <3>2. before(s[i], s[j])
      BY <1>4, <3>1
    <3>3. Sorted(tasks)[i] = tasks[s[i]] /\ Sorted(tasks)[j] = tasks[s[j]]
      BY <1>9, <2>1
    <3>. QED
      BY <1>3, <3>1, <3>2, <3>3 DEF before
  <2>2. DOMAIN Sorted(tasks) = D
    BY <1>9
  <2>. QED
    BY <2>1, <2>2 DEF Ordered
<1>17. \E f : Permutes(f, D) /\ Sorted(tasks) = [p \in D |-> tasks[f[p]]]
  BY <1>9, <1>14
<1>. QED
  BY <1>15, <1>16, <1>17 DEF D

----------------------------------------------------------------------------
(* The builders that a fold over results passes through.                   *)

\* The builders that PlaceApps pass through.
LEMMA AppsPlaced ==
    ASSUME NEW A, NEW b \in A, NEW U, NEW s \in Seq(U), NEW start,
           \A a \in A, t \in U : PlaceApp(a, t, start) \in A
    PROVE  \E h \in [0..Len(s) -> A] :
              /\ h[0] = b
              /\ \A k \in 1..Len(s) : h[k] = PlaceApp(h[k - 1], s[k], start)
              /\ h[Len(s)] = PlaceApps(b, s, start)
<1>. DEFINE n == Len(s)
            F == [p \in A \X (1..n) |-> PlaceApp(p[1], s[p[2]], start)]
            Computes(g) ==
               g = [d \in SUBSET (1..n) |->
                       IF d = {} THEN b ELSE PlaceApp(g[d \ {Max(d)}], s[Max(d)], start)]
            iter == CHOOSE g : Computes(g)
<1>1. n \in Nat /\ DOMAIN s = 1..n /\ \A i \in 1..n : s[i] \in U
  OBVIOUS
<1>2. F \in [A \X (1..n) -> A]
  BY <1>1
<1>3. \A a \in A, i \in 1..n : F[<<a, i>>] = PlaceApp(a, s[i], start)
  OBVIOUS
<1>4. PlaceApps(b, s, start) = iter[1..n]
  BY <1>1 DEF PlaceApps, FoldLeft, MapThenFoldSet
<1>. HIDE DEF F, n
<1>5. Computes(iter)
  <2>1. PICK g \in [SUBSET (1..n) -> A] : Folds(g, n, b, F)
    BY <1>1, <1>2, FoldExists
  <2>2. ASSUME NEW d \in SUBSET (1..n), d # {}
        PROVE  F[<<g[d \ {Max(d)}], Max(d)>>] = PlaceApp(g[d \ {Max(d)}], s[Max(d)], start)
    <3>1. Max(d) \in 1..n
      BY <1>1, <2>2, LargestPosition
    <3>2. g[d \ {Max(d)}] \in A
      BY <2>1
    <3>. QED
      BY <1>3, <3>1, <3>2
  <2>3. Computes(g)
    BY <2>1, <2>2 DEF Folds
  <2>. HIDE DEF Computes
  <2>. QED
    BY <2>3
<1>. HIDE DEF iter
<1>6. iter[1..0] = b
  <2>1. 1..0 = {} /\ {} \in SUBSET (1..n)
    OBVIOUS
  <2>. QED
    BY <1>5, <2>1
<1>7. ASSUME NEW k \in 0..(n - 1), iter[1..k] \in A
      PROVE  iter[1..(k + 1)] = F[<<iter[1..k], k + 1>>]
  <2>. DEFINE d == 1..(k + 1)
  <2>1. d \in SUBSET (1..n) /\ d # {} /\ Max(d) = k + 1 /\ d \ {Max(d)} = 1..k
    BY <1>1, IntervalTop
  <2>. HIDE DEF d
  <2>2. iter[d] = PlaceApp(iter[d \ {Max(d)}], s[Max(d)], start)
    BY <1>5, <2>1
  <2>3. k + 1 \in 1..n
    BY <1>1
  <2>. QED
    BY <1>3, <1>7, <2>1, <2>2, <2>3 DEF d
<1>. HIDE DEF Computes
<1>8. PICK h \in [0..n -> A] :
         /\ h[0] = b /\ h[n] = iter[1..n]
         /\ \A k \in 1..n : h[k] = F[<<h[k - 1], k>>]
  <2>1. Follows(iter, A, n, b, F)
    BY <1>6, <1>7 DEF Follows
  <2>2. PICK h \in [0..n -> A] : Walk(h, iter, n, b, F)
    BY <1>1, <1>2, <2>1, Walks
  <2>. QED
    BY <2>2 DEF Walk
<1>9. \A k \in 1..n : h[k] = PlaceApp(h[k - 1], s[k], start)
  <2>1. \A k \in 1..n : h[k - 1] \in A
    BY <1>1, <1>8
  <2>. QED
    BY <1>3, <1>8, <2>1
<1>10. \E g \in [0..n -> A] :
          /\ g[0] = b
          /\ \A k \in 1..n : g[k] = PlaceApp(g[k - 1], s[k], start)
          /\ g[n] = PlaceApps(b, s, start)
  BY <1>4, <1>8, <1>9
<1>. QED
  BY <1>10 DEF n

\* The builders that PlaceLeaves pass through.
LEMMA LeavesPlaced ==
    ASSUME NEW A, NEW b \in A, NEW U, NEW s \in Seq(U), NEW start,
           \A a \in A, t \in U : PlaceLeaf(a, t, start) \in A
    PROVE  \E h \in [0..Len(s) -> A] :
              /\ h[0] = b
              /\ \A k \in 1..Len(s) : h[k] = PlaceLeaf(h[k - 1], s[k], start)
              /\ h[Len(s)] = PlaceLeaves(b, s, start)
<1>. DEFINE n == Len(s)
            F == [p \in A \X (1..n) |-> PlaceLeaf(p[1], s[p[2]], start)]
            Computes(g) ==
               g = [d \in SUBSET (1..n) |->
                       IF d = {} THEN b ELSE PlaceLeaf(g[d \ {Max(d)}], s[Max(d)], start)]
            iter == CHOOSE g : Computes(g)
<1>1. n \in Nat /\ DOMAIN s = 1..n /\ \A i \in 1..n : s[i] \in U
  OBVIOUS
<1>2. F \in [A \X (1..n) -> A]
  BY <1>1
<1>3. \A a \in A, i \in 1..n : F[<<a, i>>] = PlaceLeaf(a, s[i], start)
  OBVIOUS
<1>4. PlaceLeaves(b, s, start) = iter[1..n]
  BY <1>1 DEF PlaceLeaves, FoldLeft, MapThenFoldSet
<1>. HIDE DEF F, n
<1>5. Computes(iter)
  <2>1. PICK g \in [SUBSET (1..n) -> A] : Folds(g, n, b, F)
    BY <1>1, <1>2, FoldExists
  <2>2. ASSUME NEW d \in SUBSET (1..n), d # {}
        PROVE  F[<<g[d \ {Max(d)}], Max(d)>>] = PlaceLeaf(g[d \ {Max(d)}], s[Max(d)], start)
    <3>1. Max(d) \in 1..n
      BY <1>1, <2>2, LargestPosition
    <3>2. g[d \ {Max(d)}] \in A
      BY <2>1
    <3>. QED
      BY <1>3, <3>1, <3>2
  <2>3. Computes(g)
    BY <2>1, <2>2 DEF Folds
  <2>. HIDE DEF Computes
  <2>. QED
    BY <2>3
<1>. HIDE DEF iter
<1>6. iter[1..0] = b
  <2>1. 1..0 = {} /\ {} \in SUBSET (1..n)
    OBVIOUS
  <2>. QED
    BY <1>5, <2>1
<1>7. ASSUME NEW k \in 0..(n - 1), iter[1..k] \in A
      PROVE  iter[1..(k + 1)] = F[<<iter[1..k], k + 1>>]
  <2>. DEFINE d == 1..(k + 1)
  <2>1. d \in SUBSET (1..n) /\ d # {} /\ Max(d) = k + 1 /\ d \ {Max(d)} = 1..k
    BY <1>1, IntervalTop
  <2>. HIDE DEF d
  <2>2. iter[d] = PlaceLeaf(iter[d \ {Max(d)}], s[Max(d)], start)
    BY <1>5, <2>1
  <2>3. k + 1 \in 1..n
    BY <1>1
  <2>. QED
    BY <1>3, <1>7, <2>1, <2>2, <2>3 DEF d
<1>. HIDE DEF Computes
<1>8. PICK h \in [0..n -> A] :
         /\ h[0] = b /\ h[n] = iter[1..n]
         /\ \A k \in 1..n : h[k] = F[<<h[k - 1], k>>]
  <2>1. Follows(iter, A, n, b, F)
    BY <1>6, <1>7 DEF Follows
  <2>2. PICK h \in [0..n -> A] : Walk(h, iter, n, b, F)
    BY <1>1, <1>2, <2>1, Walks
  <2>. QED
    BY <2>2 DEF Walk
<1>9. \A k \in 1..n : h[k] = PlaceLeaf(h[k - 1], s[k], start)
  <2>1. \A k \in 1..n : h[k - 1] \in A
    BY <1>1, <1>8
  <2>. QED
    BY <1>3, <1>8, <2>1
<1>10. \E g \in [0..n -> A] :
          /\ g[0] = b
          /\ \A k \in 1..n : g[k] = PlaceLeaf(g[k - 1], s[k], start)
          /\ g[n] = PlaceLeaves(b, s, start)
  BY <1>4, <1>8, <1>9
<1>. QED
  BY <1>10 DEF n

\* The builders that PlaceInternals pass through.
LEMMA InternalsPlaced ==
    ASSUME NEW A, NEW b \in A, NEW U, NEW s \in Seq(U), NEW start,
           \A a \in A, t \in U : PlaceInternal(a, t, start) \in A
    PROVE  \E h \in [0..Len(s) -> A] :
              /\ h[0] = b
              /\ \A k \in 1..Len(s) : h[k] = PlaceInternal(h[k - 1], s[k], start)
              /\ h[Len(s)] = PlaceInternals(b, s, start)
<1>. DEFINE n == Len(s)
            F == [p \in A \X (1..n) |-> PlaceInternal(p[1], s[p[2]], start)]
            Computes(g) ==
               g = [d \in SUBSET (1..n) |->
                       IF d = {} THEN b ELSE PlaceInternal(g[d \ {Max(d)}], s[Max(d)], start)]
            iter == CHOOSE g : Computes(g)
<1>1. n \in Nat /\ DOMAIN s = 1..n /\ \A i \in 1..n : s[i] \in U
  OBVIOUS
<1>2. F \in [A \X (1..n) -> A]
  BY <1>1
<1>3. \A a \in A, i \in 1..n : F[<<a, i>>] = PlaceInternal(a, s[i], start)
  OBVIOUS
<1>4. PlaceInternals(b, s, start) = iter[1..n]
  BY <1>1 DEF PlaceInternals, FoldLeft, MapThenFoldSet
<1>. HIDE DEF F, n
<1>5. Computes(iter)
  <2>1. PICK g \in [SUBSET (1..n) -> A] : Folds(g, n, b, F)
    BY <1>1, <1>2, FoldExists
  <2>2. ASSUME NEW d \in SUBSET (1..n), d # {}
        PROVE  F[<<g[d \ {Max(d)}], Max(d)>>] = PlaceInternal(g[d \ {Max(d)}], s[Max(d)], start)
    <3>1. Max(d) \in 1..n
      BY <1>1, <2>2, LargestPosition
    <3>2. g[d \ {Max(d)}] \in A
      BY <2>1
    <3>. QED
      BY <1>3, <3>1, <3>2
  <2>3. Computes(g)
    BY <2>1, <2>2 DEF Folds
  <2>. HIDE DEF Computes
  <2>. QED
    BY <2>3
<1>. HIDE DEF iter
<1>6. iter[1..0] = b
  <2>1. 1..0 = {} /\ {} \in SUBSET (1..n)
    OBVIOUS
  <2>. QED
    BY <1>5, <2>1
<1>7. ASSUME NEW k \in 0..(n - 1), iter[1..k] \in A
      PROVE  iter[1..(k + 1)] = F[<<iter[1..k], k + 1>>]
  <2>. DEFINE d == 1..(k + 1)
  <2>1. d \in SUBSET (1..n) /\ d # {} /\ Max(d) = k + 1 /\ d \ {Max(d)} = 1..k
    BY <1>1, IntervalTop
  <2>. HIDE DEF d
  <2>2. iter[d] = PlaceInternal(iter[d \ {Max(d)}], s[Max(d)], start)
    BY <1>5, <2>1
  <2>3. k + 1 \in 1..n
    BY <1>1
  <2>. QED
    BY <1>3, <1>7, <2>1, <2>2, <2>3 DEF d
<1>. HIDE DEF Computes
<1>8. PICK h \in [0..n -> A] :
         /\ h[0] = b /\ h[n] = iter[1..n]
         /\ \A k \in 1..n : h[k] = F[<<h[k - 1], k>>]
  <2>1. Follows(iter, A, n, b, F)
    BY <1>6, <1>7 DEF Follows
  <2>2. PICK h \in [0..n -> A] : Walk(h, iter, n, b, F)
    BY <1>1, <1>2, <2>1, Walks
  <2>. QED
    BY <2>2 DEF Walk
<1>9. \A k \in 1..n : h[k] = PlaceInternal(h[k - 1], s[k], start)
  <2>1. \A k \in 1..n : h[k - 1] \in A
    BY <1>1, <1>8
  <2>. QED
    BY <1>3, <1>8, <2>1
<1>10. \E g \in [0..n -> A] :
          /\ g[0] = b
          /\ \A k \in 1..n : g[k] = PlaceInternal(g[k - 1], s[k], start)
          /\ g[n] = PlaceInternals(b, s, start)
  BY <1>4, <1>8, <1>9
<1>. QED
  BY <1>10 DEF n

\* The builders that PlaceProofs passes through, when it stays in A.
ProofsKept(A, U, task, start, with) == \A a \in A, t \in U : PlaceProof(a, task, t, start, with) \in A

ProofsWalk(A, b, s, task, start, with) ==
    \E h \in [0..Len(s) -> A] :
       /\ h[0] = b
       /\ \A k \in 1..Len(s) : h[k] = PlaceProof(h[k - 1], task, s[k], start, with)
       /\ h[Len(s)] = PlaceProofs(b, task, start, with)

LEMMA ProofsPlaced ==
    ASSUME NEW A, NEW b \in A, NEW U, NEW s \in Seq(U), NEW task, NEW start, NEW with, task.proofs = s,
           ProofsKept(A, U, task, start, with)
    PROVE  ProofsWalk(A, b, s, task, start, with)
<1>. DEFINE n == Len(s)
            F == [p \in A \X (1..n) |-> PlaceProof(p[1], task, s[p[2]], start, with)]
            Computes(g) ==
               g = [d \in SUBSET (1..n) |->
                       IF d = {} THEN b ELSE PlaceProof(g[d \ {Max(d)}], task, s[Max(d)], start, with)]
            iter == CHOOSE g : Computes(g)
<1>0. \A a \in A, t \in U : PlaceProof(a, task, t, start, with) \in A
  BY DEF ProofsKept
<1>1. n \in Nat /\ DOMAIN s = 1..n /\ \A i \in 1..n : s[i] \in U
  OBVIOUS
<1>2. F \in [A \X (1..n) -> A]
  BY <1>0, <1>1
<1>3. \A a \in A, i \in 1..n : F[<<a, i>>] = PlaceProof(a, task, s[i], start, with)
  OBVIOUS
<1>4. PlaceProofs(b, task, start, with) = iter[1..n]
  BY <1>1 DEF PlaceProofs, FoldLeft, MapThenFoldSet
<1>. HIDE DEF F, n
<1>5. Computes(iter)
  <2>1. PICK g \in [SUBSET (1..n) -> A] : Folds(g, n, b, F)
    BY <1>1, <1>2, FoldExists
  <2>2. ASSUME NEW d \in SUBSET (1..n), d # {}
        PROVE  F[<<g[d \ {Max(d)}], Max(d)>>] = PlaceProof(g[d \ {Max(d)}], task, s[Max(d)], start, with)
    <3>1. Max(d) \in 1..n
      BY <1>1, <2>2, LargestPosition
    <3>2. g[d \ {Max(d)}] \in A
      BY <2>1
    <3>. QED
      BY <1>3, <3>1, <3>2
  <2>3. Computes(g)
    BY <2>1, <2>2 DEF Folds
  <2>. HIDE DEF Computes
  <2>. QED
    BY <2>3
<1>. HIDE DEF iter
<1>6. iter[1..0] = b
  <2>1. 1..0 = {} /\ {} \in SUBSET (1..n)
    OBVIOUS
  <2>. QED
    BY <1>5, <2>1
<1>7. ASSUME NEW k \in 0..(n - 1), iter[1..k] \in A
      PROVE  iter[1..(k + 1)] = F[<<iter[1..k], k + 1>>]
  <2>. DEFINE d == 1..(k + 1)
  <2>1. d \in SUBSET (1..n) /\ d # {} /\ Max(d) = k + 1 /\ d \ {Max(d)} = 1..k
    BY <1>1, IntervalTop
  <2>. HIDE DEF d
  <2>2. iter[d] = PlaceProof(iter[d \ {Max(d)}], task, s[Max(d)], start, with)
    BY <1>5, <2>1
  <2>3. k + 1 \in 1..n
    BY <1>1
  <2>. QED
    BY <1>3, <1>7, <2>1, <2>2, <2>3 DEF d
<1>. HIDE DEF Computes
<1>8. PICK h \in [0..n -> A] :
         /\ h[0] = b /\ h[n] = iter[1..n]
         /\ \A k \in 1..n : h[k] = F[<<h[k - 1], k>>]
  <2>1. Follows(iter, A, n, b, F)
    BY <1>6, <1>7 DEF Follows
  <2>2. PICK h \in [0..n -> A] : Walk(h, iter, n, b, F)
    BY <1>1, <1>2, <2>1, Walks
  <2>. QED
    BY <2>2 DEF Walk
<1>9. \A k \in 1..n : h[k] = PlaceProof(h[k - 1], task, s[k], start, with)
  <2>1. \A k \in 1..n : h[k - 1] \in A
    BY <1>1, <1>8
  <2>. QED
    BY <1>3, <1>8, <2>1
<1>10. \E g \in [0..n -> A] :
          /\ g[0] = b
          /\ \A k \in 1..n : g[k] = PlaceProof(g[k - 1], task, s[k], start, with)
          /\ g[n] = PlaceProofs(b, task, start, with)
  BY <1>4, <1>8, <1>9
<1>. QED
  BY <1>10 DEF n, ProofsWalk

\* The builders that PlaceTasks passes through, when it stays in A.
TasksKept(A, U, start, with) == \A a \in A, t \in U : PlaceProofs(a, t, start, with) \in A

TasksWalk(A, b, s, start, with) ==
    \E h \in [0..Len(s) -> A] :
       /\ h[0] = b
       /\ \A k \in 1..Len(s) : h[k] = PlaceProofs(h[k - 1], s[k], start, with)
       /\ h[Len(s)] = PlaceTasks(b, s, start, with)

LEMMA TasksPlaced ==
    ASSUME NEW A, NEW b \in A, NEW U, NEW s \in Seq(U), NEW start, NEW with,
           TasksKept(A, U, start, with)
    PROVE  TasksWalk(A, b, s, start, with)
<1>. DEFINE n == Len(s)
            F == [p \in A \X (1..n) |-> PlaceProofs(p[1], s[p[2]], start, with)]
            Computes(g) ==
               g = [d \in SUBSET (1..n) |->
                       IF d = {} THEN b ELSE PlaceProofs(g[d \ {Max(d)}], s[Max(d)], start, with)]
            iter == CHOOSE g : Computes(g)
<1>0. \A a \in A, t \in U : PlaceProofs(a, t, start, with) \in A
  BY DEF TasksKept
<1>1. n \in Nat /\ DOMAIN s = 1..n /\ \A i \in 1..n : s[i] \in U
  OBVIOUS
<1>2. F \in [A \X (1..n) -> A]
  BY <1>0, <1>1
<1>3. \A a \in A, i \in 1..n : F[<<a, i>>] = PlaceProofs(a, s[i], start, with)
  OBVIOUS
<1>4. PlaceTasks(b, s, start, with) = iter[1..n]
  BY <1>1 DEF PlaceTasks, FoldLeft, MapThenFoldSet
<1>. HIDE DEF F, n
<1>5. Computes(iter)
  <2>1. PICK g \in [SUBSET (1..n) -> A] : Folds(g, n, b, F)
    BY <1>1, <1>2, FoldExists
  <2>2. ASSUME NEW d \in SUBSET (1..n), d # {}
        PROVE  F[<<g[d \ {Max(d)}], Max(d)>>] = PlaceProofs(g[d \ {Max(d)}], s[Max(d)], start, with)
    <3>1. Max(d) \in 1..n
      BY <1>1, <2>2, LargestPosition
    <3>2. g[d \ {Max(d)}] \in A
      BY <2>1
    <3>. QED
      BY <1>3, <3>1, <3>2
  <2>3. Computes(g)
    BY <2>1, <2>2 DEF Folds
  <2>. HIDE DEF Computes
  <2>. QED
    BY <2>3
<1>. HIDE DEF iter
<1>6. iter[1..0] = b
  <2>1. 1..0 = {} /\ {} \in SUBSET (1..n)
    OBVIOUS
  <2>. QED
    BY <1>5, <2>1
<1>7. ASSUME NEW k \in 0..(n - 1), iter[1..k] \in A
      PROVE  iter[1..(k + 1)] = F[<<iter[1..k], k + 1>>]
  <2>. DEFINE d == 1..(k + 1)
  <2>1. d \in SUBSET (1..n) /\ d # {} /\ Max(d) = k + 1 /\ d \ {Max(d)} = 1..k
    BY <1>1, IntervalTop
  <2>. HIDE DEF d
  <2>2. iter[d] = PlaceProofs(iter[d \ {Max(d)}], s[Max(d)], start, with)
    BY <1>5, <2>1
  <2>3. k + 1 \in 1..n
    BY <1>1
  <2>. QED
    BY <1>3, <1>7, <2>1, <2>2, <2>3 DEF d
<1>. HIDE DEF Computes
<1>8. PICK h \in [0..n -> A] :
         /\ h[0] = b /\ h[n] = iter[1..n]
         /\ \A k \in 1..n : h[k] = F[<<h[k - 1], k>>]
  <2>1. Follows(iter, A, n, b, F)
    BY <1>6, <1>7 DEF Follows
  <2>2. PICK h \in [0..n -> A] : Walk(h, iter, n, b, F)
    BY <1>1, <1>2, <2>1, Walks
  <2>. QED
    BY <2>2 DEF Walk
<1>9. \A k \in 1..n : h[k] = PlaceProofs(h[k - 1], s[k], start, with)
  <2>1. \A k \in 1..n : h[k - 1] \in A
    BY <1>1, <1>8
  <2>. QED
    BY <1>3, <1>8, <2>1
<1>10. \E g \in [0..n -> A] :
          /\ g[0] = b
          /\ \A k \in 1..n : g[k] = PlaceProofs(g[k - 1], s[k], start, with)
          /\ g[n] = PlaceTasks(b, s, start, with)
  BY <1>4, <1>8, <1>9
<1>. QED
  BY <1>10 DEF n, TasksWalk

----------------------------------------------------------------------------
(* The builder.                                                            *)

BarsOf(ix, Ids, Notes) ==
    [kind : Int, worker : Range(ix) \cup {1}, id : Ids, start : Nat, duration : Nat \ {0}, sections : Notes]

\* The builders over the workers ws, which ix finds.
BuildersOf(ws, ix, Ids, Notes) ==
    [workers : {ws}, index : {ix}, tasks : Seq(BarsOf(ix, Ids, Notes)), unlisted : BOOLEAN]

\* b has no bar, numbers the n registrations and finds the workers by their keys.
Numbers(b, n, r, Ids, Notes) ==
    /\ b \in BuildersOf(b.workers, b.index, Ids, Notes)
    /\ b.tasks = <<>> /\ b.unlisted = FALSE
    /\ DOMAIN b.workers = 1..n
    /\ \A i \in 1..n : b.workers[i].name = r[i].name /\ b.workers[i].node = Node(r, i)
    /\ DOMAIN b.index = {r[i].key : i \in 1..n}
    /\ \A k \in DOMAIN b.index : b.index[k] \in 1..n /\ r[b.index[k]].key = k

LEMMA NewBuilder ==
    ASSUME NEW n \in Nat, NEW r, DOMAIN r = 1..n, NEW Ids, NEW Notes
    PROVE  Numbers(NewPipelineBuilder(r), n, r, Ids, Notes)
<1>. DEFINE b == NewPipelineBuilder(r)
<1>1. /\ b.tasks = <<>> /\ b.unlisted = FALSE
      /\ DOMAIN b.workers = 1..n
      /\ \A i \in 1..n : b.workers[i].name = r[i].name /\ b.workers[i].node = Node(r, i)
      /\ DOMAIN b.index = {r[i].key : i \in 1..n}
  BY DEF NewPipelineBuilder
<1>2. b \in BuildersOf(b.workers, b.index, Ids, Notes)
  BY DEF NewPipelineBuilder, BuildersOf
<1>3. ASSUME NEW k \in DOMAIN b.index
      PROVE  b.index[k] \in 1..n /\ r[b.index[k]].key = k
  <2>. DEFINE S == {i \in 1..n : r[i].key = k}
  <2>1. S \in SUBSET (1..n) /\ S # {}
    BY <1>1
  <2>2. Max(S) \in S /\ \A y \in S : Max(S) >= y
    <3>. HIDE DEF S
    <3>. QED
      BY <2>1, LargestPosition
  <2>3. \E i \in 1..n : r[i].key = k /\ \A j \in 1..n : r[j].key = k => j <= i
    BY <2>2
  <2>4. b.index[k] = CHOOSE i \in 1..n : r[i].key = k /\ \A j \in 1..n : r[j].key = k => j <= i
    BY <1>1 DEF NewPipelineBuilder
  <2>. QED
    BY <2>3, <2>4
<1>. HIDE DEF b
<1>4. /\ b \in BuildersOf(b.workers, b.index, Ids, Notes)
      /\ b.tasks = <<>> /\ b.unlisted = FALSE
      /\ DOMAIN b.workers = 1..n
      /\ \A i \in 1..n : b.workers[i].name = r[i].name /\ b.workers[i].node = Node(r, i)
      /\ DOMAIN b.index = {r[i].key : i \in 1..n}
      /\ \A k \in DOMAIN b.index : b.index[k] \in 1..n /\ r[b.index[k]].key = k
  BY <1>1, <1>2, <1>3
<1>. QED
  BY <1>4 DEF Numbers, b

\* What is placed lies within the proof, and has a length or none.
LEMMA PlacedWithin ==
    ASSUME NEW end \in Int, NEW duration \in Int
    PROVE  /\ Placed(end, duration) \in Nat /\ EndOf(end) \in Nat
           /\ Placed(end, duration) <= EndOf(end)
           /\ HasLength(end, duration) <=> Placed(end, duration) < EndOf(end)
           /\ HasLength(end, duration) => Placed(end, duration) = AtLeast(end - duration, 0)
           /\ EndOf(end) = AtLeast(end, 0)
BY DEF Placed, EndOf, HasLength, StartOf, AtLeast

\* The bar that is placed.
BarOf(ix, kind, worker, id, end, duration, sections) ==
    [kind |-> kind, worker |-> IF worker \in DOMAIN ix THEN ix[worker] ELSE 1, id |-> id,
     start |-> Placed(end, duration), duration |-> EndOf(end) - Placed(end, duration),
     sections |-> sections]

\* What Place makes of a builder.
Places(ws, ix, Ids, Notes, b, kind, worker, id, end, duration, sections) ==
    LET c == Place(b, kind, worker, id, end, duration, sections)
        bar == BarOf(ix, kind, worker, id, end, duration, sections)
    IN  /\ c \in BuildersOf(ws, ix, Ids, Notes)
        /\ c.unlisted = (b.unlisted \/ worker \notin DOMAIN ix)
        /\ c.tasks = IF HasLength(end, duration) THEN Append(b.tasks, bar) ELSE b.tasks

LEMMA PlaceAdds ==
    ASSUME NEW ws, NEW ix, NEW Ids, NEW Notes, NEW b \in BuildersOf(ws, ix, Ids, Notes),
           NEW kind \in Int, NEW worker, NEW id \in Ids, NEW end \in Int, NEW duration \in Int,
           NEW sections \in Notes
    PROVE  Places(ws, ix, Ids, Notes, b, kind, worker, id, end, duration, sections)
<1>. DEFINE c == Place(b, kind, worker, id, end, duration, sections)
            bar == BarOf(ix, kind, worker, id, end, duration, sections)
            B == BarsOf(ix, Ids, Notes)
            tasks == IF HasLength(end, duration) THEN Append(b.tasks, bar) ELSE b.tasks
            unlisted == b.unlisted \/ worker \notin DOMAIN ix
<1>1. /\ b.workers = ws /\ b.index = ix /\ b.tasks \in Seq(B) /\ b.unlisted \in BOOLEAN
      /\ b \in [workers : {ws}, index : {ix}, tasks : Seq(B), unlisted : BOOLEAN]
  BY DEF BuildersOf
<1>2. c = [b EXCEPT !.unlisted = unlisted, !.tasks = tasks]
  BY <1>1 DEF Place, BarOf
<1>3. ASSUME HasLength(end, duration)
      PROVE  bar \in B
  <2>1. /\ Placed(end, duration) \in Nat
        /\ EndOf(end) - Placed(end, duration) \in Nat \ {0}
    <3>1. /\ Placed(end, duration) \in Nat /\ EndOf(end) \in Nat
          /\ Placed(end, duration) < EndOf(end)
      BY <1>3, PlacedWithin
    <3>2. \A x, y \in Nat : x < y => y - x \in Nat \ {0}
      OBVIOUS
    <3>. QED
      BY <3>1, <3>2
  <2>2. (IF worker \in DOMAIN ix THEN ix[worker] ELSE 1) \in Range(ix) \cup {1}
    BY DEF Range
  <2>. QED
    BY <2>1, <2>2 DEF BarOf, BarsOf
<1>4. tasks \in Seq(B)
  <2>. HIDE DEF bar, B
  <2>. QED
    BY <1>1, <1>3
<1>5. unlisted \in BOOLEAN
  OBVIOUS
<1>. HIDE DEF c, bar, B, tasks, unlisted
<1>6. c \in [workers : {ws}, index : {ix}, tasks : Seq(B), unlisted : BOOLEAN]
  BY <1>1, <1>2, <1>4, <1>5
<1>7. c.unlisted = unlisted /\ c.tasks = tasks
  BY <1>1, <1>2
<1>8. c \in BuildersOf(ws, ix, Ids, Notes)
  BY <1>6 DEF BuildersOf, B
<1>. QED
  BY <1>7, <1>8 DEF Places, c, bar, tasks, unlisted

----------------------------------------------------------------------------
(* The timelines of OpenVM.                                                *)

\* The bars of one signature share a worker, an id and a row group.
Signature(bar) == <<bar.worker, bar.id, OpenvmRow[bar.kind]>>

SignatureOf(ix, worker, id, row) == <<IF worker \in DOMAIN ix THEN ix[worker] ELSE 1, id, row>>

Clear(a, b) == EndOfBar(a) <= b.start \/ EndOfBar(b) <= a.start

\* The bars that c has and b has not.
Fresh(b, c) == (Len(b.tasks) + 1)..Len(c.tasks)

Extends(b, c) ==
    /\ Len(b.tasks) <= Len(c.tasks)
    /\ \A i \in DOMAIN b.tasks : c.tasks[i] = b.tasks[i]

\* c has bars of one signature that b has not, clear of one another and from
\* lo to hi.
AddsWithin(b, c, signature, lo, hi) ==
    /\ Extends(b, c)
    /\ \A i \in Fresh(b, c) :
          /\ Signature(c.tasks[i]) = signature
          /\ lo <= c.tasks[i].start /\ EndOfBar(c.tasks[i]) <= hi
    /\ \A i, j \in Fresh(b, c) : i # j => Clear(c.tasks[i], c.tasks[j])

LEMMA AddsNone ==
    ASSUME NEW b, Len(b.tasks) \in Nat, NEW signature, NEW lo, NEW hi
    PROVE  AddsWithin(b, b, signature, lo, hi)
BY DEF AddsWithin, Extends, Fresh

\* A bar between from and to: the tests of its ends are arithmetic.
LEMMA BarEnds ==
    ASSUME NEW x, x.start \in Nat, x.duration \in Nat
    PROVE  EndOfBar(x) \in Nat
BY DEF EndOfBar

LEMMA Widen ==
    ASSUME NEW x \in Int, NEW y \in Int, NEW lo \in Int, NEW hi \in Int, NEW from \in Int, NEW to \in Int,
           lo <= x, y <= hi, from <= lo, hi <= to
    PROVE  /\ from <= x /\ y <= to
           /\ \A u, v \in Int : v <= lo \/ hi <= u => v <= x \/ y <= u
OBVIOUS

\* What is placed lies to one side of lo and hi, and with them between from and to.
Beside(end, duration, lo, hi, from, to) ==
    /\ from <= lo /\ hi <= to
    /\ HasLength(end, duration) =>
          /\ EndOf(end) <= lo \/ hi <= Placed(end, duration)
          /\ from <= Placed(end, duration) /\ EndOf(end) <= to

\* A bar that lies to one side of those that were added joins them.
LEMMA AddsOne ==
    ASSUME NEW ws, NEW ix, NEW Ids, NEW Notes,
           NEW b, Len(b.tasks) \in Nat, DOMAIN b.tasks = 1..Len(b.tasks),
           NEW c \in BuildersOf(ws, ix, Ids, Notes),
           NEW kind \in Int, NEW worker, NEW id \in Ids, NEW end \in Int, NEW duration \in Int,
           NEW sections \in Notes, NEW row, row = OpenvmRow[kind],
           NEW lo \in Int, NEW hi \in Int, NEW from \in Int, NEW to \in Int,
           AddsWithin(b, c, SignatureOf(ix, worker, id, row), lo, hi),
           Beside(end, duration, lo, hi, from, to)
    PROVE  AddsWithin(b, Place(c, kind, worker, id, end, duration, sections),
                      SignatureOf(ix, worker, id, row), from, to)
<1>. DEFINE d == Place(c, kind, worker, id, end, duration, sections)
            bar == BarOf(ix, kind, worker, id, end, duration, sections)
            s == SignatureOf(ix, worker, id, row)
            B == BarsOf(ix, Ids, Notes)
            n == Len(c.tasks)
<1>0. /\ from <= lo /\ hi <= to
      /\ HasLength(end, duration) =>
            /\ EndOf(end) <= lo \/ hi <= Placed(end, duration)
            /\ from <= Placed(end, duration) /\ EndOf(end) <= to
  BY DEF Beside
<1>1. d.tasks = IF HasLength(end, duration) THEN Append(c.tasks, bar) ELSE c.tasks
  <2>1. Places(ws, ix, Ids, Notes, c, kind, worker, id, end, duration, sections)
    BY PlaceAdds
  <2>. QED
    BY <2>1 DEF Places
<1>2. c.tasks \in Seq(B) /\ n \in Nat /\ DOMAIN c.tasks = 1..n
  BY DEF BuildersOf
<1>3. \A i \in 1..n : c.tasks[i].start \in Nat /\ c.tasks[i].duration \in Nat
  <2>1. \A x \in B : x.start \in Nat /\ x.duration \in Nat
    BY DEF BarsOf
  <2>. HIDE DEF B
  <2>. QED
    BY <1>2, <2>1
<1>4. /\ bar.start = Placed(end, duration) /\ EndOfBar(bar) = EndOf(end) /\ Signature(bar) = s
      /\ bar.start \in Nat /\ EndOfBar(bar) \in Nat
  <2>1. Placed(end, duration) \in Nat /\ EndOf(end) \in Nat
    BY PlacedWithin
  <2>2. \A x, y \in Nat : x + (y - x) = y
    OBVIOUS
  <2>. QED
    BY <2>1, <2>2 DEF BarOf, EndOfBar, Signature, SignatureOf
<1>. HIDE DEF d, bar, s, B
<1>5. /\ Len(b.tasks) <= n
      /\ \A i \in DOMAIN b.tasks : c.tasks[i] = b.tasks[i]
      /\ \A i \in (Len(b.tasks) + 1)..n :
            /\ Signature(c.tasks[i]) = s
            /\ lo <= c.tasks[i].start /\ EndOfBar(c.tasks[i]) <= hi
      /\ \A i, j \in (Len(b.tasks) + 1)..n : i # j => Clear(c.tasks[i], c.tasks[j])
  BY DEF AddsWithin, Extends, Fresh, s
<1>6. CASE ~HasLength(end, duration)
  <2>1. d.tasks = c.tasks
    BY <1>1, <1>6
  <2>2. \A i \in (Len(b.tasks) + 1)..n : from <= c.tasks[i].start /\ EndOfBar(c.tasks[i]) <= to
    <3>1. ASSUME NEW i \in (Len(b.tasks) + 1)..n
          PROVE  from <= c.tasks[i].start /\ EndOfBar(c.tasks[i]) <= to
      <4>. DEFINE x == c.tasks[i]
      <4>1. i \in 1..n
        BY <1>2
      <4>2. x.start \in Int /\ EndOfBar(x) \in Int
        <5>1. x.start \in Nat /\ x.duration \in Nat
          BY <1>3, <4>1
        <5>. HIDE DEF x
        <5>2. EndOfBar(x) \in Nat
          BY <5>1, BarEnds
        <5>. QED
          BY <5>1, <5>2
      <4>3. lo <= x.start /\ EndOfBar(x) <= hi
        BY <1>5
      <4>. HIDE DEF x
      <4>4. from <= x.start /\ EndOfBar(x) <= to
        BY <1>0, <4>2, <4>3, Widen
      <4>. QED
        BY <4>4 DEF x
    <3>. QED
      BY <3>1
  <2>3. AddsWithin(b, d, s, from, to)
    BY <1>5, <2>1, <2>2 DEF AddsWithin, Extends, Fresh
  <2>. QED
    BY <2>3 DEF d, s
<1>7. CASE HasLength(end, duration)
  <2>1. /\ d.tasks = Append(c.tasks, bar) /\ Len(d.tasks) = n + 1 /\ d.tasks[n + 1] = bar
        /\ \A i \in 1..n : d.tasks[i] = c.tasks[i]
    BY <1>1, <1>2, <1>7
  <2>2. /\ EndOfBar(bar) <= lo \/ hi <= bar.start
        /\ from <= bar.start /\ EndOfBar(bar) <= to
    BY <1>0, <1>4, <1>7
  <2>3. \A i \in (Len(b.tasks) + 1)..n :
           /\ Signature(d.tasks[i]) = s
           /\ from <= d.tasks[i].start /\ EndOfBar(d.tasks[i]) <= to
           /\ Clear(d.tasks[i], bar) /\ Clear(bar, d.tasks[i])
    <3>1. ASSUME NEW i \in (Len(b.tasks) + 1)..n
          PROVE  /\ Signature(d.tasks[i]) = s
                 /\ from <= d.tasks[i].start /\ EndOfBar(d.tasks[i]) <= to
                 /\ Clear(d.tasks[i], bar) /\ Clear(bar, d.tasks[i])
      <4>1. i \in 1..n /\ d.tasks[i] = c.tasks[i]
        BY <1>2, <2>1
      <4>2. /\ Signature(c.tasks[i]) = s
            /\ lo <= c.tasks[i].start /\ EndOfBar(c.tasks[i]) <= hi
        BY <1>5
      <4>. DEFINE x == c.tasks[i]
      <4>3. x.start \in Int /\ EndOfBar(x) \in Int /\ bar.start \in Int /\ EndOfBar(bar) \in Int
        <5>1. x.start \in Nat /\ x.duration \in Nat
          BY <1>3, <4>1
        <5>. HIDE DEF x
        <5>2. EndOfBar(x) \in Nat
          BY <5>1, BarEnds
        <5>. QED
          BY <1>4, <5>1, <5>2
      <4>. HIDE DEF x
      <4>4. /\ from <= x.start /\ EndOfBar(x) <= to
            /\ EndOfBar(bar) <= x.start \/ EndOfBar(x) <= bar.start
        <5>1. lo <= x.start /\ EndOfBar(x) <= hi
          BY <4>2 DEF x
        <5>2. /\ from <= x.start /\ EndOfBar(x) <= to
              /\ \A u, v \in Int : v <= lo \/ hi <= u => v <= x.start \/ EndOfBar(x) <= u
          <6>. DEFINE p == x.start
                      q == EndOfBar(x)
          <6>1. p \in Int /\ q \in Int /\ lo <= p /\ q <= hi
            BY <4>3, <5>1
          <6>. HIDE DEF p, q
          <6>2. from <= p /\ q <= to /\ \A u, v \in Int : v <= lo \/ hi <= u => v <= p \/ q <= u
            BY <1>0, <6>1, Widen
          <6>. QED
            BY <6>2 DEF p, q
        <5>. QED
          BY <2>2, <4>3, <5>2
      <4>. QED
        BY <4>1, <4>2, <4>4 DEF Clear, x
    <3>. QED
      BY <3>1
  <2>4. \A i \in (Len(b.tasks) + 1)..(n + 1) : i = n + 1 \/ i \in (Len(b.tasks) + 1)..n
    BY <1>2
  <2>5. \A i, j \in (Len(b.tasks) + 1)..n : i # j => Clear(d.tasks[i], d.tasks[j])
    <3>1. \A i \in (Len(b.tasks) + 1)..n : d.tasks[i] = c.tasks[i]
      BY <1>2, <2>1
    <3>. QED
      BY <1>5, <3>1
  <2>6. Fresh(b, d) = (Len(b.tasks) + 1)..(n + 1)
    BY <2>1 DEF Fresh
  <2>7. Extends(b, d)
    <3>1. \A i \in DOMAIN b.tasks : i \in 1..n
      BY <1>2, <1>5
    <3>. QED
      BY <1>2, <1>5, <2>1, <3>1 DEF Extends
  <2>8. \A i, j \in Fresh(b, d) : i # j => Clear(d.tasks[i], d.tasks[j])
    BY <2>1, <2>3, <2>4, <2>5, <2>6
  <2>9. \A i \in Fresh(b, d) :
           /\ Signature(d.tasks[i]) = s
           /\ from <= d.tasks[i].start /\ EndOfBar(d.tasks[i]) <= to
    BY <1>4, <2>1, <2>2, <2>3, <2>4, <2>6
  <2>10. AddsWithin(b, d, s, from, to)
    BY <2>7, <2>8, <2>9 DEF AddsWithin
  <2>. QED
    BY <2>10 DEF d, s
<1>. QED
  BY <1>6, <1>7

\* The results of a proof as the manager reports them, the sub metrics from M.
AppResults(M) ==
    [worker : Int, dispatched : Int, workerStart : Int, workerEnd : Int, completed : Int,
     segmentStart : Int, queueWait : Nat, metered : Int, fastForward : Int, starkProve : Int,
     metrics : M]

LeafResults(M) ==
    [worker : Int, dispatched : Int, workerStart : Int, workerEnd : Int, completed : Int,
     segmentStart : Int, segmentEnd : Int, metrics : M]

InternalResults(M) ==
    [worker : Int, dispatched : Int, workerStart : Int, workerEnd : Int, completed : Int,
     segmentStart : Int, segmentEnd : Int, layer : Int, compression : Int,
     metrics : M, wrapMetrics : M]

\* The sections that a bar of the sub metrics of M can carry.
NotesOf(M) ==
    {<<>>} \cup {OpenvmSections(m) : m \in M}
    \cup {WithTransport(OpenvmSections(m), k) : m \in M, k \in Int}

\* One result adds bars of one signature, and misses none but an unknown worker's.
Grows(ws, ix, Ids, Notes, b, c, worker, id, row) ==
    /\ c \in BuildersOf(ws, ix, Ids, Notes)
    /\ c.unlisted = (b.unlisted \/ worker \notin DOMAIN ix)
    /\ \E lo, hi \in Int : AddsWithin(b, c, SignatureOf(ix, worker, id, row), lo, hi)

\* c has a segment bar that b has not and that ends at the given time.
Ends(b, c, id, end) ==
    \E i \in Fresh(b, c) :
        c.tasks[i].kind = SegmentBar /\ c.tasks[i].id = id /\ EndOfBar(c.tasks[i]) = end

LEMMA BuilderTasks ==
    ASSUME NEW ws, NEW ix, NEW Ids, NEW Notes, NEW b \in BuildersOf(ws, ix, Ids, Notes)
    PROVE  /\ b.tasks \in Seq(BarsOf(ix, Ids, Notes))
           /\ Len(b.tasks) \in Nat /\ DOMAIN b.tasks = 1..Len(b.tasks)
           /\ b.workers = ws /\ b.index = ix /\ b.unlisted \in BOOLEAN
<1>. DEFINE B == BarsOf(ix, Ids, Notes)
<1>1. b.tasks \in Seq(B) /\ b.workers = ws /\ b.index = ix /\ b.unlisted \in BOOLEAN
  BY DEF BuildersOf
<1>. HIDE DEF B
<1>2. Len(b.tasks) \in Nat /\ DOMAIN b.tasks = 1..Len(b.tasks)
  BY <1>1
<1>. QED
  BY <1>1, <1>2 DEF B

LEMMA TransportIsInt ==
    ASSUME NEW t, t.dispatched \in Int, t.workerStart \in Int, t.workerEnd \in Int, t.completed \in Int
    PROVE  OpenvmTransport(t) \in Int
BY DEF OpenvmTransport, NetworkTransportMs, AtLeast

LEMMA DurationIsInt ==
    ASSUME NEW t, t.dispatched \in Int, t.workerStart \in Int, t.workerEnd \in Int,
           t.completed \in Int, t.fastForward \in Int, t.starkProve \in Int
    PROVE  SegmentDuration(t) \in Int
<1>1. OpenvmTransport(t) \in Int
  BY TransportIsInt
<1>2. \A x, y, z \in Int : x - y - z \in Int /\ x + y \in Int
  OBVIOUS
<1>. QED
  BY <1>1, <1>2 DEF SegmentDuration

LEMMA Rows ==
    /\ OpenvmRow[SegmentBar] = "Segment" /\ OpenvmRow[FastForwardBar] = "Segment"
    /\ OpenvmRow[ExecutionBar] = "Segment" /\ OpenvmRow[LeafBar] = "Leaf Aggregation"
    /\ OpenvmRow[InternalBar] = "Internal Aggregation" /\ OpenvmRow[WrapBar] = "Internal Aggregation"
    /\ SegmentBar \in Int /\ FastForwardBar \in Int /\ ExecutionBar \in Int /\ LeafBar \in Int
    /\ InternalBar \in Int /\ WrapBar \in Int
BY DEF OpenvmRow, SegmentBar, FastForwardBar, ExecutionBar, LeafBar, InternalBar, WrapBar

LEMMA NotesContain ==
    ASSUME NEW M, NEW m \in M, NEW k \in Int
    PROVE  /\ <<>> \in NotesOf(M) /\ OpenvmSections(m) \in NotesOf(M)
           /\ WithTransport(OpenvmSections(m), k) \in NotesOf(M)
BY DEF NotesOf

LEMMA IdsContain ==
    ASSUME NEW x \in Int, NEW y \in Int, NEW z \in Int
    PROVE  /\ <<x>> \in Seq(Int) /\ <<x, y>> \in Seq(Int)
           /\ <<x>> \o <<y, z>> \in Seq(Int)
OBVIOUS

\* The arithmetic of bars that each end where the next begins.
LEMMA EndsOfPlaced ==
    ASSUME NEW x \in Nat, NEW w \in Nat
    PROVE  EndOf(x) = x /\ x - w \in Int /\ EndOf(x - w) <= x
BY DEF EndOf, AtLeast

LEMMA AppAdds ==
    ASSUME NEW ws, NEW ix, NEW M, NEW b \in BuildersOf(ws, ix, Seq(Int), NotesOf(M)),
           NEW t \in AppResults(M), NEW start \in Int
    PROVE  /\ Grows(ws, ix, Seq(Int), NotesOf(M), b, PlaceApp(b, t, start), t.worker,
                    <<t.segmentStart>>, "Segment")
           /\ t.completed - start > 0 /\ SegmentDuration(t) > 0 =>
                 Ends(b, PlaceApp(b, t, start), <<t.segmentStart>>, t.completed - start)
<1>. DEFINE Ids == Seq(Int)
            Notes == NotesOf(M)
            B == BuildersOf(ws, ix, Ids, Notes)
            id == <<t.segmentStart>>
            end == t.completed - start
            length == SegmentDuration(t)
            sections == WithTransport(OpenvmSections(t.metrics), OpenvmTransport(t))
            segment == Placed(end, length)
            forward == Placed(segment, t.fastForward)
            meter == forward - t.queueWait
            b1 == Place(b, SegmentBar, t.worker, id, end, length, sections)
            b2 == Place(b1, FastForwardBar, t.worker, id, segment, t.fastForward, <<>>)
            b3 == Place(b2, ExecutionBar, t.worker, id, meter, t.metered, <<>>)
            s == SignatureOf(ix, t.worker, id, "Segment")
<1>1. PlaceApp(b, t, start) = b3
  BY DEF PlaceApp
<1>2. /\ t.dispatched \in Int /\ t.workerStart \in Int /\ t.workerEnd \in Int /\ t.completed \in Int
      /\ t.segmentStart \in Int /\ t.queueWait \in Nat /\ t.metered \in Int /\ t.fastForward \in Int
      /\ t.starkProve \in Int /\ t.metrics \in M
  BY DEF AppResults
<1>3. OpenvmTransport(t) \in Int
  BY <1>2, TransportIsInt
<1>4. length \in Int /\ end \in Int
  BY <1>2, DurationIsInt
<1>5. sections \in Notes /\ <<>> \in Notes
  BY <1>2, <1>3, NotesContain
<1>6. id \in Ids
  BY <1>2
<1>7. /\ segment \in Nat /\ EndOf(end) \in Nat /\ segment <= EndOf(end)
      /\ (HasLength(end, length) <=> segment < EndOf(end))
  <2>. HIDE DEF end, length
  <2>. QED
    BY <1>4, PlacedWithin
<1>8. /\ forward \in Nat /\ EndOf(segment) = segment /\ forward <= EndOf(segment)
  <2>1. segment \in Nat /\ segment \in Int /\ t.fastForward \in Int /\ 0 \in Nat
    BY <1>2, <1>7
  <2>. HIDE DEF segment
  <2>2. EndOf(segment) = segment
    BY <2>1, EndsOfPlaced
  <2>3. forward \in Nat /\ forward <= EndOf(segment)
    BY <2>1, PlacedWithin
  <2>. QED
    BY <2>2, <2>3
<1>9. /\ meter \in Int /\ EndOf(meter) \in Nat /\ EndOf(meter) <= forward
      /\ Placed(meter, t.metered) \in Nat /\ Placed(meter, t.metered) <= EndOf(meter)
  <2>1. meter \in Int /\ EndOf(meter) <= forward
    <3>1. forward \in Nat /\ t.queueWait \in Nat
      BY <1>2, <1>8
    <3>. HIDE DEF forward
    <3>. QED
      BY <3>1, EndsOfPlaced
  <2>. HIDE DEF meter
  <2>. QED
    BY <1>2, <2>1, PlacedWithin
<1>. HIDE DEF Ids, Notes, id, end, length, sections
<1>10. Places(ws, ix, Ids, Notes, b, SegmentBar, t.worker, id, end, length, sections)
  BY <1>4, <1>5, <1>6, Rows, PlaceAdds DEF Ids, Notes
<1>11. b1 \in B
  BY <1>10 DEF Places
<1>. HIDE DEF segment
<1>12. Places(ws, ix, Ids, Notes, b1, FastForwardBar, t.worker, id, segment, t.fastForward, <<>>)
  <2>1. segment \in Int /\ t.fastForward \in Int /\ FastForwardBar \in Int /\ <<>> \in Notes
    <3>1. segment \in Int /\ <<>> \in Notes
      BY <1>5, <1>7
    <3>2. t.fastForward \in Int /\ FastForwardBar \in Int
      BY <1>2, Rows
    <3>. QED
      BY <3>1, <3>2
  <2>. HIDE DEF b1
  <2>. QED
    BY <1>6, <1>11, <2>1, PlaceAdds DEF B
<1>13. b2 \in B
  BY <1>12 DEF Places
<1>. HIDE DEF forward, meter
<1>14. Places(ws, ix, Ids, Notes, b2, ExecutionBar, t.worker, id, meter, t.metered, <<>>)
  <2>1. meter \in Int /\ t.metered \in Int /\ ExecutionBar \in Int /\ <<>> \in Notes
    BY <1>2, <1>5, <1>9, Rows
  <2>. HIDE DEF b1, b2
  <2>. QED
    BY <1>6, <1>13, <2>1, PlaceAdds DEF B
<1>15. b3 \in B /\ b3.unlisted = (b.unlisted \/ t.worker \notin DOMAIN ix)
  BY <1>10, <1>12, <1>14 DEF Places
<1>16. b \in B /\ Len(b.tasks) \in Nat /\ DOMAIN b.tasks = 1..Len(b.tasks)
  BY BuilderTasks DEF Ids, Notes
<1>. HIDE DEF B, b1, b2, b3
<1>17. AddsWithin(b, b, s, EndOf(end), EndOf(end))
  BY <1>16, AddsNone
<1>18. AddsWithin(b, b1, s, segment, EndOf(end))
  <2>1. Beside(end, length, EndOf(end), EndOf(end), segment, EndOf(end))
    BY <1>7 DEF Beside, segment
  <2>2. EndOf(end) \in Int /\ segment \in Int
    BY <1>7
  <2>3. SegmentBar \in Int /\ OpenvmRow[SegmentBar] = "Segment"
    BY Rows
  <2>. QED
    BY <1>4, <1>5, <1>6, <1>16, <1>17, <2>1, <2>2, <2>3, AddsOne DEF b1, s, B
<1>19. AddsWithin(b, b2, s, forward, EndOf(end))
  <2>1. Beside(segment, t.fastForward, segment, EndOf(end), forward, EndOf(end))
    BY <1>7, <1>8 DEF Beside, forward
  <2>2. EndOf(end) \in Int /\ segment \in Int /\ forward \in Int /\ t.fastForward \in Int
    BY <1>2, <1>7, <1>8
  <2>3. FastForwardBar \in Int /\ OpenvmRow[FastForwardBar] = "Segment"
    BY Rows
  <2>. QED
    BY <1>5, <1>6, <1>11, <1>16, <1>18, <2>1, <2>2, <2>3, AddsOne DEF b2, s, B
<1>20. AddsWithin(b, b3, s, Placed(meter, t.metered), EndOf(end))
  <2>1. Beside(meter, t.metered, forward, EndOf(end), Placed(meter, t.metered), EndOf(end))
    BY <1>7, <1>8, <1>9 DEF Beside
  <2>2. /\ EndOf(end) \in Int /\ forward \in Int /\ meter \in Int /\ t.metered \in Int
        /\ Placed(meter, t.metered) \in Int
    BY <1>2, <1>7, <1>8, <1>9
  <2>3. ExecutionBar \in Int /\ OpenvmRow[ExecutionBar] = "Segment"
    BY Rows
  <2>. QED
    BY <1>5, <1>6, <1>13, <1>16, <1>19, <2>1, <2>2, <2>3, AddsOne DEF b3, s, B
<1>21. Grows(ws, ix, Ids, Notes, b, b3, t.worker, id, "Segment")
  BY <1>7, <1>9, <1>15, <1>20 DEF Grows, s, B
<1>22. ASSUME end > 0, length > 0
       PROVE  Ends(b, b3, id, end)
  <2>. DEFINE bar == BarOf(ix, SegmentBar, t.worker, id, end, length, sections)
              n == Len(b.tasks)
  <2>1. HasLength(end, length) /\ EndOf(end) = end
    BY <1>4, <1>22 DEF HasLength, StartOf, EndOf, AtLeast
  <2>2. b1.tasks = Append(b.tasks, bar)
    BY <1>10, <2>1 DEF Places, b1
  <2>3. bar.kind = SegmentBar /\ bar.id = id /\ EndOfBar(bar) = end
    <3>1. bar.start = segment /\ bar.duration = end - segment /\ bar.kind = SegmentBar /\ bar.id = id
      BY <2>1 DEF BarOf, segment
    <3>. HIDE DEF bar
    <3>2. segment + (end - segment) = end
      BY <1>4, <1>7
    <3>. QED
      BY <3>1, <3>2 DEF EndOfBar
  <2>. HIDE DEF bar
  <2>4. Len(b1.tasks) = n + 1 /\ b1.tasks[n + 1] = bar
    BY <1>16, <2>2, BuilderTasks
  <2>5. Len(b2.tasks) >= n + 1 /\ b2.tasks[n + 1] = bar
    <3>1. \E x : b2.tasks = b1.tasks \/ b2.tasks = Append(b1.tasks, x)
      BY <1>12 DEF Places, b2
    <3>2. b1.tasks \in Seq(BarsOf(ix, Ids, Notes)) /\ Len(b1.tasks) \in Nat
      BY <1>11, BuilderTasks DEF B
    <3>. QED
      BY <1>16, <2>4, <3>1, <3>2
  <2>6. Len(b3.tasks) >= n + 1 /\ b3.tasks[n + 1] = bar
    <3>1. \E x : b3.tasks = b2.tasks \/ b3.tasks = Append(b2.tasks, x)
      BY <1>14 DEF Places, b3
    <3>2. b2.tasks \in Seq(BarsOf(ix, Ids, Notes)) /\ Len(b2.tasks) \in Nat
      BY <1>13, BuilderTasks DEF B
    <3>. DEFINE r == b2.tasks
    <3>3. \A x : /\ Len(Append(r, x)) = Len(r) + 1
                 /\ \A i \in 1..Len(r) : Append(r, x)[i] = r[i]
      BY <3>2
    <3>4. n + 1 \in 1..Len(r)
      BY <1>16, <2>5, <3>2
    <3>. QED
      BY <1>16, <2>5, <3>1, <3>2, <3>3, <3>4
  <2>7. Len(b3.tasks) \in Nat
    BY <1>15, BuilderTasks DEF B
  <2>8. n + 1 \in Fresh(b, b3)
    BY <1>16, <2>6, <2>7 DEF Fresh
  <2>. QED
    BY <2>3, <2>6, <2>8 DEF Ends
<1>. QED
  BY <1>1, <1>21, <1>22 DEF Ids, Notes, id, end, length, b3

LEMMA LeafAdds ==
    ASSUME NEW ws, NEW ix, NEW M, NEW b \in BuildersOf(ws, ix, Seq(Int), NotesOf(M)),
           NEW t \in LeafResults(M), NEW start \in Int
    PROVE  Grows(ws, ix, Seq(Int), NotesOf(M), b, PlaceLeaf(b, t, start), t.worker,
                 SegmentRange(t), "Leaf Aggregation")
<1>. DEFINE Ids == Seq(Int)
            Notes == NotesOf(M)
            B == BuildersOf(ws, ix, Ids, Notes)
            id == SegmentRange(t)
            end == t.completed - start
            length == t.completed - t.dispatched
            sections == WithTransport(OpenvmSections(t.metrics), OpenvmTransport(t))
            b1 == Place(b, LeafBar, t.worker, id, end, length, sections)
            s == SignatureOf(ix, t.worker, id, "Leaf Aggregation")
<1>1. PlaceLeaf(b, t, start) = b1
  BY DEF PlaceLeaf
<1>2. /\ t.dispatched \in Int /\ t.workerStart \in Int /\ t.workerEnd \in Int /\ t.completed \in Int
      /\ t.segmentStart \in Int /\ t.segmentEnd \in Int /\ t.metrics \in M
  BY DEF LeafResults
<1>3. length \in Int /\ end \in Int
  BY <1>2
<1>4. sections \in Notes
  BY <1>2, TransportIsInt, NotesContain
<1>5. id \in Ids
  BY <1>2, IdsContain DEF SegmentRange
<1>. HIDE DEF Ids, Notes, id, end, length, sections
<1>6. Places(ws, ix, Ids, Notes, b, LeafBar, t.worker, id, end, length, sections)
  BY <1>3, <1>4, <1>5, Rows, PlaceAdds DEF Ids, Notes
<1>7. b1 \in B /\ b1.unlisted = (b.unlisted \/ t.worker \notin DOMAIN ix)
  BY <1>6 DEF Places
<1>8. b \in B /\ Len(b.tasks) \in Nat /\ DOMAIN b.tasks = 1..Len(b.tasks)
  BY BuilderTasks DEF Ids, Notes
<1>. DEFINE e == EndOf(end)
            p == Placed(end, length)
<1>9. e \in Int /\ p \in Int /\ p <= e /\ e <= e /\ p <= p
  BY <1>3, PlacedWithin
<1>. HIDE DEF B, b1, e, p
<1>10. AddsWithin(b, b, s, e, e)
  BY <1>8, AddsNone
<1>11. AddsWithin(b, b1, s, p, e)
  <2>1. Beside(end, length, e, e, p, e)
    BY <1>9 DEF Beside, e, p
  <2>2. LeafBar \in Int /\ OpenvmRow[LeafBar] = "Leaf Aggregation"
    BY Rows
  <2>. QED
    BY <1>3, <1>4, <1>5, <1>8, <1>9, <1>10, <2>1, <2>2, AddsOne DEF b1, s, B
<1>12. Grows(ws, ix, Ids, Notes, b, b1, t.worker, id, "Leaf Aggregation")
  BY <1>7, <1>9, <1>11 DEF Grows, s, B
<1>. QED
  BY <1>1, <1>12 DEF Ids, Notes, id, b1

LEMMA InternalAdds ==
    ASSUME NEW ws, NEW ix, NEW M, NEW b \in BuildersOf(ws, ix, Seq(Int), NotesOf(M)),
           NEW t \in InternalResults(M), NEW start \in Int
    PROVE  Grows(ws, ix, Seq(Int), NotesOf(M), b, PlaceInternal(b, t, start), t.worker,
                 <<t.layer>> \o SegmentRange(t), "Internal Aggregation")
<1>. DEFINE Ids == Seq(Int)
            Notes == NotesOf(M)
            B == BuildersOf(ws, ix, Ids, Notes)
            id == <<t.layer>> \o SegmentRange(t)
            end == t.completed - start
            wrap == end - t.compression
            length == wrap - (t.dispatched - start)
            sections == WithTransport(OpenvmSections(t.metrics), OpenvmTransport(t))
            wrapSections == OpenvmSections(t.wrapMetrics)
            b1 == Place(b, InternalBar, t.worker, id, wrap, length, sections)
            b2 == Place(b1, WrapBar, t.worker, id, end, t.compression, wrapSections)
            s == SignatureOf(ix, t.worker, id, "Internal Aggregation")
<1>1. PlaceInternal(b, t, start) = b2
  BY DEF PlaceInternal
<1>2. /\ t.dispatched \in Int /\ t.workerStart \in Int /\ t.workerEnd \in Int /\ t.completed \in Int
      /\ t.segmentStart \in Int /\ t.segmentEnd \in Int /\ t.layer \in Int /\ t.compression \in Int
      /\ t.metrics \in M /\ t.wrapMetrics \in M
  BY DEF InternalResults
<1>3. length \in Int /\ end \in Int /\ wrap \in Int /\ t.compression \in Int
  <2>1. \A x, y, z, w \in Int : x - y \in Int /\ x - y - z \in Int /\ x - y - z - (w - y) \in Int
    OBVIOUS
  <2>. QED
    BY <1>2, <2>1
<1>4. sections \in Notes /\ wrapSections \in Notes
  BY <1>2, TransportIsInt, NotesContain
<1>5. id \in Ids
  BY <1>2, IdsContain DEF SegmentRange
<1>. DEFINE lo == Placed(wrap, length)
            middle == EndOf(wrap)
            upper == EndOf(end)
            hi == IF middle <= upper THEN upper ELSE middle
<1>6. /\ lo \in Int /\ middle \in Int /\ upper \in Int
      /\ lo <= middle
      /\ Placed(end, t.compression) <= upper
      /\ HasLength(end, t.compression) => Placed(end, t.compression) = middle
  <2>1. lo \in Int /\ middle \in Int /\ lo <= middle
    <3>1. wrap \in Int /\ length \in Int
      BY <1>3
    <3>. HIDE DEF wrap, length, lo, middle
    <3>2. /\ Placed(wrap, length) \in Nat /\ EndOf(wrap) \in Nat
          /\ Placed(wrap, length) <= EndOf(wrap)
      BY <3>1, PlacedWithin
    <3>. QED
      BY <3>2 DEF lo, middle
  <2>2. /\ upper \in Int /\ Placed(end, t.compression) <= upper
        /\ HasLength(end, t.compression) => Placed(end, t.compression) = AtLeast(end - t.compression, 0)
    <3>. DEFINE w == t.compression
    <3>1. end \in Int /\ w \in Int
      BY <1>3
    <3>. HIDE DEF end, w
    <3>2. /\ EndOf(end) \in Nat /\ Placed(end, w) <= EndOf(end)
          /\ HasLength(end, w) => Placed(end, w) = AtLeast(end - w, 0)
      BY <3>1, PlacedWithin
    <3>. QED
      BY <3>2 DEF w
  <2>3. middle = AtLeast(end - t.compression, 0)
    BY DEF EndOf
  <2>. QED
    BY <2>1, <2>2, <2>3
<1>7. hi \in Int /\ middle <= hi /\ upper <= hi /\ lo <= lo /\ middle <= middle
  BY <1>6
<1>. HIDE DEF Ids, Notes, id, end, wrap, length, sections, wrapSections, lo, middle, upper, hi
<1>8. Places(ws, ix, Ids, Notes, b, InternalBar, t.worker, id, wrap, length, sections)
  BY <1>3, <1>4, <1>5, Rows, PlaceAdds DEF Ids, Notes
<1>9. b1 \in B
  BY <1>8 DEF Places
<1>10. Places(ws, ix, Ids, Notes, b1, WrapBar, t.worker, id, end, t.compression, wrapSections)
  <2>1. WrapBar \in Int
    BY Rows
  <2>. HIDE DEF b1
  <2>. QED
    BY <1>3, <1>4, <1>5, <1>9, <2>1, PlaceAdds DEF B
<1>11. b2 \in B /\ b2.unlisted = (b.unlisted \/ t.worker \notin DOMAIN ix)
  BY <1>8, <1>10 DEF Places
<1>12. b \in B /\ Len(b.tasks) \in Nat /\ DOMAIN b.tasks = 1..Len(b.tasks)
  BY BuilderTasks DEF Ids, Notes
<1>. HIDE DEF B, b1, b2
<1>13. AddsWithin(b, b, s, middle, middle)
  BY <1>12, AddsNone
<1>14. AddsWithin(b, b1, s, lo, middle)
  <2>1. Beside(wrap, length, middle, middle, lo, middle)
    BY <1>6, <1>7 DEF Beside, middle, lo
  <2>2. InternalBar \in Int /\ OpenvmRow[InternalBar] = "Internal Aggregation"
    BY Rows
  <2>. QED
    BY <1>3, <1>4, <1>5, <1>6, <1>12, <1>13, <2>1, <2>2, AddsOne DEF b1, s, B
<1>15. AddsWithin(b, b2, s, lo, hi)
  <2>1. Beside(end, t.compression, lo, middle, lo, hi)
    BY <1>6, <1>7 DEF Beside, upper
  <2>2. WrapBar \in Int /\ OpenvmRow[WrapBar] = "Internal Aggregation"
    BY Rows
  <2>. QED
    BY <1>3, <1>4, <1>5, <1>6, <1>7, <1>9, <1>12, <1>14, <2>1, <2>2, AddsOne DEF b2, s, B
<1>16. Grows(ws, ix, Ids, Notes, b, b2, t.worker, id, "Internal Aggregation")
  BY <1>6, <1>7, <1>11, <1>15 DEF Grows, s, B
<1>. QED
  BY <1>1, <1>16 DEF Ids, Notes, id, b2

\* The bars of b that share a signature never overlap.
Apart(b) ==
    \A i, j \in DOMAIN b.tasks :
        i # j /\ Signature(b.tasks[i]) = Signature(b.tasks[j]) => Clear(b.tasks[i], b.tasks[j])

SignedIn(b, S) == \A i \in DOMAIN b.tasks : Signature(b.tasks[i]) \in S

\* Bars of a signature that is new stay apart from the others.
LEMMA StaysApart ==
    ASSUME NEW ws, NEW ix, NEW Ids, NEW Notes, NEW b \in BuildersOf(ws, ix, Ids, Notes),
           NEW c, NEW worker, NEW id, NEW row, Grows(ws, ix, Ids, Notes, b, c, worker, id, row),
           NEW S, SignedIn(b, S)
    PROVE  /\ Extends(b, c)
           /\ SignedIn(c, S \cup {SignatureOf(ix, worker, id, row)})
           /\ Apart(b) /\ SignatureOf(ix, worker, id, row) \notin S => Apart(c)
<1>. DEFINE s == SignatureOf(ix, worker, id, row)
            n == Len(b.tasks)
            m == Len(c.tasks)
<1>1. PICK lo, hi \in Int : AddsWithin(b, c, s, lo, hi)
  BY DEF Grows
<1>2. n \in Nat /\ DOMAIN b.tasks = 1..n
  BY BuilderTasks
<1>3. m \in Nat /\ DOMAIN c.tasks = 1..m
  <2>1. c \in BuildersOf(ws, ix, Ids, Notes)
    BY DEF Grows
  <2>. QED
    BY <2>1, BuilderTasks
<1>. HIDE DEF s
<1>4. Extends(b, c)
  BY <1>1 DEF AddsWithin
<1>. HIDE DEF n, m
<1>5. \A i \in 1..n : i \in DOMAIN c.tasks /\ c.tasks[i] = b.tasks[i]
  BY <1>2, <1>3, <1>4 DEF Extends, n, m
<1>6. Fresh(b, c) = (n + 1)..m
  BY DEF Fresh, n, m
<1>7. /\ \A i \in (n + 1)..m : Signature(c.tasks[i]) = s
      /\ \A i, j \in (n + 1)..m : i # j => Clear(c.tasks[i], c.tasks[j])
  BY <1>1, <1>6 DEF AddsWithin
<1>8. \A i \in 1..m : i \in 1..n \/ i \in (n + 1)..m
  BY <1>2, <1>3
<1>9. SignedIn(c, S \cup {s})
  BY <1>2, <1>3, <1>5, <1>7, <1>8 DEF SignedIn
<1>10. ASSUME Apart(b), s \notin S
       PROVE  Apart(c)
  <2>1. ASSUME NEW i \in 1..m, NEW j \in 1..m, i # j, Signature(c.tasks[i]) = Signature(c.tasks[j])
        PROVE  Clear(c.tasks[i], c.tasks[j])
    <3>1. CASE i \in 1..n /\ j \in 1..n
      BY <1>2, <1>5, <1>10, <2>1, <3>1 DEF Apart
    <3>2. CASE i \in (n + 1)..m /\ j \in (n + 1)..m
      BY <1>7, <2>1, <3>2
    <3>3. CASE i \in 1..n /\ j \in (n + 1)..m
      BY <1>2, <1>5, <1>7, <1>10, <2>1, <3>3 DEF SignedIn
    <3>4. CASE i \in (n + 1)..m /\ j \in 1..n
      BY <1>2, <1>5, <1>7, <1>10, <2>1, <3>4 DEF SignedIn
    <3>. QED
      BY <1>8, <3>1, <3>2, <3>3, <3>4
  <2>. QED
    BY <1>3, <2>1 DEF Apart
<1>. QED
  BY <1>4, <1>9, <1>10 DEF s

----------------------------------------------------------------------------
(* The bars that a batch of OpenVM results adds.                           *)

LEMMA ExtendsOn ==
    ASSUME NEW ws, NEW ix, NEW Ids, NEW Notes,
           NEW b \in BuildersOf(ws, ix, Ids, Notes), NEW c \in BuildersOf(ws, ix, Ids, Notes),
           NEW d \in BuildersOf(ws, ix, Ids, Notes), Extends(b, c), Extends(c, d)
    PROVE  Extends(b, d)
<1>1. /\ Len(b.tasks) \in Nat /\ DOMAIN b.tasks = 1..Len(b.tasks)
      /\ Len(c.tasks) \in Nat /\ DOMAIN c.tasks = 1..Len(c.tasks)
      /\ Len(d.tasks) \in Nat
  BY BuilderTasks
<1>2. \A i \in DOMAIN b.tasks : i \in DOMAIN c.tasks
  BY <1>1 DEF Extends
<1>. QED
  BY <1>1, <1>2 DEF Extends

\* The signatures of the first k results.
Signatures(ix, worker, id, row, k) == {SignatureOf(ix, worker[j], id[j], row) : j \in 1..k}

\* No two of n results, and none of S, have one signature.
SignedApart(ix, worker, id, row, n, S) ==
    \A k \in 1..n :
        /\ SignatureOf(ix, worker[k], id[k], row) \notin S
        /\ \A j \in 1..n : j # k => SignatureOf(ix, worker[j], id[j], row) # SignatureOf(ix, worker[k], id[k], row)

\* What h, from its builder 0 on, has come to at builder k.
Batched(h, k, ix, worker, id, row, n, S) ==
    /\ h[k].unlisted <=> h[0].unlisted \/ \E j \in 1..k : worker[j] \notin DOMAIN ix
    /\ SignedIn(h[k], S \cup Signatures(ix, worker, id, row, k))
    /\ Apart(h[0]) /\ SignedApart(ix, worker, id, row, n, S) => Apart(h[k])
    /\ \A j \in 0..k : Extends(h[j], h[k])

\* A batch of results.
LEMMA BatchAdds ==
    ASSUME NEW ws, NEW ix, NEW Ids, NEW Notes, NEW n \in Nat,
           NEW h \in [0..n -> BuildersOf(ws, ix, Ids, Notes)], NEW worker, NEW id, NEW row,
           \A k \in 1..n : Grows(ws, ix, Ids, Notes, h[k - 1], h[k], worker[k], id[k], row),
           NEW S, SignedIn(h[0], S)
    PROVE  Batched(h, n, ix, worker, id, row, n, S)
<1>. DEFINE B == BuildersOf(ws, ix, Ids, Notes)
            P(k) == Batched(h, k, ix, worker, id, row, n, S)
            T == {k \in Nat : k <= n => P(k)}
<1>1. \A b \in B : b.unlisted \in BOOLEAN /\ Len(b.tasks) \in Nat /\ Extends(b, b)
  <2>1. ASSUME NEW b \in B
        PROVE  b.unlisted \in BOOLEAN /\ Len(b.tasks) \in Nat /\ Extends(b, b)
    <3>1. b.unlisted \in BOOLEAN /\ Len(b.tasks) \in Nat
      BY BuilderTasks
    <3>. QED
      BY <3>1 DEF Extends
  <2>. QED
    BY <2>1
<1>2. \A k \in 0..n : h[k] \in B
  OBVIOUS
<1>. HIDE DEF B
<1>3. P(0)
  <2>1. h[0] \in B /\ \A j \in 0..0 : j = 0
    BY <1>2
  <2>2. SignedIn(h[0], S \cup Signatures(ix, worker, id, row, 0))
    BY DEF SignedIn
  <2>3. ~(\E j \in 1..0 : worker[j] \notin DOMAIN ix)
    OBVIOUS
  <2>4. \A j \in 0..0 : Extends(h[j], h[0])
    BY <1>1, <2>1
  <2>5. h[0].unlisted <=> h[0].unlisted \/ \E j \in 1..0 : worker[j] \notin DOMAIN ix
    BY <1>1, <2>1, <2>3
  <2>. QED
    BY <2>2, <2>4, <2>5 DEF Batched
<1>4. ASSUME NEW k \in Nat, k + 1 <= n, P(k)
      PROVE  P(k + 1)
  <2>. DEFINE b == h[k]
              c == h[k + 1]
              w == worker[k + 1]
              i == id[k + 1]
              s == SignatureOf(ix, w, i, row)
              R == S \cup Signatures(ix, worker, id, row, k)
  <2>1. k \in 0..n /\ k + 1 \in 1..n /\ k + 1 \in 0..n /\ (k + 1) - 1 = k /\ k <= n
    BY <1>4
  <2>2. b \in B /\ c \in B /\ Grows(ws, ix, Ids, Notes, b, c, w, i, row)
    BY <1>2, <2>1
  <2>3. /\ b.unlisted <=> h[0].unlisted \/ \E j \in 1..k : worker[j] \notin DOMAIN ix
        /\ SignedIn(b, R)
        /\ Apart(h[0]) /\ SignedApart(ix, worker, id, row, n, S) => Apart(b)
        /\ \A j \in 0..k : Extends(h[j], b)
    BY <1>4 DEF Batched
  <2>. HIDE DEF b, c, w, i, R
  <2>4. Extends(b, c) /\ SignedIn(c, R \cup {s}) /\ (Apart(b) /\ s \notin R => Apart(c))
    <3>1. b \in BuildersOf(ws, ix, Ids, Notes)
      BY <2>2 DEF B
    <3>. HIDE DEF s
    <3>2. s = SignatureOf(ix, w, i, row)
      BY DEF s
    <3>. QED
      BY <2>2, <2>3, <3>1, <3>2, StaysApart
  <2>5. \A j \in 1..(k + 1) : j = k + 1 \/ j \in 1..k
    OBVIOUS
  <2>6. k + 1 \in 1..(k + 1) /\ \A j \in 1..k : j \in 1..(k + 1)
    OBVIOUS
  <2>7. c.unlisted <=> h[0].unlisted \/ \E j \in 1..(k + 1) : worker[j] \notin DOMAIN ix
    <3>1. c.unlisted = (b.unlisted \/ w \notin DOMAIN ix)
      BY <2>2 DEF Grows
    <3>. QED
      BY <1>1, <2>2, <2>3, <2>5, <2>6, <3>1 DEF w
  <2>8. R \cup {s} = S \cup Signatures(ix, worker, id, row, k + 1)
    BY <2>5, <2>6 DEF R, Signatures, w, i
  <2>9. SignedApart(ix, worker, id, row, n, S) => s \notin R
    <3>1. \A j \in 1..k : j \in 1..n /\ j # k + 1
      BY <2>1
    <3>. QED
      BY <2>1, <3>1 DEF SignedApart, R, Signatures, w, i
  <2>10. \A j \in 0..(k + 1) : Extends(h[j], c)
    <3>1. ASSUME NEW j \in 0..k
          PROVE  Extends(h[j], c)
      <4>1. h[j] \in B /\ Extends(h[j], b)
        BY <1>2, <2>1, <2>3
      <4>. QED
        BY <2>2, <2>4, <4>1, ExtendsOn DEF B
    <3>2. Extends(h[k + 1], c)
      BY <1>1, <2>2 DEF c
    <3>3. \A j \in 0..(k + 1) : j = k + 1 \/ j \in 0..k
      OBVIOUS
    <3>. QED
      BY <3>1, <3>2, <3>3
  <2>11. SignedIn(c, S \cup Signatures(ix, worker, id, row, k + 1))
    BY <2>4, <2>8
  <2>12. Apart(h[0]) /\ SignedApart(ix, worker, id, row, n, S) => Apart(c)
    BY <2>3, <2>4, <2>9
  <2>. QED
    BY <2>7, <2>10, <2>11, <2>12 DEF Batched, c
<1>. HIDE DEF P
<1>5. T = Nat
  <2>1. T \in SUBSET Nat /\ 0 \in T
    BY <1>3
  <2>2. ASSUME NEW k \in T
        PROVE  k + 1 \in T
    <3>1. k \in Nat /\ (k <= n => P(k))
      OBVIOUS
    <3>2. k + 1 <= n => k <= n
      BY <3>1
    <3>. QED
      BY <1>4, <3>1, <3>2
  <2>. HIDE DEF T
  <2>. QED
    BY <2>1, <2>2, SetInduction
<1>6. n \in T
  BY <1>5
<1>. QED
  BY <1>6 DEF P

\* Every registered worker is numbered once, whatever the order of the list.
LEMMA OpenvmRegistered ==
    ASSUME NEW H, NEW workers \in Seq([id : Int, host : H])
    PROVE  LET r == OpenvmRegistrations(workers)
           IN  /\ DOMAIN r = 1..Len(workers) /\ Len(workers) \in Nat
               /\ {r[i].key : i \in 1..Len(workers)} = {workers[i].id : i \in DOMAIN workers}
<1>. DEFINE D == DOMAIN workers
            n == Len(workers)
            before(i, j) == workers[i].id < workers[j].id \/ (workers[i].id = workers[j].id /\ i < j)
            P == [x \in D |-> {y \in D : before(y, x)}]
            s == InOrder(D, before)
            r == OpenvmRegistrations(workers)
<1>1. D = 1..n /\ n \in Nat /\ \A i \in D : workers[i].id \in Int /\ i \in Int
  <2>. DEFINE W == [id : Int, host : H]
  <2>1. \A w \in W : w.id \in Int
    OBVIOUS
  <2>. HIDE DEF W
  <2>2. workers \in Seq(W)
    BY DEF W
  <2>3. D = 1..n /\ n \in Nat /\ \A i \in D : workers[i] \in W
    BY <2>2
  <2>4. \A i \in D : i \in Int
    BY <2>3
  <2>. QED
    BY <2>1, <2>3, <2>4
<1>2. IsFiniteSet(D) /\ Cardinality(D) = n
  <2>1. IsFiniteSet(1..n) /\ Cardinality(1..n) = IF 1 > n THEN 0 ELSE n - 1 + 1
    BY <1>1, FS_Interval
  <2>. QED
    BY <1>1, <2>1
<1>3. /\ \A x \in D : ~before(x, x)
      /\ \A x, y, z \in D : before(x, y) /\ before(y, z) => before(x, z)
      /\ \A x, y \in D : x = y \/ before(x, y) \/ before(y, x)
  BY <1>1
<1>4. \A x, y \in D : y \in P[x] <=> before(y, x)
  OBVIOUS
<1>5. P \in [D -> SUBSET D] /\ \A x \in D : P[x] = {y \in D : before(y, x)}
  OBVIOUS
<1>6. s = [p \in 1..Cardinality(D) |-> CHOOSE x \in D : Cardinality({y \in D : before(y, x)}) = p - 1]
  BY DEF InOrder
<1>7. r = [i \in DOMAIN s |-> [key |-> workers[s[i]].id, name |-> workers[s[i]].id, host |-> workers[s[i]].host]]
  BY DEF OpenvmRegistrations
<1>. HIDE DEF P, s, r, before, D
<1>8. Precedes(D, P)
  <2>1. \A x, y \in D : y \in P[x] => P[y] \subseteq P[x]
    BY <1>3, <1>4, <1>5
  <2>. QED
    BY <1>3, <1>4, <1>5, <2>1 DEF Precedes
<1>9. ASSUME NEW p \in 1..Cardinality(D)
      PROVE  s[p] \in D /\ Cardinality(P[s[p]]) = p - 1
  <2>1. PICK x \in D : Cardinality(P[x]) = p - 1
    BY <1>2, <1>8, Ranks
  <2>2. Cardinality({y \in D : before(y, x)}) = p - 1
    BY <1>5, <2>1
  <2>3. s[p] \in D /\ Cardinality({y \in D : before(y, s[p])}) = p - 1
    BY <1>6, <2>2
  <2>. QED
    BY <1>5, <2>3
<1>10. s \in [1..Cardinality(D) -> D]
  BY <1>6, <1>9
<1>11. SortsBy(s, D, P)
  BY <1>2, <1>8, <1>9, <1>10, Sorts
<1>12. DOMAIN s = 1..n /\ Range(s) = D
  BY <1>2, <1>11 DEF SortsBy
<1>13. DOMAIN r = 1..n /\ \A i \in 1..n : r[i].key = workers[s[i]].id /\ s[i] \in D
  BY <1>7, <1>12 DEF Range
<1>14. {r[i].key : i \in 1..n} = {workers[i].id : i \in D}
  <2>1. \A d \in D : \E i \in 1..n : s[i] = d
    BY <1>12 DEF Range
  <2>2. \A i \in 1..n : \E d \in D : r[i].key = workers[d].id
    BY <1>13
  <2>3. \A d \in D : \E i \in 1..n : workers[d].id = r[i].key
    BY <1>13, <2>1
  <2>4. \A x \in {r[i].key : i \in 1..n} : x \in {workers[i].id : i \in D}
    BY <2>2
  <2>5. \A x \in {workers[i].id : i \in D} : x \in {r[i].key : i \in 1..n}
    BY <2>3
  <2>. QED
    BY <2>4, <2>5, Zenon
<1>. QED
  BY <1>1, <1>13, <1>14 DEF r, D

\* The results of a proof.
ProofViews(M) ==
    [proofStart : Int, apps : Seq(AppResults(M)), leaves : Seq(LeafResults(M)),
     internals : Seq(InternalResults(M))]

\* A worker proves no segment, range or node of the aggregation twice.
DistinctResults(view) ==
    /\ \A i, j \in DOMAIN view.apps :
          LET t == view.apps[i] u == view.apps[j]
          IN  t.worker = u.worker /\ t.segmentStart = u.segmentStart => i = j
    /\ \A i, j \in DOMAIN view.leaves :
          LET t == view.leaves[i] u == view.leaves[j]
          IN  t.worker = u.worker /\ SegmentRange(t) = SegmentRange(u) => i = j
    /\ \A i, j \in DOMAIN view.internals :
          LET t == view.internals[i] u == view.internals[j]
          IN  t.worker = u.worker /\ <<t.layer>> \o SegmentRange(t) = <<u.layer>> \o SegmentRange(u) => i = j

TimingsOf(view) == Range(view.apps) \cup Range(view.leaves) \cup Range(view.internals)

\* What the builder has come to when every result is placed.
Built(view, ws, ix, Notes, b) ==
    /\ b \in BuildersOf(ws, ix, Seq(Int), Notes)
    /\ b.unlisted <=> \E t \in TimingsOf(view) : t.worker \notin DOMAIN ix
    /\ ~b.unlisted => Apart(b) /\ \A i \in DOMAIN b.tasks : b.tasks[i].worker \in Range(ix)
    /\ \A t \in Range(view.apps) : t.completed - view.proofStart > 0 /\ SegmentDuration(t) > 0 =>
          \E i \in DOMAIN b.tasks :
             /\ b.tasks[i].kind = SegmentBar /\ b.tasks[i].id = <<t.segmentStart>>
             /\ EndOfBar(b.tasks[i]) = t.completed - view.proofStart

\* No two of n results have one worker and one id.
Alone(worker, id, n) == \A j, k \in 1..n : worker[j] = worker[k] /\ id[j] = id[k] => j = k

\* The workers of n results are all known.
Listed(worker, ix, n) == \A k \in 1..n : worker[k] \in DOMAIN ix

\* S has no signature of the row.
Without(S, row) == \A x \in S : x[3] # row

\* The signatures of n results are new and of one row, and their workers known.
Separates(ix, worker, id, row, n, S) ==
    /\ SignedApart(ix, worker, id, row, n, S)
    /\ \A x \in Signatures(ix, worker, id, row, n) : x[1] \in Range(ix) /\ x[3] = row

\* The signatures of results are apart when their workers and ids are.
LEMMA SignaturesApart ==
    ASSUME NEW ix, IsInjective(ix), NEW worker, NEW id, NEW row, NEW n \in Nat, NEW S,
           Listed(worker, ix, n), Alone(worker, id, n), Without(S, row)
    PROVE  Separates(ix, worker, id, row, n, S)
<1>1. \A k \in 1..n : SignatureOf(ix, worker[k], id[k], row) = <<ix[worker[k]], id[k], row>>
  BY DEF SignatureOf, Listed
<1>2. \A j, k \in 1..n : ix[worker[j]] = ix[worker[k]] => worker[j] = worker[k]
  BY DEF IsInjective, Listed
<1>3. ASSUME NEW j \in 1..n, NEW k \in 1..n, j # k
      PROVE  SignatureOf(ix, worker[j], id[j], row) # SignatureOf(ix, worker[k], id[k], row)
  <2>1. <<ix[worker[j]], id[j], row>> # <<ix[worker[k]], id[k], row>>
    BY <1>2, <1>3 DEF Alone
  <2>. QED
    BY <1>1, <2>1
<1>4. \A k \in 1..n : SignatureOf(ix, worker[k], id[k], row) \notin S
  <2>1. \A k \in 1..n : SignatureOf(ix, worker[k], id[k], row)[3] = row
    BY <1>1
  <2>. QED
    BY <2>1 DEF Without
<1>5. \A k \in 1..n : ix[worker[k]] \in Range(ix)
  BY DEF Range, Listed
<1>. QED
  BY <1>1, <1>3, <1>4, <1>5 DEF Separates, SignedApart, Signatures

\* What a batch of n results makes of b.
Batch(b, c, ix, worker, id, row, n, S) ==
    /\ c.unlisted <=> b.unlisted \/ \E j \in 1..n : worker[j] \notin DOMAIN ix
    /\ SignedIn(c, S \cup Signatures(ix, worker, id, row, n))
    /\ Apart(b) /\ SignedApart(ix, worker, id, row, n, S) => Apart(c)
    /\ Extends(b, c)

LEMMA BatchOfAll ==
    ASSUME NEW h, NEW n \in Nat, NEW ix, NEW worker, NEW id, NEW row, NEW S,
           Batched(h, n, ix, worker, id, row, n, S)
    PROVE  Batch(h[0], h[n], ix, worker, id, row, n, S)
<1>1. 0 \in 0..n
  OBVIOUS
<1>. QED
  BY <1>1 DEF Batched, Batch

Workers(s) == [k \in 1..Len(s) |-> s[k].worker]
SegmentIDs(s) == [k \in 1..Len(s) |-> <<s[k].segmentStart>>]
RangeIDs(s) == [k \in 1..Len(s) |-> SegmentRange(s[k])]
LayerIDs(s) == [k \in 1..Len(s) |-> <<s[k].layer>> \o SegmentRange(s[k])]

\* The segment bar of a result whose reply took time ends at its receipt.
SegmentEnds(c, t, start) ==
    t.completed - start > 0 /\ SegmentDuration(t) > 0 =>
        \E i \in DOMAIN c.tasks :
            /\ c.tasks[i].kind = SegmentBar /\ c.tasks[i].id = <<t.segmentStart>>
            /\ EndOfBar(c.tasks[i]) = t.completed - start

LEMMA SegmentStays ==
    ASSUME NEW ws, NEW ix, NEW Ids, NEW Notes, NEW b \in BuildersOf(ws, ix, Ids, Notes),
           NEW c \in BuildersOf(ws, ix, Ids, Notes), Extends(b, c), NEW t, NEW start,
           SegmentEnds(b, t, start)
    PROVE  SegmentEnds(c, t, start)
<1>1. /\ Len(b.tasks) \in Nat /\ DOMAIN b.tasks = 1..Len(b.tasks)
      /\ Len(c.tasks) \in Nat /\ DOMAIN c.tasks = 1..Len(c.tasks)
  BY BuilderTasks
<1>2. \A i \in DOMAIN b.tasks : i \in DOMAIN c.tasks /\ c.tasks[i] = b.tasks[i]
  BY <1>1 DEF Extends
<1>. QED
  BY <1>2 DEF SegmentEnds

LEMMA AppsBatch ==
    ASSUME NEW M, NEW ws, NEW ix, NEW b \in BuildersOf(ws, ix, Seq(Int), NotesOf(M)),
           NEW s \in Seq(AppResults(M)), NEW start \in Int, NEW S, SignedIn(b, S)
    PROVE  LET c == PlaceApps(b, s, start)
           IN  /\ c \in BuildersOf(ws, ix, Seq(Int), NotesOf(M))
               /\ Batch(b, c, ix, Workers(s), SegmentIDs(s), "Segment", Len(s), S)
               /\ \A k \in 1..Len(s) : SegmentEnds(c, s[k], start)
<1>. DEFINE Ids == Seq(Int)
            Notes == NotesOf(M)
            A == BuildersOf(ws, ix, Ids, Notes)
            U == AppResults(M)
            n == Len(s)
            c == PlaceApps(b, s, start)
<1>1. n \in Nat /\ \A k \in 1..n : s[k] \in U
  OBVIOUS
<1>2. \A a \in A, t \in U : Grows(ws, ix, Ids, Notes, a, PlaceApp(a, t, start), t.worker, <<t.segmentStart>>, "Segment")
  BY AppAdds
<1>3. \A a \in A, t \in U : PlaceApp(a, t, start) \in A
  BY <1>2 DEF Grows
<1>4. b \in A /\ s \in Seq(U)
  OBVIOUS
<1>. HIDE DEF A, U, Ids, Notes
<1>5. PICK h \in [0..n -> A] :
         /\ h[0] = b /\ h[n] = c
         /\ \A k \in 1..n : h[k] = PlaceApp(h[k - 1], s[k], start)
  <2>1. \A a \in A, r \in U : PlaceApp(a, r, start) \in A
    BY <1>3
  <2>2. b \in A /\ s \in Seq(U) /\ n = Len(s) /\ c = PlaceApps(b, s, start)
    BY <1>4
  <2>. HIDE DEF n, c
  <2>. QED
    BY ONLY <2>1, <2>2, AppsPlaced
<1>6. \A k \in 0..n : h[k] \in A
  BY <1>5
<1>. HIDE DEF c
<1>7. ASSUME NEW k \in 1..n
      PROVE  /\ k - 1 \in 0..n /\ k \in 0..n /\ h[k - 1] \in A
             /\ Grows(ws, ix, Ids, Notes, h[k - 1], h[k], Workers(s)[k], SegmentIDs(s)[k], "Segment")
  <2>1. k - 1 \in 0..n /\ k \in 0..n
    BY <1>1
  <2>2. h[k - 1] \in A /\ s[k] \in U
    BY <1>1, <1>6, <2>1
  <2>3. Workers(s)[k] = s[k].worker /\ SegmentIDs(s)[k] = <<s[k].segmentStart>>
    BY DEF Workers, SegmentIDs
  <2>4. h[k] = PlaceApp(h[k - 1], s[k], start)
    BY <1>5
  <2>. QED
    BY <1>2, <2>1, <2>2, <2>3, <2>4
<1>8. Batched(h, n, ix, Workers(s), SegmentIDs(s), "Segment", n, S)
  <2>1. SignedIn(h[0], S) /\ h \in [0..n -> BuildersOf(ws, ix, Ids, Notes)]
    BY <1>5 DEF A
  <2>2. \A k \in 1..n : Grows(ws, ix, Ids, Notes, h[k - 1], h[k], Workers(s)[k], SegmentIDs(s)[k], "Segment")
    BY <1>7
  <2>. QED
    BY <1>1, <2>1, <2>2, BatchAdds
<1>9. Batch(b, c, ix, Workers(s), SegmentIDs(s), "Segment", n, S)
  BY <1>1, <1>5, <1>8, BatchOfAll
<1>10. c \in A
  BY <1>1, <1>5, <1>6
<1>11. ASSUME NEW k \in 1..n
       PROVE  SegmentEnds(c, s[k], start)
  <2>. DEFINE t == s[k]
              u == h[k - 1]
              v == h[k]
  <2>1. u \in A /\ v \in A /\ t \in U /\ v = PlaceApp(u, t, start)
    BY <1>1, <1>5, <1>6, <1>7
  <2>2. Extends(v, c)
    BY <1>5, <1>7, <1>8 DEF Batched
  <2>. HIDE DEF t, u, v
  <2>3. t.completed - start > 0 /\ SegmentDuration(t) > 0 =>
           Ends(u, v, <<t.segmentStart>>, t.completed - start)
    BY <2>1, AppAdds DEF A, U, Ids, Notes
  <2>4. SegmentEnds(v, t, start)
    <3>1. Len(u.tasks) \in Nat /\ Len(v.tasks) \in Nat /\ DOMAIN v.tasks = 1..Len(v.tasks)
      BY <2>1, BuilderTasks DEF A
    <3>2. \A i \in Fresh(u, v) : i \in DOMAIN v.tasks
      BY <3>1 DEF Fresh
    <3>. QED
      BY <2>3, <3>2 DEF SegmentEnds, Ends
  <2>5. SegmentEnds(c, t, start)
    BY <1>10, <2>1, <2>2, <2>4, SegmentStays DEF A
  <2>. QED
    BY <2>5 DEF t
<1>. QED
  BY <1>9, <1>10, <1>11 DEF A, Ids, Notes, c

LEMMA LeavesBatch ==
    ASSUME NEW M, NEW ws, NEW ix, NEW b \in BuildersOf(ws, ix, Seq(Int), NotesOf(M)),
           NEW s \in Seq(LeafResults(M)), NEW start \in Int, NEW S, SignedIn(b, S)
    PROVE  LET c == PlaceLeaves(b, s, start)
           IN  /\ c \in BuildersOf(ws, ix, Seq(Int), NotesOf(M))
               /\ Batch(b, c, ix, Workers(s), RangeIDs(s), "Leaf Aggregation", Len(s), S)
<1>. DEFINE Ids == Seq(Int)
            Notes == NotesOf(M)
            A == BuildersOf(ws, ix, Ids, Notes)
            U == LeafResults(M)
            n == Len(s)
            c == PlaceLeaves(b, s, start)
<1>1. n \in Nat /\ \A k \in 1..n : s[k] \in U
  OBVIOUS
<1>2. \A a \in A, t \in U : Grows(ws, ix, Ids, Notes, a, PlaceLeaf(a, t, start), t.worker, SegmentRange(t), "Leaf Aggregation")
  BY LeafAdds
<1>3. \A a \in A, t \in U : PlaceLeaf(a, t, start) \in A
  BY <1>2 DEF Grows
<1>4. b \in A /\ s \in Seq(U)
  OBVIOUS
<1>. HIDE DEF A, U, Ids, Notes
<1>5. PICK h \in [0..n -> A] :
         /\ h[0] = b /\ h[n] = c
         /\ \A k \in 1..n : h[k] = PlaceLeaf(h[k - 1], s[k], start)
  <2>1. \A a \in A, r \in U : PlaceLeaf(a, r, start) \in A
    BY <1>3
  <2>2. b \in A /\ s \in Seq(U) /\ n = Len(s) /\ c = PlaceLeaves(b, s, start)
    BY <1>4
  <2>. HIDE DEF n, c
  <2>. QED
    BY ONLY <2>1, <2>2, LeavesPlaced
<1>6. \A k \in 0..n : h[k] \in A
  BY <1>5
<1>. HIDE DEF c
<1>7. ASSUME NEW k \in 1..n
      PROVE  /\ k - 1 \in 0..n /\ k \in 0..n /\ h[k - 1] \in A
             /\ Grows(ws, ix, Ids, Notes, h[k - 1], h[k], Workers(s)[k], RangeIDs(s)[k], "Leaf Aggregation")
  <2>1. k - 1 \in 0..n /\ k \in 0..n
    BY <1>1
  <2>2. h[k - 1] \in A /\ s[k] \in U
    BY <1>1, <1>6, <2>1
  <2>3. Workers(s)[k] = s[k].worker /\ RangeIDs(s)[k] = SegmentRange(s[k])
    BY DEF Workers, RangeIDs
  <2>4. h[k] = PlaceLeaf(h[k - 1], s[k], start)
    BY <1>5
  <2>. QED
    BY <1>2, <2>1, <2>2, <2>3, <2>4
<1>8. Batched(h, n, ix, Workers(s), RangeIDs(s), "Leaf Aggregation", n, S)
  <2>1. SignedIn(h[0], S) /\ h \in [0..n -> BuildersOf(ws, ix, Ids, Notes)]
    BY <1>5 DEF A
  <2>2. \A k \in 1..n : Grows(ws, ix, Ids, Notes, h[k - 1], h[k], Workers(s)[k], RangeIDs(s)[k], "Leaf Aggregation")
    BY <1>7
  <2>. QED
    BY <1>1, <2>1, <2>2, BatchAdds
<1>9. Batch(b, c, ix, Workers(s), RangeIDs(s), "Leaf Aggregation", n, S)
  BY <1>1, <1>5, <1>8, BatchOfAll
<1>10. c \in A
  BY <1>1, <1>5, <1>6
<1>. QED
  BY <1>9, <1>10 DEF A, Ids, Notes, c

LEMMA InternalsBatch ==
    ASSUME NEW M, NEW ws, NEW ix, NEW b \in BuildersOf(ws, ix, Seq(Int), NotesOf(M)),
           NEW s \in Seq(InternalResults(M)), NEW start \in Int, NEW S, SignedIn(b, S)
    PROVE  LET c == PlaceInternals(b, s, start)
           IN  /\ c \in BuildersOf(ws, ix, Seq(Int), NotesOf(M))
               /\ Batch(b, c, ix, Workers(s), LayerIDs(s), "Internal Aggregation", Len(s), S)
<1>. DEFINE Ids == Seq(Int)
            Notes == NotesOf(M)
            A == BuildersOf(ws, ix, Ids, Notes)
            U == InternalResults(M)
            n == Len(s)
            c == PlaceInternals(b, s, start)
<1>1. n \in Nat /\ \A k \in 1..n : s[k] \in U
  OBVIOUS
<1>2. \A a \in A, t \in U : Grows(ws, ix, Ids, Notes, a, PlaceInternal(a, t, start), t.worker, <<t.layer>> \o SegmentRange(t), "Internal Aggregation")
  BY InternalAdds
<1>3. \A a \in A, t \in U : PlaceInternal(a, t, start) \in A
  BY <1>2 DEF Grows
<1>4. b \in A /\ s \in Seq(U)
  OBVIOUS
<1>. HIDE DEF A, U, Ids, Notes
<1>5. PICK h \in [0..n -> A] :
         /\ h[0] = b /\ h[n] = c
         /\ \A k \in 1..n : h[k] = PlaceInternal(h[k - 1], s[k], start)
  <2>1. \A a \in A, r \in U : PlaceInternal(a, r, start) \in A
    BY <1>3
  <2>2. b \in A /\ s \in Seq(U) /\ n = Len(s) /\ c = PlaceInternals(b, s, start)
    BY <1>4
  <2>. HIDE DEF n, c
  <2>. QED
    BY ONLY <2>1, <2>2, InternalsPlaced
<1>6. \A k \in 0..n : h[k] \in A
  BY <1>5
<1>. HIDE DEF c
<1>7. ASSUME NEW k \in 1..n
      PROVE  /\ k - 1 \in 0..n /\ k \in 0..n /\ h[k - 1] \in A
             /\ Grows(ws, ix, Ids, Notes, h[k - 1], h[k], Workers(s)[k], LayerIDs(s)[k], "Internal Aggregation")
  <2>1. k - 1 \in 0..n /\ k \in 0..n
    BY <1>1
  <2>2. h[k - 1] \in A /\ s[k] \in U
    BY <1>1, <1>6, <2>1
  <2>3. Workers(s)[k] = s[k].worker /\ LayerIDs(s)[k] = <<s[k].layer>> \o SegmentRange(s[k])
    BY DEF Workers, LayerIDs
  <2>4. h[k] = PlaceInternal(h[k - 1], s[k], start)
    BY <1>5
  <2>. QED
    BY <1>2, <2>1, <2>2, <2>3, <2>4
<1>8. Batched(h, n, ix, Workers(s), LayerIDs(s), "Internal Aggregation", n, S)
  <2>1. SignedIn(h[0], S) /\ h \in [0..n -> BuildersOf(ws, ix, Ids, Notes)]
    BY <1>5 DEF A
  <2>2. \A k \in 1..n : Grows(ws, ix, Ids, Notes, h[k - 1], h[k], Workers(s)[k], LayerIDs(s)[k], "Internal Aggregation")
    BY <1>7
  <2>. QED
    BY <1>1, <2>1, <2>2, BatchAdds
<1>9. Batch(b, c, ix, Workers(s), LayerIDs(s), "Internal Aggregation", n, S)
  BY <1>1, <1>5, <1>8, BatchOfAll
<1>10. c \in A
  BY <1>1, <1>5, <1>6
<1>. QED
  BY <1>9, <1>10 DEF A, Ids, Notes, c

----------------------------------------------------------------------------
(* OpenVM timelines.                                                       *)

\* The results of a view, by their positions.
LEMMA ResultsAt ==
    ASSUME NEW M, NEW view \in ProofViews(M), NEW K
    PROVE  /\ view.proofStart \in Int
           /\ view.apps \in Seq(AppResults(M)) /\ view.leaves \in Seq(LeafResults(M))
           /\ view.internals \in Seq(InternalResults(M))
           /\ DOMAIN view.apps = 1..Len(view.apps) /\ Len(view.apps) \in Nat
           /\ DOMAIN view.leaves = 1..Len(view.leaves) /\ Len(view.leaves) \in Nat
           /\ DOMAIN view.internals = 1..Len(view.internals) /\ Len(view.internals) \in Nat
           /\ (\E t \in TimingsOf(view) : t.worker \notin K) <=>
                 \/ \E k \in 1..Len(view.apps) : Workers(view.apps)[k] \notin K
                 \/ \E k \in 1..Len(view.leaves) : Workers(view.leaves)[k] \notin K
                 \/ \E k \in 1..Len(view.internals) : Workers(view.internals)[k] \notin K
<1>1. /\ view.proofStart \in Int
      /\ view.apps \in Seq(AppResults(M)) /\ view.leaves \in Seq(LeafResults(M))
      /\ view.internals \in Seq(InternalResults(M))
  BY DEF ProofViews
<1>2. /\ DOMAIN view.apps = 1..Len(view.apps) /\ Len(view.apps) \in Nat
      /\ DOMAIN view.leaves = 1..Len(view.leaves) /\ Len(view.leaves) \in Nat
      /\ DOMAIN view.internals = 1..Len(view.internals) /\ Len(view.internals) \in Nat
  BY <1>1
<1>3. ASSUME NEW s, DOMAIN s = 1..Len(s)
      PROVE  (\E t \in Range(s) : t.worker \notin K) <=> \E k \in 1..Len(s) : Workers(s)[k] \notin K
  <2>1. \A k \in 1..Len(s) : Workers(s)[k] = s[k].worker /\ s[k] \in Range(s)
    BY <1>3 DEF Workers, Range
  <2>2. \A t \in Range(s) : \E k \in 1..Len(s) : s[k] = t
    BY <1>3 DEF Range
  <2>. QED
    BY <2>1, <2>2
<1>4. (\E t \in TimingsOf(view) : t.worker \notin K) <=>
         \/ \E t \in Range(view.apps) : t.worker \notin K
         \/ \E t \in Range(view.leaves) : t.worker \notin K
         \/ \E t \in Range(view.internals) : t.worker \notin K
  BY DEF TimingsOf
<1>. QED
  BY <1>1, <1>2, <1>3, <1>4

\* The builder, without bars at first, that every result of a proof is placed in.
LEMMA OpenvmBuilds ==
    ASSUME NEW M, NEW view \in ProofViews(M), DistinctResults(view), NEW ws, NEW ix, IsInjective(ix),
           NEW b0 \in BuildersOf(ws, ix, Seq(Int), NotesOf(M)), b0.tasks = <<>>, b0.unlisted = FALSE
    PROVE  LET start == view.proofStart
           IN  Built(view, ws, ix, NotesOf(M),
                     PlaceInternals(PlaceLeaves(PlaceApps(b0, view.apps, start), view.leaves, start),
                                    view.internals, start))
<1>. DEFINE start == view.proofStart
            A == BuildersOf(ws, ix, Seq(Int), NotesOf(M))
            apps == view.apps
            leaves == view.leaves
            internals == view.internals
            b1 == PlaceApps(b0, apps, start)
            b2 == PlaceLeaves(b1, leaves, start)
            b3 == PlaceInternals(b2, internals, start)
            S1 == {} \cup Signatures(ix, Workers(apps), SegmentIDs(apps), "Segment", Len(apps))
            S2 == S1 \cup Signatures(ix, Workers(leaves), RangeIDs(leaves), "Leaf Aggregation", Len(leaves))
            S3 == S2 \cup Signatures(ix, Workers(internals), LayerIDs(internals), "Internal Aggregation", Len(internals))
<1>1. /\ start \in Int
      /\ apps \in Seq(AppResults(M)) /\ leaves \in Seq(LeafResults(M)) /\ internals \in Seq(InternalResults(M))
      /\ DOMAIN apps = 1..Len(apps) /\ Len(apps) \in Nat
      /\ DOMAIN leaves = 1..Len(leaves) /\ Len(leaves) \in Nat
      /\ DOMAIN internals = 1..Len(internals) /\ Len(internals) \in Nat
      /\ (\E t \in TimingsOf(view) : t.worker \notin DOMAIN ix) <=>
            \/ \E k \in 1..Len(apps) : Workers(apps)[k] \notin DOMAIN ix
            \/ \E k \in 1..Len(leaves) : Workers(leaves)[k] \notin DOMAIN ix
            \/ \E k \in 1..Len(internals) : Workers(internals)[k] \notin DOMAIN ix
  BY ResultsAt
<1>2. SignedIn(b0, {}) /\ Apart(b0)
  BY DEF SignedIn, Apart
<1>3. /\ b1 \in A
      /\ Batch(b0, b1, ix, Workers(apps), SegmentIDs(apps), "Segment", Len(apps), {})
      /\ \A k \in 1..Len(apps) : SegmentEnds(b1, apps[k], start)
  <2>. HIDE DEF start, apps
  <2>. QED
    BY <1>1, <1>2, AppsBatch
<1>4. SignedIn(b1, S1)
  BY <1>3 DEF Batch
<1>. HIDE DEF b1, S1
<1>5. /\ b2 \in A
      /\ Batch(b1, b2, ix, Workers(leaves), RangeIDs(leaves), "Leaf Aggregation", Len(leaves), S1)
  <2>. HIDE DEF start, leaves
  <2>. QED
    BY <1>1, <1>3, <1>4, LeavesBatch
<1>6. SignedIn(b2, S2)
  BY <1>5 DEF Batch
<1>. HIDE DEF b2, S2
<1>7. /\ b3 \in A
      /\ Batch(b2, b3, ix, Workers(internals), LayerIDs(internals), "Internal Aggregation", Len(internals), S2)
  <2>. HIDE DEF start, internals
  <2>. QED
    BY <1>1, <1>5, <1>6, InternalsBatch
<1>8. SignedIn(b3, S3)
  BY <1>7 DEF Batch
<1>. HIDE DEF b3, S3
<1>9. b3.unlisted <=> \E t \in TimingsOf(view) : t.worker \notin DOMAIN ix
  BY <1>1, <1>3, <1>5, <1>7 DEF Batch
<1>10. ASSUME ~b3.unlisted
       PROVE  Apart(b3) /\ \A i \in DOMAIN b3.tasks : b3.tasks[i].worker \in Range(ix)
  <2>1. Listed(Workers(apps), ix, Len(apps)) /\ Listed(Workers(leaves), ix, Len(leaves))
        /\ Listed(Workers(internals), ix, Len(internals))
    BY <1>1, <1>9, <1>10 DEF Listed
  <2>2. /\ Alone(Workers(apps), SegmentIDs(apps), Len(apps))
        /\ Alone(Workers(leaves), RangeIDs(leaves), Len(leaves))
        /\ Alone(Workers(internals), LayerIDs(internals), Len(internals))
    BY <1>1 DEF DistinctResults, Workers, SegmentIDs, RangeIDs, LayerIDs, Alone
  <2>3. /\ SignedApart(ix, Workers(apps), SegmentIDs(apps), "Segment", Len(apps), {})
        /\ \A x \in S1 : x[1] \in Range(ix) /\ x[3] = "Segment"
    <3>0. Without({}, "Segment")
      BY DEF Without
    <3>1. Separates(ix, Workers(apps), SegmentIDs(apps), "Segment", Len(apps), {})
      BY <1>1, <2>1, <2>2, <3>0, SignaturesApart
    <3>. QED
      BY <3>1 DEF Separates, S1
  <2>4. /\ SignedApart(ix, Workers(leaves), RangeIDs(leaves), "Leaf Aggregation", Len(leaves), S1)
        /\ \A x \in S2 : x[1] \in Range(ix) /\ x[3] \in {"Segment", "Leaf Aggregation"}
    <3>1. Without(S1, "Leaf Aggregation")
      BY <2>3 DEF Without
    <3>2. Separates(ix, Workers(leaves), RangeIDs(leaves), "Leaf Aggregation", Len(leaves), S1)
      BY <1>1, <2>1, <2>2, <3>1, SignaturesApart
    <3>. QED
      BY <2>3, <3>2 DEF Separates, S2
  <2>5. /\ SignedApart(ix, Workers(internals), LayerIDs(internals), "Internal Aggregation", Len(internals), S2)
        /\ \A x \in S3 : x[1] \in Range(ix)
    <3>1. Without(S2, "Internal Aggregation")
      BY <2>4 DEF Without
    <3>2. Separates(ix, Workers(internals), LayerIDs(internals), "Internal Aggregation", Len(internals), S2)
      BY <1>1, <2>1, <2>2, <3>1, SignaturesApart
    <3>. QED
      BY <2>4, <3>2 DEF Separates, S3
  <2>6. Apart(b3)
    BY <1>2, <1>3, <1>5, <1>7, <2>3, <2>4, <2>5 DEF Batch
  <2>7. \A i \in DOMAIN b3.tasks : Signature(b3.tasks[i])[1] = b3.tasks[i].worker
    BY DEF Signature
  <2>. QED
    BY <1>8, <2>5, <2>6, <2>7 DEF SignedIn
<1>11. ASSUME NEW t \in Range(apps)
       PROVE  SegmentEnds(b3, t, start)
  <2>1. SegmentEnds(b1, t, start)
    BY <1>1, <1>3 DEF Range
  <2>2. Extends(b1, b2) /\ Extends(b2, b3)
    BY <1>5, <1>7 DEF Batch
  <2>. HIDE DEF start, apps
  <2>3. SegmentEnds(b2, t, start)
    BY <1>3, <1>5, <2>1, <2>2, SegmentStays
  <2>. QED
    BY <1>5, <1>7, <2>2, <2>3, SegmentStays
<1>12. Built(view, ws, ix, NotesOf(M), b3)
  BY <1>7, <1>9, <1>10, <1>11 DEF Built, SegmentEnds
<1>. QED
  BY <1>12 DEF b1, b2, b3

\* The transport that a bar shows is no longer than the round trip.
LEMMA TransportWithin ==
    ASSUME NEW M, NEW view \in ProofViews(M), NEW t \in TimingsOf(view),
           t.workerStart <= t.workerEnd, t.dispatched # 0
    PROVE  OpenvmTransport(t) <= AtLeast(t.completed - t.dispatched, 0)
<1>1. /\ t.dispatched \in Int /\ t.workerStart \in Int /\ t.workerEnd \in Int /\ t.completed \in Int
  <2>1. /\ view.apps \in Seq(AppResults(M)) /\ view.leaves \in Seq(LeafResults(M))
        /\ view.internals \in Seq(InternalResults(M))
    BY DEF ProofViews
  <2>2. t \in AppResults(M) \/ t \in LeafResults(M) \/ t \in InternalResults(M)
    BY <2>1 DEF TimingsOf, Range
  <2>. QED
    BY <2>2 DEF AppResults, LeafResults, InternalResults
<1>. QED
  BY <1>1 DEF OpenvmTransport, NetworkTransportMs, AtLeast

DrawnSoundly(p, ws, tasks) ==
    p.outcome = "drawn" /\ p.workers = ws /\ BarsSound(p) /\ p.tasks = Sorted(tasks)

BarsIn(b, D) == \A i \in DOMAIN b.tasks : b.tasks[i].worker \in D

\* Every order of the bars that were placed makes a sound timeline of a builder
\* that found every worker (cluster/pipeline.go:141-163).
LEMMA SortedBarsSound ==
    ASSUME NEW ws, NEW ix, NEW Notes, NEW Ids, NEW b \in BuildersOf(ws, ix, Ids, Notes),
           BarsIn(b, DOMAIN ws), b.unlisted = FALSE
    PROVE  DrawnSoundly(Timeline(b), ws, b.tasks)
<1>. DEFINE B == BarsOf(ix, Ids, Notes)
            p == Timeline(b)
<1>1. b.tasks \in Seq(B) /\ DOMAIN b.tasks = 1..Len(b.tasks) /\ b.workers = ws
  BY BuilderTasks
<1>2. \A x \in B : x.start \in Nat /\ x.kind \in Int /\ x.duration \in Nat \ {0} /\ x.start \in Int
  BY DEF BarsOf
<1>. HIDE DEF B
<1>3. /\ Ordered(Sorted(b.tasks))
      /\ \E f : /\ Permutes(f, DOMAIN b.tasks)
                /\ Sorted(b.tasks) = [q \in DOMAIN b.tasks |-> b.tasks[f[q]]]
  BY <1>1, <1>2, SortedTasks
<1>4. p = [outcome |-> "drawn", workers |-> ws, tasks |-> Sorted(b.tasks)]
  BY <1>1 DEF Timeline
<1>5. ASSUME NEW i \in DOMAIN p.tasks
      PROVE  p.tasks[i].start >= 0 /\ p.tasks[i].duration > 0 /\ p.tasks[i].worker \in DOMAIN ws
  <2>1. PICK f : /\ Permutes(f, DOMAIN b.tasks)
                 /\ Sorted(b.tasks) = [q \in DOMAIN b.tasks |-> b.tasks[f[q]]]
    BY <1>3
  <2>2. f[i] \in DOMAIN b.tasks /\ p.tasks[i] = b.tasks[f[i]]
    BY <1>4, <2>1 DEF Permutes
  <2>3. b.tasks[f[i]] \in B
    BY <1>1, <2>2
  <2>. QED
    BY <1>2, <2>2, <2>3 DEF BarsIn
<1>. HIDE DEF p
<1>6. BarsSound(p)
  BY <1>3, <1>4, <1>5 DEF BarsSound
<1>. QED
  BY <1>4, <1>6 DEF DrawnSoundly, p

\* The timeline of every proof whose workers prove nothing twice is sound
\* (openvm/pipeline.go:117-175): its bars lie within the proof and in order, those
\* of one worker, row and id never overlap, and none but an unregistered worker
\* fails it.
THEOREM OpenvmTimelinesSound ==
    ASSUME NEW M, NEW view \in ProofViews(M), DistinctResults(view),
           NEW H, NEW workers \in Seq([id : Int, host : H])
    PROVE  OpenvmTimelineSound(view, workers)
<1>. DEFINE start == view.proofStart
            r == OpenvmRegistrations(workers)
            n == Len(workers)
            b0 == NewPipelineBuilder(r)
            ws == b0.workers
            ix == b0.index
            b == PlaceInternals(PlaceLeaves(PlaceApps(b0, view.apps, start), view.leaves, start),
                                view.internals, start)
            p == OpenvmPipeline(view, workers)
            known == {workers[i].id : i \in DOMAIN workers}
<1>1. DOMAIN r = 1..n /\ n \in Nat /\ {r[i].key : i \in 1..n} = known
  BY OpenvmRegistered
<1>. HIDE DEF r, n, known
<1>2. /\ b0 \in BuildersOf(ws, ix, Seq(Int), NotesOf(M))
      /\ b0.tasks = <<>> /\ b0.unlisted = FALSE
      /\ DOMAIN ws = 1..n
      /\ DOMAIN ix = {r[i].key : i \in 1..n}
      /\ \A k \in DOMAIN ix : ix[k] \in 1..n /\ r[ix[k]].key = k
  <2>1. Numbers(b0, n, r, Seq(Int), NotesOf(M))
    BY <1>1, NewBuilder
  <2>. HIDE DEF b0
  <2>. QED
    BY <2>1 DEF Numbers
<1>3. p = Timeline(b)
  BY DEF OpenvmPipeline, r
<1>. HIDE DEF b0, ws, ix, p
<1>4. IsInjective(ix) /\ Range(ix) \subseteq DOMAIN ws
  BY <1>2 DEF IsInjective, Range
<1>5. Built(view, ws, ix, NotesOf(M), b)
  BY <1>2, <1>4, OpenvmBuilds
<1>. HIDE DEF b
<1>6. DOMAIN ix = known
  BY <1>1, <1>2
<1>7. /\ b \in BuildersOf(ws, ix, Seq(Int), NotesOf(M))
      /\ b.unlisted \in BOOLEAN
      /\ b.unlisted <=> \E t \in TimingsOf(view) : t.worker \notin known
  BY <1>5, <1>6, BuilderTasks DEF Built
<1>8. CASE b.unlisted
  <2>1. p.outcome = "error" /\ \E t \in TimingsOf(view) : t.worker \notin known
    BY <1>3, <1>7, <1>8 DEF Timeline, NoTimeline
  <2>. QED
    BY <2>1 DEF OpenvmTimelineSound, TimingsOf, p, known
<1>9. CASE ~b.unlisted
  <2>1. Apart(b) /\ BarsIn(b, DOMAIN ws)
    BY <1>4, <1>5, <1>9 DEF Built, BarsIn
  <2>2. b.unlisted = FALSE /\ \A t \in TimingsOf(view) : t.worker \in known
    BY <1>7, <1>9
  <2>3. p.outcome = "drawn" /\ BarsSound(p) /\ p.tasks = Sorted(b.tasks)
    <3>1. DrawnSoundly(Timeline(b), ws, b.tasks)
      BY <1>7, <2>1, <2>2, SortedBarsSound
    <3>. QED
      BY <1>3, <3>1 DEF DrawnSoundly
  <2>4. PICK f : /\ Permutes(f, DOMAIN b.tasks)
                 /\ Sorted(b.tasks) = [q \in DOMAIN b.tasks |-> b.tasks[f[q]]]
    <3>. DEFINE B == BarsOf(ix, Seq(Int), NotesOf(M))
    <3>1. b.tasks \in Seq(B)
      BY <1>7, BuilderTasks
    <3>2. \A x \in B : x.start \in Int /\ x.kind \in Int
      BY DEF BarsOf
    <3>. HIDE DEF B
    <3>. QED
      BY <3>1, <3>2, SortedTasks
  <2>5. /\ DOMAIN p.tasks = DOMAIN b.tasks
        /\ \A i \in DOMAIN b.tasks : f[i] \in DOMAIN b.tasks /\ p.tasks[i] = b.tasks[f[i]]
        /\ \A i, j \in DOMAIN b.tasks : f[i] = f[j] => i = j
        /\ \A i \in DOMAIN b.tasks : \E j \in DOMAIN b.tasks : f[j] = i
    <3>1. p.tasks = [q \in DOMAIN b.tasks |-> b.tasks[f[q]]]
      BY <2>3, <2>4
    <3>2. /\ f \in [DOMAIN b.tasks -> DOMAIN b.tasks]
          /\ \A i, j \in DOMAIN b.tasks : f[i] = f[j] => i = j
          /\ \A i \in DOMAIN b.tasks : \E j \in DOMAIN b.tasks : f[j] = i
      BY <2>4 DEF Permutes, IsInjective, Range
    <3>. QED
      BY <3>1, <3>2
  <2>6. ASSUME NEW i \in DOMAIN p.tasks, NEW j \in DOMAIN p.tasks,
               i # j, p.tasks[i].worker = p.tasks[j].worker, p.tasks[i].id = p.tasks[j].id,
               OpenvmRow[p.tasks[i].kind] = OpenvmRow[p.tasks[j].kind]
        PROVE  \/ EndOfBar(p.tasks[i]) <= p.tasks[j].start
               \/ EndOfBar(p.tasks[j]) <= p.tasks[i].start
    <3>1. /\ f[i] \in DOMAIN b.tasks /\ f[j] \in DOMAIN b.tasks /\ f[i] # f[j]
          /\ p.tasks[i] = b.tasks[f[i]] /\ p.tasks[j] = b.tasks[f[j]]
      BY <2>5, <2>6
    <3>2. Signature(b.tasks[f[i]]) = Signature(b.tasks[f[j]])
      BY <2>6, <3>1 DEF Signature
    <3>. QED
      BY <2>1, <3>1, <3>2 DEF Apart, Clear
  <2>7. ASSUME NEW t \in Range(view.apps), t.completed - start > 0, SegmentDuration(t) > 0
        PROVE  \E i \in DOMAIN p.tasks :
                  /\ p.tasks[i].kind = SegmentBar /\ p.tasks[i].id = <<t.segmentStart>>
                  /\ EndOfBar(p.tasks[i]) = t.completed - start
    <3>1. PICK i \in DOMAIN b.tasks :
             /\ b.tasks[i].kind = SegmentBar /\ b.tasks[i].id = <<t.segmentStart>>
             /\ EndOfBar(b.tasks[i]) = t.completed - start
      BY <1>5, <2>7 DEF Built
    <3>2. PICK j \in DOMAIN b.tasks : f[j] = i
      BY <2>5
    <3>. QED
      BY <2>5, <3>1, <3>2
  <2>8. \A t \in TimingsOf(view) : t.workerStart <= t.workerEnd /\ t.dispatched # 0 =>
            OpenvmTransport(t) <= AtLeast(t.completed - t.dispatched, 0)
    BY TransportWithin
  <2>. QED
    BY <2>2, <2>3, <2>6, <2>7, <2>8 DEF OpenvmTimelineSound, TimingsOf, p, known
<1>. QED
  BY <1>7, <1>8, <1>9

----------------------------------------------------------------------------
(* The bars of ZisK records.                                               *)

\* The task results of a job whose records all have a bar.
MappedRecords(A, L) ==
    [type : ProofTypes \ UnmappedTypes, id : Int, air : A, airgroup : Int, start : Int, end : Int,
     sections : L]

ZiskWorkerNames == [rank : Int, name : Int]

JobTasks(P, E, R) ==
    [phase : P, worker : ZiskWorkerNames, coordinatorStart : Int, coordinatorEnd : Int, workerStart : Int,
     workerEnd : Int, executor : E, proofs : Seq(R)]

\* What the bars of such a job carry.
ProofIDs(R) == {ProofID(k, q, w) : k \in Int, q \in R, w \in BOOLEAN}
ProofNotes(P, E, R) == {ProofSections(k, t, q, x) : k \in Int, t \in JobTasks(P, E, R), q \in R, x \in Int}

ZiskBuilders(ws, ix, P, E, R) == BuildersOf(ws, ix, ProofIDs(R), ProofNotes(P, E, R))

Whole(t) == Len(t.proofs) = 1 /\ t.coordinatorStart # 0
From(t, q, start) == AtLeast((IF Whole(t) THEN t.coordinatorStart ELSE q.start) - start, 0)
To(t, q, start) == AtLeast((IF Whole(t) THEN t.coordinatorEnd ELSE q.end) - start, 0)

\* The bar of record q of task t.
Shows(bar, ix, t, q, start) ==
    /\ bar.kind = ProofKind(q.type)
    /\ bar.start = From(t, q, start) /\ EndOfBar(bar) = To(t, q, start)
    /\ bar.worker = ix[t.worker]

\* One record draws one bar, as far as it reaches into the proof.
Draws(ws, ix, P, E, R, b, c, t, q, start) ==
    /\ c \in ZiskBuilders(ws, ix, P, E, R)
    /\ c.unlisted = b.unlisted
    /\ IF From(t, q, start) < To(t, q, start)
       THEN \E bar : c.tasks = Append(b.tasks, bar) /\ Shows(bar, ix, t, q, start)
       ELSE c.tasks = b.tasks

LEMMA KindsMapped ==
    ASSUME NEW type \in ProofTypes \ UnmappedTypes
    PROVE  ProofKind(type) \in Int
<1>1. type \in {0, 1, 2, 3, 4, 5, 8, 9, 10, 11, 12, 13, 14, 15}
  BY DEF ProofTypes, UnmappedTypes
<1>. QED
  BY <1>1 DEF ProofKind, ProofTypeKinds

LEMMA RecordDraws ==
    ASSUME NEW ws, NEW ix, NEW P, NEW E, NEW A, NEW L, NEW R, R = MappedRecords(A, L),
           NEW b \in ZiskBuilders(ws, ix, P, E, R), NEW t \in JobTasks(P, E, R), NEW q \in R,
           t.worker \in DOMAIN ix, NEW start \in Int, NEW with \in BOOLEAN
    PROVE  Draws(ws, ix, P, E, R, b, PlaceProof(b, t, q, start, with), t, q, start)
<1>. DEFINE Ids == ProofIDs(R)
            Notes == ProofNotes(P, E, R)
            kind == ProofKind(q.type)
            id == ProofID(kind, q, with)
            from == IF Whole(t) THEN t.coordinatorStart ELSE q.start
            to == IF Whole(t) THEN t.coordinatorEnd ELSE q.end
            transport == IF Whole(t) THEN NetworkTransportMs(from, t.workerStart, t.workerEnd, to) ELSE 0
            sections == ProofSections(kind, t, q, transport)
            end == to - start
            duration == to - from
            c == PlaceProof(b, t, q, start, with)
            bar == BarOf(ix, kind, t.worker, id, end, duration, sections)
<1>1. /\ q.type \in ProofTypes \ UnmappedTypes /\ q.start \in Int /\ q.end \in Int
      /\ t.coordinatorStart \in Int /\ t.coordinatorEnd \in Int
      /\ t.workerStart \in Int /\ t.workerEnd \in Int
  BY DEF MappedRecords, JobTasks
<1>2. kind \in Int
  BY <1>1, KindsMapped
<1>3. from \in Int /\ to \in Int /\ end \in Int /\ duration \in Int /\ transport \in Int
  BY <1>1 DEF NetworkTransportMs, AtLeast
<1>4. c = Place(b, kind, t.worker, id, end, duration, sections)
  BY DEF PlaceProof, Whole
<1>5. id \in Ids /\ sections \in Notes
  <2>. HIDE DEF kind, transport
  <2>. QED
    BY <1>2, <1>3 DEF ProofIDs, ProofNotes
<1>6. b \in BuildersOf(ws, ix, Ids, Notes)
  BY DEF ZiskBuilders
<1>. HIDE DEF c, Ids, Notes
<1>7. Places(ws, ix, Ids, Notes, b, kind, t.worker, id, end, duration, sections)
  <2>. HIDE DEF kind, id, sections, end, duration
  <2>. QED
    BY <1>2, <1>3, <1>5, <1>6, PlaceAdds
<1>8. /\ c \in BuildersOf(ws, ix, Ids, Notes)
      /\ c.unlisted = (b.unlisted \/ t.worker \notin DOMAIN ix)
      /\ c.tasks = IF HasLength(end, duration) THEN Append(b.tasks, bar) ELSE b.tasks
  BY <1>4, <1>7 DEF Places
<1>9. end - duration = from - start
  BY <1>3
<1>10. From(t, q, start) = StartOf(end, duration) /\ To(t, q, start) = EndOf(end)
  BY <1>9 DEF From, To, StartOf, EndOf
<1>11. /\ From(t, q, start) \in Int /\ To(t, q, start) \in Int
       /\ HasLength(end, duration) <=> From(t, q, start) < To(t, q, start)
  <2>1. \A x \in Int : AtLeast(x, 0) \in Int
    BY DEF AtLeast
  <2>2. from - start \in Int /\ to - start \in Int
    BY <1>3
  <2>3. From(t, q, start) \in Int /\ To(t, q, start) \in Int
    BY <2>1, <2>2 DEF From, To
  <2>. QED
    BY <1>10, <2>3 DEF HasLength
<1>12. ASSUME HasLength(end, duration)
       PROVE  Shows(bar, ix, t, q, start)
  <2>1. Placed(end, duration) = From(t, q, start)
    BY <1>10, <1>12 DEF Placed
  <2>2. /\ bar.kind = ProofKind(q.type) /\ bar.start = Placed(end, duration)
        /\ bar.duration = EndOf(end) - Placed(end, duration) /\ bar.worker = ix[t.worker]
    BY DEF BarOf
  <2>. HIDE DEF bar, end, duration
  <2>3. \A x, y \in Int : x + (y - x) = y
    OBVIOUS
  <2>. QED
    BY <1>10, <1>11, <2>1, <2>2, <2>3 DEF Shows, EndOfBar
<1>13. b.unlisted \in BOOLEAN
  BY <1>6, BuilderTasks
<1>. HIDE DEF bar, end, duration
<1>14. c.unlisted = b.unlisted
  BY <1>8, <1>13
<1>. QED
  BY <1>8, <1>11, <1>12, <1>14 DEF Draws, ZiskBuilders, Ids, Notes, c

\* The first k records of task i that reach into the proof.
DrawnOf(tasks, start, i, k) ==
    {<<i, j>> : j \in {j \in 1..k : From(tasks[i], tasks[i].proofs[j], start) < To(tasks[i], tasks[i].proofs[j], start)}}

\* b shows the records of D, and nothing else.
Covers(ws, ix, P, E, R, tasks, start, b, D) ==
    /\ b \in ZiskBuilders(ws, ix, P, E, R)
    /\ b.unlisted = FALSE
    /\ IsFiniteSet(D) /\ Len(b.tasks) = Cardinality(D)
    /\ \A r \in D : \E i \in DOMAIN b.tasks :
          Shows(b.tasks[i], ix, tasks[r[1]], tasks[r[1]].proofs[r[2]], start)

LEMMA CoversRecord ==
    ASSUME NEW ws, NEW ix, NEW P, NEW E, NEW R, NEW tasks, NEW start, NEW b, NEW c, NEW D,
           Covers(ws, ix, P, E, R, tasks, start, b, D), NEW i, NEW k, <<i, k>> \notin D,
           Draws(ws, ix, P, E, R, b, c, tasks[i], tasks[i].proofs[k], start)
    PROVE  IF From(tasks[i], tasks[i].proofs[k], start) < To(tasks[i], tasks[i].proofs[k], start)
           THEN Covers(ws, ix, P, E, R, tasks, start, c, D \cup {<<i, k>>})
           ELSE Covers(ws, ix, P, E, R, tasks, start, c, D)
<1>. DEFINE t == tasks[i]
            q == t.proofs[k]
            shows(bar, r) == Shows(bar, ix, tasks[r[1]], tasks[r[1]].proofs[r[2]], start)
            r0 == <<i, k>>
<1>1. /\ b \in ZiskBuilders(ws, ix, P, E, R) /\ b.unlisted = FALSE
      /\ IsFiniteSet(D) /\ Len(b.tasks) = Cardinality(D)
      /\ \A r \in D : \E j \in DOMAIN b.tasks : shows(b.tasks[j], r)
  BY DEF Covers
<1>2. c \in ZiskBuilders(ws, ix, P, E, R) /\ c.unlisted = FALSE
  BY <1>1 DEF Draws
<1>3. CASE From(t, q, start) < To(t, q, start)
  <2>1. PICK bar : c.tasks = Append(b.tasks, bar) /\ Shows(bar, ix, t, q, start)
    BY <1>3 DEF Draws
  <2>2. shows(bar, r0)
    BY <2>1
  <2>3. Len(b.tasks) \in Nat /\ DOMAIN b.tasks = 1..Len(b.tasks)
        /\ Len(c.tasks) \in Nat /\ DOMAIN c.tasks = 1..Len(c.tasks)
    BY <1>1, <1>2, BuilderTasks DEF ZiskBuilders
  <2>4. /\ Len(c.tasks) = Len(b.tasks) + 1 /\ c.tasks[Len(b.tasks) + 1] = bar
        /\ \A j \in DOMAIN b.tasks : c.tasks[j] = b.tasks[j]
    <3>. DEFINE B == BarsOf(ix, ProofIDs(R), ProofNotes(P, E, R))
    <3>1. b.tasks \in Seq(B)
      BY <1>1, BuilderTasks DEF ZiskBuilders
    <3>. HIDE DEF B
    <3>2. c.tasks = Append(b.tasks, bar)
      BY <2>1
    <3>3. Len(Append(b.tasks, bar)) = Len(b.tasks) + 1
      BY <3>1
    <3>4. Append(b.tasks, bar)[Len(b.tasks) + 1] = bar
      BY <3>1
    <3>5. \A j \in DOMAIN b.tasks : Append(b.tasks, bar)[j] = b.tasks[j]
      BY <3>1
    <3>. QED
      BY <3>2, <3>3, <3>4, <3>5
  <2>. HIDE DEF r0
  <2>5. IsFiniteSet(D \cup {r0}) /\ Cardinality(D \cup {r0}) = Cardinality(D) + 1
    BY <1>1, FS_AddElement DEF r0
  <2>. HIDE DEF shows
  <2>6. \A r \in D \cup {r0} : \E j \in DOMAIN c.tasks : shows(c.tasks[j], r)
    <3>1. \A r \in D : \E j \in DOMAIN c.tasks : shows(c.tasks[j], r)
      BY <1>1, <2>3, <2>4
    <3>2. \E j \in DOMAIN c.tasks : shows(c.tasks[j], r0)
      BY <2>2, <2>3, <2>4
    <3>. QED
      BY <3>1, <3>2
  <2>7. Covers(ws, ix, P, E, R, tasks, start, c, D \cup {r0})
    BY <1>1, <1>2, <2>4, <2>5, <2>6 DEF Covers, shows
  <2>. QED
    BY <1>3, <2>7 DEF r0
<1>4. CASE ~(From(t, q, start) < To(t, q, start))
  <2>1. c.tasks = b.tasks
    BY <1>4 DEF Draws
  <2>2. Covers(ws, ix, P, E, R, tasks, start, c, D)
    BY <1>1, <1>2, <2>1 DEF Covers
  <2>. QED
    BY <1>4, <2>2
<1>. QED
  BY <1>3, <1>4

LEMMA DrawnNext ==
    ASSUME NEW tasks, NEW start, NEW i, NEW k \in Nat
    PROVE  DrawnOf(tasks, start, i, k + 1) =
              IF From(tasks[i], tasks[i].proofs[k + 1], start) < To(tasks[i], tasks[i].proofs[k + 1], start)
              THEN DrawnOf(tasks, start, i, k) \cup {<<i, k + 1>>} ELSE DrawnOf(tasks, start, i, k)
<1>. DEFINE reaches(j) == From(tasks[i], tasks[i].proofs[j], start) < To(tasks[i], tasks[i].proofs[j], start)
            J(n) == {j \in 1..n : reaches(j)}
<1>1. \A n : DrawnOf(tasks, start, i, n) = {<<i, j>> : j \in J(n)}
  BY DEF DrawnOf
<1>. HIDE DEF reaches
<1>2. 1..(k + 1) = 1..k \cup {k + 1}
  OBVIOUS
<1>3. J(k + 1) = IF reaches(k + 1) THEN J(k) \cup {k + 1} ELSE J(k)
  BY <1>2
<1>. HIDE DEF J
<1>4. CASE reaches(k + 1)
  <2>1. J(k + 1) = J(k) \cup {k + 1}
    BY <1>3, <1>4
  <2>2. {<<i, j>> : j \in J(k) \cup {k + 1}} = {<<i, j>> : j \in J(k)} \cup {<<i, k + 1>>}
    OBVIOUS
  <2>3. DrawnOf(tasks, start, i, k + 1) = DrawnOf(tasks, start, i, k) \cup {<<i, k + 1>>}
    BY <1>1, <2>1, <2>2
  <2>. QED
    BY <1>4, <2>3 DEF reaches
<1>5. CASE ~reaches(k + 1)
  <2>1. DrawnOf(tasks, start, i, k + 1) = DrawnOf(tasks, start, i, k)
    BY <1>1, <1>3, <1>5
  <2>. QED
    BY <1>5, <2>1 DEF reaches
<1>. QED
  BY <1>4, <1>5

\* The tasks of workers that the builder knows.
ListedTasks(ix, P, E, R) == {t \in JobTasks(P, E, R) : t.worker \in DOMAIN ix}

LEMMA TaskCovered ==
    ASSUME NEW ws, NEW ix, NEW P, NEW E, NEW A, NEW L, NEW R, R = MappedRecords(A, L),
           NEW tasks \in Seq(ListedTasks(ix, P, E, R)), NEW i \in DOMAIN tasks,
           NEW start \in Int, NEW with \in BOOLEAN, NEW b, NEW D,
           Covers(ws, ix, P, E, R, tasks, start, b, D), \A r \in D : r[1] # i
    PROVE  Covers(ws, ix, P, E, R, tasks, start, PlaceProofs(b, tasks[i], start, with),
                  D \cup DrawnOf(tasks, start, i, Len(tasks[i].proofs)))
<1>. DEFINE B == ZiskBuilders(ws, ix, P, E, R)
            t == tasks[i]
            s == t.proofs
            n == Len(s)
            c == PlaceProofs(b, t, start, with)
            covers(a, k) == Covers(ws, ix, P, E, R, tasks, start, a, D \cup DrawnOf(tasks, start, i, k))
<1>1. t \in JobTasks(P, E, R) /\ t.worker \in DOMAIN ix
  <2>. DEFINE U == ListedTasks(ix, P, E, R)
  <2>1. \A u \in U : u \in JobTasks(P, E, R) /\ u.worker \in DOMAIN ix
    BY DEF ListedTasks
  <2>2. tasks \in Seq(U)
    OBVIOUS
  <2>. HIDE DEF U
  <2>3. t \in U
    BY <2>2
  <2>. QED
    BY <2>1, <2>3
<1>2. s \in Seq(R)
  BY <1>1 DEF JobTasks
<1>3. n \in Nat /\ \A k \in 1..n : s[k] \in R
  BY <1>2
<1>. HIDE DEF t, c
<1>4. \A a \in B, q \in R : Draws(ws, ix, P, E, R, a, PlaceProof(a, t, q, start, with), t, q, start)
  BY <1>1, RecordDraws
<1>5. \A a \in B, q \in R : PlaceProof(a, t, q, start, with) \in B
  BY <1>4 DEF Draws
<1>6. b \in B
  BY DEF Covers
<1>. HIDE DEF B, n
<1>7. PICK h \in [0..n -> B] :
         /\ h[0] = b /\ h[n] = c
         /\ \A k \in 1..n : h[k] = PlaceProof(h[k - 1], t, s[k], start, with)
  <2>1. t.proofs = s /\ n = Len(s) /\ c = PlaceProofs(b, t, start, with)
    BY DEF n, c
  <2>2. ProofsKept(B, R, t, start, with)
    BY <1>5 DEF ProofsKept
  <2>. HIDE DEF s
  <2>3. ProofsWalk(B, b, s, t, start, with)
    BY <1>2, <1>6, <2>1, <2>2, ProofsPlaced
  <2>. QED
    BY <2>1, <2>3 DEF ProofsWalk
<1>. DEFINE T == {k \in Nat : k <= n => covers(h[k], k)}
<1>8. covers(h[0], 0)
  <2>1. DrawnOf(tasks, start, i, 0) = {}
    BY DEF DrawnOf
  <2>2. D \cup DrawnOf(tasks, start, i, 0) = D
    BY <2>1
  <2>. QED
    BY <1>7, <2>2
<1>. HIDE DEF s
<1>9. ASSUME NEW k \in Nat, k + 1 <= n, covers(h[k], k)
      PROVE  covers(h[k + 1], k + 1)
  <2>. DEFINE C == D \cup DrawnOf(tasks, start, i, k)
              reaches == From(t, s[k + 1], start) < To(t, s[k + 1], start)
  <2>1. k \in 0..n /\ k + 1 \in 1..n /\ k + 1 \in 0..n /\ (k + 1) - 1 = k
    BY <1>3, <1>9
  <2>2. h[k] \in B /\ h[k + 1] = PlaceProof(h[k], t, s[k + 1], start, with)
    BY <1>7, <2>1
  <2>3. Draws(ws, ix, P, E, R, h[k], h[k + 1], t, s[k + 1], start)
    BY <1>3, <1>4, <2>1, <2>2
  <2>4. <<i, k + 1>> \notin C
    <3>1. \A r \in DrawnOf(tasks, start, i, k) : \E j \in 1..k : r = <<i, j>>
      BY DEF DrawnOf
    <3>2. \A j \in 1..k : <<i, k + 1>> # <<i, j>>
      BY <1>9
    <3>3. <<i, k + 1>>[1] = i
      OBVIOUS
    <3>. QED
      BY <3>1, <3>2, <3>3
  <2>5. Covers(ws, ix, P, E, R, tasks, start, h[k], C)
    BY <1>9
  <2>6. IF reaches THEN Covers(ws, ix, P, E, R, tasks, start, h[k + 1], C \cup {<<i, k + 1>>})
        ELSE Covers(ws, ix, P, E, R, tasks, start, h[k + 1], C)
    <3>. HIDE DEF C
    <3>. QED
      BY <2>3, <2>4, <2>5, CoversRecord DEF t, s
  <2>7. DrawnOf(tasks, start, i, k + 1) = IF reaches THEN DrawnOf(tasks, start, i, k) \cup {<<i, k + 1>>}
                                          ELSE DrawnOf(tasks, start, i, k)
    BY <1>9, DrawnNext DEF t, s
  <2>8. D \cup DrawnOf(tasks, start, i, k + 1) = IF reaches THEN C \cup {<<i, k + 1>>} ELSE C
    BY <2>7
  <2>. HIDE DEF reaches, C
  <2>. QED
    BY <2>6, <2>8
<1>. HIDE DEF covers
<1>10. T = Nat
  <2>1. 0 \in T
    BY <1>8
  <2>2. ASSUME NEW k \in T
        PROVE  k + 1 \in T
    <3>. SUFFICES ASSUME k + 1 <= n PROVE covers(h[k + 1], k + 1)
      OBVIOUS
    <3>1. k \in Nat /\ covers(h[k], k)
      BY <1>3
    <3>. QED
      BY <1>9, <3>1
  <2>3. T \in SUBSET Nat
    OBVIOUS
  <2>. HIDE DEF T
  <2>. QED
    BY <2>1, <2>2, <2>3, SetInduction
<1>11. covers(h[n], n)
  BY <1>3, <1>10
<1>. QED
  BY <1>7, <1>11 DEF covers, c, n, s, t

\* The records of the first k tasks that reach into the proof.
DrawnUpTo(tasks, start, k) == UNION {DrawnOf(tasks, start, i, Len(tasks[i].proofs)) : i \in 1..k}

LEMMA TasksCovered ==
    ASSUME NEW ws, NEW ix, NEW P, NEW E, NEW A, NEW L, NEW R, R = MappedRecords(A, L),
           NEW tasks \in Seq(ListedTasks(ix, P, E, R)), NEW start \in Int, NEW with \in BOOLEAN,
           NEW b \in ZiskBuilders(ws, ix, P, E, R), b.tasks = <<>>, b.unlisted = FALSE
    PROVE  Covers(ws, ix, P, E, R, tasks, start, PlaceTasks(b, tasks, start, with),
                  DrawnUpTo(tasks, start, Len(tasks)))
<1>. DEFINE B == ZiskBuilders(ws, ix, P, E, R)
            U == ListedTasks(ix, P, E, R)
            n == Len(tasks)
            c == PlaceTasks(b, tasks, start, with)
            covers(a, k) == Covers(ws, ix, P, E, R, tasks, start, a, DrawnUpTo(tasks, start, k))
<1>1. n \in Nat /\ DOMAIN tasks = 1..n /\ \A k \in 1..n : tasks[k] \in U
  OBVIOUS
<1>2. ASSUME NEW a \in B, NEW t \in U
      PROVE  PlaceProofs(a, t, start, with) \in B
  <2>. DEFINE s == t.proofs
  <2>1. t \in JobTasks(P, E, R) /\ t.worker \in DOMAIN ix
    BY DEF ListedTasks
  <2>2. s \in Seq(R)
    BY <2>1 DEF JobTasks
  <2>3. \A d \in B, q \in R : Draws(ws, ix, P, E, R, d, PlaceProof(d, t, q, start, with), t, q, start)
    BY <2>1, RecordDraws
  <2>4. \A d \in B, q \in R : PlaceProof(d, t, q, start, with) \in B
    BY <2>3 DEF Draws
  <2>. HIDE DEF B, U
  <2>5. PICK h \in [0..Len(s) -> B] : h[Len(s)] = PlaceProofs(a, t, start, with)
    <3>1. t.proofs = s
      OBVIOUS
    <3>. HIDE DEF s
    <3>2. ProofsKept(B, R, t, start, with)
      BY <2>4 DEF ProofsKept
    <3>3. ProofsWalk(B, a, s, t, start, with)
      BY <2>2, <3>1, <3>2, ProofsPlaced
    <3>. QED
      BY <3>3 DEF ProofsWalk
  <2>6. Len(s) \in 0..Len(s)
    BY <2>2
  <2>. QED
    BY <2>5, <2>6
<1>. HIDE DEF B, c
<1>3. b \in B
  BY DEF B
<1>. HIDE DEF U, n
<1>4. PICK h \in [0..n -> B] :
         /\ h[0] = b /\ h[n] = c
         /\ \A k \in 1..n : h[k] = PlaceProofs(h[k - 1], tasks[k], start, with)
  <2>1. tasks \in Seq(U) /\ n = Len(tasks) /\ c = PlaceTasks(b, tasks, start, with)
    BY DEF n, c, U
  <2>2. TasksKept(B, U, start, with)
    BY <1>2 DEF TasksKept
  <2>3. TasksWalk(B, b, tasks, start, with)
    BY <1>3, <2>1, <2>2, TasksPlaced
  <2>. QED
    BY <2>1, <2>3 DEF TasksWalk
<1>. DEFINE T == {k \in Nat : k <= n => covers(h[k], k)}
<1>5. covers(h[0], 0)
  <2>1. DrawnUpTo(tasks, start, 0) = {}
    BY DEF DrawnUpTo
  <2>2. IsFiniteSet({}) /\ Cardinality({}) = 0 /\ Len(b.tasks) = 0
    BY FS_EmptySet
  <2>. QED
    BY <1>3, <1>4, <2>1, <2>2 DEF Covers, B
<1>6. ASSUME NEW k \in Nat, k + 1 <= n, covers(h[k], k)
      PROVE  covers(h[k + 1], k + 1)
  <2>. DEFINE C == DrawnUpTo(tasks, start, k)
              m == Len(tasks[k + 1].proofs)
  <2>1. k \in 0..n /\ k + 1 \in 1..n /\ k + 1 \in 0..n /\ (k + 1) - 1 = k /\ k + 1 \in DOMAIN tasks
    BY <1>1, <1>6
  <2>2. h[k + 1] = PlaceProofs(h[k], tasks[k + 1], start, with)
    BY <1>4, <2>1
  <2>3. \A r \in C : r[1] # k + 1
    <3>1. \A i \in 1..k : \A r \in DrawnOf(tasks, start, i, Len(tasks[i].proofs)) : r[1] = i
      BY DEF DrawnOf
    <3>2. \A i \in 1..k : i # k + 1
      BY <1>6
    <3>. QED
      BY <3>1, <3>2 DEF DrawnUpTo
  <2>4. DrawnUpTo(tasks, start, k + 1) = C \cup DrawnOf(tasks, start, k + 1, m)
    <3>1. 1..(k + 1) = 1..k \cup {k + 1}
      BY <1>6
    <3>. DEFINE of(i) == DrawnOf(tasks, start, i, Len(tasks[i].proofs))
    <3>2. UNION {of(i) : i \in 1..(k + 1)} = (UNION {of(i) : i \in 1..k}) \cup of(k + 1)
      <4>. HIDE DEF of
      <4>. QED
        BY <3>1
    <3>. QED
      BY <3>2 DEF DrawnUpTo
  <2>5. Covers(ws, ix, P, E, R, tasks, start, h[k], C)
    BY <1>6
  <2>. HIDE DEF C
  <2>6. Covers(ws, ix, P, E, R, tasks, start, PlaceProofs(h[k], tasks[k + 1], start, with),
               C \cup DrawnOf(tasks, start, k + 1, m))
    BY <2>1, <2>3, <2>5, TaskCovered
  <2>. QED
    BY <2>2, <2>4, <2>6
<1>. HIDE DEF covers
<1>7. T = Nat
  <2>1. 0 \in T
    BY <1>5
  <2>2. ASSUME NEW k \in T
        PROVE  k + 1 \in T
    <3>. SUFFICES ASSUME k + 1 <= n PROVE covers(h[k + 1], k + 1)
      OBVIOUS
    <3>1. k \in Nat /\ covers(h[k], k)
      BY <1>1
    <3>. QED
      BY <1>6, <3>1
  <2>3. T \in SUBSET Nat
    OBVIOUS
  <2>. HIDE DEF T
  <2>. QED
    BY <2>1, <2>2, <2>3, SetInduction
<1>8. covers(h[n], n)
  BY <1>1, <1>7
<1>. QED
  BY <1>4, <1>8 DEF covers, c, n

----------------------------------------------------------------------------
(* ZisK timelines.                                                         *)

\* The workers W registered in the order of RankBefore, each its own node.
Ranked(r, W) ==
    LET n == Cardinality(W)
    IN  /\ n \in Nat /\ DOMAIN r = 1..n /\ IsFiniteSet(W)
        /\ \A i \in 1..n : r[i].key = r[i].name /\ r[i].name \in W /\ Node(r, i) = i
        /\ \A i, j \in 1..n : i < j => RankBefore(r[i].name, r[j].name)
        /\ {r[i].key : i \in 1..n} = W

LEMMA DistinctNodes ==
    ASSUME NEW n \in Nat, NEW r, DOMAIN r = 1..n,
           \A i, j \in 1..n : r[i].host = r[j].host => i = j, NEW i \in 1..n
    PROVE  Node(r, i) = i
<1>. DEFINE host(j) == r[j].host
            first == CHOOSE j \in 1..i : host(j) = host(i) /\ \A k \in 1..(j - 1) : host(k) # host(i)
            T == {host(j) : j \in 1..i}
            f == [j \in 1..i |-> host(j)]
<1>1. \A j \in 1..i : j \in 1..n
  OBVIOUS
<1>2. i \in 1..i /\ \A k \in 1..(i - 1) : k \in 1..n /\ k # i
  OBVIOUS
<1>3. first = i
  <2>1. \A k \in 1..(i - 1) : host(k) # host(i)
    BY <1>2
  <2>2. \A j \in 1..i : host(j) = host(i) => j = i
    BY <1>1
  <2>. HIDE DEF host
  <2>. QED
    BY <1>2, <2>1, <2>2
<1>4. Node(r, i) = Cardinality({host(j) : j \in 1..first})
  BY DEF Node
<1>5. IsFiniteSet(1..i) /\ Cardinality(1..i) = i
  <2>1. IsFiniteSet(1..i) /\ Cardinality(1..i) = IF 1 > i THEN 0 ELSE i - 1 + 1
    BY FS_Interval
  <2>. QED
    BY <2>1
<1>6. f \in Surjection(1..i, T) /\ f \in Injection(1..i, T)
  BY <1>1 DEF Surjection, Injection, IsInjective
<1>7. Cardinality(T) = Cardinality(1..i)
  <2>. HIDE DEF f, T
  <2>. QED
    BY <1>5, <1>6, FS_Surjection
<1>. HIDE DEF first
<1>8. Node(r, i) = Cardinality(T)
  BY <1>3, <1>4
<1>. QED
  BY <1>5, <1>7, <1>8

LEMMA ZiskRegistered ==
    ASSUME NEW P, NEW E, NEW R, NEW tasks \in Seq(JobTasks(P, E, R))
    PROVE  Ranked(ZiskRegistrations(tasks), {tasks[i].worker : i \in DOMAIN tasks})
<1>. DEFINE W == {tasks[i].worker : i \in DOMAIN tasks}
            n == Cardinality(W)
            P0 == [x \in W |-> {y \in W : RankBefore(y, x)}]
            s == InOrder(W, RankBefore)
            r == ZiskRegistrations(tasks)
<1>1. /\ IsFiniteSet(W) /\ n \in Nat
      /\ \A w \in W : w.rank \in Int /\ w.name \in Int
      /\ \A v, w \in W : v.rank = w.rank /\ v.name = w.name => v = w
  <2>. DEFINE U == JobTasks(P, E, R)
              D == DOMAIN tasks
  <2>1. \A t \in U : t.worker \in ZiskWorkerNames
    BY DEF JobTasks
  <2>2. tasks \in Seq(U)
    OBVIOUS
  <2>. HIDE DEF U
  <2>3. D = 1..Len(tasks) /\ Len(tasks) \in Nat /\ \A i \in D : tasks[i] \in U
    BY <2>2
  <2>4. IsFiniteSet(D)
    BY <2>3, FS_Interval
  <2>5. W = Range([i \in D |-> tasks[i].worker])
    BY DEF Range
  <2>6. [i \in D |-> tasks[i].worker] \in Surjection(D, W)
    BY DEF Surjection
  <2>7. IsFiniteSet(W)
    BY <2>4, <2>6, FS_Surjection
  <2>8. n \in Nat
    BY <2>7, FS_CardinalityType
  <2>9. \A w \in W : w \in ZiskWorkerNames
    BY <2>1, <2>3
  <2>. HIDE DEF W
  <2>10. /\ \A w \in W : w.rank \in Int /\ w.name \in Int
         /\ \A v, w \in W : v.rank = w.rank /\ v.name = w.name => v = w
    BY <2>9 DEF ZiskWorkerNames
  <2>. QED
    BY <2>7, <2>8, <2>10
<1>2. s = [p \in 1..n |-> CHOOSE x \in W : Cardinality({y \in W : RankBefore(y, x)}) = p - 1]
  BY DEF InOrder
<1>3. r = [i \in DOMAIN s |-> [key |-> s[i], name |-> s[i], host |-> s[i]]]
  BY DEF ZiskRegistrations
<1>. HIDE DEF W, r, s
<1>4. /\ \A x \in W : ~RankBefore(x, x)
      /\ \A x, y, z \in W : RankBefore(x, y) /\ RankBefore(y, z) => RankBefore(x, z)
      /\ \A x, y \in W : x = y \/ RankBefore(x, y) \/ RankBefore(y, x)
  BY <1>1 DEF RankBefore
<1>5. /\ P0 \in [W -> SUBSET W] /\ \A x \in W : P0[x] = {y \in W : RankBefore(y, x)}
      /\ \A x, y \in W : y \in P0[x] <=> RankBefore(y, x)
  OBVIOUS
<1>. HIDE DEF P0, n
<1>6. Precedes(W, P0)
  <2>1. \A x, y \in W : y \in P0[x] => P0[y] \subseteq P0[x]
    BY <1>4, <1>5
  <2>. QED
    BY <1>4, <1>5, <2>1 DEF Precedes
<1>7. ASSUME NEW p \in 1..n
      PROVE  s[p] \in W /\ Cardinality(P0[s[p]]) = p - 1
  <2>1. PICK x \in W : Cardinality(P0[x]) = p - 1
    BY <1>1, <1>6, Ranks DEF n
  <2>2. Cardinality({y \in W : RankBefore(y, x)}) = p - 1
    BY <1>5, <2>1
  <2>3. s[p] \in W /\ Cardinality({y \in W : RankBefore(y, s[p])}) = p - 1
    BY <1>2, <2>2
  <2>. QED
    BY <1>5, <2>3
<1>8. s \in [1..n -> W]
  BY <1>2, <1>7
<1>9. SortsBy(s, W, P0)
  BY <1>1, <1>6, <1>7, <1>8, Sorts DEF n
<1>10. /\ DOMAIN s = 1..n /\ \A i \in 1..n : s[i] \in W
       /\ \A i, j \in 1..n : i < j => RankBefore(s[i], s[j])
       /\ \A i, j \in 1..n : s[i] = s[j] => i = j
       /\ \A w \in W : \E i \in 1..n : s[i] = w
  <2>1. \A i, j \in 1..n : i < j => s[i] \in P0[s[j]]
    BY <1>8, <1>9 DEF SortsBy
  <2>2. /\ \A i, j \in 1..n : s[i] = s[j] => i = j
        /\ \A w \in W : \E i \in 1..n : s[i] = w
    BY <1>8, <1>9 DEF SortsBy, IsInjective, Range
  <2>. QED
    BY <1>5, <1>8, <2>1, <2>2
<1>11. DOMAIN r = 1..n /\ \A i \in 1..n : r[i].key = s[i] /\ r[i].name = s[i] /\ r[i].host = s[i]
  BY <1>3, <1>10
<1>12. \A i \in 1..n : Node(r, i) = i
  BY <1>1, <1>10, <1>11, DistinctNodes
<1>13. {r[i].key : i \in 1..n} = W
  <2>1. \A w \in W : \E i \in 1..n : w = r[i].key
    BY <1>10, <1>11
  <2>2. \A i \in 1..n : r[i].key \in W
    BY <1>10, <1>11
  <2>. QED
    BY <2>1, <2>2
<1>14. Ranked(r, W)
  BY <1>1, <1>10, <1>11, <1>12, <1>13 DEF Ranked, n
<1>. QED
  BY <1>14 DEF r, W

\* Records of any type, as the coordinator reports them.
ZiskRecords(A, L) ==
    [type : Int, id : Int, air : A, airgroup : Int, start : Int, end : Int, sections : L]

\* A builder that shows the records of D draws each of them, and nothing else.
LEMMA CoveredSoundly ==
    ASSUME NEW ws, NEW ix, NEW P, NEW E, NEW R, NEW tasks, NEW start, NEW b, NEW D,
           Covers(ws, ix, P, E, R, tasks, start, b, D), BarsIn(b, DOMAIN ws)
    PROVE  LET p == Timeline(b)
           IN  /\ p.outcome = "drawn" /\ p.workers = ws /\ BarsSound(p)
               /\ Len(p.tasks) = Cardinality(D)
               /\ \A r \in D : \E i \in DOMAIN p.tasks :
                     Shows(p.tasks[i], ix, tasks[r[1]], tasks[r[1]].proofs[r[2]], start)
<1>. DEFINE B == BarsOf(ix, ProofIDs(R), ProofNotes(P, E, R))
            p == Timeline(b)
            shows(bar, r) == Shows(bar, ix, tasks[r[1]], tasks[r[1]].proofs[r[2]], start)
<1>1. /\ b \in BuildersOf(ws, ix, ProofIDs(R), ProofNotes(P, E, R)) /\ b.unlisted = FALSE
      /\ Len(b.tasks) = Cardinality(D)
      /\ \A r \in D : \E i \in DOMAIN b.tasks : shows(b.tasks[i], r)
  BY DEF Covers, ZiskBuilders
<1>2. b.tasks \in Seq(B)
  BY <1>1, BuilderTasks
<1>3. \A x \in B : x.start \in Int /\ x.kind \in Int
  BY DEF BarsOf
<1>4. DrawnSoundly(p, ws, b.tasks)
  BY <1>1, SortedBarsSound
<1>. HIDE DEF B, p, shows
<1>5. /\ Len(Sorted(b.tasks)) = Len(b.tasks)
      /\ \E f : /\ Permutes(f, DOMAIN b.tasks)
                /\ Sorted(b.tasks) = [q \in DOMAIN b.tasks |-> b.tasks[f[q]]]
  BY <1>2, <1>3, SortedTasks
<1>6. PICK f : /\ Permutes(f, DOMAIN b.tasks)
               /\ Sorted(b.tasks) = [q \in DOMAIN b.tasks |-> b.tasks[f[q]]]
  BY <1>5
<1>7. p.outcome = "drawn" /\ p.workers = ws /\ BarsSound(p) /\ p.tasks = Sorted(b.tasks)
  BY <1>4 DEF DrawnSoundly
<1>8. ASSUME NEW r \in D
      PROVE  \E i \in DOMAIN p.tasks : shows(p.tasks[i], r)
  <2>1. PICK i \in DOMAIN b.tasks : shows(b.tasks[i], r)
    BY <1>1
  <2>2. PICK j \in DOMAIN b.tasks : f[j] = i
    BY <1>6 DEF Permutes, Range
  <2>3. j \in DOMAIN p.tasks /\ p.tasks[j] = b.tasks[i]
    BY <1>6, <1>7, <2>2
  <2>. QED
    BY <2>1, <2>3
<1>9. Len(p.tasks) = Cardinality(D)
  BY <1>1, <1>5, <1>7
<1>. QED
  BY <1>7, <1>8, <1>9 DEF p, shows

\* A job whose records all have a bar.
LEMMA MappedJob ==
    ASSUME NEW P, NEW E, NEW A, NEW L, NEW tasks \in Seq(JobTasks(P, E, ZiskRecords(A, L))),
           \A i \in DOMAIN tasks : \A k \in DOMAIN tasks[i].proofs : ProofMapped(tasks[i].proofs[k].type)
    PROVE  tasks \in Seq(JobTasks(P, E, MappedRecords(A, L)))
<1>. DEFINE Q == ZiskRecords(A, L)
            R == MappedRecords(A, L)
            U == JobTasks(P, E, Q)
            V == JobTasks(P, E, R)
<1>1. tasks \in Seq(U)
  OBVIOUS
<1>2. \A q \in Q : ProofMapped(q.type) => q \in R
  BY DEF ProofMapped, ZiskRecords, MappedRecords
<1>3. ASSUME NEW t \in U, \A k \in DOMAIN t.proofs : ProofMapped(t.proofs[k].type)
      PROVE  t \in V
  <2>1. t.proofs \in Seq(Q)
    BY DEF JobTasks
  <2>. HIDE DEF Q, R
  <2>2. \A k \in DOMAIN t.proofs : t.proofs[k] \in R
    BY <1>2, <1>3, <2>1
  <2>3. t.proofs \in Seq(R)
    <3>1. Len(t.proofs) \in Nat /\ DOMAIN t.proofs = 1..Len(t.proofs)
      BY <2>1
    <3>2. t.proofs \in [1..Len(t.proofs) -> R]
      BY <2>1, <2>2, <3>1
    <3>. QED
      BY <3>1, <3>2
  <2>4. \A x : x \in Seq(R) => [t EXCEPT !.proofs = x] \in V
    BY DEF JobTasks
  <2>5. [t EXCEPT !.proofs = t.proofs] = t
    BY DEF JobTasks
  <2>. QED
    BY <2>3, <2>4, <2>5
<1>. HIDE DEF U, V
<1>4. Len(tasks) \in Nat /\ DOMAIN tasks = 1..Len(tasks) /\ \A i \in DOMAIN tasks : tasks[i] \in U
  BY <1>1
<1>5. \A i \in DOMAIN tasks : tasks[i] \in V
  BY <1>3, <1>4
<1>6. tasks \in [1..Len(tasks) -> V]
  BY <1>1, <1>4, <1>5
<1>. QED
  BY <1>4, <1>6 DEF V, R

\* The records that the property counts are those that the builder has shown.
LEMMA DrawnRecords ==
    ASSUME NEW P, NEW E, NEW R, NEW tasks \in Seq(JobTasks(P, E, R)), NEW start
    PROVE  LET records == UNION {{<<i, k>> : k \in DOMAIN tasks[i].proofs} : i \in DOMAIN tasks}
               proof(r) == tasks[r[1]].proofs[r[2]]
           IN  {r \in records : From(tasks[r[1]], proof(r), start) < To(tasks[r[1]], proof(r), start)}
                   = DrawnUpTo(tasks, start, Len(tasks))
<1>. DEFINE U == JobTasks(P, E, R)
            proof(r) == tasks[r[1]].proofs[r[2]]
            records == UNION {{<<i, k>> : k \in DOMAIN tasks[i].proofs} : i \in DOMAIN tasks}
            reaches(i, k) == From(tasks[i], tasks[i].proofs[k], start) < To(tasks[i], tasks[i].proofs[k], start)
            S == {r \in records : From(tasks[r[1]], proof(r), start) < To(tasks[r[1]], proof(r), start)}
            D == DrawnUpTo(tasks, start, Len(tasks))
<1>1. DOMAIN tasks = 1..Len(tasks) /\ \A i \in DOMAIN tasks : DOMAIN tasks[i].proofs = 1..Len(tasks[i].proofs)
  <2>1. tasks \in Seq(U) /\ \A t \in U : t.proofs \in Seq(R)
    BY DEF JobTasks
  <2>. HIDE DEF U
  <2>2. \A i \in DOMAIN tasks : tasks[i].proofs \in Seq(R)
    BY <2>1
  <2>. QED
    BY <2>1, <2>2
<1>2. \A r : r \in S <=> \E i \in DOMAIN tasks : \E k \in DOMAIN tasks[i].proofs : r = <<i, k>> /\ reaches(i, k)
  <2>1. \A r : r \in records <=> \E i \in DOMAIN tasks : \E k \in DOMAIN tasks[i].proofs : r = <<i, k>>
    OBVIOUS
  <2>2. \A i, k : <<i, k>>[1] = i /\ <<i, k>>[2] = k
    OBVIOUS
  <2>. HIDE DEF records
  <2>3. \A i, k : From(tasks[<<i, k>>[1]], proof(<<i, k>>), start) < To(tasks[<<i, k>>[1]], proof(<<i, k>>), start)
                    <=> reaches(i, k)
    BY <2>2
  <2>. QED
    BY <2>1, <2>3
<1>3. \A r : r \in D <=> \E i \in DOMAIN tasks : \E k \in DOMAIN tasks[i].proofs : r = <<i, k>> /\ reaches(i, k)
  <2>1. \A i \in DOMAIN tasks : \A r : r \in DrawnOf(tasks, start, i, Len(tasks[i].proofs)) <=>
           \E k \in DOMAIN tasks[i].proofs : r = <<i, k>> /\ reaches(i, k)
    BY <1>1 DEF DrawnOf
  <2>2. \A r : r \in D <=> \E i \in DOMAIN tasks : r \in DrawnOf(tasks, start, i, Len(tasks[i].proofs))
    BY <1>1 DEF DrawnUpTo
  <2>. QED
    BY <2>1, <2>2
<1>4. S = D
  <2>1. \A r : r \in S <=> r \in D
    BY <1>2, <1>3
  <2>. HIDE DEF S, D
  <2>. QED
    BY <2>1, Zenon
<1>. QED
  BY <1>4

\* The timeline of every job is sound (zisk/pipeline.go:125-182): every record
\* that reaches into the proof draws one bar, where it ran and when, and no record
\* is drawn as another.
THEOREM ZiskTimelinesSound ==
    ASSUME NEW P, NEW E, NEW A, NEW L, NEW start \in Int,
           NEW tasks \in Seq(JobTasks(P, E, ZiskRecords(A, L)))
    PROVE  ZiskTimelineSound(start, tasks)
<1>. DEFINE R == MappedRecords(A, L)
            p == ZiskPipeline(start, tasks)
            with == FoldsManyAirgroups(tasks)
            r == ZiskRegistrations(tasks)
            W == {tasks[i].worker : i \in DOMAIN tasks}
            n == Cardinality(W)
            b0 == NewPipelineBuilder(r)
            ws == b0.workers
            ix == b0.index
            b == PlaceTasks(b0, tasks, start, with)
            D == DrawnUpTo(tasks, start, Len(tasks))
            records == UNION {{<<i, k>> : k \in DOMAIN tasks[i].proofs} : i \in DOMAIN tasks}
            proof(x) == tasks[x[1]].proofs[x[2]]
            unmapped == \/ \E i \in DOMAIN tasks : tasks[i].phase \notin MappedPhases
                        \/ \E x \in records : ~ProofMapped(proof(x).type)
            failed == \E i \in DOMAIN tasks :
                         \/ tasks[i].phase \notin MappedPhases
                         \/ \E q \in Range(tasks[i].proofs) : ~ProofMapped(q.type)
            sound == /\ p.outcome = "drawn" /\ BarsSound(p)
                     /\ Len(p.tasks) = Cardinality(D)
                     /\ \A x \in D : \E i \in DOMAIN p.tasks :
                           LET bar == p.tasks[i]
                           IN  /\ bar.kind = ProofKind(proof(x).type)
                               /\ bar.start = From(tasks[x[1]], proof(x), start)
                               /\ EndOfBar(bar) = To(tasks[x[1]], proof(x), start)
                               /\ p.workers[bar.worker].name = tasks[x[1]].worker
                     /\ \A i, j \in DOMAIN p.workers : i < j =>
                           /\ RankBefore(p.workers[i].name, p.workers[j].name)
                           /\ p.workers[i].node # p.workers[j].node
<1>1. p = IF start = 0 \/ tasks = <<>> THEN NoTimeline("none")
          ELSE IF failed THEN NoTimeline("error")
          ELSE IF b.tasks = <<>> THEN NoTimeline("none") ELSE Timeline(b)
  BY DEF ZiskPipeline
<1>2. {x \in records : From(tasks[x[1]], proof(x), start) < To(tasks[x[1]], proof(x), start)} = D
  BY DrawnRecords
<1>3. failed <=> unmapped
  <2>1. \A i \in DOMAIN tasks :
           (\E q \in Range(tasks[i].proofs) : ~ProofMapped(q.type)) <=>
              \E k \in DOMAIN tasks[i].proofs : ~ProofMapped(tasks[i].proofs[k].type)
    BY DEF Range
  <2>2. (\E x \in records : ~ProofMapped(proof(x).type)) <=>
           \E i \in DOMAIN tasks : \E k \in DOMAIN tasks[i].proofs : ~ProofMapped(tasks[i].proofs[k].type)
    <3>1. \A i, k : <<i, k>>[1] = i /\ <<i, k>>[2] = k
      OBVIOUS
    <3>2. \A x : x \in records <=> \E i \in DOMAIN tasks : \E k \in DOMAIN tasks[i].proofs : x = <<i, k>>
      OBVIOUS
    <3>3. \A i, k : proof(<<i, k>>) = tasks[i].proofs[k]
      BY <3>1
    <3>. DEFINE lost(i, k) == ~ProofMapped(tasks[i].proofs[k].type)
    <3>4. \A i, k : ~ProofMapped(proof(<<i, k>>).type) <=> lost(i, k)
      BY <3>3
    <3>. HIDE DEF records, proof, lost
    <3>5. ASSUME NEW x \in records, ~ProofMapped(proof(x).type)
          PROVE  \E i \in DOMAIN tasks : \E k \in DOMAIN tasks[i].proofs : lost(i, k)
      <4>1. PICK i \in DOMAIN tasks : \E k \in DOMAIN tasks[i].proofs : x = <<i, k>>
        BY <3>2
      <4>2. PICK k \in DOMAIN tasks[i].proofs : x = <<i, k>>
        BY <4>1
      <4>. QED
        BY <3>4, <3>5, <4>2
    <3>6. ASSUME NEW i \in DOMAIN tasks, NEW k \in DOMAIN tasks[i].proofs, lost(i, k)
          PROVE  \E x \in records : ~ProofMapped(proof(x).type)
      <4>1. <<i, k>> \in records
        BY <3>2
      <4>. QED
        BY <3>4, <3>6, <4>1
    <3>. QED
      BY <3>5, <3>6 DEF lost
  <2>. HIDE DEF records, proof
  <2>. QED
    BY <2>1, <2>2
<1>4. ZiskTimelineSound(start, tasks) <=>
         IF start = 0 \/ tasks = <<>> THEN p.outcome = "none"
         ELSE IF unmapped THEN p.outcome = "error"
         ELSE IF D = {} THEN p.outcome = "none"
         ELSE sound
  <2>1. {x \in records :
           AtLeast((IF Len(tasks[x[1]].proofs) = 1 /\ tasks[x[1]].coordinatorStart # 0
                    THEN tasks[x[1]].coordinatorStart ELSE proof(x).start) - start, 0)
           < AtLeast((IF Len(tasks[x[1]].proofs) = 1 /\ tasks[x[1]].coordinatorStart # 0
                      THEN tasks[x[1]].coordinatorEnd ELSE proof(x).end) - start, 0)} = D
    BY <1>2 DEF From, To, Whole
  <2>. HIDE DEF D, p
  <2>. QED
    BY <2>1 DEF ZiskTimelineSound, From, To, Whole, p
<1>5. ASSUME start # 0, tasks # <<>>, ~unmapped
      PROVE  IF D = {} THEN p.outcome = "none" ELSE sound
  <2>. HIDE DEF sound
  <2>1. tasks \in Seq(JobTasks(P, E, R))
    <3>1. \A i \in DOMAIN tasks : \A k \in DOMAIN tasks[i].proofs : ProofMapped(tasks[i].proofs[k].type)
      BY <1>3, <1>5 DEF Range
    <3>. QED
      BY <3>1, MappedJob
  <2>2. Ranked(r, W)
    BY ZiskRegistered
  <2>. HIDE DEF W, r
  <2>3. /\ n \in Nat /\ DOMAIN r = 1..n
        /\ \A i \in 1..n : r[i].key = r[i].name /\ r[i].name \in W /\ Node(r, i) = i
        /\ \A i, j \in 1..n : i < j => RankBefore(r[i].name, r[j].name)
        /\ {r[i].key : i \in 1..n} = W
    BY <2>2 DEF Ranked
  <2>. HIDE DEF n
  <2>4. Numbers(b0, n, r, ProofIDs(R), ProofNotes(P, E, R))
    BY <2>3, NewBuilder
  <2>. HIDE DEF b0
  <2>5. /\ b0 \in ZiskBuilders(ws, ix, P, E, R)
        /\ b0.tasks = <<>> /\ b0.unlisted = FALSE
        /\ DOMAIN ws = 1..n
        /\ \A i \in 1..n : ws[i].name = r[i].name /\ ws[i].node = i
        /\ DOMAIN ix = W
        /\ \A w \in W : ix[w] \in 1..n /\ ws[ix[w]].name = w
    BY <2>3, <2>4 DEF Numbers, ZiskBuilders
  <2>6. with \in BOOLEAN
    BY DEF FoldsManyAirgroups
  <2>7. tasks \in Seq(ListedTasks(ix, P, E, R)) /\ tasks[1].worker \in W
    <3>. DEFINE U == JobTasks(P, E, R)
                V == ListedTasks(ix, P, E, R)
    <3>1. \A t \in U : t.worker \in W => t \in V
      BY <2>5 DEF ListedTasks
    <3>2. tasks \in Seq(U)
      BY <2>1
    <3>. HIDE DEF U, V
    <3>3. Len(tasks) \in Nat /\ DOMAIN tasks = 1..Len(tasks) /\ \A i \in DOMAIN tasks : tasks[i] \in U
      BY <3>2
    <3>4. \A i \in DOMAIN tasks : tasks[i] \in V /\ tasks[i].worker \in W
      BY <3>1, <3>3 DEF W
    <3>5. tasks \in [1..Len(tasks) -> V]
      BY <3>2, <3>3, <3>4
    <3>6. 1 \in DOMAIN tasks
      BY <1>5, <3>2, <3>3
    <3>. QED
      BY <3>3, <3>4, <3>5, <3>6 DEF V
  <2>. HIDE DEF with, ws, ix
  <2>8. Covers(ws, ix, P, E, R, tasks, start, b, D)
    BY <2>5, <2>6, <2>7, TasksCovered
  <2>. HIDE DEF b, D
  <2>9. BarsIn(b, DOMAIN ws) /\ Len(b.tasks) \in Nat /\ (b.tasks = <<>> <=> Len(b.tasks) = 0)
    <3>. DEFINE B == BarsOf(ix, ProofIDs(R), ProofNotes(P, E, R))
    <3>1. b.tasks \in Seq(B)
      BY <2>8, BuilderTasks DEF Covers, ZiskBuilders
    <3>2. \A x \in B : x.worker \in Range(ix) \cup {1}
      BY DEF BarsOf
    <3>. HIDE DEF B
    <3>3. Range(ix) \subseteq 1..n /\ 1 \in 1..n
      BY <2>3, <2>5, <2>7 DEF Range
    <3>4. \A i \in DOMAIN b.tasks : b.tasks[i] \in B
      BY <3>1
    <3>5. BarsIn(b, DOMAIN ws)
      BY <2>5, <3>2, <3>3, <3>4 DEF BarsIn
    <3>6. Len(b.tasks) \in Nat /\ (b.tasks = <<>> <=> Len(b.tasks) = 0)
      BY <3>1
    <3>. QED
      BY <3>5, <3>6
  <2>10. D = {} <=> b.tasks = <<>>
    <3>1. IsFiniteSet(D) /\ Len(b.tasks) = Cardinality(D)
      BY <2>8 DEF Covers
    <3>2. Cardinality(D) = 0 <=> D = {}
      BY <3>1, FS_EmptySet
    <3>. QED
      BY <2>9, <3>1, <3>2
  <2>11. CASE D = {}
    <3>1. p = NoTimeline("none")
      BY <1>1, <1>3, <1>5, <2>10, <2>11
    <3>. QED
      BY <2>11, <3>1 DEF NoTimeline
  <2>12. CASE D # {}
    <3>1. p = Timeline(b)
      BY <1>1, <1>3, <1>5, <2>10, <2>12
    <3>. HIDE DEF p
    <3>2. /\ p.outcome = "drawn" /\ p.workers = ws /\ BarsSound(p)
          /\ Len(p.tasks) = Cardinality(D)
          /\ \A x \in D : \E i \in DOMAIN p.tasks : Shows(p.tasks[i], ix, tasks[x[1]], proof(x), start)
      BY <2>8, <2>9, <3>1, CoveredSoundly
    <3>3. \A x \in D : tasks[x[1]].worker \in W
      <4>1. \A i \in 1..Len(tasks) : tasks[i].worker \in W
        BY <2>1 DEF W
      <4>2. \A x \in D : \E i \in 1..Len(tasks) : x[1] = i
        BY DEF D, DrawnUpTo, DrawnOf
      <4>. QED
        BY <4>1, <4>2
    <3>4. ASSUME NEW x \in D
          PROVE  \E i \in DOMAIN p.tasks :
                    LET bar == p.tasks[i]
                    IN  /\ bar.kind = ProofKind(proof(x).type)
                        /\ bar.start = From(tasks[x[1]], proof(x), start)
                        /\ EndOfBar(bar) = To(tasks[x[1]], proof(x), start)
                        /\ p.workers[bar.worker].name = tasks[x[1]].worker
      <4>1. PICK i \in DOMAIN p.tasks : Shows(p.tasks[i], ix, tasks[x[1]], proof(x), start)
        BY <3>2
      <4>2. ws[ix[tasks[x[1]].worker]].name = tasks[x[1]].worker
        BY <2>5, <3>3
      <4>. HIDE DEF proof
      <4>. QED
        BY <3>2, <4>1, <4>2 DEF Shows
    <3>5. ASSUME NEW i \in DOMAIN p.workers, NEW j \in DOMAIN p.workers, i < j
          PROVE  RankBefore(p.workers[i].name, p.workers[j].name) /\ p.workers[i].node # p.workers[j].node
      <4>1. /\ i \in 1..n /\ j \in 1..n /\ i # j
            /\ p.workers[i].name = r[i].name /\ p.workers[j].name = r[j].name
            /\ p.workers[i].node = i /\ p.workers[j].node = j
        BY <2>3, <2>5, <3>2, <3>5
      <4>. QED
        BY <2>3, <3>5, <4>1
    <3>6. sound
      BY <3>2, <3>4, <3>5 DEF sound
    <3>. QED
      BY <2>12, <3>6
  <2>. QED
    BY <2>11, <2>12
<1>6. CASE start = 0 \/ tasks = <<>>
  <2>1. p.outcome = "none"
    BY <1>1, <1>6 DEF NoTimeline
  <2>. HIDE DEF p
  <2>. QED
    BY <1>4, <1>6, <2>1
<1>7. CASE ~(start = 0 \/ tasks = <<>>) /\ unmapped
  <2>1. p.outcome = "error"
    BY <1>1, <1>3, <1>7 DEF NoTimeline
  <2>. HIDE DEF p, unmapped
  <2>. QED
    BY <1>4, <1>7, <2>1
<1>8. CASE ~(start = 0 \/ tasks = <<>>) /\ ~unmapped
  <2>. HIDE DEF unmapped, sound, p, D
  <2>. QED
    BY <1>4, <1>5, <1>8
<1>. QED
  BY <1>6, <1>7, <1>8

----------------------------------------------------------------------------
(* The answers of an ere-server.                                           *)

\* The sums of samples from U stay in A.
SumsWithin(A, U, index) == \A a \in A, t \in U : AddSample(a, t, index) \in A

\* The sums that SampleSum passes through.
LEMMA SamplesSummed ==
    ASSUME NEW A, 0 \in A, NEW U, NEW s \in Seq(U), NEW index,
           SumsWithin(A, U, index)
    PROVE  \E h \in [0..Len(s) -> A] :
              /\ h[0] = 0
              /\ \A k \in 1..Len(s) : h[k] = AddSample(h[k - 1], s[k], index)
              /\ h[Len(s)] = SampleSum(s, index)
<1>. DEFINE n == Len(s)
            F == [p \in A \X (1..n) |-> AddSample(p[1], s[p[2]], index)]
            Computes(g) ==
               g = [d \in SUBSET (1..n) |->
                       IF d = {} THEN 0 ELSE AddSample(g[d \ {Max(d)}], s[Max(d)], index)]
            iter == CHOOSE g : Computes(g)
<1>1. n \in Nat /\ DOMAIN s = 1..n /\ \A i \in 1..n : s[i] \in U
  OBVIOUS
<1>2. F \in [A \X (1..n) -> A]
  BY <1>1 DEF SumsWithin
<1>3. \A a \in A, i \in 1..n : F[<<a, i>>] = AddSample(a, s[i], index)
  OBVIOUS
<1>4. SampleSum(s, index) = iter[1..n]
  BY <1>1 DEF SampleSum, FoldLeft, MapThenFoldSet
<1>. HIDE DEF F, n
<1>5. Computes(iter)
  <2>1. PICK g \in [SUBSET (1..n) -> A] : Folds(g, n, 0, F)
    BY <1>1, <1>2, FoldExists
  <2>2. ASSUME NEW d \in SUBSET (1..n), d # {}
        PROVE  F[<<g[d \ {Max(d)}], Max(d)>>] = AddSample(g[d \ {Max(d)}], s[Max(d)], index)
    <3>1. Max(d) \in 1..n
      BY <1>1, <2>2, LargestPosition
    <3>2. g[d \ {Max(d)}] \in A
      BY <2>1
    <3>. QED
      BY <1>3, <3>1, <3>2
  <2>3. Computes(g)
    BY <2>1, <2>2 DEF Folds
  <2>. HIDE DEF Computes
  <2>. QED
    BY <2>3
<1>. HIDE DEF iter
<1>6. iter[1..0] = 0
  <2>1. 1..0 = {} /\ {} \in SUBSET (1..n)
    OBVIOUS
  <2>. QED
    BY <1>5, <2>1
<1>7. ASSUME NEW k \in 0..(n - 1), iter[1..k] \in A
      PROVE  iter[1..(k + 1)] = F[<<iter[1..k], k + 1>>]
  <2>. DEFINE d == 1..(k + 1)
  <2>1. d \in SUBSET (1..n) /\ d # {} /\ Max(d) = k + 1 /\ d \ {Max(d)} = 1..k
    BY <1>1, IntervalTop
  <2>. HIDE DEF d
  <2>2. iter[d] = AddSample(iter[d \ {Max(d)}], s[Max(d)], index)
    BY <1>5, <2>1
  <2>3. k + 1 \in 1..n
    BY <1>1
  <2>. QED
    BY <1>3, <1>7, <2>1, <2>2, <2>3 DEF d
<1>. HIDE DEF Computes
<1>8. PICK h \in [0..n -> A] :
         /\ h[0] = 0 /\ h[n] = iter[1..n]
         /\ \A k \in 1..n : h[k] = F[<<h[k - 1], k>>]
  <2>1. Follows(iter, A, n, 0, F)
    BY <1>6, <1>7 DEF Follows
  <2>2. PICK h \in [0..n -> A] : Walk(h, iter, n, 0, F)
    BY <1>1, <1>2, <2>1, Walks
  <2>. QED
    BY <2>2 DEF Walk
<1>9. \A k \in 1..n : h[k] = AddSample(h[k - 1], s[k], index)
  <2>1. \A k \in 1..n : h[k - 1] \in A
    BY <1>1, <1>8
  <2>. QED
    BY <1>3, <1>8, <2>1
<1>10. \E g \in [0..n -> A] :
          /\ g[0] = 0
          /\ \A k \in 1..n : g[k] = AddSample(g[k - 1], s[k], index)
          /\ g[n] = SampleSum(s, index)
  BY <1>4, <1>8, <1>9
<1>. QED
  BY <1>10 DEF n

\* The answers of an ere-server whose sample types are named in N, with the
\* costs of an estimation from E.
PprofProfiles(N) ==
    UNION {[parses : BOOLEAN, types : {types}, samples : Seq([DOMAIN types -> Int])] :
           types \in Seq([cost : BOOLEAN, name : N])}

ServerResults(N, E) ==
    [form : {"ok"}, cost : E] \cup [form : {"err", "unset"}]
    \cup [form : {"pprof"}, pprof : PprofProfiles(N)]

ServerAnswers(N, E) == [reached : BOOLEAN, decodes : BOOLEAN, result : ServerResults(N, E)]

\* t are the running sums of the samples at index.
RunsUp(t, samples, index) ==
    /\ t[0] = 0
    /\ \A k \in 1..Len(samples) : t[k] = t[k - 1] + samples[k][index]

\* total has for each component of types the sum of its samples, under the last
\* index of its name, and nothing else.
Totals(total, types, samples) ==
    /\ total \in [{u.name : u \in {v \in Range(types) : v.cost}} -> Int]
    /\ \A i \in DOMAIN types :
          types[i].cost /\ (\A j \in (i + 1)..Len(types) : types[j] # types[i]) =>
             \E t \in [0..Len(samples) -> Int] :
                RunsUp(t, samples, i) /\ total[types[i].name] = t[Len(samples)] % Modulus

\* A sum that wraps at every sample is the sum that wraps once.
LEMMA SumsAgree ==
    ASSUME NEW T, NEW samples \in Seq([T -> Int]), NEW index \in T,
           NEW t \in [0..Len(samples) -> Int], RunsUp(t, samples, index)
    PROVE  SampleSum(samples, index) = t[Len(samples)] % Modulus
<1>. DEFINE n == Len(samples)
            A == 0..(Modulus - 1)
<1>1. Modulus \in Nat \ {0} /\ 0 \in A /\ n \in Nat /\ \A k \in 1..n : samples[k] \in [T -> Int]
  BY EstimationAssumption
<1>2. \A a \in A, s \in [T -> Int] : AddSample(a, s, index) \in A
  <2>. TAKE a \in A, s \in [T -> Int]
  <2>1. a + s[index] \in Int
    BY <1>1
  <2>. QED
    BY <1>1, <2>1, WrapsOnTheWay DEF AddSample
<1>3. PICK h \in [0..n -> A] :
         /\ h[0] = 0
         /\ \A k \in 1..n : h[k] = AddSample(h[k - 1], samples[k], index)
         /\ h[n] = SampleSum(samples, index)
  <2>. DEFINE V == [T -> Int]
  <2>1. samples \in Seq(V) /\ SumsWithin(A, V, index)
    BY <1>2 DEF SumsWithin
  <2>2. 0 \in A
    BY <1>1
  <2>. HIDE DEF A, V, n
  <2>3. \E h \in [0..Len(samples) -> A] :
           /\ h[0] = 0
           /\ \A k \in 1..Len(samples) : h[k] = AddSample(h[k - 1], samples[k], index)
           /\ h[Len(samples)] = SampleSum(samples, index)
    BY <2>1, <2>2, SamplesSummed
  <2>. QED
    BY <2>3 DEF n
<1>. DEFINE U == {k \in Nat : k <= n => h[k] = t[k] % Modulus}
<1>4. 0 \in U
  <2>1. 0 % Modulus = 0
    BY <1>1
  <2>. QED
    BY <1>3, <2>1 DEF RunsUp
<1>5. ASSUME NEW k \in U
      PROVE  k + 1 \in U
  <2>. SUFFICES ASSUME k + 1 <= n PROVE h[k + 1] = t[k + 1] % Modulus
    OBVIOUS
  <2>1. k \in Nat /\ k \in 0..n /\ k + 1 \in 1..n /\ (k + 1) - 1 = k /\ h[k] = t[k] % Modulus /\ t[k] \in Int
    <3>1. k \in Nat /\ k \in 0..n /\ k + 1 \in 1..n /\ (k + 1) - 1 = k
      BY <1>1
    <3>2. h[k] = t[k] % Modulus
      BY <3>1
    <3>3. t[k] \in Int
      BY <3>1
    <3>. QED
      BY <3>1, <3>2, <3>3
  <2>2. samples[k + 1][index] \in Int
    BY <1>1, <2>1
  <2>3. h[k + 1] = (h[k] + samples[k + 1][index]) % Modulus
    BY <1>3, <2>1 DEF AddSample
  <2>4. t[k + 1] = t[k] + samples[k + 1][index]
    BY <2>1 DEF RunsUp
  <2>. QED
    BY <1>1, <2>1, <2>2, <2>3, <2>4, WrapsOnTheWay
<1>6. U = Nat
  <2>1. U \in SUBSET Nat
    OBVIOUS
  <2>. HIDE DEF U
  <2>. QED
    BY <1>4, <1>5, <2>1, SetInduction
<1>. QED
  BY <1>1, <1>3, <1>6

\* The index of a component is the last that names it.
LEMMA IndexIsLast ==
    ASSUME NEW N, NEW types \in Seq([cost : BOOLEAN, name : N]), NEW c \in Components(types)
    PROVE  LET i == CostIndex(types, c)
           IN  /\ i \in DOMAIN types /\ types[i].cost /\ types[i].name = c
               /\ \A j \in (i + 1)..Len(types) : types[j] # types[i]
<1>. DEFINE n == Len(types)
            u == [cost |-> TRUE, name |-> c]
            S == {i \in 1..n : types[i] = u}
            Latest(i) == types[i] = u /\ \A j \in DOMAIN types : types[j] = types[i] => j <= i
<1>1. n \in Nat /\ DOMAIN types = 1..n
  OBVIOUS
<1>2. PICK k \in DOMAIN types : types[k].cost /\ types[k].name = c
  BY DEF Components
<1>3. types[k] = u
  <2>. DEFINE R == [cost : BOOLEAN, name : N]
  <2>1. types \in Seq(R)
    OBVIOUS
  <2>. HIDE DEF R
  <2>2. types[k] \in R
    BY <1>2, <2>1
  <2>. QED
    BY <1>2, <2>2 DEF R
<1>. HIDE DEF n, u
<1>4. S \in SUBSET (1..n) /\ S # {}
  BY <1>1, <1>3
<1>5. Max(S) \in S /\ \A y \in S : Max(S) >= y
  <2>. HIDE DEF S
  <2>. QED
    BY <1>1, <1>4, LargestPosition
<1>6. Max(S) \in DOMAIN types /\ Latest(Max(S))
  <2>. DEFINE m == Max(S)
  <2>1. m \in 1..n /\ types[m] = u
    BY <1>5
  <2>. HIDE DEF m
  <2>2. ASSUME NEW j \in DOMAIN types, types[j] = types[m]
        PROVE  j <= m
    <3>1. j \in S
      BY <1>1, <2>1, <2>2
    <3>. QED
      BY <1>1, <1>5, <2>1, <3>1 DEF m
  <2>. QED
    BY <1>1, <2>1, <2>2 DEF m
<1>7. CostIndex(types, c) \in DOMAIN types /\ Latest(CostIndex(types, c))
  <2>1. CostIndex(types, c) = CHOOSE i \in DOMAIN types : Latest(i)
    BY DEF CostIndex, u
  <2>. HIDE DEF Latest
  <2>. QED
    BY <1>6, <2>1
<1>. DEFINE i == CostIndex(types, c)
<1>8. i \in 1..n /\ types[i] = u
  BY <1>1, <1>7
<1>. HIDE DEF i
<1>9. ASSUME NEW j \in (i + 1)..n
      PROVE  types[j] # types[i]
  BY <1>1, <1>7, <1>8, <1>9 DEF i
<1>10. types[i].cost /\ types[i].name = c
  BY <1>8 DEF u
<1>11. /\ i \in DOMAIN types /\ types[i].cost /\ types[i].name = c
       /\ \A j \in (i + 1)..Len(types) : types[j] # types[i]
  BY <1>1, <1>8, <1>9, <1>10 DEF n
<1>. QED
  BY <1>11 DEF i

\* The cost that a profile breaks down is the total of its components.
LEMMA CostIsTotal ==
    ASSUME NEW N, NEW pprof \in PprofProfiles(N), NEW total, Totals(total, pprof.types, pprof.samples)
    PROVE  ProfileCost(pprof) = total
<1>. DEFINE types == pprof.types
            samples == pprof.samples
            C == Components(types)
<1>1. types \in Seq([cost : BOOLEAN, name : N]) /\ samples \in Seq([DOMAIN types -> Int])
  <2>1. PICK T \in Seq([cost : BOOLEAN, name : N]) :
           pprof \in [parses : BOOLEAN, types : {T}, samples : Seq([DOMAIN T -> Int])]
    BY DEF PprofProfiles
  <2>. QED
    BY <2>1
<1>2. total \in [C -> Int]
  BY <1>1 DEF Totals, Components, Range
<1>3. ASSUME NEW c \in C
      PROVE  SampleSum(samples, CostIndex(types, c)) = total[c]
  <2>. DEFINE i == CostIndex(types, c)
  <2>1. i \in DOMAIN types /\ types[i].cost /\ types[i].name = c
        /\ \A j \in (i + 1)..Len(types) : types[j] # types[i]
    BY <1>1, IndexIsLast
  <2>. HIDE DEF i
  <2>2. PICK t \in [0..Len(samples) -> Int] :
           RunsUp(t, samples, i) /\ total[types[i].name] = t[Len(samples)] % Modulus
    BY <2>1 DEF Totals
  <2>. HIDE DEF samples, types
  <2>3. SampleSum(samples, i) = t[Len(samples)] % Modulus
    BY <1>1, <2>1, <2>2, SumsAgree
  <2>. QED
    BY <2>1, <2>2, <2>3 DEF i
<1>4. ProfileCost(pprof) = [c \in C |-> SampleSum(samples, CostIndex(types, c))]
  BY DEF ProfileCost
<1>. HIDE DEF C, types, samples
<1>. QED
  BY <1>2, <1>3, <1>4

\* What an ere-server answers is what is recorded (ereserver/client.go:115-166),
\* whatever its profile samples, in any order and number: the cost of a profile is
\* the total of each component, although the sum wraps on the way, and only the
\* guest's own failure is recorded as one.
THEOREM EstimationsFaithful ==
    ASSUME NEW N, NEW E, NEW answer \in ServerAnswers(N, E), NEW total,
           answer.result.form = "pprof" =>
              Totals(total, answer.result.pprof.types, answer.result.pprof.samples)
    PROVE  EstimationFaithful(answer, total)
<1>. DEFINE result == answer.result
            sums == [form |-> "ok", cost |-> total]
<1>1. answer \in [reached : BOOLEAN, decodes : BOOLEAN, result : ServerResults(N, E)]
      /\ result \in ServerResults(N, E) /\ result.form \in {"ok", "err", "unset", "pprof"}
  BY DEF ServerAnswers, ServerResults
<1>2. CASE result.form = "pprof"
  <2>1. result.pprof \in PprofProfiles(N)
    BY <1>1, <1>2 DEF ServerResults
  <2>2. ProfileCost(result.pprof) = total
    BY <1>2, <2>1, CostIsTotal
  <2>. DEFINE estimated == [answer EXCEPT !.result = sums]
  <2>3. /\ estimated.reached = answer.reached /\ estimated.decodes = answer.decodes
        /\ estimated.result.form = "ok" /\ estimated.result.cost = total
    BY <1>1
  <2>4. Profile(answer) = IF PostFails(answer) \/ ~result.pprof.parses \/ total = NoCost THEN Fails ELSE Costs(total)
    BY <1>2, <2>2, Zenon DEF Profile
  <2>5. ExecuteEstimatedCost(estimated) = IF PostFails(answer) \/ total = NoCost THEN Fails ELSE Costs(total)
    BY <2>3 DEF ExecuteEstimatedCost, PostFails
  <2>6. [answer EXCEPT !.result = IF @.form = "pprof" THEN [form |-> "ok", cost |-> total] ELSE @] = estimated
    BY <1>2
  <2>7. /\ Fails.outcome = "error" /\ Costs(total).outcome = "cost" /\ Costs(total).cost = total
    BY DEF Fails, Costs
  <2>. HIDE DEF estimated, sums, result
  <2>. QED
    BY <1>2, <2>4, <2>5, <2>6, <2>7 DEF EstimationFaithful, result
<1>3. CASE result.form # "pprof"
  <2>1. Profile(answer) = IF ~PostFails(answer) /\ result.form = "err" THEN GuestFails ELSE Fails
    BY <1>1, <1>3 DEF Profile
  <2>2. Fails.outcome = "error" /\ GuestFails.outcome = "guestError"
    BY DEF Fails, GuestFails
  <2>. QED
    BY <1>3, <2>1, <2>2 DEF EstimationFaithful, PostFails
<1>. QED
  BY <1>2, <1>3

----------------------------------------------------------------------------
(* Listings.                                                               *)

\* A name is a part of itself.
LEMMA PartOfItself ==
    ASSUME NEW C, NEW s \in Seq(C)
    PROVE  IsPart(s, s)
<1>1. Len(s) \in Nat /\ 0 \in 0..(Len(s) - Len(s)) /\ 0 + Len(s) = Len(s)
  OBVIOUS
<1>2. SubSeq(s, 0 + 1, 0 + Len(s)) = s
  OBVIOUS
<1>. QED
  BY <1>1, <1>2 DEF IsPart

\* Container summaries whose names are spelt in the characters C.
Summaries(C) == [names : SUBSET Seq(C), marked : BOOLEAN, running : BOOLEAN]

\* Selections of containers on the hosts D.
Selections(C, D) == [given : BOOLEAN, entries : Seq([ssh : D, name : Seq(C)])]

\* Whatever a host runs and whatever is asked for, a selection lists exactly the
\* containers that carry one of its names (cluster/inspect.go:58): the daemon's
\* filter finds each of them, and what it finds besides is left out.
THEOREM SelectionsExact ==
    ASSUME NEW C, NEW summaries \in SUBSET Summaries(C), NEW destination, NEW all \in BOOLEAN,
           NEW D, NEW selection \in Selections(C, D)
    PROVE  SelectionExact(summaries, destination, selection, all)
<1>. DEFINE names == SelectedNames(selection.entries, destination)
            carries(s) == \E d \in Range(selection.entries) : d.ssh = destination /\ d.name \in s.names
<1>1. \A s \in summaries : carries(s) <=> names \cap s.names # {}
  BY DEF SelectedNames
<1>2. ASSUME NEW s \in summaries, names \cap s.names # {}
      PROVE  \E name \in names, n \in s.names : IsPart(name, n)
  <2>1. PICK n \in names \cap s.names : TRUE
    BY <1>2
  <2>2. n \in Seq(C)
    BY <2>1 DEF Summaries
  <2>. QED
    BY <2>1, <2>2, PartOfItself
<1>3. CASE ~selection.given
  BY <1>3 DEF SelectionExact, List, DaemonLists, ListedUnder
<1>4. CASE selection.given /\ names = {}
  <2>1. List(summaries, destination, selection, all) = {}
    BY <1>4 DEF List
  <2>2. \A s \in summaries : ~carries(s)
    BY <1>1, <1>4
  <2>. QED
    BY <1>4, <2>1, <2>2 DEF SelectionExact
<1>5. CASE selection.given /\ names # {}
  <2>1. List(summaries, destination, selection, all) =
           {s \in summaries : DaemonLists(s, names, all) /\ ListedUnder(s, names)}
    BY <1>5 DEF List
  <2>. HIDE DEF names
  <2>2. ASSUME NEW s \in summaries
        PROVE  DaemonLists(s, names, all) /\ ListedUnder(s, names) <=> (all \/ s.running) /\ names \cap s.names # {}
    BY <1>2, <1>5, <2>2 DEF DaemonLists, ListedUnder
  <2>. QED
    BY <1>1, <1>5, <2>1, <2>2 DEF SelectionExact
<1>. QED
  BY <1>3, <1>4, <1>5

----------------------------------------------------------------------------
(* Envelopes.                                                              *)

Byte == 0..255
EightBytes == [1..WordBytes -> Byte]

\* What a read returns: a word, the bytes of a string, the words of a vector
\* or a length.
Returned == Nat \cup Seq(Byte) \cup Seq(Seq(Byte))
Readers == [off : Nat, err : BOOLEAN, got : Returned]

\* As far as buf goes, it holds the bytes e from off on.
Goes(buf, off, e) == \A i \in 1..Len(e) : off + i <= Len(buf) => buf[off + i] = e[i]

\* f is what a read of the bytes e, which mean v, leaves of r: it moves past them,
\* and fails when the buffer ends before they do.
ReadsAs(buf, r, f, e, v) ==
    IF r.err THEN f.err
    ELSE IF r.off + Len(e) <= Len(buf) THEN f = [off |-> r.off + Len(e), err |-> FALSE, got |-> v]
    ELSE f.err

\* The reader r has come to off, or failed because the buffer ends before.
Stands(buf, r, off) ==
    /\ r \in Readers
    /\ IF off <= Len(buf) THEN ~r.err /\ r.off = off ELSE r.err

LEMMA Bytewise ==
    ASSUME NEW a \in Seq(Byte), NEW b \in Seq(Byte)
    PROVE  /\ a \o b \in Seq(Byte) /\ Len(a \o b) = Len(a) + Len(b)
           /\ Len(a) \in Nat /\ Len(b) \in Nat
           /\ \A i \in 1..Len(a) : (a \o b)[i] = a[i]
           /\ \A i \in 1..Len(b) : (a \o b)[Len(a) + i] = b[i]
OBVIOUS

LEMMA GoesOn ==
    ASSUME NEW buf \in Seq(Byte), NEW off \in Nat, NEW a \in Seq(Byte), NEW b \in Seq(Byte),
           Goes(buf, off, a \o b)
    PROVE  Goes(buf, off, a) /\ Goes(buf, off + Len(a), b)
<1>. DEFINE e == a \o b
<1>1. /\ Len(e) = Len(a) + Len(b) /\ Len(a) \in Nat /\ Len(b) \in Nat /\ Len(buf) \in Nat
      /\ \A i \in 1..Len(a) : e[i] = a[i]
      /\ \A i \in 1..Len(b) : e[Len(a) + i] = b[i]
  BY Bytewise
<1>2. \A i \in 1..Len(e) : off + i <= Len(buf) => buf[off + i] = e[i]
  BY DEF Goes
<1>. HIDE DEF e
<1>3. ASSUME NEW i \in 1..Len(a), off + i <= Len(buf)
      PROVE  buf[off + i] = a[i]
  BY <1>1, <1>2, <1>3
<1>4. ASSUME NEW i \in 1..Len(b), (off + Len(a)) + i <= Len(buf)
      PROVE  buf[(off + Len(a)) + i] = b[i]
  <2>1. Len(a) + i \in 1..Len(e) /\ off + (Len(a) + i) = (off + Len(a)) + i
    BY <1>1
  <2>. QED
    BY <1>1, <1>2, <1>4, <2>1
<1>. QED
  BY <1>3, <1>4 DEF Goes

\* A read goes on where the one before it ended.
LEMMA StandsOn ==
    ASSUME NEW buf \in Seq(Byte), NEW off \in Nat, NEW e \in Seq(Byte), NEW v,
           NEW r, Stands(buf, r, off), NEW f \in Readers, ReadsAs(buf, r, f, e, v)
    PROVE  Stands(buf, f, off + Len(e)) /\ (off + Len(e) <= Len(buf) => f.got = v)
<1>1. Len(buf) \in Nat /\ Len(e) \in Nat /\ r \in Readers
  BY DEF Stands
<1>2. CASE off + Len(e) <= Len(buf)
  <2>1. f = [off |-> off + Len(e), err |-> FALSE, got |-> v]
    BY <1>1, <1>2 DEF Stands, ReadsAs
  <2>. QED
    BY <1>2, <2>1 DEF Stands
<1>3. CASE ~(off + Len(e) <= Len(buf))
  <2>1. f.err
    BY <1>1, <1>3 DEF Stands, ReadsAs
  <2>. QED
    BY <1>3, <2>1 DEF Stands
<1>. QED
  BY <1>2, <1>3

----------------------------------------------------------------------------
\* What a read of n bytes leaves.
Taken(buf, r, n, f) ==
    /\ f \in [off : Nat, err : BOOLEAN, got : Seq(Byte)]
    /\ r.err => f.err
    /\ ~f.err => /\ ~r.err /\ r.off + n <= Len(buf) /\ f.off = r.off + n
                 /\ f.got \in [1..n -> Byte]
                 /\ \A i \in 1..n : f.got[i] = buf[r.off + i]
    /\ ~r.err /\ r.off + n <= Len(buf) => ~f.err

\* n bytes from o on, when there are as many.
LEMMA SliceOfBytes ==
    ASSUME NEW buf \in Seq(Byte), NEW o \in Nat, NEW n \in Nat, o + n <= Len(buf)
    PROVE  LET s == SubSeq(buf, o + 1, o + n)
           IN  s \in Seq(Byte) /\ Len(s) = n /\ \A i \in 1..n : s[i] = buf[o + i]
<1>. DEFINE first == o + 1
            last == o + n
            t == Len(buf)
            s == SubSeq(buf, first, last)
<1>1. t \in Nat /\ \A i \in 1..t : buf[i] \in Byte
  OBVIOUS
<1>2. first \in Int /\ last \in Int /\ last - first + 1 = n /\ first >= 1 /\ last <= t
  BY <1>1
<1>3. (IF first <= last THEN last - first + 1 ELSE 0) = n
  BY <1>2
<1>4. \A i \in 1..n : first + i - 1 = o + i
  OBVIOUS
<1>. HIDE DEF first, last, t
<1>5. \A i \in first..last : i \in 1..t
  BY <1>1, <1>2
<1>6. \A i \in first..last : buf[i] \in Byte
  BY <1>1, <1>5
<1>7. /\ s \in Seq(Byte)
      /\ Len(s) = IF first <= last THEN last - first + 1 ELSE 0
      /\ \A i \in 1..(last - first + 1) : s[i] = buf[first + i - 1]
  BY <1>2, <1>6, SubSeqProperties
<1>8. s \in Seq(Byte) /\ Len(s) = n /\ \A i \in 1..n : s[i] = buf[o + i]
  BY <1>2, <1>3, <1>4, <1>7
<1>. QED
  BY <1>8 DEF s, first, last

LEMMA TakeTyped ==
    ASSUME NEW buf \in Seq(Byte), NEW r \in Readers, NEW n \in Nat
    PROVE  Taken(buf, r, n, Take(buf, r, n))
<1>. DEFINE f == Take(buf, r, n)
            s == SubSeq(buf, r.off + 1, r.off + n)
<1>1. r.off \in Nat /\ r.err \in BOOLEAN /\ Len(buf) \in Nat
  BY DEF Readers
<1>2. CASE r.err \/ ~(r.off + n <= Len(buf))
  <2>1. f = [r EXCEPT !.err = TRUE, !.got = <<>>]
    BY <1>1, <1>2 DEF Take, Failed
  <2>2. f = [off |-> r.off, err |-> TRUE, got |-> <<>>]
    BY <2>1 DEF Readers
  <2>3. <<>> \in Seq(Byte)
    OBVIOUS
  <2>. HIDE DEF f
  <2>4. f.err = TRUE /\ f \in [off : Nat, err : BOOLEAN, got : Seq(Byte)]
    BY <1>1, <2>2, <2>3
  <2>. QED
    BY <1>2, <2>4 DEF f, Taken
<1>3. CASE ~r.err /\ r.off + n <= Len(buf)
  <2>1. f = [r EXCEPT !.off = @ + n, !.got = s]
    BY <1>1, <1>3 DEF Take
  <2>2. s \in Seq(Byte) /\ Len(s) = n /\ \A i \in 1..n : s[i] = buf[r.off + i]
    BY <1>1, <1>3, SliceOfBytes
  <2>. HIDE DEF s
  <2>3. s \in [1..n -> Byte]
    BY <2>2
  <2>4. f = [off |-> r.off + n, err |-> FALSE, got |-> s]
    BY <1>3, <2>1 DEF Readers
  <2>. HIDE DEF f
  <2>5. f.err = FALSE /\ f.off = r.off + n /\ f.got = s /\ f \in [off : Nat, err : BOOLEAN, got : Seq(Byte)]
    BY <1>1, <2>2, <2>4
  <2>. QED
    BY <1>3, <2>2, <2>3, <2>5 DEF f, Taken
<1>. QED
  BY <1>2, <1>3

\* Bytes followed by zeros make a word.
LEMMA PaddedBytes ==
    ASSUME NEW n \in 1..8, NEW b \in [1..n -> Byte]
    PROVE  /\ Padded(b) \in EightBytes
           /\ \A i \in 1..8 : Padded(b)[i] = IF i <= n THEN b[i] ELSE 0
<1>. DEFINE z == [i \in 1..(8 - n) |-> 0]
            p == b \o z
<1>1. b \in Seq(Byte) /\ Len(b) = n
  OBVIOUS
<1>2. z \in Seq(Byte) /\ Len(z) = 8 - n /\ \A i \in 1..(8 - n) : z[i] = 0
  BY DEF Byte
<1>3. Padded(b) = p
  BY <1>1 DEF Padded, WordBytes
<1>. HIDE DEF z
<1>4. p \in Seq(Byte) /\ Len(p) = 8 /\ \A i \in 1..8 : p[i] = IF i <= n THEN b[i] ELSE z[i - n]
  BY <1>1, <1>2
<1>. HIDE DEF p
<1>5. p \in EightBytes
  <2>1. p \in Seq(Byte) /\ Len(p) = 8
    BY <1>4
  <2>2. p \in [1..8 -> Byte]
    BY <2>1, LenProperties
  <2>. QED
    BY <2>2 DEF EightBytes, WordBytes
<1>6. \A i \in 1..8 : i > n => i - n \in 1..(8 - n)
  OBVIOUS
<1>. QED
  BY <1>2, <1>3, <1>4, <1>5, <1>6

LEMMA WidthOf == Widths[251] = 2 /\ Widths[252] = 4 /\ Widths[253] = 8
<1>1. 251 \in {251, 252, 253} /\ 252 \in {251, 252, 253} /\ 253 \in {251, 252, 253}
  OBVIOUS
<1>. QED
  BY <1>1 DEF Widths

LEMMA WordIsBytes ==
    ASSUME NEW w \in EightBytes
    PROVE  w \in Seq(Byte) /\ Len(w) = 8 /\ w \in [1..8 -> Byte] /\ \A i \in 1..8 : w[i] \in Byte
<1>1. w \in [1..8 -> Byte]
  BY DEF EightBytes, WordBytes
<1>2. 8 \in Nat
  OBVIOUS
<1>. QED
  BY <1>1, <1>2, BytesOfTuple

Agree(v, w) == \A i \in 1..8 : v[i] = w[i]

LEMMA SameWord ==
    ASSUME NEW v \in EightBytes, NEW w \in EightBytes, Agree(v, w)
    PROVE  v = w
<1>1. v \in [1..8 -> Byte] /\ w \in [1..8 -> Byte]
  BY WordIsBytes
<1>2. v = [i \in 1..8 |-> v[i]] /\ w = [i \in 1..8 |-> w[i]]
  BY <1>1
<1>. QED
  BY <1>2 DEF Agree

LEMMA ByteIsNumber ==
    ASSUME NEW b \in Byte
    PROVE  b \in Int /\ 0 <= b /\ b <= 255 /\ (b \in {251, 252, 253} \/ b < 251 \/ b > 253)
BY DEF Byte

\* What the bytes behind an integer's marker leave: p is what the read of the
\* marker left, f what the whole read leaves.
Behind(buf, p, f) ==
    \E q : /\ Taken(buf, p, Widths[p.got[1]], q)
           /\ q.err => f = q
           /\ ~q.err => f = [q EXCEPT !.got = Padded(q.got)]

Steps(buf, r, f, p) ==
    /\ Taken(buf, r, 1, p)
    /\ p.err => f = Failed(p)
    /\ ~p.err => p.got[1] \in Byte
    /\ ~p.err /\ p.got[1] > 253 => f = Failed(p)
    /\ ~p.err /\ p.got[1] < 251 => f = [p EXCEPT !.got = Padded(<<p.got[1]>>)]
    /\ ~p.err /\ p.got[1] \in {251, 252, 253} => Behind(buf, p, f)

LEMMA VarIntSteps ==
    ASSUME NEW buf \in Seq(Byte), NEW r \in Readers
    PROVE  \E p : Steps(buf, r, VarInt(buf, r), p)
<1>. DEFINE p == Take(buf, r, 1)
            byte == p.got[1]
            q == Take(buf, p, Widths[byte])
            f == VarInt(buf, r)
<1>1. Taken(buf, r, 1, p)
  BY TakeTyped
<1>2. f = IF p.err \/ byte > 253 THEN Failed(p)
          ELSE IF byte < 251 THEN [p EXCEPT !.got = Padded(<<byte>>)]
          ELSE IF q.err THEN q ELSE [q EXCEPT !.got = Padded(@)]
  BY DEF VarInt
<1>3. ASSUME ~p.err, byte \in {251, 252, 253}
      PROVE  Taken(buf, p, Widths[byte], q)
  <2>. HIDE DEF p, byte
  <2>1. p \in Readers
    BY <1>1 DEF Taken, Readers, Returned
  <2>2. Widths[byte] \in Nat
    BY <1>3, WidthOf
  <2>. QED
    BY <2>1, <2>2, TakeTyped
<1>4. ASSUME ~p.err
      PROVE  byte \in Byte
  <2>. HIDE DEF p
  <2>1. p.got \in [1..1 -> Byte] /\ 1 \in 1..1
    BY <1>1, <1>4 DEF Taken
  <2>. QED
    BY <2>1
<1>5. [q EXCEPT !.got = Padded(@)] = [q EXCEPT !.got = Padded(q.got)]
  BY Zenon
<1>. HIDE DEF p, byte, q, f
<1>6. /\ p.err => f = Failed(p)
      /\ ~p.err /\ byte > 253 => f = Failed(p)
      /\ ~p.err /\ byte < 251 => f = [p EXCEPT !.got = Padded(<<byte>>)]
  <2>1. ASSUME ~p.err, byte < 251
        PROVE  ~(byte > 253)
    BY <1>4, <2>1, ByteIsNumber
  <2>. QED
    BY <1>2, <2>1
<1>7. ASSUME ~p.err, byte \in {251, 252, 253}
      PROVE  (q.err => f = q) /\ (~q.err => f = [q EXCEPT !.got = Padded(q.got)])
  <2>1. ~(byte > 253) /\ ~(byte < 251)
    BY <1>7
  <2>. QED
    BY <1>2, <1>5, <1>7, <2>1
<1>. QED
  <2>1. ASSUME ~p.err, byte \in {251, 252, 253}
        PROVE  Behind(buf, p, f)
    BY <1>3, <1>7, <2>1 DEF Behind, byte
  <2>2. Steps(buf, r, f, p)
    BY <1>1, <1>4, <1>6, <2>1 DEF Steps, byte
  <2>. QED
    BY <2>2 DEF f

LEMMA VarIntTyped ==
    ASSUME NEW buf \in Seq(Byte), NEW r \in Readers
    PROVE  LET f == VarInt(buf, r)
           IN  /\ f \in [off : Nat, err : BOOLEAN, got : Seq(Byte)]
               /\ r.err => f.err
               /\ ~f.err => f.got \in EightBytes
<1>. DEFINE f == VarInt(buf, r)
            T == [off : Nat, err : BOOLEAN, got : Seq(Byte)]
<1>. HIDE DEF f
<1>1. PICK p : Steps(buf, r, f, p)
  BY VarIntSteps DEF f
<1>2. p \in T /\ (r.err => p.err)
  BY <1>1 DEF Steps, Taken
<1>3. CASE f = Failed(p)
  <2>1. f = [off |-> p.off, err |-> TRUE, got |-> <<>>]
    BY <1>2, <1>3 DEF Failed
  <2>2. f \in T /\ f.err
    BY <1>2, <2>1
  <2>. QED
    BY <2>2 DEF f
<1>4. CASE ~p.err /\ p.got[1] < 251
  <2>. DEFINE b == <<p.got[1]>>
              w == Padded(b)
  <2>1. w \in EightBytes
    <3>1. b \in [1..1 -> Byte]
      BY <1>1, <1>4 DEF Steps
    <3>. HIDE DEF b
    <3>2. 1 \in 1..8
      OBVIOUS
    <3>. QED
      BY <3>1, <3>2, PaddedBytes
  <2>2. f = [p EXCEPT !.got = w]
    BY <1>1, <1>4 DEF Steps
  <2>. HIDE DEF w
  <2>3. f = [off |-> p.off, err |-> FALSE, got |-> w]
    BY <1>2, <1>4, <2>2
  <2>4. w \in Seq(Byte)
    BY <2>1, WordIsBytes
  <2>5. f \in T /\ ~f.err /\ f.got \in EightBytes
    BY <1>2, <2>1, <2>3, <2>4
  <2>. QED
    BY <1>2, <1>4, <2>5 DEF f
<1>5. CASE ~p.err /\ p.got[1] \in {251, 252, 253}
  <2>. DEFINE k == Widths[p.got[1]]
  <2>1. PICK q : /\ Taken(buf, p, k, q)
                 /\ q.err => f = q
                 /\ ~q.err => f = [q EXCEPT !.got = Padded(q.got)]
    BY <1>1, <1>5 DEF Steps, Behind
  <2>2. k \in 1..8
    BY <1>5, WidthOf
  <2>. HIDE DEF k
  <2>. DEFINE w == Padded(q.got)
  <2>3. q \in T /\ (~q.err => q.got \in [1..k -> Byte])
    BY <2>1 DEF Taken
  <2>4. CASE q.err
    BY <1>2, <1>5, <2>1, <2>3, <2>4 DEF f
  <2>5. CASE ~q.err
    <3>1. w \in EightBytes
      BY <2>2, <2>3, <2>5, PaddedBytes
    <3>. HIDE DEF w
    <3>2. f = [q EXCEPT !.got = w]
      BY <2>1, <2>5 DEF w
    <3>3. f = [off |-> q.off, err |-> FALSE, got |-> w]
      BY <2>3, <2>5, <3>2
    <3>4. w \in Seq(Byte)
      BY <3>1, WordIsBytes
    <3>5. f \in T /\ ~f.err /\ f.got \in EightBytes
      BY <2>3, <3>1, <3>3, <3>4
    <3>. QED
      BY <1>2, <1>5, <3>5 DEF f
  <2>. QED
    BY <2>4, <2>5
<1>. QED
  BY <1>1, <1>3, <1>4, <1>5, ByteIsNumber DEF Steps

Announces(m, k) == m \in {251, 252, 253} /\ Widths[m] = k
ZeroBehind(w, k) == \A i \in 1..8 : i > k => w[i] = 0

\* The marker m and the k bytes of w that it announces, the rest of w zeros.
Marked(e, m, k, w) ==
    /\ Len(e) = k + 1 /\ e[1] = m
    /\ \A i \in 1..k : e[i + 1] = w[i]
    /\ ZeroBehind(w, k)

\* An integer behind the marker m, of k bytes.
LEMMA WideReads ==
    ASSUME NEW buf \in Seq(Byte), NEW r \in Readers, NEW w \in EightBytes,
           NEW m, NEW k \in 1..8, Announces(m, k),
           NEW e \in Seq(Byte), Marked(e, m, k, w),
           ~r.err => Goes(buf, r.off, e)
    PROVE  ReadsAs(buf, r, VarInt(buf, r), e, w)
<1>. DEFINE f == VarInt(buf, r)
            T == [off : Nat, err : BOOLEAN, got : Seq(Byte)]
            n == Len(buf)
            x == r.off
<1>1. r.err => f.err
  BY VarIntTyped
<1>. HIDE DEF f
<1>2. PICK p : Steps(buf, r, f, p)
  BY VarIntSteps DEF f
<1>0. Len(e) = k + 1 /\ e[1] = m
  BY DEF Marked
<1>3. p \in T /\ n \in Nat /\ x \in Nat /\ k \in Nat
  BY <1>2 DEF Steps, Taken, Readers
<1>. HIDE DEF n, x
<1>7. k \in Nat /\ x \in Nat /\ Len(e) \in Nat /\ Len(e) = k + 1
  BY <1>0, <1>3
<1>8. ZeroBehind(w, k)
  BY DEF Marked
<1>4. CASE r.err
  BY <1>1, <1>4 DEF ReadsAs, f, n, x
<1>5. CASE ~r.err /\ ~(x + 1 <= n)
  <2>1. p.err
    BY <1>2, <1>5 DEF Steps, Taken, n, x
  <2>2. f.err
    BY <1>2, <1>3, <2>1 DEF Steps, Failed
  <2>3. ~(x + Len(e) <= n)
    BY <1>0, <1>3, <1>5
  <2>. QED
    BY <1>5, <2>2, <2>3 DEF ReadsAs, f, n, x
<1>6. CASE ~r.err /\ x + 1 <= n
  <2>1. ~p.err /\ p.off = x + 1 /\ p.got[1] = buf[x + 1]
    <3>1. 1 \in 1..1
      OBVIOUS
    <3>. QED
      BY <1>2, <1>6, <3>1 DEF Steps, Taken, n, x
  <2>2. p.got[1] = m
    <3>1. 1 \in 1..Len(e)
      BY <1>0, <1>3
    <3>2. buf[x + 1] = e[1]
      BY <1>6, <3>1 DEF Goes, n, x
    <3>. QED
      BY <1>0, <2>1, <3>2
  <2>3. PICK q : /\ Taken(buf, p, k, q)
                 /\ q.err => f = q
                 /\ ~q.err => f = [q EXCEPT !.got = Padded(q.got)]
    BY <1>2, <2>1, <2>2 DEF Steps, Behind, Announces
  <2>4. /\ q \in T
        /\ p.off + k <= n => ~q.err
        /\ ~q.err => /\ p.off + k <= n /\ q.off = p.off + k
                     /\ q.got \in [1..k -> Byte]
                     /\ \A i \in 1..k : q.got[i] = buf[p.off + i]
    BY <2>1, <2>3 DEF Taken, n, x
  <2>5. x + Len(e) = p.off + k
    <3>. DEFINE y == p.off
    <3>1. y = x + 1
      BY <2>1
    <3>. HIDE DEF y
    <3>2. x + Len(e) = y + k
      BY <1>7, <3>1
    <3>. QED
      BY <3>2 DEF y
  <2>6. CASE q.err
    <3>1. f.err /\ ~(x + Len(e) <= n)
      BY <2>3, <2>4, <2>5, <2>6
    <3>. QED
      BY <1>6, <3>1 DEF ReadsAs, f, n, x
  <2>7. CASE ~q.err
    <3>. DEFINE v == Padded(q.got)
    <3>1. \A i \in 1..k : q.got[i] = w[i]
      <4>. TAKE i \in 1..k
      <4>1. i + 1 \in 1..Len(e) /\ p.off + i = x + (i + 1) /\ x + (i + 1) <= n
        <5>. DEFINE y == p.off
        <5>1. y = x + 1 /\ y + k <= n
          BY <2>1, <2>4, <2>7
        <5>. HIDE DEF y
        <5>2. i + 1 \in 1..Len(e) /\ y + i = x + (i + 1) /\ x + (i + 1) <= n
          BY <1>0, <1>3, <5>1
        <5>. QED
          BY <5>2 DEF y
      <4>2. buf[x + (i + 1)] = e[i + 1]
        BY <1>6, <4>1 DEF Goes, n, x
      <4>3. buf[p.off + i] = w[i]
        BY <4>1, <4>2 DEF Marked
      <4>. QED
        BY <2>4, <2>7, <4>3
    <3>2. v \in EightBytes /\ \A i \in 1..8 : v[i] = IF i <= k THEN q.got[i] ELSE 0
      <4>. DEFINE g == q.got
      <4>2. g \in [1..k -> Byte]
        BY <2>4, <2>7
      <4>. HIDE DEF g
      <4>3. Padded(g) \in EightBytes /\ \A i \in 1..8 : Padded(g)[i] = IF i <= k THEN g[i] ELSE 0
        BY <4>2, PaddedBytes
      <4>. QED
        BY <4>3 DEF g
    <3>. HIDE DEF v
    <3>3. v = w
      <4>1. \A i \in 1..8 : v[i] = w[i]
        <5>. TAKE i \in 1..8
        <5>1. CASE i <= k
          <6>1. i \in 1..k
            BY <1>3, <5>1
          <6>. QED
            BY <3>1, <3>2, <5>1, <6>1
        <5>2. CASE ~(i <= k)
          <6>1. w[i] = 0
            BY <1>7, <1>8, <5>2 DEF ZeroBehind
          <6>. QED
            BY <3>2, <5>2, <6>1
        <5>. QED
          BY <5>1, <5>2
      <4>2. Agree(v, w)
        BY <4>1 DEF Agree
      <4>. QED
        BY <3>2, <4>2, SameWord
    <3>4. f = [q EXCEPT !.got = w]
      BY <2>3, <2>7, <3>3 DEF v
    <3>5. f = [off |-> q.off, err |-> FALSE, got |-> w]
      BY <2>4, <2>7, <3>4
    <3>6. x + Len(e) <= n /\ q.off = x + Len(e)
      BY <2>4, <2>5, <2>7
    <3>. QED
      BY <1>6, <3>5, <3>6 DEF ReadsAs, f, n, x
  <2>. QED
    BY <2>6, <2>7
<1>. QED
  BY <1>4, <1>5, <1>6

LEMMA MarkedPrefix ==
    ASSUME NEW w \in EightBytes, NEW k \in 1..8, NEW m \in Byte, ZeroBehind(w, k)
    PROVE  LET e == <<m>> \o SubSeq(w, 1, k)
           IN  e \in Seq(Byte) /\ Len(e) \in 1..9 /\ Marked(e, m, k, w)
<1>. DEFINE s == SubSeq(w, 1, k)
            b == <<m>>
            e == b \o s
<1>1. w \in Seq(Byte) /\ Len(w) = 8 /\ \A i \in 1..8 : w[i] \in Byte
  BY WordIsBytes
<1>2. s \in Seq(Byte) /\ Len(s) = k /\ \A i \in 1..k : s[i] = w[i]
  <2>1. 1 \in Int /\ k \in Int /\ \A i \in 1..k : w[i] \in Byte
    BY <1>1
  <2>2. /\ SubSeq(w, 1, k) \in Seq(Byte)
        /\ Len(SubSeq(w, 1, k)) = IF 1 <= k THEN k - 1 + 1 ELSE 0
        /\ \A i \in 1..(k - 1 + 1) : SubSeq(w, 1, k)[i] = w[1 + i - 1]
    BY <2>1, SubSeqProperties
  <2>3. k - 1 + 1 = k /\ 1 <= k /\ \A i \in 1..k : 1 + i - 1 = i
    OBVIOUS
  <2>. QED
    BY <2>2, <2>3
<1>. HIDE DEF s
<1>3. b \in Seq(Byte) /\ Len(b) = 1 /\ b[1] = m
  OBVIOUS
<1>. HIDE DEF b
<1>4. /\ e \in Seq(Byte) /\ Len(e) = k + 1 /\ e[1] = b[1]
      /\ \A i \in 1..k : e[1 + i] = s[i]
  <2>1. /\ e \in Seq(Byte) /\ Len(e) = Len(b) + Len(s)
        /\ \A i \in 1..Len(b) : e[i] = b[i]
        /\ \A i \in 1..Len(s) : e[Len(b) + i] = s[i]
    BY <1>2, <1>3, Bytewise
  <2>. HIDE DEF e
  <2>2. 1 \in 1..Len(b) /\ Len(b) + Len(s) = k + 1
    BY <1>2, <1>3
  <2>. QED
    BY <1>2, <1>3, <2>1, <2>2
<1>. HIDE DEF e
<1>5. \A i \in 1..k : e[i + 1] = w[i]
  <2>. TAKE i \in 1..k
  <2>1. i + 1 = 1 + i
    OBVIOUS
  <2>. QED
    BY <1>2, <1>4, <2>1
<1>6. Marked(e, m, k, w)
  BY <1>3, <1>4, <1>5 DEF Marked
<1>7. k + 1 \in 1..9
  OBVIOUS
<1>. QED
  BY <1>4, <1>6, <1>7 DEF e, b, s

\* The bytes of an integer: the byte itself, or a marker and the bytes that it
\* announces.
LEMMA EncodedShape ==
    ASSUME NEW w \in EightBytes
    PROVE  LET e == EncodeVarInt(w)
           IN  /\ e \in Seq(Byte) /\ Len(e) \in 1..9
               /\ \/ e = <<w[1]>> /\ w[1] < 251 /\ ZeroBehind(w, 1)
                  \/ \E m, k : k \in 1..8 /\ Announces(m, k) /\ Marked(e, m, k, w)
<1>. DEFINE e == EncodeVarInt(w)
            zeroFrom(i) == \A j \in i..8 : w[j] = 0
<1>1. e = IF zeroFrom(2) /\ w[1] < 251 THEN <<w[1]>>
          ELSE IF zeroFrom(3) THEN <<251>> \o SubSeq(w, 1, 2)
          ELSE IF zeroFrom(5) THEN <<252>> \o SubSeq(w, 1, 4)
          ELSE <<253>> \o w
  BY DEF EncodeVarInt, WordBytes
<1>2. /\ zeroFrom(2) => ZeroBehind(w, 1)
      /\ zeroFrom(3) => ZeroBehind(w, 2)
      /\ zeroFrom(5) => ZeroBehind(w, 4)
      /\ ZeroBehind(w, 8)
  BY DEF ZeroBehind
<1>3. Announces(251, 2) /\ Announces(252, 4) /\ Announces(253, 8)
  BY WidthOf DEF Announces
<1>4. w[1] \in Byte /\ 251 \in Byte /\ 252 \in Byte /\ 253 \in Byte
  <2>1. 1 \in 1..8
    OBVIOUS
  <2>. QED
    BY <2>1, WordIsBytes DEF Byte
<1>. HIDE DEF e, zeroFrom
<1>5. CASE zeroFrom(2) /\ w[1] < 251
  <2>1. e = <<w[1]>>
    BY <1>1, <1>5
  <2>2. e \in Seq(Byte) /\ Len(e) \in 1..9
    BY <1>4, <2>1
  <2>. QED
    BY <1>2, <1>5, <2>1, <2>2 DEF e
<1>6. CASE ~(zeroFrom(2) /\ w[1] < 251) /\ zeroFrom(3)
  <2>1. e = <<251>> \o SubSeq(w, 1, 2)
    BY <1>1, <1>6
  <2>2. 2 \in 1..8
    OBVIOUS
  <2>3. e \in Seq(Byte) /\ Len(e) \in 1..9 /\ Marked(e, 251, 2, w)
    BY <1>2, <1>4, <1>6, <2>1, <2>2, MarkedPrefix
  <2>. QED
    BY <1>3, <2>2, <2>3 DEF e
<1>7. CASE ~(zeroFrom(2) /\ w[1] < 251) /\ ~zeroFrom(3) /\ zeroFrom(5)
  <2>1. e = <<252>> \o SubSeq(w, 1, 4)
    BY <1>1, <1>7
  <2>2. 4 \in 1..8
    OBVIOUS
  <2>3. e \in Seq(Byte) /\ Len(e) \in 1..9 /\ Marked(e, 252, 4, w)
    BY <1>2, <1>4, <1>7, <2>1, <2>2, MarkedPrefix
  <2>. QED
    BY <1>3, <2>2, <2>3 DEF e
<1>8. CASE ~(zeroFrom(2) /\ w[1] < 251) /\ ~zeroFrom(3) /\ ~zeroFrom(5)
  <2>0. e = <<253>> \o w
    BY <1>1, <1>8
  <2>1. SubSeq(w, 1, 8) = w
    <3>1. w \in Seq(Byte) /\ Len(w) = 8
      BY WordIsBytes
    <3>. QED
      BY <3>1
  <2>2. 8 \in 1..8 /\ e = <<253>> \o SubSeq(w, 1, 8)
    <3>1. 8 \in 1..8
      OBVIOUS
    <3>. QED
      BY <2>0, <2>1, <3>1, Zenon
  <2>3. e \in Seq(Byte) /\ Len(e) \in 1..9 /\ Marked(e, 253, 8, w)
    BY <1>2, <1>4, <2>2, MarkedPrefix
  <2>. QED
    BY <1>3, <2>2, <2>3 DEF e
<1>. QED
  BY <1>5, <1>6, <1>7, <1>8

\* An integer that is its own byte.
LEMMA NarrowReads ==
    ASSUME NEW buf \in Seq(Byte), NEW r \in Readers, NEW w \in EightBytes,
           w[1] < 251, ZeroBehind(w, 1), ~r.err => Goes(buf, r.off, <<w[1]>>)
    PROVE  ReadsAs(buf, r, VarInt(buf, r), <<w[1]>>, w)
<1>. DEFINE f == VarInt(buf, r)
            T == [off : Nat, err : BOOLEAN, got : Seq(Byte)]
            n == Len(buf)
            x == r.off
            b == <<w[1]>>
<1>1. r.err => f.err
  BY VarIntTyped
<1>. HIDE DEF f
<1>2. PICK p : Steps(buf, r, f, p)
  BY VarIntSteps DEF f
<1>3. p \in T /\ n \in Nat /\ x \in Nat
  BY <1>2 DEF Steps, Taken, Readers
<1>7. w[1] \in Byte
  <2>1. 1 \in 1..8
    OBVIOUS
  <2>. QED
    BY <2>1, WordIsBytes
<1>0. b \in Seq(Byte) /\ Len(b) = 1 /\ b[1] = w[1] /\ b \in [1..1 -> Byte]
  BY <1>7
<1>. HIDE DEF n, x, b
<1>4. CASE r.err
  BY <1>1, <1>4 DEF ReadsAs, f
<1>5. CASE ~r.err /\ ~(x + 1 <= n)
  <2>1. p.err
    BY <1>2, <1>5 DEF Steps, Taken, n, x
  <2>2. f.err
    BY <1>2, <1>3, <2>1 DEF Steps, Failed
  <2>3. ~(x + Len(b) <= n)
    BY <1>0, <1>5
  <2>. QED
    BY <1>5, <2>2, <2>3 DEF ReadsAs, f, n, x, b
<1>6. CASE ~r.err /\ x + 1 <= n
  <2>1. ~p.err /\ p.off = x + 1 /\ p.got[1] = buf[x + 1]
    <3>1. 1 \in 1..1
      OBVIOUS
    <3>. QED
      BY <1>2, <1>6, <3>1 DEF Steps, Taken, n, x
  <2>2. p.got[1] = w[1]
    <3>1. 1 \in 1..Len(b)
      BY <1>0
    <3>2. buf[x + 1] = b[1]
      BY <1>6, <3>1 DEF Goes, n, x, b
    <3>. QED
      BY <1>0, <2>1, <3>2
  <2>. DEFINE v == Padded(b)
  <2>3. v = w
    <3>1. 1 \in 1..8
      OBVIOUS
    <3>2. v \in EightBytes /\ \A i \in 1..8 : v[i] = IF i <= 1 THEN b[i] ELSE 0
      BY <1>0, <3>1, PaddedBytes
    <3>. HIDE DEF v
    <3>3. \A i \in 1..8 : v[i] = w[i]
      <4>. TAKE i \in 1..8
      <4>1. CASE i = 1
        BY <1>0, <3>2, <4>1
      <4>2. CASE i # 1
        <5>1. i > 1 /\ ~(i <= 1)
          BY <4>2
        <5>2. w[i] = 0
          BY <5>1 DEF ZeroBehind
        <5>. QED
          BY <3>2, <5>1, <5>2
      <4>. QED
        BY <4>1, <4>2
    <3>4. Agree(v, w)
      BY <3>3 DEF Agree
    <3>. QED
      BY <3>2, <3>4, SameWord
  <2>4. f = [p EXCEPT !.got = v]
    BY <1>2, <2>1, <2>2 DEF Steps, b
  <2>. HIDE DEF v
  <2>5. f = [off |-> x + 1, err |-> FALSE, got |-> w]
    BY <1>3, <2>1, <2>3, <2>4
  <2>6. x + Len(b) <= n /\ x + Len(b) = x + 1
    BY <1>0, <1>3, <1>6
  <2>. QED
    BY <1>6, <2>5, <2>6 DEF ReadsAs, f, n, x, b
<1>. QED
  BY <1>4, <1>5, <1>6

\* What bincode writes of an integer is read as the integer, whatever its
\* width, and fails when the bytes of it do not all follow.
LEMMA VarIntReads ==
    ASSUME NEW buf \in Seq(Byte), NEW r \in Readers, NEW w \in EightBytes,
           ~r.err => Goes(buf, r.off, EncodeVarInt(w))
    PROVE  ReadsAs(buf, r, VarInt(buf, r), EncodeVarInt(w), w)
<1>. DEFINE e == EncodeVarInt(w)
<1>1. /\ e \in Seq(Byte)
      /\ \/ e = <<w[1]>> /\ w[1] < 251 /\ ZeroBehind(w, 1)
         \/ \E m, k : k \in 1..8 /\ Announces(m, k) /\ Marked(e, m, k, w)
  BY EncodedShape
<1>2. ~r.err => Goes(buf, r.off, e)
  OBVIOUS
<1>. HIDE DEF e
<1>3. CASE e = <<w[1]>> /\ w[1] < 251 /\ ZeroBehind(w, 1)
  <2>1. ReadsAs(buf, r, VarInt(buf, r), <<w[1]>>, w)
    BY <1>2, <1>3, NarrowReads
  <2>. QED
    BY <1>3, <2>1 DEF e
<1>4. CASE \E m, k : k \in 1..8 /\ Announces(m, k) /\ Marked(e, m, k, w)
  <2>1. PICK m, k : k \in 1..8 /\ Announces(m, k) /\ Marked(e, m, k, w)
    BY <1>4
  <2>2. ReadsAs(buf, r, VarInt(buf, r), e, w)
    BY <1>1, <1>2, <2>1, WideReads
  <2>. QED
    BY <2>2 DEF e
<1>. QED
  BY <1>1, <1>3, <1>4

\* The words that AddWords passes through: count says how many there are.
WordsWithin(A, buf) == \A a \in A : AddWord(buf, a) \in A

WordWalk(A, buf, count) ==
    \E h \in [0..count.got -> A] :
       /\ h[0] = [reader |-> count, words |-> <<>>]
       /\ \A k \in 1..count.got : h[k] = AddWord(buf, h[k - 1])
       /\ h[count.got] = AddWords(buf, count)

LEMMA WordsAdded ==
    ASSUME NEW A, NEW buf, NEW count, count.got \in Nat,
           [reader |-> count, words |-> <<>>] \in A, WordsWithin(A, buf)
    PROVE  WordWalk(A, buf, count)
<1>. DEFINE n == count.got
            b == [reader |-> count, words |-> <<>>]
            F == [p \in A \X (1..n) |-> AddWord(buf, p[1])]
            Computes(g) ==
               g = [d \in SUBSET (1..n) |->
                       IF d = {} THEN b ELSE AddWord(buf, g[d \ {Max(d)}])]
            iter == CHOOSE g : Computes(g)
<1>1. n \in Nat /\ b \in A
  OBVIOUS
<1>2. F \in [A \X (1..n) -> A]
  BY <1>1 DEF WordsWithin
<1>3. \A a \in A, i \in 1..n : F[<<a, i>>] = AddWord(buf, a)
  OBVIOUS
<1>4. AddWords(buf, count) = iter[1..n]
  BY <1>1 DEF AddWords, FoldLeft, MapThenFoldSet
<1>. HIDE DEF F, n, b
<1>5. Computes(iter)
  <2>1. PICK g \in [SUBSET (1..n) -> A] : Folds(g, n, b, F)
    BY <1>1, <1>2, FoldExists
  <2>2. ASSUME NEW d \in SUBSET (1..n), d # {}
        PROVE  F[<<g[d \ {Max(d)}], Max(d)>>] = AddWord(buf, g[d \ {Max(d)}])
    <3>1. Max(d) \in 1..n
      BY <1>1, <2>2, LargestPosition
    <3>2. g[d \ {Max(d)}] \in A
      BY <2>1
    <3>. QED
      BY <1>3, <3>1, <3>2
  <2>3. Computes(g)
    BY <2>1, <2>2 DEF Folds
  <2>. HIDE DEF Computes
  <2>. QED
    BY <2>3
<1>. HIDE DEF iter
<1>6. iter[1..0] = b
  <2>1. 1..0 = {} /\ {} \in SUBSET (1..n)
    OBVIOUS
  <2>. QED
    BY <1>5, <2>1
<1>7. ASSUME NEW k \in 0..(n - 1), iter[1..k] \in A
      PROVE  iter[1..(k + 1)] = F[<<iter[1..k], k + 1>>]
  <2>. DEFINE d == 1..(k + 1)
  <2>1. d \in SUBSET (1..n) /\ d # {} /\ Max(d) = k + 1 /\ d \ {Max(d)} = 1..k
    BY <1>1, IntervalTop
  <2>. HIDE DEF d
  <2>2. iter[d] = AddWord(buf, iter[d \ {Max(d)}])
    BY <1>5, <2>1
  <2>3. k + 1 \in 1..n
    BY <1>1
  <2>. QED
    BY <1>3, <1>7, <2>1, <2>2, <2>3 DEF d
<1>. HIDE DEF Computes
<1>8. PICK h \in [0..n -> A] :
         /\ h[0] = b /\ h[n] = iter[1..n]
         /\ \A k \in 1..n : h[k] = F[<<h[k - 1], k>>]
  <2>1. Follows(iter, A, n, b, F)
    BY <1>6, <1>7 DEF Follows
  <2>2. PICK h \in [0..n -> A] : Walk(h, iter, n, b, F)
    BY <1>1, <1>2, <2>1, Walks
  <2>. QED
    BY <2>2 DEF Walk
<1>9. \A k \in 1..n : h[k] = AddWord(buf, h[k - 1])
  <2>1. \A k \in 1..n : h[k - 1] \in A
    BY <1>1, <1>8
  <2>. QED
    BY <1>3, <1>8, <2>1
<1>10. \E g \in [0..n -> A] :
          /\ g[0] = b
          /\ \A k \in 1..n : g[k] = AddWord(buf, g[k - 1])
          /\ g[n] = AddWords(buf, count)
  BY <1>4, <1>8, <1>9
<1>. QED
  BY <1>10 DEF n, b, WordWalk

\* The bodies that ReadBody passes through, a field at a time.
FieldsWithin(A, buf) == \A a \in A, i \in 1..6 : AddField(buf, a, BodyFields[i]) \in A

FieldWalk(A, buf, r) ==
    \E h \in [0..6 -> A] :
       /\ h[0] = [reader |-> r, fields |-> [field \in Range(BodyFields) |-> <<>>]]
       /\ \A k \in 1..6 : h[k] = AddField(buf, h[k - 1], BodyFields[k])
       /\ h[6] = ReadBody(buf, r)

LEMMA FieldsAdded ==
    ASSUME NEW A, NEW buf, NEW r,
           [reader |-> r, fields |-> [field \in Range(BodyFields) |-> <<>>]] \in A, FieldsWithin(A, buf)
    PROVE  FieldWalk(A, buf, r)
<1>. DEFINE n == 6
            b == [reader |-> r, fields |-> [field \in Range(BodyFields) |-> <<>>]]
            F == [p \in A \X (1..n) |-> AddField(buf, p[1], BodyFields[p[2]])]
            Computes(g) ==
               g = [d \in SUBSET (1..n) |->
                       IF d = {} THEN b ELSE AddField(buf, g[d \ {Max(d)}], BodyFields[Max(d)])]
            iter == CHOOSE g : Computes(g)
<1>1. n \in Nat /\ b \in A /\ DOMAIN BodyFields = 1..n
  BY DEF BodyFields
<1>2. F \in [A \X (1..n) -> A]
  BY <1>1 DEF FieldsWithin
<1>3. \A a \in A, i \in 1..n : F[<<a, i>>] = AddField(buf, a, BodyFields[i])
  OBVIOUS
<1>4. ReadBody(buf, r) = iter[1..n]
  BY <1>1 DEF ReadBody, FoldLeft, MapThenFoldSet
<1>. HIDE DEF F, n, b
<1>5. Computes(iter)
  <2>1. PICK g \in [SUBSET (1..n) -> A] : Folds(g, n, b, F)
    BY <1>1, <1>2, FoldExists
  <2>2. ASSUME NEW d \in SUBSET (1..n), d # {}
        PROVE  F[<<g[d \ {Max(d)}], Max(d)>>] = AddField(buf, g[d \ {Max(d)}], BodyFields[Max(d)])
    <3>1. Max(d) \in 1..n
      BY <1>1, <2>2, LargestPosition
    <3>2. g[d \ {Max(d)}] \in A
      BY <2>1
    <3>. QED
      BY <1>3, <3>1, <3>2
  <2>3. Computes(g)
    BY <2>1, <2>2 DEF Folds
  <2>. HIDE DEF Computes
  <2>. QED
    BY <2>3
<1>. HIDE DEF iter
<1>6. iter[1..0] = b
  <2>1. 1..0 = {} /\ {} \in SUBSET (1..n)
    OBVIOUS
  <2>. QED
    BY <1>5, <2>1
<1>7. ASSUME NEW k \in 0..(n - 1), iter[1..k] \in A
      PROVE  iter[1..(k + 1)] = F[<<iter[1..k], k + 1>>]
  <2>. DEFINE d == 1..(k + 1)
  <2>1. d \in SUBSET (1..n) /\ d # {} /\ Max(d) = k + 1 /\ d \ {Max(d)} = 1..k
    BY <1>1, IntervalTop
  <2>. HIDE DEF d
  <2>2. iter[d] = AddField(buf, iter[d \ {Max(d)}], BodyFields[Max(d)])
    BY <1>5, <2>1
  <2>3. k + 1 \in 1..n
    BY <1>1
  <2>. QED
    BY <1>3, <1>7, <2>1, <2>2, <2>3 DEF d
<1>. HIDE DEF Computes
<1>8. PICK h \in [0..n -> A] :
         /\ h[0] = b /\ h[n] = iter[1..n]
         /\ \A k \in 1..n : h[k] = F[<<h[k - 1], k>>]
  <2>1. Follows(iter, A, n, b, F)
    BY <1>6, <1>7 DEF Follows
  <2>2. PICK h \in [0..n -> A] : Walk(h, iter, n, b, F)
    BY <1>1, <1>2, <2>1, Walks
  <2>. QED
    BY <2>2 DEF Walk
<1>9. \A k \in 1..n : h[k] = AddField(buf, h[k - 1], BodyFields[k])
  <2>1. \A k \in 1..n : h[k - 1] \in A
    BY <1>1, <1>8
  <2>. QED
    BY <1>3, <1>8, <2>1
<1>10. \E g \in [0..n -> A] :
          /\ g[0] = b
          /\ \A k \in 1..n : g[k] = AddField(buf, g[k - 1], BodyFields[k])
          /\ g[n] = ReadBody(buf, r)
  BY <1>4, <1>8, <1>9
<1>. QED
  BY <1>10 DEF n, b, FieldWalk

\* The numbers that three bytes hold, whose words are WordOf's.
Small == {n \in Nat : (n \div 256) \div 256 <= 255}

LEMMA QuotientOf ==
    ASSUME NEW a \in Nat
    PROVE  a \div 256 \in Nat /\ a % 256 \in 0..255 /\ a = 256 * (a \div 256) + (a % 256)
OBVIOUS

LEMMA SmallWord ==
    ASSUME NEW n \in Small
    PROVE  WordOf(n) \in EightBytes /\ IsSmall(WordOf(n)) /\ NumberOf(WordOf(n)) = n
<1>. DEFINE a == n % 256
            c == n \div 256
            b == c % 256
            d == c \div 256
            t == <<a, b, d>>
            w == Padded(t)
<1>1. n \in Nat /\ d <= 255
  BY DEF Small
<1>2. c \in Nat /\ a \in 0..255 /\ n = 256 * c + a
  BY <1>1, QuotientOf
<1>3. d \in Nat /\ b \in 0..255 /\ c = 256 * d + b
  <2>. HIDE DEF c
  <2>. QED
    BY <1>2, QuotientOf
<1>4. t \in [1..3 -> Byte] /\ t[1] = a /\ t[2] = b /\ t[3] = d
  <2>. HIDE DEF a, b, d
  <2>1. a \in Byte /\ b \in Byte /\ d \in Byte
    BY <1>1, <1>2, <1>3 DEF Byte
  <2>. QED
    BY <2>1
<1>8. WordOf(n) = w
  BY DEF WordOf
<1>. HIDE DEF a, b, c, d, t
<1>5. w \in EightBytes /\ \A i \in 1..8 : w[i] = IF i <= 3 THEN t[i] ELSE 0
  <2>1. 3 \in 1..8
    OBVIOUS
  <2>. QED
    BY <1>4, <2>1, PaddedBytes
<1>. HIDE DEF w
<1>6. IsSmall(w)
  <2>1. \A i \in 4..8 : i \in 1..8 /\ ~(i <= 3)
    OBVIOUS
  <2>. QED
    BY <1>5, <2>1 DEF IsSmall, WordBytes
<1>7. w[1] = a /\ w[2] = b /\ w[3] = d
  BY <1>4, <1>5
<1>9. NumberOf(w) = n
  <2>1. NumberOf(w) = a + 256 * (b + 256 * d)
    BY <1>7 DEF NumberOf
  <2>. QED
    BY <1>2, <1>3, <2>1
<1>. QED
  BY <1>5, <1>6, <1>8, <1>9

\* What bincode writes of a length.
LengthBytes(n) == EncodeVarInt(WordOf(n))

LEMMA LengthBytesAre ==
    ASSUME NEW n \in Small
    PROVE  LengthBytes(n) \in Seq(Byte) /\ Len(LengthBytes(n)) \in 1..9
BY SmallWord, EncodedShape DEF LengthBytes

\* f is what the read of the length n, as e, leaves of r: it fails unless as
\* many bytes follow.
Counts(buf, r, f, e, n) ==
    IF r.err THEN f.err
    ELSE IF r.off + Len(e) + n <= Len(buf) THEN f = [off |-> r.off + Len(e), err |-> FALSE, got |-> n]
    ELSE \/ f.err
         \/ r.off + Len(e) <= Len(buf) /\ f = [off |-> r.off + Len(e), err |-> FALSE, got |-> n]

LEMMA LengthReads ==
    ASSUME NEW buf \in Seq(Byte), NEW r \in Readers, NEW n \in Small,
           ~r.err => Goes(buf, r.off, LengthBytes(n))
    PROVE  Counts(buf, r, Length(buf, r), LengthBytes(n), n)
<1>. DEFINE e == LengthBytes(n)
            v == VarInt(buf, r)
            f == Length(buf, r)
            T == [off : Nat, err : BOOLEAN, got : Seq(Byte)]
<1>1. ReadsAs(buf, r, v, e, WordOf(n))
  BY SmallWord, VarIntReads DEF LengthBytes
<1>2. v \in T
  BY VarIntTyped
<1>3. f = IF v.err \/ ~IsSmall(v.got) \/ NumberOf(v.got) > Len(buf) - v.off THEN Failed(v)
          ELSE [v EXCEPT !.got = NumberOf(@)]
  BY DEF Length
<1>. HIDE DEF v, f, e
<1>4. r.off \in Nat /\ Len(buf) \in Nat /\ n \in Nat /\ Len(e) \in Nat
  <2>1. Len(e) \in 1..9
    BY LengthBytesAre DEF e
  <2>2. Len(e) \in Nat
    <3>. DEFINE l == Len(e)
    <3>1. l \in 1..9
      BY <2>1
    <3>. HIDE DEF l
    <3>2. l \in Nat
      BY <3>1
    <3>. QED
      BY <3>2 DEF l
  <2>. QED
    BY <2>2 DEF Readers, Small
<1>5. ASSUME v.err
      PROVE  f.err
  BY <1>2, <1>3, <1>5 DEF Failed
<1>. DEFINE x == r.off
            l == Len(e)
            m == Len(buf)
<1>. HIDE DEF x, l, m
<1>6. CASE r.err
  <2>1. f.err
    BY <1>1, <1>5, <1>6 DEF ReadsAs
  <2>. QED
    BY <1>6, <2>1 DEF Counts, f, e
<1>7. CASE ~r.err /\ ~(x + l <= m)
  <2>1. f.err
    BY <1>1, <1>5, <1>7 DEF ReadsAs, x, l, m
  <2>2. ~(x + l + n <= m)
    BY <1>4, <1>7 DEF x, l, m
  <2>. QED
    BY <1>7, <2>1, <2>2 DEF Counts, f, e, x, l, m
<1>8. CASE ~r.err /\ x + l <= m
  <2>1. v = [off |-> x + l, err |-> FALSE, got |-> WordOf(n)]
    BY <1>1, <1>8 DEF ReadsAs, x, l, m
  <2>2. ~v.err /\ v.off = x + l /\ v.got = WordOf(n)
    BY <2>1
  <2>3. IsSmall(v.got) /\ NumberOf(v.got) = n
    BY <2>2, SmallWord
  <2>4. f = IF n > m - (x + l) THEN Failed(v) ELSE [v EXCEPT !.got = n]
    <3>1. [v EXCEPT !.got = NumberOf(@)] = [v EXCEPT !.got = NumberOf(v.got)]
      BY Zenon
    <3>. QED
      BY <1>3, <2>2, <2>3, <3>1 DEF m
  <2>5. x \in Nat /\ l \in Nat /\ m \in Nat
    BY <1>4 DEF x, l, m
  <2>6. CASE n > m - (x + l)
    <3>1. f.err
      BY <1>2, <2>4, <2>6 DEF Failed
    <3>2. ~(x + l + n <= m)
      BY <1>4, <2>5, <2>6
    <3>. QED
      BY <1>8, <3>1, <3>2 DEF Counts, f, e, x, l, m
  <2>7. CASE ~(n > m - (x + l))
    <3>1. f = [v EXCEPT !.got = n]
      BY <2>4, <2>7
    <3>2. f = [off |-> x + l, err |-> FALSE, got |-> n]
      BY <2>1, <3>1
    <3>3. x + l + n <= m
      BY <1>4, <2>5, <2>7
    <3>. QED
      BY <1>8, <3>2, <3>3 DEF Counts, f, e, x, l, m
  <2>. QED
    BY <2>6, <2>7
<1>. QED
  BY <1>6, <1>7, <1>8

\* A run of bytes, read as such.
LEMMA BlockReads ==
    ASSUME NEW buf \in Seq(Byte), NEW r \in Readers, NEW s \in Seq(Byte),
           ~r.err => Goes(buf, r.off, s)
    PROVE  ReadsAs(buf, r, Take(buf, r, Len(s)), s, s)
<1>. DEFINE n == Len(s)
            f == Take(buf, r, n)
            x == r.off
            m == Len(buf)
            T == [off : Nat, err : BOOLEAN, got : Seq(Byte)]
<1>1. n \in Nat /\ x \in Nat /\ m \in Nat /\ s \in [1..n -> Byte]
  BY LenProperties DEF Readers
<1>2. Taken(buf, r, n, f)
  BY <1>1, TakeTyped
<1>. HIDE DEF n, f, x, m
<1>3. f \in T
  BY <1>2 DEF Taken
<1>4. CASE r.err \/ ~(x + n <= m)
  <2>1. f.err
    BY <1>2, <1>4 DEF Taken, x, m
  <2>. QED
    BY <1>4, <2>1 DEF ReadsAs, f, n, x, m
<1>5. CASE ~r.err /\ x + n <= m
  <2>1. /\ ~f.err /\ f.off = x + n /\ f.got \in [1..n -> Byte]
        /\ \A i \in 1..n : f.got[i] = buf[x + i]
    BY <1>2, <1>5 DEF Taken, x, m
  <2>. DEFINE g == f.got
  <2>2. \A i \in 1..n : g[i] = s[i]
    <3>. TAKE i \in 1..n
    <3>1. x + i <= m
      BY <1>1, <1>5
    <3>2. buf[x + i] = s[i]
      BY <1>5, <3>1 DEF Goes, x, m, n
    <3>. QED
      BY <2>1, <3>2
  <2>3. SameUpTo(g, s, n)
    BY <2>2 DEF SameUpTo
  <2>4. g \in [1..n -> Byte]
    BY <2>1
  <2>. HIDE DEF g
  <2>5. g = s
    BY <1>1, <2>3, <2>4, SameTuple
  <2>6. f = [off |-> x + n, err |-> FALSE, got |-> s]
    BY <1>3, <2>1, <2>5 DEF g
  <2>. QED
    BY <1>5, <2>6 DEF ReadsAs, f, n, x, m
<1>. QED
  BY <1>4, <1>5

\* A string behind its length.
LEMMA Utf8Reads ==
    ASSUME NEW buf \in Seq(Byte), NEW r \in Readers, NEW s \in Seq(Byte), Len(s) \in Small,
           ~r.err => Goes(buf, r.off, LengthBytes(Len(s)) \o s)
    PROVE  ReadsAs(buf, r, Utf8(buf, r), LengthBytes(Len(s)) \o s, s)
<1>. DEFINE k == Len(s)
            e == LengthBytes(k)
            l == Len(e)
            x == r.off
            m == Len(buf)
            n == Length(buf, r)
            f == Utf8(buf, r)
            es == e \o s
<1>1. k \in Nat /\ x \in Nat /\ m \in Nat /\ e \in Seq(Byte) /\ l \in Nat
  BY LengthBytesAre DEF Readers
<1>2. Len(es) = l + k /\ es \in Seq(Byte)
  BY <1>1, Bytewise
<1>3. ~r.err => Goes(buf, x, e) /\ Goes(buf, x + l, s)
  BY <1>1, GoesOn
<1>4. Counts(buf, r, n, e, k)
  BY <1>3, LengthReads
<1>5. f = IF n.err THEN n ELSE Take(buf, n, n.got)
  BY DEF Utf8
<1>. HIDE DEF k, e, l, x, m, n, f, es
<1>6. CASE r.err
  <2>1. f.err
    BY <1>4, <1>5, <1>6 DEF Counts
  <2>. QED
    BY <1>6, <2>1 DEF ReadsAs, f, es, e, k
<1>7. CASE ~r.err /\ (n.err \/ n # [off |-> x + l, err |-> FALSE, got |-> k])
  <2>1. f.err /\ ~(x + l + k <= m)
    BY <1>4, <1>5, <1>7 DEF Counts, l, x, m
  <2>2. ~(x + Len(es) <= m)
    BY <1>1, <1>2, <2>1
  <2>. QED
    BY <1>7, <2>1, <2>2 DEF ReadsAs, f, es, e, k, x, m
<1>8. CASE ~r.err /\ ~n.err /\ n = [off |-> x + l, err |-> FALSE, got |-> k]
  <2>1. n \in Readers /\ n.off = x + l /\ n.got = k
    BY <1>1, <1>8 DEF Readers, Returned
  <2>2. ReadsAs(buf, n, Take(buf, n, k), s, s)
    BY <1>3, <1>8, <2>1, BlockReads DEF k
  <2>3. f = Take(buf, n, k)
    BY <1>5, <1>8, <2>1
  <2>4. x + Len(es) = (x + l) + k
    BY <1>1, <1>2
  <2>5. IF (x + l) + k <= m THEN f = [off |-> (x + l) + k, err |-> FALSE, got |-> s] ELSE f.err
    BY <1>8, <2>1, <2>2, <2>3 DEF ReadsAs, m, k
  <2>. QED
    BY <1>8, <2>4, <2>5 DEF ReadsAs, f, es, e, k, x, m
<1>. QED
  BY <1>6, <1>7, <1>8

\* The bytes of the first i words.
WordPrefixes(h, words) ==
    /\ h \in [0..Len(words) -> Seq(Byte)]
    /\ h[0] = <<>>
    /\ \A i \in 1..Len(words) : h[i] = h[i - 1] \o EncodeVarInt(words[i])

LEMMA EncodedPrefixes ==
    ASSUME NEW words \in Seq(EightBytes)
    PROVE  \E h : WordPrefixes(h, words) /\ EncodeWords(words) = LengthBytes(Len(words)) \o h[Len(words)]
<1>. DEFINE n == Len(words)
            s == [i \in DOMAIN words |-> EncodeVarInt(words[i])]
<1>1. n \in Nat /\ DOMAIN words = 1..n /\ \A i \in 1..n : words[i] \in EightBytes
  OBVIOUS
<1>2. \A i \in 1..n : EncodeVarInt(words[i]) \in Seq(Byte)
  BY <1>1, EncodedShape
<1>3. s \in [1..n -> Seq(Byte)] /\ \A i \in 1..n : s[i] = EncodeVarInt(words[i])
  BY <1>1, <1>2
<1>. HIDE DEF s
<1>4. s \in Seq(Seq(Byte)) /\ Len(s) = n
  <2>. DEFINE S == Seq(Byte)
  <2>. HIDE DEF S, n
  <2>1. s \in [1..n -> S]
    BY <1>3 DEF S
  <2>2. s \in Seq(S) /\ Len(s) = n
    BY <1>1, <2>1, BytesOfTuple
  <2>. QED
    BY <2>2 DEF S
<1>5. PICK h \in [0..Len(s) -> Seq(Byte)] : Concatenates(h, s) /\ h[Len(s)] = FlattenSeq(s)
  BY <1>4, Flattened
<1>6. WordPrefixes(h, words)
  BY <1>3, <1>4, <1>5 DEF WordPrefixes, Concatenates
<1>7. EncodeWords(words) = LengthBytes(n) \o h[n]
  <2>1. EncodeWords(words) = LengthBytes(n) \o FlattenSeq(s)
    BY DEF EncodeWords, LengthBytes, s
  <2>. QED
    BY <1>4, <1>5, <2>1
<1>. QED
  BY <1>6, <1>7

\* A word takes a byte at least, so so many words take as many bytes.
LEMMA PrefixLengths ==
    ASSUME NEW words \in Seq(EightBytes), NEW h, WordPrefixes(h, words)
    PROVE  /\ \A i \in 0..Len(words) : h[i] \in Seq(Byte) /\ Len(h[i]) \in Nat /\ Len(h[i]) >= i
           /\ \A i \in 1..Len(words) :
                 /\ i - 1 \in 0..Len(words) /\ words[i] \in EightBytes
                 /\ EncodeVarInt(words[i]) \in Seq(Byte)
                 /\ Len(h[i]) = Len(h[i - 1]) + Len(EncodeVarInt(words[i]))
<1>. DEFINE n == Len(words)
            T == {i \in Nat : i <= n => Len(h[i]) >= i}
<1>1. n \in Nat /\ (\A i \in 1..n : words[i] \in EightBytes) /\ \A i \in 0..n : h[i] \in Seq(Byte)
  BY DEF WordPrefixes
<1>2. \A i \in 0..n : Len(h[i]) \in Nat
  BY <1>1
<1>3. ASSUME NEW i \in 1..n
      PROVE  /\ i - 1 \in 0..n /\ words[i] \in EightBytes
             /\ EncodeVarInt(words[i]) \in Seq(Byte) /\ Len(EncodeVarInt(words[i])) \in 1..9
             /\ Len(h[i]) = Len(h[i - 1]) + Len(EncodeVarInt(words[i]))
  <2>. DEFINE e == EncodeVarInt(words[i])
              p == h[i - 1]
  <2>1. i - 1 \in 0..n /\ words[i] \in EightBytes
    BY <1>1
  <2>2. e \in Seq(Byte) /\ Len(e) \in 1..9
    BY <2>1, EncodedShape
  <2>3. p \in Seq(Byte)
    BY <1>1, <2>1
  <2>4. h[i] = p \o e
    BY DEF WordPrefixes
  <2>. HIDE DEF e, p
  <2>5. Len(h[i]) = Len(p) + Len(e)
    BY <2>2, <2>3, <2>4, Bytewise
  <2>. QED
    BY <2>1, <2>2, <2>5 DEF e, p
<1>4. 0 \in T
  BY <1>1, <1>2
<1>5. ASSUME NEW i \in T
      PROVE  i + 1 \in T
  <2>. SUFFICES ASSUME i + 1 <= n PROVE Len(h[i + 1]) >= i + 1
    OBVIOUS
  <2>1. i \in 0..n /\ i + 1 \in 1..n /\ (i + 1) - 1 = i /\ Len(h[i]) >= i
    BY <1>1
  <2>. DEFINE l == Len(EncodeVarInt(words[i + 1]))
              a == Len(h[i])
  <2>2. l \in 1..9 /\ Len(h[i + 1]) = a + l
    BY <1>3, <2>1
  <2>3. a \in Nat /\ a >= i
    BY <1>2, <2>1
  <2>. HIDE DEF l, a
  <2>. QED
    BY <2>2, <2>3
<1>6. T = Nat
  <2>1. T \in SUBSET Nat
    OBVIOUS
  <2>. HIDE DEF T
  <2>. QED
    BY <1>4, <1>5, <2>1, SetInduction
<1>7. \A i \in 0..n : Len(h[i]) >= i
  BY <1>1, <1>6
<1>. QED
  BY <1>1, <1>2, <1>3, <1>7

LEMMA JoinsGo ==
    ASSUME NEW s \in Seq(Seq(Byte)), NEW h \in [0..Len(s) -> Seq(Byte)], Concatenates(h, s),
           NEW buf \in Seq(Byte), NEW off \in Nat, Goes(buf, off, h[Len(s)])
    PROVE  \A i \in 1..Len(s) : Goes(buf, off + Len(h[i - 1]), s[i])
<1>. DEFINE n == Len(s)
            T == {j \in Nat : j <= n => Goes(buf, off, h[n - j])}
<1>1. n \in Nat
  OBVIOUS
<1>2. ASSUME NEW i \in 1..n, Goes(buf, off, h[i])
      PROVE  Goes(buf, off, h[i - 1]) /\ Goes(buf, off + Len(h[i - 1]), s[i])
  <2>1. h[i] = h[i - 1] \o s[i]
    BY DEF Concatenates
  <2>2. h[i - 1] \in Seq(Byte) /\ s[i] \in Seq(Byte)
    <3>. DEFINE B == Seq(Byte)
    <3>. HIDE DEF B
    <3>1. i - 1 \in 0..n /\ s \in Seq(B) /\ h \in [0..n -> B]
      BY <1>1 DEF B
    <3>2. h[i - 1] \in B
      BY <3>1
    <3>3. s[i] \in B
      BY <3>1
    <3>. QED
      BY <3>2, <3>3 DEF B
  <2>3. Goes(buf, off, h[i - 1] \o s[i])
    BY <1>2, <2>1
  <2>. QED
    BY <2>2, <2>3, GoesOn
<1>3. 0 \in T
  BY <1>1
<1>4. ASSUME NEW j \in T
      PROVE  j + 1 \in T
  <2>. SUFFICES ASSUME j + 1 <= n PROVE Goes(buf, off, h[n - (j + 1)])
    OBVIOUS
  <2>1. j <= n /\ n - j \in 1..n /\ (n - j) - 1 = n - (j + 1)
    BY <1>1
  <2>2. Goes(buf, off, h[n - j])
    BY <2>1
  <2>3. Goes(buf, off, h[(n - j) - 1])
    BY <1>2, <2>1, <2>2
  <2>. QED
    BY <2>1, <2>3
<1>5. T = Nat
  <2>1. T \in SUBSET Nat
    OBVIOUS
  <2>. HIDE DEF T
  <2>. QED
    BY <1>3, <1>4, <2>1, SetInduction
<1>6. ASSUME NEW i \in 1..n
      PROVE  Goes(buf, off, h[i])
  <2>1. n - i \in Nat /\ n - i <= n /\ n - (n - i) = i
    BY <1>1
  <2>2. n - i \in T
    BY <1>5, <2>1
  <2>3. Goes(buf, off, h[n - (n - i)])
    BY <2>1, <2>2
  <2>. QED
    BY <2>1, <2>3
<1>. QED
  BY <1>2, <1>6

LEMMA PrefixGoes ==
    ASSUME NEW words \in Seq(EightBytes), NEW h, WordPrefixes(h, words),
           NEW buf \in Seq(Byte), NEW off \in Nat, Goes(buf, off, h[Len(words)])
    PROVE  \A i \in 1..Len(words) : Goes(buf, off + Len(h[i - 1]), EncodeVarInt(words[i]))
<1>. DEFINE n == Len(words)
            B == Seq(Byte)
            s == [i \in 1..n |-> EncodeVarInt(words[i])]
<1>1. n \in Nat /\ \A i \in 1..n : words[i] \in EightBytes
  OBVIOUS
<1>2. \A i \in 1..n : EncodeVarInt(words[i]) \in B
  BY <1>1, EncodedShape
<1>3. s \in [1..n -> B] /\ \A i \in 1..n : s[i] = EncodeVarInt(words[i])
  BY <1>2
<1>. HIDE DEF s, B, n
<1>4. s \in Seq(B) /\ Len(s) = n
  BY <1>1, <1>3, BytesOfTuple
<1>5. s \in Seq(Seq(Byte)) /\ h \in [0..Len(s) -> Seq(Byte)] /\ Goes(buf, off, h[Len(s)])
  BY <1>4 DEF B, n, WordPrefixes
<1>6. Concatenates(h, s)
  BY <1>3, <1>4 DEF Concatenates, WordPrefixes, n
<1>7. \A i \in 1..Len(s) : Goes(buf, off + Len(h[i - 1]), s[i])
  BY <1>5, <1>6, JoinsGo
<1>. QED
  BY <1>3, <1>4, <1>7 DEF n

\* One more integer, read where the reader stands.
LEMMA StandsAtInteger ==
    ASSUME NEW buf \in Seq(Byte), NEW off \in Nat, NEW w \in EightBytes, NEW r, Stands(buf, r, off),
           Goes(buf, off, EncodeVarInt(w))
    PROVE  /\ Stands(buf, VarInt(buf, r), off + Len(EncodeVarInt(w)))
           /\ off + Len(EncodeVarInt(w)) <= Len(buf) => VarInt(buf, r).got = w
<1>. DEFINE f == VarInt(buf, r)
            e == EncodeVarInt(w)
<1>1. r \in Readers /\ (~r.err => r.off = off)
  BY DEF Stands
<1>2. ReadsAs(buf, r, f, e, w)
  BY <1>1, VarIntReads
<1>3. f \in Readers
  <2>1. f \in [off : Nat, err : BOOLEAN, got : Seq(Byte)]
    BY <1>1, VarIntTyped
  <2>. HIDE DEF f
  <2>. QED
    BY <2>1 DEF Readers, Returned
<1>4. e \in Seq(Byte)
  BY EncodedShape
<1>. HIDE DEF f, e
<1>5. Stands(buf, f, off + Len(e)) /\ (off + Len(e) <= Len(buf) => f.got = w)
  BY <1>2, <1>3, <1>4, StandsOn
<1>. QED
  BY <1>5 DEF f, e

\* What AddWords has, after i of the words, read from off on.
ReadSoFar(buf, off, words, h, i, g) ==
    /\ Stands(buf, g.reader, off + Len(h[i]))
    /\ off + Len(h[i]) <= Len(buf) =>
          /\ g.words \in Seq(Seq(Byte)) /\ Len(g.words) = i
          /\ \A j \in 1..i : g.words[j] = words[j]

LEMMA OneMoreWord ==
    ASSUME NEW words \in Seq(EightBytes), NEW h, WordPrefixes(h, words),
           NEW buf \in Seq(Byte), NEW off \in Nat, Goes(buf, off, h[Len(words)]),
           NEW i \in 1..Len(words), NEW g, ReadSoFar(buf, off, words, h, i - 1, g)
    PROVE  ReadSoFar(buf, off, words, h, i, AddWord(buf, g))
<1>. DEFINE w == words[i]
            e == EncodeVarInt(w)
            a == Len(h[i - 1])
            v == VarInt(buf, g.reader)
            m == Len(buf)
            c == AddWord(buf, g)
<1>1. /\ i - 1 \in Nat /\ a \in Nat /\ w \in EightBytes /\ e \in Seq(Byte) /\ Len(h[i]) = a + Len(e) /\ m \in Nat
      /\ i \in Nat
  <2>1. /\ i - 1 \in 0..Len(words) /\ words[i] \in EightBytes /\ EncodeVarInt(words[i]) \in Seq(Byte)
        /\ Len(h[i]) = Len(h[i - 1]) + Len(EncodeVarInt(words[i]))
    BY PrefixLengths
  <2>2. Len(h[i - 1]) \in Nat
    BY <2>1, PrefixLengths
  <2>3. i \in Nat /\ i - 1 \in Nat /\ m \in Nat
    OBVIOUS
  <2>. QED
    BY <2>1, <2>2, <2>3
<1>2. Goes(buf, off + a, e)
  BY PrefixGoes
<1>3. Stands(buf, g.reader, off + a)
  BY DEF ReadSoFar
<1>4. Stands(buf, v, (off + a) + Len(e)) /\ ((off + a) + Len(e) <= m => v.got = w)
  <2>1. off + a \in Nat
    BY <1>1
  <2>. HIDE DEF w, a
  <2>. QED
    BY <1>1, <1>2, <1>3, <2>1, StandsAtInteger
<1>5. c = [reader |-> v, words |-> Append(g.words, v.got)]
  BY DEF AddWord
<1>6. off + a <= m => /\ g.words \in Seq(Seq(Byte)) /\ Len(g.words) = i - 1
                      /\ \A j \in 1..(i - 1) : g.words[j] = words[j]
  BY DEF ReadSoFar
<1>7. Len(e) \in Nat
  BY <1>1
<1>. DEFINE l == Len(e)
            t == Len(h[i])
            gw == g.words
<1>8. t = a + l /\ l \in Nat
  BY <1>1, <1>7
<1>9. c.reader = v /\ c.words = Append(gw, v.got)
  BY <1>5
<1>. HIDE DEF w, e, a, v, m, c, l, t, gw
<1>10. Stands(buf, c.reader, off + t)
  <2>1. (off + a) + l = off + t
    BY <1>1, <1>8
  <2>. QED
    BY <1>4, <1>9, <2>1 DEF l
<1>11. ASSUME off + t <= m
       PROVE  /\ c.words \in Seq(Seq(Byte)) /\ Len(c.words) = i
              /\ \A j \in 1..i : c.words[j] = words[j]
  <2>1. off + a <= m /\ (off + a) + l <= m
    BY <1>1, <1>8, <1>11
  <2>2. v.got = w
    BY <1>4, <2>1 DEF l
  <2>3. gw \in Seq(Seq(Byte)) /\ Len(gw) = i - 1 /\ \A j \in 1..(i - 1) : gw[j] = words[j]
    BY <1>6, <2>1 DEF gw
  <2>4. w \in Seq(Byte)
    BY <1>1, WordIsBytes
  <2>5. c.words = Append(gw, w)
    BY <1>9, <2>2
  <2>. DEFINE S == Seq(Byte)
              cw == Append(gw, w)
  <2>6. gw \in Seq(S) /\ w \in S
    BY <2>3, <2>4
  <2>. HIDE DEF S
  <2>7. /\ cw \in Seq(S) /\ Len(cw) = Len(gw) + 1
        /\ \A j \in 1..Len(gw) : cw[j] = gw[j]
        /\ cw[Len(gw) + 1] = w
    BY <2>6
  <2>. HIDE DEF cw
  <2>8. Len(gw) + 1 = i /\ Len(gw) = i - 1 /\ \A j \in 1..i : j # i => j \in 1..(i - 1)
    BY <1>1, <2>3
  <2>9. \A j \in 1..i : cw[j] = words[j]
    <3>. TAKE j \in 1..i
    <3>1. CASE j = i
      BY <2>7, <2>8, <3>1 DEF w
    <3>2. CASE j # i
      BY <2>3, <2>7, <2>8, <3>2
    <3>. QED
      BY <3>1, <3>2
  <2>10. cw \in Seq(Seq(Byte)) /\ Len(cw) = i
    BY <2>7, <2>8 DEF S
  <2>. QED
    BY <2>5, <2>9, <2>10 DEF cw
<1>12. ReadSoFar(buf, off, words, h, i, c)
  BY <1>10, <1>11 DEF ReadSoFar, t, m
<1>. QED
  BY <1>12 DEF c

\* The words behind their length.
LEMMA AllWordsRead ==
    ASSUME NEW words \in Seq(EightBytes), NEW h, WordPrefixes(h, words),
           NEW buf \in Seq(Byte), NEW off \in Nat, Goes(buf, off, h[Len(words)]),
           NEW n, n.got = Len(words), Stands(buf, n, off)
    PROVE  ReadSoFar(buf, off, words, h, Len(words), AddWords(buf, n))
<1>. DEFINE k == Len(words)
            A == [reader : Readers, words : Seq(Seq(Byte))]
            T(g) == {i \in Nat : i <= k => ReadSoFar(buf, off, words, h, i, g[i])}
            start == [reader |-> n, words |-> <<>>]
<1>1. k \in Nat /\ n.got \in Nat
  OBVIOUS
<1>2. start \in A
  BY DEF Stands
<1>3. WordsWithin(A, buf)
  <2>1. ASSUME NEW a \in A
        PROVE  AddWord(buf, a) \in A
    <3>. DEFINE v == VarInt(buf, a.reader)
                U == Seq(Byte)
                T1 == [off : Nat, err : BOOLEAN, got : U]
    <3>1. a.reader \in Readers /\ a.words \in Seq(U)
      OBVIOUS
    <3>2. v \in T1
      BY <3>1, VarIntTyped
    <3>3. AddWord(buf, a) = [reader |-> v, words |-> Append(a.words, v.got)]
      BY DEF AddWord
    <3>. HIDE DEF v
    <3>4. v \in Readers
      BY <3>2 DEF Readers, Returned
    <3>5. v.got \in U
      BY <3>2
    <3>. HIDE DEF U
    <3>6. Append(a.words, v.got) \in Seq(U)
      BY <3>1, <3>5
    <3>. QED
      BY <3>3, <3>4, <3>6 DEF U
  <2>. HIDE DEF A
  <2>. QED
    BY <2>1 DEF WordsWithin
<1>. HIDE DEF A, k, start
<1>4. PICK g \in [0..k -> A] :
         /\ g[0] = start
         /\ \A i \in 1..k : g[i] = AddWord(buf, g[i - 1])
         /\ g[k] = AddWords(buf, n)
  <2>1. n.got = k
    BY DEF k
  <2>2. [reader |-> n, words |-> <<>>] \in A
    BY <1>2 DEF start
  <2>3. WordWalk(A, buf, n)
    BY <1>1, <1>3, <2>2, WordsAdded
  <2>. QED
    BY <2>1, <2>3 DEF start, WordWalk
<1>5. ReadSoFar(buf, off, words, h, 0, g[0])
  <2>1. Len(h[0]) = 0 /\ off + 0 = off
    BY DEF WordPrefixes
  <2>2. start.reader = n /\ start.words = <<>>
    BY DEF start
  <2>3. <<>> \in Seq(Seq(Byte)) /\ Len(<<>>) = 0 /\ 1..0 = {}
    OBVIOUS
  <2>. QED
    BY <1>4, <2>1, <2>2, <2>3 DEF ReadSoFar
<1>6. ASSUME NEW i \in T(g)
      PROVE  i + 1 \in T(g)
  <2>. SUFFICES ASSUME i + 1 <= k PROVE ReadSoFar(buf, off, words, h, i + 1, g[i + 1])
    OBVIOUS
  <2>1. i + 1 \in 1..k /\ (i + 1) - 1 = i /\ ReadSoFar(buf, off, words, h, i, g[i])
    BY <1>1
  <2>2. g[i + 1] = AddWord(buf, g[i])
    BY <1>4, <2>1
  <2>3. i + 1 \in 1..Len(words) /\ ReadSoFar(buf, off, words, h, (i + 1) - 1, g[i])
    BY <2>1 DEF k
  <2>. DEFINE j == i + 1
  <2>. HIDE DEF j
  <2>4. j \in 1..Len(words) /\ ReadSoFar(buf, off, words, h, j - 1, g[i])
    BY <2>3 DEF j
  <2>5. ReadSoFar(buf, off, words, h, j, AddWord(buf, g[i]))
    BY <2>4, OneMoreWord
  <2>. QED
    BY <2>2, <2>5 DEF j
<1>7. T(g) = Nat
  <2>1. T(g) \in SUBSET Nat /\ 0 \in T(g)
    BY <1>5
  <2>. HIDE DEF T
  <2>. QED
    BY <1>6, <2>1, SetInduction
<1>8. ReadSoFar(buf, off, words, h, k, g[k])
  BY <1>1, <1>7
<1>. QED
  BY <1>4, <1>8 DEF k

LEMMA EncodedWordsAre ==
    ASSUME NEW words \in Seq(EightBytes), Len(words) \in Small
    PROVE  EncodeWords(words) \in Seq(Byte)
<1>1. PICK h : WordPrefixes(h, words) /\ EncodeWords(words) = LengthBytes(Len(words)) \o h[Len(words)]
  BY EncodedPrefixes
<1>2. Len(words) \in 0..Len(words)
  OBVIOUS
<1>3. h[Len(words)] \in Seq(Byte)
  BY <1>1, <1>2, PrefixLengths
<1>4. LengthBytes(Len(words)) \in Seq(Byte)
  BY LengthBytesAre
<1>. QED
  BY <1>1, <1>3, <1>4, Bytewise

\* A vector is read as its words, and the read fails when they do not all follow.
LEMMA WordsRead ==
    ASSUME NEW buf \in Seq(Byte), NEW r \in Readers, NEW words \in Seq(EightBytes), Len(words) \in Small,
           ~r.err => Goes(buf, r.off, EncodeWords(words))
    PROVE  ReadsAs(buf, r, Words(buf, r), EncodeWords(words), words)
<1>. DEFINE k == Len(words)
            e == LengthBytes(k)
            l == Len(e)
            x == r.off
            m == Len(buf)
            n == Length(buf, r)
            f == Words(buf, r)
            es == EncodeWords(words)
            all == AddWords(buf, n)
<1>0. PICK h : WordPrefixes(h, words) /\ es = e \o h[k]
  BY EncodedPrefixes
<1>. DEFINE p == h[k]
            q == Len(p)
<1>1. k \in Nat /\ x \in Nat /\ m \in Nat /\ e \in Seq(Byte) /\ l \in Nat
  BY LengthBytesAre DEF Readers
<1>2. p \in Seq(Byte) /\ q \in Nat /\ q >= k
  <2>1. k \in 0..k
    BY <1>1
  <2>. QED
    BY <1>0, <2>1, PrefixLengths
<1>3. Len(es) = l + q
  <2>. HIDE DEF p, e, es
  <2>. QED
    BY <1>0, <1>1, <1>2, Bytewise DEF p
<1>4. ~r.err => Goes(buf, x, e) /\ Goes(buf, x + l, p)
  <2>1. ~r.err => Goes(buf, x, e \o p)
    BY <1>0
  <2>. HIDE DEF p, e, es, x
  <2>. QED
    BY <1>1, <1>2, <2>1, GoesOn
<1>5. Counts(buf, r, n, e, k)
  BY <1>4, LengthReads
<1>6. f = IF n.err THEN n ELSE [all.reader EXCEPT !.got = all.words]
  BY DEF Words
<1>. HIDE DEF k, e, l, x, m, n, f, es, all, p, q
<1>7. CASE r.err
  <2>1. f.err
    BY <1>5, <1>6, <1>7 DEF Counts
  <2>. QED
    BY <1>7, <2>1 DEF ReadsAs, f, es
<1>8. CASE ~r.err /\ n.err
  <2>1. f.err /\ ~(x + l + k <= m)
    BY <1>5, <1>6, <1>8 DEF Counts, l, x, m
  <2>2. ~(x + Len(es) <= m)
    BY <1>1, <1>2, <1>3, <2>1
  <2>. QED
    BY <1>8, <2>1, <2>2 DEF ReadsAs, f, es, x, m
<1>9. CASE ~r.err /\ ~n.err
  <2>1. x + l <= m /\ n = [off |-> x + l, err |-> FALSE, got |-> k]
    <3>1. x + l + k <= m => x + l <= m
      BY <1>1
    <3>. QED
      BY <1>5, <1>9, <3>1 DEF Counts, l, x, m
  <2>. DEFINE y == x + l
  <2>2. y \in Nat /\ y <= m
    BY <1>1, <2>1
  <2>. HIDE DEF y
  <2>3. n.got = Len(words) /\ Stands(buf, n, y)
    <3>1. n = [off |-> y, err |-> FALSE, got |-> k]
      BY <2>1 DEF y
    <3>2. n.got = k /\ n.off = y /\ n.err = FALSE
      BY <3>1
    <3>3. n \in Readers
      BY <1>1, <2>2, <3>1 DEF Readers, Returned
    <3>. QED
      BY <2>2, <3>2, <3>3 DEF Stands, k, m
  <2>4. Goes(buf, y, h[Len(words)])
    BY <1>4, <1>9 DEF y, p, k
  <2>5. ReadSoFar(buf, y, words, h, Len(words), all)
    BY <1>0, <2>2, <2>3, <2>4, AllWordsRead DEF all
  <2>6. /\ Stands(buf, all.reader, y + q)
        /\ y + q <= m => /\ all.words \in Seq(Seq(Byte)) /\ Len(all.words) = k
                         /\ \A j \in 1..k : all.words[j] = words[j]
    BY <2>5 DEF ReadSoFar, q, p, k, m
  <2>. DEFINE R == all.reader
              W == all.words
  <2>7. /\ Stands(buf, R, y + q)
        /\ y + q <= m => /\ W \in Seq(Seq(Byte)) /\ Len(W) = k
                         /\ \A j \in 1..k : W[j] = words[j]
    BY <2>6
  <2>8. f = [R EXCEPT !.got = W]
    BY <1>6, <1>9
  <2>. HIDE DEF R, W
  <2>9. y + q = x + Len(es)
    BY <1>1, <1>2, <1>3 DEF y
  <2>10. R \in Readers
    BY <2>7 DEF Stands
  <2>11. CASE y + q <= m
    <3>1. R.err = FALSE /\ R.off = y + q
      BY <2>7, <2>10, <2>11 DEF Stands, m, Readers
    <3>2. W = words
      <4>1. W \in Seq(Seq(Byte)) /\ Len(W) = k /\ \A j \in 1..k : W[j] = words[j]
        BY <2>7, <2>11
      <4>2. words \in Seq(EightBytes) /\ Len(words) = k
        BY DEF k
      <4>3. DOMAIN W = 1..k /\ DOMAIN words = 1..k /\ W = [j \in DOMAIN W |-> W[j]]
            /\ words = [j \in DOMAIN words |-> words[j]]
        BY <4>1, <4>2
      <4>. QED
        BY <4>1, <4>3
    <3>3. f = [off |-> y + q, err |-> FALSE, got |-> words]
      BY <2>8, <2>10, <3>1, <3>2 DEF Readers
    <3>. QED
      BY <1>9, <2>9, <2>11, <3>3 DEF ReadsAs, f, es, x, m
  <2>12. CASE ~(y + q <= m)
    <3>1. R.err
      BY <2>7, <2>12 DEF Stands, m
    <3>2. f.err = R.err
      BY <2>8, <2>10 DEF Readers
    <3>. QED
      BY <1>9, <2>9, <2>12, <3>1, <3>2 DEF ReadsAs, f, es, x, m
  <2>. QED
    BY <2>11, <2>12
<1>. QED
  BY <1>7, <1>8, <1>9

LEMMA LengthTyped ==
    ASSUME NEW buf \in Seq(Byte), NEW r \in Readers
    PROVE  LET n == Length(buf, r) IN n \in Readers /\ (~n.err => n.got \in Nat)
<1>. DEFINE v == VarInt(buf, r)
            n == Length(buf, r)
            c == NumberOf(v.got)
<1>1. v \in [off : Nat, err : BOOLEAN, got : Seq(Byte)] /\ (~v.err => v.got \in EightBytes)
  BY VarIntTyped
<1>2. n = IF v.err \/ ~IsSmall(v.got) \/ c > Len(buf) - v.off THEN Failed(v)
          ELSE [v EXCEPT !.got = NumberOf(@)]
  BY DEF Length
<1>3. [v EXCEPT !.got = NumberOf(@)] = [v EXCEPT !.got = c]
  BY Zenon
<1>4. ASSUME ~v.err
      PROVE  c \in Nat
  <2>. DEFINE w == v.got
  <2>1. w \in EightBytes /\ 1 \in 1..8 /\ 2 \in 1..8 /\ 3 \in 1..8
    BY <1>1, <1>4
  <2>. HIDE DEF w
  <2>2. w[1] \in Byte /\ w[2] \in Byte /\ w[3] \in Byte
    BY <2>1, WordIsBytes
  <2>. DEFINE x == w[1]
              y == w[2]
              z == w[3]
  <2>3. NumberOf(w) = x + 256 * (y + 256 * z)
    BY DEF NumberOf
  <2>. HIDE DEF x, y, z
  <2>4. x \in Byte /\ y \in Byte /\ z \in Byte
    BY <2>2 DEF x, y, z
  <2>5. x \in Nat /\ y \in Nat /\ z \in Nat
    BY <2>4 DEF Byte
  <2>6. x + 256 * (y + 256 * z) \in Nat
    BY <2>5
  <2>. QED
    BY <2>3, <2>6 DEF w
<1>. HIDE DEF v, n, c
<1>5. CASE n = Failed(v)
  <2>1. n = [off |-> v.off, err |-> TRUE, got |-> <<>>]
    BY <1>1, <1>5 DEF Failed
  <2>2. n.err /\ n \in Readers
    BY <1>1, <2>1 DEF Readers, Returned
  <2>. QED
    BY <2>2 DEF n
<1>6. CASE ~v.err /\ n = [v EXCEPT !.got = c]
  <2>1. n = [off |-> v.off, err |-> v.err, got |-> c]
    BY <1>1, <1>6
  <2>2. n.got = c /\ c \in Nat
    BY <1>4, <1>6, <2>1
  <2>3. n \in Readers
    BY <1>1, <2>1, <2>2 DEF Readers, Returned
  <2>. QED
    BY <2>2, <2>3 DEF n
<1>. QED
  BY <1>2, <1>3, <1>5, <1>6

WordReads == [reader : Readers, words : Seq(Seq(Byte))]

LEMMA WordsStayTyped ==
    ASSUME NEW buf \in Seq(Byte)
    PROVE  WordsWithin(WordReads, buf)
<1>1. ASSUME NEW a \in WordReads
      PROVE  AddWord(buf, a) \in WordReads
  <2>. DEFINE v == VarInt(buf, a.reader)
              U == Seq(Byte)
              T1 == [off : Nat, err : BOOLEAN, got : U]
  <2>1. a.reader \in Readers /\ a.words \in Seq(U)
    BY DEF WordReads
  <2>2. v \in T1
    BY <2>1, VarIntTyped
  <2>3. AddWord(buf, a) = [reader |-> v, words |-> Append(a.words, v.got)]
    BY DEF AddWord
  <2>. HIDE DEF v
  <2>4. v \in Readers
    BY <2>2 DEF Readers, Returned
  <2>5. v.got \in U
    BY <2>2
  <2>. HIDE DEF U
  <2>6. Append(a.words, v.got) \in Seq(U)
    BY <2>1, <2>5
  <2>. QED
    BY <2>3, <2>4, <2>6 DEF U, WordReads
<1>. QED
  BY <1>1 DEF WordsWithin

LEMMA WordsTyped ==
    ASSUME NEW buf \in Seq(Byte), NEW r \in Readers
    PROVE  Words(buf, r) \in Readers
<1>. DEFINE n == Length(buf, r)
            all == AddWords(buf, n)
            f == Words(buf, r)
<1>1. n \in Readers /\ (~n.err => n.got \in Nat)
  BY LengthTyped
<1>2. f = IF n.err THEN n ELSE [all.reader EXCEPT !.got = all.words]
  BY DEF Words
<1>. HIDE DEF n, f
<1>3. CASE n.err
  BY <1>1, <1>2, <1>3 DEF f
<1>4. CASE ~n.err
  <2>1. all \in WordReads
    <3>1. [reader |-> n, words |-> <<>>] \in WordReads
      BY <1>1 DEF WordReads
    <3>2. n.got \in Nat
      BY <1>1, <1>4
    <3>3. WordWalk(WordReads, buf, n)
      BY <3>1, <3>2, WordsStayTyped, WordsAdded
    <3>. QED
      BY <3>2, <3>3 DEF WordWalk
  <2>. HIDE DEF all
  <2>2. all.reader \in Readers /\ all.words \in Seq(Seq(Byte))
    BY <2>1 DEF WordReads
  <2>. DEFINE R == all.reader
              W == all.words
  <2>3. R \in [off : Nat, err : BOOLEAN, got : Returned] /\ W \in Returned
    BY <2>2 DEF Readers, Returned
  <2>4. f = [R EXCEPT !.got = W]
    BY <1>2, <1>4
  <2>. HIDE DEF R, W
  <2>5. f = [off |-> R.off, err |-> R.err, got |-> W]
    BY <2>3, <2>4
  <2>. QED
    BY <2>3, <2>5 DEF f, Readers
<1>. QED
  BY <1>3, <1>4

LEMMA FieldTyped ==
    ASSUME NEW buf \in Seq(Byte), NEW r \in Readers, NEW field
    PROVE  ReadField(buf, r, field) \in Readers
<1>1. \A x, n : Taken(buf, x, n, Take(buf, x, n)) => Take(buf, x, n) \in Readers
  BY DEF Taken, Readers, Returned
<1>2. VarInt(buf, r) \in Readers
  <2>. DEFINE f == VarInt(buf, r)
  <2>1. f \in [off : Nat, err : BOOLEAN, got : Seq(Byte)]
    BY VarIntTyped
  <2>. HIDE DEF f
  <2>2. f \in Readers
    BY <2>1 DEF Readers, Returned
  <2>. QED
    BY <2>2 DEF f
<1>3. Utf8(buf, r) \in Readers
  <2>. DEFINE n == Length(buf, r)
  <2>1. n \in Readers /\ (~n.err => n.got \in Nat)
    BY LengthTyped
  <2>2. Utf8(buf, r) = IF n.err THEN n ELSE Take(buf, n, n.got)
    BY DEF Utf8
  <2>. HIDE DEF n
  <2>3. ~n.err => Take(buf, n, n.got) \in Readers
    BY <1>1, <2>1, TakeTyped
  <2>. QED
    BY <2>1, <2>2, <2>3
<1>4. Words(buf, r) \in Readers /\ SkipWords(buf, r) = Words(buf, r)
  BY WordsTyped DEF SkipWords
<1>5. ReadField(buf, r, field) \in {VarInt(buf, r), Utf8(buf, r), Words(buf, r)}
  BY <1>4, Zenon DEF ReadField
<1>. QED
  BY <1>2, <1>3, <1>4, <1>5

Bodies == [reader : Readers, fields : [Range(BodyFields) -> Returned]]

LEMMA FieldNames ==
    /\ Range(BodyFields) = {"proof", "ziskVK", "kind", "hash", "publics", "vk"}
    /\ \A i \in 1..6 : BodyFields[i] \in Range(BodyFields)
    /\ \A i, j \in 1..6 : i # j => BodyFields[i] # BodyFields[j]
<1>1. \A i \in 1..6 : i = 1 \/ i = 2 \/ i = 3 \/ i = 4 \/ i = 5 \/ i = 6
  OBVIOUS
<1>2. DOMAIN BodyFields = 1..6
  BY DEF BodyFields
<1>3. /\ BodyFields[1] = "proof" /\ BodyFields[2] = "ziskVK" /\ BodyFields[3] = "kind"
      /\ BodyFields[4] = "hash" /\ BodyFields[5] = "publics" /\ BodyFields[6] = "vk"
  BY DEF BodyFields
<1>4. Range(BodyFields) = {BodyFields[i] : i \in 1..6}
  BY <1>2 DEF Range
<1>. QED
  BY <1>1, <1>3, <1>4

LEMMA FieldsStayTyped ==
    ASSUME NEW buf \in Seq(Byte)
    PROVE  FieldsWithin(Bodies, buf)
<1>1. ASSUME NEW a \in Bodies, NEW i \in 1..6
      PROVE  AddField(buf, a, BodyFields[i]) \in Bodies
  <2>. DEFINE name == BodyFields[i]
              f == ReadField(buf, a.reader, name)
              c == [a.fields EXCEPT ![name] = f.got]
  <2>1. a.reader \in Readers /\ a.fields \in [Range(BodyFields) -> Returned]
    BY DEF Bodies
  <2>2. f \in Readers
    BY <2>1, FieldTyped
  <2>3. AddField(buf, a, name) = [reader |-> f, fields |-> c]
    BY DEF AddField
  <2>. HIDE DEF f, name
  <2>4. f.got \in Returned
    BY <2>2 DEF Readers
  <2>5. c \in [Range(BodyFields) -> Returned]
    BY <2>1, <2>4
  <2>. HIDE DEF c
  <2>. QED
    BY <2>2, <2>3, <2>5 DEF Bodies, name
<1>. QED
  BY <1>1 DEF FieldsWithin

\* The proofs that an envelope holds.
ZiskProofs ==
    [proof : Seq(EightBytes), ziskVK : Seq(EightBytes), kind : Small,
     hash : Seq(Byte), publics : Seq(EightBytes), vk : Seq(EightBytes)]

\* Its vectors have lengths of three bytes, as far more than an envelope may have.
Fits(p) ==
    /\ Len(p.proof) \in Small /\ Len(p.ziskVK) \in Small /\ Len(p.hash) \in Small
    /\ Len(p.publics) \in Small /\ Len(p.vk) \in Small

\* What bincode writes of a field, and what a read of it returns.
FieldBytes(p, field) ==
    CASE field = "kind" -> EncodeVarInt(WordOf(p.kind))
      [] field = "hash" -> LengthBytes(Len(p.hash)) \o p.hash
      [] OTHER -> EncodeWords(p[field])

FieldValue(p, field) == IF field = "kind" THEN WordOf(p.kind) ELSE p[field]

LEMMA FieldsAre ==
    ASSUME NEW p \in ZiskProofs, Fits(p), NEW field \in Range(BodyFields)
    PROVE  FieldBytes(p, field) \in Seq(Byte)
<1>1. field \in {"proof", "ziskVK", "kind", "hash", "publics", "vk"}
  BY FieldNames
<1>2. CASE field = "kind"
  <2>1. p.kind \in Small
    BY DEF ZiskProofs
  <2>2. EncodeVarInt(WordOf(p.kind)) \in Seq(Byte)
    BY <2>1, SmallWord, EncodedShape
  <2>. QED
    BY <1>2, <2>2 DEF FieldBytes
<1>3. CASE field = "hash"
  <2>1. p.hash \in Seq(Byte) /\ LengthBytes(Len(p.hash)) \in Seq(Byte)
    BY LengthBytesAre DEF ZiskProofs, Fits
  <2>2. LengthBytes(Len(p.hash)) \o p.hash \in Seq(Byte)
    BY <2>1, Bytewise
  <2>. QED
    BY <1>3, <2>2 DEF FieldBytes
<1>4. CASE field \notin {"kind", "hash"}
  <2>1. p[field] \in Seq(EightBytes) /\ Len(p[field]) \in Small
    BY <1>1, <1>4 DEF ZiskProofs, Fits
  <2>2. EncodeWords(p[field]) \in Seq(Byte)
    BY <2>1, EncodedWordsAre
  <2>3. FieldBytes(p, field) = EncodeWords(p[field])
    BY <1>4 DEF FieldBytes
  <2>. QED
    BY <2>2, <2>3
<1>. QED
  BY <1>2, <1>3, <1>4

LEMMA FieldReads ==
    ASSUME NEW buf \in Seq(Byte), NEW r \in Readers, NEW p \in ZiskProofs, Fits(p),
           NEW field \in Range(BodyFields), ~r.err => Goes(buf, r.off, FieldBytes(p, field))
    PROVE  ReadsAs(buf, r, ReadField(buf, r, field), FieldBytes(p, field), FieldValue(p, field))
<1>1. field \in {"proof", "ziskVK", "kind", "hash", "publics", "vk"}
  BY FieldNames
<1>2. CASE field = "kind"
  <2>1. p.kind \in Small
    BY DEF ZiskProofs
  <2>. DEFINE w == WordOf(p.kind)
  <2>2. w \in EightBytes
    BY <2>1, SmallWord
  <2>3. FieldBytes(p, field) = EncodeVarInt(w) /\ FieldValue(p, field) = w
    BY <1>2 DEF FieldBytes, FieldValue
  <2>4. ReadField(buf, r, field) = VarInt(buf, r)
    BY <1>2 DEF ReadField
  <2>. HIDE DEF w
  <2>5. ReadsAs(buf, r, VarInt(buf, r), EncodeVarInt(w), w)
    BY <2>2, <2>3, VarIntReads
  <2>. QED
    BY <2>3, <2>4, <2>5
<1>3. CASE field = "hash"
  <2>. DEFINE s == p.hash
  <2>1. s \in Seq(Byte) /\ Len(s) \in Small
    BY DEF ZiskProofs, Fits
  <2>2. FieldBytes(p, field) = LengthBytes(Len(s)) \o s /\ FieldValue(p, field) = s
    BY <1>3 DEF FieldBytes, FieldValue
  <2>3. ReadField(buf, r, field) = Utf8(buf, r)
    BY <1>3 DEF ReadField
  <2>. HIDE DEF s
  <2>4. ReadsAs(buf, r, Utf8(buf, r), LengthBytes(Len(s)) \o s, s)
    BY <2>1, <2>2, Utf8Reads
  <2>. QED
    BY <2>2, <2>3, <2>4
<1>4. CASE field \notin {"kind", "hash"}
  <2>. DEFINE words == p[field]
  <2>1. words \in Seq(EightBytes) /\ Len(words) \in Small
    BY <1>1, <1>4 DEF ZiskProofs, Fits
  <2>2. FieldBytes(p, field) = EncodeWords(words) /\ FieldValue(p, field) = words
    BY <1>4 DEF FieldBytes, FieldValue
  <2>3. ReadField(buf, r, field) = Words(buf, r)
    <3>1. SkipWords(buf, r) = Words(buf, r)
      BY DEF SkipWords
    <3>. QED
      BY <1>4, <3>1 DEF ReadField
  <2>. HIDE DEF words
  <2>4. ReadsAs(buf, r, Words(buf, r), EncodeWords(words), words)
    BY <2>1, <2>2, WordsRead
  <2>. QED
    BY <2>2, <2>3, <2>4
<1>. QED
  BY <1>2, <1>3, <1>4

\* The parts of an envelope: the flavour and the fields of the body.
EnvelopeParts(p) == [i \in 1..7 |-> IF i = 1 THEN EncodeVarInt(WordOf(0)) ELSE FieldBytes(p, BodyFields[i - 1])]

\* h lists the envelope's beginnings, a part longer each.
Beginnings(p, h) == h \in [0..7 -> Seq(Byte)] /\ Concatenates(h, EnvelopeParts(p)) /\ h[7] = EncodeProof(p)

LEMMA PartsAre ==
    ASSUME NEW p \in ZiskProofs, Fits(p)
    PROVE  /\ EnvelopeParts(p) \in Seq(Seq(Byte)) /\ Len(EnvelopeParts(p)) = 7
           /\ EnvelopeParts(p)[1] = EncodeVarInt(WordOf(0))
           /\ \A i \in 1..6 : EnvelopeParts(p)[i + 1] = FieldBytes(p, BodyFields[i])
<1>1. WordOf(0) \in EightBytes /\ EncodeVarInt(WordOf(0)) \in Seq(Byte)
  <2>1. 0 \in Small
    BY DEF Small
  <2>. QED
    BY <2>1, SmallWord, EncodedShape
<1>2. \A i \in 1..6 : FieldBytes(p, BodyFields[i]) \in Seq(Byte)
  BY FieldsAre, FieldNames
<1>. DEFINE S == Seq(Byte)
            e == EncodeVarInt(WordOf(0))
            s == EnvelopeParts(p)
<1>3. \A i \in 1..7 : i # 1 => i - 1 \in 1..6
  OBVIOUS
<1>4. s = [i \in 1..7 |-> IF i = 1 THEN e ELSE FieldBytes(p, BodyFields[i - 1])]
  BY DEF EnvelopeParts
<1>9. e \in S /\ \A i \in 1..6 : FieldBytes(p, BodyFields[i]) \in S
  BY <1>1, <1>2
<1>. HIDE DEF S, e, s
<1>5. s \in [1..7 -> S]
  BY <1>3, <1>4, <1>9
<1>6. s \in Seq(S) /\ Len(s) = 7
  <2>1. 7 \in Nat
    OBVIOUS
  <2>. QED
    BY <1>5, <2>1, BytesOfTuple
<1>7. s[1] = e
  BY <1>4
<1>8. \A i \in 1..6 : s[i + 1] = FieldBytes(p, BodyFields[i])
  <2>. TAKE i \in 1..6
  <2>1. i + 1 \in 1..7 /\ i + 1 # 1 /\ (i + 1) - 1 = i
    OBVIOUS
  <2>2. s[i + 1] = FieldBytes(p, BodyFields[(i + 1) - 1])
    BY <1>4, <2>1
  <2>. QED
    BY <2>1, <2>2
<1>. QED
  BY <1>6, <1>7, <1>8 DEF S, e, s

LEMMA Regrouped ==
    ASSUME NEW a \in Seq(Byte), NEW b \in Seq(Byte), NEW c \in Seq(Byte)
    PROVE  (a \o b) \o c = a \o (b \o c)
OBVIOUS

LEMMA BeginningsExist ==
    ASSUME NEW p \in ZiskProofs, Fits(p)
    PROVE  \E h : Beginnings(p, h)
<1>. DEFINE s == EnvelopeParts(p)
<1>1. /\ s \in Seq(Seq(Byte)) /\ Len(s) = 7 /\ s[1] = EncodeVarInt(WordOf(0))
      /\ \A i \in 1..6 : s[i + 1] = FieldBytes(p, BodyFields[i])
  BY PartsAre
<1>. HIDE DEF s
<1>2. PICK h \in [0..7 -> Seq(Byte)] : Concatenates(h, s)
  BY <1>1, Flattened
<1>3. /\ h[0] = <<>> /\ h[1] = h[0] \o s[1] /\ h[2] = h[1] \o s[2] /\ h[3] = h[2] \o s[3]
      /\ h[4] = h[3] \o s[4] /\ h[5] = h[4] \o s[5] /\ h[6] = h[5] \o s[6] /\ h[7] = h[6] \o s[7]
  <2>1. h[0] = <<>> /\ \A k \in 1..7 : h[k] = h[k - 1] \o s[k]
    BY <1>1, <1>2 DEF Concatenates
  <2>2. /\ 1 - 1 = 0 /\ 2 - 1 = 1 /\ 3 - 1 = 2 /\ 4 - 1 = 3 /\ 5 - 1 = 4 /\ 6 - 1 = 5 /\ 7 - 1 = 6
        /\ 1 \in 1..7 /\ 2 \in 1..7 /\ 3 \in 1..7 /\ 4 \in 1..7 /\ 5 \in 1..7 /\ 6 \in 1..7 /\ 7 \in 1..7
    OBVIOUS
  <2>. QED
    BY <2>1, <2>2
<1>4. /\ s[2] = EncodeWords(p.proof) /\ s[3] = EncodeWords(p.ziskVK) /\ s[4] = EncodeVarInt(WordOf(p.kind))
      /\ s[5] = LengthBytes(Len(p.hash)) \o p.hash /\ s[6] = EncodeWords(p.publics) /\ s[7] = EncodeWords(p.vk)
  <2>1. /\ s[2] = FieldBytes(p, "proof") /\ s[3] = FieldBytes(p, "ziskVK") /\ s[4] = FieldBytes(p, "kind")
        /\ s[5] = FieldBytes(p, "hash") /\ s[6] = FieldBytes(p, "publics") /\ s[7] = FieldBytes(p, "vk")
    <3>1. /\ 1 \in 1..6 /\ 2 \in 1..6 /\ 3 \in 1..6 /\ 4 \in 1..6 /\ 5 \in 1..6 /\ 6 \in 1..6
          /\ 1 + 1 = 2 /\ 2 + 1 = 3 /\ 3 + 1 = 4 /\ 4 + 1 = 5 /\ 5 + 1 = 6 /\ 6 + 1 = 7
      OBVIOUS
    <3>2. /\ BodyFields[1] = "proof" /\ BodyFields[2] = "ziskVK" /\ BodyFields[3] = "kind"
          /\ BodyFields[4] = "hash" /\ BodyFields[5] = "publics" /\ BodyFields[6] = "vk"
      BY DEF BodyFields
    <3>. QED
      BY <1>1, <3>1, <3>2
  <2>. QED
    BY <2>1 DEF FieldBytes
<1>5. h[1] = EncodeVarInt(WordOf(0))
  <2>1. s[1] \in Seq(Byte)
    <3>1. 0 \in Small
      BY DEF Small
    <3>. QED
      BY <1>1, <3>1, SmallWord, EncodedShape
  <2>2. <<>> \o s[1] = s[1]
    BY <2>1
  <2>. QED
    BY <1>1, <1>3, <2>2
<1>6. h[5] = (h[4] \o LengthBytes(Len(p.hash))) \o p.hash
  <2>1. h[4] \in Seq(Byte) /\ p.hash \in Seq(Byte) /\ LengthBytes(Len(p.hash)) \in Seq(Byte)
    <3>1. 4 \in 0..7
      OBVIOUS
    <3>. QED
      BY <1>2, <3>1, LengthBytesAre DEF ZiskProofs, Fits
  <2>2. (h[4] \o LengthBytes(Len(p.hash))) \o p.hash = h[4] \o (LengthBytes(Len(p.hash)) \o p.hash)
    <3>. DEFINE a == h[4]
                b == LengthBytes(Len(p.hash))
                c == p.hash
    <3>. HIDE DEF a, b, c
    <3>1. a \in Seq(Byte) /\ b \in Seq(Byte) /\ c \in Seq(Byte)
      BY <2>1 DEF a, b, c
    <3>2. (a \o b) \o c = a \o (b \o c)
      BY <3>1, Regrouped
    <3>. QED
      BY <3>2 DEF a, b, c
  <2>. QED
    BY <1>3, <1>4, <2>2
<1>7. h[7] = EncodeProof(p)
  BY <1>3, <1>4, <1>5, <1>6, Zenon DEF EncodeProof, LengthBytes
<1>. QED
  BY <1>2, <1>7 DEF Beginnings, s

\* What ReadBody has after k fields of p.
BodySoFar(buf, p, h, k, g) ==
    /\ Stands(buf, g.reader, Len(h[k + 1]))
    /\ Len(h[k + 1]) <= Len(buf) =>
          \A j \in 1..k : g.fields[BodyFields[j]] = FieldValue(p, BodyFields[j])

LEMMA OneMoreField ==
    ASSUME NEW p \in ZiskProofs, Fits(p), NEW h, Beginnings(p, h),
           NEW buf \in Seq(Byte), Goes(buf, 0, h[7]),
           NEW k \in 1..6, NEW g \in Bodies, BodySoFar(buf, p, h, k - 1, g)
    PROVE  BodySoFar(buf, p, h, k, AddField(buf, g, BodyFields[k]))
<1>. DEFINE name == BodyFields[k]
            e == FieldBytes(p, name)
            a == Len(h[k])
            l == Len(e)
            t == Len(h[k + 1])
            m == Len(buf)
            f == ReadField(buf, g.reader, name)
            c == AddField(buf, g, name)
<1>1. /\ k \in 0..7 /\ k + 1 \in 1..7 /\ k + 1 \in 0..7 /\ (k + 1) - 1 = k /\ (k - 1) + 1 = k
      /\ h[k] \in Seq(Byte) /\ h[k + 1] \in Seq(Byte) /\ m \in Nat
  <2>1. k \in 0..7 /\ k + 1 \in 1..7 /\ k + 1 \in 0..7 /\ (k + 1) - 1 = k /\ (k - 1) + 1 = k /\ m \in Nat
    OBVIOUS
  <2>2. h \in [0..7 -> Seq(Byte)]
    BY DEF Beginnings
  <2>. QED
    BY <2>1, <2>2
<1>2. name \in Range(BodyFields)
  BY FieldNames
<1>3. e \in Seq(Byte)
  BY <1>2, FieldsAre
<1>4. h[k + 1] = h[k] \o e
  <2>1. h[k + 1] = h[(k + 1) - 1] \o EnvelopeParts(p)[k + 1] /\ EnvelopeParts(p)[k + 1] = e
    BY <1>1, PartsAre DEF Beginnings, Concatenates
  <2>. QED
    BY <1>1, <2>1
<1>5. t = a + l /\ a \in Nat /\ l \in Nat
  <2>. DEFINE x == h[k]
              y == h[k + 1]
  <2>. HIDE DEF e, x, y
  <2>1. x \in Seq(Byte) /\ y = x \o e
    BY <1>1, <1>4 DEF x, y
  <2>2. Len(y) = Len(x) + Len(e) /\ Len(x) \in Nat /\ Len(e) \in Nat
    BY <1>3, <2>1, Bytewise
  <2>. QED
    BY <2>2 DEF x, y
<1>6. Goes(buf, a, e)
  <2>1. EnvelopeParts(p) \in Seq(Seq(Byte)) /\ Len(EnvelopeParts(p)) = 7 /\ EnvelopeParts(p)[k + 1] = e
    BY PartsAre
  <2>2. h \in [0..Len(EnvelopeParts(p)) -> Seq(Byte)] /\ Concatenates(h, EnvelopeParts(p)) /\ Goes(buf, 0, h[Len(EnvelopeParts(p))])
    BY <2>1 DEF Beginnings
  <2>3. \A i \in 1..Len(EnvelopeParts(p)) : Goes(buf, 0 + Len(h[i - 1]), EnvelopeParts(p)[i])
    <3>1. 0 \in Nat
      OBVIOUS
    <3>. QED
      BY <2>1, <2>2, <3>1, JoinsGo
  <2>4. Goes(buf, 0 + Len(h[(k + 1) - 1]), EnvelopeParts(p)[k + 1])
    BY <1>1, <2>1, <2>3
  <2>5. 0 + Len(h[(k + 1) - 1]) = a
    BY <1>1, <1>5
  <2>. QED
    BY <2>1, <2>4, <2>5
<1>7. Stands(buf, g.reader, a)
  BY <1>1 DEF BodySoFar
<1>8. g.reader \in Readers /\ g.fields \in [Range(BodyFields) -> Returned]
  BY DEF Bodies
<1>9. ~g.reader.err => g.reader.off = a
  BY <1>7 DEF Stands
<1>10. ReadsAs(buf, g.reader, f, e, FieldValue(p, name))
  <2>1. ~g.reader.err => Goes(buf, g.reader.off, e)
    BY <1>6, <1>9
  <2>. HIDE DEF name
  <2>. QED
    BY <1>2, <1>8, <2>1, FieldReads
<1>11. f \in Readers
  BY <1>8, FieldTyped
<1>12. Stands(buf, f, a + l) /\ (a + l <= m => f.got = FieldValue(p, name))
  <2>. HIDE DEF f, e, a, name
  <2>. QED
    BY <1>3, <1>5, <1>7, <1>10, <1>11, StandsOn
<1>13. c = [reader |-> f, fields |-> [g.fields EXCEPT ![name] = f.got]]
  BY DEF AddField
<1>14. c.reader = f /\ c.fields = [g.fields EXCEPT ![name] = f.got]
  BY <1>13
<1>. HIDE DEF f, c
<1>15. Stands(buf, c.reader, t)
  BY <1>5, <1>12, <1>14
<1>16. ASSUME t <= m
       PROVE  \A j \in 1..k : c.fields[BodyFields[j]] = FieldValue(p, BodyFields[j])
  <2>. TAKE j \in 1..k
  <2>1. f.got = FieldValue(p, name)
    BY <1>5, <1>12, <1>16
  <2>2. j \in 1..6 /\ BodyFields[j] \in Range(BodyFields)
    <3>1. j \in 1..6
      OBVIOUS
    <3>. QED
      BY <3>1, FieldNames
  <2>3. CASE j = k
    BY <1>2, <1>8, <1>14, <2>1, <2>3
  <2>4. CASE j # k
    <3>1. BodyFields[j] # name
      BY <2>2, <2>4, FieldNames
    <3>2. j \in 1..(k - 1)
      BY <2>4
    <3>3. a <= m
      <4>. HIDE DEF a, l, t, m
      <4>. QED
        BY <1>1, <1>5, <1>16
    <3>4. g.fields[BodyFields[j]] = FieldValue(p, BodyFields[j])
      BY <1>1, <3>2, <3>3 DEF BodySoFar
    <3>. HIDE DEF name
    <3>5. c.fields[BodyFields[j]] = g.fields[BodyFields[j]]
      BY <1>8, <1>14, <2>2, <3>1
    <3>. QED
      BY <3>4, <3>5
  <2>. QED
    BY <2>3, <2>4
<1>17. BodySoFar(buf, p, h, k, c)
  BY <1>15, <1>16 DEF BodySoFar
<1>. QED
  BY <1>17 DEF c

LEMMA BodyRead ==
    ASSUME NEW p \in ZiskProofs, Fits(p), NEW h, Beginnings(p, h),
           NEW buf \in Seq(Byte), Goes(buf, 0, h[7]),
           NEW r, Stands(buf, r, Len(h[1]))
    PROVE  BodySoFar(buf, p, h, 6, ReadBody(buf, r)) /\ ReadBody(buf, r) \in Bodies
<1>. DEFINE start == [reader |-> r, fields |-> [field \in Range(BodyFields) |-> <<>>]]
<1>1. start \in Bodies
  <2>1. <<>> \in Returned
    BY DEF Returned
  <2>2. r \in Readers
    BY DEF Stands
  <2>. QED
    BY <2>1, <2>2 DEF Bodies
<1>2. FieldWalk(Bodies, buf, r)
  BY <1>1, FieldsStayTyped, FieldsAdded
<1>3. PICK g \in [0..6 -> Bodies] :
         /\ g[0] = start
         /\ \A k \in 1..6 : g[k] = AddField(buf, g[k - 1], BodyFields[k])
         /\ g[6] = ReadBody(buf, r)
  BY <1>2 DEF FieldWalk
<1>4. BodySoFar(buf, p, h, 0, g[0])
  <2>1. g[0].reader = r /\ 0 + 1 = 1 /\ 1..0 = {}
    BY <1>3
  <2>. QED
    BY <2>1 DEF BodySoFar
<1>5. ASSUME NEW k \in 1..6, BodySoFar(buf, p, h, k - 1, g[k - 1])
      PROVE  BodySoFar(buf, p, h, k, g[k])
  <2>. DEFINE b == g[k - 1]
  <2>1. b \in Bodies /\ g[k] = AddField(buf, b, BodyFields[k]) /\ BodySoFar(buf, p, h, k - 1, b)
    <3>1. k - 1 \in 0..6
      OBVIOUS
    <3>. QED
      BY <1>3, <1>5, <3>1
  <2>. HIDE DEF b
  <2>2. BodySoFar(buf, p, h, k, AddField(buf, b, BodyFields[k]))
    BY <2>1, OneMoreField
  <2>. QED
    BY <2>1, <2>2
<1>. DEFINE Q(k) == BodySoFar(buf, p, h, k, g[k])
<1>6. Q(0)
  BY <1>4
<1>7. \A k \in 1..6 : Q(k - 1) => Q(k)
  BY <1>5
<1>. HIDE DEF Q
<1>8. Q(6)
  <2>1. Q(1 - 1) => Q(1)
    BY <1>7
  <2>2. Q(2 - 1) => Q(2)
    BY <1>7
  <2>3. Q(3 - 1) => Q(3)
    BY <1>7
  <2>4. Q(4 - 1) => Q(4)
    BY <1>7
  <2>5. Q(5 - 1) => Q(5)
    BY <1>7
  <2>6. Q(6 - 1) => Q(6)
    BY <1>7
  <2>. QED
    BY <1>6, <2>1, <2>2, <2>3, <2>4, <2>5, <2>6
<1>. QED
  BY <1>3, <1>8 DEF Q

\* The flavours and the lengths are told apart by their words.
LEMMA ZeroWord ==
    ASSUME NEW n \in Small
    PROVE  (WordOf(n) = WordOf(0)) <=> n = 0
<1>1. 0 \in Small
  BY DEF Small
<1>2. NumberOf(WordOf(n)) = n /\ NumberOf(WordOf(0)) = 0
  BY <1>1, SmallWord
<1>. QED
  BY <1>2

\* What the transcoding makes of bytes that begin as p's envelope does.
LEMMA TranscodesAs ==
    ASSUME NEW p \in ZiskProofs, Fits(p), NEW buf \in Seq(Byte), Goes(buf, 0, EncodeProof(p))
    PROVE  TranscodeProof(buf) =
              IF Len(EncodeProof(p)) <= Len(buf) /\ Acceptable(p) /\ Len(buf) <= MaxBytes
              THEN [ok |-> TRUE, proof |-> Fixed(p.proof, p.publics)] ELSE Refused
<1>1. PICK h : Beginnings(p, h)
  BY BeginningsExist
<1>. DEFINE variant == VarInt(buf, Start)
            body == ReadBody(buf, variant)
            e == EncodeVarInt(WordOf(0))
            whole == EncodeProof(p)
<1>2. h[7] = whole /\ Goes(buf, 0, h[7])
  BY <1>1 DEF Beginnings
<1>3. WordOf(0) \in EightBytes /\ e \in Seq(Byte) /\ Len(e) \in 1..9
  <2>1. 0 \in Small
    BY DEF Small
  <2>. QED
    BY <2>1, SmallWord, EncodedShape
<1>4. h[1] = e
  <2>1. h[1] = h[1 - 1] \o EnvelopeParts(p)[1] /\ h[0] = <<>> /\ EnvelopeParts(p)[1] = e
    <3>1. 1 \in 1..7
      OBVIOUS
    <3>. QED
      BY <1>1, <3>1, PartsAre DEF Beginnings, Concatenates
  <2>2. <<>> \o e = e
    BY <1>3
  <2>3. 1 - 1 = 0
    OBVIOUS
  <2>4. h[1] = <<>> \o e
    BY <2>1, <2>3
  <2>. QED
    BY <2>2, <2>4
<1>5. Goes(buf, 0, e)
  <2>1. EnvelopeParts(p) \in Seq(Seq(Byte)) /\ Len(EnvelopeParts(p)) = 7 /\ EnvelopeParts(p)[1] = e
    BY PartsAre
  <2>2. h \in [0..Len(EnvelopeParts(p)) -> Seq(Byte)] /\ Concatenates(h, EnvelopeParts(p)) /\ Goes(buf, 0, h[Len(EnvelopeParts(p))])
    BY <1>1, <1>2, <2>1 DEF Beginnings
  <2>3. \A i \in 1..Len(EnvelopeParts(p)) : Goes(buf, 0 + Len(h[i - 1]), EnvelopeParts(p)[i])
    <3>1. 0 \in Nat
      OBVIOUS
    <3>. QED
      BY <2>1, <2>2, <3>1, JoinsGo
  <2>4. Goes(buf, 0 + Len(h[1 - 1]), EnvelopeParts(p)[1])
    <3>1. 1 \in 1..Len(EnvelopeParts(p))
      BY <2>1
    <3>. QED
      BY <2>3, <3>1
  <2>5. 0 + Len(h[1 - 1]) = 0
    <3>1. h[0] = <<>>
      BY <1>1 DEF Beginnings, Concatenates
    <3>. QED
      BY <3>1
  <2>. QED
    BY <2>1, <2>4, <2>5
<1>6. Start \in Readers /\ Stands(buf, Start, 0)
  <2>1. Start = [off |-> 0, err |-> FALSE, got |-> <<>>] /\ <<>> \in Returned
    BY DEF Start, Returned
  <2>2. Start \in Readers /\ Start.off = 0 /\ Start.err = FALSE
    BY <2>1 DEF Readers
  <2>3. 0 <= Len(buf)
    OBVIOUS
  <2>. QED
    BY <2>2, <2>3 DEF Stands
<1>. DEFINE l == Len(e)
            m == Len(buf)
            t == Len(whole)
<1>7. Stands(buf, variant, l) /\ (l <= m => variant.got = WordOf(0))
  <2>1. /\ Stands(buf, variant, 0 + Len(e))
        /\ 0 + Len(e) <= Len(buf) => variant.got = WordOf(0)
    <3>1. 0 \in Nat
      OBVIOUS
    <3>. QED
      BY <1>3, <1>5, <1>6, <3>1, StandsAtInteger
  <2>2. 0 + l = l
    BY <1>3
  <2>. QED
    BY <2>1, <2>2
<1>. HIDE DEF variant
<1>8. BodySoFar(buf, p, h, 6, body) /\ body \in Bodies
  BY <1>1, <1>2, <1>4, <1>7, BodyRead
<1>. HIDE DEF body
<1>9. /\ Stands(buf, body.reader, t)
      /\ t <= m => \A j \in 1..6 : body.fields[BodyFields[j]] = FieldValue(p, BodyFields[j])
  <2>1. 6 + 1 = 7
    OBVIOUS
  <2>. QED
    BY <1>2, <1>8, <2>1 DEF BodySoFar
<1>10. TranscodeProof(buf) =
          IF \/ m > MaxBytes
             \/ variant.got # WordOf(0)
             \/ body.reader.err
             \/ ~Accepted(body.fields)
          THEN Refused
          ELSE [ok |-> TRUE, proof |-> Fixed(body.fields.proof, body.fields.publics)]
  BY DEF TranscodeProof, variant, body
<1>11. CASE ~(t <= m)
  <2>1. body.reader.err
    BY <1>9, <1>11 DEF Stands
  <2>2. TranscodeProof(buf) = Refused
    BY <1>10, <2>1
  <2>. QED
    BY <1>11, <2>2
<1>12. CASE t <= m
  <2>1. l <= m
    <3>1. l <= t
      <4>1. /\ Len(h[1]) \in Nat /\ Len(h[7]) \in Nat /\ h[1] \in Seq(Byte)
        <5>1. 1 \in 0..7 /\ 7 \in 0..7 /\ h \in [0..7 -> Seq(Byte)]
          BY <1>1 DEF Beginnings
        <5>. QED
          BY <5>1
      <4>2. \A k \in 1..6 : Len(h[k]) \in Nat /\ Len(h[k + 1]) \in Nat /\ Len(h[k]) <= Len(h[k + 1])
        <5>. TAKE k \in 1..6
        <5>. DEFINE x == h[k]
                    y == FieldBytes(p, BodyFields[k])
                    z == h[k + 1]
        <5>1. k \in 0..7 /\ k + 1 \in 1..7 /\ (k + 1) - 1 = k /\ h \in [0..7 -> Seq(Byte)]
          BY <1>1 DEF Beginnings
        <5>2. x \in Seq(Byte) /\ y \in Seq(Byte)
          BY <5>1, FieldsAre, FieldNames
        <5>3. z = x \o y
          <6>1. h[k + 1] = h[(k + 1) - 1] \o EnvelopeParts(p)[k + 1] /\ EnvelopeParts(p)[k + 1] = y
            BY <1>1, <5>1, PartsAre DEF Beginnings, Concatenates
          <6>. QED
            BY <5>1, <6>1
        <5>. HIDE DEF x, y, z
        <5>4. Len(z) = Len(x) + Len(y) /\ Len(x) \in Nat /\ Len(y) \in Nat
          BY <5>2, <5>3, Bytewise
        <5>5. Len(x) \in Nat /\ Len(z) \in Nat /\ Len(x) <= Len(z)
          BY <5>4
        <5>. QED
          BY <5>5 DEF x, z
      <4>. DEFINE n(k) == Len(h[k])
      <4>3. \A k \in 1..6 : n(k) \in Nat /\ n(k + 1) \in Nat /\ n(k) <= n(k + 1)
        BY <4>2
      <4>4. l = n(1) /\ t = n(7)
        BY <1>2, <1>4
      <4>. HIDE DEF n
      <4>5. n(1) <= n(1 + 1) /\ n(2) <= n(2 + 1) /\ n(3) <= n(3 + 1) /\ n(4) <= n(4 + 1)
            /\ n(5) <= n(5 + 1) /\ n(6) <= n(6 + 1)
        BY <4>3
      <4>6. /\ n(1) \in Nat /\ n(2) \in Nat /\ n(3) \in Nat /\ n(4) \in Nat /\ n(5) \in Nat /\ n(6) \in Nat
            /\ n(6 + 1) \in Nat
        BY <4>3
      <4>7. /\ n(1) <= n(2) /\ n(2) <= n(3) /\ n(3) <= n(4) /\ n(4) <= n(5) /\ n(5) <= n(6) /\ n(6) <= n(7)
            /\ n(7) \in Nat
        BY <4>5, <4>6
      <4>. QED
        BY <4>4, <4>6, <4>7
    <3>2. l \in Nat /\ m \in Nat /\ t \in Nat
      <4>1. Len(h[7]) \in Nat
        <5>1. 7 \in 0..7 /\ h \in [0..7 -> Seq(Byte)]
          BY <1>1 DEF Beginnings
        <5>. QED
          BY <5>1
      <4>. QED
        BY <1>2, <1>3, <4>1
    <3>. HIDE DEF l, m, t
    <3>. QED
      BY <1>12, <3>1, <3>2
  <2>2. variant.got = WordOf(0)
    BY <1>7, <2>1
  <2>3. ~body.reader.err
    BY <1>9, <1>12 DEF Stands
  <2>4. /\ body.fields["proof"] = p.proof /\ body.fields["kind"] = WordOf(p.kind) /\ body.fields["hash"] = p.hash
        /\ body.fields["publics"] = p.publics /\ body.fields["vk"] = p.vk
    <3>1. /\ BodyFields[1] = "proof" /\ BodyFields[3] = "kind"
          /\ BodyFields[4] = "hash" /\ BodyFields[5] = "publics" /\ BodyFields[6] = "vk"
      BY DEF BodyFields
    <3>2. 1 \in 1..6 /\ 3 \in 1..6 /\ 4 \in 1..6 /\ 5 \in 1..6 /\ 6 \in 1..6
      OBVIOUS
    <3>3. /\ body.fields["proof"] = FieldValue(p, "proof") /\ body.fields["kind"] = FieldValue(p, "kind")
          /\ body.fields["hash"] = FieldValue(p, "hash") /\ body.fields["publics"] = FieldValue(p, "publics")
          /\ body.fields["vk"] = FieldValue(p, "vk")
      BY <1>9, <1>12, <3>1, <3>2
    <3>. QED
      BY <3>3 DEF FieldValue
  <2>5. Accepted(body.fields) <=> Acceptable(p)
    <3>1. p.kind \in Small
      BY DEF ZiskProofs
    <3>2. (WordOf(p.kind) = WordOf(0)) <=> p.kind = 0
      BY <3>1, ZeroWord
    <3>. QED
      BY <2>4, <3>2 DEF Accepted, Acceptable
  <2>6. (m > MaxBytes) <=> ~(m <= MaxBytes)
    <3>1. m \in Nat /\ MaxBytes \in Nat
      BY EnvelopeAssumption
    <3>. HIDE DEF m
    <3>. QED
      BY <3>1
  <2>. QED
    BY <1>10, <1>12, <2>2, <2>3, <2>4, <2>5, <2>6
<1>. QED
  BY <1>11, <1>12

(***************************************************************************)
(* THEOREM EnvelopesFaithful.  For every proof whose vectors have lengths  *)
(* of three bytes, wherever the envelope ends and whatever follows it: a   *)
(* whole envelope of the accepted flavour transcodes to the fixed-width    *)
(* form of its own proof and public values, every other one to an error.   *)
(***************************************************************************)
THEOREM EnvelopesFaithful ==
    ASSUME NEW p \in ZiskProofs, Fits(p), NEW cut \in Nat, NEW trailing \in Seq(Byte)
    PROVE  EnvelopeFaithful(p, cut, trailing)
<1>. DEFINE whole == EncodeProof(p)
            t == Len(whole)
            last == t - cut
            kept == SubSeq(whole, 1, last)
            after == IF cut = 0 THEN trailing ELSE <<>>
            buf == kept \o after
            m == Len(buf)
<1>1. whole \in Seq(Byte) /\ t \in Nat /\ t > 0
  <2>1. PICK h : Beginnings(p, h)
    BY BeginningsExist
  <2>2. h[7] = whole /\ h \in [0..7 -> Seq(Byte)] /\ 7 \in 0..7
    BY <2>1 DEF Beginnings
  <2>3. whole \in Seq(Byte)
    BY <2>2
  <2>4. t > 0
    <3>1. h[7] = h[7 - 1] \o EnvelopeParts(p)[7] /\ 6 + 1 = 7 /\ 7 - 1 = 6
      <4>1. 7 \in 1..7 /\ 6 + 1 = 7 /\ 7 - 1 = 6
        OBVIOUS
      <4>2. h[7] = h[7 - 1] \o EnvelopeParts(p)[7]
        BY <2>1, <4>1, PartsAre DEF Beginnings, Concatenates
      <4>. QED
        BY <4>1, <4>2
    <3>2. EnvelopeParts(p)[6 + 1] = EncodeWords(p.vk)
      <4>1. 6 \in 1..6 /\ BodyFields[6] = "vk"
        BY DEF BodyFields
      <4>2. EnvelopeParts(p)[6 + 1] = FieldBytes(p, "vk")
        BY <4>1, PartsAre
      <4>. QED
        BY <4>2 DEF FieldBytes
    <3>3. p.vk \in Seq(EightBytes) /\ Len(p.vk) \in Small
      BY DEF ZiskProofs, Fits
    <3>4. PICK g : WordPrefixes(g, p.vk) /\ EncodeWords(p.vk) = LengthBytes(Len(p.vk)) \o g[Len(p.vk)]
      BY <3>3, EncodedPrefixes
    <3>. DEFINE a == LengthBytes(Len(p.vk))
                b == g[Len(p.vk)]
                c == h[6]
    <3>5. a \in Seq(Byte) /\ Len(a) \in 1..9
      BY <3>3, LengthBytesAre
    <3>6. b \in Seq(Byte)
      <4>1. Len(p.vk) \in 0..Len(p.vk)
        BY <3>3
      <4>. QED
        BY <3>3, <3>4, <4>1, PrefixLengths
    <3>7. c \in Seq(Byte)
      <4>1. 6 \in 0..7
        OBVIOUS
      <4>. QED
        BY <2>2, <4>1
    <3>8. whole = c \o (a \o b)
      BY <2>2, <3>1, <3>2, <3>4
    <3>. HIDE DEF a, b, c, whole
    <3>9. Len(a \o b) = Len(a) + Len(b) /\ a \o b \in Seq(Byte) /\ Len(b) \in Nat
      BY <3>5, <3>6, Bytewise
    <3>10. Len(c \o (a \o b)) = Len(c) + Len(a \o b) /\ Len(c) \in Nat
      BY <3>7, <3>9, Bytewise
    <3>11. t = Len(c) + (Len(a) + Len(b))
      BY <3>8, <3>9, <3>10
    <3>. DEFINE x == Len(a)
                y == Len(b)
                z == Len(c)
    <3>12. x \in 1..9 /\ y \in Nat /\ z \in Nat /\ t = z + (x + y)
      BY <3>5, <3>9, <3>10, <3>11
    <3>. HIDE DEF x, y, z, t
    <3>. QED
      BY <3>12
  <2>. HIDE DEF whole
  <2>. QED
    BY <2>3, <2>4
<1>. HIDE DEF whole
<1>2. last \in Int /\ last <= t
  <2>. HIDE DEF t
  <2>. QED
    BY <1>1
<1>3. /\ kept \in Seq(Byte) /\ Len(kept) = (IF 1 <= last THEN last ELSE 0)
      /\ \A i \in 1..last : kept[i] = whole[i]
  <2>1. \A i \in 1..last : whole[i] \in Byte
    <3>1. \A i \in 1..t : whole[i] \in Byte
      BY <1>1
    <3>2. \A i \in 1..last : i \in 1..t
      <4>. HIDE DEF t, last
      <4>. QED
        BY <1>1, <1>2
    <3>. QED
      BY <3>1, <3>2
  <2>. HIDE DEF last
  <2>2. /\ SubSeq(whole, 1, last) \in Seq(Byte)
        /\ Len(SubSeq(whole, 1, last)) = IF 1 <= last THEN last - 1 + 1 ELSE 0
        /\ \A i \in 1..(last - 1 + 1) : SubSeq(whole, 1, last)[i] = whole[1 + i - 1]
    <3>1. 1 \in Int
      OBVIOUS
    <3>. QED
      BY <1>2, <2>1, <3>1, SubSeqProperties
  <2>3. last - 1 + 1 = last /\ \A i \in 1..last : 1 + i - 1 = i
    BY <1>2
  <2>. QED
    BY <2>2, <2>3
<1>4. after \in Seq(Byte)
  OBVIOUS
<1>. DEFINE k == Len(kept)
            n == Len(after)
<1>. HIDE DEF kept, after, last, t
<1>5. /\ buf \in Seq(Byte) /\ m = k + n /\ k \in Nat /\ n \in Nat
      /\ \A i \in 1..k : buf[i] = kept[i]
  BY <1>3, <1>4, Bytewise
<1>. HIDE DEF k, n, m, buf
<1>6. k = IF 1 <= last THEN last ELSE 0
  BY <1>3 DEF k
<1>7. (cut = 0 => k = t) /\ (cut # 0 => k < t /\ n = 0)
  <2>1. cut # 0 => n = 0
    BY DEF n, after
  <2>. QED
    BY <1>1, <1>6, <2>1 DEF last
<1>8. (t <= m) <=> cut = 0
  BY <1>1, <1>5, <1>7
<1>9. Goes(buf, 0, whole)
  <2>1. ASSUME NEW i \in 1..t, 0 + i <= m
        PROVE  buf[0 + i] = whole[i]
    <3>1. 0 + i = i /\ i \in 1..k /\ i \in 1..last
      BY <1>1, <1>2, <1>5, <1>6, <1>7, <2>1
    <3>. QED
      BY <1>3, <1>5, <3>1
  <2>. QED
    BY <2>1 DEF Goes, t, m
<1>10. TranscodeProof(buf) =
          IF Len(whole) <= Len(buf) /\ Acceptable(p) /\ Len(buf) <= MaxBytes
          THEN [ok |-> TRUE, proof |-> Fixed(p.proof, p.publics)] ELSE Refused
  BY <1>5, <1>9, TranscodesAs DEF whole
<1>11. TranscodeProof(buf) =
          IF cut = 0 /\ Acceptable(p) /\ Len(buf) <= MaxBytes
          THEN [ok |-> TRUE, proof |-> Fixed(p.proof, p.publics)] ELSE Refused
  BY <1>8, <1>10 DEF t, m
<1>. QED
  BY <1>11 DEF EnvelopeFaithful, buf, kept, after, last, t, whole

----------------------------------------------------------------------------
(* The timelines that are drawn.                                           *)

\* The sub metrics, and the executor and record durations, of the drawn results.
MCMetrics ==
    {[l \in {1, 7} |-> 2 * l + 1], [l \in {0} |-> 4], [l \in {3} |-> 5], [l \in {} |-> 0]}
MCSections == {[l \in {2, 5} |-> l - 2], <<>>}
MCTasks == JobTasks({"contributions", "aggregate", "recurse"}, {<<>>}, ZiskRecords({"main", "final"}, MCSections))

TimelinesDrawn ==
    /\ subject = "openvm" => input \in ProofViews(MCMetrics) /\ DistinctResults(input)
    /\ subject = "zisk" => input.proofStart \in Int /\ input.tasks \in Seq(MCTasks)

LEMMA DrawnViews ==
    ASSUME NEW app \in AppTimings, NEW internal \in InternalTimings,
           NEW view, view = [proofStart |-> 2, apps |-> <<app>>, leaves |-> <<Leaf>>, internals |-> <<internal>>]
    PROVE  view \in ProofViews(MCMetrics) /\ DistinctResults(view)
<1>1. app \in AppResults(MCMetrics)
  BY DEF AppTimings, AppResults, MCMetrics
<1>2. internal \in InternalResults(MCMetrics)
  BY DEF InternalTimings, InternalResults, MCMetrics
<1>3. Leaf \in LeafResults(MCMetrics)
  BY DEF Leaf, LeafResults, MCMetrics
<1>4. <<app>> \in Seq(AppResults(MCMetrics)) /\ <<Leaf>> \in Seq(LeafResults(MCMetrics))
      /\ <<internal>> \in Seq(InternalResults(MCMetrics))
  BY <1>1, <1>2, <1>3, SingletonAt
<1>5. view \in ProofViews(MCMetrics)
  <2>1. 2 \in Int
    OBVIOUS
  <2>. QED
    BY <1>4, <2>1 DEF ProofViews
<1>6. \A i, j \in DOMAIN <<app>> : i = j
  OBVIOUS
<1>7. \A i, j \in DOMAIN <<Leaf>> : i = j
  OBVIOUS
<1>8. \A i, j \in DOMAIN <<internal>> : i = j
  OBVIOUS
<1>9. DistinctResults(view)
  BY <1>6, <1>7, <1>8 DEF DistinctResults
<1>. QED
  BY <1>5, <1>9

LEMMA DrawnTasks ==
    ASSUME NEW task \in ZiskTasks, NEW more \in {<<>>, <<LastTask>>}
    PROVE  <<task>> \o more \in Seq(MCTasks)
<1>. DEFINE A == {"main", "final"}
            Q == ZiskRecords(A, MCSections)
            second == [type |-> 3, id |-> 1, air |-> "main", airgroup |-> 1, start |-> 3, end |-> 8, sections |-> <<>>]
            final == [type |-> 5, id |-> 0, air |-> "final", airgroup |-> 0, start |-> 6, end |-> 7, sections |-> <<>>]
<1>1. (\A q \in Records : q \in Q) /\ second \in Q /\ final \in Q
  BY DEF Records, ZiskRecords, MCSections
<1>2. \A w \in ZiskWorkers : w \in ZiskWorkerNames
  BY DEF ZiskWorkers, ZiskWorkerNames
<1>3. task.proofs \in Seq(Q)
  <2>1. task.proofs \in {<<>>} \cup {<<r>> : r \in Records} \cup {<<r, second>> : r \in Records}
    BY DEF ZiskTasks
  <2>. HIDE DEF Q, second
  <2>2. <<>> \in Seq(Q) /\ \A r \in Records : <<r>> \in Seq(Q) /\ <<r, second>> \in Seq(Q)
    BY <1>1
  <2>. QED
    BY <2>1, <2>2
<1>4. task \in MCTasks
  <2>1. task = [phase |-> task.phase, worker |-> task.worker, coordinatorStart |-> task.coordinatorStart,
                coordinatorEnd |-> task.coordinatorEnd, workerStart |-> task.workerStart,
                workerEnd |-> task.workerEnd, executor |-> task.executor, proofs |-> task.proofs]
    BY DEF ZiskTasks
  <2>2. /\ task.phase \in {"contributions", "aggregate", "recurse"} /\ task.worker \in ZiskWorkers
        /\ task.coordinatorStart \in Int /\ task.coordinatorEnd \in Int
        /\ task.workerStart \in Int /\ task.workerEnd \in Int /\ task.executor \in {<<>>}
    BY DEF ZiskTasks
  <2>. QED
    BY <1>2, <1>3, <2>1, <2>2 DEF MCTasks, JobTasks
<1>5. LastTask \in MCTasks
  <2>. DEFINE proofs == <<final>>
  <2>1. proofs \in Seq(Q)
    <3>. HIDE DEF Q, final
    <3>. QED
      BY <1>1, SingletonAt
  <2>2. LastTask = [phase |-> "recurse", worker |-> [rank |-> 9, name |-> 2], coordinatorStart |-> 5,
                    coordinatorEnd |-> 8, workerStart |-> 6, workerEnd |-> 7, executor |-> <<>>,
                    proofs |-> proofs]
    BY DEF LastTask
  <2>. HIDE DEF proofs
  <2>3. [rank |-> 9, name |-> 2] \in ZiskWorkerNames
    BY DEF ZiskWorkerNames
  <2>. QED
    BY <2>1, <2>2, <2>3 DEF MCTasks, JobTasks
<1>6. <<task>> \in Seq(MCTasks) /\ more \in Seq(MCTasks)
  <2>1. <<task>> \in Seq(MCTasks) /\ <<LastTask>> \in Seq(MCTasks)
    BY <1>4, <1>5, SingletonAt
  <2>2. <<>> \in Seq(MCTasks)
    OBVIOUS
  <2>. QED
    BY <2>1, <2>2
<1>. QED
  BY <1>6

\* The timelines that are drawn are of results that the theorems are about.
LEMMA TimelinesInit == Init => TimelinesDrawn
BY DEF Init, TimelinesDrawn

LEMMA TimelinesStep == TimelinesDrawn /\ [Next]_<<subject, input>> => TimelinesDrawn'
<1>. SUFFICES ASSUME TimelinesDrawn, [Next]_<<subject, input>>
              PROVE  TimelinesDrawn'
  OBVIOUS
<1>1. CASE DrawOpenvmTimeline
  <2>1. PICK app \in AppTimings, internal \in InternalTimings :
           input' = [proofStart |-> 2, apps |-> <<app>>, leaves |-> <<Leaf>>, internals |-> <<internal>>]
    BY <1>1 DEF DrawOpenvmTimeline
  <2>2. input' \in ProofViews(MCMetrics) /\ DistinctResults(input')
    BY <2>1, DrawnViews
  <2>3. subject' = "openvm"
    BY <1>1 DEF DrawOpenvmTimeline
  <2>. QED
    BY <2>2, <2>3 DEF TimelinesDrawn, DistinctResults
<1>2. CASE DrawZiskTimeline
  <2>1. PICK start \in {0, 2}, task \in ZiskTasks, more \in {<<>>, <<LastTask>>} :
           input' = [proofStart |-> start, tasks |-> <<task>> \o more]
    BY <1>2 DEF DrawZiskTimeline
  <2>. DEFINE tasks == <<task>> \o more
  <2>2. tasks \in Seq(MCTasks)
    BY DrawnTasks
  <2>3. input' = [proofStart |-> start, tasks |-> tasks]
    BY <2>1
  <2>. HIDE DEF tasks
  <2>4. input'.tasks \in Seq(MCTasks) /\ input'.proofStart = start
    BY <2>2, <2>3
  <2>5. start \in Int
    OBVIOUS
  <2>6. subject' = "zisk"
    BY <1>2 DEF DrawZiskTimeline
  <2>. QED
    BY <2>4, <2>5, <2>6 DEF TimelinesDrawn
<1>3. CASE DrawEnvelope \/ DrawJournal \/ DrawListing \/ DrawRelay \/ DrawEstimation \/ DrawConfig
  <2>1. CASE DrawEnvelope
    BY <2>1 DEF DrawEnvelope, TimelinesDrawn
  <2>2. CASE DrawJournal
    BY <2>2 DEF DrawJournal, TimelinesDrawn
  <2>3. CASE DrawListing
    BY <2>3 DEF DrawListing, TimelinesDrawn
  <2>4. CASE DrawRelay
    BY <2>4 DEF DrawRelay, TimelinesDrawn
  <2>5. CASE DrawEstimation
    BY <2>5 DEF DrawEstimation, TimelinesDrawn
  <2>6. CASE DrawConfig
    BY <2>6 DEF DrawConfig, TimelinesDrawn
  <2>. QED
    BY <1>3, <2>1, <2>2, <2>3, <2>4, <2>5, <2>6
<1>4. CASE UNCHANGED <<subject, input>>
  BY <1>4 DEF TimelinesDrawn, DistinctResults
<1>. QED
  BY <1>1, <1>2, <1>3, <1>4 DEF Next

LEMMA OpenvmWorkersTyped == OpenvmWorkers \in Seq([id : Int, host : {"h1", "h2"}])
<1>. DEFINE W == [id : Int, host : {"h1", "h2"}]
            w1 == [id |-> 1, host |-> "h2"]
            w2 == [id |-> 0, host |-> "h1"]
            w3 == [id |-> 2, host |-> "h2"]
<1>1. w1 \in W /\ w2 \in W /\ w3 \in W
  OBVIOUS
<1>2. OpenvmWorkers = <<w1, w2, w3>>
  BY DEF OpenvmWorkers
<1>. HIDE DEF W, w1, w2, w3
<1>3. OpenvmWorkers \in Seq(W)
  BY <1>1, <1>2
<1>. QED
  BY <1>3 DEF W

\* Both zkVMs draw sound timelines (cluster/pipeline.go): the results that are
\* drawn are some of those that the two theorems above are about.
THEOREM AlgorithmsTimelineSound == Spec => []TimelineSound
<1>1. TimelinesDrawn => TimelineSound
  <2>. SUFFICES ASSUME TimelinesDrawn
                PROVE  TimelineSound
    OBVIOUS
  <2>1. ASSUME subject = "openvm"
        PROVE  OpenvmTimelineSound(input, OpenvmWorkers)
    <3>1. input \in ProofViews(MCMetrics) /\ DistinctResults(input)
      BY <2>1 DEF TimelinesDrawn
    <3>. QED
      BY <3>1, OpenvmWorkersTyped, OpenvmTimelinesSound
  <2>2. ASSUME subject = "zisk"
        PROVE  ZiskTimelineSound(input.proofStart, input.tasks)
    <3>1. input.proofStart \in Int /\ input.tasks \in Seq(MCTasks)
      BY <2>2 DEF TimelinesDrawn
    <3>. QED
      BY <3>1, ZiskTimelinesSound DEF MCTasks
  <2>. QED
    BY <2>1, <2>2 DEF TimelineSound
<1>. QED
  BY <1>1, TimelinesInit, TimelinesStep, PTL DEF Spec

----------------------------------------------------------------------------
(* Configurations.                                                         *)

\* The strings of the configurations that are drawn.
MCStrings ==
    {"", "zisk", "openvm", "other", "1", "g1", "v1", "n1", "n2", "n3", "e", "10.0.0.1", "10.0.0.2",
     "127.0.0.1", SidecarDCGM, SidecarNode}

ConfigDrawn ==
    subject = "config" =>
        /\ input.file \in Files(MCStrings)
        /\ input.cpus \in Nat
        /\ input.numaNodes \in Int

LEMMA DrawnStrings ==
    /\ "" \in MCStrings /\ "zisk" \in MCStrings /\ "openvm" \in MCStrings /\ "other" \in MCStrings
    /\ "1" \in MCStrings /\ "g1" \in MCStrings /\ "v1" \in MCStrings /\ "e" \in MCStrings
    /\ "n1" \in MCStrings /\ "n2" \in MCStrings /\ "n3" \in MCStrings
    /\ "10.0.0.1" \in MCStrings /\ "10.0.0.2" \in MCStrings /\ "127.0.0.1" \in MCStrings
    /\ SidecarDCGM \in MCStrings /\ SidecarNode \in MCStrings
BY DEF MCStrings

LEMMA DrawnWorkers ==
    ASSUME NEW n \in 1..3, NEW workers \in [1..n -> MCWorkerChoices]
    PROVE  workers \in Seq([ssh : MCStrings, ip : MCStrings, gpus : Seq(Int)])
<1>. DEFINE W == [ssh : MCStrings, ip : MCStrings, gpus : Seq(Int)]
<1>1. <<0>> \in Seq(Int) /\ <<1>> \in Seq(Int) /\ <<0, 1>> \in Seq(Int)
  OBVIOUS
<1>2. \A ssh, ip \in MCStrings : \A gpus \in Seq(Int) : [ssh |-> ssh, ip |-> ip, gpus |-> gpus] \in W
  OBVIOUS
<1>3. \A worker \in MCWorkerChoices : worker \in W
  <2>. HIDE DEF W
  <2>1. /\ [ssh |-> "n1", ip |-> "", gpus |-> <<0>>] \in W
        /\ [ssh |-> "n1", ip |-> "", gpus |-> <<1>>] \in W
    BY <1>1, <1>2, DrawnStrings
  <2>2. /\ [ssh |-> "n2", ip |-> "10.0.0.2", gpus |-> <<0>>] \in W
        /\ [ssh |-> "n2", ip |-> "10.0.0.2", gpus |-> <<1>>] \in W
    BY <1>1, <1>2, DrawnStrings
  <2>3. [ssh |-> "n3", ip |-> "", gpus |-> <<0, 1>>] \in W
    BY <1>1, <1>2, DrawnStrings
  <2>. QED
    BY <2>1, <2>2, <2>3, Zenon DEF MCWorkerChoices
<1>4. workers \in [1..n -> W] /\ n \in Nat
  <2>. HIDE DEF W
  <2>. QED
    BY <1>3
<1>. HIDE DEF W
<1>5. workers \in Seq(W)
  BY <1>4
<1>. QED
  BY <1>5 DEF W

LEMMA DrawnSidecars ==
    ASSUME NEW sidecars \in MCSidecars
    PROVE  sidecars \in Seq([ssh : MCStrings, kind : MCStrings, nvHostEngine : MCStrings])
<1>. DEFINE S == [ssh : MCStrings, kind : MCStrings, nvHostEngine : MCStrings]
            one == [ssh |-> "n2", kind |-> SidecarDCGM, nvHostEngine |-> "e"]
            two == [ssh |-> "n1", kind |-> SidecarNode, nvHostEngine |-> ""]
            three == [ssh |-> "n1", kind |-> SidecarDCGM, nvHostEngine |-> ""]
<1>1. one \in S /\ two \in S /\ three \in S
  BY DrawnStrings
<1>2. sidecars \in {<<>>, <<one, two, three>>}
  BY DEF MCSidecars
<1>. HIDE DEF S, one, two, three
<1>3. <<>> \in Seq(S) /\ <<one, two, three>> \in Seq(S)
  BY <1>1
<1>4. sidecars \in Seq(S)
  BY <1>2, <1>3
<1>. QED
  BY <1>4 DEF S

LEMMA DrawnProver ==
    ASSUME NEW zkvm, NEW np \in {0, 4}
    PROVE  /\ MCProver(zkvm, np) \in [ZiskSettings -> Int] \cup [OpenvmSettings -> Int]
           /\ zkvm = "zisk" => DOMAIN MCProver(zkvm, np) = ZiskSettings
           /\ zkvm = "openvm" => DOMAIN MCProver(zkvm, np) = OpenvmSettings
<1>1. CASE zkvm = "zisk"
  <2>1. MCProver(zkvm, np) = [k \in ZiskSettings |-> IF k = "mpi_np" THEN np ELSE 0]
    BY <1>1 DEF MCProver
  <2>2. MCProver(zkvm, np) \in [ZiskSettings -> Int]
    BY <2>1
  <2>. QED
    BY <1>1, <2>1, <2>2
<1>2. CASE zkvm # "zisk"
  <2>1. MCProver(zkvm, np) = [k \in OpenvmSettings |-> 0]
    BY <1>2 DEF MCProver
  <2>2. MCProver(zkvm, np) \in [OpenvmSettings -> Int]
    BY <2>1
  <2>. QED
    BY <1>2, <2>1, <2>2
<1>. QED
  BY <1>1, <1>2

DrawnFile(zkvm, ip, workers, sidecars, prover) ==
    [zkvm |-> zkvm, zkvmVersion |-> "1", image |-> "", imageTag |-> "", verbose |-> 0,
     guests |-> <<[elf |-> "g1", vk |-> "v1"]>>, coordinator |-> [ssh |-> "n1", ip |-> ip],
     workers |-> workers, sidecars |-> sidecars, prover |-> prover]

LEMMA ZeroIsInt == 0 \in Int
OBVIOUS

LEMMA DrawnFiles ==
    ASSUME NEW zkvm \in {"zisk", "openvm", "other"}, NEW n \in 1..3, NEW np \in {0, 4},
           NEW ip \in {"", "10.0.0.1", "127.0.0.1"}, NEW sidecars \in MCSidecars,
           NEW workers \in [1..n -> MCWorkerChoices]
    PROVE  DrawnFile(zkvm, ip, workers, sidecars, MCProver(zkvm, np)) \in Files(MCStrings)
<1>. DEFINE W == Seq([ssh : MCStrings, ip : MCStrings, gpus : Seq(Int)])
            S == Seq([ssh : MCStrings, kind : MCStrings, nvHostEngine : MCStrings])
            R == [elf : MCStrings, vk : MCStrings]
            G == Seq(R)
            P == [ZiskSettings -> Int] \cup [OpenvmSettings -> Int]
            guest == [elf |-> "g1", vk |-> "v1"]
            guests == <<guest>>
            coordinator == [ssh |-> "n1", ip |-> ip]
            C == [ssh : MCStrings, ip : MCStrings]
            prover == MCProver(zkvm, np)
            file == DrawnFile(zkvm, ip, workers, sidecars, prover)
<1>1. workers \in W /\ sidecars \in S /\ prover \in P
  BY DrawnWorkers, DrawnSidecars, DrawnProver
<1>2. guests \in G
  <2>1. guest \in R
    BY DrawnStrings
  <2>. HIDE DEF guest, R
  <2>. QED
    BY <2>1, SingletonAt
<1>3. coordinator \in C
  <2>1. ip \in MCStrings /\ "n1" \in MCStrings
    BY DrawnStrings
  <2>. QED
    BY <2>1
<1>4. zkvm \in MCStrings /\ "1" \in MCStrings /\ "" \in MCStrings /\ 0 \in Int
  <2>1. zkvm \in MCStrings
    BY DrawnStrings
  <2>2. "1" \in MCStrings /\ "" \in MCStrings
    BY DrawnStrings
  <2>3. 0 \in Int
    BY ZeroIsInt
  <2>. QED
    BY <2>1, <2>2, <2>3
<1>5. file = [zkvm |-> zkvm, zkvmVersion |-> "1", image |-> "", imageTag |-> "", verbose |-> 0,
              guests |-> guests, coordinator |-> coordinator, workers |-> workers,
              sidecars |-> sidecars, prover |-> prover]
  BY DEF DrawnFile
<1>6. /\ zkvm = "zisk" => DOMAIN prover = ZiskSettings
      /\ zkvm = "openvm" => DOMAIN prover = OpenvmSettings
  BY DrawnProver
<1>. HIDE DEF file, W, S, G, P, C, guests, coordinator, prover
<1>7. file \in [zkvm : MCStrings, zkvmVersion : MCStrings, image : MCStrings, imageTag : MCStrings,
                verbose : Int, guests : G, coordinator : C, workers : W, sidecars : S, prover : P]
  BY <1>1, <1>2, <1>3, <1>4, <1>5
<1>8. file.zkvm = zkvm /\ file.prover = prover
  BY <1>5
<1>9. file \in Files(MCStrings)
  BY <1>6, <1>7, <1>8 DEF Files, G, R, C, W, S, P
<1>. QED
  BY <1>9 DEF file, prover

\* A configuration that is drawn is a file that the decoder can return.
LEMMA ConfigInit == Init => ConfigDrawn
BY DEF Init, ConfigDrawn

LEMMA ConfigStep == ConfigDrawn /\ [Next]_<<subject, input>> => ConfigDrawn'
<1>. SUFFICES ASSUME ConfigDrawn, [Next]_<<subject, input>>
              PROVE  ConfigDrawn'
  OBVIOUS
<1>0. (\A n \in {2, 5} : n \in Nat) /\ (\A n \in {0, 2} : n \in Int)
  OBVIOUS
<1>1. CASE DrawConfig
  <2>1. PICK zkvm \in {"zisk", "openvm", "other"}, n \in 1..3, np \in {0, 4},
             ip \in {"", "10.0.0.1", "127.0.0.1"}, sidecars \in MCSidecars, cpus \in {2, 5},
             numaNodes \in {0, 2} :
             \E workers \in [1..n -> MCWorkerChoices] :
                input' = [file |-> DrawnFile(zkvm, ip, workers, sidecars, MCProver(zkvm, np)),
                          cpus |-> cpus, numaNodes |-> numaNodes]
    BY <1>1 DEF DrawConfig, DrawnFile
  <2>2. PICK workers \in [1..n -> MCWorkerChoices] :
                input' = [file |-> DrawnFile(zkvm, ip, workers, sidecars, MCProver(zkvm, np)),
                          cpus |-> cpus, numaNodes |-> numaNodes]
    BY <2>1
  <2>. DEFINE file == DrawnFile(zkvm, ip, workers, sidecars, MCProver(zkvm, np))
  <2>3. file \in Files(MCStrings)
    BY DrawnFiles
  <2>4. cpus \in Nat /\ numaNodes \in Int
    BY <1>0, Zenon
  <2>5. input' = [file |-> file, cpus |-> cpus, numaNodes |-> numaNodes]
    BY <2>2
  <2>. HIDE DEF file
  <2>. QED
    BY <2>3, <2>4, <2>5 DEF ConfigDrawn
<1>2. CASE DrawOpenvmTimeline \/ DrawZiskTimeline \/ DrawEnvelope \/ DrawJournal
             \/ DrawListing \/ DrawRelay \/ DrawEstimation
  <2>1. CASE DrawOpenvmTimeline
    BY <2>1 DEF DrawOpenvmTimeline, ConfigDrawn
  <2>2. CASE DrawZiskTimeline
    BY <2>2 DEF DrawZiskTimeline, ConfigDrawn
  <2>3. CASE DrawEnvelope
    BY <2>3 DEF DrawEnvelope, ConfigDrawn
  <2>4. CASE DrawJournal
    BY <2>4 DEF DrawJournal, ConfigDrawn
  <2>5. CASE DrawListing
    BY <2>5 DEF DrawListing, ConfigDrawn
  <2>6. CASE DrawRelay
    BY <2>6 DEF DrawRelay, ConfigDrawn
  <2>7. CASE DrawEstimation
    BY <2>7 DEF DrawEstimation, ConfigDrawn
  <2>. QED
    BY <1>2, <2>1, <2>2, <2>3, <2>4, <2>5, <2>6, <2>7
<1>3. CASE UNCHANGED <<subject, input>>
  BY <1>3 DEF ConfigDrawn
<1>. QED
  BY <1>1, <1>2, <1>3 DEF Next

\* Every valid, addressed configuration that is drawn deploys what fits together:
\* it is one of the files that SpecificationsAgree is about (spec.go).
THEOREM AlgorithmsConfigAgrees == Spec => []ConfigAgrees
<1>1. ConfigDrawn => ConfigAgrees
  BY SpecificationsAgree DEF ConfigDrawn, ConfigAgrees
<1>. QED
  BY <1>1, ConfigInit, ConfigStep, PTL DEF Spec

----------------------------------------------------------------------------
(* The answers that are drawn.                                             *)

\* The totals of the samples are those that RunningTotal passes through.
LEMMA TotalsRun ==
    ASSUME NEW T, NEW samples \in Seq([T -> Int]), NEW index \in T
    PROVE  \E t \in [0..Len(samples) -> Int] :
              RunsUp(t, samples, index) /\ t[Len(samples)] = RunningTotal(samples, index)
<1>. DEFINE n == Len(samples)
            F == [p \in Int \X (1..n) |-> PlusSample(p[1], samples[p[2]], index)]
            Computes(g) ==
               g = [d \in SUBSET (1..n) |->
                       IF d = {} THEN 0 ELSE PlusSample(g[d \ {Max(d)}], samples[Max(d)], index)]
            iter == CHOOSE g : Computes(g)
<1>0. 0 \in Int
  OBVIOUS
<1>1. n \in Nat /\ DOMAIN samples = 1..n /\ \A i \in 1..n : samples[i][index] \in Int
  <2>. DEFINE V == [T -> Int]
  <2>1. samples \in Seq(V)
    OBVIOUS
  <2>2. \A v \in V : v[index] \in Int
    OBVIOUS
  <2>. HIDE DEF V
  <2>. QED
    BY <2>1, <2>2
<1>2. F \in [Int \X (1..n) -> Int] /\ \A a \in Int, i \in 1..n : F[<<a, i>>] = PlusSample(a, samples[i], index)
  <2>1. \A a \in Int, i \in 1..n : PlusSample(a, samples[i], index) \in Int
    BY <1>1 DEF PlusSample
  <2>. HIDE DEF n
  <2>. QED
    BY <2>1
<1>3. RunningTotal(samples, index) = iter[1..n]
  BY <1>1 DEF RunningTotal, FoldLeft, MapThenFoldSet
<1>. HIDE DEF F, n
<1>4. Computes(iter)
  <2>1. PICK g \in [SUBSET (1..n) -> Int] : Folds(g, n, 0, F)
    BY <1>0, <1>1, <1>2, FoldExists
  <2>2. ASSUME NEW d \in SUBSET (1..n), d # {}
        PROVE  F[<<g[d \ {Max(d)}], Max(d)>>] = PlusSample(g[d \ {Max(d)}], samples[Max(d)], index)
    <3>1. Max(d) \in 1..n
      BY <1>1, <2>2, LargestPosition
    <3>2. g[d \ {Max(d)}] \in Int
      BY <2>1
    <3>. QED
      BY <1>2, <3>1, <3>2
  <2>3. Computes(g)
    BY <2>1, <2>2 DEF Folds
  <2>. HIDE DEF Computes
  <2>. QED
    BY <2>3
<1>. HIDE DEF iter
<1>5. iter[1..0] = 0
  <2>1. 1..0 = {} /\ {} \in SUBSET (1..n)
    OBVIOUS
  <2>. QED
    BY <1>4, <2>1
<1>6. ASSUME NEW k \in 0..(n - 1), iter[1..k] \in Int
      PROVE  iter[1..(k + 1)] = F[<<iter[1..k], k + 1>>]
  <2>. DEFINE d == 1..(k + 1)
  <2>1. d \in SUBSET (1..n) /\ d # {} /\ Max(d) = k + 1 /\ d \ {Max(d)} = 1..k
    BY <1>1, IntervalTop
  <2>. HIDE DEF d
  <2>2. iter[d] = PlusSample(iter[d \ {Max(d)}], samples[Max(d)], index)
    BY <1>4, <2>1
  <2>3. k + 1 \in 1..n
    BY <1>1
  <2>. QED
    BY <1>2, <1>6, <2>1, <2>2, <2>3 DEF d
<1>. HIDE DEF Computes
<1>7. PICK t \in [0..n -> Int] :
         /\ t[0] = 0 /\ t[n] = iter[1..n]
         /\ \A k \in 1..n : t[k] = F[<<t[k - 1], k>>]
  <2>1. Follows(iter, Int, n, 0, F)
    BY <1>5, <1>6 DEF Follows
  <2>2. PICK h \in [0..n -> Int] : Walk(h, iter, n, 0, F)
    BY <1>0, <1>1, <1>2, <2>1, Walks
  <2>. QED
    BY <2>2 DEF Walk
<1>8. \A k \in 1..n : t[k] = t[k - 1] + samples[k][index]
  <2>1. \A k \in 1..n : t[k - 1] \in Int
    BY <1>1, <1>7
  <2>2. \A k \in 1..n : t[k] = PlusSample(t[k - 1], samples[k], index)
    BY <1>2, <1>7, <2>1
  <2>. QED
    BY <2>2 DEF PlusSample
<1>9. RunsUp(t, samples, index) /\ t[n] = RunningTotal(samples, index)
  BY <1>3, <1>7, <1>8 DEF RunsUp, n
<1>. QED
  BY <1>7, <1>9 DEF n

\* The last of a kind is where LastOf finds it.
LEMMA LastFound ==
    ASSUME NEW N, NEW types \in Seq([cost : BOOLEAN, name : N]),
           NEW i \in DOMAIN types, types[i].cost, \A j \in (i + 1)..Len(types) : types[j] # types[i]
    PROVE  LastOf(types, types[i].name) = i
<1>. DEFINE n == Len(types)
            c == types[i].name
            u == [cost |-> TRUE, name |-> c]
            Latest(k) == types[k] = u /\ \A j \in (k + 1)..Len(types) : types[j] # types[k]
<1>1. n \in Nat /\ DOMAIN types = 1..n
  OBVIOUS
<1>2. types[i] = u
  <2>. DEFINE R == [cost : BOOLEAN, name : N]
  <2>1. types \in Seq(R)
    OBVIOUS
  <2>. HIDE DEF R
  <2>2. types[i] \in R
    BY <2>1
  <2>. QED
    BY <2>2 DEF R
<1>3. Latest(i)
  BY <1>2
<1>4. LastOf(types, c) = CHOOSE k \in DOMAIN types : Latest(k)
  BY DEF LastOf
<1>. DEFINE k == LastOf(types, c)
<1>5. k \in DOMAIN types /\ Latest(k)
  <2>. HIDE DEF Latest, c
  <2>. QED
    BY <1>3, <1>4
<1>. HIDE DEF k, u, c
<1>6. k = i
  <2>1. k \in 1..n /\ i \in 1..n
    BY <1>1, <1>5
  <2>2. CASE k < i
    <3>1. i \in (k + 1)..Len(types)
      BY <1>1, <2>1, <2>2
    <3>. QED
      BY <1>2, <1>5, <3>1
  <2>3. CASE i < k
    <3>1. k \in (i + 1)..Len(types)
      BY <1>1, <2>1, <2>3
    <3>. QED
      BY <1>2, <1>5, <3>1
  <2>. QED
    BY <2>1, <2>2, <2>3
<1>. QED
  BY <1>6 DEF k, c

LEMMA DrawnTotals ==
    ASSUME NEW N, NEW types \in Seq([cost : BOOLEAN, name : N]), NEW samples \in Seq([DOMAIN types -> Int])
    PROVE  Totals(TotalOf(types, samples), types, samples)
<1>. DEFINE C == {u.name : u \in {v \in Range(types) : v.cost}}
            n == Len(samples)
            total == TotalOf(types, samples)
<1>1. total = [c \in C |-> RunningTotal(samples, LastOf(types, c)) % Modulus]
  BY DEF TotalOf
<1>2. Modulus \in Nat \ {0} /\ n \in Nat
  BY EstimationAssumption
<1>3. ASSUME NEW i \in DOMAIN types
      PROVE  \E t \in [0..n -> Int] : RunsUp(t, samples, i) /\ t[n] = RunningTotal(samples, i)
  BY TotalsRun
<1>4. ASSUME NEW c \in C
      PROVE  RunningTotal(samples, LastOf(types, c)) % Modulus \in Int
  <2>1. PICK i \in DOMAIN types : types[i].cost /\ types[i].name = c
    BY DEF Range
  <2>2. c \in Components(types)
    BY <2>1 DEF Components
  <2>3. PICK k \in DOMAIN types : /\ types[k].cost /\ types[k].name = c
                                  /\ \A j \in (k + 1)..Len(types) : types[j] # types[k]
    <3>. DEFINE k == CostIndex(types, c)
    <3>1. /\ k \in DOMAIN types /\ types[k].cost /\ types[k].name = c
          /\ \A j \in (k + 1)..Len(types) : types[j] # types[k]
      BY <2>2, IndexIsLast
    <3>. HIDE DEF k
    <3>. QED
      BY <3>1
  <2>4. LastOf(types, c) = k
    BY <2>3, LastFound
  <2>5. PICK t \in [0..n -> Int] : t[n] = RunningTotal(samples, k)
    BY <1>3
  <2>6. RunningTotal(samples, k) \in Int
    BY <1>2, <2>5
  <2>. HIDE DEF n, C
  <2>. QED
    BY <1>2, <2>4, <2>6
<1>5. total \in [C -> Int]
  <2>. HIDE DEF C, total
  <2>. QED
    BY <1>1, <1>4
<1>6. ASSUME NEW i \in DOMAIN types, types[i].cost, \A j \in (i + 1)..Len(types) : types[j] # types[i]
      PROVE  \E t \in [0..n -> Int] : RunsUp(t, samples, i) /\ total[types[i].name] = t[n] % Modulus
  <2>1. LastOf(types, types[i].name) = i
    BY <1>6, LastFound
  <2>2. types[i].name \in C
    BY <1>6 DEF Range
  <2>. HIDE DEF C, total, n
  <2>3. total[types[i].name] = RunningTotal(samples, i) % Modulus
    BY <1>1, <2>1, <2>2
  <2>. QED
    BY <1>3, <2>3
<1>. QED
  BY <1>5, <1>6 DEF Totals

\* The envelopes and the answers that are drawn are those of the theorems above.
AnswersDrawn ==
    /\ subject = "envelope" =>
          /\ input.proof \in ZiskProofs /\ Fits(input.proof)
          /\ input.cut \in Nat /\ input.trailing \in Seq(Byte)
    /\ subject = "estimation" =>
          /\ input.answer \in ServerAnswers({"main", "rom"}, {NoCost})
          /\ input.answer.result.form = "pprof" =>
                Totals(input.total, input.answer.result.pprof.types, input.answer.result.pprof.samples)

LEMMA SmallNumbers ==
    /\ 0 \in Small /\ 1 \in Small /\ 2 \in Small /\ 5 \in Small
    /\ 7 \in Small /\ 251 \in Small /\ 252 \in Small /\ 300 \in Small
<1>1. (0 \div 256) \div 256 <= 255 /\ (1 \div 256) \div 256 <= 255 /\ (2 \div 256) \div 256 <= 255
  OBVIOUS
<1>2. (5 \div 256) \div 256 <= 255 /\ (7 \div 256) \div 256 <= 255 /\ (251 \div 256) \div 256 <= 255
  OBVIOUS
<1>3. (252 \div 256) \div 256 <= 255 /\ (300 \div 256) \div 256 <= 255
  OBVIOUS
<1>. QED
  BY <1>1, <1>2, <1>3 DEF Small

LEMMA DrawnWords ==
    /\ MCWords \subseteq EightBytes
    /\ WordOf(5) \in EightBytes /\ WordOf(252) \in EightBytes /\ WordOf(300) \in EightBytes
<1>1. <<1, 2, 3, 0, 0, 0, 0, 0>> \in EightBytes /\ <<1, 2, 3, 4, 5, 6, 7, 255>> \in EightBytes
  BY DEF EightBytes, Byte, WordBytes
<1>2. /\ WordOf(5) \in EightBytes /\ WordOf(7) \in EightBytes /\ WordOf(251) \in EightBytes
      /\ WordOf(252) \in EightBytes /\ WordOf(300) \in EightBytes
  BY SmallNumbers, SmallWord
<1>. QED
  BY <1>1, <1>2, Zenon DEF MCWords

LEMMA DrawnVectors ==
    /\ \A v \in Vectors : v \in Seq(EightBytes) /\ Len(v) \in Small
    /\ \A v \in {<<WordOf(5)>>, <<WordOf(5), WordOf(300)>>} : v \in Seq(EightBytes) /\ Len(v) \in Small
    /\ \A v \in {<<WordOf(5)>>, <<>>} : v \in Seq(EightBytes) /\ Len(v) \in Small
<1>. DEFINE Fine(v) == v \in Seq(EightBytes) /\ Len(v) \in Small
<1>1. Fine(<<>>)
  BY SmallNumbers
<1>2. ASSUME NEW a \in EightBytes
      PROVE  Fine(<<a>>)
  BY SmallNumbers
<1>3. ASSUME NEW a \in EightBytes, NEW b \in EightBytes
      PROVE  Fine(<<a, b>>)
  BY SmallNumbers
<1>. HIDE DEF Fine
<1>4. \A v \in Vectors : Fine(v)
  <2>. TAKE v \in Vectors
  <2>1. v = <<>> \/ (\E a \in MCWords : v = <<a>>) \/ (\E a \in MCWords : v = <<a, WordOf(252)>>)
    BY Zenon DEF Vectors
  <2>. QED
    BY <1>1, <1>2, <1>3, <2>1, DrawnWords
<1>5. Fine(<<WordOf(5)>>) /\ Fine(<<WordOf(5), WordOf(300)>>)
  BY <1>2, <1>3, DrawnWords
<1>. QED
  BY <1>1, <1>4, <1>5, Zenon DEF Fine

LEMMA DrawnNames ==
    \A s \in {MCHashFamily, <<98>>} : s \in Seq(Byte) /\ Len(s) \in Small
<1>1. 98 \in Byte /\ 51 \in Byte
  BY DEF Byte
<1>2. <<98>> \in Seq(Byte) /\ <<98, 51>> \in Seq(Byte) /\ Len(<<98>>) = 1 /\ Len(<<98, 51>>) = 2
  BY <1>1
<1>. QED
  BY <1>2, SmallNumbers DEF MCHashFamily

DrawnProof(proof, ziskVK, kind, hash, publics, vk) ==
    [proof |-> proof, ziskVK |-> ziskVK, kind |-> kind, hash |-> hash, publics |-> publics, vk |-> vk]

DrawnParts(kind, hash, publics, vk) ==
    /\ kind \in {0, 2} /\ hash \in {MCHashFamily, <<98>>}
    /\ publics \in {<<WordOf(5)>>, <<WordOf(5), WordOf(300)>>} /\ vk \in {<<WordOf(5)>>, <<>>}

LEMMA DrawnEnvelopes ==
    ASSUME NEW proof \in Vectors, NEW ziskVK \in Vectors, NEW kind, NEW hash, NEW publics, NEW vk,
           DrawnParts(kind, hash, publics, vk)
    PROVE  /\ DrawnProof(proof, ziskVK, kind, hash, publics, vk) \in ZiskProofs
           /\ Fits(DrawnProof(proof, ziskVK, kind, hash, publics, vk))
<1>. DEFINE p == [proof |-> proof, ziskVK |-> ziskVK, kind |-> kind, hash |-> hash,
                  publics |-> publics, vk |-> vk]
            W == Seq(EightBytes)
<1>1. proof \in W /\ Len(proof) \in Small /\ ziskVK \in W /\ Len(ziskVK) \in Small
  BY DrawnVectors
<1>2. publics \in W /\ Len(publics) \in Small
  BY DrawnVectors, Zenon DEF DrawnParts
<1>3. vk \in W /\ Len(vk) \in Small
  BY DrawnVectors, Zenon DEF DrawnParts
<1>4. hash \in Seq(Byte) /\ Len(hash) \in Small
  BY DrawnNames, Zenon DEF DrawnParts
<1>5. kind \in Small
  BY SmallNumbers DEF DrawnParts
<1>. HIDE DEF W
<1>6. p \in [proof : W, ziskVK : W, kind : Small, hash : Seq(Byte), publics : W, vk : W]
  BY <1>1, <1>2, <1>3, <1>4, <1>5
<1>7. p.proof = proof /\ p.ziskVK = ziskVK /\ p.hash = hash /\ p.publics = publics /\ p.vk = vk
  OBVIOUS
<1>. HIDE DEF p
<1>8. p \in ZiskProofs
  BY <1>6 DEF ZiskProofs, W
<1>9. Fits(p)
  BY <1>1, <1>2, <1>3, <1>4, <1>7 DEF Fits
<1>. QED
  BY <1>8, <1>9 DEF p, DrawnProof

LEMMA DrawnTypes ==
    ASSUME NEW types \in SampleTypes
    PROVE  types \in Seq([cost : BOOLEAN, name : {"main", "rom"}])
<1>. DEFINE R == [cost : BOOLEAN, name : {"main", "rom"}]
            other == [cost |-> FALSE, name |-> "main"]
            main == [cost |-> TRUE, name |-> "main"]
            rom == [cost |-> TRUE, name |-> "rom"]
<1>1. other \in R /\ main \in R /\ rom \in R
  OBVIOUS
<1>2. types \in {<<>>, <<other>>, <<main, main>>, <<main, other, rom>>}
  BY DEF SampleTypes
<1>. HIDE DEF R, other, main, rom
<1>3. <<>> \in Seq(R) /\ <<other>> \in Seq(R) /\ <<main, main>> \in Seq(R) /\ <<main, other, rom>> \in Seq(R)
  BY <1>1
<1>4. types \in Seq(R)
  BY <1>2, <1>3
<1>. QED
  BY <1>4 DEF R

LEMMA DrawnResults ==
    ASSUME NEW result \in Results
    PROVE  /\ result \in ServerResults({"main", "rom"}, {NoCost})
           /\ result.form = "pprof" =>
                 Totals(TotalOf(result.pprof.types, result.pprof.samples), result.pprof.types, result.pprof.samples)
<1>. DEFINE N == {"main", "rom"}
<1>1. CASE result \in {[form |-> "err"], [form |-> "unset"]}
  <2>1. result \in [form : {"err", "unset"}] /\ result.form # "pprof"
    BY <1>1
  <2>. QED
    BY <2>1 DEF ServerResults
<1>2. CASE result \notin {[form |-> "err"], [form |-> "unset"]}
  <2>. DEFINE Drawn(types, p, samples) ==
                 [form |-> "pprof", pprof |-> [parses |-> p, types |-> types, samples |-> samples]]
              Some(types, n) == {Drawn(types, p, samples) : p \in BOOLEAN, samples \in [1..n -> [DOMAIN types -> Values]]}
  <2>1. result \in UNION {UNION {Some(types, n) : n \in 0..2} : types \in SampleTypes}
    BY <1>2 DEF Results
  <2>2. PICK types \in SampleTypes, n \in 0..2 : result \in Some(types, n)
    <3>. HIDE DEF Some
    <3>. QED
      BY <2>1
  <2>3. PICK p \in BOOLEAN : \E samples \in [1..n -> [DOMAIN types -> Values]] : result = Drawn(types, p, samples)
    <3>. HIDE DEF Drawn
    <3>. QED
      BY <2>2
  <2>4. PICK samples \in [1..n -> [DOMAIN types -> Values]] :
           result = [form |-> "pprof", pprof |-> [parses |-> p, types |-> types, samples |-> samples]]
    BY <2>3
  <2>5. types \in Seq([cost : BOOLEAN, name : N])
    BY DrawnTypes
  <2>. DEFINE V == [DOMAIN types -> Int]
              pprof == [parses |-> p, types |-> types, samples |-> samples]
  <2>6. samples \in Seq(V)
    <3>1. \A v \in [DOMAIN types -> Values] : v \in V
      BY DEF Values
    <3>. HIDE DEF V
    <3>2. samples \in [1..n -> V] /\ n \in Nat
      BY <3>1
    <3>. QED
      BY <3>2
  <2>7. Totals(TotalOf(types, samples), types, samples)
    BY <2>5, <2>6, DrawnTotals
  <2>8. pprof \in [parses : BOOLEAN, types : {types}, samples : Seq(V)]
    <3>. HIDE DEF V
    <3>. QED
      BY <2>6
  <2>9. pprof \in PprofProfiles(N)
    <3>. HIDE DEF pprof, N
    <3>. QED
      BY <2>5, <2>8 DEF PprofProfiles, N
  <2>10. pprof.types = types /\ pprof.samples = samples
    OBVIOUS
  <2>11. result = [form |-> "pprof", pprof |-> pprof]
    BY <2>4
  <2>. HIDE DEF pprof, N, V
  <2>12. result \in [form : {"pprof"}, pprof : PprofProfiles(N)] /\ result.pprof = pprof
    BY <2>9, <2>11
  <2>. QED
    BY <2>7, <2>10, <2>12 DEF ServerResults, N
<1>. QED
  BY <1>1, <1>2

LEMMA AnswersInit == Init => AnswersDrawn
BY DEF Init, AnswersDrawn

LEMMA AnswersStep == AnswersDrawn /\ [Next]_<<subject, input>> => AnswersDrawn'
<1>. SUFFICES ASSUME AnswersDrawn, [Next]_<<subject, input>>
              PROVE  AnswersDrawn'
  OBVIOUS
<1>1. CASE DrawEnvelope
  <2>1. PICK proof \in Vectors, ziskVK \in Vectors, kind \in {0, 2}, hash \in {MCHashFamily, <<98>>},
             publics \in {<<WordOf(5)>>, <<WordOf(5), WordOf(300)>>}, vk \in {<<WordOf(5)>>, <<>>},
             cut \in {0, 1, 3, 5, 9}, trailing \in {<<>>, <<0>>} :
             input' = [proof |-> DrawnProof(proof, ziskVK, kind, hash, publics, vk),
                       cut |-> cut, trailing |-> trailing]
    BY <1>1, Zenon DEF DrawEnvelope, DrawnProof
  <2>. DEFINE p == DrawnProof(proof, ziskVK, kind, hash, publics, vk)
  <2>2. p \in ZiskProofs /\ Fits(p)
    <3>1. DrawnParts(kind, hash, publics, vk)
      BY Zenon DEF DrawnParts
    <3>. QED
      BY <3>1, DrawnEnvelopes
  <2>3. input' = [proof |-> p, cut |-> cut, trailing |-> trailing]
    BY <2>1, Zenon
  <2>4. cut \in Nat
    OBVIOUS
  <2>5. trailing \in Seq(Byte)
    <3>1. 0 \in Byte
      BY DEF Byte
    <3>2. <<>> \in Seq(Byte) /\ <<0>> \in Seq(Byte)
      BY <3>1
    <3>. QED
      BY <3>2
  <2>6. subject' = "envelope"
    BY <1>1 DEF DrawEnvelope
  <2>. HIDE DEF p
  <2>7. input'.proof = p /\ input'.cut = cut /\ input'.trailing = trailing
    BY <2>3
  <2>. QED
    BY <2>2, <2>4, <2>5, <2>6, <2>7 DEF AnswersDrawn, Fits
<1>2. CASE DrawEstimation
  <2>1. PICK result \in Results, reached \in BOOLEAN, decodes \in BOOLEAN :
             input' = [answer |-> [reached |-> reached, decodes |-> decodes, result |-> result],
                       total |-> IF result.form = "pprof"
                                 THEN TotalOf(result.pprof.types, result.pprof.samples) ELSE NoCost]
    BY <1>2 DEF DrawEstimation
  <2>. DEFINE answer == [reached |-> reached, decodes |-> decodes, result |-> result]
              total == IF result.form = "pprof" THEN TotalOf(result.pprof.types, result.pprof.samples) ELSE NoCost
  <2>2. answer \in ServerAnswers({"main", "rom"}, {NoCost}) /\ answer.result = result
    BY DrawnResults DEF ServerAnswers
  <2>3. result.form = "pprof" => Totals(total, result.pprof.types, result.pprof.samples)
    BY DrawnResults
  <2>4. input' = [answer |-> answer, total |-> total]
    BY <2>1
  <2>5. subject' = "estimation"
    BY <1>2 DEF DrawEstimation
  <2>. HIDE DEF answer, total
  <2>6. input'.answer = answer /\ input'.total = total
    BY <2>4
  <2>7. input'.answer \in ServerAnswers({"main", "rom"}, {NoCost})
    BY <2>2, <2>6
  <2>8. input'.answer.result.form = "pprof" =>
           Totals(input'.total, input'.answer.result.pprof.types, input'.answer.result.pprof.samples)
    BY <2>2, <2>3, <2>6
  <2>. QED
    BY <2>5, <2>7, <2>8, Zenon DEF AnswersDrawn
<1>3. CASE DrawOpenvmTimeline \/ DrawZiskTimeline \/ DrawJournal \/ DrawListing \/ DrawRelay \/ DrawConfig
  <2>1. CASE DrawOpenvmTimeline
    BY <2>1 DEF DrawOpenvmTimeline, AnswersDrawn
  <2>2. CASE DrawZiskTimeline
    BY <2>2 DEF DrawZiskTimeline, AnswersDrawn
  <2>3. CASE DrawJournal
    BY <2>3 DEF DrawJournal, AnswersDrawn
  <2>4. CASE DrawListing
    BY <2>4 DEF DrawListing, AnswersDrawn
  <2>5. CASE DrawRelay
    BY <2>5 DEF DrawRelay, AnswersDrawn
  <2>6. CASE DrawConfig
    BY <2>6 DEF DrawConfig, AnswersDrawn
  <2>. QED
    BY <1>3, <2>1, <2>2, <2>3, <2>4, <2>5, <2>6
<1>4. CASE UNCHANGED <<subject, input>>
  <2>1. subject' = subject /\ input' = input
    BY <1>4
  <2>. QED
    BY <2>1, Zenon DEF AnswersDrawn
<1>. QED
  BY <1>1, <1>2, <1>3, <1>4 DEF Next

\* What a coordinator or an ere-server answers is what the caller gets, or
\* nothing (zisk/proof.go:44, ereserver/client.go:115-166): what is drawn is among
\* the envelopes and the answers that EnvelopesFaithful and EstimationsFaithful are
\* about.
THEOREM AlgorithmsAnswersFaithful == Spec => []AnswersFaithful
<1>1. AnswersDrawn => AnswersFaithful
  <2>. SUFFICES ASSUME AnswersDrawn
                PROVE  AnswersFaithful
    OBVIOUS
  <2>1. ASSUME subject = "envelope"
        PROVE  EnvelopeFaithful(input.proof, input.cut, input.trailing)
    BY <2>1, EnvelopesFaithful DEF AnswersDrawn
  <2>2. ASSUME subject = "estimation"
        PROVE  EstimationFaithful(input.answer, input.total)
    BY <2>2, EstimationsFaithful DEF AnswersDrawn
  <2>. QED
    BY <2>1, <2>2 DEF AnswersFaithful
<1>. QED
  BY <1>1, AnswersInit, AnswersStep, PTL DEF Spec

----------------------------------------------------------------------------
(* Journals.                                                               *)

\* Entries and decoders of text over C.
Messages(C) == [form : {"text", "number"}, text : Seq(C)]
JournalEntries(C) == [stamp : Nat, message : Messages(C), partial : BOOLEAN]
JournalLines(C) == [stamp : Nat, text : Seq(C)]
Decoders(C) == [pending : Seq(C), start : Nat, lines : Seq(JournalLines(C)), failed : BOOLEAN]

\* The decoder after text that is stamped.
AfterText(s, stamp, text, partial) ==
    LET start == IF s.pending = <<>> THEN stamp ELSE s.start
        pending == s.pending \o text
    IN  IF partial THEN [pending |-> pending, start |-> start, lines |-> s.lines, failed |-> FALSE]
        ELSE [pending |-> <<>>, start |-> start,
              lines |-> Append(s.lines, [stamp |-> start, text |-> pending]), failed |-> FALSE]

LEMMA DecoderIs ==
    ASSUME NEW C, NEW s \in Decoders(C)
    PROVE  /\ s = [pending |-> s.pending, start |-> s.start, lines |-> s.lines, failed |-> s.failed]
           /\ s.pending \in Seq(C) /\ s.start \in Nat /\ s.lines \in Seq(JournalLines(C)) /\ s.failed \in BOOLEAN
BY DEF Decoders

LEMMA EntryIs ==
    ASSUME NEW C, NEW e \in JournalEntries(C)
    PROVE  /\ e.stamp \in Nat /\ e.message.form \in {"text", "number"} /\ e.message.text \in Seq(C)
           /\ e.partial \in BOOLEAN
<1>1. e.stamp \in Nat /\ e.message \in Messages(C) /\ e.partial \in BOOLEAN
  BY DEF JournalEntries
<1>. QED
  BY <1>1 DEF Messages

LEMMA AfterTextTyped ==
    ASSUME NEW C, NEW s \in Decoders(C), NEW stamp \in Nat, NEW text \in Seq(C), NEW partial \in BOOLEAN
    PROVE  AfterText(s, stamp, text, partial) \in Decoders(C)
<1>. DEFINE start == IF s.pending = <<>> THEN stamp ELSE s.start
            pending == s.pending \o text
            line == [stamp |-> start, text |-> pending]
            lines == Append(s.lines, line)
            T == Seq(C)
            L == Seq(JournalLines(C))
<1>1. s.pending \in T /\ s.start \in Nat /\ s.lines \in L
  BY DecoderIs
<1>2. start \in Nat /\ pending \in T /\ <<>> \in T
  BY <1>1
<1>3. line \in JournalLines(C)
  <2>. HIDE DEF start, pending
  <2>. QED
    BY <1>2 DEF JournalLines
<1>4. lines \in L
  <2>. HIDE DEF line
  <2>. QED
    BY <1>1, <1>3
<1>. HIDE DEF lines, T, L
<1>5. AfterText(s, stamp, text, partial) =
         IF partial THEN [pending |-> pending, start |-> start, lines |-> s.lines, failed |-> FALSE]
         ELSE [pending |-> <<>>, start |-> start, lines |-> lines, failed |-> FALSE]
  BY DEF AfterText, lines
<1>. HIDE DEF start, pending
<1>6. AfterText(s, stamp, text, partial) \in [pending : T, start : Nat, lines : L, failed : BOOLEAN]
  BY <1>1, <1>2, <1>4, <1>5
<1>. QED
  BY <1>6 DEF Decoders, T, L

Decoder(p, t, l, f) == [pending |-> p, start |-> t, lines |-> l, failed |-> f]

Failing(s, x) == [s EXCEPT !.failed = x]
Reading(s, x, y) == [s EXCEPT !.start = x, !.pending = y]
Writing(s, x, y) == [s EXCEPT !.lines = x, !.pending = y]

LEMMA DecoderUpdated ==
    ASSUME NEW C, NEW s \in Decoders(C), NEW x, NEW y
    PROVE  /\ Failing(s, x) = Decoder(s.pending, s.start, s.lines, x)
           /\ Reading(s, x, y) = Decoder(y, x, s.lines, s.failed)
           /\ Writing(s, x, y) = Decoder(y, s.start, x, s.failed)
<1>1. s = Decoder(s.pending, s.start, s.lines, s.failed)
  BY DecoderIs DEF Decoder
<1>2. PICK a, b, c, d : s = Decoder(a, b, c, d) /\ s.pending = a /\ s.start = b /\ s.lines = c /\ s.failed = d
  BY <1>1, Zenon
<1>3. [Decoder(a, b, c, d) EXCEPT !.failed = x] = Decoder(a, b, c, x)
  BY DEF Decoder
<1>4. [Decoder(a, b, c, d) EXCEPT !.start = x] = Decoder(a, x, c, d)
  BY DEF Decoder
<1>5. [Decoder(a, b, c, d) EXCEPT !.lines = x] = Decoder(a, b, x, d)
  BY DEF Decoder
<1>6. [Decoder(a, x, c, d) EXCEPT !.pending = y] = Decoder(y, x, c, d)
  BY DEF Decoder
<1>7. [Decoder(a, b, x, d) EXCEPT !.pending = y] = Decoder(y, b, x, d)
  BY DEF Decoder
<1>8. /\ [s EXCEPT !.start = x, !.pending = y] = [[s EXCEPT !.start = x] EXCEPT !.pending = y]
      /\ [s EXCEPT !.lines = x, !.pending = y] = [[s EXCEPT !.lines = x] EXCEPT !.pending = y]
  OBVIOUS
<1>9. [s EXCEPT !.failed = x] = Decoder(a, b, c, x)
  BY <1>2, <1>3
<1>10. [s EXCEPT !.start = x] = Decoder(a, x, c, d)
  BY <1>2, <1>4
<1>11. [s EXCEPT !.lines = x] = Decoder(a, b, x, d)
  BY <1>2, <1>5
<1>12. [s EXCEPT !.start = x, !.pending = y] = Decoder(y, x, c, d)
  BY <1>6, <1>8, <1>10
<1>13. [s EXCEPT !.lines = x, !.pending = y] = Decoder(y, b, x, d)
  BY <1>7, <1>8, <1>11
<1>. QED
  BY <1>2, <1>9, <1>12, <1>13, Zenon DEF Failing, Reading, Writing

LEMMA TakesText ==
    ASSUME NEW C, NEW s \in Decoders(C), NEW e \in JournalEntries(C)
    PROVE  TakeEntry(s, e) =
              IF s.failed THEN s
              ELSE IF e.message.form = "number" \/ (s.pending = <<>> /\ e.stamp = 0)
              THEN [pending |-> s.pending, start |-> s.start, lines |-> s.lines, failed |-> TRUE]
              ELSE AfterText(s, e.stamp, e.message.text, e.partial)
<1>. DEFINE start == IF s.pending = <<>> THEN e.stamp ELSE s.start
            text == e.message.text
            pending == s.pending \o text
            read == Decoder(pending, start, s.lines, s.failed)
<1>1. /\ s = [pending |-> s.pending, start |-> s.start, lines |-> s.lines, failed |-> s.failed]
      /\ s.failed \in BOOLEAN
  BY DecoderIs
<1>2. e.message.form \in {"text", "number"}
  BY EntryIs
<1>3. JournalMessage(e.message) = text
  BY <1>2 DEF JournalMessage
<1>4. [s EXCEPT !.start = IF s.pending = <<>> THEN e.stamp ELSE @,
                !.pending = @ \o JournalMessage(e.message)] = read
  <2>1. Reading(s, start, pending) = read
    <3>. HIDE DEF start, pending
    <3>. QED
      BY DecoderUpdated, Zenon
  <2>. QED
    BY <1>3, <2>1, Zenon DEF Reading
<1>5. [s EXCEPT !.failed = TRUE] = [pending |-> s.pending, start |-> s.start, lines |-> s.lines, failed |-> TRUE]
  BY DecoderUpdated, Zenon DEF Decoder, Failing
<1>6. TakeEntry(s, e) =
         IF s.failed THEN s
         ELSE IF ~MessageReads(e.message) \/ (s.pending = <<>> /\ ~JournalTimeReads(e.stamp))
              THEN [s EXCEPT !.failed = TRUE]
              ELSE IF e.partial THEN read ELSE Flush(read)
  BY <1>4 DEF TakeEntry
<1>7. MessageReads(e.message) <=> e.message.form # "number"
  BY <1>2 DEF MessageReads
<1>8. JournalTimeReads(e.stamp) <=> e.stamp # 0
  BY DEF JournalTimeReads
<1>9. Flush(read) = [pending |-> <<>>, start |-> start,
                     lines |-> Append(s.lines, [stamp |-> start, text |-> pending]), failed |-> s.failed]
  <2>1. read.lines = s.lines /\ read.start = start /\ read.pending = pending
    BY DEF Decoder
  <2>2. Flush(read) = Writing(read, Append(s.lines, [stamp |-> start, text |-> pending]), <<>>)
    BY <2>1, Zenon DEF Flush, Writing
  <2>3. read \in Decoders(C) /\ read.failed = s.failed
    <3>1. start \in Nat /\ pending \in Seq(C) /\ s.lines \in Seq(JournalLines(C)) /\ s.failed \in BOOLEAN
      BY DecoderIs, EntryIs
    <3>. HIDE DEF start, pending
    <3>. QED
      BY <3>1 DEF Decoder, Decoders
  <2>. HIDE DEF start, pending, read
  <2>4. Writing(read, Append(s.lines, [stamp |-> start, text |-> pending]), <<>>) =
           Decoder(<<>>, read.start, Append(s.lines, [stamp |-> start, text |-> pending]), read.failed)
    BY <2>3, DecoderUpdated, Zenon
  <2>. QED
    BY <2>1, <2>2, <2>3, <2>4, Zenon DEF Decoder
<1>10. ~s.failed => AfterText(s, e.stamp, text, e.partial) = IF e.partial THEN read ELSE Flush(read)
  <2>1. ~s.failed => s.failed = FALSE
    BY <1>1
  <2>2. AfterText(s, e.stamp, text, e.partial) =
           IF e.partial THEN [pending |-> pending, start |-> start, lines |-> s.lines, failed |-> FALSE]
           ELSE [pending |-> <<>>, start |-> start,
                 lines |-> Append(s.lines, [stamp |-> start, text |-> pending]), failed |-> FALSE]
    BY DEF AfterText
  <2>. HIDE DEF pending, start
  <2>. QED
    BY <1>9, <2>1, <2>2 DEF Decoder
<1>. HIDE DEF read, start
<1>. QED
  BY <1>5, <1>6, <1>7, <1>8, <1>10

LEMMA TakesTyped ==
    ASSUME NEW C, NEW s \in Decoders(C), NEW e \in JournalEntries(C)
    PROVE  TakeEntry(s, e) \in Decoders(C)
<1>1. e.stamp \in Nat /\ e.message.text \in Seq(C) /\ e.partial \in BOOLEAN
  BY EntryIs
<1>2. AfterText(s, e.stamp, e.message.text, e.partial) \in Decoders(C)
  BY <1>1, AfterTextTyped
<1>3. [pending |-> s.pending, start |-> s.start, lines |-> s.lines, failed |-> TRUE] \in Decoders(C)
  BY DEF Decoders
<1>. QED
  BY <1>2, <1>3, TakesText

LEMMA OpenedTyped == \A C : Opened \in Decoders(C)
<1>. TAKE C
<1>1. <<>> \in Seq(C) /\ <<>> \in Seq(JournalLines(C)) /\ 0 \in Nat /\ FALSE \in BOOLEAN
  OBVIOUS
<1>. QED
  BY <1>1 DEF Opened, Decoders

\* The decoders that the fold over the entries passes through.
Decodes(h, e) ==
    /\ h[0] = Opened
    /\ \A k \in 1..Len(e) : h[k] = TakeEntry(h[k - 1], e[k])

LEMMA EntriesDecoded ==
    ASSUME NEW C, NEW e \in Seq(JournalEntries(C))
    PROVE  \E h \in [0..Len(e) -> Decoders(C)] :
              Decodes(h, e) /\ h[Len(e)] = FoldLeft(TakeEntry, Opened, e)
<1>. DEFINE n == Len(e)
            A == Decoders(C)
            F == [p \in A \X (1..n) |-> TakeEntry(p[1], e[p[2]])]
            Computes(g) ==
               g = [d \in SUBSET (1..n) |->
                       IF d = {} THEN Opened ELSE TakeEntry(g[d \ {Max(d)}], e[Max(d)])]
            iter == CHOOSE g : Computes(g)
<1>0. Opened \in A
  BY OpenedTyped
<1>1. n \in Nat /\ DOMAIN e = 1..n /\ \A i \in 1..n : e[i] \in JournalEntries(C)
  <2>. DEFINE V == JournalEntries(C)
  <2>. HIDE DEF V
  <2>1. e \in Seq(V)
    BY DEF V
  <2>2. n \in Nat /\ DOMAIN e = 1..n /\ \A i \in 1..n : e[i] \in V
    BY <2>1
  <2>. QED
    BY <2>2 DEF V
<1>2. F \in [A \X (1..n) -> A] /\ \A a \in A, i \in 1..n : F[<<a, i>>] = TakeEntry(a, e[i])
  <2>1. \A a \in A, i \in 1..n : TakeEntry(a, e[i]) \in A
    BY <1>1, TakesTyped
  <2>. HIDE DEF n, A
  <2>. QED
    BY <2>1
<1>3. FoldLeft(TakeEntry, Opened, e) = iter[1..n]
  BY <1>1 DEF FoldLeft, MapThenFoldSet
<1>. HIDE DEF F, n, A
<1>4. Computes(iter)
  <2>1. PICK g \in [SUBSET (1..n) -> A] : Folds(g, n, Opened, F)
    BY <1>0, <1>1, <1>2, FoldExists
  <2>2. ASSUME NEW d \in SUBSET (1..n), d # {}
        PROVE  F[<<g[d \ {Max(d)}], Max(d)>>] = TakeEntry(g[d \ {Max(d)}], e[Max(d)])
    <3>1. Max(d) \in 1..n
      BY <1>1, <2>2, LargestPosition
    <3>2. g[d \ {Max(d)}] \in A
      BY <2>1
    <3>. QED
      BY <1>2, <3>1, <3>2
  <2>3. Computes(g)
    BY <2>1, <2>2 DEF Folds
  <2>. HIDE DEF Computes
  <2>. QED
    BY <2>3
<1>. HIDE DEF iter
<1>5. iter[1..0] = Opened
  <2>1. 1..0 = {} /\ {} \in SUBSET (1..n)
    OBVIOUS
  <2>. QED
    BY <1>4, <2>1
<1>6. ASSUME NEW k \in 0..(n - 1), iter[1..k] \in A
      PROVE  iter[1..(k + 1)] = F[<<iter[1..k], k + 1>>]
  <2>. DEFINE d == 1..(k + 1)
  <2>1. d \in SUBSET (1..n) /\ d # {} /\ Max(d) = k + 1 /\ d \ {Max(d)} = 1..k
    BY <1>1, IntervalTop
  <2>. HIDE DEF d
  <2>2. iter[d] = TakeEntry(iter[d \ {Max(d)}], e[Max(d)])
    BY <1>4, <2>1
  <2>3. k + 1 \in 1..n
    BY <1>1
  <2>. QED
    BY <1>2, <1>6, <2>1, <2>2, <2>3 DEF d
<1>. HIDE DEF Computes
<1>7. PICK t \in [0..n -> A] :
         /\ t[0] = Opened /\ t[n] = iter[1..n]
         /\ \A k \in 1..n : t[k] = F[<<t[k - 1], k>>]
  <2>1. Follows(iter, A, n, Opened, F)
    BY <1>5, <1>6 DEF Follows
  <2>2. PICK h \in [0..n -> A] : Walk(h, iter, n, Opened, F)
    BY <1>0, <1>1, <1>2, <2>1, Walks
  <2>. QED
    BY <2>2 DEF Walk
<1>8. \A k \in 1..n : t[k] = TakeEntry(t[k - 1], e[k])
  <2>1. \A k \in 1..n : t[k - 1] \in A
    BY <1>1, <1>7
  <2>. QED
    BY <1>2, <1>7, <2>1
<1>9. Decodes(t, e) /\ t[n] = FoldLeft(TakeEntry, Opened, e)
  BY <1>3, <1>7, <1>8 DEF Decodes, n
<1>. QED
  BY <1>7, <1>9 DEF n, A

\* The decoders that the entries in the window pass through.
DecodesWithin(h, e, window) ==
    /\ h[0] = Opened
    /\ \A k \in 1..Len(e) :
          h[k] = IF InWindow(e[k].stamp, window) THEN TakeEntry(h[k - 1], e[k]) ELSE h[k - 1]

LEMMA PartTyped ==
    ASSUME NEW V, NEW n \in Nat, NEW e \in [1..n -> V], NEW K,
           NEW b, b = [i \in 1..n |-> IF i \in K THEN <<e[i]>> ELSE <<>>]
    PROVE  b \in Seq(Seq(V)) /\ Len(b) = n
<1>. DEFINE Q == Seq(V)
<1>1. \A i \in 1..n : <<e[i]>> \in Q /\ <<>> \in Q
  OBVIOUS
<1>. HIDE DEF Q
<1>2. b \in [1..n -> Q]
  BY <1>1
<1>3. b \in Seq(Q) /\ Len(b) = n
  BY <1>2, BytesOfTuple
<1>. QED
  BY <1>3 DEF Q

LEMMA WindowDecoded ==
    ASSUME NEW C, NEW e \in Seq(JournalEntries(C)), NEW window
    PROVE  \E h \in [0..Len(e) -> Decoders(C)] :
              DecodesWithin(h, e, window) /\ h[Len(e)] = FoldLeft(TakeEntry, Opened, JournalCommand(e, window))
<1>. DEFINE n == Len(e)
            V == JournalEntries(C)
            A == Decoders(C)
            K == {i \in 1..n : InWindow(e[i].stamp, window)}
            b == [i \in 1..n |-> IF i \in K THEN <<e[i]>> ELSE <<>>]
<1>1. n \in Nat /\ DOMAIN e = 1..n /\ e \in [1..n -> V]
  <2>. HIDE DEF V
  <2>1. e \in Seq(V)
    BY DEF V
  <2>. QED
    BY <2>1
<1>2. JournalCommand(e, window) = FlattenSeq(b)
  <2>1. [i \in DOMAIN e |-> IF InWindow(e[i].stamp, window) THEN <<e[i]>> ELSE <<>>] = b
    <3>. HIDE DEF n
    <3>. QED
      BY <1>1
  <2>. QED
    BY <2>1, Zenon DEF JournalCommand
<1>. HIDE DEF V, A, n
<1>3. b \in Seq(Seq(V)) /\ Len(b) = n
  <2>. HIDE DEF K
  <2>. QED
    BY <1>1, PartTyped
<1>4. \A i \in 1..n : b[i] = IF i \in K THEN <<e[i]>> ELSE <<>>
  OBVIOUS
<1>. HIDE DEF b
<1>5. PICK c \in [0..n -> Seq(V)] : Concatenates(c, b) /\ c[n] = FlattenSeq(b)
  <2>1. \E c \in [0..Len(b) -> Seq(V)] : Concatenates(c, b) /\ c[Len(b)] = FlattenSeq(b)
    BY <1>3, Flattened
  <2>. QED
    BY <1>3, <2>1
<1>. DEFINE whole == c[n]
            m == Len(whole)
<1>6. whole \in Seq(V) /\ m \in Nat
  <2>1. n \in 0..n
    BY <1>1
  <2>2. c[n] \in Seq(V)
    BY <1>5, <2>1
  <2>. QED
    BY <2>2
<1>7. \A i \in 1..n : /\ StandsIn(whole, Len(c[i - 1]), b[i]) /\ Len(c[i]) = Len(c[i - 1]) + Len(b[i])
                      /\ Len(c[i - 1]) \in Nat
  <2>1. c \in [0..Len(b) -> Seq(V)] /\ Concatenates(c, b) /\ c[Len(b)] = whole
    BY <1>3, <1>5
  <2>2. \A i \in 1..Len(b) : /\ StandsIn(c[Len(b)], Len(c[i - 1]), b[i])
                             /\ c[i - 1] \in Seq(V) /\ b[i] \in Seq(V) /\ c[i] = c[i - 1] \o b[i]
                             /\ Len(c[i]) = Len(c[i - 1]) + Len(b[i])
    BY <1>3, <2>1, AllStand
  <2>. HIDE DEF whole
  <2>. QED
    BY <1>3, <2>1, <2>2
<1>. HIDE DEF whole
<1>8. PICK g \in [0..m -> A] : Decodes(g, whole) /\ g[m] = FoldLeft(TakeEntry, Opened, whole)
  <2>1. whole \in Seq(JournalEntries(C))
    BY <1>6 DEF V
  <2>. QED
    BY <2>1, EntriesDecoded DEF A
<1>. HIDE DEF m
<1>9. \A i \in 1..n : /\ i \in K => /\ Len(c[i]) = Len(c[i - 1]) + 1 /\ Len(c[i - 1]) + 1 \in 1..m
                                    /\ whole[Len(c[i - 1]) + 1] = e[i]
                      /\ i \notin K => Len(c[i]) = Len(c[i - 1])
                      /\ Len(c[i]) \in 0..m
  <2>. TAKE i \in 1..n
  <2>. DEFINE o == Len(c[i - 1])
  <2>1. StandsIn(whole, o, b[i]) /\ Len(c[i]) = o + Len(b[i]) /\ o \in Nat
    BY <1>7
  <2>2. o + Len(b[i]) <= m /\ \A j \in 1..Len(b[i]) : whole[o + j] = b[i][j]
    BY <2>1 DEF StandsIn, m
  <2>. HIDE DEF o
  <2>3. CASE i \in K
    <3>1. b[i] = <<e[i]>>
      BY <1>4, <2>3
    <3>2. Len(b[i]) = 1 /\ b[i][1] = e[i] /\ 1 \in 1..1
      BY <3>1
    <3>3. whole[o + 1] = e[i]
      BY <2>2, <3>2
    <3>4. o + 1 \in 1..m /\ Len(c[i]) = o + 1
      BY <1>6, <2>1, <2>2, <3>2
    <3>5. Len(c[i]) \in 0..m
      BY <1>6, <3>4
    <3>. QED
      BY <2>3, <3>3, <3>4, <3>5 DEF o
  <2>4. CASE i \notin K
    <3>1. b[i] = <<>>
      BY <1>4, <2>4
    <3>2. Len(b[i]) = 0
      BY <3>1
    <3>3. Len(c[i]) = o /\ o \in 0..m
      BY <1>6, <2>1, <2>2, <3>2
    <3>. QED
      BY <2>4, <3>3 DEF o
  <2>. QED
    BY <2>3, <2>4
<1>10. \A i \in 0..n : Len(c[i]) \in 0..m
  <2>. TAKE i \in 0..n
  <2>1. CASE i = 0
    <3>1. c[0] = <<>> /\ Len(<<>>) = 0
      BY <1>5 DEF Concatenates
    <3>. QED
      BY <1>6, <2>1, <3>1
  <2>2. CASE i # 0
    <3>1. i \in 1..n
      BY <1>1, <2>2
    <3>. QED
      BY <1>9, <3>1
  <2>. QED
    BY <2>1, <2>2
<1>. DEFINE h == [i \in 0..n |-> g[Len(c[i])]]
<1>11. h \in [0..n -> A]
  BY <1>8, <1>10
<1>12. h[0] = Opened
  <2>1. c[0] = <<>> /\ Len(<<>>) = 0 /\ 0 \in 0..n
    BY <1>1, <1>5 DEF Concatenates
  <2>. QED
    BY <1>8, <2>1 DEF Decodes
<1>13. ASSUME NEW k \in 1..n
       PROVE  h[k] = IF InWindow(e[k].stamp, window) THEN TakeEntry(h[k - 1], e[k]) ELSE h[k - 1]
  <2>1. k \in 0..n /\ k - 1 \in 0..n
    BY <1>1
  <2>2. h[k] = g[Len(c[k])] /\ h[k - 1] = g[Len(c[k - 1])]
    BY <2>1
  <2>3. k \in K <=> InWindow(e[k].stamp, window)
    BY DEF K
  <2>. DEFINE o == Len(c[k - 1])
  <2>. HIDE DEF h
  <2>4. CASE k \in K
    <3>1. Len(c[k]) = o + 1 /\ o + 1 \in 1..m /\ whole[o + 1] = e[k] /\ o \in 0..m
      BY <1>9, <1>10, <2>1, <2>4
    <3>2. o + 1 \in 1..Len(whole) /\ (o + 1) - 1 = o
      BY <3>1 DEF m
    <3>3. g[o + 1] = TakeEntry(g[(o + 1) - 1], whole[o + 1])
      BY <1>8, <3>2 DEF Decodes
    <3>. QED
      BY <2>2, <2>3, <2>4, <3>1, <3>2, <3>3
  <2>5. CASE k \notin K
    BY <1>9, <2>2, <2>3, <2>5
  <2>. QED
    BY <2>4, <2>5
<1>14. h[n] = FoldLeft(TakeEntry, Opened, JournalCommand(e, window))
  <2>1. n \in 0..n
    BY <1>1
  <2>2. h[n] = g[m]
    BY <2>1 DEF m, whole
  <2>. QED
    BY <1>2, <1>5, <1>8, <2>2 DEF whole
<1>. HIDE DEF h
<1>15. DecodesWithin(h, e, window)
  BY <1>12, <1>13 DEF DecodesWithin, n
<1>. QED
  BY <1>11, <1>14, <1>15 DEF n, A

\* An entry that does not read is the end of it.
LEMMA DamageFails ==
    ASSUME NEW C, NEW e \in Seq(JournalEntries(C)), NEW window,
           NEW h \in [0..Len(e) -> Decoders(C)], DecodesWithin(h, e, window),
           NEW b \in 1..Len(e), InWindow(e[b].stamp, window), e[b].message.form = "number"
    PROVE  h[Len(e)].failed
<1>. DEFINE n == Len(e)
            V == JournalEntries(C)
            A == Decoders(C)
            U == {k \in Nat : b + k <= n => h[b + k].failed}
<1>1. n \in Nat /\ b \in 1..n /\ \A i \in 1..n : e[i] \in JournalEntries(C)
  <2>. HIDE DEF V
  <2>1. e \in Seq(V)
    BY DEF V
  <2>2. n \in Nat /\ \A i \in 1..n : e[i] \in V
    BY <2>1
  <2>. QED
    BY <2>2 DEF V
<1>2. \A i \in 1..n : h[i - 1] \in Decoders(C)
  <2>1. \A i \in 1..n : i - 1 \in 0..n
    BY <1>1
  <2>. HIDE DEF A, n
  <2>2. h \in [0..n -> A]
    BY DEF A, n
  <2>3. \A i \in 1..n : h[i - 1] \in A
    BY <2>1, <2>2
  <2>. QED
    BY <2>3 DEF A
<1>3. h[b].failed
  <2>1. h[b] = TakeEntry(h[b - 1], e[b])
    BY <1>1 DEF DecodesWithin
  <2>2. TakeEntry(h[b - 1], e[b]) =
           IF h[b - 1].failed THEN h[b - 1]
           ELSE [pending |-> h[b - 1].pending, start |-> h[b - 1].start, lines |-> h[b - 1].lines, failed |-> TRUE]
    BY <1>1, <1>2, TakesText
  <2>. QED
    BY <2>1, <2>2
<1>. HIDE DEF n
<1>4. 0 \in U
  <2>1. b + 0 = b
    BY <1>1
  <2>. QED
    BY <1>3, <2>1
<1>5. ASSUME NEW k \in U
      PROVE  k + 1 \in U
  <2>. SUFFICES ASSUME b + (k + 1) <= n PROVE h[b + (k + 1)].failed
    OBVIOUS
  <2>. DEFINE i == b + (k + 1)
  <2>1. k \in Nat /\ b + k <= n /\ i \in 1..n /\ i - 1 = b + k
    BY <1>1
  <2>2. h[b + k].failed
    BY <2>1
  <2>. HIDE DEF i
  <2>3. h[i] = h[i - 1] \/ h[i] = TakeEntry(h[i - 1], e[i])
    BY <2>1 DEF DecodesWithin, n
  <2>4. TakeEntry(h[i - 1], e[i]) = h[i - 1]
    BY <1>1, <1>2, <2>1, <2>2, TakesText
  <2>5. h[i].failed
    BY <2>1, <2>2, <2>3, <2>4
  <2>. QED
    BY <2>5 DEF i
<1>6. U = Nat
  <2>1. U \in SUBSET Nat
    OBVIOUS
  <2>. HIDE DEF U
  <2>. QED
    BY <1>4, <1>5, <2>1, SetInduction
<1>7. n - b \in U /\ b + (n - b) = n
  <2>1. n - b \in Nat /\ b + (n - b) = n
    BY <1>1
  <2>. HIDE DEF U
  <2>. QED
    BY <1>6, <2>1
<1>. QED
  BY <1>7 DEF n

DamagedOne(entry) == [entry EXCEPT !.message.form = "number"]

LEMMA DamageOfOne ==
    ASSUME NEW C, NEW e \in JournalEntries(C)
    PROVE  /\ DamagedOne(e) \in JournalEntries(C) /\ DamagedOne(e).stamp = e.stamp
           /\ DamagedOne(e).message.form = "number"
<1>. DEFINE M == Messages(C)
            d == [e.message EXCEPT !.form = "number"]
<1>1. e \in [stamp : Nat, message : M, partial : BOOLEAN]
  BY DEF JournalEntries
<1>2. e.message \in [form : {"text", "number"}, text : Seq(C)]
  BY <1>1 DEF Messages
<1>3. d \in [form : {"text", "number"}, text : Seq(C)] /\ d.form = "number"
  BY <1>2
<1>4. d \in M
  BY <1>3 DEF Messages
<1>5. DamagedOne(e) = [e EXCEPT !.message = d]
  BY DEF DamagedOne
<1>. HIDE DEF M, d
<1>6. DamagedOne(e) \in [stamp : Nat, message : M, partial : BOOLEAN]
  BY <1>1, <1>4, <1>5
<1>7. DamagedOne(e).stamp = e.stamp /\ DamagedOne(e).message = d
  BY <1>1, <1>5
<1>. QED
  BY <1>3, <1>6, <1>7 DEF JournalEntries, M

\* Lines that the log driver split: a part that is not the last of its line fills
\* the driver's buffer.
SplitLines(C) ==
    {line \in [stamps : Seq(Nat), parts : Seq(Seq(C))] :
        /\ Len(line.stamps) = Len(line.parts) /\ Len(line.parts) >= 1
        /\ \A k \in 1..(Len(line.parts) - 1) : line.parts[k] # <<>>}

LEMMA FirstIs ==
    ASSUME NEW line, NEW n \in Nat, DOMAIN line.parts = 1..n, NEW window, Within(line, window) # {}
    PROVE  LET f == FirstWithin(line, window)
           IN  f \in Within(line, window) /\ \A j \in Within(line, window) : f <= j
<1>. DEFINE K == Within(line, window)
            Least(k) == \A j \in K : k <= j
<1>1. K \in SUBSET (1..n)
  BY DEF Within
<1>2. FirstWithin(line, window) = CHOOSE k \in K : Least(k)
  BY DEF FirstWithin
<1>3. \E k \in K : Least(k)
  <2>1. K # {}
    OBVIOUS
  <2>. HIDE DEF K
  <2>2. \E k \in K : \A j \in K : k <= j
    BY <1>1, <2>1, SmallestPosition
  <2>. QED
    BY <2>2
<1>. HIDE DEF Least
<1>4. FirstWithin(line, window) \in K /\ Least(FirstWithin(line, window))
  BY <1>2, <1>3
<1>. QED
  BY <1>4 DEF Least

\* The parts of a line in the window, and the decoders that they pass through.
PartsWithin(line, window) ==
    [k \in DOMAIN line.parts |-> IF k \in Within(line, window) THEN line.parts[k] ELSE <<>>]

DecodesLine(g, line, window) ==
    \A k \in 1..Len(line.parts) :
       g[k] = IF k \in Within(line, window) THEN TakeEntry(g[k - 1], EntriesOf(line)[k]) ELSE g[k - 1]

LEMMA LineIs ==
    ASSUME NEW C, NEW line \in SplitLines(C)
    PROVE  /\ Len(line.parts) \in Nat \ {0} /\ DOMAIN line.parts = 1..Len(line.parts)
           /\ \A k \in 1..Len(line.parts) : line.parts[k] \in Seq(C) /\ line.stamps[k] \in Nat
           /\ \A k \in 1..(Len(line.parts) - 1) : line.parts[k] # <<>>
<1>. DEFINE p == Len(line.parts)
            Q == Seq(C)
<1>1. line.stamps \in Seq(Nat) /\ line.parts \in Seq(Q) /\ Len(line.stamps) = p /\ p >= 1
  BY DEF SplitLines
<1>2. p \in Nat \ {0} /\ DOMAIN line.parts = 1..p
  <2>. HIDE DEF Q
  <2>. QED
    BY <1>1
<1>3. \A k \in 1..p : line.parts[k] \in Q
  <2>. HIDE DEF Q
  <2>. QED
    BY <1>1, <1>2
<1>4. \A k \in 1..p : line.stamps[k] \in Nat
  <2>. HIDE DEF p
  <2>. QED
    BY <1>1
<1>. QED
  BY <1>2, <1>3, <1>4 DEF SplitLines

LEMMA EntryOfPart ==
    ASSUME NEW C, NEW line \in SplitLines(C), NEW k \in 1..Len(line.parts)
    PROVE  /\ EntriesOf(line)[k] \in JournalEntries(C)
           /\ EntriesOf(line)[k].stamp = line.stamps[k] /\ EntriesOf(line)[k].message.form = "text"
           /\ EntriesOf(line)[k].message.text = line.parts[k]
           /\ EntriesOf(line)[k].partial = (k < Len(line.parts))
<1>. DEFINE message == [form |-> "text", text |-> line.parts[k]]
            e == [stamp |-> line.stamps[k], message |-> message, partial |-> k < Len(line.parts)]
<1>1. line.parts[k] \in Seq(C) /\ line.stamps[k] \in Nat /\ DOMAIN line.parts = 1..Len(line.parts)
  BY LineIs
<1>2. EntriesOf(line)[k] = e
  BY <1>1 DEF EntriesOf
<1>3. message \in Messages(C)
  BY <1>1 DEF Messages
<1>4. message.form = "text" /\ message.text = line.parts[k]
  OBVIOUS
<1>5. (k < Len(line.parts)) \in BOOLEAN
  OBVIOUS
<1>. HIDE DEF message
<1>6. e \in JournalEntries(C)
  BY <1>1, <1>3, <1>5 DEF JournalEntries
<1>7. e.stamp = line.stamps[k] /\ e.message = message /\ e.partial = (k < Len(line.parts))
  OBVIOUS
<1>. HIDE DEF e
<1>. QED
  BY <1>2, <1>4, <1>6, <1>7

\* The decoder between two parts of a line that began in the state s.
BetweenParts(s, d, text, line, window, k) ==
    IF Within(line, window) \cap 1..k = {} THEN d = s /\ text = <<>>
    ELSE text # <<>> /\ d = Decoder(text, line.stamps[FirstWithin(line, window)], s.lines, FALSE)

\* The decoder after a part.
AfterPart(s, text, line, window, partial) ==
    LET stamp == line.stamps[FirstWithin(line, window)]
    IN  IF partial THEN Decoder(text, stamp, s.lines, FALSE)
        ELSE Decoder(<<>>, stamp, Append(s.lines, [stamp |-> stamp, text |-> text]), FALSE)

LEMMA OneMorePart ==
    ASSUME NEW C, NEW line \in SplitLines(C), NEW window, NEW s \in Decoders(C), s.pending = <<>>, ~s.failed,
           NEW d \in Decoders(C), NEW text \in Seq(C), NEW k \in 0..(Len(line.parts) - 1),
           BetweenParts(s, d, text, line, window, k),
           k + 1 \in Within(line, window), line.stamps[k + 1] # 0
    PROVE  TakeEntry(d, EntriesOf(line)[k + 1]) =
              AfterPart(s, text \o line.parts[k + 1], line, window, k + 1 < Len(line.parts))
<1>. DEFINE p == Len(line.parts)
            K == Within(line, window)
            f == FirstWithin(line, window)
            e == EntriesOf(line)[k + 1]
            stamp == line.stamps[f]
            part == line.parts[k + 1]
            both == text \o part
            partial == k + 1 < p
<1>1. p \in Nat \ {0} /\ DOMAIN line.parts = 1..p /\ k \in Nat /\ k + 1 \in 1..p
  BY LineIs
<1>2. /\ e \in JournalEntries(C) /\ e.stamp = line.stamps[k + 1] /\ e.message.form = "text"
      /\ e.message.text = part /\ e.partial = partial
  <2>. HIDE DEF p
  <2>. QED
    BY <1>1, EntryOfPart DEF p
<1>3. part \in Seq(C)
  BY <1>1, LineIs
<1>4. f \in K /\ \A j \in K : f <= j
  BY <1>1, FirstIs
<1>5. K \in SUBSET (1..p) /\ k + 1 \in K
  BY <1>1 DEF Within
<1>. HIDE DEF K, f, e, p, part, partial
<1>6. ~d.failed /\ ~(d.pending = <<>> /\ e.stamp = 0)
  <2>1. CASE K \cap 1..k = {}
    <3>1. d = s
      BY <2>1 DEF BetweenParts, K
    <3>. QED
      BY <1>2, <3>1
  <2>2. CASE K \cap 1..k # {}
    <3>1. text # <<>> /\ d = Decoder(text, stamp, s.lines, FALSE)
      BY <2>2 DEF BetweenParts, K, f
    <3>2. d.pending = text /\ d.failed = FALSE
      BY <3>1 DEF Decoder
    <3>. QED
      BY <3>1, <3>2
  <2>. QED
    BY <2>1, <2>2
<1>7. TakeEntry(d, e) = AfterText(d, e.stamp, part, partial)
  <2>1. TakeEntry(d, e) =
           IF d.failed THEN d
           ELSE IF e.message.form = "number" \/ (d.pending = <<>> /\ e.stamp = 0)
           THEN [pending |-> d.pending, start |-> d.start, lines |-> d.lines, failed |-> TRUE]
           ELSE AfterText(d, e.stamp, e.message.text, e.partial)
    BY <1>2, TakesText
  <2>. QED
    BY <1>2, <1>6, <2>1
<1>8. (IF d.pending = <<>> THEN e.stamp ELSE d.start) = stamp /\ d.pending \o part = both /\ d.lines = s.lines
  <2>1. CASE K \cap 1..k = {}
    <3>1. d = s /\ text = <<>>
      BY <2>1 DEF BetweenParts, K
    <3>2. f = k + 1
      <4>1. f \in 1..p /\ f <= k + 1 /\ f \notin 1..k
        BY <1>4, <1>5, <2>1
      <4>. QED
        BY <1>1, <4>1
    <3>. QED
      BY <1>2, <3>1, <3>2
  <2>2. CASE K \cap 1..k # {}
    <3>1. text # <<>> /\ d = Decoder(text, stamp, s.lines, FALSE)
      BY <2>2 DEF BetweenParts, K, f
    <3>2. d.pending = text /\ d.start = stamp /\ d.lines = s.lines
      BY <3>1 DEF Decoder
    <3>. QED
      BY <3>1, <3>2
  <2>. QED
    BY <2>1, <2>2
<1>. HIDE DEF both, stamp
<1>9. AfterText(d, e.stamp, part, partial) =
         IF partial THEN Decoder(both, stamp, s.lines, FALSE)
         ELSE Decoder(<<>>, stamp, Append(s.lines, [stamp |-> stamp, text |-> both]), FALSE)
  <2>1. AfterText(d, e.stamp, part, partial) =
           LET start == IF d.pending = <<>> THEN e.stamp ELSE d.start
               pending == d.pending \o part
           IN  IF partial THEN Decoder(pending, start, d.lines, FALSE)
               ELSE Decoder(<<>>, start, Append(d.lines, [stamp |-> start, text |-> pending]), FALSE)
    BY DEF AfterText, Decoder
  <2>. QED
    BY <1>8, <2>1, Zenon
<1>10. AfterPart(s, both, line, window, partial) =
          IF partial THEN Decoder(both, stamp, s.lines, FALSE)
          ELSE Decoder(<<>>, stamp, Append(s.lines, [stamp |-> stamp, text |-> both]), FALSE)
  BY DEF AfterPart, stamp, f
<1>. QED
  BY <1>7, <1>9, <1>10 DEF both, e, part, partial, p

LEMMA NothingDecoded ==
    ASSUME NEW C, NEW line \in SplitLines(C), NEW window, NEW g, DecodesLine(g, line, window),
           Within(line, window) = {}
    PROVE  g[Len(line.parts)] = g[0]
<1>. DEFINE p == Len(line.parts)
            U == {k \in Nat : k <= p => g[k] = g[0]}
<1>1. p \in Nat
  BY LineIs
<1>2. \A k \in 1..p : g[k] = g[k - 1]
  BY DEF DecodesLine
<1>. HIDE DEF p
<1>3. 0 \in U
  OBVIOUS
<1>4. ASSUME NEW k \in U
      PROVE  k + 1 \in U
  <2>. SUFFICES ASSUME k + 1 <= p PROVE g[k + 1] = g[0]
    OBVIOUS
  <2>1. k + 1 \in 1..p /\ (k + 1) - 1 = k /\ g[k] = g[0]
    BY <1>1
  <2>. QED
    BY <1>2, <2>1
<1>5. U = Nat
  <2>1. U \in SUBSET Nat
    OBVIOUS
  <2>. HIDE DEF U
  <2>. QED
    BY <1>3, <1>4, <2>1, SetInduction
<1>6. p \in U
  BY <1>1, <1>5
<1>. QED
  BY <1>1, <1>6 DEF p

\* The decoder after a line.
AfterLine(s, d, line, window) ==
    LET K == Within(line, window)
        text == TextWithin(line, window)
        stamp == line.stamps[FirstWithin(line, window)]
    IN  IF K = {} THEN d = s
        ELSE IF Len(line.parts) \in K
        THEN d = Decoder(<<>>, stamp, Append(s.lines, [stamp |-> stamp, text |-> text]), FALSE)
        ELSE text # <<>> /\ d = Decoder(text, stamp, s.lines, FALSE)

LEMMA PartsWithinTyped ==
    ASSUME NEW C, NEW line \in SplitLines(C), NEW window
    PROVE  /\ PartsWithin(line, window) \in Seq(Seq(C)) /\ Len(PartsWithin(line, window)) = Len(line.parts)
           /\ \A k \in 1..Len(line.parts) :
                 PartsWithin(line, window)[k] = IF k \in Within(line, window) THEN line.parts[k] ELSE <<>>
<1>. DEFINE p == Len(line.parts)
            Q == Seq(C)
            b == PartsWithin(line, window)
<1>1. p \in Nat /\ DOMAIN line.parts = 1..p /\ (\A k \in 1..p : line.parts[k] \in Q) /\ <<>> \in Q
  BY LineIs
<1>2. b = [k \in 1..p |-> IF k \in Within(line, window) THEN line.parts[k] ELSE <<>>]
  <2>. HIDE DEF p
  <2>. QED
    BY <1>1 DEF PartsWithin
<1>. HIDE DEF p, b, Q
<1>3. b \in [1..p -> Q]
  BY <1>1, <1>2
<1>4. b \in Seq(Q) /\ Len(b) = p
  BY <1>1, <1>3, BytesOfTuple
<1>. QED
  BY <1>2, <1>4 DEF p, b, Q

LEMMA NotEmptied ==
    ASSUME NEW C, NEW a \in Seq(C), NEW b \in Seq(C), b # <<>>
    PROVE  a \o b # <<>>
OBVIOUS

LEMMA LineTaken ==
    ASSUME NEW C, NEW line \in SplitLines(C), NEW window,
           NEW g \in [0..Len(line.parts) -> Decoders(C)], DecodesLine(g, line, window),
           g[0].pending = <<>>, ~g[0].failed,
           \A k \in Within(line, window) : line.stamps[k] # 0
    PROVE  AfterLine(g[0], g[Len(line.parts)], line, window)
<1>. DEFINE p == Len(line.parts)
            K == Within(line, window)
            Q == Seq(C)
            b == PartsWithin(line, window)
            s == g[0]
            D == Decoders(C)
            stamp == line.stamps[FirstWithin(line, window)]
<1>1. /\ p \in Nat \ {0} /\ DOMAIN line.parts = 1..p /\ (\A k \in 1..p : line.parts[k] \in Q)
      /\ \A k \in 1..(p - 1) : line.parts[k] # <<>>
  BY LineIs
<1>2. K \in SUBSET (1..p)
  BY <1>1 DEF Within
<1>3. b \in Seq(Seq(C)) /\ Len(b) = p /\ \A k \in 1..p : b[k] = IF k \in K THEN line.parts[k] ELSE <<>>
  BY PartsWithinTyped
<1>4. PICK t \in [0..p -> Q] : Concatenates(t, b) /\ t[p] = FlattenSeq(b)
  <2>. HIDE DEF b, p
  <2>1. \E t \in [0..Len(b) -> Seq(C)] : Concatenates(t, b) /\ t[Len(b)] = FlattenSeq(b)
    BY <1>3, Flattened
  <2>. QED
    BY <1>3, <2>1
<1>5. t[p] = TextWithin(line, window)
  BY <1>4 DEF TextWithin, PartsWithin
<1>6. s \in D /\ \A k \in 0..p : g[k] \in D /\ t[k] \in Q
  <2>1. 0 \in 0..p
    BY <1>1
  <2>. HIDE DEF p, Q, D
  <2>2. g \in [0..p -> D]
    BY DEF p, D
  <2>. QED
    BY <1>4, <2>1, <2>2
<1>7. \A k \in 1..p : g[k] = IF k \in K THEN TakeEntry(g[k - 1], EntriesOf(line)[k]) ELSE g[k - 1]
  BY DEF DecodesLine
<1>8. t[0] = <<>> /\ \A k \in 1..p : t[k] = t[k - 1] \o b[k]
  BY <1>3, <1>4 DEF Concatenates
<1>9. ASSUME NEW k \in 0..(p - 1), BetweenParts(s, g[k], t[k], line, window, k), k + 1 \in K
      PROVE  g[k + 1] = AfterPart(s, t[k + 1], line, window, k + 1 < p)
  <2>1. k \in 0..p /\ k + 1 \in 1..p /\ (k + 1) - 1 = k
    BY <1>1
  <2>2. t[k + 1] = t[k] \o line.parts[k + 1] /\ g[k + 1] = TakeEntry(g[k], EntriesOf(line)[k + 1])
    <3>1. t[k + 1] = t[(k + 1) - 1] \o b[k + 1] /\ b[k + 1] = line.parts[k + 1]
      BY <1>3, <1>8, <1>9, <2>1
    <3>2. g[k + 1] = TakeEntry(g[(k + 1) - 1], EntriesOf(line)[k + 1])
      BY <1>7, <1>9, <2>1
    <3>. QED
      BY <2>1, <3>1, <3>2
  <2>3. s \in Decoders(C) /\ g[k] \in Decoders(C) /\ t[k] \in Seq(C) /\ k \in 0..(Len(line.parts) - 1)
    BY <1>6, <2>1
  <2>4. s.pending = <<>> /\ ~s.failed /\ k + 1 \in Within(line, window) /\ line.stamps[k + 1] # 0
    BY <1>9
  <2>. HIDE DEF s
  <2>5. TakeEntry(g[k], EntriesOf(line)[k + 1]) =
           AfterPart(s, t[k] \o line.parts[k + 1], line, window, k + 1 < Len(line.parts))
    BY <1>9, <2>3, <2>4, OneMorePart
  <2>. QED
    BY <2>2, <2>5
<1>10. ASSUME NEW k \in 0..(p - 1), k + 1 \notin K
       PROVE  g[k + 1] = g[k] /\ t[k + 1] = t[k]
  <2>1. k \in 0..p /\ k + 1 \in 1..p /\ (k + 1) - 1 = k
    BY <1>1
  <2>. HIDE DEF K, p, Q, b
  <2>2. g[k + 1] = g[k]
    BY <1>7, <1>10, <2>1
  <2>3. t[k + 1] = t[k] \o <<>> /\ t[k] \in Seq(C)
    <3>1. t[k + 1] = t[(k + 1) - 1] \o b[k + 1] /\ b[k + 1] = <<>>
      BY <1>3, <1>8, <1>10, <2>1
    <3>. QED
      BY <1>6, <2>1, <3>1 DEF Q
  <2>4. t[k] \o <<>> = t[k]
    BY <2>3, EmptyAdded
  <2>. QED
    BY <2>2, <2>3, <2>4
<1>. DEFINE Between(k) == BetweenParts(s, g[k], t[k], line, window, k)
            U == {k \in Nat : k <= p - 1 => Between(k)}
<1>11. 0 \in U
  <2>1. K \cap 1..0 = {}
    OBVIOUS
  <2>. QED
    BY <1>8, <2>1 DEF BetweenParts
<1>12. ASSUME NEW k \in U
       PROVE  k + 1 \in U
  <2>. SUFFICES ASSUME k + 1 <= p - 1 PROVE Between(k + 1)
    BY DEF U
  <2>1. k \in 0..(p - 1) /\ k + 1 \in 1..(p - 1) /\ k \in 0..p /\ k + 1 < p /\ Between(k) /\ k + 1 \in 1..p
    BY <1>1
  <2>2. CASE k + 1 \in K
    <3>1. g[k + 1] = AfterPart(s, t[k + 1], line, window, k + 1 < p)
      BY <1>9, <2>1, <2>2
    <3>. HIDE DEF s
    <3>2. g[k + 1] = Decoder(t[k + 1], stamp, s.lines, FALSE)
      BY <2>1, <3>1 DEF AfterPart
    <3>3. t[k + 1] # <<>>
      <4>0. (k + 1) - 1 = k
        BY <2>1
      <4>1. t[k + 1] = t[(k + 1) - 1] \o b[k + 1] /\ b[k + 1] = line.parts[k + 1]
        <5>. HIDE DEF b, p, K
        <5>. QED
          BY <1>3, <1>8, <2>1, <2>2
      <4>2. line.parts[k + 1] \in Seq(C) /\ line.parts[k + 1] # <<>> /\ t[k] \in Seq(C)
        BY <1>1, <1>6, <2>1
      <4>. HIDE DEF b, p, K
      <4>3. t[k] \o line.parts[k + 1] # <<>>
        BY <4>2, NotEmptied
      <4>. QED
        BY <4>0, <4>1, <4>3
    <3>4. Within(line, window) \cap 1..(k + 1) # {}
      BY <2>1, <2>2
    <3>. QED
      BY <3>2, <3>3, <3>4 DEF BetweenParts
  <2>3. CASE k + 1 \notin K
    <3>1. g[k + 1] = g[k] /\ t[k + 1] = t[k]
      BY <1>10, <2>1, <2>3
    <3>2. Within(line, window) \cap 1..(k + 1) = Within(line, window) \cap 1..k
      <4>1. 1..(k + 1) = 1..k \cup {k + 1}
        BY <2>1
      <4>. QED
        BY <2>3, <4>1
    <3>. HIDE DEF s
    <3>. QED
      BY <2>1, <3>1, <3>2 DEF BetweenParts
  <2>. QED
    BY <2>2, <2>3
<1>13. U = Nat
  <2>1. U \in SUBSET Nat
    BY DEF U
  <2>. HIDE DEF U
  <2>. QED
    BY <1>11, <1>12, <2>1, SetInduction
<1>14. Between(p - 1)
  <2>1. p - 1 \in Nat
    BY <1>1
  <2>. HIDE DEF Between
  <2>2. p - 1 \in U
    BY <1>13, <2>1
  <2>. QED
    BY <2>1, <2>2
<1>15. p - 1 \in 0..(p - 1) /\ (p - 1) + 1 = p /\ ~((p - 1) + 1 < p)
  BY <1>1
<1>16. CASE p \in K
  <2>1. g[p] = AfterPart(s, t[p], line, window, FALSE)
    <3>1. g[(p - 1) + 1] = AfterPart(s, t[(p - 1) + 1], line, window, (p - 1) + 1 < p)
      <4>1. (p - 1) + 1 \in K
        BY <1>15, <1>16
      <4>. HIDE DEF K, s
      <4>. QED
        BY <1>9, <1>14, <1>15, <4>1
    <3>2. ((p - 1) + 1 < p) = FALSE
      BY <1>15
    <3>. HIDE DEF s, p
    <3>. QED
      BY <1>15, <3>1, <3>2
  <2>2. g[p] = Decoder(<<>>, stamp, Append(s.lines, [stamp |-> stamp, text |-> t[p]]), FALSE)
    <3>. HIDE DEF s, p
    <3>. QED
      BY <2>1 DEF AfterPart
  <2>3. K # {}
    BY <1>16
  <2>. QED
    BY <1>5, <1>16, <2>2, <2>3 DEF AfterLine
<1>17. CASE p \notin K
  <2>1. g[p] = g[p - 1] /\ t[p] = t[p - 1]
    <3>1. (p - 1) + 1 \notin K
      BY <1>15, <1>17
    <3>2. g[(p - 1) + 1] = g[p - 1] /\ t[(p - 1) + 1] = t[p - 1]
      <4>. HIDE DEF K
      <4>. QED
        BY <1>10, <1>15, <3>1
    <3>. QED
      BY <1>15, <3>2
  <2>2. Within(line, window) \cap 1..(p - 1) = Within(line, window)
    <3>1. 1..p = 1..(p - 1) \cup {p}
      BY <1>1
    <3>. QED
      BY <1>2, <1>17, <3>1
  <2>3. IF Within(line, window) = {} THEN g[p - 1] = s /\ t[p - 1] = <<>>
        ELSE t[p - 1] # <<>> /\ g[p - 1] = Decoder(t[p - 1], stamp, s.lines, FALSE)
    BY <1>14, <2>2 DEF BetweenParts
  <2>. HIDE DEF s
  <2>. QED
    BY <1>5, <1>17, <2>1, <2>3 DEF AfterLine, s
<1>. QED
  BY <1>16, <1>17

\* The container stamps what it prints in the order of printing.
PrintedInOrder(lines) ==
    /\ \A i \in 1..Len(lines) :
          \A j, k \in 1..Len(lines[i].parts) : j <= k => lines[i].stamps[j] <= lines[i].stamps[k]
    /\ \A i, j \in 1..Len(lines) :
          i < j => \A k \in 1..Len(lines[i].parts), l \in 1..Len(lines[j].parts) :
                      lines[i].stamps[k] <= lines[j].stamps[l]

\* The entries of the i-th line stand behind the first o[i - 1] entries.
LinesStand(o, entries, lines) ==
    /\ o[0] = 0 /\ o[Len(lines)] = Len(entries)
    /\ \A i \in 1..Len(lines) :
          /\ o[i] = o[i - 1] + Len(lines[i].parts) /\ o[i] <= Len(entries)
          /\ \A k \in 1..Len(lines[i].parts) : entries[o[i - 1] + k] = EntriesOf(lines[i])[k]

LEMMA EntriesOfTyped ==
    ASSUME NEW C, NEW line \in SplitLines(C)
    PROVE  EntriesOf(line) \in Seq(JournalEntries(C)) /\ Len(EntriesOf(line)) = Len(line.parts)
<1>. DEFINE p == Len(line.parts)
            e == EntriesOf(line)
            V == JournalEntries(C)
<1>1. p \in Nat /\ DOMAIN line.parts = 1..p
  BY LineIs
<1>2. \A k \in 1..p : e[k] \in V
  BY EntryOfPart
<1>3. e = [k \in 1..p |-> e[k]]
  <2>. HIDE DEF p
  <2>. QED
    BY <1>1 DEF EntriesOf
<1>. HIDE DEF p, e, V
<1>4. e \in [1..p -> V]
  BY <1>2, <1>3
<1>5. e \in Seq(V) /\ Len(e) = p
  BY <1>1, <1>4, BytesOfTuple
<1>. QED
  BY <1>5 DEF p, e, V

LEMMA LinesAre ==
    ASSUME NEW T, NEW lines \in Seq(T)
    PROVE  Len(lines) \in Nat /\ DOMAIN lines = 1..Len(lines) /\ \A i \in 1..Len(lines) : lines[i] \in T
OBVIOUS

LEMMA LinesStanding ==
    ASSUME NEW C, NEW lines \in Seq(SplitLines(C))
    PROVE  /\ AllEntries(lines) \in Seq(JournalEntries(C))
           /\ \E o \in [0..Len(lines) -> Nat] : LinesStand(o, AllEntries(lines), lines)
<1>. DEFINE n == Len(lines)
            T == SplitLines(C)
            V == JournalEntries(C)
            Q == Seq(V)
            b == [i \in 1..n |-> EntriesOf(lines[i])]
<1>1. n \in Nat /\ DOMAIN lines = 1..n /\ \A i \in 1..n : lines[i] \in T
  BY LinesAre
<1>2. \A i \in 1..n : EntriesOf(lines[i]) \in Q /\ Len(EntriesOf(lines[i])) = Len(lines[i].parts)
  BY <1>1, EntriesOfTyped
<1>3. AllEntries(lines) = FlattenSeq(b)
  <2>1. [i \in DOMAIN lines |-> EntriesOf(lines[i])] = b
    <3>. HIDE DEF n
    <3>. QED
      BY <1>1
  <2>. QED
    BY <2>1, Zenon DEF AllEntries
<1>4. b \in [1..n -> Q] /\ \A i \in 1..n : b[i] = EntriesOf(lines[i])
  <2>. HIDE DEF n, Q
  <2>. QED
    BY <1>2
<1>. HIDE DEF b, V, T, n
<1>5. b \in Seq(Q) /\ Len(b) = n
  <2>. HIDE DEF Q
  <2>. QED
    BY <1>1, <1>4, BytesOfTuple
<1>6. PICK c \in [0..n -> Q] : Concatenates(c, b) /\ c[n] = FlattenSeq(b)
  <2>1. \E c \in [0..Len(b) -> Seq(V)] : Concatenates(c, b) /\ c[Len(b)] = FlattenSeq(b)
    BY <1>5, Flattened
  <2>. QED
    BY <1>5, <2>1
<1>7. \A i \in 1..n : StandsIn(c[n], Len(c[i - 1]), b[i]) /\ Len(c[i]) = Len(c[i - 1]) + Len(b[i])
  <2>1. c \in [0..Len(b) -> Seq(V)] /\ Concatenates(c, b) /\ b \in Seq(Seq(V))
    BY <1>5, <1>6
  <2>2. \A i \in 1..Len(b) : /\ StandsIn(c[Len(b)], Len(c[i - 1]), b[i])
                             /\ c[i - 1] \in Seq(V) /\ b[i] \in Seq(V) /\ c[i] = c[i - 1] \o b[i]
                             /\ Len(c[i]) = Len(c[i - 1]) + Len(b[i])
    BY <2>1, AllStand
  <2>. QED
    BY <1>5, <2>2
<1>. DEFINE o == [i \in 0..n |-> Len(c[i])]
            entries == c[n]
<1>8. entries \in Q
  <2>1. n \in 0..n
    BY <1>1
  <2>. HIDE DEF Q
  <2>. QED
    BY <1>6, <2>1
<1>9. o \in [0..n -> Nat]
  <2>1. \A i \in 0..n : c[i] \in Seq(V)
    BY <1>6
  <2>2. \A i \in 0..n : Len(c[i]) \in Nat
    BY <2>1
  <2>. QED
    BY <2>2
<1>10. o[0] = 0 /\ o[n] = Len(entries)
  <2>1. c[0] = <<>> /\ Len(<<>>) = 0 /\ 0 \in 0..n /\ n \in 0..n
    BY <1>1, <1>6 DEF Concatenates
  <2>. QED
    BY <2>1
<1>11. ASSUME NEW i \in 1..n
       PROVE  /\ o[i] = o[i - 1] + Len(lines[i].parts) /\ o[i] <= Len(entries)
              /\ \A k \in 1..Len(lines[i].parts) : entries[o[i - 1] + k] = EntriesOf(lines[i])[k]
  <2>1. i \in 0..n /\ i - 1 \in 0..n
    BY <1>1
  <2>2. o[i] = Len(c[i]) /\ o[i - 1] = Len(c[i - 1])
    BY <2>1
  <2>. HIDE DEF o
  <2>3. b[i] = EntriesOf(lines[i]) /\ Len(b[i]) = Len(lines[i].parts)
    BY <1>2, <1>4
  <2>4. StandsIn(entries, o[i - 1], b[i]) /\ o[i] = o[i - 1] + Len(b[i])
    BY <1>7, <2>2
  <2>. HIDE DEF entries
  <2>5. o[i - 1] + Len(b[i]) <= Len(entries) /\ \A j \in 1..Len(b[i]) : entries[o[i - 1] + j] = b[i][j]
    BY <2>4 DEF StandsIn
  <2>. QED
    BY <2>3, <2>4, <2>5
<1>. HIDE DEF o
<1>12. LinesStand(o, entries, lines)
  BY <1>10, <1>11 DEF LinesStand, n
<1>. QED
  BY <1>3, <1>6, <1>8, <1>9, <1>12 DEF Q, V, n

\* The decoder after lines that show as x.
LinesDecoded(d, x, lines, window, i) ==
    /\ ~d.failed
    /\ IF d.pending = <<>> THEN d.lines = x
       ELSE /\ Append(d.lines, [stamp |-> d.start, text |-> d.pending]) = x
            /\ \A j \in (i + 1)..Len(lines) : Within(lines[j], window) = {}

LEMMA ShownTyped ==
    ASSUME NEW C, NEW line \in SplitLines(C), NEW window
    PROVE  Shown(line, window) \in Seq(JournalLines(C))
<1>. DEFINE p == Len(line.parts)
            K == Within(line, window)
            f == FirstWithin(line, window)
            text == TextWithin(line, window)
            b == PartsWithin(line, window)
            L == JournalLines(C)
<1>1. CASE K = {}
  BY <1>1 DEF Shown
<1>2. CASE K # {}
  <2>1. p \in Nat /\ DOMAIN line.parts = 1..p
    BY LineIs
  <2>2. f \in K
    BY <1>2, <2>1, FirstIs
  <2>3. f \in 1..p
    BY <2>1, <2>2 DEF Within
  <2>4. line.stamps[f] \in Nat
    BY <2>3, LineIs
  <2>5. text \in Seq(C)
    <3>1. b \in Seq(Seq(C)) /\ Len(b) = p
      BY PartsWithinTyped
    <3>2. text = FlattenSeq(b)
      BY DEF TextWithin, PartsWithin
    <3>. HIDE DEF b, text
    <3>3. PICK t \in [0..Len(b) -> Seq(C)] : Concatenates(t, b) /\ t[Len(b)] = FlattenSeq(b)
      BY <3>1, Flattened
    <3>4. Len(b) \in 0..Len(b)
      BY <2>1, <3>1
    <3>5. t[Len(b)] \in Seq(C)
      BY <3>3, <3>4
    <3>. QED
      BY <3>2, <3>3, <3>5
  <2>. DEFINE r == [stamp |-> line.stamps[f], text |-> text]
  <2>6. r \in L
    <3>. HIDE DEF f, text
    <3>. QED
      BY <2>4, <2>5 DEF JournalLines
  <2>7. Shown(line, window) = <<r>>
    BY <1>2 DEF Shown
  <2>. HIDE DEF r, L
  <2>8. <<r>> \in Seq(L)
    BY <2>6
  <2>. QED
    BY <2>7, <2>8 DEF L
<1>. QED
  BY <1>1, <1>2

\* Behind a line that the end of the window cuts off, nothing is in the window.
LEMMA CutOff ==
    ASSUME NEW C, NEW lines \in Seq(SplitLines(C)), PrintedInOrder(lines),
           NEW window, window.since \in Nat, window.until \in Nat,
           NEW i \in 1..Len(lines), Within(lines[i], window) # {},
           Len(lines[i].parts) \notin Within(lines[i], window),
           NEW j \in (i + 1)..Len(lines)
    PROVE  Within(lines[j], window) = {}
<1>. DEFINE n == Len(lines)
            p == Len(lines[i].parts)
            q == Len(lines[j].parts)
            S == lines[i].stamps
            R == lines[j].stamps
            T == SplitLines(C)
<1>1. n \in Nat /\ \A k \in 1..n : lines[k] \in T
  BY LinesAre
<1>2. j \in 1..n /\ i \in 1..n /\ i < j
  BY <1>1
<1>3. /\ p \in Nat \ {0} /\ DOMAIN lines[i].parts = 1..p /\ \A k \in 1..p : S[k] \in Nat
      /\ q \in Nat \ {0} /\ DOMAIN lines[j].parts = 1..q /\ \A k \in 1..q : R[k] \in Nat
  BY <1>1, <1>2, LineIs
<1>4. (\A a, b \in 1..p : a <= b => S[a] <= S[b]) /\ \A a \in 1..p, b \in 1..q : S[a] <= R[b]
  BY <1>2 DEF PrintedInOrder
<1>5. PICK k \in 1..p : InWindow(S[k], window)
  BY <1>3 DEF Within
<1>6. p \in 1..p /\ ~InWindow(S[p], window)
  BY <1>3 DEF Within
<1>7. window.until < S[p]
  <2>1. window.since <= S[k] /\ S[k] <= S[p] /\ S[k] \in Nat /\ S[p] \in Nat
    BY <1>3, <1>4, <1>5, <1>6 DEF InWindow
  <2>2. ~(window.since <= S[p] /\ S[p] <= window.until)
    BY <1>6 DEF InWindow
  <2>. HIDE DEF S, p
  <2>. QED
    BY <2>1, <2>2
<1>8. ASSUME NEW l \in 1..q
      PROVE  ~InWindow(R[l], window)
  <2>1. S[p] <= R[l] /\ S[p] \in Nat /\ R[l] \in Nat
    BY <1>3, <1>4, <1>6
  <2>. HIDE DEF S, R
  <2>. QED
    BY <1>7, <2>1 DEF InWindow
<1>. QED
  BY <1>3, <1>8 DEF Within

\* The decoders of the entries of the i-th line.
Slice(h, off, p) == [k \in 0..p |-> h[off + k]]

EntriesStand(e, off, line) == \A k \in 1..Len(line.parts) : e[off + k] = EntriesOf(line)[k]

SliceTaken(C, h, off, line, window) ==
    LET p == Len(line.parts)
        g == Slice(h, off, p)
    IN  /\ g \in [0..p -> Decoders(C)] /\ DecodesLine(g, line, window)
        /\ g[0] = h[off] /\ g[p] = h[off + p]

LEMMA SliceDecodes ==
    ASSUME NEW C, NEW line \in SplitLines(C), NEW window, NEW e, NEW off \in Nat,
           off + Len(line.parts) <= Len(e), Len(e) \in Nat,
           NEW h \in [0..Len(e) -> Decoders(C)], DecodesWithin(h, e, window), EntriesStand(e, off, line)
    PROVE  SliceTaken(C, h, off, line, window)
<1>. DEFINE p == Len(line.parts)
            D == Decoders(C)
            m == Len(e)
            g == Slice(h, off, p)
<1>1. p \in Nat /\ DOMAIN line.parts = 1..p
  BY LineIs
<1>. HIDE DEF D, p, m
<1>2. \A k \in 0..p : g[k] = h[off + k] /\ off + k \in 0..m
  BY <1>1 DEF Slice, p, m
<1>3. g \in [0..p -> D]
  BY <1>1, <1>2 DEF Slice, D, m
<1>. HIDE DEF g
<1>4. g[0] = h[off] /\ g[p] = h[off + p]
  <2>1. 0 \in 0..p /\ p \in 0..p /\ off + 0 = off
    BY <1>1
  <2>. QED
    BY <1>2, <2>1
<1>5. ASSUME NEW k \in 1..p
      PROVE  g[k] = IF k \in Within(line, window) THEN TakeEntry(g[k - 1], EntriesOf(line)[k]) ELSE g[k - 1]
  <2>. DEFINE i == off + k
  <2>1. k \in 0..p /\ k - 1 \in 0..p /\ i \in 1..m /\ i - 1 = off + (k - 1)
    BY <1>1 DEF p, m
  <2>2. g[k] = h[i] /\ g[k - 1] = h[i - 1]
    BY <1>2, <2>1
  <2>3. e[i] = EntriesOf(line)[k] /\ e[i].stamp = line.stamps[k]
    <3>1. e[i] = EntriesOf(line)[k]
      BY DEF EntriesStand, p
    <3>2. EntriesOf(line)[k].stamp = line.stamps[k]
      BY EntryOfPart DEF p
    <3>. QED
      BY <3>1, <3>2
  <2>. HIDE DEF i
  <2>4. h[i] = IF InWindow(e[i].stamp, window) THEN TakeEntry(h[i - 1], e[i]) ELSE h[i - 1]
    BY <2>1 DEF DecodesWithin, m
  <2>5. k \in Within(line, window) <=> InWindow(line.stamps[k], window)
    BY <1>1 DEF Within
  <2>. QED
    BY <2>2, <2>3, <2>4, <2>5
<1>6. DecodesLine(g, line, window)
  BY <1>5 DEF DecodesLine, p
<1>. QED
  BY <1>3, <1>4, <1>6, Zenon DEF SliceTaken, p, D, g

\* One line, whatever the decoder holds at its beginning.
LEMMA OneMoreLine ==
    ASSUME NEW C, NEW lines \in Seq(SplitLines(C)), PrintedInOrder(lines),
           NEW window, window.since \in Nat \ {0}, window.until \in Nat,
           NEW i \in 1..Len(lines), NEW g \in [0..Len(lines[i].parts) -> Decoders(C)],
           DecodesLine(g, lines[i], window),
           NEW x \in Seq(JournalLines(C)), LinesDecoded(g[0], x, lines, window, i - 1)
    PROVE  LinesDecoded(g[Len(lines[i].parts)], x \o Shown(lines[i], window), lines, window, i)
<1>. DEFINE n == Len(lines)
            line == lines[i]
            p == Len(line.parts)
            K == Within(line, window)
            s == g[0]
            d == g[p]
            stamp == line.stamps[FirstWithin(line, window)]
            text == TextWithin(line, window)
            r == [stamp |-> stamp, text |-> text]
<1>1. n \in Nat /\ line \in SplitLines(C)
  BY LinesAre
<1>2. p \in Nat \ {0} /\ DOMAIN line.parts = 1..p
  BY <1>1, LineIs
<1>3. \A k \in K : line.stamps[k] # 0
  <2>. TAKE k \in K
  <2>1. k \in 1..p /\ InWindow(line.stamps[k], window)
    BY <1>2 DEF Within
  <2>2. line.stamps[k] \in Nat
    BY <1>1, <2>1, LineIs
  <2>. HIDE DEF line
  <2>. QED
    BY <2>1, <2>2 DEF InWindow
<1>4. \A j \in (i + 1)..n : j \in ((i - 1) + 1)..n
  BY <1>1
<1>5. ~s.failed
  BY DEF LinesDecoded
<1>6. CASE K = {}
  <2>1. d = s
    <3>. HIDE DEF line, K
    <3>1. Within(line, window) = {}
      BY <1>6 DEF K
    <3>2. DecodesLine(g, line, window)
      BY DEF line
    <3>. QED
      BY <1>1, <3>1, <3>2, NothingDecoded
  <2>2. x \o Shown(line, window) = x
    BY <1>6 DEF Shown
  <2>3. IF s.pending = <<>> THEN s.lines = x
        ELSE /\ Append(s.lines, [stamp |-> s.start, text |-> s.pending]) = x
             /\ \A j \in ((i - 1) + 1)..n : Within(lines[j], window) = {}
    BY DEF LinesDecoded
  <2>. HIDE DEF s, n
  <2>4. LinesDecoded(s, x, lines, window, i)
    BY <1>4, <1>5, <2>3 DEF LinesDecoded, n
  <2>. HIDE DEF d
  <2>. QED
    BY <2>1, <2>2, <2>4 DEF d
<1>7. CASE K # {}
  <2>1. s.pending = <<>> /\ s.lines = x
    <3>1. i \in ((i - 1) + 1)..n
      BY <1>1
    <3>2. s.pending # <<>> => \A j \in ((i - 1) + 1)..n : Within(lines[j], window) = {}
      BY DEF LinesDecoded
    <3>3. s.pending = <<>>
      BY <1>7, <3>1, <3>2
    <3>. QED
      BY <3>3 DEF LinesDecoded
  <2>2. AfterLine(s, d, line, window)
    <3>1. g \in [0..Len(line.parts) -> Decoders(C)] /\ DecodesLine(g, line, window)
      OBVIOUS
    <3>2. \A k \in Within(line, window) : line.stamps[k] # 0
      BY <1>3
    <3>. HIDE DEF line
    <3>3. g[0].pending = <<>> /\ ~g[0].failed
      BY <1>5, <2>1
    <3>. QED
      BY <1>1, <3>1, <3>2, <3>3, LineTaken
  <2>3. Shown(line, window) = <<r>>
    BY <1>7 DEF Shown
  <2>4. Append(s.lines, r) = x \o <<r>>
    <3>. HIDE DEF r
    <3>. QED
      BY <2>1
  <2>5. CASE p \in K
    <3>1. d = Decoder(<<>>, stamp, Append(s.lines, r), FALSE)
      <4>. HIDE DEF line, s, d
      <4>. QED
        BY <1>7, <2>2, <2>5 DEF AfterLine
    <3>2. d.pending = <<>> /\ d.lines = Append(s.lines, r) /\ d.failed = FALSE
      <4>. HIDE DEF d, s, r, stamp
      <4>. QED
        BY <3>1 DEF Decoder
    <3>. HIDE DEF d, s, r
    <3>3. LinesDecoded(d, x \o <<r>>, lines, window, i)
      BY <2>4, <3>2 DEF LinesDecoded
    <3>. QED
      BY <2>3, <3>3 DEF d
  <2>6. CASE p \notin K
    <3>1. text # <<>> /\ d = Decoder(text, stamp, s.lines, FALSE)
      <4>. HIDE DEF line, s, d
      <4>. QED
        BY <1>7, <2>2, <2>6 DEF AfterLine
    <3>2. d.pending = text /\ d.start = stamp /\ d.lines = s.lines /\ d.failed = FALSE
      <4>. HIDE DEF d, s, text, stamp
      <4>. QED
        BY <3>1 DEF Decoder
    <3>3. \A j \in (i + 1)..n : Within(lines[j], window) = {}
      <4>1. Within(lines[i], window) # {} /\ Len(lines[i].parts) \notin Within(lines[i], window)
        BY <1>7, <2>6
      <4>2. window.since \in Nat
        OBVIOUS
      <4>. HIDE DEF d, s, text, stamp, line, p, K
      <4>. QED
        BY <4>1, <4>2, CutOff
    <3>4. Append(d.lines, [stamp |-> d.start, text |-> d.pending]) = x \o <<r>>
      <4>. HIDE DEF d, s, text, stamp
      <4>. QED
        BY <2>4, <3>2
    <3>. HIDE DEF d, s, r, text
    <3>5. LinesDecoded(d, x \o <<r>>, lines, window, i)
      BY <3>1, <3>2, <3>3, <3>4 DEF LinesDecoded, n
    <3>. QED
      BY <2>3, <3>5 DEF d
  <2>. QED
    BY <2>5, <2>6
<1>. QED
  BY <1>6, <1>7

LEMMA LinesTaken ==
    ASSUME NEW C, NEW lines \in Seq(SplitLines(C)), PrintedInOrder(lines),
           NEW window, window.since \in Nat \ {0}, window.until \in Nat,
           NEW e \in Seq(JournalEntries(C)), NEW o \in [0..Len(lines) -> Nat], LinesStand(o, e, lines),
           NEW h \in [0..Len(e) -> Decoders(C)], DecodesWithin(h, e, window),
           NEW x \in [0..Len(lines) -> Seq(JournalLines(C))], x[0] = <<>>,
           \A i \in 1..Len(lines) : x[i] = x[i - 1] \o Shown(lines[i], window)
    PROVE  LinesDecoded(h[Len(e)], x[Len(lines)], lines, window, Len(lines))
<1>. DEFINE n == Len(lines)
            m == Len(e)
            T == SplitLines(C)
            L == Seq(JournalLines(C))
            V == JournalEntries(C)
            U == {i \in Nat : i <= n => LinesDecoded(h[o[i]], x[i], lines, window, i)}
<1>1. n \in Nat /\ (\A i \in 1..n : lines[i] \in T) /\ m \in Nat
  <2>1. m \in Nat
    <3>. HIDE DEF V
    <3>1. e \in Seq(V)
      BY DEF V
    <3>. QED
      BY <3>1
  <2>2. n \in Nat /\ (\A i \in 1..n : lines[i] \in T)
    BY LinesAre
  <2>. QED
    BY <2>1, <2>2
<1>2. /\ o[0] = 0 /\ o[n] = m
      /\ \A i \in 1..n :
            /\ o[i] = o[i - 1] + Len(lines[i].parts) /\ o[i] <= m
            /\ \A k \in 1..Len(lines[i].parts) : e[o[i - 1] + k] = EntriesOf(lines[i])[k]
  BY DEF LinesStand
<1>3. 0 \in U
  <2>1. h[0] = Opened
    BY DEF DecodesWithin
  <2>2. Opened.pending = <<>> /\ Opened.lines = <<>> /\ Opened.failed = FALSE
    BY DEF Opened
  <2>. QED
    BY <1>2, <2>1, <2>2 DEF LinesDecoded
<1>4. ASSUME NEW j \in U
      PROVE  j + 1 \in U
  <2>. SUFFICES ASSUME j + 1 <= n PROVE LinesDecoded(h[o[j + 1]], x[j + 1], lines, window, j + 1)
    OBVIOUS
  <2>. DEFINE i == j + 1
  <2>1. j \in Nat /\ i \in 1..n /\ i - 1 = j /\ j \in 0..n /\ i \in 0..n
    BY <1>1
  <2>2. LinesDecoded(h[o[j]], x[j], lines, window, j)
    BY <2>1
  <2>. HIDE DEF i, U
  <2>. DEFINE line == lines[i]
              p == Len(line.parts)
              off == o[j]
              g == Slice(h, off, p)
  <2>3. line \in SplitLines(C) /\ p \in Nat
    <3>1. line \in SplitLines(C)
      BY <1>1, <2>1
    <3>. QED
      BY <3>1, LineIs
  <2>4. off \in Nat /\ o[i] = off + p /\ off + p <= m /\ \A k \in 1..p : e[off + k] = EntriesOf(line)[k]
    <3>1. off \in Nat
      BY <2>1
    <3>2. o[i] = o[i - 1] + Len(lines[i].parts) /\ o[i] <= m
          /\ \A k \in 1..Len(lines[i].parts) : e[o[i - 1] + k] = EntriesOf(lines[i])[k]
      <4>. HIDE DEF n, m
      <4>. QED
        BY <1>2, <2>1
    <3>. QED
      BY <2>1, <3>1, <3>2
  <2>5. /\ g \in [0..p -> Decoders(C)] /\ DecodesLine(g, line, window)
        /\ g[0] = h[off] /\ g[p] = h[off + p]
    <3>. HIDE DEF line, off, g
    <3>1. off + Len(line.parts) <= Len(e) /\ EntriesStand(e, off, line) /\ Len(e) \in Nat
      BY <1>1, <2>4 DEF EntriesStand
    <3>2. SliceTaken(C, h, off, line, window)
      BY <2>3, <2>4, <3>1, SliceDecodes
    <3>. QED
      BY <3>2, Zenon DEF SliceTaken, g
  <2>6. x[j] \in Seq(JournalLines(C)) /\ x[i] = x[j] \o Shown(line, window)
    <3>. HIDE DEF n, line
    <3>1. x[j] \in L
      <4>. HIDE DEF L
      <4>1. x \in [0..n -> L]
        BY DEF n, L
      <4>. QED
        BY <2>1, <4>1
    <3>2. x[i] = x[i - 1] \o Shown(lines[i], window)
      BY <2>1 DEF n
    <3>. QED
      BY <2>1, <3>1, <3>2 DEF line
  <2>7. LinesDecoded(g[0], x[j], lines, window, i - 1)
    BY <2>1, <2>2, <2>5
  <2>. HIDE DEF g, off, m
  <2>8. LinesDecoded(g[Len(lines[i].parts)], x[j] \o Shown(lines[i], window), lines, window, i)
    <3>1. g \in [0..Len(lines[i].parts) -> Decoders(C)] /\ DecodesLine(g, lines[i], window)
      BY <2>5
    <3>2. i \in 1..Len(lines)
      BY <2>1
    <3>. QED
      BY <2>6, <2>7, <3>1, <3>2, OneMoreLine
  <2>. QED
    BY <2>4, <2>5, <2>6, <2>8 DEF i
<1>5. U = Nat
  <2>1. U \in SUBSET Nat
    OBVIOUS
  <2>. HIDE DEF U
  <2>. QED
    BY <1>3, <1>4, <2>1, SetInduction
<1>6. n \in U
  <2>. HIDE DEF U
  <2>. QED
    BY <1>1, <1>5
<1>7. LinesDecoded(h[o[n]], x[n], lines, window, n)
  <2>. HIDE DEF n
  <2>. QED
    BY <1>1, <1>6
<1>. QED
  BY <1>2, <1>7

LEMMA DamageTyped ==
    ASSUME NEW C, NEW e \in Seq(JournalEntries(C)), NEW b
    PROVE  /\ Damaged(e, b) \in Seq(JournalEntries(C)) /\ Len(Damaged(e, b)) = Len(e)
           /\ \A k \in 1..Len(e) : /\ Damaged(e, b)[k].stamp = e[k].stamp
                                   /\ k # b => Damaged(e, b)[k] = e[k]
                                   /\ k = b => Damaged(e, b)[k].message.form = "number"
<1>. DEFINE n == Len(e)
            V == JournalEntries(C)
            d == Damaged(e, b)
<1>1. n \in Nat /\ DOMAIN e = 1..n /\ \A k \in 1..n : e[k] \in V
  BY LinesAre
<1>2. d = [k \in 1..n |-> IF k = b THEN DamagedOne(e[k]) ELSE e[k]]
  <2>. HIDE DEF n
  <2>. QED
    BY <1>1 DEF Damaged, DamagedOne
<1>3. \A k \in 1..n : DamagedOne(e[k]) \in V /\ DamagedOne(e[k]).stamp = e[k].stamp
                      /\ DamagedOne(e[k]).message.form = "number"
  BY <1>1, DamageOfOne
<1>. HIDE DEF n, V, d
<1>4. \A k \in 1..n : d[k] = IF k = b THEN DamagedOne(e[k]) ELSE e[k]
  BY <1>2
<1>5. d \in [1..n -> V]
  BY <1>1, <1>2, <1>3
<1>6. d \in Seq(V) /\ Len(d) = n
  BY <1>1, <1>5, BytesOfTuple
<1>. QED
  BY <1>3, <1>4, <1>6 DEF n, V, d

\* What is written of the decoder at the end.
LEMMA WholeRead ==
    ASSUME NEW C, NEW d \in Decoders(C), NEW x, NEW lines, NEW window, NEW i, LinesDecoded(d, x, lines, window, i)
    PROVE  LET r == IF d.failed \/ d.pending = <<>> THEN d ELSE Flush(d)
           IN  r.failed = FALSE /\ r.lines = x
<1>. DEFINE y == Append(d.lines, [stamp |-> d.start, text |-> d.pending])
<1>1. d.failed = FALSE
  BY DecoderIs DEF LinesDecoded
<1>2. CASE d.pending = <<>>
  BY <1>1, <1>2 DEF LinesDecoded
<1>3. CASE d.pending # <<>>
  <2>1. y = x
    BY <1>3 DEF LinesDecoded
  <2>2. Flush(d) = Writing(d, y, <<>>)
    BY Zenon DEF Flush, Writing
  <2>. HIDE DEF y
  <2>3. Writing(d, y, <<>>) = Decoder(<<>>, d.start, y, d.failed)
    BY DecoderUpdated
  <2>4. Flush(d).failed = d.failed /\ Flush(d).lines = y
    BY <2>2, <2>3 DEF Decoder
  <2>. QED
    BY <1>1, <1>3, <2>1, <2>4
<1>. QED
  BY <1>2, <1>3

ShowsLines(x, lines, window) ==
    /\ x[0] = <<>> /\ \A i \in 1..Len(lines) : x[i] = x[i - 1] \o Shown(lines[i], window)
    /\ x[Len(lines)] = FlattenSeq([i \in DOMAIN lines |-> Shown(lines[i], window)])

LEMMA ShownWalk ==
    ASSUME NEW C, NEW lines \in Seq(SplitLines(C)), NEW window
    PROVE  \E x \in [0..Len(lines) -> Seq(JournalLines(C))] : ShowsLines(x, lines, window)
<1>. DEFINE n == Len(lines)
            L == JournalLines(C)
            Q == Seq(L)
            b == [i \in DOMAIN lines |-> Shown(lines[i], window)]
<1>1. n \in Nat /\ DOMAIN lines = 1..n /\ \A i \in 1..n : lines[i] \in SplitLines(C)
  BY LinesAre
<1>2. \A i \in 1..n : Shown(lines[i], window) \in Q
  BY <1>1, ShownTyped
<1>3. b \in [1..n -> Q] /\ \A i \in 1..n : b[i] = Shown(lines[i], window)
  <2>. HIDE DEF n, Q
  <2>. QED
    BY <1>1, <1>2
<1>. HIDE DEF b, n, L
<1>4. b \in Seq(Q) /\ Len(b) = n
  <2>. HIDE DEF Q
  <2>. QED
    BY <1>1, <1>3, BytesOfTuple
<1>5. PICK x \in [0..n -> Q] : Concatenates(x, b) /\ x[n] = FlattenSeq(b)
  <2>1. \E x \in [0..Len(b) -> Seq(L)] : Concatenates(x, b) /\ x[Len(b)] = FlattenSeq(b)
    BY <1>4, Flattened
  <2>. QED
    BY <1>4, <2>1
<1>6. x[0] = <<>> /\ \A i \in 1..n : x[i] = x[i - 1] \o Shown(lines[i], window)
  BY <1>3, <1>4, <1>5 DEF Concatenates
<1>. QED
  BY <1>5, <1>6, Zenon DEF ShowsLines, n, Q, L, b

\* Without interruptions, the pieces of a journal are the lines that were printed.
LEMMA PiecesAreLines ==
    ASSUME NEW C, NEW lines \in Seq(SplitLines(C)), NEW streams, Uninterrupted(lines, streams),
           NEW i \in DOMAIN lines
    PROVE  LineEndedBy(lines, streams, i) = {i} \X DOMAIN lines[i].parts
<1>. DEFINE E(m) == EndsOn(lines, streams, m)
            J == {h \in 1..i : \A m \in h..(i - 1) : E(m) # E(i)}
            K(j) == {<<j, k>> : k \in {l \in DOMAIN lines[j].parts : streams[j][l] = E(i)}}
<1>1. i \in Nat \ {0} /\ \A j \in 1..i : j \in DOMAIN lines /\ DOMAIN lines[j].parts # {}
  <2>1. DOMAIN lines = 1..Len(lines) /\ Len(lines) \in Nat /\ \A j \in 1..Len(lines) : lines[j] \in SplitLines(C)
    BY LinesAre
  <2>2. ASSUME NEW j \in 1..i PROVE j \in DOMAIN lines /\ DOMAIN lines[j].parts # {}
    BY <2>1, LineIs
  <2>. QED
    BY <2>1, <2>2
<1>2. \A j \in 1..i : \A k \in DOMAIN lines[j].parts : streams[j][k] = E(j)
  BY <1>1 DEF Uninterrupted
<1>. HIDE DEF E
<1>3. K(i) = {i} \X DOMAIN lines[i].parts
  BY <1>1, <1>2
<1>4. i \in J /\ \A j \in J : j # i => K(j) = {}
  BY <1>1, <1>2
<1>5. UNION {K(j) : j \in J} = K(i)
  BY <1>4
<1>. QED
  BY <1>3, <1>5 DEF LineEndedBy, E

\* However the log driver splits the lines into entries, the dump of a run holds
\* each piece of the journal that has a part in the window once, in order, under
\* the stamp of its first part there and with no part that the window leaves out,
\* the piece that its end cuts off included; an entry that does not read, or a
\* journalctl that fails, keeps the file from appearing (cluster/journal.go:79,
\* :123, :158).  A piece ends where a line of either stream does, and is that line
\* if no entry of the other stream interrupts a split line; else it joins parts of
\* both.  The pieces are any, of any length and split in any way that keeps the
\* parts which are not the last of their line from being empty; the driver stamps
\* the parts in the order in which the container printed them.
THEOREM JournalsFaithful ==
    ASSUME NEW C, NEW lines \in Seq(SplitLines(C)), PrintedInOrder(lines), NEW streams,
           NEW run \in [timestamp : Nat, timestampEnd : Nat], NEW now \in Nat,
           NEW broken, NEW commandFails \in BOOLEAN
    PROVE  JournalFaithful(lines, streams, run, now, broken, commandFails)
<1>. DEFINE n == Len(lines)
            entries == AllEntries(lines)
            m == Len(entries)
            damaged == Damaged(entries, broken)
            window == [since |-> run.timestamp, until |-> IF run.timestampEnd = 0 THEN now ELSE run.timestampEnd]
            w == RunWindow(run, now)
            shown == FlattenSeq([i \in DOMAIN lines |-> Shown(lines[i], window)])
            hurt == broken \in DOMAIN entries /\ InWindow(entries[broken].stamp, window)
            dump == Dump(run, now, damaged, commandFails)
<1>1. run.timestamp \in Nat /\ run.timestampEnd \in Nat
  OBVIOUS
<1>2. window.since = run.timestamp /\ window.until \in Nat /\ window.since \in Nat
  BY <1>1
<1>3. w.ok = (run.timestamp # 0) /\ \A stamp : InWindow(stamp, w) <=> InWindow(stamp, window)
  BY DEF RunWindow, InWindow
<1>4. entries \in Seq(JournalEntries(C)) /\ \E o \in [0..n -> Nat] : LinesStand(o, entries, lines)
  BY LinesStanding
<1>5. m \in Nat /\ DOMAIN entries = 1..m
  <2>. HIDE DEF entries
  <2>. QED
    BY <1>4, LinesAre
<1>6. /\ damaged \in Seq(JournalEntries(C)) /\ Len(damaged) = m
      /\ \A k \in 1..m : /\ damaged[k].stamp = entries[k].stamp
                         /\ k # broken => damaged[k] = entries[k]
                         /\ k = broken => damaged[k].message.form = "number"
  <2>. HIDE DEF entries
  <2>. QED
    BY <1>4, DamageTyped
<1>. HIDE DEF entries, damaged, m, window, w
<1>7. PICK h \in [0..m -> Decoders(C)] :
         DecodesWithin(h, damaged, w) /\ h[m] = FoldLeft(TakeEntry, Opened, JournalCommand(damaged, w))
  <2>1. \E h \in [0..Len(damaged) -> Decoders(C)] :
           /\ DecodesWithin(h, damaged, w)
           /\ h[Len(damaged)] = FoldLeft(TakeEntry, Opened, JournalCommand(damaged, w))
    BY <1>6, WindowDecoded
  <2>. QED
    BY <1>6, <2>1
<1>8. h[m] \in Decoders(C)
  <2>1. m \in 0..m
    BY <1>5
  <2>. QED
    BY <2>1
<1>. DEFINE r == IF h[m].failed \/ h[m].pending = <<>> THEN h[m] ELSE Flush(h[m])
            whole == ~commandFails /\ ~r.failed
<1>9. WriteJournal(JournalCommand(damaged, w)) = r
  BY <1>7 DEF WriteJournal
<1>10. dump = IF run.timestamp # 0
              THEN [exists |-> whole, lines |-> IF whole THEN r.lines ELSE <<>>] ELSE NoDump
  <2>1. dump = IF w.ok THEN DumpJournal(JournalCommand(damaged, w), commandFails) ELSE NoDump
    BY DEF Dump, w
  <2>2. DumpJournal(JournalCommand(damaged, w), commandFails) =
           [exists |-> whole, lines |-> IF whole THEN r.lines ELSE <<>>]
    <3>. HIDE DEF r
    <3>. QED
      BY <1>9 DEF DumpJournal
  <2>. QED
    BY <1>3, <2>1, <2>2
<1>. HIDE DEF r
<1>11. hurt => r.failed
  <2>. SUFFICES ASSUME hurt PROVE r.failed
    OBVIOUS
  <2>1. broken \in 1..m /\ damaged[broken].stamp = entries[broken].stamp
    BY <1>5, <1>6
  <2>2. InWindow(damaged[broken].stamp, w) /\ damaged[broken].message.form = "number"
    BY <1>3, <1>6, <2>1
  <2>3. h[Len(damaged)].failed
    <3>1. broken \in 1..Len(damaged) /\ h \in [0..Len(damaged) -> Decoders(C)]
      BY <1>6, <2>1
    <3>. QED
      BY <1>6, <1>7, <2>2, <3>1, DamageFails
  <2>. QED
    BY <1>6, <2>3 DEF r
<1>12. ASSUME run.timestamp # 0, ~hurt
       PROVE  r.failed = FALSE /\ r.lines = shown
  <2>1. \A k \in 1..m : InWindow(entries[k].stamp, window) => damaged[k] = entries[k]
    BY <1>5, <1>6, <1>12
  <2>2. DecodesWithin(h, entries, window)
    <3>1. h[0] = Opened
      BY <1>7 DEF DecodesWithin
    <3>2. ASSUME NEW k \in 1..m
          PROVE  h[k] = IF InWindow(entries[k].stamp, window) THEN TakeEntry(h[k - 1], entries[k]) ELSE h[k - 1]
      <4>1. h[k] = IF InWindow(damaged[k].stamp, w) THEN TakeEntry(h[k - 1], damaged[k]) ELSE h[k - 1]
        BY <1>6, <1>7 DEF DecodesWithin
      <4>2. damaged[k].stamp = entries[k].stamp
        BY <1>6
      <4>. QED
        BY <1>3, <2>1, <4>1, <4>2
    <3>. QED
      BY <3>1, <3>2 DEF DecodesWithin, m
  <2>3. PICK o \in [0..n -> Nat] : LinesStand(o, entries, lines)
    BY <1>4
  <2>4. PICK x \in [0..n -> Seq(JournalLines(C))] : ShowsLines(x, lines, window)
    BY ShownWalk
  <2>5. x[0] = <<>> /\ x[n] = shown /\ \A i \in 1..n : x[i] = x[i - 1] \o Shown(lines[i], window)
    BY <2>4 DEF ShowsLines
  <2>. HIDE DEF shown
  <2>6. window.since \in Nat \ {0} /\ window.until \in Nat
    BY <1>1, <1>2, <1>12
  <2>7. LinesDecoded(h[m], x[n], lines, window, n)
    <3>1. h \in [0..Len(entries) -> Decoders(C)]
      BY DEF m
    <3>2. LinesDecoded(h[Len(entries)], x[n], lines, window, n)
      BY <1>4, <2>2, <2>3, <2>6, <2>5, <3>1, LinesTaken
    <3>. QED
      BY <3>2 DEF m
  <2>8. LinesDecoded(h[m], shown, lines, window, n)
    BY <2>7, <2>5
  <2>. HIDE DEF n
  <2>. QED
    BY <1>8, <2>8, WholeRead DEF r
<1>. HIDE DEF shown, dump
<1>13. dump = IF run.timestamp # 0 /\ ~commandFails /\ ~hurt THEN [exists |-> TRUE, lines |-> shown] ELSE NoDump
  <2>1. CASE run.timestamp = 0
    BY <1>10, <2>1
  <2>2. CASE run.timestamp # 0 /\ (commandFails \/ hurt)
    <3>1. whole = FALSE
      BY <1>11, <2>2
    <3>. HIDE DEF whole
    <3>. QED
      BY <1>10, <2>2, <3>1 DEF NoDump
  <2>3. CASE run.timestamp # 0 /\ ~commandFails /\ ~hurt
    <3>1. whole = TRUE /\ r.lines = shown
      BY <1>12, <2>3
    <3>. HIDE DEF whole
    <3>. QED
      BY <1>10, <2>3, <3>1
  <2>. QED
    BY <2>1, <2>2, <2>3
<1>. QED
  BY <1>13, PiecesAreLines, Zenon DEF JournalFaithful, dump, damaged, entries, window, shown

----------------------------------------------------------------------------
(* Relays.                                                                 *)

\* The line that the i-th character is in or ends begins at k.
BeginsAt(c, i, k) ==
    k \in 1..i /\ (k = 1 \/ c[k - 1] = Newline) /\ \A j \in k..(i - 1) : c[j] # Newline

LEMMA StartIs ==
    ASSUME NEW c, NEW i \in Nat \ {0}
    PROVE  BeginsAt(c, i, LineStart(c, i))
<1>. DEFINE K == {j \in 1..(i - 1) : c[j] = Newline}
            IsStart(k) == (k = 1 \/ c[k - 1] = Newline) /\ \A j \in k..(i - 1) : c[j] # Newline
<1>1. \E k \in 1..i : IsStart(k)
  <2>1. CASE K = {}
    <3>1. 1 \in 1..i /\ \A j \in 1..(i - 1) : c[j] # Newline
      BY <2>1
    <3>. QED
      BY <3>1
  <2>2. CASE K # {}
    <3>1. i - 1 \in Nat /\ K \in SUBSET (1..(i - 1))
      OBVIOUS
    <3>. DEFINE m == Max(K)
    <3>. HIDE DEF K
    <3>2. m \in K /\ \A j \in K : j <= m
      BY <2>2, <3>1, LargestPosition
    <3>. HIDE DEF m
    <3>3. m \in 1..(i - 1) /\ c[m] = Newline
      BY <3>2 DEF K
    <3>4. m + 1 \in 1..i /\ (m + 1) - 1 = m
      BY <3>3
    <3>5. \A j \in (m + 1)..(i - 1) : c[j] # Newline
      <4>. SUFFICES ASSUME NEW j \in (m + 1)..(i - 1), c[j] = Newline PROVE FALSE
        OBVIOUS
      <4>1. j \in K /\ ~(j <= m)
        BY <3>3 DEF K
      <4>. QED
        BY <3>2, <4>1
    <3>. QED
      BY <3>3, <3>4, <3>5
  <2>. QED
    BY <2>1, <2>2
<1>2. LineStart(c, i) = CHOOSE k \in 1..i : IsStart(k)
  BY DEF LineStart
<1>. HIDE DEF IsStart
<1>3. LineStart(c, i) \in 1..i /\ IsStart(LineStart(c, i))
  BY <1>1, <1>2
<1>. QED
  BY <1>3 DEF IsStart, BeginsAt

LEMMA StartOnlyAt ==
    ASSUME NEW c, NEW i \in Nat \ {0}, NEW k, BeginsAt(c, i, k)
    PROVE  LineStart(c, i) = k
<1>. DEFINE l == LineStart(c, i)
<1>1. l \in 1..i /\ (l = 1 \/ c[l - 1] = Newline) /\ \A j \in l..(i - 1) : c[j] # Newline
  BY StartIs DEF BeginsAt
<1>2. k \in 1..i /\ (k = 1 \/ c[k - 1] = Newline) /\ \A j \in k..(i - 1) : c[j] # Newline
  BY DEF BeginsAt
<1>. HIDE DEF l
<1>3. ~(l < k)
  <2>. SUFFICES ASSUME l < k PROVE FALSE
    OBVIOUS
  <2>1. k - 1 \in l..(i - 1) /\ k # 1
    BY <1>1, <1>2
  <2>. QED
    BY <1>1, <1>2, <2>1
<1>4. ~(k < l)
  <2>. SUFFICES ASSUME k < l PROVE FALSE
    OBVIOUS
  <2>1. l - 1 \in k..(i - 1) /\ l # 1
    BY <1>1, <1>2
  <2>. QED
    BY <1>1, <1>2, <2>1
<1>5. l = k
  BY <1>1, <1>2, <1>3, <1>4
<1>. QED
  BY <1>5 DEF l

\* One more character leaves where the earlier lines begin.
LEMMA SameStart ==
    ASSUME NEW C, NEW c \in Seq(C), NEW char \in C, NEW i \in 1..(Len(c) + 1)
    PROVE  LineStart(Append(c, char), i) = LineStart(c, i)
<1>. DEFINE a == Append(c, char)
            k == LineStart(c, i)
<1>1. Len(c) \in Nat /\ \A j \in 1..Len(c) : a[j] = c[j]
  OBVIOUS
<1>. HIDE DEF a
<1>2. k \in 1..i /\ (k = 1 \/ c[k - 1] = Newline) /\ \A j \in k..(i - 1) : c[j] # Newline
  BY <1>1, StartIs DEF BeginsAt
<1>. HIDE DEF k
<1>3. \A j \in k..(i - 1) : a[j] # Newline
  BY <1>1, <1>2
<1>4. k = 1 \/ a[k - 1] = Newline
  <2>. SUFFICES ASSUME k # 1 PROVE a[k - 1] = Newline
    OBVIOUS
  <2>1. k - 1 \in 1..Len(c)
    BY <1>1, <1>2
  <2>. QED
    BY <1>1, <1>2, <2>1
<1>5. BeginsAt(a, i, k)
  BY <1>2, <1>3, <1>4 DEF BeginsAt
<1>6. LineStart(a, i) = k
  BY <1>1, <1>5, StartOnlyAt
<1>. QED
  BY <1>6 DEF a, k

LEMMA NextStart ==
    ASSUME NEW C, NEW c \in Seq(C), NEW char \in C
    PROVE  LineStart(Append(c, char), Len(c) + 2) =
              IF char = Newline THEN Len(c) + 2 ELSE LineStart(c, Len(c) + 1)
<1>. DEFINE a == Append(c, char)
            n == Len(c)
            k == LineStart(c, n + 1)
<1>1. n \in Nat /\ a[n + 1] = char /\ \A j \in 1..n : a[j] = c[j]
  OBVIOUS
<1>. HIDE DEF a, n
<1>2. CASE char = Newline
  <2>1. (n + 2) - 1 = n + 1 /\ n + 2 \in 1..(n + 2) /\ (n + 2)..(n + 1) = {}
    BY <1>1
  <2>2. BeginsAt(a, n + 2, n + 2)
    BY <1>1, <1>2, <2>1 DEF BeginsAt
  <2>3. LineStart(a, n + 2) = n + 2
    BY <1>1, <2>2, StartOnlyAt
  <2>. QED
    BY <1>2, <2>3 DEF a, n
<1>3. CASE char # Newline
  <2>1. k \in 1..(n + 1) /\ (k = 1 \/ c[k - 1] = Newline) /\ \A j \in k..((n + 1) - 1) : c[j] # Newline
    <3>1. n + 1 \in Nat \ {0}
      BY <1>1
    <3>. QED
      BY <3>1, StartIs DEF BeginsAt
  <2>. HIDE DEF k
  <2>2. \A j \in k..((n + 2) - 1) : a[j] # Newline
    <3>. TAKE j \in k..((n + 2) - 1)
    <3>1. j \in 1..(n + 1) /\ j >= k
      BY <1>1, <2>1
    <3>2. CASE j = n + 1
      BY <1>1, <1>3, <3>2
    <3>3. CASE j # n + 1
      <4>1. j \in 1..n /\ j \in k..((n + 1) - 1)
        BY <1>1, <2>1, <3>1, <3>3
      <4>. QED
        BY <1>1, <2>1, <4>1
    <3>. QED
      BY <3>2, <3>3
  <2>3. k = 1 \/ a[k - 1] = Newline
    <3>. SUFFICES ASSUME k # 1 PROVE a[k - 1] = Newline
      OBVIOUS
    <3>1. k - 1 \in 1..n
      BY <1>1, <2>1
    <3>. QED
      BY <1>1, <2>1, <3>1
  <2>4. k \in 1..(n + 2)
    BY <1>1, <2>1
  <2>5. BeginsAt(a, n + 2, k)
    BY <2>2, <2>3, <2>4 DEF BeginsAt
  <2>6. LineStart(a, n + 2) = k
    BY <1>1, <2>5, StartOnlyAt
  <2>. QED
    BY <1>3, <2>6 DEF a, n, k
<1>. QED
  BY <1>2, <1>3

LEMMA RestOneMore ==
    ASSUME NEW C, NEW c \in Seq(C), NEW char \in C
    PROVE  RestOf(Append(c, char)) = IF char = Newline THEN <<>> ELSE Append(RestOf(c), char)
<1>. DEFINE a == Append(c, char)
            n == Len(c)
            k == LineStart(c, n + 1)
<1>1. n \in Nat /\ Len(a) = n + 1 /\ (n + 1) + 1 = n + 2
  OBVIOUS
<1>2. RestOf(a) = SubSeq(a, LineStart(a, n + 2), n + 1)
  <2>. HIDE DEF a, n
  <2>. QED
    BY <1>1, Zenon DEF RestOf
<1>3. CASE char = Newline
  <2>1. LineStart(a, n + 2) = n + 2
    BY <1>3, NextStart
  <2>2. SubSeq(a, n + 2, n + 1) = <<>>
    BY <1>1
  <2>. QED
    BY <1>2, <1>3, <2>1, <2>2
<1>4. CASE char # Newline
  <2>1. LineStart(a, n + 2) = k
    BY <1>4, NextStart
  <2>2. k \in 1..(n + 1)
    <3>. HIDE DEF n
    <3>1. n + 1 \in Nat \ {0}
      BY <1>1
    <3>. QED
      BY <3>1, StartIs DEF BeginsAt
  <2>. HIDE DEF k
  <2>3. SubSeq(a, k, n + 1) = Append(SubSeq(c, k, n), char)
    <3>1. n \in 0..n /\ n >= k - 1
      BY <1>1, <2>2
    <3>. QED
      BY <2>2, <3>1, SlicesOfMore
  <2>4. RestOf(c) = SubSeq(c, k, n)
    BY DEF RestOf, k
  <2>. HIDE DEF a, n
  <2>. QED
    BY <1>2, <1>4, <2>1, <2>3, <2>4 DEF a
<1>. QED
  BY <1>3, <1>4

Texts(C) == Seq(C) \cup {TrimCR(text) : text \in Seq(C)}

\* The lines that end in a stream, by their ends.
EndsOf(stream) ==
    [i \in DOMAIN stream |->
        IF stream[i] = Newline THEN <<TrimCR(SubSeq(stream, LineStart(stream, i), i - 1))>> ELSE <<>>]

LEMMA EndsTyped ==
    ASSUME NEW C, NEW c \in Seq(C)
    PROVE  EndsOf(c) \in Seq(Seq(Texts(C))) /\ Len(EndsOf(c)) = Len(c)
<1>. DEFINE n == Len(c)
            X == Texts(C)
            Q == Seq(X)
            b == EndsOf(c)
            line(i) == SubSeq(c, LineStart(c, i), i - 1)
<1>1. n \in Nat /\ DOMAIN c = 1..n
  OBVIOUS
<1>2. ASSUME NEW i \in 1..n
      PROVE  line(i) \in Seq(C)
  <2>. DEFINE k == LineStart(c, i)
  <2>1. k \in 1..i
    BY <1>1, StartIs DEF BeginsAt
  <2>. HIDE DEF k
  <2>2. SubSeq(c, k, i - 1) \in Seq(C)
    BY <1>1, <2>1
  <2>. QED
    BY <2>2 DEF k
<1>3. \A i \in 1..n : <<TrimCR(line(i))>> \in Q /\ <<>> \in Q
  <2>. TAKE i \in 1..n
  <2>1. TrimCR(line(i)) \in X
    <3>. HIDE DEF line
    <3>. QED
      BY <1>2 DEF Texts
  <2>. HIDE DEF X, line
  <2>. QED
    BY <2>1
<1>4. b = [i \in 1..n |-> IF c[i] = Newline THEN <<TrimCR(line(i))>> ELSE <<>>]
  <2>. HIDE DEF n
  <2>. QED
    BY <1>1 DEF EndsOf
<1>. HIDE DEF n, X, Q, b, line
<1>5. b \in [1..n -> Q]
  BY <1>3, <1>4
<1>6. b \in Seq(Q) /\ Len(b) = n
  BY <1>1, <1>5, BytesOfTuple
<1>. QED
  BY <1>6 DEF n, X, Q, b

LEMMA EndsOneMore ==
    ASSUME NEW C, NEW c \in Seq(C), NEW char \in C
    PROVE  EndsOf(Append(c, char)) =
              Append(EndsOf(c), IF char = Newline THEN <<TrimCR(RestOf(c))>> ELSE <<>>)
<1>. DEFINE n == Len(c)
            a == Append(c, char)
            X == Texts(C)
            Q == Seq(X)
            b == EndsOf(c)
            t == IF char = Newline THEN <<TrimCR(RestOf(c))>> ELSE <<>>
            d == EndsOf(a)
<1>1. n \in Nat /\ a \in Seq(C) /\ Len(a) = n + 1 /\ a[n + 1] = char /\ \A i \in 1..n : a[i] = c[i]
  OBVIOUS
<1>2. b \in Seq(Q) /\ Len(b) = n
  BY EndsTyped
<1>3. d \in Seq(Q) /\ Len(d) = n + 1
  BY <1>1, EndsTyped
<1>4. ASSUME NEW i \in 1..(n + 1)
      PROVE  d[i] = IF a[i] = Newline THEN <<TrimCR(SubSeq(a, LineStart(c, i), i - 1))>> ELSE <<>>
  <2>1. i \in DOMAIN a
    BY <1>1
  <2>2. d[i] = IF a[i] = Newline THEN <<TrimCR(SubSeq(a, LineStart(a, i), i - 1))>> ELSE <<>>
    <3>. HIDE DEF a
    <3>. QED
      BY <2>1 DEF EndsOf
  <2>3. LineStart(a, i) = LineStart(c, i)
    BY SameStart
  <2>. HIDE DEF a, d
  <2>. QED
    BY <2>2, <2>3
<1>5. ASSUME NEW i \in 1..(n + 1)
      PROVE  SubSeq(a, LineStart(c, i), i - 1) = SubSeq(c, LineStart(c, i), i - 1)
  <2>. DEFINE k == LineStart(c, i)
  <2>1. k \in 1..i
    BY <1>1, StartIs DEF BeginsAt
  <2>. HIDE DEF k
  <2>2. k \in 1..(Len(c) + 1) /\ i - 1 \in 0..Len(c) /\ i - 1 >= k - 1
    BY <1>1, <2>1
  <2>3. SubSeq(a, k, i - 1) = SubSeq(c, k, i - 1)
    BY <2>2, SlicesOfMore
  <2>. QED
    BY <2>3 DEF k
<1>. HIDE DEF a, d
<1>6. \A i \in 1..n : d[i] = b[i]
  <2>. TAKE i \in 1..n
  <2>1. i \in 1..(n + 1) /\ i \in DOMAIN c
    BY <1>1
  <2>2. b[i] = IF c[i] = Newline THEN <<TrimCR(SubSeq(c, LineStart(c, i), i - 1))>> ELSE <<>>
    BY <2>1 DEF EndsOf
  <2>. QED
    BY <1>1, <1>4, <1>5, <2>1, <2>2
<1>7. d[n + 1] = t
  <2>1. n + 1 \in 1..(n + 1) /\ (n + 1) - 1 = n
    BY <1>1
  <2>2. RestOf(c) = SubSeq(c, LineStart(c, n + 1), n)
    BY DEF RestOf
  <2>. HIDE DEF n
  <2>. QED
    BY <1>1, <1>4, <1>5, <2>1, <2>2
<1>. HIDE DEF b, t, n, Q
<1>8. d = Append(b, t)
  <2>1. Append(b, t) = [i \in 1..(Len(b) + 1) |-> IF i = Len(b) + 1 THEN t ELSE b[i]]
    <3>1. t \in Q
      BY <1>1, <1>3, <1>7
    <3>. QED
      BY <1>2, <3>1, AppendIs
  <2>2. DOMAIN d = 1..(n + 1) /\ d = [i \in 1..(n + 1) |-> d[i]]
    BY <1>3
  <2>3. \A i \in 1..(n + 1) : d[i] = IF i = n + 1 THEN t ELSE b[i]
    BY <1>1, <1>6, <1>7
  <2>. QED
    BY <1>2, <2>1, <2>2, <2>3
<1>. QED
  BY <1>8, Zenon DEF a, b, d, t

LEMMA LinesOneMore ==
    ASSUME NEW C, NEW c \in Seq(C), NEW char \in C
    PROVE  /\ char = Newline => LinesOf(Append(c, char)) = LinesOf(c) \o <<TrimCR(RestOf(c))>>
           /\ char # Newline => LinesOf(Append(c, char)) = LinesOf(c)
<1>. DEFINE t == IF char = Newline THEN <<TrimCR(RestOf(c))>> ELSE <<>>
            a == Append(c, char)
            X == Texts(C)
            n == Len(c)
<1>1. EndsOf(c) \in Seq(Seq(X)) /\ EndsOf(a) = Append(EndsOf(c), t)
  BY EndsTyped, EndsOneMore
<1>2. t \in Seq(X)
  <2>1. a \in Seq(C) /\ Len(a) = n + 1 /\ n \in Nat
    OBVIOUS
  <2>2. EndsOf(a) \in Seq(Seq(X)) /\ Len(EndsOf(a)) = n + 1
    BY <2>1, EndsTyped
  <2>3. Len(EndsOf(c)) = n
    BY EndsTyped
  <2>. HIDE DEF a, t, X, n
  <2>4. EndsOf(a)[n + 1] = t
    BY <1>1, <2>1, <2>3
  <2>5. EndsOf(a)[n + 1] \in Seq(X)
    <3>. DEFINE Q == Seq(X)
    <3>. HIDE DEF Q
    <3>1. EndsOf(a) \in Seq(Q)
      BY <2>2 DEF Q
    <3>2. EndsOf(a)[n + 1] \in Q
      BY <2>1, <2>2, <3>1
    <3>. QED
      BY <3>2 DEF Q
  <2>. QED
    BY <2>4, <2>5
<1>3. LinesOf(a) = FlattenSeq(EndsOf(a)) /\ LinesOf(c) = FlattenSeq(EndsOf(c))
  BY Zenon DEF LinesOf, EndsOf
<1>. HIDE DEF t, a, X
<1>4. LinesOf(a) = LinesOf(c) \o t
  BY <1>1, <1>2, <1>3, FlattenOneMore
<1>5. LinesOf(c) \in Seq(X)
  <2>1. PICK g \in [0..Len(EndsOf(c)) -> Seq(X)] :
           Concatenates(g, EndsOf(c)) /\ g[Len(EndsOf(c))] = FlattenSeq(EndsOf(c))
    BY <1>1, Flattened
  <2>2. Len(EndsOf(c)) = n /\ n \in Nat
    <3>1. Len(EndsOf(c)) = n
      BY EndsTyped
    <3>. QED
      BY <3>1
  <2>. HIDE DEF n
  <2>3. g[n] \in Seq(X)
    BY <2>1, <2>2
  <2>. QED
    BY <1>3, <2>1, <2>2, <2>3
<1>6. LinesOf(c) \o <<>> = LinesOf(c)
  BY <1>5, EmptyAdded
<1>7. (char = Newline => t = <<TrimCR(RestOf(c))>>) /\ (char # Newline => t = <<>>)
  BY DEF t
<1>. QED
  BY <1>4, <1>6, <1>7 DEF a

\* What a container's relay has printed, and one line more.
Printeds(L, C) == [lead : L, text : Texts(C)]

Recorded(printed, lead, text) == Append(printed, [lead |-> lead, text |-> text])

LEMMA UnderOneMore ==
    ASSUME NEW L, NEW C, NEW printed \in Seq(Printeds(L, C)), NEW lead \in L, NEW text \in Texts(C), NEW l
    PROVE  Under(l, Recorded(printed, lead, text)) =
              IF lead = l THEN Under(l, printed) \o <<text>> ELSE Under(l, printed)
<1>. DEFINE X == Texts(C)
            P == Printeds(L, C)
            Q == Seq(X)
            r == [lead |-> lead, text |-> text]
            a == Append(printed, r)
            n == Len(printed)
            of(record) == IF record.lead = l THEN <<record.text>> ELSE <<>>
            b == [k \in 1..n |-> of(printed[k])]
            d == [k \in 1..(n + 1) |-> of(a[k])]
            t == of(r)
<1>1. \A record \in P : of(record) \in Q
  <2>. TAKE record \in P
  <2>1. record.text \in X
    BY DEF Printeds
  <2>. HIDE DEF X
  <2>. QED
    BY <2>1
<1>2. r \in P /\ r.lead = lead /\ r.text = text
  BY DEF Printeds
<1>3. t = IF lead = l THEN <<text>> ELSE <<>>
  BY <1>2
<1>. HIDE DEF of, P, r, X
<1>4. /\ n \in Nat /\ Len(a) = n + 1 /\ a[n + 1] = r /\ \A k \in 1..n : a[k] = printed[k] /\ printed[k] \in P
      /\ DOMAIN a = 1..(n + 1) /\ DOMAIN printed = 1..n
  <2>1. printed \in Seq(P)
    BY DEF P
  <2>. QED
    BY <1>2, <2>1
<1>5. Under(l, printed) = FlattenSeq(b)
  <2>1. [k \in DOMAIN printed |-> IF printed[k].lead = l THEN <<printed[k].text>> ELSE <<>>] = b
    <3>. HIDE DEF n
    <3>. QED
      BY <1>4 DEF of
  <2>. QED
    BY <2>1, Zenon DEF Under
<1>6. Under(l, a) = FlattenSeq(d)
  <2>. HIDE DEF a
  <2>1. [k \in DOMAIN a |-> IF a[k].lead = l THEN <<a[k].text>> ELSE <<>>] = d
    <3>. HIDE DEF n
    <3>. QED
      BY <1>4 DEF of
  <2>. QED
    BY <2>1, Zenon DEF Under
<1>. HIDE DEF Q, n, a
<1>7. b \in Seq(Q) /\ Len(b) = n /\ \A k \in 1..n : b[k] = of(printed[k])
  <2>1. b \in [1..n -> Q]
    BY <1>1, <1>4
  <2>2. \A k \in 1..n : b[k] = of(printed[k])
    OBVIOUS
  <2>. HIDE DEF b
  <2>. QED
    BY <1>4, <2>1, <2>2, BytesOfTuple
<1>8. t \in Q
  BY <1>1, <1>2
<1>9. d = Append(b, t)
  <2>. HIDE DEF t
  <2>1. Append(b, t) = [i \in 1..(Len(b) + 1) |-> IF i = Len(b) + 1 THEN t ELSE b[i]]
    <3>. HIDE DEF b
    <3>. QED
      BY <1>7, <1>8, AppendIs
  <2>2. \A i \in 1..(n + 1) : of(a[i]) = IF i = n + 1 THEN t ELSE b[i]
    <3>. HIDE DEF b
    <3>. QED
      BY <1>4, <1>7 DEF t
  <2>. HIDE DEF b
  <2>. QED
    BY <1>7, <2>1, <2>2
<1>. HIDE DEF b, d, t
<1>10. FlattenSeq(d) = FlattenSeq(b) \o t
  <2>1. b \in Seq(Seq(X)) /\ t \in Seq(X)
    BY <1>7, <1>8 DEF Q
  <2>. QED
    BY <1>9, <2>1, FlattenOneMore
<1>11. FlattenSeq(b) \in Seq(X)
  <2>1. b \in Seq(Seq(X))
    BY <1>7 DEF Q
  <2>2. PICK g \in [0..Len(b) -> Seq(X)] : Concatenates(g, b) /\ g[Len(b)] = FlattenSeq(b)
    BY <2>1, Flattened
  <2>3. Len(b) \in 0..Len(b)
    BY <1>4, <1>7
  <2>. QED
    BY <2>2, <2>3
<1>12. FlattenSeq(b) \o <<>> = FlattenSeq(b)
  BY <1>11, EmptyAdded
<1>. QED
  BY <1>3, <1>5, <1>6, <1>10, <1>12 DEF Recorded, a, r

Relays(L, C) == [pending : [L -> Seq(C)], printed : Seq(Printeds(L, C))]
Relay(p, q) == [pending |-> p, printed |-> q]

Held(s, x) == [s EXCEPT !.pending = x]
PrintedAs(s, x) == [s EXCEPT !.printed = x]
LEMMA RelayUpdated ==
    ASSUME NEW L, NEW C, NEW s \in Relays(L, C), NEW x
    PROVE  /\ Held(s, x) = Relay(x, s.printed) /\ PrintedAs(s, x) = Relay(s.pending, x)
           /\ s.pending \in [L -> Seq(C)] /\ s.printed \in Seq(Printeds(L, C))
<1>. DEFINE A == [L -> Seq(C)]
            B == Seq(Printeds(L, C))
<1>. HIDE DEF A, B
<1>1. s \in [pending : A, printed : B]
  BY DEF Relays, A, B
<1>2. s = Relay(s.pending, s.printed) /\ s.pending \in A /\ s.printed \in B
  BY <1>1 DEF Relay
<1>3. PICK p, q : s = Relay(p, q) /\ s.pending = p /\ s.printed = q
  BY <1>2, Zenon
<1>4. [Relay(p, q) EXCEPT !.pending = x] = Relay(x, q)
  BY DEF Relay
<1>5. [Relay(p, q) EXCEPT !.printed = x] = Relay(p, x)
  BY DEF Relay
<1>6. Held(s, x) = Relay(x, s.printed)
  BY <1>3, <1>4 DEF Held
<1>7. PrintedAs(s, x) = Relay(s.pending, x)
  BY <1>3, <1>5 DEF PrintedAs
<1>. QED
  BY <1>2, <1>6, <1>7 DEF A, B

LEMMA RelayIs ==
    ASSUME NEW L, NEW C, NEW p \in [L -> Seq(C)], NEW q \in Seq(Printeds(L, C))
    PROVE  /\ Relay(p, q) \in Relays(L, C) /\ Relay(p, q).pending = p /\ Relay(p, q).printed = q
<1>. DEFINE A == [L -> Seq(C)]
            B == Seq(Printeds(L, C))
<1>. HIDE DEF A, B
<1>1. p \in A /\ q \in B
  BY DEF A, B
<1>2. Relay(p, q) \in [pending : A, printed : B]
  BY <1>1 DEF Relay
<1>3. Relay(p, q).pending = p /\ Relay(p, q).printed = q
  BY DEF Relay
<1>. QED
  BY <1>2, <1>3 DEF A, B, Relays

\* Two relays are the same for a container, or for all but one.
Alike(m, s, t) == t.pending[m] = s.pending[m] /\ Under(m, t.printed) = Under(m, s.printed)
AlikeBut(L, l, s, t) == \A m \in L : m # l => Alike(m, s, t)

\* The relay after the line text of l.
Emptied(s, l) == [s EXCEPT !.pending[l] = <<>>]
PrintedLine(s, l, text) == Relay(SetAt(s.pending, l, <<>>), Recorded(s.printed, l, text))

LEMMA PrintsLine ==
    ASSUME NEW L, NEW C, NEW s \in Relays(L, C), NEW l \in L, NEW text \in Texts(C)
    PROVE  LET r == Emptied(Printf(s, l, text), l)
           IN  /\ r \in Relays(L, C) /\ r.pending[l] = <<>>
               /\ Under(l, r.printed) = Under(l, s.printed) \o <<text>>
               /\ AlikeBut(L, l, s, r)
<1>. DEFINE P == Printeds(L, C)
            S == Seq(C)
            e == <<>>
            q == Recorded(s.printed, l, text)
            p == SetAt(s.pending, l, e)
            t == Printf(s, l, text)
            r == Emptied(t, l)
<1>1. s.pending \in [L -> S] /\ s.printed \in Seq(P) /\ e \in S
  BY RelayUpdated
<1>2. [lead |-> l, text |-> text] \in P
  BY DEF Printeds
<1>3. q \in Seq(P)
  <2>. HIDE DEF P
  <2>. QED
    BY <1>1, <1>2 DEF Recorded
<1>. HIDE DEF S, e, P, q
<1>4. p \in [L -> S] /\ \A m \in L : p[m] = IF m = l THEN e ELSE s.pending[m]
  <2>. DEFINE f == s.pending
  <2>. HIDE DEF f
  <2>1. f \in [L -> S] /\ e \in S
    BY <1>1 DEF f
  <2>2. SetAt(f, l, e) \in [L -> S] /\ SetsAt(L, l, e, f, SetAt(f, l, e))
    BY <2>1, SetAtIs
  <2>. QED
    BY <2>2, Zenon DEF SetsAt, f
<1>5. t = Relay(s.pending, q)
  <2>1. t = PrintedAs(s, q)
    BY Zenon DEF Printf, PrintedAs, Recorded, q
  <2>. HIDE DEF t
  <2>. QED
    BY <2>1, RelayUpdated
<1>. HIDE DEF p
<1>6. t \in Relays(L, C) /\ t.pending = s.pending /\ t.printed = q
  <2>. HIDE DEF t
  <2>. DEFINE f == s.pending
  <2>1. f \in [L -> Seq(C)] /\ q \in Seq(Printeds(L, C))
    BY <1>1, <1>3 DEF P, S
  <2>. HIDE DEF f
  <2>2. Relay(f, q) \in Relays(L, C) /\ Relay(f, q).pending = f /\ Relay(f, q).printed = q
    BY <2>1, RelayIs
  <2>. QED
    BY <1>5, <2>2 DEF f
<1>7. r = Held(t, SetAt(t.pending, l, e))
  BY DEF Emptied, Held, SetAt, e
<1>. HIDE DEF t, r
<1>8. r = Relay(p, q)
  <2>1. r = Held(t, p)
    BY <1>6, <1>7 DEF p
  <2>. QED
    BY <1>6, <2>1, RelayUpdated
<1>9. r \in Relays(L, C) /\ r.pending = p /\ r.printed = q
  BY <1>3, <1>4, <1>8, RelayIs DEF P, S
<1>10. \A m \in L : Under(m, q) = IF l = m THEN Under(m, s.printed) \o <<text>> ELSE Under(m, s.printed)
  <2>. TAKE m \in L
  <2>. DEFINE before == s.printed
  <2>1. before \in Seq(Printeds(L, C))
    BY <1>1 DEF P
  <2>. HIDE DEF before
  <2>2. Under(m, Recorded(before, l, text)) = IF l = m THEN Under(m, before) \o <<text>> ELSE Under(m, before)
    BY <2>1, UnderOneMore
  <2>. QED
    BY <2>2 DEF before, q
<1>11. r.pending[l] = e /\ Under(l, r.printed) = Under(l, s.printed) \o <<text>>
  BY <1>4, <1>9, <1>10
<1>12. AlikeBut(L, l, s, r)
  BY <1>4, <1>9, <1>10 DEF AlikeBut, Alike
<1>. QED
  BY <1>9, <1>11, <1>12 DEF r, t, e

\* What is held and printed of a container is what its stream c makes.
Follow(l, s, c) == s.pending[l] = RestOf(c) /\ Under(l, s.printed) = LinesOf(c)

LEMMA PutOne ==
    ASSUME NEW L, NEW C, NEW s \in Relays(L, C), NEW l \in L, NEW char \in C
    PROVE  /\ Put(s, l, char) \in Relays(L, C)
           /\ AlikeBut(L, l, s, Put(s, l, char))
           /\ \A c \in Seq(C) : Follow(l, s, c) => Follow(l, Put(s, l, char), Append(c, char))
<1>. DEFINE r == Put(s, l, char)
            held == s.pending[l]
<1>1. s.pending \in [L -> Seq(C)] /\ s.printed \in Seq(Printeds(L, C)) /\ held \in Seq(C)
  <2>1. s.pending \in [L -> Seq(C)] /\ s.printed \in Seq(Printeds(L, C))
    BY RelayUpdated
  <2>. QED
    BY <2>1
<1>2. CASE char = Newline
  <2>. DEFINE text == TrimCR(held)
  <2>1. text \in Texts(C)
    <3>. HIDE DEF held
    <3>. QED
      BY <1>1 DEF Texts
  <2>2. r = Emptied(Printf(s, l, text), l)
    BY <1>2, Zenon DEF Put, Emptied
  <2>. HIDE DEF r, text
  <2>3. /\ r \in Relays(L, C) /\ r.pending[l] = <<>>
        /\ Under(l, r.printed) = Under(l, s.printed) \o <<text>>
        /\ AlikeBut(L, l, s, r)
    BY <2>1, <2>2, PrintsLine
  <2>4. ASSUME NEW c \in Seq(C), Follow(l, s, c)
        PROVE  Follow(l, r, Append(c, char))
    <3>1. text = TrimCR(RestOf(c)) /\ Under(l, s.printed) = LinesOf(c)
      BY <2>4 DEF Follow, text
    <3>2. RestOf(Append(c, char)) = <<>> /\ LinesOf(Append(c, char)) = LinesOf(c) \o <<TrimCR(RestOf(c))>>
      BY <1>2, RestOneMore, LinesOneMore
    <3>. HIDE DEF held
    <3>. QED
      BY <2>3, <3>1, <3>2 DEF Follow
  <2>. QED
    BY <2>3, <2>4 DEF r
<1>3. CASE char # Newline
  <2>. DEFINE x == Append(held, char)
              p == SetAt(s.pending, l, x)
  <2>1. r = Held(s, p)
    BY <1>3, Zenon DEF Put, Held, SetAt
  <2>2. p \in [L -> Seq(C)] /\ \A m \in L : p[m] = IF m = l THEN x ELSE s.pending[m]
    <3>. DEFINE S == Seq(C)
    <3>1. x \in S
      BY <1>1
    <3>. HIDE DEF x, S
    <3>2. s.pending \in [L -> S]
      BY <1>1 DEF S
    <3>3. p \in [L -> S] /\ SetsAt(L, l, x, s.pending, p)
      BY <3>1, <3>2, SetAtIs
    <3>. QED
      BY <3>3 DEF S, SetsAt
  <2>. HIDE DEF r, p
  <2>3. r = Relay(p, s.printed)
    BY <2>1, RelayUpdated
  <2>4. r \in Relays(L, C) /\ r.pending = p /\ r.printed = s.printed
    BY <1>1, <2>2, <2>3, RelayIs
  <2>5. ASSUME NEW c \in Seq(C), Follow(l, s, c)
        PROVE  Follow(l, r, Append(c, char))
    <3>1. held = RestOf(c) /\ Under(l, s.printed) = LinesOf(c)
      BY <2>5 DEF Follow
    <3>2. RestOf(Append(c, char)) = Append(RestOf(c), char) /\ LinesOf(Append(c, char)) = LinesOf(c)
      BY <1>3, RestOneMore, LinesOneMore
    <3>3. r.pending[l] = Append(held, char)
      BY <2>2, <2>4
    <3>. HIDE DEF held
    <3>. QED
      BY <2>4, <3>1, <3>2, <3>3 DEF Follow
  <2>. QED
    BY <2>2, <2>4, <2>5 DEF AlikeBut, Alike, r
<1>. QED
  BY <1>2, <1>3

\* A container whose open line was printed.
Closed(l, s, c) ==
    /\ s.pending[l] = <<>>
    /\ Under(l, s.printed) = LinesOf(c) \o IF RestOf(c) = <<>> THEN <<>> ELSE <<RestOf(c)>>

LEMMA LinesTyped ==
    ASSUME NEW C, NEW c \in Seq(C)
    PROVE  LinesOf(c) \in Seq(Texts(C))
<1>. DEFINE X == Texts(C)
            b == EndsOf(c)
<1>1. b \in Seq(Seq(X)) /\ Len(b) = Len(c) /\ Len(c) \in Nat
  <2>1. Len(c) \in Nat
    OBVIOUS
  <2>. QED
    BY <2>1, EndsTyped
<1>2. LinesOf(c) = FlattenSeq(b)
  BY Zenon DEF LinesOf, EndsOf
<1>. HIDE DEF b, X
<1>3. PICK g \in [0..Len(b) -> Seq(X)] : Concatenates(g, b) /\ g[Len(b)] = FlattenSeq(b)
  BY <1>1, Flattened
<1>4. g[Len(b)] \in Seq(X)
  BY <1>1, <1>3
<1>. QED
  BY <1>2, <1>3, <1>4 DEF X

LEMMA FlushOne ==
    ASSUME NEW L, NEW C, NEW s \in Relays(L, C), NEW l \in L
    PROVE  /\ FlushPartial(s, l) \in Relays(L, C)
           /\ AlikeBut(L, l, s, FlushPartial(s, l))
           /\ \A c \in Seq(C) : Follow(l, s, c) \/ Closed(l, s, c) => Closed(l, FlushPartial(s, l), c)
<1>. DEFINE r == FlushPartial(s, l)
            held == s.pending[l]
<1>1. held \in Seq(C)
  <2>1. s.pending \in [L -> Seq(C)]
    BY RelayUpdated
  <2>. QED
    BY <2>1
<1>2. CASE held = <<>>
  <2>1. r = s
    BY <1>2 DEF FlushPartial
  <2>2. ASSUME NEW c \in Seq(C), Follow(l, s, c)
        PROVE  Closed(l, s, c)
    <3>1. RestOf(c) = <<>> /\ Under(l, s.printed) = LinesOf(c)
      BY <1>2, <2>2 DEF Follow
    <3>2. LinesOf(c) \o <<>> = LinesOf(c)
      BY LinesTyped, EmptyAdded
    <3>. QED
      BY <1>2, <3>1, <3>2 DEF Closed
  <2>. QED
    BY <2>1, <2>2 DEF AlikeBut, Alike
<1>3. CASE held # <<>>
  <2>1. held \in Texts(C)
    BY <1>1 DEF Texts
  <2>2. r = Emptied(Printf(s, l, held), l)
    BY <1>3, Zenon DEF FlushPartial, Emptied
  <2>. HIDE DEF r, held
  <2>3. /\ r \in Relays(L, C) /\ r.pending[l] = <<>>
        /\ Under(l, r.printed) = Under(l, s.printed) \o <<held>>
        /\ AlikeBut(L, l, s, r)
    BY <2>1, <2>2, PrintsLine
  <2>4. ASSUME NEW c \in Seq(C), Follow(l, s, c) \/ Closed(l, s, c)
        PROVE  Closed(l, r, c)
    <3>1. ~Closed(l, s, c)
      BY <1>3 DEF Closed, held
    <3>2. held = RestOf(c) /\ Under(l, s.printed) = LinesOf(c)
      BY <2>4, <3>1 DEF Follow, held
    <3>. QED
      BY <1>3, <2>3, <3>2 DEF Closed
  <2>. QED
    BY <2>3, <2>4 DEF r
<1>. QED
  BY <1>2, <1>3

\* The relays that the characters of a write lead to.
WriteWalks(h, s, l, data) ==
    h[0] = s /\ \A k \in 1..Len(data) : h[k] = Put(h[k - 1], l, data[k])

LEMMA WriteIsWalk ==
    ASSUME NEW L, NEW C, NEW s \in Relays(L, C), NEW l \in L, NEW data \in Seq(C)
    PROVE  \E h \in [0..Len(data) -> Relays(L, C)] : WriteWalks(h, s, l, data) /\ h[Len(data)] = Write(s, l, data)
<1>. DEFINE n == Len(data)
            A == Relays(L, C)
            V == C
            F == [p \in A \X (1..n) |-> Put(p[1], l, data[p[2]])]
            Computes(g) ==
               g = [d \in SUBSET (1..n) |->
                       IF d = {} THEN s ELSE Put(g[d \ {Max(d)}], l, data[Max(d)])]
            iter == CHOOSE g : Computes(g)
<1>1. n \in Nat /\ DOMAIN data = 1..n /\ \A i \in 1..n : data[i] \in V
  <2>. HIDE DEF V
  <2>1. data \in Seq(V)
    BY DEF V
  <2>. QED
    BY <2>1, LinesAre
<1>2. F \in [A \X (1..n) -> A] /\ \A a \in A, i \in 1..n : F[<<a, i>>] = Put(a, l, data[i])
  <2>1. \A a \in A, i \in 1..n : Put(a, l, data[i]) \in A
    BY <1>1, PutOne
  <2>. HIDE DEF n, A
  <2>. QED
    BY <2>1
<1>3. Write(s, l, data) = iter[1..n]
  BY <1>1 DEF Write, FoldLeft, MapThenFoldSet
<1>. HIDE DEF F, n, A
<1>4. s \in A
  BY DEF A
<1>5. Computes(iter)
  <2>1. PICK g \in [SUBSET (1..n) -> A] : Folds(g, n, s, F)
    BY <1>1, <1>2, <1>4, FoldExists
  <2>2. ASSUME NEW d \in SUBSET (1..n), d # {}
        PROVE  F[<<g[d \ {Max(d)}], Max(d)>>] = Put(g[d \ {Max(d)}], l, data[Max(d)])
    <3>1. Max(d) \in 1..n
      BY <1>1, <2>2, LargestPosition
    <3>2. g[d \ {Max(d)}] \in A
      BY <2>1
    <3>. QED
      BY <1>2, <3>1, <3>2
  <2>3. Computes(g)
    BY <2>1, <2>2 DEF Folds
  <2>. HIDE DEF Computes
  <2>. QED
    BY <2>3
<1>. HIDE DEF iter
<1>6. ComputedIn(iter, A, n, s, F)
  <2>1. iter[{}] = s
    <3>1. {} \in SUBSET (1..n)
      OBVIOUS
    <3>. QED
      BY <1>5, <3>1
  <2>2. ASSUME NEW d \in SUBSET (1..n), d # {}, iter[d \ {Max(d)}] \in A
        PROVE  iter[d] = F[<<iter[d \ {Max(d)}], Max(d)>>]
    <3>1. Max(d) \in 1..n
      BY <1>1, <2>2, LargestPosition
    <3>2. iter[d] = Put(iter[d \ {Max(d)}], l, data[Max(d)])
      BY <1>5, <2>2
    <3>. QED
      BY <1>2, <2>2, <3>1, <3>2
  <2>. HIDE DEF Computes
  <2>. QED
    BY <2>1, <2>2 DEF ComputedIn
<1>. HIDE DEF Computes
<1>7. PICK t \in [0..n -> A] : Walk(t, iter, n, s, F)
  BY <1>1, <1>2, <1>4, <1>6, FoldIsWalk
<1>8. t[0] = s /\ t[n] = iter[1..n] /\ \A k \in 1..n : t[k] = F[<<t[k - 1], k>>]
  BY <1>7 DEF Walk
<1>9. \A k \in 1..n : t[k] = Put(t[k - 1], l, data[k])
  <2>1. \A k \in 1..n : t[k - 1] \in A
    BY <1>1, <1>7
  <2>. QED
    BY <1>2, <1>8, <2>1
<1>10. WriteWalks(t, s, l, data) /\ t[n] = Write(s, l, data)
  BY <1>3, <1>8, <1>9 DEF WriteWalks, n
<1>. QED
  BY <1>7, <1>10 DEF n, A

LEMMA WriteTyped ==
    ASSUME NEW L, NEW C, NEW s \in Relays(L, C), NEW l \in L, NEW data \in Seq(C)
    PROVE  Write(s, l, data) \in Relays(L, C)
<1>. DEFINE n == Len(data)
            A == Relays(L, C)
<1>1. n \in 0..n
  BY LinesAre
<1>. HIDE DEF A, n
<1>2. PICK h \in [0..n -> A] : WriteWalks(h, s, l, data) /\ h[n] = Write(s, l, data)
  BY WriteIsWalk DEF A, n
<1>3. h[n] \in A
  BY <1>1, <1>2
<1>. QED
  BY <1>2, <1>3 DEF A

\* The relays that the writes lead to.
WritesWalk(h, leads, writes) ==
    /\ h[0] = Streams(leads)
    /\ \A k \in 1..Len(writes) : h[k] = Write(h[k - 1], writes[k][1], writes[k][2])

LEMMA WrittenIsWalk ==
    ASSUME NEW L, NEW C, NEW leads, Streams(leads) \in Relays(L, C), NEW writes \in Seq(L \X Seq(C))
    PROVE  \E h \in [0..Len(writes) -> Relays(L, C)] : WritesWalk(h, leads, writes) /\ h[Len(writes)] = Written(leads, writes)
<1>. DEFINE n == Len(writes)
            A == Relays(L, C)
            V == L \X Seq(C)
            F == [p \in A \X (1..n) |-> Write(p[1], writes[p[2]][1], writes[p[2]][2])]
            Computes(g) ==
               g = [d \in SUBSET (1..n) |->
                       IF d = {} THEN Streams(leads) ELSE Write(g[d \ {Max(d)}], writes[Max(d)][1], writes[Max(d)][2])]
            iter == CHOOSE g : Computes(g)
<1>1. n \in Nat /\ DOMAIN writes = 1..n /\ \A i \in 1..n : writes[i] \in V
  <2>. HIDE DEF V
  <2>1. writes \in Seq(V)
    BY DEF V
  <2>. QED
    BY <2>1, LinesAre
<1>2. F \in [A \X (1..n) -> A] /\ \A a \in A, i \in 1..n : F[<<a, i>>] = Write(a, writes[i][1], writes[i][2])
  <2>1. \A a \in A, i \in 1..n : Write(a, writes[i][1], writes[i][2]) \in A
    <3>1. \A i \in 1..n : writes[i][1] \in L /\ writes[i][2] \in Seq(C)
      BY <1>1
    <3>. QED
      BY <3>1, WriteTyped
  <2>. HIDE DEF n, A
  <2>. QED
    BY <2>1
<1>3. Written(leads, writes) = iter[1..n]
  BY <1>1 DEF Written, FoldLeft, MapThenFoldSet
<1>. HIDE DEF F, n, A
<1>4. Streams(leads) \in A
  BY DEF A
<1>5. Computes(iter)
  <2>1. PICK g \in [SUBSET (1..n) -> A] : Folds(g, n, Streams(leads), F)
    BY <1>1, <1>2, <1>4, FoldExists
  <2>2. ASSUME NEW d \in SUBSET (1..n), d # {}
        PROVE  F[<<g[d \ {Max(d)}], Max(d)>>] = Write(g[d \ {Max(d)}], writes[Max(d)][1], writes[Max(d)][2])
    <3>1. Max(d) \in 1..n
      BY <1>1, <2>2, LargestPosition
    <3>2. g[d \ {Max(d)}] \in A
      BY <2>1
    <3>. QED
      BY <1>2, <3>1, <3>2
  <2>3. Computes(g)
    BY <2>1, <2>2 DEF Folds
  <2>. HIDE DEF Computes
  <2>. QED
    BY <2>3
<1>. HIDE DEF iter
<1>6. ComputedIn(iter, A, n, Streams(leads), F)
  <2>1. iter[{}] = Streams(leads)
    <3>1. {} \in SUBSET (1..n)
      OBVIOUS
    <3>. QED
      BY <1>5, <3>1
  <2>2. ASSUME NEW d \in SUBSET (1..n), d # {}, iter[d \ {Max(d)}] \in A
        PROVE  iter[d] = F[<<iter[d \ {Max(d)}], Max(d)>>]
    <3>1. Max(d) \in 1..n
      BY <1>1, <2>2, LargestPosition
    <3>2. iter[d] = Write(iter[d \ {Max(d)}], writes[Max(d)][1], writes[Max(d)][2])
      BY <1>5, <2>2
    <3>. QED
      BY <1>2, <2>2, <3>1, <3>2
  <2>. HIDE DEF Computes
  <2>. QED
    BY <2>1, <2>2 DEF ComputedIn
<1>. HIDE DEF Computes
<1>7. PICK t \in [0..n -> A] : Walk(t, iter, n, Streams(leads), F)
  BY <1>1, <1>2, <1>4, <1>6, FoldIsWalk
<1>8. t[0] = Streams(leads) /\ t[n] = iter[1..n] /\ \A k \in 1..n : t[k] = F[<<t[k - 1], k>>]
  BY <1>7 DEF Walk
<1>9. \A k \in 1..n : t[k] = Write(t[k - 1], writes[k][1], writes[k][2])
  <2>1. \A k \in 1..n : t[k - 1] \in A
    BY <1>1, <1>7
  <2>. QED
    BY <1>2, <1>8, <2>1
<1>10. WritesWalk(t, leads, writes) /\ t[n] = Written(leads, writes)
  BY <1>3, <1>8, <1>9 DEF WritesWalk, n
<1>. QED
  BY <1>7, <1>10 DEF n, A

\* The relays that the ends of the streams lead to.
FlushesWalk(h, s, leads) ==
    h[0] = s /\ \A k \in 1..Len(leads) : h[k] = FlushPartial(h[k - 1], leads[k])

LEMMA FlushIsWalk ==
    ASSUME NEW L, NEW C, NEW s \in Relays(L, C), NEW leads \in Seq(L)
    PROVE  \E h \in [0..Len(leads) -> Relays(L, C)] : FlushesWalk(h, s, leads) /\ h[Len(leads)] = FoldLeft(FlushPartial, s, leads)
<1>. DEFINE n == Len(leads)
            A == Relays(L, C)
            V == L
            F == [p \in A \X (1..n) |-> FlushPartial(p[1], leads[p[2]])]
            Computes(g) ==
               g = [d \in SUBSET (1..n) |->
                       IF d = {} THEN s ELSE FlushPartial(g[d \ {Max(d)}], leads[Max(d)])]
            iter == CHOOSE g : Computes(g)
<1>1. n \in Nat /\ DOMAIN leads = 1..n /\ \A i \in 1..n : leads[i] \in V
  <2>. HIDE DEF V
  <2>1. leads \in Seq(V)
    BY DEF V
  <2>. QED
    BY <2>1, LinesAre
<1>2. F \in [A \X (1..n) -> A] /\ \A a \in A, i \in 1..n : F[<<a, i>>] = FlushPartial(a, leads[i])
  <2>1. \A a \in A, i \in 1..n : FlushPartial(a, leads[i]) \in A
    BY <1>1, FlushOne
  <2>. HIDE DEF n, A
  <2>. QED
    BY <2>1
<1>3. FoldLeft(FlushPartial, s, leads) = iter[1..n]
  BY <1>1 DEF FoldLeft, MapThenFoldSet
<1>. HIDE DEF F, n, A
<1>4. s \in A
  BY DEF A
<1>5. Computes(iter)
  <2>1. PICK g \in [SUBSET (1..n) -> A] : Folds(g, n, s, F)
    BY <1>1, <1>2, <1>4, FoldExists
  <2>2. ASSUME NEW d \in SUBSET (1..n), d # {}
        PROVE  F[<<g[d \ {Max(d)}], Max(d)>>] = FlushPartial(g[d \ {Max(d)}], leads[Max(d)])
    <3>1. Max(d) \in 1..n
      BY <1>1, <2>2, LargestPosition
    <3>2. g[d \ {Max(d)}] \in A
      BY <2>1
    <3>. QED
      BY <1>2, <3>1, <3>2
  <2>3. Computes(g)
    BY <2>1, <2>2 DEF Folds
  <2>. HIDE DEF Computes
  <2>. QED
    BY <2>3
<1>. HIDE DEF iter
<1>6. ComputedIn(iter, A, n, s, F)
  <2>1. iter[{}] = s
    <3>1. {} \in SUBSET (1..n)
      OBVIOUS
    <3>. QED
      BY <1>5, <3>1
  <2>2. ASSUME NEW d \in SUBSET (1..n), d # {}, iter[d \ {Max(d)}] \in A
        PROVE  iter[d] = F[<<iter[d \ {Max(d)}], Max(d)>>]
    <3>1. Max(d) \in 1..n
      BY <1>1, <2>2, LargestPosition
    <3>2. iter[d] = FlushPartial(iter[d \ {Max(d)}], leads[Max(d)])
      BY <1>5, <2>2
    <3>. QED
      BY <1>2, <2>2, <3>1, <3>2
  <2>. HIDE DEF Computes
  <2>. QED
    BY <2>1, <2>2 DEF ComputedIn
<1>. HIDE DEF Computes
<1>7. PICK t \in [0..n -> A] : Walk(t, iter, n, s, F)
  BY <1>1, <1>2, <1>4, <1>6, FoldIsWalk
<1>8. t[0] = s /\ t[n] = iter[1..n] /\ \A k \in 1..n : t[k] = F[<<t[k - 1], k>>]
  BY <1>7 DEF Walk
<1>9. \A k \in 1..n : t[k] = FlushPartial(t[k - 1], leads[k])
  <2>1. \A k \in 1..n : t[k - 1] \in A
    BY <1>1, <1>7
  <2>. QED
    BY <1>2, <1>8, <2>1
<1>10. FlushesWalk(t, s, leads) /\ t[n] = FoldLeft(FlushPartial, s, leads)
  BY <1>3, <1>8, <1>9 DEF FlushesWalk, n
<1>. QED
  BY <1>7, <1>10 DEF n, A

\* A write follows its stream and leaves the others alone.
LEMMA WriteFollows ==
    ASSUME NEW L, NEW C, NEW s \in Relays(L, C), NEW l \in L, NEW data \in Seq(C)
    PROVE  /\ AlikeBut(L, l, s, Write(s, l, data))
           /\ \A c \in Seq(C) : Follow(l, s, c) => Follow(l, Write(s, l, data), c \o data)
<1>. DEFINE n == Len(data)
            A == Relays(L, C)
<1>1. n \in Nat /\ n \in 0..n /\ DOMAIN data = 1..n
  BY LinesAre
<1>2. PICK h \in [0..n -> A] : WriteWalks(h, s, l, data) /\ h[n] = Write(s, l, data)
  BY WriteIsWalk
<1>. HIDE DEF A, n
<1>3. h[0] = s /\ \A k \in 1..n : h[k] = Put(h[k - 1], l, data[k])
  BY <1>2 DEF WriteWalks, n
<1>4. ASSUME NEW k \in 0..(n - 1)
      PROVE  /\ AlikeBut(L, l, h[k], h[k + 1])
             /\ \A c \in Seq(C) : Follow(l, h[k], c) => Follow(l, h[k + 1], Append(c, data[k + 1]))
  <2>1. k \in 0..n /\ k + 1 \in 1..n /\ (k + 1) - 1 = k
    BY <1>1
  <2>2. h[k] \in Relays(L, C) /\ h[k + 1] = Put(h[k], l, data[k + 1])
    BY <1>2, <1>3, <2>1 DEF A
  <2>3. data[k + 1] \in C
    BY <2>1 DEF n
  <2>. QED
    BY <2>2, <2>3, PutOne
<1>. DEFINE U == {k \in Nat : k <= n => AlikeBut(L, l, s, h[k])}
<1>5. 0 \in U
  BY <1>3 DEF AlikeBut, Alike
<1>6. ASSUME NEW k \in U
      PROVE  k + 1 \in U
  <2>. SUFFICES ASSUME k + 1 <= n PROVE AlikeBut(L, l, s, h[k + 1])
    OBVIOUS
  <2>1. k \in 0..(n - 1) /\ k <= n
    BY <1>1
  <2>2. AlikeBut(L, l, s, h[k]) /\ AlikeBut(L, l, h[k], h[k + 1])
    BY <1>4, <2>1
  <2>. QED
    BY <2>2 DEF AlikeBut, Alike
<1>7. U = Nat
  <2>1. U \in SUBSET Nat
    OBVIOUS
  <2>. HIDE DEF U
  <2>. QED
    BY <1>5, <1>6, <2>1, SetInduction
<1>8. AlikeBut(L, l, s, h[n])
  <2>1. n \in U
    BY <1>1, <1>7
  <2>. QED
    BY <1>1, <2>1
<1>. HIDE DEF U
<1>9. ASSUME NEW c \in Seq(C), Follow(l, s, c)
      PROVE  Follow(l, h[n], c \o data)
  <2>. DEFINE W == {k \in Nat : k <= n => Follow(l, h[k], c \o SubSeq(data, 1, k))}
  <2>1. 0 \in W
    BY <1>3, <1>9, WholeData
  <2>2. ASSUME NEW k \in W
        PROVE  k + 1 \in W
    <3>. SUFFICES ASSUME k + 1 <= n PROVE Follow(l, h[k + 1], c \o SubSeq(data, 1, k + 1))
      OBVIOUS
    <3>. DEFINE b == c \o SubSeq(data, 1, k)
    <3>1. k \in 0..(n - 1) /\ k <= n
      BY <1>1
    <3>2. Follow(l, h[k], b)
      BY <3>1
    <3>3. c \o SubSeq(data, 1, k + 1) = Append(b, data[k + 1]) /\ b \in Seq(C)
      BY <3>1, PrefixMore DEF n
    <3>. HIDE DEF b, W
    <3>4. Follow(l, h[k + 1], Append(b, data[k + 1]))
      BY <1>4, <3>1, <3>2, <3>3
    <3>. QED
      BY <3>3, <3>4
  <2>3. W = Nat
    <3>1. W \in SUBSET Nat
      OBVIOUS
    <3>. HIDE DEF W
    <3>. QED
      BY <2>1, <2>2, <3>1, SetInduction
  <2>4. n \in W
    <3>. HIDE DEF W
    <3>. QED
      BY <1>1, <2>3
  <2>5. Follow(l, h[n], c \o SubSeq(data, 1, n))
    BY <1>1, <2>4
  <2>. QED
    BY <2>5, WholeData DEF n
<1>. QED
  BY <1>2, <1>8, <1>9

LEMMA StreamsFollow ==
    ASSUME NEW C, NEW leads, NEW l \in Range(leads)
    PROVE  Streams(leads) \in Relays(Range(leads), C) /\ Follow(l, Streams(leads), <<>>)
<1>. DEFINE s == Streams(leads)
            p == [m \in Range(leads) |-> <<>>]
            e == <<>>
<1>1. p \in [Range(leads) -> Seq(C)] /\ p[l] = <<>> /\ e \in Seq(Printeds(Range(leads), C))
  OBVIOUS
<1>2. s = Relay(p, e)
  BY DEF Streams, Relay
<1>. HIDE DEF p
<1>3. s \in Relays(Range(leads), C) /\ s.pending = p /\ s.printed = e
  <2>. HIDE DEF s, e
  <2>. QED
    BY <1>1, <1>2, RelayIs
<1>4. RestOf(e) = <<>>
  <2>1. LineStart(e, 1) = 1
    <3>1. LineStart(e, 1) \in 1..1
      BY StartIs DEF BeginsAt
    <3>. QED
      BY <3>1
  <2>2. Len(e) = 0 /\ Len(e) + 1 = 1 /\ SubSeq(e, 1, 0) = <<>>
    OBVIOUS
  <2>3. RestOf(e) = SubSeq(e, LineStart(e, Len(e) + 1), Len(e))
    BY DEF RestOf
  <2>. HIDE DEF e
  <2>. QED
    BY <2>1, <2>2, <2>3
<1>5. LinesOf(e) = <<>>
  <2>1. EndsOf(e) = <<>>
    BY DEF EndsOf
  <2>2. LinesOf(e) = FlattenSeq(EndsOf(e))
    BY Zenon DEF LinesOf, EndsOf
  <2>. QED
    BY <2>1, <2>2, EmptyFlattened
<1>6. Under(l, e) = <<>>
  <2>1. [k \in DOMAIN e |-> IF e[k].lead = l THEN <<e[k].text>> ELSE <<>>] = <<>>
    OBVIOUS
  <2>2. Under(l, e) = FlattenSeq([k \in DOMAIN e |-> IF e[k].lead = l THEN <<e[k].text>> ELSE <<>>])
    BY Zenon DEF Under
  <2>. QED
    BY <2>1, <2>2, EmptyFlattened
<1>. HIDE DEF s
<1>7. Follow(l, s, e)
  BY <1>1, <1>3, <1>4, <1>5, <1>6 DEF Follow
<1>. QED
  BY <1>3, <1>7 DEF s

\* All that was written of a container is followed.
LEMMA WrittenFollows ==
    ASSUME NEW C, NEW leads, NEW writes \in Seq(Range(leads) \X Seq(C)), NEW l \in Range(leads)
    PROVE  /\ Written(leads, writes) \in Relays(Range(leads), C)
           /\ StreamOf(l, writes) \in Seq(C)
           /\ Follow(l, Written(leads, writes), StreamOf(l, writes))
<1>. DEFINE n == Len(writes)
            L == Range(leads)
            A == Relays(L, C)
            W == L \X Seq(C)
            Q == Seq(C)
            b == [i \in 1..n |-> IF writes[i][1] = l THEN writes[i][2] ELSE <<>>]
<1>1. n \in Nat /\ n \in 0..n /\ DOMAIN writes = 1..n /\ \A i \in 1..n : writes[i] \in W
  BY LinesAre
<1>2. \A i \in 1..n : writes[i][1] \in L /\ writes[i][2] \in Q
  BY <1>1
<1>3. Streams(leads) \in A /\ Follow(l, Streams(leads), <<>>)
  BY StreamsFollow
<1>4. PICK h \in [0..n -> A] : WritesWalk(h, leads, writes) /\ h[n] = Written(leads, writes)
  <2>. HIDE DEF L
  <2>. QED
    BY <1>3, WrittenIsWalk DEF L
<1>5. b \in [1..n -> Q] /\ \A i \in 1..n : b[i] = IF writes[i][1] = l THEN writes[i][2] ELSE <<>>
  <2>1. <<>> \in Q
    OBVIOUS
  <2>. HIDE DEF n, Q
  <2>. QED
    BY <1>2, <2>1
<1>6. StreamOf(l, writes) = FlattenSeq(b)
  <2>1. [i \in DOMAIN writes |-> IF writes[i][1] = l THEN writes[i][2] ELSE <<>>] = b
    <3>. HIDE DEF n
    <3>. QED
      BY <1>1
  <2>. QED
    BY <2>1, Zenon DEF StreamOf
<1>. HIDE DEF b, n, A, W
<1>7. b \in Seq(Q) /\ Len(b) = n
  <2>. HIDE DEF Q
  <2>. QED
    BY <1>1, <1>5, BytesOfTuple
<1>8. PICK g \in [0..n -> Q] : Concatenates(g, b) /\ g[n] = FlattenSeq(b)
  <2>1. \E g \in [0..Len(b) -> Seq(C)] : Concatenates(g, b) /\ g[Len(b)] = FlattenSeq(b)
    BY <1>7, Flattened
  <2>. QED
    BY <1>7, <2>1
<1>9. g[0] = <<>> /\ \A k \in 1..n : g[k] = g[k - 1] \o b[k]
  BY <1>7, <1>8 DEF Concatenates
<1>10. h[0] = Streams(leads) /\ \A k \in 1..n : h[k] = Write(h[k - 1], writes[k][1], writes[k][2])
  BY <1>4 DEF WritesWalk, n
<1>. DEFINE U == {k \in Nat : k <= n => Follow(l, h[k], g[k])}
<1>11. 0 \in U
  BY <1>3, <1>9, <1>10
<1>12. ASSUME NEW k \in U
       PROVE  k + 1 \in U
  <2>. SUFFICES ASSUME k + 1 <= n PROVE Follow(l, h[k + 1], g[k + 1])
    OBVIOUS
  <2>1. k \in Nat /\ k <= n /\ k \in 0..n /\ k + 1 \in 1..n /\ (k + 1) - 1 = k
    BY <1>1
  <2>2. Follow(l, h[k], g[k])
    BY <2>1
  <2>. HIDE DEF U
  <2>. DEFINE m == writes[k + 1][1]
              data == writes[k + 1][2]
  <2>3. m \in L /\ data \in Seq(C)
    BY <1>2, <2>1
  <2>4. h[k] \in Relays(L, C) /\ h[k + 1] = Write(h[k], m, data)
    BY <1>4, <1>10, <2>1 DEF A
  <2>5. g[k] \in Seq(C) /\ g[k + 1] = g[k] \o b[k + 1]
    BY <1>8, <1>9, <2>1
  <2>6. b[k + 1] = IF m = l THEN data ELSE <<>>
    BY <1>5, <2>1
  <2>. HIDE DEF m, data, L
  <2>7. /\ AlikeBut(L, m, h[k], h[k + 1])
        /\ \A c \in Seq(C) : Follow(m, h[k], c) => Follow(m, h[k + 1], c \o data)
    BY <2>3, <2>4, WriteFollows
  <2>8. CASE m = l
    BY <2>2, <2>5, <2>6, <2>7, <2>8
  <2>9. CASE m # l
    <3>1. g[k + 1] = g[k]
      BY <2>5, <2>6, <2>9, EmptyAdded
    <3>2. Alike(l, h[k], h[k + 1])
      BY <2>7, <2>9 DEF AlikeBut, L
    <3>. QED
      BY <2>2, <3>1, <3>2 DEF Follow, Alike
  <2>. QED
    BY <2>8, <2>9
<1>13. U = Nat
  <2>1. U \in SUBSET Nat
    OBVIOUS
  <2>. HIDE DEF U
  <2>. QED
    BY <1>11, <1>12, <2>1, SetInduction
<1>14. Follow(l, h[n], g[n])
  <2>1. n \in U
    BY <1>1, <1>13
  <2>. QED
    BY <1>1, <2>1
<1>15. h[n] \in A /\ g[n] \in Q
  BY <1>1, <1>4, <1>8
<1>. QED
  BY <1>4, <1>6, <1>8, <1>14, <1>15 DEF A, L, Q

\* However the streams of any containers interleave and wherever they are cut into
\* writes, what is printed under the lead of a container is its stream, line by line
\* and in order, no line split, joined to the next or mixed with another
\* container's; only the ends of lines lose their carriage returns
\* (cluster/output.go:50, :63; cluster/inspect.go:97).
THEOREM RelaysFaithful ==
    ASSUME NEW T, NEW leads \in Seq(T), NEW C, NEW writes \in Seq(Range(leads) \X Seq(C))
    PROVE  RelayFaithful(leads, writes)
<1>. DEFINE L == Range(leads)
            A == Relays(L, C)
            n == Len(leads)
            s == Written(leads, writes)
<1>. SUFFICES ASSUME NEW l \in L
              PROVE  LET stream == StreamOf(l, writes)
                     IN  Under(l, StreamLogs(leads, writes)) =
                            LinesOf(stream) \o IF RestOf(stream) = <<>> THEN <<>> ELSE <<RestOf(stream)>>
  BY Zenon DEF RelayFaithful
<1>. DEFINE c == StreamOf(l, writes)
<1>1. s \in A /\ c \in Seq(C) /\ Follow(l, s, c)
  BY WrittenFollows
<1>2. leads \in Seq(L) /\ n \in Nat /\ n \in 0..n /\ \E i \in 1..n : leads[i] = l
  <2>1. leads \in Seq(L) /\ n \in Nat /\ \E i \in 1..n : leads[i] = l
    BY LeadsAre
  <2>. HIDE DEF n
  <2>. QED
    BY <2>1
<1>3. \A i \in 1..n : leads[i] \in L
  <2>. HIDE DEF L
  <2>. QED
    BY <1>2
<1>. HIDE DEF s, c, L
<1>4. PICK h \in [0..n -> A] : FlushesWalk(h, s, leads) /\ h[n] = FoldLeft(FlushPartial, s, leads)
  BY <1>1, <1>2, FlushIsWalk
<1>. HIDE DEF n
<1>5. h[0] = s /\ \A k \in 1..n : h[k] = FlushPartial(h[k - 1], leads[k])
  BY <1>4 DEF FlushesWalk, n
<1>. DEFINE Ended(k) == \E i \in 1..k : leads[i] = l
            U == {k \in Nat : k <= n => IF Ended(k) THEN Closed(l, h[k], c) ELSE Follow(l, h[k], c)}
<1>6. 0 \in U
  BY <1>1, <1>5
<1>7. ASSUME NEW k \in U
      PROVE  k + 1 \in U
  <2>. SUFFICES ASSUME k + 1 <= n
                PROVE  IF Ended(k + 1) THEN Closed(l, h[k + 1], c) ELSE Follow(l, h[k + 1], c)
    OBVIOUS
  <2>1. k \in Nat /\ k <= n /\ k \in 0..n /\ k + 1 \in 1..n /\ (k + 1) - 1 = k
    BY <1>2
  <2>2. IF Ended(k) THEN Closed(l, h[k], c) ELSE Follow(l, h[k], c)
    BY <2>1
  <2>. HIDE DEF U
  <2>3. Ended(k + 1) <=> Ended(k) \/ leads[k + 1] = l
    <3>1. 1..(k + 1) = 1..k \cup {k + 1}
      BY <2>1
    <3>. QED
      BY <3>1
  <2>. HIDE DEF Ended
  <2>4. h[k] \in Relays(L, C) /\ leads[k + 1] \in L /\ h[k + 1] = FlushPartial(h[k], leads[k + 1])
    BY <1>3, <1>4, <1>5, <2>1 DEF A
  <2>. HIDE DEF A
  <2>5. /\ AlikeBut(L, leads[k + 1], h[k], h[k + 1])
        /\ \A e \in Seq(C) : Follow(leads[k + 1], h[k], e) \/ Closed(leads[k + 1], h[k], e)
                             => Closed(leads[k + 1], h[k + 1], e)
    BY <2>4, FlushOne
  <2>6. CASE leads[k + 1] = l
    BY <1>1, <2>2, <2>3, <2>5, <2>6
  <2>7. CASE leads[k + 1] # l
    <3>1. Alike(l, h[k], h[k + 1])
      BY <2>5, <2>7 DEF AlikeBut
    <3>. QED
      BY <2>2, <2>3, <2>7, <3>1 DEF Follow, Closed, Alike
  <2>. QED
    BY <2>6, <2>7
<1>8. U = Nat
  <2>1. U \in SUBSET Nat
    OBVIOUS
  <2>. HIDE DEF U
  <2>. QED
    BY <1>6, <1>7, <2>1, SetInduction
<1>9. Closed(l, h[n], c)
  <2>1. n \in U
    BY <1>2, <1>8
  <2>. QED
    BY <1>2, <2>1
<1>10. StreamLogs(leads, writes) = h[n].printed
  BY <1>4, Zenon DEF StreamLogs, s
<1>. QED
  BY <1>9, <1>10 DEF Closed, c

----------------------------------------------------------------------------
(* The journals, the listings and the relays that are drawn.               *)

Letters == {"a", "b"}
Characters == {"a", "b", "n", "r"}
Marks == {"w", "c", "0", "1"}

InspectionDrawn ==
    /\ subject = "journal" => /\ input.pieces \in Seq(SplitLines(Letters)) /\ PrintedInOrder(input.pieces)
                              /\ input.run \in [timestamp : Nat, timestampEnd : Nat]
                              /\ input.fails \in BOOLEAN
    /\ subject = "listing" => /\ input.summaries \in SUBSET Summaries(Marks) /\ input.all \in BOOLEAN
                              /\ input.selection \in Selections(Marks, {"n1", "n2"})
    /\ subject = "relay" => input \in Seq(Range(<<"w1", "w2">>) \X Seq(Characters))

LEMMA DrawnLine ==
    ASSUME NEW parts \in Parts, NEW first \in Nat
    PROVE  /\ Piece(first, parts) \in SplitLines(Letters)
           /\ Len(Piece(first, parts).parts) \in 1..3
           /\ \A i \in 1..Len(Piece(first, parts).parts) : Piece(first, parts).stamps[i] = first + i
<1>. DEFINE n == Len(parts)
            stamps == [i \in 1..n |-> first + i]
            Q == Seq(Letters)
<1>1. <<>> \in Q /\ <<"a">> \in Q /\ <<"b">> \in Q /\ <<"a">> # <<>> /\ <<"b">> # <<>>
  BY DEF Letters
<1>2. parts \in Seq(Q) /\ n \in 1..3 /\ DOMAIN parts = 1..n /\ \A k \in 1..(n - 1) : parts[k] # <<>>
  <2>. DEFINE e == <<>>
              a == <<"a">>
              b == <<"b">>
  <2>1. parts \in {<<a>>, <<a, b>>, <<a, b, a>>, <<e>>}
    BY DEF Parts
  <2>2. e \in Q /\ a \in Q /\ b \in Q /\ a # <<>> /\ b # <<>>
    BY <1>1
  <2>. HIDE DEF e, a, b, Q
  <2>3. CASE parts = <<a>>
    BY <2>2, <2>3
  <2>4. CASE parts = <<a, b>>
    BY <2>2, <2>4
  <2>5. CASE parts = <<a, b, a>>
    BY <2>2, <2>5
  <2>6. CASE parts = <<e>>
    BY <2>2, <2>6
  <2>. QED
    BY <2>1, <2>3, <2>4, <2>5, <2>6
<1>. HIDE DEF n, Q
<1>3. stamps \in Seq(Nat) /\ Len(stamps) = n /\ \A i \in 1..n : stamps[i] = first + i
  <2>1. n \in Nat
    BY <1>2
  <2>2. stamps \in [1..n -> Nat]
    BY <2>1
  <2>3. stamps \in Seq(Nat) /\ Len(stamps) = n
    <3>. HIDE DEF stamps
    <3>. QED
      BY <2>1, <2>2, BytesOfTuple
  <2>. QED
    BY <2>3
<1>4. Piece(first, parts) = [stamps |-> stamps, parts |-> parts]
  BY <1>2 DEF Piece
<1>. HIDE DEF stamps
<1>5. Piece(first, parts).stamps = stamps /\ Piece(first, parts).parts = parts
  BY <1>4
<1>6. Piece(first, parts) \in [stamps : Seq(Nat), parts : Seq(Q)]
  BY <1>2, <1>3, <1>4
<1>7. Piece(first, parts) \in SplitLines(Letters)
  <2>. DEFINE line == Piece(first, parts)
  <2>. HIDE DEF line
  <2>1. line \in [stamps : Seq(Nat), parts : Seq(Seq(Letters))] /\ line.stamps = stamps /\ line.parts = parts
    BY <1>5, <1>6 DEF line, Q
  <2>2. Len(line.stamps) = Len(line.parts) /\ Len(line.parts) >= 1
    BY <1>2, <1>3, <2>1 DEF n
  <2>3. \A k \in 1..(Len(line.parts) - 1) : line.parts[k] # <<>>
    BY <1>2, <2>1 DEF n
  <2>. QED
    BY <2>1, <2>2, <2>3, Zenon DEF SplitLines, line
<1>. QED
  BY <1>2, <1>3, <1>5, <1>7 DEF n

LEMMA DrawnLines ==
    ASSUME NEW one \in Parts, NEW two \in Parts
    PROVE  LET lines == <<Piece(1, one), Piece(10, two)>>
           IN  lines \in Seq(SplitLines(Letters)) /\ PrintedInOrder(lines)
<1>. DEFINE a == Piece(1, one)
            b == Piece(10, two)
            T == SplitLines(Letters)
            lines == <<a, b>>
<1>1. /\ a \in T /\ Len(a.parts) \in 1..3 /\ \A i \in 1..Len(a.parts) : a.stamps[i] = 1 + i
      /\ b \in T /\ Len(b.parts) \in 1..3 /\ \A i \in 1..Len(b.parts) : b.stamps[i] = 10 + i
  BY DrawnLine
<1>. HIDE DEF a, b, T
<1>2. lines \in Seq(T) /\ Len(lines) = 2 /\ lines[1] = a /\ lines[2] = b
  BY <1>1
<1>. HIDE DEF lines
<1>3. ASSUME NEW i \in 1..Len(lines), NEW j \in 1..Len(lines[i].parts), NEW k \in 1..Len(lines[i].parts), j <= k
      PROVE  lines[i].stamps[j] <= lines[i].stamps[k]
  <2>1. i = 1 \/ i = 2
    BY <1>2
  <2>2. CASE i = 1
    BY <1>1, <1>2, <1>3, <2>2
  <2>3. CASE i = 2
    BY <1>1, <1>2, <1>3, <2>3
  <2>. QED
    BY <2>1, <2>2, <2>3
<1>4. ASSUME NEW i \in 1..Len(lines), NEW j \in 1..Len(lines), i < j,
             NEW k \in 1..Len(lines[i].parts), NEW l \in 1..Len(lines[j].parts)
      PROVE  lines[i].stamps[k] <= lines[j].stamps[l]
  <2>1. i = 1 /\ j = 2
    BY <1>2, <1>4
  <2>2. k \in 1..Len(a.parts) /\ l \in 1..Len(b.parts)
    BY <1>2, <2>1
  <2>3. k \in 1..3 /\ l \in Nat /\ a.stamps[k] = 1 + k /\ b.stamps[l] = 10 + l
    <3>1. Len(a.parts) \in 1..3 /\ Len(b.parts) \in 1..3
      BY <1>1
    <3>. DEFINE m == Len(a.parts)
                n == Len(b.parts)
    <3>2. m \in 1..3 /\ n \in 1..3 /\ k \in 1..m /\ l \in 1..n
      BY <2>2, <3>1
    <3>. HIDE DEF m, n
    <3>3. k \in 1..3 /\ l \in Nat
      BY <3>2
    <3>4. a.stamps[k] = 1 + k
      BY <1>1, <2>2
    <3>5. b.stamps[l] = 10 + l
      BY <1>1, <2>2
    <3>. QED
      BY <3>3, <3>4, <3>5
  <2>4. 1 + k <= 10 + l
    BY <2>3
  <2>5. lines[i] = a /\ lines[j] = b
    BY <1>2, <2>1
  <2>. QED
    BY <2>3, <2>4, <2>5
<1>5. PrintedInOrder(lines)
  BY <1>3, <1>4 DEF PrintedInOrder
<1>. QED
  BY <1>2, <1>5 DEF lines, a, b, T

LEMMA DrawnWrites ==
    ASSUME NEW n \in 1..3, NEW writes \in [1..n -> {"w1", "w2"} \X Chunks]
    PROVE  writes \in Seq(Range(<<"w1", "w2">>) \X Seq(Characters))
<1>. DEFINE L == Range(<<"w1", "w2">>)
            Q == Seq(Characters)
            W == L \X Q
<1>1. "w1" \in L /\ "w2" \in L
  <2>. DEFINE s == <<"w1", "w2">>
  <2>1. 1 \in DOMAIN s /\ 2 \in DOMAIN s /\ s[1] = "w1" /\ s[2] = "w2"
    OBVIOUS
  <2>. HIDE DEF s
  <2>2. s[1] \in Range(s) /\ s[2] \in Range(s)
    BY <2>1 DEF Range
  <2>. QED
    BY <2>1, <2>2 DEF s
<1>2. \A chunk \in Chunks : chunk \in Q
  <2>1. <<>> \in Q /\ <<"a">> \in Q /\ <<"n">> \in Q /\ <<"a", "r">> \in Q
    BY DEF Characters
  <2>2. <<"r", "n", "a">> \in Q /\ <<"b", "n", "n">> \in Q
    BY DEF Characters
  <2>. HIDE DEF Q
  <2>. QED
    BY <2>1, <2>2, Zenon DEF Chunks
<1>. HIDE DEF L, Q
<1>3. writes \in [1..n -> W]
  BY <1>1, <1>2
<1>. HIDE DEF W
<1>4. writes \in Seq(W)
  <2>1. n \in Nat
    OBVIOUS
  <2>. QED
    BY <1>3, <2>1, BytesOfTuple
<1>. QED
  BY <1>4 DEF W, L, Q

LEMMA DrawnListings ==
    ASSUME NEW summaries \in SUBSET DrawnSummaries, NEW selection \in [given : BOOLEAN, entries : DrawnEntries]
    PROVE  summaries \in SUBSET Summaries(Marks) /\ selection \in Selections(Marks, {"n1", "n2"})
<1>. DEFINE Q == Seq(Marks)
            H == {"n1", "n2"}
            D == [ssh : H, name : Q]
<1>1. \A n \in ContainerNames : n \in Q
  <2>. TAKE n \in ContainerNames
  <2>1. n = <<"w", "1">> \/ n = <<"w", "1", "0">> \/ n = <<"c">>
    BY DEF ContainerNames
  <2>2. CASE n = <<"w", "1">>
    BY <2>2 DEF Marks
  <2>3. CASE n = <<"w", "1", "0">>
    BY <2>3 DEF Marks
  <2>4. CASE n = <<"c">>
    BY <2>4 DEF Marks
  <2>. QED
    BY <2>1, <2>2, <2>3, <2>4
<1>. HIDE DEF Q
<1>2. summaries \in SUBSET Summaries(Marks)
  <2>. SUFFICES ASSUME NEW s \in summaries PROVE s \in Summaries(Marks)
    OBVIOUS
  <2>1. s \in DrawnSummaries
    OBVIOUS
  <2>2. s.names \in {{n} : n \in ContainerNames} /\ s.marked \in BOOLEAN /\ s.running \in {TRUE}
        /\ s = [names |-> s.names, marked |-> s.marked, running |-> s.running]
    BY <2>1 DEF DrawnSummaries
  <2>3. s.names \in SUBSET Q
    BY <1>1, <2>2
  <2>. QED
    BY <2>2, <2>3 DEF Summaries, Q
<1>3. selection.given \in BOOLEAN /\ selection.entries \in DrawnEntries
      /\ selection = [given |-> selection.given, entries |-> selection.entries]
  OBVIOUS
<1>4. selection.entries \in Seq(D)
  <2>. DEFINE entries == selection.entries
  <2>. SUFFICES entries \in Seq(D)
    OBVIOUS
  <2>. HIDE DEF entries
  <2>1. CASE entries = <<>>
    <3>. HIDE DEF D
    <3>. QED
      BY <2>1
  <2>2. CASE entries # <<>>
    <3>1. PICK s \in H, n \in ContainerNames : entries = <<[ssh |-> s, name |-> n]>>
      BY <1>3, <2>2 DEF DrawnEntries, entries
    <3>. DEFINE r == [ssh |-> s, name |-> n]
    <3>2. r \in D
      BY <1>1
    <3>3. entries = <<r>>
      BY <3>1
    <3>. HIDE DEF r, D
    <3>. QED
      BY <3>2, <3>3
  <2>. QED
    BY <2>1, <2>2
<1>5. selection \in Selections(Marks, H)
  <2>. DEFINE E == Seq(D)
  <2>1. selection.entries \in E
    BY <1>4
  <2>. HIDE DEF E
  <2>2. selection \in [given : BOOLEAN, entries : E]
    BY <1>3, <2>1
  <2>. QED
    BY <2>2 DEF Selections, E, Q
<1>. QED
  BY <1>2, <1>5

LEMMA InspectionInit == Init => InspectionDrawn
BY DEF Init, InspectionDrawn

LEMMA InspectionStep == InspectionDrawn /\ [Next]_<<subject, input>> => InspectionDrawn'
<1>. SUFFICES ASSUME InspectionDrawn, [Next]_<<subject, input>>
              PROVE  InspectionDrawn'
  OBVIOUS
<1>1. CASE DrawJournal
  <2>1. PICK one \in Parts, two \in Parts, from \in 0..3, to \in {0, 2, 10, 11, 12}, broken \in 0..6,
             fails \in BOOLEAN : \E streams \in MCStreams(one) \X MCStreams(two) :
             input' = [pieces |-> <<Piece(1, one), Piece(10, two)>>, streams |-> streams,
                       broken |-> broken, fails |-> fails,
                       run |-> [timestamp |-> from, timestampEnd |-> to]]
    BY <1>1 DEF DrawJournal
  <2>. DEFINE lines == <<Piece(1, one), Piece(10, two)>>
              run == [timestamp |-> from, timestampEnd |-> to]
  <2>2. lines \in Seq(SplitLines(Letters)) /\ PrintedInOrder(lines)
    BY DrawnLines
  <2>3. run \in [timestamp : Nat, timestampEnd : Nat]
    OBVIOUS
  <2>4. PICK streams : input' = [pieces |-> lines, streams |-> streams, broken |-> broken, fails |-> fails, run |-> run]
    BY <2>1
  <2>5. subject' = "journal"
    BY <1>1 DEF DrawJournal
  <2>. HIDE DEF lines, run
  <2>6. input'.pieces = lines /\ input'.run = run /\ input'.fails = fails
    BY <2>4
  <2>. QED
    BY <2>2, <2>3, <2>5, <2>6, Zenon DEF InspectionDrawn
<1>2. CASE DrawRelay
  <2>1. PICK n \in 1..3 : \E writes \in [1..n -> {"w1", "w2"} \X Chunks] : input' = writes
    BY <1>2 DEF DrawRelay
  <2>2. input' \in Seq(Range(<<"w1", "w2">>) \X Seq(Characters))
    BY <2>1, DrawnWrites
  <2>3. subject' = "relay"
    BY <1>2 DEF DrawRelay
  <2>. QED
    BY <2>2, <2>3, Zenon DEF InspectionDrawn
<1>3. CASE DrawListing
  <2>1. PICK summaries \in SUBSET DrawnSummaries, selection \in [given : BOOLEAN, entries : DrawnEntries],
             all \in BOOLEAN :
             input' = [summaries |-> summaries, selection |-> selection, all |-> all]
    BY <1>3, Zenon DEF DrawListing
  <2>2. summaries \in SUBSET Summaries(Marks) /\ selection \in Selections(Marks, {"n1", "n2"})
    BY DrawnListings
  <2>3. input'.summaries = summaries /\ input'.selection = selection /\ input'.all = all
    BY <2>1
  <2>4. subject' = "listing"
    BY <1>3 DEF DrawListing
  <2>. QED
    BY <2>2, <2>3, <2>4, Zenon DEF InspectionDrawn
<1>4. CASE DrawOpenvmTimeline \/ DrawZiskTimeline \/ DrawEnvelope \/ DrawEstimation \/ DrawConfig
  <2>1. CASE DrawOpenvmTimeline
    BY <2>1 DEF DrawOpenvmTimeline, InspectionDrawn
  <2>2. CASE DrawZiskTimeline
    BY <2>2 DEF DrawZiskTimeline, InspectionDrawn
  <2>3. CASE DrawEnvelope
    BY <2>3 DEF DrawEnvelope, InspectionDrawn
  <2>4. CASE DrawEstimation
    BY <2>4 DEF DrawEstimation, InspectionDrawn
  <2>5. CASE DrawConfig
    BY <2>5 DEF DrawConfig, InspectionDrawn
  <2>. QED
    BY <1>4, <2>1, <2>2, <2>3, <2>4, <2>5
<1>5. CASE UNCHANGED <<subject, input>>
  <2>1. subject' = subject /\ input' = input
    BY <1>5
  <2>. QED
    BY <2>1, Zenon DEF InspectionDrawn
<1>. QED
  BY <1>1, <1>2, <1>3, <1>4, <1>5 DEF Next

\* A dump, a listing and a relay show what containers printed and nothing else, a
\* dump with the exception for interrupted lines (cluster/journal.go:79,
\* cluster/inspect.go:58, cluster/output.go:50):
\* what is drawn is among the journals, the selections and the writes that
\* JournalsFaithful, SelectionsExact and RelaysFaithful are about.
THEOREM AlgorithmsInspectionFaithful == Spec => []InspectionFaithful
<1>1. InspectionDrawn => InspectionFaithful
  <2>. SUFFICES ASSUME InspectionDrawn
                PROVE  InspectionFaithful
    OBVIOUS
  <2>1. ASSUME subject = "journal"
        PROVE  JournalFaithful(input.pieces, input.streams, input.run, 20, input.broken, input.fails)
    <3>1. /\ input.pieces \in Seq(SplitLines(Letters)) /\ PrintedInOrder(input.pieces)
          /\ input.run \in [timestamp : Nat, timestampEnd : Nat] /\ input.fails \in BOOLEAN
      BY <2>1 DEF InspectionDrawn
    <3>2. 20 \in Nat
      OBVIOUS
    <3>. QED
      BY <3>1, <3>2, JournalsFaithful
  <2>2. ASSUME subject = "listing"
        PROVE  SelectionExact(input.summaries, "n1", input.selection, input.all)
    <3>1. /\ input.summaries \in SUBSET Summaries(Marks) /\ input.all \in BOOLEAN
          /\ input.selection \in Selections(Marks, {"n1", "n2"})
      BY <2>2 DEF InspectionDrawn
    <3>. QED
      BY <3>1, SelectionsExact
  <2>3. ASSUME subject = "relay"
        PROVE  RelayFaithful(<<"w1", "w2">>, input)
    <3>1. input \in Seq(Range(<<"w1", "w2">>) \X Seq(Characters))
      BY <2>3 DEF InspectionDrawn
    <3>. DEFINE leads == <<"w1", "w2">>
    <3>2. leads \in Seq({"w1", "w2"})
      OBVIOUS
    <3>. HIDE DEF leads
    <3>3. RelayFaithful(leads, input)
      BY <3>1, <3>2, RelaysFaithful DEF leads
    <3>. QED
      BY <3>3 DEF leads
  <2>. QED
    BY <2>1, <2>2, <2>3 DEF InspectionFaithful
<1>. QED
  BY <1>1, InspectionInit, InspectionStep, PTL DEF Spec
=============================================================================
