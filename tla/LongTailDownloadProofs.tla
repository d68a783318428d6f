----------------------- MODULE LongTailDownloadProofs -----------------------
(***************************************************************************)
(* LaunchesRight and GivesUpLast of LongTailDownload, for any number of    *)
(* assignments, pieces needed, launch margin and extra pieces.             *)
(*                                                                         *)
(* Neither is inductive.  Inv adds, for the collection of k pieces, that   *)
(* every assignment is waiting, under way, delivered or failed, and in one *)
(* of these places only, and how the launches are accounted for; for the   *)
(* extra pieces, which assignments are still to be tried and that each     *)
(* extra adds one share.                                                   *)
(***************************************************************************)
EXTENDS LongTailDownload, FiniteSetTheorems, WellFoundedInduction, TLAPS

Elems(q) == {q[i] : i \in 1..Len(q)}

IsDistinct(q) == \A i, j \in 1..Len(q) : q[i] = q[j] => i = j

\* The assignments that wait.
Waiting == Elems(queue)

Distinct == IsDistinct(queue)

\* Launches are accounted for: without failures no more than the pieces, the
\* margin and the hedges, and as many as that while assignments wait.
Accounted ==
    /\ attempted + Len(queue) = N
    /\ hedgesLeft <= Hedges(K, LaunchMargin)
    /\ attempted + hedgesLeft <= K + LaunchMargin + Hedges(K, LaunchMargin) + Cardinality(failures)
    /\ queue # <<>> => Cardinality(InSet) + Cardinality(got) + hedgesLeft
                          = K + LaunchMargin + Hedges(K, LaunchMargin)

\* The collection of k pieces.
Collecting ==
    phase = "collect" =>
        /\ InSet \cup got \cup failures \cup Waiting = Pieces
        /\ Waiting \cap (InSet \cup got \cup failures) = {}
        /\ InSet \cap (got \cup failures) = {}
        /\ got \cap failures = {}
        /\ got = shares
        /\ Cardinality(got) < K
        /\ Accounted

\* The decode loop: what is left to try, and the extra pieces so far.
Extras ==
    phase \in {"decode", "extra"} =>
        /\ Waiting \cap shares = {}
        /\ \/ shares = {} /\ phase = "decode"
           \/ /\ Cardinality(shares) = K + extras
              /\ Pieces = shares \cup tried \cup Waiting
        /\ phase = "extra" =>
              /\ got = {}
              /\ extras < MaxExtras
              /\ attempted + Len(queue) <= N
              /\ InSet \cap shares = {}
              /\ Waiting \cap (InSet \cup failures) = {}
              /\ InSet = {} => queue = <<>>

\* Before the collection, and after the function has returned.
Resting ==
    /\ phase \notin {"collect", "extra"} => InSet = {}
    /\ phase = "start" => /\ queue = [p \in Pieces |-> p] 
                          /\ shares = {}
    /\ phase \in {"start", "collect"} => extras = 0
    /\ phase \notin Done => cause = "none"
    /\ GivesUpLast

\* The inductive invariant.
Inv ==
    /\ TypeOK
    /\ Distinct
    /\ Collecting
    /\ Extras
    /\ Resting

-----------------------------------------------------------------------------
(* Numbers, sets and sequences *)

\* Induction, as the least counterexample.
LEMMA LeastNat ==
    ASSUME NEW T, T \subseteq Nat, T # {}
    PROVE  \E x \in T : \A y \in T : x <= y
  <1>1. PICK R : R = OpToRel(<, Nat)
    OBVIOUS
  <1>2. IsWellFoundedOn(R, Nat)
    BY <1>1, NatLessThanWellFounded
  <1>3. PICK x \in T : \A y \in T : ~ (<<y, x>> \in R)
    BY <1>2, WFMin
  <1>4. \A y \in T : y < x => <<y, x>> \in R
    BY <1>1 DEF OpToRel
  <1>5. \A y \in T : ~(y < x)
    BY <1>3, <1>4
  <1>6. \A y \in T : x <= y
    BY <1>5
  <1> QED BY <1>3, <1>6

LEMMA MinTwo ==
    ASSUME NEW a \in Nat, NEW b \in Nat
    PROVE  Min({a, b}) = IF a <= b THEN a ELSE b
  <1>1. \E x \in {a, b} : \A y \in {a, b} : x <= y
    OBVIOUS
  <1> QED BY <1>1 DEF Min

LEMMA MaxTwo ==
    ASSUME NEW a \in Nat, NEW b \in Nat
    PROVE  Max({a, b}) = IF a >= b THEN a ELSE b
  <1>1. \E x \in {a, b} : \A y \in {a, b} : x >= y
    OBVIOUS
  <1> QED BY <1>1 DEF Max

\* The hedges are at most `required`, and with the margin no more than the
\* speculative budget.
LEMMA HedgesFacts ==
    ASSUME NEW r \in Nat, r # 0, NEW m \in Nat
    PROVE  /\ Hedges(r, m) \in 0..r
           /\ r = K /\ m = LaunchMargin => m + Hedges(r, m) <= Speculative /\ Speculative \in Nat
  <1>1. PICK c \in Nat : c = (r + 4) \div 5
    OBVIOUS
  <1>2. PICK d \in Nat : d = Max({c, 2}) /\ d = IF c >= 2 THEN c ELSE 2
    BY MaxTwo
  <1>3. PICK b \in Nat : b = Min({d, r}) /\ b = IF d <= r THEN d ELSE r
    BY MinTwo
  <1>4. Hedges(r, m) = IF b >= m THEN b - m ELSE 0
    BY <1>1, <1>2, <1>3 DEF Hedges
  <1>5. Hedges(r, m) \in 0..r
    BY <1>3, <1>4
  <1>6. ASSUME r = K, m = LaunchMargin
        PROVE  m + Hedges(r, m) <= Speculative /\ Speculative \in Nat
    <2>1. Speculative = Max({m, b})
      BY <1>1, <1>2, <1>3, <1>6 DEF Speculative
    <2>2. Max({m, b}) = IF m >= b THEN m ELSE b
      BY MaxTwo
    <2> QED BY <1>4, <2>1, <2>2
  <1> QED BY <1>5, <1>6

LEMMA PiecesFinite ==
    ASSUME NEW S \in SUBSET Pieces
    PROVE  IsFiniteSet(S) /\ Cardinality(S) \in Nat /\ Cardinality(S) <= N
  <1>1. IsFiniteSet(Pieces) /\ Cardinality(Pieces) = N
    BY LongTailDownloadAssumption, FS_Interval DEF Pieces
  <1> QED BY <1>1, FS_Subset, FS_CardinalityType

LEMMA AddPiece ==
    ASSUME NEW S \in SUBSET Pieces, NEW p \in Pieces, p \notin S
    PROVE  Cardinality(S \cup {p}) = Cardinality(S) + 1
  BY PiecesFinite, FS_AddElement

LEMMA RemovePiece ==
    ASSUME NEW S \in SUBSET Pieces, NEW p \in S
    PROVE  Cardinality(S \ {p}) = Cardinality(S) - 1
  BY PiecesFinite, FS_RemoveElement

\* The first of a queue leaves it.
LEMMA TailFacts ==
    ASSUME NEW q \in Seq(Pieces), q # <<>>, IsDistinct(q)
    PROVE  /\ Head(q) \in Elems(q) /\ Head(q) \in Pieces
           /\ Tail(q) \in Seq(Pieces) /\ Len(Tail(q)) = Len(q) - 1
           /\ Elems(Tail(q)) = Elems(q) \ {Head(q)}
           /\ IsDistinct(Tail(q))
  <1>1. Len(q) \in Nat /\ Len(q) > 0 /\ Head(q) = q[1]
    OBVIOUS
  <1>2. Tail(q) \in Seq(Pieces) /\ Len(Tail(q)) = Len(q) - 1 /\ \A i \in 1..(Len(q) - 1) : Tail(q)[i] = q[i + 1]
    OBVIOUS
  <1>3. Head(q) \in Elems(q) /\ Head(q) \in Pieces
    BY <1>1 DEF Elems
  <1>4. ASSUME NEW x \in Elems(Tail(q)) PROVE x \in Elems(q) \ {Head(q)}
    <2>1. PICK i \in 1..(Len(q) - 1) : x = q[i + 1]
      BY <1>1, <1>2 DEF Elems
    <2>2. i + 1 \in 1..Len(q) /\ i + 1 # 1 /\ 1 \in 1..Len(q)
      BY <1>1
    <2> QED BY <1>1, <2>1, <2>2 DEF Elems, IsDistinct
  <1>5. ASSUME NEW x \in Elems(q) \ {Head(q)} PROVE x \in Elems(Tail(q))
    <2>1. PICK i \in 1..Len(q) : x = q[i] /\ i # 1
      BY <1>1 DEF Elems
    <2>2. i - 1 \in 1..(Len(q) - 1) /\ Tail(q)[i - 1] = q[i]
      <3>1. i - 1 \in 1..(Len(q) - 1) /\ (i - 1) + 1 = i
        BY <1>1, <2>1
      <3> QED BY <1>2, <3>1
    <2> QED BY <1>2, <2>1, <2>2 DEF Elems
  <1>6. IsDistinct(Tail(q))
    <2> SUFFICES ASSUME NEW i \in 1..(Len(q) - 1), NEW j \in 1..(Len(q) - 1), q[i + 1] = q[j + 1]
                 PROVE  i = j
      BY <1>2 DEF IsDistinct
    <2>1. i + 1 \in 1..Len(q) /\ j + 1 \in 1..Len(q)
      BY <1>1
    <2>2. i + 1 = j + 1
      BY <2>1 DEF IsDistinct
    <2> QED BY <2>2
  <1> QED BY <1>2, <1>3, <1>4, <1>5, <1>6

Sorts(q, P) ==
    /\ q \in [1..Cardinality(P) -> P]
    /\ {q[i] : i \in DOMAIN q} = P
    /\ \A i, j \in DOMAIN q : i < j => q[i] < q[j]

\* A set of assignments that has one more than a set that can be put in order.
LEMMA SortsOneMore ==
    ASSUME NEW A \in SUBSET Pieces, NEW n \in Pieces, \A a \in A : a < n, NEW q, Sorts(q, A)
    PROVE  \E f : Sorts(f, A \cup {n})
  <1>1. PICK c \in Nat : c = Cardinality(A) /\ Cardinality(A \cup {n}) = c + 1
    <2>1. n \notin A
      BY DEF Pieces
    <2> QED BY <2>1, PiecesFinite, AddPiece
  <1>2. q \in [1..c -> A] /\ {q[i] : i \in 1..c} = A /\ \A i, j \in 1..c : i < j => q[i] < q[j]
    BY <1>1 DEF Sorts
  <1>3. PICK f : f = [i \in 1..(c + 1) |-> IF i = c + 1 THEN n ELSE q[i]]
    OBVIOUS
  <1>4. \A i \in 1..c : i \in 1..(c + 1) /\ i # c + 1
    OBVIOUS
  <1>5. c + 1 \in 1..(c + 1) /\ \A i \in 1..(c + 1) : i # c + 1 => i \in 1..c
    OBVIOUS
  <1>6. f[c + 1] = n /\ \A i \in 1..c : f[i] = q[i]
    BY <1>3, <1>4, <1>5
  <1>7. f \in [1..(c + 1) -> A \cup {n}]
    BY <1>2, <1>3, <1>5
  <1>8. {f[i] : i \in 1..(c + 1)} = A \cup {n}
    <2>1. ASSUME NEW x \in A \cup {n} PROVE x \in {f[i] : i \in 1..(c + 1)}
      <3>1. CASE x = n
        BY <1>5, <1>6, <3>1
      <3>2. CASE x \in A
        <4>1. PICK i \in 1..c : x = q[i]
          BY <1>2, <3>2
        <4> QED BY <1>4, <1>6, <4>1
      <3> QED BY <3>1, <3>2
    <2>2. ASSUME NEW i \in 1..(c + 1) PROVE f[i] \in A \cup {n}
      BY <1>7
    <2> QED BY <2>1, <2>2
  <1>9. ASSUME NEW i \in 1..(c + 1), NEW j \in 1..(c + 1), i < j
        PROVE  f[i] < f[j]
    <2>1. i # c + 1 /\ i \in 1..c
      BY <1>9
    <2>2. CASE j = c + 1
      BY <1>2, <1>6, <2>1, <2>2
    <2>3. CASE j # c + 1
      <3>1. j \in 1..c
        BY <1>5, <2>3
      <3> QED BY <1>2, <1>6, <1>9, <2>1, <3>1
    <2> QED BY <2>2, <2>3
  <1>10. DOMAIN f = 1..(c + 1)
    BY <1>3
  <1>11. Sorts(f, A \cup {n})
    BY <1>1, <1>7, <1>8, <1>9, <1>10 DEF Sorts
  <1> QED BY <1>11

\* Every set of assignments can be put in order.
LEMMA InOrderSorts ==
    ASSUME NEW P \in SUBSET Pieces
    PROVE  Sorts(InOrder(P), P)
  <1> DEFINE T == {n \in Nat : n <= N /\ ~ \E q : Sorts(q, P \cap (1..n))}
  <1>1. T = {}
    <2> SUFFICES ASSUME T # {} PROVE FALSE
      OBVIOUS
    <2>1. PICK n \in T : \A y \in T : n <= y
      BY LeastNat
    <2>2. n \in Nat /\ n <= N /\ ~ \E q : Sorts(q, P \cap (1..n))
      OBVIOUS
    <2>3. n # 0
      <3> SUFFICES ASSUME n = 0 PROVE FALSE
        OBVIOUS
      <3>1. P \cap (1..0) = {} /\ Cardinality({}) = 0
        BY FS_EmptySet
      <3>2. Sorts(<<>>, {})
        BY <3>1 DEF Sorts
      <3> QED BY <2>2, <3>1, <3>2
    <2>4. PICK m \in Nat : n = m + 1
      <3>1. n - 1 \in Nat /\ n = (n - 1) + 1
        BY <2>2, <2>3
      <3> QED BY <3>1
    <2>5. m \notin T /\ m <= N
      BY <2>1, <2>2, <2>4, LongTailDownloadAssumption
    <2> HIDE DEF T
    <2>6. PICK q : Sorts(q, P \cap (1..m))
      BY <2>5 DEF T
    <2>7. CASE n \notin P
      <3>1. P \cap (1..n) = P \cap (1..m)
        <4>1. \A x \in P : x \in 1..n <=> x \in 1..m
          BY <2>4, <2>7 DEF Pieces
        <4> QED BY <4>1
      <3> QED BY <2>2, <2>6, <3>1
    <2>8. CASE n \in P
      <3>1. P \cap (1..n) = (P \cap (1..m)) \cup {n}
        <4>1. \A x \in P : x \in 1..n <=> x \in 1..m \/ x = n
          BY <2>4 DEF Pieces
        <4> QED BY <2>8, <4>1
      <3>2. \A a \in P \cap (1..m) : a < n
        BY <2>4
      <3>3. \E f : Sorts(f, (P \cap (1..m)) \cup {n})
        BY <2>6, <2>8, <3>2, SortsOneMore
      <3> QED BY <2>2, <3>1, <3>3
    <2> QED BY <2>7, <2>8
  <1>2. N \notin T /\ P \cap (1..N) = P /\ N \in Nat
    BY <1>1, LongTailDownloadAssumption DEF Pieces
  <1>3. \E q : Sorts(q, P)
    BY <1>2
  <1>4. \E q \in [1..Cardinality(P) -> P] :
           {q[i] : i \in DOMAIN q} = P /\ \A i, j \in DOMAIN q : i < j => q[i] < q[j]
    BY <1>3 DEF Sorts
  <1>5. PICK q : q = InOrder(P)
    OBVIOUS
  <1>6. q \in [1..Cardinality(P) -> P] /\ {q[i] : i \in DOMAIN q} = P /\ \A i, j \in DOMAIN q : i < j => q[i] < q[j]
    BY <1>4, <1>5, Zenon DEF InOrder
  <1> QED BY <1>5, <1>6 DEF Sorts

\* `unused` holds every assignment without a share, and each once.
LEMMA UnusedFacts ==
    ASSUME NEW S \in SUBSET Pieces
    PROVE  Unused(S) \in Seq(Pieces) /\ Elems(Unused(S)) = Pieces \ S /\ IsDistinct(Unused(S))
  <1>1. PICK q : q = Unused(S)
    OBVIOUS
  <1>2. PICK P \in SUBSET Pieces : P = Pieces \ S
    OBVIOUS
  <1>3. PICK c \in Nat : c = Cardinality(P)
    BY PiecesFinite
  <1>4. q \in [1..c -> P] /\ {q[i] : i \in 1..c} = P /\ \A i, j \in 1..c : i < j => q[i] < q[j]
    <2>1. Sorts(q, P)
      BY <1>1, <1>2, InOrderSorts DEF Unused
    <2>2. q \in [1..c -> P] /\ DOMAIN q = 1..c
      BY <1>3, <2>1 DEF Sorts
    <2> QED BY <2>1, <2>2 DEF Sorts
  <1>5. q \in Seq(Pieces) /\ Len(q) = c
    BY <1>4
  <1>6. \A i \in 1..c : q[i] \in Nat
    <2>1. \A i \in 1..c : q[i] \in P
      BY ONLY <1>4
    <2>2. Pieces \subseteq Nat
      BY DEF Pieces
    <2> QED BY ONLY <2>1, <2>2
  <1>7. IsDistinct(q)
    <2> SUFFICES ASSUME NEW i \in 1..c, NEW j \in 1..c, q[i] = q[j] PROVE i = j
      BY <1>5 DEF IsDistinct
    <2>1. ~(i < j) /\ ~(j < i)
      BY <1>4, <1>6
    <2> QED BY <2>1
  <1>8. Elems(q) = P
    BY <1>4, <1>5 DEF Elems
  <1> QED BY <1>1, <1>2, <1>5, <1>7, <1>8

\* The first n of a queue are launched, the others wait.
FirstOf(q, n) == {q[i] : i \in 1..n}
RestOf(q, n) == SubSeq(q, n + 1, Len(q))

LEMMA FirstFacts ==
    ASSUME NEW q \in Seq(Pieces), IsDistinct(q), NEW n \in 0..Len(q)
    PROVE  /\ FirstOf(q, n) \subseteq Elems(q) /\ FirstOf(q, n) \subseteq Pieces
           /\ Cardinality(FirstOf(q, n)) = n
           /\ RestOf(q, n) \in Seq(Pieces) /\ Len(RestOf(q, n)) = Len(q) - n
           /\ Elems(RestOf(q, n)) = Elems(q) \ FirstOf(q, n)
           /\ IsDistinct(RestOf(q, n))
  <1>a. PICK now : now = FirstOf(q, n) /\ now = {q[i] : i \in 1..n}
    BY DEF FirstOf
  <1>b. PICK rest : rest = RestOf(q, n) /\ rest = SubSeq(q, n + 1, Len(q))
    BY DEF RestOf
  <1>1. PICK L \in Nat : L = Len(q) /\ n \in Nat /\ n <= L
    OBVIOUS
  <1>2. rest \in Seq(Pieces) /\ Len(rest) = L - n /\ \A i \in 1..(L - n) : rest[i] = q[n + i]
    BY <1>1, <1>b
  <1>3. \A i \in 1..L : q[i] \in Pieces
    BY <1>1
  <1>4. now \subseteq Elems(q) /\ now \subseteq Pieces
    BY <1>1, <1>3, <1>a DEF Elems
  <1>5. Cardinality(now) = n
    <2>1. PICK f : f = [i \in 1..n |-> q[i]]
      OBVIOUS
    <2>2. f \in [1..n -> now]
      BY <1>a, <2>1
    <2>3. \A a, b \in 1..n : f[a] = f[b] => a = b
      BY <1>1, <2>1 DEF IsDistinct
    <2>4. \A t \in now : \E s \in 1..n : f[s] = t
      BY <1>a, <2>1
    <2>5. f \in Bijection(1..n, now)
      BY <2>2, <2>3, <2>4 DEF Bijection, Injection, Surjection, IsInjective
    <2>6. ExistsBijection(1..n, now)
      BY <2>5 DEF ExistsBijection
    <2> QED BY <1>1, <2>6, FS_CountingElements
  <1>6. ASSUME NEW x \in Elems(rest) PROVE x \in Elems(q) \ now
    <2>1. PICK i \in 1..(L - n) : x = q[n + i]
      BY <1>2 DEF Elems
    <2>2. n + i \in 1..L /\ \A j \in 1..n : j \in 1..L /\ j # n + i
      BY <1>1
    <2> QED BY <1>1, <1>a, <2>1, <2>2 DEF Elems, IsDistinct
  <1>7. ASSUME NEW x \in Elems(q) \ now PROVE x \in Elems(rest)
    <2>1. PICK i \in 1..L : x = q[i] /\ i \notin 1..n
      BY <1>1, <1>a DEF Elems
    <2>2. i - n \in 1..(L - n) /\ n + (i - n) = i
      BY <1>1, <2>1
    <2>3. rest[i - n] = x
      BY <1>2, <2>1, <2>2
    <2> QED BY <1>2, <2>2, <2>3 DEF Elems
  <1>8. IsDistinct(rest)
    <2> SUFFICES ASSUME NEW i \in 1..(L - n), NEW j \in 1..(L - n), q[n + i] = q[n + j]
                 PROVE  i = j
      BY <1>2 DEF IsDistinct
    <2>1. n + i \in 1..L /\ n + j \in 1..L
      BY <1>1
    <2>2. n + i = n + j
      BY <1>1, <2>1 DEF IsDistinct
    <2> QED BY <2>2
  <1> QED BY <1>1, <1>2, <1>4, <1>5, <1>6, <1>7, <1>8, <1>a, <1>b

\* A collection begins.
LEMMA LaunchFacts ==
    ASSUME NEW required \in Nat, NEW margin \in Nat, TypeOK, Distinct, Launch(queue, required, margin)
    PROVE  \E n \in Nat :
             /\ n = IF required + margin <= Len(queue) THEN required + margin ELSE Len(queue)
             /\ InSet' = FirstOf(queue, n)
             /\ InSet' \subseteq Waiting
             /\ Cardinality(InSet') = n
             /\ task' \in [Pieces -> {"none", "running"} \cup Answers]
             /\ queue' \in Seq(Pieces) /\ Len(queue') = Len(queue) - n
             /\ Waiting' = Waiting \ InSet'
             /\ Distinct'
             /\ attempted' = n /\ hedgesLeft' = Hedges(required, margin) /\ got' = {} /\ failures' = {}
  <1>1. queue \in Seq(Pieces) /\ Len(queue) \in Nat
    BY DEF TypeOK
  <1>2. PICK n \in 0..Len(queue) : /\ n = Min({required + margin, Len(queue)})
                                   /\ n = IF required + margin <= Len(queue) THEN required + margin ELSE Len(queue)
    BY <1>1, MinTwo
  <1>3. PICK now : now = FirstOf(queue, n)
    OBVIOUS
  <1>4. PICK rest : rest = RestOf(queue, n)
    OBVIOUS
  <1>5. /\ task' = [p \in Pieces |-> IF p \in now THEN "running" ELSE "none"]
        /\ queue' = rest
        /\ attempted' = n /\ hedgesLeft' = Hedges(required, margin) /\ got' = {} /\ failures' = {}
    BY <1>2, <1>3, <1>4 DEF Launch, FirstOf, RestOf
  <1>6. /\ now \subseteq Elems(queue) /\ now \subseteq Pieces /\ Cardinality(now) = n
        /\ rest \in Seq(Pieces) /\ Len(rest) = Len(queue) - n
        /\ Elems(rest) = Elems(queue) \ now
        /\ IsDistinct(rest)
    <2>1. IsDistinct(queue)
      BY DEF Distinct
    <2> QED BY ONLY <1>1, <1>2, <1>3, <1>4, <2>1, FirstFacts
  <1>7. InSet' = now
    BY <1>5, <1>6 DEF InSet
  <1>8. task' \in [Pieces -> {"none", "running"} \cup Answers]
    BY <1>5
  <1>9. Waiting' = Elems(rest) /\ Distinct' /\ Waiting = Elems(queue)
    BY <1>5, <1>6 DEF Waiting, Distinct
  <1> QED BY <1>1, <1>2, <1>3, <1>5, <1>6, <1>7, <1>8, <1>9

-----------------------------------------------------------------------------
(* The steps *)

\* The parts of the state that are sets of assignments.
LEMMA StateFacts ==
    ASSUME TypeOK
    PROVE  /\ N \in Nat /\ K \in Nat /\ K # 0 /\ LaunchMargin \in Nat /\ MaxExtras \in Nat
           /\ InSet \in SUBSET Pieces /\ got \in SUBSET Pieces /\ failures \in SUBSET Pieces
           /\ shares \in SUBSET Pieces /\ Waiting \in SUBSET Pieces
           /\ queue \in Seq(Pieces) /\ Len(queue) \in Nat /\ attempted \in Nat /\ hedgesLeft \in Nat
           /\ extras \in Nat
           /\ Cardinality(InSet) \in Nat /\ Cardinality(got) \in Nat /\ Cardinality(failures) \in Nat
           /\ Cardinality(shares) \in Nat
           /\ Hedges(K, LaunchMargin) \in 0..K
           /\ (Waiting = {} <=> queue = <<>>)
  <1>1. N \in Nat /\ K \in Nat /\ K # 0 /\ LaunchMargin \in Nat /\ MaxExtras \in Nat
    BY LongTailDownloadAssumption
  <1>2. queue \in Seq(Pieces) /\ Len(queue) \in Nat
    BY DEF TypeOK
  <1>3. InSet \in SUBSET Pieces /\ got \in SUBSET Pieces /\ failures \in SUBSET Pieces
        /\ shares \in SUBSET Pieces /\ attempted \in Nat /\ hedgesLeft \in Nat /\ extras \in Nat
    BY <1>1 DEF TypeOK, InSet
  <1>4. Waiting \in SUBSET Pieces
    BY <1>2 DEF Waiting, Elems
  <1>5. Waiting = {} <=> queue = <<>>
    <2>1. CASE queue = <<>>
      BY <2>1 DEF Waiting, Elems
    <2>2. CASE queue # <<>>
      <3>1. 1 \in 1..Len(queue)
        BY <1>2, <2>2
      <3>2. queue[1] \in Waiting
        BY <3>1 DEF Waiting, Elems
      <3> QED BY <2>2, <3>2
    <2> QED BY <2>1, <2>2
  <1>6. Hedges(K, LaunchMargin) \in 0..K
    BY <1>1, HedgesFacts
  <1>7. /\ Cardinality(InSet) \in Nat /\ Cardinality(got) \in Nat /\ Cardinality(failures) \in Nat
        /\ Cardinality(shares) \in Nat
    BY <1>3, PiecesFinite
  <1> QED BY <1>1, <1>2, <1>3, <1>4, <1>5, <1>6, <1>7

LEMMA InitInv == Init => Inv
  <1> SUFFICES ASSUME Init PROVE Inv
    OBVIOUS
  <1> USE DEF Init
  <1>1. N \in Nat /\ K \in Nat /\ MaxExtras \in Nat
    BY LongTailDownloadAssumption
  <1>2. queue \in Seq(Pieces) /\ Len(queue) = N /\ \A i \in 1..N : queue[i] = i
    BY <1>1 DEF Pieces
  <1>3. TypeOK
    BY <1>1, <1>2 DEF TypeOK
  <1>4. Distinct
    BY <1>2 DEF Distinct, IsDistinct
  <1>5. InSet = {}
    BY DEF InSet
  <1>6. GivesUpLast
    BY DEF GivesUpLast, GivesUpExhausted, CorruptionCovered
  <1> QED BY <1>3, <1>4, <1>5, <1>6 DEF Inv, Collecting, Extras, Resting, Done

\* Steps that leave everything but the tasks' states alone.
LEMMA TaskEndsInv == ASSUME NEW p \in Pieces PROVE Inv /\ TaskEnds(p) => Inv'
  <1> SUFFICES ASSUME Inv, TaskEnds(p) PROVE Inv'
    OBVIOUS
  <1> USE DEF Inv
  <1>1. PICK a \in Answers : task' = [task EXCEPT ![p] = a]
    BY DEF TaskEnds
  <1>2. UNCHANGED <<env, phase, queue, got, failures, attempted, hedgesLeft, segment, cause, tried>>
        /\ task[p] = "running"
    BY DEF TaskEnds
  <1>3. InSet' = InSet
    BY <1>1, <1>2 DEF InSet, TypeOK, Answers
  <1>4. TypeOK'
    BY <1>1, <1>2 DEF TypeOK, env, segment
  <1>5. Waiting' = Waiting
    BY <1>2 DEF Waiting
  <1>6. Accounted => Accounted'
    BY <1>2, <1>3 DEF Accounted
  <1>7. Collecting'
    BY <1>2, <1>3, <1>5, <1>6 DEF Collecting, segment
  <1>8. Extras'
    BY <1>2, <1>3, <1>5 DEF Extras, segment
  <1>9. GivesUpLast'
    BY <1>2 DEF Resting, GivesUpLast, GivesUpExhausted, CorruptionCovered, segment
  <1>10. Resting'
    BY <1>2, <1>3, <1>9 DEF Resting, segment
  <1>11. Distinct'
    BY <1>2 DEF Distinct
  <1> QED BY <1>4, <1>7, <1>8, <1>10, <1>11

LEMMA StutterInv == Inv /\ UNCHANGED vars => Inv'
  BY DEF Inv, vars, env, collect, segment, TypeOK, Distinct, Collecting, Extras, Resting, Accounted, Waiting,
         InSet, GivesUpLast, GivesUpExhausted, CorruptionCovered

\* The function returns with an error, or goes on to decode, with no task left.
LEMMA StartInv == Inv /\ Start => Inv'
  <1> SUFFICES ASSUME Inv, Start PROVE Inv'
    OBVIOUS
  <1> USE DEF Inv
  <1>1. phase = "start" /\ UNCHANGED <<env, segment>>
    BY DEF Start
  <1>2. InSet = {} /\ shares = {} /\ extras = 0 /\ cause = "none" /\ queue = [p \in Pieces |-> p]
    BY <1>1 DEF Resting, Done
  <1>3. CASE range = "invalid" /\ Fail("range") /\ UNCHANGED <<collect, tried>>
    <2>1. phase' = "error" /\ cause' = "range"
      BY <1>3 DEF Fail
    <2>2. InSet' = {}
      BY <1>2, <1>3 DEF InSet, collect
    <2>3. TypeOK' /\ Distinct'
      BY <1>1, <1>3, <2>1 DEF TypeOK, Distinct, collect, env, segment, Done
    <2> QED BY <1>1, <2>1, <2>2, <2>3
            DEF Collecting, Extras, Resting, Done, GivesUpLast, GivesUpExhausted, CorruptionCovered
  <1>4. CASE range = "empty" /\ phase' = "decode" /\ UNCHANGED <<collect, cause, tried>>
    <2>1. InSet' = {}
      BY <1>2, <1>4 DEF InSet, collect
    <2>2. TypeOK' /\ Distinct'
      BY <1>1, <1>4 DEF TypeOK, Distinct, collect, env, segment
    <2>3. shares' = {} /\ cause' = "none"
      BY <1>1, <1>2, <1>4 DEF segment
    <2> QED BY <1>4, <2>1, <2>2, <2>3
            DEF Collecting, Extras, Resting, Done, GivesUpLast, GivesUpExhausted, CorruptionCovered
  <1>5. CASE range = "valid" /\ phase' = "collect" /\ Launch(queue, K, LaunchMargin) /\ UNCHANGED <<cause, tried>>
    <2>1. N \in Nat /\ K \in Nat /\ K # 0 /\ LaunchMargin \in Nat /\ Hedges(K, LaunchMargin) \in 0..K
      BY StateFacts
    <2>2. PICK n \in Nat :
             /\ n = IF K + LaunchMargin <= Len(queue) THEN K + LaunchMargin ELSE Len(queue)
             /\ InSet' \subseteq Waiting
             /\ Cardinality(InSet') = n
             /\ task' \in [Pieces -> {"none", "running"} \cup Answers]
             /\ queue' \in Seq(Pieces) /\ Len(queue') = Len(queue) - n
             /\ Waiting' = Waiting \ InSet'
             /\ Distinct'
             /\ attempted' = n /\ hedgesLeft' = Hedges(K, LaunchMargin) /\ got' = {} /\ failures' = {}
      BY <1>5, <2>1, LaunchFacts
    <2>3. Len(queue) = N /\ Waiting = Pieces
      <3>1. queue \in Seq(Pieces) /\ Len(queue) = N /\ \A i \in 1..N : queue[i] = i
        BY <1>2, <2>1 DEF Pieces
      <3> QED BY <3>1 DEF Waiting, Elems, Pieces
    <2>4. shares' = {} /\ extras' = 0 /\ cause' = "none" /\ corrupt' = corrupt
      BY <1>1, <1>2, <1>5 DEF segment
    <2>5. TypeOK'
      <3>1. attempted' \in 0..N /\ hedgesLeft' \in 0..K
        BY <2>1, <2>2, <2>3
      <3> QED BY <1>1, <1>2, <1>5, <2>2, <2>4, <3>1 DEF TypeOK, env, segment
    <2>6. Cardinality({}) = 0
      BY FS_EmptySet
    <2>7. Accounted'
      <3>1. attempted' + Len(queue') = N
        BY <2>1, <2>2, <2>3
      <3>2. attempted' + hedgesLeft' <= K + LaunchMargin + Hedges(K, LaunchMargin) + Cardinality(failures')
        BY <2>1, <2>2, <2>3, <2>6
      <3>3. queue' # <<>> => n = K + LaunchMargin
        <4>1. queue' # <<>> => Len(queue') # 0
          BY <2>2
        <4> QED BY <2>1, <2>2, <2>3, <4>1
      <3>4. queue' # <<>> => Cardinality(InSet') + Cardinality(got') + hedgesLeft'
                               = K + LaunchMargin + Hedges(K, LaunchMargin)
        BY <2>1, <2>2, <2>6, <3>3
      <3>5. hedgesLeft' <= Hedges(K, LaunchMargin)
        BY <2>1, <2>2
      <3> QED BY <3>1, <3>2, <3>4, <3>5 DEF Accounted
    <2>8. Collecting'
      <3>1. Cardinality(got') < K
        BY <2>1, <2>2, <2>6
      <3> QED BY <2>2, <2>3, <2>4, <2>7, <3>1 DEF Collecting
    <2> QED BY <1>5, <2>2, <2>4, <2>5, <2>8
            DEF Extras, Resting, Done, GivesUpLast, GivesUpExhausted, CorruptionCovered
  <1> QED BY <1>3, <1>4, <1>5 DEF Start

\* An assignment leaves the queue for the set, in place of p or besides it.
LEMMA NextTask ==
    ASSUME Inv, queue # <<>>, queue' = Tail(queue), NEW h, h = Head(queue)
    PROVE  /\ h \in Waiting /\ h \in Pieces /\ Waiting' = Waiting \ {h} /\ Distinct'
           /\ queue' \in Seq(Pieces) /\ Len(queue') = Len(queue) - 1 /\ Len(queue) \in Nat /\ Len(queue) > 0
  <1>1. queue \in Seq(Pieces) /\ IsDistinct(queue)
    BY DEF Inv, TypeOK, Distinct
  <1>2. /\ Head(queue) \in Elems(queue) /\ Head(queue) \in Pieces
        /\ Tail(queue) \in Seq(Pieces) /\ Len(Tail(queue)) = Len(queue) - 1
        /\ Elems(Tail(queue)) = Elems(queue) \ {Head(queue)}
        /\ IsDistinct(Tail(queue))
    BY <1>1, TailFacts
  <1>3. Len(queue) \in Nat /\ Len(queue) > 0
    BY <1>1
  <1> QED BY <1>2, <1>3 DEF Waiting, Distinct

LEMMA HedgeInv == Inv /\ Hedge => Inv'
  <1> SUFFICES ASSUME Inv, Hedge PROVE Inv'
    OBVIOUS
  <1> USE DEF Inv
  <1>1. PICK h : h = Head(queue)
    OBVIOUS
  <1>2. /\ phase = "collect" /\ hedgesLeft > 0 /\ queue # <<>>
        /\ task' = [task EXCEPT ![h] = "running"] /\ queue' = Tail(queue)
        /\ attempted' = attempted + 1 /\ hedgesLeft' = hedgesLeft - 1
        /\ UNCHANGED <<env, phase, got, failures, segment, cause, tried>>
    BY <1>1 DEF Hedge
  <1>3. /\ h \in Waiting /\ h \in Pieces /\ Waiting' = Waiting \ {h} /\ Distinct'
        /\ queue' \in Seq(Pieces) /\ Len(queue') = Len(queue) - 1 /\ Len(queue) \in Nat /\ Len(queue) > 0
    BY <1>1, <1>2, NextTask
  <1>4. /\ InSet \cup got \cup failures \cup Waiting = Pieces
        /\ Waiting \cap (InSet \cup got \cup failures) = {}
        /\ InSet \cap (got \cup failures) = {}
        /\ got \cap failures = {} /\ got = shares /\ Cardinality(got) < K /\ Accounted
    BY <1>2 DEF Collecting
  <1>5. InSet' = InSet \cup {h}
    BY <1>2, <1>3 DEF InSet, TypeOK
  <1>6. Cardinality(InSet') = Cardinality(InSet) + 1
    BY <1>3, <1>4, <1>5, StateFacts, AddPiece
  <1>7. TypeOK'
    <2>1. attempted' \in 0..N /\ hedgesLeft' \in 0..K
      <3>1. attempted + Len(queue) = N /\ attempted \in Nat /\ hedgesLeft \in 0..K /\ N \in Nat /\ K \in Nat
        BY <1>4, StateFacts DEF Accounted, TypeOK
      <3> QED BY <1>2, <1>3, <3>1
    <2>2. task' \in [Pieces -> {"none", "running"} \cup Answers]
      BY <1>2, <1>3 DEF TypeOK
    <2> QED BY <1>2, <1>3, <2>1, <2>2 DEF TypeOK, env, segment
  <1>8. Accounted'
    <2>0. /\ attempted \in Nat /\ hedgesLeft \in Nat /\ Hedges(K, LaunchMargin) \in Nat
          /\ attempted' = attempted + 1 /\ hedgesLeft' = hedgesLeft - 1
          /\ attempted + Len(queue) = N /\ hedgesLeft <= Hedges(K, LaunchMargin)
      BY <1>2, <1>4, StateFacts DEF Accounted
    <2>1. attempted' + Len(queue') = N
      BY ONLY <1>3, <2>0
    <2>2. hedgesLeft' <= Hedges(K, LaunchMargin)
      BY ONLY <2>0
    <2>3. attempted' + hedgesLeft' <= K + LaunchMargin + Hedges(K, LaunchMargin) + Cardinality(failures')
      <3>1. attempted' + hedgesLeft' = attempted + hedgesLeft
        BY ONLY <2>0
      <3>2. failures' = failures
        BY <1>2
      <3> QED BY <1>4, <3>1, <3>2 DEF Accounted
    <2>4. Cardinality(InSet') + Cardinality(got') + hedgesLeft' = Cardinality(InSet) + Cardinality(got) + hedgesLeft
      <3>1. got' = got
        BY <1>2
      <3>2. /\ Cardinality(InSet) \in Nat /\ Cardinality(got) \in Nat /\ hedgesLeft \in Nat
            /\ hedgesLeft' = hedgesLeft - 1
        BY <1>2, StateFacts
      <3> QED BY ONLY <1>6, <3>1, <3>2
    <2> QED BY <1>2, <1>4, <2>1, <2>2, <2>3, <2>4 DEF Accounted
  <1>9. Collecting'
    BY <1>2, <1>3, <1>4, <1>5, <1>8 DEF Collecting, segment
  <1>10. Extras'
    BY <1>2 DEF Extras
  <1>11. Resting'
    BY <1>2 DEF Resting, segment, Done, GivesUpLast, GivesUpExhausted, CorruptionCovered
  <1> QED BY <1>3, <1>7, <1>9, <1>10, <1>11

\* Only a collection has tasks to join.
LEMMA Joinable ==
    ASSUME Inv, NEW p \in Pieces, task[p] # "none"
    PROVE  p \in InSet /\ phase \in {"collect", "extra"} /\ cause = "none"
  BY DEF Inv, InSet, Resting, Done

\* A piece arrived and more are needed.
LEMMA JoinOkMore ==
    ASSUME NEW p \in Pieces, Inv, JoinOk(p), ~(Cardinality(got') >= Required)
    PROVE  Inv'
  <1> USE DEF Inv
  <1>1. /\ task[p] = "piece" /\ got' = got \cup {p} /\ corrupt' \in {corrupt, corrupt \cup {p}}
        /\ shares' = shares \cup {p} /\ task' = [task EXCEPT ![p] = "none"]
        /\ UNCHANGED <<phase, queue, extras>>
        /\ UNCHANGED <<env, failures, attempted, hedgesLeft, cause, tried>>
    BY DEF JoinOk
  <1>2. p \in InSet /\ phase \in {"collect", "extra"} /\ cause = "none"
    BY <1>1, Joinable
  <1>3. phase = "collect"
    <2> SUFFICES ASSUME phase = "extra" PROVE FALSE
      BY <1>2
    <2>1. got' = {p} /\ Cardinality({p}) = 1
      <3>1. got = {}
        BY DEF Extras
      <3>2. Cardinality({} \cup {p}) = Cardinality({}) + 1 /\ Cardinality({}) = 0
        BY AddPiece, FS_EmptySet
      <3>3. {} \cup {p} = {p}
        OBVIOUS
      <3> QED BY <1>1, <3>1, <3>2, <3>3
    <2> QED BY <2>1 DEF Required
  <1>4. /\ InSet \cup got \cup failures \cup Waiting = Pieces
        /\ Waiting \cap (InSet \cup got \cup failures) = {}
        /\ InSet \cap (got \cup failures) = {}
        /\ got \cap failures = {} /\ got = shares /\ Cardinality(got) < K /\ Accounted
    BY <1>3 DEF Collecting
  <1>5. InSet' = InSet \ {p}
    BY <1>1 DEF InSet, TypeOK
  <1>6. Cardinality(InSet') = Cardinality(InSet) - 1
    BY <1>2, <1>5, StateFacts, RemovePiece
  <1>7. Cardinality(got') = Cardinality(got) + 1
    BY <1>1, <1>2, <1>4, StateFacts, AddPiece
  <1>8. Waiting' = Waiting /\ Distinct'
    BY <1>1 DEF Waiting, Distinct
  <1>9. TypeOK'
    BY <1>1 DEF TypeOK, env
  <1>10. Accounted'
    <2>1. Cardinality(InSet') + Cardinality(got') + hedgesLeft' = Cardinality(InSet) + Cardinality(got) + hedgesLeft
      <3>1. hedgesLeft' = hedgesLeft
        BY <1>1
      <3> QED BY <1>6, <1>7, <3>1, StateFacts
    <2> QED BY <1>1, <1>4, <2>1 DEF Accounted
  <1>11. Collecting'
    <2>1. Cardinality(got') < K
      BY <1>3, <1>7, StateFacts DEF Required
    <2> QED BY <1>1, <1>2, <1>4, <1>5, <1>8, <1>10, <2>1 DEF Collecting
  <1>12. Extras'
    BY <1>1, <1>3 DEF Extras
  <1>13. Resting'
    BY <1>1, <1>2, <1>3 DEF Resting, Done, GivesUpLast, GivesUpExhausted, CorruptionCovered
  <1> QED BY <1>8, <1>9, <1>11, <1>12, <1>13

\* The last piece needed arrived.
LEMMA JoinOkLast ==
    ASSUME NEW p \in Pieces, Inv, JoinOk(p), Cardinality(got') >= Required
    PROVE  Inv'
  <1> USE DEF Inv
  <1>1. /\ task[p] = "piece" /\ got' = got \cup {p} /\ corrupt' \in {corrupt, corrupt \cup {p}}
        /\ shares' = shares \cup {p} /\ task' = [q \in Pieces |-> "none"]
        /\ phase' = "decode"
        /\ queue' = (IF phase = "collect" THEN Unused(shares') ELSE queue)
        /\ extras' = (IF phase = "extra" THEN extras + 1 ELSE extras)
        /\ UNCHANGED <<env, failures, attempted, hedgesLeft, cause, tried>>
    BY DEF JoinOk
  <1>2. p \in InSet /\ phase \in {"collect", "extra"} /\ cause = "none"
    BY <1>1, Joinable
  <1>3. InSet' = {}
    BY <1>1 DEF InSet
  <1>4. shares' \in SUBSET Pieces /\ shares' # {}
    BY <1>1, StateFacts
  <1>5. CASE phase = "collect"
    <2>1. queue' \in Seq(Pieces) /\ Waiting' = Pieces \ shares' /\ Distinct' /\ extras' = 0 /\ extras = 0
      BY <1>1, <1>4, <1>5, UnusedFacts DEF Waiting, Distinct, Resting
    <2>2. got = shares /\ Cardinality(got) < K /\ p \notin got
      BY <1>2, <1>5 DEF Collecting
    <2>3. Cardinality(shares') = Cardinality(shares) + 1
      BY <1>1, <2>2, StateFacts, AddPiece
    <2>4. Cardinality(shares') = K + extras'
      BY <1>1, <1>5, <2>1, <2>2, <2>3, StateFacts DEF Required
    <2>5. TypeOK'
      BY <1>1, <2>1 DEF TypeOK, env
    <2>6. Extras'
      BY <1>1, <1>4, <2>1, <2>4 DEF Extras, TypeOK
    <2> QED BY <1>1, <1>2, <1>3, <2>1, <2>5, <2>6
            DEF Collecting, Resting, Done, GivesUpLast, GivesUpExhausted, CorruptionCovered
  <1>6. CASE phase = "extra"
    <2>1. /\ Waiting \cap shares = {} /\ Cardinality(shares) = K + extras
          /\ Pieces = shares \cup tried \cup Waiting
          /\ extras < MaxExtras /\ InSet \cap shares = {} /\ Waiting \cap InSet = {}
      BY <1>6 DEF Extras
    <2>2. Waiting' = Waiting /\ Distinct' /\ queue' = queue
      BY <1>1, <1>6 DEF Waiting, Distinct
    <2>3. Cardinality(shares') = Cardinality(shares) + 1
      BY <1>1, <1>2, <2>1, StateFacts, AddPiece
    <2>4. extras' = extras + 1 /\ extras' \in 0..MaxExtras
      <3>1. extras \in Nat /\ MaxExtras \in Nat
        BY StateFacts
      <3>2. extras' = extras + 1
        BY <1>1, <1>6
      <3> QED BY ONLY <2>1, <3>1, <3>2
    <2>5. Cardinality(shares') = K + extras'
      <3>1. K \in Nat /\ extras \in Nat
        BY StateFacts
      <3> QED BY ONLY <2>1, <2>3, <2>4, <3>1
    <2>6. TypeOK'
      BY <1>1, <2>2, <2>4 DEF TypeOK, env
    <2>7. Extras'
      BY <1>1, <1>2, <2>1, <2>2, <2>5 DEF Extras
    <2> QED BY <1>1, <1>2, <1>3, <2>2, <2>6, <2>7
            DEF Collecting, Resting, Done, GivesUpLast, GivesUpExhausted, CorruptionCovered
  <1> QED BY <1>2, <1>5, <1>6

\* A failure promotes the next assignment, if there is one.
LEMMA JoinErrInv == ASSUME NEW p \in Pieces PROVE Inv /\ JoinErr(p) => Inv'
  <1> SUFFICES ASSUME Inv, JoinErr(p) PROVE Inv'
    OBVIOUS
  <1> USE DEF Inv
  <1>1. /\ task[p] = "nothing" /\ failures' = failures \cup {p} /\ Promote(p)
        /\ tried' = (IF phase = "extra" /\ queue # <<>> THEN tried \cup {Head(queue)} ELSE tried)
        /\ UNCHANGED <<env, phase, got, hedgesLeft, segment, cause>>
    BY DEF JoinErr
  <1>2. p \in InSet /\ phase \in {"collect", "extra"} /\ cause = "none"
    BY <1>1, Joinable
  <1>3. failures' \in SUBSET Pieces
    BY <1>1, StateFacts
  <1>4. GivesUpLast' /\ Resting'
    BY <1>1, <1>2 DEF Resting, segment, Done, GivesUpLast, GivesUpExhausted, CorruptionCovered
  <1>5. phase = "collect" => 
        /\ InSet \cup got \cup failures \cup Waiting = Pieces
        /\ Waiting \cap (InSet \cup got \cup failures) = {}
        /\ InSet \cap (got \cup failures) = {}
        /\ got \cap failures = {} /\ got = shares /\ Cardinality(got) < K /\ Accounted
    BY DEF Collecting
  <1>6. phase = "extra" =>
        /\ Waiting \cap shares = {} /\ Cardinality(shares) = K + extras
        /\ Pieces = shares \cup tried \cup Waiting
        /\ got = {} /\ extras < MaxExtras /\ attempted + Len(queue) <= N
        /\ InSet \cap shares = {} /\ Waiting \cap (InSet \cup failures) = {}
    BY DEF Extras
  <1>7. phase = "collect" => Cardinality(failures') = Cardinality(failures) + 1
    BY <1>1, <1>2, <1>5, StateFacts, AddPiece
  <1>8. CASE queue = <<>>
    <2>1. task' = [task EXCEPT ![p] = "none"] /\ queue' = queue /\ attempted' = attempted /\ tried' = tried
      BY <1>1, <1>8 DEF Promote
    <2>2. InSet' = InSet \ {p}
      BY <2>1 DEF InSet, TypeOK
    <2>3. Waiting' = Waiting /\ Distinct'
      BY <2>1 DEF Waiting, Distinct
    <2>4. TypeOK'
      BY <1>1, <1>3, <2>1 DEF TypeOK, env, segment
    <2>5. phase = "collect" => Accounted'
      <3> SUFFICES ASSUME phase = "collect" PROVE Accounted'
        OBVIOUS
      <3>1. /\ attempted \in Nat /\ hedgesLeft \in Nat /\ K \in Nat /\ LaunchMargin \in Nat
            /\ Hedges(K, LaunchMargin) \in Nat /\ Cardinality(failures) \in Nat
        BY StateFacts
      <3>2. Accounted
        BY <1>5
      <3>3. UNCHANGED <<queue, attempted, hedgesLeft>> /\ Cardinality(failures') = Cardinality(failures) + 1
        BY <1>1, <1>7, <2>1
      <3>4. queue = <<>>
        BY <1>8
      <3> QED BY ONLY <3>1, <3>2, <3>3, <3>4 DEF Accounted
    <2>6. Collecting'
      BY <1>1, <1>2, <1>5, <2>2, <2>3, <2>5 DEF Collecting, segment
    <2>7. Extras'
      <3>1. Waiting = {}
        BY <1>8, StateFacts
      <3> QED BY <1>1, <1>2, <1>6, <1>8, <2>1, <2>2, <2>3, <3>1 DEF Extras, segment
    <2> QED BY <1>4, <2>3, <2>4, <2>6, <2>7
  <1>9. CASE queue # <<>>
    <2>1. PICK h : h = Head(queue)
      OBVIOUS
    <2>2. task' = [task EXCEPT ![p] = "none", ![h] = "running"] /\ queue' = Tail(queue) /\ attempted' = attempted + 1
          /\ tried' = IF phase = "extra" THEN tried \cup {h} ELSE tried
      BY <1>1, <1>9, <2>1 DEF Promote
    <2>3. /\ h \in Waiting /\ h \in Pieces /\ Waiting' = Waiting \ {h} /\ Distinct'
          /\ queue' \in Seq(Pieces) /\ Len(queue') = Len(queue) - 1 /\ Len(queue) \in Nat /\ Len(queue) > 0
      BY <1>9, <2>1, <2>2, NextTask
    <2>4. h \notin InSet /\ h # p
      BY <1>2, <1>5, <1>6, <2>3
    <2>5. InSet' = (InSet \ {p}) \cup {h}
      BY <2>2, <2>3, <2>4 DEF InSet, TypeOK
    <2>6. Cardinality(InSet') = Cardinality(InSet)
      <3>1. Cardinality(InSet \ {p}) = Cardinality(InSet) - 1
        BY <1>2, StateFacts, RemovePiece
      <3>2. Cardinality((InSet \ {p}) \cup {h}) = Cardinality(InSet \ {p}) + 1
        BY <2>3, <2>4, StateFacts, AddPiece
      <3> QED BY <2>5, <3>1, <3>2, StateFacts
    <2>7. TypeOK'
      <3>1. attempted' \in 0..N
        <4>1. attempted + Len(queue) <= N
          BY <1>2, <1>5, <1>6, StateFacts DEF Accounted
        <4>2. attempted \in Nat /\ N \in Nat
          BY StateFacts
        <4> QED BY ONLY <2>2, <2>3, <4>1, <4>2
      <3>2. task' \in [Pieces -> {"none", "running"} \cup Answers]
        BY <2>2, <2>3 DEF TypeOK
      <3>3. tried' \in SUBSET Pieces
        BY <2>2, <2>3 DEF TypeOK
      <3> QED BY <1>1, <1>3, <2>3, <3>1, <3>2, <3>3 DEF TypeOK, env, segment
    <2>8. phase = "collect" => Accounted'
      <3> SUFFICES ASSUME phase = "collect" PROVE Accounted'
        OBVIOUS
      <3>1. attempted' + Len(queue') = N
        <4>1. attempted \in Nat /\ attempted' = attempted + 1 /\ attempted + Len(queue) = N
          BY <1>5, <2>2, StateFacts DEF Accounted
        <4> QED BY ONLY <2>3, <4>1
      <3>2. hedgesLeft' = hedgesLeft /\ got' = got
        BY <1>1
      <3>3. attempted' + hedgesLeft' <= K + LaunchMargin + Hedges(K, LaunchMargin) + Cardinality(failures')
        <4>1. attempted + hedgesLeft <= K + LaunchMargin + Hedges(K, LaunchMargin) + Cardinality(failures)
          BY <1>5 DEF Accounted
        <4>2. attempted' = attempted + 1 /\ Cardinality(failures') = Cardinality(failures) + 1
          BY <1>7, <2>2
        <4>3. /\ attempted \in Nat /\ hedgesLeft \in Nat /\ K \in Nat /\ LaunchMargin \in Nat
              /\ Hedges(K, LaunchMargin) \in Nat /\ Cardinality(failures) \in Nat
          BY StateFacts
        <4> QED BY ONLY <3>2, <4>1, <4>2, <4>3
      <3> QED BY <1>5, <1>9, <2>6, <3>1, <3>2, <3>3 DEF Accounted
    <2>9. Collecting'
      BY <1>1, <1>2, <1>5, <2>3, <2>4, <2>5, <2>8 DEF Collecting, segment
    <2>10. Extras'
      <3> SUFFICES ASSUME phase = "extra" PROVE Extras'
        BY <1>1, <1>2 DEF Extras
      <3>1. attempted' + Len(queue') <= N
        <4>1. attempted \in Nat /\ attempted' = attempted + 1 /\ attempted + Len(queue) <= N /\ N \in Nat
          BY <1>6, <2>2, StateFacts
        <4> QED BY ONLY <2>3, <4>1
      <3>2. InSet' # {}
        BY <2>5
      <3>3. Pieces = shares' \cup tried' \cup Waiting'
        BY <1>1, <1>6, <2>2, <2>3 DEF segment
      <3>4. InSet' \cap shares' = {} /\ Waiting' \cap (InSet' \cup failures') = {} /\ Waiting' \cap shares' = {}
        BY <1>1, <1>2, <1>6, <2>3, <2>4, <2>5 DEF segment
      <3> QED BY <1>1, <1>6, <3>1, <3>2, <3>3, <3>4 DEF Extras, segment
    <2> QED BY <1>4, <2>3, <2>7, <2>9, <2>10
  <1> QED BY <1>8, <1>9

LEMMA JoinPanicInv == ASSUME NEW p \in Pieces PROVE Inv /\ JoinPanic(p) => Inv'
  <1> SUFFICES ASSUME Inv, JoinPanic(p) PROVE Inv'
    OBVIOUS
  <1> USE DEF Inv
  <1>1. task' = [q \in Pieces |-> "none"] /\ phase' = "error" /\ cause' = "join"
        /\ UNCHANGED <<env, queue, got, failures, attempted, hedgesLeft, segment, tried>>
    BY DEF JoinPanic, Fail
  <1>2. InSet' = {}
    BY <1>1 DEF InSet
  <1>3. TypeOK' /\ Distinct'
    BY <1>1 DEF TypeOK, Distinct, env, segment, Done
  <1> QED BY <1>1, <1>2, <1>3
          DEF Collecting, Extras, Resting, Done, GivesUpLast, GivesUpExhausted, CorruptionCovered

\* Giving up for lack of pieces: nothing waits, since the width is kept.
LEMMA InsufficientInv == Inv /\ Insufficient => Inv'
  <1> SUFFICES ASSUME Inv, Insufficient PROVE Inv'
    OBVIOUS
  <1> USE DEF Inv
  <1>1. /\ phase \in {"collect", "extra"} /\ InSet = {} /\ phase' = "error"
        /\ cause' = (IF phase = "collect" THEN "pieces" ELSE "auth")
        /\ UNCHANGED <<env, collect, segment, tried>>
    BY DEF Insufficient, Fail
  <1>2. UNCHANGED <<queue, task, got, failures, attempted, hedgesLeft, shares, corrupt, extras, tried>>
    BY <1>1 DEF collect, segment
  <1>3. InSet' = {}
    BY <1>1, <1>2 DEF InSet
  <1>4. TypeOK' /\ Distinct'
    BY <1>1, <1>2 DEF TypeOK, Distinct, env, Done
  <1>5. queue = <<>>
    <2>1. CASE phase = "extra"
      BY <1>1, <2>1 DEF Extras
    <2>2. CASE phase = "collect"
      <3>1. Accounted /\ Cardinality(got) < K
        BY <2>2 DEF Collecting
      <3>2. Cardinality(InSet) = 0
        BY <1>1, FS_EmptySet
      <3>3. /\ hedgesLeft \in Nat /\ K \in Nat /\ LaunchMargin \in Nat
            /\ Hedges(K, LaunchMargin) \in Nat /\ Cardinality(got) \in Nat
        BY StateFacts
      <3> QED BY ONLY <3>1, <3>2, <3>3 DEF Accounted
    <2> QED BY <1>1, <2>1, <2>2
  <1>6. Waiting = {} /\ Len(queue) = 0
    BY <1>5, StateFacts
  <1>7. GivesUpExhausted'
    <2> SUFFICES ASSUME phase = "collect" PROVE attempted = N /\ Cardinality(got) < K /\ failures = Pieces \ got
      BY <1>1, <1>2 DEF GivesUpExhausted
    <2>1. InSet \cup got \cup failures \cup Waiting = Pieces /\ got \cap failures = {} /\ Cardinality(got) < K
          /\ Accounted
      BY DEF Collecting
    <2>2. attempted = N
      BY <1>6, <2>1, StateFacts DEF Accounted
    <2> QED BY <1>1, <1>6, <2>1, <2>2
  <1>8. CorruptionCovered'
    <2> SUFFICES ASSUME phase = "extra" PROVE Pieces = shares \cup tried
      BY <1>1, <1>2 DEF CorruptionCovered
    <2> QED BY <1>6 DEF Extras
  <1>9. phase' \notin {"start", "collect", "decode", "extra"} /\ phase' \in Done
    BY <1>1 DEF Done
  <1> QED BY <1>3, <1>4, <1>7, <1>8, <1>9 DEF Collecting, Extras, Resting, GivesUpLast

\* The function returns from the decode loop, with the content or an error
\* that is not one of authentication.
LEMMA DecodeInv == Inv /\ (DecodeOk \/ DecodeFails) => Inv'
  <1> SUFFICES ASSUME Inv, DecodeOk \/ DecodeFails PROVE Inv'
    OBVIOUS
  <1> USE DEF Inv
  <1>1. /\ phase = "decode" /\ phase' \in Done /\ cause' \in {cause, "decode"}
        /\ UNCHANGED <<env, collect, segment, tried>>
    BY DEF DecodeOk, DecodeFails, Fail, Done
  <1>2. UNCHANGED <<queue, task, got, failures, attempted, hedgesLeft, shares, corrupt, extras, tried>>
    BY <1>1 DEF collect, segment
  <1>3. cause = "none" /\ InSet = {}
    BY <1>1 DEF Resting, Done
  <1>4. InSet' = {}
    BY <1>2, <1>3 DEF InSet
  <1>5. TypeOK' /\ Distinct'
    BY <1>1, <1>2, <1>3 DEF TypeOK, Distinct, env
  <1>6. cause' \in {"none", "decode"}
    BY <1>1, <1>3
  <1> QED BY <1>1, <1>4, <1>5, <1>6
          DEF Collecting, Extras, Resting, Done, GivesUpLast, GivesUpExhausted, CorruptionCovered

\* Each extra adds one share, so that content given up for lack of extras has
\* more corrupt shares than there are extras.
LEMMA AuthFailsInv == Inv /\ AuthFails => Inv'
  <1> SUFFICES ASSUME Inv, AuthFails PROVE Inv'
    OBVIOUS
  <1> USE DEF Inv
  <1>1. /\ phase = "decode" /\ Cardinality(shares) >= K /\ ~Decodable
        /\ UNCHANGED <<env, segment>>
    BY DEF AuthFails
  <1>2. cause = "none" /\ InSet = {}
    BY <1>1 DEF Resting, Done
  <1>3. /\ Waiting \cap shares = {} /\ Cardinality(shares) = K + extras
        /\ Pieces = shares \cup tried \cup Waiting
    <2>1. shares # {}
      <3>1. Cardinality({}) = 0 /\ K \in Nat /\ K # 0
        BY StateFacts, FS_EmptySet
      <3> QED BY <1>1, <3>1
    <2> QED BY <1>1, <2>1 DEF Extras
  <1>4. UNCHANGED <<shares, corrupt, extras>>
    BY <1>1 DEF segment
  <1>5. CASE AskExtra /\ queue # <<>>
    <2>1. phase' = "extra" /\ Launch(queue, 1, 0) /\ tried' = tried \cup {Head(queue)} /\ cause' = cause
      BY <1>5 DEF AuthFails
    <2>2. PICK n \in Nat :
             /\ n = IF 1 + 0 <= Len(queue) THEN 1 + 0 ELSE Len(queue)
             /\ InSet' = FirstOf(queue, n)
             /\ InSet' \subseteq Waiting
             /\ Cardinality(InSet') = n
             /\ task' \in [Pieces -> {"none", "running"} \cup Answers]
             /\ queue' \in Seq(Pieces) /\ Len(queue') = Len(queue) - n
             /\ Waiting' = Waiting \ InSet'
             /\ Distinct'
             /\ attempted' = n /\ hedgesLeft' = Hedges(1, 0) /\ got' = {} /\ failures' = {}
      BY <2>1, LaunchFacts
    <2>3. n = 1 /\ Len(queue) \in Nat /\ Len(queue) > 0
      BY <1>5, <2>2, StateFacts
    <2>4. InSet' = {Head(queue)} /\ Head(queue) \in Pieces
      <3>1. InSet' = {queue[1]}
        BY <2>2, <2>3 DEF FirstOf
      <3>2. queue[1] = Head(queue) /\ Head(queue) \in Pieces
        BY <1>5, StateFacts
      <3> QED BY <3>1, <3>2
    <2>5. Len(queue) <= N
      <3>1. 1..Len(queue) \in SUBSET Nat /\ IsDistinct(queue) /\ queue \in Seq(Pieces)
        BY StateFacts DEF Distinct
      <3>2. Cardinality(Elems(queue)) = Len(queue)
        <4>1. Len(queue) \in 0..Len(queue)
          BY <2>3
        <4>2. Cardinality(FirstOf(queue, Len(queue))) = Len(queue)
          BY ONLY <3>1, <4>1, FirstFacts
        <4>3. FirstOf(queue, Len(queue)) = Elems(queue)
          BY DEF FirstOf, Elems
        <4> QED BY <4>2, <4>3
      <3>3. Elems(queue) \in SUBSET Pieces
        BY StateFacts DEF Waiting
      <3> QED BY <3>2, <3>3, PiecesFinite
    <2>6. Hedges(1, 0) \in 0..1
      BY HedgesFacts
    <2>7. TypeOK'
      <3>1. attempted' \in 0..N /\ hedgesLeft' \in 0..K
        <4>1. N \in Nat /\ K \in Nat /\ K # 0
          BY StateFacts
        <4> QED BY ONLY <2>2, <2>3, <2>5, <2>6, <4>1
      <3> QED BY <1>1, <1>4, <2>1, <2>2, <2>4, <3>1 DEF TypeOK, env
    <2>8. Extras'
      <3>1. extras < MaxExtras
        BY <1>5 DEF AskExtra
      <3>2. attempted' + Len(queue') <= N
        BY <2>2, <2>3, <2>5, StateFacts
      <3>3. Pieces = shares \cup tried' \cup Waiting'
        BY <1>3, <2>1, <2>2, <2>4
      <3> QED BY <1>3, <1>4, <2>1, <2>2, <2>4, <3>1, <3>2, <3>3 DEF Extras
    <2> QED BY <1>2, <2>1, <2>2, <2>7, <2>8
            DEF Collecting, Resting, Done, GivesUpLast, GivesUpExhausted, CorruptionCovered
  <1>6. CASE ~(AskExtra /\ queue # <<>>)
    <2>1. phase' = "error" /\ cause' = "auth" /\ UNCHANGED <<collect, tried>>
      BY <1>6 DEF AuthFails, Fail
    <2>2. InSet' = {}
      BY <1>2, <2>1 DEF InSet, collect
    <2>3. TypeOK' /\ Distinct'
      BY <1>1, <2>1 DEF TypeOK, Distinct, env, segment, collect, Done
    <2>4. CorruptionCovered'
      <3> SUFFICES ASSUME Cardinality(corrupt) <= MaxExtras PROVE Pieces = shares \cup tried
        BY <1>4, <2>1 DEF CorruptionCovered
      <3>1. CASE queue = <<>>
        BY <1>3, <3>1, StateFacts
      <3>2. CASE ~AskExtra
        <4>1. extras >= MaxExtras
          BY <3>2, StateFacts DEF AskExtra
        <4>2. corrupt \in SUBSET shares /\ IsFiniteSet(shares)
          BY StateFacts, PiecesFinite DEF TypeOK
        <4>3. Cardinality(shares \ corrupt) = Cardinality(shares) - Cardinality(corrupt)
          <5>1. shares \cap corrupt = corrupt
            BY <4>2
          <5>2. Cardinality(shares \ corrupt) = Cardinality(shares) - Cardinality(shares \cap corrupt)
            BY <4>2, FS_Difference
          <5> QED BY <5>1, <5>2
        <4>4. Cardinality(corrupt) \in Nat /\ Cardinality(shares \ corrupt) \in Nat
          <5>1. corrupt \in SUBSET Pieces /\ shares \ corrupt \in SUBSET Pieces
            BY <4>2, StateFacts
          <5> QED BY <5>1, PiecesFinite
        <4>5. Cardinality(shares \ corrupt) >= K
          <5>1. /\ Cardinality(shares) = K + extras /\ Cardinality(corrupt) <= MaxExtras
                /\ K \in Nat /\ extras \in Nat /\ MaxExtras \in Nat
            BY <1>3, StateFacts
          <5> QED BY ONLY <4>1, <4>3, <4>4, <5>1
        <4> QED BY <1>1, <4>5 DEF Decodable
      <3> QED BY <1>6, <3>1, <3>2
    <2> QED BY <2>1, <2>2, <2>3, <2>4 DEF Collecting, Extras, Resting, Done, GivesUpLast, GivesUpExhausted
  <1> QED BY <1>5, <1>6

LEMMA NextInv == Inv /\ [Next]_vars => Inv'
  <1> SUFFICES ASSUME Inv, [Next]_vars PROVE Inv'
    OBVIOUS
  <1>1. CASE Start
    BY <1>1, StartInv
  <1>2. ASSUME NEW p \in Pieces, TaskEnds(p) PROVE Inv'
    BY <1>2, TaskEndsInv
  <1>3. CASE Hedge
    BY <1>3, HedgeInv
  <1>4. ASSUME NEW p \in Pieces, JoinOk(p) PROVE Inv'
    BY <1>4, JoinOkMore, JoinOkLast
  <1>5. ASSUME NEW p \in Pieces, JoinErr(p) PROVE Inv'
    BY <1>5, JoinErrInv
  <1>6. ASSUME NEW p \in Pieces, JoinPanic(p) PROVE Inv'
    BY <1>6, JoinPanicInv
  <1>7. CASE Insufficient
    BY <1>7, InsufficientInv
  <1>8. CASE DecodeOk \/ DecodeFails
    BY <1>8, DecodeInv
  <1>9. CASE AuthFails
    BY <1>9, AuthFailsInv
  <1>10. CASE Returned \/ UNCHANGED vars
    BY <1>10, StutterInv DEF Returned
  <1> QED BY <1>1, <1>2, <1>3, <1>4, <1>5, <1>6, <1>7, <1>8, <1>9, <1>10 DEF Next

-----------------------------------------------------------------------------
(* Theorems *)

\* Where every assignment is, and how launches and extra pieces are accounted
\* for, along every behaviour of a download.
THEOREM InvHolds == Spec => []Inv
  BY InitInv, NextInv, PTL DEF Spec

\* collect_piece_downloads: the speculative budget is never exceeded, the width
\* is kept while assignments are left, and no piece is fetched or waiting twice.
THEOREM LaunchesRightHolds == Spec => []LaunchesRight
  <1>1. Inv => LaunchesRight
    <2> SUFFICES ASSUME Inv PROVE LaunchesRight
      OBVIOUS
    <2> USE DEF Inv
    <2>1. SpareBudget
      <3> SUFFICES ASSUME phase = "collect" PROVE attempted <= K + Speculative + Cardinality(failures)
        BY DEF SpareBudget
      <3>1. attempted + hedgesLeft <= K + LaunchMargin + Hedges(K, LaunchMargin) + Cardinality(failures)
        BY DEF Collecting, Accounted
      <3>2. LaunchMargin + Hedges(K, LaunchMargin) <= Speculative /\ Speculative \in Nat
        BY StateFacts, HedgesFacts
      <3>3. /\ attempted \in Nat /\ hedgesLeft \in Nat /\ K \in Nat /\ LaunchMargin \in Nat
            /\ Hedges(K, LaunchMargin) \in Nat /\ Cardinality(failures) \in Nat
        BY StateFacts
      <3> QED BY ONLY <3>1, <3>2, <3>3
    <2>2. FullWidth
      BY DEF FullWidth, Collecting, Accounted
    <2>3. DistinctShares
      <3>1. \A p \in InSet : p \notin shares
        <4>1. phase \notin {"collect", "extra"} => InSet = {}
          BY DEF Resting
        <4>2. phase = "collect" => InSet \cap shares = {}
          BY DEF Collecting
        <4>3. phase = "extra" => InSet \cap shares = {}
          BY DEF Extras
        <4> QED BY <4>1, <4>2, <4>3
      <3>2. \A i, j \in 1..Len(queue) : queue[i] = queue[j] => i = j
        BY DEF Distinct, IsDistinct
      <3>3. phase \in {"collect", "extra"} => Waiting \cap (InSet \cup got \cup failures) = {}
        BY DEF Collecting, Extras
      <3>4. \A i \in 1..Len(queue) : queue[i] \in Waiting
        BY DEF Waiting, Elems
      <3> QED BY <3>1, <3>2, <3>3, <3>4 DEF DistinctShares
    <2> QED BY <2>1, <2>2, <2>3 DEF LaunchesRight
  <1> QED BY <1>1, InvHolds, PTL

\* collect_piece_downloads and decrypt_one_segment give up only when every
\* assignment was tried, for missing and for corrupt pieces alike.
THEOREM GivesUpLastHolds == Spec => []GivesUpLast
  <1>1. Inv => GivesUpLast
    BY DEF Inv, Resting
  <1> QED BY <1>1, InvHolds, PTL
=============================================================================
