-------------------------- MODULE ProjectOpsProofs --------------------------
(***************************************************************************)
(* Proofs about ProjectOps for any number of clients, calls and lost       *)
(* messages, and any project the clients find in order: the keys and the   *)
(* metadata of every object open, locks are their object's own, a download *)
(* reads one edition, a revoked key is inert, a listing is complete, and   *)
(* every step is a step of the abstract ObjectStore.                       *)
(*                                                                         *)
(* Inv is the inductive invariant.  Its parts:                             *)
(*   ProjectOK  what the satellite holds, with the histories of uploads    *)
(*              and editions.  None of the invariants is inductive without *)
(*              the keys of uploads still open (they become objects) and   *)
(*              without ids that are never used twice;                     *)
(*   ClientOK   what a client carries from one RPC of a call to the next.  *)
(*              The satellite may be another by then, so it is said of the *)
(*              histories, which only grow (Grows);                        *)
(*   ResultOK   what a finished download returned.                         *)
(*                                                                         *)
(* The argument goes in three layers.  A lemma a handler says what it may  *)
(* do to the satellite (Serves, Calm, Still and one predicate for each     *)
(* change that is none of them: Begun, Added, Discarded, Deleted,          *)
(* Published, Updated, Copied, Moved).  A lemma a change says that it      *)
(* keeps the project in order.  A lemma an action says that what the       *)
(* client sends fits that change, and that what it keeps is right.  The    *)
(* refinement uses the first layer again: each change is one abstract      *)
(* action, or invisible.  Listings have an invariant of their own, ListInv,*)
(* which says where each of them stands between two pages.                 *)
(***************************************************************************)
EXTENDS ProjectOps, FiniteSetTheorems, WellFoundedInduction, TLAPS

-----------------------------------------------------------------------------
(* The first error, and sorting by position *)

\* FirstError is the first check that is not "ok", as an early return is.
LEMMA FirstErrorOf ==
    ASSUME NEW n \in Nat, NEW checks, DOMAIN checks = 1..n, NEW k \in 1..n,
           checks[k] # "ok", \A i \in 1..n : i < k => checks[i] = "ok"
    PROVE  FirstError(checks) = checks[k]
PROOF
<1> DEFINE bad == {i \in DOMAIN checks : checks[i] # "ok"}
<1>1. k \in bad OBVIOUS
<1>2. \A j \in bad : j \in Nat /\ k <= j OBVIOUS
<1>3. (CHOOSE i \in bad : \A j \in bad : i <= j) = k BY <1>1, <1>2
<1> QED BY <1>1, <1>3 DEF FirstError

\* With no failing check there is no error.
LEMMA FirstErrorNone ==
    ASSUME NEW n \in Nat, NEW checks, DOMAIN checks = 1..n,
           \A i \in 1..n : checks[i] = "ok"
    PROVE  FirstError(checks) = "ok"
BY DEF FirstError

\* FirstError of one to five checks, written as the chain of returns.
LEMMA FirstError1 ==
    ASSUME NEW a
    PROVE  FirstError(<<a>>) =
              a
PROOF
<1>0. PICK q : q = <<a>> OBVIOUS
<1>q. DOMAIN q = 1..1 /\ q[1] = a BY <1>0
<1>1. ASSUME a # "ok" PROVE FirstError(q) = a
  <2>1. 1 \in 1..1 /\ q[1] # "ok" /\ \A i \in 1..1 : i < 1 => q[i] = "ok" BY <1>q, <1>1
  <2> QED BY ONLY <2>1, <1>q, 1 \in Nat, FirstErrorOf
<1>2. ASSUME a = "ok" PROVE FirstError(q) = "ok"
  <2>1. \A i \in 1..1 : q[i] = "ok" BY <1>q, <1>2
  <2> QED BY ONLY <2>1, <1>q, 1 \in Nat, FirstErrorNone
<1> QED BY <1>0, <1>1, <1>2

LEMMA FirstError2 ==
    ASSUME NEW a, NEW b
    PROVE  FirstError(<<a, b>>) =
              IF a # "ok" THEN a ELSE b
PROOF
<1>0. PICK q : q = <<a, b>> OBVIOUS
<1>q. DOMAIN q = 1..2 /\ q[1] = a /\ q[2] = b BY <1>0
<1>1. ASSUME a # "ok" PROVE FirstError(q) = a
  <2>1. 1 \in 1..2 /\ q[1] # "ok" /\ \A i \in 1..2 : i < 1 => q[i] = "ok" BY <1>q, <1>1
  <2> QED BY ONLY <2>1, <1>q, 2 \in Nat, FirstErrorOf
<1>2. ASSUME a = "ok", b # "ok" PROVE FirstError(q) = b
  <2>1. 2 \in 1..2 /\ q[2] # "ok" /\ \A i \in 1..2 : i < 2 => q[i] = "ok" BY <1>q, <1>2
  <2> QED BY ONLY <2>1, <1>q, 2 \in Nat, FirstErrorOf
<1>3. ASSUME a = "ok", b = "ok" PROVE FirstError(q) = "ok"
  <2>1. \A i \in 1..2 : q[i] = "ok" BY <1>q, <1>3
  <2> QED BY ONLY <2>1, <1>q, 2 \in Nat, FirstErrorNone
<1> QED BY <1>0, <1>1, <1>2, <1>3

LEMMA FirstError3 ==
    ASSUME NEW a, NEW b, NEW d
    PROVE  FirstError(<<a, b, d>>) =
              IF a # "ok" THEN a ELSE IF b # "ok" THEN b ELSE d
PROOF
<1>0. PICK q : q = <<a, b, d>> OBVIOUS
<1>q. DOMAIN q = 1..3 /\ q[1] = a /\ q[2] = b /\ q[3] = d BY <1>0
<1>1. ASSUME a # "ok" PROVE FirstError(q) = a
  <2>1. 1 \in 1..3 /\ q[1] # "ok" /\ \A i \in 1..3 : i < 1 => q[i] = "ok" BY <1>q, <1>1
  <2> QED BY ONLY <2>1, <1>q, 3 \in Nat, FirstErrorOf
<1>2. ASSUME a = "ok", b # "ok" PROVE FirstError(q) = b
  <2>1. 2 \in 1..3 /\ q[2] # "ok" /\ \A i \in 1..3 : i < 2 => q[i] = "ok" BY <1>q, <1>2
  <2> QED BY ONLY <2>1, <1>q, 3 \in Nat, FirstErrorOf
<1>3. ASSUME a = "ok", b = "ok", d # "ok" PROVE FirstError(q) = d
  <2>1. 3 \in 1..3 /\ q[3] # "ok" /\ \A i \in 1..3 : i < 3 => q[i] = "ok" BY <1>q, <1>3
  <2> QED BY ONLY <2>1, <1>q, 3 \in Nat, FirstErrorOf
<1>4. ASSUME a = "ok", b = "ok", d = "ok" PROVE FirstError(q) = "ok"
  <2>1. \A i \in 1..3 : q[i] = "ok" BY <1>q, <1>4
  <2> QED BY ONLY <2>1, <1>q, 3 \in Nat, FirstErrorNone
<1> QED BY <1>0, <1>1, <1>2, <1>3, <1>4

LEMMA FirstError4 ==
    ASSUME NEW a, NEW b, NEW d, NEW e
    PROVE  FirstError(<<a, b, d, e>>) =
              IF a # "ok" THEN a ELSE IF b # "ok" THEN b ELSE IF d # "ok" THEN d ELSE e
PROOF
<1>0. PICK q : q = <<a, b, d, e>> OBVIOUS
<1>q. DOMAIN q = 1..4 /\ q[1] = a /\ q[2] = b /\ q[3] = d /\ q[4] = e BY <1>0
<1>1. ASSUME a # "ok" PROVE FirstError(q) = a
  <2>1. 1 \in 1..4 /\ q[1] # "ok" /\ \A i \in 1..4 : i < 1 => q[i] = "ok" BY <1>q, <1>1
  <2> QED BY ONLY <2>1, <1>q, 4 \in Nat, FirstErrorOf
<1>2. ASSUME a = "ok", b # "ok" PROVE FirstError(q) = b
  <2>1. 2 \in 1..4 /\ q[2] # "ok" /\ \A i \in 1..4 : i < 2 => q[i] = "ok" BY <1>q, <1>2
  <2> QED BY ONLY <2>1, <1>q, 4 \in Nat, FirstErrorOf
<1>3. ASSUME a = "ok", b = "ok", d # "ok" PROVE FirstError(q) = d
  <2>1. 3 \in 1..4 /\ q[3] # "ok" /\ \A i \in 1..4 : i < 3 => q[i] = "ok" BY <1>q, <1>3
  <2> QED BY ONLY <2>1, <1>q, 4 \in Nat, FirstErrorOf
<1>4. ASSUME a = "ok", b = "ok", d = "ok", e # "ok" PROVE FirstError(q) = e
  <2>1. 4 \in 1..4 /\ q[4] # "ok" /\ \A i \in 1..4 : i < 4 => q[i] = "ok" BY <1>q, <1>4
  <2> QED BY ONLY <2>1, <1>q, 4 \in Nat, FirstErrorOf
<1>5. ASSUME a = "ok", b = "ok", d = "ok", e = "ok" PROVE FirstError(q) = "ok"
  <2>1. \A i \in 1..4 : q[i] = "ok" BY <1>q, <1>5
  <2> QED BY ONLY <2>1, <1>q, 4 \in Nat, FirstErrorNone
<1> QED BY <1>0, <1>1, <1>2, <1>3, <1>4, <1>5

LEMMA FirstError5 ==
    ASSUME NEW a, NEW b, NEW d, NEW e, NEW f
    PROVE  FirstError(<<a, b, d, e, f>>) =
              IF a # "ok" THEN a ELSE IF b # "ok" THEN b ELSE IF d # "ok" THEN d ELSE IF e # "ok" THEN e ELSE f
PROOF
<1>0. PICK q : q = <<a, b, d, e, f>> OBVIOUS
<1>q. DOMAIN q = 1..5 /\ q[1] = a /\ q[2] = b /\ q[3] = d /\ q[4] = e /\ q[5] = f BY <1>0
<1>1. ASSUME a # "ok" PROVE FirstError(q) = a
  <2>1. 1 \in 1..5 /\ q[1] # "ok" /\ \A i \in 1..5 : i < 1 => q[i] = "ok" BY <1>q, <1>1
  <2> QED BY ONLY <2>1, <1>q, 5 \in Nat, FirstErrorOf
<1>2. ASSUME a = "ok", b # "ok" PROVE FirstError(q) = b
  <2>1. 2 \in 1..5 /\ q[2] # "ok" /\ \A i \in 1..5 : i < 2 => q[i] = "ok" BY <1>q, <1>2
  <2> QED BY ONLY <2>1, <1>q, 5 \in Nat, FirstErrorOf
<1>3. ASSUME a = "ok", b = "ok", d # "ok" PROVE FirstError(q) = d
  <2>1. 3 \in 1..5 /\ q[3] # "ok" /\ \A i \in 1..5 : i < 3 => q[i] = "ok" BY <1>q, <1>3
  <2> QED BY ONLY <2>1, <1>q, 5 \in Nat, FirstErrorOf
<1>4. ASSUME a = "ok", b = "ok", d = "ok", e # "ok" PROVE FirstError(q) = e
  <2>1. 4 \in 1..5 /\ q[4] # "ok" /\ \A i \in 1..5 : i < 4 => q[i] = "ok" BY <1>q, <1>4
  <2> QED BY ONLY <2>1, <1>q, 5 \in Nat, FirstErrorOf
<1>5. ASSUME a = "ok", b = "ok", d = "ok", e = "ok", f # "ok" PROVE FirstError(q) = f
  <2>1. 5 \in 1..5 /\ q[5] # "ok" /\ \A i \in 1..5 : i < 5 => q[i] = "ok" BY <1>q, <1>5
  <2> QED BY ONLY <2>1, <1>q, 5 \in Nat, FirstErrorOf
<1>6. ASSUME a = "ok", b = "ok", d = "ok", e = "ok", f = "ok" PROVE FirstError(q) = "ok"
  <2>1. \A i \in 1..5 : q[i] = "ok" BY <1>q, <1>6
  <2> QED BY ONLY <2>1, <1>q, 5 \in Nat, FirstErrorNone
<1> QED BY <1>0, <1>1, <1>2, <1>3, <1>4, <1>5, <1>6

\* The places of a list in the order of the positions, ties by place.
Upto(q, j) ==
    {i \in DOMAIN q : \/ PositionBefore(q[i], q[j])
                      \/ ~PositionBefore(q[j], q[i]) /\ i <= j}

\* The rank of a segment counts those up to it.
LEMMA RankUpto == ASSUME NEW q, NEW j PROVE Rank(q, j) = Cardinality(Upto(q, j))
BY DEF Rank, Upto

\* Lexicographic order of part, index and place.
LexBefore(p, x, i, q, y, j) == p < q \/ (p = q /\ (x < y \/ (x = y /\ i <= j)))

\* The order of positions, ties broken by arrival, is transitive ...
LEMMA LexTransitive ==
    ASSUME NEW p \in Nat, NEW x \in Nat, NEW i \in Int, NEW q \in Nat, NEW y \in Nat,
           NEW j \in Int, NEW r \in Nat, NEW z \in Nat, NEW k \in Int,
           LexBefore(p, x, i, q, y, j), LexBefore(q, y, j, r, z, k)
    PROVE  LexBefore(p, x, i, r, z, k)
BY DEF LexBefore

\* ... and total.
LEMMA LexTotal ==
    ASSUME NEW p \in Nat, NEW x \in Nat, NEW i \in Int, NEW q \in Nat, NEW y \in Nat,
           NEW j \in Int
    PROVE  LexBefore(p, x, i, q, y, j) \/ LexBefore(q, y, j, p, x, i)
BY DEF LexBefore

\* Upto inherits that order, as a chain of finite sets.
LEMMA UptoOrder ==
    ASSUME NEW q, SegmentsOK(q), NEW i \in 1..Len(q), NEW j \in 1..Len(q)
    PROVE  /\ DOMAIN q = 1..Len(q)
           /\ j \in Upto(q, j)
           /\ i \in Upto(q, j) \/ j \in Upto(q, i)
           /\ i \in Upto(q, j) => Upto(q, i) \subseteq Upto(q, j)
           /\ i \in Upto(q, j) /\ j \in Upto(q, i) => i = j
PROOF
<1> DEFINE Part(k) == q[k].position.part
           Index(k) == q[k].position.index
<1>1. DOMAIN q = 1..Len(q) /\ Len(q) \in Nat BY DEF SegmentsOK, IsList
<1>2. ASSUME NEW k \in 1..Len(q) PROVE Part(k) \in Nat /\ Index(k) \in Nat
  BY DEF SegmentsOK, SegmentPositions
<1>3. ASSUME NEW k \in 1..Len(q), NEW m \in 1..Len(q)
      PROVE  k \in Upto(q, m) <=> LexBefore(Part(k), Index(k), k, Part(m), Index(m), m)
  <2>1. k \in Upto(q, m) <=> \/ PositionBefore(q[k], q[m])
                            \/ (~PositionBefore(q[m], q[k]) /\ k <= m)
    BY <1>1 DEF Upto
  <2>2. \A x, y \in 1..Len(q) : PositionBefore(q[x], q[y]) <=>
           (Part(x) < Part(y) \/ (Part(x) = Part(y) /\ Index(x) < Index(y)))
    BY DEF PositionBefore
  <2> HIDE DEF Part, Index
  <2>3. PICK p \in Nat, x \in Nat, r \in Nat, y \in Nat :
           p = Part(k) /\ x = Index(k) /\ r = Part(m) /\ y = Index(m)
    BY <1>2
  <2>4. k \in Upto(q, m) <=> \/ p < r \/ (p = r /\ x < y)
                            \/ (~(r < p \/ (r = p /\ y < x)) /\ k <= m)
    BY ONLY <2>1, <2>2, <2>3, k \in 1..Len(q), m \in 1..Len(q)
  <2>5. k \in Upto(q, m) <=> LexBefore(p, x, k, r, y, m)
    BY ONLY <2>3, <2>4 DEF LexBefore
  <2> QED BY <2>3, <2>5
<1> HIDE DEF Part, Index
<1>4. ASSUME NEW k \in Upto(q, i), i \in Upto(q, j) PROVE k \in Upto(q, j)
  <2>1. k \in 1..Len(q) BY <1>1 DEF Upto
  <2>2. k \in Int /\ i \in Int /\ j \in Int BY <2>1, <1>1
  <2>3. LexBefore(Part(k), Index(k), k, Part(i), Index(i), i) BY ONLY <2>1, <1>3, <1>4, i \in 1..Len(q)
  <2>4. LexBefore(Part(i), Index(i), i, Part(j), Index(j), j)
    BY ONLY <1>3, <1>4, i \in 1..Len(q), j \in 1..Len(q)
  <2>5. LexBefore(Part(k), Index(k), k, Part(j), Index(j), j)
    BY ONLY <2>1, <2>2, <2>3, <2>4, <1>2, LexTransitive, i \in 1..Len(q), j \in 1..Len(q)
  <2> QED BY ONLY <2>1, <2>5, <1>3, j \in 1..Len(q)
<1>5. i \in Int /\ j \in Int BY <1>1
<1>6. j \in Upto(q, j) BY <1>2, <1>3, <1>5 DEF LexBefore
<1>7. i \in Upto(q, j) \/ j \in Upto(q, i) BY <1>2, <1>3, <1>5, LexTotal
<1>8. i \in Upto(q, j) /\ j \in Upto(q, i) => i = j BY <1>2, <1>3, <1>5 DEF LexBefore
<1> QED BY <1>1, <1>4, <1>6, <1>7, <1>8

\* Every rank from 1 to the length is taken, by one place.
LEMMA RankProperties ==
    ASSUME NEW q, SegmentsOK(q)
    PROVE  /\ \A j \in 1..Len(q) : Rank(q, j) \in 1..Len(q)
           /\ \A i, j \in 1..Len(q) : i \in Upto(q, j) /\ i # j => Rank(q, i) < Rank(q, j)
           /\ \A i, j \in 1..Len(q) : Rank(q, i) = Rank(q, j) => i = j
           /\ \A n \in 1..Len(q) : \E j \in 1..Len(q) : Rank(q, j) = n
PROOF
<1>1. DOMAIN q = 1..Len(q) /\ Len(q) \in Nat BY DEF SegmentsOK, IsList
<1>2. IsFiniteSet(1..Len(q)) /\ Cardinality(1..Len(q)) = Len(q)
  <2>1. 1 \in Int /\ Len(q) \in Int BY <1>1
  <2>2. IsFiniteSet(1..Len(q)) /\ Cardinality(1..Len(q)) = IF 1 > Len(q) THEN 0 ELSE Len(q) - 1 + 1
    BY ONLY <2>1, FS_Interval
  <2> QED BY <2>2, <1>1
<1>3. ASSUME NEW j \in 1..Len(q)
      PROVE  /\ Upto(q, j) \subseteq 1..Len(q) /\ IsFiniteSet(Upto(q, j))
             /\ Rank(q, j) \in 1..Len(q)
  <2>1. Upto(q, j) \in SUBSET (1..Len(q)) BY <1>1 DEF Upto
  <2>2. IsFiniteSet(Upto(q, j)) /\ Cardinality(Upto(q, j)) <= Len(q)
    BY ONLY <2>1, <1>2, FS_Subset
  <2>3. Cardinality(Upto(q, j)) \in Nat BY ONLY <2>2, FS_CardinalityType
  <2>4. Upto(q, j) # {} BY UptoOrder
  <2>5. Cardinality(Upto(q, j)) # 0 BY ONLY <2>2, <2>4, FS_EmptySet
  <2> QED BY <2>1, <2>2, <2>3, <2>5, <1>1, RankUpto
<1>4. ASSUME NEW i \in 1..Len(q), NEW j \in 1..Len(q), i \in Upto(q, j), i # j
      PROVE  Rank(q, i) < Rank(q, j)
  <2>1. Upto(q, i) \in SUBSET Upto(q, j) /\ Upto(q, j) # Upto(q, i)
    BY <1>4, UptoOrder
  <2>2. Cardinality(Upto(q, i)) <= Cardinality(Upto(q, j))
        /\ Cardinality(Upto(q, j)) # Cardinality(Upto(q, i))
    BY ONLY <2>1, <1>3, FS_Subset
  <2> QED BY <2>2, <1>3, RankUpto
<1>5. ASSUME NEW i \in 1..Len(q), NEW j \in 1..Len(q), Rank(q, i) = Rank(q, j)
      PROVE  i = j
  <2>1. Rank(q, i) \in Int /\ Rank(q, j) \in Int BY <1>3, <1>1
  <2> QED BY <2>1, <1>4, <1>5, UptoOrder
<1>6. ASSUME NEW n \in 1..Len(q) PROVE \E j \in 1..Len(q) : Rank(q, j) = n
  <2> DEFINE D == 1..Len(q)
             f == [j \in D |-> Rank(q, j)]
  <2>1. f \in Injection(D, D) BY <1>3, <1>5 DEF Injection, IsInjective
  <2>2. f \in Surjection(D, D) BY <2>1, <1>2, FS_Injection
  <2> QED BY <2>2 DEF Surjection
<1> QED BY <1>3, <1>4, <1>5, <1>6

\* by_position is a rearrangement of its argument in which no segment's
\* position comes before that of an earlier one (mock.rs sort_by_key).
LEMMA Sorted ==
    ASSUME NEW q, SegmentsOK(q)
    PROVE  \E p \in [1..Len(q) -> 1..Len(q)] :
              /\ \A i, j \in 1..Len(q) : p[i] = p[j] => i = j
              /\ by_position(q) = [i \in 1..Len(q) |-> q[p[i]]]
              /\ \A i, j \in 1..Len(q) : i < j => ~PositionBefore(q[p[j]], q[p[i]])
PROOF
<1> DEFINE D == 1..Len(q)
           p == [n \in D |-> CHOOSE j \in DOMAIN q : Rank(q, j) = n]
<1>1. DOMAIN q = D /\ Len(q) \in Nat BY DEF SegmentsOK, IsList
<1>2. ASSUME NEW n \in D PROVE p[n] \in D /\ Rank(q, p[n]) = n
  <2>1. \E j \in D : Rank(q, j) = n BY RankProperties
  <2> QED BY <2>1, <1>1
<1>3. p \in [D -> D] BY <1>2
<1>4. by_position(q) = [i \in D |-> q[p[i]]] BY <1>1 DEF by_position
<1>5. \A i, j \in D : p[i] = p[j] => i = j BY <1>2
<1>6. ASSUME NEW i \in D, NEW j \in D, i < j PROVE ~PositionBefore(q[p[j]], q[p[i]])
  <2>1. PICK a \in D : a = p[i] BY <1>2
  <2>2. PICK b \in D : b = p[j] BY <1>2
  <2>3. Rank(q, a) = i /\ Rank(q, b) = j BY <1>2, <2>1, <2>2
  <2>4. a # b BY <2>3, <1>6, <1>1
  <2>5. ~(b \in Upto(q, a))
    <3>1. b \in Upto(q, a) => Rank(q, b) < Rank(q, a) BY <2>4, RankProperties
    <3> QED BY <3>1, <2>3, <1>6, <1>1
  <2>6. ~PositionBefore(q[b], q[a]) BY <2>5, <1>1 DEF Upto
  <2> QED BY <2>6, <2>1, <2>2
<1> HIDE DEF p
<1> QED BY <1>3, <1>4, <1>5, <1>6

-----------------------------------------------------------------------------
(* What a client remembers between two RPCs of a call, said of the          *)
(* histories of uploads and editions, which only grow: nothing another      *)
(* client does makes it false.                                              *)

ClientFields == {"apiKey", "op", "step", "mem", "calls"}
FlightSteps == {"segment_limits", "pieces", "retry_limits"}
PartSteps == {"segment"} \cup FlightSteps

\* Segment keys are those of the edition, under the key new.
KeysFit(keys, edition, new) ==
    /\ DOMAIN keys = DOMAIN edition.positions
    /\ \A i \in DOMAIN keys :
          /\ keys[i].position = edition.positions[i]
          /\ Opens(keys[i].key, new)
          /\ Distinct(edition.positions) => keys[i].key.sealed = edition.content[i]

\* What a copy or move is to send.
RelocationOK(op, mem, pub) ==
    LET new == derive_content_key(op.newBucket, op.newKey)
    IN  /\ mem.stream \in DOMAIN pub
        /\ Opens(mem.metaKey, new) /\ mem.metaKey.sealed = mem.seen.sealed
        /\ KeysFit(mem.segmentKeys, pub[mem.stream], new)

\* What was read of an edition is its beginning, and the rest is asked for.
ReadingOK(mem, pub) ==
    LET edition == pub[mem.stream]
        n == Len(mem.read)
    IN  /\ mem.stream \in DOMAIN pub
        /\ IsList(mem.read) /\ IsList(mem.rest) /\ Len(mem.rest) >= 1
        /\ DOMAIN edition.positions = 1..(n + Len(mem.rest))
        /\ \A i \in 1..Len(mem.rest) : mem.rest[i] = edition.positions[n + i]
        /\ Distinct(edition.positions) => \A i \in 1..n : mem.read[i] = edition.content[i]

ClientOK(k, s, ups, pub) ==
    /\ HasFields(k, ClientFields)
    /\ k.step \in PartSteps \cup {"commit_upload"} =>
          /\ k.op.id \in DOMAIN ups
          /\ k.op.bucket = ups[k.op.id][1] /\ k.op.key = ups[k.op.id][2]
    /\ k.step \in PartSteps => k.op.part \in Nat /\ k.mem.index \in Nat
    /\ k.step \in FlightSteps =>
          /\ k.mem.segment \in 1..s.nextId
          /\ k.mem.segment \in DOMAIN s.segmentToStream =>
                s.segmentToStream[k.mem.segment] = k.op.id
    /\ k.step = "commit_upload" => ChecksumOK(k.op.checksum)
    /\ k.step \in {"begin_upload", "update_object_metadata", "write_metadata"} => k.op.key \in Path
    /\ k.step \in {"begin_relocate", "finish_relocate"} => k.op.newKey \in Path
    /\ k.step = "finish_relocate" => RelocationOK(k.op, k.mem, pub)
    /\ k.step = "write_metadata" =>
          /\ k.mem.stream \in DOMAIN pub /\ k.mem.checksum = pub[k.mem.stream].checksum
          /\ ChecksumOK(k.mem.checksum)
    /\ k.step = "download_segment" => ReadingOK(k.mem, pub)
    /\ k.step \notin {"idle", "download_object", "download_segment"} =>
          k.op.call # "download_object"

\* What a finished download returned.
ResultOK(v, pub) ==
    v.call = "download_object" /\ v.err = "ok" =>
       /\ v.value.stream \in DOMAIN pub
       /\ Distinct(pub[v.value.stream].positions) => v.value.read = pub[v.value.stream].content

Inv ==
    /\ scene \in DOMAIN Scenarios
    /\ cl = [c \in Clients |-> cl[c]] /\ ret = [c \in Clients |-> ret[c]]
    /\ ProjectOK(sat, uploads, published, torn)
    /\ \A c \in Clients :
          ClientOK(cl[c], sat, uploads, published) /\ ResultOK(ret[c], published)

-----------------------------------------------------------------------------
(* What one RPC does to the satellite, from s to t.                         *)

\* The uploads of t are those of s, where they were, with their segments or
\* one more, of W, or new and empty.
UploadsEvolve(s, t, W) ==
    \A id \in DOMAIN t.pending :
       \/ id > s.nextId /\ t.pending[id].segments = <<>>
       \/ /\ id \in DOMAIN s.pending
          /\ t.pending[id].bucket = s.pending[id].bucket
          /\ t.pending[id].key = s.pending[id].key
          /\ \/ t.pending[id].segments = s.pending[id].segments
             \/ \E seg : <<id, seg>> \in W /\ t.pending[id].segments = Append(s.pending[id].segments, seg)

\* A segment id belongs to the stream it was issued for.
SegmentIdsEvolve(s, t) ==
    \A g \in DOMAIN t.segmentToStream :
       \/ g > s.nextId
       \/ g \in DOMAIN s.segmentToStream /\ t.segmentToStream[g] = s.segmentToStream[g]

\* No id is used twice, and none changes its meaning.
Serves(s, t, W) ==
    /\ SatelliteOK(t)
    /\ s.nextId <= t.nextId
    /\ UploadsEvolve(s, t, W)
    /\ SegmentIdsEvolve(s, t)

\* The objects that remain are as they were.
Calm(s, t, W) ==
    /\ Serves(s, t, W)
    /\ \A l \in DOMAIN t.committed : l \in DOMAIN s.committed /\ t.committed[l] = s.committed[l]

\* The objects and the segments of the uploads are as they were.
Quiet(s, t) ==
    /\ t.committed = s.committed /\ DOMAIN t.pending = DOMAIN s.pending
    /\ \A id \in DOMAIN s.pending :
          /\ t.pending[id].bucket = s.pending[id].bucket
          /\ t.pending[id].key = s.pending[id].key
          /\ t.pending[id].segments = s.pending[id].segments

Still(s, t) == Calm(s, t, {}) /\ Quiet(s, t)

\* Doing nothing is still.
LEMMA ServesStutter ==
    ASSUME NEW s, SatelliteOK(s)
    PROVE  Still(s, s)
BY DEF Still, Quiet, Calm, Serves, UploadsEvolve, SegmentIdsEvolve, SatelliteOK

\* A change of anything but the fields SatelliteOK is about.
LEMMA ServesSame ==
    ASSUME NEW s, SatelliteOK(s), NEW t, HasFields(t, SatelliteFields),
           t.nextId = s.nextId, t.buckets = s.buckets, t.pending = s.pending,
           t.committed = s.committed, t.segmentToStream = s.segmentToStream
    PROVE  Still(s, t)
BY DEF Still, Quiet, Calm, Serves, UploadsEvolve, SegmentIdsEvolve, SatelliteOK

\* A change of the buckets only.
LEMMA ServesBuckets ==
    ASSUME NEW s, SatelliteOK(s), NEW t, HasFields(t, SatelliteFields),
           t.nextId = s.nextId, t.pending = s.pending,
           t.committed = s.committed, t.segmentToStream = s.segmentToStream,
           BucketsOK(t.buckets), LocksOwn(t.buckets, t.committed)
    PROVE  Still(s, t)
BY DEF Still, Quiet, Calm, Serves, UploadsEvolve, SegmentIdsEvolve, SatelliteOK

\* A new bucket leaves every object and upload alone.
LEMMA CreateBucketServes ==
    ASSUME NEW s, SatelliteOK(s), NEW key, NEW b, NEW lock
    PROVE  Still(s, create_bucket(s, key, b, lock).s)
PROOF
<1> DEFINE rec == [objects |-> 0, locks |-> EmptyMap,
                   config |-> IF lock THEN [enabled |-> TRUE, default |-> None] ELSE None]
           t == [s EXCEPT !.buckets = Put(@, b, rec)]
<1>1. create_bucket(s, key, b, lock).s = s \/
      (b \notin DOMAIN s.buckets /\ create_bucket(s, key, b, lock).s = t)
  BY FirstError2 DEF create_bucket, Refuse, Reply
<1>2. ASSUME b \notin DOMAIN s.buckets PROVE Still(s, t)
  <2>1. /\ HasFields(t, SatelliteFields) /\ t.buckets = Put(s.buckets, b, rec)
        /\ t.nextId = s.nextId /\ t.pending = s.pending
        /\ t.committed = s.committed /\ t.segmentToStream = s.segmentToStream
    BY DEF SatelliteOK, HasFields, SatelliteFields
  <2>2. HasFields(rec, BucketFields) /\ IsMap(rec.locks) /\ DOMAIN rec.locks = {}
    BY DEF HasFields, BucketFields, IsMap, EmptyMap
  <2> HIDE DEF rec, t
  <2>3. BucketsOK(Put(s.buckets, b, rec))
    BY <2>2 DEF SatelliteOK, BucketsOK, Put, IsMap
  <2>4. LocksOwn(Put(s.buckets, b, rec), s.committed)
    BY <2>2 DEF SatelliteOK, LocksOwn, Put
  <2> QED BY <2>1, <2>3, <2>4, ServesBuckets
<1> QED BY <1>1, <1>2, ServesStutter

\* A deleted bucket leaves the maps of objects and uploads as they are.
LEMMA DeleteBucketServes ==
    ASSUME NEW s, SatelliteOK(s), NEW key, NEW b, NEW deleteAll
    PROVE  Still(s, delete_bucket(s, key, b, deleteAll).s)
PROOF
<1> DEFINE t == [s EXCEPT !.buckets = Drop(@, b)]
<1>1. delete_bucket(s, key, b, deleteAll).s \in {s, t}
  BY DEF delete_bucket, Refuse, Reply
<1>2. Still(s, t)
  <2>1. /\ HasFields(t, SatelliteFields) /\ t.buckets = Drop(s.buckets, b)
        /\ t.nextId = s.nextId /\ t.pending = s.pending
        /\ t.committed = s.committed /\ t.segmentToStream = s.segmentToStream
    BY DEF SatelliteOK, HasFields, SatelliteFields
  <2> HIDE DEF t
  <2>3. BucketsOK(Drop(s.buckets, b)) BY DEF SatelliteOK, BucketsOK, Drop, IsMap
  <2>4. LocksOwn(Drop(s.buckets, b), s.committed) BY DEF SatelliteOK, LocksOwn, Drop
  <2> QED BY <2>1, <2>3, <2>4, ServesBuckets
<1> QED BY <1>1, <1>2, ServesStutter

\* Editing one bucket leaves the others.
LEMMA BucketsEdit ==
    ASSUME NEW B, BucketsOK(B), NEW b \in DOMAIN B, NEW r, HasFields(r, BucketFields), IsMap(r.locks)
    PROVE  /\ BucketsOK([B EXCEPT ![b] = r])
           /\ DOMAIN [B EXCEPT ![b] = r] = DOMAIN B
           /\ \A x \in DOMAIN B : [B EXCEPT ![b] = r][x] = IF x = b THEN r ELSE B[x]
BY DEF BucketsOK, IsMap

\* A bucket's lock configuration touches no object.
LEMMA SetLockConfigServes ==
    ASSUME NEW s, SatelliteOK(s), NEW key, NEW b, NEW config
    PROVE  Still(s, set_lock_config(s, key, b, config).s)
PROOF
<1> DEFINE t == [s EXCEPT !.buckets[b].config = config]
<1>1. set_lock_config(s, key, b, config).s = s \/
      (b \in DOMAIN s.buckets /\ set_lock_config(s, key, b, config).s = t)
  BY FirstError2 DEF set_lock_config, Refuse, Reply, BucketFound
<1>2. ASSUME b \in DOMAIN s.buckets PROVE Still(s, t)
  <2>1. /\ HasFields(t, SatelliteFields)
        /\ t.buckets = [s.buckets EXCEPT ![b] = [@ EXCEPT !.config = config]]
        /\ t.nextId = s.nextId /\ t.pending = s.pending
        /\ t.committed = s.committed /\ t.segmentToStream = s.segmentToStream
    BY DEF SatelliteOK, HasFields, SatelliteFields, BucketsOK, IsMap
  <2> HIDE DEF t
  <2>2. PICK r : r = [s.buckets[b] EXCEPT !.config = config] OBVIOUS
  <2>3. HasFields(r, BucketFields) /\ IsMap(r.locks) /\ r.locks = s.buckets[b].locks
    BY <2>2, <1>2 DEF SatelliteOK, BucketsOK, HasFields, BucketFields
  <2>4. t.buckets = [s.buckets EXCEPT ![b] = r] BY <2>1, <2>2
  <2>5. /\ BucketsOK(t.buckets) /\ DOMAIN t.buckets = DOMAIN s.buckets
        /\ \A x \in DOMAIN s.buckets : t.buckets[x] = IF x = b THEN r ELSE s.buckets[x]
    BY <2>3, <2>4, <1>2, BucketsEdit DEF SatelliteOK
  <2>6. LocksOwn(t.buckets, s.committed) BY <2>3, <2>5 DEF SatelliteOK, LocksOwn
  <2> QED BY <2>1, <2>5, <2>6, ServesBuckets
<1> QED BY <1>1, <1>2, ServesStutter

\* A lock is set for the stream that is committed there.
LEMMA SetLockServes ==
    ASSUME NEW s, SatelliteOK(s), NEW key, NEW b, NEW k, NEW version, NEW value
    PROVE  Still(s, set_lock(s, key, b, k, version, value).s)
PROOF
<1> DEFINE new == Over(value, LockOf(s, b, k, version))
           lock == [retention |-> new.retention, hold |-> new.hold,
                    owner |-> s.committed[<<b, k>>].stream]
           t == [s EXCEPT !.buckets[b].locks = Put(@, <<k, version>>, lock)]
<1>1. set_lock(s, key, b, k, version, value).s = s \/
      (b \in DOMAIN s.buckets /\ set_lock(s, key, b, k, version, value).s = t)
  BY FirstError2, FirstError3 DEF set_lock, Refuse, Reply, BucketFound, require_committed_object
<1>2. ASSUME b \in DOMAIN s.buckets PROVE Still(s, t)
  <2>0. lock.owner = s.committed[<<b, k>>].stream OBVIOUS
  <2> HIDE DEF lock
  <2>1. PICK L : L = Put(s.buckets[b].locks, <<k, version>>, lock) OBVIOUS
  <2>2. PICK r : r = [s.buckets[b] EXCEPT !.locks = L] OBVIOUS
  <2>3. t = [s EXCEPT !.buckets = [s.buckets EXCEPT ![b] = r]] BY <2>1, <2>2
  <2> HIDE DEF t
  <2>4. /\ HasFields(t, SatelliteFields)
        /\ t.buckets = [s.buckets EXCEPT ![b] = r]
        /\ t.nextId = s.nextId /\ t.pending = s.pending
        /\ t.committed = s.committed /\ t.segmentToStream = s.segmentToStream
    BY <2>3 DEF SatelliteOK, HasFields, SatelliteFields
  <2>a. IsMap(L) BY <2>1 DEF IsMap, Put
  <2>b. HasFields(r, BucketFields) /\ r.locks = L
    BY <2>2, <1>2 DEF SatelliteOK, BucketsOK, HasFields, BucketFields
  <2>5. /\ BucketsOK(t.buckets) /\ DOMAIN t.buckets = DOMAIN s.buckets
        /\ \A x \in DOMAIN s.buckets : t.buckets[x] = IF x = b THEN r ELSE s.buckets[x]
    BY <2>a, <2>b, <2>4, <1>2, BucketsEdit DEF SatelliteOK
  <2>6. LocksOwn(t.buckets, s.committed)
    <3> SUFFICES ASSUME NEW l \in DOMAIN s.committed, l[1] \in DOMAIN t.buckets,
                        <<l[2], 0>> \in DOMAIN t.buckets[l[1]].locks
                 PROVE  t.buckets[l[1]].locks[<<l[2], 0>>].owner = s.committed[l].stream
      BY DEF LocksOwn
    <3>1. l = <<l[1], l[2]>> BY DEF SatelliteOK, CommittedOK
    <3>2. CASE l[1] = b /\ <<l[2], 0>> = <<k, version>>
      <4>1. l = <<b, k>> BY <3>1, <3>2
      <4> QED BY <4>1, <3>2, <2>0, <2>1, <2>b, <2>5 DEF Put
    <3>3. CASE l[1] = b /\ <<l[2], 0>> # <<k, version>>
      BY <3>3, <2>1, <2>b, <2>5 DEF Put, SatelliteOK, LocksOwn
    <3>4. CASE l[1] # b BY <3>4, <2>5 DEF SatelliteOK, LocksOwn
    <3> QED BY <3>2, <3>3, <3>4
  <2> QED BY <2>4, <2>5, <2>6, ServesBuckets
<1> QED BY <1>1, <1>2, ServesStutter

\* A change of the uploads and ids only.
LEMMA ServesUploads ==
    ASSUME NEW s, SatelliteOK(s), NEW t, HasFields(t, SatelliteFields),
           t.nextId \in Nat, s.nextId <= t.nextId,
           t.buckets = s.buckets, t.committed = s.committed,
           PendingOK(t.pending, t.nextId), NEW W, UploadsEvolve(s, t, W),
           SegmentIdsOK(t.segmentToStream, t.nextId), SegmentIdsEvolve(s, t)
    PROVE  Calm(s, t, W)
PROOF
<1>1. CommittedOK(t.committed, t.nextId)
  <2>1. \A n \in 1..s.nextId : n \in 1..t.nextId BY DEF SatelliteOK
  <2> QED BY <2>1 DEF SatelliteOK, CommittedOK
<1>2. StreamsApart(t.pending, t.committed)
  <2>1. ASSUME NEW l \in DOMAIN s.committed PROVE s.committed[l].stream \notin DOMAIN t.pending
    <3>1. s.committed[l].stream \in 1..s.nextId /\ s.committed[l].stream \notin DOMAIN s.pending
          /\ s.nextId \in Nat
      BY DEF SatelliteOK, CommittedOK, StreamsApart
    <3>2. ~(s.committed[l].stream > s.nextId) BY <3>1
    <3> QED BY <3>1, <3>2 DEF UploadsEvolve
  <2> QED BY <2>1 DEF SatelliteOK, StreamsApart
<1>3. SatelliteOK(t) BY <1>1, <1>2 DEF SatelliteOK
<1> QED BY <1>3 DEF Calm, Serves

\* Uploads keep to their ids when more are issued.
LEMMA PendingMore ==
    ASSUME NEW P, NEW n \in Nat, NEW m \in Nat, n <= m, PendingOK(P, n)
    PROVE  PendingOK(P, m)
PROOF
<1>1. \A i \in 1..n : i \in 1..m OBVIOUS
<1> QED BY <1>1 DEF PendingOK

\* A new upload at bucket b and encrypted key k.
Begun(s, t, b, k) ==
    /\ t.nextId = s.nextId + 1 /\ t.committed = s.committed
    /\ \E p : /\ p.bucket = b /\ p.key = k /\ p.segments = <<>>
             /\ t.pending = Put(s.pending, s.nextId + 1, p)

\* begin_object opens one empty upload under a fresh stream id.
LEMMA BeginObjectServes ==
    ASSUME NEW s, SatelliteOK(s), NEW key, NEW r, NEW x, x = begin_object(s, key, r)
    PROVE  /\ Calm(s, x.s, {})
           /\ x.s = s \/ Begun(s, x.s, r.bucket, r.key)
           /\ x.err = "ok" => x.ans.stream = s.nextId + 1 /\ Begun(s, x.s, r.bucket, r.key)
PROOF
<1> DEFINE ttl == caveat_max_object_ttl(key)
           id == s.nextId + 1
           expires == IF ttl = None THEN r.expires
                      ELSE IF r.expires = None \/ s.now + ttl < r.expires THEN s.now + ttl
                      ELSE r.expires
           p == [bucket |-> r.bucket, key |-> r.key, segments |-> <<>>,
                 inFlight |-> EmptyMap, retention |-> r.retention,
                 hold |-> r.hold, expires |-> expires]
           t == [s EXCEPT !.nextId = id, !.pending = Put(@, id, p)]
<1>1. (x.s = s /\ x.err # "ok") \/ (x.s = t /\ x.ans.stream = s.nextId + 1)
  BY DEF begin_object, Refuse, Reply
<1>2. Calm(s, t, {}) /\ Begun(s, t, r.bucket, r.key)
  <2>0. s.nextId \in Nat /\ HasFields(s, SatelliteFields) BY DEF SatelliteOK
  <2>1. /\ HasFields(p, PendingFields) /\ SegmentsOK(p.segments) /\ FlightsOK(p.inFlight)
        /\ p.segments = <<>> /\ p.bucket = r.bucket /\ p.key = r.key
    <3>1. HasFields(p, PendingFields) /\ p.segments = <<>> /\ p.inFlight = EmptyMap
          /\ p.bucket = r.bucket /\ p.key = r.key
      BY DEF HasFields, PendingFields
    <3>2. SegmentsOK(<<>>) BY DEF SegmentsOK, IsList
    <3>3. FlightsOK(EmptyMap) BY DEF FlightsOK, EmptyMap, IsMap
    <3> QED BY <3>1, <3>2, <3>3
  <2> HIDE DEF p
  <2>2. /\ HasFields(t, SatelliteFields) /\ t.pending = Put(s.pending, s.nextId + 1, p)
        /\ t.nextId = s.nextId + 1 /\ t.buckets = s.buckets
        /\ t.committed = s.committed /\ t.segmentToStream = s.segmentToStream
    BY <2>0 DEF HasFields, SatelliteFields
  <2> HIDE DEF t, id
  <2>3. PICK n \in Nat : n = s.nextId BY <2>0
  <2>4. PICK m \in Nat : m = n + 1 OBVIOUS
  <2>5. PendingOK(s.pending, m) BY <2>3, <2>4, PendingMore DEF SatelliteOK
  <2>6. PendingOK(Put(s.pending, m, p), m)
    <3>1. m \in 1..m BY <2>4
    <3> QED BY <3>1, <2>1, <2>5 DEF PendingOK, Put, IsMap
  <2>7. UploadsEvolve(s, t, {})
    <3>1. m > s.nextId /\ m = s.nextId + 1 BY <2>3, <2>4
    <3> QED BY <3>1, <2>1, <2>2 DEF UploadsEvolve, Put
  <2>8. SegmentIdsOK(s.segmentToStream, m)
    <3>1. \A i \in 1..n : i \in 1..m BY <2>4
    <3> QED BY <3>1, <2>3 DEF SatelliteOK, SegmentIdsOK
  <2>9. SegmentIdsEvolve(s, t) BY <2>2 DEF SegmentIdsEvolve
  <2>10. t.nextId \in Nat /\ s.nextId <= t.nextId /\ t.nextId = m BY <2>2, <2>3, <2>4
  <2>11. Calm(s, t, {})
    BY <2>2, <2>3, <2>4, <2>6, <2>7, <2>8, <2>9, <2>10, ServesUploads
  <2>12. Begun(s, t, r.bucket, r.key) BY <2>1, <2>2 DEF Begun
  <2> QED BY <2>11, <2>12
<1> HIDE DEF t
<1> QED BY <1>1, <1>2, ServesStutter DEF Still

\* Segment ids keep to theirs when more are issued.
LEMMA SegmentIdsMore ==
    ASSUME NEW f, NEW n \in Nat, NEW m \in Nat, n <= m, SegmentIdsOK(f, n)
    PROVE  SegmentIdsOK(f, m)
PROOF
<1>1. \A i \in 1..n : i \in 1..m OBVIOUS
<1> QED BY <1>1 DEF SegmentIdsOK

\* A fresh id for a segment.
LEMMA ServesSegmentId ==
    ASSUME NEW s, SatelliteOK(s), NEW t, HasFields(t, SatelliteFields),
           t.nextId = s.nextId + 1, t.buckets = s.buckets, t.committed = s.committed,
           t.pending = s.pending, NEW f, SegmentIdsOK(f, s.nextId),
           \A g \in DOMAIN f : g \in DOMAIN s.segmentToStream /\ f[g] = s.segmentToStream[g],
           NEW stream,
           t.segmentToStream = f \/ t.segmentToStream = Put(f, s.nextId + 1, stream)
    PROVE  Still(s, t)
PROOF
<1>1. PICK n \in Nat : n = s.nextId BY DEF SatelliteOK
<1>2. PICK m \in Nat : m = n + 1 OBVIOUS
<1>3. t.nextId = m /\ t.nextId \in Nat /\ s.nextId <= t.nextId BY <1>1, <1>2
<1>4. PendingOK(t.pending, m) BY <1>1, <1>2, PendingMore DEF SatelliteOK
<1>5. UploadsEvolve(s, t, {}) BY DEF UploadsEvolve
<1>6. SegmentIdsOK(f, m) BY <1>1, <1>2, SegmentIdsMore
<1>7. SegmentIdsOK(Put(f, m, stream), m)
  <2>1. m \in 1..m BY <1>2
  <2> QED BY <2>1, <1>6 DEF SegmentIdsOK, Put, IsMap
<1>8. SegmentIdsOK(t.segmentToStream, m) BY <1>1, <1>2, <1>6, <1>7
<1>9. SegmentIdsEvolve(s, t)
  <2>1. m > s.nextId BY <1>1, <1>2
  <2>2. CASE t.segmentToStream = f BY <2>2 DEF SegmentIdsEvolve
  <2>3. CASE t.segmentToStream = Put(f, m, stream) BY <2>1, <2>3 DEF SegmentIdsEvolve, Put
  <2> QED BY <2>2, <2>3, <1>1, <1>2
<1>10. Calm(s, t, {}) BY <1>3, <1>4, <1>5, <1>8, <1>9, ServesUploads
<1> QED BY <1>10 DEF Still, Quiet

\* begin_segment issues a fresh segment id for its stream.
LEMMA BeginSegmentIdServes ==
    ASSUME NEW s, SatelliteOK(s), NEW key, NEW stream
    PROVE  Still(s, begin_segment_id(s, key, stream).s)
PROOF
<1> DEFINE id == s.nextId + 1
           t == [s EXCEPT !.nextId = id, !.segmentToStream = Put(@, id, stream)]
<1>1. begin_segment_id(s, key, stream).s = s \/ begin_segment_id(s, key, stream).s = t
  BY DEF begin_segment_id, Refuse, Reply
<1>2. Still(s, t)
  <2>1. HasFields(s, SatelliteFields) BY DEF SatelliteOK
  <2>2. /\ HasFields(t, SatelliteFields) /\ t.pending = s.pending
        /\ t.nextId = s.nextId + 1 /\ t.buckets = s.buckets /\ t.committed = s.committed
        /\ t.segmentToStream = Put(s.segmentToStream, s.nextId + 1, stream)
    BY <2>1 DEF HasFields, SatelliteFields
  <2>3. SegmentIdsOK(s.segmentToStream, s.nextId) BY DEF SatelliteOK
  <2> HIDE DEF t
  <2> QED BY <2>2, <2>3, ServesSegmentId
<1> QED BY <1>1, <1>2, ServesStutter

\* retry_pieces replaces a segment id by a fresh one of the same stream.
LEMMA RetryPiecesIdServes ==
    ASSUME NEW s, SatelliteOK(s), NEW key, NEW old
    PROVE  Still(s, retry_pieces_id(s, key, old).s)
PROOF
<1> DEFINE id == s.nextId + 1
           moved == Drop(s.segmentToStream, old)
           next == IF old \in DOMAIN s.segmentToStream
                   THEN Put(moved, id, s.segmentToStream[old]) ELSE moved
           t == [s EXCEPT !.nextId = id, !.stale = @ \cup {old}, !.segmentToStream = next]
<1>1. retry_pieces_id(s, key, old).s = s \/ retry_pieces_id(s, key, old).s = t
  BY DEF retry_pieces_id, Refuse, Reply
<1>2. Still(s, t)
  <2>1. HasFields(s, SatelliteFields) BY DEF SatelliteOK
  <2>2. SegmentIdsOK(moved, s.nextId)
        /\ \A g \in DOMAIN moved : g \in DOMAIN s.segmentToStream /\ moved[g] = s.segmentToStream[g]
    BY DEF SatelliteOK, SegmentIdsOK, IsMap, Drop
  <2>3. next = moved \/ next = Put(moved, s.nextId + 1, s.segmentToStream[old]) OBVIOUS
  <2> HIDE DEF moved, next
  <2>4. /\ HasFields(t, SatelliteFields) /\ t.pending = s.pending
        /\ t.nextId = s.nextId + 1 /\ t.buckets = s.buckets /\ t.committed = s.committed
        /\ t.segmentToStream = next
    BY <2>1 DEF HasFields, SatelliteFields
  <2> HIDE DEF t
  <2> QED BY <2>2, <2>3, <2>4, ServesSegmentId
<1> QED BY <1>1, <1>2, ServesStutter

\* A change of one upload that leaves it where it is.
LEMMA ServesUpload ==
    ASSUME NEW s, SatelliteOK(s), NEW id \in DOMAIN s.pending, NEW p,
           HasFields(p, PendingFields), SegmentsOK(p.segments), FlightsOK(p.inFlight),
           p.bucket = s.pending[id].bucket, p.key = s.pending[id].key, NEW W,
           \/ p.segments = s.pending[id].segments
           \/ \E seg : <<id, seg>> \in W /\ p.segments = Append(s.pending[id].segments, seg)
    PROVE  Calm(s, [s EXCEPT !.pending = [s.pending EXCEPT ![id] = p]], W)
PROOF
<1> DEFINE t == [s EXCEPT !.pending = [s.pending EXCEPT ![id] = p]]
<1>1. HasFields(s, SatelliteFields) /\ s.nextId \in Nat BY DEF SatelliteOK
<1>2. /\ HasFields(t, SatelliteFields) /\ t.pending = [s.pending EXCEPT ![id] = p]
      /\ t.nextId = s.nextId /\ t.buckets = s.buckets /\ t.committed = s.committed
      /\ t.segmentToStream = s.segmentToStream
  BY <1>1 DEF HasFields, SatelliteFields
<1> HIDE DEF t
<1>3. PendingOK(t.pending, t.nextId) BY <1>2 DEF SatelliteOK, PendingOK, IsMap
<1>4. UploadsEvolve(s, t, W) BY <1>2 DEF UploadsEvolve, SatelliteOK, PendingOK, IsMap
<1>5. SegmentIdsOK(t.segmentToStream, t.nextId) BY <1>2 DEF SatelliteOK
<1>6. SegmentIdsEvolve(s, t) BY <1>2 DEF SegmentIdsEvolve
<1>7. Calm(s, t, W) BY <1>1, <1>2, <1>3, <1>4, <1>5, <1>6, ServesUploads
<1> QED BY <1>7 DEF t

\* Changing an upload's limits in flight is still.
LEMMA StillUpload ==
    ASSUME NEW s, SatelliteOK(s), NEW id \in DOMAIN s.pending, NEW p,
           HasFields(p, PendingFields), SegmentsOK(p.segments), FlightsOK(p.inFlight),
           p.bucket = s.pending[id].bucket, p.key = s.pending[id].key,
           p.segments = s.pending[id].segments
    PROVE  Still(s, [s EXCEPT !.pending = [s.pending EXCEPT ![id] = p]])
PROOF
<1> DEFINE t == [s EXCEPT !.pending = [s.pending EXCEPT ![id] = p]]
<1>1. HasFields(s, SatelliteFields) BY DEF SatelliteOK
<1>2. t.pending = [s.pending EXCEPT ![id] = p] /\ t.committed = s.committed
  BY <1>1 DEF HasFields, SatelliteFields
<1>3. Calm(s, t, {}) BY ServesUpload
<1> HIDE DEF t
<1>4. Quiet(s, t) BY <1>2 DEF Quiet
<1>5. Still(s, t) BY <1>3, <1>4 DEF Still
<1> QED BY <1>5 DEF t

\* The limits of a new segment change no segment.
LEMMA BeginSegmentLimitsServes ==
    ASSUME NEW s, SatelliteOK(s), NEW stream, NEW id, NEW position \in SegmentPositions
    PROVE  Still(s, begin_segment_limits(s, stream, id, position).s)
PROOF
<1> DEFINE limits == [n \in 0..(PieceCount - 1) |-> id]
           flight == [position |-> position, limits |-> limits]
           t == [s EXCEPT !.pending[stream].inFlight = Put(@, id, flight)]
<1>1. begin_segment_limits(s, stream, id, position).s = s \/
      (stream \in DOMAIN s.pending /\ begin_segment_limits(s, stream, id, position).s = t)
  BY DEF begin_segment_limits, Refuse, Reply
<1>2. ASSUME stream \in DOMAIN s.pending PROVE Still(s, t)
  <2>1. HasFields(flight, {"position", "limits"}) /\ flight.position \in SegmentPositions
    BY DEF HasFields
  <2> HIDE DEF flight
  <2>2. PICK q : q = Put(s.pending[stream].inFlight, id, flight) OBVIOUS
  <2>3. PICK p : p = [s.pending[stream] EXCEPT !.inFlight = q] OBVIOUS
  <2>4. t = [s EXCEPT !.pending = [s.pending EXCEPT ![stream] = p]] BY <2>2, <2>3
  <2>5. FlightsOK(s.pending[stream].inFlight) /\ SegmentsOK(s.pending[stream].segments)
        /\ HasFields(s.pending[stream], PendingFields)
    BY <1>2 DEF SatelliteOK, PendingOK
  <2>6. FlightsOK(q) BY <2>1, <2>2, <2>5 DEF FlightsOK, Put, IsMap
  <2>7. /\ HasFields(p, PendingFields) /\ p.inFlight = q /\ p.segments = s.pending[stream].segments
        /\ p.bucket = s.pending[stream].bucket /\ p.key = s.pending[stream].key
    BY <2>3, <2>5 DEF HasFields, PendingFields
  <2>8. Still(s, [s EXCEPT !.pending = [s.pending EXCEPT ![stream] = p]])
    BY <2>5, <2>6, <2>7, <1>2, StillUpload
  <2> QED BY <2>4, <2>8
<1> QED BY <1>1, <1>2, ServesStutter

\* The limits of retried pieces change no segment.
LEMMA RetryPiecesLimitsServes ==
    ASSUME NEW s, SatelliteOK(s), NEW stream, NEW old, NEW id, NEW numbers
    PROVE  Still(s, retry_pieces_limits(s, stream, old, id, numbers).s)
PROOF
<1> DEFINE seg == s.pending[stream].inFlight[old]
           limits == [n \in DOMAIN seg.limits \cup numbers |->
                          IF n \in numbers THEN id ELSE seg.limits[n]]
           flight == [seg EXCEPT !.limits = limits]
           t == [s EXCEPT !.pending[stream].inFlight = Put(Drop(@, old), id, flight)]
<1>1. retry_pieces_limits(s, stream, old, id, numbers).s = s \/
      (/\ stream \in DOMAIN s.pending /\ old \in DOMAIN s.pending[stream].inFlight
       /\ retry_pieces_limits(s, stream, old, id, numbers).s = t)
  BY DEF retry_pieces_limits, Refuse, Reply
<1>2. ASSUME stream \in DOMAIN s.pending, old \in DOMAIN s.pending[stream].inFlight
      PROVE  Still(s, t)
  <2>5. FlightsOK(s.pending[stream].inFlight) /\ SegmentsOK(s.pending[stream].segments)
        /\ HasFields(s.pending[stream], PendingFields)
    BY <1>2 DEF SatelliteOK, PendingOK
  <2> HIDE DEF limits
  <2>1. HasFields(flight, {"position", "limits"}) /\ flight.position \in SegmentPositions
    BY <1>2, <2>5 DEF HasFields, FlightsOK
  <2> HIDE DEF flight
  <2>2. PICK q : q = Put(Drop(s.pending[stream].inFlight, old), id, flight) OBVIOUS
  <2>3. PICK p : p = [s.pending[stream] EXCEPT !.inFlight = q] OBVIOUS
  <2>4. t = [s EXCEPT !.pending = [s.pending EXCEPT ![stream] = p]] BY <2>2, <2>3
  <2>6. FlightsOK(q) BY <2>1, <2>2, <2>5 DEF FlightsOK, Put, Drop, IsMap
  <2>7. /\ HasFields(p, PendingFields) /\ p.inFlight = q /\ p.segments = s.pending[stream].segments
        /\ p.bucket = s.pending[stream].bucket /\ p.key = s.pending[stream].key
    BY <2>3, <2>5 DEF HasFields, PendingFields
  <2>8. Still(s, [s EXCEPT !.pending = [s.pending EXCEPT ![stream] = p]])
    BY <2>5, <2>6, <2>7, <1>2, StillUpload
  <2> QED BY <2>4, <2>8
<1> QED BY <1>1, <1>2, ServesStutter

\* Lists.
LEMMA ListAppend ==
    ASSUME NEW q, IsList(q), NEW x
    PROVE  /\ IsList(Append(q, x)) /\ Len(Append(q, x)) = Len(q) + 1
           /\ \A i \in 1..Len(q) : Append(q, x)[i] = q[i]
           /\ Append(q, x)[Len(q) + 1] = x
PROOF
<1>1. PICK n \in Nat : n = Len(q) BY DEF IsList
<1>2. PICK S : S = {q[i] : i \in 1..n} \cup {x} OBVIOUS
<1>3. q \in Seq(S) BY <1>1, <1>2 DEF IsList
<1>4. x \in S BY <1>2
<1>6. PICK p : p = Append(q, x) OBVIOUS
<1>7. p \in Seq(S) /\ Len(p) = n + 1 BY <1>1, <1>3, <1>4, <1>6
<1>8. p = [i \in 1..Len(p) |-> p[i]] BY <1>7
<1>9. (\A i \in 1..n : p[i] = q[i]) /\ p[n + 1] = x BY <1>1, <1>3, <1>4, <1>6
<1> QED BY <1>1, <1>6, <1>7, <1>8, <1>9 DEF IsList

\* Segments stay in order of their kind when one arrives.
LEMMA SegmentsAppend ==
    ASSUME NEW q, SegmentsOK(q), NEW x, HasFields(x, SegmentFields), x.position \in SegmentPositions
    PROVE  SegmentsOK(Append(q, x))
PROOF
<1>1. IsList(q) BY DEF SegmentsOK
<1>2. PICK n \in Nat : n = Len(q) BY <1>1 DEF IsList
<1>3. PICK p : p = Append(q, x) OBVIOUS
<1>4. IsList(p) /\ Len(p) = n + 1 /\ (\A i \in 1..n : p[i] = q[i]) /\ p[n + 1] = x
  BY <1>1, <1>2, <1>3, ListAppend
<1>5. ASSUME NEW i \in 1..Len(p) PROVE HasFields(p[i], SegmentFields) /\ p[i].position \in SegmentPositions
  <2>1. i \in 1..n \/ i = n + 1 BY <1>4
  <2> QED BY <2>1, <1>2, <1>4 DEF SegmentsOK
<1> QED BY <1>3, <1>4, <1>5 DEF SegmentsOK

\* One more segment in an upload.
Added(s, t, id, seg) ==
    /\ t.committed = s.committed /\ id \in DOMAIN s.pending
    /\ \E p : /\ p.bucket = s.pending[id].bucket /\ p.key = s.pending[id].key
              /\ p.segments = Append(s.pending[id].segments, seg)
              /\ t.pending = [s.pending EXCEPT ![id] = p]

\* A segment arrives at the end of one upload.
LEMMA AddedUpload ==
    ASSUME NEW s, SatelliteOK(s), NEW id \in DOMAIN s.pending, NEW p, NEW seg,
           HasFields(p, PendingFields), FlightsOK(p.inFlight),
           HasFields(seg, SegmentFields), seg.position \in SegmentPositions,
           p.bucket = s.pending[id].bucket, p.key = s.pending[id].key,
           p.segments = Append(s.pending[id].segments, seg)
    PROVE  LET t == [s EXCEPT !.pending = [s.pending EXCEPT ![id] = p]]
           IN  Calm(s, t, {<<id, seg>>}) /\ Added(s, t, id, seg)
PROOF
<1> DEFINE t == [s EXCEPT !.pending = [s.pending EXCEPT ![id] = p]]
<1>1. HasFields(s, SatelliteFields) BY DEF SatelliteOK
<1>2. t.pending = [s.pending EXCEPT ![id] = p] /\ t.committed = s.committed
  BY <1>1 DEF HasFields, SatelliteFields
<1>3. SegmentsOK(p.segments) BY SegmentsAppend DEF SatelliteOK, PendingOK
<1>4. PICK W : W = {<<id, seg>>} OBVIOUS
<1>5. \E x : <<id, x>> \in W /\ p.segments = Append(s.pending[id].segments, x) BY <1>4
<1>6. Calm(s, t, W) BY <1>3, <1>5, ServesUpload
<1> HIDE DEF t
<1>7. Added(s, t, id, seg) BY <1>2 DEF Added
<1> QED BY <1>4, <1>6, <1>7 DEF t

\* make_inline adds one segment, with the key it was sent, or nothing.
LEMMA MakeInlineServes ==
    ASSUME NEW s, SatelliteOK(s), NEW key, NEW r, r.position \in SegmentPositions
    PROVE  LET t == make_inline(s, key, r).s
           IN  Still(s, t) \/ \E seg : seg.key = r.key /\ Calm(s, t, {<<r.stream, seg>>})
                                       /\ Added(s, t, r.stream, seg)
PROOF
<1> DEFINE seg == [position |-> r.position, key |-> r.key, size |-> r.size,
                   etag |-> r.etag, inline |-> TRUE, pieces |-> EmptyMap]
           t == [s EXCEPT !.pending[r.stream].segments = Append(@, seg)]
<1>1. make_inline(s, key, r).s = s \/
      (r.stream \in DOMAIN s.pending /\ make_inline(s, key, r).s = t)
  BY DEF make_inline, Refuse, Reply
<1>2. ASSUME r.stream \in DOMAIN s.pending
      PROVE  seg.key = r.key /\ Calm(s, t, {<<r.stream, seg>>}) /\ Added(s, t, r.stream, seg)
  <2>1. HasFields(seg, SegmentFields) /\ seg.position \in SegmentPositions /\ seg.key = r.key
    BY DEF HasFields, SegmentFields
  <2> HIDE DEF seg
  <2>2. PICK q : q = Append(s.pending[r.stream].segments, seg) OBVIOUS
  <2>3. PICK p : p = [s.pending[r.stream] EXCEPT !.segments = q] OBVIOUS
  <2>4. t = [s EXCEPT !.pending = [s.pending EXCEPT ![r.stream] = p]] BY <2>2, <2>3
  <2>5. FlightsOK(s.pending[r.stream].inFlight) /\ HasFields(s.pending[r.stream], PendingFields)
    BY <1>2 DEF SatelliteOK, PendingOK
  <2>6. /\ HasFields(p, PendingFields) /\ p.segments = q /\ p.inFlight = s.pending[r.stream].inFlight
        /\ p.bucket = s.pending[r.stream].bucket /\ p.key = s.pending[r.stream].key
    BY <2>3, <2>5 DEF HasFields, PendingFields
  <2> HIDE DEF t
  <2> QED BY <2>1, <2>2, <2>4, <2>5, <2>6, <1>2, AddedUpload
<1> HIDE DEF t, seg
<1> QED BY <1>1, <1>2, ServesStutter

\* commit_segment adds one segment to the stream its id was issued for, or
\* nothing.
LEMMA CommitSegmentServes ==
    ASSUME NEW s, SatelliteOK(s), NEW key, NEW r
    PROVE  LET t == commit_segment(s, key, r).s
           IN  Still(s, t) \/ \E seg : /\ seg.key = r.key /\ r.segment \in DOMAIN s.segmentToStream
                                       /\ Calm(s, t, {<<s.segmentToStream[r.segment], seg>>})
                                       /\ Added(s, t, s.segmentToStream[r.segment], seg)
PROOF
<1>0. PICK stream : stream = s.segmentToStream[r.segment] OBVIOUS
<1> DEFINE flights == s.pending[stream].inFlight
           begun == r.segment \in DOMAIN flights
           position == IF begun THEN flights[r.segment].position ELSE [part |-> 0, index |-> 0]
           numbers == {r.results[i].piece : i \in DOMAIN r.results}
           pieces == IF begun THEN Keep(flights[r.segment].limits, numbers) ELSE EmptyMap
           seg == [position |-> position, key |-> r.key, size |-> r.size,
                   etag |-> r.etag, inline |-> FALSE, pieces |-> pieces]
           t == [s EXCEPT !.pending[stream].inFlight = Drop(@, r.segment),
                          !.pending[stream].segments = Append(@, seg)]
<1>1. commit_segment(s, key, r).s = s \/
      (/\ r.segment \in DOMAIN s.segmentToStream /\ stream \in DOMAIN s.pending
       /\ commit_segment(s, key, r).s = t)
  BY <1>0, Zenon DEF commit_segment, Refuse, Reply
<1>2. ASSUME stream \in DOMAIN s.pending
      PROVE  seg.key = r.key /\ Calm(s, t, {<<stream, seg>>}) /\ Added(s, t, stream, seg)
  <2>1. FlightsOK(s.pending[stream].inFlight) /\ HasFields(s.pending[stream], PendingFields)
        /\ HasFields(s, SatelliteFields)
    BY <1>2 DEF SatelliteOK, PendingOK
  <2>2. position \in SegmentPositions BY <2>1 DEF FlightsOK, SegmentPositions
  <2> HIDE DEF position, pieces
  <2>3. HasFields(seg, SegmentFields) /\ seg.position \in SegmentPositions /\ seg.key = r.key
    BY <2>2 DEF HasFields, SegmentFields
  <2> HIDE DEF seg
  <2>4. PICK f : f = Drop(flights, r.segment) OBVIOUS
  <2>5. FlightsOK(f) BY <2>1, <2>4 DEF FlightsOK, Drop, IsMap
  <2>6. PICK q : q = Append(s.pending[stream].segments, seg) OBVIOUS
  <2>7. PICK p : p = [s.pending[stream] EXCEPT !.inFlight = f, !.segments = q] OBVIOUS
  <2>8. t = [s EXCEPT !.pending = [s.pending EXCEPT ![stream] = p]]
    <3>1. PICK P : P = s.pending OBVIOUS
    <3>2. PICK x : x = P[stream] OBVIOUS
    <3>3. x = [y \in PendingFields |-> x[y]] BY <2>1, <3>1, <3>2 DEF HasFields
    <3>4. PICK x1 : x1 = [x EXCEPT !.inFlight = f] OBVIOUS
    <3>5. x1.segments = x.segments BY <3>3, <3>4 DEF PendingFields
    <3>6. PICK P1 : P1 = [P EXCEPT ![stream] = x1] OBVIOUS
    <3>7. P1[stream] = x1 BY <3>6, <3>1, <1>2
    <3>8. [P1 EXCEPT ![stream] = p] = [P EXCEPT ![stream] = p] BY <3>6
    <3>9. PICK s1 : s1 = [s EXCEPT !.pending = P1] OBVIOUS
    <3>10. s1.pending = P1 /\ [s1 EXCEPT !.pending = [P1 EXCEPT ![stream] = p]]
                          = [s EXCEPT !.pending = [P EXCEPT ![stream] = p]]
      BY <3>8, <3>9, <2>1 DEF HasFields, SatelliteFields
    <3>11. t = [s1 EXCEPT !.pending[stream].segments = Append(@, seg)]
      BY <3>1, <3>2, <3>4, <3>6, <3>9, <2>4
    <3>12. p = [x1 EXCEPT !.segments = q] BY <3>1, <3>2, <3>4, <2>7
    <3>13. t = [s1 EXCEPT !.pending = [P1 EXCEPT ![stream] = [x1 EXCEPT !.segments = Append(x1.segments, seg)]]]
      BY <3>11, <3>10, <3>7
    <3> QED BY <3>13, <3>12, <3>5, <2>6, <3>1, <3>2, <3>10
  <2>9. /\ HasFields(p, PendingFields) /\ p.segments = q /\ p.inFlight = f
        /\ p.bucket = s.pending[stream].bucket /\ p.key = s.pending[stream].key
    BY <2>1, <2>7 DEF HasFields, PendingFields
  <2> HIDE DEF t
  <2> QED BY <2>3, <2>5, <2>6, <2>8, <2>9, <1>2, AddedUpload
<1> HIDE DEF t, seg
<1> QED BY <1>0, <1>1, <1>2, ServesStutter, Zenon

\* Revoking a key touches no object.
LEMMA RevokeServes ==
    ASSUME NEW s, SatelliteOK(s), NEW key, NEW target
    PROVE  Still(s, revoke_api_key(s, key, target).s)
PROOF
<1> DEFINE t == [s EXCEPT !.revoked = @ \cup {target}]
<1>1. revoke_api_key(s, key, target).s \in {s, t} BY DEF revoke_api_key, Refuse, Reply
<1>2. /\ HasFields(t, SatelliteFields)
      /\ t.nextId = s.nextId /\ t.pending = s.pending /\ t.buckets = s.buckets
      /\ t.committed = s.committed /\ t.segmentToStream = s.segmentToStream
  BY DEF SatelliteOK, HasFields, SatelliteFields
<1> HIDE DEF t
<1>3. Still(s, t) BY <1>2, ServesSame
<1> QED BY <1>1, <1>3, ServesStutter

\* The passing of time touches no object.
LEMMA TickServes ==
    ASSUME NEW s, SatelliteOK(s)
    PROVE  Still(s, [s EXCEPT !.now = @ + 1])
PROOF
<1> DEFINE t == [s EXCEPT !.now = @ + 1]
<1>2. /\ HasFields(t, SatelliteFields)
      /\ t.nextId = s.nextId /\ t.pending = s.pending /\ t.buckets = s.buckets
      /\ t.committed = s.committed /\ t.segmentToStream = s.segmentToStream
  BY DEF SatelliteOK, HasFields, SatelliteFields
<1> HIDE DEF t
<1>3. Still(s, t) BY <1>2, ServesSame
<1> QED BY <1>3 DEF t

Discarded(s, t, id) == t.committed = s.committed /\ t.pending = Drop(s.pending, id)

Deleted(s, t, l) ==
    /\ l \in DOMAIN s.committed
    /\ t.pending = s.pending /\ t.committed = Drop(s.committed, l)

\* begin_delete discards one upload or removes one object, and its lock.
LEMMA BeginDeleteServes ==
    ASSUME NEW s, SatelliteOK(s), NEW key, NEW r
    PROVE  LET t == begin_delete(s, key, r).s
           IN  Still(s, t) \/ (Calm(s, t, {}) /\ (Discarded(s, t, r.stream) \/ \E l : Deleted(s, t, l)))
PROOF
<1> DEFINE t1 == [s EXCEPT !.pending = Drop(@, r.stream), !.aborted = @ \cup {r.stream}]
           l == <<r.bucket, r.key>>
           t2 == [s EXCEPT !.committed = Drop(@, <<r.bucket, r.key>>),
                           !.buckets[r.bucket].objects = Decrement(@)]
<1>1. \/ begin_delete(s, key, r).s = s
      \/ begin_delete(s, key, r).s = t1
      \/ (/\ r.bucket \in DOMAIN s.buckets /\ l \in DOMAIN s.committed
          /\ begin_delete(s, key, r).s = t2)
  BY FirstError2 DEF begin_delete, Refuse, Reply, BucketFound, ObjectFound
<1>0. HasFields(s, SatelliteFields) /\ s.nextId \in Nat BY DEF SatelliteOK
<1>2. Calm(s, t1, {}) /\ Discarded(s, t1, r.stream)
  <2>1. /\ HasFields(t1, SatelliteFields) /\ t1.pending = Drop(s.pending, r.stream)
        /\ t1.nextId = s.nextId /\ t1.buckets = s.buckets
        /\ t1.committed = s.committed /\ t1.segmentToStream = s.segmentToStream
    BY <1>0 DEF HasFields, SatelliteFields
  <2> HIDE DEF t1
  <2>2. PendingOK(t1.pending, t1.nextId) BY <2>1 DEF SatelliteOK, PendingOK, Drop, IsMap
  <2>3. UploadsEvolve(s, t1, {}) BY <2>1 DEF UploadsEvolve, Drop
  <2>4. SegmentIdsOK(t1.segmentToStream, t1.nextId) /\ SegmentIdsEvolve(s, t1)
    BY <2>1 DEF SatelliteOK, SegmentIdsEvolve
  <2>5. Calm(s, t1, {}) BY <2>1, <2>2, <2>3, <2>4, <1>0, ServesUploads
  <2> QED BY <2>1, <2>5 DEF Discarded
<1>3. ASSUME r.bucket \in DOMAIN s.buckets, l \in DOMAIN s.committed
      PROVE  Calm(s, t2, {}) /\ Deleted(s, t2, l)
  <2>1. PICK n : n = Decrement(s.buckets[r.bucket].objects) OBVIOUS
  <2>2. PICK x : x = [s.buckets[r.bucket] EXCEPT !.objects = n] OBVIOUS
  <2>3. t2 = [s EXCEPT !.committed = Drop(s.committed, l),
                       !.buckets = [s.buckets EXCEPT ![r.bucket] = x]]
    BY <1>0, <2>1, <2>2 DEF HasFields, SatelliteFields
  <2> HIDE DEF t2
  <2>4. /\ HasFields(t2, SatelliteFields) /\ t2.committed = Drop(s.committed, l)
        /\ t2.buckets = [s.buckets EXCEPT ![r.bucket] = x]
        /\ t2.nextId = s.nextId /\ t2.pending = s.pending
        /\ t2.segmentToStream = s.segmentToStream
    BY <2>3, <1>0 DEF HasFields, SatelliteFields
  <2>5. HasFields(x, BucketFields) /\ IsMap(x.locks) /\ x.locks = s.buckets[r.bucket].locks
    BY <2>2, <1>3 DEF SatelliteOK, BucketsOK, HasFields, BucketFields
  <2>6. /\ BucketsOK(t2.buckets) /\ DOMAIN t2.buckets = DOMAIN s.buckets
        /\ \A y \in DOMAIN s.buckets : t2.buckets[y] = IF y = r.bucket THEN x ELSE s.buckets[y]
    BY <2>4, <2>5, <1>3, BucketsEdit DEF SatelliteOK
  <2> HIDE DEF l
  <2>7. /\ IsMap(t2.committed)
        /\ \A m \in DOMAIN t2.committed : m \in DOMAIN s.committed /\ t2.committed[m] = s.committed[m]
    BY <2>4 DEF Drop, IsMap
  <2>8. CommittedOK(t2.committed, t2.nextId) BY <2>4, <2>7 DEF SatelliteOK, CommittedOK
  <2>9. StreamsApart(t2.pending, t2.committed) BY <2>4, <2>7 DEF SatelliteOK, StreamsApart
  <2>10. LocksOwn(t2.buckets, t2.committed) BY <2>5, <2>6, <2>7 DEF SatelliteOK, LocksOwn
  <2>11. SatelliteOK(t2) BY <2>4, <2>6, <2>8, <2>9, <2>10 DEF SatelliteOK
  <2>12. UploadsEvolve(s, t2, {}) /\ SegmentIdsEvolve(s, t2)
    BY <2>4 DEF UploadsEvolve, SegmentIdsEvolve
  <2>13. s.nextId <= t2.nextId BY <2>4, <1>0
  <2>14. Calm(s, t2, {}) BY <2>7, <2>11, <2>12, <2>13 DEF Calm, Serves
  <2> QED BY <2>4, <2>14, <1>3 DEF Deleted
<1> HIDE DEF t1, t2, l
<1>4. CASE begin_delete(s, key, r).s = s BY <1>4, ServesStutter
<1>5. CASE begin_delete(s, key, r).s = t1 BY <1>2, <1>5
<1>6. CASE /\ r.bucket \in DOMAIN s.buckets /\ l \in DOMAIN s.committed
           /\ begin_delete(s, key, r).s = t2
  BY <1>3, <1>6
<1> QED BY <1>1, <1>4, <1>5, <1>6

\* A satellite in which one object was put at a place, replacing what was there.
LEMMA ObjectPut ==
    ASSUME NEW s, SatelliteOK(s), NEW t, HasFields(t, SatelliteFields),
           t.nextId \in Nat, s.nextId <= t.nextId,
           BucketsOK(t.buckets), PendingOK(t.pending, t.nextId),
           \A id \in DOMAIN t.pending : id \in DOMAIN s.pending,
           NEW C, \A l \in DOMAIN C : l \in DOMAIN s.committed /\ C[l] = s.committed[l],
           NEW b, NEW k, NEW o, t.committed = Put(C, <<b, k>>, o),
           HasFields(o, ObjectFields), o.stream \in 1..t.nextId,
           SegmentsOK(o.segments), ChecksumOK(o.checksum), o.stream \notin DOMAIN t.pending,
           \A l \in DOMAIN C : C[l].stream # o.stream,
           SegmentIdsOK(t.segmentToStream, t.nextId), LocksOwn(t.buckets, t.committed)
    PROVE  SatelliteOK(t)
PROOF
<1>1. /\ IsMap(t.committed) /\ DOMAIN t.committed = DOMAIN C \cup {<<b, k>>}
      /\ t.committed[<<b, k>>] = o
      /\ \A l \in DOMAIN C : l # <<b, k>> => t.committed[l] = s.committed[l]
  BY DEF Put, IsMap
<1>2. \A n \in 1..s.nextId : n \in 1..t.nextId BY DEF SatelliteOK
<1>3. PICK d : d = <<b, k>> OBVIOUS
<1>4. d = <<d[1], d[2]>> BY <1>3
<1>5. CommittedOK(t.committed, t.nextId)
  <2>1. ASSUME NEW l \in DOMAIN t.committed
        PROVE  /\ l = <<l[1], l[2]>>
               /\ HasFields(t.committed[l], ObjectFields)
               /\ t.committed[l].stream \in 1..t.nextId
               /\ SegmentsOK(t.committed[l].segments)
               /\ ChecksumOK(t.committed[l].checksum)
    <3>1. CASE l = d BY <3>1, <1>1, <1>3, <1>4
    <3>2. CASE l # d
      <4>1. l \in DOMAIN s.committed /\ t.committed[l] = s.committed[l] BY <3>2, <1>1, <1>3
      <4> QED BY <4>1, <1>2 DEF SatelliteOK, CommittedOK
    <3> QED BY <3>1, <3>2
  <2> QED BY <2>1, <1>1 DEF CommittedOK
<1>6. StreamsApart(t.pending, t.committed)
  <2>1. ASSUME NEW l \in DOMAIN t.committed, l # d
        PROVE  l \in DOMAIN C /\ l \in DOMAIN s.committed /\ t.committed[l] = s.committed[l]
               /\ t.committed[l].stream # o.stream
    BY <2>1, <1>1, <1>3
  <2>2. t.committed[d] = o BY <1>1, <1>3
  <2>3. ASSUME NEW l \in DOMAIN t.committed, NEW m \in DOMAIN t.committed,
               t.committed[l].stream = t.committed[m].stream
        PROVE  l = m
    <3>1. CASE l = d \/ m = d BY <3>1, <2>1, <2>2, <2>3
    <3>2. CASE l # d /\ m # d BY <3>2, <2>1, <2>3 DEF SatelliteOK, StreamsApart
    <3> QED BY <3>1, <3>2
  <2>4. ASSUME NEW l \in DOMAIN t.committed PROVE t.committed[l].stream \notin DOMAIN t.pending
    <3>1. CASE l = d BY <3>1, <2>2
    <3>2. CASE l # d BY <3>2, <2>1 DEF SatelliteOK, StreamsApart
    <3> QED BY <3>1, <3>2
  <2> QED BY <2>3, <2>4 DEF StreamsApart
<1> QED BY <1>5, <1>6 DEF SatelliteOK

\* Sorting keeps segments well formed and loses none.
LEMMA SortedOK ==
    ASSUME NEW q, SegmentsOK(q)
    PROVE  SegmentsOK(by_position(q)) /\ Len(by_position(q)) = Len(q)
PROOF
<1>1. PICK n \in Nat : n = Len(q) BY DEF SegmentsOK, IsList
<1>2. PICK p \in [1..n -> 1..n] : by_position(q) = [i \in 1..n |-> q[p[i]]]
  BY <1>1, Sorted
<1>3. PICK S : S = {q[i] : i \in 1..n} OBVIOUS
<1>4. PICK x : x = by_position(q) OBVIOUS
<1>5. x \in [1..n -> S] BY <1>2, <1>3, <1>4
<1>6. x \in Seq(S) /\ Len(x) = n BY <1>5
<1>7. IsList(x) BY <1>5, <1>6 DEF IsList
<1>8. \A i \in 1..n : HasFields(x[i], SegmentFields) /\ x[i].position \in SegmentPositions
  BY <1>1, <1>2, <1>4 DEF SegmentsOK
<1> QED BY <1>1, <1>4, <1>6, <1>7, <1>8 DEF SegmentsOK

\* The object commit_object makes of upload p.
CommittedObject(r, p) ==
    [stream |-> r.stream, version |-> r.stream, meta |-> r.meta,
     metaKey |-> r.metaKey, checksum |-> r.checksum, expires |-> p.expires,
     segments |-> by_position(p.segments)]

Published(s, t, r) ==
    LET p == s.pending[r.stream]
    IN  /\ r.stream \in DOMAIN s.pending
        /\ t.pending = Drop(s.pending, r.stream)
        /\ t.committed = Put(s.committed, <<p.bucket, p.key>>, CommittedObject(r, p))

\* The fields of a committed object, as sent and as collected.
LEMMA CommittedObjectFields ==
    ASSUME NEW r, NEW p
    PROVE  LET o == CommittedObject(r, p)
           IN  /\ HasFields(o, ObjectFields) /\ o.stream = r.stream /\ o.checksum = r.checksum
               /\ o.meta = r.meta /\ o.metaKey = r.metaKey
               /\ o.segments = by_position(p.segments)
BY DEF CommittedObject, HasFields, ObjectFields

\* Of the locks L, those of M: none for key k but one put on the stream.
LocksFollow(L, M, k, stream) ==
    /\ IsMap(M)
    /\ <<k, 0>> \in DOMAIN M => M[<<k, 0>>].owner = stream
    /\ \A y : y \in DOMAIN M /\ y # <<k, 0>> => y \in DOMAIN L /\ M[y] = L[y]

\* commit_lock leaves at the key a lock of the new stream or none.
LEMMA CommitLockOwn ==
    ASSUME NEW L, IsMap(L), NEW p, NEW k
    PROVE  LocksFollow(L, commit_lock(L, p, k), k, p.stream)
BY DEF LocksFollow, commit_lock, Put, Drop, IsMap

\* commit_object publishes the upload's segments, sorted, and closes it, or
\* does nothing.
LEMMA CommitObjectServes ==
    ASSUME NEW s, SatelliteOK(s), NEW key, NEW r, ChecksumOK(r.checksum)
    PROVE  LET t == commit_object(s, key, r).s
           IN  Still(s, t) \/ (Serves(s, t, {}) /\ Published(s, t, r))
PROOF
<1>0. HasFields(s, SatelliteFields) /\ s.nextId \in Nat BY DEF SatelliteOK
<1> DEFINE p == s.pending[r.stream]
           o == CommittedObject(r, p)
           given == [retention |-> p.retention, hold |-> p.hold, stream |-> r.stream]
           B == commit_bucket(s.buckets, p, r.stream)
           t == [s EXCEPT !.pending = Drop(@, r.stream),
                          !.committed = Put(@, <<p.bucket, p.key>>, o), !.buckets = B]
           u == [s EXCEPT !.failCommit = FALSE]
           v == [s EXCEPT !.pending = Drop(@, r.stream),
                          !.committed = Put(@, <<p.bucket, p.key>>, o),
                          !.buckets = commit_bucket(@, p, r.stream)]
<1>1. \/ commit_object(s, key, r).s = s
      \/ commit_object(s, key, r).s = u
      \/ (r.stream \in DOMAIN s.pending /\ commit_object(s, key, r).s = t)
  <2> DEFINE e == FirstError(<<Allowed(s, key, "write"),
                IF s.failCommit THEN "Internal" ELSE "ok",
                check_checksum_options(r.checksum, TRUE),
                IF r.stream \in DOMAIN s.pending
                THEN check_pending(s.pending[r.stream], r)
                ELSE "ObjectNotFound">>)
  <2>1. commit_object(s, key, r).s = IF e = "Internal" THEN u ELSE IF e # "ok" THEN s ELSE v
    BY DEF commit_object, Refuse, Reply, CommittedObject
  <2>3. v = t
    <3> HIDE DEF p, o, given
    <3>1. [s EXCEPT !.pending = Drop(s.pending, r.stream),
                    !.committed = Put(s.committed, <<p.bucket, p.key>>, o)].buckets = s.buckets
      BY <1>0 DEF HasFields, SatelliteFields
    <3>2. [s EXCEPT !.pending = Drop(s.pending, r.stream)].committed = s.committed
      BY <1>0 DEF HasFields, SatelliteFields
    <3> QED BY <3>1, <3>2
  <2>2. e = "ok" => r.stream \in DOMAIN s.pending
    <3>1. PICK a, b, d, f :
             /\ a = Allowed(s, key, "write") /\ b = (IF s.failCommit THEN "Internal" ELSE "ok")
             /\ d = check_checksum_options(r.checksum, TRUE)
             /\ f = (IF r.stream \in DOMAIN s.pending
                     THEN check_pending(s.pending[r.stream], r)
                     ELSE "ObjectNotFound")
      OBVIOUS
    <3>2. PICK z : z = FirstError(<<a, b, d, f>>) OBVIOUS
    <3>3. FirstError(<<a, b, d, f>>) =
             IF a # "ok" THEN a ELSE IF b # "ok" THEN b ELSE IF d # "ok" THEN d ELSE f
      BY FirstError4
    <3>5. z = "ok" => f = "ok" BY ONLY <3>2, <3>3
    <3>4. e = z BY ONLY <3>1, <3>2
    <3> HIDE DEF e
    <3> QED BY <3>1, <3>5, <3>4
  <2> HIDE DEF e, t, u, v
  <2> QED BY <2>1, <2>2, <2>3
<1> HIDE DEF v
<1>2. Still(s, u)
  <2>2. /\ HasFields(u, SatelliteFields)
        /\ u.nextId = s.nextId /\ u.pending = s.pending /\ u.buckets = s.buckets
        /\ u.committed = s.committed /\ u.segmentToStream = s.segmentToStream
    BY <1>0 DEF HasFields, SatelliteFields
  <2> HIDE DEF u
  <2> QED BY <2>2, ServesSame
<1>3. ASSUME r.stream \in DOMAIN s.pending PROVE Serves(s, t, {}) /\ Published(s, t, r)
  <2>1. /\ BucketsOK(B) /\ DOMAIN B = DOMAIN s.buckets
        /\ \A y \in DOMAIN B : \/ B[y].locks = s.buckets[y].locks /\ y # p.bucket
                               \/ /\ y = p.bucket
                                  /\ B[y].locks = commit_lock(s.buckets[y].locks, given, p.key)
    <3>1. CASE p.bucket \notin DOMAIN s.buckets BY <3>1 DEF SatelliteOK, commit_bucket
    <3>2. CASE p.bucket \in DOMAIN s.buckets
      <4>1. PICK A : A = s.buckets OBVIOUS
      <4>2. PICK x : x = A[p.bucket] BY Zenon
      <4>3. x = [y \in BucketFields |-> x[y]] /\ IsMap(x.locks) /\ BucketsOK(A)
        BY <3>2, <4>1, <4>2 DEF SatelliteOK, BucketsOK, HasFields
      <4>4. PICK x1 : x1 = [x EXCEPT !.objects = @ + 1] OBVIOUS
      <4>5. x1.locks = x.locks /\ x1 = [y \in BucketFields |-> x1[y]]
        BY <4>3, <4>4 DEF BucketFields
      <4>6. PICK L : L = commit_lock(x.locks, given, p.key) OBVIOUS
      <4>7. PICK x2 : x2 = [x1 EXCEPT !.locks = L] OBVIOUS
      <4>8. HasFields(x2, BucketFields) /\ x2.locks = L BY <4>5, <4>7 DEF HasFields, BucketFields
      <4>9. PICK A1 : A1 = [A EXCEPT ![p.bucket] = x1] BY Zenon
      <4>10. A1[p.bucket] = x1 BY <4>9, <4>1, <3>2
      <4>11. B = [A1 EXCEPT ![p.bucket].locks = commit_lock(@, given, p.key)]
        BY <3>2, <4>1, <4>2, <4>4, <4>9, ZenonT(60) DEF commit_bucket
      <4>12. B = [A1 EXCEPT ![p.bucket] = x2] BY <4>5, <4>6, <4>7, <4>10, <4>11
      <4>13. B = [A EXCEPT ![p.bucket] = x2] BY <4>9, <4>12
      <4>14. IsMap(L) BY <4>3, <4>6, CommitLockOwn DEF LocksFollow
      <4> HIDE DEF B
      <4>15. /\ BucketsOK(B) /\ DOMAIN B = DOMAIN A
             /\ \A y \in DOMAIN A : B[y] = IF y = p.bucket THEN x2 ELSE A[y]
        BY <4>1, <4>3, <4>8, <4>13, <4>14, <3>2, BucketsEdit
      <4> QED BY <4>15, <4>1, <4>2, <4>6, <4>8
    <3> QED BY <3>1, <3>2
  <2>g. given.stream = r.stream OBVIOUS
  <2> HIDE DEF B, given
  <2>2. /\ HasFields(t, SatelliteFields) /\ t.pending = Drop(s.pending, r.stream)
        /\ t.committed = Put(s.committed, <<p.bucket, p.key>>, o) /\ t.buckets = B
        /\ t.nextId = s.nextId /\ t.segmentToStream = s.segmentToStream
    BY <1>0 DEF HasFields, SatelliteFields
  <2> HIDE DEF t
  <2>3. /\ HasFields(o, ObjectFields) /\ o.stream = r.stream /\ o.checksum = r.checksum
        /\ o.segments = by_position(p.segments)
    BY CommittedObjectFields
  <2>4. SegmentsOK(o.segments)
    <3>1. SegmentsOK(p.segments) BY <1>3 DEF SatelliteOK, PendingOK
    <3> QED BY <3>1, <2>3, SortedOK
  <2>5. PendingOK(t.pending, t.nextId) BY <2>2 DEF SatelliteOK, PendingOK, Drop, IsMap
  <2>6. /\ \A id \in DOMAIN t.pending : id \in DOMAIN s.pending
        /\ r.stream \notin DOMAIN t.pending /\ r.stream \in 1..t.nextId
    BY <2>2, <1>3 DEF SatelliteOK, PendingOK, Drop
  <2>7. \A l \in DOMAIN s.committed : s.committed[l].stream # r.stream
    BY <1>3 DEF SatelliteOK, StreamsApart
  <2>8. LocksOwn(t.buckets, t.committed)
    <3> SUFFICES ASSUME NEW l \in DOMAIN t.committed, l[1] \in DOMAIN B,
                        <<l[2], 0>> \in DOMAIN B[l[1]].locks
                 PROVE  B[l[1]].locks[<<l[2], 0>>].owner = t.committed[l].stream
      BY <2>2 DEF LocksOwn
    <3>1. PICK d : d = <<p.bucket, p.key>> OBVIOUS
    <3>2. IsMap(s.buckets[l[1]].locks) BY <2>1 DEF SatelliteOK, BucketsOK
    <3>3. PICK M : M = B[l[1]].locks OBVIOUS
    <3>6. PICK L : L = s.buckets[l[1]].locks OBVIOUS
    <3>4. CASE l = d
      <4>1. l[1] = p.bucket /\ l[2] = p.key /\ t.committed[l] = o BY <3>1, <3>4, <2>2 DEF Put
      <4>2. M = commit_lock(L, given, l[2]) BY <4>1, <3>3, <3>6, <2>1
      <4>3. M[<<l[2], 0>>].owner = given.stream
        <5>1. <<l[2], 0>> \in DOMAIN M BY <3>3
        <5>2. LocksFollow(L, M, l[2], given.stream) BY <4>2, <3>2, <3>6, CommitLockOwn
        <5> QED BY ONLY <5>1, <5>2 DEF LocksFollow
      <4> QED BY <4>1, <4>3, <3>3, <2>3, <2>g
    <3>5. CASE l # d
      <4>1. l \in DOMAIN s.committed /\ t.committed[l] = s.committed[l]
        BY <3>1, <3>5, <2>2 DEF Put
      <4>2. l = <<l[1], l[2]>> BY <4>1 DEF SatelliteOK, CommittedOK
      <4>3. <<l[2], 0>> \in DOMAIN s.buckets[l[1]].locks
            /\ M[<<l[2], 0>>] = s.buckets[l[1]].locks[<<l[2], 0>>]
        <5>1. CASE l[1] # p.bucket BY <5>1, <3>3, <2>1
        <5>2. CASE l[1] = p.bucket
          <6>1. l[2] # p.key BY <5>2, <4>2, <3>1, <3>5
          <6>2. <<l[2], 0>> # <<p.key, 0>> BY <6>1
          <6>3. M = commit_lock(L, given, p.key) BY <5>2, <3>3, <3>6, <2>1
          <6>4. <<l[2], 0>> \in DOMAIN M BY <3>3
          <6>5. ASSUME NEW y, y \in DOMAIN M, y # <<p.key, 0>> PROVE y \in DOMAIN L /\ M[y] = L[y]
            <7>1. LocksFollow(L, M, p.key, given.stream) BY <6>3, <3>2, <3>6, CommitLockOwn
            <7> QED BY ONLY <6>5, <7>1 DEF LocksFollow
          <6> QED BY <6>2, <6>4, <6>5, <3>6
        <5> QED BY <5>1, <5>2
      <4> QED BY <4>1, <4>3, <3>3, <2>1 DEF SatelliteOK, LocksOwn
    <3> QED BY <3>4, <3>5
  <2>9. SegmentIdsOK(t.segmentToStream, t.nextId) BY <2>2 DEF SatelliteOK
  <2>10. SatelliteOK(t)
    BY <2>1, <2>2, <2>3, <2>4, <2>5, <2>6, <2>7, <2>8, <2>9, <1>0, ObjectPut
  <2>11. UploadsEvolve(s, t, {}) /\ SegmentIdsEvolve(s, t)
    BY <2>2 DEF UploadsEvolve, SegmentIdsEvolve, Drop
  <2>12. Serves(s, t, {}) BY <2>2, <2>10, <2>11, <1>0 DEF Serves
  <2> QED BY <2>2, <2>12, <1>3 DEF Published
<1> HIDE DEF t, u
<1>4. CASE commit_object(s, key, r).s = s BY <1>4, ServesStutter
<1>5. CASE commit_object(s, key, r).s = u BY <1>2, <1>5
<1>6. CASE r.stream \in DOMAIN s.pending /\ commit_object(s, key, r).s = t BY <1>3, <1>6
<1> QED BY <1>1, <1>4, <1>5, <1>6

\* New metadata on the object at r's place.
Updated(s, t, r) ==
    /\ <<r.bucket, r.key>> \in DOMAIN s.committed /\ t.pending = s.pending
    /\ r.stream # 0 => r.stream = s.committed[<<r.bucket, r.key>>].stream
    /\ t.committed = [s.committed EXCEPT ![<<r.bucket, r.key>>] =
                        [@ EXCEPT !.meta = r.meta, !.metaKey = r.metaKey, !.checksum = r.checksum]]

\* update_object_metadata replaces the metadata of the stream it names, or
\* does nothing.
LEMMA UpdateServes ==
    ASSUME NEW s, SatelliteOK(s), NEW key, NEW r, ChecksumOK(r.checksum)
    PROVE  LET t == update_object_metadata(s, key, r).s
           IN  Still(s, t) \/ (Serves(s, t, {}) /\ Updated(s, t, r))
PROOF
<1>0. HasFields(s, SatelliteFields) /\ s.nextId \in Nat BY DEF SatelliteOK
<1> DEFINE loc == <<r.bucket, r.key>>
           t == [s EXCEPT !.committed[loc] = [@ EXCEPT !.meta = r.meta, !.metaKey = r.metaKey,
                                                       !.checksum = r.checksum]]
           pinned == IF loc \in DOMAIN s.committed /\ r.stream # 0
                        /\ r.stream # s.committed[loc].stream THEN "ObjectNotFound" ELSE "ok"
<1>1. \/ update_object_metadata(s, key, r).s = s
      \/ (/\ loc \in DOMAIN s.committed /\ (r.stream # 0 => r.stream = s.committed[loc].stream)
          /\ update_object_metadata(s, key, r).s = t)
  <2> DEFINE e == FirstError(<<Allowed(s, key, "write"), BucketFound(s, r.bucket),
                    ObjectFound(s, r.bucket, r.key), pinned,
                    check_checksum_options(r.checksum, TRUE)>>)
  <2>1. update_object_metadata(s, key, r).s = IF e # "ok" THEN s ELSE t
    BY DEF update_object_metadata, Refuse, Reply
  <2>2. e = "ok" => pinned = "ok" /\ ObjectFound(s, r.bucket, r.key) = "ok"
    <3>1. PICK a, b, d, f, g :
             /\ a = Allowed(s, key, "write") /\ b = BucketFound(s, r.bucket)
             /\ d = ObjectFound(s, r.bucket, r.key) /\ f = pinned
             /\ g = check_checksum_options(r.checksum, TRUE)
      OBVIOUS
    <3>2. FirstError(<<a, b, d, f, g>>) =
             IF a # "ok" THEN a ELSE IF b # "ok" THEN b ELSE IF d # "ok" THEN d
             ELSE IF f # "ok" THEN f ELSE g
      BY FirstError5
    <3>3. PICK z : z = FirstError(<<a, b, d, f, g>>) OBVIOUS
    <3>4. z = "ok" => d = "ok" /\ f = "ok" BY ONLY <3>2, <3>3
    <3> HIDE DEF pinned
    <3>5. e = z BY ONLY <3>1, <3>3
    <3> HIDE DEF e
    <3> QED BY <3>1, <3>4, <3>5
  <2> HIDE DEF e, t
  <2> QED BY <2>1, <2>2 DEF ObjectFound
<1>2. ASSUME loc \in DOMAIN s.committed, r.stream # 0 => r.stream = s.committed[loc].stream
      PROVE  Serves(s, t, {}) /\ Updated(s, t, r)
  <2>1. PICK o : o = [s.committed[loc] EXCEPT !.meta = r.meta, !.metaKey = r.metaKey,
                                              !.checksum = r.checksum]
    OBVIOUS
  <2>2. /\ HasFields(t, SatelliteFields) /\ t.pending = s.pending
        /\ t.committed = [s.committed EXCEPT ![loc] = o] /\ t.buckets = s.buckets
        /\ t.nextId = s.nextId /\ t.segmentToStream = s.segmentToStream
    BY <1>0, <2>1 DEF HasFields, SatelliteFields
  <2> HIDE DEF t
  <2>3. HasFields(s.committed[loc], ObjectFields) BY <1>2 DEF SatelliteOK, CommittedOK
  <2>4. /\ HasFields(o, ObjectFields) /\ o.stream = s.committed[loc].stream
        /\ o.segments = s.committed[loc].segments /\ o.checksum = r.checksum
    BY <2>1, <2>3 DEF HasFields, ObjectFields
  <2>5. /\ IsMap(t.committed) /\ DOMAIN t.committed = DOMAIN s.committed
        /\ \A l \in DOMAIN s.committed : t.committed[l] = IF l = loc THEN o ELSE s.committed[l]
    BY <2>2 DEF SatelliteOK, CommittedOK, IsMap
  <2>6. \A l \in DOMAIN s.committed : t.committed[l].stream = s.committed[l].stream
    BY <2>4, <2>5
  <2>7. CommittedOK(t.committed, t.nextId)
    <3>1. ASSUME NEW l \in DOMAIN s.committed
          PROVE  /\ l = <<l[1], l[2]>>
                 /\ HasFields(t.committed[l], ObjectFields)
                 /\ t.committed[l].stream \in 1..t.nextId
                 /\ SegmentsOK(t.committed[l].segments)
                 /\ ChecksumOK(t.committed[l].checksum)
      <4>1. CASE l = loc BY <4>1, <2>2, <2>4, <2>5 DEF SatelliteOK, CommittedOK
      <4>2. CASE l # loc BY <4>2, <2>2, <2>5 DEF SatelliteOK, CommittedOK
      <4> QED BY <4>1, <4>2
    <3> QED BY <3>1, <2>5 DEF CommittedOK
  <2>8. StreamsApart(t.pending, t.committed) BY <2>2, <2>5, <2>6 DEF SatelliteOK, StreamsApart
  <2>9. LocksOwn(t.buckets, t.committed) BY <2>2, <2>5, <2>6 DEF SatelliteOK, LocksOwn
  <2>10. SatelliteOK(t) BY <2>2, <2>7, <2>8, <2>9 DEF SatelliteOK
  <2>11. UploadsEvolve(s, t, {}) /\ SegmentIdsEvolve(s, t)
    BY <2>2 DEF UploadsEvolve, SegmentIdsEvolve
  <2>12. Serves(s, t, {}) BY <2>2, <2>10, <2>11, <1>0 DEF Serves
  <2>13. Updated(s, t, r) BY <2>1, <2>2, <1>2 DEF Updated
  <2> QED BY <2>12, <2>13
<1> HIDE DEF t, loc
<1>3. CASE update_object_metadata(s, key, r).s = s BY <1>3, ServesStutter
<1>4. CASE /\ loc \in DOMAIN s.committed /\ (r.stream # 0 => r.stream = s.committed[loc].stream)
           /\ update_object_metadata(s, key, r).s = t
  BY <1>2, <1>4
<1> QED BY <1>1, <1>3, <1>4

\* The object src becomes under stream and the keys of r.
RelocatedObject(o, src, r, stream) ==
    /\ HasFields(o, ObjectFields)
    /\ o.stream = stream /\ o.meta = src.meta /\ o.checksum = src.checksum
    /\ o.metaKey = Head(r.metaKey)
    /\ o.segments = [i \in DOMAIN src.segments |->
                       [src.segments[i] EXCEPT !.key = RelocatedKey(src.segments[i], r.segmentKeys)]]

\* A relocated object has its source's segments, under other keys at most.
LEMMA RelocatedSegments ==
    ASSUME NEW src, NEW r, NEW o, NEW stream, RelocatedObject(o, src, r, stream),
           SegmentsOK(src.segments)
    PROVE  /\ SegmentsOK(o.segments) /\ DOMAIN o.segments = DOMAIN src.segments
           /\ \A i \in DOMAIN src.segments :
                 /\ o.segments[i].position = src.segments[i].position
                 /\ o.segments[i].key = RelocatedKey(src.segments[i], r.segmentKeys)
PROOF
<1>1. PICK q : q = src.segments OBVIOUS
<1>2. PICK n \in Nat : n = Len(q) BY <1>1 DEF SegmentsOK, IsList
<1>3. DOMAIN q = 1..n BY <1>1, <1>2 DEF SegmentsOK, IsList
<1> DEFINE F(i) == [q[i] EXCEPT !.key = RelocatedKey(q[i], r.segmentKeys)]
<1>4. PICK p : p = o.segments OBVIOUS
<1>5. p = [i \in 1..n |-> F(i)] BY <1>1, <1>3, <1>4 DEF RelocatedObject
<1>6. ASSUME NEW i \in 1..n
      PROVE  /\ HasFields(F(i), SegmentFields) /\ F(i).position = q[i].position
             /\ F(i).key = RelocatedKey(q[i], r.segmentKeys)
             /\ F(i).position \in SegmentPositions
  <2>1. HasFields(q[i], SegmentFields) /\ q[i].position \in SegmentPositions
    BY <1>1, <1>2 DEF SegmentsOK
  <2>2. PICK k : k = RelocatedKey(q[i], r.segmentKeys) OBVIOUS
  <2>3. PICK x : x = q[i] OBVIOUS
  <2>4. HasFields([x EXCEPT !.key = k], SegmentFields) /\ [x EXCEPT !.key = k].position = x.position
        /\ [x EXCEPT !.key = k].key = k
    BY <2>1, <2>3 DEF HasFields, SegmentFields
  <2> QED BY <2>1, <2>2, <2>3, <2>4
<1> HIDE DEF F
<1>7. PICK S : S = {F(i) : i \in 1..n} OBVIOUS
<1>8. p \in [1..n -> S] BY <1>5, <1>7
<1>9. p \in Seq(S) /\ Len(p) = n BY <1>8
<1>10. IsList(p) BY <1>8, <1>9 DEF IsList
<1>11. SegmentsOK(p) BY <1>5, <1>6, <1>9, <1>10 DEF SegmentsOK
<1> QED BY <1>1, <1>3, <1>4, <1>5, <1>6, <1>11

\* Locks stay those of their objects when an object is put.
LEMMA LocksPut ==
    ASSUME NEW B, NEW C, LocksOwn(B, C), \A l \in DOMAIN C : l = <<l[1], l[2]>>,
           NEW b, NEW k, NEW o, NEW A, DOMAIN A = DOMAIN B,
           \A y \in DOMAIN A : y # b => A[y] = B[y],
           b \in DOMAIN A => LocksFollow(B[b].locks, A[b].locks, k, o.stream)
    PROVE  LocksOwn(A, Put(C, <<b, k>>, o))
PROOF
<1>1. PICK d : d = <<b, k>> OBVIOUS
<1>2. PICK D : D = Put(C, d, o) OBVIOUS
<1>3. SUFFICES ASSUME NEW l \in DOMAIN D, l[1] \in DOMAIN A, <<l[2], 0>> \in DOMAIN A[l[1]].locks
               PROVE  A[l[1]].locks[<<l[2], 0>>].owner = D[l].stream
  BY <1>1, <1>2 DEF LocksOwn
<1>4. CASE l = d
  <2>1. l[1] = b /\ l[2] = k /\ D[l] = o BY <1>1, <1>2, <1>4 DEF Put
  <2> QED BY <2>1, <1>3 DEF LocksFollow
<1>5. CASE l # d
  <2>1. l \in DOMAIN C /\ D[l] = C[l] /\ l = <<l[1], l[2]>> BY <1>2, <1>5 DEF Put
  <2>2. <<l[2], 0>> \in DOMAIN B[l[1]].locks /\ A[l[1]].locks[<<l[2], 0>>] = B[l[1]].locks[<<l[2], 0>>]
    <3>1. CASE l[1] # b BY <3>1, <1>3
    <3>2. CASE l[1] = b
      <4>1. l[2] # k BY <3>2, <2>1, <1>1, <1>5
      <4>2. PICK y : y = <<l[2], 0>> OBVIOUS
      <4>3. y # <<k, 0>> BY <4>1, <4>2
      <4>4. PICK L, M : L = B[b].locks /\ M = A[b].locks OBVIOUS
      <4>5. LocksFollow(L, M, k, o.stream) /\ y \in DOMAIN M BY <4>2, <4>4, <3>2, <1>3
      <4>6. y \in DOMAIN L /\ M[y] = L[y] BY ONLY <4>3, <4>5 DEF LocksFollow
      <4> QED BY <4>2, <4>4, <4>6, <3>2
    <3> QED BY <3>1, <3>2
  <2> QED BY <2>1, <2>2, <1>3 DEF LocksOwn
<1> QED BY <1>4, <1>5

\* apply_relocated, from a satellite s that need not be whole.
Applied(s, t, src, r, stream) ==
    /\ HasFields(t, SatelliteFields)
    /\ t.nextId = s.nextId /\ t.pending = s.pending /\ t.segmentToStream = s.segmentToStream
    /\ \E o : /\ RelocatedObject(o, src, r, stream)
              /\ t.committed = Put(s.committed, <<r.newBucket, r.newKey>>, o)
    /\ BucketsOK(t.buckets) /\ DOMAIN t.buckets = DOMAIN s.buckets
    /\ \A b \in DOMAIN t.buckets : b # r.newBucket => t.buckets[b] = s.buckets[b]
    /\ LocksFollow(s.buckets[r.newBucket].locks, t.buckets[r.newBucket].locks, r.newKey, stream)

\* apply_relocated puts the relocated object, with a lock of its own stream or
\* none.
LEMMA ApplyRelocated ==
    ASSUME NEW s, HasFields(s, SatelliteFields), BucketsOK(s.buckets), NEW src,
           HasFields(src, ObjectFields), NEW r, r.metaKey # <<>>, r.newBucket \in DOMAIN s.buckets,
           NEW stream, NEW lock
    PROVE  Applied(s, apply_relocated(s, src, r, stream, lock), src, r, stream)
PROOF
<1> DEFINE dest == <<r.newBucket, r.newKey>>
           object == [src EXCEPT !.stream = stream,
                      !.metaKey = IF r.metaKey # <<>> THEN Head(r.metaKey) ELSE @,
                      !.segments = [i \in DOMAIN @ |->
                         [@[i] EXCEPT !.key = RelocatedKey(src.segments[i], r.segmentKeys)]]]
           rec == s.buckets[r.newBucket]
           cleared == Keep(rec.locks, {kv \in DOMAIN rec.locks : kv[1] # r.newKey})
           own == [retention |-> lock.retention, hold |-> lock.hold, owner |-> stream]
           locked == IF IsSome(lock.retention) \/ lock.hold
                     THEN Put(cleared, <<r.newKey, 0>>, own)
                     ELSE cleared
           count == IF dest \in DOMAIN s.committed THEN rec.objects ELSE rec.objects + 1
           x == [rec EXCEPT !.objects = count, !.locks = locked]
           t == [s EXCEPT !.committed = Put(@, dest, object),
                  !.buckets[r.newBucket] = [@ EXCEPT !.objects = count, !.locks = locked]]
<1>1. apply_relocated(s, src, r, stream, lock) = t BY DEF apply_relocated
<1>2. RelocatedObject(object, src, r, stream)
  <2>1. HasFields(object, ObjectFields) BY DEF HasFields, ObjectFields
  <2>2. object.stream = stream /\ object.meta = src.meta /\ object.checksum = src.checksum
        /\ object.metaKey = Head(r.metaKey)
    BY DEF HasFields, ObjectFields
  <2>3. object.segments = [i \in DOMAIN src.segments |->
           [src.segments[i] EXCEPT !.key = RelocatedKey(src.segments[i], r.segmentKeys)]]
    BY DEF HasFields, ObjectFields
  <2> HIDE DEF object
  <2> QED BY <2>1, <2>2, <2>3 DEF RelocatedObject
<1>3. LocksFollow(rec.locks, locked, r.newKey, stream)
  <2>1. own.owner = stream OBVIOUS
  <2> HIDE DEF own
  <2>2. /\ IsMap(cleared)
        /\ \A y : y \in DOMAIN cleared => y \in DOMAIN rec.locks /\ cleared[y] = rec.locks[y] /\ y[1] # r.newKey
    BY DEF Keep, IsMap
  <2>3. <<r.newKey, 0>> \notin DOMAIN cleared
    <3>1. PICK y : y = <<r.newKey, 0>> OBVIOUS
    <3>2. y[1] = r.newKey BY <3>1
    <3> HIDE DEF cleared
    <3> QED BY <3>1, <3>2, <2>2
  <2> HIDE DEF cleared, rec
  <2>4. LocksFollow(rec.locks, cleared, r.newKey, stream) BY <2>2, <2>3 DEF LocksFollow
  <2>5. LocksFollow(rec.locks, Put(cleared, <<r.newKey, 0>>, own), r.newKey, stream)
    BY <2>1, <2>2, <2>3 DEF LocksFollow, Put, IsMap
  <2> QED BY <2>4, <2>5
<1> HIDE DEF object, cleared, own, locked, count
<1>4. /\ HasFields(t, SatelliteFields) /\ t.committed = Put(s.committed, dest, object)
      /\ t.buckets = [s.buckets EXCEPT ![r.newBucket] = x]
      /\ t.nextId = s.nextId /\ t.pending = s.pending /\ t.segmentToStream = s.segmentToStream
  BY DEF HasFields, SatelliteFields
<1>5. HasFields(rec, BucketFields) BY DEF BucketsOK
<1> HIDE DEF t, rec
<1>6. HasFields(x, BucketFields) /\ x.locks = locked BY <1>5 DEF HasFields, BucketFields
<1>7. IsMap(x.locks) BY <1>3, <1>6 DEF LocksFollow
<1> HIDE DEF x
<1>8. /\ BucketsOK(t.buckets) /\ DOMAIN t.buckets = DOMAIN s.buckets
      /\ \A y \in DOMAIN s.buckets : t.buckets[y] = IF y = r.newBucket THEN x ELSE s.buckets[y]
  BY <1>4, <1>6, <1>7, BucketsEdit
<1>9. LocksFollow(s.buckets[r.newBucket].locks, t.buckets[r.newBucket].locks, r.newKey, stream)
  BY <1>3, <1>6, <1>8 DEF rec
<1> QED BY <1>1, <1>2, <1>4, <1>8, <1>9 DEF Applied

\* The object of r's stream, under a new stream at r's place.
Copied(s, t, r) ==
    LET l == LocationOf(s, r.stream)
    IN  /\ l \in DOMAIN s.committed /\ s.committed[l].stream = r.stream /\ IsSome(l)
        /\ t.pending = s.pending /\ t.nextId = s.nextId + 1
        /\ \E o : /\ RelocatedObject(o, s.committed[l], r, s.nextId + 1)
                  /\ t.committed = Put(s.committed, <<r.newBucket, r.newKey>>, o)

\* The object of r's stream, taken from where it was to r's place.
Moved(s, t, r) ==
    LET l == LocationOf(s, r.stream)
    IN  /\ l \in DOMAIN s.committed /\ s.committed[l].stream = r.stream /\ IsSome(l)
        /\ t.pending = s.pending /\ t.nextId = s.nextId
        /\ \E o : /\ RelocatedObject(o, s.committed[l], r, r.stream)
                  /\ t.committed = Put(Drop(s.committed, l), <<r.newBucket, r.newKey>>, o)

\* LocationOf finds where a stream is committed.
LEMMA LocationFound ==
    ASSUME NEW s, NEW stream, IsSome(LocationOf(s, stream))
    PROVE  /\ LocationOf(s, stream) \in DOMAIN s.committed
           /\ s.committed[LocationOf(s, stream)].stream = stream
PROOF
<1> DEFINE locs == {l \in DOMAIN s.committed : s.committed[l].stream = stream}
<1>1. locs # {} /\ LocationOf(s, stream) = CHOOSE l \in locs : TRUE BY DEF LocationOf, IsSome
<1>2. LocationOf(s, stream) \in locs BY <1>1
<1> QED BY <1>2

\* Deciding a lock changes nothing.
LEMMA RelocatedLockState ==
    ASSUME NEW s, NEW rec, NEW retention, NEW hold
    PROVE  relocated_lock(s, rec, retention, hold).s = s
BY DEF relocated_lock, Refuse, Reply

\* Objects keep to their stream ids when more are issued.
LEMMA CommittedMore ==
    ASSUME NEW C, NEW n \in Nat, NEW m \in Nat, n <= m, CommittedOK(C, n)
    PROVE  CommittedOK(C, m)
PROOF
<1>1. \A i \in 1..n : i \in 1..m OBVIOUS
<1> QED BY <1>1 DEF CommittedOK

\* finish_copy puts a copy under a fresh stream id, or does nothing.
LEMMA FinishCopyServes ==
    ASSUME NEW s, SatelliteOK(s), NEW key, NEW r, r.metaKey # <<>>
    PROVE  LET t == finish_copy(s, key, r).s
           IN  Still(s, t) \/ (Serves(s, t, {}) /\ Copied(s, t, r))
PROOF
<1>0. HasFields(s, SatelliteFields) /\ s.nextId \in Nat BY DEF SatelliteOK
<1> DEFINE loc == LocationOf(s, r.stream)
           lock == relocated_lock(s, s.buckets[r.newBucket], r.retention, r.hold)
           u == [s EXCEPT !.nextId = @ + 1]
           src == s.committed[loc]
           t == apply_relocated(u, src, r, s.nextId + 1, lock.ans)
<1>1. \/ finish_copy(s, key, r).s = s
      \/ (r.newBucket \in DOMAIN s.buckets /\ IsSome(loc) /\ finish_copy(s, key, r).s = t)
  <2> DEFINE e == FirstError(<<Allowed(s, key, "write"), BucketFound(s, r.newBucket)>>)
  <2>1. finish_copy(s, key, r).s = IF e # "ok" THEN s ELSE IF lock.err # "ok" THEN lock.s
                                   ELSE IF loc = None THEN s ELSE t
    BY DEF finish_copy, Refuse, Reply
  <2>2. lock.s = s BY RelocatedLockState
  <2>3. e = "ok" => r.newBucket \in DOMAIN s.buckets BY FirstError2 DEF BucketFound
  <2> HIDE DEF e, t, lock, loc
  <2> QED BY <2>1, <2>2, <2>3 DEF IsSome
<1>2. ASSUME r.newBucket \in DOMAIN s.buckets, IsSome(loc)
      PROVE  Serves(s, t, {}) /\ Copied(s, t, r)
  <2>1. loc \in DOMAIN s.committed /\ src.stream = r.stream BY <1>2, LocationFound
  <2>2. HasFields(src, ObjectFields) /\ SegmentsOK(src.segments) /\ ChecksumOK(src.checksum)
    BY <2>1 DEF SatelliteOK, CommittedOK
  <2>3. /\ HasFields(u, SatelliteFields) /\ u.buckets = s.buckets /\ u.committed = s.committed
        /\ u.nextId = s.nextId + 1 /\ u.pending = s.pending /\ u.segmentToStream = s.segmentToStream
    BY <1>0 DEF HasFields, SatelliteFields
  <2> HIDE DEF u, lock, src
  <2>4. PICK n \in Nat : n = s.nextId BY <1>0
  <2>5. PICK m \in Nat : m = n + 1 OBVIOUS
  <2>6. m = s.nextId + 1 /\ n <= m BY <2>4, <2>5
  <2>7. BucketsOK(u.buckets) /\ r.newBucket \in DOMAIN u.buckets BY <2>3, <1>2 DEF SatelliteOK
  <2>8. Applied(u, t, src, r, m) BY <2>2, <2>3, <2>6, <2>7, ApplyRelocated
  <2> HIDE DEF t
  <2>9. PICK o : RelocatedObject(o, src, r, m) /\ t.committed = Put(u.committed, <<r.newBucket, r.newKey>>, o)
    BY <2>8 DEF Applied
  <2>10. /\ HasFields(o, ObjectFields) /\ o.stream = m /\ SegmentsOK(o.segments) /\ ChecksumOK(o.checksum)
    BY <2>9, <2>2, RelocatedSegments DEF RelocatedObject
  <2>11. /\ HasFields(t, SatelliteFields) /\ t.nextId = m /\ t.pending = s.pending
         /\ t.segmentToStream = s.segmentToStream /\ BucketsOK(t.buckets)
         /\ DOMAIN t.buckets = DOMAIN s.buckets
         /\ \A b \in DOMAIN t.buckets : b # r.newBucket => t.buckets[b] = s.buckets[b]
         /\ LocksFollow(s.buckets[r.newBucket].locks, t.buckets[r.newBucket].locks, r.newKey, m)
    BY <2>3, <2>6, <2>8 DEF Applied
  <2>12. PendingOK(t.pending, t.nextId) /\ SegmentIdsOK(t.segmentToStream, t.nextId)
    BY <2>4, <2>6, <2>11, PendingMore, SegmentIdsMore DEF SatelliteOK
  <2>13. ASSUME NEW id \in 1..n PROVE id # m BY <2>5
  <2>14. m \notin DOMAIN t.pending /\ \A l \in DOMAIN s.committed : s.committed[l].stream # m
    BY <2>4, <2>11, <2>13 DEF SatelliteOK, PendingOK, CommittedOK
  <2>15. LocksOwn(t.buckets, t.committed)
    <3>1. LocksOwn(s.buckets, s.committed) /\ \A l \in DOMAIN s.committed : l = <<l[1], l[2]>>
      BY DEF SatelliteOK, CommittedOK
    <3>2. LocksOwn(t.buckets, Put(s.committed, <<r.newBucket, r.newKey>>, o))
      BY <3>1, <2>10, <2>11, LocksPut
    <3> QED BY <3>2, <2>3, <2>9
  <2>16. m \in 1..m BY <2>5
  <2>17. t.nextId \in Nat /\ s.nextId <= t.nextId BY <2>4, <2>5, <2>11
  <2>18. SatelliteOK(t)
    BY <2>3, <2>9, <2>10, <2>11, <2>12, <2>14, <2>15, <2>16, <2>17, ObjectPut
  <2>19. UploadsEvolve(s, t, {}) /\ SegmentIdsEvolve(s, t)
    BY <2>11 DEF UploadsEvolve, SegmentIdsEvolve
  <2>20. Serves(s, t, {}) BY <2>17, <2>18, <2>19 DEF Serves
  <2>21. Copied(s, t, r) BY <2>1, <2>3, <2>6, <2>9, <2>11, <1>2 DEF Copied, src
  <2> QED BY <2>20, <2>21
<1> HIDE DEF t, loc
<1>3. CASE finish_copy(s, key, r).s = s BY <1>3, ServesStutter
<1>4. CASE r.newBucket \in DOMAIN s.buckets /\ IsSome(loc) /\ finish_copy(s, key, r).s = t
  BY <1>2, <1>4
<1> QED BY <1>1, <1>3, <1>4

\* finish_move takes the object from one place to another in one step, or does
\* nothing.
LEMMA FinishMoveServes ==
    ASSUME NEW s, SatelliteOK(s), NEW key, NEW r, r.metaKey # <<>>
    PROVE  LET t == finish_move(s, key, r).s
           IN  Still(s, t) \/ (Serves(s, t, {}) /\ Moved(s, t, r))
PROOF
<1>0. HasFields(s, SatelliteFields) /\ s.nextId \in Nat BY DEF SatelliteOK
<1> DEFINE loc == LocationOf(s, r.stream)
           lock == relocated_lock(s, s.buckets[r.newBucket], r.retention, r.hold)
           locks == s.buckets[loc[1]].locks
           src == s.committed[loc]
           u == [s EXCEPT !.committed = Drop(@, loc),
                       !.buckets[loc[1]] = Vacated(@, loc[2])]
           v == [s EXCEPT !.poisoned = TRUE]
           t == apply_relocated(u, src, r, r.stream, lock.ans)
<1>1. \/ finish_move(s, key, r).s = s
      \/ finish_move(s, key, r).s = v
      \/ (/\ r.newBucket \in DOMAIN s.buckets /\ IsSome(loc) /\ loc[1] \in DOMAIN s.buckets
          /\ finish_move(s, key, r).s = t)
  <2> DEFINE e == FirstError(<<Allowed(s, key, "write"), check_action(key, "delete"),
                               BucketFound(s, r.newBucket)>>)
             active == \E kv \in DOMAIN locks : kv[1] = loc[2] /\ lock_is_active(locks[kv], s.now)
  <2>1. finish_move(s, key, r).s =
           IF e # "ok" THEN s ELSE IF lock.err # "ok" THEN lock.s
           ELSE IF loc = None THEN s ELSE IF loc[1] \notin DOMAIN s.buckets THEN v
           ELSE IF active THEN s ELSE t
    BY DEF finish_move, Refuse, Reply
  <2>2. lock.s = s BY RelocatedLockState
  <2>3. e = "ok" => r.newBucket \in DOMAIN s.buckets BY FirstError3 DEF BucketFound
  <2> HIDE DEF e, t, v, lock, loc, active
  <2> QED BY <2>1, <2>2, <2>3 DEF IsSome
<1>v. Still(s, v)
  <2>1. /\ HasFields(v, SatelliteFields)
        /\ v.nextId = s.nextId /\ v.pending = s.pending /\ v.buckets = s.buckets
        /\ v.committed = s.committed /\ v.segmentToStream = s.segmentToStream
    BY <1>0 DEF HasFields, SatelliteFields
  <2> HIDE DEF v
  <2> QED BY <2>1, ServesSame
<1>2. ASSUME r.newBucket \in DOMAIN s.buckets, IsSome(loc), loc[1] \in DOMAIN s.buckets
      PROVE  Serves(s, t, {}) /\ Moved(s, t, r)
  <2>1. loc \in DOMAIN s.committed /\ src.stream = r.stream BY <1>2, LocationFound
  <2>2. /\ HasFields(src, ObjectFields) /\ SegmentsOK(src.segments) /\ ChecksumOK(src.checksum)
        /\ src.stream \in 1..s.nextId
    BY <2>1 DEF SatelliteOK, CommittedOK
  <2>3. PICK b : b = loc[1] OBVIOUS
  <2>4. PICK x : x = Vacated(s.buckets[b], loc[2]) OBVIOUS
  <2>5. HasFields(s.buckets[b], BucketFields) BY <2>3, <1>2 DEF SatelliteOK, BucketsOK
  <2>6. /\ HasFields(x, BucketFields)
        /\ x.locks = Keep(s.buckets[b].locks, {kv \in DOMAIN s.buckets[b].locks : kv[1] # loc[2]})
    <3>1. PICK y : y = s.buckets[b] OBVIOUS
    <3>2. PICK L : L = Keep(y.locks, {kv \in DOMAIN y.locks : kv[1] # loc[2]}) OBVIOUS
    <3>3. PICK d : d = Decrement(y.objects) OBVIOUS
    <3>4. x = [y EXCEPT !.objects = d, !.locks = L] BY <2>4, <3>1, <3>2, <3>3 DEF Vacated
    <3>5. HasFields(x, BucketFields) /\ x.locks = L BY <2>5, <3>1, <3>4 DEF HasFields, BucketFields
    <3> QED BY <3>1, <3>2, <3>5
  <2>7. /\ IsMap(x.locks)
        /\ \A y \in DOMAIN x.locks : y \in DOMAIN s.buckets[b].locks /\ x.locks[y] = s.buckets[b].locks[y]
    BY <2>6 DEF Keep, IsMap
  <2>8. /\ HasFields(u, SatelliteFields) /\ u.buckets = [s.buckets EXCEPT ![b] = x]
        /\ u.committed = Drop(s.committed, loc)
        /\ u.nextId = s.nextId /\ u.pending = s.pending /\ u.segmentToStream = s.segmentToStream
    BY <1>0, <2>3, <2>4 DEF HasFields, SatelliteFields
  <2> HIDE DEF u, lock, src
  <2>9. /\ BucketsOK(u.buckets) /\ DOMAIN u.buckets = DOMAIN s.buckets
        /\ \A y \in DOMAIN s.buckets : u.buckets[y] = IF y = b THEN x ELSE s.buckets[y]
    <3>1. BucketsOK(s.buckets) BY <1>2 DEF SatelliteOK
    <3>2. b \in DOMAIN s.buckets BY <2>3, <1>2
    <3>3. HasFields(x, BucketFields) /\ IsMap(x.locks) BY <2>6, <2>7
    <3> QED BY ONLY <3>1, <3>2, <3>3, <2>8, BucketsEdit
  <2> HIDE DEF loc
  <2>10. \A l \in DOMAIN u.committed : l \in DOMAIN s.committed /\ u.committed[l] = s.committed[l] /\ l # loc
    BY <2>8 DEF Drop
  <2>11. Applied(u, t, src, r, r.stream) BY <2>2, <2>8, <2>9, <1>2, ApplyRelocated
  <2> HIDE DEF t
  <2>12. PICK o : RelocatedObject(o, src, r, r.stream)
                  /\ t.committed = Put(u.committed, <<r.newBucket, r.newKey>>, o)
    BY <2>11 DEF Applied
  <2>13. /\ HasFields(o, ObjectFields) /\ o.stream = r.stream /\ SegmentsOK(o.segments)
         /\ ChecksumOK(o.checksum)
    BY <2>12, <2>2, RelocatedSegments DEF RelocatedObject
  <2>14. /\ HasFields(t, SatelliteFields) /\ t.nextId = s.nextId /\ t.pending = s.pending
         /\ t.segmentToStream = s.segmentToStream /\ BucketsOK(t.buckets)
         /\ DOMAIN t.buckets = DOMAIN u.buckets
         /\ \A y \in DOMAIN t.buckets : y # r.newBucket => t.buckets[y] = u.buckets[y]
         /\ LocksFollow(u.buckets[r.newBucket].locks, t.buckets[r.newBucket].locks, r.newKey, r.stream)
    BY <2>8, <2>11 DEF Applied
  <2>15. PendingOK(t.pending, t.nextId) /\ SegmentIdsOK(t.segmentToStream, t.nextId)
    BY <2>14 DEF SatelliteOK
  <2>16. /\ r.stream \notin DOMAIN t.pending /\ r.stream \in 1..t.nextId
         /\ \A l \in DOMAIN u.committed : u.committed[l].stream # r.stream
    BY <2>1, <2>2, <2>10, <2>14 DEF SatelliteOK, StreamsApart, src
  <2>17. LocksOwn(u.buckets, u.committed)
    BY <2>7, <2>9, <2>10 DEF SatelliteOK, LocksOwn
  <2>18. LocksOwn(t.buckets, t.committed)
    <3>1. \A l \in DOMAIN u.committed : l = <<l[1], l[2]>> BY <2>10 DEF SatelliteOK, CommittedOK
    <3> QED BY <3>1, <2>12, <2>13, <2>14, <2>17, LocksPut
  <2>19. t.nextId \in Nat /\ s.nextId <= t.nextId BY <2>14, <1>0
  <2>20. SatelliteOK(t)
    BY <2>10, <2>12, <2>13, <2>14, <2>15, <2>16, <2>18, <2>19, ObjectPut
  <2>21. UploadsEvolve(s, t, {}) /\ SegmentIdsEvolve(s, t)
    BY <2>14 DEF UploadsEvolve, SegmentIdsEvolve
  <2>22. Serves(s, t, {}) BY <2>19, <2>20, <2>21 DEF Serves
  <2>23. Moved(s, t, r) BY <2>1, <2>8, <2>12, <2>14, <1>2 DEF Moved, src, loc
  <2> QED BY <2>22, <2>23
<1> HIDE DEF t, v, loc
<1>3. CASE finish_move(s, key, r).s = s BY <1>3, ServesStutter
<1>4. CASE finish_move(s, key, r).s = v BY <1>4, <1>v
<1>5. CASE /\ r.newBucket \in DOMAIN s.buckets /\ IsSome(loc) /\ loc[1] \in DOMAIN s.buckets
           /\ finish_move(s, key, r).s = t
  BY <1>2, <1>5
<1> QED BY <1>1, <1>3, <1>4, <1>5

-----------------------------------------------------------------------------
(* What the satellite serves keeps a project in order.                      *)

\* decrypt_path inverts encrypt_path.
LEMMA PathRoundTrip ==
    ASSUME NEW k \in Path
    PROVE  decrypt_path(encrypt_path(k)) = k
PROOF
<1>1. PICK M \in Nat : M = MaxComp BY MaxCompAssumption
<1>2. k \in Seq(0..M) BY <1>1 DEF Path
<1>3. PICK n \in Nat : DOMAIN k = 1..n /\ k = [i \in 1..n |-> k[i]] BY <1>2
<1>4. PICK e : e = encrypt_path(k) OBVIOUS
<1>5. e = [i \in 1..n |-> IF k[i] = 0 THEN 0 ELSE M + 1 - k[i]]
  BY <1>1, <1>3, <1>4 DEF encrypt_path
<1>6. PICK d : d = decrypt_path(e) OBVIOUS
<1>7. d = [i \in 1..n |-> IF e[i] = 0 THEN 0 ELSE M + 1 - e[i]]
  BY <1>1, <1>5, <1>6 DEF decrypt_path
<1>8. ASSUME NEW i \in 1..n PROVE d[i] = k[i]
  <2>1. k[i] \in 0..M BY <1>2, <1>3
  <2>2. e[i] = IF k[i] = 0 THEN 0 ELSE M + 1 - k[i] BY <1>5
  <2>3. d[i] = IF e[i] = 0 THEN 0 ELSE M + 1 - e[i] BY <1>7
  <2>4. PICK a \in 0..M : a = k[i] BY <2>1
  <2>5. PICK b : b = e[i] OBVIOUS
  <2>6. b = IF a = 0 THEN 0 ELSE M + 1 - a BY ONLY <2>2, <2>4, <2>5
  <2>7. (IF b = 0 THEN 0 ELSE M + 1 - b) = a BY ONLY <2>6, M \in Nat, a \in 0..M
  <2> QED BY ONLY <2>3, <2>4, <2>5, <2>7
<1>9. d = k BY <1>3, <1>7, <1>8
<1> QED BY <1>4, <1>6, <1>9

\* An encrypted path is a path.
LEMMA EncryptedPath ==
    ASSUME NEW k \in Path
    PROVE  /\ encrypt_path(k) \in Path /\ decrypt_path(k) \in Path
           /\ Len(encrypt_path(k)) = Len(k) /\ Len(decrypt_path(k)) = Len(k)
PROOF
<1>1. PICK M \in Nat : M = MaxComp BY MaxCompAssumption
<1>2. k \in Seq(0..M) BY <1>1 DEF Path
<1>3. PICK n \in Nat : n = Len(k) /\ DOMAIN k = 1..n BY <1>2
<1>4. PICK e : e = [i \in 1..n |-> IF k[i] = 0 THEN 0 ELSE M + 1 - k[i]] OBVIOUS
<1>5. ASSUME NEW i \in 1..n PROVE (IF k[i] = 0 THEN 0 ELSE M + 1 - k[i]) \in 0..M
  <2>1. PICK a \in 0..M : a = k[i] BY <1>2, <1>3
  <2> QED BY ONLY <2>1, M \in Nat, a \in 0..M
<1>6. e \in Seq(0..M) /\ Len(e) = n BY <1>4, <1>5
<1>7. e = encrypt_path(k) /\ e = decrypt_path(k) BY <1>1, <1>3, <1>4 DEF encrypt_path, decrypt_path
<1> QED BY <1>1, <1>3, <1>6, <1>7 DEF Path

\* The content key of an encrypted location is that of its plain path.
LEMMA LocationOfPath ==
    ASSUME NEW b, NEW k \in Path
    PROVE  Location(<<b, encrypt_path(k)>>) = derive_content_key(b, k)
PROOF
<1>1. PICK l : l = <<b, encrypt_path(k)>> OBVIOUS
<1>2. l[1] = b /\ l[2] = encrypt_path(k) BY <1>1
<1> QED BY <1>1, <1>2, PathRoundTrip DEF Location

\* f's entries are g's.
Grows(f, g) == \A x \in DOMAIN f : x \in DOMAIN g /\ g[x] = f[x]

\* Over keeps what the first map says.
LEMMA OverGrows ==
    ASSUME NEW f, NEW g
    PROVE  /\ IsMap(Over(f, g)) /\ Grows(f, Over(f, g))
           /\ DOMAIN Over(f, g) = DOMAIN f \cup DOMAIN g
           /\ \A x \in DOMAIN g : x \notin DOMAIN f => Over(f, g)[x] = g[x]
BY DEF Over, IsMap, Grows

\* There is one edition a committed stream.
LEMMA EditionsOf ==
    ASSUME NEW s, SatelliteOK(s)
    PROVE  /\ DOMAIN Editions(s) = {s.committed[l].stream : l \in DOMAIN s.committed}
           /\ \A l \in DOMAIN s.committed :
                 Editions(s)[s.committed[l].stream] = Edition(s.committed[l])
PROOF
<1>1. ASSUME NEW l \in DOMAIN s.committed
      PROVE  Editions(s)[s.committed[l].stream] = Edition(s.committed[l])
  <2>1. (CHOOSE m \in DOMAIN s.committed : s.committed[m].stream = s.committed[l].stream) = l
    BY DEF SatelliteOK, StreamsApart
  <2>2. PICK id : id = s.committed[l].stream OBVIOUS
  <2>3. Editions(s)[id] = Edition(s.committed[CHOOSE m \in DOMAIN s.committed : s.committed[m].stream = id])
    BY <2>2 DEF Editions
  <2> QED BY <2>1, <2>2, <2>3
<1>2. DOMAIN Editions(s) = {s.committed[l].stream : l \in DOMAIN s.committed} BY DEF Editions
<1> QED BY <1>1, <1>2

\* The history after a step.
LEMMA EditionsStep ==
    ASSUME NEW s, SatelliteOK(s), NEW t, SatelliteOK(t), NEW pub, EditionsOK(s, pub),
           s.nextId <= t.nextId,
           \A id \in DOMAIN t.pending : id > s.nextId \/ id \in DOMAIN s.pending,
           \A l \in DOMAIN t.committed : t.committed[l].stream \in DOMAIN pub =>
              SameEdition(Edition(t.committed[l]), pub[t.committed[l].stream])
    PROVE  EditionsOK(t, Over(pub, Editions(t))) /\ Grows(pub, Over(pub, Editions(t)))
PROOF
<1>1. PICK g : g = Editions(t) OBVIOUS
<1>2. PICK f : f = Over(pub, g) OBVIOUS
<1>3. /\ IsMap(f) /\ Grows(pub, f) /\ DOMAIN f = DOMAIN pub \cup DOMAIN g
      /\ \A x \in DOMAIN g : x \notin DOMAIN pub => f[x] = g[x]
  <2>1. IsMap(f) /\ Grows(pub, f) /\ DOMAIN f = DOMAIN pub \cup DOMAIN g BY <1>2, OverGrows
  <2>2. \A x \in DOMAIN g : x \notin DOMAIN pub => f[x] = g[x] BY <1>2 DEF Over
  <2> QED BY <2>1, <2>2
<1>4. /\ DOMAIN g = {t.committed[l].stream : l \in DOMAIN t.committed}
      /\ \A l \in DOMAIN t.committed : g[t.committed[l].stream] = Edition(t.committed[l])
  BY <1>1, EditionsOf
<1>5. \A n \in 1..s.nextId : n \in 1..t.nextId BY DEF SatelliteOK
<1>6. DOMAIN f \subseteq 1..t.nextId
  <2>1. \A x \in DOMAIN g : x \in 1..t.nextId BY <1>4 DEF SatelliteOK, CommittedOK
  <2>2. \A x \in DOMAIN pub : x \in 1..t.nextId BY <1>5 DEF EditionsOK
  <2> QED BY <2>1, <2>2, <1>3
<1>7. ASSUME NEW id \in DOMAIN t.pending PROVE id \notin DOMAIN f
  <2>1. id \notin DOMAIN g BY <1>4 DEF SatelliteOK, StreamsApart
  <2>2. id \notin DOMAIN pub
    <3>1. CASE id \in DOMAIN s.pending BY <3>1 DEF EditionsOK
    <3>2. CASE id > s.nextId
      <4>1. id \notin 1..s.nextId BY <3>2 DEF SatelliteOK
      <4> QED BY <4>1 DEF EditionsOK
    <3> QED BY <3>1, <3>2
  <2> QED BY <2>1, <2>2, <1>3
<1>8. ASSUME NEW l \in DOMAIN t.committed
      PROVE  /\ t.committed[l].stream \in DOMAIN f
             /\ SameEdition(Edition(t.committed[l]), f[t.committed[l].stream])
  <2>1. PICK id : id = t.committed[l].stream OBVIOUS
  <2>2. id \in DOMAIN g /\ g[id] = Edition(t.committed[l]) BY <2>1, <1>4
  <2>3. CASE id \in DOMAIN pub BY <2>1, <2>2, <2>3, <1>3 DEF Grows
  <2>4. CASE id \notin DOMAIN pub
    <3>1. f[id] = Edition(t.committed[l]) BY <2>2, <2>4, <1>3
    <3> QED BY <3>1, <2>1, <2>2, <1>3 DEF SameEdition
  <2> QED BY <2>3, <2>4
<1>9. EditionsOK(t, f) BY <1>3, <1>6, <1>7, <1>8 DEF EditionsOK
<1> QED BY <1>1, <1>2, <1>3, <1>9

\* A set of naturals that is not empty has a least element.
LEMMA Smallest ==
    ASSUME NEW S, S \subseteq Nat, S # {}
    PROVE  \E x \in S : \A y \in S : x <= y
PROOF
<1>1. PICK R : R = OpToRel(<, Nat) OBVIOUS
<1>2. IsWellFoundedOn(R, Nat) BY <1>1, NatLessThanWellFounded
<1>3. PICK x \in S : \A y \in S : ~(<<y, x>> \in R) BY <1>2, WFMin
<1>4. \A y \in S : ~(y < x) BY <1>1, <1>3 DEF OpToRel
<1> QED BY <1>4

\* Which uploads there are and what they hold, after any RPC.
LEMMA ServesUploadsOK ==
    ASSUME NEW s, SatelliteOK(s), NEW t, NEW W, Serves(s, t, W), NEW ups, UploadsOK(s, ups)
    PROVE  UploadsOK(t, ups)
PROOF
<1>1. \A n \in 1..s.nextId : n \in 1..t.nextId /\ ~(n > s.nextId) BY DEF SatelliteOK, Serves
<1>2. ASSUME NEW id \in DOMAIN ups
      PROVE  /\ id \in 1..t.nextId /\ ups[id][2] \in Path
             /\ id \in DOMAIN t.pending => /\ t.pending[id].bucket = ups[id][1]
                                           /\ t.pending[id].key = encrypt_path(ups[id][2])
  <2>1. id \in 1..s.nextId BY DEF UploadsOK
  <2>2. id \in 1..t.nextId /\ ~(id > s.nextId) BY <2>1, <1>1
  <2>3. id \in DOMAIN t.pending => /\ id \in DOMAIN s.pending
                                   /\ t.pending[id].bucket = s.pending[id].bucket
                                   /\ t.pending[id].key = s.pending[id].key
    BY <2>2 DEF Serves, UploadsEvolve
  <2> QED BY <2>2, <2>3 DEF UploadsOK
<1> QED BY <1>2 DEF UploadsOK

PlaceOf(s, id) == Location(<<s.pending[id].bucket, s.pending[id].key>>)

\* The keys of uploaded segments go on opening.
LEMMA ServesPendingOpen ==
    ASSUME NEW s, SatelliteOK(s), KeysOpen(s), NEW t, NEW W, Serves(s, t, W),
           \A id \in DOMAIN s.pending : \A seg : <<id, seg>> \in W => Opens(seg.key, PlaceOf(s, id))
    PROVE  \A id \in DOMAIN t.pending : SegmentsOpen(t.pending[id].segments, PlaceOf(t, id))
PROOF
<1> SUFFICES ASSUME NEW id \in DOMAIN t.pending
             PROVE  SegmentsOpen(t.pending[id].segments, PlaceOf(t, id))
  OBVIOUS
<1>1. CASE t.pending[id].segments = <<>> BY <1>1 DEF SegmentsOpen
<1>2. ASSUME id \in DOMAIN s.pending, t.pending[id].bucket = s.pending[id].bucket,
             t.pending[id].key = s.pending[id].key
      PROVE  PlaceOf(t, id) = PlaceOf(s, id) /\ SegmentsOpen(s.pending[id].segments, PlaceOf(s, id))
  BY <1>2 DEF PlaceOf, KeysOpen
<1>3. ASSUME id \in DOMAIN s.pending, NEW seg, <<id, seg>> \in W
      PROVE  SegmentsOpen(s.pending[id].segments, PlaceOf(s, id)) =>
                SegmentsOpen(Append(s.pending[id].segments, seg), PlaceOf(s, id))
  <2>1. PICK q : q = s.pending[id].segments OBVIOUS
  <2>2. IsList(q) BY <2>1, <1>3 DEF SatelliteOK, PendingOK, SegmentsOK
  <2>3. PICK n \in Nat : n = Len(q) BY <2>2 DEF IsList
  <2>4. DOMAIN q = 1..n BY <2>2, <2>3 DEF IsList
  <2>5. PICK p : p = Append(q, seg) OBVIOUS
  <2>6. IsList(p) /\ Len(p) = n + 1 /\ p[n + 1] = seg BY <2>2, <2>3, <2>5, ListAppend
  <2>7. \A i \in 1..n : p[i] = q[i]
    <3>1. ASSUME NEW i \in 1..n PROVE p[i] = q[i] BY <2>2, <2>3, <2>5, ListAppend
    <3> QED BY <3>1
  <2>8. DOMAIN p = 1..(n + 1) BY <2>6 DEF IsList
  <2>9. \A i \in 1..(n + 1) : i \in 1..n \/ i = n + 1 OBVIOUS
  <2>10. Opens(seg.key, PlaceOf(s, id)) BY <1>3
  <2> QED BY <2>1, <2>4, <2>5, <2>6, <2>7, <2>8, <2>9, <2>10 DEF SegmentsOpen
<1> QED BY <1>1, <1>2, <1>3 DEF Serves, UploadsEvolve

\* A calm step keeps the project in order.
LEMMA CalmProject ==
    ASSUME NEW s, NEW ups, NEW pub, NEW tn, ProjectOK(s, ups, pub, tn),
           NEW t, NEW W, Calm(s, t, W),
           \A id \in DOMAIN s.pending : \A seg : <<id, seg>> \in W => Opens(seg.key, PlaceOf(s, id))
    PROVE  ProjectOK(t, ups, Over(pub, Editions(t)), tn) /\ Grows(pub, Over(pub, Editions(t)))
PROOF
<1>1. /\ SatelliteOK(s) /\ SatelliteOK(t) /\ Serves(s, t, W) /\ UploadsOK(s, ups) /\ KeysOpen(s)
      /\ EditionsOK(s, pub) /\ MetadataOpen(s, tn)
  BY DEF ProjectOK, Calm, Serves
<1>2. \A l \in DOMAIN t.committed : l \in DOMAIN s.committed /\ t.committed[l] = s.committed[l]
  BY DEF Calm
<1>3. UploadsOK(t, ups) BY <1>1, ServesUploadsOK
<1>4. \A id \in DOMAIN t.pending : SegmentsOpen(t.pending[id].segments, PlaceOf(t, id))
  BY <1>1, ServesPendingOpen
<1>5. KeysOpen(t) BY <1>1, <1>2, <1>4 DEF KeysOpen, PlaceOf
<1>6. MetadataOpen(t, tn) BY <1>1, <1>2 DEF MetadataOpen
<1>7. EditionsOK(t, Over(pub, Editions(t))) /\ Grows(pub, Over(pub, Editions(t)))
  <2>1. s.nextId <= t.nextId /\ \A id \in DOMAIN t.pending : id > s.nextId \/ id \in DOMAIN s.pending
    BY <1>1 DEF Serves, UploadsEvolve
  <2>2. \A l \in DOMAIN t.committed : t.committed[l].stream \in DOMAIN pub =>
              SameEdition(Edition(t.committed[l]), pub[t.committed[l].stream])
    BY <1>1, <1>2 DEF EditionsOK
  <2> QED BY <2>1, <2>2, <1>1, EditionsStep
<1> QED BY <1>1, <1>3, <1>5, <1>6, <1>7 DEF ProjectOK

\* So does publishing an upload with readable metadata.
LEMMA PublishedProject ==
    ASSUME NEW s, NEW ups, NEW pub, NEW tn, ProjectOK(s, ups, pub, tn),
           NEW t, Serves(s, t, {}), NEW r, Published(s, t, r),
           MetadataReadable(r, PlaceOf(s, r.stream))
    PROVE  ProjectOK(t, ups, Over(pub, Editions(t)), tn) /\ Grows(pub, Over(pub, Editions(t)))
PROOF
<1>1. /\ SatelliteOK(s) /\ SatelliteOK(t) /\ UploadsOK(s, ups) /\ KeysOpen(s)
      /\ EditionsOK(s, pub) /\ MetadataOpen(s, tn)
  BY DEF ProjectOK, Serves
<1>2. PICK p : p = s.pending[r.stream] OBVIOUS
<1>3. PICK o : o = CommittedObject(r, p) OBVIOUS
<1>4. PICK d : d = <<p.bucket, p.key>> OBVIOUS
<1>5. /\ r.stream \in DOMAIN s.pending /\ t.committed = Put(s.committed, d, o)
  BY <1>2, <1>3, <1>4 DEF Published
<1>6. /\ t.committed[d] = o /\ d \in DOMAIN t.committed
      /\ \A l \in DOMAIN t.committed : l # d => l \in DOMAIN s.committed /\ t.committed[l] = s.committed[l]
  BY <1>5 DEF Put
<1>7. /\ o.stream = r.stream /\ o.meta = r.meta /\ o.metaKey = r.metaKey /\ o.checksum = r.checksum
      /\ o.segments = by_position(p.segments)
  BY <1>3, CommittedObjectFields
<1>8. Location(d) = PlaceOf(s, r.stream) BY <1>2, <1>4 DEF PlaceOf
<1>9. UploadsOK(t, ups) BY <1>1, ServesUploadsOK
<1>10. \A id \in DOMAIN t.pending : SegmentsOpen(t.pending[id].segments, PlaceOf(t, id))
  BY <1>1, ServesPendingOpen
<1>11. SegmentsOpen(o.segments, Location(d))
  <2>1. SegmentsOpen(p.segments, Location(d)) BY <1>1, <1>2, <1>5, <1>8 DEF KeysOpen, PlaceOf
  <2>2. SegmentsOK(p.segments) BY <1>1, <1>2, <1>5 DEF SatelliteOK, PendingOK
  <2>3. PICK n \in Nat : n = Len(p.segments) BY <2>2 DEF SegmentsOK, IsList
  <2>4. DOMAIN p.segments = 1..n BY <2>2, <2>3 DEF SegmentsOK, IsList
  <2>5. PICK f \in [1..n -> 1..n] : by_position(p.segments) = [i \in 1..n |-> p.segments[f[i]]]
    BY <2>2, <2>3, Sorted, ZenonT(60)
  <2> QED BY <2>1, <2>4, <2>5, <1>7 DEF SegmentsOpen
<1>12. KeysOpen(t) BY <1>1, <1>6, <1>10, <1>11 DEF KeysOpen, PlaceOf
<1>13. MetadataOpen(t, tn)
  <2>1. MetadataReadable(o, Location(d)) BY <1>7, <1>8 DEF MetadataReadable
  <2> QED BY <2>1, <1>1, <1>6 DEF MetadataOpen
<1>14. EditionsOK(t, Over(pub, Editions(t))) /\ Grows(pub, Over(pub, Editions(t)))
  <2>1. s.nextId <= t.nextId /\ \A id \in DOMAIN t.pending : id > s.nextId \/ id \in DOMAIN s.pending
    BY <1>1 DEF Serves, UploadsEvolve
  <2>2. o.stream \notin DOMAIN pub BY <1>1, <1>5, <1>7 DEF EditionsOK
  <2>3. \A l \in DOMAIN t.committed : t.committed[l].stream \in DOMAIN pub =>
              SameEdition(Edition(t.committed[l]), pub[t.committed[l].stream])
    BY <2>2, <1>1, <1>6 DEF EditionsOK
  <2> QED BY <2>1, <2>3, <1>1, EditionsStep
<1> QED BY <1>1, <1>9, <1>12, <1>13, <1>14 DEF ProjectOK

\* The segments of an object that was copied or moved with fitting keys.
LEMMA RelocatedKeys ==
    ASSUME NEW src, SegmentsOK(src.segments), NEW e, SameEdition(Edition(src), e),
           NEW r, NEW new, KeysFit(r.segmentKeys, e, new),
           NEW o, NEW stream, RelocatedObject(o, src, r, stream)
    PROVE  /\ SegmentsOpen(o.segments, new)
           /\ Positions(o) = Positions(src)
           /\ Distinct(Positions(src)) => Content(o) = Content(src)
           /\ SameEdition(Edition(o), e)
PROOF
<1>1. PICK n \in Nat : n = Len(src.segments) BY DEF SegmentsOK, IsList
<1>2. DOMAIN src.segments = 1..n BY <1>1 DEF SegmentsOK, IsList
<1>3. /\ SegmentsOK(o.segments) /\ DOMAIN o.segments = 1..n
      /\ \A i \in 1..n : /\ o.segments[i].position = src.segments[i].position
                         /\ o.segments[i].key = RelocatedKey(src.segments[i], r.segmentKeys)
  BY <1>2, RelocatedSegments
<1>4. /\ Edition(src).positions = Positions(src) /\ Edition(src).content = Content(src)
      /\ Edition(src).checksum = PlainChecksum(src.checksum)
      /\ Edition(o).positions = Positions(o) /\ Edition(o).content = Content(o)
      /\ Edition(o).checksum = PlainChecksum(o.checksum)
  BY DEF Edition
<1>5. /\ e.positions = Positions(src) /\ e.checksum = PlainChecksum(src.checksum)
      /\ Distinct(Positions(src)) => Content(src) = e.content
  BY <1>4 DEF SameEdition
<1>6. Positions(o) = Positions(src) BY <1>2, <1>3 DEF Positions
<1>7. PICK keys : keys = r.segmentKeys OBVIOUS
<1>8. /\ DOMAIN Positions(src) = 1..n
      /\ \A i \in 1..n : Positions(src)[i] = src.segments[i].position
  BY <1>2 DEF Positions
<1>9. /\ DOMAIN keys = 1..n
      /\ \A i \in 1..n : /\ keys[i].position = src.segments[i].position
                         /\ Opens(keys[i].key, new)
                         /\ Distinct(Positions(src)) => keys[i].key.sealed = Content(src)[i]
  BY <1>5, <1>7, <1>8 DEF KeysFit
<1>10. ASSUME NEW i \in 1..n
       PROVE  \E m \in 1..n : /\ o.segments[i].key = keys[m].key
                              /\ src.segments[m].position = src.segments[i].position
  <2>1. PICK S : S = {j \in 1..n : keys[j].position = src.segments[i].position} OBVIOUS
  <2>2. i \in S /\ S \subseteq Nat BY <1>9, <2>1
  <2>3. PICK x \in S : \A y \in S : x <= y BY <2>2, Smallest
  <2>4. PICK m : m = CHOOSE j \in S : \A y \in S : j <= y OBVIOUS
  <2>5. m \in S BY <2>3, <2>4
  <2>6. RelocatedKey(src.segments[i], keys) = keys[m].key
    BY <1>9, <2>1, <2>2, <2>4 DEF RelocatedKey
  <2> QED BY <2>1, <2>5, <2>6, <1>3, <1>7, <1>9
<1>11. SegmentsOpen(o.segments, new) BY <1>3, <1>9, <1>10 DEF SegmentsOpen
<1>12. ASSUME Distinct(Positions(src)) PROVE Content(o) = Content(src)
  <2>1. ASSUME NEW i \in 1..n PROVE o.segments[i].key.sealed = Content(src)[i]
    <3>1. PICK m \in 1..n : /\ o.segments[i].key = keys[m].key
                            /\ src.segments[m].position = src.segments[i].position
      BY <1>10
    <3>2. m = i BY <3>1, <1>8, <1>12 DEF Distinct
    <3> QED BY <3>1, <3>2, <1>9, <1>12
  <2>2. DOMAIN Content(src) = 1..n /\ Content(src) = [i \in 1..n |-> Content(src)[i]] BY <1>2 DEF Content
  <2>3. Content(o) = [i \in 1..n |-> o.segments[i].key.sealed] BY <1>3 DEF Content
  <2> QED BY <2>1, <2>2, <2>3
<1>13. SameEdition(Edition(o), e)
  <2>1. o.checksum = src.checksum BY DEF RelocatedObject
  <2> QED BY <2>1, <1>4, <1>5, <1>6, <1>12 DEF SameEdition
<1> QED BY <1>6, <1>11, <1>12, <1>13

\* So does an update sealed for the stream it names.
LEMMA UpdatedProject ==
    ASSUME NEW s, NEW ups, NEW pub, NEW tn, ProjectOK(s, ups, pub, tn),
           NEW t, Serves(s, t, {}), NEW r, Updated(s, t, r), r.stream # 0,
           MetadataReadable(r, Location(<<r.bucket, r.key>>)),
           PlainChecksum(r.checksum) = pub[r.stream].checksum
    PROVE  ProjectOK(t, ups, Over(pub, Editions(t)), tn) /\ Grows(pub, Over(pub, Editions(t)))
PROOF
<1>1. /\ SatelliteOK(s) /\ SatelliteOK(t) /\ UploadsOK(s, ups) /\ KeysOpen(s)
      /\ EditionsOK(s, pub) /\ MetadataOpen(s, tn)
  BY DEF ProjectOK, Serves
<1>2. PICK d : d = <<r.bucket, r.key>> OBVIOUS
<1>3. PICK src : src = s.committed[d] OBVIOUS
<1>4. PICK o : o = [src EXCEPT !.meta = r.meta, !.metaKey = r.metaKey, !.checksum = r.checksum] OBVIOUS
<1>5. d \in DOMAIN s.committed /\ r.stream = src.stream /\ t.pending = s.pending
  BY <1>2, <1>3 DEF Updated
<1>6. t.committed = [s.committed EXCEPT ![d] = o]
  BY <1>2, <1>3, <1>4 DEF Updated
<1>7. IsMap(s.committed) /\ HasFields(src, ObjectFields)
  BY <1>1, <1>3, <1>5 DEF SatelliteOK, CommittedOK
<1>8. /\ t.committed[d] = o /\ DOMAIN t.committed = DOMAIN s.committed
      /\ \A l \in DOMAIN t.committed : l # d => t.committed[l] = s.committed[l]
  BY <1>5, <1>6, <1>7 DEF IsMap
<1>9. /\ o.stream = src.stream /\ o.meta = r.meta /\ o.metaKey = r.metaKey /\ o.checksum = r.checksum
      /\ o.segments = src.segments
  BY <1>4, <1>7 DEF HasFields, ObjectFields
<1>10. UploadsOK(t, ups) BY <1>1, ServesUploadsOK
<1>11. KeysOpen(t) BY <1>1, <1>3, <1>5, <1>8, <1>9 DEF KeysOpen
<1>12. MetadataOpen(t, tn)
  <2>1. MetadataReadable(o, Location(d)) BY <1>2, <1>9 DEF MetadataReadable
  <2> QED BY <2>1, <1>1, <1>8 DEF MetadataOpen
<1>13. EditionsOK(t, Over(pub, Editions(t))) /\ Grows(pub, Over(pub, Editions(t)))
  <2>1. s.nextId <= t.nextId /\ \A id \in DOMAIN t.pending : id > s.nextId \/ id \in DOMAIN s.pending
    BY <1>1 DEF Serves, UploadsEvolve
  <2>2. SameEdition(Edition(src), pub[src.stream]) BY <1>1, <1>3, <1>5 DEF EditionsOK
  <2>3. /\ Edition(o).positions = Edition(src).positions /\ Edition(o).content = Edition(src).content
        /\ Edition(o).checksum = pub[src.stream].checksum
    BY <1>5, <1>9 DEF Edition, Positions, Content
  <2>4. SameEdition(Edition(o), pub[o.stream]) BY <2>2, <2>3, <1>9 DEF SameEdition
  <2>5. \A l \in DOMAIN t.committed : t.committed[l].stream \in DOMAIN pub =>
              SameEdition(Edition(t.committed[l]), pub[t.committed[l].stream])
    BY <2>4, <1>1, <1>8 DEF EditionsOK
  <2> QED BY <2>1, <2>5, <1>1, EditionsStep
<1> QED BY <1>1, <1>10, <1>11, <1>12, <1>13 DEF ProjectOK

\* The object at l, put at r's place under fitting keys.  Its metadata opens
\* if it did and the metadata key the client read is still the object's.
LEMMA RelocatedProject ==
    ASSUME NEW s, NEW ups, NEW pub, NEW tn, ProjectOK(s, ups, pub, tn),
           NEW t, Serves(s, t, {}), NEW r, NEW l \in DOMAIN s.committed, NEW src, src = s.committed[l],
           NEW o, NEW stream, RelocatedObject(o, src, r, stream),
           NEW C, Grows(C, s.committed),
           t.committed = Put(C, <<r.newBucket, r.newKey>>, o),
           NEW new, new = Location(<<r.newBucket, r.newKey>>),
           KeysFit(r.segmentKeys, pub[src.stream], new), Opens(Head(r.metaKey), new),
           stream \in DOMAIN pub => stream = src.stream,
           NEW tn2, tn \subseteq tn2,
           stream \notin tn2 => src.stream \notin tn /\ src.metaKey.sealed = Head(r.metaKey).sealed
    PROVE  ProjectOK(t, ups, Over(pub, Editions(t)), tn2) /\ Grows(pub, Over(pub, Editions(t)))
PROOF
<1>1. /\ SatelliteOK(s) /\ SatelliteOK(t) /\ UploadsOK(s, ups) /\ KeysOpen(s)
      /\ EditionsOK(s, pub) /\ MetadataOpen(s, tn)
  BY DEF ProjectOK, Serves
<1>2. PICK d : d = <<r.newBucket, r.newKey>> OBVIOUS
<1>3. /\ t.committed[d] = o /\ d \in DOMAIN t.committed
      /\ \A m \in DOMAIN t.committed : m # d => m \in DOMAIN s.committed /\ t.committed[m] = s.committed[m]
  BY <1>2 DEF Put, Grows
<1>4. SameEdition(Edition(src), pub[src.stream]) /\ SegmentsOK(src.segments)
  BY <1>1 DEF EditionsOK, SatelliteOK, CommittedOK
<1>5. SegmentsOpen(o.segments, new) /\ SameEdition(Edition(o), pub[src.stream])
  <2>1. PICK e : e = pub[src.stream] OBVIOUS
  <2> QED BY <2>1, <1>4, RelocatedKeys
<1>6. new = Location(d) BY <1>2
<1>7. o.stream = stream /\ o.meta = src.meta /\ o.checksum = src.checksum /\ o.metaKey = Head(r.metaKey)
  BY DEF RelocatedObject
<1>8. UploadsOK(t, ups) BY <1>1, ServesUploadsOK
<1>9. \A id \in DOMAIN t.pending : SegmentsOpen(t.pending[id].segments, PlaceOf(t, id))
  BY <1>1, ServesPendingOpen
<1>10. KeysOpen(t) BY <1>1, <1>3, <1>5, <1>6, <1>9 DEF KeysOpen, PlaceOf
<1>11. MetadataOpen(t, tn2)
  <2>1. o.stream \notin tn2 => MetadataReadable(o, Location(d))
    <3>1. src.stream \notin tn => MetadataReadable(src, Location(l)) BY <1>1 DEF MetadataOpen
    <3> QED BY <3>1, <1>6, <1>7 DEF MetadataReadable
  <2>2. \A x : x \notin tn2 => x \notin tn OBVIOUS
  <2> QED BY <2>1, <2>2, <1>1, <1>3 DEF MetadataOpen
<1>12. EditionsOK(t, Over(pub, Editions(t))) /\ Grows(pub, Over(pub, Editions(t)))
  <2>1. s.nextId <= t.nextId /\ \A id \in DOMAIN t.pending : id > s.nextId \/ id \in DOMAIN s.pending
    BY <1>1 DEF Serves, UploadsEvolve
  <2>2. o.stream \in DOMAIN pub => SameEdition(Edition(o), pub[o.stream]) BY <1>5, <1>7
  <2>3. \A m \in DOMAIN t.committed : t.committed[m].stream \in DOMAIN pub =>
              SameEdition(Edition(t.committed[m]), pub[t.committed[m].stream])
    BY <2>2, <1>1, <1>3 DEF EditionsOK
  <2> QED BY <2>1, <2>3, <1>1, EditionsStep
<1> QED BY <1>1, <1>8, <1>10, <1>11, <1>12 DEF ProjectOK

\* So does a copy with keys fit for its new place.
LEMMA CopiedProject ==
    ASSUME NEW s, NEW ups, NEW pub, NEW tn, ProjectOK(s, ups, pub, tn),
           NEW t, Serves(s, t, {}), NEW r, Copied(s, t, r),
           NEW new, new = Location(<<r.newBucket, r.newKey>>),
           KeysFit(r.segmentKeys, pub[r.stream], new), Opens(Head(r.metaKey), new),
           NEW tn2, tn \subseteq tn2,
           s.nextId + 1 \notin tn2 =>
              /\ r.stream \notin tn
              /\ s.committed[LocationOf(s, r.stream)].metaKey.sealed = Head(r.metaKey).sealed
    PROVE  ProjectOK(t, ups, Over(pub, Editions(t)), tn2) /\ Grows(pub, Over(pub, Editions(t)))
PROOF
<1>1. PICK l : l = LocationOf(s, r.stream) OBVIOUS
<1>2. PICK src : src = s.committed[l] OBVIOUS
<1>3. l \in DOMAIN s.committed /\ src.stream = r.stream BY <1>1, <1>2 DEF Copied
<1>4. PICK o : /\ RelocatedObject(o, src, r, s.nextId + 1)
               /\ t.committed = Put(s.committed, <<r.newBucket, r.newKey>>, o)
  BY <1>1, <1>2 DEF Copied
<1>5. PICK stream : stream = s.nextId + 1 OBVIOUS
<1>6. stream \in DOMAIN pub => stream = src.stream
  BY <1>5 DEF ProjectOK, SatelliteOK, EditionsOK
<1>7. PICK C : C = s.committed OBVIOUS
<1>8. /\ RelocatedObject(o, src, r, stream) /\ t.committed = Put(C, <<r.newBucket, r.newKey>>, o)
      /\ KeysFit(r.segmentKeys, pub[src.stream], new)
      /\ stream \notin tn2 => src.stream \notin tn /\ src.metaKey.sealed = Head(r.metaKey).sealed
  BY <1>1, <1>2, <1>3, <1>4, <1>5, <1>7
<1>9. Grows(C, s.committed) BY <1>7 DEF Grows
<1>10. /\ ProjectOK(s, ups, pub, tn) /\ Serves(s, t, {}) /\ Opens(Head(r.metaKey), new)
       /\ new = Location(<<r.newBucket, r.newKey>>) /\ tn \subseteq tn2
  OBVIOUS
<1> QED BY ONLY <1>2, <1>3, <1>6, <1>8, <1>9, <1>10, RelocatedProject

\* So does a move with keys fit for its new place.
LEMMA MovedProject ==
    ASSUME NEW s, NEW ups, NEW pub, NEW tn, ProjectOK(s, ups, pub, tn),
           NEW t, Serves(s, t, {}), NEW r, Moved(s, t, r),
           NEW new, new = Location(<<r.newBucket, r.newKey>>),
           KeysFit(r.segmentKeys, pub[r.stream], new), Opens(Head(r.metaKey), new),
           NEW tn2, tn \subseteq tn2,
           r.stream \notin tn2 =>
              /\ r.stream \notin tn
              /\ s.committed[LocationOf(s, r.stream)].metaKey.sealed = Head(r.metaKey).sealed
    PROVE  ProjectOK(t, ups, Over(pub, Editions(t)), tn2) /\ Grows(pub, Over(pub, Editions(t)))
PROOF
<1>1. PICK l : l = LocationOf(s, r.stream) OBVIOUS
<1>2. PICK src : src = s.committed[l] OBVIOUS
<1>3. l \in DOMAIN s.committed /\ src.stream = r.stream BY <1>1, <1>2 DEF Moved
<1>4. PICK o : /\ RelocatedObject(o, src, r, r.stream)
               /\ t.committed = Put(Drop(s.committed, l), <<r.newBucket, r.newKey>>, o)
  BY <1>1, <1>2 DEF Moved
<1>5. PICK stream : stream = r.stream OBVIOUS
<1>7. PICK C : C = Drop(s.committed, l) OBVIOUS
<1>8. /\ RelocatedObject(o, src, r, stream) /\ t.committed = Put(C, <<r.newBucket, r.newKey>>, o)
      /\ KeysFit(r.segmentKeys, pub[src.stream], new)
      /\ stream \notin tn2 => src.stream \notin tn /\ src.metaKey.sealed = Head(r.metaKey).sealed
      /\ stream \in DOMAIN pub => stream = src.stream
  BY <1>1, <1>2, <1>3, <1>4, <1>5, <1>7
<1>9. Grows(C, s.committed) BY <1>7 DEF Drop, Grows
<1> QED BY <1>2, <1>3, <1>8, <1>9, RelocatedProject

\* An upload that was begun for a plaintext path, remembered.
LEMMA BegunUploads ==
    ASSUME NEW s, SatelliteOK(s), NEW ups, UploadsOK(s, ups), NEW t, Serves(s, t, {}),
           NEW b, NEW k \in Path, Begun(s, t, b, encrypt_path(k))
    PROVE  LET ups2 == Put(ups, s.nextId + 1, <<b, k>>)
           IN  UploadsOK(t, ups2) /\ Grows(ups, ups2)
PROOF
<1>1. PICK id \in Nat : id = s.nextId + 1 BY DEF SatelliteOK
<1>2. PICK ups2 : ups2 = Put(ups, id, <<b, k>>) OBVIOUS
<1>3. /\ IsMap(ups2) /\ DOMAIN ups2 = DOMAIN ups \cup {id}
      /\ ups2[id] = <<b, k>> /\ \A x \in DOMAIN ups : x # id => ups2[x] = ups[x]
  BY <1>2 DEF Put, IsMap
<1>4. UploadsOK(t, ups) BY ServesUploadsOK
<1>5. id \notin DOMAIN ups BY <1>1 DEF UploadsOK, SatelliteOK
<1>6. id \in 1..t.nextId BY <1>1 DEF Begun, SatelliteOK
<1>7. t.pending[id].bucket = b /\ t.pending[id].key = encrypt_path(k)
  <2>1. PICK p : p.bucket = b /\ p.key = encrypt_path(k) /\ t.pending = Put(s.pending, id, p)
    BY <1>1 DEF Begun
  <2> QED BY <2>1 DEF Put
<1>8. UploadsOK(t, ups2) BY <1>3, <1>4, <1>5, <1>6, <1>7 DEF UploadsOK
<1>9. Grows(ups, ups2) BY <1>3, <1>5 DEF Grows
<1> QED BY <1>1, <1>2, <1>8, <1>9

\* What a client remembers survives what is served to any client.
LEMMA ClientKept ==
    ASSUME NEW k, NEW s, NEW ups, NEW pub, ClientOK(k, s, ups, pub), SatelliteOK(s),
           NEW t, NEW W, Serves(s, t, W), NEW ups2, Grows(ups, ups2), NEW pub2, Grows(pub, pub2)
    PROVE  ClientOK(k, t, ups2, pub2)
PROOF
<1>1. \A n \in 1..s.nextId : n \in 1..t.nextId /\ ~(n > s.nextId) BY DEF SatelliteOK, Serves
<1>2. k.step \in PartSteps \cup {"commit_upload"} =>
          /\ k.op.id \in DOMAIN ups2
          /\ k.op.bucket = ups2[k.op.id][1] /\ k.op.key = ups2[k.op.id][2]
  BY DEF ClientOK, Grows
<1>3. k.step \in FlightSteps =>
          /\ k.mem.segment \in 1..t.nextId
          /\ k.mem.segment \in DOMAIN t.segmentToStream =>
                t.segmentToStream[k.mem.segment] = k.op.id
  BY <1>1 DEF ClientOK, Serves, SegmentIdsEvolve
<1>4. k.step = "finish_relocate" => RelocationOK(k.op, k.mem, pub2)
  BY DEF ClientOK, RelocationOK, Grows
<1>5. k.step = "write_metadata" =>
          k.mem.stream \in DOMAIN pub2 /\ k.mem.checksum = pub2[k.mem.stream].checksum
  BY DEF ClientOK, Grows
<1>6. k.step = "download_segment" => ReadingOK(k.mem, pub2)
  <2>1. SUFFICES ASSUME ReadingOK(k.mem, pub) PROVE ReadingOK(k.mem, pub2) BY DEF ClientOK
  <2>2. k.mem.stream \in DOMAIN pub2 /\ pub2[k.mem.stream] = pub[k.mem.stream] BY <2>1 DEF ReadingOK, Grows
  <2> QED BY <2>1, <2>2 DEF ReadingOK
<1> QED BY <1>2, <1>3, <1>4, <1>5, <1>6 DEF ClientOK

\* What a download returned stays right: editions are never rewritten.
LEMMA ResultKept ==
    ASSUME NEW v, NEW pub, ResultOK(v, pub), NEW pub2, Grows(pub, pub2)
    PROVE  ResultOK(v, pub2)
PROOF
  BY DEF ResultOK, Grows

-----------------------------------------------------------------------------
(* A step of a client: what is common to its actions. *)

\* An idle client remembers nothing.
LEMMA IdleOK ==
    ASSUME NEW k, HasFields(k, ClientFields), k.step = "idle", NEW s, NEW ups, NEW pub
    PROVE  ClientOK(k, s, ups, pub)
PROOF
  BY DEF ClientOK, PartSteps, FlightSteps

\* A step of client c that leaves it at k and its last result at v.
Outcome(c, k, v) ==
    /\ cl' = [cl EXCEPT ![c] = k] /\ ret' = [ret EXCEPT ![c] = v] /\ scene' = scene

\* A client's step keeps Inv when it keeps the project and that client right.
LEMMA InvStep ==
    ASSUME Inv, NEW c \in Clients, NEW W, Serves(sat, sat', W),
           Grows(uploads, uploads'), Grows(published, published'),
           ProjectOK(sat', uploads', published', torn'),
           NEW k, NEW v, Outcome(c, k, v),
           ClientOK(k, sat', uploads', published'), ResultOK(v, published')
    PROVE  Inv'
PROOF
<1>1. PICK s, t, ups, ups2, pub, pub2 :
          /\ s = sat /\ t = sat' /\ ups = uploads /\ ups2 = uploads'
          /\ pub = published /\ pub2 = published'
  OBVIOUS
<1>2. SatelliteOK(s) BY <1>1 DEF Inv, ProjectOK
<1>3. Serves(s, t, W) /\ Grows(ups, ups2) /\ Grows(pub, pub2) BY <1>1
<1>4. ASSUME NEW d \in Clients
      PROVE  ClientOK(cl'[d], t, ups2, pub2) /\ ResultOK(ret'[d], pub2)
  <2>1. CASE d = c BY <2>1, <1>1 DEF Inv, Outcome
  <2>2. CASE d # c
    <3>1. cl'[d] = cl[d] /\ ret'[d] = ret[d] BY <2>2 DEF Inv, Outcome
    <3>2. PICK x, y : x = cl[d] /\ y = ret[d] OBVIOUS
    <3>3. ClientOK(x, s, ups, pub) /\ ResultOK(y, pub) BY <1>1, <3>2 DEF Inv
    <3>4. ClientOK(x, t, ups2, pub2) BY ONLY <3>3, <1>2, <1>3, ClientKept
    <3>5. ResultOK(y, pub2) BY ONLY <3>3, <1>3, ResultKept
    <3> QED BY <3>1, <3>2, <3>4, <3>5
  <2> QED BY <2>1, <2>2
<1>5. (cl = [d \in Clients |-> cl[d]] /\ ret = [d \in Clients |-> ret[d]])'
  BY DEF Inv, Outcome
<1>6. scene' \in DOMAIN Scenarios BY DEF Inv, Outcome
<1> QED BY <1>1, <1>4, <1>5, <1>6 DEF Inv

\* The history, but for the two RPCs that extend it.
LEMMA PlainHistory ==
    ASSUME NEW c \in Clients, History(c), cl[c].step \notin {"begin_upload", "finish_relocate"}
    PROVE  uploads' = uploads /\ torn' = torn /\ published' = Over(published, Editions(sat'))
PROOF
  BY DEF History

\* The same for a calm step, which keeps the project right by itself.
LEMMA CalmStep ==
    ASSUME Inv, NEW c \in Clients, NEW W, Calm(sat, sat', W), History(c),
           cl[c].step \notin {"begin_upload", "finish_relocate"},
           \A id \in DOMAIN sat.pending : \A seg : <<id, seg>> \in W => Opens(seg.key, PlaceOf(sat, id)),
           NEW k, NEW v, Outcome(c, k, v),
           ClientOK(k, sat', uploads, published'), ResultOK(v, published')
    PROVE  Inv'
PROOF
<1>1. uploads' = uploads /\ torn' = torn /\ published' = Over(published, Editions(sat'))
  BY PlainHistory
<1>2. PICK s, t, ups, pub, tn : s = sat /\ t = sat' /\ ups = uploads /\ pub = published /\ tn = torn
  OBVIOUS
<1>3. /\ ProjectOK(s, ups, pub, tn) /\ Calm(s, t, W)
      /\ \A id \in DOMAIN s.pending : \A seg : <<id, seg>> \in W => Opens(seg.key, PlaceOf(s, id))
  BY <1>2 DEF Inv
<1>4. ProjectOK(t, ups, Over(pub, Editions(t)), tn) /\ Grows(pub, Over(pub, Editions(t)))
  BY ONLY <1>3, CalmProject
<1>5. /\ ProjectOK(sat', uploads', published', torn') /\ Grows(published, published')
      /\ Serves(sat, sat', W)
  BY <1>1, <1>2, <1>4 DEF Calm
<1>6. Grows(uploads, uploads') BY <1>1 DEF Grows
<1>7. ClientOK(k, sat', uploads', published') BY <1>1
<1> QED BY <1>5, <1>6, <1>7, InvStep

\* The steps between the RPCs of calls that keep nothing the invariant is about.
PlainSteps == {"existing_bucket", "stat_bucket", "list_buckets", "list_objects", "list_uploads_by_key"}

PlainOutcome(c) ==
    \E k, v : /\ Outcome(c, k, v) /\ HasFields(k, ClientFields)
              /\ k.step = "idle" \/ (k.step \in PlainSteps /\ k.op = cl[c].op)
              /\ v = ret[c] \/ v.call = cl[c].op.call

\* Between two pages of a listing nothing has to be remembered right.
LEMMA PlainClient ==
    ASSUME NEW k, HasFields(k, ClientFields), k.step \in PlainSteps, k.op.call # "download_object",
           NEW s, NEW ups, NEW pub
    PROVE  ClientOK(k, s, ups, pub)
PROOF
  BY DEF ClientOK, PartSteps, FlightSteps, PlainSteps

\* A call with nothing to remember keeps Inv when it keeps the project.
LEMMA PlainFinish ==
    ASSUME Inv, NEW c \in Clients, NEW W, Serves(sat, sat', W),
           Grows(uploads, uploads'), Grows(published, published'),
           ProjectOK(sat', uploads', published', torn'), PlainOutcome(c),
           cl[c].step \notin {"idle", "download_object", "download_segment"}
    PROVE  Inv'
PROOF
<1>1. cl[c].op.call # "download_object" BY DEF Inv, ClientOK
<1>2. PICK k, v : /\ Outcome(c, k, v) /\ HasFields(k, ClientFields)
                  /\ k.step = "idle" \/ (k.step \in PlainSteps /\ k.op = cl[c].op)
                  /\ v = ret[c] \/ v.call = cl[c].op.call
  BY DEF PlainOutcome
<1>3. PICK t, ups2, pub, pub2 :
         t = sat' /\ ups2 = uploads' /\ pub = published /\ pub2 = published'
  OBVIOUS
<1>4. ClientOK(k, t, ups2, pub2) BY <1>1, <1>2, IdleOK, PlainClient
<1>5. ResultOK(v, pub2)
  <2>1. CASE v.call = cl[c].op.call BY <2>1, <1>1 DEF ResultOK
  <2>2. CASE v = ret[c]
    <3>1. ResultOK(v, pub) /\ Grows(pub, pub2) BY <2>2, <1>3 DEF Inv
    <3> QED BY ONLY <3>1, ResultKept
  <2> QED BY <1>2, <2>1, <2>2
<1>6. ClientOK(k, sat', uploads', published') /\ ResultOK(v, published') BY <1>3, <1>4, <1>5
<1> QED BY <1>2, <1>6, InvStep

\* The same for a calm step.
LEMMA PlainStep ==
    ASSUME Inv, NEW c \in Clients, Calm(sat, sat', {}), History(c), PlainOutcome(c),
           cl[c].step \notin {"idle", "download_object", "download_segment",
                              "begin_upload", "finish_relocate"}
    PROVE  Inv'
PROOF
<1>1. PICK s, t, ups, pub, tn, W :
         s = sat /\ t = sat' /\ ups = uploads /\ pub = published /\ tn = torn /\ W = {}
  OBVIOUS
<1>2. /\ ProjectOK(s, ups, pub, tn) /\ Calm(s, t, W) /\ Serves(s, t, W)
      /\ \A id \in DOMAIN s.pending : \A seg : <<id, seg>> \in W => Opens(seg.key, PlaceOf(s, id))
  BY <1>1 DEF Inv, Calm
<1>3. ProjectOK(t, ups, Over(pub, Editions(t)), tn) /\ Grows(pub, Over(pub, Editions(t)))
  BY ONLY <1>2, CalmProject
<1>4. uploads' = uploads /\ torn' = torn /\ published' = Over(published, Editions(sat'))
  BY PlainHistory
<1>5. ProjectOK(sat', uploads', published', torn') /\ Grows(published, published')
  BY <1>1, <1>3, <1>4
<1>6. Grows(uploads, uploads') /\ Serves(sat, sat', W) BY <1>1, <1>2, <1>4 DEF Grows
<1> QED BY <1>5, <1>6, PlainFinish

PlainNext(c, next) ==
    /\ HasFields(next.at, ClientFields)
    /\ next.at.step = "idle" \/ (next.at.step \in PlainSteps /\ next.at.op = cl[c].op)
    /\ next.ret = ret[c] \/ next.ret.call = cl[c].op.call

\* Returning, failing and asking for the next page are plain.
LEMMA PlainNexts ==
    ASSUME Inv, NEW c \in Clients
    PROVE  /\ \A value : PlainNext(c, Return(c, value))
           /\ \A code : PlainNext(c, Fail(c, code))
           /\ PlainNext(c, Undecryptable(c))
           /\ \A step \in PlainSteps : \A mem : PlainNext(c, Continue(c, step, mem))
PROOF
<1>1. HasFields(cl[c], ClientFields) BY DEF Inv, ClientOK
<1>2. /\ HasFields(Idle(c), ClientFields) /\ Idle(c).step = "idle"
  BY <1>1 DEF HasFields, ClientFields, Idle
<1>3. ASSUME NEW step \in PlainSteps, NEW mem
      PROVE  /\ HasFields(At(c, step, mem), ClientFields)
             /\ At(c, step, mem).step = step /\ At(c, step, mem).op = cl[c].op
  BY <1>1 DEF HasFields, ClientFields, At
<1> QED BY <1>2, <1>3 DEF PlainNext, Return, Fail, Undecryptable, Continue

\* How a call goes on or ends after an RPC that keeps nothing.
PlainEnd(c) ==
    \E next : /\ Outcome(c, next.at, next.ret)
              /\ \/ \E x : next = Return(c, x)
                 \/ \E x : next = Fail(c, x)
                 \/ next = Undecryptable(c)
                 \/ \E x \in PlainSteps : \E y : next = Continue(c, x, y)

\* The satellite after an RPC it served with answer r, or that was lost.
Served(r) == sat' = sat \/ sat' = r.s

\* However an RPC ends, answered, refused or lost, its outcome is plain.
LEMMA PlainEndOutcome ==
    ASSUME Inv, NEW c \in Clients, PlainEnd(c)
    PROVE  PlainOutcome(c)
PROOF
<1>1. PICK next : /\ Outcome(c, next.at, next.ret)
                  /\ \/ \E x : next = Return(c, x)
                     \/ \E x : next = Fail(c, x)
                     \/ next = Undecryptable(c)
                     \/ \E x \in PlainSteps : \E y : next = Continue(c, x, y)
  BY DEF PlainEnd
<1>2. PlainNext(c, next) BY <1>1, PlainNexts
<1> QED BY <1>1, <1>2 DEF PlainNext, PlainOutcome

\* A calm request, served or lost, keeps Inv.
LEMMA ServedStep ==
    ASSUME Inv, NEW c \in Clients, NEW r, Calm(sat, r.s, {}), Served(r), History(c), PlainEnd(c),
           cl[c].step \notin {"idle", "download_object", "download_segment",
                              "begin_upload", "finish_relocate"}
    PROVE  Inv'
PROOF
<1>1. Calm(sat, sat, {})
  <2>1. PICK s : s = sat OBVIOUS
  <2>2. SatelliteOK(s) BY <2>1 DEF Inv, ProjectOK
  <2>3. Still(s, s) BY ONLY <2>2, ServesStutter
  <2> QED BY <2>1, <2>3 DEF Still
<1>2. Calm(sat, sat', {}) BY <1>1 DEF Served
<1>3. PlainOutcome(c) BY PlainEndOutcome
<1> QED BY <1>2, <1>3, PlainStep

-----------------------------------------------------------------------------
(* The actions. *)

\* Every action of a client keeps Inv, first those that are calm and plain.
LEMMA CreateBucketStep == ASSUME Inv, NEW c \in Clients, CreateBucket(c) PROVE Inv'
PROOF
<1>1. PICK s, a1, a2, a3 : s = sat /\ a1 = Key(c) /\ a2 = Op(c).bucket /\ a3 = Op(c).lock
  OBVIOUS
<1>2. SatelliteOK(s) BY <1>1 DEF Inv, ProjectOK
<1>3. Still(s, create_bucket(s, a1, a2, a3).s)
  BY ONLY <1>2, CreateBucketServes
<1>4. PICK r : r = create_bucket(sat, Key(c), Op(c).bucket, Op(c).lock) OBVIOUS
<1>5. Calm(sat, r.s, {}) BY <1>1, <1>3, <1>4 DEF Still
<1>6. Served(r) /\ History(c) /\ cl[c].step \notin {"idle", "download_object", "download_segment",
                                                     "begin_upload", "finish_relocate"}
  BY <1>4 DEF CreateBucket, Running, Rpc, Unary, Served
<1>7. PlainEnd(c) BY DEF CreateBucket, Rpc, Unary, Outcome, PlainEnd, PlainSteps
<1> QED BY <1>5, <1>6, <1>7, ServedStep

LEMMA ExistingBucketStep == ASSUME Inv, NEW c \in Clients, ExistingBucket(c) PROVE Inv'
PROOF
<1>1. PICK s, a1, a2 : s = sat /\ a1 = Key(c) /\ a2 = Op(c).bucket
  OBVIOUS
<1>2. SatelliteOK(s) BY <1>1 DEF Inv, ProjectOK
<1>3. Still(s, get_bucket(s, a1, a2).s)
  <2>1. get_bucket(s, a1, a2).s = s BY DEF get_bucket, Refuse, Reply
  <2> QED BY ONLY <1>2, <2>1, ServesStutter
<1>4. PICK r : r = get_bucket(sat, Key(c), Op(c).bucket) OBVIOUS
<1>5. Calm(sat, r.s, {}) BY <1>1, <1>3, <1>4 DEF Still
<1>6. Served(r) /\ History(c) /\ cl[c].step \notin {"idle", "download_object", "download_segment",
                                                     "begin_upload", "finish_relocate"}
  BY <1>4 DEF ExistingBucket, Running, Rpc, Unary, Served
<1>7. PlainEnd(c) BY DEF ExistingBucket, Rpc, Unary, Outcome, PlainEnd, PlainSteps
<1> QED BY <1>5, <1>6, <1>7, ServedStep

LEMMA StatBucketStep == ASSUME Inv, NEW c \in Clients, StatBucket(c) PROVE Inv'
PROOF
<1>1. PICK s, a1, a2 : s = sat /\ a1 = Key(c) /\ a2 = Op(c).bucket
  OBVIOUS
<1>2. SatelliteOK(s) BY <1>1 DEF Inv, ProjectOK
<1>3. Still(s, get_bucket(s, a1, a2).s)
  <2>1. get_bucket(s, a1, a2).s = s BY DEF get_bucket, Refuse, Reply
  <2> QED BY ONLY <1>2, <2>1, ServesStutter
<1>4. PICK r : r = get_bucket(sat, Key(c), Op(c).bucket) OBVIOUS
<1>5. Calm(sat, r.s, {}) BY <1>1, <1>3, <1>4 DEF Still
<1>6. Served(r) /\ History(c) /\ cl[c].step \notin {"idle", "download_object", "download_segment",
                                                     "begin_upload", "finish_relocate"}
  BY <1>4 DEF StatBucket, Running, Rpc, Unary, Served
<1>7. PlainEnd(c) BY DEF StatBucket, Rpc, Unary, Outcome, PlainEnd, PlainSteps
<1> QED BY <1>5, <1>6, <1>7, ServedStep

LEMMA DeleteBucketStep == ASSUME Inv, NEW c \in Clients, DeleteBucket(c) PROVE Inv'
PROOF
<1>1. PICK s, a1, a2, a3 : s = sat /\ a1 = Key(c) /\ a2 = Op(c).bucket /\ a3 = Op(c).all
  OBVIOUS
<1>2. SatelliteOK(s) BY <1>1 DEF Inv, ProjectOK
<1>3. Still(s, delete_bucket(s, a1, a2, a3).s)
  BY ONLY <1>2, DeleteBucketServes
<1>4. PICK r : r = delete_bucket(sat, Key(c), Op(c).bucket, Op(c).all) OBVIOUS
<1>5. Calm(sat, r.s, {}) BY <1>1, <1>3, <1>4 DEF Still
<1>6. Served(r) /\ History(c) /\ cl[c].step \notin {"idle", "download_object", "download_segment",
                                                     "begin_upload", "finish_relocate"}
  BY <1>4 DEF DeleteBucket, Running, Rpc, Unary, Served
<1>7. PlainEnd(c) BY DEF DeleteBucket, Rpc, Unary, Outcome, PlainEnd, PlainSteps
<1> QED BY <1>5, <1>6, <1>7, ServedStep

LEMMA ListBucketsStep == ASSUME Inv, NEW c \in Clients, ListBuckets(c) PROVE Inv'
PROOF
<1>1. PICK s, a1, a2 : s = sat /\ a1 = Key(c) /\ a2 = Mem(c).cursor
  OBVIOUS
<1>2. SatelliteOK(s) BY <1>1 DEF Inv, ProjectOK
<1>3. Still(s, list_buckets(s, a1, a2).s)
  <2>1. list_buckets(s, a1, a2).s = s BY DEF list_buckets, Refuse, Reply
  <2> QED BY ONLY <1>2, <2>1, ServesStutter
<1>4. PICK r : r = list_buckets(sat, Key(c), Mem(c).cursor) OBVIOUS
<1>5. Calm(sat, r.s, {}) BY <1>1, <1>3, <1>4 DEF Still
<1>6. Served(r) /\ History(c) /\ cl[c].step \notin {"idle", "download_object", "download_segment",
                                                     "begin_upload", "finish_relocate"}
  BY <1>4 DEF ListBuckets, Running, Rpc, Unary, Served
<1>7. PlainEnd(c) BY ZenonT(60) DEF ListBuckets, Rpc, Unary, Outcome, PlainEnd, PlainSteps
<1> QED BY <1>5, <1>6, <1>7, ServedStep

LEMMA StatObjectStep == ASSUME Inv, NEW c \in Clients, StatObject(c) PROVE Inv'
PROOF
<1>1. PICK s, a1, a2, a3 : s = sat /\ a1 = Key(c) /\ a2 = Op(c).bucket /\ a3 = EncKey(c)
  OBVIOUS
<1>2. SatelliteOK(s) BY <1>1 DEF Inv, ProjectOK
<1>3. Still(s, get_object(s, a1, a2, a3).s)
  <2>1. get_object(s, a1, a2, a3).s = s BY DEF get_object, Refuse, Reply
  <2> QED BY ONLY <1>2, <2>1, ServesStutter
<1>4. PICK r : r = get_object(sat, Key(c), Op(c).bucket, EncKey(c)) OBVIOUS
<1>5. Calm(sat, r.s, {}) BY <1>1, <1>3, <1>4 DEF Still
<1>6. Served(r) /\ History(c) /\ cl[c].step \notin {"idle", "download_object", "download_segment",
                                                     "begin_upload", "finish_relocate"}
  BY <1>4 DEF StatObject, Running, Rpc, Unary, Served
<1>7. PlainEnd(c) BY DEF StatObject, Rpc, Unary, Outcome, PlainEnd, PlainSteps, Converted
<1> QED BY <1>5, <1>6, <1>7, ServedStep

LEMMA ListObjectsStep == ASSUME Inv, NEW c \in Clients, ListObjects(c) PROVE Inv'
PROOF
<1>1. PICK s, a1, a2 : s = sat /\ a1 = Key(c) /\ a2 = ListObjectsRequest(c)
  OBVIOUS
<1>2. SatelliteOK(s) BY <1>1 DEF Inv, ProjectOK
<1>3. Still(s, list_objects(s, a1, a2).s)
  <2>1. list_objects(s, a1, a2).s = s BY DEF list_objects, Refuse, Reply
  <2> QED BY ONLY <1>2, <2>1, ServesStutter
<1>4. PICK r : r = list_objects(sat, Key(c), ListObjectsRequest(c)) OBVIOUS
<1>5. Calm(sat, r.s, {}) BY <1>1, <1>3, <1>4 DEF Still
<1>6. Served(r) /\ History(c) /\ cl[c].step \notin {"idle", "download_object", "download_segment",
                                                     "begin_upload", "finish_relocate"}
  BY <1>4 DEF ListObjects, Running, Rpc, Unary, Served
<1>7. PlainEnd(c) BY ZenonT(60) DEF ListObjects, Rpc, Unary, Outcome, PlainEnd, PlainSteps
<1> QED BY <1>5, <1>6, <1>7, ServedStep

LEMMA ListUploadsStep == ASSUME Inv, NEW c \in Clients, ListUploads(c) PROVE Inv'
PROOF
<1>1. PICK s, a1, a2 : s = sat /\ a1 = Key(c) /\ a2 = ListUploadsRequest(c)
  OBVIOUS
<1>2. SatelliteOK(s) BY <1>1 DEF Inv, ProjectOK
<1>3. Still(s, list_uploading_objects(s, a1, a2).s)
  <2>1. list_uploading_objects(s, a1, a2).s = s BY DEF list_uploading_objects, Refuse, Reply
  <2> QED BY ONLY <1>2, <2>1, ServesStutter
<1>4. PICK r : r = list_uploading_objects(sat, Key(c), ListUploadsRequest(c)) OBVIOUS
<1>5. Calm(sat, r.s, {}) BY <1>1, <1>3, <1>4 DEF Still
<1>6. Served(r) /\ History(c) /\ cl[c].step \notin {"idle", "download_object", "download_segment",
                                                     "begin_upload", "finish_relocate"}
  BY <1>4 DEF ListUploads, Running, Rpc, Unary, Served
<1>7. PlainEnd(c) BY DEF ListUploads, Rpc, Unary, Outcome, PlainEnd, PlainSteps
<1> QED BY <1>5, <1>6, <1>7, ServedStep

LEMMA ListUploadsByKeyStep == ASSUME Inv, NEW c \in Clients, ListUploadsByKey(c) PROVE Inv'
PROOF
<1>1. PICK s, a1, a2, a3, a4 : s = sat /\ a1 = Key(c) /\ a2 = Op(c).bucket /\ a3 = EncKey(c) /\ a4 = Mem(c).cursor
  OBVIOUS
<1>2. SatelliteOK(s) BY <1>1 DEF Inv, ProjectOK
<1>3. Still(s, list_pending_object_streams(s, a1, a2, a3, a4).s)
  <2>1. list_pending_object_streams(s, a1, a2, a3, a4).s = s BY DEF list_pending_object_streams, Refuse, Reply
  <2> QED BY ONLY <1>2, <2>1, ServesStutter
<1>4. PICK r : r = list_pending_object_streams(sat, Key(c), Op(c).bucket, EncKey(c), Mem(c).cursor) OBVIOUS
<1>5. Calm(sat, r.s, {}) BY <1>1, <1>3, <1>4 DEF Still
<1>6. Served(r) /\ History(c) /\ cl[c].step \notin {"idle", "download_object", "download_segment",
                                                     "begin_upload", "finish_relocate"}
  BY <1>4 DEF ListUploadsByKey, Running, Rpc, Unary, Served
<1>7. PlainEnd(c)
  <2>1. \/ \E x : Outcome(c, Return(c, x).at, Return(c, x).ret)
        \/ \E mem : Outcome(c, Continue(c, "list_uploads_by_key", mem).at,
                               Continue(c, "list_uploads_by_key", mem).ret)
        \/ \E e : Outcome(c, Fail(c, e).at, Fail(c, e).ret)
    BY DEF ListUploadsByKey, Rpc, Outcome
  <2> QED BY ONLY <2>1 DEF PlainEnd, PlainSteps
<1> QED BY <1>5, <1>6, <1>7, ServedStep

LEMMA ListUploadPartsStep == ASSUME Inv, NEW c \in Clients, ListUploadParts(c) PROVE Inv'
PROOF
<1>1. PICK s, a1, a2 : s = sat /\ a1 = Key(c) /\ a2 = Op(c).id
  OBVIOUS
<1>2. SatelliteOK(s) BY <1>1 DEF Inv, ProjectOK
<1>3. Still(s, list_segments(s, a1, a2).s)
  <2>1. list_segments(s, a1, a2).s = s BY DEF list_segments, Refuse, Reply
  <2> QED BY ONLY <1>2, <2>1, ServesStutter
<1>4. PICK r : r = list_segments(sat, Key(c), Op(c).id) OBVIOUS
<1>5. Calm(sat, r.s, {}) BY <1>1, <1>3, <1>4 DEF Still
<1>6. Served(r) /\ History(c) /\ cl[c].step \notin {"idle", "download_object", "download_segment",
                                                     "begin_upload", "finish_relocate"}
  BY <1>4 DEF ListUploadParts, Running, Rpc, Unary, Served
<1>7. PlainEnd(c) BY DEF ListUploadParts, Rpc, Unary, Outcome, PlainEnd, PlainSteps
<1> QED BY <1>5, <1>6, <1>7, ServedStep

LEMMA ObjectLockStep == ASSUME Inv, NEW c \in Clients, ObjectLock(c) PROVE Inv'
PROOF
<1>1. PICK s, a, b, k, n, w : /\ s = sat /\ a = Key(c) /\ b = Op(c).bucket /\ k = EncKey(c)
                              /\ n = Op(c).version /\ w = Op(c).what
  OBVIOUS
<1>2. PICK v : v = Op(c).value OBVIOUS
<1>3. SatelliteOK(s) BY <1>1 DEF Inv, ProjectOK
<1>4. Still(s, get_lock(s, a, b, k, n, w).s) /\ Still(s, set_lock(s, a, b, k, n, v).s)
  <2>1. get_lock(s, a, b, k, n, w).s = s BY DEF get_lock, Refuse, Reply
  <2>2. Still(s, s) BY ONLY <1>3, ServesStutter
  <2>3. Still(s, set_lock(s, a, b, k, n, v).s) BY ONLY <1>3, SetLockServes
  <2> QED BY <2>1, <2>2, <2>3
<1>5. PICK g, h : /\ g = get_lock(sat, Key(c), Op(c).bucket, EncKey(c), Op(c).version, Op(c).what)
                  /\ h = set_lock(sat, Key(c), Op(c).bucket, EncKey(c), Op(c).version, Op(c).value)
  OBVIOUS
<1>6. Calm(sat, g.s, {}) /\ Calm(sat, h.s, {}) BY <1>1, <1>2, <1>4, <1>5 DEF Still
<1>7. (Served(g) \/ Served(h)) /\ History(c)
      /\ cl[c].step \notin {"idle", "download_object", "download_segment",
                            "begin_upload", "finish_relocate"}
  BY <1>5 DEF ObjectLock, Running, Rpc, Unary, Served
<1>8. PlainEnd(c) BY DEF ObjectLock, Rpc, Unary, Outcome, PlainEnd, PlainSteps
<1> QED BY <1>6, <1>7, <1>8, ServedStep

LEMMA BucketLockStep == ASSUME Inv, NEW c \in Clients, BucketLock(c) PROVE Inv'
PROOF
<1>1. PICK s, a, b, v : s = sat /\ a = Key(c) /\ b = Op(c).bucket /\ v = Op(c).config
  OBVIOUS
<1>2. SatelliteOK(s) BY <1>1 DEF Inv, ProjectOK
<1>3. Still(s, get_lock_config(s, a, b).s) /\ Still(s, set_lock_config(s, a, b, v).s)
  <2>1. get_lock_config(s, a, b).s = s BY DEF get_lock_config, Refuse, Reply
  <2>2. Still(s, s) BY ONLY <1>2, ServesStutter
  <2>3. Still(s, set_lock_config(s, a, b, v).s) BY ONLY <1>2, SetLockConfigServes
  <2> QED BY <2>1, <2>2, <2>3
<1>4. PICK g, h : /\ g = get_lock_config(sat, Key(c), Op(c).bucket)
                  /\ h = set_lock_config(sat, Key(c), Op(c).bucket, Op(c).config)
  OBVIOUS
<1>5. Calm(sat, g.s, {}) /\ Calm(sat, h.s, {}) BY <1>1, <1>3, <1>4 DEF Still
<1>6. (Served(g) \/ Served(h)) /\ History(c)
      /\ cl[c].step \notin {"idle", "download_object", "download_segment",
                            "begin_upload", "finish_relocate"}
  BY <1>4 DEF BucketLock, Running, Rpc, Unary, Served
<1>7. PlainEnd(c) BY DEF BucketLock, Rpc, Unary, Outcome, PlainEnd, PlainSteps
<1> QED BY <1>5, <1>6, <1>7, ServedStep

\* A step of a client that sends nothing.
LEMMA LocalStep ==
    ASSUME Inv, NEW c \in Clients, UNCHANGED <<sat, uploads, published, torn>>,
           NEW k, NEW v, Outcome(c, k, v),
           ClientOK(k, sat, uploads, published), ResultOK(v, published)
    PROVE  Inv'
PROOF
<1>1. PICK W : W = {} OBVIOUS
<1>2. Serves(sat, sat', W)
  <2>1. PICK s : s = sat OBVIOUS
  <2>2. SatelliteOK(s) BY <2>1 DEF Inv, ProjectOK
  <2>3. Still(s, s) BY ONLY <2>2, ServesStutter
  <2> QED BY <2>1, <2>3, <1>1 DEF Still, Calm
<1>3. Grows(uploads, uploads') /\ Grows(published, published') BY DEF Grows
<1>4. ProjectOK(sat', uploads', published', torn') BY DEF Inv
<1> QED BY <1>2, <1>3, <1>4, InvStep

\* revoke_access changes only the set of revoked keys.
LEMMA RevokeAccessStep == ASSUME Inv, NEW c \in Clients, RevokeAccess(c) PROVE Inv'
PROOF
<1>0. cl[c].step \notin {"idle", "download_object", "download_segment",
                         "begin_upload", "finish_relocate"}
  BY DEF RevokeAccess, Running
<1>1. CASE Op(c).target = Key(c)
  <2>1. PICK k, v : k = Idle(c) /\ v = Fail(c, "PermissionDenied").ret OBVIOUS
  <2>2. Outcome(c, k, v) /\ UNCHANGED <<sat, uploads, published, torn>>
    BY <1>1, <2>1 DEF RevokeAccess, Outcome
  <2>3. HasFields(cl[c], ClientFields) /\ cl[c].op.call # "download_object" BY <1>0 DEF Inv, ClientOK
  <2>4. HasFields(k, ClientFields) /\ k.step = "idle"
    BY <2>1, <2>3 DEF HasFields, ClientFields, Idle
  <2>5. ClientOK(k, sat, uploads, published) BY <2>4, IdleOK
  <2>6. v.call = cl[c].op.call BY <2>1 DEF Fail
  <2>7. ResultOK(v, published) BY <2>3, <2>6 DEF ResultOK
  <2> QED BY <2>2, <2>5, <2>7, LocalStep
<1>2. CASE Op(c).target # Key(c)
  <2>1. PICK s, a, b : s = sat /\ a = Key(c) /\ b = Op(c).target OBVIOUS
  <2>2. SatelliteOK(s) BY <2>1 DEF Inv, ProjectOK
  <2>3. Still(s, revoke_api_key(s, a, b).s) BY ONLY <2>2, RevokeServes
  <2>4. PICK r : r = revoke_api_key(sat, Key(c), Op(c).target) OBVIOUS
  <2>5. Calm(sat, r.s, {}) BY <2>1, <2>3, <2>4 DEF Still
  <2>6. Served(r) /\ History(c) BY <1>2, <2>4 DEF RevokeAccess, Rpc, Unary, Served
  <2>7. PlainEnd(c) BY <1>2 DEF RevokeAccess, Rpc, Unary, Outcome, PlainEnd, PlainSteps
  <2> QED BY <1>0, <2>5, <2>6, <2>7, ServedStep
<1> QED BY <1>1, <1>2

\* Time passing keeps Inv.
LEMMA TickStep == ASSUME Inv, Tick PROVE Inv'
PROOF
<1>1. PICK s, t, ups, pub, tn : s = sat /\ t = sat' /\ ups = uploads /\ pub = published /\ tn = torn
  OBVIOUS
<1>2. ProjectOK(s, ups, pub, tn) /\ SatelliteOK(s) BY <1>1 DEF Inv, ProjectOK
<1>3. t = [s EXCEPT !.now = @ + 1] BY <1>1 DEF Tick
<1>4. Still(s, t) BY <1>2, <1>3, TickServes
<1>5. UNCHANGED <<cl, scene, ret, uploads, published, torn>> BY DEF Tick
<1>6. ProjectOK(t, ups, pub, tn)
  <2>1. SatelliteOK(t) /\ t.committed = s.committed /\ DOMAIN t.pending = DOMAIN s.pending
    BY <1>4 DEF Still, Quiet, Calm, Serves
  <2>2. t.nextId = s.nextId BY <1>2, <1>3 DEF SatelliteOK, HasFields, SatelliteFields
  <2>3. t.pending = s.pending BY <1>2, <1>3 DEF SatelliteOK, HasFields, SatelliteFields
  <2> QED BY <1>2, <2>1, <2>2, <2>3 DEF ProjectOK, UploadsOK, KeysOpen, MetadataOpen, EditionsOK
<1>7. Serves(s, t, {}) BY <1>4 DEF Still, Calm
<1>8. Grows(ups, ups) /\ Grows(pub, pub) BY DEF Grows
<1>9. ASSUME NEW c \in Clients PROVE ClientOK(cl[c], t, ups, pub) /\ ResultOK(ret[c], pub)
  <2>1. PICK x, y : x = cl[c] /\ y = ret[c] OBVIOUS
  <2>2. ClientOK(x, s, ups, pub) /\ ResultOK(y, pub) BY <1>1, <2>1 DEF Inv
  <2>3. PICK W : W = {} OBVIOUS
  <2>4. Serves(s, t, W) BY <1>7, <2>3
  <2>5. ClientOK(x, t, ups, pub) BY ONLY <2>2, <2>4, <1>2, <1>8, ClientKept
  <2> QED BY <2>1, <2>2, <2>5
<1> QED BY <1>1, <1>5, <1>6, <1>9 DEF Inv

\* The arguments of a call, and the upload it names.
StartOK(op, ups) ==
    /\ op.call \in CallNames
    /\ op.call \in {"copy_object", "move_object"} => op.newKey \in Path
    /\ op.call \in {"begin_upload", "update_object_metadata"} => op.key \in Path
    /\ op.call = "upload_part" => op.part \in Nat
    /\ op.call = "commit_upload" => ChecksumOK(op.checksum)
    /\ op.call \in {"upload_part", "commit_upload"} =>
          /\ op.id \in DOMAIN ups
          /\ op.bucket = ups[op.id][1] /\ op.key = ups[op.id][2]

\* A call starts with nothing read yet.
LEMMA StartClient ==
    ASSUME NEW k, HasFields(k, ClientFields), NEW op, NEW ups, StartOK(op, ups), NEW s, NEW pub,
           k.op = op, k.step = FirstStep(op.call), k.mem = FirstMem(op)
    PROVE  ClientOK(k, s, ups, pub)
PROOF
<1>1. \/ op.call = "upload_part" /\ k.step = "segment" /\ k.mem.index = 0
      \/ op.call \in {"copy_object", "move_object"} /\ k.step = "begin_relocate"
      \/ /\ op.call \in CallNames \ {"upload_part", "copy_object", "move_object"}
         /\ k.step = op.call
  BY DEF StartOK, FirstStep, FirstMem, CallNames
<1>2. CASE op.call = "upload_part" /\ k.step = "segment" /\ k.mem.index = 0
  BY <1>2 DEF StartOK, ClientOK, PartSteps, FlightSteps
<1>3. CASE op.call \in {"copy_object", "move_object"} /\ k.step = "begin_relocate"
  BY <1>3 DEF StartOK, ClientOK, PartSteps, FlightSteps
<1>4. CASE /\ op.call \in CallNames \ {"upload_part", "copy_object", "move_object"}
           /\ k.step = op.call
  <2>1. k.step \notin PartSteps \cup {"finish_relocate", "begin_relocate", "write_metadata", "download_segment"}
    BY <1>4 DEF CallNames, PartSteps, FlightSteps
  <2>2. k.step \notin FlightSteps BY <2>1 DEF PartSteps
  <2> QED BY <1>4, <2>1, <2>2 DEF StartOK, ClientOK
<1> QED BY <1>1, <1>2, <1>3, <1>4

\* Starting a call the program can make keeps Inv.
LEMMA StartStep ==
    ASSUME Inv, NEW c \in Clients, NEW op, StartOK(op, uploads), Start(c, op)
    PROVE  Inv'
PROOF
<1>1. HasFields(cl[c], ClientFields) /\ cl[c].step = "idle" BY DEF Inv, ClientOK, Start
<1>2. UNCHANGED <<sat, uploads, published, torn>> /\ scene' = scene BY DEF Start
<1>3. CASE LocalError(op) # "ok"
  <2>1. PICK k, v : /\ k = [cl[c] EXCEPT !.calls = @ + 1]
                    /\ v = [call |-> op.call, err |-> LocalError(op), value |-> None]
    OBVIOUS
  <2>2. HasFields(k, ClientFields) /\ k.step = "idle" BY <1>1, <2>1 DEF HasFields, ClientFields
  <2>3. Outcome(c, k, v) BY <1>2, <1>3, <2>1 DEF Start, Outcome
  <2>4. ClientOK(k, sat, uploads, published) BY <2>2, IdleOK
  <2>5. ResultOK(v, published) BY <1>3, <2>1 DEF ResultOK
  <2> QED BY <1>2, <2>3, <2>4, <2>5, LocalStep
<1>4. CASE LocalError(op) = "ok"
  <2>1. PICK k, v : /\ k = [cl[c] EXCEPT !.op = op, !.step = FirstStep(op.call),
                                        !.mem = FirstMem(op), !.calls = @ + 1]
                    /\ v = NoResult
    OBVIOUS
  <2>2. /\ HasFields(k, ClientFields) /\ k.op = op /\ k.step = FirstStep(op.call)
        /\ k.mem = FirstMem(op)
    BY <1>1, <2>1 DEF HasFields, ClientFields
  <2>3. Outcome(c, k, v)
    <3>1. cl' = [cl EXCEPT ![c] = [cl[c] EXCEPT !.op = op, !.step = FirstStep(op.call),
                                        !.mem = FirstMem(op), !.calls = @ + 1]]
      BY <1>4 DEF Start
    <3>2. ret' = [ret EXCEPT ![c] = NoResult] BY <1>4 DEF Start
    <3> QED BY <1>2, <2>1, <3>1, <3>2 DEF Outcome
  <2>4. ClientOK(k, sat, uploads, published) BY <2>2, StartClient
  <2>5. ResultOK(v, published) BY <2>1 DEF ResultOK, NoResult
  <2> QED BY <1>2, <2>3, <2>4, <2>5, LocalStep
<1> QED BY <1>3, <1>4

\* A call on an upload is made with the id and place of one begun before.
LEMMA UploadCall ==
    ASSUME NEW op, CallOK(op), NEW id \in DOMAIN uploads,
           op.call \in {"upload_part", "commit_upload", "abort_upload", "list_upload_parts"}
    PROVE  StartOK(WithUpload(op, id), uploads)
PROOF
<1>1. PICK f : f = [id |-> id, bucket |-> uploads[id][1], key |-> uploads[id][2]] OBVIOUS
<1>2. PICK w : w = Over(f, op) OBVIOUS
<1>3. /\ DOMAIN f = {"id", "bucket", "key"} /\ f.id = id
      /\ f.bucket = uploads[id][1] /\ f.key = uploads[id][2]
  BY <1>1
<1>4. w = WithUpload(op, id) BY <1>1, <1>2 DEF WithUpload
<1>5. w.id = id /\ w.bucket = uploads[id][1] /\ w.key = uploads[id][2] BY <1>2, <1>3 DEF Over
<1>6. /\ "call" \in DOMAIN op => w.call = op.call
      /\ "part" \in DOMAIN op => w.part = op.part
      /\ "checksum" \in DOMAIN op => w.checksum = op.checksum
  BY <1>2, <1>3 DEF Over
<1> QED BY <1>4, <1>5, <1>6 DEF CallOK, StartOK

\* Choosing and starting any call of a scenario keeps Inv.
LEMMA CallStep == ASSUME Inv, NEW c \in Clients, Call(c) PROVE Inv'
PROOF
<1>1. PICK op \in Scenarios[scene].calls :
         IF op.call \in {"upload_part", "commit_upload", "abort_upload", "list_upload_parts"}
         THEN \E id \in DOMAIN uploads : Start(c, WithUpload(op, id))
         ELSE Start(c, op)
  BY DEF Call
<1>2. CallOK(op) BY ScenariosAssumption DEF Inv
<1>3. CASE op.call \in {"upload_part", "commit_upload", "abort_upload", "list_upload_parts"}
  <2>1. PICK id \in DOMAIN uploads : Start(c, WithUpload(op, id)) BY <1>1, <1>3
  <2>2. StartOK(WithUpload(op, id), uploads) BY <1>2, <1>3, UploadCall
  <2> QED BY <2>1, <2>2, StartStep
<1>4. CASE op.call \notin {"upload_part", "commit_upload", "abort_upload", "list_upload_parts"}
  <2>1. StartOK(op, uploads) BY <1>2, <1>4 DEF CallOK, StartOK
  <2> QED BY <2>1, <1>1, <1>4, StartStep
<1> QED BY <1>3, <1>4

\* The end of a call that changed an object and kept the project in order.
LEMMA ServesFinish ==
    ASSUME Inv, NEW c \in Clients, Serves(sat, sat', {}), History(c), PlainEnd(c),
           ProjectOK(sat', uploads, Over(published, Editions(sat')), torn),
           Grows(published, Over(published, Editions(sat'))),
           cl[c].step \notin {"idle", "download_object", "download_segment",
                              "begin_upload", "finish_relocate"}
    PROVE  Inv'
PROOF
<1>1. uploads' = uploads /\ torn' = torn /\ published' = Over(published, Editions(sat'))
  BY PlainHistory
<1>2. PlainOutcome(c) BY PlainEndOutcome
<1>3. ProjectOK(sat', uploads', published', torn') /\ Grows(published, published') BY <1>1
<1>4. Grows(uploads, uploads') BY <1>1 DEF Grows
<1>5. PICK W : W = {} OBVIOUS
<1>6. Serves(sat, sat', W) BY <1>5
<1> QED BY <1>2, <1>3, <1>4, <1>6, PlainFinish

\* Deleting an object or aborting an upload leaves the others.
LEMMA DeleteObjectStep == ASSUME Inv, NEW c \in Clients, DeleteObject(c) PROVE Inv'
PROOF
<1>1. PICK s, a, q : s = sat /\ a = Key(c) /\ q = BeginDeleteRequest(c, 0) OBVIOUS
<1>2. SatelliteOK(s) BY <1>1 DEF Inv, ProjectOK
<1>3. Calm(s, begin_delete(s, a, q).s, {}) BY <1>2, BeginDeleteServes DEF Still
<1>4. PICK r : r = begin_delete(sat, Key(c), BeginDeleteRequest(c, 0)) OBVIOUS
<1>5. Calm(sat, r.s, {}) BY <1>1, <1>3, <1>4
<1>6. Served(r) /\ History(c) /\ cl[c].step \notin {"idle", "download_object", "download_segment",
                                                     "begin_upload", "finish_relocate"}
  BY <1>4 DEF DeleteObject, Running, Rpc, Served
<1>7. PlainEnd(c) BY DEF DeleteObject, Rpc, Outcome, PlainEnd, Converted
<1> QED BY <1>5, <1>6, <1>7, ServedStep

LEMMA AbortUploadStep == ASSUME Inv, NEW c \in Clients, AbortUpload(c) PROVE Inv'
PROOF
<1>1. PICK s, a, q : s = sat /\ a = Key(c) /\ q = BeginDeleteRequest(c, Op(c).id) OBVIOUS
<1>2. SatelliteOK(s) BY <1>1 DEF Inv, ProjectOK
<1>3. Calm(s, begin_delete(s, a, q).s, {}) BY <1>2, BeginDeleteServes DEF Still
<1>4. PICK r : r = begin_delete(sat, Key(c), BeginDeleteRequest(c, Op(c).id)) OBVIOUS
<1>5. Calm(sat, r.s, {}) BY <1>1, <1>3, <1>4
<1>6. Served(r) /\ History(c) /\ cl[c].step \notin {"idle", "download_object", "download_segment",
                                                     "begin_upload", "finish_relocate"}
  BY <1>4 DEF AbortUpload, Running, Rpc, Unary, Served
<1>7. PlainEnd(c) BY DEF AbortUpload, Rpc, Unary, Outcome, PlainEnd
<1> QED BY <1>5, <1>6, <1>7, ServedStep

\* What encrypt_user_data makes of a checksum, and that it opens.
LEMMA UserData ==
    ASSUME NEW custom, NEW checksum, ChecksumOK(checksum), NEW m, NEW content, NEW u,
           u = encrypt_user_data(custom, checksum, m, content)
    PROVE  /\ MetadataReadable(u, content) /\ ChecksumOK(u.checksum)
           /\ PlainChecksum(u.checksum) = checksum
PROOF
<1>1. /\ checksum = [x \in {"alg", "composite", "value"} |-> checksum[x]] /\ IsMap(checksum.value)
  BY DEF ChecksumOK, HasFields
<1>2. PICK w : w = [i \in DOMAIN checksum.value |-> Seal(checksum.value[i], m)] OBVIOUS
<1>3. u.checksum = [checksum EXCEPT !.value = w] BY <1>2 DEF encrypt_user_data
<1>4. /\ HasFields(u.checksum, {"alg", "composite", "value"}) /\ u.checksum.value = w
      /\ u.checksum.alg = checksum.alg /\ u.checksum.composite = checksum.composite
  BY <1>1, <1>3 DEF HasFields
<1>5. IsMap(w) BY <1>2 DEF IsMap
<1>6. ChecksumOK(u.checksum) BY <1>4, <1>5 DEF ChecksumOK
<1>7. u.metaKey = Seal(m, content) /\ u.meta = Seal(custom, m) BY DEF encrypt_user_data
<1>8. MetadataReadable(u, content)
  BY <1>2, <1>4, <1>7 DEF MetadataReadable, Seal, Opens
<1>9. [i \in DOMAIN w |-> w[i].sealed] = checksum.value BY <1>1, <1>2 DEF Seal, IsMap
<1>10. PlainChecksum(u.checksum) = [u.checksum EXCEPT !.value = checksum.value]
  BY <1>4, <1>9 DEF PlainChecksum
<1>11. [u.checksum EXCEPT !.value = checksum.value] = checksum BY <1>1, <1>4 DEF HasFields
<1> QED BY <1>6, <1>8, <1>10, <1>11

\* The key of an upload's place is the content key of the call on it.
LEMMA UploadPlace ==
    ASSUME Inv, NEW c \in Clients, cl[c].step \in PartSteps \cup {"commit_upload"},
           Op(c).id \in DOMAIN sat.pending
    PROVE  PlaceOf(sat, Op(c).id) = ContentKey(c)
PROOF
<1>1. PICK id, b, k : id = Op(c).id /\ b = uploads[id][1] /\ k = uploads[id][2] OBVIOUS
<1>2. id \in DOMAIN uploads /\ Op(c).bucket = b /\ Op(c).key = k BY <1>1 DEF Inv, ClientOK, Op
<1>3. k \in Path /\ sat.pending[id].bucket = b /\ sat.pending[id].key = encrypt_path(k)
  BY <1>1, <1>2 DEF Inv, ProjectOK, UploadsOK
<1>4. Location(<<b, encrypt_path(k)>>) = derive_content_key(b, k) BY ONLY <1>3, LocationOfPath
<1> QED BY <1>1, <1>2, <1>3, <1>4 DEF PlaceOf, ContentKey

\* What commit_upload sends.
LEMMA CommitRequest ==
    ASSUME Inv, NEW c \in Clients, cl[c].step = "commit_upload", NEW q, q = CommitObjectRequest(c)
    PROVE  q.stream = Op(c).id /\ MetadataReadable(q, ContentKey(c)) /\ ChecksumOK(q.checksum)
PROOF
<1>4. ChecksumOK(Op(c).checksum) BY DEF Inv, ClientOK, Op
<1>5. PICK sum : sum = [Op(c).checksum EXCEPT !.value = [i \in DOMAIN @ |-> [sumOf |-> Op(c).id]]] OBVIOUS
<1>6. ChecksumOK(sum)
  <2>1. PICK o : o = Op(c).checksum OBVIOUS
  <2>2. o = [x \in {"alg", "composite", "value"} |-> o[x]] BY <1>4, <2>1 DEF ChecksumOK, HasFields
  <2>3. PICK w : w = [i \in DOMAIN o.value |-> [sumOf |-> Op(c).id]] OBVIOUS
  <2>4. sum = [o EXCEPT !.value = w] BY <1>5, <2>1, <2>3
  <2>5. IsMap(w) BY <2>3 DEF IsMap
  <2>6. sum.value = w /\ HasFields(sum, {"alg", "composite", "value"}) BY <2>2, <2>4 DEF HasFields
  <2> QED BY <2>5, <2>6 DEF ChecksumOK
<1>7. PICK u, m, g, content : /\ u = encrypt_user_data(g, sum, m, content) /\ g = Op(c).custom
                              /\ m = RandomKey(c, "meta") /\ content = ContentKey(c)
  OBVIOUS
<1>8. MetadataReadable(u, content) /\ ChecksumOK(u.checksum) BY ONLY <1>6, <1>7, UserData
<1>9. q = [stream |-> Op(c).id, meta |-> u.meta, metaKey |-> u.metaKey, checksum |-> u.checksum]
  BY <1>5, <1>7 DEF CommitObjectRequest
<1>10. /\ q.stream = Op(c).id /\ MetadataReadable(q, content) /\ ChecksumOK(q.checksum)
  BY <1>8, <1>9 DEF MetadataReadable
<1> QED BY <1>7, <1>10

\* Publishing: the upload is where the client believes it is, so the metadata
\* sealed for that place opens there.
LEMMA CommitUploadStep == ASSUME Inv, NEW c \in Clients, CommitUpload(c) PROVE Inv'
PROOF
<1>1. PICK s, a, q : s = sat /\ a = Key(c) /\ q = CommitObjectRequest(c) OBVIOUS
<1>2. ProjectOK(sat, uploads, published, torn) /\ SatelliteOK(s) BY <1>1 DEF Inv, ProjectOK
<1>3. cl[c].step = "commit_upload" BY DEF CommitUpload, Running
<1>4. PICK content : content = ContentKey(c) OBVIOUS
<1>10. q.stream = Op(c).id /\ MetadataReadable(q, content) /\ ChecksumOK(q.checksum)
  BY <1>1, <1>3, <1>4, CommitRequest
<1>11. PICK r : r = commit_object(s, a, q) OBVIOUS
<1>12. Still(s, r.s) \/ (Serves(s, r.s, {}) /\ Published(s, r.s, q))
  BY ONLY <1>2, <1>10, <1>11, CommitObjectServes
<1>13. Served(r) /\ History(c) BY <1>1, <1>11 DEF CommitUpload, Running, Rpc, Unary, Served
<1>14. PlainEnd(c) BY DEF CommitUpload, Rpc, Unary, Outcome, PlainEnd
<1>15. CASE Still(s, r.s)
  <2>1. Calm(sat, r.s, {}) BY <1>1, <1>15 DEF Still
  <2> QED BY <2>1, <1>3, <1>13, <1>14, ServedStep
<1>16. ASSUME Serves(s, r.s, {}), Published(s, r.s, q), sat' = r.s PROVE Inv'
  <2>1. PICK t, ups, pub, tn : t = sat' /\ ups = uploads /\ pub = published /\ tn = torn OBVIOUS
  <2>2. Serves(s, t, {}) /\ Published(s, t, q) /\ ProjectOK(s, ups, pub, tn)
    BY <1>1, <1>2, <1>16, <2>1
  <2>3. Op(c).id \in DOMAIN sat.pending BY <1>1, <1>10, <2>2 DEF Published
  <2>4. PlaceOf(sat, Op(c).id) = ContentKey(c) BY <2>3, <1>3, UploadPlace
  <2>5. MetadataReadable(q, PlaceOf(s, q.stream)) BY <2>4, <1>1, <1>4, <1>10
  <2>6. ProjectOK(t, ups, Over(pub, Editions(t)), tn) /\ Grows(pub, Over(pub, Editions(t)))
    BY ONLY <2>2, <2>5, PublishedProject
  <2>7. /\ Serves(sat, sat', {}) /\ ProjectOK(sat', uploads, Over(published, Editions(sat')), torn)
        /\ Grows(published, Over(published, Editions(sat')))
    BY <1>1, <2>1, <2>2, <2>6
  <2> QED BY <2>7, <1>3, <1>13, <1>14, ServesFinish
<1>17. CASE sat' = sat
  <2>1. PICK z : z = [s |-> sat] OBVIOUS
  <2>2. Still(s, s) BY ONLY <1>2, ServesStutter
  <2>3. Calm(sat, z.s, {}) /\ Served(z) BY <1>1, <1>17, <2>1, <2>2 DEF Still, Served
  <2> QED BY <2>3, <1>3, <1>13, <1>14, ServedStep
<1> QED BY <1>12, <1>13, <1>15, <1>16, <1>17 DEF Served

\* What update_object_metadata writes: the checksum it read, under a new key.
LEMMA UpdateRequest ==
    ASSUME Inv, NEW c \in Clients, cl[c].step = "write_metadata", NEW q, q = UpdateMetadataRequest(c)
    PROVE  /\ q.stream = Mem(c).stream /\ MetadataReadable(q, ContentKey(c)) /\ ChecksumOK(q.checksum)
           /\ q.bucket = Op(c).bucket /\ q.key = EncKey(c)
           /\ PlainChecksum(q.checksum) = Mem(c).checksum
PROOF
<1>4. ChecksumOK(Mem(c).checksum) BY DEF Inv, ClientOK, Op, Mem
<1>5. PICK u, m, g, sum, content : /\ u = encrypt_user_data(g, sum, m, content) /\ g = Op(c).custom
                                   /\ m = RandomKey(c, "meta") /\ content = ContentKey(c)
                                   /\ sum = Mem(c).checksum
  OBVIOUS
<1>6. ChecksumOK(sum) BY <1>4, <1>5
<1>7. MetadataReadable(u, content) /\ ChecksumOK(u.checksum) /\ PlainChecksum(u.checksum) = sum
  BY ONLY <1>5, <1>6, UserData
<1>8. q = [bucket |-> Op(c).bucket, key |-> EncKey(c), stream |-> Mem(c).stream,
           meta |-> u.meta, metaKey |-> u.metaKey, checksum |-> u.checksum]
  BY <1>5 DEF UpdateMetadataRequest, UpdateTarget
<1>9. /\ q.stream = Mem(c).stream /\ MetadataReadable(q, content) /\ ChecksumOK(q.checksum)
      /\ q.bucket = Op(c).bucket /\ q.key = EncKey(c) /\ PlainChecksum(q.checksum) = sum
  BY <1>7, <1>8 DEF MetadataReadable
<1> QED BY <1>5, <1>9

\* The second RPC of an update: it writes back the checksum read in the
\* first, and only onto the stream it was read from.
LEMMA WriteMetadataStep == ASSUME Inv, NEW c \in Clients, WriteMetadata(c) PROVE Inv'
PROOF
<1>1. PICK s, a, q : s = sat /\ a = Key(c) /\ q = UpdateMetadataRequest(c) OBVIOUS
<1>2. ProjectOK(sat, uploads, published, torn) /\ SatelliteOK(s) BY <1>1 DEF Inv, ProjectOK
<1>3. cl[c].step = "write_metadata" BY DEF WriteMetadata, Running
<1>4. /\ Mem(c).stream \in DOMAIN published /\ Mem(c).checksum = published[Mem(c).stream].checksum
      /\ ChecksumOK(Mem(c).checksum) /\ Op(c).key \in Path
  BY <1>3 DEF Inv, ClientOK, Op, Mem
<1>5. PICK sum, content : sum = Mem(c).checksum /\ content = ContentKey(c) OBVIOUS
<1>9. /\ q.stream = Mem(c).stream /\ MetadataReadable(q, content) /\ ChecksumOK(q.checksum)
      /\ q.bucket = Op(c).bucket /\ q.key = EncKey(c) /\ PlainChecksum(q.checksum) = sum
  BY <1>1, <1>3, <1>5, UpdateRequest
<1>10. Location(<<q.bucket, q.key>>) = content
  <2>1. PICK b, k : b = Op(c).bucket /\ k = Op(c).key OBVIOUS
  <2>2. Location(<<b, encrypt_path(k)>>) = derive_content_key(b, k) BY <1>4, <2>1, LocationOfPath
  <2> QED BY <1>5, <1>9, <2>1, <2>2 DEF EncKey, ContentKey
<1>11. PICK r : r = update_object_metadata(s, a, q) OBVIOUS
<1>12. Still(s, r.s) \/ (Serves(s, r.s, {}) /\ Updated(s, r.s, q))
  BY ONLY <1>2, <1>9, <1>11, UpdateServes
<1>13. Served(r) /\ History(c) BY <1>1, <1>11 DEF WriteMetadata, Running, Rpc, Unary, Served
<1>14. PlainEnd(c) BY DEF WriteMetadata, Rpc, Unary, Outcome, PlainEnd
<1>15. CASE Still(s, r.s)
  <2>1. Calm(sat, r.s, {}) BY <1>1, <1>15 DEF Still
  <2> QED BY <2>1, <1>3, <1>13, <1>14, ServedStep
<1>16. ASSUME Serves(s, r.s, {}), Updated(s, r.s, q), sat' = r.s PROVE Inv'
  <2>1. PICK t, ups, pub, tn : t = sat' /\ ups = uploads /\ pub = published /\ tn = torn OBVIOUS
  <2>2. Serves(s, t, {}) /\ Updated(s, t, q) /\ ProjectOK(s, ups, pub, tn)
    BY <1>1, <1>2, <1>16, <2>1
  <2>3. q.stream # 0 BY <1>4, <1>9, <2>1, <2>2 DEF ProjectOK, EditionsOK
  <2>4. MetadataReadable(q, Location(<<q.bucket, q.key>>)) BY <1>9, <1>10
  <2>5. PlainChecksum(q.checksum) = pub[q.stream].checksum BY <1>4, <1>5, <1>9, <2>1
  <2>6. ProjectOK(t, ups, Over(pub, Editions(t)), tn) /\ Grows(pub, Over(pub, Editions(t)))
    BY ONLY <2>2, <2>3, <2>4, <2>5, UpdatedProject
  <2>7. /\ Serves(sat, sat', {}) /\ ProjectOK(sat', uploads, Over(published, Editions(sat')), torn)
        /\ Grows(published, Over(published, Editions(sat')))
    BY <1>1, <2>1, <2>2, <2>6
  <2> QED BY <2>7, <1>3, <1>13, <1>14, ServesFinish
<1>17. CASE sat' = sat
  <2>1. PICK z : z = [s |-> sat] OBVIOUS
  <2>2. Still(s, s) BY ONLY <1>2, ServesStutter
  <2>3. Calm(sat, z.s, {}) /\ Served(z) BY <1>1, <1>17, <2>1, <2>2 DEF Still, Served
  <2> QED BY <2>3, <1>3, <1>13, <1>14, ServedStep
<1> QED BY <1>12, <1>13, <1>15, <1>16, <1>17 DEF Served

\* A code the satellite refused with is never success to the caller.
LEMMA RemoteError == ASSUME NEW code PROVE map_remote(code) # "ok"
PROOF
  BY DEF map_remote

\* A begun upload enters the history of uploads at once.
LEMMA BeginUploadStep == ASSUME Inv, NEW c \in Clients, BeginUpload(c) PROVE Inv'
PROOF
<1>1. PICK s, a, q, t : s = sat /\ a = Key(c) /\ q = BeginObjectRequest(c) /\ t = sat' OBVIOUS
<1>2. PICK ups, pub, tn : ups = uploads /\ pub = published /\ tn = torn OBVIOUS
<1>3. ProjectOK(s, ups, pub, tn) /\ SatelliteOK(s) /\ UploadsOK(s, ups) BY <1>1, <1>2 DEF Inv, ProjectOK
<1>4. cl[c].step = "begin_upload" BY DEF BeginUpload, Running
<1>5. Op(c).key \in Path BY <1>4 DEF Inv, ClientOK, Op
<1>6. PICK b, k : b = Op(c).bucket /\ k = Op(c).key OBVIOUS
<1>7. q.bucket = b /\ q.key = encrypt_path(k) /\ k \in Path
  BY <1>1, <1>5, <1>6 DEF BeginObjectRequest, EncKey
<1>8. PICK r : r = begin_object(s, a, q) OBVIOUS
<1>9. /\ Calm(s, r.s, {})
      /\ r.err = "ok" => r.ans.stream = s.nextId + 1 /\ Begun(s, r.s, b, encrypt_path(k))
  BY <1>3, <1>7, <1>8, BeginObjectServes
<1>10. Calm(s, t, {})
  <2>1. t = s \/ t = r.s BY <1>1, <1>8 DEF BeginUpload, Rpc
  <2>2. Still(s, s) BY ONLY <1>3, ServesStutter
  <2> QED BY <1>9, <2>1, <2>2 DEF Still
<1>11. ProjectOK(t, ups, Over(pub, Editions(t)), tn) /\ Grows(pub, Over(pub, Editions(t)))
  <2>1. PICK W : W = {} OBVIOUS
  <2>2. \A id \in DOMAIN s.pending : \A seg : <<id, seg>> \in W => Opens(seg.key, PlaceOf(s, id)) BY <2>1
  <2>3. Calm(s, t, W) BY <1>10, <2>1
  <2> QED BY ONLY <1>3, <2>2, <2>3, CalmProject
<1>12. PlainEnd(c) BY DEF BeginUpload, Rpc, Outcome, PlainEnd
<1>13. PlainOutcome(c) BY <1>12, PlainEndOutcome
<1>14. /\ published' = Over(pub, Editions(t)) /\ torn' = tn
       /\ uploads' = IF ret'[c].err = "ok" THEN Put(ups, ret'[c].value, <<b, k>>) ELSE ups
  BY <1>1, <1>2, <1>4, <1>6 DEF BeginUpload, Rpc, History, Op
<1>15. ret'[c].err = "ok" => t = r.s /\ r.err = "ok" /\ ret'[c].value = r.ans.stream
  <2>1. c \in DOMAIN ret BY DEF Inv
  <2> QED BY <2>1, <1>1, <1>8, RemoteError DEF BeginUpload, Rpc, Return, Fail
<1>16. Serves(s, t, {}) BY <1>10 DEF Calm
<1>17. UploadsOK(t, uploads') /\ Grows(ups, uploads')
  <2>1. CASE ret'[c].err = "ok"
    <3>1. Begun(s, t, b, encrypt_path(k)) /\ uploads' = Put(ups, s.nextId + 1, <<b, k>>)
      BY <2>1, <1>9, <1>14, <1>15
    <3>2. PICK ups2 : ups2 = Put(ups, s.nextId + 1, <<b, k>>) OBVIOUS
    <3>3. UploadsOK(t, ups2) /\ Grows(ups, ups2)
      BY ONLY <3>1, <3>2, <1>3, <1>7, <1>16, BegunUploads
    <3> QED BY <3>1, <3>2, <3>3
  <2>2. CASE ret'[c].err # "ok"
    <3>1. uploads' = ups BY <2>2, <1>14
    <3>2. UploadsOK(t, ups) BY <1>11 DEF ProjectOK
    <3> QED BY <3>1, <3>2 DEF Grows
  <2> QED BY <2>1, <2>2
<1>18. ProjectOK(t, uploads', Over(pub, Editions(t)), tn) BY <1>11, <1>17 DEF ProjectOK
<1>19. PICK W : W = {} OBVIOUS
<1>20. /\ Serves(sat, sat', W) /\ Grows(uploads, uploads') /\ Grows(published, published')
       /\ ProjectOK(sat', uploads', published', torn')
  BY <1>1, <1>2, <1>11, <1>14, <1>16, <1>17, <1>18, <1>19
<1> QED BY <1>4, <1>13, <1>20, PlainFinish

\* More streams may be torn.
LEMMA ProjectTorn ==
    ASSUME NEW s, NEW ups, NEW pub, NEW tn, ProjectOK(s, ups, pub, tn), NEW tn2, tn \subseteq tn2
    PROVE  ProjectOK(s, ups, pub, tn2)
PROOF
  BY DEF ProjectOK, MetadataOpen

\* The second RPC of a copy or move: the keys sent are those of the edition
\* read in the first, and editions do not change while their stream lives.
LEMMA FinishRelocateStep == ASSUME Inv, NEW c \in Clients, FinishRelocate(c) PROVE Inv'
PROOF
<1>1. PICK s, a, q, t : s = sat /\ a = Key(c) /\ q = FinishRelocateRequest(c) /\ t = sat' OBVIOUS
<1>2. PICK ups, pub, tn, tn2 : ups = uploads /\ pub = published /\ tn = torn /\ tn2 = torn' OBVIOUS
<1>3. ProjectOK(s, ups, pub, tn) /\ SatelliteOK(s) BY <1>1, <1>2 DEF Inv, ProjectOK
<1>4. cl[c].step = "finish_relocate" BY DEF FinishRelocate, Running
<1>5. RelocationOK(Op(c), Mem(c), pub) /\ Op(c).newKey \in Path
  BY <1>2, <1>4 DEF Inv, ClientOK, Op, Mem
<1>6. /\ q.stream = Mem(c).stream /\ q.newBucket = Op(c).newBucket
      /\ q.newKey = encrypt_path(Op(c).newKey) /\ q.metaKey = <<Mem(c).metaKey>>
      /\ q.segmentKeys = Mem(c).segmentKeys
  BY <1>1 DEF FinishRelocateRequest
<1>7. q.metaKey # <<>> /\ Head(q.metaKey) = Mem(c).metaKey BY <1>6
<1>8. PICK new : new = derive_content_key(Op(c).newBucket, Op(c).newKey) OBVIOUS
<1>9. new = Location(<<q.newBucket, q.newKey>>)
  <2>1. PICK b, k : b = Op(c).newBucket /\ k = Op(c).newKey OBVIOUS
  <2>2. Location(<<b, encrypt_path(k)>>) = derive_content_key(b, k) BY <1>5, <2>1, LocationOfPath
  <2> QED BY <1>6, <1>8, <2>1, <2>2
<1>10. /\ KeysFit(q.segmentKeys, pub[q.stream], new) /\ Opens(Head(q.metaKey), new)
       /\ Head(q.metaKey).sealed = Mem(c).seen.sealed
  BY <1>5, <1>6, <1>7, <1>8 DEF RelocationOK
<1>11. PICK f, g : f = finish_copy(s, a, q) /\ g = finish_move(s, a, q) OBVIOUS
<1>12. Still(s, f.s) \/ (Serves(s, f.s, {}) /\ Copied(s, f.s, q))
  BY ONLY <1>3, <1>7, <1>11, FinishCopyServes
<1>13. Still(s, g.s) \/ (Serves(s, g.s, {}) /\ Moved(s, g.s, q))
  BY ONLY <1>3, <1>7, <1>11, FinishMoveServes
<1>14. t = s \/ (t = f.s /\ Op(c).call = "copy_object") \/ (t = g.s /\ Op(c).call # "copy_object")
  BY <1>1, <1>11 DEF FinishRelocate, Rpc
<1>15. History(c) BY DEF FinishRelocate, Rpc
<1>16. PlainEnd(c) BY DEF FinishRelocate, Rpc, Outcome, PlainEnd, Converted
<1>17. PlainOutcome(c) BY <1>16, PlainEndOutcome
<1>18. uploads' = ups /\ published' = Over(pub, Editions(t)) BY <1>1, <1>2, <1>4, <1>15 DEF History
<1>19. PICK l : l = LocationOf(s, q.stream) OBVIOUS
<1>20. tn2 = IF /\ t # s /\ IsSome(l)
                /\ (q.stream \in tn \/ s.committed[l].metaKey.sealed # Head(q.metaKey).sealed)
             THEN tn \cup {IF Op(c).call = "copy_object" THEN s.nextId + 1 ELSE q.stream}
             ELSE tn
  BY <1>1, <1>2, <1>4, <1>6, <1>10, <1>15, <1>19 DEF History, Op, Mem
<1>21. tn \subseteq tn2 BY <1>20
<1>22. SUFFICES Serves(s, t, {}) /\ ProjectOK(t, ups, Over(pub, Editions(t)), tn2)
                /\ Grows(pub, Over(pub, Editions(t)))
  <2>1. PICK W : W = {} OBVIOUS
  <2>2. Grows(uploads, uploads') BY <1>2, <1>18 DEF Grows
  <2>3. /\ Serves(sat, sat', W) /\ Grows(published, published')
        /\ ProjectOK(sat', uploads', published', torn')
    BY <1>1, <1>2, <1>18, <1>22, <2>1
  <2> QED BY <1>4, <1>17, <2>2, <2>3, PlainFinish
<1>23. CASE t = s \/ Still(s, t)
  <2>1. Still(s, s) BY ONLY <1>3, ServesStutter
  <2>2. PICK W : W = {} OBVIOUS
  <2>3. Calm(s, t, W) BY <1>23, <2>1, <2>2 DEF Still
  <2>4. \A id \in DOMAIN s.pending : \A seg : <<id, seg>> \in W => Opens(seg.key, PlaceOf(s, id)) BY <2>2
  <2>5. ProjectOK(t, ups, Over(pub, Editions(t)), tn) /\ Grows(pub, Over(pub, Editions(t)))
    BY ONLY <1>3, <2>3, <2>4, CalmProject
  <2>6. PICK pub2 : pub2 = Over(pub, Editions(t)) OBVIOUS
  <2>7. ProjectOK(t, ups, pub2, tn) BY <2>5, <2>6
  <2>8. ProjectOK(t, ups, pub2, tn2) BY ONLY <2>7, <1>21, ProjectTorn
  <2> QED BY <2>2, <2>3, <2>5, <2>6, <2>8 DEF Calm
<1>24. ASSUME Serves(s, t, {}), Copied(s, t, q), Op(c).call = "copy_object"
       PROVE  ProjectOK(t, ups, Over(pub, Editions(t)), tn2) /\ Grows(pub, Over(pub, Editions(t)))
  <2>1. s.nextId \in Nat BY <1>3 DEF SatelliteOK
  <2>2. t # s BY <2>1, <1>24 DEF Copied
  <2>3. IsSome(l) BY <1>19, <1>24 DEF Copied
  <2>4. s.nextId + 1 \notin tn2 => /\ q.stream \notin tn
                                   /\ s.committed[LocationOf(s, q.stream)].metaKey.sealed
                                         = Head(q.metaKey).sealed
    BY <2>2, <2>3, <1>19, <1>20, <1>24
  <2>5. Serves(s, t, {}) /\ Copied(s, t, q) BY <1>24
  <2> QED BY ONLY <1>3, <2>5, <1>9, <1>10, <1>21, <2>4, CopiedProject
<1>25. ASSUME Serves(s, t, {}), Moved(s, t, q), Op(c).call # "copy_object", t # s
       PROVE  ProjectOK(t, ups, Over(pub, Editions(t)), tn2) /\ Grows(pub, Over(pub, Editions(t)))
  <2>1. IsSome(l) BY <1>19, <1>25 DEF Moved
  <2>2. q.stream \notin tn2 => /\ q.stream \notin tn
                               /\ s.committed[LocationOf(s, q.stream)].metaKey.sealed
                                     = Head(q.metaKey).sealed
    BY <2>1, <1>19, <1>20, <1>25
  <2>3. Serves(s, t, {}) /\ Moved(s, t, q) BY <1>25
  <2> QED BY ONLY <1>3, <2>3, <1>9, <1>10, <1>21, <2>2, MovedProject
<1> QED BY <1>12, <1>13, <1>14, <1>23, <1>24, <1>25

\* A calm step after which the call goes on.
LEMMA CalmGo ==
    ASSUME Inv, NEW c \in Clients, NEW W, Calm(sat, sat', W), History(c),
           cl[c].step \notin {"begin_upload", "finish_relocate"},
           \A id \in DOMAIN sat.pending : \A seg : <<id, seg>> \in W => Opens(seg.key, PlaceOf(sat, id)),
           NEW k, NEW v, Outcome(c, k, v),
           ClientOK(k, sat', uploads, published), ResultOK(v, published)
    PROVE  Inv'
PROOF
<1>1. PICK s, t, ups, pub, pub2, tn :
         s = sat /\ t = sat' /\ ups = uploads /\ pub = published /\ pub2 = published' /\ tn = torn
  OBVIOUS
<1>2. pub2 = Over(pub, Editions(t)) BY <1>1, PlainHistory
<1>3. /\ ProjectOK(s, ups, pub, tn) /\ Calm(s, t, W)
      /\ \A id \in DOMAIN s.pending : \A seg : <<id, seg>> \in W => Opens(seg.key, PlaceOf(s, id))
  BY <1>1 DEF Inv
<1>4. Grows(pub, pub2)
  <2>1. Grows(pub, Over(pub, Editions(t))) BY ONLY <1>3, CalmProject
  <2> QED BY <1>2, <2>1
<1>5. SatelliteOK(t) BY <1>3 DEF Calm, Serves
<1>6. ClientOK(k, t, ups, pub) /\ ResultOK(v, pub) BY <1>1
<1>7. ClientOK(k, t, ups, pub2)
  <2>1. Still(t, t) BY ONLY <1>5, ServesStutter
  <2>2. Serves(t, t, {}) /\ Grows(ups, ups) BY <2>1 DEF Still, Calm, Grows
  <2> QED BY ONLY <1>4, <1>5, <1>6, <2>2, ClientKept
<1>8. ResultOK(v, pub2) BY ONLY <1>4, <1>6, ResultKept
<1>9. ClientOK(k, sat', uploads, published') /\ ResultOK(v, published') BY <1>1, <1>7, <1>8
<1> QED BY <1>9, CalmStep

\* Where a call stands when it goes on.
LEMMA ContinueAt ==
    ASSUME Inv, NEW c \in Clients, NEW step, NEW mem, NEW next, next = Continue(c, step, mem)
    PROVE  /\ HasFields(next.at, ClientFields) /\ next.at.step = step
           /\ next.at.op = Op(c) /\ next.at.mem = mem /\ next.ret = ret[c]
PROOF
<1>1. HasFields(cl[c], ClientFields) BY DEF Inv, ClientOK
<1> QED BY <1>1 DEF HasFields, ClientFields, Continue, At, Op

\* A call that ends.
Ends(c, next) ==
    (\E x : next = Return(c, x)) \/ (\E x : next = Fail(c, x)) \/ next = Undecryptable(c)

\* A call other than a download may end at any time.
LEMMA EndsOK ==
    ASSUME Inv, NEW c \in Clients, NEW next, Ends(c, next),
           cl[c].step \notin {"idle", "download_object", "download_segment"},
           NEW s, NEW ups, NEW pub
    PROVE  ClientOK(next.at, s, ups, pub) /\ ResultOK(next.ret, pub)
PROOF
<1>1. HasFields(cl[c], ClientFields) /\ cl[c].op.call # "download_object" BY DEF Inv, ClientOK
<1>2. PICK k : k = Idle(c) OBVIOUS
<1>3. HasFields(k, ClientFields) /\ k.step = "idle" BY <1>1, <1>2 DEF HasFields, ClientFields, Idle
<1>4. ClientOK(k, s, ups, pub) BY ONLY <1>3, IdleOK
<1>5. next.at = k /\ next.ret.call = cl[c].op.call BY <1>2 DEF Ends, Return, Fail, Undecryptable
<1> QED BY <1>1, <1>4, <1>5 DEF ResultOK

\* A still request, served or lost, is still.
LEMMA StillServed ==
    ASSUME Inv, NEW r, Still(sat, r.s), Served(r)
    PROVE  Still(sat, sat')
PROOF
<1>1. PICK s : s = sat OBVIOUS
<1>2. SatelliteOK(s) BY <1>1 DEF Inv, ProjectOK
<1>3. Still(s, s) BY ONLY <1>2, ServesStutter
<1> QED BY <1>1, <1>3 DEF Served

\* A step in which the satellite's objects and uploads stay, and the call
\* ends or goes on with what it remembers in order.
LEMMA StillGo ==
    ASSUME Inv, NEW c \in Clients, Still(sat, sat'), History(c),
           cl[c].step \notin {"begin_upload", "finish_relocate"},
           NEW k, NEW v, Outcome(c, k, v),
           ClientOK(k, sat', uploads, published), ResultOK(v, published)
    PROVE  Inv'
PROOF
<1>1. PICK W : W = {} OBVIOUS
<1>2. Calm(sat, sat', W) BY <1>1 DEF Still
<1>3. \A id \in DOMAIN sat.pending : \A seg : <<id, seg>> \in W => Opens(seg.key, PlaceOf(sat, id)) BY <1>1
<1> QED BY <1>2, <1>3, CalmGo

\* What c remembers, after another state of the satellite.
LEMMA Remembered ==
    ASSUME Inv, NEW c \in Clients, NEW W, Serves(sat, sat', W)
    PROVE  ClientOK(cl[c], sat', uploads, published)
PROOF
<1>1. PICK k, s, t, ups, pub : k = cl[c] /\ s = sat /\ t = sat' /\ ups = uploads /\ pub = published OBVIOUS
<1>2. SatelliteOK(s) /\ ClientOK(k, s, ups, pub) /\ Serves(s, t, W) BY <1>1 DEF Inv, ProjectOK
<1>3. Grows(ups, ups) /\ Grows(pub, pub) BY DEF Grows
<1>4. ClientOK(k, t, ups, pub) BY ONLY <1>2, <1>3, ClientKept
<1> QED BY <1>1, <1>4

\* begin_segment: the id answered was issued for the client's own stream.
LEMMA BeginSegmentStep == ASSUME Inv, NEW c \in Clients, BeginSegment(c) PROVE Inv'
PROOF
<1>1. PICK s, a, id : s = sat /\ a = Key(c) /\ id = Op(c).id OBVIOUS
<1>2. SatelliteOK(s) BY <1>1 DEF Inv, ProjectOK
<1>3. PICK r : r = begin_segment_id(s, a, id) OBVIOUS
<1>4. Still(s, r.s) BY ONLY <1>2, <1>3, BeginSegmentIdServes
<1>5. Served(r) /\ History(c) /\ cl[c].step = "segment"
  BY <1>1, <1>3 DEF BeginSegment, Running, Rpc, Served
<1>6. Still(sat, sat') BY <1>1, <1>4, <1>5, StillServed
<1>7. PICK next : /\ Outcome(c, next.at, next.ret)
                  /\ \/ Ends(c, next)
                     \/ /\ r.err = "ok" /\ sat' = r.s
                        /\ next = Continue(c, "segment_limits",
                                     [index |-> Mem(c).index, segment |-> r.ans.segment])
  BY <1>1, <1>3 DEF BeginSegment, Rpc, Outcome, Ends
<1>8. CASE Ends(c, next)
  <2>1. ClientOK(next.at, sat', uploads, published) /\ ResultOK(next.ret, published)
    BY <1>5, <1>8, EndsOK
  <2> QED BY <2>1, <1>5, <1>6, <1>7, StillGo
<1>9. ASSUME r.err = "ok", sat' = r.s,
             next = Continue(c, "segment_limits",
                       [index |-> Mem(c).index, segment |-> r.ans.segment])
      PROVE  Inv'
  <2>1. PICK g : g = s.nextId + 1 OBVIOUS
  <2>2. /\ r.ans.segment = g /\ r.s.nextId = g /\ r.s.segmentToStream = Put(s.segmentToStream, g, id)
    <3>1. HasFields(s, SatelliteFields) BY <1>2 DEF SatelliteOK
    <3>2. PICK z : z = [s EXCEPT !.nextId = g, !.segmentToStream = Put(@, g, id)] OBVIOUS
    <3>3. r.ans = [segment |-> g] /\ r.s = z
      BY <1>3, <1>9, <2>1, <3>2 DEF begin_segment_id, Reply, Refuse
    <3>4. z.nextId = g /\ z.segmentToStream = Put(s.segmentToStream, g, id)
      BY <3>1, <3>2 DEF HasFields, SatelliteFields
    <3> QED BY <3>3, <3>4
  <2>3. sat'.segmentToStream[g] = id BY <2>2, <1>9 DEF Put
  <2>4. g \in 1..sat'.nextId BY <2>1, <2>2, <1>2, <1>9 DEF SatelliteOK
  <2>5. PICK m : m = [index |-> Mem(c).index, segment |-> g] OBVIOUS
  <2>6. /\ HasFields(next.at, ClientFields) /\ next.at.step = "segment_limits"
        /\ next.at.op = Op(c) /\ next.at.mem = m /\ next.ret = ret[c]
    <3>1. next = Continue(c, "segment_limits", m) BY <1>9, <2>2, <2>5
    <3> QED BY <3>1, ContinueAt
  <2>7. /\ Op(c).id \in DOMAIN uploads
        /\ Op(c).bucket = uploads[Op(c).id][1] /\ Op(c).key = uploads[Op(c).id][2]
        /\ Op(c).part \in Nat /\ Mem(c).index \in Nat /\ Op(c).call # "download_object"
    BY <1>5 DEF Inv, ClientOK, Op, Mem, PartSteps
  <2>8. m.segment = g /\ m.index \in Nat BY <2>5, <2>7
  <2>9. ClientOK(next.at, sat', uploads, published)
    BY <1>1, <2>3, <2>4, <2>6, <2>7, <2>8 DEF ClientOK, PartSteps, FlightSteps
  <2>10. ResultOK(next.ret, published) BY <2>6 DEF Inv
  <2> QED BY <2>9, <2>10, <1>5, <1>6, <1>7, StillGo
<1> QED BY <1>7, <1>8, <1>9

\* A part upload that goes on at a step with a segment in flight.
LEMMA FlightClient ==
    ASSUME Inv, NEW c \in Clients, cl[c].step \in PartSteps, NEW step \in FlightSteps, NEW m,
           NEW next, next = Continue(c, step, m), m.index = Mem(c).index,
           m.segment \in 1..sat'.nextId,
           m.segment \in DOMAIN sat'.segmentToStream => sat'.segmentToStream[m.segment] = Op(c).id
    PROVE  ClientOK(next.at, sat', uploads, published) /\ ResultOK(next.ret, published)
PROOF
<1>1. /\ HasFields(next.at, ClientFields) /\ next.at.step = step
      /\ next.at.op = Op(c) /\ next.at.mem = m /\ next.ret = ret[c]
  BY ContinueAt
<1>2. /\ Op(c).id \in DOMAIN uploads
      /\ Op(c).bucket = uploads[Op(c).id][1] /\ Op(c).key = uploads[Op(c).id][2]
      /\ Op(c).part \in Nat /\ Mem(c).index \in Nat /\ Op(c).call # "download_object"
  BY DEF Inv, ClientOK, Op, Mem, PartSteps, FlightSteps
<1>3. ClientOK(next.at, sat', uploads, published)
  BY <1>1, <1>2 DEF ClientOK, PartSteps, FlightSteps
<1> QED BY <1>1, <1>3 DEF Inv

\* Its limits: the client keeps the segment id.
LEMMA SegmentLimitsStep == ASSUME Inv, NEW c \in Clients, SegmentLimits(c) PROVE Inv'
PROOF
<1>1. PICK s, id, g, p : s = sat /\ id = Op(c).id /\ g = Mem(c).segment /\ p = Position(c) OBVIOUS
<1>2. SatelliteOK(s) BY <1>1 DEF Inv, ProjectOK
<1>3. cl[c].step = "segment_limits" BY DEF SegmentLimits, Running
<1>4. p \in SegmentPositions
  <2>1. Op(c).part \in Nat /\ Mem(c).index \in Nat
    BY <1>3 DEF Inv, ClientOK, Op, Mem, PartSteps, FlightSteps
  <2> QED BY <1>1, <2>1 DEF Position, SegmentPositions
<1>5. PICK r : r = begin_segment_limits(s, id, g, p) OBVIOUS
<1>6. Still(s, r.s) BY ONLY <1>2, <1>4, <1>5, BeginSegmentLimitsServes
<1>7. Served(r) /\ History(c) BY <1>1, <1>5 DEF SegmentLimits, Rpc, Served
<1>8. Still(sat, sat') BY <1>1, <1>6, <1>7, StillServed
<1>9. PICK next : /\ Outcome(c, next.at, next.ret)
                  /\ \/ Ends(c, next)
                     \/ /\ r.err = "ok"
                        /\ next = Continue(c, "pieces",
                              [index |-> Mem(c).index, segment |-> r.ans.segment,
                               limits |-> r.ans.limits, retried |-> FALSE])
  BY <1>1, <1>5 DEF SegmentLimits, Rpc, Outcome, Ends
<1>10. CASE Ends(c, next)
  <2>1. ClientOK(next.at, sat', uploads, published) /\ ResultOK(next.ret, published)
    BY <1>3, <1>10, EndsOK
  <2> QED BY <2>1, <1>3, <1>7, <1>8, <1>9, StillGo
<1>11. ASSUME r.err = "ok",
              next = Continue(c, "pieces",
                              [index |-> Mem(c).index, segment |-> r.ans.segment,
                               limits |-> r.ans.limits, retried |-> FALSE])
       PROVE  Inv'
  <2>1. r.ans.segment = g BY <1>5, <1>11 DEF begin_segment_limits, Reply, Refuse
  <2>2. PICK W : W = {} OBVIOUS
  <2>3. Serves(sat, sat', W) BY <1>8, <2>2 DEF Still, Calm
  <2>4. ClientOK(cl[c], sat', uploads, published) BY <2>3, Remembered
  <2>5. PICK m : m = [index |-> Mem(c).index, segment |-> r.ans.segment,
                      limits |-> r.ans.limits, retried |-> FALSE]
    OBVIOUS
  <2>6. m.index = Mem(c).index /\ m.segment = Mem(c).segment BY <1>1, <2>1, <2>5
  <2>7. /\ m.segment \in 1..sat'.nextId
        /\ m.segment \in DOMAIN sat'.segmentToStream => sat'.segmentToStream[m.segment] = Op(c).id
    BY <1>3, <2>4, <2>6 DEF ClientOK, FlightSteps, Op, Mem
  <2>8. next = Continue(c, "pieces", m) BY <1>11, <2>5
  <2>9. cl[c].step \in PartSteps /\ "pieces" \in FlightSteps BY <1>3 DEF PartSteps, FlightSteps
  <2>10. ClientOK(next.at, sat', uploads, published) /\ ResultOK(next.ret, published)
    BY <2>6, <2>7, <2>8, <2>9, FlightClient
  <2> QED BY <2>10, <1>3, <1>7, <1>8, <1>9, StillGo
<1> QED BY <1>9, <1>10, <1>11

\* A retry: the new id stands for the same stream.
LEMMA RetryPiecesStep == ASSUME Inv, NEW c \in Clients, RetryPieces(c) PROVE Inv'
PROOF
<1>1. PICK s, a, old : s = sat /\ a = Key(c) /\ old = Mem(c).segment OBVIOUS
<1>2. SatelliteOK(s) BY <1>1 DEF Inv, ProjectOK
<1>3. PICK r : r = retry_pieces_id(s, a, old) OBVIOUS
<1>4. Still(s, r.s) BY ONLY <1>2, <1>3, RetryPiecesIdServes
<1>5. Served(r) /\ History(c) /\ cl[c].step = "pieces"
  BY <1>1, <1>3 DEF RetryPieces, Running, Rpc, Served
<1>6. Still(sat, sat') BY <1>1, <1>4, <1>5, StillServed
<1>7. PICK next : /\ Outcome(c, next.at, next.ret)
                  /\ \/ Ends(c, next)
                     \/ /\ r.err = "ok" /\ sat' = r.s
                        /\ next = Continue(c, "retry_limits",
                              [index |-> Mem(c).index, old |-> Mem(c).segment,
                               segment |-> r.ans.segment, stream |-> r.ans.stream])
  BY <1>1, <1>3 DEF RetryPieces, Rpc, Outcome, Ends
<1>8. CASE Ends(c, next)
  <2>1. ClientOK(next.at, sat', uploads, published) /\ ResultOK(next.ret, published)
    BY <1>5, <1>8, EndsOK
  <2> QED BY <2>1, <1>5, <1>6, <1>7, StillGo
<1>9. ASSUME r.err = "ok", sat' = r.s,
             next = Continue(c, "retry_limits",
                              [index |-> Mem(c).index, old |-> Mem(c).segment,
                               segment |-> r.ans.segment, stream |-> r.ans.stream])
      PROVE  Inv'
  <2>1. PICK g : g = s.nextId + 1 OBVIOUS
  <2>2. PICK f : f = Drop(s.segmentToStream, old) OBVIOUS
  <2>3. PICK e : e = IF old \in DOMAIN s.segmentToStream
                     THEN Put(f, g, s.segmentToStream[old]) ELSE f
    OBVIOUS
  <2>4. r.ans.segment = g /\ r.s.nextId = g /\ r.s.segmentToStream = e
    <3>1. HasFields(s, SatelliteFields) BY <1>2 DEF SatelliteOK
    <3>2. PICK z : z = [s EXCEPT !.nextId = g, !.stale = @ \cup {old}, !.segmentToStream = e] OBVIOUS
    <3>3. r.s = z /\ r.ans.segment = g
      BY <1>3, <1>9, <2>1, <2>2, <2>3, <3>2 DEF retry_pieces_id, Reply, Refuse
    <3>4. z.nextId = g /\ z.segmentToStream = e BY <3>1, <3>2 DEF HasFields, SatelliteFields
    <3> QED BY <3>3, <3>4
  <2>5. g \in 1..sat'.nextId BY <2>1, <2>4, <1>2, <1>9 DEF SatelliteOK
  <2>6. g \in DOMAIN e => old \in DOMAIN s.segmentToStream /\ e[g] = s.segmentToStream[old]
    <3>1. g \notin DOMAIN s.segmentToStream BY <1>2, <2>1 DEF SatelliteOK, SegmentIdsOK
    <3> QED BY <3>1, <2>2, <2>3 DEF Put, Drop
  <2>7. old \in DOMAIN s.segmentToStream => s.segmentToStream[old] = Op(c).id
    BY <1>1, <1>5 DEF Inv, ClientOK, FlightSteps, Op, Mem
  <2>8. PICK m : m = [index |-> Mem(c).index, old |-> Mem(c).segment,
                      segment |-> r.ans.segment, stream |-> r.ans.stream]
    OBVIOUS
  <2>9. m.index = Mem(c).index /\ m.segment = g BY <2>4, <2>8
  <2>10. next = Continue(c, "retry_limits", m) BY <1>9, <2>8
  <2>11. cl[c].step \in PartSteps /\ "retry_limits" \in FlightSteps BY <1>5 DEF PartSteps, FlightSteps
  <2>12. /\ m.segment \in 1..sat'.nextId
         /\ m.segment \in DOMAIN sat'.segmentToStream => sat'.segmentToStream[m.segment] = Op(c).id
    BY <1>9, <2>4, <2>5, <2>6, <2>7, <2>9
  <2>13. ClientOK(next.at, sat', uploads, published) /\ ResultOK(next.ret, published)
    BY <2>9, <2>10, <2>11, <2>12, FlightClient
  <2> QED BY <2>13, <1>5, <1>6, <1>7, StillGo
<1> QED BY <1>7, <1>8, <1>9

\* Its limits: the client keeps the new id.
LEMMA RetryLimitsStep == ASSUME Inv, NEW c \in Clients, RetryLimits(c) PROVE Inv'
PROOF
<1>1. PICK s, x, old, g, n : /\ s = sat /\ x = Mem(c).stream /\ old = Mem(c).old
                             /\ g = Mem(c).segment /\ n = {1}
  OBVIOUS
<1>2. SatelliteOK(s) BY <1>1 DEF Inv, ProjectOK
<1>3. PICK r : r = retry_pieces_limits(s, x, old, g, n) OBVIOUS
<1>4. Still(s, r.s) BY ONLY <1>2, <1>3, RetryPiecesLimitsServes
<1>5. Served(r) /\ History(c) /\ cl[c].step = "retry_limits"
  BY <1>1, <1>3 DEF RetryLimits, Running, Rpc, Served
<1>6. Still(sat, sat') BY <1>1, <1>4, <1>5, StillServed
<1>7. PICK next : /\ Outcome(c, next.at, next.ret)
                  /\ \/ Ends(c, next)
                     \/ /\ r.err = "ok"
                        /\ next = Continue(c, "pieces",
                              [index |-> Mem(c).index, segment |-> r.ans.segment,
                               limits |-> r.ans.limits, retried |-> TRUE])
  BY <1>1, <1>3 DEF RetryLimits, Rpc, Outcome, Ends
<1>8. CASE Ends(c, next)
  <2>1. ClientOK(next.at, sat', uploads, published) /\ ResultOK(next.ret, published)
    BY <1>5, <1>8, EndsOK
  <2> QED BY <2>1, <1>5, <1>6, <1>7, StillGo
<1>9. ASSUME r.err = "ok",
             next = Continue(c, "pieces",
                              [index |-> Mem(c).index, segment |-> r.ans.segment,
                               limits |-> r.ans.limits, retried |-> TRUE])
      PROVE  Inv'
  <2>1. r.ans.segment = g BY <1>3, <1>9 DEF retry_pieces_limits, Reply, Refuse
  <2>2. PICK W : W = {} OBVIOUS
  <2>3. Serves(sat, sat', W) BY <1>6, <2>2 DEF Still, Calm
  <2>4. ClientOK(cl[c], sat', uploads, published) BY <2>3, Remembered
  <2>5. PICK m : m = [index |-> Mem(c).index, segment |-> r.ans.segment,
                      limits |-> r.ans.limits, retried |-> TRUE]
    OBVIOUS
  <2>6. m.index = Mem(c).index /\ m.segment = Mem(c).segment BY <1>1, <2>1, <2>5
  <2>7. /\ m.segment \in 1..sat'.nextId
        /\ m.segment \in DOMAIN sat'.segmentToStream => sat'.segmentToStream[m.segment] = Op(c).id
    BY <1>5, <2>4, <2>6 DEF ClientOK, FlightSteps, Op, Mem
  <2>8. next = Continue(c, "pieces", m) BY <1>9, <2>5
  <2>9. cl[c].step \in PartSteps /\ "pieces" \in FlightSteps BY <1>5 DEF PartSteps, FlightSteps
  <2>10. ClientOK(next.at, sat', uploads, published) /\ ResultOK(next.ret, published)
    BY <2>6, <2>7, <2>8, <2>9, FlightClient
  <2> QED BY <2>10, <1>5, <1>6, <1>7, StillGo
<1> QED BY <1>7, <1>8, <1>9

\* A part upload that ends, or goes on with its next segment.
PartGoesOn(c, next) ==
    \/ Ends(c, next)
    \/ next = Continue(c, "segment", [index |-> Mem(c).index + 1])

\* A part goes on with its next segment, or ends.
LEMMA PartClient ==
    ASSUME Inv, NEW c \in Clients, cl[c].step \in PartSteps, NEW next, PartGoesOn(c, next), NEW t
    PROVE  ClientOK(next.at, t, uploads, published) /\ ResultOK(next.ret, published)
PROOF
<1>1. CASE Ends(c, next)
  <2>1. cl[c].step \notin {"idle", "download_object", "download_segment"} BY DEF PartSteps, FlightSteps
  <2> QED BY <1>1, <2>1, EndsOK
<1>2. CASE next = Continue(c, "segment", [index |-> Mem(c).index + 1])
  <2>1. PICK m : m = [index |-> Mem(c).index + 1] OBVIOUS
  <2>2. /\ Op(c).id \in DOMAIN uploads
        /\ Op(c).bucket = uploads[Op(c).id][1] /\ Op(c).key = uploads[Op(c).id][2]
        /\ Op(c).part \in Nat /\ Mem(c).index \in Nat /\ Op(c).call # "download_object"
    BY DEF Inv, ClientOK, Op, Mem, PartSteps, FlightSteps
  <2>3. m.index \in Nat BY <2>1, <2>2
  <2>4. next = Continue(c, "segment", m) BY <1>2, <2>1
  <2>5. /\ HasFields(next.at, ClientFields) /\ next.at.step = "segment"
        /\ next.at.op = Op(c) /\ next.at.mem = m /\ next.ret = ret[c]
    BY <2>4, ContinueAt
  <2>6. ClientOK(next.at, t, uploads, published)
    BY <2>2, <2>3, <2>5 DEF ClientOK, PartSteps, FlightSteps
  <2> QED BY <2>5, <2>6 DEF Inv
<1> QED BY <1>1, <1>2 DEF PartGoesOn

\* A step that adds a segment under the content key of the call, or nothing.
LEMMA AddStep ==
    ASSUME Inv, NEW c \in Clients, cl[c].step \in PartSteps, History(c),
           \/ Still(sat, sat')
           \/ \E seg : Opens(seg.key, ContentKey(c)) /\ Calm(sat, sat', {<<Op(c).id, seg>>}),
           NEW next, Outcome(c, next.at, next.ret), PartGoesOn(c, next)
    PROVE  Inv'
PROOF
<1>1. PICK t : t = sat' OBVIOUS
<1>2. ClientOK(next.at, t, uploads, published) /\ ResultOK(next.ret, published) BY PartClient
<1>3. cl[c].step \notin {"begin_upload", "finish_relocate"} BY DEF PartSteps, FlightSteps
<1>4. CASE Still(sat, sat') BY <1>1, <1>2, <1>3, <1>4, StillGo
<1>5. ASSUME NEW seg, Opens(seg.key, ContentKey(c)), Calm(sat, sat', {<<Op(c).id, seg>>}) PROVE Inv'
  <2>1. PICK W : W = {<<Op(c).id, seg>>} OBVIOUS
  <2>2. ASSUME NEW id \in DOMAIN sat.pending, NEW x, <<id, x>> \in W
        PROVE  Opens(x.key, PlaceOf(sat, id))
    <3>1. id = Op(c).id /\ x = seg BY <2>1, <2>2
    <3>2. PlaceOf(sat, Op(c).id) = ContentKey(c) BY <3>1, UploadPlace
    <3> QED BY <3>1, <3>2, <1>5
  <2>3. Calm(sat, sat', W) BY <1>5, <2>1
  <2> QED BY <1>1, <1>2, <1>3, <2>2, <2>3, CalmGo
<1> QED BY <1>4, <1>5

\* An inline segment is sealed for the place of its upload.
LEMMA InlineSegmentStep == ASSUME Inv, NEW c \in Clients, InlineSegment(c) PROVE Inv'
PROOF
<1>1. PICK s, a, q : s = sat /\ a = Key(c) /\ q = MakeInlineRequest(c) OBVIOUS
<1>2. SatelliteOK(s) BY <1>1 DEF Inv, ProjectOK
<1>3. cl[c].step = "segment" BY DEF InlineSegment, Running
<1>4. q.stream = Op(c).id /\ q.position = Position(c) /\ q.key = SegmentKey(c)
  BY <1>1 DEF MakeInlineRequest
<1>5. q.position \in SegmentPositions
  <2>1. Op(c).part \in Nat /\ Mem(c).index \in Nat
    BY <1>3 DEF Inv, ClientOK, Op, Mem, PartSteps
  <2> QED BY <1>4, <2>1 DEF Position, SegmentPositions
<1>6. PICK r : r = make_inline(s, a, q) OBVIOUS
<1>7. Still(s, r.s) \/ \E seg : seg.key = q.key /\ Calm(s, r.s, {<<q.stream, seg>>})
  BY <1>2, <1>5, <1>6, MakeInlineServes
<1>8. Opens(q.key, ContentKey(c)) BY <1>4 DEF SegmentKey, Seal, Opens
<1>9. Served(r) /\ History(c) BY <1>1, <1>6 DEF InlineSegment, Rpc, Served
<1>10. \/ Still(sat, sat')
       \/ \E seg : Opens(seg.key, ContentKey(c)) /\ Calm(sat, sat', {<<Op(c).id, seg>>})
  <2>1. Still(s, s) BY ONLY <1>2, ServesStutter
  <2> QED BY <2>1, <1>1, <1>4, <1>7, <1>8, <1>9 DEF Served
<1>11. PICK next : Outcome(c, next.at, next.ret) /\ PartGoesOn(c, next)
  BY DEF InlineSegment, Rpc, Outcome, Ends, PartGoesOn
<1>12. cl[c].step \in PartSteps BY <1>3 DEF PartSteps
<1> QED BY <1>9, <1>10, <1>11, <1>12, AddStep

\* A remote segment is sealed for the place of its upload, and its id leads
\* there.
LEMMA CommitSegmentStep == ASSUME Inv, NEW c \in Clients, CommitSegment(c) PROVE Inv'
PROOF
<1>1. PICK s, a, q : s = sat /\ a = Key(c) /\ q = CommitSegmentRequest(c) OBVIOUS
<1>2. SatelliteOK(s) BY <1>1 DEF Inv, ProjectOK
<1>3. cl[c].step = "pieces" BY DEF CommitSegment, Running
<1>4. q.segment = Mem(c).segment /\ q.key = SegmentKey(c) BY <1>1 DEF CommitSegmentRequest
<1>5. q.segment \in DOMAIN s.segmentToStream => s.segmentToStream[q.segment] = Op(c).id
  BY <1>1, <1>3, <1>4 DEF Inv, ClientOK, FlightSteps, Op, Mem
<1>6. PICK r : r = commit_segment(s, a, q) OBVIOUS
<1>7. Still(s, r.s) \/ \E seg : /\ seg.key = q.key /\ q.segment \in DOMAIN s.segmentToStream
                                /\ Calm(s, r.s, {<<s.segmentToStream[q.segment], seg>>})
  BY <1>2, <1>6, CommitSegmentServes
<1>8. Opens(q.key, ContentKey(c)) BY <1>4 DEF SegmentKey, Seal, Opens
<1>9. Served(r) /\ History(c) BY <1>1, <1>6 DEF CommitSegment, Rpc, Served
<1>10. \/ Still(sat, sat')
       \/ \E seg : Opens(seg.key, ContentKey(c)) /\ Calm(sat, sat', {<<Op(c).id, seg>>})
  <2>1. Still(s, s) BY ONLY <1>2, ServesStutter
  <2> QED BY <2>1, <1>1, <1>5, <1>7, <1>8, <1>9 DEF Served
<1>11. PICK next : Outcome(c, next.at, next.ret) /\ PartGoesOn(c, next)
  BY DEF CommitSegment, Rpc, Outcome, Ends, PartGoesOn
<1>12. cl[c].step \in PartSteps BY <1>3 DEF PartSteps, FlightSteps
<1> QED BY <1>9, <1>10, <1>11, <1>12, AddStep

\* The segment keys an object has.
SegmentKeysOf(o) ==
    [i \in DOMAIN o.segments |->
       [position |-> o.segments[i].position, key |-> o.segments[i].key]]

\* begin_copy answers with the keys of what is committed.
LEMMA BeginCopyAnswer ==
    ASSUME NEW s, NEW key, NEW q, NEW x, x = begin_copy(s, key, q), NEW l, l = <<q.bucket, q.key>>
    PROVE  /\ x.s = s
           /\ x.err = "ok" => /\ l \in DOMAIN s.committed
                              /\ x.ans.stream = s.committed[l].stream
                              /\ x.ans.segmentKeys = SegmentKeysOf(s.committed[l])
PROOF
<1>1. PICK a, b, d, f : /\ a = Allowed(s, key, "write") /\ b = BucketFound(s, q.bucket)
                        /\ d = BucketFound(s, q.newBucket) /\ f = ObjectFound(s, q.bucket, q.key)
  OBVIOUS
<1>2. FirstError(<<a, b, d, f>>) =
         IF a # "ok" THEN a ELSE IF b # "ok" THEN b ELSE IF d # "ok" THEN d ELSE f
  BY FirstError4
<1>3. PICK e : e = FirstError(<<a, b, d, f>>) OBVIOUS
<1>4. PICK o : o = s.committed[l] OBVIOUS
<1>5. PICK ans : ans = [stream |-> o.stream, metaKey |-> o.metaKey, segmentKeys |-> SegmentKeysOf(o)]
  OBVIOUS
<1>6. x = IF e # "ok" THEN Refuse(s, e) ELSE Reply(s, ans)
  BY <1>1, <1>3, <1>4, <1>5 DEF begin_copy, SegmentKeysOf
<1>7. x.s = s /\ (x.err = "ok" => e = "ok" /\ x.ans = ans) BY <1>6 DEF Refuse, Reply
<1>8. e = "ok" => f = "ok" BY <1>2, <1>3
<1>9. f = "ok" => l \in DOMAIN s.committed BY <1>1 DEF ObjectFound
<1>10. ans.stream = o.stream /\ ans.segmentKeys = SegmentKeysOf(o) BY <1>5
<1> QED BY ONLY <1>4, <1>7, <1>8, <1>9, <1>10

\* The keys of an object as it is, sealed again under another key.
LEMMA ReencryptedFit ==
    ASSUME NEW o, NEW e, SameEdition(Edition(o), e), NEW old, NEW new, NEW keys,
           keys = reencrypt_segment_keys(SegmentKeysOf(o), old, new)
    PROVE  KeysFit(keys, e, new)
PROOF
<1>1. PICK z : z = SegmentKeysOf(o) OBVIOUS
<1>2. /\ DOMAIN keys = DOMAIN o.segments
      /\ \A i \in DOMAIN o.segments : keys[i] = [z[i] EXCEPT !.key = Seal(@.sealed, new)]
  BY <1>1 DEF reencrypt_segment_keys, SegmentKeysOf
<1>3. ASSUME NEW i \in DOMAIN o.segments
      PROVE  /\ keys[i].position = o.segments[i].position
             /\ keys[i].key = Seal(o.segments[i].key.sealed, new)
  <2>1. z[i] = [position |-> o.segments[i].position, key |-> o.segments[i].key]
    BY <1>1 DEF SegmentKeysOf
  <2>2. keys[i] = [z[i] EXCEPT !.key = Seal(z[i].key.sealed, new)] BY <1>2
  <2> QED BY <2>1, <2>2
<1>4. /\ Edition(o).positions = Positions(o) /\ Edition(o).content = Content(o) BY DEF Edition
<1>5. e.positions = Positions(o) /\ (Distinct(Positions(o)) => e.content = Content(o))
  BY <1>4 DEF SameEdition
<1>6. ASSUME NEW i \in DOMAIN o.segments
      PROVE  Opens(keys[i].key, new) /\ keys[i].key.sealed = o.segments[i].key.sealed
  <2>1. PICK v : v = o.segments[i].key.sealed OBVIOUS
  <2>2. keys[i].key = Seal(v, new) BY <1>3, <2>1
  <2> QED BY <2>1, <2>2 DEF Seal, Opens
<1> QED BY <1>2, <1>3, <1>5, <1>6 DEF KeysFit, Positions, Content

\* The first RPC of a copy or move: what is kept fits the edition just read.
LEMMA BeginRelocateStep == ASSUME Inv, NEW c \in Clients, BeginRelocate(c) PROVE Inv'
PROOF
<1>1. PICK s, a, q, old, new :
         /\ s = sat /\ a = Key(c) /\ q = BeginRelocateRequest(c) /\ old = ContentKey(c)
         /\ new = derive_content_key(Op(c).newBucket, Op(c).newKey)
  OBVIOUS
<1>2. SatelliteOK(s) /\ EditionsOK(s, published) BY <1>1 DEF Inv, ProjectOK
<1>3. PICK r : r = IF Op(c).call = "copy_object" THEN begin_copy(s, a, q) ELSE begin_move(s, a, q) OBVIOUS
<1>4. PICK x : x = begin_copy(s, a, q) OBVIOUS
<1>5. r = x \/ (r.s = s /\ r.err # "ok") BY <1>3, <1>4 DEF begin_move, Refuse
<1>0. PICK l, o : l = <<q.bucket, q.key>> /\ o = s.committed[l] OBVIOUS
<1>6. /\ x.s = s
      /\ x.err = "ok" => /\ l \in DOMAIN s.committed
                         /\ x.ans.stream = s.committed[l].stream
                         /\ x.ans.segmentKeys = SegmentKeysOf(s.committed[l])
  BY ONLY <1>0, <1>4, BeginCopyAnswer
<1>7. Served(r) /\ History(c) /\ cl[c].step = "begin_relocate"
  BY <1>1, <1>3 DEF BeginRelocate, Running, Rpc, Served
<1>8. Still(sat, sat')
  <2>1. Still(s, s) BY ONLY <1>2, ServesStutter
  <2> QED BY <2>1, <1>1, <1>5, <1>6, <1>7 DEF Served
<1>9. PICK next : /\ Outcome(c, next.at, next.ret)
                  /\ \/ Ends(c, next)
                     \/ /\ r.err = "ok"
                        /\ next = Continue(c, "finish_relocate",
                             [stream |-> r.ans.stream, seen |-> r.ans.metaKey,
                              metaKey |-> Seal(r.ans.metaKey.sealed, new),
                              segmentKeys |-> reencrypt_segment_keys(r.ans.segmentKeys, old, new)])
  <2>1. PICK done : done = Continue(c, "finish_relocate",
                             [stream |-> r.ans.stream, seen |-> r.ans.metaKey,
                              metaKey |-> Seal(r.ans.metaKey.sealed, new),
                              segmentKeys |-> reencrypt_segment_keys(r.ans.segmentKeys, old, new)])
    OBVIOUS
  <2>2. \/ r.err = "ok" /\ Outcome(c, done.at, done.ret)
        \/ Outcome(c, Undecryptable(c).at, Undecryptable(c).ret)
        \/ \E e : Outcome(c, Fail(c, e).at, Fail(c, e).ret)
    BY <2>1, <1>1, <1>3 DEF BeginRelocate, Rpc, Outcome
  <2> QED BY ONLY <2>1, <2>2 DEF Ends
<1>10. CASE Ends(c, next)
  <2>1. ClientOK(next.at, sat', uploads, published) /\ ResultOK(next.ret, published)
    BY <1>7, <1>10, EndsOK
  <2> QED BY <2>1, <1>7, <1>8, <1>9, StillGo
<1>11. ASSUME r.err = "ok",
              next = Continue(c, "finish_relocate",
                             [stream |-> r.ans.stream, seen |-> r.ans.metaKey,
                              metaKey |-> Seal(r.ans.metaKey.sealed, new),
                              segmentKeys |-> reencrypt_segment_keys(r.ans.segmentKeys, old, new)])
       PROVE  Inv'
  <2>1. r = x /\ x.err = "ok" BY <1>5, <1>11
  <2>3. /\ l \in DOMAIN s.committed /\ r.ans.stream = o.stream
        /\ r.ans.segmentKeys = SegmentKeysOf(o)
    BY <1>0, <1>6, <2>1
  <2>4. PICK keys, m :
           /\ keys = reencrypt_segment_keys(r.ans.segmentKeys, old, new)
           /\ m = [stream |-> r.ans.stream, seen |-> r.ans.metaKey,
                   metaKey |-> Seal(r.ans.metaKey.sealed, new), segmentKeys |-> keys]
    OBVIOUS
  <2>5. PICK e : e = published[o.stream] OBVIOUS
  <2>6. o.stream \in DOMAIN published /\ SameEdition(Edition(o), e) BY <1>0, <1>2, <2>3, <2>5 DEF EditionsOK
  <2>7. KeysFit(keys, e, new)
    <3>1. keys = reencrypt_segment_keys(SegmentKeysOf(o), old, new)
      BY <2>3, <2>4
    <3> QED BY ONLY <3>1, <2>6, ReencryptedFit
  <2>8. /\ m.stream = o.stream /\ m.segmentKeys = keys /\ Opens(m.metaKey, new)
        /\ m.metaKey.sealed = m.seen.sealed
    BY <2>3, <2>4 DEF Seal, Opens
  <2>9. RelocationOK(Op(c), m, published) BY <1>1, <2>5, <2>6, <2>7, <2>8 DEF RelocationOK
  <2>10. next = Continue(c, "finish_relocate", m) BY <1>11, <2>4
  <2>11. /\ HasFields(next.at, ClientFields) /\ next.at.step = "finish_relocate"
         /\ next.at.op = Op(c) /\ next.at.mem = m /\ next.ret = ret[c]
    BY <2>10, ContinueAt
  <2>12. Op(c).newKey \in Path /\ Op(c).call # "download_object" BY <1>7 DEF Inv, ClientOK, Op
  <2>13. ClientOK(next.at, sat', uploads, published)
    BY <2>9, <2>11, <2>12 DEF ClientOK, PartSteps, FlightSteps
  <2>14. ResultOK(next.ret, published) BY <2>11 DEF Inv
  <2> QED BY <2>13, <2>14, <1>7, <1>8, <1>9, StillGo
<1> QED BY <1>9, <1>10, <1>11

\* get_object answers with what is committed.
LEMMA GetObjectAnswer ==
    ASSUME NEW s, NEW key, NEW b, NEW k, NEW x, x = get_object(s, key, b, k)
    PROVE  /\ x.s = s
           /\ x.err = "ok" => <<b, k>> \in DOMAIN s.committed /\ x.ans = s.committed[<<b, k>>]
PROOF
<1>1. PICK a, d, f : a = Allowed(s, key, "read") /\ d = BucketFound(s, b) /\ f = ObjectFound(s, b, k) OBVIOUS
<1>2. FirstError(<<a, d, f>>) = IF a # "ok" THEN a ELSE IF d # "ok" THEN d ELSE f BY FirstError3
<1>3. PICK e : e = FirstError(<<a, d, f>>) OBVIOUS
<1>4. x = IF e # "ok" THEN Refuse(s, e) ELSE Reply(s, s.committed[<<b, k>>])
  BY <1>1, <1>3 DEF get_object
<1>5. x.s = s /\ (x.err = "ok" => e = "ok" /\ x.ans = s.committed[<<b, k>>]) BY <1>4 DEF Refuse, Reply
<1>6. e = "ok" => f = "ok" BY <1>2, <1>3
<1>7. f = "ok" => <<b, k>> \in DOMAIN s.committed BY <1>1 DEF ObjectFound
<1> QED BY <1>5, <1>6, <1>7

\* The first RPC of an update: the checksum kept is that of the edition read.
LEMMA ReadForUpdateStep == ASSUME Inv, NEW c \in Clients, ReadForUpdate(c) PROVE Inv'
PROOF
<1>1. PICK s, a, b, k : s = sat /\ a = Key(c) /\ b = Op(c).bucket /\ k = EncKey(c) OBVIOUS
<1>2. SatelliteOK(s) /\ EditionsOK(s, published) BY <1>1 DEF Inv, ProjectOK
<1>3. PICK r : r = get_object(s, a, b, k) OBVIOUS
<1>4. r.s = s /\ (r.err = "ok" => <<b, k>> \in DOMAIN s.committed /\ r.ans = s.committed[<<b, k>>])
  BY ONLY <1>3, GetObjectAnswer
<1>5. Served(r) /\ History(c) /\ cl[c].step = "update_object_metadata"
  BY <1>1, <1>3 DEF ReadForUpdate, Running, Rpc, Served
<1>6. Still(sat, sat')
  <2>1. Still(s, s) BY ONLY <1>2, ServesStutter
  <2> QED BY <2>1, <1>1, <1>4, <1>5 DEF Served
<1>7. PICK next : /\ Outcome(c, next.at, next.ret)
                  /\ \/ Ends(c, next)
                     \/ /\ r.err = "ok"
                        /\ next = Continue(c, "write_metadata",
                             [stream |-> r.ans.stream, checksum |-> PlainChecksum(r.ans.checksum)])
  BY <1>1, <1>3 DEF ReadForUpdate, Rpc, Outcome, Ends
<1>8. CASE Ends(c, next)
  <2>1. ClientOK(next.at, sat', uploads, published) /\ ResultOK(next.ret, published)
    BY <1>5, <1>8, EndsOK
  <2> QED BY <2>1, <1>5, <1>6, <1>7, StillGo
<1>9. ASSUME r.err = "ok",
             next = Continue(c, "write_metadata",
                             [stream |-> r.ans.stream, checksum |-> PlainChecksum(r.ans.checksum)])
      PROVE  Inv'
  <2>1. PICK l, o : l = <<b, k>> /\ o = s.committed[l] OBVIOUS
  <2>2. l \in DOMAIN s.committed /\ r.ans = o BY <1>4, <1>9, <2>1
  <2>3. PICK sum, m : sum = PlainChecksum(o.checksum) /\ m = [stream |-> o.stream, checksum |-> sum] OBVIOUS
  <2>4. o.stream \in DOMAIN published /\ SameEdition(Edition(o), published[o.stream])
    BY <1>2, <2>1, <2>2 DEF EditionsOK
  <2>5. sum = published[o.stream].checksum BY <2>3, <2>4 DEF SameEdition, Edition
  <2>6. ChecksumOK(sum)
    <3>1. ChecksumOK(o.checksum) BY <1>2, <2>1, <2>2 DEF SatelliteOK, CommittedOK
    <3>2. PICK z : z = o.checksum OBVIOUS
    <3>3. z = [x \in {"alg", "composite", "value"} |-> z[x]] BY <3>1, <3>2 DEF ChecksumOK, HasFields
    <3>4. PICK w : w = [i \in DOMAIN z.value |-> z.value[i].sealed] OBVIOUS
    <3>5. sum = [z EXCEPT !.value = w] BY <2>3, <3>2, <3>4 DEF PlainChecksum
    <3>6. IsMap(w) BY <3>4 DEF IsMap
    <3>7. sum.value = w /\ HasFields(sum, {"alg", "composite", "value"}) BY <3>3, <3>5 DEF HasFields
    <3> QED BY <3>6, <3>7 DEF ChecksumOK
  <2>7. next = Continue(c, "write_metadata", m) BY <1>9, <2>2, <2>3
  <2>8. /\ HasFields(next.at, ClientFields) /\ next.at.step = "write_metadata"
        /\ next.at.op = Op(c) /\ next.at.mem = m /\ next.ret = ret[c]
    BY <2>7, ContinueAt
  <2>9. Op(c).key \in Path /\ Op(c).call # "download_object" BY <1>5 DEF Inv, ClientOK, Op
  <2>10. m.stream = o.stream /\ m.checksum = sum BY <2>3
  <2>11. ClientOK(next.at, sat', uploads, published)
    BY <2>4, <2>5, <2>6, <2>8, <2>9, <2>10 DEF ClientOK, PartSteps, FlightSteps
  <2>12. ResultOK(next.ret, published) BY <2>8 DEF Inv
  <2> QED BY <2>11, <2>12, <1>5, <1>6, <1>7, StillGo
<1> QED BY <1>7, <1>8, <1>9

\* The rest of a list that is not empty.
LEMMA ListTail ==
    ASSUME NEW q, IsList(q), NEW n \in Nat, Len(q) = n, n >= 1
    PROVE  /\ IsList(Tail(q)) /\ Len(Tail(q)) = n - 1 /\ Head(q) = q[1]
           /\ \A i \in 1..(n - 1) : Tail(q)[i] = q[i + 1]
PROOF
<1>1. PICK S : S = {q[i] : i \in 1..n} OBVIOUS
<1>2. q \in Seq(S) BY <1>1 DEF IsList
<1>3. PICK p : p = Tail(q) OBVIOUS
<1>4. q # <<>> BY <1>2
<1>5. p \in Seq(S) /\ Len(p) = n - 1 BY <1>2, <1>3, <1>4
<1>6. p = [i \in 1..Len(p) |-> p[i]] BY <1>5
<1>7. \A i \in 1..(n - 1) : p[i] = q[i + 1] BY <1>2, <1>3, <1>4
<1> QED BY <1>2, <1>3, <1>4, <1>5, <1>6, <1>7 DEF IsList

\* The first segment of an object, if it has one.
LEMMA ListFirst ==
    ASSUME NEW q, IsList(q), NEW d, d = SubSeq(q, 1, IF q = <<>> THEN 0 ELSE 1)
    PROVE  /\ d = <<>> => q = <<>>
           /\ d # <<>> => Len(q) >= 1 /\ Head(d) = q[1]
PROOF
<1>1. PICK n \in Nat : n = Len(q) BY DEF IsList
<1>2. PICK S : S = {q[i] : i \in 1..n} OBVIOUS
<1>3. q \in Seq(S) BY <1>1, <1>2 DEF IsList
<1>4. CASE q = <<>>
  <2>1. d = <<>> BY <1>3, <1>4
  <2> QED BY <1>4, <2>1
<1>5. CASE q # <<>>
  <2>1. n >= 1 BY <1>1, <1>3, <1>5
  <2>2. d = SubSeq(q, 1, 1) BY <1>5
  <2>3. d \in Seq(S) /\ Len(d) = 1 /\ d[1] = q[1] BY <1>1, <1>3, <2>1, <2>2
  <2>4. d # <<>> /\ Head(d) = d[1] BY <2>3
  <2> QED BY <1>1, <2>1, <2>3, <2>4
<1> QED BY <1>4, <1>5

\* download_object answers with the object's segments and the first of them.
LEMMA DownloadObjectAnswer ==
    ASSUME NEW s, NEW key, NEW b, NEW k, NEW version, NEW x, x = download_object(s, key, b, k, version),
           NEW l, l = <<b, k>>, NEW o, o = s.committed[l]
    PROVE  /\ x.s = s
           /\ x.err = "ok" => /\ l \in DOMAIN s.committed /\ x.ans.stream = o.stream
                              /\ x.ans.positions = Positions(o)
                              /\ x.ans.downloads = SubSeq(o.segments, 1, IF o.segments = <<>> THEN 0 ELSE 1)
PROOF
<1>1. PICK a, d : a = Allowed(s, key, "read") /\ d = require_committed_object(s, b, k, version) OBVIOUS
<1>2. FirstError(<<a, d>>) = IF a # "ok" THEN a ELSE d BY FirstError2
<1>3. PICK e : e = FirstError(<<a, d>>) OBVIOUS
<1>4. PICK ans : ans = [stream |-> o.stream, positions |-> Positions(o),
                        downloads |-> SubSeq(o.segments, 1, IF o.segments = <<>> THEN 0 ELSE 1)]
  OBVIOUS
<1>5. x = IF e # "ok" THEN Refuse(s, e) ELSE Reply(s, ans)
  BY <1>1, <1>3, <1>4 DEF download_object, Positions
<1>6. x.s = s /\ (x.err = "ok" => e = "ok" /\ x.ans = ans) BY <1>5 DEF Refuse, Reply
<1>7. e = "ok" => d = "ok" BY <1>2, <1>3
<1>8. d = "ok" => l \in DOMAIN s.committed
  <2>1. PICK u, v, w : /\ u = BucketFound(s, b) /\ v = ObjectFound(s, b, k)
                       /\ w = IF <<b, k>> \in DOMAIN s.committed /\ version # 0
                                 /\ version \notin {s.committed[<<b, k>>].version, s.committed[<<b, k>>].stream}
                              THEN "ObjectNotFound" ELSE "ok"
    OBVIOUS
  <2>2. FirstError(<<u, v, w>>) = IF u # "ok" THEN u ELSE IF v # "ok" THEN v ELSE w BY FirstError3
  <2>3. d = FirstError(<<u, v, w>>) BY <1>1, <2>1 DEF require_committed_object
  <2>4. d = "ok" => v = "ok" BY <2>2, <2>3
  <2>5. v = "ok" => l \in DOMAIN s.committed BY <2>1 DEF ObjectFound
  <2> QED BY <2>4, <2>5
<1>9. /\ ans.stream = o.stream /\ ans.positions = Positions(o)
      /\ ans.downloads = SubSeq(o.segments, 1, IF o.segments = <<>> THEN 0 ELSE 1)
  BY <1>4
<1> QED BY <1>6, <1>7, <1>8, <1>9

\* download_segment answers with a segment of the stream at that position.
LEMMA DownloadSegmentAnswer ==
    ASSUME NEW s, SatelliteOK(s), NEW key, NEW stream, NEW p, NEW x, x = download_segment(s, key, stream, p),
           NEW l, l = LocationOf(s, stream), NEW o, o = s.committed[l]
    PROVE  /\ x.s = s
           /\ x.err = "ok" => /\ l \in DOMAIN s.committed /\ o.stream = stream
                              /\ \E i \in DOMAIN o.segments : o.segments[i].position = p /\ x.ans = o.segments[i]
PROOF
<1>1. PICK e, at : e = Allowed(s, key, "read") /\ at = {i \in DOMAIN o.segments : o.segments[i].position = p}
  OBVIOUS
<1>2. PICK m : m = CHOOSE i \in at : \A j \in at : i <= j OBVIOUS
<1>3. x = IF e # "ok" THEN Refuse(s, e) ELSE IF l = None THEN Refuse(s, "ObjectNotFound")
          ELSE IF at = {} THEN Refuse(s, "SegmentNotFound") ELSE Reply(s, o.segments[m])
  BY <1>1, <1>2 DEF download_segment
<1>4. x.s = s /\ (x.err = "ok" => l # None /\ at # {} /\ x.ans = o.segments[m])
  BY <1>3 DEF Refuse, Reply
<1>5. l # None => l \in DOMAIN s.committed /\ o.stream = stream
  BY LocationFound DEF IsSome
<1>6. ASSUME l \in DOMAIN s.committed, at # {} PROVE m \in at
  <2>1. SegmentsOK(o.segments) BY <1>6 DEF SatelliteOK, CommittedOK
  <2>2. at \subseteq Nat BY <1>1, <2>1 DEF SegmentsOK, IsList
  <2>3. PICK i \in at : \A j \in at : i <= j BY <1>6, <2>2, Smallest
  <2> QED BY <1>2, <2>3
<1> QED BY <1>1, <1>4, <1>5, <1>6

\* What a download that is done, or failed, leaves.
LEMMA DownloadEnds ==
    ASSUME Inv, NEW c \in Clients, NEW next, NEW v,
           \/ \E x : next = Fail(c, x)
           \/ next = Undecryptable(c)
           \/ /\ next = Return(c, v) /\ v.stream \in DOMAIN published
              /\ Distinct(published[v.stream].positions) => v.read = published[v.stream].content,
           NEW s
    PROVE  ClientOK(next.at, s, uploads, published) /\ ResultOK(next.ret, published)
PROOF
<1>1. HasFields(cl[c], ClientFields) BY DEF Inv, ClientOK
<1>2. PICK k : k = Idle(c) OBVIOUS
<1>3. HasFields(k, ClientFields) /\ k.step = "idle" BY <1>1, <1>2 DEF HasFields, ClientFields, Idle
<1>4. ClientOK(k, s, uploads, published) BY <1>3, IdleOK
<1>5. next.at = k BY <1>2 DEF Return, Fail, Undecryptable
<1>6. next.ret.err # "ok" \/ (next = Return(c, v) /\ next.ret.value = v)
  BY RemoteError DEF Return, Fail, Undecryptable
<1>7. CASE next = Return(c, v)
  <2>1. next.ret.err = "ok" /\ next.ret.value = v BY <1>7 DEF Return
  <2>2. ASSUME \E x : next = Fail(c, x) PROVE FALSE
    BY <2>1, <2>2, RemoteError DEF Fail
  <2>3. next # Undecryptable(c) BY <2>1 DEF Undecryptable
  <2>4. v.stream \in DOMAIN published
        /\ (Distinct(published[v.stream].positions) => v.read = published[v.stream].content)
    BY <2>2, <2>3
  <2> QED BY <1>4, <1>5, <2>1, <2>4 DEF ResultOK
<1>8. CASE next.ret.err # "ok" BY <1>4, <1>5, <1>8 DEF ResultOK
<1> QED BY <1>6, <1>7, <1>8

\* An object as its edition says.
AsEdition(q, e, n) ==
    /\ DOMAIN e.positions = 1..n /\ DOMAIN q = 1..n
    /\ \A i \in 1..n : e.positions[i] = q[i].position
    /\ Distinct(e.positions) => e.content = [i \in 1..n |-> q[i].key.sealed]

\* What is committed agrees with the edition in the history.
LEMMA ObjectAsEdition ==
    ASSUME NEW o, SegmentsOK(o.segments), NEW e, SameEdition(Edition(o), e), NEW n \in Nat, n = Len(o.segments)
    PROVE  e.positions = Positions(o) /\ AsEdition(o.segments, e, n)
PROOF
<1>1. DOMAIN o.segments = 1..n BY DEF SegmentsOK, IsList
<1>2. Edition(o).positions = Positions(o) /\ Edition(o).content = Content(o) BY DEF Edition
<1>3. e.positions = Positions(o) /\ (Distinct(e.positions) => e.content = Content(o))
  BY <1>2 DEF SameEdition
<1> QED BY <1>1, <1>3 DEF Positions, Content, AsEdition

\* The first RPC of a download: its first segment is the edition's.
LEMMA DownloadObjectStep == ASSUME Inv, NEW c \in Clients, DownloadObject(c) PROVE Inv'
PROOF
<1>1. PICK s, a, b, k, n : /\ s = sat /\ a = Key(c) /\ b = Op(c).bucket /\ k = EncKey(c)
                           /\ n = Op(c).version
  OBVIOUS
<1>2. PICK pub : pub = published OBVIOUS
<1>3. SatelliteOK(s) /\ EditionsOK(s, pub) BY <1>1, <1>2 DEF Inv, ProjectOK
<1>4. PICK r : r = download_object(s, a, b, k, n) OBVIOUS
<1>5. PICK l, o, q : l = <<b, k>> /\ o = s.committed[l] /\ q = o.segments OBVIOUS
<1>6. /\ r.s = s
      /\ r.err = "ok" => /\ l \in DOMAIN s.committed /\ r.ans.stream = o.stream
                         /\ r.ans.positions = Positions(o)
                         /\ r.ans.downloads = SubSeq(q, 1, IF q = <<>> THEN 0 ELSE 1)
  BY ONLY <1>4, <1>5, DownloadObjectAnswer
<1>7. Served(r) /\ History(c) /\ cl[c].step = "download_object"
  BY <1>1, <1>4 DEF DownloadObject, Running, Rpc, Served
<1>8. Still(sat, sat')
  <2>1. Still(s, s) BY ONLY <1>3, ServesStutter
  <2> QED BY <2>1, <1>1, <1>6, <1>7 DEF Served
<1>9. PICK x : x = r.ans OBVIOUS
<1>10. PICK next :
          /\ Outcome(c, next.at, next.ret)
          /\ \/ \E y : next = Fail(c, y)
             \/ next = Undecryptable(c)
             \/ /\ r.err = "ok" /\ x.downloads = <<>>
                /\ next = Return(c, [stream |-> x.stream, read |-> <<>>])
             \/ /\ r.err = "ok" /\ x.downloads # <<>> /\ Len(x.positions) = 1
                /\ next = Return(c, [stream |-> x.stream, read |-> <<Head(x.downloads).key.sealed>>])
             \/ /\ r.err = "ok" /\ x.downloads # <<>> /\ Len(x.positions) # 1
                /\ next = Continue(c, "download_segment",
                             [stream |-> x.stream, rest |-> Tail(x.positions),
                              read |-> <<Head(x.downloads).key.sealed>>])
  <2>1. PICK next :
           /\ Outcome(c, next.at, next.ret)
           /\ \/ \E y : next = Fail(c, y)
              \/ /\ r.err = "ok"
                 /\ next = IF x.downloads = <<>> THEN Return(c, [stream |-> x.stream, read |-> <<>>])
                           ELSE IF ~Opens(Head(x.downloads).key, ContentKey(c)) THEN Undecryptable(c)
                           ELSE IF Len(x.positions) = 1
                           THEN Return(c, [stream |-> x.stream, read |-> <<Head(x.downloads).key.sealed>>])
                           ELSE Continue(c, "download_segment",
                                   [stream |-> x.stream, rest |-> Tail(x.positions),
                                    read |-> <<Head(x.downloads).key.sealed>>])
    BY <1>1, <1>4, <1>9, ZenonT(60) DEF DownloadObject, Rpc, Outcome
  <2> QED BY <2>1
<1>11. SUFFICES ClientOK(next.at, sat', uploads, published) /\ ResultOK(next.ret, published)
  BY <1>7, <1>8, <1>10, StillGo
<1>12. CASE (\E y : next = Fail(c, y)) \/ next = Undecryptable(c)
  BY <1>12, DownloadEnds
<1>13. PICK e : e = pub[o.stream] OBVIOUS
<1>14. ASSUME r.err = "ok"
       PROVE  /\ o.stream \in DOMAIN pub /\ SameEdition(Edition(o), e) /\ SegmentsOK(q)
              /\ x.stream = o.stream /\ x.positions = Positions(o)
              /\ x.downloads = SubSeq(q, 1, IF q = <<>> THEN 0 ELSE 1)
  BY <1>3, <1>5, <1>6, <1>9, <1>13, <1>14 DEF EditionsOK, SatelliteOK, CommittedOK
<1>15. ASSUME r.err = "ok", NEW z \in Nat, z = Len(q)
       PROVE  /\ e.positions = Positions(o) /\ DOMAIN e.positions = 1..z /\ DOMAIN q = 1..z
              /\ \A i \in 1..z : e.positions[i] = q[i].position
              /\ Distinct(e.positions) => e.content = [i \in 1..z |-> q[i].key.sealed]
  <2>1. SegmentsOK(o.segments) /\ SameEdition(Edition(o), e) /\ z = Len(o.segments)
    BY <1>5, <1>14, <1>15
  <2>2. e.positions = Positions(o) /\ AsEdition(o.segments, e, z) BY <2>1, ObjectAsEdition
  <2> QED BY <2>2, <1>5 DEF AsEdition
<1>16. ASSUME r.err = "ok"
       PROVE  /\ x.downloads = <<>> => q = <<>>
              /\ x.downloads # <<>> => Len(q) >= 1 /\ Head(x.downloads) = q[1]
  <2>1. PICK d : d = x.downloads OBVIOUS
  <2>2. IsList(q) /\ d = SubSeq(q, 1, IF q = <<>> THEN 0 ELSE 1) BY <1>14, <1>16, <2>1 DEF SegmentsOK
  <2>3. (d = <<>> => q = <<>>) /\ (d # <<>> => Len(q) >= 1 /\ Head(d) = q[1])
    BY ONLY <2>2, ListFirst
  <2> QED BY <2>1, <2>3
<1>17. ASSUME r.err = "ok" PROVE Len(q) \in Nat BY <1>14, <1>17 DEF SegmentsOK, IsList
<1>18. ASSUME r.err = "ok", x.downloads = <<>>,
              next = Return(c, [stream |-> x.stream, read |-> <<>>])
       PROVE  ClientOK(next.at, sat', uploads, published) /\ ResultOK(next.ret, published)
  <2>1. PICK v : v = [stream |-> x.stream, read |-> <<>>] OBVIOUS
  <2>2. q = <<>> BY <1>16, <1>18
  <2>3. Len(q) = 0 BY <2>2
  <2>4. PICK z \in Nat : z = 0 /\ z = Len(q) BY <2>3
  <2>5. Distinct(e.positions) => e.content = [i \in 1..z |-> q[i].key.sealed] BY <1>15, <1>18, <2>4
  <2>6. [i \in 1..z |-> q[i].key.sealed] = <<>> BY <2>4
  <2>7. v.stream = o.stream /\ v.read = <<>> BY <1>14, <1>18, <2>1
  <2>8. /\ next = Return(c, v) /\ v.stream \in DOMAIN published
        /\ Distinct(published[v.stream].positions) => v.read = published[v.stream].content
    BY <1>2, <1>13, <1>14, <1>18, <2>1, <2>5, <2>6, <2>7
  <2> QED BY <2>8, DownloadEnds
<1>19. ASSUME r.err = "ok", NEW z \in Nat, z = Len(q)
       PROVE  IsList(x.positions) /\ Len(x.positions) = z /\ \A i \in 1..z : x.positions[i] = e.positions[i]
  <2>1. x.positions = e.positions /\ DOMAIN q = 1..z BY <1>14, <1>15, <1>19
  <2>2. x.positions = [i \in 1..z |-> q[i].position] BY <1>5, <1>14, <1>19, <2>1 DEF Positions
  <2>3. PICK p : p = x.positions OBVIOUS
  <2>4. p = [i \in 1..z |-> q[i].position] BY <2>2, <2>3
  <2>5. p \in Seq({q[i].position : i \in 1..z}) /\ Len(p) = z BY <2>4
  <2>6. p = [i \in 1..Len(p) |-> p[i]] BY <2>4, <2>5
  <2> QED BY <2>1, <2>3, <2>5, <2>6 DEF IsList
<1>20. ASSUME r.err = "ok", x.downloads # <<>>, Len(x.positions) = 1,
              next = Return(c, [stream |-> x.stream, read |-> <<Head(x.downloads).key.sealed>>])
       PROVE  ClientOK(next.at, sat', uploads, published) /\ ResultOK(next.ret, published)
  <2>1. PICK v, y : y = Head(x.downloads).key.sealed /\ v = [stream |-> x.stream, read |-> <<y>>] OBVIOUS
  <2>2. PICK z \in Nat : z = Len(q) BY <1>17, <1>20
  <2>3. z = 1 BY <1>19, <1>20, <2>2
  <2>4. y = q[1].key.sealed BY <1>16, <1>20, <2>1
  <2>5. Distinct(e.positions) => e.content = [i \in 1..z |-> q[i].key.sealed] BY <1>15, <1>20, <2>2
  <2>6. [i \in 1..z |-> q[i].key.sealed] = <<y>> BY <2>3, <2>4
  <2>7. v.stream = o.stream /\ v.read = <<y>> BY <1>14, <1>20, <2>1
  <2>8. /\ next = Return(c, v) /\ v.stream \in DOMAIN published
        /\ Distinct(published[v.stream].positions) => v.read = published[v.stream].content
    BY <1>2, <1>13, <1>14, <1>20, <2>1, <2>5, <2>6, <2>7
  <2> QED BY <2>8, DownloadEnds
<1>21. ASSUME r.err = "ok", x.downloads # <<>>, Len(x.positions) # 1,
              next = Continue(c, "download_segment",
                             [stream |-> x.stream, rest |-> Tail(x.positions),
                              read |-> <<Head(x.downloads).key.sealed>>])
       PROVE  ClientOK(next.at, sat', uploads, published) /\ ResultOK(next.ret, published)
  <2>1. PICK y, w, m : /\ y = <<Head(x.downloads).key.sealed>> /\ w = Tail(x.positions)
                       /\ m = [stream |-> x.stream, rest |-> w, read |-> y]
    OBVIOUS
  <2>2. PICK z \in Nat : z = Len(q) BY <1>17, <1>21
  <2>3. PICK p : p = x.positions OBVIOUS
  <2>4. IsList(p) /\ Len(p) = z /\ \A i \in 1..z : p[i] = e.positions[i] BY <1>19, <1>21, <2>2, <2>3
  <2>5. z >= 2 BY <1>16, <1>21, <2>2, <2>3, <2>4
  <2>6. IsList(w) /\ Len(w) = z - 1 /\ \A i \in 1..(z - 1) : w[i] = p[i + 1]
    BY <2>1, <2>3, <2>4, <2>5, ListTail
  <2>7. y = <<q[1].key.sealed>> BY <1>16, <1>21, <2>1
  <2>8. IsList(y) /\ Len(y) = 1 /\ y[1] = q[1].key.sealed BY <2>7 DEF IsList
  <2>9. m.stream = o.stream /\ m.rest = w /\ m.read = y BY <1>14, <1>21, <2>1
  <2>10. /\ DOMAIN e.positions = 1..z
         /\ Distinct(e.positions) => e.content = [i \in 1..z |-> q[i].key.sealed]
    BY <1>15, <1>21, <2>2
  <2>11. 1..(1 + (z - 1)) = 1..z /\ \A i \in 1..(z - 1) : i + 1 \in 1..z BY <2>5
  <2>12. \A i \in 1..(z - 1) : w[i] = e.positions[1 + i] BY <2>4, <2>6, <2>11
  <2>13. Distinct(e.positions) => \A i \in 1..1 : y[i] = e.content[i] BY <2>5, <2>8, <2>10
  <2>14. ReadingOK(m, published)
    <3>1. m.stream \in DOMAIN published /\ published[m.stream] = e BY <1>2, <1>13, <1>14, <1>21, <2>9
    <3>2. Len(m.read) = 1 /\ Len(m.rest) = z - 1 /\ IsList(m.read) /\ IsList(m.rest) BY <2>6, <2>8, <2>9
    <3>3. DOMAIN e.positions = 1..(1 + (z - 1)) BY <2>10, <2>11
    <3>4. \A i \in 1..(z - 1) : m.rest[i] = e.positions[1 + i] BY <2>9, <2>12
    <3>5. Distinct(e.positions) => \A i \in 1..1 : m.read[i] = e.content[i] BY <2>9, <2>13
    <3>6. z - 1 >= 1 BY <2>5
    <3> QED BY <3>1, <3>2, <3>3, <3>4, <3>5, <3>6 DEF ReadingOK
  <2>15. next = Continue(c, "download_segment", m) BY <1>21, <2>1
  <2>16. /\ HasFields(next.at, ClientFields) /\ next.at.step = "download_segment"
         /\ next.at.op = Op(c) /\ next.at.mem = m /\ next.ret = ret[c]
    BY <2>15, ContinueAt
  <2>17. ClientOK(next.at, sat', uploads, published)
    BY <2>14, <2>16 DEF ClientOK, PartSteps, FlightSteps
  <2> QED BY <2>16, <2>17 DEF Inv
<1> QED BY <1>10, <1>12, <1>18, <1>20, <1>21

\* The first n + 1 payloads of an edition of z segments.
ReadSoFar(read, e, n, z) ==
    /\ IsList(read) /\ Len(read) = n + 1
    /\ Distinct(e.positions) => /\ \A j \in 1..(n + 1) : read[j] = e.content[j]
                                /\ e.content = [j \in 1..z |-> e.content[j]]

\* The next segment of a download: under positions that are distinct it is
\* the one that follows what was read.
SegmentComes(pub, m, e, q, z, i, y, read, n, k) ==
    /\ ReadingOK(m, pub) /\ e = pub[m.stream] /\ AsEdition(q, e, z)
    /\ z \in Nat /\ i \in 1..z /\ q[i].position = Head(m.rest)
    /\ y = q[i].key.sealed /\ read = Append(m.read, y)
    /\ n \in Nat /\ n = Len(m.read) /\ k \in Nat /\ k = Len(m.rest)

\* One more segment read, in the place it is asked for.
LEMMA SegmentRead ==
    ASSUME NEW pub, NEW m, NEW e, NEW q, NEW z, NEW i, NEW y, NEW read, NEW n, NEW k,
           SegmentComes(pub, m, e, q, z, i, y, read, n, k)
    PROVE  z = n + k /\ k >= 1 /\ m.stream \in DOMAIN pub /\ ReadSoFar(read, e, n, z)
PROOF
<1>0. /\ ReadingOK(m, pub) /\ e = pub[m.stream] /\ AsEdition(q, e, z)
      /\ z \in Nat /\ i \in 1..z /\ q[i].position = Head(m.rest)
      /\ y = q[i].key.sealed /\ read = Append(m.read, y)
      /\ n \in Nat /\ n = Len(m.read) /\ k \in Nat /\ k = Len(m.rest)
  BY DEF SegmentComes
<1> USE <1>0
<1>1. /\ m.stream \in DOMAIN pub /\ IsList(m.read) /\ IsList(m.rest) /\ k >= 1
      /\ DOMAIN e.positions = 1..(n + k)
      /\ \A j \in 1..k : m.rest[j] = e.positions[n + j]
      /\ Distinct(e.positions) => \A j \in 1..n : m.read[j] = e.content[j]
  BY DEF ReadingOK
<1>2. /\ DOMAIN e.positions = 1..z /\ \A j \in 1..z : e.positions[j] = q[j].position
      /\ Distinct(e.positions) => e.content = [j \in 1..z |-> q[j].key.sealed]
  BY DEF AsEdition
<1>3. z = n + k
  <2>1. PICK v \in Nat : v = n + k BY ONLY n \in Nat, k \in Nat
  <2>2. v >= 1 /\ z >= 1 BY ONLY <2>1, <1>1, i \in 1..z, z \in Nat, n \in Nat, k \in Nat
  <2>3. 1..z = 1..v BY <1>1, <1>2, <2>1
  <2>4. z \in 1..v /\ v \in 1..z BY ONLY <2>2, <2>3, z \in Nat, v \in Nat
  <2>5. z = v BY ONLY <2>4, z \in Nat, v \in Nat
  <2> QED BY <2>1, <2>5
<1>4. Head(m.rest) = m.rest[1] BY <1>1, ListTail
<1>5. n + 1 \in 1..z /\ 1 \in 1..k BY ONLY <1>1, <1>3, n \in Nat, k \in Nat, z \in Nat
<1>6. e.positions[i] = e.positions[n + 1] BY <1>1, <1>2, <1>4, <1>5
<1>7. Distinct(e.positions) => i = n + 1 BY <1>2, <1>5, <1>6 DEF Distinct
<1>8. PICK w : w = m.read OBVIOUS
<1>9. /\ IsList(read) /\ Len(read) = n + 1 /\ \A j \in 1..n : read[j] = w[j]
      /\ read[n + 1] = y
  <2>1. IsList(w) /\ read = Append(w, y) /\ n = Len(w) BY <1>1, <1>8
  <2> QED BY ONLY <2>1, ListAppend
<1>10. ASSUME Distinct(e.positions), NEW j \in 1..(n + 1) PROVE read[j] = e.content[j]
  <2>1. CASE j = n + 1
    <3>1. e.content[n + 1] = q[n + 1].key.sealed BY <1>2, <1>5, <1>10
    <3> QED BY <2>1, <3>1, <1>7, <1>8, <1>9, <1>10
  <2>2. CASE j # n + 1
    <3>1. j \in 1..n BY <2>2
    <3> QED BY <3>1, <1>1, <1>8, <1>9, <1>10
  <2> QED BY <2>1, <2>2
<1>11. Distinct(e.positions) => e.content = [j \in 1..z |-> e.content[j]] BY <1>2
<1>12. ReadSoFar(read, e, n, z) BY <1>9, <1>10, <1>11 DEF ReadSoFar
<1> QED BY <1>1, <1>3, <1>12

\* A later RPC of a download: the stream may have moved, but it has one edition
\* and, when positions are distinct, one segment at each.
LEMMA DownloadSegmentStep == ASSUME Inv, NEW c \in Clients, DownloadSegment(c) PROVE Inv'
PROOF
<1>1. PICK s, a, m, p : /\ s = sat /\ a = Key(c) /\ m = Mem(c) /\ p = Head(Mem(c).rest)
  OBVIOUS
<1>2. PICK pub : pub = published OBVIOUS
<1>3. SatelliteOK(s) /\ EditionsOK(s, pub) BY <1>1, <1>2 DEF Inv, ProjectOK
<1>4. PICK r : r = download_segment(s, a, m.stream, p) OBVIOUS
<1>5. PICK l, o, q : l = LocationOf(s, m.stream) /\ o = s.committed[l] /\ q = o.segments OBVIOUS
<1>6. /\ r.s = s
      /\ r.err = "ok" => /\ l \in DOMAIN s.committed /\ o.stream = m.stream
                         /\ \E i \in DOMAIN q : q[i].position = p /\ r.ans = q[i]
  BY ONLY <1>3, <1>4, <1>5, DownloadSegmentAnswer
<1>7. Served(r) /\ History(c) /\ cl[c].step = "download_segment"
  BY <1>1, <1>4 DEF DownloadSegment, Running, Rpc, Served
<1>8. Still(sat, sat')
  <2>1. Still(s, s) BY ONLY <1>3, ServesStutter
  <2> QED BY <2>1, <1>1, <1>6, <1>7 DEF Served
<1>9. PICK x, read : x = r.ans /\ read = Append(m.read, x.key.sealed) BY Zenon
<1>10. PICK next :
          /\ Outcome(c, next.at, next.ret)
          /\ \/ \E y : next = Fail(c, y)
             \/ next = Undecryptable(c)
             \/ /\ r.err = "ok" /\ Len(m.rest) = 1
                /\ next = Return(c, [stream |-> m.stream, read |-> read])
             \/ /\ r.err = "ok" /\ Len(m.rest) # 1
                /\ next = Continue(c, "download_segment",
                             [stream |-> m.stream, rest |-> Tail(m.rest), read |-> read])
  <2>1. PICK next :
           /\ Outcome(c, next.at, next.ret)
           /\ \/ \E y : next = Fail(c, y)
              \/ /\ r.err = "ok"
                 /\ next = IF ~Opens(x.key, ContentKey(c)) THEN Undecryptable(c)
                           ELSE IF Len(m.rest) = 1
                           THEN Return(c, [stream |-> m.stream, read |-> read])
                           ELSE Continue(c, "download_segment",
                                   [stream |-> m.stream, rest |-> Tail(m.rest), read |-> read])
    BY <1>1, <1>4, <1>9, ZenonT(60) DEF DownloadSegment, Rpc, Outcome
  <2> QED BY <2>1
<1>11. SUFFICES ClientOK(next.at, sat', uploads, published) /\ ResultOK(next.ret, published)
  BY <1>7, <1>8, <1>10, StillGo
<1>12. CASE (\E y : next = Fail(c, y)) \/ next = Undecryptable(c)
  BY <1>12, DownloadEnds
<1>13. PICK e : e = pub[m.stream] OBVIOUS
<1>14. ReadingOK(m, pub) BY <1>1, <1>2, <1>7 DEF Inv, ClientOK, Mem
<1>15. PICK n \in Nat, k \in Nat : n = Len(m.read) /\ k = Len(m.rest)
  BY <1>14 DEF ReadingOK, IsList
<1>16. ASSUME r.err = "ok"
       PROVE  \E z \in Nat : /\ AsEdition(q, e, z)
                             /\ \E i \in 1..z : q[i].position = Head(m.rest) /\ x = q[i]
  <2>1. l \in DOMAIN s.committed /\ o.stream = m.stream BY <1>6, <1>16
  <2>2. SegmentsOK(o.segments) /\ SameEdition(Edition(o), e)
    BY <1>3, <1>5, <1>13, <2>1 DEF EditionsOK, SatelliteOK, CommittedOK
  <2>3. PICK z \in Nat : z = Len(o.segments) BY <2>2 DEF SegmentsOK, IsList
  <2>4. AsEdition(o.segments, e, z) BY <2>2, <2>3, ObjectAsEdition
  <2>5. AsEdition(q, e, z) /\ DOMAIN q = 1..z BY <2>4, <1>5 DEF AsEdition
  <2>6. \E i \in DOMAIN q : q[i].position = p /\ x = q[i] BY <1>6, <1>9, <1>16
  <2>7. p = Head(m.rest) BY <1>1
  <2> QED BY <2>5, <2>6, <2>7
<1>17. ASSUME r.err = "ok"
       PROVE  \E z \in Nat :
              /\ z = n + k /\ k >= 1 /\ m.stream \in DOMAIN pub /\ AsEdition(q, e, z)
              /\ IsList(read) /\ Len(read) = n + 1
              /\ Distinct(e.positions) => /\ \A j \in 1..(n + 1) : read[j] = e.content[j]
                                          /\ e.content = [j \in 1..z |-> e.content[j]]
  <2>1. PICK z \in Nat : /\ AsEdition(q, e, z)
                         /\ \E i \in 1..z : q[i].position = Head(m.rest) /\ x = q[i]
    BY <1>16, <1>17
  <2>2. PICK i \in 1..z : q[i].position = Head(m.rest) /\ x = q[i] BY <2>1
  <2>3. PICK y : y = q[i].key.sealed OBVIOUS
  <2>6. read = Append(m.read, y) BY <1>9, <2>2, <2>3
  <2>7. p = Head(m.rest) /\ q[i].position = p BY <1>1, <2>2
  <2>4. SegmentComes(pub, m, e, q, z, i, y, read, n, k)
    BY <1>13, <1>14, <1>15, <2>1, <2>3, <2>6, <2>7 DEF SegmentComes
  <2>5. z = n + k /\ k >= 1 /\ m.stream \in DOMAIN pub /\ ReadSoFar(read, e, n, z)
    BY ONLY <2>4, SegmentRead
  <2> QED BY <2>1, <2>5 DEF ReadSoFar
<1>18. ASSUME r.err = "ok", Len(m.rest) = 1, next = Return(c, [stream |-> m.stream, read |-> read])
       PROVE  ClientOK(next.at, sat', uploads, published) /\ ResultOK(next.ret, published)
  <2>1. PICK v : v = [stream |-> m.stream, read |-> read] OBVIOUS
  <2>2. PICK z \in Nat :
              /\ z = n + k /\ k >= 1 /\ m.stream \in DOMAIN pub
              /\ IsList(read) /\ Len(read) = n + 1
              /\ Distinct(e.positions) => /\ \A j \in 1..(n + 1) : read[j] = e.content[j]
                                          /\ e.content = [j \in 1..z |-> e.content[j]]
    BY <1>17, <1>18
  <2>3. z = n + 1 BY <1>15, <1>18, <2>2
  <2>4. read = [j \in 1..z |-> read[j]] BY <2>2, <2>3 DEF IsList
  <2>5. Distinct(e.positions) => read = e.content BY <2>2, <2>3, <2>4
  <2>6. v.stream = m.stream /\ v.read = read BY <2>1
  <2>7. /\ next = Return(c, v) /\ v.stream \in DOMAIN published
        /\ Distinct(published[v.stream].positions) => v.read = published[v.stream].content
    BY <1>2, <1>13, <1>18, <2>1, <2>2, <2>5, <2>6
  <2> QED BY <2>7, DownloadEnds
<1>19. ASSUME r.err = "ok", Len(m.rest) # 1,
              next = Continue(c, "download_segment",
                             [stream |-> m.stream, rest |-> Tail(m.rest), read |-> read])
       PROVE  ClientOK(next.at, sat', uploads, published) /\ ResultOK(next.ret, published)
  <2>1. PICK w, g : /\ w = Tail(m.rest)
                    /\ g = [stream |-> m.stream, rest |-> w, read |-> read]
    OBVIOUS
  <2>2. PICK z \in Nat :
              /\ z = n + k /\ k >= 1 /\ m.stream \in DOMAIN pub /\ AsEdition(q, e, z)
              /\ IsList(read) /\ Len(read) = n + 1
              /\ Distinct(e.positions) => \A j \in 1..(n + 1) : read[j] = e.content[j]
    BY <1>17, <1>19
  <2>3. k >= 2
    <3>1. k # 1 /\ k >= 1 BY <1>15, <1>19, <2>2
    <3> QED BY ONLY <3>1, k \in Nat
  <2>4. IsList(m.rest) /\ \A j \in 1..k : m.rest[j] = e.positions[n + j]
    BY <1>13, <1>14, <1>15 DEF ReadingOK
  <2>5. PICK t : t = m.rest OBVIOUS
  <2>6. IsList(t) /\ Len(t) = k /\ w = Tail(t) BY <2>1, <2>4, <2>5, <1>15
  <2>7. IsList(w) /\ Len(w) = k - 1 /\ \A j \in 1..(k - 1) : w[j] = t[j + 1]
    BY <2>3, <2>6, ListTail
  <2>8. \A j \in 1..(k - 1) : j + 1 \in 1..k /\ n + (j + 1) = (n + 1) + j BY <2>3
  <2>9. \A j \in 1..(k - 1) : w[j] = e.positions[(n + 1) + j] BY <2>4, <2>5, <2>7, <2>8
  <2>10. g.stream = m.stream /\ g.rest = w /\ g.read = read BY <2>1
  <2>11. ReadingOK(g, published)
    <3>1. g.stream \in DOMAIN published /\ published[g.stream] = e BY <1>2, <1>13, <2>2, <2>10
    <3>2. Len(g.read) = n + 1 /\ Len(g.rest) = k - 1 /\ IsList(g.read) /\ IsList(g.rest)
      BY <2>2, <2>7, <2>10
    <3>3. DOMAIN e.positions = 1..((n + 1) + (k - 1))
      <4>1. (n + 1) + (k - 1) = z BY <2>2
      <4> QED BY <4>1, <2>2 DEF AsEdition
    <3>4. \A j \in 1..(k - 1) : g.rest[j] = e.positions[(n + 1) + j] BY <2>9, <2>10
    <3>5. Distinct(e.positions) => \A j \in 1..(n + 1) : g.read[j] = e.content[j] BY <2>2, <2>10
    <3>6. k - 1 >= 1 BY <2>3
    <3> QED BY <3>1, <3>2, <3>3, <3>4, <3>5, <3>6 DEF ReadingOK
  <2>12. next = Continue(c, "download_segment", g) BY <1>19, <2>1
  <2>13. /\ HasFields(next.at, ClientFields) /\ next.at.step = "download_segment"
         /\ next.at.op = Op(c) /\ next.at.mem = g /\ next.ret = ret[c]
    BY <2>12, ContinueAt
  <2>14. ClientOK(next.at, sat', uploads, published)
    BY <2>11, <2>13 DEF ClientOK, PartSteps, FlightSteps
  <2> QED BY <2>13, <2>14 DEF Inv
<1> QED BY <1>10, <1>12, <1>18, <1>19

-----------------------------------------------------------------------------
(* The theorems. *)

\* A project that clients find in order.
LEMMA InitInv == Init => Inv
PROOF
<1> SUFFICES ASSUME Init PROVE Inv OBVIOUS
<1>1. scene \in DOMAIN Scenarios BY DEF Init
<1>2. PICK keys : cl = [c \in Clients |-> [apiKey |-> keys[c], op |-> None, step |-> "idle",
                                           mem |-> None, calls |-> 0]]
  BY DEF Init
<1>3. cl = [c \in Clients |-> cl[c]] BY <1>2
<1>4. ret = [c \in Clients |-> NoResult] BY DEF Init
<1>5. ret = [c \in Clients |-> ret[c]] BY <1>4
<1>6. ProjectOK(sat, uploads, published, torn)
  <2>1. PICK n \in DOMAIN Scenarios : n = scene BY <1>1
  <2>2. ProjectOK(Scenarios[n].start, Scenarios[n].uploads, Editions(Scenarios[n].start), {})
    BY ScenariosAssumption
  <2>3. /\ sat = Scenarios[n].start /\ uploads = Scenarios[n].uploads
        /\ published = Editions(sat) /\ torn = {}
    BY <2>1 DEF Init
  <2> QED BY <2>2, <2>3
<1>7. ASSUME NEW c \in Clients PROVE ClientOK(cl[c], sat, uploads, published) /\ ResultOK(ret[c], published)
  <2>1. PICK k : k = cl[c] OBVIOUS
  <2>2. k = [apiKey |-> keys[c], op |-> None, step |-> "idle", mem |-> None, calls |-> 0] BY <1>2, <2>1
  <2>3. HasFields(k, ClientFields) /\ k.step = "idle" BY <2>2 DEF HasFields, ClientFields
  <2>4. ClientOK(k, sat, uploads, published) BY <2>3, IdleOK
  <2>5. ret[c].call # "download_object" BY <1>4 DEF NoResult
  <2> QED BY <2>1, <2>4, <2>5 DEF ResultOK
<1> QED BY <1>1, <1>3, <1>5, <1>6, <1>7 DEF Inv

\* Every step keeps Inv, one case an action.
LEMMA NextInv == Inv /\ [Next]_vars => Inv'
PROOF
<1> SUFFICES ASSUME Inv, [Next]_vars PROVE Inv' OBVIOUS
<1>1. CASE Tick BY <1>1, TickStep
<1>2. CASE UNCHANGED vars BY <1>2 DEF vars, Inv
<1>3. CASE Done BY <1>3, <1>2 DEF Done
<1>4. ASSUME NEW c \in Clients, ClientStep(c) PROVE Inv'
  <2>1. CASE Call(c) BY <2>1, CallStep
  <2>2. CASE CreateBucket(c) BY <2>2, CreateBucketStep
  <2>3. CASE ExistingBucket(c) BY <2>3, ExistingBucketStep
  <2>4. CASE StatBucket(c) BY <2>4, StatBucketStep
  <2>5. CASE DeleteBucket(c) BY <2>5, DeleteBucketStep
  <2>6. CASE ListBuckets(c) BY <2>6, ListBucketsStep
  <2>7. CASE ObjectLock(c) BY <2>7, ObjectLockStep
  <2>8. CASE BucketLock(c) BY <2>8, BucketLockStep
  <2>9. CASE BeginUpload(c) BY <2>9, BeginUploadStep
  <2>10. CASE InlineSegment(c) BY <2>10, InlineSegmentStep
  <2>11. CASE BeginSegment(c) BY <2>11, BeginSegmentStep
  <2>12. CASE SegmentLimits(c) BY <2>12, SegmentLimitsStep
  <2>13. CASE RetryPieces(c) BY <2>13, RetryPiecesStep
  <2>14. CASE RetryLimits(c) BY <2>14, RetryLimitsStep
  <2>15. CASE CommitSegment(c) BY <2>15, CommitSegmentStep
  <2>16. CASE CommitUpload(c) BY <2>16, CommitUploadStep
  <2>17. CASE AbortUpload(c) BY <2>17, AbortUploadStep
  <2>18. CASE StatObject(c) BY <2>18, StatObjectStep
  <2>19. CASE DeleteObject(c) BY <2>19, DeleteObjectStep
  <2>20. CASE BeginRelocate(c) BY <2>20, BeginRelocateStep
  <2>21. CASE FinishRelocate(c) BY <2>21, FinishRelocateStep
  <2>22. CASE ReadForUpdate(c) BY <2>22, ReadForUpdateStep
  <2>23. CASE WriteMetadata(c) BY <2>23, WriteMetadataStep
  <2>24. CASE RevokeAccess(c) BY <2>24, RevokeAccessStep
  <2>25. CASE ListObjects(c) BY <2>25, ListObjectsStep
  <2>26. CASE ListUploads(c) BY <2>26, ListUploadsStep
  <2>27. CASE ListUploadsByKey(c) BY <2>27, ListUploadsByKeyStep
  <2>28. CASE ListUploadParts(c) BY <2>28, ListUploadPartsStep
  <2>29. CASE DownloadObject(c) BY <2>29, DownloadObjectStep
  <2>30. CASE DownloadSegment(c) BY <2>30, DownloadSegmentStep
  <2> QED
    BY <1>4, <2>1, <2>2, <2>3, <2>4, <2>5, <2>6, <2>7, <2>8, <2>9, <2>10, <2>11, <2>12, <2>13,
       <2>14, <2>15, <2>16, <2>17, <2>18, <2>19, <2>20, <2>21, <2>22, <2>23, <2>24, <2>25, <2>26,
       <2>27, <2>28, <2>29, <2>30 DEF ClientStep
<1> QED BY <1>1, <1>2, <1>3, <1>4 DEF Next

\* Between any two RPCs the project is in order, whatever the clients have
\* interleaved and the network has lost: the satellite's maps are well formed,
\* a stream is one object or one upload, segments and metadata open where they
\* are, objects are what they were when first committed, and what a client
\* remembers of an answer still fits (storj/src/objects.rs, project.rs;
\* storj-test/src/mock.rs).
THEOREM InvHolds == Spec => []Inv
PROOF
<1>1. Init => Inv BY InitInv
<1>2. Inv /\ [Next]_vars => Inv' BY NextInv
<1> QED BY <1>1, <1>2, PTL DEF Spec

\* Every segment of every object opens under the content key of the place
\* where the object is, for any number of clients, copies, moves and
\* overwrites (objects.rs copy_object, move_object).
THEOREM SegmentKeysOpenHolds == Spec => []SegmentKeysOpen
PROOF
<1>1. Inv => SegmentKeysOpen
  BY DEF Inv, ProjectOK, KeysOpen, SegmentsOpen, SegmentKeysOpen
<1> QED BY <1>1, InvHolds, PTL

\* Custom metadata and checksum open, and the checksum is the committed one
\* (project.rs commit_upload, update_object_metadata).
THEOREM MetadataOpensHolds == Spec => []MetadataOpens
PROOF
<1>1. Inv => MetadataOpens
  <2> SUFFICES ASSUME Inv, NEW l \in DOMAIN sat.committed
      PROVE  /\ sat.committed[l].stream \notin torn => MetadataReadable(sat.committed[l], Location(l))
             /\ PlainChecksum(sat.committed[l].checksum) = published[sat.committed[l].stream].checksum
    BY DEF MetadataOpens
  <2>1. MetadataOpen(sat, torn) /\ EditionsOK(sat, published) BY DEF Inv, ProjectOK
  <2>2. PICK o : o = sat.committed[l] OBVIOUS
  <2>3. SameEdition(Edition(o), published[o.stream]) BY <2>1, <2>2 DEF EditionsOK
  <2>4. Edition(o).checksum = PlainChecksum(o.checksum) BY DEF Edition
  <2>5. PlainChecksum(o.checksum) = published[o.stream].checksum BY <2>3, <2>4 DEF SameEdition
  <2>6. o.stream \notin torn => MetadataReadable(o, Location(l)) BY <2>1, <2>2 DEF MetadataOpen
  <2> QED BY <2>2, <2>5, <2>6
<1> QED BY <1>1, InvHolds, PTL

\* The lock a version-less request reads was put on the object that is there
\* (mock.rs commit_object, apply_relocated).
THEOREM LockIsOwnHolds == Spec => []LockIsOwn
PROOF
<1>1. Inv => LockIsOwn BY DEF Inv, ProjectOK, SatelliteOK, LocksOwn, LockIsOwn
<1> QED BY <1>1, InvHolds, PTL

\* A finished download returned one edition of the object (objects.rs
\* download_object and the segments asked for by stream id).
THEOREM ReadsOneEditionHolds == Spec => []ReadsOneEdition
PROOF
<1>1. Inv => ReadsOneEdition BY DEF Inv, ResultOK, ReadsOneEdition
<1> QED BY <1>1, InvHolds, PTL

-----------------------------------------------------------------------------
(* A revoked key: every handler asks check_key before anything else.        *)

\* The codes a revoked key meets.
Barred(e) == e \in {"Closed", "PermissionDenied"}

\* No check lets a revoked key pass ...
LEMMA RevokedBarred ==
    ASSUME NEW s, NEW key, key_revoked(key, s.revoked)
    PROVE  Barred(check_key(s, key)) /\ \A action : Barred(Allowed(s, key, action))
PROOF
<1>1. PICK a : a = check_key(s, key) OBVIOUS
<1>2. Barred(a) BY <1>1 DEF check_key, Barred
<1>3. ASSUME NEW action PROVE Barred(Allowed(s, key, action))
  <2>1. PICK b : b = check_action(key, action) OBVIOUS
  <2>2. FirstError(<<a, b>>) = a BY <1>2, FirstError2 DEF Barred
  <2>3. Allowed(s, key, action) = a BY <1>1, <2>1, <2>2 DEF Allowed
  <2> QED BY <1>2, <2>3
<1> QED BY <1>1, <1>2, <1>3

\* ... so no handler changes anything for one.
LEMMA CreateBucketBarred ==
    ASSUME NEW s, NEW key, key_revoked(key, s.revoked), NEW b, NEW lock
    PROVE  create_bucket(s, key, b, lock).s = s
PROOF
<1>1. PICK a, x :
         /\ a = check_key(s, key)
         /\ x = IF b \in DOMAIN s.buckets THEN "AlreadyExists" ELSE "ok"
  OBVIOUS
<1>2. Barred(a) BY <1>1, RevokedBarred
<1>3. FirstError(<<a, x>>) = a BY <1>2, FirstError2 DEF Barred
<1>4. PICK e : e = FirstError(<<a, x>>) OBVIOUS
<1>5. e # "ok" /\ e # "Internal" BY <1>2, <1>3, <1>4 DEF Barred
<1> QED BY <1>1, <1>4, <1>5 DEF create_bucket, Refuse

LEMMA DeleteBucketBarred ==
    ASSUME NEW s, NEW key, key_revoked(key, s.revoked), NEW b, NEW all
    PROVE  delete_bucket(s, key, b, all).s = s
PROOF
<1>1. PICK a, x :
         /\ a = check_key(s, key)
         /\ x = BucketFound(s, b)
  OBVIOUS
<1>2. Barred(a) BY <1>1, RevokedBarred
<1>3. FirstError(<<a, x>>) = a BY <1>2, FirstError2 DEF Barred
<1>4. PICK e : e = FirstError(<<a, x>>) OBVIOUS
<1>5. e # "ok" /\ e # "Internal" BY <1>2, <1>3, <1>4 DEF Barred
<1> QED BY <1>1, <1>4, <1>5 DEF delete_bucket, Refuse

LEMMA SetLockConfigBarred ==
    ASSUME NEW s, NEW key, key_revoked(key, s.revoked), NEW b, NEW config
    PROVE  set_lock_config(s, key, b, config).s = s
PROOF
<1>1. PICK a, x :
         /\ a = check_key(s, key)
         /\ x = BucketFound(s, b)
  OBVIOUS
<1>2. Barred(a) BY <1>1, RevokedBarred
<1>3. FirstError(<<a, x>>) = a BY <1>2, FirstError2 DEF Barred
<1>4. PICK e : e = FirstError(<<a, x>>) OBVIOUS
<1>5. e # "ok" /\ e # "Internal" BY <1>2, <1>3, <1>4 DEF Barred
<1> QED BY <1>1, <1>4, <1>5 DEF set_lock_config, Refuse

LEMMA SetLockBarred ==
    ASSUME NEW s, NEW key, key_revoked(key, s.revoked), NEW b, NEW k, NEW version, NEW value
    PROVE  set_lock(s, key, b, k, version, value).s = s
PROOF
<1>1. PICK a, x :
         /\ a = check_key(s, key)
         /\ x = require_committed_object(s, b, k, version)
  OBVIOUS
<1>2. Barred(a) BY <1>1, RevokedBarred
<1>3. FirstError(<<a, x>>) = a BY <1>2, FirstError2 DEF Barred
<1>4. PICK e : e = FirstError(<<a, x>>) OBVIOUS
<1>5. e # "ok" /\ e # "Internal" BY <1>2, <1>3, <1>4 DEF Barred
<1> QED BY <1>1, <1>4, <1>5 DEF set_lock, Refuse

LEMMA BeginObjectBarred ==
    ASSUME NEW s, NEW key, key_revoked(key, s.revoked), NEW r
    PROVE  begin_object(s, key, r).s = s
PROOF
<1>1. PICK a, b, d, f :
         /\ a = Allowed(s, key, "write")
         /\ b = BucketFound(s, r.bucket)
         /\ d = IF r.bucket \in DOMAIN s.buckets /\ (IsSome(r.retention) \/ r.hold)
                   /\ ~LockEnabled(s.buckets[r.bucket])
                THEN "LockConfigMissing" ELSE "ok"
         /\ f = check_checksum_options(r.checksum, FALSE)
  OBVIOUS
<1>2. Barred(a) BY <1>1, RevokedBarred
<1>3. FirstError(<<a, b, d, f>>) = a BY <1>2, FirstError4 DEF Barred
<1>4. PICK e : e = FirstError(<<a, b, d, f>>) OBVIOUS
<1>5. e # "ok" /\ e # "Internal" BY <1>2, <1>3, <1>4 DEF Barred
<1> QED BY <1>1, <1>4, <1>5 DEF begin_object, Refuse

LEMMA BeginSegmentIdBarred ==
    ASSUME NEW s, NEW key, key_revoked(key, s.revoked), NEW stream
    PROVE  begin_segment_id(s, key, stream).s = s
PROOF
<1>1. PICK a, b :
         /\ a = Allowed(s, key, "write")
         /\ b = IF stream \in DOMAIN s.pending THEN "ok" ELSE "ObjectNotFound"
  OBVIOUS
<1>2. Barred(a) BY <1>1, RevokedBarred
<1>3. FirstError(<<a, b>>) = a BY <1>2, FirstError2 DEF Barred
<1>4. PICK e : e = FirstError(<<a, b>>) OBVIOUS
<1>5. e # "ok" /\ e # "Internal" BY <1>2, <1>3, <1>4 DEF Barred
<1> QED BY <1>1, <1>4, <1>5 DEF begin_segment_id, Refuse

LEMMA CommitSegmentBarred ==
    ASSUME NEW s, NEW key, key_revoked(key, s.revoked), NEW r
    PROVE  commit_segment(s, key, r).s = s
PROOF
<1>1. PICK a, b, d :
         /\ a = Allowed(s, key, "write")
         /\ b = IF r.segment \in s.stale THEN "InvalidArgument" ELSE "ok"
         /\ d = IF PiecesInOrder(r.results) /\ PiecesOfSize(r.results, r.size) THEN "ok" ELSE "InvalidArgument"
  OBVIOUS
<1>2. Barred(a) BY <1>1, RevokedBarred
<1>3. FirstError(<<a, b, d>>) = a BY <1>2, FirstError3 DEF Barred
<1>4. PICK e : e = FirstError(<<a, b, d>>) OBVIOUS
<1>5. e # "ok" /\ e # "Internal" BY <1>2, <1>3, <1>4 DEF Barred
<1> QED BY <1>1, <1>4, <1>5 DEF commit_segment, Refuse

LEMMA MakeInlineBarred ==
    ASSUME NEW s, NEW key, key_revoked(key, s.revoked), NEW r
    PROVE  make_inline(s, key, r).s = s
PROOF
<1>1. PICK a, b :
         /\ a = Allowed(s, key, "write")
         /\ b = IF r.size > InlineLimit THEN "InvalidArgument" ELSE "ok"
  OBVIOUS
<1>2. Barred(a) BY <1>1, RevokedBarred
<1>3. FirstError(<<a, b>>) = a BY <1>2, FirstError2 DEF Barred
<1>4. PICK e : e = FirstError(<<a, b>>) OBVIOUS
<1>5. e # "ok" /\ e # "Internal" BY <1>2, <1>3, <1>4 DEF Barred
<1> QED BY <1>1, <1>4, <1>5 DEF make_inline, Refuse

LEMMA CommitObjectBarred ==
    ASSUME NEW s, NEW key, key_revoked(key, s.revoked), NEW r
    PROVE  commit_object(s, key, r).s = s
PROOF
<1>1. PICK a, b, d, f :
         /\ a = Allowed(s, key, "write")
         /\ b = IF s.failCommit THEN "Internal" ELSE "ok"
         /\ d = check_checksum_options(r.checksum, TRUE)
         /\ f = IF r.stream \in DOMAIN s.pending
                THEN check_pending(s.pending[r.stream], r)
                ELSE "ObjectNotFound"
  OBVIOUS
<1>2. Barred(a) BY <1>1, RevokedBarred
<1>3. FirstError(<<a, b, d, f>>) = a BY <1>2, FirstError4 DEF Barred
<1>4. PICK e : e = FirstError(<<a, b, d, f>>) OBVIOUS
<1>5. e # "ok" /\ e # "Internal" BY <1>2, <1>3, <1>4 DEF Barred
<1> QED BY <1>1, <1>4, <1>5 DEF commit_object, Refuse

LEMMA BeginDeleteBarred ==
    ASSUME NEW s, NEW key, key_revoked(key, s.revoked), NEW r
    PROVE  begin_delete(s, key, r).s = s
PROOF
<1>1. PICK a :
         /\ a = Allowed(s, key, "delete")
  OBVIOUS
<1>2. Barred(a) BY <1>1, RevokedBarred
<1>3. FirstError(<<a>>) = a BY <1>2, FirstError1 DEF Barred
<1>4. PICK e : e = FirstError(<<a>>) OBVIOUS
<1>5. e # "ok" /\ e # "Internal" BY <1>2, <1>3, <1>4 DEF Barred
<1> QED BY <1>1, <1>4, <1>5 DEF begin_delete, Refuse

LEMMA UpdateObjectMetadataBarred ==
    ASSUME NEW s, NEW key, key_revoked(key, s.revoked), NEW r
    PROVE  update_object_metadata(s, key, r).s = s
PROOF
<1>1. PICK a, b, d, f, g :
         /\ a = Allowed(s, key, "write")
         /\ b = BucketFound(s, r.bucket)
         /\ d = ObjectFound(s, r.bucket, r.key)
         /\ f = IF <<r.bucket, r.key>> \in DOMAIN s.committed /\ r.stream # 0
                   /\ r.stream # s.committed[<<r.bucket, r.key>>].stream THEN "ObjectNotFound" ELSE "ok"
         /\ g = check_checksum_options(r.checksum, TRUE)
  OBVIOUS
<1>2. Barred(a) BY <1>1, RevokedBarred
<1>3. FirstError(<<a, b, d, f, g>>) = a BY <1>2, FirstError5 DEF Barred
<1>4. PICK e : e = FirstError(<<a, b, d, f, g>>) OBVIOUS
<1>5. e # "ok" /\ e # "Internal" BY <1>2, <1>3, <1>4 DEF Barred
<1> QED BY <1>1, <1>4, <1>5 DEF update_object_metadata, Refuse

LEMMA RevokeApiKeyBarred ==
    ASSUME NEW s, NEW key, key_revoked(key, s.revoked), NEW target
    PROVE  revoke_api_key(s, key, target).s = s
PROOF
<1>1. PICK a, b :
         /\ a = check_key(s, key)
         /\ b = IF target = key \/ ~can_revoke(key, target) THEN "PermissionDenied" ELSE "ok"
  OBVIOUS
<1>2. Barred(a) BY <1>1, RevokedBarred
<1>3. FirstError(<<a, b>>) = a BY <1>2, FirstError2 DEF Barred
<1>4. PICK e : e = FirstError(<<a, b>>) OBVIOUS
<1>5. e # "ok" /\ e # "Internal" BY <1>2, <1>3, <1>4 DEF Barred
<1> QED BY <1>1, <1>4, <1>5 DEF revoke_api_key, Refuse

LEMMA FinishCopyBarred ==
    ASSUME NEW s, NEW key, key_revoked(key, s.revoked), NEW r
    PROVE  finish_copy(s, key, r).s = s
PROOF
<1>1. PICK a, b :
         /\ a = Allowed(s, key, "write")
         /\ b = BucketFound(s, r.newBucket)
  OBVIOUS
<1>2. Barred(a) BY <1>1, RevokedBarred
<1>3. FirstError(<<a, b>>) = a BY <1>2, FirstError2 DEF Barred
<1>4. PICK e : e = FirstError(<<a, b>>) OBVIOUS
<1>5. e # "ok" /\ e # "Internal" BY <1>2, <1>3, <1>4 DEF Barred
<1> QED BY <1>1, <1>4, <1>5 DEF finish_copy, Refuse

LEMMA FinishMoveBarred ==
    ASSUME NEW s, NEW key, key_revoked(key, s.revoked), NEW r
    PROVE  finish_move(s, key, r).s = s
PROOF
<1>1. PICK a, b, d :
         /\ a = Allowed(s, key, "write")
         /\ b = check_action(key, "delete")
         /\ d = BucketFound(s, r.newBucket)
  OBVIOUS
<1>2. Barred(a) BY <1>1, RevokedBarred
<1>3. FirstError(<<a, b, d>>) = a BY <1>2, FirstError3 DEF Barred
<1>4. PICK e : e = FirstError(<<a, b, d>>) OBVIOUS
<1>5. e # "ok" /\ e # "Internal" BY <1>2, <1>3, <1>4 DEF Barred
<1> QED BY <1>1, <1>4, <1>5 DEF finish_move, Refuse

LEMMA RetryPiecesIdBarred ==
    ASSUME NEW s, NEW key, key_revoked(key, s.revoked), NEW old
    PROVE  retry_pieces_id(s, key, old).s = s
PROOF
<1>1. Barred(check_key(s, key)) BY RevokedBarred
<1> QED BY <1>1 DEF Barred, retry_pieces_id, Refuse

\* Objects, buckets and the segments of uploads are as they were.
Inert(s, t) ==
    /\ t.committed = s.committed /\ t.buckets = s.buckets /\ DOMAIN t.pending = DOMAIN s.pending
    /\ \A id \in DOMAIN s.pending : t.pending[id].segments = s.pending[id].segments

\* A request that changes nothing, served or lost.
LEMMA ServedInert ==
    ASSUME NEW r, Served(r), r.s = sat
    PROVE  Inert(sat, sat')
BY DEF Served, Inert

\* A step of a client whose key is revoked changes no object, upload or bucket.
LEMMA RevokedStep ==
    ASSUME Inv, NEW c \in Clients, key_revoked(Key(c), sat.revoked), ClientStep(c)
    PROVE  Inert(sat, sat')
PROOF
<1>1. CASE CreateBucket(c)
  <2>1. PICK r : r = create_bucket(sat, Key(c), Op(c).bucket, Op(c).lock) OBVIOUS
  <2>2. Served(r) BY <1>1, <2>1 DEF CreateBucket, Rpc, Served
  <2>3. r.s = sat BY <2>1, CreateBucketBarred
  <2> QED BY <2>2, <2>3, ServedInert
<1>2. CASE ExistingBucket(c)
  <2>1. PICK r : r = get_bucket(sat, Key(c), Op(c).bucket) OBVIOUS
  <2>2. Served(r) BY <1>2, <2>1 DEF ExistingBucket, Rpc, Served
  <2>3. r.s = sat BY <2>1 DEF get_bucket, Refuse, Reply
  <2> QED BY <2>2, <2>3, ServedInert
<1>3. CASE StatBucket(c)
  <2>1. PICK r : r = get_bucket(sat, Key(c), Op(c).bucket) OBVIOUS
  <2>2. Served(r) BY <1>3, <2>1 DEF StatBucket, Rpc, Unary, Served
  <2>3. r.s = sat BY <2>1 DEF get_bucket, Refuse, Reply
  <2> QED BY <2>2, <2>3, ServedInert
<1>4. CASE DeleteBucket(c)
  <2>1. PICK r : r = delete_bucket(sat, Key(c), Op(c).bucket, Op(c).all) OBVIOUS
  <2>2. Served(r) BY <1>4, <2>1 DEF DeleteBucket, Rpc, Unary, Served
  <2>3. r.s = sat BY <2>1, DeleteBucketBarred
  <2> QED BY <2>2, <2>3, ServedInert
<1>5. CASE ListBuckets(c)
  <2>1. PICK r : r = list_buckets(sat, Key(c), Mem(c).cursor) OBVIOUS
  <2>2. Served(r) BY <1>5, <2>1 DEF ListBuckets, Rpc, Served
  <2>3. r.s = sat BY <2>1 DEF list_buckets, Refuse, Reply
  <2> QED BY <2>2, <2>3, ServedInert
<1>6. CASE BeginUpload(c)
  <2>1. PICK r : r = begin_object(sat, Key(c), BeginObjectRequest(c)) OBVIOUS
  <2>2. Served(r) BY <1>6, <2>1 DEF BeginUpload, Rpc, Served
  <2>3. r.s = sat BY <2>1, BeginObjectBarred
  <2> QED BY <2>2, <2>3, ServedInert
<1>7. CASE InlineSegment(c)
  <2>1. PICK r : r = make_inline(sat, Key(c), MakeInlineRequest(c)) OBVIOUS
  <2>2. Served(r) BY <1>7, <2>1 DEF InlineSegment, Rpc, Served
  <2>3. r.s = sat BY <2>1, MakeInlineBarred
  <2> QED BY <2>2, <2>3, ServedInert
<1>8. CASE BeginSegment(c)
  <2>1. PICK r : r = begin_segment_id(sat, Key(c), Op(c).id) OBVIOUS
  <2>2. Served(r) BY <1>8, <2>1 DEF BeginSegment, Rpc, Served
  <2>3. r.s = sat BY <2>1, BeginSegmentIdBarred
  <2> QED BY <2>2, <2>3, ServedInert
<1>9. CASE RetryPieces(c)
  <2>1. PICK r : r = retry_pieces_id(sat, Key(c), Mem(c).segment) OBVIOUS
  <2>2. Served(r) BY <1>9, <2>1 DEF RetryPieces, Rpc, Served
  <2>3. r.s = sat BY <2>1, RetryPiecesIdBarred
  <2> QED BY <2>2, <2>3, ServedInert
<1>10. CASE CommitSegment(c)
  <2>1. PICK r : r = commit_segment(sat, Key(c), CommitSegmentRequest(c)) OBVIOUS
  <2>2. Served(r) BY <1>10, <2>1 DEF CommitSegment, Rpc, Served
  <2>3. r.s = sat BY <2>1, CommitSegmentBarred
  <2> QED BY <2>2, <2>3, ServedInert
<1>11. CASE CommitUpload(c)
  <2>1. PICK r : r = commit_object(sat, Key(c), CommitObjectRequest(c)) OBVIOUS
  <2>2. Served(r) BY <1>11, <2>1 DEF CommitUpload, Rpc, Unary, Served
  <2>3. r.s = sat BY <2>1, CommitObjectBarred
  <2> QED BY <2>2, <2>3, ServedInert
<1>12. CASE AbortUpload(c)
  <2>1. PICK r : r = begin_delete(sat, Key(c), BeginDeleteRequest(c, Op(c).id)) OBVIOUS
  <2>2. Served(r) BY <1>12, <2>1 DEF AbortUpload, Rpc, Unary, Served
  <2>3. r.s = sat BY <2>1, BeginDeleteBarred
  <2> QED BY <2>2, <2>3, ServedInert
<1>13. CASE StatObject(c)
  <2>1. PICK r : r = get_object(sat, Key(c), Op(c).bucket, EncKey(c)) OBVIOUS
  <2>2. Served(r) BY <1>13, <2>1 DEF StatObject, Rpc, Served
  <2>3. r.s = sat BY <2>1 DEF get_object, Refuse, Reply
  <2> QED BY <2>2, <2>3, ServedInert
<1>14. CASE DeleteObject(c)
  <2>1. PICK r : r = begin_delete(sat, Key(c), BeginDeleteRequest(c, 0)) OBVIOUS
  <2>2. Served(r) BY <1>14, <2>1 DEF DeleteObject, Rpc, Served
  <2>3. r.s = sat BY <2>1, BeginDeleteBarred
  <2> QED BY <2>2, <2>3, ServedInert
<1>15. CASE ReadForUpdate(c)
  <2>1. PICK r : r = get_object(sat, Key(c), Op(c).bucket, EncKey(c)) OBVIOUS
  <2>2. Served(r) BY <1>15, <2>1 DEF ReadForUpdate, Rpc, Served
  <2>3. r.s = sat BY <2>1 DEF get_object, Refuse, Reply
  <2> QED BY <2>2, <2>3, ServedInert
<1>16. CASE WriteMetadata(c)
  <2>1. PICK r : r = update_object_metadata(sat, Key(c), UpdateMetadataRequest(c)) OBVIOUS
  <2>2. Served(r) BY <1>16, <2>1 DEF WriteMetadata, Rpc, Unary, Served
  <2>3. r.s = sat BY <2>1, UpdateObjectMetadataBarred
  <2> QED BY <2>2, <2>3, ServedInert
<1>17. CASE ListObjects(c)
  <2>1. PICK r : r = list_objects(sat, Key(c), ListObjectsRequest(c)) OBVIOUS
  <2>2. Served(r) BY <1>17, <2>1 DEF ListObjects, Rpc, Served
  <2>3. r.s = sat BY <2>1 DEF list_objects, Refuse, Reply
  <2> QED BY <2>2, <2>3, ServedInert
<1>18. CASE ListUploads(c)
  <2>1. PICK r : r = list_uploading_objects(sat, Key(c), ListUploadsRequest(c)) OBVIOUS
  <2>2. Served(r) BY <1>18, <2>1 DEF ListUploads, Rpc, Served
  <2>3. r.s = sat BY <2>1 DEF list_uploading_objects, Refuse, Reply
  <2> QED BY <2>2, <2>3, ServedInert
<1>19. CASE ListUploadsByKey(c)
  <2>1. PICK r : r = list_pending_object_streams(sat, Key(c), Op(c).bucket, EncKey(c), Mem(c).cursor) OBVIOUS
  <2>2. Served(r) BY <1>19, <2>1 DEF ListUploadsByKey, Rpc, Served
  <2>3. r.s = sat BY <2>1 DEF list_pending_object_streams, Refuse, Reply
  <2> QED BY <2>2, <2>3, ServedInert
<1>20. CASE ListUploadParts(c)
  <2>1. PICK r : r = list_segments(sat, Key(c), Op(c).id) OBVIOUS
  <2>2. Served(r) BY <1>20, <2>1 DEF ListUploadParts, Rpc, Served
  <2>3. r.s = sat BY <2>1 DEF list_segments, Refuse, Reply
  <2> QED BY <2>2, <2>3, ServedInert
<1>21. CASE DownloadObject(c)
  <2>1. PICK r : r = download_object(sat, Key(c), Op(c).bucket, EncKey(c), Op(c).version) OBVIOUS
  <2>2. Served(r) BY <1>21, <2>1 DEF DownloadObject, Rpc, Served
  <2>3. r.s = sat BY <2>1 DEF download_object, Refuse, Reply
  <2> QED BY <2>2, <2>3, ServedInert
<1>22. CASE DownloadSegment(c)
  <2>1. PICK r : r = download_segment(sat, Key(c), Mem(c).stream, Head(Mem(c).rest)) OBVIOUS
  <2>2. Served(r) BY <1>22, <2>1 DEF DownloadSegment, Rpc, Served
  <2>3. r.s = sat BY <2>1 DEF download_segment, Refuse, Reply
  <2> QED BY <2>2, <2>3, ServedInert
<1>23. CASE Call(c)
  <2>1. PICK op : Start(c, op) BY <1>23 DEF Call
  <2>2. sat' = sat BY <2>1 DEF Start
  <2> QED BY <2>2 DEF Inert
<1>24. CASE ObjectLock(c)
  <2>1. PICK a, b : /\ a = get_lock(sat, Key(c), Op(c).bucket, EncKey(c), Op(c).version, Op(c).what)
                    /\ b = set_lock(sat, Key(c), Op(c).bucket, EncKey(c), Op(c).version, Op(c).value)
    OBVIOUS
  <2>2. (Served(a) \/ Served(b))
    BY <1>24, <2>1 DEF ObjectLock, Rpc, Unary, Served
  <2>3. a.s = sat BY <2>1 DEF get_lock, Refuse, Reply
  <2>4. b.s = sat BY <2>1, SetLockBarred
  <2> QED BY <2>2, <2>3, <2>4, ServedInert
<1>25. CASE BucketLock(c)
  <2>1. PICK a, b : /\ a = get_lock_config(sat, Key(c), Op(c).bucket)
                    /\ b = set_lock_config(sat, Key(c), Op(c).bucket, Op(c).config)
    OBVIOUS
  <2>2. (Served(a) \/ Served(b))
    BY <1>25, <2>1 DEF BucketLock, Rpc, Unary, Served
  <2>3. a.s = sat BY <2>1 DEF get_lock_config, Refuse, Reply
  <2>4. b.s = sat BY <2>1, SetLockConfigBarred
  <2> QED BY <2>2, <2>3, <2>4, ServedInert
<1>26. CASE BeginRelocate(c)
  <2>1. PICK a, b : /\ a = begin_copy(sat, Key(c), BeginRelocateRequest(c))
                    /\ b = begin_move(sat, Key(c), BeginRelocateRequest(c))
    OBVIOUS
  <2>2. (Served(a) \/ Served(b))
    BY <1>26, <2>1 DEF BeginRelocate, Rpc, Served
  <2>3. a.s = sat BY <2>1 DEF begin_copy, Refuse, Reply
  <2>4. b.s = sat BY <2>1, <2>3 DEF begin_move, Refuse
  <2> QED BY <2>2, <2>3, <2>4, ServedInert
<1>27. CASE FinishRelocate(c)
  <2>1. PICK a, b : /\ a = finish_copy(sat, Key(c), FinishRelocateRequest(c))
                    /\ b = finish_move(sat, Key(c), FinishRelocateRequest(c))
    OBVIOUS
  <2>2. (Served(a) \/ Served(b))
    BY <1>27, <2>1 DEF FinishRelocate, Rpc, Served
  <2>3. a.s = sat BY <2>1, FinishCopyBarred
  <2>4. b.s = sat BY <2>1, FinishMoveBarred
  <2> QED BY <2>2, <2>3, <2>4, ServedInert
<1>28. CASE RevokeAccess(c)
  <2>1. PICK r : r = revoke_api_key(sat, Key(c), Op(c).target) OBVIOUS
  <2>2. Served(r)
    BY <1>28, <2>1 DEF RevokeAccess, Rpc, Unary, Served
  <2>3. r.s = sat BY <2>1, RevokeApiKeyBarred
  <2> QED BY <2>2, <2>3, ServedInert
<1>29. CASE SegmentLimits(c)
  <2>1. PICK r : r = begin_segment_limits(sat, Op(c).id, Mem(c).segment, Position(c)) OBVIOUS
  <2>2. Served(r) BY <1>29, <2>1 DEF SegmentLimits, Rpc, Served
  <2>3. Inert(sat, r.s)
    <3>1. SatelliteOK(sat) BY DEF Inv, ProjectOK
    <3>2. cl[c].step = "segment_limits" BY <1>29 DEF SegmentLimits, Running
    <3>3. Position(c) \in SegmentPositions
      BY <3>2 DEF Inv, ClientOK, PartSteps, FlightSteps, Position, SegmentPositions, Op, Mem
    <3>4. Still(sat, r.s) BY <3>1, <3>3, <2>1, BeginSegmentLimitsServes
    <3>5. r.s.buckets = sat.buckets
      BY <2>1, <3>1 DEF begin_segment_limits, Refuse, Reply, SatelliteOK, HasFields, SatelliteFields
    <3> QED BY <3>4, <3>5 DEF Still, Quiet, Inert
  <2> QED BY <2>2, <2>3 DEF Served, Inert
<1>30. CASE RetryLimits(c)
  <2>1. PICK r : r = retry_pieces_limits(sat, Mem(c).stream, Mem(c).old, Mem(c).segment, {1}) OBVIOUS
  <2>2. Served(r) BY <1>30, <2>1 DEF RetryLimits, Rpc, Served
  <2>3. Inert(sat, r.s)
    <3>1. SatelliteOK(sat) BY DEF Inv, ProjectOK
    <3>4. Still(sat, r.s) BY <3>1, <2>1, RetryPiecesLimitsServes
    <3>5. r.s.buckets = sat.buckets
      BY <2>1, <3>1 DEF retry_pieces_limits, Refuse, Reply, SatelliteOK, HasFields, SatelliteFields
    <3> QED BY <3>4, <3>5 DEF Still, Quiet, Inert
  <2> QED BY <2>2, <2>3 DEF Served, Inert
<1> QED
  BY <1>1, <1>2, <1>3, <1>4, <1>5, <1>6, <1>7, <1>8, <1>9, <1>10, <1>11, <1>12, <1>13, <1>14,
     <1>15, <1>16, <1>17, <1>18, <1>19, <1>20, <1>21, <1>22, <1>23, <1>24, <1>25, <1>26, <1>27,
     <1>28, <1>29, <1>30 DEF ClientStep

\* A step of a client leaves every other client where it was.
LEMMA ClientAlone ==
    ASSUME NEW c \in Clients, ClientStep(c)
    PROVE  \E k : cl' = [cl EXCEPT ![c] = k]
PROOF
<1>1. CASE Call(c)
  <2>1. PICK op : Start(c, op) BY <1>1 DEF Call
  <2>2. CASE LocalError(op) # "ok" BY <2>1, <2>2 DEF Start
  <2>3. CASE LocalError(op) = "ok" BY <2>1, <2>3 DEF Start
  <2> QED BY <2>2, <2>3
<1>2. CASE CreateBucket(c) BY <1>2 DEF CreateBucket, Rpc, Unary
<1>3. CASE ExistingBucket(c) BY <1>3 DEF ExistingBucket, Rpc, Unary
<1>4. CASE StatBucket(c) BY <1>4 DEF StatBucket, Rpc, Unary
<1>5. CASE DeleteBucket(c) BY <1>5 DEF DeleteBucket, Rpc, Unary
<1>6. CASE ListBuckets(c) BY <1>6 DEF ListBuckets, Rpc, Unary
<1>7. CASE ObjectLock(c) BY <1>7 DEF ObjectLock, Rpc, Unary
<1>8. CASE BucketLock(c) BY <1>8 DEF BucketLock, Rpc, Unary
<1>9. CASE BeginUpload(c) BY <1>9 DEF BeginUpload, Rpc, Unary
<1>10. CASE InlineSegment(c) BY <1>10 DEF InlineSegment, Rpc, Unary
<1>11. CASE BeginSegment(c) BY <1>11 DEF BeginSegment, Rpc, Unary
<1>12. CASE SegmentLimits(c) BY <1>12 DEF SegmentLimits, Rpc, Unary
<1>13. CASE RetryPieces(c) BY <1>13 DEF RetryPieces, Rpc, Unary
<1>14. CASE RetryLimits(c) BY <1>14 DEF RetryLimits, Rpc, Unary
<1>15. CASE CommitSegment(c) BY <1>15 DEF CommitSegment, Rpc, Unary
<1>16. CASE CommitUpload(c) BY <1>16 DEF CommitUpload, Rpc, Unary
<1>17. CASE AbortUpload(c) BY <1>17 DEF AbortUpload, Rpc, Unary
<1>18. CASE StatObject(c) BY <1>18 DEF StatObject, Rpc, Unary
<1>19. CASE DeleteObject(c) BY <1>19 DEF DeleteObject, Rpc, Unary
<1>20. CASE BeginRelocate(c) BY <1>20 DEF BeginRelocate, Rpc, Unary
<1>21. CASE FinishRelocate(c) BY <1>21 DEF FinishRelocate, Rpc, Unary
<1>22. CASE ReadForUpdate(c) BY <1>22 DEF ReadForUpdate, Rpc, Unary
<1>23. CASE WriteMetadata(c) BY <1>23 DEF WriteMetadata, Rpc, Unary
<1>24. CASE RevokeAccess(c) BY <1>24 DEF RevokeAccess, Rpc, Unary
<1>25. CASE ListObjects(c) BY <1>25 DEF ListObjects, Rpc, Unary
<1>26. CASE ListUploads(c) BY <1>26 DEF ListUploads, Rpc, Unary
<1>27. CASE ListUploadsByKey(c) BY <1>27 DEF ListUploadsByKey, Rpc, Unary
<1>28. CASE ListUploadParts(c) BY <1>28 DEF ListUploadParts, Rpc, Unary
<1>29. CASE DownloadObject(c) BY <1>29 DEF DownloadObject, Rpc, Unary
<1>30. CASE DownloadSegment(c) BY <1>30 DEF DownloadSegment, Rpc, Unary
<1> QED
  BY <1>1, <1>2, <1>3, <1>4, <1>5, <1>6, <1>7, <1>8, <1>9, <1>10, <1>11, <1>12, <1>13, <1>14,
     <1>15, <1>16, <1>17, <1>18, <1>19, <1>20, <1>21, <1>22, <1>23, <1>24, <1>25, <1>26, <1>27,
     <1>28, <1>29, <1>30 DEF ClientStep

\* The objects, the buckets and the segments of uploads are out of reach of a
\* client from the moment its key, or one it derives from, is revoked: also of
\* the second RPC of a copy, a move, an update or a part it had begun before
\* (mock.rs key_revoked, asked first by every handler).
THEOREM RevokedInertHolds == Spec => RevokedInert
PROOF
<1> DEFINE A == \A c \in Clients :
                   (\E k \in sat.revoked : IsPrefix(k, Key(c))) /\ cl'[c] # cl[c] =>
                      /\ sat'.committed = sat.committed
                      /\ sat'.buckets = sat.buckets
                      /\ DOMAIN sat'.pending = DOMAIN sat.pending
                      /\ \A id \in DOMAIN sat.pending :
                            sat'.pending[id].segments = sat.pending[id].segments
<1>1. Inv /\ [Next]_vars => [A]_vars
  <2> SUFFICES ASSUME Inv, Next, NEW c \in Clients, \E k \in sat.revoked : IsPrefix(k, Key(c)),
                      cl'[c] # cl[c]
      PROVE  Inert(sat, sat')
    BY DEF Inert
  <2>1. key_revoked(Key(c), sat.revoked) BY DEF key_revoked, caveat_prefix
  <2>2. CASE Tick BY <2>2 DEF Tick
  <2>3. CASE Done BY <2>3 DEF Done, vars
  <2>4. ASSUME NEW d \in Clients, ClientStep(d) PROVE Inert(sat, sat')
    <3>1. PICK k : cl' = [cl EXCEPT ![d] = k] BY <2>4, ClientAlone
    <3>2. c = d BY <3>1 DEF Inv
    <3> QED BY <2>1, <2>4, <3>2, RevokedStep
  <2> QED BY <2>2, <2>3, <2>4 DEF Next
<1>2. Spec => [][A]_vars BY <1>1, InvHolds, PTL DEF Spec
<1>3. RevokedInert <=> [][A]_vars BY DEF RevokedInert
<1> QED BY <1>2, <1>3

-----------------------------------------------------------------------------
(* The satellite's state as a state of the abstract store.                  *)

StoreAt(s) == [l \in DOMAIN s.committed |-> AsObject(s.committed[l])]
OpenAt(s) == [id \in DOMAIN s.pending |-> AsUpload(s.pending[id])]

\* The steps of the abstract store, on any four maps: before and after.
LEMMA AbstractBegin ==
    ASSUME NEW id, NEW at, id \notin DOMAIN OpenOf, \A l \in DOMAIN StoreOf : StoreOf[l].id # id,
           OpenOf' = Put(OpenOf, id, [at |-> at, chunks |-> <<>>]), StoreOf' = StoreOf
    PROVE  Store!Next
PROOF
<1>1. id \in DOMAIN OpenOf' /\ OpenOf'[id].at = at BY DEF Put
<1>2. Store!Begin(id, at) BY DEF Store!Begin, Store!With, Put
<1> QED BY <1>1, <1>2 DEF Store!Next

\* A discarded upload is a step of the store.
LEMMA AbstractDiscard ==
    ASSUME NEW id \in DOMAIN OpenOf, OpenOf' = Drop(OpenOf, id), StoreOf' = StoreOf
    PROVE  Store!Next
PROOF
<1>1. Store!Discard(id) BY DEF Store!Discard, Store!Without, Drop
<1> QED BY <1>1 DEF Store!Next

\* So is a deleted object,
LEMMA AbstractDelete ==
    ASSUME NEW l \in DOMAIN StoreOf, StoreOf' = Drop(StoreOf, l), OpenOf' = OpenOf
    PROVE  Store!Next
PROOF
<1>1. Store!Delete(l) BY DEF Store!Delete, Store!Without, Drop
<1> QED BY <1>1 DEF Store!Next

\* a chunk that arrives,
LEMMA AbstractAdd ==
    ASSUME NEW id \in DOMAIN OpenOf, NEW chunk, NEW q, q = OpenOf[id].chunks, IsList(q),
           OpenOf' = [OpenOf EXCEPT ![id].chunks = Append(q, chunk)], StoreOf' = StoreOf,
           OpenOf[id] = [at |-> OpenOf[id].at, chunks |-> q]
    PROVE  Store!Next
PROOF
<1>1. PICK n \in Nat : n = Len(q) BY DEF IsList
<1>2. PICK p : p = Append(q, chunk) OBVIOUS
<1>3. IsList(p) /\ Len(p) = n + 1 /\ p[n + 1] = chunk BY <1>1, <1>2, ListAppend
<1>4. id \in DOMAIN OpenOf' /\ OpenOf'[id].chunks = p BY <1>2
<1>5. n + 1 \in DOMAIN p /\ p[n + 1] = chunk BY <1>3 DEF IsList
<1>6. Store!Add(id)
  <2>1. \E i \in DOMAIN OpenOf'[id].chunks :
           OpenOf' = [OpenOf EXCEPT ![id].chunks = Append(@, OpenOf'[id].chunks[i])]
    BY <1>2, <1>4, <1>5
  <2> QED BY <1>4, <2>1 DEF Store!Add
<1> QED BY <1>6 DEF Store!Next

\* an upload published with its chunks in order,
LEMMA AbstractPublish ==
    ASSUME NEW id \in DOMAIN OpenOf, NEW content, Store!Arranges(content, OpenOf[id].chunks),
           StoreOf' = Put(StoreOf, OpenOf[id].at,
                          [id |-> id, content |-> content, exact |-> Store!Exact(OpenOf[id].chunks)]),
           OpenOf' = Drop(OpenOf, id)
    PROVE  Store!Next
PROOF
<1>1. OpenOf[id].at \in DOMAIN StoreOf' /\ StoreOf'[OpenOf[id].at].content = content BY DEF Put
<1>2. Store!Publish(id) BY <1>1 DEF Store!Publish, Store!With, Store!Without, Put, Drop
<1> QED BY <1>2 DEF Store!Next

\* An object at another place.
Rehoused(o, p, id) ==
    p.id = id /\ p.exact = o.exact /\ (o.exact => p.content = o.content)

\* a copy,
LEMMA AbstractCopy ==
    ASSUME NEW from \in DOMAIN StoreOf, NEW to, NEW id, NEW o,
           o = [id |-> o.id, content |-> o.content, exact |-> o.exact],
           Rehoused(StoreOf[from], o, id),
           id \notin DOMAIN OpenOf, \A l \in DOMAIN StoreOf : StoreOf[l].id # id,
           StoreOf' = Put(StoreOf, to, o), OpenOf' = OpenOf
    PROVE  Store!Next
PROOF
<1>1. to \in DOMAIN StoreOf' /\ StoreOf'[to] = o BY DEF Put
<1>2. Store!Relocated(from, to, id) = o BY <1>1 DEF Store!Relocated, Rehoused
<1>3. Store!Copy(from, to, id) BY <1>2 DEF Store!Copy, Store!With, Put
<1>4. StoreOf'[to].id = id BY <1>1 DEF Rehoused
<1> QED BY <1>1, <1>3, <1>4 DEF Store!Next

\* and a move.
LEMMA AbstractMove ==
    ASSUME NEW from \in DOMAIN StoreOf, NEW to, NEW o,
           o = [id |-> o.id, content |-> o.content, exact |-> o.exact],
           Rehoused(StoreOf[from], o, StoreOf[from].id),
           StoreOf' = Put(Drop(StoreOf, from), to, o), OpenOf' = OpenOf
    PROVE  Store!Next
PROOF
<1>1. to \in DOMAIN StoreOf' /\ StoreOf'[to] = o BY DEF Put
<1>2. Store!Relocated(from, to, StoreOf[from].id) = o BY <1>1 DEF Store!Relocated, Rehoused
<1>3. Store!Move(from, to) BY <1>2 DEF Store!Move, Store!With, Store!Without, Put, Drop
<1> QED BY <1>1, <1>3 DEF Store!Next

\* Changing one object of the satellite changes that of the store.
LEMMA StorePut ==
    ASSUME NEW t, NEW l, NEW o, NEW v, t.committed = Put(v.committed, l, o)
    PROVE  StoreAt(t) = Put(StoreAt(v), l, AsObject(o))
BY DEF StoreAt, Put

LEMMA StoreDrop ==
    ASSUME NEW s, NEW t, NEW l, t.committed = Drop(s.committed, l)
    PROVE  StoreAt(t) = Drop(StoreAt(s), l)
BY DEF StoreAt, Drop

\* Changing one upload of the satellite changes that of the store.
LEMMA OpenPut ==
    ASSUME NEW s, NEW t, NEW id, NEW p, t.pending = Put(s.pending, id, p)
    PROVE  OpenAt(t) = Put(OpenAt(s), id, AsUpload(p))
BY DEF OpenAt, Put

LEMMA OpenDrop ==
    ASSUME NEW s, NEW t, NEW id, t.pending = Drop(s.pending, id)
    PROVE  OpenAt(t) = Drop(OpenAt(s), id)
BY DEF OpenAt, Drop

\* What a quiet request changes the store does not see,
LEMMA QuietStore ==
    ASSUME NEW s, NEW t, Quiet(s, t)
    PROVE  StoreAt(t) = StoreAt(s) /\ OpenAt(t) = OpenAt(s)
PROOF
<1>1. StoreAt(t) = StoreAt(s) BY DEF Quiet, StoreAt
<1>2. ASSUME NEW id \in DOMAIN s.pending PROVE AsUpload(t.pending[id]) = AsUpload(s.pending[id])
  BY <1>2 DEF Quiet, AsUpload
<1>3. OpenAt(t) = OpenAt(s) BY <1>2 DEF Quiet, OpenAt
<1> QED BY <1>1, <1>3

\* nor what an update changes.
LEMMA UpdatedStore ==
    ASSUME NEW s, SatelliteOK(s), NEW t, NEW r, Updated(s, t, r)
    PROVE  StoreAt(t) = StoreAt(s) /\ OpenAt(t) = OpenAt(s)
PROOF
<1>1. PICK l : l = <<r.bucket, r.key>> OBVIOUS
<1>2. PICK o : o = s.committed[l] OBVIOUS
<1>3. l \in DOMAIN s.committed /\ t.pending = s.pending BY <1>1 DEF Updated
<1>4. HasFields(o, ObjectFields) BY <1>2, <1>3 DEF SatelliteOK, CommittedOK
<1>5. PICK p : p = [o EXCEPT !.meta = r.meta, !.metaKey = r.metaKey, !.checksum = r.checksum] OBVIOUS
<1>6. t.committed = [s.committed EXCEPT ![l] = p] BY <1>1, <1>2, <1>5 DEF Updated
<1>7. p.stream = o.stream /\ p.segments = o.segments BY <1>4, <1>5 DEF HasFields, ObjectFields
<1>8. AsObject(p) = AsObject(o) BY <1>7 DEF AsObject, Content, Positions
<1>9. DOMAIN t.committed = DOMAIN s.committed BY <1>6
<1>10. ASSUME NEW m \in DOMAIN s.committed PROVE AsObject(t.committed[m]) = AsObject(s.committed[m])
  <2>1. CASE m = l BY <2>1, <1>2, <1>3, <1>6, <1>8
  <2>2. CASE m # l
    <3>1. t.committed[m] = s.committed[m] BY <2>2, <1>6
    <3> QED BY <3>1
  <2> QED BY <2>1, <2>2
<1>11. StoreAt(t) = StoreAt(s) BY <1>9, <1>10 DEF StoreAt
<1> QED BY <1>3, <1>11 DEF OpenAt

\* No id that was never used is that of an object or an upload.
LEMMA FreshId ==
    ASSUME NEW s, SatelliteOK(s), NEW id, id = s.nextId + 1
    PROVE  id \notin DOMAIN OpenAt(s) /\ \A l \in DOMAIN StoreAt(s) : StoreAt(s)[l].id # id
PROOF
<1>1. s.nextId \in Nat BY DEF SatelliteOK
<1>2. ~(id \in 1..s.nextId) BY <1>1
<1>3. id \notin DOMAIN s.pending BY <1>2 DEF SatelliteOK, PendingOK
<1>4. \A l \in DOMAIN s.committed : s.committed[l].stream # id BY <1>2 DEF SatelliteOK, CommittedOK
<1> QED BY <1>3, <1>4 DEF StoreAt, OpenAt, AsObject

\* A begun upload, seen from the store.
LEMMA BegunStore ==
    ASSUME NEW s, NEW t, NEW b, NEW k, Begun(s, t, b, k)
    PROVE  /\ StoreAt(t) = StoreAt(s)
           /\ OpenAt(t) = Put(OpenAt(s), s.nextId + 1, [at |-> <<b, k>>, chunks |-> <<>>])
PROOF
<1>1. PICK p : /\ p.bucket = b /\ p.key = k /\ p.segments = <<>>
               /\ t.pending = Put(s.pending, s.nextId + 1, p)
  BY DEF Begun
<1>2. [i \in DOMAIN p.segments |-> Chunk(p.segments[i])] = <<>> BY <1>1
<1>3. AsUpload(p) = [at |-> <<b, k>>, chunks |-> <<>>] BY <1>1, <1>2 DEF AsUpload
<1>4. OpenAt(t) = Put(OpenAt(s), s.nextId + 1, AsUpload(p)) BY <1>1, OpenPut
<1> QED BY <1>3, <1>4 DEF Begun, StoreAt

\* A segment that arrived, seen from the store.
LEMMA AddedStore ==
    ASSUME NEW s, SatelliteOK(s), NEW t, NEW id, NEW seg, Added(s, t, id, seg), NEW q,
           q = OpenAt(s)[id].chunks
    PROVE  /\ StoreAt(t) = StoreAt(s) /\ id \in DOMAIN OpenAt(s) /\ IsList(q)
           /\ OpenAt(s)[id] = [at |-> OpenAt(s)[id].at, chunks |-> q]
           /\ OpenAt(t) = [OpenAt(s) EXCEPT ![id].chunks = Append(q, Chunk(seg))]
PROOF
<1>1. PICK p : /\ p.bucket = s.pending[id].bucket /\ p.key = s.pending[id].key
               /\ p.segments = Append(s.pending[id].segments, seg)
               /\ t.pending = [s.pending EXCEPT ![id] = p]
  BY DEF Added
<1>2. id \in DOMAIN s.pending /\ t.committed = s.committed BY DEF Added
<1>3. PICK w : w = s.pending[id].segments OBVIOUS
<1>4. IsList(w) BY <1>2, <1>3 DEF SatelliteOK, PendingOK, SegmentsOK
<1>5. PICK n \in Nat : n = Len(w) BY <1>4 DEF IsList
<1>6. OpenAt(s)[id] = AsUpload(s.pending[id]) /\ DOMAIN OpenAt(s) = DOMAIN s.pending BY <1>2 DEF OpenAt
<1>7. q = [i \in 1..n |-> Chunk(w[i])] BY <1>3, <1>4, <1>5, <1>6 DEF AsUpload, IsList
<1>8. IsList(q) /\ Len(q) = n
  <2>1. q \in Seq({Chunk(w[i]) : i \in 1..n}) BY <1>7
  <2>2. Len(q) = n BY <1>7, <2>1
  <2> QED BY <1>7, <2>2 DEF IsList
<1>9. PICK d : d = Append(q, Chunk(seg)) OBVIOUS
<1>10. IsList(d) /\ Len(d) = n + 1 /\ (\A i \in 1..n : d[i] = q[i]) /\ d[n + 1] = Chunk(seg)
  BY <1>8, <1>9, ListAppend
<1>11. PICK v : v = p.segments OBVIOUS
<1>12. IsList(v) /\ Len(v) = n + 1 /\ (\A i \in 1..n : v[i] = w[i]) /\ v[n + 1] = seg
  BY <1>1, <1>3, <1>4, <1>5, <1>11, ListAppend
<1>13. AsUpload(p).chunks = d
  <2>1. AsUpload(p).chunks = [i \in 1..(n + 1) |-> Chunk(v[i])] BY <1>11, <1>12 DEF AsUpload, IsList
  <2>2. ASSUME NEW i \in 1..(n + 1) PROVE Chunk(v[i]) = d[i]
    <3>1. CASE i = n + 1 BY <3>1, <1>10, <1>12
    <3>2. CASE i # n + 1
      <4>1. i \in 1..n BY <3>2
      <4>2. v[i] = w[i] /\ d[i] = q[i] BY <4>1, <1>10, <1>12
      <4>3. q[i] = Chunk(w[i]) BY <4>1, <1>7
      <4> QED BY <4>2, <4>3
    <3> QED BY <3>1, <3>2
  <2>3. d = [i \in 1..(n + 1) |-> d[i]] BY <1>10 DEF IsList
  <2> QED BY <2>1, <2>2, <2>3
<1>14. AsUpload(p).at = AsUpload(s.pending[id]).at BY <1>1 DEF AsUpload
<1>15. PICK f, g : f = OpenAt(s) /\ g = OpenAt(t) OBVIOUS
<1>16. f[id] = [at |-> f[id].at, chunks |-> q] BY <1>6, <1>15 DEF AsUpload
<1>17. AsUpload(p) = [at |-> f[id].at, chunks |-> d] BY <1>6, <1>13, <1>14, <1>15 DEF AsUpload
<1>18. g = [x \in DOMAIN f |-> IF x = id THEN AsUpload(p) ELSE f[x]]
  <2>1. DOMAIN t.pending = DOMAIN s.pending BY <1>1
  <2>2. g = [x \in DOMAIN s.pending |-> AsUpload(t.pending[x])] BY <1>15, <2>1 DEF OpenAt
  <2>3. ASSUME NEW x \in DOMAIN s.pending
        PROVE  AsUpload(t.pending[x]) = IF x = id THEN AsUpload(p) ELSE f[x]
    <3>1. CASE x = id BY <3>1, <1>1, <1>2
    <3>2. CASE x # id
      <4>1. t.pending[x] = s.pending[x] BY <3>2, <1>1
      <4> QED BY <3>2, <4>1, <1>15 DEF OpenAt
    <3> QED BY <3>1, <3>2
  <2> QED BY <2>2, <2>3, <1>6, <1>15
<1>19. f = [x \in DOMAIN f |-> f[x]] BY <1>15 DEF OpenAt
<1>20. g = [f EXCEPT ![id].chunks = d]
  <2>1. [f[id] EXCEPT !.chunks = d] = AsUpload(p) BY <1>16, <1>17
  <2> QED BY <2>1, <1>18, <1>19
<1> QED BY <1>2, <1>6, <1>8, <1>9, <1>15, <1>16, <1>20 DEF StoreAt

\* commit_object arranges the chunks of the upload.
LEMMA ArrangedUpload ==
    ASSUME NEW q, SegmentsOK(q), NEW o, o.segments = by_position(q), NEW chunks,
           chunks = [i \in DOMAIN q |-> Chunk(q[i])]
    PROVE  Store!Arranges(Content(o), chunks) /\ (Distinct(Positions(o)) <=> Store!Exact(chunks))
PROOF
<1>1. PICK n \in Nat : n = Len(q) BY DEF SegmentsOK, IsList
<1>2. DOMAIN q = 1..n BY <1>1 DEF SegmentsOK, IsList
<1>3. PICK p \in [1..n -> 1..n] :
              /\ \A i, j \in 1..n : p[i] = p[j] => i = j
              /\ by_position(q) = [i \in 1..n |-> q[p[i]]]
              /\ \A i, j \in 1..n : i < j => ~PositionBefore(q[p[j]], q[p[i]])
  BY <1>1, Sorted, ZenonT(60)
<1>4. DOMAIN chunks = 1..n BY <1>2
<1>5. \A i \in 1..n : chunks[i].payload = q[i].key.sealed /\ chunks[i].position = q[i].position
  BY <1>2 DEF Chunk
<1>6. \A i \in 1..n : p[i] \in 1..n BY <1>3
<1>7. Content(o) = [i \in 1..n |-> q[p[i]].key.sealed] BY <1>3, <1>6 DEF Content
<1>8. Content(o) = [i \in 1..n |-> chunks[p[i]].payload] BY <1>5, <1>6, <1>7
<1>9. ASSUME NEW i \in 1..n, NEW j \in 1..n, i < j
      PROVE  ~Store!Before(chunks[p[j]].position, chunks[p[i]].position)
  <2>1. ~PositionBefore(q[p[j]], q[p[i]]) BY <1>3, <1>9
  <2>2. chunks[p[j]].position = q[p[j]].position /\ chunks[p[i]].position = q[p[i]].position
    BY <1>5, <1>6
  <2> QED BY <2>1, <2>2 DEF PositionBefore, Store!Before
<1>10. Store!Arranges(Content(o), chunks)
  <2>1. PICK D : D = DOMAIN chunks OBVIOUS
  <2>2. /\ p \in [D -> D] /\ Content(o) = [i \in D |-> chunks[p[i]].payload]
        /\ \A i, j \in D : p[i] = p[j] => i = j
        /\ \A i, j \in D : i < j => ~Store!Before(chunks[p[j]].position, chunks[p[i]].position)
    <3>1. D = 1..n BY <1>4, <2>1
    <3>2. p \in [D -> D] /\ \A i, j \in D : p[i] = p[j] => i = j BY <3>1, <1>3
    <3>3. Content(o) = [i \in D |-> chunks[p[i]].payload] BY <3>1, <1>8
    <3>4. \A i, j \in 1..n : i < j => ~Store!Before(chunks[p[j]].position, chunks[p[i]].position)
      BY <1>9
    <3> QED BY <3>1, <3>2, <3>3, <3>4
  <2> QED BY <2>1, <2>2, ZenonT(60) DEF Store!Arranges
<1>11. DOMAIN Positions(o) = 1..n /\ \A i \in 1..n : Positions(o)[i] = chunks[p[i]].position
  <2>1. Positions(o) = [i \in 1..n |-> q[p[i]].position] BY <1>3 DEF Positions
  <2> QED BY <2>1, <1>5, <1>6
<1>12. ASSUME Store!Exact(chunks) PROVE Distinct(Positions(o))
  <2> SUFFICES ASSUME NEW i \in 1..n, NEW j \in 1..n, Positions(o)[i] = Positions(o)[j]
      PROVE  i = j
    BY <1>11 DEF Distinct
  <2>1. PICK x \in 1..n, y \in 1..n : x = p[i] /\ y = p[j] BY <1>6
  <2>2. chunks[x].position = chunks[y].position BY <2>1, <1>11
  <2>3. x = y BY <2>2, <1>4, <1>12 DEF Store!Exact
  <2> QED BY <2>1, <2>3, <1>3
<1>13. ASSUME Distinct(Positions(o)) PROVE Store!Exact(chunks)
  <2> SUFFICES ASSUME NEW x \in 1..n, NEW y \in 1..n, chunks[x].position = chunks[y].position
      PROVE  x = y
    BY <1>4 DEF Store!Exact
  <2>1. \A z \in 1..n : \E i \in 1..n : p[i] = z
    <3> DEFINE D == 1..n
    <3>1. p \in Injection(D, D) BY <1>3 DEF Injection, IsInjective
    <3>2. IsFiniteSet(D) BY FS_Interval
    <3>3. p \in Surjection(D, D) BY <3>1, <3>2, FS_Injection
    <3> QED BY <3>3 DEF Surjection
  <2>2. PICK i \in 1..n : p[i] = x BY <2>1
  <2>3. PICK j \in 1..n : p[j] = y BY <2>1
  <2>4. Positions(o)[i] = Positions(o)[j] BY <1>11, <2>2, <2>3
  <2>5. i = j BY <2>4, <1>11, <1>13 DEF Distinct
  <2> QED BY <2>2, <2>3, <2>5
<1> QED BY <1>10, <1>12, <1>13

\* The upload id leaves the open uploads O and its chunks become an object of S.
Publishes(S, T, O, P, id) ==
    /\ id \in DOMAIN O /\ P = Drop(O, id)
    /\ \E content :
          /\ Store!Arranges(content, O[id].chunks)
          /\ T = Put(S, O[id].at, [id |-> id, content |-> content, exact |-> Store!Exact(O[id].chunks)])

\* A published upload, seen from the store: all of its chunks, in order.
LEMMA PublishedStore ==
    ASSUME NEW s, SatelliteOK(s), NEW t, NEW r, Published(s, t, r), NEW id, id = r.stream
    PROVE  Publishes(StoreAt(s), StoreAt(t), OpenAt(s), OpenAt(t), id)
PROOF
<1>1. PICK p, o : p = s.pending[id] /\ o = CommittedObject(r, p) OBVIOUS
<1>2. /\ id \in DOMAIN s.pending /\ t.pending = Drop(s.pending, id)
      /\ t.committed = Put(s.committed, <<p.bucket, p.key>>, o)
  BY <1>1 DEF Published
<1>3. SegmentsOK(p.segments) BY <1>1, <1>2 DEF SatelliteOK, PendingOK
<1>4. o.segments = by_position(p.segments) /\ o.stream = id BY <1>1, CommittedObjectFields
<1>5. PICK chunks : chunks = [i \in DOMAIN p.segments |-> Chunk(p.segments[i])] OBVIOUS
<1>6. Store!Arranges(Content(o), chunks) /\ (Distinct(Positions(o)) <=> Store!Exact(chunks))
  BY <1>3, <1>4, <1>5, ArrangedUpload
<1>7. OpenAt(s)[id] = AsUpload(p) /\ id \in DOMAIN OpenAt(s) BY <1>1, <1>2 DEF OpenAt
<1>8. OpenAt(s)[id].chunks = chunks /\ OpenAt(s)[id].at = <<p.bucket, p.key>>
  BY <1>5, <1>7 DEF AsUpload
<1>9. AsObject(o) = [id |-> id, content |-> Content(o), exact |-> Store!Exact(chunks)]
  <2>1. Distinct(Positions(o)) \in BOOLEAN /\ Store!Exact(chunks) \in BOOLEAN
    BY DEF Distinct, Store!Exact
  <2>2. Distinct(Positions(o)) = Store!Exact(chunks) BY <2>1, <1>6
  <2> QED BY <2>2, <1>4 DEF AsObject
<1>10. StoreAt(t) = Put(StoreAt(s), <<p.bucket, p.key>>, AsObject(o)) BY <1>2, StorePut
<1>11. OpenAt(t) = Drop(OpenAt(s), id) BY <1>2, OpenDrop
<1> QED BY <1>6, <1>7, <1>8, <1>9, <1>10, <1>11 DEF Publishes

\* A copy or a move sent keys that fit: the object it made is the one it found.
FitRelocation(s, r) ==
    r.newKey \in Path /\
    \E e, new : SameEdition(Edition(s.committed[LocationOf(s, r.stream)]), e) /\ KeysFit(r.segmentKeys, e, new)

\* A relocated object holds the content of its source.
LEMMA RehousedObject ==
    ASSUME NEW s, SatelliteOK(s), NEW r, FitRelocation(s, r), NEW l, l = LocationOf(s, r.stream),
           l \in DOMAIN s.committed, NEW o, NEW stream, RelocatedObject(o, s.committed[l], r, stream)
    PROVE  Rehoused(StoreAt(s)[l], AsObject(o), stream)
PROOF
<1>1. PICK src : src = s.committed[l] OBVIOUS
<1>2. PICK e, new : SameEdition(Edition(src), e) /\ KeysFit(r.segmentKeys, e, new)
  BY <1>1 DEF FitRelocation
<1>3. SegmentsOK(src.segments) BY <1>1 DEF SatelliteOK, CommittedOK
<1>4. RelocatedObject(o, src, r, stream) BY <1>1
<1>5. Positions(o) = Positions(src) /\ (Distinct(Positions(src)) => Content(o) = Content(src))
  BY ONLY <1>2, <1>3, <1>4, RelocatedKeys
<1>6. StoreAt(s)[l] = AsObject(src) BY <1>1 DEF StoreAt
<1>7. o.stream = stream BY <1>4 DEF RelocatedObject
<1> QED BY <1>5, <1>6, <1>7 DEF AsObject, Rehoused

\* A copy, seen from the store.
LEMMA CopiedStore ==
    ASSUME NEW s, SatelliteOK(s), NEW r, FitRelocation(s, r), NEW t, Copied(s, t, r)
    PROVE  \E from \in DOMAIN StoreAt(s) : \E to, o :
              /\ Rehoused(StoreAt(s)[from], AsObject(o), s.nextId + 1)
              /\ StoreAt(t) = Put(StoreAt(s), to, AsObject(o)) /\ OpenAt(t) = OpenAt(s)
PROOF
<1>1. PICK l : l = LocationOf(s, r.stream) OBVIOUS
<1>2. PICK o : /\ RelocatedObject(o, s.committed[l], r, s.nextId + 1)
               /\ t.committed = Put(s.committed, <<r.newBucket, r.newKey>>, o)
  BY <1>1 DEF Copied
<1>3. l \in DOMAIN s.committed /\ t.pending = s.pending BY <1>1 DEF Copied
<1>4. Rehoused(StoreAt(s)[l], AsObject(o), s.nextId + 1) BY <1>1, <1>2, <1>3, RehousedObject
<1>5. StoreAt(t) = Put(StoreAt(s), <<r.newBucket, r.newKey>>, AsObject(o)) BY <1>2, StorePut
<1>6. OpenAt(t) = OpenAt(s) BY <1>3 DEF OpenAt
<1>7. l \in DOMAIN StoreAt(s) BY <1>3 DEF StoreAt
<1> QED BY <1>4, <1>5, <1>6, <1>7

\* A move, seen from the store: gone there and here at once.
LEMMA MovedStore ==
    ASSUME NEW s, SatelliteOK(s), NEW r, FitRelocation(s, r), NEW t, Moved(s, t, r)
    PROVE  \E from \in DOMAIN StoreAt(s) : \E to, o :
              /\ Rehoused(StoreAt(s)[from], AsObject(o), StoreAt(s)[from].id)
              /\ StoreAt(t) = Put(Drop(StoreAt(s), from), to, AsObject(o)) /\ OpenAt(t) = OpenAt(s)
PROOF
<1>1. PICK l : l = LocationOf(s, r.stream) OBVIOUS
<1>2. PICK o : /\ RelocatedObject(o, s.committed[l], r, r.stream)
               /\ t.committed = Put(Drop(s.committed, l), <<r.newBucket, r.newKey>>, o)
  BY <1>1 DEF Moved
<1>3. l \in DOMAIN s.committed /\ s.committed[l].stream = r.stream /\ t.pending = s.pending
  BY <1>1 DEF Moved
<1>4. StoreAt(s)[l].id = r.stream BY <1>3 DEF StoreAt, AsObject
<1>5. Rehoused(StoreAt(s)[l], AsObject(o), r.stream) BY <1>1, <1>2, <1>3, RehousedObject
<1>6. PICK v : v = [committed |-> Drop(s.committed, l)] OBVIOUS
<1>7. v.committed = Drop(s.committed, l) BY <1>6
<1>8. StoreAt(v) = Drop(StoreAt(s), l) BY <1>7, StoreDrop
<1>9. t.committed = Put(v.committed, <<r.newBucket, r.newKey>>, o) BY <1>2, <1>7
<1>10. StoreAt(t) = Put(StoreAt(v), <<r.newBucket, r.newKey>>, AsObject(o)) BY <1>9, StorePut
<1>11. OpenAt(t) = OpenAt(s) BY <1>3 DEF OpenAt
<1>12. l \in DOMAIN StoreAt(s) BY <1>3 DEF StoreAt
<1> QED BY <1>4, <1>5, <1>8, <1>10, <1>11, <1>12

\* What any RPC may do to objects and uploads.
Change(s, t) ==
    \/ Quiet(s, t)
    \/ \E b : \E k \in Path : Begun(s, t, b, k)
    \/ \E id, seg : Added(s, t, id, seg)
    \/ \E id : Discarded(s, t, id)
    \/ \E l : Deleted(s, t, l)
    \/ \E r : Published(s, t, r)
    \/ \E r : Updated(s, t, r)
    \/ \E r : FitRelocation(s, r) /\ (Copied(s, t, r) \/ Moved(s, t, r))

\* Each of these changes is a step of the store, or none.
LEMMA ChangeStore ==
    ASSUME SatelliteOK(sat), Change(sat, sat')
    PROVE  Store!Next \/ (StoreOf' = StoreOf /\ OpenOf' = OpenOf)
PROOF
<1>1. PICK s, t, S, T, O, P : /\ s = sat /\ t = sat' /\ S = StoreAt(s) /\ T = StoreAt(t)
                              /\ O = OpenAt(s) /\ P = OpenAt(t)
  OBVIOUS
<1>2. SatelliteOK(s) BY <1>1
<1>3. StoreOf = S /\ StoreOf' = T /\ OpenOf = O /\ OpenOf' = P
  BY <1>1 DEF StoreOf, OpenOf, StoreAt, OpenAt
<1>4. CASE Quiet(s, t)
  <2>1. T = S /\ P = O BY <1>1, <1>4, QuietStore
  <2> QED BY <2>1, <1>3
<1>5. ASSUME NEW b, NEW k, Begun(s, t, b, k) PROVE Store!Next
  <2>1. PICK id : id = s.nextId + 1 OBVIOUS
  <2>2. id \notin DOMAIN O /\ \A l \in DOMAIN S : S[l].id # id BY <1>1, <1>2, <2>1, FreshId
  <2>3. PICK at : at = <<b, k>> OBVIOUS
  <2>4. T = S /\ P = Put(O, id, [at |-> at, chunks |-> <<>>]) BY <1>1, <1>5, <2>1, <2>3, BegunStore
  <2>5. /\ id \notin DOMAIN OpenOf /\ \A l \in DOMAIN StoreOf : StoreOf[l].id # id
        /\ OpenOf' = Put(OpenOf, id, [at |-> at, chunks |-> <<>>]) /\ StoreOf' = StoreOf
    BY <1>3, <2>2, <2>4
  <2> QED BY <2>5, AbstractBegin
<1>6. ASSUME NEW id, NEW seg, Added(s, t, id, seg) PROVE Store!Next
  <2>1. PICK q, chunk : q = O[id].chunks /\ chunk = Chunk(seg) OBVIOUS
  <2>2. /\ T = S /\ id \in DOMAIN O /\ IsList(q) /\ O[id] = [at |-> O[id].at, chunks |-> q]
        /\ P = [O EXCEPT ![id].chunks = Append(q, chunk)]
    BY <1>1, <1>2, <1>6, <2>1, AddedStore
  <2>3. /\ id \in DOMAIN OpenOf /\ q = OpenOf[id].chunks /\ IsList(q) /\ StoreOf' = StoreOf
        /\ OpenOf' = [OpenOf EXCEPT ![id].chunks = Append(q, chunk)]
        /\ OpenOf[id] = [at |-> OpenOf[id].at, chunks |-> q]
    BY <1>3, <2>1, <2>2
  <2> QED BY <2>3, AbstractAdd
<1>7. ASSUME NEW id, Discarded(s, t, id) PROVE Store!Next \/ (StoreOf' = StoreOf /\ OpenOf' = OpenOf)
  <2>1. T = S /\ t.pending = Drop(s.pending, id) BY <1>1, <1>7 DEF Discarded, StoreAt
  <2>2. P = Drop(O, id) BY <1>1, <2>1, OpenDrop
  <2>3. CASE id \in DOMAIN O BY <1>3, <2>1, <2>2, <2>3, AbstractDiscard
  <2>4. CASE id \notin DOMAIN O
    <3>1. O = [x \in DOMAIN O |-> O[x]] BY <1>1 DEF OpenAt
    <3>2. P = O BY <2>2, <2>4, <3>1 DEF Drop
    <3> QED BY <1>3, <2>1, <3>2
  <2> QED BY <2>3, <2>4
<1>8. ASSUME NEW l, Deleted(s, t, l) PROVE Store!Next
  <2>1. P = O /\ l \in DOMAIN S /\ t.committed = Drop(s.committed, l)
    BY <1>1, <1>8 DEF Deleted, OpenAt, StoreAt
  <2>2. T = Drop(S, l) BY <1>1, <2>1, StoreDrop
  <2> QED BY <1>3, <2>1, <2>2, AbstractDelete
<1>9. ASSUME NEW r, Published(s, t, r) PROVE Store!Next
  <2>1. PICK id : id = r.stream OBVIOUS
  <2>2. /\ id \in DOMAIN O /\ P = Drop(O, id)
        /\ \E content :
              /\ Store!Arranges(content, O[id].chunks)
              /\ T = Put(S, O[id].at, [id |-> id, content |-> content, exact |-> Store!Exact(O[id].chunks)])
    <3>1. Publishes(StoreAt(s), StoreAt(t), OpenAt(s), OpenAt(t), id)
      BY ONLY <1>2, <1>9, <2>1, PublishedStore
    <3>2. Publishes(S, T, O, P, id) BY ONLY <3>1, <1>1
    <3> QED BY ONLY <3>2 DEF Publishes
  <2>3. PICK content :
              /\ Store!Arranges(content, O[id].chunks)
              /\ T = Put(S, O[id].at, [id |-> id, content |-> content, exact |-> Store!Exact(O[id].chunks)])
    BY <2>2
  <2>4. /\ id \in DOMAIN OpenOf /\ OpenOf' = Drop(OpenOf, id)
        /\ Store!Arranges(content, OpenOf[id].chunks)
        /\ StoreOf' = Put(StoreOf, OpenOf[id].at,
                          [id |-> id, content |-> content, exact |-> Store!Exact(OpenOf[id].chunks)])
    BY <1>3, <2>2, <2>3
  <2> QED BY <2>4, AbstractPublish
<1>10. ASSUME NEW r, Updated(s, t, r) PROVE StoreOf' = StoreOf /\ OpenOf' = OpenOf
  <2>1. T = S /\ P = O BY <1>1, <1>2, <1>10, UpdatedStore
  <2> QED BY <2>1, <1>3
<1>11. ASSUME NEW r, FitRelocation(s, r), Copied(s, t, r) PROVE Store!Next
  <2>1. PICK id : id = s.nextId + 1 OBVIOUS
  <2>2. id \notin DOMAIN O /\ \A l \in DOMAIN S : S[l].id # id BY <1>1, <1>2, <2>1, FreshId
  <2>3. \E from \in DOMAIN S : \E to, o :
           Rehoused(S[from], AsObject(o), id) /\ T = Put(S, to, AsObject(o)) /\ P = O
    BY <1>1, <1>2, <1>11, <2>1, CopiedStore
  <2>4. PICK from \in DOMAIN S :
           \E to, o : Rehoused(S[from], AsObject(o), id) /\ T = Put(S, to, AsObject(o)) /\ P = O
    BY <2>3
  <2>5. PICK to, o : Rehoused(S[from], AsObject(o), id) /\ T = Put(S, to, AsObject(o)) /\ P = O
    BY <2>4
  <2>6. PICK x : x = AsObject(o) OBVIOUS
  <2>7. x = [id |-> x.id, content |-> x.content, exact |-> x.exact] BY <2>6 DEF AsObject
  <2>8. /\ from \in DOMAIN StoreOf /\ Rehoused(StoreOf[from], x, id)
        /\ id \notin DOMAIN OpenOf /\ \A l \in DOMAIN StoreOf : StoreOf[l].id # id
        /\ StoreOf' = Put(StoreOf, to, x) /\ OpenOf' = OpenOf
    BY <1>3, <2>2, <2>4, <2>5, <2>6
  <2> QED BY <2>7, <2>8, AbstractCopy
<1>12. ASSUME NEW r, FitRelocation(s, r), Moved(s, t, r) PROVE Store!Next
  <2>1. \E from \in DOMAIN S : \E to, o :
           Rehoused(S[from], AsObject(o), S[from].id) /\ T = Put(Drop(S, from), to, AsObject(o)) /\ P = O
    BY <1>1, <1>2, <1>12, MovedStore
  <2>2. PICK from \in DOMAIN S : \E to, o :
           Rehoused(S[from], AsObject(o), S[from].id) /\ T = Put(Drop(S, from), to, AsObject(o)) /\ P = O
    BY <2>1
  <2>3. PICK to, o :
           Rehoused(S[from], AsObject(o), S[from].id) /\ T = Put(Drop(S, from), to, AsObject(o)) /\ P = O
    BY <2>2
  <2>4. PICK x : x = AsObject(o) OBVIOUS
  <2>5. x = [id |-> x.id, content |-> x.content, exact |-> x.exact] BY <2>4 DEF AsObject
  <2>6. /\ from \in DOMAIN StoreOf /\ Rehoused(StoreOf[from], x, StoreOf[from].id)
        /\ StoreOf' = Put(Drop(StoreOf, from), to, x) /\ OpenOf' = OpenOf
    BY <1>3, <2>2, <2>3, <2>4
  <2> QED BY <2>5, <2>6, AbstractMove
<1>13. Change(s, t) BY <1>1
<1> QED BY <1>4, <1>5, <1>6, <1>7, <1>8, <1>9, <1>10, <1>11, <1>12, <1>13 DEF Change

\* No change is one of them.
LEMMA SameChange == ASSUME NEW s PROVE Change(s, s)
BY DEF Change, Quiet

\* A request that makes one of them, served or lost.
LEMMA ServedChange ==
    ASSUME NEW r, Served(r), NEW s, s = sat, Still(s, r.s) \/ r.s = s \/ Change(s, r.s)
    PROVE  Change(sat, sat')
PROOF
<1>1. Change(s, s) BY SameChange
<1>2. Change(s, r.s) BY <1>1 DEF Still, Change
<1> QED BY <1>1, <1>2 DEF Served

\* Every step of a client is such a change.
LEMMA ClientChange ==
    ASSUME Inv, NEW c \in Clients, ClientStep(c)
    PROVE  Change(sat, sat')
PROOF
<1>0. PICK s, a : s = sat /\ a = Key(c) OBVIOUS
<1>s. SatelliteOK(s) BY <1>0 DEF Inv, ProjectOK
<1>1. CASE CreateBucket(c)
  <2>1. PICK x, y : x = Op(c).bucket /\ y = Op(c).lock OBVIOUS
  <2>2. PICK r : r = create_bucket(s, a, x, y) OBVIOUS
  <2>3. Served(r) BY <1>1, <1>0, <2>1, <2>2 DEF CreateBucket, Rpc, Served
  <2>4. Still(s, r.s) BY <1>s, <2>2, CreateBucketServes
  <2> QED BY <1>0, <2>3, <2>4, ServedChange
<1>2. CASE ExistingBucket(c)
  <2>1. PICK x : x = Op(c).bucket OBVIOUS
  <2>2. PICK r : r = get_bucket(s, a, x) OBVIOUS
  <2>3. Served(r) BY <1>2, <1>0, <2>1, <2>2 DEF ExistingBucket, Rpc, Served
  <2>4. r.s = s BY <2>2 DEF get_bucket, Refuse, Reply
  <2> QED BY <1>0, <2>3, <2>4, ServedChange
<1>3. CASE StatBucket(c)
  <2>1. PICK x : x = Op(c).bucket OBVIOUS
  <2>2. PICK r : r = get_bucket(s, a, x) OBVIOUS
  <2>3. Served(r) BY <1>3, <1>0, <2>1, <2>2 DEF StatBucket, Rpc, Unary, Served
  <2>4. r.s = s BY <2>2 DEF get_bucket, Refuse, Reply
  <2> QED BY <1>0, <2>3, <2>4, ServedChange
<1>4. CASE DeleteBucket(c)
  <2>1. PICK x, y : x = Op(c).bucket /\ y = Op(c).all OBVIOUS
  <2>2. PICK r : r = delete_bucket(s, a, x, y) OBVIOUS
  <2>3. Served(r) BY <1>4, <1>0, <2>1, <2>2 DEF DeleteBucket, Rpc, Unary, Served
  <2>4. Still(s, r.s) BY <1>s, <2>2, DeleteBucketServes
  <2> QED BY <1>0, <2>3, <2>4, ServedChange
<1>5. CASE ListBuckets(c)
  <2>1. PICK x : x = Mem(c).cursor OBVIOUS
  <2>2. PICK r : r = list_buckets(s, a, x) OBVIOUS
  <2>3. Served(r) BY <1>5, <1>0, <2>1, <2>2 DEF ListBuckets, Rpc, Served
  <2>4. r.s = s BY <2>2 DEF list_buckets, Refuse, Reply
  <2> QED BY <1>0, <2>3, <2>4, ServedChange
<1>6. CASE BeginSegment(c)
  <2>1. PICK x : x = Op(c).id OBVIOUS
  <2>2. PICK r : r = begin_segment_id(s, a, x) OBVIOUS
  <2>3. Served(r) BY <1>6, <1>0, <2>1, <2>2 DEF BeginSegment, Rpc, Served
  <2>4. Still(s, r.s) BY <1>s, <2>2, BeginSegmentIdServes
  <2> QED BY <1>0, <2>3, <2>4, ServedChange
<1>7. CASE RetryPieces(c)
  <2>1. PICK x : x = Mem(c).segment OBVIOUS
  <2>2. PICK r : r = retry_pieces_id(s, a, x) OBVIOUS
  <2>3. Served(r) BY <1>7, <1>0, <2>1, <2>2 DEF RetryPieces, Rpc, Served
  <2>4. Still(s, r.s) BY <1>s, <2>2, RetryPiecesIdServes
  <2> QED BY <1>0, <2>3, <2>4, ServedChange
<1>8. CASE StatObject(c)
  <2>1. PICK x, y : x = Op(c).bucket /\ y = EncKey(c) OBVIOUS
  <2>2. PICK r : r = get_object(s, a, x, y) OBVIOUS
  <2>3. Served(r) BY <1>8, <1>0, <2>1, <2>2 DEF StatObject, Rpc, Served
  <2>4. r.s = s BY <2>2 DEF get_object, Refuse, Reply
  <2> QED BY <1>0, <2>3, <2>4, ServedChange
<1>9. CASE ReadForUpdate(c)
  <2>1. PICK x, y : x = Op(c).bucket /\ y = EncKey(c) OBVIOUS
  <2>2. PICK r : r = get_object(s, a, x, y) OBVIOUS
  <2>3. Served(r) BY <1>9, <1>0, <2>1, <2>2 DEF ReadForUpdate, Rpc, Served
  <2>4. r.s = s BY <2>2 DEF get_object, Refuse, Reply
  <2> QED BY <1>0, <2>3, <2>4, ServedChange
<1>10. CASE ListObjects(c)
  <2>1. PICK x : x = ListObjectsRequest(c) OBVIOUS
  <2>2. PICK r : r = list_objects(s, a, x) OBVIOUS
  <2>3. Served(r) BY <1>10, <1>0, <2>1, <2>2 DEF ListObjects, Rpc, Served
  <2>4. r.s = s BY <2>2 DEF list_objects, Refuse, Reply
  <2> QED BY <1>0, <2>3, <2>4, ServedChange
<1>11. CASE ListUploads(c)
  <2>1. PICK x : x = ListUploadsRequest(c) OBVIOUS
  <2>2. PICK r : r = list_uploading_objects(s, a, x) OBVIOUS
  <2>3. Served(r) BY <1>11, <1>0, <2>1, <2>2 DEF ListUploads, Rpc, Served
  <2>4. r.s = s BY <2>2 DEF list_uploading_objects, Refuse, Reply
  <2> QED BY <1>0, <2>3, <2>4, ServedChange
<1>12. CASE ListUploadsByKey(c)
  <2>1. PICK x, y, z : x = Op(c).bucket /\ y = EncKey(c) /\ z = Mem(c).cursor OBVIOUS
  <2>2. PICK r : r = list_pending_object_streams(s, a, x, y, z) OBVIOUS
  <2>3. Served(r) BY <1>12, <1>0, <2>1, <2>2 DEF ListUploadsByKey, Rpc, Served
  <2>4. r.s = s BY <2>2 DEF list_pending_object_streams, Refuse, Reply
  <2> QED BY <1>0, <2>3, <2>4, ServedChange
<1>13. CASE ListUploadParts(c)
  <2>1. PICK x : x = Op(c).id OBVIOUS
  <2>2. PICK r : r = list_segments(s, a, x) OBVIOUS
  <2>3. Served(r) BY <1>13, <1>0, <2>1, <2>2 DEF ListUploadParts, Rpc, Served
  <2>4. r.s = s BY <2>2 DEF list_segments, Refuse, Reply
  <2> QED BY <1>0, <2>3, <2>4, ServedChange
<1>14. CASE DownloadObject(c)
  <2>1. PICK x, y, z : x = Op(c).bucket /\ y = EncKey(c) /\ z = Op(c).version OBVIOUS
  <2>2. PICK r : r = download_object(s, a, x, y, z) OBVIOUS
  <2>3. Served(r) BY <1>14, <1>0, <2>1, <2>2 DEF DownloadObject, Rpc, Served
  <2>4. r.s = s BY <2>2 DEF download_object, Refuse, Reply
  <2> QED BY <1>0, <2>3, <2>4, ServedChange
<1>15. CASE DownloadSegment(c)
  <2>1. PICK x, y : x = Mem(c).stream /\ y = Head(Mem(c).rest) OBVIOUS
  <2>2. PICK r : r = download_segment(s, a, x, y) OBVIOUS
  <2>3. Served(r) BY <1>15, <1>0, <2>1, <2>2 DEF DownloadSegment, Rpc, Served
  <2>4. r.s = s BY <2>2 DEF download_segment, Refuse, Reply
  <2> QED BY <1>0, <2>3, <2>4, ServedChange
<1>16. CASE Call(c)
  <2>1. PICK op : Start(c, op) BY <1>16 DEF Call
  <2>2. sat' = sat BY <2>1 DEF Start
  <2> QED BY <1>0, <2>2, SameChange
<1>17. CASE ObjectLock(c)
  <2>1. PICK x, k, v, w, z : /\ x = Op(c).bucket /\ k = EncKey(c) /\ v = Op(c).version
                             /\ w = Op(c).what /\ z = Op(c).value
    OBVIOUS
  <2>2. PICK f, g : f = get_lock(s, a, x, k, v, w) /\ g = set_lock(s, a, x, k, v, z) OBVIOUS
  <2>3. Served(f) \/ Served(g) BY <1>17, <1>0, <2>1, <2>2 DEF ObjectLock, Rpc, Unary, Served
  <2>4. f.s = s BY <2>2 DEF get_lock, Refuse, Reply
  <2>5. Still(s, g.s) BY <1>s, <2>2, SetLockServes
  <2> QED BY <1>0, <2>3, <2>4, <2>5, ServedChange
<1>18. CASE BucketLock(c)
  <2>1. PICK x, y : x = Op(c).bucket /\ y = Op(c).config OBVIOUS
  <2>2. PICK f, g : f = get_lock_config(s, a, x) /\ g = set_lock_config(s, a, x, y) OBVIOUS
  <2>3. Served(f) \/ Served(g) BY <1>18, <1>0, <2>1, <2>2 DEF BucketLock, Rpc, Unary, Served
  <2>4. f.s = s BY <2>2 DEF get_lock_config, Refuse, Reply
  <2>5. Still(s, g.s) BY <1>s, <2>2, SetLockConfigServes
  <2> QED BY <1>0, <2>3, <2>4, <2>5, ServedChange
<1>19. CASE BeginRelocate(c)
  <2>1. PICK q : q = BeginRelocateRequest(c) OBVIOUS
  <2>2. PICK f, g : f = begin_copy(s, a, q) /\ g = begin_move(s, a, q) OBVIOUS
  <2>3. Served(f) \/ Served(g) BY <1>19, <1>0, <2>1, <2>2 DEF BeginRelocate, Rpc, Served
  <2>4. f.s = s BY <2>2 DEF begin_copy, Refuse, Reply
  <2>5. g.s = s BY <2>2, <2>4 DEF begin_move, Refuse
  <2> QED BY <1>0, <2>3, <2>4, <2>5, ServedChange
<1>20. CASE RevokeAccess(c)
  <2>1. PICK x : x = Op(c).target OBVIOUS
  <2>2. PICK r : r = revoke_api_key(s, a, x) OBVIOUS
  <2>3. Served(r) BY <1>20, <1>0, <2>1, <2>2 DEF RevokeAccess, Rpc, Unary, Served
  <2>4. Still(s, r.s) BY <1>s, <2>2, RevokeServes
  <2> QED BY <1>0, <2>3, <2>4, ServedChange
<1>21. CASE SegmentLimits(c)
  <2>1. PICK x, y, p : x = Op(c).id /\ y = Mem(c).segment /\ p = Position(c) OBVIOUS
  <2>2. PICK r : r = begin_segment_limits(s, x, y, p) OBVIOUS
  <2>3. Served(r) BY <1>21, <1>0, <2>1, <2>2 DEF SegmentLimits, Rpc, Served
  <2>4. cl[c].step = "segment_limits" BY <1>21 DEF SegmentLimits, Running
  <2>5. p \in SegmentPositions
    BY <2>1, <2>4 DEF Inv, ClientOK, PartSteps, FlightSteps, Position, SegmentPositions, Op, Mem
  <2>6. Still(s, r.s) BY <1>s, <2>2, <2>5, BeginSegmentLimitsServes
  <2> QED BY <1>0, <2>3, <2>6, ServedChange
<1>22. CASE RetryLimits(c)
  <2>1. PICK x, y, z, w : x = Mem(c).stream /\ y = Mem(c).old /\ z = Mem(c).segment /\ w = {1} OBVIOUS
  <2>2. PICK r : r = retry_pieces_limits(s, x, y, z, w) OBVIOUS
  <2>3. Served(r) BY <1>22, <1>0, <2>1, <2>2 DEF RetryLimits, Rpc, Served
  <2>4. Still(s, r.s) BY <1>s, <2>2, RetryPiecesLimitsServes
  <2> QED BY <1>0, <2>3, <2>4, ServedChange
<1>23. CASE BeginUpload(c)
  <2>1. PICK q : q = BeginObjectRequest(c) OBVIOUS
  <2>2. PICK r : r = begin_object(s, a, q) OBVIOUS
  <2>3. Served(r) BY <1>23, <1>0, <2>1, <2>2 DEF BeginUpload, Rpc, Served
  <2>4. r.s = s \/ Begun(s, r.s, q.bucket, q.key) BY <1>s, <2>2, BeginObjectServes
  <2>5. q.key \in Path
    <3>1. Op(c).key \in Path BY <1>23 DEF BeginUpload, Running, Inv, ClientOK, Op
    <3> QED BY <2>1, <3>1, EncryptedPath DEF BeginObjectRequest, EncKey
  <2>6. r.s = s \/ Change(s, r.s) BY <2>4, <2>5 DEF Change
  <2> QED BY <1>0, <2>3, <2>6, ServedChange
<1>24. CASE InlineSegment(c)
  <2>1. PICK q : q = MakeInlineRequest(c) OBVIOUS
  <2>2. PICK r : r = make_inline(s, a, q) OBVIOUS
  <2>3. Served(r) BY <1>24, <1>0, <2>1, <2>2 DEF InlineSegment, Rpc, Served
  <2>4. cl[c].step = "segment" BY <1>24 DEF InlineSegment, Running
  <2>5. Op(c).part \in Nat /\ Mem(c).index \in Nat BY <2>4 DEF Inv, ClientOK, Op, Mem, PartSteps
  <2>6. q.position \in SegmentPositions
    BY <2>1, <2>5 DEF MakeInlineRequest, Position, SegmentPositions
  <2>7. Still(s, r.s) \/ \E seg : Added(s, r.s, q.stream, seg) BY <1>s, <2>2, <2>6, MakeInlineServes
  <2>8. Still(s, r.s) \/ Change(s, r.s) BY <2>7 DEF Change
  <2> QED BY <1>0, <2>3, <2>8, ServedChange
<1>25. CASE CommitSegment(c)
  <2>1. PICK q : q = CommitSegmentRequest(c) OBVIOUS
  <2>2. PICK r : r = commit_segment(s, a, q) OBVIOUS
  <2>3. Served(r) BY <1>25, <1>0, <2>1, <2>2 DEF CommitSegment, Rpc, Served
  <2>4. Still(s, r.s) \/ \E seg : Added(s, r.s, s.segmentToStream[q.segment], seg)
    BY <1>s, <2>2, CommitSegmentServes
  <2>5. Still(s, r.s) \/ Change(s, r.s) BY <2>4 DEF Change
  <2> QED BY <1>0, <2>3, <2>5, ServedChange
<1>26. CASE AbortUpload(c) \/ DeleteObject(c)
  <2>1. PICK p, q : p = BeginDeleteRequest(c, Op(c).id) /\ q = BeginDeleteRequest(c, 0) OBVIOUS
  <2>2. PICK f, g : f = begin_delete(s, a, p) /\ g = begin_delete(s, a, q) OBVIOUS
  <2>3. Served(f) \/ Served(g)
    BY <1>26, <1>0, <2>1, <2>2 DEF AbortUpload, DeleteObject, Rpc, Unary, Served
  <2>4. Still(s, f.s) \/ Discarded(s, f.s, p.stream) \/ \E l : Deleted(s, f.s, l)
    BY <1>s, <2>2, BeginDeleteServes
  <2>5. Still(s, g.s) \/ Discarded(s, g.s, q.stream) \/ \E l : Deleted(s, g.s, l)
    BY <1>s, <2>2, BeginDeleteServes
  <2>6. (Still(s, f.s) \/ Change(s, f.s)) /\ (Still(s, g.s) \/ Change(s, g.s))
    BY <2>4, <2>5 DEF Change
  <2> QED BY <1>0, <2>3, <2>6, ServedChange
<1>27. CASE CommitUpload(c)
  <2>1. PICK q : q = CommitObjectRequest(c) OBVIOUS
  <2>2. PICK r : r = commit_object(s, a, q) OBVIOUS
  <2>3. Served(r) /\ cl[c].step = "commit_upload"
    BY <1>27, <1>0, <2>1, <2>2 DEF CommitUpload, Running, Rpc, Unary, Served
  <2>4. ChecksumOK(q.checksum) BY <2>1, <2>3, CommitRequest
  <2>5. Still(s, r.s) \/ Published(s, r.s, q) BY ONLY <1>s, <2>2, <2>4, CommitObjectServes
  <2>6. Still(s, r.s) \/ Change(s, r.s) BY <2>5 DEF Change
  <2> QED BY <1>0, <2>3, <2>6, ServedChange
<1>28. CASE WriteMetadata(c)
  <2>1. PICK q : q = UpdateMetadataRequest(c) OBVIOUS
  <2>2. PICK r : r = update_object_metadata(s, a, q) OBVIOUS
  <2>3. Served(r) /\ cl[c].step = "write_metadata"
    BY <1>28, <1>0, <2>1, <2>2 DEF WriteMetadata, Running, Rpc, Unary, Served
  <2>4. ChecksumOK(q.checksum) BY <2>1, <2>3, UpdateRequest
  <2>5. Still(s, r.s) \/ Updated(s, r.s, q) BY ONLY <1>s, <2>2, <2>4, UpdateServes
  <2>6. Still(s, r.s) \/ Change(s, r.s) BY <2>5 DEF Change
  <2> QED BY <1>0, <2>3, <2>6, ServedChange
<1>29. CASE FinishRelocate(c)
  <2>1. PICK q, pub, t : q = FinishRelocateRequest(c) /\ pub = published /\ t = sat' OBVIOUS
  <2>2. PICK f, g : f = finish_copy(s, a, q) /\ g = finish_move(s, a, q) OBVIOUS
  <2>3. Served(f) \/ Served(g) BY <1>29, <1>0, <2>1, <2>2 DEF FinishRelocate, Rpc, Served
  <2>4. cl[c].step = "finish_relocate" BY <1>29 DEF FinishRelocate, Running
  <2>5. RelocationOK(Op(c), Mem(c), pub) BY <2>1, <2>4 DEF Inv, ClientOK, Op, Mem
  <2>6. q.stream = Mem(c).stream /\ q.metaKey = <<Mem(c).metaKey>> /\ q.segmentKeys = Mem(c).segmentKeys
    BY <2>1 DEF FinishRelocateRequest
  <2>7. q.metaKey # <<>> BY <2>6
  <2>8. Still(s, f.s) \/ Copied(s, f.s, q) BY ONLY <1>s, <2>2, <2>7, FinishCopyServes
  <2>9. Still(s, g.s) \/ Moved(s, g.s, q) BY ONLY <1>s, <2>2, <2>7, FinishMoveServes
  <2>10. PICK l : l = LocationOf(s, q.stream) OBVIOUS
  <2>11. ASSUME l \in DOMAIN s.committed, s.committed[l].stream = q.stream PROVE FitRelocation(s, q)
    <3>1. PICK e, new : e = pub[q.stream] /\ new = derive_content_key(Op(c).newBucket, Op(c).newKey)
      OBVIOUS
    <3>2. KeysFit(q.segmentKeys, e, new) BY <2>5, <2>6, <3>1 DEF RelocationOK
    <3>3. EditionsOK(s, pub) BY <1>0, <2>1 DEF Inv, ProjectOK
    <3>4. SameEdition(Edition(s.committed[l]), e) BY <2>11, <3>1, <3>3 DEF EditionsOK
    <3>5. Op(c).newKey \in Path BY <2>4 DEF Inv, ClientOK, Op
    <3>6. q.newKey \in Path BY <2>1, <3>5, EncryptedPath DEF FinishRelocateRequest
    <3> QED BY <2>10, <3>2, <3>4, <3>6 DEF FitRelocation
  <2>12. Copied(s, f.s, q) => FitRelocation(s, q) BY <2>10, <2>11 DEF Copied
  <2>13. Moved(s, g.s, q) => FitRelocation(s, q) BY <2>10, <2>11 DEF Moved
  <2>14. (Still(s, f.s) \/ Change(s, f.s)) /\ (Still(s, g.s) \/ Change(s, g.s))
    BY <2>8, <2>9, <2>12, <2>13 DEF Change
  <2> QED BY <1>0, <2>3, <2>14, ServedChange
<1> QED
  BY <1>1, <1>2, <1>3, <1>4, <1>5, <1>6, <1>7, <1>8, <1>9, <1>10, <1>11, <1>12, <1>13, <1>14,
     <1>15, <1>16, <1>17, <1>18, <1>19, <1>20, <1>21, <1>22, <1>23, <1>24, <1>25, <1>26, <1>27,
     <1>28, <1>29 DEF ClientStep

\* So is every step of the system.
LEMMA StepChange == ASSUME Inv, [Next]_vars PROVE Change(sat, sat')
PROOF
<1>0. SatelliteOK(sat) BY DEF Inv, ProjectOK
<1>1. CASE sat' = sat BY <1>1, SameChange
<1>2. CASE UNCHANGED vars BY <1>1, <1>2 DEF vars
<1>3. CASE Done BY <1>2, <1>3 DEF Done
<1>4. CASE Tick
  <2>1. PICK s : s = sat OBVIOUS
  <2>2. sat' = [s EXCEPT !.now = @ + 1] BY <1>4, <2>1 DEF Tick
  <2>3. Still(s, [s EXCEPT !.now = @ + 1]) BY <1>0, <2>1, TickServes
  <2> QED BY <2>1, <2>2, <2>3 DEF Still, Change
<1>5. ASSUME NEW c \in Clients, ClientStep(c) PROVE Change(sat, sat') BY <1>5, ClientChange
<1> QED BY <1>2, <1>3, <1>4, <1>5 DEF Next

\* Whatever the clients interleave, lose or repeat, every step of the system
\* is a step of the abstract store: an object appears, is replaced, copied,
\* moved or removed in one piece, and an upload is published with every chunk
\* it collected, in order (objects.rs copy_object, move_object; project.rs
\* commit_upload; mock.rs commit_object, apply_relocated).
THEOREM StoreStepHolds == Spec => StoreStep
PROOF
<1>1. Inv /\ [Next]_vars => [Store!Next]_<<StoreOf, OpenOf>>
  <2> SUFFICES ASSUME Inv, [Next]_vars
      PROVE  Store!Next \/ (StoreOf' = StoreOf /\ OpenOf' = OpenOf)
    OBVIOUS
  <2>1. SatelliteOK(sat) BY DEF Inv, ProjectOK
  <2>2. Change(sat, sat') BY StepChange
  <2> QED BY <2>1, <2>2, ChangeStore
<1>2. Spec => [][Store!Next]_<<StoreOf, OpenOf>> BY <1>1, InvHolds, PTL DEF Spec
<1>3. StoreStep <=> [][Store!Next]_<<StoreOf, OpenOf>> BY DEF StoreStep
<1> QED BY <1>2, <1>3

-----------------------------------------------------------------------------
(* The order of keys, and the pages of a listing. *)

\* A path's component, and what comes before all of them at its end.
Comp(k, i) == IF i <= Len(k) THEN k[i] ELSE -1

\* Paths agree before i.
Agree(a, b, i) == \A j \in 1..(i - 1) : Comp(a, j) = Comp(b, j)

\* A path is a list of components, none of which comes before all others.
LEMMA PathShape ==
    ASSUME NEW a \in Path
    PROVE  /\ Len(a) \in Nat /\ DOMAIN a = 1..Len(a)
           /\ \A i \in 1..Len(a) : a[i] \in Nat
           /\ \A i \in Nat \ {0} : Comp(a, i) \in Int
           /\ \A i \in Nat \ {0} : Comp(a, i) >= -1 /\ (Comp(a, i) >= 0 <=> i <= Len(a))
           /\ a = [i \in 1..Len(a) |-> a[i]]
PROOF
<1>1. PICK M \in Nat : M = MaxComp BY MaxCompAssumption
<1>2. a \in Seq(0..M) BY <1>1 DEF Path
<1>3. Len(a) \in Nat /\ DOMAIN a = 1..Len(a) /\ \A i \in 1..Len(a) : a[i] \in 0..M BY <1>2
<1>4. \A i \in 1..Len(a) : a[i] \in Nat BY <1>3
<1>5. ASSUME NEW i \in Nat \ {0}
      PROVE  Comp(a, i) \in Int /\ Comp(a, i) >= -1 /\ (Comp(a, i) >= 0 <=> i <= Len(a))
  BY <1>3, <1>4 DEF Comp
<1>7. a = [i \in 1..Len(a) |-> a[i]] BY <1>2
<1> QED BY <1>3, <1>4, <1>5, <1>7

\* A strict prefix, place by place.
LEMMA StrictPrefix ==
    ASSUME NEW a \in Path, NEW b \in Path
    PROVE  IsStrictPrefix(a, b) <=> Len(a) < Len(b) /\ \A j \in 1..Len(a) : a[j] = b[j]
PROOF
<1>1. PICK m \in Nat, n \in Nat : m = Len(a) /\ n = Len(b) BY PathShape
<1>2. a = [i \in 1..m |-> a[i]] /\ b = [i \in 1..n |-> b[i]] BY <1>1, PathShape
<1>4. IsStrictPrefix(a, b) <=> m < n /\ \A j \in 1..m : a[j] = b[j]
  <2>1. PICK s, t : s = SubSeq(a, 1, m) /\ t = SubSeq(b, 1, m) OBVIOUS
  <2>0. PICK C : a \in Seq(C) /\ b \in Seq(C) BY DEF Path
  <2>2. s = [i \in 1..m |-> a[i]]
    <3>1. s \in Seq(C) /\ Len(s) = m /\ \A i \in 1..m : s[i] = a[i] BY <2>0, <2>1, <1>1
    <3>2. s = [i \in 1..Len(s) |-> s[i]] BY <3>1
    <3> QED BY <3>1, <3>2
  <2>3. ASSUME m <= n PROVE t = [i \in 1..m |-> b[i]]
    <3>1. t \in Seq(C) /\ Len(t) = m /\ \A i \in 1..m : t[i] = b[i] BY <2>0, <2>1, <2>3, <1>1
    <3>2. t = [i \in 1..Len(t) |-> t[i]] BY <3>1
    <3> QED BY <3>1, <3>2
  <2>4. IsStrictPrefix(a, b) <=> m <= n /\ s = t /\ a # b
    BY <1>1, <2>1 DEF IsStrictPrefix, IsPrefix
  <2>5. m <= n => (s = t <=> \A j \in 1..m : a[j] = b[j]) BY <2>2, <2>3
  <2>6. (m = n /\ \A j \in 1..m : a[j] = b[j]) => a = b BY <1>2
  <2>7. m # n => a # b BY <1>1
  <2>8. m <= n <=> m < n \/ m = n OBVIOUS
  <2> QED BY ONLY <2>4, <2>5, <2>6, <2>7, <2>8, m \in Nat, n \in Nat
<1> QED BY <1>1, <1>4

\* KeyBefore compares two paths where they first differ, as bytes are.
LEMMA KeyDiffers ==
    ASSUME NEW a \in Path, NEW b \in Path
    PROVE  KeyBefore(a, b) <=> \E i \in Nat \ {0} : Agree(a, b, i) /\ Comp(a, i) < Comp(b, i)
PROOF
<1>1. PICK m \in Nat, n \in Nat : m = Len(a) /\ n = Len(b) BY PathShape
<1>2. /\ DOMAIN a = 1..m /\ DOMAIN b = 1..n
      /\ a = [i \in 1..m |-> a[i]] /\ b = [i \in 1..n |-> b[i]]
      /\ \A i \in 1..m : a[i] \in Nat
      /\ \A i \in 1..n : b[i] \in Nat
  BY <1>1, PathShape
<1>3. /\ \A i \in 1..m : Comp(a, i) = a[i]
      /\ \A i \in 1..n : Comp(b, i) = b[i]
      /\ \A i \in Nat : i > m => Comp(a, i) = -1
      /\ \A i \in Nat : i > n => Comp(b, i) = -1
  BY <1>1 DEF Comp
<1>4. IsStrictPrefix(a, b) <=> m < n /\ \A j \in 1..m : a[j] = b[j] BY <1>1, StrictPrefix
<1>5. ASSUME IsStrictPrefix(a, b)
      PROVE  \E i \in Nat \ {0} : Agree(a, b, i) /\ Comp(a, i) < Comp(b, i)
  <2>1. m < n /\ \A j \in 1..m : a[j] = b[j] BY <1>4, <1>5
  <2>2. m + 1 \in 1..n /\ m + 1 \in Nat \ {0} /\ m + 1 > m BY <2>1
  <2>3. Comp(a, m + 1) = -1 /\ Comp(b, m + 1) = b[m + 1] /\ b[m + 1] \in Nat BY <2>2, <1>2, <1>3
  <2>4. Comp(a, m + 1) < Comp(b, m + 1) BY <2>3
  <2>5. Agree(a, b, m + 1) BY <2>1, <1>3 DEF Agree
  <2> QED BY <2>2, <2>4, <2>5
<1>6. ASSUME NEW i \in DOMAIN a \cap DOMAIN b, a[i] < b[i], \A j \in 1..(i - 1) : a[j] = b[j]
      PROVE  \E k \in Nat \ {0} : Agree(a, b, k) /\ Comp(a, k) < Comp(b, k)
  <2>1. i \in 1..m /\ i \in 1..n /\ i \in Nat \ {0} BY <1>2
  <2>2. Comp(a, i) = a[i] /\ Comp(b, i) = b[i] BY <2>1, <1>3
  <2>3. Agree(a, b, i)
    <3>1. \A j \in 1..(i - 1) : j \in 1..m /\ j \in 1..n BY <2>1
    <3> QED BY <3>1, <1>3, <1>6 DEF Agree
  <2> QED BY <2>1, <2>2, <2>3, <1>6
<1>7. ASSUME NEW i \in Nat \ {0}, Agree(a, b, i), Comp(a, i) < Comp(b, i) PROVE KeyBefore(a, b)
  <2>1. i \in 1..n
    <3>1. Comp(a, i) \in Int /\ Comp(a, i) >= -1 /\ Comp(b, i) \in Int BY PathShape
    <3>2. i > n => Comp(b, i) = -1 BY <1>3
    <3>3. Comp(b, i) # -1 BY <1>7, <3>1
    <3> QED BY <3>2, <3>3
  <2>2. ASSUME NEW j \in 1..(i - 1) PROVE j \in 1..n /\ j \in 1..m /\ a[j] = b[j]
    <3>1. j \in 1..n /\ j \in Nat BY <2>1
    <3>2. Comp(a, j) = b[j] /\ b[j] \in Nat BY <3>1, <1>2, <1>3, <1>7 DEF Agree
    <3>3. j > m => Comp(a, j) = -1 BY <3>1, <1>3
    <3>4. j \in 1..m BY <3>1, <3>2, <3>3
    <3> QED BY <3>1, <3>2, <3>4, <1>3
  <2>3. CASE i <= m
    <3>1. i \in DOMAIN a \cap DOMAIN b BY <2>1, <2>3, <1>2
    <3>2. a[i] < b[i] BY <2>1, <2>3, <1>3, <1>7
    <3> QED BY <3>1, <3>2, <2>2 DEF KeyBefore
  <2>4. CASE i > m
    <3>1. m \in 1..(i - 1) \/ m = 0 BY <2>4
    <3>2. m < n BY <2>1, <2>4
    <3>3. \A j \in 1..m : j \in 1..(i - 1) BY <2>4
    <3>4. \A j \in 1..m : a[j] = b[j] BY <2>2, <3>3
    <3> QED BY <3>2, <3>4, <1>4 DEF KeyBefore
  <2> QED BY <2>3, <2>4
<1> QED BY <1>5, <1>6, <1>7 DEF KeyBefore


\* The order of keys is strict, ...
LEMMA KeyIrreflexive == ASSUME NEW a \in Path PROVE ~KeyBefore(a, a)
PROOF
<1>1. \A i \in Nat \ {0} : Comp(a, i) \in Int BY PathShape
<1>2. \A i \in Nat \ {0} : ~(Comp(a, i) < Comp(a, i)) BY <1>1
<1> QED BY <1>2, KeyDiffers

\* ... transitive ...
LEMMA KeyTransitive ==
    ASSUME NEW a \in Path, NEW b \in Path, NEW c \in Path, KeyBefore(a, b), KeyBefore(b, c)
    PROVE  KeyBefore(a, c)
PROOF
<1>1. PICK i \in Nat \ {0} : Agree(a, b, i) /\ Comp(a, i) < Comp(b, i) BY KeyDiffers
<1>2. PICK j \in Nat \ {0} : Agree(b, c, j) /\ Comp(b, j) < Comp(c, j) BY KeyDiffers
<1>3. \A x \in Nat \ {0} : Comp(a, x) \in Int /\ Comp(b, x) \in Int /\ Comp(c, x) \in Int BY PathShape
<1>4. CASE i <= j
  <2>1. Agree(a, c, i)
    <3>1. \A x \in 1..(i - 1) : x \in 1..(j - 1) BY <1>4
    <3> QED BY <1>1, <1>2, <3>1 DEF Agree
  <2>2. Comp(b, i) = Comp(c, i) \/ (i = j /\ Comp(b, i) < Comp(c, i))
    <3>1. i = j \/ i \in 1..(j - 1) BY <1>4
    <3> QED BY <1>2, <3>1 DEF Agree
  <2>3. Comp(a, i) < Comp(c, i) BY <1>1, <1>3, <2>2
  <2> QED BY <2>1, <2>3, KeyDiffers
<1>5. CASE j < i
  <2>1. Agree(a, c, j)
    <3>1. \A x \in 1..(j - 1) : x \in 1..(i - 1) BY <1>5
    <3> QED BY <1>1, <1>2, <3>1 DEF Agree
  <2>2. Comp(a, j) = Comp(b, j)
    <3>1. j \in 1..(i - 1) BY <1>5
    <3> QED BY <1>1, <3>1 DEF Agree
  <2>3. Comp(a, j) < Comp(c, j) BY <1>2, <1>3, <2>2
  <2> QED BY <2>1, <2>3, KeyDiffers
<1> QED BY <1>4, <1>5

\* ... and total.
LEMMA KeyTotal ==
    ASSUME NEW a \in Path, NEW b \in Path
    PROVE  a = b \/ KeyBefore(a, b) \/ KeyBefore(b, a)
PROOF
<1> DEFINE D == {i \in Nat \ {0} : Comp(a, i) # Comp(b, i)}
<1>1. PICK m \in Nat, n \in Nat : m = Len(a) /\ n = Len(b) BY PathShape
<1>2. /\ a = [i \in 1..m |-> a[i]] /\ b = [i \in 1..n |-> b[i]]
      /\ \A x \in Nat \ {0} : Comp(a, x) \in Int /\ Comp(b, x) \in Int
      /\ \A x \in Nat \ {0} : Comp(a, x) >= 0 <=> x <= m
      /\ \A x \in Nat \ {0} : Comp(b, x) >= 0 <=> x <= n
  BY <1>1, PathShape
<1>3. CASE D = {}
  <2>1. \A x \in Nat \ {0} : Comp(a, x) = Comp(b, x) BY <1>3
  <2>2. \A x \in Nat \ {0} : x <= m <=> x <= n BY <1>2, <2>1
  <2>3. m = n
    <3>1. m + 1 \in Nat \ {0} /\ n + 1 \in Nat \ {0} OBVIOUS
    <3>2. (m + 1 <= m <=> m + 1 <= n) /\ (n + 1 <= m <=> n + 1 <= n) BY <2>2, <3>1
    <3> QED BY <3>2
  <2>4. \A i \in 1..m : a[i] = b[i]
    <3>1. \A i \in 1..m : i \in Nat \ {0} /\ Comp(a, i) = a[i] /\ Comp(b, i) = b[i]
      BY <1>1, <2>3 DEF Comp
    <3> QED BY <2>1, <3>1
  <2> QED BY <1>2, <2>3, <2>4
<1>4. CASE D # {}
  <2>1. PICK i \in D : \A y \in D : i <= y
    <3>1. D \subseteq Nat OBVIOUS
    <3> HIDE DEF D
    <3> QED BY <3>1, <1>4, Smallest
  <2>2. i \in Nat \ {0} /\ Comp(a, i) # Comp(b, i) BY <2>1
  <2>3. \A j \in 1..(i - 1) : j \notin D BY <2>1, <2>2
  <2>4. \A j \in 1..(i - 1) : Comp(a, j) = Comp(b, j) BY <2>2, <2>3
  <2>5. Agree(a, b, i) /\ Agree(b, a, i) BY <2>4 DEF Agree
  <2>6. PICK x \in Int, y \in Int : x = Comp(a, i) /\ y = Comp(b, i) BY ONLY <1>2, <2>2
  <2>7. x < y \/ y < x BY ONLY <2>2, <2>6, x \in Int, y \in Int
  <2> QED BY ONLY <2>2, <2>5, <2>6, <2>7, KeyDiffers, a \in Path, b \in Path
<1> QED BY <1>3, <1>4

\* The entries up to one.
UptoKey(S, e) == {d \in S : d = e \/ KeyBefore(d, e)}

\* They are a chain of finite sets, in the order of the keys.
LEMMA UptoKeyOrder ==
    ASSUME NEW S, S \subseteq Path, IsFiniteSet(S)
    PROVE  /\ \A e \in S : UptoKey(S, e) \in SUBSET S /\ e \in UptoKey(S, e)
           /\ \A e \in S : IsFiniteSet(UptoKey(S, e)) /\ Cardinality(UptoKey(S, e)) \in 1..Cardinality(S)
           /\ \A d, e \in S : KeyBefore(d, e) =>
                 Cardinality(UptoKey(S, d)) < Cardinality(UptoKey(S, e))
PROOF
<1>1. \A e \in S : UptoKey(S, e) \in SUBSET S /\ e \in UptoKey(S, e) BY DEF UptoKey
<1>2. ASSUME NEW e \in S
      PROVE  IsFiniteSet(UptoKey(S, e)) /\ Cardinality(UptoKey(S, e)) \in 1..Cardinality(S)
  <2>1. IsFiniteSet(UptoKey(S, e)) /\ Cardinality(UptoKey(S, e)) <= Cardinality(S)
    BY ONLY <1>1, FS_Subset, IsFiniteSet(S), e \in S
  <2>2. Cardinality(UptoKey(S, e)) \in Nat /\ Cardinality(S) \in Nat BY ONLY <2>1, FS_CardinalityType, IsFiniteSet(S)
  <2>3. Cardinality(UptoKey(S, e)) # 0 BY ONLY <1>1, <2>1, FS_EmptySet, e \in S
  <2> QED BY <2>1, <2>2, <2>3
<1>3. ASSUME NEW d \in S, NEW e \in S, KeyBefore(d, e)
      PROVE  Cardinality(UptoKey(S, d)) < Cardinality(UptoKey(S, e))
  <2>1. ASSUME NEW x \in UptoKey(S, d) PROVE x \in UptoKey(S, e)
    <3>1. x \in S /\ (x = d \/ KeyBefore(x, d)) BY DEF UptoKey
    <3>2. x \in Path /\ d \in Path /\ e \in Path BY <3>1
    <3>3. KeyBefore(x, e) BY ONLY <1>3, <3>1, <3>2, KeyTransitive
    <3> QED BY <3>1, <3>3 DEF UptoKey
  <2>2. e \notin UptoKey(S, d)
    <3>1. d \in Path /\ e \in Path OBVIOUS
    <3>2. ~KeyBefore(d, d) BY <3>1, KeyIrreflexive
    <3>3. e # d BY <3>2, <1>3
    <3>4. ~KeyBefore(e, d) BY ONLY <1>3, <3>1, <3>2, KeyTransitive
    <3> QED BY <3>3, <3>4 DEF UptoKey
  <2>3. UptoKey(S, d) \in SUBSET UptoKey(S, e) /\ UptoKey(S, d) # UptoKey(S, e) BY <1>1, <2>1, <2>2
  <2>4. IsFiniteSet(UptoKey(S, e)) BY <1>2
  <2>5. /\ Cardinality(UptoKey(S, d)) <= Cardinality(UptoKey(S, e))
        /\ Cardinality(UptoKey(S, d)) # Cardinality(UptoKey(S, e))
    BY ONLY <2>3, <2>4, FS_Subset
  <2>6. Cardinality(UptoKey(S, d)) \in Nat /\ Cardinality(UptoKey(S, e)) \in Nat BY <1>2
  <2> QED BY ONLY <2>5, <2>6
<1> QED BY <1>1, <1>2, <1>3

\* In key order the entries are each there once, and ascend.
LEMMA KeysInOrder ==
    ASSUME NEW S, S \subseteq Path, IsFiniteSet(S), NEW q, q = InKeyOrder(S)
    PROVE  /\ q \in Seq(S) /\ Len(q) = Cardinality(S)
           /\ \A i, j \in 1..Len(q) : i < j => KeyBefore(q[i], q[j])
           /\ \A e \in S : \E i \in 1..Len(q) : q[i] = e
PROOF
<1>1. PICK n \in Nat : n = Cardinality(S) BY FS_CardinalityType
<1> DEFINE D == 1..n
           R(e) == Cardinality(UptoKey(S, e))
           f == [e \in S |-> R(e)]
<1>2. IsFiniteSet(D) /\ Cardinality(D) = n
  <2>1. 1 \in Int /\ n \in Int OBVIOUS
  <2>2. IsFiniteSet(1..n) /\ Cardinality(1..n) = IF 1 > n THEN 0 ELSE n - 1 + 1
    BY ONLY <2>1, FS_Interval
  <2> QED BY <2>2
<1>3. \A e \in S : R(e) \in D BY <1>1, UptoKeyOrder
<1>4. \A d, e \in S : KeyBefore(d, e) => R(d) < R(e) BY UptoKeyOrder
<1>q. q = [i \in D |-> CHOOSE e \in S : R(e) = i] BY <1>1 DEF InKeyOrder, UptoKey
<1> HIDE DEF R
<1>5. ASSUME NEW d \in S, NEW e \in S, R(d) = R(e) PROVE d = e
  <2>1. R(d) \in Int /\ R(e) \in Int BY <1>3
  <2>2. ~(R(d) < R(e)) /\ ~(R(e) < R(d)) BY <2>1, <1>5
  <2>3. d \in Path /\ e \in Path OBVIOUS
  <2> QED BY <2>2, <2>3, <1>4, KeyTotal
<1>6. ASSUME NEW i \in D PROVE \E e \in S : R(e) = i
  <2>1. f \in Injection(S, D) BY <1>3, <1>5 DEF Injection, IsInjective
  <2>2. f \in Surjection(S, D) BY <2>1, <1>1, <1>2, FS_Injection
  <2> QED BY <2>2 DEF Surjection
<1>7. \A i \in D : q[i] \in S /\ R(q[i]) = i BY <1>6, <1>q
<1>8. q \in Seq(S) /\ Len(q) = n BY <1>7, <1>q
<1>9. ASSUME NEW i \in D, NEW j \in D, i < j PROVE KeyBefore(q[i], q[j])
  <2>1. PICK d \in S, e \in S : d = q[i] /\ e = q[j] /\ R(d) = i /\ R(e) = j BY <1>7
  <2>2. d # e BY <2>1, <1>9
  <2>3. ~KeyBefore(e, d) BY <2>1, <1>4, <1>9
  <2>4. d \in Path /\ e \in Path OBVIOUS
  <2> QED BY <2>1, <2>2, <2>3, <2>4, KeyTotal
<1>10. ASSUME NEW e \in S PROVE \E i \in D : q[i] = e
  <2>1. R(e) \in D BY <1>3
  <2>2. q[R(e)] \in S /\ R(q[R(e)]) = R(e) BY <2>1, <1>7
  <2> QED BY <2>1, <2>2, <1>5
<1> QED BY <1>1, <1>8, <1>9, <1>10

\* A page holds entries in ascending order, and every one it leaves out comes
\* after its last.
PageOf(S, p) ==
    /\ p.items \in Seq(S)
    /\ \A i, j \in 1..Len(p.items) : i < j => KeyBefore(p.items[i], p.items[j])
    /\ \A e \in S : \/ \E i \in 1..Len(p.items) : p.items[i] = e
                    \/ p.more /\ p.items # <<>> /\ KeyBefore(p.items[Len(p.items)], e)

\* Page cuts such a page off the sorted entries.
LEMMA PageIsFull ==
    ASSUME NEW S, S \subseteq Path, IsFiniteSet(S), NEW p, p = Page(InKeyOrder(S))
    PROVE  PageOf(S, p)
PROOF
<1>1. PICK q : q = InKeyOrder(S) OBVIOUS
<1>2. /\ q \in Seq(S)
      /\ \A i, j \in 1..Len(q) : i < j => KeyBefore(q[i], q[j])
      /\ \A e \in S : \E i \in 1..Len(q) : q[i] = e
  BY <1>1, KeysInOrder
<1>3. PICK n \in Nat, L \in Nat \ {0} : n = Len(q) /\ L = PageLimit BY <1>2, PageLimitAssumption
<1>4. PICK m \in Nat : m = IF n < L THEN n ELSE L OBVIOUS
<1>5. p.items = SubSeq(q, 1, m) /\ p.more = (n > L) BY <1>1, <1>3, <1>4 DEF Page
<1>6. PICK y : y = p.items OBVIOUS
<1>7. m <= n BY <1>4
<1>8. y \in Seq(S) /\ Len(y) = m /\ \A i \in 1..m : y[i] = q[i] BY <1>2, <1>3, <1>5, <1>6, <1>7
<1>9. \A i \in 1..m : i \in 1..n BY <1>7
<1>10. \A i, j \in 1..m : i < j => KeyBefore(y[i], y[j]) BY <1>2, <1>3, <1>8, <1>9
<1>11. ASSUME NEW e \in S
       PROVE  (\E i \in 1..m : y[i] = e) \/ (p.more /\ y # <<>> /\ KeyBefore(y[m], e))
  <2>1. PICK i \in 1..n : q[i] = e BY <1>2, <1>3
  <2>2. CASE i <= m
    <3>1. i \in 1..m BY <2>2
    <3> QED BY <3>1, <2>1, <1>8
  <2>3. CASE i > m
    <3>1. m = L /\ n > L BY <2>3, <1>4
    <3>2. m \in 1..m /\ m \in 1..n /\ m < i BY <3>1, <2>3
    <3>3. KeyBefore(q[m], q[i]) BY <3>2, <1>2, <1>3
    <3>4. y # <<>> BY <3>2, <1>8
    <3> QED BY <3>1, <3>2, <3>3, <3>4, <2>1, <1>5, <1>8
  <2> QED BY <2>2, <2>3
<1> QED BY <1>6, <1>8, <1>10, <1>11 DEF PageOf

\* What a key is called under a prefix is a path.
LEMMA StrippedPath ==
    ASSUME NEW p \in Path, NEW k \in Path, NEW x, x = strip_list_prefix(k, p)
    PROVE  /\ x \in Path
           /\ x # <<>> <=> IsStrictPrefix(p, k)
           /\ x # <<>> => /\ Len(x) = Len(k) - Len(p) /\ Len(x) \in Nat \ {0}
                          /\ \A i \in 1..Len(x) : x[i] = k[Len(p) + i]
PROOF
<1>1. PICK C : p \in Seq(C) /\ k \in Seq(C) /\ Path = Seq(C) BY DEF Path
<1>2. PICK m \in Nat, n \in Nat : m = Len(p) /\ n = Len(k) BY <1>1
<1>3. CASE IsStrictPrefix(p, k)
  <2>1. m < n BY <1>2, <1>3, StrictPrefix
  <2>2. x = SubSeq(k, m + 1, n) BY <1>2, <1>3 DEF strip_list_prefix
  <2>3. x \in Seq(C) /\ Len(x) = n - m /\ \A i \in 1..(n - m) : x[i] = k[m + i]
    BY <1>1, <1>2, <2>1, <2>2
  <2>4. n - m \in Nat \ {0} BY <2>1
  <2>5. x # <<>> BY <2>3, <2>4
  <2> QED BY <1>1, <1>2, <1>3, <2>3, <2>4, <2>5
<1>4. CASE ~IsStrictPrefix(p, k)
  <2>1. x = <<>> BY <1>4 DEF strip_list_prefix
  <2>2. <<>> \in Path BY <1>1
  <2> QED BY <1>4, <2>1, <2>2
<1> QED BY <1>3, <1>4

\* An entry is a path, never after the key it stands for.
LEMMA EntryPath ==
    ASSUME NEW x \in Path, x # <<>>, NEW rec \in BOOLEAN, NEW e, e = ListEntry(x, rec)
    PROVE  /\ e \in Path /\ (e = x \/ KeyBefore(e, x))
           /\ Len(x) \in Nat \ {0} /\ x[1] \in Nat
           /\ rec \/ Len(x) = 1 => e = x
           /\ ~(rec \/ Len(x) = 1) => e = <<x[1], 0>>
PROOF
<1>1. PICK M \in Nat : M = MaxComp BY MaxCompAssumption
<1>2. x \in Seq(0..M) BY <1>1 DEF Path
<1>3. PICK n \in Nat \ {0} : n = Len(x) BY <1>2
<1>4. \A i \in 1..n : x[i] \in 0..M BY <1>2, <1>3
<1>5. 1 \in 1..n BY <1>3
<1>6. x[1] \in 0..M BY <1>4, <1>5
<1>7. CASE rec \/ n = 1
  <2>1. e = x BY <1>3, <1>7 DEF ListEntry
  <2> QED BY <1>3, <1>6, <1>7, <2>1
<1>8. CASE ~(rec \/ n = 1)
  <2>1. e = <<x[1], 0>> BY <1>3, <1>8 DEF ListEntry
  <2>2. 0 \in 0..M OBVIOUS
  <2>3. e \in Seq(0..M) /\ Len(e) = 2 /\ e[1] = x[1] /\ e[2] = 0 BY <1>6, <2>1, <2>2
  <2>4. e \in Path BY <1>1, <2>3 DEF Path
  <2>5. n >= 2 /\ 2 \in 1..n BY <1>3, <1>8
  <2>6. x[2] \in 0..M BY <1>4, <2>5
  <2>7. DOMAIN x = 1..n /\ DOMAIN e = 1..2 BY <1>2, <1>3, <2>3
  <2>8. CASE x[2] > 0
    <3>1. 2 \in DOMAIN e \cap DOMAIN x BY <2>5, <2>7
    <3>2. \A j \in 1..(2 - 1) : e[j] = x[j] BY <2>3
    <3>3. e[2] < x[2] BY <2>3, <2>8
    <3>4. KeyBefore(e, x) BY <3>1, <3>2, <3>3 DEF KeyBefore
    <3> QED BY <1>3, <1>6, <1>8, <2>1, <2>4, <3>4
  <2>9. CASE x[2] = 0
    <3>1. \A j \in 1..2 : e[j] = x[j] BY <2>3, <2>9
    <3>2. CASE n = 2
      <4>1. x = [j \in 1..2 |-> x[j]] /\ e = [j \in 1..2 |-> e[j]] BY <1>3, <2>3, <2>4, <3>2, PathShape
      <4>2. e = x BY <3>1, <4>1
      <4> QED BY <1>3, <1>6, <1>8, <2>1, <2>4, <4>2
    <3>3. CASE n > 2
      <4>1. IsStrictPrefix(e, x) BY <1>3, <2>3, <2>4, <3>1, <3>3, StrictPrefix
      <4>2. KeyBefore(e, x) BY <4>1 DEF KeyBefore
      <4> QED BY <1>3, <1>6, <1>8, <2>1, <2>4, <4>2
    <3> QED BY <2>5, <3>2, <3>3
  <2> QED BY <2>6, <2>8, <2>9
<1> QED BY <1>7, <1>8

\* The entries a page is taken from.
LEMMA EntriesOf ==
    ASSUME NEW K, K \subseteq Path, IsFiniteSet(K), NEW r, r.prefix \in Path, r.recursive \in BOOLEAN,
           r.cursor \in Path, NEW E, E = ListEntries(K, r)
    PROVE  /\ E \subseteq Path /\ IsFiniteSet(E)
           /\ r.recursive => \A e \in E : KeyBefore(r.cursor, e)
           /\ \A k \in K : LET x == strip_list_prefix(k, r.prefix)
                           IN  x # <<>> /\ KeyBefore(r.cursor, x) => ListEntry(x, r.recursive) \in E
PROOF
<1> DEFINE X(k) == strip_list_prefix(k, r.prefix)
           N(k) == ListEntry(X(k), r.recursive)
           S == {k \in K : X(k) # <<>> /\ (r.cursor = <<>> \/ KeyBefore(r.cursor, X(k)))}
           f == [k \in S |-> N(k)]
<1>1. E = {N(k) : k \in S} BY DEF ListEntries
<1>2. \A k \in K : X(k) \in Path BY StrippedPath
<1>3. \A k \in S : X(k) \in Path /\ X(k) # <<>> /\ k \in K BY <1>2
<1>4. E \subseteq Path BY <1>1, <1>3, EntryPath
<1>5. IsFiniteSet(E)
  <2>1. S \in SUBSET K OBVIOUS
  <2> HIDE DEF S
  <2>2. IsFiniteSet(S) BY ONLY <2>1, FS_Subset, IsFiniteSet(K)
  <2>3. f \in Surjection(S, E) BY <1>1 DEF Surjection
  <2> QED BY ONLY <2>2, <2>3, FS_Surjection
<1>6. ASSUME NEW k \in S PROVE KeyBefore(r.cursor, X(k))
  <2>1. CASE r.cursor = <<>>
    <3>1. PICK z : z = X(k) OBVIOUS
    <3>2. z \in Path /\ z # <<>> /\ <<>> \in Path BY <1>3, <2>1, <3>1
    <3>3. Len(z) > 0 BY <3>2 DEF Path
    <3>4. IsStrictPrefix(<<>>, z) BY <3>2, <3>3, StrictPrefix
    <3> QED BY <2>1, <3>1, <3>4 DEF KeyBefore
  <2> QED BY <2>1
<1>7. ASSUME r.recursive, NEW e \in E PROVE KeyBefore(r.cursor, e)
  <2>1. PICK k \in S : e = N(k) BY <1>1
  <2>2. e = X(k) BY <2>1, <1>7 DEF ListEntry
  <2> QED BY <2>2, <1>6
<1>8. ASSUME NEW k \in K, X(k) # <<>>, KeyBefore(r.cursor, X(k)) PROVE N(k) \in E
  BY <1>1, <1>8
<1> QED BY <1>4, <1>5, <1>7, <1>8

-----------------------------------------------------------------------------
(* A listing from page to page.                                             *)

\* The key an entry is shown as.
Named(op, e) == op.prefix \o decrypt_path(e)

\* It is the prefix and the decrypted entry ...
LEMMA NamedPath ==
    ASSUME NEW op, op.prefix \in Path, NEW e \in Path
    PROVE  /\ Named(op, e) \in Path /\ Len(Named(op, e)) = Len(op.prefix) + Len(e)
           /\ \A i \in 1..Len(op.prefix) : Named(op, e)[i] = op.prefix[i]
           /\ \A i \in 1..Len(e) : Named(op, e)[Len(op.prefix) + i] = decrypt_path(e)[i]
PROOF
<1>1. PICK d : d = decrypt_path(e) OBVIOUS
<1>2. d \in Path /\ Len(d) = Len(e) BY <1>1, EncryptedPath
<1>3. PICK p : p = op.prefix OBVIOUS
<1>4. PICK C : p \in Seq(C) /\ d \in Seq(C) /\ Path = Seq(C) BY <1>2, <1>3 DEF Path
<1>5. PICK m \in Nat, n \in Nat : m = Len(p) /\ n = Len(d) BY <1>4
<1>6. PICK x : x = p \o d OBVIOUS
<1>7. x \in Seq(C) /\ Len(x) = m + n BY <1>4, <1>5, <1>6
<1>8. \A i \in 1..m : x[i] = p[i] BY <1>4, <1>5, <1>6
<1>9. \A i \in 1..n : x[m + i] = d[i] BY <1>4, <1>5, <1>6
<1>10. x = Named(op, e) BY <1>1, <1>3, <1>6 DEF Named
<1> QED BY <1>1, <1>2, <1>3, <1>4, <1>5, <1>7, <1>8, <1>9, <1>10

\* ... and no other entry's.
LEMMA NamedOnce ==
    ASSUME NEW op, op.prefix \in Path, NEW d \in Path, NEW e \in Path, Named(op, d) = Named(op, e)
    PROVE  d = e
PROOF
<1>1. PICK m \in Nat, n \in Nat, k \in Nat : m = Len(op.prefix) /\ n = Len(d) /\ k = Len(e)
  BY PathShape
<1>u. PICK u : u = Named(op, d) /\ u = Named(op, e) OBVIOUS
<1>d. /\ Len(u) = Len(op.prefix) + Len(d)
      /\ \A i \in 1..Len(d) : u[Len(op.prefix) + i] = decrypt_path(d)[i]
  <2>1. /\ Len(Named(op, d)) = Len(op.prefix) + Len(d)
        /\ \A i \in 1..Len(d) : Named(op, d)[Len(op.prefix) + i] = decrypt_path(d)[i]
    BY ONLY op.prefix \in Path, d \in Path, NamedPath
  <2> QED BY ONLY <2>1, <1>u
<1>e. /\ Len(u) = Len(op.prefix) + Len(e)
      /\ \A i \in 1..Len(e) : u[Len(op.prefix) + i] = decrypt_path(e)[i]
  <2>1. /\ Len(Named(op, e)) = Len(op.prefix) + Len(e)
        /\ \A i \in 1..Len(e) : Named(op, e)[Len(op.prefix) + i] = decrypt_path(e)[i]
    BY ONLY op.prefix \in Path, e \in Path, NamedPath
  <2> QED BY ONLY <2>1, <1>u
<1>2. m + n = m + k BY ONLY <1>1, <1>d, <1>e
<1>3. n = k BY <1>2
<1>4. PICK x, y : x = decrypt_path(d) /\ y = decrypt_path(e) OBVIOUS
<1>5. x \in Path /\ y \in Path /\ Len(x) = n /\ Len(y) = n BY <1>1, <1>3, <1>4, EncryptedPath
<1>6. \A i \in 1..n : x[i] = y[i] BY ONLY <1>1, <1>3, <1>4, <1>d, <1>e
<1>7. x = [i \in 1..n |-> x[i]] /\ y = [i \in 1..n |-> y[i]] BY <1>5, PathShape
<1>8. x = y BY <1>6, <1>7
<1>9. x = encrypt_path(d) /\ y = encrypt_path(e) BY <1>4 DEF encrypt_path, decrypt_path
<1> QED BY <1>8, <1>9, PathRoundTrip

\* What a listing still has to return, or has returned already.
ListedIn(op, items, e) == \E i \in 1..Len(items) : items[i] = Named(op, e)

Rest(op, k) == strip_list_prefix(k, encrypt_path(op.prefix))
EntryOf(op, k) == ListEntry(Rest(op, k), op.recursive)

ListingOK(op, items) ==
    /\ op.prefix \in Path /\ op.recursive \in BOOLEAN /\ op.custom \in BOOLEAN
    /\ items \in Seq(Path)
    /\ op.recursive => \A i, j \in 1..Len(items) : items[i] = items[j] => i = j

\* A listing between two pages: what comes after the cursor is still to be
\* asked for, nothing listed does, and the rest is listed.
Listing(op, items, cursor, keys) ==
    /\ ListingOK(op, items) /\ cursor \in Path
    /\ \A k \in keys : /\ Rest(op, k) # <<>>
                       /\ \/ KeyBefore(cursor, Rest(op, k))
                          \/ ListedIn(op, items, EntryOf(op, k))
    /\ op.recursive => \A i \in 1..Len(items) :
                          \E e \in Path : items[i] = Named(op, e) /\ ~KeyBefore(cursor, e)

\* A listing that ended.
Listed(op, items, keys) ==
    /\ ListingOK(op, items)
    /\ \A k \in keys : Rest(op, k) # <<>> /\ ListedIn(op, items, EntryOf(op, k))

\* A listing that has asked for nothing yet.
LEMMA ListingStarts ==
    ASSUME NEW op, op.prefix \in Path, op.cursor \in Path, op.recursive \in BOOLEAN, op.custom \in BOOLEAN,
           NEW keys, keys \subseteq Path, NEW cursor, cursor = encrypt_path(op.cursor),
           \A k \in keys : Rest(op, k) # <<>> /\ (op.cursor = <<>> \/ KeyBefore(cursor, Rest(op, k)))
    PROVE  Listing(op, <<>>, cursor, keys)
PROOF
<1>1. <<>> \in Path /\ <<>> \in Seq(Path) /\ Len(<<>>) = 0 BY DEF Path
<1>2. ListingOK(op, <<>>) BY <1>1 DEF ListingOK
<1>3. ASSUME NEW k \in keys PROVE KeyBefore(cursor, Rest(op, k))
  <2>1. PICK z : z = Rest(op, k) OBVIOUS
  <2>2. encrypt_path(op.prefix) \in Path /\ k \in Path BY EncryptedPath
  <2>3. z \in Path /\ Len(z) \in Nat \ {0} BY <2>1, <2>2, <1>3, StrippedPath DEF Rest
  <2>4. CASE op.cursor = <<>>
    <3>1. cursor \in Path /\ Len(cursor) = 0 BY <1>1, <2>4, EncryptedPath
    <3>2. IsStrictPrefix(cursor, z) BY <3>1, <2>3, StrictPrefix
    <3> QED BY <2>1, <3>2 DEF KeyBefore
  <2> QED BY <2>4
<1>4. \A i \in 1..Len(<<>>) : FALSE BY <1>1
<1>5. cursor \in Path BY EncryptedPath
<1> QED BY <1>2, <1>3, <1>4, <1>5 DEF Listing

\* Keys that go leave a listing right.
LEMMA ListingFewer ==
    ASSUME NEW op, NEW items, NEW cursor, NEW keys, NEW fewer, fewer \subseteq keys
    PROVE  /\ Listing(op, items, cursor, keys) => Listing(op, items, cursor, fewer)
           /\ Listed(op, items, keys) => Listed(op, items, fewer)
BY DEF Listing, Listed

\* The next page of a listing, and what the client makes of it: T are its
\* entries that convert, the keys' own among them.
NextPage(op, items, cursor, keys, K, r, p, T, w, more) ==
    /\ Listing(op, items, cursor, keys)
    /\ keys \subseteq K /\ K \subseteq Path /\ IsFiniteSet(K)
    /\ r.prefix = encrypt_path(op.prefix) /\ r.recursive = op.recursive /\ r.cursor = cursor
    /\ p = Page(InKeyOrder(ListEntries(K, r)))
    /\ \A e \in T : \E i \in DOMAIN p.items : p.items[i] = e
    /\ \A k \in keys : \A i \in DOMAIN p.items : p.items[i] = EntryOf(op, k) => EntryOf(op, k) \in T
    /\ w = InKeyOrder(T)
    /\ more = items \o [i \in DOMAIN w |-> Named(op, w[i])]

LEMMA ListingPage ==
    ASSUME NEW op, NEW items, NEW cursor, NEW keys, NEW K, NEW r, NEW p, NEW T, NEW w, NEW more,
           NextPage(op, items, cursor, keys, K, r, p, T, w, more)
    PROVE  /\ ~p.more \/ p.items = <<>> => Listed(op, more, keys)
           /\ p.items # <<>> => Listing(op, more, Last(p.items), keys)
PROOF
<1>0. /\ Listing(op, items, cursor, keys)
      /\ keys \subseteq K /\ K \subseteq Path /\ IsFiniteSet(K)
      /\ r.prefix = encrypt_path(op.prefix) /\ r.recursive = op.recursive /\ r.cursor = cursor
      /\ p = Page(InKeyOrder(ListEntries(K, r)))
      /\ \A e \in T : \E i \in DOMAIN p.items : p.items[i] = e
      /\ \A k \in keys : \A i \in DOMAIN p.items : p.items[i] = EntryOf(op, k) => EntryOf(op, k) \in T
      /\ w = InKeyOrder(T)
      /\ more = items \o [i \in DOMAIN w |-> Named(op, w[i])]
  BY DEF NextPage
<1> USE <1>0
<1>1. /\ op.prefix \in Path /\ op.recursive \in BOOLEAN /\ items \in Seq(Path) /\ cursor \in Path
  BY DEF Listing, ListingOK
<1>2. r.prefix \in Path BY <1>1, EncryptedPath
<1>3. PICK E : E = ListEntries(K, r) OBVIOUS
<1>4. /\ E \subseteq Path /\ IsFiniteSet(E)
      /\ op.recursive => \A e \in E : KeyBefore(cursor, e)
      /\ \A k \in K : Rest(op, k) # <<>> /\ KeyBefore(cursor, Rest(op, k)) => EntryOf(op, k) \in E
  <2>1. r.recursive \in BOOLEAN /\ r.cursor \in Path BY <1>1
  <2>2. /\ E \subseteq Path /\ IsFiniteSet(E)
        /\ r.recursive => \A e \in E : KeyBefore(r.cursor, e)
        /\ \A k \in K : strip_list_prefix(k, r.prefix) # <<>>
                           /\ KeyBefore(r.cursor, strip_list_prefix(k, r.prefix))
                        => ListEntry(strip_list_prefix(k, r.prefix), r.recursive) \in E
    BY <1>2, <1>3, <2>1, EntriesOf
  <2> QED BY <2>2 DEF Rest, EntryOf
<1>5. PageOf(E, p) BY <1>3, <1>4, PageIsFull
<1>6. PICK y : y = p.items OBVIOUS
<1>7. /\ y \in Seq(E)
      /\ \A i, j \in 1..Len(y) : i < j => KeyBefore(y[i], y[j])
      /\ \A e \in E : (\E i \in 1..Len(y) : y[i] = e) \/ (p.more /\ y # <<>> /\ KeyBefore(y[Len(y)], e))
  BY <1>5, <1>6 DEF PageOf
<1>y. PICK l \in Nat : l = Len(y) BY <1>7
<1>e. DOMAIN y = 1..l /\ \A i \in 1..l : y[i] \in E /\ y[i] \in Path BY <1>4, <1>7, <1>y
<1>t. T \in SUBSET E /\ \A e \in T : \E i \in 1..l : y[i] = e BY <1>6, <1>e
<1>f. IsFiniteSet(T) BY ONLY <1>4, <1>t, FS_Subset
<1>w. /\ w \in Seq(T)
      /\ \A i, j \in 1..Len(w) : i < j => KeyBefore(w[i], w[j])
      /\ \A e \in T : \E i \in 1..Len(w) : w[i] = e
  <2>1. T \subseteq Path BY ONLY <1>4, <1>t
  <2>2. w = InKeyOrder(T) OBVIOUS
  <2> QED BY ONLY <1>f, <2>1, <2>2, KeysInOrder
<1>8. PICK m \in Nat, n \in Nat : m = Len(items) /\ n = Len(w) BY <1>1, <1>w
<1>9. DOMAIN w = 1..n /\ \A i \in 1..n : w[i] \in T /\ w[i] \in E BY <1>w, <1>t, <1>8
<1>10. \A i \in 1..n : w[i] \in Path BY <1>4, <1>9
<1>11. PICK z : z = [i \in 1..n |-> Named(op, w[i])] OBVIOUS
<1>12. z \in Seq(Path) /\ Len(z) = n /\ \A i \in 1..n : z[i] = Named(op, w[i])
  BY <1>1, <1>10, <1>11, NamedPath
<1>13. more = items \o z BY <1>9, <1>11
<1>14. /\ more \in Seq(Path) /\ Len(more) = m + n
       /\ \A i \in 1..m : more[i] = items[i]
       /\ \A i \in 1..n : more[m + i] = z[i]
  <2>1. PICK C : C = Path OBVIOUS
  <2>2. /\ items \in Seq(C) /\ Len(items) = m /\ z \in Seq(C) /\ Len(z) = n /\ more = items \o z
    BY <1>1, <1>8, <1>12, <1>13, <2>1
  <2>3. more \in Seq(C) /\ Len(more) = m + n BY ONLY <2>2
  <2>4. \A i \in 1..m : more[i] = items[i] BY ONLY <2>2, m \in Nat, n \in Nat
  <2>5. \A i \in 1..n : more[m + i] = z[i] BY ONLY <2>2, m \in Nat, n \in Nat
  <2> QED BY <2>1, <2>3, <2>4, <2>5
<1>15. ASSUME NEW e, ListedIn(op, items, e) PROVE ListedIn(op, more, e)
  <2>1. PICK i \in 1..m : items[i] = Named(op, e) BY <1>8, <1>15 DEF ListedIn
  <2>2. i \in 1..(m + n) OBVIOUS
  <2> QED BY <2>1, <2>2, <1>14 DEF ListedIn
<1>16. ASSUME NEW e \in T PROVE ListedIn(op, more, e)
  <2>1. PICK i \in 1..n : w[i] = e BY <1>w, <1>8
  <2>2. m + i \in 1..(m + n) OBVIOUS
  <2>3. more[m + i] = Named(op, e) BY ONLY <2>1, <1>12, <1>14, i \in 1..n
  <2>4. Len(more) = m + n BY <1>14
  <2> QED BY ONLY <2>2, <2>3, <2>4 DEF ListedIn
<1>17. ASSUME NEW i \in 1..(m + n) PROVE i \in 1..m \/ \E j \in 1..n : i = m + j
  <2>1. i > m => i - m \in 1..n /\ i = m + (i - m) OBVIOUS
  <2> QED BY <2>1
<1>18. ASSUME op.recursive, NEW i \in 1..(m + n), NEW j \in 1..(m + n), more[i] = more[j] PROVE i = j
  <2>1. ASSUME NEW a \in 1..m, NEW b \in 1..n PROVE items[a] # z[b]
    <3>1. PICK e \in Path : items[a] = Named(op, e) /\ ~KeyBefore(cursor, e) BY <1>8, <1>18 DEF Listing
    <3>2. KeyBefore(cursor, w[b]) BY <1>4, <1>9, <1>18
    <3>3. w[b] \in Path BY <1>10
    <3>4. e # w[b] BY <3>1, <3>2
    <3> QED BY <3>1, <3>3, <3>4, <1>1, <1>12, NamedOnce
  <2>2. ASSUME NEW a \in 1..n, NEW b \in 1..n, z[a] = z[b] PROVE a = b
    <3>1. w[a] \in Path /\ w[b] \in Path BY <1>10
    <3>2. w[a] = w[b] BY <3>1, <1>1, <1>12, <2>2, NamedOnce
    <3>3. ~KeyBefore(w[a], w[b]) /\ ~KeyBefore(w[b], w[a]) BY <3>1, <3>2, KeyIrreflexive
    <3>4. ~(a < b) /\ ~(b < a) BY <3>3, <1>w, <1>8
    <3> QED BY <3>4
  <2>3. \A a, b \in 1..m : items[a] = items[b] => a = b BY <1>8, <1>18 DEF Listing, ListingOK
  <2>0. more[i] = more[j] BY <1>18
  <2>m. /\ \A a \in 1..m : more[a] = items[a]
        /\ \A b \in 1..n : more[m + b] = z[b]
    BY <1>14
  <2>4. CASE i \in 1..m /\ j \in 1..m BY ONLY <2>0, <2>3, <2>4, <2>m, Zenon
  <2>5. ASSUME i \in 1..m, NEW b \in 1..n, j = m + b PROVE FALSE BY ONLY <2>0, <2>1, <2>5, <2>m, b \in 1..n, Zenon
  <2>6. ASSUME j \in 1..m, NEW b \in 1..n, i = m + b PROVE FALSE BY ONLY <2>0, <2>1, <2>6, <2>m, b \in 1..n, Zenon
  <2>7. ASSUME NEW a \in 1..n, NEW b \in 1..n, i = m + a, j = m + b PROVE i = j
    <3>1. z[a] = z[b] BY ONLY <2>0, <2>7, <2>m, a \in 1..n, b \in 1..n, Zenon
    <3>2. a = b BY ONLY <3>1, <2>2, a \in 1..n, b \in 1..n
    <3> QED BY ONLY <3>2, <2>7
  <2> QED BY <2>4, <2>5, <2>6, <2>7, <1>17
<1>19. ListingOK(op, more) BY <1>1, <1>14, <1>18 DEF Listing, ListingOK
<1>20. ASSUME NEW k \in keys
       PROVE  /\ Rest(op, k) # <<>>
              /\ \/ ListedIn(op, more, EntryOf(op, k))
                 \/ p.more /\ y # <<>> /\ KeyBefore(y[l], Rest(op, k))
  <2>0. Rest(op, k) # <<>> BY DEF Listing
  <2>1. CASE ListedIn(op, items, EntryOf(op, k)) BY <2>0, <2>1, <1>15
  <2>2. CASE KeyBefore(cursor, Rest(op, k))
    <3>1. PICK e : e = EntryOf(op, k) OBVIOUS
    <3>2. e \in E BY <2>0, <3>1, <2>2, <1>4
    <3>3. CASE \E i \in 1..l : y[i] = e
      <4>1. e \in T BY <3>1, <3>3, <1>6, <1>e
      <4> QED BY <2>0, <3>1, <4>1, <1>16
    <3>4. CASE p.more /\ y # <<>> /\ KeyBefore(y[l], e)
      <4>1. PICK x : x = Rest(op, k) OBVIOUS
      <4>2. x \in Path /\ x # <<>> BY <4>1, <2>0, <1>1, EncryptedPath, StrippedPath DEF Rest
      <4>3. e \in Path /\ (e = x \/ KeyBefore(e, x)) BY <3>1, <4>1, <4>2, <1>1, EntryPath DEF EntryOf
      <4>4. l \in 1..l BY <3>4, <1>7, <1>y
      <4>5. y[l] \in Path BY <4>4, <1>e
      <4>6. KeyBefore(y[l], x) BY ONLY <3>4, <4>2, <4>3, <4>5, KeyTransitive
      <4> QED BY <2>0, <3>4, <4>1, <4>6
    <3> QED BY <3>2, <3>3, <3>4, <1>7, <1>y
  <2> QED BY <2>1, <2>2 DEF Listing
<1>21. ASSUME ~p.more \/ y = <<>> PROVE Listed(op, more, keys)
  BY <1>19, <1>20, <1>21 DEF Listed
<1>22. ASSUME y # <<>> PROVE Listing(op, more, Last(y), keys)
  <2>1. l \in 1..l BY <1>7, <1>y, <1>22
  <2>2. Last(y) = y[l] BY <1>y DEF Last
  <2>3. PICK e \in Path : e = y[l] BY <2>1, <1>e
  <2>4. ASSUME op.recursive, NEW i \in 1..(m + n)
        PROVE  \E d \in Path : more[i] = Named(op, d) /\ ~KeyBefore(e, d)
    <3>1. CASE i \in 1..m
      <4>1. PICK d \in Path : items[i] = Named(op, d) /\ ~KeyBefore(cursor, d)
        BY <3>1, <1>8, <2>4 DEF Listing
      <4>2. KeyBefore(cursor, e) BY <2>1, <2>3, <2>4, <1>4, <1>e
      <4>3. ~KeyBefore(e, d) BY ONLY <4>1, <4>2, KeyTransitive, d \in Path, e \in Path, <1>1
      <4> QED BY <3>1, <4>1, <4>3, <1>14
    <3>2. ASSUME NEW j \in 1..n, i = m + j PROVE \E d \in Path : more[i] = Named(op, d) /\ ~KeyBefore(e, d)
      <4>1. PICK d \in Path : d = w[j] BY <1>10
      <4>0. PICK a \in 1..l : y[a] = d BY <4>1, <1>9, <1>t
      <4>2. more[i] = Named(op, d) BY <3>2, <4>1, <1>12, <1>14
      <4>3. ~KeyBefore(e, e) BY KeyIrreflexive
      <4>4. a = l \/ a < l OBVIOUS
      <4>5. d = e \/ KeyBefore(d, e) BY <4>0, <4>4, <2>1, <2>3, <1>7, <1>y
      <4>6. ~KeyBefore(e, d) BY ONLY <4>3, <4>5, KeyTransitive, d \in Path, e \in Path
      <4> QED BY <4>2, <4>6
    <3> QED BY <3>1, <3>2, <1>17
  <2>5. \A k \in keys : /\ Rest(op, k) # <<>>
                        /\ KeyBefore(e, Rest(op, k)) \/ ListedIn(op, more, EntryOf(op, k))
    BY <1>20, <2>3
  <2>6. Listing(op, more, e, keys) BY <1>14, <1>19, <2>4, <2>5 DEF Listing
  <2> QED BY <2>2, <2>3, <2>6
<1> QED BY <1>6, <1>21, <1>22

\* How often a list holds x, and the entry a plain key falls under.
Times(items, x) == Cardinality({i \in DOMAIN items : items[i] = x})

PlainEntry(op, k) ==
    IF Len(k) = Len(op.prefix) + 1 THEN k ELSE Append(SubSeq(k, 1, Len(op.prefix) + 1), 0)

\* The plain key is the prefix and the plain rest.
LEMMA PlainRest ==
    ASSUME NEW op, op.prefix \in Path, op.recursive \in BOOLEAN, NEW k \in Path,
           IsStrictPrefix(encrypt_path(op.prefix), k)
    PROVE  /\ Rest(op, k) \in Path /\ Rest(op, k) # <<>>
           /\ decrypt_path(k) = Named(op, Rest(op, k))
           /\ ~op.recursive => PlainEntry(op, decrypt_path(k)) = Named(op, EntryOf(op, k))
PROOF
<1>1. PICK p : p = encrypt_path(op.prefix) OBVIOUS
<1>2. PICK x : x = Rest(op, k) OBVIOUS
<1>3. p \in Path BY <1>1, EncryptedPath
<1>4. PICK m \in Nat, n \in Nat : m = Len(op.prefix) /\ n = Len(k) BY PathShape
<1>5. Len(p) = m BY <1>1, <1>4, EncryptedPath
<1>6. m < n /\ \A j \in 1..m : p[j] = k[j] BY <1>1, <1>3, <1>4, <1>5, StrictPrefix
<1>7. /\ x \in Path /\ x # <<>> /\ Len(x) = n - m
      /\ \A i \in 1..(n - m) : x[i] = k[m + i]
  <2>1. x = strip_list_prefix(k, p) /\ IsStrictPrefix(p, k) BY <1>1, <1>2 DEF Rest
  <2>2. /\ x \in Path /\ x # <<>> /\ Len(x) = Len(k) - Len(p)
        /\ \A i \in 1..Len(x) : x[i] = k[Len(p) + i]
    BY ONLY <2>1, <1>3, k \in Path, StrippedPath
  <2> QED BY ONLY <2>2, <1>4, <1>5
<1>8. PICK d, u : d = decrypt_path(k) /\ u = Named(op, x) OBVIOUS
<1>9. d \in Path /\ Len(d) = n BY <1>4, <1>8, EncryptedPath
<1>10. DOMAIN k = 1..n /\ DOMAIN p = 1..m /\ DOMAIN x = 1..(n - m) BY <1>3, <1>4, <1>5, <1>7, PathShape
<1>11. \A i \in 1..n : d[i] = IF k[i] = 0 THEN 0 ELSE MaxComp + 1 - k[i] BY <1>8, <1>10 DEF decrypt_path
<1>12. /\ u \in Path /\ Len(u) = m + (n - m)
       /\ \A i \in 1..m : u[i] = op.prefix[i]
       /\ \A i \in 1..(n - m) : u[m + i] = decrypt_path(x)[i]
  <2>1. /\ u \in Path /\ Len(u) = Len(op.prefix) + Len(x)
        /\ \A i \in 1..Len(op.prefix) : u[i] = op.prefix[i]
        /\ \A i \in 1..Len(x) : u[Len(op.prefix) + i] = decrypt_path(x)[i]
    BY <1>7, <1>8, NamedPath
  <2> QED BY ONLY <2>1, <1>4, <1>7
<1>13. Len(u) = n BY <1>12
<1>14. ASSUME NEW i \in 1..m PROVE u[i] = d[i]
  <2>1. op.prefix = decrypt_path(p) BY <1>1, PathRoundTrip
  <2>2. op.prefix[i] = IF p[i] = 0 THEN 0 ELSE MaxComp + 1 - p[i] BY <2>1, <1>10 DEF decrypt_path
  <2>3. i \in 1..n BY <1>6
  <2> QED BY <2>2, <2>3, <1>6, <1>11, <1>12
<1>15. ASSUME NEW i \in 1..(n - m) PROVE u[m + i] = d[m + i]
  <2>1. decrypt_path(x)[i] = IF x[i] = 0 THEN 0 ELSE MaxComp + 1 - x[i] BY <1>10 DEF decrypt_path
  <2>2. m + i \in 1..n BY <1>6
  <2> QED BY <2>1, <2>2, <1>7, <1>11, <1>12
<1>16. ASSUME NEW i \in 1..n PROVE u[i] = d[i]
  <2>1. CASE i <= m
    <3>1. i \in 1..m BY <2>1
    <3> QED BY <3>1, <1>14
  <2>2. CASE i > m
    <3>1. i - m \in 1..(n - m) /\ m + (i - m) = i BY <2>2, <1>6
    <3>2. u[m + (i - m)] = d[m + (i - m)] BY <3>1, <1>15
    <3> QED BY <3>1, <3>2
  <2> QED BY <2>1, <2>2
<1>17. u = [i \in 1..n |-> u[i]] /\ d = [i \in 1..n |-> d[i]] BY <1>9, <1>12, <1>13, PathShape
<1>18. u = d BY <1>16, <1>17
<1>19. ASSUME ~op.recursive PROVE PlainEntry(op, d) = Named(op, EntryOf(op, k))
  <2>1. PICK e : e = EntryOf(op, k) OBVIOUS
  <2>2. e = ListEntry(x, op.recursive) BY <1>2, <2>1 DEF EntryOf
  <2>3. CASE n = m + 1
    <3>1. e = x
      <4>1. Len(x) = 1 BY <2>3, <1>7
      <4> QED BY <2>2, <4>1 DEF ListEntry
    <3>2. PlainEntry(op, d) = d BY <2>3, <1>4, <1>9 DEF PlainEntry
    <3> QED BY <2>1, <3>1, <3>2, <1>8, <1>18
  <2>4. CASE n # m + 1
    <3>1. Len(x) # 1 /\ n > m + 1 BY <2>4, <1>6, <1>7
    <3>2. e = <<x[1], 0>> BY <2>2, <3>1, <1>19 DEF ListEntry
    <3>3. e \in Path BY <2>2, <1>7, EntryPath
    <3>4. Len(e) = 2 /\ e[1] = x[1] /\ e[2] = 0 BY <3>2
    <3>5. PICK v : v = Named(op, e) OBVIOUS
    <3>6. /\ v \in Path /\ Len(v) = m + 2
          /\ \A i \in 1..m : v[i] = op.prefix[i]
          /\ \A i \in 1..2 : v[m + i] = decrypt_path(e)[i]
      <4>1. /\ v \in Path /\ Len(v) = Len(op.prefix) + Len(e)
            /\ \A i \in 1..Len(op.prefix) : v[i] = op.prefix[i]
            /\ \A i \in 1..Len(e) : v[Len(op.prefix) + i] = decrypt_path(e)[i]
        BY <3>3, <3>5, NamedPath
      <4> QED BY ONLY <4>1, <3>4, <1>4
    <3>7. decrypt_path(e)[1] = decrypt_path(x)[1] /\ decrypt_path(e)[2] = 0
      <4>1. DOMAIN e = 1..2 BY <3>3, <3>4, PathShape
      <4>2. 1 \in 1..(n - m) BY <3>1
      <4>3. 1 \in DOMAIN e /\ 2 \in DOMAIN e /\ 1 \in DOMAIN x BY <4>1, <4>2, <1>10
      <4> QED BY <3>4, <4>3 DEF decrypt_path
    <3>8. PICK w : w = Append(SubSeq(d, 1, m + 1), 0) OBVIOUS
    <3>9. PlainEntry(op, d) = w BY <3>8, <2>4, <1>4, <1>9 DEF PlainEntry
    <3>10. /\ w \in Path /\ Len(w) = m + 2 /\ w[m + 2] = 0
           /\ \A i \in 1..(m + 1) : w[i] = d[i]
      <4>1. PICK M \in Nat : M = MaxComp BY MaxCompAssumption
      <4>2. PICK C : C = 0..M OBVIOUS
      <4>3. d \in Seq(C) /\ Path = Seq(C) BY <4>1, <4>2, <1>9 DEF Path
      <4>4. PICK g : g = SubSeq(d, 1, m + 1) OBVIOUS
      <4>5. g \in Seq(C) /\ Len(g) = m + 1 /\ \A i \in 1..(m + 1) : g[i] = d[i]
        BY <3>1, <4>3, <4>4, <1>9
      <4>6. 0 \in C BY <4>2
      <4>7. w = Append(g, 0) BY <3>8, <4>4
      <4>8. w \in Seq(C) /\ Len(w) = m + 2 /\ w[m + 2] = 0 /\ \A i \in 1..(m + 1) : w[i] = g[i]
        BY ONLY <4>5, <4>6, <4>7, m \in Nat
      <4> QED BY <4>3, <4>5, <4>8
    <3>11. ASSUME NEW i \in 1..(m + 2) PROVE v[i] = w[i]
      <4>1. CASE i \in 1..m
        <5>1. v[i] = u[i] /\ u[i] = d[i] BY <4>1, <3>6, <1>12, <1>14
        <5>2. i \in 1..(m + 1) BY <4>1
        <5> QED BY <5>1, <5>2, <3>10
      <4>2. CASE i = m + 1
        <5>1. 1 \in 1..(n - m) BY <3>1
        <5>2. v[m + 1] = u[m + 1] /\ u[m + 1] = d[m + 1] BY <5>1, <3>6, <3>7, <1>12, <1>15
        <5>3. m + 1 \in 1..(m + 1) OBVIOUS
        <5> QED BY <5>2, <5>3, <4>2, <3>10
      <4>3. CASE i = m + 2 BY <4>3, <3>6, <3>7, <3>10
      <4> QED BY <4>1, <4>2, <4>3
    <3>12. v = [i \in 1..(m + 2) |-> v[i]] /\ w = [i \in 1..(m + 2) |-> w[i]]
      BY <3>6, <3>10, PathShape
    <3>13. v = w BY <3>11, <3>12
    <3> QED BY <2>1, <3>5, <3>9, <3>13
  <2> QED BY <2>3, <2>4
<1> QED BY <1>2, <1>7, <1>8, <1>18, <1>19

\* A listing that ended has every key, exactly once, or its entry.
LEMMA ListedAll ==
    ASSUME NEW op, NEW items, NEW keys, keys \subseteq Path, Listed(op, items, keys),
           NEW k \in keys
    PROVE  IF op.recursive THEN Times(items, decrypt_path(k)) = 1
           ELSE Times(items, PlainEntry(op, decrypt_path(k))) >= 1
PROOF
<1>1. op.prefix \in Path /\ op.recursive \in BOOLEAN /\ items \in Seq(Path) /\ k \in Path
  BY DEF Listed, ListingOK
<1>2. PICK n \in Nat : n = Len(items) /\ DOMAIN items = 1..n BY <1>1
<1>3. IsStrictPrefix(encrypt_path(op.prefix), k)
  <2>1. Rest(op, k) # <<>> BY DEF Listed
  <2>2. encrypt_path(op.prefix) \in Path BY <1>1, EncryptedPath
  <2> QED BY <1>1, <2>1, <2>2, StrippedPath DEF Rest
<1>4. PICK i \in 1..n : items[i] = Named(op, EntryOf(op, k)) BY <1>2 DEF Listed, ListedIn
<1>5. CASE op.recursive
  <2>1. EntryOf(op, k) = Rest(op, k) BY <1>5 DEF EntryOf, ListEntry
  <2>2. items[i] = decrypt_path(k) BY <1>1, <1>3, <1>4, <2>1, PlainRest
  <2>3. \A a, b \in 1..n : items[a] = items[b] => a = b BY <1>2, <1>5 DEF Listed, ListingOK
  <2>4. {j \in DOMAIN items : items[j] = decrypt_path(k)} = {i} BY <1>2, <2>2, <2>3
  <2>5. Times(items, decrypt_path(k)) = 1 BY <2>4, FS_Singleton DEF Times
  <2> QED BY <1>5, <2>5
<1>6. CASE ~op.recursive
  <2>1. PICK x : x = PlainEntry(op, decrypt_path(k)) OBVIOUS
  <2>2. items[i] = x BY <1>1, <1>3, <1>4, <1>6, <2>1, PlainRest
  <2>3. PICK J : J = {j \in DOMAIN items : items[j] = x} OBVIOUS
  <2>4. IsFiniteSet(1..n)
    <3>1. 1 \in Int /\ n \in Int OBVIOUS
    <3> QED BY ONLY <3>1, FS_Interval
  <2>5. J \in SUBSET (1..n) /\ J # {} BY <1>2, <2>2, <2>3
  <2>6. IsFiniteSet(J) BY ONLY <2>4, <2>5, FS_Subset
  <2>7. Cardinality(J) \in Nat /\ Cardinality(J) # 0 BY ONLY <2>5, <2>6, FS_CardinalityType, FS_EmptySet
  <2>8. Times(items, x) = Cardinality(J) BY <2>3 DEF Times
  <2> QED BY <1>6, <2>1, <2>7, <2>8
<1> QED BY <1>1, <1>5, <1>6

-----------------------------------------------------------------------------
(* Listings while other clients add, move and remove objects.               *)

\* Objects stay finitely many, and at encrypted paths.
LEMMA PlacesKept ==
    ASSUME NEW s, PlacesOK(s), NEW t, Change(s, t)
    PROVE  PlacesOK(t)
PROOF
<1> DEFINE C == DOMAIN s.committed
<1>0. /\ IsFiniteSet(C) /\ \A l \in C : l[2] \in Path
      /\ \A id \in DOMAIN s.pending : s.pending[id].key \in Path
  BY DEF PlacesOK
<1> HIDE DEF C
<1>1. ASSUME DOMAIN t.committed \in SUBSET C,
             \A id \in DOMAIN t.pending : t.pending[id].key \in Path
      PROVE  PlacesOK(t)
  <2>1. IsFiniteSet(DOMAIN t.committed) BY ONLY <1>0, <1>1, FS_Subset
  <2>2. \A l \in DOMAIN t.committed : l[2] \in Path BY <1>0, <1>1
  <2> QED BY <1>1, <2>1, <2>2 DEF PlacesOK
<1>2. ASSUME NEW l, l[2] \in Path, DOMAIN t.committed \in SUBSET (C \cup {l}),
             \A id \in DOMAIN t.pending : t.pending[id].key \in Path
      PROVE  PlacesOK(t)
  <2>1. IsFiniteSet(C \cup {l}) BY ONLY <1>0, FS_AddElement
  <2>2. IsFiniteSet(DOMAIN t.committed) BY ONLY <1>2, <2>1, FS_Subset
  <2>3. \A x \in DOMAIN t.committed : x[2] \in Path BY <1>0, <1>2
  <2> QED BY <1>2, <2>2, <2>3 DEF PlacesOK
<1>3. CASE Quiet(s, t) BY <1>0, <1>1, <1>3 DEF Quiet, C
<1>4. ASSUME NEW b, NEW k \in Path, Begun(s, t, b, k) PROVE PlacesOK(t)
  <2>1. PICK p : p.key = k /\ t.pending = Put(s.pending, s.nextId + 1, p) BY <1>4 DEF Begun
  <2>2. \A id \in DOMAIN t.pending : t.pending[id].key \in Path BY <1>0, <2>1 DEF Put
  <2>3. DOMAIN t.committed \in SUBSET C BY <1>4 DEF Begun, C
  <2> QED BY <1>1, <2>2, <2>3
<1>5. ASSUME NEW i, NEW seg, Added(s, t, i, seg) PROVE PlacesOK(t)
  <2>1. PICK p : p.key = s.pending[i].key /\ t.pending = [s.pending EXCEPT ![i] = p]
    BY <1>5 DEF Added
  <2>2. i \in DOMAIN s.pending /\ DOMAIN t.committed \in SUBSET C BY <1>5 DEF Added, C
  <2>3. \A id \in DOMAIN t.pending : t.pending[id].key \in Path BY <1>0, <2>1, <2>2
  <2> QED BY <1>1, <2>2, <2>3
<1>6. ASSUME NEW i, Discarded(s, t, i) PROVE PlacesOK(t)
  <2>1. t.pending = Drop(s.pending, i) /\ DOMAIN t.committed \in SUBSET C BY <1>6 DEF Discarded, C
  <2>2. \A id \in DOMAIN t.pending : t.pending[id].key \in Path BY <1>0, <2>1 DEF Drop
  <2> QED BY <1>1, <2>1, <2>2
<1>7. ASSUME NEW l, Deleted(s, t, l) PROVE PlacesOK(t)
  <2>1. t.pending = s.pending /\ t.committed = Drop(s.committed, l) BY <1>7 DEF Deleted
  <2>2. DOMAIN t.committed \in SUBSET C BY <2>1 DEF Drop, C
  <2> QED BY <1>0, <1>1, <2>1, <2>2
<1>8. ASSUME NEW r, Published(s, t, r) PROVE PlacesOK(t)
  <2>1. PICK p, o : p = s.pending[r.stream] /\ o = CommittedObject(r, p) OBVIOUS
  <2>2. /\ r.stream \in DOMAIN s.pending /\ t.pending = Drop(s.pending, r.stream)
        /\ t.committed = Put(s.committed, <<p.bucket, p.key>>, o)
    BY <1>8, <2>1 DEF Published
  <2>3. PICK l : l = <<p.bucket, p.key>> OBVIOUS
  <2>4. l[2] \in Path BY <1>0, <2>1, <2>2, <2>3
  <2>5. DOMAIN t.committed \in SUBSET (C \cup {l}) BY <2>2, <2>3 DEF Put, C
  <2>6. \A id \in DOMAIN t.pending : t.pending[id].key \in Path BY <1>0, <2>2 DEF Drop
  <2> QED BY <1>2, <2>4, <2>5, <2>6
<1>9. ASSUME NEW r, Updated(s, t, r) PROVE PlacesOK(t)
  <2>1. t.pending = s.pending /\ DOMAIN t.committed \in SUBSET C BY <1>9 DEF Updated, C
  <2> QED BY <1>0, <1>1, <2>1
<1>10. ASSUME NEW r, FitRelocation(s, r), Copied(s, t, r) \/ Moved(s, t, r) PROVE PlacesOK(t)
  <2>1. PICK l : l = <<r.newBucket, r.newKey>> OBVIOUS
  <2>2. l[2] \in Path BY <1>10, <2>1 DEF FitRelocation
  <2>3. t.pending = s.pending BY <1>10 DEF Copied, Moved
  <2>4. PICK o : \/ t.committed = Put(s.committed, l, o)
                 \/ t.committed = Put(Drop(s.committed, LocationOf(s, r.stream)), l, o)
    BY <1>10, <2>1 DEF Copied, Moved
  <2>5. DOMAIN t.committed \in SUBSET (C \cup {l}) BY <2>4 DEF Put, Drop, C
  <2> QED BY <1>0, <1>2, <2>2, <2>3, <2>5
<1> QED BY <1>3, <1>4, <1>5, <1>6, <1>7, <1>8, <1>9, <1>10 DEF Change

\* A client's listing, given the keys that were there all along.
ListClient(k, s, keys) ==
    /\ k.step = "list_objects" =>
          /\ k.op.call = "list_objects" /\ keys \subseteq Listable(k.op, s)
          /\ Listing(k.op, k.mem.items, k.mem.cursor, keys)
    /\ k.step \notin {"idle", "list_objects"} => k.op.call # "list_objects"

ListResult(v, keys) ==
    v.call = "list_objects" /\ v.err = "ok" => Listed(v.value.op, v.value.items, keys)

\* What makes ListingComplete inductive.
ListInv ==
    /\ PlacesOK(sat)
    /\ alive = [c \in Clients |-> alive[c]]
    /\ \A c \in Clients : alive[c] \subseteq Path
    /\ \A c \in Clients : ListClient(cl[c], sat, alive[c]) /\ ListResult(ret[c], alive[c])

\* The history of the keys a listing can report.
AliveKept ==
    /\ alive' = [d \in Clients |-> alive'[d]]
    /\ \A d \in Clients : /\ alive'[d] \subseteq alive[d]
                          /\ cl[d].step = "list_objects" => alive'[d] \subseteq Listable(cl[d].op, sat')

\* A client's step keeps ListInv when it keeps that client's own listing right.
LEMMA ListStep ==
    ASSUME Inv, ListInv, NEW c \in Clients, NEW k, NEW v, Outcome(c, k, v), AliveKept, PlacesOK(sat'),
           ListClient(k, sat', alive'[c]), ListResult(v, alive'[c])
    PROVE  ListInv'
PROOF
<1>1. ASSUME NEW d \in Clients
      PROVE  /\ alive'[d] \subseteq Path
             /\ ListClient(cl'[d], sat', alive'[d]) /\ ListResult(ret'[d], alive'[d])
  <2>1. alive'[d] \subseteq Path BY DEF AliveKept, ListInv
  <2>2. CASE d = c BY <2>1, <2>2 DEF Inv, Outcome
  <2>3. CASE d # c
    <3>1. cl'[d] = cl[d] /\ ret'[d] = ret[d] BY <2>3 DEF Inv, Outcome
    <3>2. PICK x, y, s, t, A, B : /\ x = cl[d] /\ y = ret[d] /\ s = sat /\ t = sat'
                                  /\ A = alive[d] /\ B = alive'[d]
      OBVIOUS
    <3>3. ListClient(x, s, A) /\ ListResult(y, A) BY <3>2 DEF ListInv
    <3>4. B \subseteq A /\ (x.step = "list_objects" => B \subseteq Listable(x.op, t))
      BY <3>2 DEF AliveKept
    <3>5. ListClient(x, t, B) BY ONLY <3>3, <3>4, ListingFewer DEF ListClient
    <3>6. ListResult(y, B) BY ONLY <3>3, <3>4, ListingFewer DEF ListResult
    <3> QED BY <2>1, <3>1, <3>2, <3>5, <3>6
  <2> QED BY <2>2, <2>3
<1>2. (alive = [d \in Clients |-> alive[d]])' BY DEF AliveKept
<1> QED BY <1>1, <1>2 DEF ListInv

\* An RPC's history is one that AliveKept describes.
LEMMA HistoryAlive ==
    ASSUME ListInv, NEW c, History(c)
    PROVE  AliveKept
BY DEF History, AliveKept, ListInv

\* How a call that is no listing goes on or ends.
GoesTo(c, next) ==
    \/ \E x : next = Return(c, x)
    \/ \E x : next = Fail(c, x)
    \/ next = Undecryptable(c)
    \/ \E x, y : x \notin {"idle", "list_objects"} /\ next = Continue(c, x, y)

GoesOn(c) == \E next : Outcome(c, next.at, next.ret) /\ GoesTo(c, next)

\* Its ways, one by one.
LEMMA GoesAnyWay ==
    ASSUME NEW c
    PROVE  /\ \A x : GoesTo(c, Return(c, x)) /\ GoesTo(c, Fail(c, x))
           /\ GoesTo(c, Undecryptable(c))
           /\ \A x, y : x \notin {"idle", "list_objects"} => GoesTo(c, Continue(c, x, y))
BY DEF GoesTo

\* Such a step keeps the listings of all clients right.
LEMMA OtherStep ==
    ASSUME Inv, ListInv, NEW c \in Clients, GoesOn(c), AliveKept, PlacesOK(sat'),
           cl[c].step \notin {"idle", "list_objects"}
    PROVE  ListInv'
PROOF
<1>1. PICK next : Outcome(c, next.at, next.ret) /\ GoesTo(c, next) BY DEF GoesOn
<1>2. HasFields(cl[c], ClientFields) BY DEF Inv, ClientOK
<1>3. cl[c].op.call # "list_objects" BY DEF ListInv, ListClient
<1>4. PICK A, B, t : A = alive[c] /\ B = alive'[c] /\ t = sat' OBVIOUS
<1>5. B \subseteq A BY <1>4 DEF AliveKept
<1>6. ASSUME NEW x, NEW y, x \notin {"idle", "list_objects"}, next = Continue(c, x, y)
      PROVE  ListClient(next.at, t, B) /\ ListResult(next.ret, B)
  <2>1. next.at = At(c, x, y) /\ next.ret = ret[c] BY <1>6 DEF Continue
  <2>2. next.at.step = x /\ next.at.op = cl[c].op BY <2>1, <1>2 DEF At, HasFields, ClientFields
  <2>3. ListClient(next.at, t, B) BY <2>2, <1>3, <1>6 DEF ListClient
  <2>4. ListResult(next.ret, A) BY <2>1, <1>4 DEF ListInv
  <2>5. ListResult(next.ret, B) BY ONLY <2>4, <1>5, ListingFewer DEF ListResult
  <2> QED BY <2>3, <2>5
<1>7. ASSUME \/ \E x : next = Return(c, x)
             \/ \E x : next = Fail(c, x)
             \/ next = Undecryptable(c)
      PROVE  ListClient(next.at, t, B) /\ ListResult(next.ret, B)
  <2>1. next.at = Idle(c) /\ next.ret.call = cl[c].op.call BY <1>7 DEF Return, Fail, Undecryptable
  <2>2. next.at.step = "idle" BY <2>1, <1>2 DEF Idle, HasFields, ClientFields
  <2> QED BY <2>1, <2>2, <1>3 DEF ListClient, ListResult
<1>8. ListClient(next.at, sat', alive'[c]) /\ ListResult(next.ret, alive'[c])
  BY <1>1, <1>4, <1>6, <1>7 DEF GoesTo
<1> QED BY <1>1, <1>8, ListStep

\* Every RPC but that of a listing.
LEMMA OtherSteps ==
    ASSUME Inv, ListInv, NEW c \in Clients, ClientStep(c), ~Call(c), ~ListObjects(c)
    PROVE  GoesOn(c) /\ AliveKept /\ cl[c].step \notin {"idle", "list_objects"}
PROOF
<1>1. CASE CreateBucket(c)
  <2>1. GoesOn(c) BY <1>1, GoesAnyWay DEF CreateBucket, Rpc, Unary, Outcome, GoesOn
  <2>2. History(c) /\ cl[c].step \notin {"idle", "list_objects"} BY <1>1 DEF CreateBucket, Rpc, Unary, Running
  <2> QED BY <2>1, <2>2, HistoryAlive
<1>2. CASE ExistingBucket(c)
  <2>1. GoesOn(c) BY <1>2, GoesAnyWay DEF ExistingBucket, Rpc, Outcome, GoesOn
  <2>2. History(c) /\ cl[c].step \notin {"idle", "list_objects"} BY <1>2 DEF ExistingBucket, Rpc, Unary, Running
  <2> QED BY <2>1, <2>2, HistoryAlive
<1>3. CASE StatBucket(c)
  <2>1. GoesOn(c) BY <1>3, GoesAnyWay DEF StatBucket, Rpc, Unary, Outcome, GoesOn
  <2>2. History(c) /\ cl[c].step \notin {"idle", "list_objects"} BY <1>3 DEF StatBucket, Rpc, Unary, Running
  <2> QED BY <2>1, <2>2, HistoryAlive
<1>4. CASE DeleteBucket(c)
  <2>1. GoesOn(c) BY <1>4, GoesAnyWay DEF DeleteBucket, Rpc, Unary, Outcome, GoesOn
  <2>2. History(c) /\ cl[c].step \notin {"idle", "list_objects"} BY <1>4 DEF DeleteBucket, Rpc, Unary, Running
  <2> QED BY <2>1, <2>2, HistoryAlive
<1>5. CASE ListBuckets(c)
  <2>1. GoesOn(c)
    <3>1. PICK next : /\ Outcome(c, next.at, next.ret)
                      /\ \/ \E y : next = Return(c, y)
                         \/ \E y : next = Fail(c, y)
                         \/ \E y : next = Continue(c, "list_buckets", y)
      BY <1>5 DEF ListBuckets, Rpc, Outcome
    <3> QED BY <3>1 DEF GoesOn, GoesTo
  <2>2. History(c) /\ cl[c].step \notin {"idle", "list_objects"} BY <1>5 DEF ListBuckets, Rpc, Unary, Running
  <2> QED BY <2>1, <2>2, HistoryAlive
<1>6. CASE ObjectLock(c)
  <2>1. GoesOn(c) BY <1>6, GoesAnyWay DEF ObjectLock, Rpc, Unary, Outcome, GoesOn
  <2>2. History(c) /\ cl[c].step \notin {"idle", "list_objects"} BY <1>6 DEF ObjectLock, Rpc, Unary, Running
  <2> QED BY <2>1, <2>2, HistoryAlive
<1>7. CASE BucketLock(c)
  <2>1. GoesOn(c) BY <1>7, GoesAnyWay DEF BucketLock, Rpc, Unary, Outcome, GoesOn
  <2>2. History(c) /\ cl[c].step \notin {"idle", "list_objects"} BY <1>7 DEF BucketLock, Rpc, Unary, Running
  <2> QED BY <2>1, <2>2, HistoryAlive
<1>8. CASE BeginUpload(c)
  <2>1. GoesOn(c) BY <1>8, GoesAnyWay DEF BeginUpload, Rpc, Unary, Outcome, GoesOn
  <2>2. History(c) /\ cl[c].step \notin {"idle", "list_objects"} BY <1>8 DEF BeginUpload, Rpc, Unary, Running
  <2> QED BY <2>1, <2>2, HistoryAlive
<1>9. CASE InlineSegment(c)
  <2>1. GoesOn(c)
    <3>1. PICK next : /\ Outcome(c, next.at, next.ret)
                      /\ \/ \E y : next = Return(c, y)
                         \/ \E y : next = Fail(c, y)
                         \/ \E y : next = Continue(c, "segment", y)
      BY <1>9 DEF InlineSegment, Rpc, Outcome
    <3> QED BY <3>1 DEF GoesOn, GoesTo
  <2>2. History(c) /\ cl[c].step \notin {"idle", "list_objects"} BY <1>9 DEF InlineSegment, Rpc, Unary, Running
  <2> QED BY <2>1, <2>2, HistoryAlive
<1>10. CASE BeginSegment(c)
  <2>1. GoesOn(c) BY <1>10, GoesAnyWay DEF BeginSegment, Rpc, Unary, Outcome, GoesOn
  <2>2. History(c) /\ cl[c].step \notin {"idle", "list_objects"} BY <1>10 DEF BeginSegment, Rpc, Unary, Running
  <2> QED BY <2>1, <2>2, HistoryAlive
<1>11. CASE SegmentLimits(c)
  <2>1. GoesOn(c) BY <1>11, GoesAnyWay DEF SegmentLimits, Rpc, Outcome, GoesOn
  <2>2. History(c) /\ cl[c].step \notin {"idle", "list_objects"} BY <1>11 DEF SegmentLimits, Rpc, Unary, Running
  <2> QED BY <2>1, <2>2, HistoryAlive
<1>12. CASE RetryPieces(c)
  <2>1. GoesOn(c) BY <1>12, GoesAnyWay DEF RetryPieces, Rpc, Unary, Outcome, GoesOn
  <2>2. History(c) /\ cl[c].step \notin {"idle", "list_objects"} BY <1>12 DEF RetryPieces, Rpc, Unary, Running
  <2> QED BY <2>1, <2>2, HistoryAlive
<1>13. CASE RetryLimits(c)
  <2>1. GoesOn(c) BY <1>13, GoesAnyWay DEF RetryLimits, Rpc, Unary, Outcome, GoesOn
  <2>2. History(c) /\ cl[c].step \notin {"idle", "list_objects"} BY <1>13 DEF RetryLimits, Rpc, Unary, Running
  <2> QED BY <2>1, <2>2, HistoryAlive
<1>14. CASE CommitSegment(c)
  <2>1. GoesOn(c)
    <3>1. PICK next : /\ Outcome(c, next.at, next.ret)
                      /\ \/ \E y : next = Return(c, y)
                         \/ \E y : next = Fail(c, y)
                         \/ \E y : next = Continue(c, "segment", y)
      BY <1>14 DEF CommitSegment, Rpc, Outcome
    <3> QED BY <3>1 DEF GoesOn, GoesTo
  <2>2. History(c) /\ cl[c].step \notin {"idle", "list_objects"} BY <1>14 DEF CommitSegment, Rpc, Unary, Running
  <2> QED BY <2>1, <2>2, HistoryAlive
<1>15. CASE CommitUpload(c)
  <2>1. GoesOn(c) BY <1>15, GoesAnyWay DEF CommitUpload, Rpc, Unary, Outcome, GoesOn
  <2>2. History(c) /\ cl[c].step \notin {"idle", "list_objects"} BY <1>15 DEF CommitUpload, Rpc, Unary, Running
  <2> QED BY <2>1, <2>2, HistoryAlive
<1>16. CASE AbortUpload(c)
  <2>1. GoesOn(c) BY <1>16, GoesAnyWay DEF AbortUpload, Rpc, Unary, Outcome, GoesOn
  <2>2. History(c) /\ cl[c].step \notin {"idle", "list_objects"} BY <1>16 DEF AbortUpload, Rpc, Unary, Running
  <2> QED BY <2>1, <2>2, HistoryAlive
<1>17. CASE StatObject(c)
  <2>1. GoesOn(c) BY <1>17, GoesAnyWay DEF StatObject, Rpc, Unary, Outcome, GoesOn, Converted
  <2>2. History(c) /\ cl[c].step \notin {"idle", "list_objects"} BY <1>17 DEF StatObject, Rpc, Unary, Running
  <2> QED BY <2>1, <2>2, HistoryAlive
<1>18. CASE DeleteObject(c)
  <2>1. GoesOn(c) BY <1>18, GoesAnyWay DEF DeleteObject, Rpc, Unary, Outcome, GoesOn, Converted
  <2>2. History(c) /\ cl[c].step \notin {"idle", "list_objects"} BY <1>18 DEF DeleteObject, Rpc, Unary, Running
  <2> QED BY <2>1, <2>2, HistoryAlive
<1>19. CASE BeginRelocate(c)
  <2>1. GoesOn(c)
    <3>1. PICK mem : \/ Outcome(c, Continue(c, "finish_relocate", mem).at,
                                   Continue(c, "finish_relocate", mem).ret)
                        \/ Outcome(c, Undecryptable(c).at, Undecryptable(c).ret)
                        \/ \E e : Outcome(c, Fail(c, e).at, Fail(c, e).ret)
      BY <1>19 DEF BeginRelocate, Rpc, Outcome
    <3> QED BY ONLY <3>1, GoesAnyWay DEF GoesOn
  <2>2. History(c) /\ cl[c].step \notin {"idle", "list_objects"} BY <1>19 DEF BeginRelocate, Rpc, Unary, Running
  <2> QED BY <2>1, <2>2, HistoryAlive
<1>20. CASE FinishRelocate(c)
  <2>1. GoesOn(c) BY <1>20, GoesAnyWay DEF FinishRelocate, Rpc, Unary, Outcome, GoesOn, Converted
  <2>2. History(c) /\ cl[c].step \notin {"idle", "list_objects"} BY <1>20 DEF FinishRelocate, Rpc, Unary, Running
  <2> QED BY <2>1, <2>2, HistoryAlive
<1>21. CASE ReadForUpdate(c)
  <2>1. GoesOn(c) BY <1>21, GoesAnyWay DEF ReadForUpdate, Rpc, Unary, Outcome, GoesOn
  <2>2. History(c) /\ cl[c].step \notin {"idle", "list_objects"} BY <1>21 DEF ReadForUpdate, Rpc, Unary, Running
  <2> QED BY <2>1, <2>2, HistoryAlive
<1>22. CASE WriteMetadata(c)
  <2>1. GoesOn(c) BY <1>22, GoesAnyWay DEF WriteMetadata, Rpc, Unary, Outcome, GoesOn
  <2>2. History(c) /\ cl[c].step \notin {"idle", "list_objects"} BY <1>22 DEF WriteMetadata, Rpc, Unary, Running
  <2> QED BY <2>1, <2>2, HistoryAlive
<1>23. CASE RevokeAccess(c)
  <2>1. GoesOn(c)
    <3>1. CASE Op(c).target = Key(c)
      <4>1. PICK next : next = Fail(c, "PermissionDenied") OBVIOUS
      <4>2. Outcome(c, next.at, next.ret) BY <3>1, <4>1, <1>23 DEF RevokeAccess, Outcome, Fail
      <4> QED BY <4>1, <4>2 DEF GoesOn, GoesTo
    <3>2. CASE Op(c).target # Key(c)
      BY <3>2, <1>23, GoesAnyWay DEF RevokeAccess, Rpc, Unary, Outcome, GoesOn
    <3> QED BY <3>1, <3>2
  <2>2. History(c) \/ UNCHANGED <<sat, alive>> BY <1>23 DEF RevokeAccess, Rpc, Unary
  <2>3. AliveKept BY <2>2, HistoryAlive DEF AliveKept, ListInv, ListClient
  <2>4. cl[c].step \notin {"idle", "list_objects"} BY <1>23 DEF RevokeAccess, Running
  <2> QED BY <2>1, <2>3, <2>4
<1>24. CASE ListUploads(c)
  <2>1. GoesOn(c) BY <1>24, GoesAnyWay DEF ListUploads, Rpc, Unary, Outcome, GoesOn
  <2>2. History(c) /\ cl[c].step \notin {"idle", "list_objects"} BY <1>24 DEF ListUploads, Rpc, Unary, Running
  <2> QED BY <2>1, <2>2, HistoryAlive
<1>25. CASE ListUploadsByKey(c)
  <2>1. GoesOn(c) BY <1>25 DEF ListUploadsByKey, Rpc, Outcome, GoesOn, GoesTo
  <2>2. History(c) /\ cl[c].step \notin {"idle", "list_objects"} BY <1>25 DEF ListUploadsByKey, Rpc, Unary, Running
  <2> QED BY <2>1, <2>2, HistoryAlive
<1>26. CASE ListUploadParts(c)
  <2>1. GoesOn(c) BY <1>26, GoesAnyWay DEF ListUploadParts, Rpc, Unary, Outcome, GoesOn
  <2>2. History(c) /\ cl[c].step \notin {"idle", "list_objects"} BY <1>26 DEF ListUploadParts, Rpc, Unary, Running
  <2> QED BY <2>1, <2>2, HistoryAlive
<1>27. CASE DownloadObject(c)
  <2>1. GoesOn(c)
    <3>1. PICK r : r = download_object(sat, Key(c), Op(c).bucket, EncKey(c), Op(c).version) OBVIOUS
    <3>2. PICK first : first = Head(r.ans.downloads) OBVIOUS
    <3>3. PICK next : next = IF r.ans.downloads = <<>>
                             THEN Return(c, [stream |-> r.ans.stream, read |-> <<>>])
                             ELSE IF ~Opens(first.key, ContentKey(c)) THEN Undecryptable(c)
                             ELSE IF Len(r.ans.positions) = 1
                             THEN Return(c, [stream |-> r.ans.stream, read |-> <<first.key.sealed>>])
                             ELSE Continue(c, "download_segment",
                                     [stream |-> r.ans.stream, rest |-> Tail(r.ans.positions),
                                      read |-> <<first.key.sealed>>])
      OBVIOUS
    <3>4. \/ Outcome(c, next.at, next.ret)
          \/ \E e : Outcome(c, Fail(c, e).at, Fail(c, e).ret)
      BY ONLY <1>27, <3>1, <3>2, <3>3, ZenonT(60) DEF DownloadObject, Rpc, Outcome
    <3>5. "download_segment" \notin {"idle", "list_objects"} OBVIOUS
    <3>6. GoesTo(c, next) BY ONLY <3>3, <3>5, GoesAnyWay
    <3>7. \A e : GoesTo(c, Fail(c, e)) BY ONLY GoesAnyWay
    <3> QED BY ONLY <3>4, <3>6, <3>7, Zenon DEF GoesOn
  <2>2. History(c) /\ cl[c].step \notin {"idle", "list_objects"} BY <1>27 DEF DownloadObject, Rpc, Unary, Running
  <2> QED BY <2>1, <2>2, HistoryAlive
<1>28. CASE DownloadSegment(c)
  <2>1. GoesOn(c)
    <3>1. PICK next : /\ Outcome(c, next.at, next.ret)
                      /\ \/ \E y : next = Return(c, y)
                         \/ \E y : next = Fail(c, y)
                         \/ next = Undecryptable(c)
                         \/ \E y : next = Continue(c, "download_segment", y)
      BY <1>28 DEF DownloadSegment, Rpc, Outcome
    <3> QED BY <3>1 DEF GoesOn, GoesTo
  <2>2. History(c) /\ cl[c].step \notin {"idle", "list_objects"} BY <1>28 DEF DownloadSegment, Rpc, Unary, Running
  <2> QED BY <2>1, <2>2, HistoryAlive
<1> QED
  BY <1>1, <1>2, <1>3, <1>4, <1>5, <1>6, <1>7, <1>8, <1>9, <1>10, <1>11, <1>12, <1>13, <1>14, <1>15, <1>16, <1>17, <1>18, <1>19, <1>20, <1>21, <1>22, <1>23, <1>24, <1>25, <1>26, <1>27, <1>28 DEF ClientStep

\* The keys of a bucket are finitely many paths.
LEMMA BucketKeys ==
    ASSUME NEW s, PlacesOK(s), NEW b
    PROVE  KeysOf(s, b) \subseteq Path /\ IsFiniteSet(KeysOf(s, b))
PROOF
<1> DEFINE L == {l \in DOMAIN s.committed : l[1] = b}
           f == [l \in L |-> l[2]]
<1>1. L \in SUBSET DOMAIN s.committed OBVIOUS
<1>2. KeysOf(s, b) = {l[2] : l \in L} BY DEF KeysOf
<1>3. KeysOf(s, b) \subseteq Path BY <1>2 DEF PlacesOK
<1>4. f \in Surjection(L, KeysOf(s, b)) BY <1>2 DEF Surjection
<1> HIDE DEF L, f
<1>5. IsFiniteSet(L) BY <1>1, FS_Subset DEF PlacesOK
<1>6. IsFiniteSet(KeysOf(s, b)) BY ONLY <1>4, <1>5, FS_Surjection
<1> QED BY <1>3, <1>6

\* A key is the prefix it was found under and the rest.
LEMMA PrefixAndRest ==
    ASSUME NEW p \in Path, NEW k \in Path, NEW x, x = strip_list_prefix(k, p), x # <<>>
    PROVE  p \o x = k
PROOF
<1>1. PICK C : p \in Seq(C) /\ k \in Seq(C) /\ x \in Seq(C) BY StrippedPath DEF Path
<1>2. PICK m \in Nat, n \in Nat : m = Len(p) /\ n = Len(k) BY <1>1
<1>3. m < n /\ \A i \in 1..m : p[i] = k[i] BY <1>2, StrippedPath, StrictPrefix
<1>4. Len(x) = n - m /\ \A i \in 1..(n - m) : x[i] = k[m + i]
  <2>1. /\ Len(x) = Len(k) - Len(p)
        /\ \A i \in 1..Len(x) : x[i] = k[Len(p) + i]
    BY ONLY p \in Path, k \in Path, x = strip_list_prefix(k, p), x # <<>>, StrippedPath
  <2> QED BY ONLY <2>1, <1>2
<1>5. PICK u : u = p \o x OBVIOUS
<1>6. /\ u \in Seq(C) /\ Len(u) = n
      /\ \A i \in 1..m : u[i] = p[i]
      /\ \A i \in 1..(n - m) : u[m + i] = x[i]
  <2>1. u \in Seq(C) BY ONLY <1>1, <1>5
  <2>2. Len(u) = Len(p) + Len(x) BY ONLY <1>1, <1>5
  <2>3. Len(u) = n BY ONLY <2>2, <1>2, <1>3, <1>4, m \in Nat, n \in Nat
  <2>4. ASSUME NEW i \in 1..m PROVE u[i] = p[i] BY ONLY <2>4, <1>1, <1>2, <1>5, m \in Nat
  <2>5. ASSUME NEW i \in 1..(n - m) PROVE u[m + i] = x[i]
    BY ONLY <2>5, <1>1, <1>2, <1>3, <1>4, <1>5, m \in Nat, n \in Nat
  <2> QED BY ONLY <2>1, <2>3, <2>4, <2>5
<1>7. ASSUME NEW i \in 1..n PROVE u[i] = k[i]
  <2>1. CASE i <= m
    <3>1. i \in 1..m BY <2>1
    <3> QED BY <3>1, <1>3, <1>6
  <2>2. CASE i > m
    <3>1. i - m \in 1..(n - m) /\ m + (i - m) = i BY <2>2, <1>3
    <3>2. u[m + (i - m)] = k[m + (i - m)] BY <3>1, <1>4, <1>6
    <3> QED BY <3>1, <3>2
  <2> QED BY <2>1, <2>2
<1>8. u = [i \in 1..n |-> u[i]] /\ k = [i \in 1..n |-> k[i]] BY <1>1, <1>2, <1>6
<1> QED BY <1>5, <1>7, <1>8

\* The entry of a key that can be listed converts.
LEMMA EntryConverts ==
    ASSUME NEW op, op.prefix \in Path, op.recursive \in BOOLEAN, op.custom \in BOOLEAN,
           NEW s, NEW k \in Path, k \in Listable(op, s), NEW e, e = EntryOf(op, k),
           NEW r, r.bucket = op.bucket, r.prefix = encrypt_path(op.prefix), r.recursive = op.recursive
    PROVE  Converts(op, e, ItemObject(s, r, e))
PROOF
<1>1. PICK p, x : p = encrypt_path(op.prefix) /\ x = Rest(op, k) OBVIOUS
<1>2. p \in Path BY <1>1, EncryptedPath
<1>3. x = strip_list_prefix(k, p) BY <1>1 DEF Rest
<1>4. /\ x # <<>> /\ Decrypts(ListEntry(x, op.recursive))
      /\ op.custom /\ (op.recursive \/ Len(x) = 1) =>
            CustomReadable(s.committed[<<op.bucket, k>>], Location(<<op.bucket, k>>))
  BY <1>1, <1>3 DEF Listable
<1>5. x \in Path /\ IsStrictPrefix(p, k) BY <1>2, <1>3, <1>4, StrippedPath
<1>6. e = ListEntry(x, op.recursive) BY <1>1 DEF EntryOf
<1>7. Decrypts(e) BY <1>4, <1>6
<1>8. CASE ~(op.recursive \/ Len(e) = 1)
  <2>1. ItemObject(s, r, e) = None BY <1>8 DEF ItemObject
  <2> QED BY <1>7, <2>1 DEF Converts, IsSome
<1>9. CASE op.recursive \/ Len(e) = 1
  <2>1. op.recursive \/ Len(x) = 1
    <3>1. ~(op.recursive \/ Len(x) = 1) => e = <<x[1], 0>> BY <1>4, <1>5, <1>6, EntryPath
    <3>2. Len(<<x[1], 0>>) = 2 OBVIOUS
    <3> QED BY <1>9, <3>1, <3>2
  <2>2. e = x BY <1>4, <1>5, <1>6, <2>1, EntryPath
  <2>3. p \o e = k BY <1>2, <1>3, <1>4, <2>2, PrefixAndRest
  <2>4. ItemObject(s, r, e) = s.committed[<<op.bucket, k>>] BY <1>1, <1>9, <2>3 DEF ItemObject
  <2>5. decrypt_path(k) = Named(op, x) BY <1>1, <1>5, PlainRest
  <2>6. ListedKey(op, e) = decrypt_path(k) BY <2>2, <2>5 DEF ListedKey, Named
  <2>7. Location(<<op.bucket, k>>) = derive_content_key(op.bucket, decrypt_path(k)) BY DEF Location
  <2> QED BY <1>4, <1>7, <2>1, <2>4, <2>6, <2>7 DEF Converts
<1> QED BY <1>8, <1>9

\* A page of a listing.
LEMMA ListObjectsPage ==
    ASSUME Inv, ListInv, NEW c \in Clients, ListObjects(c)
    PROVE  ListInv'
PROOF
<1>1. PICK op, items, cursor, keys, req, s, t, B :
         /\ op = Op(c) /\ items = Mem(c).items /\ cursor = Mem(c).cursor /\ keys = alive[c]
         /\ req = ListObjectsRequest(c) /\ s = sat /\ t = sat' /\ B = alive'[c]
  OBVIOUS
<1>2. PICK r : r = list_objects(s, Key(c), req) OBVIOUS
<1>3. cl[c].step = "list_objects" /\ History(c) BY DEF ListObjects, Running, Rpc
<1>4. /\ op.call = "list_objects" /\ keys \subseteq Listable(op, s)
      /\ Listing(op, items, cursor, keys)
  BY <1>1, <1>3 DEF ListInv, ListClient, Op, Mem
<1>0. op.prefix \in Path /\ op.recursive \in BOOLEAN /\ op.custom \in BOOLEAN
  BY <1>4 DEF Listing, ListingOK
<1>5. /\ req.bucket = op.bucket /\ req.prefix = encrypt_path(op.prefix)
      /\ req.recursive = op.recursive /\ req.cursor = cursor
  BY <1>1 DEF ListObjectsRequest
<1>6. PICK K : K = KeysOf(s, op.bucket) OBVIOUS
<1>7. K \subseteq Path /\ IsFiniteSet(K) /\ keys \subseteq K
  <2>1. PlacesOK(s) BY <1>1 DEF ListInv
  <2>2. K \subseteq Path /\ IsFiniteSet(K) BY ONLY <1>6, <2>1, BucketKeys
  <2> QED BY <1>4, <1>6, <2>2 DEF Listable
<1>8. PICK p : p = Page(InKeyOrder(ListEntries(K, req))) OBVIOUS
<1>a. PICK a : a = [items |-> p.items, more |-> p.more,
                    objects |-> [i \in DOMAIN p.items |-> ItemObject(s, req, p.items[i])]]
  OBVIOUS
<1>t. PICK T : T = {p.items[i] : i \in {i \in DOMAIN p.items : Converts(op, p.items[i], a.objects[i])}}
  OBVIOUS
<1>w. PICK w, q : w = InKeyOrder(T) /\ q = items \o [i \in DOMAIN w |-> Named(op, w[i])] OBVIOUS
<1>k. ASSUME NEW k \in keys, NEW i \in DOMAIN p.items, p.items[i] = EntryOf(op, k)
      PROVE  EntryOf(op, k) \in T
  <2>1. k \in Path /\ k \in Listable(op, s) BY <1>4, <1>7
  <2>2. Converts(op, EntryOf(op, k), ItemObject(s, req, EntryOf(op, k)))
    BY ONLY <2>1, <1>0, <1>5, EntryConverts
  <2>3. a.objects[i] = ItemObject(s, req, p.items[i]) BY <1>a
  <2> QED BY <2>2, <2>3, <1>k, <1>t
<1>9. /\ ~p.more \/ p.items = <<>> => Listed(op, q, keys)
      /\ p.items # <<>> => Listing(op, q, Last(p.items), keys)
  <2>1. \A e \in T : \E i \in DOMAIN p.items : p.items[i] = e BY <1>t
  <2>2. \A k \in keys : \A i \in DOMAIN p.items : p.items[i] = EntryOf(op, k) => EntryOf(op, k) \in T
    BY <1>k
  <2>3. /\ Listing(op, items, cursor, keys) /\ keys \subseteq K /\ K \subseteq Path /\ IsFiniteSet(K)
        /\ req.prefix = encrypt_path(op.prefix) /\ req.recursive = op.recursive /\ req.cursor = cursor
        /\ p = Page(InKeyOrder(ListEntries(K, req)))
        /\ w = InKeyOrder(T) /\ q = items \o [i \in DOMAIN w |-> Named(op, w[i])]
    BY <1>4, <1>5, <1>7, <1>8, <1>w
  <2>4. NextPage(op, items, cursor, keys, K, req, p, T, w, q) BY ONLY <2>1, <2>2, <2>3 DEF NextPage
  <2> QED BY ONLY <2>4, ListingPage
<1>10. r.s = s /\ (r.err = "ok" => r.ans = a)
  <2>1. K = {l[2] : l \in {l \in DOMAIN s.committed : l[1] = req.bucket}} BY <1>5, <1>6 DEF KeysOf
  <2> QED BY <1>2, <1>8, <1>a, <2>1 DEF list_objects, Refuse, Reply
<1>11. sat' = sat BY <1>1, <1>2, <1>10 DEF ListObjects, Rpc
<1>12. AliveKept BY <1>3, HistoryAlive
<1>13. B \subseteq keys /\ B \subseteq Listable(op, t) BY <1>1, <1>3, <1>12 DEF AliveKept, Op
<1>14. HasFields(cl[c], ClientFields) BY DEF Inv, ClientOK
<1>15. PICK next : /\ Outcome(c, next.at, next.ret)
                   /\ \/ \E e : next = Fail(c, e)
                      \/ /\ ~p.more \/ p.items = <<>>
                         /\ next = Return(c, [items |-> q, op |-> op])
                      \/ /\ p.items # <<>>
                         /\ next = Continue(c, "list_objects", [cursor |-> NextCursor(p, cursor), items |-> q])
  <2>1. PICK x : x = r.ans OBVIOUS
  <2>2. PICK more : more = cl[c].mem.items \o convert_list_page(cl[c].op, x) OBVIOUS
  <2>3. r = list_objects(sat, Key(c), ListObjectsRequest(c)) BY <1>1, <1>2
  <2>4. PICK next :
           /\ Outcome(c, next.at, next.ret)
           /\ \/ \E e : next = Fail(c, e)
              \/ /\ r.err = "ok"
                 /\ next = IF ~x.more \/ x.items = <<>> THEN Return(c, [items |-> more, op |-> cl[c].op])
                           ELSE Continue(c, "list_objects",
                                   [cursor |-> NextCursor(x, cl[c].mem.cursor), items |-> more])
    BY <2>1, <2>2, <2>3, ZenonT(60) DEF ListObjects, Rpc, Outcome, Op, Mem
  <2>5. CASE r.err = "ok"
    <3>1. x = a /\ x.items = p.items /\ x.more = p.more BY <1>10, <1>a, <2>1, <2>5
    <3>2. convert_list_page(op, x) = [i \in DOMAIN w |-> Named(op, w[i])]
      BY <1>t, <1>w, <3>1 DEF convert_list_page, ListedKey, Named
    <3>3. more = q BY <1>1, <1>w, <2>2, <3>2 DEF Op, Mem
    <3>4. NextCursor(x, cursor) = NextCursor(p, cursor) BY <3>1 DEF NextCursor
    <3> QED BY ONLY <2>4, <3>1, <3>3, <3>4, <1>1 DEF Op, Mem
  <2>6. CASE r.err # "ok" BY ONLY <2>4, <2>6
  <2> QED BY <2>5, <2>6
<1>16. ListClient(next.at, t, B) /\ ListResult(next.ret, B)
  <2>1. Idle(c).step = "idle" BY <1>14 DEF Idle, HasFields, ClientFields
  <2>2. ASSUME NEW e, next = Fail(c, e) PROVE ListClient(next.at, t, B) /\ ListResult(next.ret, B)
    <3>1. next.at.step = "idle" BY <2>1, <2>2 DEF Fail
    <3>2. next.ret.err # "ok" BY <2>2, RemoteError DEF Fail
    <3> QED BY <3>1, <3>2 DEF ListClient, ListResult
  <2>3. ASSUME ~p.more \/ p.items = <<>>, next = Return(c, [items |-> q, op |-> op])
        PROVE  ListClient(next.at, t, B) /\ ListResult(next.ret, B)
    <3>1. next.at.step = "idle" BY <2>1, <2>3 DEF Return
    <3>2. next.ret.value.op = op /\ next.ret.value.items = q BY <2>3 DEF Return
    <3>3. Listed(op, q, B) BY ONLY <1>9, <1>13, <2>3, ListingFewer
    <3> QED BY <3>1, <3>2, <3>3 DEF ListClient, ListResult
  <2>4. ASSUME p.items # <<>>,
               next = Continue(c, "list_objects", [cursor |-> NextCursor(p, cursor), items |-> q])
        PROVE  ListClient(next.at, t, B) /\ ListResult(next.ret, B)
    <3>1. PICK k : k = next.at OBVIOUS
    <3>2. /\ k.step = "list_objects" /\ k.op = op /\ k.mem.cursor = Last(p.items) /\ k.mem.items = q
      BY <2>4, <3>1, <1>1, <1>14 DEF Continue, At, NextCursor, HasFields, ClientFields, Op
    <3>3. Listing(op, q, Last(p.items), B) BY ONLY <1>9, <1>13, <2>4, ListingFewer
    <3>4. ListClient(k, t, B) BY <3>2, <3>3, <1>4, <1>13 DEF ListClient
    <3>5. next.ret = ret[c] BY <2>4 DEF Continue
    <3>6. ListResult(next.ret, keys) BY <3>5, <1>1 DEF ListInv
    <3>7. ListResult(next.ret, B) BY ONLY <3>6, <1>13, ListingFewer DEF ListResult
    <3> QED BY <3>1, <3>4, <3>7
  <2> QED BY <1>15, <2>2, <2>3, <2>4
<1>17. PlacesOK(sat') BY <1>11 DEF ListInv
<1>18. ListClient(next.at, sat', alive'[c]) /\ ListResult(next.ret, alive'[c]) BY <1>1, <1>16
<1> QED BY <1>12, <1>15, <1>17, <1>18, ListStep

\* A listing starts with the keys it can report.
LEMMA ListStart ==
    ASSUME Inv, ListInv, NEW c \in Clients, NEW op, Start(c, op), op.call \in CallNames,
           op.call = "list_objects" =>
              op.prefix \in Path /\ op.cursor \in Path /\ op.recursive \in BOOLEAN /\ op.custom \in BOOLEAN
    PROVE  ListInv'
PROOF
<1>1. HasFields(cl[c], ClientFields) /\ cl[c].step = "idle" BY DEF Inv, ClientOK, Start
<1>2. sat' = sat /\ scene' = scene BY DEF Start
<1>3. PlacesOK(sat') BY <1>2 DEF ListInv
<1>4. CASE LocalError(op) # "ok"
  <2>1. PICK k, v : /\ k = [cl[c] EXCEPT !.calls = @ + 1]
                    /\ v = [call |-> op.call, err |-> LocalError(op), value |-> None]
    OBVIOUS
  <2>2. k.step = "idle" BY <1>1, <2>1 DEF HasFields, ClientFields
  <2>3. Outcome(c, k, v) /\ alive' = alive BY <1>2, <1>4, <2>1 DEF Start, Outcome
  <2>4. AliveKept BY <1>2, <2>3 DEF AliveKept, ListInv, ListClient
  <2>5. ListClient(k, sat', alive'[c]) BY <2>2 DEF ListClient
  <2>6. ListResult(v, alive'[c]) BY <1>4, <2>1 DEF ListResult
  <2> QED BY <1>3, <2>3, <2>4, <2>5, <2>6, ListStep
<1>5. CASE LocalError(op) = "ok"
  <2>1. PICK k : k = [cl[c] EXCEPT !.op = op, !.step = FirstStep(op.call),
                                  !.mem = FirstMem(op), !.calls = @ + 1]
    OBVIOUS
  <2>2. PICK B : B = IF op.call = "list_objects" THEN Listable(op, sat) ELSE {} OBVIOUS
  <2>3. k.op = op /\ k.step = FirstStep(op.call) /\ k.mem = FirstMem(op)
    BY <1>1, <2>1 DEF HasFields, ClientFields
  <2>4. cl' = [cl EXCEPT ![c] = k] BY <1>5, <2>1 DEF Start
  <2>5. ret' = [ret EXCEPT ![c] = NoResult] BY <1>5 DEF Start
  <2>6. alive' = [alive EXCEPT ![c] = B] BY <1>5, <2>2 DEF Start
  <2>7. B \subseteq Path
    <3>1. KeysOf(sat, op.bucket) \subseteq Path BY BucketKeys DEF ListInv
    <3>2. Listable(op, sat) \subseteq KeysOf(sat, op.bucket) BY DEF Listable
    <3> QED BY <2>2, <3>1, <3>2
  <2>8. ListClient(k, sat, B)
    <3>1. CASE op.call = "list_objects"
      <4>1. k.mem.items = <<>> /\ k.mem.cursor = encrypt_path(op.cursor) BY <2>3, <3>1 DEF FirstMem
      <4>0. \A x \in B : /\ Rest(op, x) # <<>>
                         /\ op.cursor = <<>> \/ KeyBefore(encrypt_path(op.cursor), Rest(op, x))
        BY <2>2, <3>1 DEF Listable, Rest
      <4>2. Listing(op, <<>>, encrypt_path(op.cursor), B) BY <2>7, <3>1, <4>0, ListingStarts
      <4>3. k.step = "list_objects" BY <2>3, <3>1 DEF FirstStep
      <4> QED BY <2>2, <2>3, <3>1, <4>1, <4>2, <4>3 DEF ListClient
    <3>2. CASE op.call # "list_objects"
      <4>1. k.step # "list_objects" BY <2>3, <3>2 DEF FirstStep, CallNames
      <4> QED BY <2>3, <3>2, <4>1 DEF ListClient
    <3> QED BY <3>1, <3>2
  <2>9. ListResult(NoResult, B) BY DEF NoResult, ListResult
  <2>10. ASSUME NEW d \in Clients
         PROVE  /\ alive'[d] \subseteq Path
                /\ ListClient(cl'[d], sat', alive'[d]) /\ ListResult(ret'[d], alive'[d])
    <3>1. CASE d = c BY <1>2, <2>4, <2>5, <2>6, <2>7, <2>8, <2>9, <3>1 DEF Inv, ListInv
    <3>2. CASE d # c BY <1>2, <2>4, <2>5, <2>6, <3>2 DEF Inv, ListInv
    <3> QED BY <3>1, <3>2
  <2>11. (alive = [d \in Clients |-> alive[d]])' BY <2>6 DEF ListInv
  <2> QED BY <1>3, <2>10, <2>11 DEF ListInv
<1> QED BY <1>4, <1>5

\* Choosing and starting any call of a scenario keeps the listings right.
LEMMA ListCall == ASSUME Inv, ListInv, NEW c \in Clients, Call(c) PROVE ListInv'
PROOF
<1>1. PICK op \in Scenarios[scene].calls :
         IF op.call \in {"upload_part", "commit_upload", "abort_upload", "list_upload_parts"}
         THEN \E id \in DOMAIN uploads : Start(c, WithUpload(op, id))
         ELSE Start(c, op)
  BY DEF Call
<1>2. CallOK(op) BY ScenariosAssumption DEF Inv
<1>3. CASE op.call \in {"upload_part", "commit_upload", "abort_upload", "list_upload_parts"}
  <2>1. PICK id \in DOMAIN uploads : Start(c, WithUpload(op, id)) BY <1>1, <1>3
  <2>2. PICK w : w = WithUpload(op, id) OBVIOUS
  <2>3. PICK f : f = [id |-> id, bucket |-> uploads[id][1], key |-> uploads[id][2]] OBVIOUS
  <2>4. w = Over(f, op) BY <1>3, <2>2, <2>3 DEF WithUpload
  <2>5. w.call = op.call BY <1>2, <2>3, <2>4 DEF CallOK, Over
  <2>6. w.call \in CallNames /\ w.call # "list_objects" BY <1>2, <1>3, <2>5 DEF CallOK
  <2> QED BY <2>1, <2>2, <2>6, ListStart
<1>4. CASE op.call \notin {"upload_part", "commit_upload", "abort_upload", "list_upload_parts"}
  BY <1>1, <1>2, <1>4, ListStart DEF CallOK
<1> QED BY <1>3, <1>4

\* Every step does.
LEMMA ListNext == Inv /\ ListInv /\ [Next]_vars => ListInv'
PROOF
<1> SUFFICES ASSUME Inv, ListInv, [Next]_vars PROVE ListInv'
  OBVIOUS
<1>1. PlacesOK(sat')
  <2>1. PICK s, t : s = sat /\ t = sat' OBVIOUS
  <2>2. Change(s, t) BY <2>1, StepChange
  <2>3. PlacesOK(s) BY <2>1 DEF ListInv
  <2> QED BY <2>1, <2>2, <2>3, PlacesKept
<1>2. CASE UNCHANGED vars BY <1>2 DEF vars, ListInv
<1>3. CASE Done BY <1>2, <1>3 DEF Done
<1>4. CASE Tick
  <2>1. UNCHANGED <<cl, ret, alive>> BY <1>4 DEF Tick
  <2>2. sat'.committed = sat.committed
    <3>1. HasFields(sat, SatelliteFields) BY DEF Inv, ProjectOK, SatelliteOK
    <3>2. sat' = [sat EXCEPT !.now = @ + 1] BY <1>4 DEF Tick
    <3> QED BY <3>1, <3>2 DEF HasFields, SatelliteFields
  <2>3. \A op : Listable(op, sat') = Listable(op, sat) BY <2>2 DEF Listable, KeysOf
  <2> QED BY <1>1, <2>1, <2>3 DEF ListInv, ListClient
<1>5. ASSUME NEW c \in Clients, ClientStep(c) PROVE ListInv'
  <2>1. CASE Call(c) BY <2>1, ListCall
  <2>2. CASE ListObjects(c) BY <2>2, ListObjectsPage
  <2>3. CASE ~Call(c) /\ ~ListObjects(c)
    <3>1. GoesOn(c) /\ AliveKept /\ cl[c].step \notin {"idle", "list_objects"} BY <1>5, <2>3, OtherSteps
    <3> QED BY <1>1, <3>1, OtherStep
  <2> QED BY <2>1, <2>2, <2>3
<1> QED BY <1>2, <1>3, <1>4, <1>5 DEF Next

\* At the start nobody lists.
LEMMA ListInit == Init => ListInv
PROOF
<1> SUFFICES ASSUME Init PROVE ListInv
  OBVIOUS
<1>1. PlacesOK(sat) BY ScenariosAssumption DEF Init
<1>2. /\ alive = [c \in Clients |-> {}] /\ ret = [c \in Clients |-> NoResult]
      /\ \A c \in Clients : cl[c].step = "idle"
  BY DEF Init
<1> QED BY <1>1, <1>2 DEF ListInv, ListClient, ListResult, NoResult

\* ListInv says what ListingComplete does.
LEMMA ListInvComplete == ListInv => ListingComplete
PROOF
<1> SUFFICES ASSUME ListInv, NEW c \in Clients, ret[c].call = "list_objects", ret[c].err = "ok",
                    NEW k \in alive[c]
    PROVE  IF ret[c].value.op.recursive THEN Times(ret[c].value.items, decrypt_path(k)) = 1
           ELSE Times(ret[c].value.items, PlainEntry(ret[c].value.op, decrypt_path(k))) >= 1
  BY DEF ListingComplete, Times, PlainEntry
<1>1. PICK op, items, keys : op = ret[c].value.op /\ items = ret[c].value.items /\ keys = alive[c] OBVIOUS
<1>2. Listed(op, items, keys) /\ keys \subseteq Path BY <1>1 DEF ListInv, ListResult
<1>3. k \in keys BY <1>1
<1>4. IF op.recursive THEN Times(items, decrypt_path(k)) = 1
      ELSE Times(items, PlainEntry(op, decrypt_path(k))) >= 1
  BY ONLY <1>2, <1>3, ListedAll
<1> QED BY <1>1, <1>4

\* A recursive listing that ended returned exactly once every key after its
\* cursor that was there, and decrypted, from its start to its end, and a
\* delimited one the entry such a key falls under, whatever other clients
\* added, moved or removed between two pages and whichever entries were
\* skipped, for any page limit (objects.rs list_objects, convert_list_page;
\* mock.rs list_objects).
THEOREM ListingCompleteHolds == Spec => []ListingComplete
PROOF
<1>1. Spec => []Inv BY InvHolds
<1>2. Init => ListInv BY ListInit
<1>3. Inv /\ ListInv /\ [Next]_vars => ListInv' BY ListNext
<1>4. ListInv => ListingComplete BY ListInvComplete
<1> QED BY <1>1, <1>2, <1>3, <1>4, PTL DEF Spec
=============================================================================
