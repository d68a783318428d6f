----------------------------- MODULE ReedSolomon -----------------------------
(***************************************************************************)
(* The erasure code: arithmetic in GF(2^8), the inverted Vandermonde       *)
(* matrix and the systematic encoding matrix made from it, Gauss-Jordan    *)
(* inversion and the plan that decodes a stripe from a set of shares.      *)
(*                                                                         *)
(* A stripe is one byte per data share: the code treats every byte of a    *)
(* share alike.  Rows, columns and shares are numbered from 0 as there.    *)
(***************************************************************************)
EXTENDS Integers, Sequences, FiniteSets, FiniteSetsExt, SequencesExt, Bitwise

CONSTANT Codes   \* [k, n, avail]: a code and the shares that exist at first

VARIABLES code, avail   \* the code, and the shares still available

rsVars == <<code, avail>>

-----------------------------------------------------------------------------
(* The field *)

POLY == 285      \* x^8 + x^4 + x^3 + x^2 + 1

Double(x) == IF 2 * x >= 256 THEN (2 * x) ^^ POLY ELSE 2 * x

ExpTable == FoldLeft(LAMBDA t, i : Append(t, Double(t[Len(t)])), <<1>>, [i \in 1..254 |-> i])

LogTable == [x \in 1..255 |-> CHOOSE i \in 0..254 : ExpTable[i + 1] = x]

exp(i) == ExpTable[(i % 255) + 1]
inverse(x) == IF x = 0 THEN 0 ELSE exp(255 - LogTable[x])
mul(x, y)  == IF x = 0 \/ y = 0 THEN 0 ELSE exp(LogTable[x] + LogTable[y])

\* z ^ (y * x), entry by entry.
addmul(z, x, y) == [i \in DOMAIN z |-> z[i] ^^ mul(y, x[i])]

XorOver(S, F(_)) == FoldSet(LAMBDA i, acc : acc ^^ F(i), 0, S)

Idx(k) == 0..(k - 1)

-----------------------------------------------------------------------------
(* The encoding matrix *)

\* Coefficients of the product of (x - a^i) for i in 1..k-1.
VdmPoly(k) ==
  LET Times(c, i) == [j \in Idx(k) |->
        IF j = k - 1 THEN c[j] ^^ exp(i)
        ELSE IF j >= k - i THEN c[j] ^^ mul(exp(i), c[j + 1]) ELSE c[j]]
  IN  FoldLeft(Times, [j \in Idx(k) |-> 0], [i \in 1..(k - 1) |-> i])

\* The point of a row: zero for the first, a power of the generator after.
Point(row) == IF row = 0 THEN 0 ELSE exp(row)

(* Synthetic division of the polynomial c by x - p: s holds the quotient's
   coefficients b, from the top one down, and their value t at p. *)
DivideStep(s, i, b, p) == [b |-> [s.b EXCEPT ![i] = b], t |-> b ^^ mul(p, s.t)]
Divided(k, c, p) ==
  FoldLeft(LAMBDA s, i : DivideStep(s, i, c[i + 1] ^^ mul(p, s.b[i + 1]), p),
           [b |-> [j \in Idx(k) |-> IF j = k - 1 THEN 1 ELSE 0], t |-> 1],
           [i \in 1..(k - 1) |-> k - 1 - i])

Scaled(c, v) == [j \in DOMAIN v |-> mul(c, v[j])]
Normalised(s) == Scaled(inverse(s.t), s.b)
InverseColumn(k, row) == Normalised(Divided(k, VdmPoly(k), Point(row)))

Transposed(m, k) == [i \in Idx(k) |-> [j \in Idx(k) |-> m[j][i]]]

\* vdm[col][row]
create_inverted_vdm(k) ==
  IF k = 1 THEN [col \in Idx(1) |-> [row \in Idx(1) |-> 1]]
  ELSE Transposed([row \in Idx(k) |-> InverseColumn(k, row)], k)

Dot(k, v, w) == XorOver(Idx(k), LAMBDA i : mul(v[i], w[i]))
TimesMatrix(k, v, m) == [col \in Idx(k) |-> XorOver(Idx(k), LAMBDA i : mul(v[i], m[i][col]))]

(* Row r: the identity for a data share, the Vandermonde row times the
   inverse for a parity share. *)
EncRow(k, r) ==
  IF r < k THEN [col \in Idx(k) |-> IF col = r THEN 1 ELSE 0]
  ELSE TimesMatrix(k, [i \in Idx(k) |-> exp(r * i)], create_inverted_vdm(k))

encode_share(k, r, stripe) == IF r < k THEN stripe[r] ELSE Dot(k, EncRow(k, r), stripe)

-----------------------------------------------------------------------------
(* Inversion *)

NotFound == [icol |-> -1, irow |-> -1]

PivotIn(open, rows, col, m) ==
  IF col \in open /\ m[col][col] # 0 THEN [icol |-> col, irow |-> col]
  ELSE IF rows = {} THEN NotFound
  ELSE [icol |-> Min(rows), irow |-> Min({i \in open : m[Min(rows)][i] # 0})]

OpenRows(open, m) == {row \in open : \E i \in open : m[row][i] # 0}
search_pivot(done, col, m, k) == PivotIn(Idx(k) \ done, OpenRows(Idx(k) \ done, m), col, m)

\* Row at of m divided by its pivot, and the other rows cleared by it.
PivotRow(row, at) == IF row[at] = 1 THEN row ELSE Scaled(inverse(row[at]), [row EXCEPT ![at] = 1])
Cleared(m, at, pivot) ==
  [i \in DOMAIN m |-> IF i = at THEN pivot ELSE addmul([m[i] EXCEPT ![at] = 0], pivot, m[i][at])]

\* s: the matrix, the pivots done and the swaps made, or failed.
EliminateAt(s, p, m) ==
  IF m[p.icol][p.icol] = 0 THEN [s EXCEPT !.failed = TRUE]
  ELSE [m |-> Cleared(m, p.icol, PivotRow(m[p.icol], p.icol)),
        done |-> s.done \cup {p.irow}, swaps |-> Append(s.swaps, p), failed |-> FALSE]

Eliminate(s, p) ==
  IF s.failed \/ p = NotFound THEN [s EXCEPT !.failed = TRUE]
  ELSE EliminateAt(s, p, [s.m EXCEPT ![p.irow] = s.m[p.icol], ![p.icol] = s.m[p.irow]])

Unswap(a, p) == [i \in DOMAIN a |-> [a[i] EXCEPT ![p.irow] = a[i][p.icol], ![p.icol] = a[i][p.irow]]]
Unswapped(s) == [s EXCEPT !.m = FoldLeft(Unswap, s.m, s.swaps)]

invert_matrix(m, k) ==
  Unswapped(FoldLeft(LAMBDA s, col : Eliminate(s, search_pivot(s.done, col, s.m, k)),
                     [m |-> m, done |-> {}, swaps |-> <<>>, failed |-> FALSE],
                     [i \in 1..k |-> i - 1]))

-----------------------------------------------------------------------------
(* Decoding *)

PlanIndexesLowest(k, ids) ==
  LET Take(s, i) == [left |-> s.left \ {Min(s.left)}, at |-> Append(s.at, Min(s.left))]
      all == FoldLeft(Take, [left |-> ids, at |-> <<>>], [i \in 1..k |-> i - 1]).at
  IN  [i \in Idx(k) |-> all[i + 1]]

(* Slot i reads data share i when it is there, and otherwise the highest
   share not taken yet. *)
PlanIndexes(k, ids) ==
  LET Take(s, i) == IF s.left # {} /\ Min(s.left) = i
                    THEN [left |-> s.left \ {i}, at |-> Append(s.at, i)]
                    ELSE [left |-> s.left \ {Max(s.left)}, at |-> Append(s.at, Max(s.left))]
      all == FoldLeft(Take, [left |-> ids, at |-> <<>>], [i \in 1..k |-> i - 1]).at
  IN  [i \in Idx(k) |-> all[i + 1]]

Plan(indexes, inv) == [indexes |-> indexes, m_dec |-> inv.m, failed |-> inv.failed]

PlanFor(k, indexes) ==
  Plan(indexes, invert_matrix([i \in Idx(k) |-> EncRow(k, IF indexes[i] < k THEN i ELSE indexes[i])], k))

decode_plan(k, ids) == PlanFor(k, PlanIndexes(k, ids))

\* shares: share number -> byte.  A data share goes to its own place.
decode_into(k, plan, shares) ==
  [d \in Idx(k) |->
     IF \E i \in Idx(k) : plan.indexes[i] = d THEN shares[d]
     ELSE Dot(k, plan.m_dec[d], [col \in Idx(k) |-> shares[plan.indexes[col]]])]

-----------------------------------------------------------------------------
RsInit == \E c \in Codes : code = [k |-> c.k, n |-> c.n] /\ avail = c.avail

\* A share is lost.
Lose(p) ==
  /\ p \in avail /\ Cardinality(avail) > code.k
  /\ avail' = avail \ {p}
  /\ UNCHANGED code

RsNext == \E p \in avail : Lose(p)

-----------------------------------------------------------------------------
\* The stripes checked: one non-zero byte each (the code is linear).
Units(k) == {[i \in Idx(k) |-> IF i = d THEN v ELSE 0] : d \in Idx(k), v \in {1, 142, 255}}

(* ReedSolomon, DecodePlan: from whichever shares remain, as long as there
   are k of them, the plan exists and every stripe is decoded to what was
   encoded; a data share that is there is used as it is, and a missing one
   depends on every share of the plan, so one corrupted share of the set
   never goes unnoticed. *)
AnyKDecode ==
  LET Decodes(k, plan) ==
        /\ ~plan.failed
        /\ \A stripe \in Units(k) :
             decode_into(k, plan, [p \in avail |-> encode_share(k, p, stripe)]) = stripe
        /\ \A d \in Idx(k) :
             IF d \in avail THEN plan.indexes[d] = d
             ELSE plan.indexes[d] >= k /\ \A col \in Idx(k) : plan.m_dec[d][col] # 0
  IN  Decodes(code.k, decode_plan(code.k, avail))
=============================================================================
