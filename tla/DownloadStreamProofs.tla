------------------------ MODULE DownloadStreamProofs ------------------------
(***************************************************************************)
(* StreamSound of DownloadStream, for every object, range and first answer *)
(* of the satellite.                                                       *)
(*                                                                         *)
(* What the owner has read is in order because everything on its way is:   *)
(* Flow puts what was read, the buffer, the channel and the producer's     *)
(* result one behind the other, and what the producer has yet to fetch     *)
(* behind them.  An increasing sequence of positions of the range that is  *)
(* as long as the range is the range (IncreasingIsAll): so a count of what *)
(* is missing (Books) is enough to tell the end of the object from the end *)
(* of the producer, and Outcomes says what the handle knows of either.     *)
(***************************************************************************)
EXTENDS DownloadStream, FiniteSetTheorems, SequenceTheorems, WellFoundedInduction, TLAPS

-----------------------------------------------------------------------------
(* The inductive invariant *)

Result == [ok : BOOLEAN, data : Seq(Nat)]
Reports == {<<>>, <<"error">>, <<"success">>, <<"cancelled">>}

TypeOK ==
    /\ sizes \in Seq(Nat)
    /\ stage \in {"listing", "open", "closed"}
    /\ listed \in 0..Len(sizes)
    /\ more \in BOOLEAN
    /\ downloaded \in Seq(Segments)
    /\ prod \in {"none", "fetching", "sending", "done"}
    /\ at \in Nat \ {0}
    /\ prod = "sending" => result \in Result
    /\ chan \in Seq(Result) /\ Len(chan) <= 1
    /\ rx \in BOOLEAN
    /\ buf \in Seq(Nat)
    /\ remaining \in Int
    /\ want \in Nat
    /\ complete \in BOOLEAN
    /\ out \in Seq(Nat)
    /\ returned \in {"none", "data", "eof", "error"}
    /\ failed \in BOOLEAN
    /\ events \in Reports

Increasing(s) == \A i, j \in 1..Len(s) : i < j => s[i] < s[j]

Running == prod \in {"fetching", "sending"}

\* Data in the channel, in the producer's hands, and what of it can still be
\* received.
Queued == IF chan = <<>> THEN <<>> ELSE chan[1].data
Held == IF prod = "sending" THEN result.data ELSE <<>>
Ahead == IF rx THEN Queued \o Held ELSE <<>>

\* All that was read or will be, as far as it has been fetched.
Stream == (out \o buf) \o Ahead

\* The index of the segment that is fetched next.
NextAt == IF prod = "sending" THEN at + 1 ELSE at

Within(s, n) == \A i \in 1..Len(s) : s[i] \in 1..n

\* The stream is part of the range, in order, and what is yet to be fetched
\* comes after it.
Flow ==
    /\ Running => Increasing(downloaded)
    /\ Increasing(Stream)
    /\ Within(Stream, Total)
    /\ rx /\ Running => \A j \in NextAt..Len(downloaded) : Within(Stream, Before(downloaded[j]))

\* What is missing is counted.
Books == remaining = Total - Len(out) - Len(buf)

\* Which state belongs to which phase.
Phases ==
    /\ stage = "listing" => /\ prod = "none" /\ out = <<>> /\ buf = <<>> /\ chan = <<>>
                            /\ events = <<>> /\ ~complete /\ ~failed /\ returned = "none"
    /\ stage # "open" => ~rx /\ want = 0

\* What the handle knows: it took note of the end of the range exactly when
\* that was delivered, and without a receiver there was an error or the end.
Outcomes ==
    /\ stage = "open" => events = IF failed THEN <<"error">> ELSE <<>>
    /\ stage = "open" /\ ~failed => (complete <=> out = All)
    /\ stage = "open" /\ ~failed /\ ~rx => remaining = 0 /\ buf = <<>>
    /\ events = <<"error">> => failed
    /\ events = <<"success">> => out = All
    /\ events = <<"cancelled">> => out # All
    /\ returned = "eof" /\ ~failed => out = All

Inv == TypeOK /\ Flow /\ Books /\ Phases /\ Outcomes

-----------------------------------------------------------------------------
(* Numbers and sequences *)

\* Every set of numbers that is not empty has a least one.
LEMMA LeastNat ==
    ASSUME NEW T, T \subseteq Nat, T # {}
    PROVE  \E x \in T : \A y \in T : x <= y
  <1>1. PICK R : R = OpToRel(<, Nat)
    OBVIOUS
  <1>2. IsWellFoundedOn(R, Nat)
    BY <1>1, NatLessThanWellFounded
  <1>3. PICK x \in T : \A y \in T : ~ (<<y, x>> \in R)
    BY <1>2, WFMin
  <1>4. \A y \in T : y < x => <<y, x>> \in R
    BY <1>1 DEF OpToRel
  <1>5. \A y \in T : ~(y < x)
    BY <1>3, <1>4
  <1>6. \A y \in T : x <= y
    BY <1>5
  <1> QED BY <1>3, <1>6


\* Induction, for a set of numbers.
LEMMA Induction ==
    ASSUME NEW S, 0 \in S, \A n \in Nat : n \in S => n + 1 \in S
    PROVE  \A n \in Nat : n \in S
  <1> DEFINE T == {n \in Nat : n \notin S}
  <1> SUFFICES ASSUME T # {} PROVE FALSE
    OBVIOUS
  <1>1. PICK x \in T : \A y \in T : x <= y
    BY LeastNat
  <1>2. x \in Nat /\ x \notin S /\ x # 0
    OBVIOUS
  <1>3. PICK m \in Nat : x = m + 1
    <2>1. x - 1 \in Nat /\ x = (x - 1) + 1
      BY <1>2
    <2> QED BY <2>1
  <1>4. ~(x <= m)
    BY <1>3
  <1>5. m \in S
    BY <1>1, <1>4
  <1> QED BY <1>2, <1>3, <1>5

\* The offsets of the first n + 1 segments of z.
IsOffsets(f, z, n) ==
    /\ f \in [1..(n + 1) -> Nat]
    /\ f[1] = 0
    /\ \A i \in 1..n : f[i + 1] = f[i] + z[i]

\* Offsets exist for every number of segments.
LEMMA OffsetsExist ==
    ASSUME NEW z \in Seq(Nat)
    PROVE  \E f : IsOffsets(f, z, Len(z))
  <1> DEFINE S == {n \in Nat : n <= Len(z) => \E f : IsOffsets(f, z, n)}
  <1>1. 0 \in S
    <2>1. PICK f : f = [i \in 1..1 |-> 0]
      OBVIOUS
    <2>2. f \in [1..(0 + 1) -> Nat] /\ f[1] = 0
      BY <2>1
    <2>3. IsOffsets(f, z, 0)
      BY <2>2 DEF IsOffsets
    <2> QED BY <2>3
  <1>2. ASSUME NEW n \in Nat, n \in S PROVE n + 1 \in S
    <2> SUFFICES ASSUME n + 1 <= Len(z) PROVE \E f : IsOffsets(f, z, n + 1)
      OBVIOUS
    <2>1. PICK f : IsOffsets(f, z, n)
      BY <1>2
    <2>2. f \in [1..(n + 1) -> Nat] /\ f[1] = 0 /\ \A i \in 1..n : f[i + 1] = f[i] + z[i]
      BY <2>1 DEF IsOffsets
    <2>3. z[n + 1] \in Nat
      OBVIOUS
    <2>4. PICK g : g = [i \in 1..(n + 2) |-> IF i = n + 2 THEN f[n + 1] + z[n + 1] ELSE f[i]]
      OBVIOUS
    <2>5. g[n + 2] = f[n + 1] + z[n + 1] /\ \A i \in 1..(n + 1) : g[i] = f[i]
      BY <2>4
    <2>6. g \in [1..(n + 2) -> Nat]
      BY <2>2, <2>3, <2>4
    <2>7. ASSUME NEW i \in 1..(n + 1) PROVE g[i + 1] = g[i] + z[i]
      <3>1. CASE i = n + 1
        BY <2>5, <3>1
      <3>2. CASE i # n + 1
        <4>1. i \in 1..n /\ i + 1 \in 1..(n + 1)
          BY <3>2
        <4> QED BY <2>2, <2>5, <4>1
      <3> QED BY <3>1, <3>2
    <2>8. g[1] = 0 /\ (n + 1) + 1 = n + 2
      BY <2>2, <2>5
    <2>9. IsOffsets(g, z, n + 1)
      BY <2>6, <2>7, <2>8 DEF IsOffsets
    <2> QED BY <2>9
  <1> HIDE DEF S
  <1>3. \A n \in Nat : n \in S
    BY <1>1, <1>2, Induction
  <1>4. Len(z) \in Nat
    OBVIOUS
  <1> QED BY <1>3, <1>4 DEF S

\* The recursive definition of Offsets is one of them.
LEMMA OffsetsFacts ==
    ASSUME NEW z \in Seq(Nat)
    PROVE  IsOffsets(Offsets(z), z, Len(z))
  <1>1. PICK n \in Nat : n = Len(z)
    OBVIOUS
  <1>2. PICK f : IsOffsets(f, z, n)
    BY <1>1, OffsetsExist
  <1>3. f = [i \in 1..(n + 1) |-> IF i = 1 THEN 0 ELSE f[i - 1] + z[i - 1]]
    <2>1. f \in [1..(n + 1) -> Nat] /\ f[1] = 0 /\ \A i \in 1..n : f[i + 1] = f[i] + z[i]
      BY <1>2 DEF IsOffsets
    <2>2. ASSUME NEW i \in 1..(n + 1) PROVE f[i] = IF i = 1 THEN 0 ELSE f[i - 1] + z[i - 1]
      <3>1. CASE i = 1
        BY <2>1, <3>1
      <3>2. CASE i # 1
        <4>1. i - 1 \in 1..n /\ (i - 1) + 1 = i
          BY <3>2
        <4> QED BY <2>1, <3>2, <4>1
      <3> QED BY <3>1, <3>2
    <2> QED BY <2>1, <2>2
  <1>4. PICK g : g = Offsets(z)
    OBVIOUS
  <1>5. g = [i \in 1..(n + 1) |-> IF i = 1 THEN 0 ELSE g[i - 1] + z[i - 1]]
    BY <1>1, <1>3, <1>4, Zenon DEF Offsets
  <1>6. DOMAIN g = 1..(n + 1) /\ g[1] = 0 /\ \A i \in 1..n : g[i + 1] = g[i] + z[i]
    <2>1. DOMAIN g = 1..(n + 1)
      BY ONLY <1>5
    <2>2. 1 \in 1..(n + 1)
      OBVIOUS
    <2>3. g[1] = 0
      BY <1>5, <2>2
    <2>4. ASSUME NEW i \in 1..n PROVE g[i + 1] = g[i] + z[i]
      <3>1. i + 1 \in 1..(n + 1) /\ i + 1 # 1 /\ (i + 1) - 1 = i
        OBVIOUS
      <3> QED BY <1>5, <3>1
    <2> QED BY <2>1, <2>3, <2>4
  <1>7. \A m \in Nat : m \in {k \in Nat : k <= n => g[k + 1] \in Nat}
    <2> DEFINE S == {k \in Nat : k <= n => g[k + 1] \in Nat}
    <2>1. 0 \in S
      BY <1>6
    <2>2. ASSUME NEW k \in Nat, k \in S PROVE k + 1 \in S
      <3> SUFFICES ASSUME k + 1 <= n PROVE g[(k + 1) + 1] \in Nat
        OBVIOUS
      <3>1. k + 1 \in 1..n /\ g[k + 1] \in Nat
        BY <2>2
      <3>2. z[k + 1] \in Nat
        BY <1>1, <3>1
      <3>3. g[(k + 1) + 1] = g[k + 1] + z[k + 1]
        BY <1>6, <3>1
      <3> QED BY <3>1, <3>2, <3>3
    <2> HIDE DEF S
    <2>3. \A m \in Nat : m \in S
      BY <2>1, <2>2, Induction
    <2> QED BY <2>3 DEF S
  <1>8. ASSUME NEW i \in 1..(n + 1) PROVE g[i] \in Nat
    <2>1. i - 1 \in Nat /\ i - 1 <= n /\ (i - 1) + 1 = i
      OBVIOUS
    <2> QED BY <1>7, <2>1
  <1>9. g \in [1..(n + 1) -> Nat]
    <2>1. g = [i \in 1..(n + 1) |-> g[i]]
      BY <1>5, <1>6
    <2> QED BY <1>8, <2>1
  <1> QED BY <1>1, <1>4, <1>6, <1>9 DEF IsOffsets

\* A later segment begins no earlier.
LEMMA OffsetsGrow ==
    ASSUME NEW z \in Seq(Nat), NEW f, NEW n \in Nat, n = Len(z), IsOffsets(f, z, n),
           NEW i \in 1..(n + 1), NEW j \in 1..(n + 1), i <= j
    PROVE  f[i] <= f[j]
  <1>1. f \in [1..(n + 1) -> Nat] /\ \A k \in 1..n : f[k + 1] = f[k] + z[k]
    BY DEF IsOffsets
  <1> DEFINE S == {k \in Nat : i + k <= n + 1 => f[i] <= f[i + k]}
  <1>2. 0 \in S
    <2>1. f[i] \in Nat
      BY <1>1
    <2>2. i + 0 = i
      OBVIOUS
    <2> QED BY <2>1, <2>2
  <1>3. ASSUME NEW k \in Nat, k \in S PROVE k + 1 \in S
    <2> SUFFICES ASSUME i + (k + 1) <= n + 1 PROVE f[i] <= f[i + (k + 1)]
      OBVIOUS
    <2>1. i + k \in 1..n /\ i + k \in 1..(n + 1) /\ i + (k + 1) = (i + k) + 1
      OBVIOUS
    <2>2. f[i] <= f[i + k]
      BY <1>3, <2>1
    <2>3. f[i] \in Nat /\ f[i + k] \in Nat /\ z[i + k] \in Nat
      <3>1. f[i] \in Nat /\ f[i + k] \in Nat
        BY <1>1, <2>1
      <3>2. z[i + k] \in Nat
        BY <2>1, n = Len(z), ElementOfSeq
      <3> QED BY <3>1, <3>2
    <2>4. f[(i + k) + 1] = f[i + k] + z[i + k]
      BY <1>1, <2>1
    <2>5. f[i] <= f[(i + k) + 1]
      BY ONLY <2>2, <2>3, <2>4
    <2> QED BY <2>1, <2>5
  <1> HIDE DEF S
  <1>4. \A k \in Nat : k \in S
    BY <1>2, <1>3, Induction
  <1>5. j - i \in Nat /\ i + (j - i) = j
    OBVIOUS
  <1>6. j - i \in S
    BY <1>4, <1>5
  <1> QED BY <1>5, <1>6 DEF S

\* An increasing sequence of positions is no longer than the range.
LEMMA IncreasingFits ==
    ASSUME NEW s \in Seq(Nat), NEW n \in Nat, Increasing(s), Within(s, n)
    PROVE  Len(s) <= n /\ \A i \in 1..Len(s) : i <= s[i]
  <1>1. PICK l \in Nat : l = Len(s)
    OBVIOUS
  <1>2. \A i \in 1..l : s[i] \in Nat /\ 1 <= s[i] /\ s[i] <= n
    BY <1>1 DEF Within
  <1>3. \A i, j \in 1..l : i < j => s[i] < s[j]
    BY <1>1 DEF Increasing
  <1> DEFINE S == {k \in Nat : k + 1 <= l => k + 1 <= s[k + 1]}
  <1>4. 0 \in S
    BY <1>2
  <1>5. ASSUME NEW k \in Nat, k \in S PROVE k + 1 \in S
    <2> SUFFICES ASSUME (k + 1) + 1 <= l PROVE (k + 1) + 1 <= s[(k + 1) + 1]
      OBVIOUS
    <2>1. k + 1 \in 1..l /\ (k + 1) + 1 \in 1..l /\ k + 1 < (k + 1) + 1
      OBVIOUS
    <2>2. k + 1 <= s[k + 1]
      BY <1>5, <2>1
    <2>3. s[k + 1] < s[(k + 1) + 1]
      BY <1>3, <2>1
    <2>4. s[k + 1] \in Nat /\ s[(k + 1) + 1] \in Nat
      BY <1>2, <2>1
    <2> QED BY ONLY <2>2, <2>3, <2>4, k \in Nat
  <1> HIDE DEF S
  <1>6. \A k \in Nat : k \in S
    BY <1>4, <1>5, Induction
  <1>7. ASSUME NEW i \in 1..l PROVE i <= s[i]
    <2>1. i - 1 \in Nat /\ (i - 1) + 1 = i /\ i <= l
      OBVIOUS
    <2>2. i - 1 \in S
      BY <1>6, <2>1
    <2> QED BY <2>1, <2>2 DEF S
  <1>8. l <= n
    <2>1. CASE l = 0
      BY <2>1
    <2>2. CASE l # 0
      <3>1. l \in 1..l
        BY <2>2
      <3>2. l <= s[l] /\ s[l] <= n /\ s[l] \in Nat
        BY <1>2, <1>7, <3>1
      <3> QED BY <3>2
    <2> QED BY <2>1, <2>2
  <1> QED BY <1>1, <1>7, <1>8

\* One that is as long as the range is the range.
LEMMA IncreasingIsAll ==
    ASSUME NEW s \in Seq(Nat), NEW n \in Nat, Increasing(s), Within(s, n), Len(s) = n
    PROVE  s = [u \in 1..n |-> u]
  <1>1. \A i \in 1..n : s[i] \in Nat /\ s[i] <= n /\ i <= s[i]
    <2>1. \A i \in 1..n : s[i] \in Nat /\ s[i] <= n
      BY DEF Within
    <2>2. \A i \in 1..n : i <= s[i]
      BY IncreasingFits
    <2> QED BY <2>1, <2>2
  <1>2. \A i, j \in 1..n : i < j => s[i] < s[j]
    BY DEF Increasing
  <1> DEFINE S == {k \in Nat : k < n => s[n - k] <= n - k}
  <1>3. 0 \in S
    BY <1>1
  <1>4. ASSUME NEW k \in Nat, k \in S PROVE k + 1 \in S
    <2> SUFFICES ASSUME k + 1 < n PROVE s[n - (k + 1)] <= n - (k + 1)
      OBVIOUS
    <2>1. PICK m \in Nat : m = n - (k + 1)
      OBVIOUS
    <2>2. m \in 1..n /\ m + 1 \in 1..n /\ m < m + 1 /\ n - k = m + 1
      BY <2>1
    <2>3. s[m + 1] <= m + 1
      BY <1>4, <2>2
    <2>4. s[m] < s[m + 1] /\ s[m] \in Nat /\ s[m + 1] \in Nat
      BY <1>1, <1>2, <2>2
    <2>5. s[m] <= m
      BY ONLY <2>3, <2>4, m \in Nat
    <2> QED BY <2>1, <2>5
  <1> HIDE DEF S
  <1>5. \A k \in Nat : k \in S
    BY <1>3, <1>4, Induction
  <1>6. ASSUME NEW i \in 1..n PROVE s[i] = i
    <2>1. n - i \in Nat /\ n - i < n /\ n - (n - i) = i
      OBVIOUS
    <2>2. n - i \in S
      BY <1>5, <2>1
    <2>3. s[i] <= i
      BY <2>1, <2>2 DEF S
    <2> QED BY <1>1, <2>3
  <1>7. PICK r : r = [u \in 1..n |-> u]
    OBVIOUS
  <1>8. r \in Seq(Nat) /\ Len(r) = n
    BY <1>7
  <1>9. \A i \in 1..n : r[i] = s[i]
    BY <1>6, <1>7
  <1>10. r = s
    BY <1>8, <1>9, SeqEqual
  <1> QED BY <1>7, <1>10

\* What follows an increasing sequence and increases itself continues it.
LEMMA IncreasingConcat ==
    ASSUME NEW s \in Seq(Nat), NEW t \in Seq(Nat), Increasing(s), Increasing(t),
           \A i \in 1..Len(s), j \in 1..Len(t) : s[i] < t[j]
    PROVE  Increasing(s \o t)
  <1>1. PICK a \in Nat : a = Len(s)
    OBVIOUS
  <1>2. PICK b \in Nat : b = Len(t)
    OBVIOUS
  <1>3. Len(s \o t) = a + b /\ \A i \in 1..(a + b) : (s \o t)[i] = IF i <= a THEN s[i] ELSE t[i - a]
    BY <1>1, <1>2, ConcatProperties
  <1>4. ASSUME NEW i \in 1..(a + b), NEW j \in 1..(a + b), i < j PROVE (s \o t)[i] < (s \o t)[j]
    <2>1. CASE j <= a
      <3>1. i \in 1..a /\ j \in 1..a
        BY <1>4, <2>1
      <3>2. s[i] < s[j]
        BY <1>1, <1>4, <3>1 DEF Increasing
      <3> QED BY <1>3, <3>1, <3>2
    <2>2. CASE i <= a /\ ~(j <= a)
      <3>1. i \in 1..a /\ j - a \in 1..b
        BY <2>2
      <3>2. s[i] < t[j - a]
        BY <1>1, <1>2, <3>1
      <3> QED BY <1>3, <2>2, <3>2
    <2>3. CASE ~(i <= a)
      <3>1. i - a \in 1..b /\ j - a \in 1..b /\ i - a < j - a /\ ~(j <= a)
        BY <1>4, <2>3
      <3>2. t[i - a] < t[j - a]
        BY <1>2, <3>1 DEF Increasing
      <3> QED BY <1>3, <2>3, <3>1, <3>2
    <2> QED BY <2>1, <2>2, <2>3
  <1> QED BY <1>3, <1>4 DEF Increasing

\* A sequence of positions followed by another one.
LEMMA Joined ==
    ASSUME NEW s \in Seq(Nat), NEW t \in Seq(Nat), NEW c, c = s \o t
    PROVE  /\ c \in Seq(Nat) /\ Len(c) = Len(s) + Len(t)
           /\ \A i \in 1..(Len(s) + Len(t)) : c[i] = IF i <= Len(s) THEN s[i] ELSE t[i - Len(s)]
  BY ConcatProperties

LEMMA Associative ==
    ASSUME NEW s \in Seq(Nat), NEW t \in Seq(Nat), NEW r \in Seq(Nat)
    PROVE  (s \o t) \o r = s \o (t \o r)
  <1>1. PICK l \in Nat : l = Len(s)
    OBVIOUS
  <1>2. PICK m \in Nat : m = Len(t)
    OBVIOUS
  <1>3. PICK n \in Nat : n = Len(r)
    OBVIOUS
  <1>4. PICK p \in Seq(Nat) : p = s \o t
    <2>1. s \o t \in Seq(Nat)
      BY ConcatProperties
    <2> QED BY <2>1, Zenon
  <1>5. PICK q \in Seq(Nat) : q = t \o r
    <2>1. t \o r \in Seq(Nat)
      BY ConcatProperties
    <2> QED BY <2>1, Zenon
  <1>6. Len(p) = l + m /\ \A i \in 1..(l + m) : p[i] = IF i <= l THEN s[i] ELSE t[i - l]
    BY <1>1, <1>2, <1>4, Joined
  <1>7. Len(q) = m + n /\ \A i \in 1..(m + n) : q[i] = IF i <= m THEN t[i] ELSE r[i - m]
    BY <1>2, <1>3, <1>5, Joined
  <1>8. PICK a \in Seq(Nat) : a = p \o r
    <2>1. p \o r \in Seq(Nat)
      BY ConcatProperties
    <2> QED BY <2>1, Zenon
  <1>9. PICK b \in Seq(Nat) : b = s \o q
    <2>1. s \o q \in Seq(Nat)
      BY ConcatProperties
    <2> QED BY <2>1, Zenon
  <1>10. Len(a) = (l + m) + n /\ \A i \in 1..((l + m) + n) : a[i] = IF i <= l + m THEN p[i] ELSE r[i - (l + m)]
    <2>1. Len(p) = l + m
      BY ONLY <1>6
    <2>2. Len(a) = Len(p) + Len(r) /\ \A i \in 1..(Len(p) + Len(r)) : a[i] = IF i <= Len(p) THEN p[i] ELSE r[i - Len(p)]
      BY <1>8, Joined
    <2> QED BY <1>3, <2>1, <2>2
  <1>11. Len(b) = l + (m + n) /\ \A i \in 1..(l + (m + n)) : b[i] = IF i <= l THEN s[i] ELSE q[i - l]
    <2>1. Len(q) = m + n
      BY ONLY <1>7
    <2>2. Len(b) = Len(s) + Len(q) /\ \A i \in 1..(Len(s) + Len(q)) : b[i] = IF i <= Len(s) THEN s[i] ELSE q[i - Len(s)]
      BY <1>9, Joined
    <2> QED BY <1>1, <2>1, <2>2
  <1>12. ASSUME NEW i \in 1..((l + m) + n) PROVE a[i] = b[i]
    <2>1. i \in 1..(l + (m + n))
      OBVIOUS
    <2>2. CASE i <= l
      <3>1. i \in 1..(l + m) /\ i <= l + m
        BY <2>2
      <3> QED BY <1>6, <1>10, <1>11, <2>1, <2>2, <3>1
    <2>3. CASE ~(i <= l) /\ i <= l + m
      <3>1. i \in 1..(l + m) /\ i - l \in 1..(m + n) /\ i - l <= m
        BY <2>3
      <3> QED BY <1>6, <1>7, <1>10, <1>11, <2>1, <2>3, <3>1
    <2>4. CASE ~(i <= l + m)
      <3>1. ~(i <= l) /\ i - l \in 1..(m + n) /\ ~(i - l <= m) /\ (i - l) - m = i - (l + m)
        BY <2>4
      <3> QED BY <1>7, <1>10, <1>11, <2>1, <2>4, <3>1
    <2> QED BY <2>2, <2>3, <2>4
  <1>13. Len(a) = Len(b)
    BY <1>10, <1>11
  <1>14. a = b
    BY <1>10, <1>12, <1>13, SeqEqual
  <1> QED BY <1>4, <1>5, <1>8, <1>9, <1>14

\* The parts of an increasing sequence within a range.
LEMMA ConcatParts ==
    ASSUME NEW s \in Seq(Nat), NEW t \in Seq(Nat)
    PROVE  /\ Increasing(s \o t) => Increasing(s)
           /\ \A n : Within(s \o t, n) <=> Within(s, n) /\ Within(t, n)
  <1>1. PICK a \in Nat : a = Len(s)
    OBVIOUS
  <1>2. PICK b \in Nat : b = Len(t)
    OBVIOUS
  <1>3. Len(s \o t) = a + b /\ \A i \in 1..(a + b) : (s \o t)[i] = IF i <= a THEN s[i] ELSE t[i - a]
    BY <1>1, <1>2, ConcatProperties
  <1>4. \A i \in 1..a : i \in 1..(a + b) /\ (s \o t)[i] = s[i]
    BY <1>3
  <1>5. ASSUME NEW i \in 1..b PROVE i + a \in 1..(a + b) /\ (s \o t)[i + a] = t[i]
    <2>1. i + a \in 1..(a + b) /\ ~(i + a <= a) /\ (i + a) - a = i
      OBVIOUS
    <2> QED BY <1>3, <2>1
  <1>6. Increasing(s \o t) => Increasing(s)
    BY <1>1, <1>3, <1>4 DEF Increasing
  <1>7. ASSUME NEW n, Within(s \o t, n) PROVE Within(s, n) /\ Within(t, n)
    BY <1>1, <1>2, <1>3, <1>4, <1>5, <1>7 DEF Within
  <1>8. ASSUME NEW n, Within(s, n), Within(t, n) PROVE Within(s \o t, n)
    <2>1. ASSUME NEW i \in 1..(a + b) PROVE (s \o t)[i] \in 1..n
      <3>1. CASE i <= a
        <4>1. i \in 1..a
          BY <3>1
        <4> QED BY <1>1, <1>4, <1>8, <4>1 DEF Within
      <3>2. CASE ~(i <= a)
        <4>1. i - a \in 1..b
          BY <3>2
        <4> QED BY <1>2, <1>3, <1>8, <3>2, <4>1 DEF Within
      <3> QED BY <3>1, <3>2
    <2> QED BY <1>3, <2>1 DEF Within
  <1> QED BY <1>6, <1>7, <1>8

\* q is P in order.
Sorts(q, P) ==
    /\ q \in [1..Cardinality(P) -> P]
    /\ ToSet(q) = P
    /\ \A i, j \in DOMAIN q : i < j => q[i] < q[j]

\* A set with one more number, a larger one, can be put in order too.
LEMMA SortsOneMore ==
    ASSUME NEW A \in SUBSET Nat, IsFiniteSet(A), NEW n \in Nat, \A a \in A : a < n, NEW q, Sorts(q, A)
    PROVE  \E f : Sorts(f, A \cup {n})
  <1>1. PICK c \in Nat : c = Cardinality(A) /\ Cardinality(A \cup {n}) = c + 1
    <2>1. n \notin A
      OBVIOUS
    <2>2. Cardinality(A) \in Nat /\ Cardinality(A \cup {n}) = Cardinality(A) + 1
      BY <2>1, FS_AddElement, FS_CardinalityType
    <2> QED BY <2>2
  <1>2. q \in [1..c -> A] /\ {q[i] : i \in 1..c} = A /\ \A i, j \in 1..c : i < j => q[i] < q[j]
    BY <1>1 DEF Sorts, ToSet
  <1>3. PICK f : f = [i \in 1..(c + 1) |-> IF i = c + 1 THEN n ELSE q[i]]
    OBVIOUS
  <1>4. \A i \in 1..c : i \in 1..(c + 1) /\ i # c + 1
    OBVIOUS
  <1>5. c + 1 \in 1..(c + 1) /\ \A i \in 1..(c + 1) : i # c + 1 => i \in 1..c
    OBVIOUS
  <1>6. f[c + 1] = n /\ \A i \in 1..c : f[i] = q[i]
    BY <1>3, <1>4, <1>5
  <1>7. f \in [1..(c + 1) -> A \cup {n}] /\ DOMAIN f = 1..(c + 1)
    BY <1>2, <1>3, <1>5
  <1>8. ToSet(f) = A \cup {n}
    <2>1. ASSUME NEW x \in A PROVE \E i \in 1..(c + 1) : x = f[i]
      <3>1. PICK i \in 1..c : x = q[i]
        BY <1>2
      <3> QED BY <1>4, <1>6, <3>1
    <2>2. ASSUME NEW i \in 1..(c + 1) PROVE f[i] \in A \cup {n}
      BY <1>7
    <2>3. \E i \in 1..(c + 1) : n = f[i]
      BY <1>5, <1>6
    <2> QED BY <1>7, <2>1, <2>2, <2>3 DEF ToSet
  <1>9. ASSUME NEW i \in 1..(c + 1), NEW j \in 1..(c + 1), i < j
        PROVE  f[i] < f[j]
    <2>1. i # c + 1 /\ i \in 1..c
      BY <1>9
    <2>2. CASE j = c + 1
      BY <1>2, <1>6, <2>1, <2>2
    <2>3. CASE j # c + 1
      <3>1. j \in 1..c
        BY <1>5, <2>3
      <3> QED BY <1>2, <1>6, <1>9, <2>1, <3>1
    <2> QED BY <2>2, <2>3
  <1>10. Sorts(f, A \cup {n})
    BY <1>1, <1>7, <1>8, <1>9 DEF Sorts
  <1> QED BY <1>10

\* Every set of segments can be put in order.
LEMMA SortsExist ==
    ASSUME NEW m \in Nat, NEW P \in SUBSET (1..m)
    PROVE  \E q : Sorts(q, P)
  <1> DEFINE S == {n \in Nat : \E q : Sorts(q, P \cap (1..n))}
  <1>1. 0 \in S
    <2>1. P \cap (1..0) = {} /\ Cardinality({}) = 0
      BY FS_EmptySet
    <2>2. ToSet(<<>>) = {}
      BY DEF ToSet
    <2>3. Sorts(<<>>, {})
      BY <2>1, <2>2 DEF Sorts
    <2> QED BY <2>1, <2>3
  <1>2. ASSUME NEW n \in Nat, n \in S PROVE n + 1 \in S
    <2>1. PICK q : Sorts(q, P \cap (1..n))
      BY <1>2
    <2> SUFFICES \E f : Sorts(f, P \cap (1..(n + 1)))
      OBVIOUS
    <2> HIDE DEF S
    <2>2. CASE n + 1 \notin P
      <3>1. P \cap (1..(n + 1)) = P \cap (1..n)
        <4>1. \A x \in P : x \in 1..(n + 1) <=> x \in 1..n
          BY <2>2
        <4> QED BY <4>1
      <3> QED BY <2>1, <3>1
    <2>3. CASE n + 1 \in P
      <3>1. P \cap (1..(n + 1)) = (P \cap (1..n)) \cup {n + 1}
        <4>1. \A x \in P : x \in 1..(n + 1) <=> x \in 1..n \/ x = n + 1
          OBVIOUS
        <4> QED BY <2>3, <4>1
      <3>2. PICK A : A = P \cap (1..n)
        OBVIOUS
      <3>3. A \in SUBSET Nat /\ (\A a \in A : a < n + 1)
        BY <3>2
      <3>4. IsFiniteSet(A)
        <4>1. IsFiniteSet(1..n) /\ A \subseteq 1..n
          BY <3>2, FS_Interval
        <4> QED BY <4>1, FS_Subset
      <3>5. \E f : Sorts(f, A \cup {n + 1})
        <4>1. n + 1 \in Nat
          OBVIOUS
        <4> QED BY <2>1, <3>2, <3>3, <3>4, <4>1, SortsOneMore
      <3> QED BY <3>1, <3>2, <3>5
    <2> QED BY <2>2, <2>3
  <1> HIDE DEF S
  <1>3. m \in S
    BY <1>1, <1>2, Induction
  <1>4. P \cap (1..m) = P
    OBVIOUS
  <1> QED BY <1>3, <1>4 DEF S

\* Sorted puts the answers in the order of their segments.
LEMMA SortedFacts ==
    ASSUME NEW m \in Nat, NEW s \in Seq(1..m)
    PROVE  Sorted(s) \in Seq(1..m) /\ Increasing(Sorted(s))
  <1>1. PICK P \in SUBSET (1..m) : P = ToSet(s)
    <2>1. \A i \in DOMAIN s : s[i] \in 1..m
      BY ElementOfSeq
    <2>2. ToSet(s) \subseteq 1..m
      BY <2>1 DEF ToSet
    <2> QED BY <2>2
  <1>2. PICK c \in Nat : c = Cardinality(P)
    <2>1. IsFiniteSet(1..m)
      BY FS_Interval
    <2>2. Cardinality(P) \in Nat
      BY <2>1, FS_Subset, FS_CardinalityType
    <2> QED BY <2>2
  <1>3. \E q \in [1..Cardinality(P) -> P] : ToSet(q) = P /\ \A i, j \in DOMAIN q : i < j => q[i] < q[j]
    BY SortsExist DEF Sorts
  <1>4. PICK q : q = Sorted(s)
    OBVIOUS
  <1>5. q \in [1..Cardinality(P) -> P] /\ ToSet(q) = P /\ \A i, j \in DOMAIN q : i < j => q[i] < q[j]
    BY <1>1, <1>3, <1>4, Zenon DEF Sorted
  <1>6. q \in [1..c -> 1..m] /\ DOMAIN q = 1..c
    BY <1>2, <1>5
  <1>7. q \in Seq(1..m) /\ Len(q) = c
    BY <1>6
  <1> QED BY <1>4, <1>5, <1>6, <1>7 DEF Increasing

-----------------------------------------------------------------------------
(* The range and its segments *)

LEMMA RangeFacts ==
    ASSUME sizes \in Seq(Nat)
    PROVE  /\ Total \in Nat
           /\ \A i \in 1..(Len(sizes) + 1) : Before(i) \in Nat /\ Before(i) <= Total
           /\ \A i \in Segments : Before(i + 1) = Before(i) + sizes[i] /\ sizes[i] \in Nat
           /\ \A i, j \in 1..(Len(sizes) + 1) : i <= j => Before(i) <= Before(j)
  <1>1. PICK n \in Nat : n = Len(sizes)
    OBVIOUS
  <1>2. PICK f : f = Offsets(sizes)
    OBVIOUS
  <1>3. IsOffsets(f, sizes, n)
    BY <1>1, <1>2, OffsetsFacts
  <1>4. \A i, j \in 1..(n + 1) : i <= j => f[i] <= f[j]
    BY <1>1, <1>3, OffsetsGrow
  <1>5. \A i \in 1..(n + 1) : f[i] \in Nat /\ f[i] <= f[n + 1]
    <2>1. n + 1 \in 1..(n + 1)
      OBVIOUS
    <2>2. f \in [1..(n + 1) -> Nat]
      BY <1>3 DEF IsOffsets
    <2> QED BY <1>4, <2>1, <2>2
  <1>6. \A i \in 1..n : f[i + 1] = f[i] + sizes[i]
    BY <1>3 DEF IsOffsets
  <1>7. \A i \in 1..n : sizes[i] \in Nat
    BY <1>1, ElementOfSeq
  <1>8. Total = f[n + 1] /\ \A i : Before(i) = f[i]
    BY <1>1, <1>2 DEF Total, Before
  <1>9. n + 1 \in 1..(n + 1)
    OBVIOUS
  <1> HIDE DEF Before, Total
  <1> QED BY <1>1, <1>4, <1>5, <1>6, <1>7, <1>8, <1>9 DEF Segments

\* What a segment contributes lies between its beginning and the next one's.
LEMMA DataFacts ==
    ASSUME sizes \in Seq(Nat), NEW i \in Segments
    PROVE  /\ Data(i) \in Seq(Nat) /\ Len(Data(i)) = sizes[i]
           /\ Increasing(Data(i))
           /\ \A u \in 1..Len(Data(i)) : Before(i) < Data(i)[u] /\ Data(i)[u] <= Before(i + 1)
  <1>1. PICK b \in Nat : b = Before(i)
    <2>1. Len(sizes) \in Nat
      OBVIOUS
    <2>2. i \in 1..(Len(sizes) + 1)
      BY <2>1 DEF Segments
    <2> QED BY <2>2, RangeFacts
  <1>2. PICK l \in Nat : l = sizes[i] /\ Before(i + 1) = b + l
    BY <1>1, RangeFacts
  <1>3. PICK d : d = Data(i)
    OBVIOUS
  <1>4. d = [u \in 1..l |-> b + u]
    BY <1>1, <1>2, <1>3 DEF Data
  <1>5. d \in Seq(Nat) /\ Len(d) = l
    BY <1>4
  <1>6. \A u \in 1..l : d[u] = b + u
    BY <1>4
  <1>7. \A u \in 1..l : b < d[u] /\ d[u] <= b + l
    BY <1>6
  <1>8. Increasing(d)
    <2>1. \A u, v \in 1..l : u < v => d[u] < d[v]
      BY <1>6
    <2> QED BY <1>5, <2>1 DEF Increasing
  <1> QED BY <1>1, <1>2, <1>3, <1>5, <1>7, <1>8

\* A shorter one too.
LEMMA ShortFacts ==
    ASSUME NEW s \in Seq(Nat), s # <<>>, Increasing(s)
    PROVE  /\ Short(s) \in Seq(Nat)
           /\ Increasing(Short(s))
           /\ \A u \in 1..Len(Short(s)) : u \in 1..Len(s) /\ Short(s)[u] = s[u]
  <1>1. PICK l \in Nat : Len(s) = l + 1
    <2>1. Len(s) # 0 /\ Len(s) \in Nat
      BY EmptySeq
    <2>2. Len(s) - 1 \in Nat /\ Len(s) = (Len(s) - 1) + 1
      BY <2>1
    <2> QED BY <2>2
  <1>2. PICK t : t = SubSeq(s, 1, l)
    OBVIOUS
  <1>3. t \in Seq(Nat) /\ Len(t) = l /\ \A u \in 1..l : t[u] = s[u]
    BY <1>1, <1>2
  <1>4. t = Short(s)
    BY <1>1, <1>2 DEF Short
  <1>5. \A u \in 1..l : u \in 1..Len(s)
    BY <1>1
  <1> QED BY <1>3, <1>4, <1>5 DEF Increasing

\* Every part of the stream is a sequence of positions.
LEMMA StreamTypes ==
    ASSUME TypeOK
    PROVE  /\ Queued \in Seq(Nat) /\ Held \in Seq(Nat) /\ Ahead \in Seq(Nat)
           /\ out \o buf \in Seq(Nat) /\ Stream \in Seq(Nat)
           /\ chan # <<>> => Len(chan) = 1 /\ chan[1] \in Result
  <1>1. chan # <<>> => Len(chan) = 1 /\ chan[1] \in Result
    <2>1. chan \in Seq(Result) /\ Len(chan) <= 1 /\ Len(chan) \in Nat
      BY DEF TypeOK
    <2>2. chan # <<>> => Len(chan) = 1
      BY <2>1, EmptySeq
    <2> QED BY <2>1, <2>2, ElementOfSeq
  <1>2. Queued \in Seq(Nat)
    BY <1>1 DEF Queued, Result
  <1>3. Held \in Seq(Nat)
    BY DEF TypeOK, Held, Result
  <1>4. Ahead \in Seq(Nat)
    BY <1>2, <1>3 DEF Ahead
  <1>5. out \o buf \in Seq(Nat)
    BY DEF TypeOK
  <1> QED BY <1>1, <1>2, <1>3, <1>4, <1>5 DEF Stream

\* What was read and is buffered is part of the range, in order; what was read
\* is the range once it is as long.
LEMMA Counted ==
    ASSUME TypeOK, Increasing(Stream), Within(Stream, Total)
    PROVE  /\ Increasing(out) /\ Total \in Nat
           /\ Len(out) + Len(buf) <= Total
           /\ out = All <=> Len(out) = Total
  <1>1. out \in Seq(Nat) /\ buf \in Seq(Nat) /\ sizes \in Seq(Nat) /\ Total \in Nat
    BY RangeFacts DEF TypeOK
  <1>2. PICK s \in Seq(Nat) : s = out \o buf
    BY StreamTypes
  <1>3. Increasing(s) /\ Within(s, Total)
    <2>1. Ahead \in Seq(Nat) /\ Stream = s \o Ahead
      BY <1>2, StreamTypes DEF Stream
    <2> QED BY <2>1, ConcatParts
  <1>4. Len(s) <= Total
    BY <1>1, <1>3, IncreasingFits
  <1>5. Len(s) = Len(out) + Len(buf)
    BY <1>1, <1>2, ConcatProperties
  <1>6. Increasing(out) /\ Within(out, Total)
    BY <1>1, <1>2, <1>3, ConcatParts
  <1>7. Len(out) = Total => out = All
    BY <1>1, <1>6, IncreasingIsAll DEF All
  <1>8. out = All => Len(out) = Total
    <2>1. PICK n \in Nat : n = Total
      BY <1>1
    <2>2. Len([u \in 1..n |-> u]) = n
      OBVIOUS
    <2> QED BY <2>1, <2>2 DEF All
  <1> QED BY <1>1, <1>4, <1>5, <1>6, <1>7, <1>8

-----------------------------------------------------------------------------
(* Types *)

\* The next segment to fetch is one of the listed ones.
LEMMA NextToFetch ==
    ASSUME TypeOK, ToFetch # {}
    PROVE  (CHOOSE i \in ToFetch : \A j \in ToFetch : i <= j) \in Segments
  <1>1. ToFetch \subseteq Segments /\ ToFetch \subseteq Nat
    BY DEF TypeOK, ToFetch, Segments
  <1>2. \E i \in ToFetch : \A j \in ToFetch : i <= j
    BY <1>1, LeastNat
  <1>3. (CHOOSE i \in ToFetch : \A j \in ToFetch : i <= j) \in ToFetch
    BY <1>2, Zenon
  <1> QED BY <1>1, <1>3

\* The empty channel.
LEMMA NoResult ==
    ASSUME NEW c, c = <<>>
    PROVE  c \in Seq(Result) /\ Len(c) <= 1
  OBVIOUS

LEMMA TypeStep ==
    ASSUME TypeOK, [StreamNext]_streamVars
    PROVE  TypeOK'
  <1>1. sizes' = sizes
    BY DEF StreamNext, streamVars, answers, producer, handle, owner, ListPage, FetchAnswer, CallFails, Open, OpenEmpty, Fetched, Sent,
           ProducerFinishes, ProducerDies, ProducerAborted, Read, Deliver, ReadEnd, Receive,
           ReceiveErr, ReceiveNone, Close, Closed
  <1>2. Segments' = Segments /\ Len(sizes') = Len(sizes)
    BY <1>1 DEF Segments
  <1>3. CASE ListPage
    <2>1. listed' \in 0..Len(sizes)
      BY <1>3 DEF ListPage, TypeOK
    <2>2. more' \in BOOLEAN
      BY <1>3 DEF ListPage
    <2> QED BY <1>1, <1>2, <1>3, <2>1, <2>2 DEF ListPage, TypeOK, producer, handle, owner
  <1>4. CASE FetchAnswer
    <2>1. downloaded' \in Seq(Segments)
      BY <1>4, NextToFetch DEF FetchAnswer, TypeOK
    <2> QED BY <1>1, <1>2, <1>4, <2>1 DEF FetchAnswer, TypeOK, producer, handle, owner
  <1>5. CASE CallFails
    BY <1>1, <1>2, <1>5 DEF CallFails, TypeOK, answers, producer, handle, owner
  <1>6. CASE Open
    <2>1. downloaded' \in Seq(Segments)
      BY <1>6, SortedFacts DEF Open, TypeOK, Segments
    <2> QED BY <1>1, <1>2, <1>6, <2>1 DEF Open, TypeOK, owner
  <1>7. CASE OpenEmpty
    BY <1>1, <1>2, <1>7 DEF OpenEmpty, TypeOK, answers, producer, owner
  <1>8. CASE Fetched
    <2>1. PICK i \in Segments : i = downloaded[at]
      <3>1. at \in 1..Len(downloaded) /\ downloaded \in Seq(Segments)
        BY <1>8 DEF Fetched, TypeOK
      <3> QED BY <3>1, ElementOfSeq
    <2>2. Data(i) \in Seq(Nat) /\ Increasing(Data(i))
      BY DataFacts DEF TypeOK
    <2>3. Data(i) # <<>> => Short(Data(i)) \in Seq(Nat)
      BY <2>2, ShortFacts
    <2>4. result' \in Result
      <3>1. PICK d \in Seq(Nat) : d = Data(i)
        BY <2>2
      <3>2. \/ result' = [ok |-> TRUE, data |-> d]
            \/ d # <<>> /\ result' = [ok |-> TRUE, data |-> Short(d)]
            \/ result' = [ok |-> FALSE, data |-> <<>>]
        BY <1>8, <2>1, <3>1 DEF Fetched
      <3>3. d # <<>> => Short(d) \in Seq(Nat)
        BY <2>3, <3>1
      <3>4. <<>> \in Seq(Nat)
        OBVIOUS
      <3>5. \A x \in Seq(Nat), b \in BOOLEAN : [ok |-> b, data |-> x] \in Result
        BY DEF Result
      <3> QED BY <3>1, <3>2, <3>3, <3>4, <3>5, Zenon
    <2> QED BY <1>1, <1>2, <1>8, <2>4 DEF Fetched, TypeOK, answers, handle, owner
  <1>9. CASE Sent
    <2>1. prod' \in {"fetching", "done"}
      BY <1>9 DEF Sent, AfterSend
    <2>2. chan' \in Seq(Result) /\ Len(chan') <= 1 /\ at' \in Nat \ {0}
      <3>1. CASE rx
        <4>1. result \in Result /\ chan' = <<result>> /\ at' = at + 1
          BY <1>9, <3>1 DEF Sent, TypeOK
        <4>2. <<result>> \in Seq(Result) /\ Len(<<result>>) = 1
          BY <4>1
        <4> QED BY <4>1, <4>2 DEF TypeOK
      <3>2. CASE ~rx
        BY <1>9, <3>2 DEF Sent, TypeOK
      <3> QED BY <3>1, <3>2
    <2> QED BY <1>1, <1>2, <1>9, <2>1, <2>2 DEF Sent, TypeOK, answers, handle, owner
  <1>10. CASE ProducerFinishes
    BY <1>1, <1>2, <1>10 DEF ProducerFinishes, TypeOK, answers, handle, owner
  <1>11. CASE ProducerDies
    BY <1>1, <1>2, <1>11 DEF ProducerDies, TypeOK, answers, handle, owner
  <1>12. CASE ProducerAborted
    BY <1>1, <1>2, <1>12 DEF ProducerAborted, TypeOK, answers, handle, owner
  <1>13. ASSUME NEW n \in 1..MaxRead, Read(n) PROVE TypeOK'
    <2>1. want' \in Nat
      BY <1>13, DownloadStreamAssumption DEF Read
    <2> QED BY <1>1, <1>2, <1>13, <2>1 DEF Read, TypeOK, answers, producer, owner
  <1>14. CASE Deliver
    <2>1. PICK n \in Nat : /\ n = (IF want < Len(buf) THEN want ELSE Len(buf))
                           /\ n <= Len(buf)
      <3>1. want \in Nat /\ Len(buf) \in Nat
        BY DEF TypeOK
      <3> QED BY ONLY <3>1
    <2>2. SubSeq(buf, 1, n) \in Seq(Nat) /\ SubSeq(buf, n + 1, Len(buf)) \in Seq(Nat)
      <3>1. buf \in Seq(Nat) /\ n \in Nat /\ n <= Len(buf)
        BY <2>1 DEF TypeOK
      <3> QED BY ONLY <3>1
    <2>3. out' \in Seq(Nat) /\ buf' \in Seq(Nat)
      BY <1>14, <2>1, <2>2 DEF Deliver, TypeOK
    <2>4. complete' \in BOOLEAN
      <3>1. complete' = (complete \/ (buf' = <<>> /\ remaining = 0))
        BY <1>14 DEF Deliver, CompleteAfter
      <3> QED BY <3>1
    <2>5. want' = 0 /\ returned' = "data" /\ failed' \in BOOLEAN
      BY <1>14 DEF Deliver, ReadReturns
    <2> QED BY <1>1, <1>2, <1>14, <2>3, <2>4, <2>5 DEF Deliver, TypeOK, answers, producer
  <1>15. CASE ReadEnd
    BY <1>1, <1>2, <1>15 DEF ReadEnd, ReadReturns, TypeOK, answers, producer
  <1>16. CASE Receive
    <2>1. chan[1] \in Result
      BY <1>16, StreamTypes DEF Receive
    <2>2. buf' \in Seq(Nat) /\ remaining' \in Int
      BY <1>16, <2>1 DEF Receive, Result, TypeOK
    <2>3. chan' \in Seq(Result) /\ Len(chan') <= 1
      BY <1>16 DEF Receive
    <2> QED BY <1>1, <1>2, <1>16, <2>2, <2>3 DEF Receive, TypeOK, answers, producer, owner
  <1>17. CASE ReceiveErr
    <2>1. events' \in Reports
      <3>1. events' = events \/ events' = <<"error">>
        BY <1>17 DEF ReceiveErr, ReceiveNone, Finish
      <3> QED BY <3>1 DEF TypeOK, Reports
    <2>2. rx' = FALSE /\ chan' = <<>>
      BY <1>17 DEF ReceiveErr, Cancel
    <2>3. want' = 0 /\ returned' = "error" /\ failed' \in BOOLEAN
      BY <1>17 DEF ReceiveErr, ReadReturns
    <2>4. chan' \in Seq(Result) /\ Len(chan') <= 1
      BY <2>2, NoResult
    <2>5. UNCHANGED <<stage, listed, more, downloaded, prod, at, result, buf, remaining, complete, out>>
      BY <1>17 DEF ReceiveErr, answers, producer
    <2> QED BY <1>1, <1>2, <2>1, <2>2, <2>3, <2>4, <2>5 DEF TypeOK
  <1>18. CASE ReceiveNone
    <2>1. events' \in Reports
      <3>1. events' = events \/ events' = <<"error">>
        BY <1>18 DEF ReceiveErr, ReceiveNone, Finish
      <3> QED BY <3>1 DEF TypeOK, Reports
    <2>2. rx' = FALSE /\ chan' = <<>>
      BY <1>18 DEF ReceiveNone, Cancel
    <2>3. want' = 0 /\ returned' \in {"eof", "error"} /\ failed' \in BOOLEAN /\ complete' \in {complete, TRUE}
      BY <1>18 DEF ReceiveNone, ReadReturns
    <2>4. chan' \in Seq(Result) /\ Len(chan') <= 1
      BY <2>2, NoResult
    <2>5. UNCHANGED <<stage, listed, more, downloaded, prod, at, result, buf, remaining, out>>
      BY <1>18 DEF ReceiveNone, answers, producer
    <2> QED BY <1>1, <1>2, <2>1, <2>2, <2>3, <2>4, <2>5 DEF TypeOK
  <1>19. CASE Close
    <2>1. events' \in Reports
      <3>1. events' = events \/ events' = <<"success">> \/ events' = <<"cancelled">>
        BY <1>19 DEF Close, Finish, DropOutcome
      <3> QED BY <3>1 DEF TypeOK, Reports
    <2>2. rx' = FALSE /\ chan' = <<>> /\ want' = 0
      BY <1>19 DEF Close, Cancel
    <2>3. chan' \in Seq(Result) /\ Len(chan') <= 1
      BY <2>2, NoResult
    <2>4. /\ stage' = "closed"
          /\ UNCHANGED <<listed, more, downloaded, prod, at, result, buf, remaining, complete, out, returned, failed>>
      BY <1>19 DEF Close, answers, producer, owner
    <2> QED BY <1>1, <1>2, <2>1, <2>2, <2>3, <2>4 DEF TypeOK
  <1>20. CASE Closed \/ UNCHANGED streamVars
    BY <1>1, <1>2, <1>20 DEF Closed, streamVars, answers, producer, handle, owner, TypeOK
  <1> QED BY <1>3, <1>4, <1>5, <1>6, <1>7, <1>8, <1>9, <1>10, <1>11, <1>12, <1>13, <1>14, <1>15,
             <1>16, <1>17, <1>18, <1>19, <1>20 DEF StreamNext

-----------------------------------------------------------------------------
(* The stream *)

\* Flow is kept by a step that cuts the stream at its end, or leaves it alone.
LEMMA FlowCut ==
    ASSUME TypeOK, TypeOK', Flow, sizes' = sizes,
           Running' => Running /\ downloaded' = downloaded,
           rx' /\ Running' => rx /\ NextAt' = NextAt,
           NEW t \in Seq(Nat), Stream = Stream' \o t
    PROVE  Flow'
  <1>1. PICK s \in Seq(Nat) : s = Stream
    BY StreamTypes
  <1>2. PICK r \in Seq(Nat) : r = Stream'
    <2>1. (Stream \in Seq(Nat))'
      BY StreamTypes, PTL
    <2> QED BY <2>1
  <1>3. s = r \o t
    BY <1>1, <1>2
  <1>4. Increasing(r) /\ \A n : Within(s, n) => Within(r, n)
    BY <1>1, <1>3, ConcatParts DEF Flow
  <1>5. Total' = Total /\ \A i : Before(i)' = Before(i)
    BY DEF Total, Before
  <1>6. Increasing(Stream)' /\ Within(Stream, Total)'
    <2>1. Within(r, Total)
      BY <1>1, <1>4 DEF Flow
    <2> QED BY <1>2, <1>4, <1>5, <2>1 DEF Increasing, Within
  <1>7. Running' => Increasing(downloaded)'
    BY DEF Flow, Increasing
  <1>8. ASSUME rx', Running', NEW j \in (NextAt..Len(downloaded))'
        PROVE  Within(Stream, Before(downloaded[j]))'
    <2>1. Within(s, Before(downloaded[j]))
      BY <1>1, <1>8 DEF Flow
    <2>2. Within(r, Before(downloaded[j]))
      BY <1>4, <2>1
    <2>3. Before(downloaded[j])' = Before(downloaded[j])
      BY <1>8 DEF Before
    <2> QED BY <1>2, <2>2, <2>3 DEF Within
  <1> QED BY <1>6, <1>7, <1>8 DEF Flow

LEMMA FlowSame ==
    ASSUME TypeOK, TypeOK', Flow, sizes' = sizes,
           Running' => Running /\ downloaded' = downloaded,
           rx' /\ Running' => rx /\ NextAt' = NextAt,
           Stream' = Stream
    PROVE  Flow'
  <1>1. Stream \in Seq(Nat) /\ <<>> \in Seq(Nat)
    BY StreamTypes
  <1>2. Stream = Stream' \o <<>>
    BY <1>1, ConcatEmptySeq
  <1> QED BY <1>1, <1>2, FlowCut

\* A read hands out the first units of the buffer.
LEMMA DeliverKeeps ==
    ASSUME TypeOK, Deliver
    PROVE  out' \o buf' = out \o buf
  <1>1. PICK b \in Seq(Nat) : b = buf
    BY DEF TypeOK
  <1>2. PICK o \in Seq(Nat) : o = out
    BY DEF TypeOK
  <1>3. PICK n \in Nat : n = (IF want < Len(b) THEN want ELSE Len(b)) /\ n <= Len(b)
    <2>1. want \in Nat /\ Len(b) \in Nat
      BY DEF TypeOK
    <2> QED BY ONLY <2>1
  <1>4. PICK p : p = SubSeq(b, 1, n)
    OBVIOUS
  <1>5. PICK q : q = SubSeq(b, n + 1, Len(b))
    OBVIOUS
  <1>6. out' = o \o p /\ buf' = q
    BY <1>1, <1>2, <1>3, <1>4, <1>5 DEF Deliver
  <1>7. p \in Seq(Nat) /\ q \in Seq(Nat)
    BY <1>3, <1>4, <1>5
  <1>8. p \o q = b
    <2>1. 1 \in 1..(Len(b) + 1) /\ n \in (1 - 1)..Len(b) /\ Len(b) \in n..Len(b)
      BY <1>3
    <2>2. p \o q = SubSeq(b, 1, Len(b))
      BY <1>4, <1>5, <2>1, ConcatAdjacentSubSeq
    <2>3. SubSeq(b, 1, Len(b)) = b
      BY SubSeqFull
    <2> QED BY <2>2, <2>3
  <1>9. (o \o p) \o q = o \o (p \o q)
    BY <1>7, Associative
  <1> QED BY <1>1, <1>2, <1>6, <1>8, <1>9

\* Whatever comes of a segment lies between its beginning and the next one's.
LEMMA FetchedData ==
    ASSUME TypeOK, Fetched
    PROVE  /\ at \in 1..Len(downloaded) /\ downloaded[at] \in Segments
           /\ result'.data \in Seq(Nat)
           /\ Increasing(result'.data)
           /\ \A u \in 1..Len(result'.data) : /\ Before(downloaded[at]) < result'.data[u]
                                              /\ result'.data[u] <= Before(downloaded[at] + 1)
  <1>1. at \in 1..Len(downloaded) /\ downloaded \in Seq(Segments)
    BY DEF Fetched, TypeOK
  <1>2. PICK i \in Segments : i = downloaded[at]
    BY <1>1, ElementOfSeq
  <1>3. PICK d : d = Data(i)
    OBVIOUS
  <1>4. /\ d \in Seq(Nat) /\ Increasing(d)
        /\ \A u \in 1..Len(d) : Before(i) < d[u] /\ d[u] <= Before(i + 1)
    BY <1>3, DataFacts DEF TypeOK
  <1>5. \/ result'.data = d
        \/ d # <<>> /\ result'.data = Short(d)
        \/ result'.data = <<>>
    BY <1>2, <1>3 DEF Fetched
  <1>6. CASE result'.data = d
    BY <1>1, <1>2, <1>4, <1>6
  <1>7. CASE d # <<>> /\ result'.data = Short(d)
    <2>1. /\ Short(d) \in Seq(Nat) /\ Increasing(Short(d))
          /\ \A u \in 1..Len(Short(d)) : u \in 1..Len(d) /\ Short(d)[u] = d[u]
      BY <1>4, <1>7, ShortFacts
    <2> QED BY <1>1, <1>2, <1>4, <1>7, <2>1
  <1>8. CASE result'.data = <<>>
    <2>1. PICK e : e = result'.data
      OBVIOUS
    <2>2. e \in Seq(Nat) /\ Len(e) = 0
      BY <1>8, <2>1
    <2>3. \A u \in 1..Len(e) : FALSE
      BY <2>2
    <2>4. Increasing(e)
      BY <2>3 DEF Increasing
    <2> QED BY <1>1, <1>2, <2>1, <2>2, <2>3, <2>4
  <1> QED BY <1>5, <1>6, <1>7, <1>8

\* A fetched segment continues the stream.
LEMMA FetchedFlow ==
    ASSUME TypeOK, TypeOK', Flow, Fetched
    PROVE  Flow'
  <1>1. /\ prod = "fetching" /\ prod' = "sending" /\ Running /\ Running'
        /\ sizes' = sizes /\ downloaded' = downloaded /\ at' = at /\ chan' = chan /\ rx' = rx
        /\ out' = out /\ buf' = buf
    BY DEF Fetched, Running, answers, handle, owner
  <1>2. CASE ~rx
    <2>1. Stream' = Stream /\ ~rx'
      BY <1>1, <1>2 DEF Stream, Ahead
    <2> QED BY <1>1, <2>1, FlowSame
  <1>3. CASE rx
    <2>1. PICK s \in Seq(Nat) : s = Stream
      BY StreamTypes
    <2>2. PICK d \in Seq(Nat) : d = result'.data
      BY FetchedData
    <2>3. PICK i \in Segments : i = downloaded[at] /\ at \in 1..Len(downloaded)
      BY FetchedData
    <2>4. Increasing(d) /\ \A u \in 1..Len(d) : Before(i) < d[u] /\ d[u] <= Before(i + 1)
      BY <2>2, <2>3, FetchedData
    <2>5. Stream' = s \o d
      <3>1. PICK a \in Seq(Nat) : a = out \o buf
        BY StreamTypes
      <3>2. PICK q \in Seq(Nat) : q = Queued
        BY StreamTypes
      <3>3. Queued' = q /\ Held = <<>> /\ Held' = d
        BY <1>1, <2>2, <3>2 DEF Queued, Held
      <3>4. Ahead = q /\ Ahead' = q \o d
        BY <1>1, <1>3, <3>2, <3>3, ConcatEmptySeq DEF Ahead
      <3>5. s = a \o q /\ Stream' = a \o (q \o d)
        BY <1>1, <2>1, <3>1, <3>4 DEF Stream
      <3>6. (a \o q) \o d = a \o (q \o d)
        BY Associative
      <3> QED BY <3>5, <3>6
    <2>6. PICK l \in Nat : l = Len(sizes) /\ Segments = 1..l
      BY DEF TypeOK, Segments
    <2>7. PICK b \in Nat : b = Before(i)
      <3>1. i \in 1..(Len(sizes) + 1)
        BY ONLY <2>6, i \in Segments
      <3> QED BY <3>1, RangeFacts DEF TypeOK
    <2>8. PICK e \in Nat : e = Before(i + 1) /\ e <= Total /\ Total \in Nat
      <3>1. i + 1 \in 1..(Len(sizes) + 1)
        BY ONLY <2>6, i \in Segments
      <3> QED BY <3>1, RangeFacts DEF TypeOK
    <2>9. \A u \in 1..Len(d) : d[u] \in Nat /\ b < d[u] /\ d[u] <= e
      BY <2>4, <2>7, <2>8, ElementOfSeq
    <2>10. Within(s, b)
      <3>1. at \in NextAt..Len(downloaded)
        BY <1>1, <2>3 DEF NextAt
      <3> QED BY <1>1, <1>3, <2>1, <2>3, <2>7, <3>1 DEF Flow
    <2>11. Increasing(s \o d)
      <3>1. ASSUME NEW u \in 1..Len(s), NEW v \in 1..Len(d) PROVE s[u] < d[v]
        <4>1. s[u] \in 1..b
          BY <2>10 DEF Within
        <4> QED BY <2>7, <2>9, <4>1
      <3> QED BY <2>1, <2>4, <3>1, IncreasingConcat DEF Flow
    <2>12. Within(s \o d, Total)
      <3>1. Within(d, Total)
        BY <2>7, <2>8, <2>9 DEF Within
      <3> QED BY <2>1, <3>1, ConcatParts DEF Flow
    <2>13. ASSUME NEW j \in (at + 1)..Len(downloaded) PROVE Within(s \o d, Before(downloaded[j]))
      <3>1. at \in 1..Len(downloaded) /\ j \in 1..Len(downloaded) /\ at < j /\ j \in at..Len(downloaded)
        BY <2>3, <2>13 DEF TypeOK
      <3>2. PICK k \in 1..l : k = downloaded[j]
        BY <2>6, <3>1, ElementOfSeq DEF TypeOK
      <3>3. i < k
        BY <1>1, <2>3, <3>1, <3>2 DEF Flow, Increasing
      <3>4. i + 1 \in 1..(l + 1) /\ k \in 1..(l + 1) /\ i + 1 <= k
        BY <2>6, <3>3
      <3>5. PICK f \in Nat : f = Before(k) /\ e <= f
        BY <2>6, <2>8, <3>4, RangeFacts DEF TypeOK
      <3>6. Within(d, f)
        BY <2>7, <2>9, <3>5 DEF Within
      <3>7. Within(s, f)
        BY <1>1, <1>3, <2>1, <3>1, <3>2, <3>5 DEF Flow, NextAt
      <3> QED BY <3>2, <3>5, <3>6, <3>7, ConcatParts
    <2>14. Total' = Total /\ \A x : Before(x)' = Before(x)
      BY <1>1 DEF Total, Before
    <2>15. NextAt' = at + 1
      BY <1>1 DEF NextAt
    <2>16. Increasing(Stream)' /\ Within(Stream, Total)'
      BY <2>5, <2>11, <2>12, <2>14 DEF Increasing, Within
    <2>17. ASSUME NEW j \in (NextAt..Len(downloaded))' PROVE Within(Stream, Before(downloaded[j]))'
      <3>1. j \in (at + 1)..Len(downloaded)
        BY <1>1, <2>15
      <3>2. Within(s \o d, Before(downloaded[j]))
        BY <2>13, <3>1
      <3>3. Before(downloaded[j])' = Before(downloaded[j])
        BY <1>1 DEF Before
      <3> QED BY <2>5, <3>2, <3>3 DEF Within
    <2>18. Increasing(downloaded)'
      BY <1>1 DEF Flow, Increasing
    <2> QED BY <2>16, <2>17, <2>18 DEF Flow
  <1> QED BY <1>2, <1>3 DEF TypeOK

\* The producer is spawned with the answers in order and nothing sent.
LEMMA OpenFlow ==
    ASSUME TypeOK, TypeOK', Phases, Open
    PROVE  Flow'
  <1>1. /\ prod' = "fetching" /\ rx' = TRUE /\ sizes' = sizes /\ at' = at
        /\ out' = <<>> /\ buf' = <<>> /\ chan' = <<>> /\ downloaded' = Sorted(downloaded)
    BY DEF Open, Phases, owner
  <1>2. PICK e \in Seq(Nat) : e = <<>> /\ Len(e) = 0 /\ e \o e = e
    <2>1. PICK e : e = <<>>
      OBVIOUS
    <2>2. e \in Seq(Nat) /\ Len(e) = 0
      BY <2>1
    <2>3. e \o e = e
      BY <2>1, <2>2, ConcatEmptySeq
    <2> QED BY <2>1, <2>2, <2>3
  <1>3. Stream' = e
    BY <1>1, <1>2 DEF Stream, Ahead, Queued, Held
  <1>4. Increasing(downloaded')
    <2>1. Len(sizes) \in Nat /\ downloaded \in Seq(1..Len(sizes))
      BY DEF TypeOK, Segments
    <2> QED BY <1>1, <2>1, SortedFacts
  <1>5. Increasing(e) /\ \A n : Within(e, n)
    BY <1>2 DEF Increasing, Within
  <1>6. Increasing(Stream)' /\ (\A n : Within(Stream', n)) /\ Increasing(downloaded)'
    BY <1>3, <1>4, <1>5 DEF Increasing
  <1>7. Within(Stream, Total)' /\ \A j : Within(Stream, Before(downloaded[j]))'
    BY <1>6 DEF Within
  <1> QED BY <1>6, <1>7 DEF Flow

\* A read that goes on with the next segment.
LEMMA ReceiveKeeps ==
    ASSUME TypeOK, Receive
    PROVE  Stream' = Stream
  <1>1. PICK q \in Seq(Nat) : q = chan[1].data /\ chan # <<>>
    BY StreamTypes DEF Receive, Result
  <1>2. PICK h \in Seq(Nat) : h = Held
    BY StreamTypes
  <1>3. PICK o \in Seq(Nat) : o = out
    BY DEF TypeOK
  <1>4. buf = <<>> /\ rx = TRUE /\ rx' = rx /\ out' = o /\ buf' = q /\ chan' = <<>> /\ Held' = h
    BY <1>1, <1>2, <1>3 DEF Receive, producer, owner, Held, TypeOK
  <1>5. Queued = q /\ Queued' = <<>>
    BY <1>1, <1>4 DEF Queued
  <1>6. Stream = (o \o <<>>) \o (q \o h)
    BY <1>2, <1>3, <1>4, <1>5 DEF Stream, Ahead
  <1>7. Stream' = (o \o q) \o (<<>> \o h)
    BY <1>4, <1>5 DEF Stream, Ahead
  <1>8. o \o <<>> = o /\ <<>> \o h = h
    BY ConcatEmptySeq
  <1>9. (o \o q) \o h = o \o (q \o h)
    BY Associative
  <1> QED BY <1>6, <1>7, <1>8, <1>9

\* What the producer sends goes from its hands into the empty channel.
LEMMA SentKeeps ==
    ASSUME TypeOK, Sent
    PROVE  Stream' = Stream
  <1>1. /\ prod = "sending" /\ result \in Result
        /\ out' = out /\ buf' = buf /\ rx' = rx /\ prod' \in {"fetching", "done"}
    BY DEF Sent, TypeOK, handle, owner, AfterSend
  <1>2. CASE ~rx
    BY <1>1, <1>2 DEF Stream, Ahead
  <1>3. CASE rx
    <2>1. PICK d \in Seq(Nat) : d = result.data
      BY <1>1 DEF Result
    <2>2. chan = <<>> /\ chan' = <<result>>
      BY <1>3 DEF Sent
    <2>3. chan' # <<>> /\ chan'[1] = result
      BY <2>2
    <2>4. Queued = <<>> /\ Held = d /\ Queued' = d /\ Held' = <<>>
      BY <1>1, <2>1, <2>2, <2>3 DEF Queued, Held
    <2>5. <<>> \o d = d /\ d \o <<>> = d
      BY ConcatEmptySeq
    <2>6. Ahead = d /\ Ahead' = d
      BY <1>1, <1>3, <2>4, <2>5 DEF Ahead
    <2> QED BY <1>1, <2>6 DEF Stream
  <1> QED BY <1>2, <1>3 DEF TypeOK

LEMMA FlowStep ==
    ASSUME TypeOK, TypeOK', Phases, Flow, [StreamNext]_streamVars
    PROVE  Flow'
  <1>1. CASE ListPage \/ FetchAnswer \/ CallFails \/ OpenEmpty
    <2>1. /\ prod = "none" /\ prod' = prod /\ ~rx /\ rx' = rx
          /\ out' = out /\ buf' = buf /\ sizes' = sizes
      BY <1>1 DEF ListPage, FetchAnswer, CallFails, OpenEmpty, Phases, producer, handle, owner
    <2>2. Stream' = Stream /\ ~Running'
      BY <2>1 DEF Stream, Ahead, Running
    <2> QED BY <2>1, <2>2, FlowSame
  <1>2. CASE Open
    BY <1>2, OpenFlow
  <1>3. CASE Fetched
    BY <1>3, FetchedFlow
  <1>4. CASE Sent
    <2>1. /\ prod = "sending" /\ sizes' = sizes /\ downloaded' = downloaded /\ rx' = rx
          /\ prod' \in {"fetching", "done"}
      BY <1>4 DEF Sent, AfterSend, answers, handle
    <2>2. rx' /\ Running' => rx /\ NextAt' = NextAt
      BY <1>4, <2>1 DEF Sent, Running, NextAt
    <2> QED BY <1>4, <2>1, <2>2, SentKeeps, FlowSame DEF Running
  <1>5. CASE ProducerFinishes \/ ProducerDies
    <2>1. /\ prod = "fetching" /\ prod' = "done" /\ sizes' = sizes /\ rx' = rx /\ chan' = chan
          /\ out' = out /\ buf' = buf
      BY <1>5 DEF ProducerFinishes, ProducerDies, handle, owner
    <2>2. Stream' = Stream /\ ~Running'
      BY <2>1 DEF Stream, Ahead, Queued, Held, Running
    <2> QED BY <2>1, <2>2, FlowSame
  <1>6. CASE ProducerAborted
    <2>1. prod' = "done" /\ sizes' = sizes /\ ~rx /\ rx' = rx /\ out' = out /\ buf' = buf
      BY <1>6 DEF ProducerAborted, handle, owner
    <2>2. Stream' = Stream /\ ~Running'
      BY <2>1 DEF Stream, Ahead, Running
    <2> QED BY <2>1, <2>2, FlowSame
  <1>7. CASE (\E n \in 1..MaxRead : Read(n)) \/ ReadEnd \/ Closed \/ UNCHANGED streamVars
    <2>1. /\ sizes' = sizes /\ downloaded' = downloaded /\ prod' = prod /\ at' = at /\ result' = result
          /\ chan' = chan /\ rx' = rx /\ out' = out /\ buf' = buf
      BY <1>7 DEF Read, ReadEnd, Closed, streamVars, answers, producer, handle, owner
    <2>2. Stream' = Stream /\ Running' = Running /\ NextAt' = NextAt
      BY <2>1 DEF Stream, Ahead, Queued, Held, Running, NextAt
    <2> QED BY <2>1, <2>2, FlowSame
  <1>8. CASE Deliver
    <2>1. /\ sizes' = sizes /\ downloaded' = downloaded /\ prod' = prod /\ at' = at /\ result' = result
          /\ chan' = chan /\ rx' = rx
      BY <1>8 DEF Deliver, answers, producer
    <2>2. out' \o buf' = out \o buf
      BY <1>8, DeliverKeeps
    <2>3. Stream' = Stream /\ Running' = Running /\ NextAt' = NextAt
      BY <2>1, <2>2 DEF Stream, Ahead, Queued, Held, Running, NextAt
    <2> QED BY <2>1, <2>3, FlowSame
  <1>9. CASE Receive
    <2>1. sizes' = sizes /\ downloaded' = downloaded /\ prod' = prod /\ at' = at /\ rx' = rx
      BY <1>9 DEF Receive, answers, producer
    <2>2. Stream' = Stream /\ Running' = Running /\ NextAt' = NextAt
      BY <1>9, <2>1, ReceiveKeeps DEF Running, NextAt
    <2> QED BY <2>1, <2>2, FlowSame
  <1>10. CASE ReceiveErr \/ ReceiveNone \/ Close
    <2>1. /\ sizes' = sizes /\ downloaded' = downloaded /\ prod' = prod /\ rx' = FALSE
          /\ out' = out /\ buf' = buf
      BY <1>10 DEF ReceiveErr, ReceiveNone, Close, Cancel, answers, producer, owner
    <2>2. PICK a \in Seq(Nat) : a = Ahead
      BY StreamTypes
    <2>3. PICK s \in Seq(Nat) : s = out \o buf
      BY StreamTypes
    <2>4. Stream = s \o a
      BY <2>2, <2>3 DEF Stream
    <2>5. Stream' = s
      BY <2>1, <2>3, ConcatEmptySeq DEF Stream, Ahead
    <2>6. Stream = Stream' \o a
      BY <2>4, <2>5
    <2>7. Running' => Running /\ downloaded' = downloaded
      BY <2>1 DEF Running
    <2> QED BY <2>1, <2>6, <2>7, FlowCut
  <1> QED BY <1>1, <1>2, <1>3, <1>4, <1>5, <1>6, <1>7, <1>8, <1>9, <1>10 DEF StreamNext

-----------------------------------------------------------------------------
(* The count, the phases and the outcomes *)

\* A delivery moves units from the buffer to what was read.
LEMMA DeliverCounts ==
    ASSUME TypeOK, TypeOK', Deliver
    PROVE  Len(out') + Len(buf') = Len(out) + Len(buf)
  <1>1. out \in Seq(Nat) /\ buf \in Seq(Nat) /\ out' \in Seq(Nat) /\ buf' \in Seq(Nat)
    BY DEF TypeOK
  <1>2. Len(out \o buf) = Len(out) + Len(buf) /\ Len(out' \o buf') = Len(out') + Len(buf')
    BY <1>1, ConcatProperties
  <1> QED BY <1>2, DeliverKeeps

LEMMA BooksStep ==
    ASSUME TypeOK, TypeOK', Books, [StreamNext]_streamVars
    PROVE  Books'
  <1>1. Total \in Nat /\ Len(out) \in Nat /\ Len(buf) \in Nat /\ Len(out') \in Nat /\ Len(buf') \in Nat
    <2>1. out \in Seq(Nat) /\ buf \in Seq(Nat) /\ out' \in Seq(Nat) /\ buf' \in Seq(Nat) /\ sizes \in Seq(Nat)
      BY DEF TypeOK
    <2>2. Total \in Nat
      BY <2>1, RangeFacts
    <2> QED BY ONLY <2>1, <2>2
  <1>2. CASE Deliver
    <2>1. Total' = Total /\ remaining' = remaining
      BY <1>2 DEF Deliver, Total, Before
    <2>2. Len(out') + Len(buf') = Len(out) + Len(buf)
      BY <1>2, DeliverCounts
    <2> QED BY <1>1, <2>1, <2>2 DEF Books
  <1>3. CASE Receive
    <2>1. Total' = Total /\ out' = out /\ buf = <<>> /\ remaining' = remaining - Len(buf')
      BY <1>3 DEF Receive, owner, Total, Before
    <2>2. Len(buf) = 0
      BY <2>1
    <2> QED BY <1>1, <2>1, <2>2 DEF Books
  <1>4. CASE ~Deliver /\ ~Receive
    <2>1. sizes' = sizes /\ remaining' = remaining /\ out' = out /\ buf' = buf
      BY <1>4 DEF StreamNext, streamVars, answers, producer, handle, owner, ListPage, FetchAnswer, CallFails, Open,
             OpenEmpty, Fetched, Sent, ProducerFinishes, ProducerDies, ProducerAborted, Read,
             ReadEnd, ReceiveErr, ReceiveNone, Close, Closed
    <2> QED BY <2>1 DEF Books, Total, Before
  <1> QED BY <1>2, <1>3, <1>4

LEMMA PhasesStep ==
    ASSUME TypeOK, TypeOK', Phases, [StreamNext]_streamVars
    PROVE  Phases'
  <1>1. CASE ListPage \/ FetchAnswer
    <2>1. UNCHANGED <<stage, prod, chan, rx, buf, want, complete, out, returned, failed, events>>
      BY <1>1 DEF ListPage, FetchAnswer, producer, handle, owner
    <2> QED BY <2>1 DEF Phases
  <1>2. CASE CallFails \/ Open \/ OpenEmpty
    BY <1>2 DEF CallFails, Open, OpenEmpty, answers, producer, handle, owner, Phases
  <1>3. CASE Fetched \/ Sent
    BY <1>3 DEF Fetched, Sent, AfterSend, handle, owner, Phases
  <1>4. CASE ProducerFinishes \/ ProducerDies \/ ProducerAborted
    BY <1>4 DEF ProducerFinishes, ProducerDies, ProducerAborted, handle, owner, Phases
  <1>5. CASE (\E n \in 1..MaxRead : Read(n)) \/ ReadEnd \/ Deliver \/ Receive
    <2>1. stage = "open"
      BY <1>5 DEF Read, ReadEnd, Deliver, Receive, Phases
    <2> QED BY <1>5, <2>1 DEF Read, ReadEnd, Deliver, Receive, producer, Phases
  <1>6. CASE ReceiveErr \/ ReceiveNone \/ Close
    <2>1. stage = "open" /\ rx' = FALSE /\ prod' = prod
      BY <1>6 DEF ReceiveErr, ReceiveNone, Close, Cancel, producer, Phases
    <2> QED BY <1>6, <2>1 DEF ReceiveErr, ReceiveNone, Close, Phases
  <1>7. CASE Closed \/ UNCHANGED streamVars
    BY <1>7 DEF Closed, streamVars, producer, handle, owner, Phases
  <1> QED BY <1>1, <1>2, <1>3, <1>4, <1>5, <1>6, <1>7 DEF StreamNext

LEMMA OutcomesStep ==
    ASSUME TypeOK, TypeOK', Flow, Flow', Books, Books', Phases, Outcomes, [StreamNext]_streamVars
    PROVE  Outcomes'
  <1>1. sizes' = sizes /\ Total' = Total /\ All' = All
    <2>1. sizes' = sizes
      BY DEF StreamNext, streamVars, answers, producer, handle, owner, ListPage, FetchAnswer, CallFails, Open, OpenEmpty, Fetched, Sent,
             ProducerFinishes, ProducerDies, ProducerAborted, Read, Deliver, ReadEnd, Receive,
             ReceiveErr, ReceiveNone, Close, Closed
    <2> QED BY <2>1 DEF Total, Before, All
  <1>2. Total \in Nat /\ Len(out) + Len(buf) <= Total /\ (out = All <=> Len(out) = Total)
    BY Counted DEF Flow
  <1>3. Len(out') + Len(buf') <= Total /\ (out' = All <=> Len(out') = Total)
    <2>1. (Len(out) + Len(buf) <= Total /\ (out = All <=> Len(out) = Total))'
      BY Counted, PTL DEF Flow
    <2> QED BY <1>1, <2>1
  <1>4. /\ Len(out) \in Nat /\ Len(buf) \in Nat /\ Len(out') \in Nat /\ Len(buf') \in Nat
        /\ (buf = <<>> <=> Len(buf) = 0) /\ (buf' = <<>> <=> Len(buf') = 0)
    <2>1. out \in Seq(Nat) /\ buf \in Seq(Nat) /\ out' \in Seq(Nat) /\ buf' \in Seq(Nat)
      BY DEF TypeOK
    <2> QED BY ONLY <2>1, EmptySeq
  <1>5. remaining = Total - Len(out) - Len(buf) /\ remaining' = Total - Len(out') - Len(buf')
    BY <1>1 DEF Books
  <1>6. CASE ListPage \/ FetchAnswer \/ CallFails
    <2>1. stage = "listing" /\ stage' \in {"listing", "closed"} /\ UNCHANGED <<returned, events>>
      BY <1>6 DEF ListPage, FetchAnswer, CallFails, owner
    <2>2. events' = <<>> /\ returned' = "none"
      BY <2>1 DEF Phases
    <2> QED BY <2>1, <2>2 DEF Outcomes
  <1>7. CASE Open \/ OpenEmpty
    <2>1. /\ events' = <<>> /\ returned' = "none" /\ failed' = FALSE /\ out' = <<>> /\ buf' = <<>>
          /\ stage' = "open"
      BY <1>7 DEF Open, OpenEmpty, Phases, owner, TypeOK
    <2>2. Len(out') = 0 /\ Len(buf') = 0
      BY <2>1
    <2>3. CASE Open
      <3>1. Total > 0 /\ rx' = TRUE /\ complete' = FALSE
        BY <2>3 DEF Open, Phases, TypeOK
      <3>2. out' # All
        BY <1>2, <1>3, <2>2, <3>1
      <3> QED BY <1>1, <2>1, <3>1, <3>2 DEF Outcomes
    <2>4. CASE OpenEmpty
      <3>1. Total = 0 /\ complete' = TRUE
        BY <2>4 DEF OpenEmpty
      <3>2. out' = All /\ remaining' = 0
        BY <1>3, <1>5, <2>2, <3>1
      <3> QED BY <1>1, <2>1, <3>1, <3>2 DEF Outcomes
    <2> QED BY <1>7, <2>3, <2>4
  <1>8. CASE \/ Fetched \/ Sent \/ ProducerFinishes \/ ProducerDies \/ ProducerAborted
             \/ \E n \in 1..MaxRead : Read(n)
             \/ Closed \/ UNCHANGED streamVars
    <2>1. UNCHANGED <<stage, rx, buf, remaining, complete, out, returned, failed, events>>
      BY <1>8 DEF Fetched, Sent, ProducerFinishes, ProducerDies, ProducerAborted, Read, Closed, streamVars, handle, owner
    <2> QED BY <1>1, <2>1 DEF Outcomes
  <1>9. CASE Deliver
    <2>1. /\ stage = "open" /\ stage' = stage /\ rx' = rx /\ events' = events /\ returned' = "data"
          /\ failed' = failed /\ buf # <<>> /\ remaining' = remaining
          /\ complete' = (complete \/ (buf' = <<>> /\ remaining = 0))
      BY <1>9 DEF Deliver, ReadReturns, CompleteAfter, Phases, TypeOK
    <2>2. ASSUME ~failed PROVE complete' <=> out' = All
      <3>1. ~complete
        BY <1>2, <1>4, <2>1, <2>2 DEF Outcomes
      <3>2. (buf' = <<>> /\ remaining = 0) <=> out' = All
        BY <1>2, <1>3, <1>4, <1>5, <2>1
      <3> QED BY <2>1, <3>1, <3>2
    <2>3. ~failed => rx
      BY <2>1 DEF Outcomes
    <2>4. events' # <<"success">> /\ events' # <<"cancelled">>
      BY <2>1 DEF Outcomes
    <2> QED BY <1>1, <2>1, <2>2, <2>3, <2>4 DEF Outcomes
  <1>10. CASE ReadEnd
    <2>1. /\ stage = "open" /\ stage' = stage /\ ~rx /\ rx' = rx /\ events' = events /\ returned' = "eof"
          /\ failed' = failed /\ buf = <<>> /\ buf' = buf /\ remaining' = remaining /\ out' = out /\ complete' = TRUE
      BY <1>10 DEF ReadEnd, ReadReturns, Phases, TypeOK
    <2>2. ~failed => remaining = 0 /\ out = All
      BY <1>2, <1>4, <1>5, <2>1 DEF Outcomes
    <2> QED BY <1>1, <2>1, <2>2 DEF Outcomes
  <1>11. CASE Receive
    <2>1. /\ stage = "open" /\ rx /\ UNCHANGED <<stage, rx, complete, out, returned, failed, events>>
      BY <1>11 DEF Receive, Phases, owner
    <2> QED BY <1>1, <2>1 DEF Outcomes
  <1>12. CASE ReceiveErr
    <2>1. /\ stage = "open" /\ failed' = TRUE /\ returned' = "error" /\ stage' = stage
          /\ events' = IF events = <<>> THEN <<"error">> ELSE events
      BY <1>12 DEF ReceiveErr, ReadReturns, Finish, Phases
    <2>2. events' = <<"error">>
      BY <2>1 DEF Outcomes
    <2> QED BY <2>1, <2>2 DEF Outcomes
  <1>13. CASE ReceiveNone
    <2>1. stage = "open" /\ stage' = stage /\ buf = <<>> /\ UNCHANGED <<buf, remaining, out>>
      BY <1>13 DEF ReceiveNone, Phases
    <2>2. CASE remaining # 0
      <3>1. /\ failed' = TRUE /\ returned' = "error"
            /\ events' = IF events = <<>> THEN <<"error">> ELSE events
        BY <1>13, <2>2 DEF ReceiveNone, MissingData, ReadReturns, Finish
      <3>2. events' = <<"error">>
        BY <2>1, <3>1 DEF Outcomes
      <3> QED BY <2>1, <3>1, <3>2 DEF Outcomes
    <2>3. CASE remaining = 0
      <3>1. complete' = TRUE /\ returned' = "eof" /\ failed' = failed /\ events' = events
        BY <1>13, <2>3 DEF ReceiveNone, MissingData, ReadReturns, TypeOK
      <3>2. out = All
        BY <1>2, <1>4, <1>5, <2>1, <2>3
      <3> QED BY <1>1, <2>1, <2>3, <3>1, <3>2 DEF Outcomes
    <2> QED BY <2>2, <2>3
  <1>14. CASE Close
    <2>1. /\ stage = "open" /\ stage' = "closed" /\ UNCHANGED <<out, returned, failed>>
          /\ events' = IF events = <<>> THEN <<DropOutcome>> ELSE events
      BY <1>14 DEF Close, Finish, owner
    <2>2. CASE failed
      <3>1. events' = <<"error">>
        BY <2>1, <2>2 DEF Outcomes
      <3> QED BY <1>1, <2>1, <2>2, <3>1 DEF Outcomes
    <2>3. CASE ~failed
      <3>1. events' = <<DropOutcome>> /\ (complete <=> out = All)
        BY <2>1, <2>3 DEF Outcomes
      <3>2. events' = IF complete THEN <<"success">> ELSE <<"cancelled">>
        BY <3>1 DEF DropOutcome
      <3> QED BY <1>1, <2>1, <2>3, <3>1, <3>2 DEF Outcomes
    <2> QED BY <2>2, <2>3
  <1> QED BY <1>6, <1>7, <1>8, <1>9, <1>10, <1>11, <1>12, <1>13, <1>14 DEF StreamNext

-----------------------------------------------------------------------------
(* The theorems *)

LEMMA InitInv ==
    ASSUME StreamInit
    PROVE  Inv
  <1>1. sizes \in Seq(Nat)
    BY DownloadStreamAssumption DEF StreamInit
  <1>2. downloaded \in Seq(Segments)
    <2>1. PICK n \in 0..FirstAnswers : downloaded \in [1..n -> Segments]
      BY DEF StreamInit, BoundedSeq, SeqOf
    <2>2. n \in Nat
      BY DownloadStreamAssumption
    <2> QED BY <2>1, <2>2
  <1>3. PICK e \in Seq(Nat) : e = <<>> /\ Len(e) = 0 /\ e \o e = e
    <2>1. PICK e : e = <<>>
      OBVIOUS
    <2>2. e \in Seq(Nat) /\ Len(e) = 0
      BY <2>1
    <2>3. e \o e = e
      BY <2>1, <2>2, ConcatEmptySeq
    <2> QED BY <2>1, <2>2, <2>3
  <1>4. out = e /\ buf = e /\ chan = <<>> /\ rx = FALSE /\ prod = "none"
    BY <1>3 DEF StreamInit
  <1>5. Total \in Nat /\ remaining = Total
    BY <1>1, RangeFacts DEF StreamInit
  <1>6. TypeOK
    <2>1. chan \in Seq(Result) /\ Len(chan) <= 1
      BY <1>4, NoResult
    <2>2. out \in Seq(Nat) /\ buf \in Seq(Nat) /\ remaining \in Int
      BY <1>3, <1>4, <1>5
    <2>3. events \in Reports
      BY DEF StreamInit, Reports
    <2>4. at \in Nat \ {0} /\ want \in Nat /\ listed \in 0..Len(sizes) /\ more \in BOOLEAN
      BY DEF StreamInit
    <2>5. stage = "listing" /\ returned = "none" /\ complete = FALSE /\ failed = FALSE
      BY DEF StreamInit
    <2> QED BY <1>1, <1>2, <1>4, <2>1, <2>2, <2>3, <2>4, <2>5 DEF TypeOK
  <1>7. Flow
    <2>1. Stream = e
      BY <1>3, <1>4 DEF Stream, Ahead
    <2>2. Increasing(Stream) /\ Within(Stream, Total)
      BY <1>3, <2>1 DEF Increasing, Within
    <2> QED BY <1>4, <2>2 DEF Flow, Running
  <1>8. Books
    BY <1>3, <1>4, <1>5 DEF Books
  <1>9. Phases
    BY DEF StreamInit, Phases
  <1>10. Outcomes
    BY DEF StreamInit, Outcomes
  <1> QED BY <1>6, <1>7, <1>8, <1>9, <1>10 DEF Inv

\* poll_read, download_segments, Transfer::finish: what the invariant says of
\* the units on their way, the count of the missing ones and the outcome holds
\* throughout, for every object, range and answer of the satellite.
THEOREM StreamInvHolds == StreamSpec => []Inv
  <1>1. StreamInit => Inv
    BY InitInv
  <1>2. Inv /\ [StreamNext]_streamVars => Inv'
    <2> SUFFICES ASSUME Inv, [StreamNext]_streamVars PROVE Inv'
      OBVIOUS
    <2>1. TypeOK'
      BY TypeStep DEF Inv
    <2>2. Flow'
      BY <2>1, FlowStep DEF Inv
    <2>3. Books'
      BY <2>1, BooksStep DEF Inv
    <2>4. Phases'
      BY <2>1, PhasesStep DEF Inv
    <2>5. Outcomes'
      BY <2>1, <2>2, <2>3, OutcomesStep DEF Inv
    <2> QED BY <2>1, <2>2, <2>3, <2>4, <2>5 DEF Inv
  <1> QED BY <1>1, <1>2, PTL DEF StreamSpec

\* At most three decrypted segments exist at a time.
LEMMA FewResident ==
    ASSUME TypeOK
    PROVE  Resident <= 3
  <1>1. PICK A : A = {i \in DOMAIN chan : chan[i].data # <<>>}
    OBVIOUS
  <1>2. Cardinality(A) \in 0..1
    <2>1. A \subseteq {1}
      <3>1. chan \in Seq(Result) /\ Len(chan) <= 1 /\ Len(chan) \in Nat
        BY DEF TypeOK
      <3>2. DOMAIN chan \subseteq {1}
        BY <3>1
      <3> QED BY <1>1, <3>2
    <2>2. IsFiniteSet({1}) /\ Cardinality({1}) = 1
      BY FS_Singleton
    <2>3. IsFiniteSet(A) /\ Cardinality(A) <= 1
      BY <2>1, <2>2, FS_Subset
    <2> QED BY <2>3, FS_CardinalityType
  <1>3. PICK B : B = {r \in {result} : r.data # <<>>}
    OBVIOUS
  <1>4. Cardinality(B) \in 0..1
    <2>1. B \subseteq {result}
      BY <1>3
    <2>2. IsFiniteSet({result}) /\ Cardinality({result}) = 1
      BY FS_Singleton
    <2>3. IsFiniteSet(B) /\ Cardinality(B) <= 1
      BY <2>1, <2>2, FS_Subset
    <2> QED BY <2>3, FS_CardinalityType
  <1>5. Resident = (IF buf # <<>> THEN 1 ELSE 0) + Cardinality(A) + (IF prod = "sending" THEN Cardinality(B) ELSE 0)
    BY <1>1, <1>3 DEF Resident
  <1> QED BY <1>2, <1>4, <1>5

\* poll_read, the producer and Transfer::finish: for every object, range and
\* set of answers, whatever fails, comes short or dies: end of file without an
\* error means the whole range was delivered, in order, the reported outcome is
\* true, and no more than three segments are in memory.
THEOREM StreamSoundHolds == StreamSpec => []StreamSound
  <1>1. Inv => StreamSound
    <2> SUFFICES ASSUME Inv PROVE StreamSound
      OBVIOUS
    <2>1. TypeOK /\ Flow /\ Outcomes
      BY DEF Inv
    <2>2. EofMeansAll
      BY <2>1 DEF Outcomes, EofMeansAll
    <2>3. BytesInOrder
      <3>1. Increasing(out) /\ Len(out) \in Nat
        BY <2>1, Counted DEF Flow, TypeOK
      <3> QED BY <3>1 DEF Increasing, BytesInOrder
    <2>4. OutcomeHonest
      <3>1. Len(events) <= 1
        <4>1. events \in {<<>>, <<"error">>, <<"success">>, <<"cancelled">>}
          BY <2>1 DEF TypeOK, Reports
        <4>2. \A e : e = <<>> => Len(e) <= 1
          OBVIOUS
        <4>3. \A e, x : e = <<x>> => Len(e) <= 1
          OBVIOUS
        <4> QED BY <4>1, <4>2, <4>3, Zenon
      <3> QED BY <2>1, <3>1 DEF Outcomes, OutcomeHonest
    <2>5. Resident <= 3
      BY <2>1, FewResident
    <2> QED BY <2>2, <2>3, <2>4, <2>5 DEF StreamSound
  <1> QED BY <1>1, StreamInvHolds, PTL
=============================================================================
