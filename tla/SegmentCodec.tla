---------------------------- MODULE SegmentCodec ----------------------------
(***************************************************************************)
(* The bytes of an object, written and read back: splitting into segments, *)
(* inline segments, padding, content encryption block by block, stripe     *)
(* padding, erasure coding into pieces; then, for a requested range, the   *)
(* segments, blocks, stripes and piece bytes that cover it, the search for *)
(* a set of k shares that authenticates, and the slicing of the plaintext. *)
(*                                                                         *)
(* A byte is symbolic: a tuple whose first element says what it is.  A     *)
(* plaintext byte is its offset in the object; a sealed byte names the     *)
(* key, the nonce, the block it seals and its place; a parity byte names   *)
(* its piece and the column of the stripe it is computed from.  Sealing is *)
(* ideal, and the erasure code is the one whose properties module          *)
(* ReedSolomon checks on the code's arithmetic: a data row is read from    *)
(* its own share when that is in the set, and from all k shares otherwise. *)
(***************************************************************************)
EXTENDS Integers, Sequences, FiniteSets, FiniteSetsExt, SequencesExt, TLC

CONSTANTS
  Cases,        \* the objects written: [size, cipher, block, rs,
                \*  damage (shares corrupted at most), ranges, orders (of arrival)]
  Tag,          \* AEAD overhead of a block (16 bytes in the code)
  MaxSegment,   \* MAX_SEGMENT_SIZE
  MaxInline     \* MAX_INLINE_SEGMENT_SIZE

\* The null cipher authenticates nothing, so its cases corrupt nothing.
ASSUME CasesAssumption == \A c \in Cases : c.cipher = "NULL" => c.damage = 0

VARIABLES
  object,    \* the case being run
  segments,  \* what is stored: a sequence of segments
  damaged,   \* the shares of stripes that were corrupted: <<segment, piece, stripe>>
  request,   \* the open download, or NoRequest
  answer     \* the bytes handed to the reader so far

codecVars == <<object, segments, damaged, request, answer>>

TrailerSize == 4
Data(i) == <<"data", i>>
Bad     == <<"bad", 0>>
Fails   == <<>>                        \* what opening a forged block returns
NoRequest == [phase |-> "none"]

-----------------------------------------------------------------------------
(* Writing *)

(* Zeros and a trailer that holds the padding's length, so that the whole
   is a multiple of the block. *)
make_padding(len, block) ==
  LET r == (len + TrailerSize) % block
      p == TrailerSize + (IF r > 0 THEN block - r ELSE 0)
  IN  [j \in 1..p |-> IF j > p - TrailerSize THEN <<"len", p>> ELSE <<"zero", 0>>]

pad(data, block) == data \o make_padding(Len(data), block)

\* The encrypter's (in, out) block sizes; the decrypter swaps them.
plain_block(c, b) == IF c = "NULL" THEN 1 ELSE b - Tag
enc_block(c, b)   == IF c = "NULL" THEN 1 ELSE b

\* Starting nonce of a segment; the code shifts the part by 32 bits.
PartShift == 2^10
content_nonce(part, index) == part * PartShift + index + 1

Seal(c, key, nonce, x) ==
  IF c = "NULL" \/ x = <<>> THEN x
  ELSE [j \in 1..(Len(x) + Tag) |-> <<"seal", key, nonce, x, j>>]

Open(c, key, nonce, y) ==
  CASE c = "NULL" \/ y = <<>> -> y
    [] OTHER -> IF y[1][1] = "seal" /\ y = Seal(c, key, nonce, y[1][4]) THEN y[1][4] ELSE Fails

Chunk(s, size, i) == SubSeq(s, i * size + 1, (i + 1) * size)

(* Every block is sealed under the starting nonce plus its number. *)
transform_padded(c, key, nonce, b, plain) ==
  LET in     == plain_block(c, b)
      padded == pad(plain, in)
  IN  FlattenSeq([i \in 1..(Len(padded) \div in) |-> Seal(c, key, nonce + i - 1, Chunk(padded, in, i - 1))])

stripe_size(rs) == rs.k * rs.share_size
CeilDiv(a, b) == (a + b - 1) \div b

calc_encrypted_size(size, c, b) == CeilDiv(size + TrailerSize, plain_block(c, b)) * enc_block(c, b)

calc_piece_size(encrypted_size, rs) ==
  (CeilDiv(encrypted_size + TrailerSize, stripe_size(rs)) * stripe_size(rs)) \div rs.k

\* The byte of piece p for a column of k stripe bytes.
ShareByte(p, column, rs) == IF p < rs.k THEN column[p + 1] ELSE <<"parity", p, column>>

encode_pieces(encrypted, rs) ==
  LET padded == pad(encrypted, stripe_size(rs))
      Column(at) ==
        LET base == ((at - 1) \div rs.share_size) * stripe_size(rs) + ((at - 1) % rs.share_size)
        IN  [d \in 1..rs.k |-> padded[base + (d - 1) * rs.share_size + 1]]
  IN  [p \in 0..(rs.n - 1) |-> [at \in 1..(Len(padded) \div rs.k) |-> ShareByte(p, Column(at), rs)]]

(* commit_one_segment: inline when the plaintext and its sealed form both
   fit, otherwise pieces.  The segment key is fresh, so it is named by the
   segment's index. *)
commit_one_segment(o, index, offset, plain) ==
  LET nonce  == content_nonce(0, index)
      inline == Seal(o.cipher, index, nonce, plain)
      sealed == transform_padded(o.cipher, index, nonce, o.block, plain)
      common == [index |-> index, plain_offset |-> offset, plain_size |-> Len(plain)]
  IN  IF Len(plain) <= MaxInline /\ Len(inline) <= MaxInline
      THEN common @@ [inline |-> inline, pieces |-> <<>>, segment_size |-> Len(inline)]
      ELSE common @@ [inline |-> <<>>, pieces |-> encode_pieces(sealed, o.rs), segment_size |-> Len(sealed)]

(* A full buffer is flushed as a segment; the rest is committed at the end,
   and an empty object has one empty segment. *)
SegmentCount(size) == IF size = 0 THEN 1 ELSE CeilDiv(size, MaxSegment)

Upload ==
  /\ segments = <<>>
  /\ segments' = [i \in 1..SegmentCount(object.size) |->
        LET offset == (i - 1) * MaxSegment
            len    == Min({MaxSegment, object.size - offset})
        IN  commit_one_segment(object, i - 1, offset, [j \in 1..len |-> Data(offset + j - 1)])]
  /\ UNCHANGED <<object, damaged, request, answer>>

(* A node returns other bytes than it was given for one share. *)
Damage(s, p, stripe) ==
  LET rs == object.rs
      at == (stripe * rs.share_size + 1)..((stripe + 1) * rs.share_size)
  IN  /\ segments # <<>> /\ request = NoRequest
      /\ Cardinality(damaged) < object.damage
      /\ at \subseteq DOMAIN segments[s].pieces[p]
      /\ <<s, p, stripe>> \notin damaged
      /\ damaged' = damaged \cup {<<s, p, stripe>>}
      /\ segments' = [segments EXCEPT ![s].pieces[p] = [j \in DOMAIN @ |-> IF j \in at THEN Bad ELSE @[j]]]
      /\ UNCHANGED <<object, request, answer>>

-----------------------------------------------------------------------------
(* Ranges *)

ValidRange(offset, length) == ~(offset < 0 /\ length >= 0)

resolve_range_to_length(offset, length, size) ==
  LET start == IF offset < 0 THEN Max({0, size + offset}) ELSE Min({offset, size})
      end   == IF offset < 0 \/ length < 0 THEN size ELSE Min({length, size})
  IN  [start |-> start, len |-> Max({0, end - start})]

resolve_range(offset, length, size) ==
  IF offset < 0
  THEN LET start == IF -offset >= size THEN 0 ELSE size + offset
       IN  [start |-> start, len |-> size - start]
  ELSE LET start == Min({offset, size})
           end   == IF length < 0 THEN size ELSE Min({start + length, size})
       IN  [start |-> start, len |-> end - start]

(* The overlap of the object range with a segment, in the segment. *)
segment_plain_range(start, len, seg_offset, seg_plain) ==
  LET from == Max({start, seg_offset})
      to   == Min({start + len, seg_offset + seg_plain})
  IN  IF len <= 0 \/ seg_plain <= 0 \/ to <= from THEN [start |-> 0, len |-> 0]
      ELSE [start |-> from - seg_offset, len |-> to - from]

proto_range(offset, length) ==
  CASE offset < 0 -> IF length >= 0 THEN [kind |-> "whole"] ELSE [kind |-> "suffix", n |-> -offset]
    [] offset >= 0 /\ length < 0 -> IF offset = 0 THEN [kind |-> "whole"] ELSE [kind |-> "start", from |-> offset]
    [] OTHER -> [kind |-> "limit", from |-> offset, to |-> offset + length]

(* The window the satellite makes of it. *)
resolve_mock_range(r, size) ==
  CASE r.kind = "whole"  -> [start |-> 0, len |-> size]
    [] r.kind = "start"  -> resolve_range(r.from, -1, size)
    [] r.kind = "limit"  -> resolve_range(r.from, r.to - r.from, size)
    [] r.kind = "suffix" -> resolve_range(-r.n, -1, size)

(* Every segment of the window is listed; the first of them comes with the
   answer, the client asks for the others it needs. *)
Listed(window) ==
  {i \in DOMAIN segments : segment_plain_range(window.start, window.len,
                              segments[i].plain_offset, segments[i].plain_size).len > 0}

calc_encompassing_blocks(offset, length, size) ==
  LET first == offset \div size
      end   == offset + length
  IN  IF length <= 0 THEN [first |-> first, n |-> 0]
      ELSE [first |-> first, n |-> (end \div size) - first + (IF end % size = 0 THEN 0 ELSE 1)]

(* Whole stripes around the blocks of the plaintext range, in piece bytes. *)
piece_byte_range(start, len, pb, eb, rs) ==
  LET blocks == calc_encompassing_blocks(start, len, pb)
      from   == (blocks.first * eb) \div stripe_size(rs)
      to     == CeilDiv((blocks.first + blocks.n) * eb, stripe_size(rs))
  IN  IF blocks.n <= 0 THEN [offset |-> 0, size |-> 0]
      ELSE [offset |-> from * rs.share_size, size |-> (to - from) * rs.share_size]

-----------------------------------------------------------------------------
(* Reading one segment *)

\* The stripe byte of row d from one byte of each of k shares.
DecodeRow(d, bytes, rs) ==
  IF d \in DOMAIN bytes THEN bytes[d]
  ELSE LET one == bytes[CHOOSE p \in DOMAIN bytes : p >= rs.k]
           agrees == one[1] = "parity" /\ \A p \in DOMAIN bytes : bytes[p] = ShareByte(p, one[3], rs)
       IN  IF agrees THEN one[3][d + 1] ELSE Bad

(* shares: piece number -> bytes, k of them, of equal length. *)
decode_encrypted_slices(shares, rs, stripe0, n) ==
  LET len   == Len(shares[CHOOSE p \in DOMAIN shares : TRUE])
      total == len \div rs.share_size
      count == Min({n, total - stripe0})
      Row(i, d) ==                         \* share d of stripe i
        [c \in 1..rs.share_size |->
           DecodeRow(d, [p \in DOMAIN shares |-> shares[p][(stripe0 + i) * rs.share_size + c]], rs)]
  IN  FlattenSeq([i \in 1..count |-> FlattenSeq([d \in 1..rs.k |-> Row(i - 1, d - 1)])])

(* The blocks of the range, opened one by one: the plaintext, the first
   block that does not authenticate, or an uncovered range. *)
decrypt_remote(decoded, q) ==
  LET o      == object
      eb     == enc_block(o.cipher, o.block)
      pb     == plain_block(o.cipher, o.block)
      blocks == calc_encompassing_blocks(q.start, q.len, pb)
      from   == blocks.first * eb - q.decoded_offset
      avail  == Min({q.decoded_offset + Len(decoded), q.segment_size})
      Opened(b) == Open(o.cipher, q.key, q.nonce + b,
                        SubSeq(decoded, from + (b - blocks.first) * eb + 1, from + (b - blocks.first + 1) * eb))
      all    == blocks.first..(blocks.first + blocks.n - 1)
      forged == {b \in all : Opened(b) = Fails}
      plain  == FlattenSeq([i \in 1..blocks.n |-> Opened(blocks.first + i - 1)])
      skip   == q.start - blocks.first * pb
      take   == Min({q.len, Len(plain) - skip, q.plain_size - q.start})
  IN  IF from < 0 \/ (blocks.first + blocks.n) * eb > avail THEN [kind |-> "uncovered"]
      ELSE IF forged # {} THEN [kind |-> "forged", block |-> Min(forged)]
      ELSE [kind |-> "ok", plain |-> SubSeq(plain, skip + 1, skip + take)]

(* One block decoded alone. *)
probe_share_set(shares, q, block) ==
  LET o      == object
      eb     == enc_block(o.cipher, o.block)
      local  == block * eb - q.decoded_offset
      stripe == stripe_size(o.rs)
      within == local % stripe
      n      == CeilDiv(within + eb, stripe)
      part   == decode_encrypted_slices(shares, o.rs, local \div stripe, n)
  IN  /\ local >= 0
      /\ Len(part) >= within + eb
      /\ Open(o.cipher, q.key, q.nonce + block, SubSeq(part, within + 1, within + eb)) # Fails

-----------------------------------------------------------------------------
(* A download *)

\* The segment range, key and piece range for the segment at position i.
SegmentQuery(i, r) ==
  LET s     == segments[i]
      o     == object
      local == segment_plain_range(r.start, r.len, s.plain_offset, s.plain_size)
      bytes == piece_byte_range(local.start, local.len, plain_block(o.cipher, o.block), enc_block(o.cipher, o.block), o.rs)
  IN  [start |-> local.start, len |-> local.len, key |-> s.index, nonce |-> content_nonce(0, s.index),
       plain_size |-> s.plain_size, segment_size |-> s.segment_size,
       offset |-> bytes.offset, size |-> bytes.size, decoded_offset |-> bytes.offset * o.rs.k]

(* download_object up to the stream: the satellite lists the window of the
   sent range, the client keeps what overlaps the range it resolves. *)
Download(offset, length) ==
  LET window == resolve_mock_range(proto_range(offset, length), object.size)
      r      == resolve_range(offset, length, object.size)
      wanted == {i \in Listed(window) : segment_plain_range(r.start, r.len,
                                           segments[i].plain_offset, segments[i].plain_size).len > 0}
  IN  /\ segments # <<>> /\ request = NoRequest
      /\ answer' = <<>>
      /\ request' = [phase |-> IF ~ValidRange(offset, length) THEN "invalid" ELSE IF r.len = 0 THEN "done" ELSE "segment",
                     offset |-> offset, length |-> length, range |-> r,
                     todo |-> IF ValidRange(offset, length) /\ r.len > 0 THEN SetToSortSeq(wanted, <) ELSE <<>>]
      /\ UNCHANGED <<object, segments, damaged>>

\* A segment is finished with these bytes: the next one, or the end.
Deliver(plain) ==
  LET rest == Tail(request.todo)
  IN  /\ answer' = answer \o plain
      /\ request' = [phase |-> IF rest = <<>> THEN "done" ELSE "segment", offset |-> request.offset,
                     length |-> request.length, range |-> request.range, todo |-> rest]

(* An inline segment is opened whole and sliced. *)
ReadInline ==
  /\ request.phase = "segment"
  /\ LET i == Head(request.todo)
         q == SegmentQuery(i, request.range)
     IN  /\ segments[i].pieces = <<>>
         /\ Deliver(SubSeq(Open(object.cipher, q.key, q.nonce, segments[i].inline), q.start + 1, q.start + q.len))
  /\ UNCHANGED <<object, segments, damaged>>

(* Shares arrive from k or more nodes, in some order; the search starts at
   the first k of them. *)
FetchShares(order) ==
  /\ request.phase = "segment"
  /\ LET i == Head(request.todo)
         q == SegmentQuery(i, request.range)
     IN  /\ segments[i].pieces # <<>>
         /\ request' = request @@
              [q |-> q, order |-> order, cur |-> [j \in 1..object.rs.k |-> j - 1], failed |-> {},
               shares |-> [j \in DOMAIN order |-> SubSeq(segments[i].pieces[order[j]], q.offset + 1, q.offset + q.size)]]
         /\ UNCHANGED <<object, segments, damaged, answer>>

Searching == request.phase = "segment" /\ "cur" \in DOMAIN request

next_subset_short(cur, n) ==
  LET k == Len(cur)
      I == {i \in 1..k : cur[i] < i - 2 + n - k}
  IN  IF I = {} THEN <<>>
      ELSE LET i == Max(I) IN [j \in 1..k |-> IF j < i THEN cur[j] ELSE cur[i] + 1 + (j - i)]

\* The next k indexes in lexicographic order, or <<>> after the last.
next_subset(cur, n) ==
  LET k == Len(cur)
      I == {i \in 1..k : cur[i] < i - 1 + n - k}
  IN  IF I = {} THEN <<>>
      ELSE LET i == Max(I) IN [j \in 1..k |-> IF j < i THEN cur[j] ELSE cur[i] + 1 + (j - i)]

\* The shares of the current indexes, by piece number.
Subset ==
  LET at == {request.cur[j] + 1 : j \in DOMAIN request.cur}
  IN  [p \in {request.order[j] : j \in at} |-> request.shares[CHOOSE j \in at : request.order[j] = p]]

\* The search after the current set was given up.
Advanced(failed) ==
  LET next == next_subset(request.cur, Len(request.order))
  IN  [request EXCEPT !.cur = next, !.failed = failed, !.phase = IF next = <<>> THEN "forged" ELSE @]

FirstBlock == request.q.start \div plain_block(object.cipher, object.block)

(* With shares to spare a set must first open the first block and every
   block that failed for an earlier set. *)
Filtered ==
  /\ Len(request.order) > object.rs.k
  /\ \E b \in {FirstBlock} \cup request.failed : ~probe_share_set(Subset, request.q, b)

TrySkips ==
  /\ Searching /\ Filtered
  /\ request' = Advanced(request.failed)
  /\ UNCHANGED <<object, segments, damaged, answer>>

TryDecodes ==
  /\ Searching /\ ~Filtered
  /\ LET decoded == decode_encrypted_slices(Subset, object.rs, 0, Len(request.shares[1]) \div object.rs.share_size)
         out     == decrypt_remote(decoded, request.q)
     IN  \/ out.kind = "ok" /\ Deliver(out.plain)
         \/ /\ out.kind # "ok"
            /\ request' = IF out.kind = "forged" THEN Advanced(request.failed \cup {out.block})
                          ELSE [request EXCEPT !.phase = "uncovered"]
            /\ UNCHANGED answer
  /\ UNCHANGED <<object, segments, damaged>>

CodecInit ==
  /\ object \in Cases
  /\ segments = <<>> /\ damaged = {} /\ request = NoRequest /\ answer = <<>>

CodecNext ==
  \/ Upload
  \/ \E s \in DOMAIN segments : \E p \in DOMAIN segments[s].pieces :
        \E stripe \in 0..(Len(segments[s].pieces[p]) - 1) : Damage(s, p, stripe)
  \/ \E r \in object.ranges : Download(r[1], r[2])
  \/ ReadInline
  \/ /\ request.phase = "segment" /\ ~Searching
     /\ \E order \in object.orders : FetchShares(order)
  \/ TrySkips
  \/ TryDecodes

-----------------------------------------------------------------------------
(* Properties *)

\* The bytes of a range, by definition.
Wanted ==
  LET In(i) == IF request.offset < 0 THEN i >= object.size + request.offset
               ELSE i >= request.offset /\ (request.length < 0 \/ i < request.offset + request.length)
      bytes == IF ValidRange(request.offset, request.length)
               THEN SelectSeq([i \in 1..object.size |-> i - 1], In) ELSE <<>>
  IN  [i \in DOMAIN bytes |-> Data(bytes[i])]

(* download_segments, decrypt_one_segment, decrypt_remote: whatever segments,
   blocks and stripes the range falls on, and whatever the nodes return, the
   reader gets a prefix of exactly the bytes it asked for, and all of them
   when the download ends well. *)
ExactBytes ==
  request # NoRequest => IsPrefix(answer, Wanted) /\ (request.phase = "done" => answer = Wanted)

\* The damaged shares of piece p that fall into the requested stripes.
Hit(i, p) ==
  {d \in damaged : d[1] = i /\ d[2] = p /\ d[3] * object.rs.share_size >= request.q.offset
                                       /\ d[3] * object.rs.share_size < request.q.offset + request.q.size}

(* reconstruct_remote: the filter on blocks that failed for other sets never
   loses a set that would authenticate, and the stripes that were fetched
   always cover the blocks of the range: a segment is only given up when
   fewer than k of its shares are intact. *)
FindsAuthenticSet ==
  /\ request.phase # "uncovered"
  /\ request.phase = "forged" =>
       LET i == Head(request.todo)
       IN  Cardinality({j \in DOMAIN request.order : Hit(i, request.order[j]) = {}}) < object.rs.k

(* calc_piece_size, calc_encrypted_size: what is stored has the size the
   satellite expects of it (its verification of the pieces fails otherwise),
   and a requested piece range ends inside the piece. *)
SizesAgree ==
  /\ \A i \in DOMAIN segments : segments[i].pieces # <<>> =>
       /\ segments[i].segment_size = calc_encrypted_size(segments[i].plain_size, object.cipher, object.block)
       /\ \A p \in 0..(object.rs.n - 1) :
            Len(segments[i].pieces[p]) = calc_piece_size(segments[i].segment_size, object.rs)
  /\ Searching => request.q.offset + request.q.size <= calc_piece_size(request.q.segment_size, object.rs)

(* Upload and download of an object's bytes agree, byte for byte and size
   for size. *)
CodecExact == ExactBytes /\ SizesAgree
=============================================================================
