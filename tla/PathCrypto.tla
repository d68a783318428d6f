----------------------------- MODULE PathCrypto -----------------------------
(***************************************************************************)
(* Object keys: components, the encryption store that maps prefixes to     *)
(* keys, path encryption and decryption, the prefix of a listing and the   *)
(* escaping of encrypted components.                                       *)
(*                                                                         *)
(* A raw path is a sequence of symbols: letters, the separator, and one    *)
(* opaque symbol for a whole encrypted component (the code's bytes of it   *)
(* hold no separator: EscapeBijective).  A key is the derivation that made *)
(* it, so that two keys are equal exactly when they were derived alike.    *)
(***************************************************************************)
EXTENDS Integers, Sequences, FiniteSets, FiniteSetsExt, SequencesExt

Sep == <<"/">>
Letter(c) == <<c>>
Failed == [ok |-> FALSE]
Ok(p)  == [ok |-> TRUE, path |-> p]

(* PathIter: a trailing separator yields a last empty component, and the
   empty path has no component at all. *)
Between(raw, cuts) == [i \in 1..(Len(cuts) - 1) |-> SubSeq(raw, cuts[i] + 1, cuts[i + 1] - 1)]

Components(raw) ==
  IF raw = <<>> THEN <<>>
  ELSE Between(raw, <<0>> \o SetToSortSeq({i \in DOMAIN raw : raw[i] = Sep}, <) \o <<Len(raw) + 1>>)

join_components(parts) ==
  FlattenSeq([i \in DOMAIN parts |-> IF i = 1 THEN parts[i] ELSE <<Sep>> \o parts[i]])

TrimSlash(raw) == IF raw # <<>> /\ raw[Len(raw)] = Sep THEN Front(raw) ELSE raw
EndsWithSlash(raw) == raw # <<>> /\ raw[Len(raw)] = Sep

-----------------------------------------------------------------------------
(* Keys and components *)

NoKey == [root |-> "none", path |-> <<>>]
RootKey(r) == [root |-> r, path |-> <<>>]

derive_path_component(key, comp) == [key EXCEPT !.path = Append(@, comp)]

\* Deterministic: the nonce is derived from the component itself.
encrypt_path_component(comp, cipher, key) ==
  IF cipher = "NULL" THEN comp ELSE << <<"enc", key, comp>> >>

\* An empty component is its nonce alone: nothing authenticates it.
decrypt_path_component(comp, cipher, key) ==
  CASE comp = <<>> \/ cipher = "NULL" -> Ok(comp)
    [] OTHER -> IF Len(comp) = 1 /\ Len(comp[1]) = 3 /\ (comp[1][2] = key \/ comp[1][3] = <<>>)
                THEN Ok(comp[1][3]) ELSE Failed

DeriveAll(key, comps) == FoldLeft(derive_path_component, key, comps)

encrypt_iterator(comps, cipher, key) ==
  join_components([i \in DOMAIN comps |->
    encrypt_path_component(comps[i], cipher, DeriveAll(key, SubSeq(comps, 1, i - 1)))])

\* s: the components decrypted so far and the key of the next, or failed.
DecryptNext(s, d) ==
  IF ~s.ok \/ ~d.ok THEN [s EXCEPT !.ok = FALSE]
  ELSE [s EXCEPT !.key = derive_path_component(@, d.path), !.parts = Append(@, d.path)]

Joined(s) == IF s.ok THEN Ok(join_components(s.parts)) ELSE Failed

decrypt_iterator(comps, cipher, key) ==
  Joined(FoldLeft(LAMBDA s, c : DecryptNext(s, decrypt_path_component(c, cipher, s.key)),
                  [ok |-> TRUE, key |-> key, parts |-> <<>>], comps))

-----------------------------------------------------------------------------
(* The store: [default_key, default_path_cipher, entries], an entry being   *)
(* [bucket, unenc, enc, key, cipher] with raw paths                         *)

EmptyStore(cipher) == [default_key |-> NoKey, default_path_cipher |-> cipher, entries |-> {}]

\* Two mappings of components to components part at some level of the trie.
Clash(u, x, eu, ex) ==
  \E i \in DOMAIN u \cap DOMAIN eu :
    SubSeq(u, 1, i - 1) = SubSeq(eu, 1, i - 1) /\ ~((u[i] = eu[i]) <=> (x[i] = ex[i]))

ConflictsIn(entries, u, x) ==
  Len(u) # Len(x) \/ \E e \in entries : Clash(u, x, Components(e.unenc), Components(e.enc))

Conflicts(store, bucket, unenc, enc) ==
  ConflictsIn({e \in store.entries : e.bucket = bucket}, Components(unenc), Components(enc))

(* Store::add_with_cipher: a base at the same path is replaced. *)
add_with_cipher(store, bucket, unenc, enc, key, cipher) ==
  LET kept == {e \in store.entries : ~(e.bucket = bucket /\ e.unenc = unenc)}
      new  == [bucket |-> bucket, unenc |-> unenc, enc |-> enc, key |-> key, cipher |-> cipher]
  IN  IF Conflicts(store, bucket, unenc, enc) THEN [ok |-> FALSE, store |-> store]
      ELSE [ok |-> TRUE, store |-> [store EXCEPT !.entries = kept \cup {new}]]

(* The deepest base on the way down, or the default key, and the components
   below it.  side: "unenc" or "enc". *)
Depth(e, side) == Len(Components(e[side]))
OnTheWay(store, bucket, comps, side) ==
  {e \in store.entries : e.bucket = bucket /\ IsPrefix(Components(e[side]), comps)}
Deepest(bases, side) == CHOOSE e \in bases : \A f \in bases : Depth(f, side) <= Depth(e, side)
DefaultBase(store, bucket) ==
  [bucket |-> bucket, unenc |-> <<>>, enc |-> <<>>,
   key |-> derive_path_component(store.default_key, bucket), cipher |-> store.default_path_cipher]

FromBase(base, comps, side) ==
  [ok |-> TRUE, base |-> base, rest |-> SubSeq(comps, Depth(base, side) + 1, Len(comps))]

LookupIn(store, bucket, bases, comps, side) ==
  IF bases = {} /\ store.default_key = NoKey THEN Failed
  ELSE FromBase(IF bases = {} THEN DefaultBase(store, bucket) ELSE Deepest(bases, side), comps, side)

LookupOf(store, bucket, comps, side) ==
  LookupIn(store, bucket, OnTheWay(store, bucket, comps, side), comps, side)

lookup(store, bucket, path, side) == LookupOf(store, bucket, Components(path), side)

\* A base's path and what is below it.
Below(basePath, rest, path) ==
  join_components((IF basePath = <<>> THEN <<>> ELSE <<basePath>>) \o (IF rest = <<>> THEN <<>> ELSE <<path>>))

\* l: what lookup found; rest: the components below it that are encrypted.
EncryptBelow(l, rest) == Below(l.base.enc, rest, encrypt_iterator(rest, l.base.cipher, l.base.key))
EncryptFrom(l) == IF l.ok THEN Ok(EncryptBelow(l, l.rest)) ELSE Failed

encrypt_path(bucket, path, store) ==
  IF path = <<>> THEN Ok(<<>>) ELSE EncryptFrom(lookup(store, bucket, path, "unenc"))

Under(l, d) == IF d.ok THEN Ok(Below(l.base.unenc, l.rest, d.path)) ELSE Failed
DecryptFrom(l) == IF l.ok THEN Under(l, decrypt_iterator(l.rest, l.base.cipher, l.base.key)) ELSE Failed

decrypt_path(bucket, path, store) ==
  IF path = <<>> THEN Ok(<<>>) ELSE DecryptFrom(lookup(store, bucket, path, "enc"))

\* [ok, key]
DeriveFrom(l) == IF l.ok THEN [ok |-> TRUE, key |-> DeriveAll(l.base.key, l.rest)] ELSE Failed
derive_path_key(bucket, path, store) == DeriveFrom(lookup(store, bucket, path, "unenc"))

ContentKeyOf(k) == IF k.ok THEN [ok |-> TRUE, key |-> <<"content", k.key>>] ELSE Failed
derive_content_key(bucket, path, store) == ContentKeyOf(derive_path_key(bucket, path, store))

-----------------------------------------------------------------------------
(* Listing *)

ParentInfo(l, above) ==
  [ok |-> TRUE, path_cipher |-> l.base.cipher, parent_key |-> DeriveAll(l.base.key, above),
   parent_enc |-> EncryptBelow(l, above)]

PrefixInfo(l) ==
  IF l.ok THEN ParentInfo(l, IF l.rest = <<>> THEN <<>> ELSE Front(l.rest)) ELSE Failed
WholeInfo(l) == IF l.ok THEN ParentInfo(l, l.rest) ELSE Failed

get_prefix_info_whole(bucket, prefix, store) == WholeInfo(lookup(store, bucket, prefix, "unenc"))

(* The last component of the prefix is cut off: what is above it is the
   parent, whose key opens the listed keys. *)
get_prefix_info(bucket, prefix, store) == PrefixInfo(lookup(store, bucket, prefix, "unenc"))

(* ListKeyCodec: with the null cipher the satellite matches the raw prefix,
   otherwise it lists below the parent. *)
list_prefix(prefix, info) == IF info.path_cipher = "NULL" THEN prefix ELSE info.parent_enc

\* A listed key, relative to the prefix, and back to the whole key.
decode_key(prefix, info, relative) ==
  LET Whole(d) == IF d.ok THEN Ok(prefix \o d.path) ELSE Failed
  IN  Whole(decrypt_iterator(Components(relative), info.path_cipher, info.parent_key))

\* What the satellite strips: the prefix, and the separator after a parent.
RelativeKey(enc, prefix, info) ==
  LET p == list_prefix(prefix, info)
      n == IF info.path_cipher = "NULL" \/ p = <<>> THEN Len(p) ELSE Len(p) + 1
  IN  SubSeq(enc, n + 1, Len(enc))

-----------------------------------------------------------------------------
(* The bytes of an encrypted component *)

CONSTANTS
  Bytes,           \* the byte values tried
  MaxSegmentBytes  \* the longest component tried

VARIABLE segment   \* a component's bytes

EmptyPrefix == 1
NotEmptyPrefix == 2
EscapeSlash == 46
EscapeFF == 254
Escape01 == 1

IsEscape(b) == b \in {EscapeSlash, EscapeFF, Escape01}
IsDisallowed(b) == b \in {0, 255, 47}

EscapeByte(b) ==
  CASE b = EscapeSlash     -> <<EscapeSlash, 1>>
    [] b = EscapeSlash + 1 -> <<EscapeSlash, 2>>
    [] b = EscapeFF        -> <<EscapeFF, 1>>
    [] b = EscapeFF + 1    -> <<EscapeFF, 2>>
    [] b = Escape01 - 1    -> <<Escape01, 1>>
    [] b = Escape01        -> <<Escape01, 2>>
    [] OTHER               -> <<b>>

encode_segment(s) ==
  IF s = <<>> THEN <<EmptyPrefix>>
  ELSE <<NotEmptyPrefix>> \o FlattenSeq([i \in DOMAIN s |-> EscapeByte(s[i])])

\* The positions a reader stops at: one byte, or two after an escape.
Stops(s) ==
  FoldLeft(LAMBDA at, i : IF i \in at /\ i <= Len(s)
                          THEN at \cup {IF IsEscape(s[i]) /\ i < Len(s) THEN i + 2 ELSE i + 1} ELSE at,
           {2}, [i \in 1..Len(s) |-> i])

validate_encoded_segment(s) ==
  /\ s # <<>>
  /\ s[1] \in {EmptyPrefix, NotEmptyPrefix}
  /\ s[1] = EmptyPrefix => Len(s) = 1
  /\ s[1] = NotEmptyPrefix => Len(s) > 1
  /\ \A i \in Stops(s) \cap (2..Len(s)) :
       IF IsEscape(s[i]) THEN i < Len(s) /\ s[i + 1] \in {1, 2} ELSE ~IsDisallowed(s[i])

\* Of a valid segment.
decode_segment(s) ==
  LET at == SetToSortSeq(Stops(s) \cap (2..Len(s)), <)
      Byte(i) == CASE ~IsEscape(s[i]) -> s[i]
                   [] s[i] = Escape01 -> s[i + 1] - 1
                   [] OTHER -> (s[i] + s[i + 1] - 1) % 256
  IN  IF s[1] = EmptyPrefix THEN <<>> ELSE [j \in DOMAIN at |-> Byte(at[j])]

TypeByte(b) == Len(segment) < MaxSegmentBytes /\ segment' = Append(segment, b)

(* encode_segment, decode_segment: an encoded component holds no zero byte,
   no 0xff and no separator, is accepted and decodes to itself; and whatever
   is accepted from the satellite is the only encoding of what it decodes
   to, so two listed keys never decode to one. *)
EscapeBijective ==
  LET e == encode_segment(segment)
  IN  /\ \A i \in DOMAIN e : ~IsDisallowed(e[i])
      /\ validate_encoded_segment(e) /\ decode_segment(e) = segment
      /\ validate_encoded_segment(segment) => encode_segment(decode_segment(segment)) = segment
=============================================================================
