----------------------------- MODULE AccessGrant -----------------------------
(***************************************************************************)
(* Access grants: the API key's macaroon and its caveats, the encryption   *)
(* store that travels with it, sharing, overriding a prefix's key, parsing *)
(* and serializing, and asking the satellite for a grant.                  *)
(*                                                                         *)
(* One grant is followed along any chain of these operations.  owner is a  *)
(* ghost: the store of the unrestricted grant with the same overrides,     *)
(* which is what the objects were written with; asked is another, what the *)
(* shares of the chain were asked for.                                     *)
(***************************************************************************)
EXTENDS PathCrypto

CONSTANTS
  Buckets, Paths,      \* raw, as sequences of symbols
  Shares,              \* pairs of a permission [allow, lock, limits] and a set of
                       \* [bucket, prefix]: what a share may be asked for
  OverridePrefixes,    \* prefixes an override may name
  PathCiphers,         \* ciphers of the first grant
  MaxOps               \* bound on the operations of a chain

VARIABLES grant, owner, asked, ops

grantVars == <<grant, owner, asked, ops>>

-----------------------------------------------------------------------------
(* The macaroon: an HMAC is the list of what was hashed. *)

Secret == <<"secret">>
sign(key, data) == Append(key, data)

MacaroonFromParts(head) == [head |-> head, caveats |-> <<>>, tail |-> sign(Secret, head)]

add_first_party_caveat(mac, caveat) ==
  [mac EXCEPT !.tail = sign(@, caveat), !.caveats = Append(@, caveat)]

derive_tail(mac, key) == FoldLeft(sign, sign(key, mac.head), mac.caveats)

validate(mac, key) == derive_tail(mac, key) = mac.tail

Packet(t, d) == [type |-> t, data |-> d]
EOS == Packet(0, "none")
LOCATION == 1
IDENTIFIER == 2
VERIFICATION_ID == 4
SIGNATURE == 6

serialize_macaroon(mac) ==
  <<Packet(IDENTIFIER, mac.head), EOS>>
    \o FlattenSeq([i \in DOMAIN mac.caveats |-> <<Packet(IDENTIFIER, mac.caveats[i]), EOS>>])
    \o <<EOS, Packet(SIGNATURE, mac.tail)>>

\* What another client may write: locations, and a verification id.
ForeignMacaroon(mac) ==
  LET wire == serialize_macaroon(mac)
      Foreign(i) == IF wire[i].type # IDENTIFIER THEN <<wire[i]>>
                    ELSE <<Packet(LOCATION, "here"), wire[i]>>
                           \o IF i = 1 THEN <<>> ELSE <<Packet(VERIFICATION_ID, "vid")>>
  IN  FlattenSeq([i \in DOMAIN wire |-> Foreign(i)]) \o <<Packet(LOCATION, "trailing")>>

InOrder(section) == \A i \in 1..(Len(section) - 1) : section[i].type < section[i + 1].type

strip_location(section) ==
  IF section # <<>> /\ section[1].type = LOCATION THEN Tail(section) ELSE section

IsCaveat(s) == /\ s # <<>> /\ s[1].type = IDENTIFIER
               /\ Len(s) <= 2 /\ (Len(s) = 2 => s[2].type = VERIFICATION_ID)

(* The header, the caveats up to an empty section, the signature; what
   follows it is ignored. *)
Sections(wire, ends) ==
  [j \in DOMAIN ends |-> SubSeq(wire, IF j = 1 THEN 1 ELSE ends[j - 1] + 1, ends[j] - 1)]

\* The empty section that ends the caveats.
LastSections(raw) == {j \in 2..Len(raw) : raw[j] = <<>> /\ \A i \in 2..(j - 1) : raw[i] # <<>>}

\* parts: the header and the caveats; sig: what follows them.
FromSections(parts, sig) ==
  IF /\ Len(parts[1]) = 1 /\ parts[1][1].type = IDENTIFIER
     /\ \A j \in 2..Len(parts) : IsCaveat(parts[j])
     /\ sig # <<>> /\ sig[1].type = SIGNATURE
  THEN [ok |-> TRUE, mac |-> [head |-> parts[1][1].data, tail |-> sig[1].data,
                              caveats |-> [j \in 1..(Len(parts) - 1) |-> parts[j + 1][1].data]]]
  ELSE Failed

Assembled(wire, ends, raw, lasts) ==
  IF lasts = {} \/ \E last \in lasts, j \in DOMAIN raw : j <= last /\ ~InOrder(raw[j]) THEN Failed
  ELSE CHOOSE m \in {FromSections([j \in 1..(last - 1) |-> strip_location(raw[j])],
                                  SubSeq(wire, ends[last] + 1, ends[last] + 1)) : last \in lasts} : TRUE

FromRaw(wire, ends, raw) == Assembled(wire, ends, raw, LastSections(raw))
FromEnds(wire, ends) == FromRaw(wire, ends, Sections(wire, ends))

parse_macaroon(wire) ==
  FromEnds(wire, SetToSortSeq({i \in DOMAIN wire : wire[i].type = EOS.type}, <))

-----------------------------------------------------------------------------
(* Permissions and caveats *)

LockBits == {"put_retention", "get_retention", "put_bucket_lock", "get_bucket_lock"}
GrantBits == {"download", "upload", "list", "delete", "put_hold", "get_hold", "bypass"} \cup LockBits
CaveatBits == GrantBits \cup {"locks", "put_notification", "get_notification"}

\* Access::share: the coarse bit becomes the granular ones and is not granted.
to_grant_permission(p) ==
  [allow |-> (p.allow \cap GrantBits) \cup (IF p.lock THEN LockBits ELSE {}), limits |-> p.limits]

(* Limits: a function on those of not_before, not_after and max_object_ttl
   that are given. *)
NoLimits == <<>>

validate_permission(p) ==
  /\ p.allow # {} \/ DOMAIN p.limits # {}
  /\ {"not_before", "not_after"} \subseteq DOMAIN p.limits => p.limits.not_before <= p.limits.not_after
  /\ "max_object_ttl" \in DOMAIN p.limits => p.limits.max_object_ttl # 0

(* A time is a number of ticks around the epoch and travels as seconds and
   ticks of a second, the ticks never negative. *)
TicksPerSecond == 4

timestamp_from_system(t) ==
  LET d == -t
      part == d % TicksPerSecond
  IN  CASE t >= 0 -> [seconds |-> t \div TicksPerSecond, nanos |-> t % TicksPerSecond]
        [] t < 0 /\ part = 0 -> [seconds |-> -(d \div TicksPerSecond), nanos |-> 0]
        [] OTHER -> [seconds |-> -(d \div TicksPerSecond) - 1, nanos |-> TicksPerSecond - part]

system_from_timestamp(ts) == ts.seconds * TicksPerSecond + ts.nanos

\* A duration is never negative and is split as a time after the epoch.
EncodeLimits(l) == [f \in DOMAIN l |-> timestamp_from_system(l[f])]
DecodeLimits(l) == [f \in DOMAIN l |-> system_from_timestamp(l[f])]

\* Caveat::from_permission, and its encoding.
CaveatFrom(p, paths) == [disallow |-> CaveatBits \ p.allow, limits |-> EncodeLimits(p.limits), paths |-> paths]

\* What a verifier of the macaroon lets through.
Effective(mac) == {b \in CaveatBits : \A i \in DOMAIN mac.caveats : b \notin mac.caveats[i].disallow}

-----------------------------------------------------------------------------
(* Limiting the store to what the caveats allow *)

StartsWith(p, q) == p.bucket = q.bucket /\ IsPrefix(q.path, p.path)

Groups(mac) == {mac.caveats[i].paths : i \in DOMAIN mac.caveats} \ {{}}

collapse_prefixes_any(mac) ==
  {p \in UNION Groups(mac) : \E g \in Groups(mac) : \E q \in g : StartsWith(p, q)}

collapse_prefixes(mac) ==
  {p \in UNION Groups(mac) : \A g \in Groups(mac) : \E q \in g : StartsWith(p, q)}

AddEntry(store, e) == add_with_cipher(store, e.bucket, e.unenc, e.enc, e.key, e.cipher)

\* An entry that conflicts with the others is left out.
AddAll(store, entries) == FoldSet(LAMBDA e, s : AddEntry(s, e).store, store, entries)

\* The first entry that conflicts fails the call.
AddEach(store, entries) ==
  FoldSet(LAMBDA e, r : IF r.ok THEN AddEntry(r.store, e) ELSE r, [ok |-> TRUE, store |-> store], entries)

\* The base a prefix of a caveat stands for, if the store can open it.
Opened(src, p, d, l) ==
  IF ~d.ok \/ ~l.ok THEN {}
  ELSE {[bucket |-> p.bucket, unenc |-> d.path, enc |-> p.path, key |-> k.key, cipher |-> l.base.cipher] :
          k \in {k \in {derive_path_key(p.bucket, d.path, src)} : k.ok}}

BasesFor(p, src) ==
  Opened(src, p, decrypt_path(p.bucket, p.path, src), lookup(src, p.bucket, p.path, "enc"))

Derived(src, prefixes) ==
  AddAll(EmptyStore(src.default_path_cipher), UNION {BasesFor(p, src) : p \in prefixes})

\* Every entry below a prefix that every caveat allows is kept as it is.
EntriesUnder(src, prefixes) ==
  {e \in src.entries : \E p \in prefixes : StartsWith([bucket |-> e.bucket, path |-> e.enc], p)}

Limited(src, prefixes) ==
  {r.store : r \in {r \in {AddEach(Derived(src, prefixes), EntriesUnder(src, prefixes))} : r.ok}}

limit_to_derived(src, mac) == IF Groups(mac) = {} THEN {src} ELSE {Derived(src, collapse_prefixes(mac))}

\* The limited store, or nothing.
limit_to(src, mac) == IF Groups(mac) = {} THEN {src} ELSE Limited(src, collapse_prefixes(mac))

-----------------------------------------------------------------------------
(* The grant: [api_key, enc, original], original being the serialized form *)
(* it was parsed from when serialize may echo it                           *)

NoOriginal == <<>>
FromParts(mac, enc) == [api_key |-> mac, enc |-> enc, original |-> NoOriginal]

serialize(g) ==
  IF g.original # NoOriginal THEN g.original[1]
  ELSE [api_key |-> serialize_macaroon(g.api_key), enc |-> g.enc]

(* A store of several entries comes back from the hash map in any order, so
   a limited one may or may not compare equal to what was read. *)
Echoes(scope, mac, limited) ==
  IF limited # scope.enc THEN {NoOriginal}
  ELSE {<<scope>>} \cup (IF Groups(mac) = {} \/ Cardinality(limited.entries) <= 1 THEN {} ELSE {NoOriginal})

Read(scope, mac, limited) ==
  {[api_key |-> mac, enc |-> limited, original |-> o] : o \in Echoes(scope, mac, limited)}

Accepted(scope, mac) == UNION {Read(scope, mac, limited) : limited \in limit_to(scope.enc, mac)}

parse(scope) ==
  UNION {Accepted(scope, m.mac) : m \in {m \in {parse_macaroon(scope.api_key)} : m.ok}}

Restricted(g, mac) == {FromParts(mac, limited) : limited \in limit_to(g.enc, mac)}

\* encs: the outcome of encrypting each prefix, with its bucket.
RestrictTo(g, permission, encs) ==
  IF ~validate_permission(permission) \/ \E x \in encs : ~x.enc.ok THEN {}
  ELSE Restricted(g, add_first_party_caveat(g.api_key,
         CaveatFrom(permission, {[bucket |-> x.bucket, path |-> x.enc.path] : x \in encs})))

restrict(g, permission, prefixes) ==
  RestrictTo(g, permission, {[bucket |-> p.bucket, enc |-> encrypt_path(p.bucket, TrimSlash(p.prefix), g.enc)] :
                               p \in prefixes})

\* The store with the key of a prefix replaced, or nothing.
OverrideAt(store, bucket, unenc, enc, key) ==
  IF ~enc.ok THEN {}
  ELSE {added.store : added \in {added \in {add_with_cipher(store, bucket, unenc, enc.path, key,
                                                             store.default_path_cipher)} : added.ok}}

override_in(store, bucket, prefix, key) ==
  IF ~EndsWithSlash(prefix) THEN {}
  ELSE OverrideAt(store, bucket, TrimSlash(prefix), encrypt_path(bucket, TrimSlash(prefix), store), key)

-----------------------------------------------------------------------------
RootStore(cipher) == [EmptyStore(cipher) EXCEPT !.default_key = RootKey("root")]

(* The first grant is read from another client's, or this one's, string; its
   owner may have overridden a whole bucket. *)
GrantInit ==
  \E c \in PathCiphers, wire \in {serialize_macaroon(MacaroonFromParts("head")),
                                  ForeignMacaroon(MacaroonFromParts("head"))} :
    /\ owner \in {RootStore(c)} \cup UNION {override_in(RootStore(c), b, <<Sep>>, RootKey("bucket")) : b \in Buckets}
    /\ grant \in parse([api_key |-> wire, enc |-> owner])
    /\ asked = [bits |-> CaveatBits, limits |-> <<>>] /\ ops = 0

Op == ops < MaxOps /\ ops' = ops + 1

(* Access::share *)
Share(p, prefixes) ==
  /\ Op
  /\ grant' \in restrict(grant, to_grant_permission(p), prefixes)
  /\ asked' = [bits |-> asked.bits \cap (p.allow \cup (IF p.lock THEN LockBits ELSE {})),
               limits |-> Append(asked.limits, p.limits)]
  /\ UNCHANGED owner

\* The bases a grant holds below a prefix: an override of it leaves them.
BasesBelow(store, bucket, prefix) ==
  {e \in store.entries : /\ e.bucket = bucket /\ e.unenc # TrimSlash(prefix)
                         /\ IsPrefix(Components(TrimSlash(prefix)), Components(e.unenc))}

(* Access::override_encryption_key *)
Override(bucket, prefix) ==
  /\ Op
  /\ \E s \in override_in(grant.enc, bucket, prefix, RootKey("override")) :
       grant' = FromParts(grant.api_key, s)
  /\ \E s \in override_in(owner, bucket, prefix, RootKey("override")) :
       owner' = AddAll(s, BasesBelow(grant.enc, bucket, prefix))
  /\ UNCHANGED asked

\* The grant is stored as a string, or handed on as one, and read again.
Reparse ==
  /\ Op
  /\ grant' \in parse(serialize(grant))
  /\ UNCHANGED <<owner, asked>>

\* Another client wrote the string.
ReparseForeign ==
  /\ Op
  /\ grant' \in parse([serialize(grant) EXCEPT !.api_key = ForeignMacaroon(grant.api_key)])
  /\ UNCHANGED <<owner, asked>>

(* Access::request_with_passphrase, with the grant's own API key *)
Request ==
  /\ Op
  /\ \E limited \in limit_to(RootStore("AES"), grant.api_key) : grant' = FromParts(grant.api_key, limited)
  /\ owner' = RootStore("AES")
  /\ UNCHANGED asked

GrantNext ==
  \/ \E share \in Shares : Share(share[1], share[2])
  \/ \E b \in Buckets, q \in OverridePrefixes : Override(b, q)
  \/ Reparse \/ ReparseForeign \/ Request

-----------------------------------------------------------------------------
\* p is at or below a prefix of every caveat, component by component.
Allowed(bucket, path) ==
  LET enc == encrypt_path(bucket, path, owner).path
  IN  \A g \in Groups(grant.api_key) : \E q \in g :
        q.bucket = bucket /\ IsPrefix(Components(q.path), Components(enc))

(* Grant::restrict, override_encryption_key, limit_to: after any chain of
   operations the holder reads and writes under the same encrypted key and
   the same content key as the owner, and can do so at every path that all
   the caveats allow: an override below a shared prefix survives sharing. *)
SharedKeysExact ==
  LET Exact(b, p, mine) ==
        /\ mine.ok => /\ mine = derive_content_key(b, p, owner)
                      /\ encrypt_path(b, p, grant.enc) = encrypt_path(b, p, owner)
        /\ Allowed(b, p) => mine.ok
  IN  \A b \in Buckets, p \in Paths : Exact(b, p, derive_content_key(b, p, grant.enc))

(* limit_to, collapse_prefixes, parse: once a caveat names paths the holder
   has no root key and can derive keys only below prefixes that every caveat
   allows, wherever the grant was parsed, shared again or asked for anew;
   the macaroon still verifies and grants nothing but what every share of
   the chain asked for, in the times and with the object lifetime they asked
   for; and its own string can be read, and gives the same grant. *)
GrantConfined ==
  LET mac == grant.api_key
      back == parse(serialize(grant))
  IN  /\ Groups(mac) # {} => grant.enc.default_key = NoKey
      /\ \A b \in Buckets, p \in Paths :
           derive_path_key(b, p, grant.enc).ok =>
             \A g \in Groups(mac) : \E q \in g :
               StartsWith([bucket |-> b, path |-> encrypt_path(b, p, grant.enc).path], q)
      /\ validate(mac, Secret) /\ Effective(mac) \subseteq asked.bits
      /\ [i \in DOMAIN mac.caveats |-> DecodeLimits(mac.caveats[i].limits)] = asked.limits
      /\ back # {} /\ \A g \in back : g.api_key = mac /\ g.enc = grant.enc

(* encrypt_path, decrypt_path, get_prefix_info, ListKeyCodec: whatever the
   store became, a path that can be encrypted decrypts to itself, and a
   listing of a prefix hands back the whole key of every object below it
   (unless a deeper base lies between the two: those keys are not under the
   listing's key). *)
PathsRoundTrip ==
  LET BaseBetween(b, p, q) ==
        \E e \in OnTheWay(grant.enc, b, Components(p), "unenc") :
          e.unenc # <<>> /\ Depth(e, "unenc") >= Len(Components(q))
      ListedBack(p, q, enc, info) ==
        info.ok => /\ IsPrefix(list_prefix(q, info), enc.path)
                   /\ decode_key(q, info, RelativeKey(enc.path, q, info)) = Ok(p)
      RoundTrip(b, p, enc) ==
        enc.ok => /\ decrypt_path(b, enc.path, grant.enc) = Ok(p)
                  /\ \A q \in {<<>>} \cup {r \in Paths : EndsWithSlash(r)} :
                       IsPrefix(q, p) /\ ~BaseBetween(b, p, q) =>
                         ListedBack(p, q, enc, get_prefix_info(b, q, grant.enc))
  IN  \A b \in Buckets, p \in Paths \ {<<>>} : RoundTrip(b, p, encrypt_path(b, p, grant.enc))
=============================================================================
