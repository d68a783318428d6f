------------------------------ MODULE Satellite ------------------------------
(***************************************************************************)
(* The satellite the client is developed against: the in-repository one of *)
(* storj-test/src/mock.rs.  Every RPC takes the state mutex, so an RPC is  *)
(* one operator from (state, API key, request) to a new state and an       *)
(* answer; the two RPCs that release the mutex half-way (begin_segment and *)
(* retry_pieces) are two operators each.                                   *)
(*                                                                         *)
(* Names and keys are abstract: a bucket is a number (names are ordered),  *)
(* an object key is a sequence of encrypted path components (numbers, 0    *)
(* for an empty one), an API key is its sequence of caveats under the one  *)
(* root of the project, an id is a number.  Encryption is symbolic.        *)
(***************************************************************************)
EXTENDS Integers, Sequences, FiniteSets, SequencesExt

CONSTANTS MinPartSize,    \* constants::MIN_MULTIPART_PART_SIZE, in units
          MaxParts,       \* constants::MAX_MULTIPART_PARTS
          InlineLimit,    \* make_inline's size limit, in units
          PageLimit,      \* the limit of a listing request
          PieceCount,     \* sns.len().min(4): pieces of a segment
          MaxComp,        \* path components are 1..MaxComp
          Foreign,        \* encrypted components the project's keys do not open
          None            \* an absent option, on either side of the wire

\* A request without a limit gets pages of 1000 (mock.rs list_objects).
ASSUME PageLimitAssumption == PageLimit \in Nat \ {0}

IsSome(x) == x # None

-----------------------------------------------------------------------------
(* Symbolic encryption: what is sealed opens only under the key it was     *)
(* sealed with.                                                            *)

Seal(value, key) == [sealed |-> value, under |-> key]
Opens(box, key) == box.under = key

\* encrypt_path: component by component; the encrypted order is not the
\* plaintext order.
encrypt_path(k) == [i \in DOMAIN k |-> IF k[i] = 0 THEN 0 ELSE MaxComp + 1 - k[i]]

\* decrypt_iterator inverts it.
decrypt_path(k) == [i \in DOMAIN k |-> IF k[i] = 0 THEN 0 ELSE MaxComp + 1 - k[i]]

\* It fails for what was encrypted with other keys.
Decrypts(k) == \A i \in DOMAIN k : k[i] \notin Foreign

\* derive_content_key: one key per bucket and plaintext path.
derive_content_key(b, k) == [content |-> b, path |-> k]

-----------------------------------------------------------------------------
(* API keys: a macaroon is its caveat chain.                               *)

\* caveat_prefix: the ancestor's caveats come first in the descendant's.
caveat_prefix(ancestor, descendant) == IsPrefix(ancestor, descendant)

\* Mutant: only the revoked key itself is refused.
key_revoked_exact(key, revoked) == key \in revoked

\* key_revoked: a key is revoked when it or an ancestor of it was.
key_revoked(key, revoked) == \E k \in revoked : caveat_prefix(k, key)

\* can_revoke: only a strict ancestor may revoke.
can_revoke(key, target) == caveat_prefix(key, target) /\ Len(key) < Len(target)

\* check_key: revocation, then the time caveats, both ends.  A handler that panicked
\* holding the state mutex poisons it: every later RPC dies at the lock.
check_key(s, key) ==
    IF s.poisoned THEN "Closed"
    ELSE IF key_revoked(key, s.revoked) THEN "PermissionDenied"
    ELSE IF \E i \in DOMAIN key : \/ IsSome(key[i].notAfter) /\ s.now > key[i].notAfter
                                  \/ IsSome(key[i].notBefore) /\ s.now < key[i].notBefore
         THEN "Unauthenticated"
    ELSE "ok"

\* check_action: no caveat of the chain disallows the action.
check_action(key, action) ==
    IF \E i \in DOMAIN key : action \in key[i].deny THEN "PermissionDenied" ELSE "ok"

\* caveat_max_object_ttl: the tightest lifetime a caveat of the chain imposes.
caveat_max_object_ttl(key) ==
    LET ttls == {key[i].ttl : i \in {j \in DOMAIN key : IsSome(key[j].ttl)}}
    IN  IF ttls = {} THEN None ELSE CHOOSE t \in ttls : \A u \in ttls : t <= u

-----------------------------------------------------------------------------
(* Answers.  Handlers return at the first error, before they change state. *)

Reply(s, answer) == [s |-> s, err |-> "ok", ans |-> answer]
Refuse(s, code) == [s |-> s, err |-> code, ans |-> None]

FirstError(checks) ==
    LET bad == {i \in DOMAIN checks : checks[i] # "ok"}
    IN  IF bad = {} THEN "ok" ELSE checks[CHOOSE i \in bad : \A j \in bad : i <= j]

Allowed(s, key, action) == FirstError(<<check_key(s, key), check_action(key, action)>>)

BucketFound(s, b) == IF b \in DOMAIN s.buckets THEN "ok" ELSE "BucketNotFound"
ObjectFound(s, b, k) == IF <<b, k>> \in DOMAIN s.committed THEN "ok" ELSE "ObjectNotFound"

\* Partial maps (BTreeMap): insert, remove, and the entries with a property.
Put(f, x, v) == [y \in DOMAIN f \cup {x} |-> IF y = x THEN v ELSE f[y]]
Drop(f, x) == [y \in DOMAIN f \ {x} |-> f[y]]
Keep(f, S) == [y \in DOMAIN f \cap S |-> f[y]]

\* The entries of f, and those of g for what f does not hold.
Over(f, g) == [y \in DOMAIN f \cup DOMAIN g |-> IF y \in DOMAIN f THEN f[y] ELSE g[y]]

EmptyMap == [x \in {} |-> None]

\* MockState::start: an empty project.
EmptySatellite ==
    [buckets |-> EmptyMap, pending |-> EmptyMap, committed |-> EmptyMap,
     aborted |-> {}, segmentToStream |-> EmptyMap, stale |-> {}, revoked |-> {},
     nextId |-> 0, now |-> 0, failCommit |-> FALSE, poisoned |-> FALSE]

-----------------------------------------------------------------------------
(* Buckets *)

\* CREATE_BUCKET.
create_bucket(s, key, b, lock) ==
    LET e == FirstError(<<check_key(s, key),
                          IF b \in DOMAIN s.buckets THEN "AlreadyExists" ELSE "ok">>)
    IN  IF e # "ok" THEN Refuse(s, e)
        ELSE Reply([s EXCEPT !.buckets = Put(@, b,
                      [objects |-> 0, locks |-> EmptyMap,
                       config |-> IF lock THEN [enabled |-> TRUE, default |-> None] ELSE None])],
                   [bucket |-> b])

\* GET_BUCKET.
get_bucket(s, key, b) ==
    LET e == FirstError(<<check_key(s, key), BucketFound(s, b)>>)
    IN  IF e # "ok" THEN Refuse(s, e) ELSE Reply(s, [bucket |-> b])

\* DELETE_BUCKET: the objects of a bucket removed with delete_all are not purged.
delete_bucket(s, key, b, deleteAll) ==
    LET e == FirstError(<<check_key(s, key), BucketFound(s, b)>>)
    IN  IF e # "ok" THEN Refuse(s, e)
        ELSE IF s.buckets[b].objects > 0 /\ ~deleteAll THEN Refuse(s, "NotEmpty")
        ELSE Reply([s EXCEPT !.buckets = Drop(@, b)], [bucket |-> b])

\* A listing's page: the first PageLimit entries, and whether more remain.
Page(entries) ==
    [items |-> SubSeq(entries, 1, IF Len(entries) < PageLimit THEN Len(entries) ELSE PageLimit),
     more |-> Len(entries) > PageLimit]

\* LIST_BUCKETS in direction After: names strictly after the cursor (0: none).
list_buckets(s, key, cursor) ==
    LET e == check_key(s, key)
    IN  IF e # "ok" THEN Refuse(s, e)
        ELSE Reply(s, Page(SetToSortSeq({b \in DOMAIN s.buckets : b > cursor}, <)))

-----------------------------------------------------------------------------
(* Object lock *)

NoLock == [retention |-> None, hold |-> FALSE]

\* lock_is_active.
lock_is_active(lock, now) ==
    lock.hold \/ (IsSome(lock.retention) /\ lock.retention.until > now)

LockEnabled(rec) == IsSome(rec.config) /\ rec.config.enabled

\* relocated_lock: the lock of a copied or moved object comes from the
\* request or the destination bucket's default, never from the source.
\* default_lock_retention turns the default's days or years into a date; a
\* configuration with neither is invalid.
relocated_lock(s, rec, retention, hold) ==
    LET default == IF LockEnabled(rec) THEN rec.config.default ELSE None
    IN  IF (IsSome(retention) \/ hold) /\ ~LockEnabled(rec)
        THEN Refuse(s, "LockConfigMissing")
        ELSE IF IsSome(retention) \/ default = None
        THEN Reply(s, [retention |-> retention, hold |-> hold])
        ELSE IF default.days <= 0 /\ default.years <= 0 THEN Refuse(s, "InvalidBucketConfig")
        ELSE Reply(s, [retention |-> [until |-> s.now + IF default.days > 0 THEN default.days
                                                        ELSE 365 * default.years],
                       hold |-> hold])

\* GET/SET_BUCKET_OBJECT_LOCK_CONFIGURATION.
get_lock_config(s, key, b) ==
    LET e == FirstError(<<check_key(s, key), BucketFound(s, b)>>)
    IN  IF e # "ok" THEN Refuse(s, e)
        ELSE IF s.buckets[b].config = None THEN Refuse(s, "LockConfigMissing")
        ELSE Reply(s, s.buckets[b].config)

set_lock_config(s, key, b, config) ==
    LET e == FirstError(<<check_key(s, key), BucketFound(s, b)>>)
    IN  IF e # "ok" THEN Refuse(s, e)
        ELSE Reply([s EXCEPT !.buckets[b].config = config], None)

\* require_committed_object: a version, when given, must be the object's.
require_committed_object(s, b, k, version) ==
    FirstError(<<BucketFound(s, b), ObjectFound(s, b, k),
        IF <<b, k>> \in DOMAIN s.committed /\ version # 0
           /\ version \notin {s.committed[<<b, k>>].version, s.committed[<<b, k>>].stream}
        THEN "ObjectNotFound" ELSE "ok">>)

\* object_lock_rec and object_lock_rec_mut: the record under (key, version).
LockOf(s, b, k, version) ==
    LET locks == s.buckets[b].locks
    IN  IF <<k, version>> \in DOMAIN locks THEN locks[<<k, version>>] ELSE NoLock

\* GET_OBJECT_RETENTION, GET_OBJECT_LEGAL_HOLD.
get_lock(s, key, b, k, version, what) ==
    LET e == FirstError(<<check_key(s, key), require_committed_object(s, b, k, version)>>)
    IN  IF e # "ok" THEN Refuse(s, e)
        ELSE LET lock == LockOf(s, b, k, version)
             IN  IF what = "hold" THEN Reply(s, lock.hold)
                 ELSE IF lock.retention = None THEN Refuse(s, "RetentionMissing")
                 ELSE Reply(s, lock.retention)

\* SET_OBJECT_RETENTION, SET_OBJECT_LEGAL_HOLD.  "owner" is a history field:
\* the object the lock was put on.
set_lock(s, key, b, k, version, value) ==
    LET e == FirstError(<<check_key(s, key), require_committed_object(s, b, k, version)>>)
    IN  IF e # "ok" THEN Refuse(s, e)
        ELSE LET new == Over(value, LockOf(s, b, k, version))
             IN  Reply([s EXCEPT !.buckets[b].locks = Put(@, <<k, version>>,
                          [retention |-> new.retention, hold |-> new.hold,
                           owner |-> s.committed[<<b, k>>].stream])], None)

-----------------------------------------------------------------------------
(* Pending objects and their segments *)

\* check_checksum_options: a value needs an algorithm, and at commit an
\* algorithm needs a value.  A value is a sequence, empty when there is none.
check_checksum_options(checksum, requireValue) ==
    IF checksum.alg = 0
    THEN IF checksum.composite \/ checksum.value # <<>> THEN "InvalidArgument" ELSE "ok"
    ELSE IF requireValue /\ checksum.value = <<>> THEN "InvalidArgument" ELSE "ok"

\* begin_object.
begin_object(s, key, r) ==
    LET e == FirstError(<<Allowed(s, key, "write"), BucketFound(s, r.bucket),
                IF r.bucket \in DOMAIN s.buckets /\ (IsSome(r.retention) \/ r.hold)
                   /\ ~LockEnabled(s.buckets[r.bucket])
                THEN "LockConfigMissing" ELSE "ok",
                check_checksum_options(r.checksum, FALSE)>>)
        ttl == caveat_max_object_ttl(key)
        id == s.nextId + 1
        expires == IF ttl = None THEN r.expires
                   ELSE IF r.expires = None \/ s.now + ttl < r.expires THEN s.now + ttl
                   ELSE r.expires
    IN  IF e # "ok" THEN Refuse(s, e)
        ELSE Reply([s EXCEPT !.nextId = id,
                      !.pending = Put(@, id,
                         [bucket |-> r.bucket, key |-> r.key, segments |-> <<>>,
                          inFlight |-> EmptyMap, retention |-> r.retention,
                          hold |-> r.hold, expires |-> expires])],
                   [stream |-> id])

\* begin_segment, first critical section: a fresh segment id.
begin_segment_id(s, key, stream) ==
    LET e == FirstError(<<Allowed(s, key, "write"),
                          IF stream \in DOMAIN s.pending THEN "ok" ELSE "ObjectNotFound">>)
        id == s.nextId + 1
    IN  IF e # "ok" THEN Refuse(s, e)
        ELSE Reply([s EXCEPT !.nextId = id, !.segmentToStream = Put(@, id, stream)],
                   [segment |-> id])

\* begin_segment, second critical section: the limits are recorded if the
\* object is still pending.  A limit is named by the id it was signed for.
begin_segment_limits(s, stream, id, position) ==
    LET limits == [n \in 0..(PieceCount - 1) |-> id]
    IN  IF s.poisoned THEN Refuse(s, "Closed") ELSE
        Reply(IF stream \in DOMAIN s.pending
              THEN [s EXCEPT !.pending[stream].inFlight =
                       Put(@, id, [position |-> position, limits |-> limits])]
              ELSE s,
              [segment |-> id, limits |-> limits])

\* retry_pieces, first critical section: the old id becomes stale at once.
retry_pieces_id(s, key, old) ==
    LET e == check_key(s, key)
        id == s.nextId + 1
        moved == Drop(s.segmentToStream, old)
    IN  IF e # "ok" THEN Refuse(s, e)
        ELSE Reply([s EXCEPT !.nextId = id, !.stale = @ \cup {old},
                      !.segmentToStream = IF old \in DOMAIN @
                                          THEN Put(moved, id, @[old]) ELSE moved],
                   [segment |-> id,
                    stream |-> IF old \in DOMAIN s.segmentToStream
                               THEN s.segmentToStream[old] ELSE None])

\* retry_pieces, second critical section: the retried numbers get fresh
\* limits, the others keep theirs, and the segment continues under the new id.
retry_pieces_limits(s, stream, old, id, numbers) ==
    IF s.poisoned THEN Refuse(s, "Closed")
    ELSE IF IsSome(stream) /\ stream \in DOMAIN s.pending
       /\ old \in DOMAIN s.pending[stream].inFlight
    THEN LET seg == s.pending[stream].inFlight[old]
             limits == [n \in DOMAIN seg.limits \cup numbers |->
                          IF n \in numbers THEN id ELSE seg.limits[n]]
         IN  Reply([s EXCEPT !.pending[stream].inFlight =
                       Put(Drop(@, old), id, [seg EXCEPT !.limits = limits])],
                   [segment |-> id, limits |-> limits])
    ELSE Reply(s, [segment |-> id, limits |-> [n \in numbers |-> id]])

\* The bytes of each piece of a segment: eestream.CalcPieceSize under
\* test_scheme, 2 shares of 32 bytes to a stripe and a trailer of 4.
CalcPieceSize(size) == ((size + 4 + 63) \div 64) * 32

\* What commit_segment checks of the reported pieces: strictly ordered by
\* number, each of the size the segment calls for.
PiecesInOrder(results) == \A i, j \in DOMAIN results : i < j => results[i].piece < results[j].piece
PiecesOfSize(results, size) == \A i \in DOMAIN results : results[i].size = CalcPieceSize(size)

\* commit_segment: refused for a stale id or pieces that do not pass;
\* otherwise accepted even when the object is no longer pending, and then
\* stored nowhere.
commit_segment(s, key, r) ==
    LET e == FirstError(<<Allowed(s, key, "write"),
                          IF r.segment \in s.stale THEN "InvalidArgument" ELSE "ok",
                          IF PiecesInOrder(r.results) /\ PiecesOfSize(r.results, r.size)
                          THEN "ok" ELSE "InvalidArgument">>)
        known == r.segment \in DOMAIN s.segmentToStream
        stream == s.segmentToStream[r.segment]
        flights == s.pending[stream].inFlight
        begun == r.segment \in DOMAIN flights
        position == IF begun THEN flights[r.segment].position ELSE [part |-> 0, index |-> 0]
        numbers == {r.results[i].piece : i \in DOMAIN r.results}
        pieces == IF begun THEN Keep(flights[r.segment].limits, numbers) ELSE EmptyMap
    IN  IF e # "ok" THEN Refuse(s, e)
        ELSE IF known /\ stream \in DOMAIN s.pending
        THEN Reply([s EXCEPT
                !.pending[stream].inFlight = Drop(@, r.segment),
                !.pending[stream].segments =
                   Append(@, [position |-> position, key |-> r.key, size |-> r.size,
                              etag |-> r.etag, inline |-> FALSE, pieces |-> pieces])], None)
        ELSE Reply(s, None)

\* make_inline.
make_inline(s, key, r) ==
    LET e == FirstError(<<Allowed(s, key, "write"),
                          IF r.size > InlineLimit THEN "InvalidArgument" ELSE "ok">>)
    IN  IF e # "ok" THEN Refuse(s, e)
        ELSE Reply(IF r.stream \in DOMAIN s.pending
                   THEN [s EXCEPT !.pending[r.stream].segments =
                           Append(@, [position |-> r.position, key |-> r.key, size |-> r.size,
                                      etag |-> r.etag, inline |-> TRUE, pieces |-> EmptyMap])]
                   ELSE s, None)

-----------------------------------------------------------------------------
(* Committed objects *)

PositionBefore(a, b) ==
    \/ a.position.part < b.position.part
    \/ a.position.part = b.position.part /\ a.position.index < b.position.index

\* segments.sort_by_key: by part, then index; stable.  A segment's rank is
\* the number of segments up to and including it.
Rank(segments, j) ==
    Cardinality({i \in DOMAIN segments :
                   \/ PositionBefore(segments[i], segments[j])
                   \/ ~PositionBefore(segments[j], segments[i]) /\ i <= j})

by_position(segments) ==
    [n \in DOMAIN segments |-> segments[CHOOSE j \in DOMAIN segments : Rank(segments, j) = n]]

SumSizes(segments) == FoldSeq(LAMBDA seg, total : seg.size + total, 0, segments)

\* check_multipart_limits: with several parts, every part but the last has
\* the minimum size.
check_multipart_limits(segments) ==
    LET parts == {segments[i].position.part : i \in DOMAIN segments}
        PartSize(p) == SumSizes(SelectSeq(segments, LAMBDA seg : seg.position.part = p))
    IN  IF Cardinality(parts) > MaxParts THEN "InvalidArgument"
        ELSE IF \E p \in parts : (\E q \in parts : q > p) /\ PartSize(p) < MinPartSize
        THEN "InvalidArgument" ELSE "ok"

\* Mutant: overwriting an object leaves the old object's lock in place.
commit_lock_kept(locks, p, k) ==
    IF IsSome(p.retention) \/ p.hold
    THEN Put(locks, <<k, 0>>, [retention |-> p.retention, hold |-> p.hold, owner |-> p.stream])
    ELSE locks

\* commit_object's lock record: the pending object's, or none.
commit_lock(locks, p, k) ==
    IF IsSome(p.retention) \/ p.hold
    THEN Put(locks, <<k, 0>>, [retention |-> p.retention, hold |-> p.hold, owner |-> p.stream])
    ELSE Drop(locks, <<k, 0>>)

\* The bucket, if it is still there, counts one more object.
commit_bucket(buckets, p, stream) ==
    IF p.bucket \notin DOMAIN buckets THEN buckets
    ELSE [buckets EXCEPT ![p.bucket].objects = @ + 1,
             ![p.bucket].locks = commit_lock(@, [retention |-> p.retention, hold |-> p.hold,
                                                 stream |-> stream], p.key)]

\* The checksum of a commit opens under the metadata key that comes with it,
\* at the upload's place; the mock can tell when it has the place's key.
checksum_opens(p, r) ==
    Decrypts(p.key) =>
       \A i \in DOMAIN r.checksum.value :
          /\ Opens(r.metaKey, derive_content_key(p.bucket, decrypt_path(p.key)))
          /\ Opens(r.checksum.value[i], r.metaKey.sealed)

\* What commit_object asks of the pending upload.
check_pending(p, r) ==
    FirstError(<<check_multipart_limits(by_position(p.segments)),
                 IF checksum_opens(p, r) THEN "ok" ELSE "InvalidArgument">>)

\* commit_object: publishes the sorted segments under the pending object's
\* location, replacing what was there.  The object count grows either way.
commit_object(s, key, r) ==
    LET e == FirstError(<<Allowed(s, key, "write"),
                IF s.failCommit THEN "Internal" ELSE "ok",
                check_checksum_options(r.checksum, TRUE),
                IF r.stream \in DOMAIN s.pending THEN check_pending(s.pending[r.stream], r)
                ELSE "ObjectNotFound">>)
        p == s.pending[r.stream]
        object == [stream |-> r.stream, version |-> r.stream, meta |-> r.meta,
                   metaKey |-> r.metaKey, checksum |-> r.checksum, expires |-> p.expires,
                   segments |-> by_position(p.segments)]
    IN  IF e = "Internal" THEN Refuse([s EXCEPT !.failCommit = FALSE], e)
        ELSE IF e # "ok" THEN Refuse(s, e)
        ELSE Reply([s EXCEPT
                !.pending = Drop(@, r.stream),
                !.committed = Put(@, <<p.bucket, p.key>>, object),
                !.buckets = commit_bucket(@, p, r.stream)],
                object)

\* saturating_sub.
Decrement(n) == IF n = 0 THEN 0 ELSE n - 1

\* begin_delete: with a stream id, abort a pending upload (always Ok);
\* without, remove the committed object.  Its metadata is answered only to a
\* key that may read or list.
begin_delete(s, key, r) ==
    LET e == FirstError(<<Allowed(s, key, "delete")>>)
        f == FirstError(<<BucketFound(s, r.bucket), ObjectFound(s, r.bucket, r.key)>>)
        visible == "ok" \in {check_action(key, "read"), check_action(key, "list")}
    IN  IF e # "ok" THEN Refuse(s, e)
        ELSE IF r.stream # 0
        THEN Reply([s EXCEPT !.pending = Drop(@, r.stream), !.aborted = @ \cup {r.stream}], None)
        ELSE IF f # "ok" THEN Refuse(s, f)
        ELSE Reply([s EXCEPT !.committed = Drop(@, <<r.bucket, r.key>>),
                             !.buckets[r.bucket].objects = Decrement(@)],
                   IF visible THEN s.committed[<<r.bucket, r.key>>] ELSE None)

\* get_object.
get_object(s, key, b, k) ==
    LET e == FirstError(<<Allowed(s, key, "read"), BucketFound(s, b), ObjectFound(s, b, k)>>)
    IN  IF e # "ok" THEN Refuse(s, e) ELSE Reply(s, s.committed[<<b, k>>])

\* update_object_metadata with includes {custom, checksum}: the metadata key
\* is replaced, so a populated value the request leaves out would be left
\* under the old key and is refused.  A stream id pins the object read before.
update_object_metadata(s, key, r) ==
    LET loc == <<r.bucket, r.key>>
        e == FirstError(<<Allowed(s, key, "write"), BucketFound(s, r.bucket),
                ObjectFound(s, r.bucket, r.key),
                IF loc \in DOMAIN s.committed /\ r.stream # 0
                   /\ r.stream # s.committed[loc].stream THEN "ObjectNotFound" ELSE "ok",
                check_checksum_options(r.checksum, TRUE)>>)
    IN  IF e # "ok" THEN Refuse(s, e)
        ELSE Reply([s EXCEPT !.committed[loc] = [@ EXCEPT !.meta = r.meta, !.metaKey = r.metaKey,
                                                          !.checksum = r.checksum]], None)

\* revoke_api_key.
revoke_api_key(s, key, target) ==
    LET e == FirstError(<<check_key(s, key),
                IF target = key \/ ~can_revoke(key, target) THEN "PermissionDenied" ELSE "ok">>)
    IN  IF e # "ok" THEN Refuse(s, e)
        ELSE Reply([s EXCEPT !.revoked = @ \cup {target}], None)

-----------------------------------------------------------------------------
(* Copy and move *)

LocationOf(s, stream) ==
    LET locs == {l \in DOMAIN s.committed : s.committed[l].stream = stream}
    IN  IF locs = {} THEN None ELSE CHOOSE l \in locs : TRUE

\* begin_copy; begin_move is the same with the delete action checked first.
begin_copy(s, key, r) ==
    LET e == FirstError(<<Allowed(s, key, "write"), BucketFound(s, r.bucket),
                          BucketFound(s, r.newBucket), ObjectFound(s, r.bucket, r.key)>>)
        object == s.committed[<<r.bucket, r.key>>]
    IN  IF e # "ok" THEN Refuse(s, e)
        ELSE Reply(s, [stream |-> object.stream, metaKey |-> object.metaKey,
                       segmentKeys |-> [i \in DOMAIN object.segments |->
                          [position |-> object.segments[i].position,
                           key |-> object.segments[i].key]]])

begin_move(s, key, r) ==
    IF check_action(key, "delete") # "ok" THEN Refuse(s, check_action(key, "delete"))
    ELSE begin_copy(s, key, r)

\* The key a request gives the segment at a position, or the one it had.
RelocatedKey(seg, keys) ==
    LET same == {i \in DOMAIN keys : keys[i].position = seg.position}
    IN  IF same = {} THEN seg.key
        ELSE keys[CHOOSE i \in same : \A j \in same : i <= j].key

\* apply_relocated: the object src under its new location, with the keys of
\* the request, the computed lock, and any lock record of what it replaces gone.
apply_relocated(s, src, r, stream, lock) ==
    LET dest == <<r.newBucket, r.newKey>>
        object == [src EXCEPT !.stream = stream,
                      !.metaKey = IF r.metaKey # <<>> THEN Head(r.metaKey) ELSE @,
                      !.segments = [i \in DOMAIN @ |->
                         [@[i] EXCEPT !.key = RelocatedKey(src.segments[i], r.segmentKeys)]]]
        rec == s.buckets[r.newBucket]
        cleared == Keep(rec.locks, {kv \in DOMAIN rec.locks : kv[1] # r.newKey})
        locked == IF IsSome(lock.retention) \/ lock.hold
                  THEN Put(cleared, <<r.newKey, 0>>,
                          [retention |-> lock.retention, hold |-> lock.hold, owner |-> stream])
                  ELSE cleared
        count == IF dest \in DOMAIN s.committed THEN rec.objects ELSE rec.objects + 1
    IN  [s EXCEPT !.committed = Put(@, dest, object),
                  !.buckets[r.newBucket] = [@ EXCEPT !.objects = count, !.locks = locked]]

\* finish_copy: the source is found by its stream id, wherever it is now.
finish_copy(s, key, r) ==
    LET e == FirstError(<<Allowed(s, key, "write"), BucketFound(s, r.newBucket)>>)
        lock == relocated_lock(s, s.buckets[r.newBucket], r.retention, r.hold)
        loc == LocationOf(s, r.stream)
        t == apply_relocated([s EXCEPT !.nextId = @ + 1], s.committed[loc], r,
                             s.nextId + 1, lock.ans)
    IN  IF e # "ok" THEN Refuse(s, e)
        ELSE IF lock.err # "ok" THEN lock
        ELSE IF loc = None THEN Refuse(s, "ObjectNotFound")
        ELSE Reply(t, t.committed[<<r.newBucket, r.newKey>>])

\* Mutant: the move forgets to take the source away.
finish_move_keeps_source(s, key, r) ==
    LET e == FirstError(<<Allowed(s, key, "write"), check_action(key, "delete"),
                          BucketFound(s, r.newBucket)>>)
        loc == LocationOf(s, r.stream)
    IN  IF e # "ok" THEN Refuse(s, e)
        ELSE IF loc = None THEN Refuse(s, "ObjectNotFound")
        ELSE Reply(apply_relocated(s, s.committed[loc], r, r.stream, NoLock), None)

\* A bucket whose object at key k was taken away with all its lock records.
Vacated(rec, k) ==
    [rec EXCEPT !.objects = Decrement(@),
                !.locks = Keep(rec.locks, {kv \in DOMAIN rec.locks : kv[1] # k})]

\* finish_move: refused while the source is locked; otherwise the source
\* goes and its object, stream id and all, appears at the destination.  The
\* handler indexes the source's bucket: it panics when that bucket was
\* deleted with the object left in place.
finish_move(s, key, r) ==
    LET e == FirstError(<<Allowed(s, key, "write"), check_action(key, "delete"),
                          BucketFound(s, r.newBucket)>>)
        lock == relocated_lock(s, s.buckets[r.newBucket], r.retention, r.hold)
        loc == LocationOf(s, r.stream)
        locks == s.buckets[loc[1]].locks
        t == [s EXCEPT !.committed = Drop(@, loc),
                       !.buckets[loc[1]] = Vacated(@, loc[2])]
    IN  IF e # "ok" THEN Refuse(s, e)
        ELSE IF lock.err # "ok" THEN lock
        ELSE IF loc = None THEN Refuse(s, "ObjectNotFound")
        ELSE IF loc[1] \notin DOMAIN s.buckets
        THEN Refuse([s EXCEPT !.poisoned = TRUE], "Closed")
        ELSE IF \E kv \in DOMAIN locks : kv[1] = loc[2] /\ lock_is_active(locks[kv], s.now)
        THEN Refuse(s, "Protected")
        ELSE Reply(apply_relocated(t, s.committed[loc], r, r.stream, lock.ans), None)

-----------------------------------------------------------------------------
(* Listings and downloads *)

KeyBefore(a, b) ==
    \/ IsStrictPrefix(a, b)
    \/ \E i \in DOMAIN a \cap DOMAIN b :
          a[i] < b[i] /\ \A j \in 1..(i - 1) : a[j] = b[j]

\* strip_list_prefix: the key relative to a prefix of whole components.
strip_list_prefix(k, prefix) ==
    IF IsStrictPrefix(prefix, k) THEN SubSeq(k, Len(prefix) + 1, Len(k)) ELSE <<>>

\* The entry a remaining key is listed as: itself, or its first component and
\* an empty one ("a/") when the listing stops at the delimiter.
ListEntry(rest, recursive) ==
    IF recursive \/ Len(rest) = 1 THEN rest ELSE <<rest[1], 0>>

\* Keys of a set under a prefix and strictly after the cursor, as entries.
ListEntries(keys, r) ==
    {ListEntry(strip_list_prefix(k, r.prefix), r.recursive) :
       k \in {k \in keys : strip_list_prefix(k, r.prefix) # <<>>
                           /\ (r.cursor = <<>> \/ KeyBefore(r.cursor, strip_list_prefix(k, r.prefix)))}}

\* entries.sort_by: an entry's place is the number of entries up to it.
InKeyOrder(entries) ==
    [n \in 1..Cardinality(entries) |->
       CHOOSE e \in entries : Cardinality({d \in entries : d = e \/ KeyBefore(d, e)}) = n]

\* The object an entry of a listing stands for; a delimited prefix is none.
ItemObject(s, r, entry) ==
    IF r.recursive \/ Len(entry) = 1 THEN s.committed[<<r.bucket, r.prefix \o entry>>] ELSE None

\* list_objects, for committed objects.
list_objects(s, key, r) ==
    LET e == FirstError(<<Allowed(s, key, "list"), BucketFound(s, r.bucket)>>)
        keys == {l[2] : l \in {l \in DOMAIN s.committed : l[1] = r.bucket}}
        page == Page(InKeyOrder(ListEntries(keys, r)))
    IN  IF e # "ok" THEN Refuse(s, e)
        ELSE Reply(s, [items |-> page.items, more |-> page.more,
                       objects |-> [i \in DOMAIN page.items |-> ItemObject(s, r, page.items[i])]])

\* list_uploading_objects: pending uploads under a prefix; one entry per
\* upload, or one per delimited prefix; never more than one page.
list_uploading_objects(s, key, r) ==
    LET e == FirstError(<<Allowed(s, key, "list"), BucketFound(s, r.bucket)>>)
        own == {id \in DOMAIN s.pending : s.pending[id].bucket = r.bucket}
        Rest(id) == strip_list_prefix(s.pending[id].key, r.prefix)
        shown == {id \in own : Rest(id) # <<>> /\ ListEntry(Rest(id), r.recursive) = Rest(id)
                               /\ (r.cursor = <<>> \/ KeyBefore(r.cursor, Rest(id)))}
    IN  IF e # "ok" THEN Refuse(s, e)
        ELSE Reply(s, [items |-> SetToSortSeq({[rest |-> Rest(id), id |-> id] : id \in shown},
                          LAMBDA a, b : \/ KeyBefore(a.rest, b.rest)
                                        \/ a.rest = b.rest /\ a.id < b.id),
                       more |-> FALSE])

\* list_pending_object_streams: the uploads of one exact key, by stream id.
list_pending_object_streams(s, key, b, k, cursor) ==
    LET e == FirstError(<<Allowed(s, key, "list"), BucketFound(s, b)>>)
        ids == {id \in DOMAIN s.pending : s.pending[id].bucket = b /\ s.pending[id].key = k
                                           /\ id > cursor}
    IN  IF e # "ok" THEN Refuse(s, e) ELSE Reply(s, Page(SetToSortSeq(ids, <)))

\* The segments a listing shows: in order, and with a byte in the range.
ListedSegments(segments) == SelectSeq(by_position(segments), LAMBDA seg : seg.size > 0)

\* list_segments: of a committed object or a pending upload.
list_segments(s, key, stream) ==
    LET e == Allowed(s, key, "list")
        loc == LocationOf(s, stream)
    IN  IF e # "ok" THEN Refuse(s, e)
        ELSE IF IsSome(loc) THEN Reply(s, ListedSegments(s.committed[loc].segments))
        ELSE IF stream \in DOMAIN s.pending
        THEN Reply(s, ListedSegments(s.pending[stream].segments))
        ELSE Refuse(s, "ObjectNotFound")

\* download_object: the object and its segment list; only the first
\* segment's download comes with it.
download_object(s, key, b, k, version) ==
    LET e == FirstError(<<Allowed(s, key, "read"), require_committed_object(s, b, k, version)>>)
    IN  IF e # "ok" THEN Refuse(s, e)
        ELSE LET object == s.committed[<<b, k>>]
             IN  Reply(s, [stream |-> object.stream,
                           positions |-> [i \in DOMAIN object.segments |->
                                             object.segments[i].position],
                           downloads |-> SubSeq(object.segments, 1,
                                            IF object.segments = <<>> THEN 0 ELSE 1)])

\* Mutant: a stream that is gone falls back on whatever has the position.
download_segment_any(s, key, stream, position) ==
    LET same == {l \in DOMAIN s.committed : \E i \in DOMAIN s.committed[l].segments :
                    s.committed[l].segments[i].position = position}
        loc == IF IsSome(LocationOf(s, stream)) THEN LocationOf(s, stream)
               ELSE IF same = {} THEN None ELSE CHOOSE l \in same : TRUE
    IN  IF loc = None THEN Refuse(s, "ObjectNotFound")
        ELSE Reply(s, SelectSeq(s.committed[loc].segments,
                                LAMBDA seg : seg.position = position)[1])

\* download_segment: by stream id and position.
download_segment(s, key, stream, position) ==
    LET e == Allowed(s, key, "read")
        loc == LocationOf(s, stream)
        at == {i \in DOMAIN s.committed[loc].segments :
                 s.committed[loc].segments[i].position = position}
    IN  IF e # "ok" THEN Refuse(s, e)
        ELSE IF loc = None THEN Refuse(s, "ObjectNotFound")
        ELSE IF at = {} THEN Refuse(s, "SegmentNotFound")
        ELSE Reply(s, s.committed[loc].segments[CHOOSE i \in at : \A j \in at : i <= j])
=============================================================================
