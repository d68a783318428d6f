----------------------------- MODULE ProjectOps -----------------------------
(***************************************************************************)
(* The calls of Project (storj/src/project.rs, objects.rs, bucket.rs,      *)
(* object_lock.rs) as several clients make them at the same time against   *)
(* one satellite.  A call is a sequence of RPCs with client-side work in   *)
(* between; one action is one RPC: the client builds the request from what *)
(* it remembers, the satellite serves it, and the client acts on the       *)
(* answer.  The request or the answer may be lost; a mutating RPC is not   *)
(* sent again (MetainfoClient), so its caller then sees an error whether   *)
(* the satellite applied it or not.                                        *)
(***************************************************************************)
EXTENDS Satellite

CONSTANTS Clients,      \* the clients
          Scenarios,    \* what the clients find and may do, by name: the satellite's
                        \* state, the uploads already open, the API keys the clients may
                        \* have, the calls to draw from, how far the clock runs
          MaxCalls,     \* bound: calls a client makes
          MaxLosses     \* bound: lost requests or answers

VARIABLES
    sat,        \* the satellite
    cl,         \* per client: its API key, the call, the step it is at, what it
                \* remembers, calls made
    scene,      \* the scenario of this behaviour
    losses,     \* lost messages so far
    ret,        \* per client: how its last call ended
    uploads,    \* history: the location each upload id was issued for
    alive,      \* history, per client: keys its listing could report ever since it began
    published,  \* history: what each stream held when it was first committed
    torn        \* history: streams whose metadata changed between a copy's or move's two RPCs

vars == <<sat, cl, scene, losses, ret, uploads, alive, published, torn>>

-----------------------------------------------------------------------------
(* What the client computes between RPCs *)

\* A key drawn at random by client c in its current call, for purpose n.
RandomKey(c, n) == [client |-> c, call |-> cl[c].calls, use |-> n]

\* encrypt_user_data: metadata and checksum under a fresh metadata key,
\* which is sealed under the content key.
encrypt_user_data(custom, checksum, metaKey, contentKey) ==
    [meta |-> Seal(custom, metaKey), metaKey |-> Seal(metaKey, contentKey),
     checksum |-> [checksum EXCEPT !.value = [i \in DOMAIN @ |-> Seal(@[i], metaKey)]]]

\* decrypt_custom and decrypt_object_checksum succeed.
MetadataReadable(object, contentKey) ==
    /\ Opens(object.metaKey, contentKey)
    /\ Opens(object.meta, object.metaKey.sealed)
    /\ \A i \in DOMAIN object.checksum.value :
          Opens(object.checksum.value[i], object.metaKey.sealed)

\* decrypt_custom succeeds, which a listing with custom metadata asks for.
CustomReadable(object, contentKey) ==
    Opens(object.metaKey, contentKey) /\ Opens(object.meta, object.metaKey.sealed)

\* The checksum an object carries, decrypted.
PlainChecksum(checksum) == [checksum EXCEPT !.value = [i \in DOMAIN @ |-> @[i].sealed]]

\* Mutant: the segment keys are sent as they came.
reencrypt_segment_keys_raw(keys, old, new) == keys

\* reencrypt_segment_keys.
reencrypt_segment_keys(keys, old, new) ==
    [i \in DOMAIN keys |-> [keys[i] EXCEPT !.key = Seal(@.sealed, new)]]

\* require_bucket_name, require_object_key.
require_bucket_name(b) == IF b = 0 THEN "BucketNameInvalid" ELSE "ok"
require_object_key(k) == IF k = <<>> THEN "ObjectKeyInvalid" ELSE "ok"

\* ObjectChecksum::validate.
validate_checksum(checksum, requireValue) ==
    IF check_checksum_options(checksum, requireValue) = "ok" THEN "ok" ELSE "MetadataInvalid"

\* The arguments a call checks before it sends anything.
LocalError(op) ==
    FirstError(<<
        IF "bucket" \in DOMAIN op THEN require_bucket_name(op.bucket) ELSE "ok",
        IF "key" \in DOMAIN op THEN require_object_key(op.key) ELSE "ok",
        IF "newBucket" \in DOMAIN op THEN require_bucket_name(op.newBucket) ELSE "ok",
        IF "newKey" \in DOMAIN op THEN require_object_key(op.newKey) ELSE "ok",
        IF "checksum" \in DOMAIN op
        THEN validate_checksum(op.checksum, op.call = "commit_upload") ELSE "ok",
        IF op.call = "set_lock_config" /\ IsSome(op.config.default)
           /\ op.config.default.days > 0 /\ op.config.default.years > 0
        THEN "Protocol" ELSE "ok">>)

\* map_remote: the satellite's codes as the caller sees them.
map_remote(code) ==
    CASE code \in {"PermissionDenied", "Unauthenticated"} -> "PermissionDenied"
      [] code = "AlreadyExists" -> "BucketAlreadyExists"
      [] code = "NotEmpty" -> "BucketNotEmpty"
      [] code \in {"BucketNotFound", "ObjectNotFound", "Closed"} -> code
      [] OTHER -> "Protocol"

-----------------------------------------------------------------------------
(* One RPC *)

Idle(c) == [cl[c] EXCEPT !.step = "idle", !.op = None, !.mem = None]
At(c, step, mem) == [cl[c] EXCEPT !.step = step, !.mem = mem]

KeysOf(s, b) == {l[2] : l \in {l \in DOMAIN s.committed : l[1] = b}}

\* The content key of a location, as encrypted on the satellite.
Location(l) == derive_content_key(l[1], decrypt_path(l[2]))

\* The keys a listing is to report: under its prefix, after its cursor, with
\* an entry that decrypts and, if they are listed as objects with custom
\* metadata, metadata that decrypts.
Listable(op, s) ==
    LET Rest(k) == strip_list_prefix(k, encrypt_path(op.prefix))
    IN  {k \in KeysOf(s, op.bucket) :
           /\ Rest(k) # <<>>
           /\ op.cursor = <<>> \/ KeyBefore(encrypt_path(op.cursor), Rest(k))
           /\ Decrypts(ListEntry(Rest(k), op.recursive))
           /\ op.custom /\ (op.recursive \/ Len(Rest(k)) = 1) =>
                 CustomReadable(s.committed[<<op.bucket, k>>], Location(<<op.bucket, k>>))}

\* The payloads of an object, in order; a payload is named by the random key
\* its segment was encrypted with.
Content(object) == [i \in DOMAIN object.segments |-> object.segments[i].key.sealed]

\* Where its segments are.
Positions(object) == [i \in DOMAIN object.segments |-> object.segments[i].position]

\* What an object was when it was first committed.
Edition(object) ==
    [content |-> Content(object), positions |-> Positions(object),
     checksum |-> PlainChecksum(object.checksum)]

Editions(s) ==
    [id \in {s.committed[l].stream : l \in DOMAIN s.committed} |->
       Edition(s.committed[CHOOSE l \in DOMAIN s.committed : s.committed[l].stream = id])]

\* The history variables follow the satellite and the answer to client c.
History(c) ==
    /\ alive' = [d \in Clients |-> IF cl[d].step = "list_objects"
                                   THEN alive[d] \cap Listable(cl[d].op, sat') ELSE alive[d]]
    /\ published' = Over(published, Editions(sat'))
    /\ uploads' = IF cl[c].step = "begin_upload" /\ ret'[c].err = "ok"
                  THEN Put(uploads, ret'[c].value, <<cl[c].op.bucket, cl[c].op.key>>) ELSE uploads
    /\ LET mem == cl[c].mem
           source == LocationOf(sat, mem.stream)
           copy == cl[c].op.call = "copy_object"
       IN  torn' = IF /\ cl[c].step = "finish_relocate" /\ sat' # sat /\ IsSome(source)
                      /\ \/ mem.stream \in torn
                         \/ sat.committed[source].metaKey.sealed # mem.seen.sealed
                   THEN torn \cup {IF copy THEN sat.nextId + 1 ELSE mem.stream}
                   ELSE torn

\* The satellite serves r: its answer arrives, or the request or the answer
\* is lost.  OnOk and OnErr say where the client goes, and what it returns.
Rpc(c, r, OnOk(_), OnErr(_)) ==
    /\ \/ /\ sat' = r.s
          /\ LET next == IF r.err = "ok" THEN OnOk(r.ans) ELSE OnErr(r.err)
             IN  cl' = [cl EXCEPT ![c] = next.at] /\ ret' = [ret EXCEPT ![c] = next.ret]
          /\ UNCHANGED losses
       \/ /\ losses < MaxLosses
          /\ losses' = losses + 1
          /\ sat' \in {sat, r.s}
          /\ LET next == OnErr("Closed")
             IN  cl' = [cl EXCEPT ![c] = next.at] /\ ret' = [ret EXCEPT ![c] = next.ret]
    /\ History(c)
    /\ UNCHANGED scene

\* The call goes on at a later step, or returns.
Continue(c, step, mem) == [at |-> At(c, step, mem), ret |-> ret[c]]
Return(c, value) == [at |-> Idle(c), ret |-> [call |-> cl[c].op.call, err |-> "ok", value |-> value]]
Fail(c, code) ==
    [at |-> Idle(c), ret |-> [call |-> cl[c].op.call, err |-> map_remote(code), value |-> None]]

Undecryptable(c) ==
    [at |-> Idle(c), ret |-> [call |-> cl[c].op.call, err |-> "DecryptionFailed", value |-> None]]

\* A call of one RPC.
Unary(c, r) == Rpc(c, r, LAMBDA ans : Return(c, ans), LAMBDA e : Fail(c, e))

Key(c) == cl[c].apiKey
Op(c) == cl[c].op
Mem(c) == cl[c].mem
Running(c, step) == cl[c].step = step
EncKey(c) == encrypt_path(Op(c).key)
ContentKey(c) == derive_content_key(Op(c).bucket, Op(c).key)

-----------------------------------------------------------------------------
(* Starting a call.  Calls on an upload id use one that was issued, with    *)
(* the location it was issued for.                                          *)

NoResult == [call |-> "none", err |-> "ok", value |-> None]

FirstStep(call) ==
    CASE call = "upload_part" -> "segment"
      [] call \in {"copy_object", "move_object"} -> "begin_relocate"
      [] OTHER -> call

FirstMem(op) ==
    CASE op.call = "list_objects" -> [cursor |-> encrypt_path(op.cursor), items |-> <<>>]
      [] op.call = "list_buckets" -> [cursor |-> 0, items |-> <<>>]
      [] op.call = "list_uploads_by_key" -> [cursor |-> 0, items |-> <<>>]
      [] op.call = "upload_part" -> [index |-> 0]
      [] OTHER -> None

WithUpload(op, id) ==
    IF op.call \in {"upload_part", "commit_upload", "abort_upload", "list_upload_parts"}
    THEN Over([id |-> id, bucket |-> uploads[id][1], key |-> uploads[id][2]], op)
    ELSE op

Start(c, op) ==
    /\ cl[c].step = "idle" /\ cl[c].calls < MaxCalls
    /\ IF LocalError(op) # "ok"
       THEN /\ ret' = [ret EXCEPT ![c] = [call |-> op.call, err |-> LocalError(op), value |-> None]]
            /\ cl' = [cl EXCEPT ![c].calls = @ + 1]
            /\ UNCHANGED alive
       ELSE /\ cl' = [cl EXCEPT ![c] = [cl[c] EXCEPT !.op = op, !.step = FirstStep(op.call),
                                                     !.mem = FirstMem(op), !.calls = @ + 1]]
            /\ alive' = [alive EXCEPT ![c] = IF op.call = "list_objects"
                                            THEN Listable(op, sat) ELSE {}]
            /\ ret' = [ret EXCEPT ![c] = NoResult]
    /\ UNCHANGED <<sat, scene, losses, uploads, published, torn>>

Call(c) ==
    \E op \in Scenarios[scene].calls :
       IF op.call \in {"upload_part", "commit_upload", "abort_upload", "list_upload_parts"}
       THEN \E id \in DOMAIN uploads : Start(c, WithUpload(op, id))
       ELSE Start(c, op)

-----------------------------------------------------------------------------
(* Buckets and object lock *)

\* create_bucket_with: an existing bucket is looked up for the error.
CreateBucket(c) ==
    /\ \E call \in {"create_bucket", "ensure_bucket"} : Running(c, call)
    /\ Rpc(c, create_bucket(sat, Key(c), Op(c).bucket, Op(c).lock),
           LAMBDA ans : Return(c, ans),
           LAMBDA e : IF e = "AlreadyExists" THEN Continue(c, "existing_bucket", None)
                      ELSE Fail(c, e))

\* create_bucket still fails with the bucket attached; ensure_bucket returns
\* it, or stats it when the lookup failed.
ExistingBucket(c) ==
    /\ Running(c, "existing_bucket")
    /\ Rpc(c, get_bucket(sat, Key(c), Op(c).bucket),
           LAMBDA ans : IF Op(c).call = "ensure_bucket" THEN Return(c, ans)
                        ELSE Fail(c, "AlreadyExists"),
           LAMBDA e : IF Op(c).call = "ensure_bucket" THEN Continue(c, "stat_bucket", None)
                      ELSE Fail(c, "AlreadyExists"))

StatBucket(c) ==
    /\ Running(c, "stat_bucket")
    /\ Unary(c, get_bucket(sat, Key(c), Op(c).bucket))

DeleteBucket(c) ==
    /\ Running(c, "delete_bucket")
    /\ Unary(c, delete_bucket(sat, Key(c), Op(c).bucket, Op(c).all))

\* list_buckets: pages until one is empty or the last.
ListBuckets(c) ==
    /\ Running(c, "list_buckets")
    /\ Rpc(c, list_buckets(sat, Key(c), Mem(c).cursor),
           LAMBDA page : LET items == Mem(c).items \o page.items
                         IN  IF page.items = <<>> \/ ~page.more THEN Return(c, items)
                             ELSE Continue(c, "list_buckets",
                                     [cursor |-> Last(page.items), items |-> items]),
           LAMBDA e : Fail(c, e))

\* get/set_object_retention, get/set_object_legal_hold.  A missing retention
\* is an answer, not an error.
ObjectLock(c) ==
    /\ \/ /\ Running(c, "get_lock")
          /\ Rpc(c, get_lock(sat, Key(c), Op(c).bucket, EncKey(c), Op(c).version, Op(c).what),
                 LAMBDA ans : Return(c, ans),
                 LAMBDA e : IF e = "RetentionMissing" THEN Return(c, None) ELSE Fail(c, e))
       \/ /\ Running(c, "set_lock")
          /\ Unary(c, set_lock(sat, Key(c), Op(c).bucket, EncKey(c), Op(c).version, Op(c).value))

\* get/set_bucket_object_lock_configuration.
BucketLock(c) ==
    /\ \/ /\ Running(c, "get_lock_config")
          /\ Unary(c, get_lock_config(sat, Key(c), Op(c).bucket))
       \/ /\ Running(c, "set_lock_config")
          /\ Unary(c, set_lock_config(sat, Key(c), Op(c).bucket, Op(c).config))

-----------------------------------------------------------------------------
(* Uploads *)

BeginObjectRequest(c) ==
    [bucket |-> Op(c).bucket, key |-> EncKey(c), retention |-> Op(c).retention,
     hold |-> Op(c).hold, checksum |-> Op(c).checksum, expires |-> None]

\* begin_upload.
BeginUpload(c) ==
    /\ Running(c, "begin_upload")
    /\ Rpc(c, begin_object(sat, Key(c), BeginObjectRequest(c)),
           LAMBDA ans : Return(c, ans.stream), LAMBDA e : Fail(c, e))

\* The segment of a part the client is at, and what it sends for it.  The
\* part's ETag goes with its last segment, under that segment's key.
SegmentSize(c) == Op(c).sizes[Mem(c).index + 1]
Position(c) == [part |-> Op(c).part, index |-> Mem(c).index]
SegmentKey(c) == Seal(RandomKey(c, Mem(c).index), ContentKey(c))
PartEtag(c) == IF Mem(c).index + 1 = Len(Op(c).sizes)
               THEN Seal("etag", RandomKey(c, Mem(c).index)) ELSE None

MakeInlineRequest(c) ==
    [stream |-> Op(c).id, position |-> Position(c), key |-> SegmentKey(c),
     size |-> SegmentSize(c), etag |-> PartEtag(c)]

\* The stored pieces, sorted by number; the nodes' hashes state their size.
PieceResults(c) ==
    LET numbers == SetToSortSeq(DOMAIN Mem(c).limits, <)
    IN  [i \in DOMAIN numbers |-> [piece |-> numbers[i], size |-> CalcPieceSize(SegmentSize(c))]]

CommitSegmentRequest(c) ==
    [segment |-> Mem(c).segment, key |-> SegmentKey(c), size |-> SegmentSize(c),
     etag |-> PartEtag(c), results |-> PieceResults(c)]

\* commit_one_segment: a small segment is stored inline.
InlineSegment(c) ==
    /\ Running(c, "segment") /\ SegmentSize(c) <= InlineLimit
    /\ Rpc(c, make_inline(sat, Key(c), MakeInlineRequest(c)),
           LAMBDA ans : IF Mem(c).index + 1 = Len(Op(c).sizes) THEN Return(c, None)
                        ELSE Continue(c, "segment", [index |-> Mem(c).index + 1]),
           LAMBDA e : Fail(c, e))

\* begin_segment's two critical sections; between them other RPCs are served.
BeginSegment(c) ==
    /\ Running(c, "segment") /\ SegmentSize(c) > InlineLimit
    /\ Rpc(c, begin_segment_id(sat, Key(c), Op(c).id),
           LAMBDA ans : Continue(c, "segment_limits",
                           [index |-> Mem(c).index, segment |-> ans.segment]),
           LAMBDA e : Fail(c, e))

SegmentLimits(c) ==
    /\ Running(c, "segment_limits")
    /\ Rpc(c, begin_segment_limits(sat, Op(c).id, Mem(c).segment, Position(c)),
           LAMBDA ans : Continue(c, "pieces",
                           [index |-> Mem(c).index, segment |-> ans.segment, limits |-> ans.limits,
                            retried |-> FALSE]),
           LAMBDA e : Fail(c, e))

\* retry_begin_segment_pieces: some pieces failed; the segment gets a new id.
\* Bound: one retry of a segment.
RetryPieces(c) ==
    /\ Running(c, "pieces") /\ Op(c).retry /\ ~Mem(c).retried
    /\ Rpc(c, retry_pieces_id(sat, Key(c), Mem(c).segment),
           LAMBDA ans : Continue(c, "retry_limits",
                           [index |-> Mem(c).index, old |-> Mem(c).segment,
                            segment |-> ans.segment, stream |-> ans.stream]),
           LAMBDA e : Fail(c, e))

RetryLimits(c) ==
    /\ Running(c, "retry_limits")
    /\ Rpc(c, retry_pieces_limits(sat, Mem(c).stream, Mem(c).old, Mem(c).segment, {1}),
           LAMBDA ans : Continue(c, "pieces",
                           [index |-> Mem(c).index, segment |-> ans.segment, limits |-> ans.limits,
                            retried |-> TRUE]),
           LAMBDA e : Fail(c, e))

CommitSegment(c) ==
    /\ Running(c, "pieces")
    /\ Rpc(c, commit_segment(sat, Key(c), CommitSegmentRequest(c)),
           LAMBDA ans : IF Mem(c).index + 1 = Len(Op(c).sizes) THEN Return(c, None)
                        ELSE Continue(c, "segment", [index |-> Mem(c).index + 1]),
           LAMBDA e : Fail(c, e))

\* A checksum the caller gives is that of this upload.
CommitObjectRequest(c) ==
    LET checksum == [Op(c).checksum EXCEPT !.value = [i \in DOMAIN @ |-> [sumOf |-> Op(c).id]]]
        user == encrypt_user_data(Op(c).custom, checksum, RandomKey(c, "meta"), ContentKey(c))
    IN  [stream |-> Op(c).id, meta |-> user.meta, metaKey |-> user.metaKey,
         checksum |-> user.checksum]

\* commit_upload.
CommitUpload(c) ==
    /\ Running(c, "commit_upload")
    /\ Unary(c, commit_object(sat, Key(c), CommitObjectRequest(c)))

BeginDeleteRequest(c, stream) == [bucket |-> Op(c).bucket, key |-> EncKey(c), stream |-> stream]

\* abort_upload: BeginDeleteObject with the upload's stream id.
AbortUpload(c) ==
    /\ Running(c, "abort_upload")
    /\ Unary(c, begin_delete(sat, Key(c), BeginDeleteRequest(c, Op(c).id)))

-----------------------------------------------------------------------------
(* Objects *)

\* object_from_info: the answer is converted, which decrypts the metadata.
Converted(c, object, contentKey) ==
    IF MetadataReadable(object, contentKey)
    THEN Return(c, [stream |-> object.stream, custom |-> object.meta.sealed])
    ELSE Undecryptable(c)

StatObject(c) ==
    /\ Running(c, "stat_object")
    /\ Rpc(c, get_object(sat, Key(c), Op(c).bucket, EncKey(c)),
           LAMBDA object : Converted(c, object, ContentKey(c)), LAMBDA e : Fail(c, e))

DeleteObject(c) ==
    /\ Running(c, "delete_object")
    /\ Rpc(c, begin_delete(sat, Key(c), BeginDeleteRequest(c, 0)),
           LAMBDA object : IF object = None THEN Return(c, None)
                           ELSE Converted(c, object, ContentKey(c)),
           LAMBDA e : Fail(c, e))

BeginRelocateRequest(c) ==
    [bucket |-> Op(c).bucket, key |-> EncKey(c), newBucket |-> Op(c).newBucket]

FinishRelocateRequest(c) ==
    [stream |-> Mem(c).stream, newBucket |-> Op(c).newBucket,
     newKey |-> encrypt_path(Op(c).newKey), metaKey |-> <<Mem(c).metaKey>>,
     segmentKeys |-> Mem(c).segmentKeys, retention |-> None, hold |-> FALSE]

\* copy_object and move_object, first RPC.  The keys that come back are
\* sealed under the source's content key and re-encrypted for the
\* destination's; one that does not open ends the call.
BeginRelocate(c) ==
    /\ Running(c, "begin_relocate")
    /\ LET req == BeginRelocateRequest(c)
           old == ContentKey(c)
           new == derive_content_key(Op(c).newBucket, Op(c).newKey)
       IN  Rpc(c, IF Op(c).call = "copy_object" THEN begin_copy(sat, Key(c), req)
                  ELSE begin_move(sat, Key(c), req),
               LAMBDA ans :
                  IF /\ Opens(ans.metaKey, old)
                     /\ \A i \in DOMAIN ans.segmentKeys : Opens(ans.segmentKeys[i].key, old)
                  THEN Continue(c, "finish_relocate",
                          [stream |-> ans.stream, seen |-> ans.metaKey,
                           metaKey |-> Seal(ans.metaKey.sealed, new),
                           segmentKeys |-> reencrypt_segment_keys(ans.segmentKeys, old, new)])
                  ELSE Undecryptable(c),
               LAMBDA e : Fail(c, e))

\* copy_object and move_object, second RPC, with what the first one taught.
FinishRelocate(c) ==
    /\ Running(c, "finish_relocate")
    /\ LET req == FinishRelocateRequest(c)
           copy == Op(c).call = "copy_object"
           r == IF copy THEN finish_copy(sat, Key(c), req) ELSE finish_move(sat, Key(c), req)
           new == derive_content_key(Op(c).newBucket, Op(c).newKey)
       IN  Rpc(c, r, LAMBDA ans : IF copy THEN Converted(c, ans, new) ELSE Return(c, None),
               LAMBDA e : Fail(c, e))

\* update_object_metadata, first RPC: the checksum is read back under the old
\* metadata key, which the update replaces.
ReadForUpdate(c) ==
    /\ Running(c, "update_object_metadata")
    /\ Rpc(c, get_object(sat, Key(c), Op(c).bucket, EncKey(c)),
           LAMBDA object :
              IF MetadataReadable(object, ContentKey(c))
              THEN Continue(c, "write_metadata",
                      [stream |-> object.stream,
                       checksum |-> PlainChecksum(object.checksum)])
              ELSE Undecryptable(c),
           LAMBDA e : Fail(c, e))

\* Mutant: the update is not pinned to the object that was read.
UpdateTargetAny(c) == 0

\* The stream id the update names.
UpdateTarget(c) == Mem(c).stream

UpdateMetadataRequest(c) ==
    LET user == encrypt_user_data(Op(c).custom, Mem(c).checksum, RandomKey(c, "meta"),
                                  ContentKey(c))
    IN  [bucket |-> Op(c).bucket, key |-> EncKey(c), stream |-> UpdateTarget(c),
         meta |-> user.meta, metaKey |-> user.metaKey, checksum |-> user.checksum]

WriteMetadata(c) ==
    /\ Running(c, "write_metadata")
    /\ Unary(c, update_object_metadata(sat, Key(c), UpdateMetadataRequest(c)))

\* revoke_access; a key never revokes itself.
RevokeAccess(c) ==
    /\ Running(c, "revoke_access")
    /\ IF Op(c).target = Key(c)
       THEN /\ cl' = [cl EXCEPT ![c] = Idle(c)]
            /\ ret' = [ret EXCEPT ![c] = Fail(c, "PermissionDenied").ret]
            /\ UNCHANGED <<sat, scene, losses, uploads, alive, published, torn>>
       ELSE Unary(c, revoke_api_key(sat, Key(c), Op(c).target))

-----------------------------------------------------------------------------
(* Listings *)

\* The plaintext key of a listed entry.
ListedKey(op, entry) == op.prefix \o decrypt_path(entry)

\* convert_list_item succeeds: the entry's key decrypts and, when custom
\* metadata is asked for, so does the object's.
Converts(op, entry, object) ==
    /\ Decrypts(entry)
    /\ op.custom /\ IsSome(object) =>
          CustomReadable(object, derive_content_key(op.bucket, ListedKey(op, entry)))

\* convert_list_page: the page's entries, in order, less those that do not
\* convert, which are skipped.
convert_list_page(op, page) ==
    LET shown == InKeyOrder({page.items[i] : i \in
                    {i \in DOMAIN page.items : Converts(op, page.items[i], page.objects[i])}})
    IN  [i \in DOMAIN shown |-> ListedKey(op, shown[i])]

\* Mutant: the next page starts after the first item of this one.
NextCursorFirst(page, cursor) == IF page.items = <<>> THEN cursor ELSE Head(page.items)

\* The cursor of the next page: the last key of this one, skipped or not.
NextCursor(page, cursor) == IF page.items = <<>> THEN cursor ELSE Last(page.items)

ListObjectsRequest(c) ==
    [bucket |-> Op(c).bucket, prefix |-> encrypt_path(Op(c).prefix),
     recursive |-> Op(c).recursive, cursor |-> Mem(c).cursor]

\* list_objects: pages until one says there are no more.
ListObjects(c) ==
    /\ Running(c, "list_objects")
    /\ Rpc(c, list_objects(sat, Key(c), ListObjectsRequest(c)),
           LAMBDA page :
              LET items == Mem(c).items \o convert_list_page(Op(c), page)
              IN  IF ~page.more \/ page.items = <<>> THEN Return(c, [items |-> items, op |-> Op(c)])
                  ELSE Continue(c, "list_objects",
                          [cursor |-> NextCursor(page, Mem(c).cursor), items |-> items]),
           LAMBDA e : Fail(c, e))

ListUploadsRequest(c) ==
    [bucket |-> Op(c).bucket, prefix |-> encrypt_path(Op(c).prefix),
     recursive |-> Op(c).recursive, cursor |-> encrypt_path(Op(c).cursor)]

\* list_uploads under a prefix: one page; delimited prefixes and keys that do
\* not decrypt are skipped.
ListUploads(c) ==
    /\ Running(c, "list_uploads")
    /\ Rpc(c, list_uploading_objects(sat, Key(c), ListUploadsRequest(c)),
           LAMBDA page : LET shown == SelectSeq(page.items, LAMBDA item : Decrypts(item.rest))
                         IN  Return(c, [i \in DOMAIN shown |->
                                [key |-> ListedKey(Op(c), shown[i].rest), id |-> shown[i].id]]),
           LAMBDA e : Fail(c, e))

\* list_uploads_by_key: the uploads of one key, paged by stream id.
ListUploadsByKey(c) ==
    /\ Running(c, "list_uploads_by_key")
    /\ Rpc(c, list_pending_object_streams(sat, Key(c), Op(c).bucket, EncKey(c), Mem(c).cursor),
           LAMBDA page : LET items == Mem(c).items \o page.items
                         IN  IF page.items = <<>> \/ ~page.more THEN Return(c, items)
                             ELSE Continue(c, "list_uploads_by_key",
                                     [cursor |-> Last(page.items), items |-> items]),
           LAMBDA e : Fail(c, e))

\* decrypt_part_etag: a segment's ETag opens under the segment's key.
decrypt_part_etag(seg, contentKey) ==
    IsSome(seg.etag) => Opens(seg.key, contentKey) /\ Opens(seg.etag, seg.key.sealed)

\* list_parts_page: the segments of the upload, grouped by part.
list_parts_page(segments) ==
    [p \in {segments[i].position.part : i \in DOMAIN segments} |->
       SumSizes(SelectSeq(segments, LAMBDA seg : seg.position.part = p))]

ListUploadParts(c) ==
    /\ Running(c, "list_upload_parts")
    /\ Rpc(c, list_segments(sat, Key(c), Op(c).id),
           LAMBDA segments :
              IF \A i \in DOMAIN segments : decrypt_part_etag(segments[i], ContentKey(c))
              THEN Return(c, list_parts_page(segments)) ELSE Undecryptable(c),
           LAMBDA e : Fail(c, e))

-----------------------------------------------------------------------------
(* Downloads *)

\* download_object: the first answer names the segments and carries the
\* first; the client opens each with the content key of the path it asked for.
DownloadObject(c) ==
    /\ Running(c, "download_object")
    /\ Rpc(c, download_object(sat, Key(c), Op(c).bucket, EncKey(c), Op(c).version),
           LAMBDA ans :
              LET first == Head(ans.downloads)
              IN  IF ans.downloads = <<>> THEN Return(c, [stream |-> ans.stream, read |-> <<>>])
                  ELSE IF ~Opens(first.key, ContentKey(c)) THEN Undecryptable(c)
                  ELSE IF Len(ans.positions) = 1
                  THEN Return(c, [stream |-> ans.stream, read |-> <<first.key.sealed>>])
                  ELSE Continue(c, "download_segment",
                          [stream |-> ans.stream, rest |-> Tail(ans.positions),
                           read |-> <<first.key.sealed>>]),
           LAMBDA e : Fail(c, e))

\* Later segments are asked for by stream id.
DownloadSegment(c) ==
    /\ Running(c, "download_segment")
    /\ Rpc(c, download_segment(sat, Key(c), Mem(c).stream, Head(Mem(c).rest)),
           LAMBDA seg :
              LET read == Append(Mem(c).read, seg.key.sealed)
              IN  IF ~Opens(seg.key, ContentKey(c)) THEN Undecryptable(c)
                  ELSE IF Len(Mem(c).rest) = 1
                  THEN Return(c, [stream |-> Mem(c).stream, read |-> read])
                  ELSE Continue(c, "download_segment",
                          [stream |-> Mem(c).stream, rest |-> Tail(Mem(c).rest), read |-> read]),
           LAMBDA e : Fail(c, e))

-----------------------------------------------------------------------------
Init ==
    /\ scene \in DOMAIN Scenarios
    /\ sat = Scenarios[scene].start
    /\ \E keys \in Scenarios[scene].keys :
          cl = [c \in Clients |-> [apiKey |-> keys[c], op |-> None, step |-> "idle", mem |-> None, calls |-> 0]]
    /\ losses = 0
    /\ ret = [c \in Clients |-> NoResult]
    /\ uploads = Scenarios[scene].uploads
    /\ alive = [c \in Clients |-> {}]
    /\ published = Editions(sat)
    /\ torn = {}

\* The satellite's clock, which retention and key expiry are compared with.
Tick ==
    /\ sat.now < Scenarios[scene].ticks
    /\ sat' = [sat EXCEPT !.now = @ + 1]
    /\ UNCHANGED <<cl, scene, losses, ret, uploads, alive, published, torn>>

Done ==
    /\ \A c \in Clients : cl[c].step = "idle" /\ cl[c].calls = MaxCalls
    /\ UNCHANGED vars

ClientStep(c) ==
    \/ Call(c) \/ CreateBucket(c) \/ ExistingBucket(c) \/ StatBucket(c) \/ DeleteBucket(c)
    \/ ListBuckets(c) \/ ObjectLock(c) \/ BucketLock(c)
    \/ BeginUpload(c) \/ InlineSegment(c) \/ BeginSegment(c) \/ SegmentLimits(c)
    \/ RetryPieces(c) \/ RetryLimits(c) \/ CommitSegment(c) \/ CommitUpload(c) \/ AbortUpload(c)
    \/ StatObject(c) \/ DeleteObject(c) \/ BeginRelocate(c) \/ FinishRelocate(c)
    \/ ReadForUpdate(c) \/ WriteMetadata(c) \/ RevokeAccess(c)
    \/ ListObjects(c) \/ ListUploads(c) \/ ListUploadsByKey(c) \/ ListUploadParts(c)
    \/ DownloadObject(c) \/ DownloadSegment(c)

Next == Tick \/ Done \/ \E c \in Clients : ClientStep(c)

Spec == Init /\ [][Next]_vars

-----------------------------------------------------------------------------
(* What a project is like between any two RPCs: the shape of the           *)
(* satellite's state, and what its history says of it.                     *)

\* A map, a record with the given fields, a sequence, of whatever values.
IsMap(f) == f = [x \in DOMAIN f |-> f[x]]
HasFields(v, fields) == v = [x \in fields |-> v[x]]
IsList(q) == Len(q) \in Nat /\ q = [i \in 1..Len(q) |-> q[i]]

SatelliteFields ==
    {"buckets", "pending", "committed", "aborted", "segmentToStream", "stale", "revoked",
     "nextId", "now", "failCommit", "poisoned"}
BucketFields == {"objects", "locks", "config"}
PendingFields == {"bucket", "key", "segments", "inFlight", "retention", "hold", "expires"}
ObjectFields == {"stream", "version", "meta", "metaKey", "checksum", "expires", "segments"}
SegmentFields == {"position", "key", "size", "etag", "inline", "pieces"}

Path == Seq(0..MaxComp)
SegmentPositions == [part : Nat, index : Nat]

BucketsOK(buckets) ==
    /\ IsMap(buckets)
    /\ \A b \in DOMAIN buckets : HasFields(buckets[b], BucketFields) /\ IsMap(buckets[b].locks)

SegmentsOK(segments) ==
    /\ IsList(segments)
    /\ \A i \in 1..Len(segments) :
          HasFields(segments[i], SegmentFields) /\ segments[i].position \in SegmentPositions

FlightsOK(flights) ==
    /\ IsMap(flights)
    /\ \A g \in DOMAIN flights :
          /\ HasFields(flights[g], {"position", "limits"})
          /\ flights[g].position \in SegmentPositions

PendingOK(pending, n) ==
    /\ IsMap(pending)
    /\ \A id \in DOMAIN pending :
          /\ id \in 1..n
          /\ HasFields(pending[id], PendingFields)
          /\ SegmentsOK(pending[id].segments)
          /\ FlightsOK(pending[id].inFlight)

ChecksumOK(checksum) ==
    HasFields(checksum, {"alg", "composite", "value"}) /\ IsMap(checksum.value)

CommittedOK(committed, n) ==
    /\ IsMap(committed)
    /\ \A l \in DOMAIN committed :
          /\ l = <<l[1], l[2]>>
          /\ HasFields(committed[l], ObjectFields)
          /\ committed[l].stream \in 1..n
          /\ SegmentsOK(committed[l].segments)
          /\ ChecksumOK(committed[l].checksum)

\* A stream is one object or one open upload.
StreamsApart(pending, committed) ==
    /\ \A l, m \in DOMAIN committed : committed[l].stream = committed[m].stream => l = m
    /\ \A l \in DOMAIN committed : committed[l].stream \notin DOMAIN pending

SegmentIdsOK(segmentToStream, n) ==
    /\ IsMap(segmentToStream)
    /\ DOMAIN segmentToStream \subseteq 1..n

LocksOwn(buckets, committed) ==
    \A l \in DOMAIN committed :
       l[1] \in DOMAIN buckets /\ <<l[2], 0>> \in DOMAIN buckets[l[1]].locks =>
          buckets[l[1]].locks[<<l[2], 0>>].owner = committed[l].stream

SatelliteOK(s) ==
    /\ HasFields(s, SatelliteFields)
    /\ s.nextId \in Nat
    /\ BucketsOK(s.buckets)
    /\ PendingOK(s.pending, s.nextId)
    /\ CommittedOK(s.committed, s.nextId)
    /\ StreamsApart(s.pending, s.committed)
    /\ SegmentIdsOK(s.segmentToStream, s.nextId)
    /\ LocksOwn(s.buckets, s.committed)

\* No two segments at one position.
Distinct(positions) == \A i, j \in DOMAIN positions : positions[i] = positions[j] => i = j

SegmentsOpen(segments, contentKey) ==
    \A i \in DOMAIN segments : Opens(segments[i].key, contentKey)

\* Segments open under the key of the place they are at, or are to go to.
KeysOpen(s) ==
    /\ \A l \in DOMAIN s.committed : SegmentsOpen(s.committed[l].segments, Location(l))
    /\ \A id \in DOMAIN s.pending :
          SegmentsOpen(s.pending[id].segments,
                       Location(<<s.pending[id].bucket, s.pending[id].key>>))

\* So do the custom metadata and the checksum, but for the streams of tn.
MetadataOpen(s, tn) ==
    \A l \in DOMAIN s.committed :
       s.committed[l].stream \notin tn => MetadataReadable(s.committed[l], Location(l))

\* The uploads that were begun for the places ups says.
UploadsOK(s, ups) ==
    /\ IsMap(ups)
    /\ \A id \in DOMAIN ups :
          /\ id \in 1..s.nextId /\ ups[id][2] \in Path
          /\ id \in DOMAIN s.pending =>
                /\ s.pending[id].bucket = ups[id][1]
                /\ s.pending[id].key = encrypt_path(ups[id][2])

\* An object is still what pub says its stream was when first committed.
SameEdition(e, f) ==
    /\ e.positions = f.positions
    /\ Distinct(e.positions) => e.content = f.content
    /\ e.checksum = f.checksum

EditionsOK(s, pub) ==
    /\ IsMap(pub) /\ DOMAIN pub \subseteq 1..s.nextId
    /\ \A id \in DOMAIN s.pending : id \notin DOMAIN pub
    /\ \A l \in DOMAIN s.committed :
          /\ s.committed[l].stream \in DOMAIN pub
          /\ SameEdition(Edition(s.committed[l]), pub[s.committed[l].stream])

ProjectOK(s, ups, pub, tn) ==
    SatelliteOK(s) /\ UploadsOK(s, ups) /\ KeysOpen(s) /\ MetadataOpen(s, tn) /\ EditionsOK(s, pub)

\* Objects are finitely many, and they and the uploads are at encrypted paths.
PlacesOK(s) ==
    /\ IsFiniteSet(DOMAIN s.committed)
    /\ \A l \in DOMAIN s.committed : l[2] \in Path
    /\ \A id \in DOMAIN s.pending : s.pending[id].key \in Path

\* The calls of the public interface, and what their arguments are.
CallNames ==
    {"create_bucket", "ensure_bucket", "stat_bucket", "delete_bucket", "list_buckets",
     "get_lock", "set_lock", "get_lock_config", "set_lock_config",
     "begin_upload", "upload_part", "commit_upload", "abort_upload", "list_upload_parts",
     "stat_object", "delete_object", "copy_object", "move_object", "update_object_metadata",
     "list_objects", "list_uploads", "list_uploads_by_key", "download_object", "revoke_access"}

CallOK(op) ==
    /\ "call" \in DOMAIN op /\ op.call \in CallNames
    /\ op.call \in {"copy_object", "move_object"} => op.newKey \in Path
    /\ op.call \in {"begin_upload", "update_object_metadata"} => op.key \in Path
    /\ op.call = "list_objects" =>
          /\ op.prefix \in Path /\ op.cursor \in Path
          /\ op.recursive \in BOOLEAN /\ op.custom \in BOOLEAN
    /\ op.call = "upload_part" => "part" \in DOMAIN op /\ op.part \in Nat
    /\ op.call = "commit_upload" => "checksum" \in DOMAIN op /\ ChecksumOK(op.checksum)

ASSUME MaxCompAssumption == MaxComp \in Nat /\ Foreign \subseteq 1..MaxComp

\* The clients find a project in order, with any objects and uploads in it.
ASSUME ScenariosAssumption ==
    \A n \in DOMAIN Scenarios :
       /\ ProjectOK(Scenarios[n].start, Scenarios[n].uploads, Editions(Scenarios[n].start), {})
       /\ PlacesOK(Scenarios[n].start)
       /\ \A op \in Scenarios[n].calls : CallOK(op)

-----------------------------------------------------------------------------
(* Refinement: an object is its stream id and its payloads; an open upload *)
(* is the sequence of its committed segments.                              *)

Chunk(seg) == [position |-> seg.position, payload |-> seg.key.sealed]

AsObject(object) ==
    [id |-> object.stream, content |-> Content(object), exact |-> Distinct(Positions(object))]

AsUpload(p) ==
    [at |-> <<p.bucket, p.key>>,
     chunks |-> [i \in DOMAIN p.segments |-> Chunk(p.segments[i])]]

StoreOf == [l \in DOMAIN sat.committed |-> AsObject(sat.committed[l])]
OpenOf == [id \in DOMAIN sat.pending |-> AsUpload(sat.pending[id])]

Store == INSTANCE ObjectStore WITH store <- StoreOf, open <- OpenOf

\* Whatever the clients interleave, lose or repeat, every step of the system
\* is a step of the abstract store: a copy that races an overwrite, a move
\* whose answer is lost or a commit that races a late part changes the map
\* of objects in one piece or not at all (objects.rs copy_object,
\* move_object; project.rs commit_upload).
StoreStep == [][Store!Next]_<<StoreOf, OpenOf>>

-----------------------------------------------------------------------------
(* Safety *)

\* Every segment of every object opens under the content key of the place
\* where the object now is: reencrypt_segment_keys reached each of them,
\* and a source overwritten or moved between the two RPCs was not used with
\* the keys of another.
SegmentKeysOpen ==
    \A l \in DOMAIN sat.committed :
       \A i \in DOMAIN sat.committed[l].segments :
          Opens(sat.committed[l].segments[i].key, Location(l))

\* Custom metadata and checksum open under the location's key, and the
\* checksum is the one the object was committed with: an update writes back
\* the checksum of the object it read, never onto a later object
\* (project.rs update_object_metadata pins the stream id).  Left out: copies
\* of an object whose metadata was replaced between begin and finish, which
\* CopyAtomic is about.
MetadataOpens ==
    \A l \in DOMAIN sat.committed :
       LET object == sat.committed[l]
       IN  /\ object.stream \notin torn => MetadataReadable(object, Location(l))
           /\ PlainChecksum(object.checksum) = published[object.stream].checksum

\* Copies and moves leave every object with metadata and a checksum that
\* open where it now is: "Atomic copy without downloading." (objects.rs:126).
CopyAtomic ==
    \A l \in DOMAIN sat.committed : MetadataReadable(sat.committed[l], Location(l))

\* A recursive listing that finished returned exactly once every key after
\* its cursor that was there from its start to its end and decrypted all
\* along, whatever was added or removed between two pages and however many
\* entries of them were skipped as undecryptable; a delimited one returned
\* the entry each of those keys falls under (objects.rs list_objects,
\* convert_list_page).
ListingComplete ==
    \A c \in Clients :
       ret[c].call = "list_objects" /\ ret[c].err = "ok" =>
          LET op == ret[c].value.op
              items == ret[c].value.items
              present == {decrypt_path(k) : k \in alive[c]}
              Times(x) == Cardinality({i \in DOMAIN items : items[i] = x})
              Entry(k) == IF Len(k) = Len(op.prefix) + 1 THEN k
                          ELSE Append(SubSeq(k, 1, Len(op.prefix) + 1), 0)
          IN  IF op.recursive THEN \A k \in present : Times(k) = 1
              ELSE \A k \in present : Times(Entry(k)) >= 1

\* The lock record a version-less request reads for an object was put on
\* that object, not on one it replaced (mock.rs commit_object and
\* apply_relocated reset it).
LockIsOwn ==
    \A l \in DOMAIN sat.committed :
       l[1] \in DOMAIN sat.buckets /\ <<l[2], 0>> \in DOMAIN sat.buckets[l[1]].locks =>
          sat.buckets[l[1]].locks[<<l[2], 0>>].owner = sat.committed[l].stream

\* A download that finished returned the payloads of one edition of the
\* object: later segments are asked for by stream id, so an overwrite or a
\* move between two of them ends the download instead of mixing editions.
\* (They are asked for by position too: an object with two segments at one
\* position, which commit_object accepts, is left out.)
ReadsOneEdition ==
    \A c \in Clients :
       ret[c].call = "download_object" /\ ret[c].err = "ok" =>
          LET edition == published[ret[c].value.stream]
          IN  Distinct(edition.positions) => ret[c].value.read = edition.content

\* From the moment an ancestor of its key is revoked, no step of a client
\* changes the objects, the buckets or an upload's segments, not even the
\* second RPC of a call it had begun before (mock.rs key_revoked;
\* project.rs revoke_access).  So it is with this satellite, which looks the
\* key up in every RPC; of others revoke_access says "Satellite-cached delay
\* possible" (project.rs:343).
RevokedInert ==
    [][\A c \in Clients :
          (\E k \in sat.revoked : IsPrefix(k, Key(c))) /\ cl'[c] # cl[c] =>
             /\ sat'.committed = sat.committed
             /\ sat'.buckets = sat.buckets
             /\ DOMAIN sat'.pending = DOMAIN sat.pending
             /\ \A id \in DOMAIN sat.pending :
                   sat'.pending[id].segments = sat.pending[id].segments]_vars
=============================================================================
