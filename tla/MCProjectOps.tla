---------------------------- MODULE MCProjectOps ----------------------------
(* Two clients, two buckets, keys of one or two components, and scenarios   *)
(* each built by running the satellite's own handlers.  Component 3 is one  *)
(* the clients' keys do not open; it encrypts to 1, the first in order.     *)
EXTENDS ProjectOps

CONSTANTS c1, c2

Seed(n) == [client |-> "seed", call |-> 0, use |-> n]
Plain == [alg |-> 0, composite |-> FALSE, value |-> <<>>]
Summed == [alg |-> 1, composite |-> FALSE, value |-> <<"given">>]

\* An upload of key k in bucket b with the given segment sizes as part 1.
Opened(s, b, k) ==
    begin_object(s, <<>>, [bucket |-> b, key |-> encrypt_path(k), retention |-> None,
                           hold |-> FALSE, checksum |-> Plain, expires |-> None]).s

Filled(s, b, k, sizes) ==
    LET id == s.nextId + 1
        Fill(t, i) == make_inline(t, <<>>, [stream |-> id, position |-> [part |-> 1, index |-> i - 1],
                         key |-> Seal(Seed(<<id, i>>), derive_content_key(b, k)),
                         size |-> sizes[i], etag |-> None]).s
    IN  IF Len(sizes) = 1 THEN Fill(Opened(s, b, k), 1) ELSE Fill(Fill(Opened(s, b, k), 1), 2)

Stored(s, b, k, sizes) ==
    LET id == s.nextId + 1
        user == encrypt_user_data("old", [Summed EXCEPT !.value = <<[sumOf |-> id]>>],
                                  Seed(<<id, "meta">>), derive_content_key(b, k))
    IN  commit_object(Filled(s, b, k, sizes), <<>>, [stream |-> id, meta |-> user.meta,
                      metaKey |-> user.metaKey, checksum |-> user.checksum]).s

Bucket(s, b, lock) == create_bucket(s, <<>>, b, lock).s
Defaults(s, b, days) ==
    set_lock_config(s, <<>>, b, [enabled |-> TRUE, default |-> [days |-> days, years |-> 0]]).s

OneBucket == Bucket(EmptySatellite, 1, FALSE)
TwoBuckets == Defaults(Bucket(OneBucket, 2, TRUE), 2, 1)

Caveat(deny, notBefore, notAfter, ttl) ==
    [deny |-> deny, notBefore |-> notBefore, notAfter |-> notAfter, ttl |-> ttl]
Child == <<Caveat({}, None, None, 1)>>
Grandchild == <<Caveat({}, None, None, 1), Caveat({"delete"}, None, 0, None)>>
LaterChild == <<Caveat({}, None, None, 1), Caveat({}, 1, None, None)>>
Keys(k1, k2) == {f \in [{c1, c2} -> {k1, k2}] : {f[c1], f[c2]} = {k1, k2}}
BothRoot == Keys(<<>>, <<>>)
RootAndChild == Keys(<<>>, Child)
RootAndGrandchild == Keys(<<>>, Grandchild) \cup Keys(<<>>, LaterChild)

Scene(start, uploadsOpen, keys, ticks, calls) ==
    [start |-> start, uploads |-> uploadsOpen, keys |-> keys, ticks |-> ticks, calls |-> calls]

Relocate(call, b, k, nb, nk) ==
    [call |-> call, bucket |-> b, key |-> k, newBucket |-> nb, newKey |-> nk]
On(call, b, k) == [call |-> call, bucket |-> b, key |-> k]
Download(b, k) == [version |-> 0] @@ On("download_object", b, k)
Update(b, k) == [custom |-> "new"] @@ On("update_object_metadata", b, k)
Begin(b, k) ==
    [retention |-> None, hold |-> FALSE, checksum |-> Plain] @@ On("begin_upload", b, k)
BeginHeld(b, k) == [Begin(b, k) EXCEPT !.hold = TRUE]
Part(n, sizes, retry) == [call |-> "upload_part", part |-> n, sizes |-> sizes, retry |-> retry]
Commit(checksum) == [call |-> "commit_upload", custom |-> "new", checksum |-> checksum]
Abort == [call |-> "abort_upload"]
ListParts == [call |-> "list_upload_parts"]
ListAfter(b, prefix, recursive, cursor, custom) ==
    [call |-> "list_objects", bucket |-> b, prefix |-> prefix, recursive |-> recursive,
     cursor |-> cursor, custom |-> custom]
List(b, prefix, recursive) == ListAfter(b, prefix, recursive, <<>>, FALSE)
Uploads(b) ==
    [call |-> "list_uploads", bucket |-> b, prefix |-> <<>>, recursive |-> FALSE, cursor |-> <<>>]
Lock(call, b, k, what, value) == [what |-> what, value |-> value, version |-> 0] @@ On(call, b, k)
OnBucket(call, b) == [call |-> call, bucket |-> b]
Create(call, b) == [lock |-> FALSE] @@ OnBucket(call, b)
Remove1(b, all) == [all |-> all] @@ OnBucket("delete_bucket", b)
Config(days, years) ==
    [config |-> [enabled |-> TRUE, default |-> [days |-> days, years |-> years]]]
       @@ OnBucket("set_lock_config", 2)
Revoke(target) == [call |-> "revoke_access", target |-> target]

\* Copies, moves, updates and overwrites of one object of two segments.
Relocating ==
    Scene(Filled(Stored(TwoBuckets, 1, <<1>>, <<1, 1>>), 1, <<1>>, <<1, 1>>), 2 :> <<1, <<1>>>>,
          BothRoot, 0,
          {Relocate("copy_object", 1, <<1>>, 1, <<2>>), Relocate("move_object", 1, <<1>>, 2, <<1>>),
           Relocate("move_object", 2, <<1>>, 1, <<2>>), Update(1, <<1>>), Download(1, <<1>>),
           Commit(Summed)})

\* Parts of one upload, retried, racing its commit or abort.
Multipart ==
    Scene([Filled(OneBucket, 1, <<1>>, <<1>>) EXCEPT !.failCommit = TRUE], 1 :> <<1, <<1>>>>,
          BothRoot, 0,
          {Part(2, <<2>>, TRUE), Part(1, <<1, 2>>, FALSE), Commit(Plain), Abort, ListParts})

\* Listings while keys come and go.
Listing ==
    Scene(Stored(Stored(Stored(Filled(Filled(Filled(OneBucket, 1, <<1>>, <<1>>), 1, <<1>>, <<1>>),
                                      1, <<1>>, <<1>>),
                               1, <<1>>, <<1>>), 1, <<2, 1>>, <<1>>), 1, <<2, 2>>, <<1>>),
          EmptyMap, BothRoot, 0,
          {List(1, <<>>, TRUE), List(1, <<>>, FALSE), List(1, <<2>>, TRUE), Uploads(1),
           On("list_uploads_by_key", 1, <<1>>), On("delete_object", 1, <<2, 1>>),
           Relocate("copy_object", 1, <<1>>, 1, <<2>>), List(0, <<>>, TRUE)})

\* Listings that skip what does not decrypt: the first page is all foreign
\* keys, and a copy that races an update has unreadable metadata.
Skipping ==
    Scene(Stored(Stored(Stored(Filled(OneBucket, 1, <<3>>, <<1>>), 1, <<3>>, <<1>>),
                        1, <<3, 1>>, <<1>>), 1, <<1>>, <<1>>),
          EmptyMap, BothRoot, 0,
          {ListAfter(1, <<>>, TRUE, <<>>, TRUE), ListAfter(1, <<>>, FALSE, <<2>>, FALSE),
           List(1, <<>>, FALSE), Uploads(1), Relocate("copy_object", 1, <<1>>, 1, <<2>>),
           Update(1, <<1>>)})

\* Locks of objects that are overwritten, copied and moved.
Locking ==
    Scene(Filled(Stored(TwoBuckets, 2, <<1>>, <<1>>), 2, <<1>>, <<1>>), 2 :> <<2, <<1>>>>,
          BothRoot, 1,
          {Lock("set_lock", 2, <<1>>, "hold", [hold |-> TRUE]), Lock("get_lock", 2, <<1>>, "retention", None),
           Lock("set_lock", 2, <<1>>, "retention", [retention |-> [until |-> 1]]), BeginHeld(2, <<1>>),
           Config(0, 0), Config(1, 1), OnBucket("get_lock_config", 2), Commit(Plain),
           Relocate("copy_object", 2, <<1>>, 2, <<2>>), Relocate("move_object", 2, <<1>>, 1, <<1>>),
           Relocate("move_object", 2, <<2>>, 2, <<1>>)})

\* A restricted key whose parent is revoked in the middle of its calls.
Revoking ==
    Scene(Filled(Stored(TwoBuckets, 1, <<1>>, <<1>>), 1, <<2>>, <<1>>), 2 :> <<1, <<2>>>>,
          RootAndGrandchild, 1,
          {Revoke(Child), Revoke(Grandchild), Revoke(LaterChild), Relocate("copy_object", 1, <<1>>, 2, <<1>>),
           Part(2, <<2>>, FALSE), Update(1, <<1>>), Begin(1, <<1>>),
           On("delete_object", 1, <<1>>)})

\* Buckets created, listed and deleted, with and without their objects.
Bucketing ==
    Scene(Stored(Stored(TwoBuckets, 1, <<1>>, <<1>>), 2, <<1>>, <<1>>), EmptyMap, RootAndChild, 0,
          {Create("create_bucket", 1), Create("ensure_bucket", 1), Remove1(1, TRUE),
           Remove1(2, FALSE), OnBucket("list_buckets", 1), OnBucket("stat_bucket", 1),
           On("stat_object", 2, <<1>>),
           Relocate("move_object", 1, <<1>>, 2, <<2>>), On("delete_object", 2, <<1>>)})

MCClients == {c1, c2}
MCSymmetry == Permutations(MCClients)
MCScenarios ==
    [relocate |-> Relocating, multipart |-> Multipart, list |-> Listing, lock |-> Locking,
     revoke |-> Revoking, bucket |-> Bucketing, skip |-> Skipping]

\* A copy of an object whose metadata is updated at the same time.
MCCopyScenarios ==
    [copy |-> Scene(Stored(OneBucket, 1, <<1>>, <<1>>), EmptyMap, BothRoot, 0,
                    {Relocate("copy_object", 1, <<1>>, 1, <<2>>), Update(1, <<1>>)})]
=============================================================================
