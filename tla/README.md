# TLA+ models of uplink-rs

A verification development for the native Rust Uplink client (`src/`): TLA+
modules that model its concurrent core and its data path, TLC configurations that check them on
small instances, and theorems about them that TLAPS proves for every instance.
`PROJECT.json` lists the runs, the source lines each definition stands for, the
mutants that show each property has teeth, the hazards the properties are aimed
at, and the findings.

## The system

uplink-rs is a client library. Its owner opens a project from an access grant and
uploads and downloads objects. Object metadata goes to a *satellite* over DRPC;
content is encrypted, cut into segments, erasure coded into *pieces* and exchanged
with *storage nodes* chosen by the satellite. Everything is asynchronous: the
owner's futures, spawned tasks (flush, producer, piece tasks, detached deletes)
and the two kinds of remote parties run concurrently, and any future may be
dropped at any await.

```
 owner ── Upload ──── flush task ─┐                    ┌─ storage nodes
   │        └ commit/abort/drop ──┼─ segment upload ───┤   (SnPool: connections)
   │                              │                    │
   └──── Download ── producer ────┼─ segment download ─┘
                                  └─ MetainfoClient ──── satellite
```

### Inventory

| Component | State | Operations | What is hard | What makes it correct |
|---|---|---|---|---|
| Storage-node pool (`pool.rs`) | idle deques per node, `idle_count`, `in_use`, a `Notify` | `checkout`, drop of `Slot`/`Pooled`/`HeldPooled` | lock released before notify and before registering; cancellation at each await | exact counters, cap, no stranded waiter, no half-used connection reused |
| Upload handle (`storj/upload.rs`, `project.rs`) | buffer, segment counters, background flush, sticky error | write, flush, shutdown, commit, abort, drop | one flush in flight; lost/late RPCs; dropped futures; abort guard | published objects are complete, never taken back; nothing pending left behind |
| Segment upload (`segment.rs`) | assignments, segment id, results, a `JoinSet` | rounds, join, abort-and-drain, retry of limits | results during cancellation; limits replaced between rounds | results match the latest segment id; nothing stored goes unreported; no early give-up |
| Segment download (`download.rs`, `project.rs`) | queue of assignments, `JoinSet`, hedge budget, shares | collect, promote, hedge, decode, extra pieces | slow, failing and corrupt nodes together | bounded speculation, exhaustion before failure, corruption replaced, slow nodes masked |
| Download stream (`storj/upload.rs`, `project.rs`) | segment answers, producer task, channel of one, read buffer | list, fetch, produce, read, close/drop | out-of-order and missing answers, short segments, dying producer | EOF only after all bytes, in order; honest outcome; reads return |
| Metainfo client (`metainfo.rs`, `conn.rs`) | permits, idle connections, stream ids | call, retry, recycle, close | reuse of connections with left-over packets; retries of what was done | cap, at-most-once mutations, own answers, calls return |
| Piece transfer (`piecestore.rs`, `orders.rs`) | order allocation, hash | upload, download | node waits for orders, client for data | no mutual wait; only verified hashes accepted |
| DRPC connection (`conn.rs`, `frame.rs`) | poison flag, input buffer, assembler, pending packets, stream ids | open, invoke, send, receive, drain, close | writes dropped half-way, cut reads, queue limits, deadlines | a torn frame is never followed by another; messages whole, in order, of their stream; bounded queue; calls return |
| Transport dial (`transport.rs`, `socket.rs`, `noise.rs`, `tls.rs`) | racing attempts and addresses, one deadline, telemetry | dial, fallback, deferred Noise | head start against deadline, losers dropped anywhere | an authenticated peer or an error that was due; every attempt reported once |
| Buckets, objects, listing, copy/move, metadata, revocation (`objects.rs`, `bucket.rs`, `project.rs`) | cursors, what a call read before its next RPC | one method each, of one to many RPCs | other clients between two RPCs; lost answers | the object map changes in whole steps and stays decryptable; listings miss nothing; one edition per download |
| Multipart (`project.rs`, `multipart.rs`) | upload id, part and segment positions | begin, part, commit, abort, listings | parts racing commit or abort, retried pieces | what is published is what was stored, in order |
| Object lock (`object_lock.rs`) | none (the satellite's) | retention, legal hold, bucket defaults | overwrites, copies and moves | a lock belongs to the object it was put on |
| Ranges, segments, share-set search (`download.rs`, `pipeline.rs`, `transform.rs`, `pad.rs`) | none; the search: current k-set, failed blocks | range mapping, encrypt, encode, decode, search | block/stripe boundaries, skipped subsets | exactly the asked bytes; an authentic k-set is found if there is one |
| Erasure code (`storj-ec`) | none | encode, decode plans | pivoting, slots of missing shares | any k shares decode |
| Paths and key store (`path.rs`, `store.rs`) | key store | encrypt, decrypt, list prefix, escape | empty components, nested bases | round trips; listed keys decode |
| Access grants (`grant.rs`, `macaroon.rs`, `restrict.rs`, `access.rs`) | macaroon, key store | share, override, parse, serialize, request | chains of operations | a holder has the owner's keys where it may go, and none beyond |
| Test satellite (`storj-test/src/mock.rs`) | buckets, objects, uploads, locks, revoked keys | one handler per RPC | two handlers release the mutex half-way | counterpart of the above |
| Identity, configuration, wire types | none or immutable | conversions | – | – |

## Modules

Each component module declares its parameters as CONSTANTS with a named ASSUME,
has one action per operation, step or await, and ends with its properties. Data is
abstract: a byte is its position, a limit is a piece and the segment id that
introduced it, a connection is its state. An operator introduced by "Mutant:"
is a deliberately wrong variant of the definition that follows it and is used by
no specification; `PROJECT.json` says which property catches it. `MC*` modules
hold only what TLC needs (constant values, symmetry).

### SnPool (`storj-uplink/src/pool.rs`, piece tasks of `segment.rs` and `download.rs`)

A step is one hold of the mutex, one operation on the tokio `Notify`, or the end of
one await. The code decides to wait under the lock, releases it, and only then
polls `notified()`; it releases a slot under the lock and only then calls
`notify_one`. Both gaps are states (`parking`, `notifying`). `Cancel` is the drop
of a piece task at any await; a task that is dropped after being woken hands its
notification on, as tokio does. The idle deques are a set of connections with the
instant they were returned; `Tick` lets some of them outlive `idle_timeout`.
`Notify` is external and modelled from its documented contract: at most one stored
permit, waiters woken in order. `Keep`/`PutBack` are the conditions under which
the piece tasks recycle a connection.

### UploadHandle (`storj/src/upload.rs`, commit and abort of `project.rs`, `telemetry.rs`)

The owner, the flush task, detached deletes and the satellite interleave. A
mutating request may be lost, answered, answered with the answer lost, or be
applied after its caller gave up (`late`). `commit()` and `abort()` are modelled
await by await, with a cancellation at each; `AbortOnDrop`, the retry of
`abort_upload` and `Drop for Upload` are the delete tasks the code spawns. The
segment upload itself is the single request of `Job` here and the subject of
`LongTailUpload`. The satellite is external: it accepts segments and CommitObject
for a pending object only, and a delete with `Status::Uploading` only touches a
pending one.

### LongTailUpload and Cohort (`storj-uplink/src/segment.rs`)

`upload_pieces_long_tail` and `upload_round`: rounds of piece tasks, the
cancellation and drain once the placement requirement is met, the retry of failed
pieces' limits and the rotation of the segment id. The requirement is the constant
operator `Verdicts`, so the proofs hold for any; `Cohort` is the code's own
`cohort_valid` / `withhold_tags`, with the nondeterminism of its `HashMap` order
(ties between equally frequent tag values), and the run uses it. `stored` is a
history variable: limits whose upload finished before the task set was given up.

### LongTailDownload (`storj-uplink/src/download.rs`, decode loop of `project.rs`)

`collect_piece_downloads` with its launch margin, failure promotion and hedge timer,
and the loop that fetches extra pieces while no k-subset authenticates. A transfer
ends with a piece (intact or corrupt, which only decoding can tell) or without one.
Nodes in `slow` are given no fairness at all.

### DownloadStream (`storj/src/upload.rs`, `download_segments` of `project.rs`)

Listing and fetching of segment answers, the producer task and its channel, and the
read side with its buffer and `remaining` count. The satellite's lists may be
incomplete and its first answers arrive in any order; the producer may die silently
between two segments (a panic, a runtime shutdown).

### MetainfoClient (`storj/src/metainfo.rs`, `Conn::invoke` of `storj-rpc/src/conn.rs`)

Calls wait for a permit in order, take the most recently used idle connection or
dial, exchange packets with stream ids, and recycle or drop the connection. The
satellite closes each stream after its answer, so a recycled connection starts with
a left-over packet that must be skipped. `invoke_with` retries idempotent calls only.

### PieceTransfer (`storj-uplink/src/piecestore.rs`, streams of `storj-rpc/src/conn.rs`)

Uploads and downloads of pieces that follow one another on one connection. The
client pays with orders: an upload adds one to a chunk the last order does not
cover, a download tops up when little is left of what it ordered. `SendMsg` includes
what `send_msg` does first, draining what has arrived and looking for the end of the
stream; packets of an earlier stream are skipped. A transfer that fails, is refused or
cannot close its stream costs the connection, since piece tasks keep it only after a
success. The node is external: it takes data it holds an order for, sends up to
the ordered amount and waits, or (not honest) fails, ends early, sends too much or
answers with a hash that does not verify, or sends responses with no chunk or an empty
one (`NodeStalls`), each of which the client reads past with a new deadline. Signatures
are outcomes.

### Satellite, ProjectOps and ObjectStore (`objects.rs`, `bucket.rs`, `object_lock.rs`, `project.rs`, `metainfo.rs`; `storj-test/src/mock.rs`)

`Satellite` is the repository's own test satellite, handler by handler: an operator
from state, API key and request to a new state and an answer. It is what the client
is developed and tested against; nothing is claimed of any other satellite.
`ProjectOps` puts several clients before it, each running calls of `Project` one RPC
per step, so that others act between two RPCs of a copy, a metadata update, a
listing, a part or a download, and a request or an answer may be lost. A client
computes what the code computes between RPCs: encrypted keys (in an order that is
not the plaintext order), re-encrypted segment and metadata keys, the next cursor,
local argument errors. A listing starts after the caller's cursor and passes over the
entries of a page that it cannot turn into an object (`convert_list_page`): a key that
does not decrypt (`Foreign`: components that another key wrote) or, when custom metadata
is asked for, metadata that does not open. Encryption is symbolic: a sealed value
remembers its key.
History variables: which keys were there, after the cursor and readable, during all of a
listing (`alive`), what each
stream held when it was committed (`published`), the location an upload id was issued
for, and copies or moves whose source's metadata changed between their two RPCs
(`torn`). `ObjectStore` is the abstract specification: a map from locations to
immutable objects and uploads that collect chunks. `StoreStep` states that every step of
ProjectOps is a step of `ObjectStore` under the mapping `StoreOf`, `OpenOf`. The satellite
accepts two segments at one position (a part uploaded twice); a request names segments
by position only, so such an object is not `exact` and the store does not promise that
its content survives a copy or a move.

### DialRace and DrpcConn (`storj-rpc/src/transport.rs`, `conn.rs`, `frame.rs`)

`DialRace` is one dial: which transports a plan tries, the head start of each leg
over the next, addresses that answer, refuse, stall or are somebody else, the one
deadline, the Noise handshake deferred to the first write, and the drop guard that
reports each attempt. A tick is the 250 ms of the code's head starts. `DrpcConn`
extends it with the connection that was dialled: one call at a time, each await a
step that can complete, fail, meet its deadline or be dropped. A frame is two units
on the wire, so a write or a read can end inside it; the server's parser notices
(`srv.garbled`). The non-blocking probe (`drain_ready`), its queue and watermarks and
the `PacketAssembler` are the code's. Each read has its own deadline: `waited` says that
the read in progress has used it up, a packet that `recv_msg` or `invoke` passes over
starts another read (`SameRead`, `PeerPings`).

### SegmentCodec (`download.rs`, `pipeline.rs`, `transform.rs`, `pad.rs`, segment loop of `project.rs`)

An object is written (padded, cut in blocks, sealed, spread over stripes and shares)
and a range of it read back: `resolve_range`, segments of the range, blocks, stripes
and piece bytes, and the search for k shares that authenticate, one k-set per step,
with the code's filter on blocks that failed before. A byte is its position in the
object; a share byte is the stripe bytes it was computed from; a sealed block opens
only if it is intact, under its nonce.

### ReedSolomon (`storj-ec`)

The field with its real polynomial, tables and inverse, the systematic Vandermonde
matrix, elimination with pivots and swaps undone, the slots of a decode plan. Shares
get lost down to k. Nothing here is symbolic.

### PathCrypto and AccessGrant (`storj-encryption`, `storj-access`, `storj/src/access.rs`)

`PathCrypto`: components with empty ones and trailing slashes, the key store with its
longest-prefix lookup from either side, path, listing and content keys, and the byte
escaping of components. `AccessGrant`: chains of `share`, `override_encryption_key`,
`parse`/`serialize` and `request_with_passphrase` on one grant; macaroons as packets
with a symbolic HMAC chain, caveats with their times and object lifetime, each of which
may be absent; `limit_to` and `collapse_prefixes` as the code has them,
the latter over groups of prefixes of each caveat. A derived base that conflicts with
the store is left out, a kept entry that does fails the call. `owner` follows the same overrides
with every key and says what a key should be. `parse` compares the limited access
with the stored one in `HashMap` order; whether it keeps the original string is
therefore a choice.

`MCClientData` puts these four side by side: a behaviour is about one of them
(`part`), and each property is stated where its part moves. `MCUpload` (the handle,
the pieces of a segment) and `MCDownload` (collecting pieces, streaming segments, one
node's transfers) do the same with those modules; what does not run rests in a state it
can end in.

### How they compose

UploadHandle's segment request is implemented by LongTailUpload followed by
CommitSegment; LongTailUpload's and LongTailDownload's `TaskEnds` is the whole life
of one SnPool task (checkout, dial, RPC, return), whose RPC is one PieceTransfer; DownloadStream's `Fetched` is
LongTailDownload ending in `plain` or `error`; every satellite request is one
MetainfoClient call, and its packets travel as DrpcConn's frames. ProjectOps composes
with Satellite directly, DrpcConn with DialRace (one specification), AccessGrant with
PathCrypto. LongTailDownload relies on SegmentCodec's `SearchComplete` (k intact shares
suffice), SegmentCodec on ReedSolomon's `CodeDecodes`. The interfaces are kept to outcomes (`ok`, `err`, late) so that
each module stays checkable; the outcomes a user module allows include all those
the used module can produce.

## Runs

| Run | Instance | Properties |
|---|---|---|
| `pool` | 4 tasks, 2 nodes, cap 2 | `PoolAccounting` (types, exact counters, cap), `IdleQuiet`, `NoStrandedWaiter`, `EveryTaskEnds` |
| `pool_lost_wakeup` | 4 tasks, 1 node, cap 2 | violation, see Findings |
| `upload` | handle: segments of 2 units, 7 units, writes up to 3; segment: 4 pieces, 4 rounds, `And(3, Withhold(region, 1, 1))` | `UploadIntegrity` (whole objects, none poisoned, one true outcome), `CommittedStays`, `UploadSettles` (futures return, nothing pending stays); `Reporting` (limits, ids and results in step with the satellite, all reported), `Persistence` (no early give-up), `Terminates` |
| `upload_shutdown` | same | violation, see Findings |
| `download` | collecting: 5 assignments, k = 2, margin 1, 2 extras, hedging on and off, up to 2 slow; streaming: 4 ranges over 2–4 segments; one node: 2 transfers of 0, 3 or 15 units, buffer 2, steps 3 to 7, 2 packets seen by a probe | `LaunchesRight` (budget, width, distinct shares), `GivesUpLast`, `DownloadEnds` (slow nodes masked); `StreamSound` (EOF means all, order, outcome, at most three segments in memory), `ReadAnswered`, `CloseStops`; `OrdersCover`, `OrdersStop`, `TransfersEnd` |
| `download_memory` | same | violation, see Findings |
| `full_range_orders` | same | violation, see Findings |
| `metainfo_client` | 1 idempotent and 2 mutating calls, cap 2, 2 attempts | `CallsExact` (at most once, own answer, cap), `CallsReturn` |
| `project_ops` | 2 clients, 2 calls each, one lost message, seven scenarios | `SegmentKeysOpen`, `MetadataOpens`, `ListingComplete`, `LockIsOwn`, `ReadsOneEdition`, `StoreStep` (refinement of `ObjectStore`), `RevokedInert` |
| `copy_atomic` | 2 clients, one copy and one metadata update | violation, see Findings |
| `connection` | every dial plan over 2 addresses, 3 ticks, then calls on the connection | `DialHonest`, `AttemptsReported`, `NeverGarbled`, `ReadsExact`, `QueueBounded`, `ConnCallsEnd` |
| `client_data` | objects of 0–10 bytes, codes up to n = 256, grants along 3 operations, components of 4 bytes | `ObjectExact`, `SearchComplete`, `CodeDecodes`, `HolderKeysExact`, `HolderConfined`, `PathsExact` |

Properties that belong to one claim are conjunctions of named parts (`UploadIntegrity`
is `TypeOK`, `PublishedComplete`, `PoisonNeverPublished` and `OneOutcome`); the text
below and the theorems speak of the parts.

Deadlock is checked in every run but `client_data`, whose parts simply end (an object
read, k shares left, a chain of three operations). The other specifications name their
legitimate end (`AllDone`, `Quiet`, `Returned`, `Closed`, `Idle`, `Rest`, `Done`) as a
stuttering disjunct.

**Properties worth a note.** `PublishedComplete` relates what the satellite
publishes to everything the owner wrote: contiguous segments, full except for the
last, and metadata that describes them, under every order of flush results, lost
answers and cancellations. `CleanedUp` has one exception, recorded in the history
variable `gaveUp`: a delete that is lost after its only retry, or an abort future
dropped by its owner (nothing takes over its delete). `MetMeansOk` is for
requirements that another stored piece cannot break; a withhold nested in a
withhold is not of that kind, since an added piece may change which tag value is
the most frequent. `EofMeansAll` speaks of reads before any error: after an error
the handle answers EOF, and a segment missing in the middle is delivered as a gap
whose error comes only at the end of the stream.

`MetadataOpens` leaves out `torn` copies: a metadata update between the two RPCs of a
copy or move replaces the metadata key, and the second RPC then installs the
re-encrypted old key beside the new metadata. The test satellite accepts that; the
client cannot see it. `ReadsOneEdition` leaves out objects with two segments at one
position, which a download's request cannot tell apart; `SegmentKeysOpen` holds for them too.
That case is the run `copy_atomic`. `ListingComplete` promises nothing about keys that
came or went during the listing, nor about those that did not decrypt, or whose custom
metadata did not open when it was asked for, at some moment of it: those are skipped, as
the test `list_skips_undecryptable_sibling` wants. It does promise that skipped entries
hide no other key, also when a whole page is skipped. `RevokedInert` is about the
repository's satellite, which looks at revocations with every request; a satellite may
cache them, as the comment on `revoke_access` warns.
`ConnCallsEnd` and `TransfersEnd` each name the one way a call can last for ever: a peer
that goes on sending packets that are passed over, or responses without data, each
before the deadline of the read. `OrdersStop` says what a watermark costs: an upload
whose stream has ended sends nothing more, a download, whose queue may hide the end,
signs at most one more order.
`DialHonest` has the exception the code has: over TCP the first address that accepts
decides, and an impostor there fails the dial. `PathsExact` excludes listings of a
prefix above a base that the grant overrides, whose keys are not under the listing's.

### Bounds and why they are enough

- *Pool.* Four tasks over a cap of two give two owners and two waiters at once, the
  smallest instance in which two releases meet two registrations; two nodes give an
  idle connection of the wrong node to evict. The theorems remove these bounds.
- *Upload.* Seven units in segments of two make three full segments and a last
  partial one: a flush in flight, a full buffer behind it, and a remainder for
  commit; writes of three cross a segment boundary.
- *Segment upload.* Four pieces with three required, the code's four rounds: every
  mix of stored, failed, cancelled and replaced pieces.
- *Segment download.* Five assignments with k = 2: more assignments than
  k + margin + hedges, so promotion, hedging and exhaustion all occur.
- *Stream.* Ranges with whole, clipped and skipped segments at both ends and in the
  middle, and an empty one.
- *Metainfo.* Three calls over two permits so that one waits; two attempts (three in
  the code) show one retry; one identity more than the cap (three for eight in
  the code) leaves room for a violation to appear.
- *Project calls.* Two clients with two calls each give every interleaving of two
  multi-RPC calls and a follow-up; pages of two with three or more keys need a second
  page; objects of two segments make a download take two requests; keys of one and
  two components in a reversed encrypted order; a chain of three API keys, one of them
  not valid yet; entries that do not decrypt before, between and behind those that do,
  enough of them to fill a page. One
  lost message is enough to separate what was applied from what was answered.
  The clients are interchangeable (a scenario offers every assignment of its API keys
  to them), so the run uses their permutations as a symmetry.
- *Connection.* Two addresses are a winner and a loser; three ticks let two head starts
  pass before the deadline. Packets of up to two frames, a packet limit, watermark and
  queue of two: the next frame overflows each. `PeerPings` takes no packet id, so a
  server can send such packets for ever in a finite instance.
- *Client data.* Segments of seven, blocks of four (three with their tag) and stripes
  that divide neither, every size up to ten and every range from before the start to
  beyond the end: each boundary falls on, before and after every other. With four
  shares, k = 2 and up to three corrupted, every k-set and arrival order that matters is
  searched. Permissions are empty or not, with no time, both or one, in the right order
  or not, with a lifetime of zero or more, before and after the epoch. Codes are checked on unit stripes, which suffices because encoding is
  linear. Grants have nested, look-alike (`a/` and `ab/`) and empty prefixes. Component
  bytes are the escaped ones, their neighbours and an ordinary one; an escape is two
  bytes, so components of four hold two of them.
- *Piece transfer.* Steps that are no multiple of the buffer (as 550 KiB is none of
  64 KiB), so a chunk can straddle an ordered amount; 13 units take four orders,
  the last cut by the limit or the size; a limit equal to the size and one above it;
  two transfers, so the second meets the left-overs of the first. The probe sees two
  packets (256 in the code), fewer than half a step of data in messages of one or two
  units, so the end of a stream does lie hidden behind data. A node sends its next
  response without data when the client has read the last (`NodeStalls`), which is
  enough for it to do so for ever.
### Fairness and why the code justifies it

Only weak fairness is used. The runtime polls a task that is runnable, and an
awaited dial, read or write ends by `dial_timeout` or `message_timeout`
(`SnPool!Fairness`, `HandleFairness`, `StreamFairness`, `MetainfoClient!FairSpec`). A
tokio semaphore is fair, hence `WF(Acquire)`. Owners, cancellations and ticks are never
forced.

A deadline is that of one read or write, not of a call. In `DrpcConn` (`ConnSpec`) the
runtime as a whole is fair (`WF(Runtime)`: it polls the dial and the call and fires
their timers), the server, the network and the owner are not; a read that has waited
out its deadline ends the call unless something arrives first, and what arrives may
start another read. `ConnCallsEnd` therefore holds with its exception, a server that
sends for ever, and `TransfersEnd` with a node that does. In `PieceTransfer` the client
is polled, its reads have a deadline, and only an honest node is assumed to read and
send.

The modules above these two take the outcome of a call or a transfer as one step and
give it weak fairness: they assume that no peer keeps a call alive with packets that
carry nothing (`LongTailUpload!SegmentFairness`, `SnPool!Fairness`, `HandleFairness`,
`MetainfoClient!FairSpec`, `StreamFairness`). `SegmentFairness` is `WF(Next)`: every
step of that module is progress of a transfer or of the driving task. In
`LongTailDownload` slow nodes, which such a peer is, get no fairness at all, which is
what `SlowNodesMasked` is about. In `DownloadStream` the death of the producer is
possible but not fair. `ProjectOps` and the data path state safety only.

## Theorems

Eight modules of proofs, over the nine modules of the client that change state. Every safety invariant and
action property below is a theorem for all values of the constants that satisfy the
named ASSUMEs; each ASSUME says no more than what the code's constants and types
give (a positive segment size, a finite set of pieces, buffers no larger than steps),
and TLC evaluates it on the instance of the run.

| Module | Assumptions | Proved | Inductive invariant |
|---|---|---|---|
| `SegmentUploadProofs` (SnPool) | `PoolAssumption` | `PoolAccounting`, `NoStrandedWaiter`, `IdleQuiet`, and their parts | `PoolInv` |
| `SegmentUploadProofs` (LongTailUpload) | `LongTailUploadAssumption`; `Steady` for `Persistence` | `Reporting`, `Persistence` | `UploadInv`, `PersistInv` |
| `LongTailDownloadProofs` | `LongTailDownloadAssumption` | `LaunchesRight`, `GivesUpLast` | `Inv` |
| `UploadHandleProofs` | `UploadAssumption` | `UploadIntegrity`, `CommittedStays` | `Inv` |
| `DownloadStreamProofs` | `DownloadStreamAssumption` | `StreamSound` | `Inv` |
| `MetainfoClientProofs` | `MetainfoAssumption` | `CallsExact` | `Inv` |
| `PieceTransferProofs` | `PieceTransferAssumption` | `OrdersCover`, and `OrdersGrow` of `OrdersStop` | `ClientInv`, `HonestInv` |
| `ConnectionProofs` | `DialAssumption`, `ConnAssumption` | `DialHonest`, `AttemptsReported`, `NeverGarbled`, `QueueBounded`, `ReadsExact` | `DialInv`, `WireInv`, `QueueInv`, `ReadInv` |
| `ProjectOpsProofs` | `MaxCompAssumption`, `PageLimitAssumption`, `ScenariosAssumption` | `SegmentKeysOpen`, `MetadataOpens`, `LockIsOwn`, `ReadsOneEdition`, `ListingComplete`, `RevokedInert`, `StoreStep` | `Inv`, `ListInv` |

**SnPool.** The cap is not inductive: checkout compares
counters kept by hand with the cap, so the induction carries their exactness, and
the exactness of `idle_count` needs returned connections to be distinct, which the
return instants give (`IdlePast`). `NoStrandedWaiter` is inductive only together
with `WaitersParked`: a notification must reach a registered task or be stored, and
with `CountersExact` and the cap: a task that decides to wait saw a full pool, so
some owner is still to notify.

**LongTailUpload.** `UploadInv` adds that client and
satellite agree on ids and limits (`InStep`), ids are bounded by the rounds begun
(`IdsBounded`, without which the type is not inductive), every limit sits at its own
piece (`OwnPiece`), results are for current limits (`ResultsCurrent`), running,
failed and successful pieces are apart (`Apart`: a failed piece has no result, so
replacing its limit cannot invalidate one), the task set is empty between rounds
(`BetweenRounds`), and the stored limits are exactly results kept plus results ready
to be joined (`StoredKept`). `PersistInv` adds that a requirement once met stays met by
what is kept (`MetKept`), that a round leaves no piece untried (`AllTried`) and what
each failure is blamed on. `Persistence` has a hypothesis, `Steady`: one more piece
does not break the requirement, and the order of a hash map does not decide it. Counts
and single withholds are of that kind (TLC evaluates `Steady` for the run's
requirement); a withhold nested in a withhold may not be.

**LongTailDownload.** Every assignment is waiting, under way, delivered or
failed, and in one of these places only; launches beyond the needed pieces and the
margin are paid for by a hedge or a failure (`Accounted`). Without the partition neither
"no piece twice" nor "all were tried" survives a step. For the extras: each adds one
share and takes an assignment that was never launched. The partition is counted with
the cardinality theorems and an induction over the length of the queue.

**UploadHandle.** `UploadIntegrity` speaks of the published object only. `Slots`
says which requests can be under way where the owner is, so that a late one of an
upload that failed never meets a commit; `Accounting`, that the units accepted are
those stored, those in the flush task's hands and those in the buffer, in order;
`Stored`, that the satellite holds what was acknowledged; `Sealed`, that from
CommitObject on, late or not, all is in place and nothing can touch it any more.
`CommittedStays` follows because a delete that can still be applied then only
touches pending objects.

**DownloadStream.** `Flow` puts what was read, the buffer, the channel and the
producer's result one behind the other, as an increasing sequence of positions of the
range, and what is still to be fetched behind them. An increasing sequence of positions
that is as long as the range is the range (`IncreasingIsAll`), so that `remaining`, a
count (`Books`), is enough to tell the end of the object from the end of the producer.
`Phases` and `Outcomes` say what the handle's flags and its report follow from.

**MetainfoClient.** That an answer belongs to the call that reads it rests on
who owns a connection (`Ownership`) and on stream ids that grow along it (`Wire`): a
left-over packet has an older id than the request just sent. At most once rests on
where a request can still be (`AppliedExact`); the cap on permits and idle connections
being counted together (`Permits`, `Queueing`).

**PieceTransfer.** `ClientInv` (orders within the limit, chunks within orders)
holds whatever node and network do. `HonestInv` is about an honest node over a reliable
network: every chunk under way is preceded by the order that pays for it (`Covered`),
requests and orders keep their place behind one another (`Requested`, `Answered`,
`Streams`), and received, travelling and sent data add up (`Placed`), so that the end
of the node's stream is never taken for a short answer and no transfer fails.

**Connection.** `DialHonest` is a fact about the end of a dial; `DialInv` records what
every outcome on the way means, for legs (`LegsMean`), attempts (`AttemptsMean`) and
their telemetry (`EventsMean`). `WireInv`: the server holds exactly the part of the
current packet that was written, and the poison flag is up as long as that is part of a
frame. `QueueInv`: units that are not parsed hold at most one payload per frame, the
packet in assembly and the queued ones at most `MaxPacket`, since the assembler refuses
more; so the last packet queued below the watermark cannot pass it by more than one.
`ReadInv` says where everything the server sent is: what was read and what is to be read
are the two halves of every frame of one sequence, and perhaps half a frame more
(`Pipe`); these frames are sound and in the order of their ids (`SoundFrames`), the
packet in assembly is the first part of the message they continue (`Assembling`), the
queued packets come before it (`SoundQueue`), and a message that was sent on the stream
in use and not delivered is in the queue or among the frames, behind all that was
delivered (`Complete`). A message the server gave up shows at the end of the frames
(`CutShows`), which is what lets `eof_error` tell a clean end from a truncated one;
`LastRight` then keeps what was reported true, since nothing is sent on a stream that
ended. `ConnAssumption` asks for positive packet sizes, natural bounds, and a `None` that
is no call, stream, packet or outcome.

**ProjectOps.** For any number of clients, calls and lost messages and any project
they find in order (`ScenariosAssumption`: well-formed maps, ids within those issued, keys
and metadata that open where they are, finitely many objects at encrypted paths
(`PlacesOK`), arguments of the calls' types; `MaxCompAssumption`: path components are
numbers up to a natural bound; `PageLimitAssumption`: a page holds at least one entry, as
the satellite answers a limit of 0 with 1000). TLC evaluates
that order on the seven scenarios of the run. `Inv` has three parts.
`ProjectOK` is about the satellite: the maps' shapes, a stream is one object or one
upload and no id is issued twice, locks belong to the object they lie on, the segments of
objects *and of open uploads* open under the key of their place (an upload becomes an
object, so the property is not inductive without them), and every object still is the
edition its stream was committed as. `ClientOK` is what a call carries from one RPC to the
next: the place an upload id was issued for, the stream a segment id leads to, keys that
fit the edition a copy read, the checksum an update read, the beginning of an edition a
download has read. Others act in between, so all of it is said of the histories
`uploads` and `published`, which only grow; that is why it survives every step of every
other client (`ClientKept`). `ResultOK` keeps what a finished download returned.

The argument has three layers. Each handler of the satellite gets a lemma that says
what it may do: nothing that objects or uploads show (`Still`), or one named change
(`Begun`, `Added`, `Discarded`, `Deleted`, `Published`, `Updated`, `Copied`, `Moved`).
Each change gets a lemma that it keeps the project in order if the request fits. Each
action gets a lemma that the client's request does fit. `by_position` is a stable sort;
that it returns a permutation in order is proved by counting (`RankProperties`,
`Sorted`). `StoreStep` reuses the first layer: a change is one action of `ObjectStore` or
invisible. `RevokedInert` needs no induction: no check lets a revoked key pass, and every
handler that changes something checks first.

A listing asks for one page at a time and others act in between. `ListInv` says, of the
keys that were there and readable since it began (`alive`, which only shrinks), that each
comes after the cursor or is listed (`Listing`), and of a recursive listing that nothing
listed comes after the cursor, so nothing is listed twice. A step of another client can
only take keys out of `alive`, and both survive that (`ListingFewer`). For a page it has
to be shown that the satellite's sort puts every entry at its rank, once (`InKeyOrder`,
by counting, from `KeyBefore` being a strict total order), so that what the page does not
hold comes after its last entry; that the cursor is taken from that entry whether it was
listed or skipped; and that an entry of a key in `alive` is never skipped
(`EntryConverts`). In a delimited listing the cursor is an entry and not a key; the
entry of a key is never after the key, which is why no key is missed, and why an entry
may come again.

**Induction.** The library's induction theorems take an operator and cannot be used,
so `LeastNat` (from the well-foundedness of `<`) and `Induction` are stated for *sets* of
numbers. Sums and offsets (`Offsets`, `Sums`) are recursive functions; that a
function with that recursion exists is proved first, and then that the
definition is one.

**Model-checked only.**

- Everything under fairness (`EveryTaskEnds`, `UploadSettles`, `Terminates`,
  `DownloadEnds`, `ReadAnswered`, `CloseStops`, `CallsReturn`, `TransfersEnd`,
  `ConnCallsEnd`): out of the prover's reach.
- `EndHeeded` of `OrdersStop`: it sums what is queued, over all sizes of messages.
- What the codec, the erasure code, the path and grant operators compute
  (`ObjectExact`, `SearchComplete`, `CodeDecodes`, `HolderKeysExact`, `HolderConfined`,
  `PathsExact`): recursive operators over data, and bitwise ones in ReedSolomon.

## Findings

1. `pool_lost_wakeup`. Two slots released between two tasks' decision to wait and
   their registration leave a single permit. One task then stays parked while a slot
   is free, until another release; `pool.rs` says a checkout waits when
   `in_use == max`. `NoStrandedWaiter` and `EveryTaskEnds` hold: it is a delay (up to
   the length of the other transfer), never a hang.
2. `upload_shutdown`. `poll_shutdown` returns Ok after a failed flush although the
   comment on `UploadInner.failed` lists shutdown among the calls that return the
   error. `commit` does return it, so nothing is published.
3. `download_memory`. The comments on `Download` and in `download_segments` speak of
   one segment ahead and about two decrypted segments in memory. The producer decrypts
   a segment before it waits for room in the channel, so there can be three: one being
   read, one queued, one in its hands (`StreamSound` states that bound).
4. `full_range_orders`. The comment on `download_pieces_long_tail` says that every
   launched piece signs an order for its full byte range; `download_once` orders in
   growing steps, as its own comment says. `OrderedAhead` states what the code does.
5. `copy_atomic`. `copy_object` is documented as atomic. An update of the source's
   metadata between its two RPCs replaces the metadata and its key, and the copy is then
   published with the new metadata under the old key, which nobody can open. The test
   satellite accepts that; the client cannot see it before.

Observations that no run is about:

- `Grant::parse` keeps the original string of an unmodified grant only if the limited
  access compares equal to the stored one, and that comparison depends on the order of
  a `HashMap`; with several entries the string may be rebuilt. Both outcomes are
  modelled and the grant is the same.
- `override_encryption_key` at a prefix leaves bases that already exist below it (an
  earlier override, a nested shared prefix) under their old keys (`BasesBelow`). A
  prefix of `/` means the whole bucket.
- An encrypted empty component is a constant byte and is not authenticated.
- Delimited listings by the test satellite can return a prefix entry again on the next
  page, as its cursor compares with the keys below it.

## Not modelled

- **Identity and known satellites, configuration, errors, wire types**: certificate
  parsing, constant tables, value types and generated protobuf code. They hold no state
  that changes; the classifications the protocols depend on are guards of the modules.
- **Ciphers, HMAC, hashes, Argon2, base58, protobuf bytes**: used through what they
  promise (a box opens under its key and only intact; a MAC chain verifies). The vector
  code of `gf_simd.rs` is taken to compute what the scalar loop does.
- **Encoding of an object's metadata** (`StreamMeta`, `StreamInfo`) beyond which key
  seals it, and the base64 bypass in listings.
- **The flush task of a part upload** is that of `UploadHandle`, which models whole
  objects; `ProjectOps` has the part's RPCs without the background task.
- **Storage nodes of the test network** (`mock_sn.rs`) and its TLS listener; the nodes of
  PieceTransfer are modelled from what the client handles.
- Stream and message ids that wrap after 2^64 calls.

## Plan

Done: SnPool; UploadHandle; LongTailUpload with Cohort;
LongTailDownload; DownloadStream; MetainfoClient; PieceTransfer; Satellite, ProjectOps
and the refinement of ObjectStore; DialRace and DrpcConn; SegmentCodec, ReedSolomon,
PathCrypto and AccessGrant.

The theorems about SnPool, LongTailUpload, LongTailDownload, UploadHandle,
DownloadStream, MetainfoClient, PieceTransfer, the dial, the writes, the reads and
the queue of a connection, and ProjectOps, its refinement of ObjectStore included, are
proved.

Next, most valuable first:

1. The background flush of a part upload, as in UploadHandle, in ProjectOps.
