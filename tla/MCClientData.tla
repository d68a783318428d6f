---------------------------- MODULE MCClientData ----------------------------
(***************************************************************************)
(* The client's data path without the network, one part per behaviour: an  *)
(* object written and read back, an erasure code that loses shares, an     *)
(* access grant handed on, the bytes of a path component.                  *)
(***************************************************************************)
EXTENDS SegmentCodec, ReedSolomon, AccessGrant

VARIABLE part    \* the part this behaviour is about

vars == <<codecVars, rsVars, grantVars, segment, part>>

(* Objects: every size up to ten bytes in segments of seven, blocks of four
   with a tag of one, and stripes that divide neither; every range around
   the object's ends.  With corrupted shares, the arrival order matters. *)
Rs(k, n, size) == [k |-> k, n |-> n, share_size |-> size]
AllRanges == ((-3..11) \X (-1..6)) \cup {<<-100, -1>>, <<0, 100>>}
Object(sizes, ciphers, codes, damages, ranges, orders) ==
  [size : sizes, cipher : ciphers, block : {4}, rs : codes, damage : damages,
   ranges : {ranges}, orders : {orders}]

MCCases ==
  Object(0..10, {"AEAD"}, {Rs(2, 3, 1), Rs(2, 3, 3), Rs(3, 3, 2)}, {0}, AllRanges, {<<0, 1, 2>>})
    \cup Object({0, 3, 4, 9}, {"NULL"}, {Rs(2, 3, 3)}, {0}, AllRanges, {<<2, 1>>})
    \cup Object({4}, {"AEAD"}, {Rs(2, 4, 1), Rs(2, 4, 3)}, {3}, {<<0, -1>>, <<3, 1>>},
                {<<0, 1, 2, 3>>, <<3, 1, 0, 2>>, <<3, 2, 1>>, <<1, 3>>})
MCTag == 1
MCMaxSegment == 7
MCMaxInline == 3

(* Codes: small ones whole, and both ends of the largest. *)
Code(k, n, shares) == [k |-> k, n |-> n, avail |-> shares]
MCCodes == {Code(1, 3, 0..2), Code(2, 4, 0..3), Code(3, 6, 0..5), Code(4, 7, 0..6),
            Code(2, 256, {0, 1, 2, 127, 254, 255}), Code(3, 256, {0, 1, 3, 128, 254, 255})}

(* Grants: two buckets, nested and look-alike prefixes, empty components. *)
a == Letter("a")
b == Letter("b")
X == <<Letter("x")>>
Y == <<Letter("y")>>
Whole == <<>>
DirA  == <<a, Sep>>
DirAB == <<a, Sep, b, Sep>>
Twin  == <<a, b, Sep>>
On(bucket, prefix) == [bucket |-> bucket, prefix |-> prefix]

MCBuckets == {X, Y}
MCPaths == {Whole, DirA, DirAB, <<a>>, <<b>>, <<a, b>>, <<a, Sep, b>>, <<a, Sep, b, Sep, a>>,
            <<a, b, Sep, a>>, <<a, Sep, Sep, b>>, <<Sep, a>>, <<Sep>>}
SharedPrefixes ==
  {{}} \cup {{On(X, q)} : q \in {Whole, <<a>>, DirAB, <<Sep, a, Sep>>}}
       \cup {{On(Y, Whole)}, {On(X, DirA), On(X, Twin)}, {On(X, DirAB), On(Y, DirA)}, {On(X, DirA), On(X, DirAB)}}
Permit(allow, lock, limits) == [allow |-> allow, lock |-> lock, limits |-> limits]
PrefixPermissions ==
  {Permit({"download", "list"}, FALSE, NoLimits),
   Permit(GrantBits, TRUE, [not_before |-> -5, not_after |-> 3])}
WholePermissions ==
  {Permit({"upload"}, FALSE, [not_after |-> -5, max_object_ttl |-> 6]),
   Permit({}, FALSE, NoLimits),                                   \* empty
   Permit(GrantBits, FALSE, [not_before |-> 2, not_after |-> 1]), \* no time left
   Permit(GrantBits, FALSE, [max_object_ttl |-> 0])}              \* no lifetime left
MCShares == (PrefixPermissions \X SharedPrefixes) \cup (WholePermissions \X {{}})
MCOverridePrefixes == {DirA, DirAB, Twin}
MCPathCiphers == {"AES", "NULL"}

(* Components: the escaped bytes and their neighbours. *)
MCBytes == {0, 1, 2, 46, 47, 97, 254, 255}

-----------------------------------------------------------------------------
CodecRests ==
  /\ object = CHOOSE c \in Cases : c.size = 0 /\ c.damage = 0
  /\ segments = <<>> /\ damaged = {} /\ request = NoRequest /\ answer = <<>>
RsRests == code = [k |-> 1, n |-> 1] /\ avail = {0}
GrantRests ==
  /\ grant = FromParts(MacaroonFromParts("head"), RootStore("AES"))
  /\ owner = RootStore("AES") /\ asked = [bits |-> CaveatBits, limits |-> <<>>] /\ ops = 0

Init ==
  \/ part = "codec" /\ CodecInit /\ RsRests /\ GrantRests /\ segment = <<>>
  \/ part = "code" /\ CodecRests /\ RsInit /\ GrantRests /\ segment = <<>>
  \/ part = "grant" /\ CodecRests /\ RsRests /\ GrantInit /\ segment = <<>>
  \/ part = "component" /\ CodecRests /\ RsRests /\ GrantRests /\ segment = <<>>

Next ==
  \/ part = "codec" /\ CodecNext /\ UNCHANGED <<rsVars, grantVars, segment, part>>
  \/ part = "code" /\ RsNext /\ UNCHANGED <<codecVars, grantVars, segment, part>>
  \/ part = "grant" /\ GrantNext /\ UNCHANGED <<codecVars, rsVars, segment, part>>
  \/ /\ part = "component" /\ \E byte \in Bytes : TypeByte(byte)
     /\ UNCHANGED <<codecVars, rsVars, grantVars, part>>

Spec == Init /\ [][Next]_vars

-----------------------------------------------------------------------------
(* The properties of each part, evaluated where that part moves *)

(* download_segments, decrypt_remote, calc_piece_size: the reader gets exactly
   the bytes of the range it asked for, from segments, blocks and stripes it
   falls on in any way, and what is stored has the sizes the satellite
   expects (CodecExact). *)
ObjectExact == part = "codec" => CodecExact

(* reconstruct_remote: a segment is given up only when fewer than k of its
   shares are intact (FindsAuthenticSet). *)
SearchComplete == part = "codec" => FindsAuthenticSet

(* ReedSolomon: whichever k shares remain decode what was encoded
   (AnyKDecode). *)
CodeDecodes == part = "code" => AnyKDecode

(* restrict, limit_to, override_encryption_key: a holder's keys are the
   owner's, wherever the caveats let it go (SharedKeysExact). *)
HolderKeysExact == part = "grant" => SharedKeysExact

(* collapse_prefixes, parse: a grant never reaches further than every share
   it went through (GrantConfined). *)
HolderConfined == part = "grant" => GrantConfined

(* encrypt_path, decrypt_path, get_prefix_info, encode_segment: paths, listed
   keys and component bytes survive the way there and back (PathsRoundTrip,
   EscapeBijective). *)
PathsExact == (part = "grant" => PathsRoundTrip) /\ (part = "component" => EscapeBijective)
=============================================================================
