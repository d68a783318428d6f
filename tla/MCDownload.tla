----------------------------- MODULE MCDownload -----------------------------
(* The three parts of a download for TLC, one at a time: collecting the     *)
(* pieces of a segment, streaming the segments of a range, and the exchange *)
(* with one node.  Ranges lie over whole, clipped and skipped segments, and *)
(* one is empty.                                                            *)
EXTENDS LongTailDownload, DownloadStream, PieceTransfer

MCRanges == {<<1, 2, 2>>, <<0, 2, 1>>, <<2, 0, 1, 1>>, <<0, 0>>}

VARIABLE part   \* the part that runs; the others rest

downloadVars == <<part, vars, streamVars, pieceVars>>

\* An empty range has been collected: nothing was launched.
CollectRests ==
    /\ range = "empty" /\ hedging = FALSE /\ slow = {} /\ phase = "plain"
    /\ queue = [p \in Pieces |-> p] /\ task = [p \in Pieces |-> "none"]
    /\ got = {} /\ failures = {} /\ attempted = 0 /\ hedgesLeft = 0
    /\ shares = {} /\ corrupt = {} /\ extras = 0 /\ cause = "none" /\ tried = {}

\* The first list of segments could not be fetched.
StreamRests ==
    /\ sizes = <<0, 0>> /\ stage = "closed" /\ listed = 0 /\ more = TRUE
    /\ downloaded = <<>> /\ prod = "none" /\ at = 1 /\ result = <<>> /\ chan = <<>>
    /\ rx = FALSE /\ buf = <<>> /\ remaining = 0 /\ want = 0 /\ complete = FALSE
    /\ out = <<>> /\ returned = "none" /\ failed = FALSE /\ events = <<>>

\* No transfer is made.
PieceRests == PieceInit /\ honest = FALSE /\ reliable = FALSE

MCInit ==
    \/ part = "collect" /\ Init /\ StreamRests /\ PieceRests
    \/ part = "stream" /\ CollectRests /\ StreamInit /\ PieceRests
    \/ part = "piece" /\ CollectRests /\ StreamRests /\ PieceInit

MCNext ==
    /\ \/ part = "collect" /\ Next /\ UNCHANGED <<streamVars, pieceVars>>
       \/ part = "stream" /\ StreamNext /\ UNCHANGED <<vars, pieceVars>>
       \/ part = "piece" /\ PieceNext /\ UNCHANGED <<vars, streamVars>>
    /\ UNCHANGED part

MCSpec ==
    /\ MCInit /\ [][MCNext]_downloadVars
    /\ CollectFairness /\ StreamFairness /\ PieceFairness
=============================================================================
