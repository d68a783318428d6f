------------------------------ MODULE MCUpload ------------------------------
(* The two parts of an upload for TLC, one at a time: the handle of an      *)
(* object, and the pieces of one segment, of which three must be stored and *)
(* two of them outside the most frequent value of one placement tag.        *)
EXTENDS UploadHandle, LongTailUpload, Cohort

\* The tag of the node behind a limit: replacements come from another place
\* than the first nodes, and one piece's nodes carry no tag.
MCTag(l, key) ==
    CASE l.piece = 4 -> Untagged
      [] l.piece = 3 -> "east"
      [] OTHER -> IF l.id % 2 = 0 THEN "west" ELSE "east"

MCRequirement == And(<<Literal(3), Withhold("region", 1, Literal(1))>>)

MCVerdicts(S) == CohortValid(MCRequirement, S)

\* A count, and a count with one tag's top value withheld, are steady.
ASSUME MCRequirementSteady == Steady

VARIABLE part   \* the part that runs; the other rests

uploadVars == <<part, handleVars, vars>>

\* An upload was opened and dropped, and its pending object is gone.
HandleRests ==
    /\ handle = "closed" /\ plaintext = <<>> /\ nextSegment = 0 /\ totalPlain = 0
    /\ lastPlain = 0 /\ attached = FALSE /\ innerFailed = FALSE /\ flush = NoFlush
    /\ blocked = FALSE /\ accepted = 0 /\ events = <<"Cancelled">>
    /\ last = [call |-> "drop", poisoned |-> FALSE, ok |-> TRUE]
    /\ net = [c \in Callers |-> "none"] /\ object = "deleted" /\ segs = <<>>
    /\ published = NoPublished /\ gaveUp = FALSE

\* The first task to end panicked.
SegmentRests ==
    /\ phase = "error" /\ attempts = 1 /\ segmentId = 0
    /\ asg = [p \in Pieces |-> [piece |-> p, id |-> 0]]
    /\ task = [p \in Pieces |-> "none"] /\ successes = {} /\ roundOk = {} /\ failed = {}
    /\ sat = [id |-> 0, limits |-> asg] /\ cause = "join" /\ met = FALSE /\ stored = {}

MCInit ==
    \/ part = "handle" /\ HandleInit /\ SegmentRests
    \/ part = "segment" /\ HandleRests /\ Init

MCNext ==
    /\ \/ part = "handle" /\ HandleNext /\ UNCHANGED vars
       \/ part = "segment" /\ Next /\ UNCHANGED handleVars
    /\ UNCHANGED part

MCSpec == MCInit /\ [][MCNext]_uploadVars /\ HandleFairness /\ SegmentFairness
=============================================================================
