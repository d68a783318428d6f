------------------------------- MODULE Cohort -------------------------------
(***************************************************************************)
(* Placement (cohort) requirements on the set of pieces stored so far:     *)
(* cohort_valid and withhold_tags of                                       *)
(* storj-uplink/src/segment.rs.                                            *)
(*                                                                         *)
(* A requirement is a record with a "kind": literal (value), and           *)
(* (requirements, a sequence), withhold (key, amount, child) or none.  A   *)
(* piece's tags map a key to a value; Untagged is the empty value.         *)
(* withhold_tags walks a hash map, so which of several equally frequent    *)
(* values it withholds is undetermined: the operators return sets of       *)
(* outcomes.                                                               *)
(***************************************************************************)
EXTENDS Integers, Sequences, FiniteSets

CONSTANT TagOf(_, _)   \* the value piece p has for a tag key

Untagged == "untagged"

Literal(n) == [kind |-> "literal", value |-> n]
And(rs) == [kind |-> "and", requirements |-> rs]
Withhold(k, n, c) == [kind |-> "withhold", key |-> k, amount |-> n, child |-> c]
None == [kind |-> "none"]

CountOf(key, S, v) == Cardinality({p \in S : TagOf(p, key) = v})

\* One step of the scan: v joins the kept values while there is room, and else
\* replaces a least frequent one if it is more frequent.
KeepTop(count, amount, topn, v) ==
    IF Cardinality(topn) < amount THEN {topn \cup {v}}
    ELSE LET least == {o \in topn : \A q \in topn : count[o] <= count[q]}
             old == {o \in least : count[v] > count[o]}
         IN  IF old = {} THEN {topn} ELSE {(topn \ {o}) \cup {v} : o \in old}

\* All results of scanning the values in every order a hash map may have.
RECURSIVE ScanTop(_, _, _, _)
ScanTop(count, amount, topn, rest) ==
    IF rest = {} THEN {topn}
    ELSE UNION {UNION {ScanTop(count, amount, t, rest \ {v}) :
                         t \in KeepTop(count, amount, topn, v)} : v \in rest}

\* withhold_tags: the sets of pieces that may remain.
WithholdTags(key, amount, S) ==
    IF amount <= 0 THEN {S}
    ELSE LET values == {TagOf(p, key) : p \in S} \ {Untagged}
             count == [v \in values |-> CountOf(key, S, v)]
         IN  {{p \in S : TagOf(p, key) \notin topn} : topn \in ScanTop(count, amount, {}, values)}

\* cohort_valid: the verdicts it may return for the pieces S.
RECURSIVE CohortValid(_, _)
CohortValid(req, S) ==
    CASE req.kind = "literal" -> {Cardinality(S) >= req.value}
      [] req.kind = "and" ->
           LET v == [i \in DOMAIN req.requirements |-> CohortValid(req.requirements[i], S)]
           IN  {b \in BOOLEAN : IF b THEN \A i \in DOMAIN v : TRUE \in v[i]
                                     ELSE \E i \in DOMAIN v : FALSE \in v[i]}
      [] req.kind = "withhold" ->
           UNION {CohortValid(req.child, r) : r \in WithholdTags(req.key, req.amount, S)}
      [] OTHER -> {TRUE}
=============================================================================
