---------------------------- MODULE ObjectStore ----------------------------
(***************************************************************************)
(* What a project promises its users, without RPCs, keys or segments: a    *)
(* map from locations to immutable objects, and uploads that collect       *)
(* chunks until they are published or discarded.  Every change of the map  *)
(* is one step: an object appears, is replaced, moved or removed whole.    *)
(***************************************************************************)
EXTENDS Naturals, Sequences

VARIABLES store,   \* location -> [id, content, exact], the published objects; an
                   \* object is exact when no two of its chunks had one position
          open     \* upload id -> [at, chunks], a chunk being [position, payload]

With(f, x, v) == [y \in DOMAIN f \cup {x} |-> IF y = x THEN v ELSE f[y]]
Without(f, x) == [y \in DOMAIN f \ {x} |-> f[y]]

Before(p, q) == p.part < q.part \/ (p.part = q.part /\ p.index < q.index)

\* The content is the payloads of the chunks, each once, in an order in
\* which no position comes before an earlier one.
Arranges(content, chunks) ==
    \E order \in [DOMAIN chunks -> DOMAIN chunks] :
       /\ \A i, j \in DOMAIN chunks : order[i] = order[j] => i = j
       /\ content = [i \in DOMAIN chunks |-> chunks[order[i]].payload]
       /\ \A i, j \in DOMAIN chunks :
             i < j => ~Before(chunks[order[j]].position, chunks[order[i]].position)

Exact(chunks) ==
    \A i, j \in DOMAIN chunks : chunks[i].position = chunks[j].position => i = j

Init == store \in [{} -> {}] /\ open \in [{} -> {}]

Begin(id, at) ==
    /\ id \notin DOMAIN open /\ \A l \in DOMAIN store : store[l].id # id
    /\ open' = With(open, id, [at |-> at, chunks |-> <<>>])
    /\ UNCHANGED store

Add(id) ==
    /\ id \in DOMAIN open \cap DOMAIN open'
    /\ \E i \in DOMAIN open'[id].chunks :
          LET chunk == open'[id].chunks[i]
          IN  open' = [open EXCEPT ![id].chunks = Append(@, chunk)]
    /\ UNCHANGED store

Publish(id) ==
    /\ id \in DOMAIN open
    /\ open[id].at \in DOMAIN store'
    /\ LET content == store'[open[id].at].content
       IN  /\ Arranges(content, open[id].chunks)
           /\ store' = With(store, open[id].at,
                            [id |-> id, content |-> content, exact |-> Exact(open[id].chunks)])
    /\ open' = Without(open, id)

Discard(id) ==
    /\ id \in DOMAIN open
    /\ open' = Without(open, id)
    /\ UNCHANGED store

Delete(l) ==
    /\ l \in DOMAIN store
    /\ store' = Without(store, l)
    /\ UNCHANGED open

\* The object under a new id at another place.  Chunks are told apart by
\* their positions only: the content of an object that is not exact need not
\* survive.
Relocated(from, to, id) ==
    LET content == IF store[from].exact THEN store[from].content ELSE store'[to].content
    IN  [id |-> id, content |-> content, exact |-> store[from].exact]

\* A copy is a new object with the same content.
Copy(from, to, id) ==
    /\ from \in DOMAIN store
    /\ id \notin DOMAIN open /\ \A l \in DOMAIN store : store[l].id # id
    /\ store' = With(store, to, Relocated(from, to, id))
    /\ UNCHANGED open

\* A move is one step: the object is never at both locations, nor at none.
Move(from, to) ==
    /\ from \in DOMAIN store
    /\ store' = With(Without(store, from), to, Relocated(from, to, store[from].id))
    /\ UNCHANGED open

Next ==
    \/ \E id \in DOMAIN open' : Begin(id, open'[id].at)
    \/ \E id \in DOMAIN open : Add(id) \/ Publish(id) \/ Discard(id)
    \/ \E l \in DOMAIN store : Delete(l)
    \/ \E from \in DOMAIN store, to \in DOMAIN store' :
          Move(from, to) \/ Copy(from, to, store'[to].id)

Spec == Init /\ [][Next]_<<store, open>>
=============================================================================
