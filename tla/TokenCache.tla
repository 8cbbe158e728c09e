------------------------------ MODULE TokenCache ------------------------------
(***************************************************************************)
(* The memory of the token cache: internal/tokens/cache.go. A memory m is  *)
(* a list m.nodes of nodes [id, key, e], most recently used first, and a   *)
(* map m.lru from keys to the ids of nodes; every operator below is one    *)
(* section of the code under c.mu. A disk maps each key to what its file   *)
(* holds. TokenPath uses them, and the disk outside the lock.              *)
(*                                                                         *)
(* An entry is [ver, at]: which payload it is, and the mtime its source    *)
(* file had when Put looked, 0 if the file was gone (the zero time).       *)
(***************************************************************************)
EXTENDS Naturals, Sequences, FiniteSetsExt, Functions

CONSTANTS
  Keys,       \* cache keys, each with a file name of its own (diskKey)
  Sourced,    \* the keys whose entries have a SourcePath; postJSONWithMiddleware
              \* sets none, other users of the cache may
  Capacity    \* the capacity of NewCache

ASSUME TokenCacheAssumption ==
  /\ IsFiniteSet(Keys) /\ Keys # {}
  /\ Sourced \subseteq Keys
  /\ Capacity \in Nat \ {0}

None == [ver |-> 0, at |-> 0]    \* no file
Blank == [ver |-> 0, at |-> 1]   \* a file that was truncated, and not written yet
Torn == [ver |-> 0, at |-> 2]    \* other bytes that do not unmarshal

\* mtimeValid, when the source file's mtime is now; 0 is a file that is gone.
Fresh(k, e, now) == k \in Sourced => e.at = now /\ now # 0

\* What loadFromDisk and warmFromDisk can use.
Readable(e) == e \notin {None, Blank, Torn}

Empty == [nodes |-> <<>>, lru |-> <<>>]

InMemory(m, k) == k \in DOMAIN m.lru
NodeOf(m, k) == CHOOSE n \in Range(m.nodes) : n.id = m.lru[k]
Ids(m) == {m.nodes[i].id : i \in DOMAIN m.nodes}

-----------------------------------------------------------------------------
\* removeNode: the list without its node id.
WithoutNode(list, id) ==
  LET at == CHOOSE i \in DOMAIN list : list[i].id = id
  IN [i \in 1..(Len(list) - 1) |-> IF i < at THEN list[i] ELSE list[i + 1]]

\* A new node for k in front. A node that k had stays in the list: nothing
\* points at it any more.
InsertFront(m, k, e) ==
  LET id == CHOOSE n \in 1..(Len(m.nodes) + 1) : n \notin Ids(m)
  IN [nodes |-> <<[id |-> id, key |-> k, e |-> e]>> \o m.nodes,
      lru |-> [x \in DOMAIN m.lru \cup {k} |-> IF x = k THEN id ELSE m.lru[x]]]

\* moveToFront, of k's node with entry e.
Touch(m, k, e) ==
  [m EXCEPT !.nodes = <<[NodeOf(m, k) EXCEPT !.e = e]>> \o WithoutNode(@, m.lru[k])]

\* Mistake: the map keeps the key.
DropNodeOnly(m, k) == [m EXCEPT !.nodes = WithoutNode(@, m.lru[k])]

\* A node is removed, and its key deleted.
Drop(m, k) ==
  [nodes |-> WithoutNode(m.nodes, m.lru[k]), lru |-> Restrict(m.lru, DOMAIN m.lru \ {k})]

\* evictIfNeeded: nodes leave from the tail, each taking its key out of the
\* map, whichever node the key is mapped to, until the map is small enough.
Evict(m) ==
  LET Kept(n) == DOMAIN m.lru \ {m.nodes[i].key : i \in (n + 1)..Len(m.nodes)}
      n0 == Max({n \in 0..Len(m.nodes) : n = 0 \/ Cardinality(Kept(n)) <= Capacity})
  IN [nodes |-> SubSeq(m.nodes, 1, n0), lru |-> Restrict(m.lru, Kept(n0))]

\* Put's section; the end of Get's when an entry was found on disk.
PutMemory(m, k, e) ==
  IF InMemory(m, k) THEN Touch(m, k, e) ELSE Evict(InsertFront(m, k, e))
Promote(m, k, e) == Evict(InsertFront(m, k, e))

\* InvalidateByMtime's loop, when the file's mtime is now.
Stale(m, now) == {k \in DOMAIN m.lru \cap Sourced : ~Fresh(k, NodeOf(m, k).e, now)}
Invalidate(m, now) == FoldSet(LAMBDA k, left : Drop(left, k), m, Stale(m, now))

\* What warmFromDisk may leave in a new memory: the readable files in the
\* order of their names, which the keys do not determine, up to the capacity.
Warm(d) ==
  LET found == {k \in Keys : Readable(d[k])}
      Load(q) == FoldFunctionOnSet(LAMBDA k, m : InsertFront(m, k, d[k]), Empty, q, DOMAIN q)
      size == Min({Capacity, Cardinality(found)})
  IN {Load(q) : q \in {q \in [1..size -> found] : \A i, j \in 1..size : q[i] = q[j] => i = j}}

\* The map is within its capacity and what it points at is in the list.
Sound(m) ==
  /\ Cardinality(DOMAIN m.lru) <= Capacity
  /\ \A i, j \in DOMAIN m.nodes : m.nodes[i].id = m.nodes[j].id => i = j
  /\ \A k \in DOMAIN m.lru : \E n \in Range(m.nodes) : n.id = m.lru[k] /\ n.key = k
=============================================================================
