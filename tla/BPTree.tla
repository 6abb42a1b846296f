------------------------------- MODULE BPTree -------------------------------
(***************************************************************************)
(* The B+ tree of core/src/bpt.js, in which the indexer keeps the ids of a *)
(* directory and every index: insertion with splits, deletion with borrows *)
(* and merges, and the range queries of the planner.                       *)
(*                                                                         *)
(* A key stands for a document in the order of the tree.  The sort fields  *)
(* end with __id__, so no two documents are equal, and a bound of a query  *)
(* that leaves fields out lies between two keys.                           *)
(*                                                                         *)
(* Nodes are numbered in preorder after every operation: their ids are     *)
(* opaque, and what is deleted, or left behind by a merge of inner nodes,  *)
(* is dropped.  A pointer to such a node becomes Dangling.                 *)
(*                                                                         *)
(* The store is flushed between two operations.                            *)
(***************************************************************************)
EXTENDS Integers, Sequences, SequencesExt

CONSTANTS
  Key,     \* the documents that may be inserted
  Order    \* the orders a tree may be made with: 100 in indexer.js

ASSUME BPTreeAssumption == Key \subseteq Nat /\ Order \subseteq Nat \ 0..2

VARIABLES
  order,   \* of this tree
  tree,    \* the root and the nodes
  keys     \* the documents that have data: what the tree should hold

vars == <<order, tree, keys>>

-----------------------------------------------------------------------------
Nil == 0
Dangling == -1
Empty == [root |-> Nil, nodes |-> <<>>]

max_vals == order - 1
min_vals == (order + 1) \div 2 - 1
isOver(node, plus) == Len(node.vals) + plus > max_vals
isUnder(node, plus) == Len(node.vals) + plus < min_vals

(* The position of x in s, the first and the last one with a key above or  *)
(* below it; 0 if there is none.                                           *)
indexOf(x, s) == SelectInSeq(s, LAMBDA y : y = x)
greater(x, s) == SelectInSeq(s, LAMBDA y : y > x)
smaller(x, s) == SelectLastInSeq(s, LAMBDA y : y < x)

RECURSIVE walk(_, _)
walk(t, n) ==
  IF t.nodes[n].leaf THEN <<n>>
  ELSE <<n>> \o FlattenSeq([i \in DOMAIN t.nodes[n].children |->
                              walk(t, t.nodes[n].children[i])])

Canonical(t) ==
  IF t.root = Nil THEN Empty
  ELSE LET used == walk(t, t.root)
           id(n) == IF n = Nil THEN Nil
                    ELSE IF indexOf(n, used) = 0 THEN Dangling ELSE indexOf(n, used)
       IN  [root |-> 1,
            nodes |-> [i \in DOMAIN used |->
              LET nd == t.nodes[used[i]]
              IN  [nd EXCEPT !.parent = id(nd.parent), !.prev = id(nd.prev),
                             !.next = id(nd.next),
                             !.children = [c \in DOMAIN nd.children |-> id(nd.children[c])]]]]

-----------------------------------------------------------------------------
(* search: the leaf where x is, or would be. *)
RECURSIVE search(_, _, _)
search(t, n, x) ==
  LET nd == t.nodes[n]
      g == greater(x, nd.vals)
  IN  IF nd.leaf THEN n
      ELSE search(t, nd.children[IF g = 0 THEN Len(nd.children) ELSE g], x)

RECURSIVE edge(_, _, _)
(* search and rsearch without a bound: the first or the last leaf. *)
edge(t, n, reverse) ==
  LET nd == t.nodes[n]
  IN  IF nd.leaf THEN n
      ELSE edge(t, IF reverse THEN Last(nd.children) ELSE Head(nd.children), reverse)

-----------------------------------------------------------------------------
(* What goes up when a node is cut: the first key of the new leaf, or the  *)
(* last value of the first half, which then is in neither inner node.      *)
(* (Faulty variant: always the latter.)                                    *)
topOf_Last(leaf, low, high) == Last(low)
topOf(leaf, low, high) == IF leaf THEN Head(high) ELSE Last(low)

(* The children of n get n as their parent.  (Faulty variant: forgotten.) *)
Adopted_Never(t, n) == t
Adopted(t, n) ==
  FoldLeft(LAMBDA u, c : [u EXCEPT !.nodes[c].parent = n], t, t.nodes[n].children)

(* In the lists of the levels, `to' follows a, and `from' precedes b.      *)
Linked(t, a, to, b, from) ==
  LET u == IF a = Nil THEN t ELSE [t EXCEPT !.nodes[a].next = to]
  IN  IF b = Nil THEN u ELSE [u EXCEPT !.nodes[b].prev = from]

(* _split and getParent: node n is cut in two. *)
halved(t, n) ==
  LET nd == t.nodes[n]
      h == (Len(nd.vals) + 1) \div 2
      low == SubSeq(nd.vals, 1, h)
      high == SubSeq(nd.vals, h + 1, Len(nd.vals))
      rest == IF nd.leaf THEN low ELSE Front(low)
      top == topOf(nd.leaf, low, high)
      kept == IF nd.leaf THEN <<>> ELSE SubSeq(nd.children, 1, Len(rest) + 1)
      m == Len(t.nodes) + 1
      p == IF nd.parent = Nil THEN m + 1 ELSE nd.parent
      new == [leaf |-> nd.leaf, vals |-> high, parent |-> p, prev |-> n, next |-> nd.next,
              children |-> SubSeq(nd.children, Len(kept) + 1, Len(nd.children))]
      fresh == [leaf |-> FALSE, vals |-> <<top>>, parent |-> Nil, prev |-> Nil,
                next |-> Nil, children |-> <<n, m>>]
      i == IF nd.parent = Nil THEN 0 ELSE indexOf(n, t.nodes[p].children)
      t1 == [t EXCEPT !.nodes[n] =
               [nd EXCEPT !.vals = rest, !.children = kept, !.parent = p]]
      t2 == [t1 EXCEPT !.nodes = Append(t1.nodes, new)]
      t3 == IF nd.parent = Nil
            THEN [root |-> p, nodes |-> Append(t2.nodes, fresh)]
            ELSE [t2 EXCEPT !.nodes[p].vals = InsertAt(@, i, top),
                            !.nodes[p].children = InsertAt(@, i + 1, m)]
  IN  Adopted(Linked(t3, n, m, nd.next, m), m)

RECURSIVE split(_, _)
split(t, n) ==
  LET h == halved(t, n)
      p == h.nodes[n].parent
  IN  IF isOver(h.nodes[p], 0) THEN split(h, p) ELSE h

inserted(t, k) ==
  IF t.root = Nil
  THEN [root |-> 1, nodes |-> <<[leaf |-> TRUE, vals |-> <<k>>, parent |-> Nil,
                                 prev |-> Nil, next |-> Nil, children |-> <<>>]>>]
  ELSE LET n == search(t, t.root, k)
           g == greater(k, t.nodes[n].vals)
           t1 == [t EXCEPT !.nodes[n].vals = IF g = 0 THEN Append(@, k) ELSE InsertAt(@, g, k)]
       IN  IF isOver(t1.nodes[n], 0) THEN split(t1, n) ELSE t1

-----------------------------------------------------------------------------
(* The siblings of n under its parent; Nil if there is none. *)
at(t, n) == indexOf(n, t.nodes[t.nodes[n].parent].children)
left(t, n) == IF at(t, n) > 1 THEN t.nodes[t.nodes[n].parent].children[at(t, n) - 1] ELSE Nil
right(t, n) ==
  LET siblings == t.nodes[t.nodes[n].parent].children
  IN  IF at(t, n) < Len(siblings) THEN siblings[at(t, n) + 1] ELSE Nil

canLend(t, s) == s # Nil /\ ~isUnder(t.nodes[s], -1)
canJoin(t, s, n) == s # Nil /\ ~isOver(t.nodes[s], n)

(* updateIndexes: the first key below node n is now x, so the separator    *)
(* left of n, or of its first ancestor that has one, becomes x.            *)
RECURSIVE separated(_, _, _)
separated(t, n, x) ==
  LET p == t.nodes[n].parent
  IN  IF p = Nil THEN t
      ELSE IF at(t, n) > 1 THEN [t EXCEPT !.nodes[p].vals[at(t, n) - 1] = x]
      ELSE separated(t, p, x)

(* Called for the position of the key that was deleted.  (Faulty variant:  *)
(* the separators stay.)                                                   *)
updateIndexes_Never(t, i, n) == t
updateIndexes(t, i, n) == IF i = 1 THEN separated(t, n, Head(t.nodes[n].vals)) ELSE t

(* rmIndex: inner node n loses its v-th value and its c-th child. *)
RECURSIVE rmIndex(_, _, _, _)
rmIndex(t, v, c, n) ==
  LET t0 == [t EXCEPT !.nodes[n].vals = RemoveAt(@, v), !.nodes[n].children = RemoveAt(@, c)]
      nd == t0.nodes[n]
      p == nd.parent
      l == left(t0, n)
      r == right(t0, n)
      i == at(t0, n)
      up == t0.nodes[p].vals
  IN  CASE p = Nil /\ nd.vals = <<>> ->
             [t0 EXCEPT !.root = Last(nd.children), !.nodes[Last(nd.children)].parent = Nil]
        [] p = Nil \/ ~(nd.vals = <<>> \/ isUnder(nd, 0)) -> t0
        [] canLend(t0, l) ->
             Adopted([t0 EXCEPT
               !.nodes[n].vals = <<up[i - 1]>> \o @,
               !.nodes[n].children = <<Last(t0.nodes[l].children)>> \o @,
               !.nodes[p].vals[i - 1] = Last(t0.nodes[l].vals),
               !.nodes[l].vals = Front(@), !.nodes[l].children = Front(@)], n)
        [] canLend(t0, r) ->
             Adopted([t0 EXCEPT
               !.nodes[n].vals = Append(@, up[i]),
               !.nodes[n].children = Append(@, Head(t0.nodes[r].children)),
               !.nodes[p].vals[i] = Head(t0.nodes[r].vals),
               !.nodes[r].vals = Tail(@), !.nodes[r].children = Tail(@)], n)
        [] canJoin(t0, l, Len(nd.vals) + 1) ->
             rmIndex(Adopted(Linked([t0 EXCEPT
               !.nodes[l].vals = Append(@, up[i - 1]) \o nd.vals,
               !.nodes[l].children = @ \o nd.children],
               l, nd.next, nd.next, nd.prev), l), i - 1, i, p)
        [] canJoin(t0, r, Len(nd.vals) + 1) ->
             rmIndex(Adopted(Linked([t0 EXCEPT
               !.nodes[r].vals = Append(nd.vals, up[i]) \o @,
               !.nodes[r].children = nd.children \o @],
               nd.prev, nd.next, r, nd.prev), r), i, i, p)
        [] OTHER -> t0

(* balance: leaf n has lost the key at position j. *)
balance(t, j, n) ==
  LET nd == t.nodes[n]
      p == nd.parent
      l == left(t, n)
      r == right(t, n)
      i == at(t, n)
  IN  CASE p = Nil -> IF nd.vals = <<>> THEN Empty ELSE t
        [] ~isUnder(nd, 0) -> updateIndexes(t, j, n)
        [] canLend(t, l) ->
             LET k == Last(t.nodes[l].vals)
             IN  [t EXCEPT !.nodes[n].vals = <<k>> \o @, !.nodes[l].vals = Front(@),
                           !.nodes[p].vals[i - 1] = k]
        [] canLend(t, r) ->
             LET rest == Tail(t.nodes[r].vals)
             IN  updateIndexes(
                   [t EXCEPT !.nodes[n].vals = Append(@, Head(t.nodes[r].vals)),
                             !.nodes[r].vals = rest, !.nodes[p].vals[i] = Head(rest)], j, n)
        [] canJoin(t, l, Len(nd.vals)) ->
             rmIndex(Linked([t EXCEPT !.nodes[l].vals = @ \o nd.vals],
                            l, nd.next, nd.next, nd.prev), i - 1, i, p)
        [] canJoin(t, r, Len(nd.vals)) ->
             updateIndexes(
               rmIndex(Linked([t EXCEPT !.nodes[r].vals = nd.vals \o @],
                              nd.prev, nd.next, r, nd.prev), i, i, p), 1, r)
        [] OTHER -> updateIndexes(t, j, n)

deleted(t, k) ==
  LET n == search(t, t.root, k)
      j == indexOf(k, t.nodes[n].vals)
  IN  IF j = 0 THEN t ELSE balance([t EXCEPT !.nodes[n].vals = RemoveAt(@, j)], j, n)

-----------------------------------------------------------------------------
Init == order \in Order /\ tree = Empty /\ keys = {}

insert(k) ==
  /\ k \notin keys
  /\ tree' = Canonical(inserted(tree, k))
  /\ keys' = keys \cup {k}
  /\ UNCHANGED order

delete(k) ==
  /\ k \in keys
  /\ tree' = Canonical(deleted(tree, k))
  /\ keys' = keys \ {k}
  /\ UNCHANGED order

Next == \E k \in Key : insert(k) \/ delete(k)

Spec == Init /\ [][Next]_vars

-----------------------------------------------------------------------------
(* A position in a leaf; none is null. *)
none == <<Nil, 0>>
firstOf(t, n) == IF n = Nil THEN none ELSE <<n, 1>>
lastOf(t, n) == IF n = Nil THEN none ELSE <<n, Len(t.nodes[n].vals)>>

(* range: where it starts, forwards. *)
begin(t, after, x) ==
  LET n == search(t, t.root, x)
      vals == t.nodes[n].vals
      hit == indexOf(x, vals)
      g == greater(x, vals)
  IN  IF hit > 0 /\ ~after THEN <<n, hit>>
      ELSE IF g > 0 THEN <<n, g>>
      ELSE firstOf(t, t.nodes[n].next)

(* ... and backwards.  A bound below all keys of the leaf starts nowhere,  *)
(* unless it is the first of them and excluded.                            *)
rbegin(t, after, x) ==
  LET n == search(t, t.root, x)
      vals == t.nodes[n].vals
      hit == indexOf(x, vals)
      s == smaller(x, vals)
  IN  IF hit > 0 /\ ~after THEN <<n, hit>>
      ELSE IF s > 0 THEN <<n, s>>
      ELSE IF hit > 0 THEN lastOf(t, t.nodes[n].prev)
      ELSE none

(* getVals and getValsReverse without an end: the keys from a position. *)
RECURSIVE getVals(_, _)
getVals(t, pos) ==
  IF pos = none THEN <<>>
  ELSE LET nd == t.nodes[pos[1]]
       IN  SubSeq(nd.vals, pos[2], Len(nd.vals)) \o getVals(t, firstOf(t, nd.next))

RECURSIVE getValsReverse(_, _)
getValsReverse(t, pos) ==
  IF pos = none THEN <<>>
  ELSE LET nd == t.nodes[pos[1]]
       IN  Reverse(SubSeq(nd.vals, 1, pos[2])) \o getValsReverse(t, lastOf(t, nd.prev))

(* startAt or startAfter x; no bound is [start |-> "first"]. *)
range(t, start, x, reverse) ==
  LET after == start = "after"
  IN  IF t.root = Nil THEN <<>>
      ELSE IF reverse
      THEN getValsReverse(t, IF start = "first" THEN lastOf(t, edge(t, t.root, TRUE))
                             ELSE rbegin(t, after, x))
      ELSE getVals(t, IF start = "first" THEN firstOf(t, edge(t, t.root, FALSE))
                      ELSE begin(t, after, x))

-----------------------------------------------------------------------------
Node == [leaf : BOOLEAN, vals : Seq(Key), children : Seq(Nat), parent : Nat, prev : Nat, next : Nat]

(* Every node has the form the code gives it, and no pointer of a node     *)
(* leads to a node that is not in the tree.                                *)
TypeOK ==
  /\ order \in Order
  /\ keys \subseteq Key
  /\ tree.root \in {Nil, 1}
  /\ tree.nodes \in Seq(Node)

(* bpt.js, search: a document that the tree has is found in the leaf that  *)
(* its key leads to; delete() of one that is not found silently leaves it. *)
EveryKeyIsFound ==
  \A k \in keys :
    /\ tree.root # Nil
    /\ indexOf(k, tree.nodes[search(tree, tree.root, k)].vals) > 0

(* How far below node n its leaves are. *)
RECURSIVE leafDepths(_, _)
leafDepths(t, n) ==
  LET nd == t.nodes[n]
  IN  IF nd.leaf THEN {0}
      ELSE {d + 1 : d \in UNION {leafDepths(t, c) : c \in Range(nd.children)}}

(* bpt.js, balance, rmIndex, split: no pointer dangles, all leaves are at  *)
(* one depth, the nodes are filled between their limits, and parent and    *)
(* children agree.                                                         *)
IsBalanced ==
  /\ TypeOK
  /\ \A n \in DOMAIN tree.nodes :
       LET nd == tree.nodes[n]
       IN  /\ ~isOver(nd, 0) /\ nd.vals # <<>>
           /\ n # tree.root => ~isUnder(nd, 0)
           /\ n = tree.root <=> nd.parent = Nil
           /\ ~nd.leaf =>
                /\ Len(nd.children) = Len(nd.vals) + 1
                /\ \A c \in Range(nd.children) : tree.nodes[c].parent = n
  /\ tree.root # Nil => \A d, e \in leafDepths(tree, tree.root) : d = e

(* The documents a query is about, and that r holds them in order. *)
Wanted(start, x, reverse) ==
  {k \in keys : \/ start = "first"
                \/ start = "at" /\ k = x
                \/ IF reverse THEN k < x ELSE k > x}
IsListOf(r, S, reverse) ==
  /\ Range(r) = S
  /\ \A i \in 1..(Len(r) - 1) : IF reverse THEN r[i] > r[i + 1] ELSE r[i] < r[i + 1]

(* bpt.js, range: whatever was inserted and deleted before, every query,   *)
(* from every bound, in both directions, returns the documents of its      *)
(* range, each once and in order.  Backwards this takes separators that    *)
(* are the first key to their right: rsearch goes right on equality and    *)
(* starts nowhere if it meets larger keys only.                            *)
RangeIsExact ==
  \A start \in {"first", "at", "after"}, x \in Key, reverse \in BOOLEAN :
    IsListOf(range(tree, start, x, reverse), Wanted(start, x, reverse), reverse)
=============================================================================
