--------------------------- MODULE DirectoryProofs ---------------------------
(* For every number of documents, fields and indexes, the indexes are      *)
(* exact.                                                                  *)
EXTENDS Directory, TLAPS

(* What an index holds of the documents ds. *)
Entries(ds, x) == {Entry(id, ds[id], x) : id \in {i \in DOMAIN ds : Covers(ds[i], x)}}

LEMMA IndexFields ==
  ASSUME NEW x \in Index
  PROVE  DOMAIN x = 1..Len(x) /\ Range(x) = {x[k] : k \in 1..Len(x)}
<1>1. CASE x = <<>>
  BY <1>1 DEF Range
<1>2. CASE \E f \in Field : x = <<f>>
  BY <1>2 DEF Range
<1>3. CASE x \in Compound
  BY <1>3, DirectoryAssumption DEF Range
<1> QED BY <1>1, <1>2, <1>3 DEF Index

LEMMA TypeInv == Spec => []TypeOK
<1>1. Init => TypeOK
  BY DEF Init, TypeOK
<1>2. TypeOK /\ [Next]_vars => TypeOK'
  <2> SUFFICES ASSUME TypeOK, [Next]_vars PROVE TypeOK'
    OBVIOUS
  <2> USE DEF TypeOK
  <2>1. ASSUME NEW id \in Id, NEW d \in Doc, put(id, d) PROVE TypeOK'
    BY <2>1 DEF put, fires, Created, Updated
  <2>2. ASSUME NEW id \in Id, del(id) PROVE TypeOK'
    BY <2>2 DEF del, fires, Deleted
  <2>3. ASSUME NEW x \in Compound, addIndex(x) PROVE TypeOK'
    BY <2>3 DEF addIndex, Capped
  <2>4. ASSUME NEW x \in Compound, removeIndex(x) PROVE TypeOK'
    BY <2>4 DEF removeIndex, Capped
  <2>5. ASSUME NEW k \in Key, NEW t \in Trigger, addTrigger(k, t) PROVE TypeOK'
    BY <2>5 DEF addTrigger
  <2>6. ASSUME NEW k \in Key, removeTrigger(k) PROVE TypeOK'
    BY <2>6 DEF removeTrigger
  <2>7. CASE UNCHANGED vars
    BY <2>7 DEF vars
  <2> QED BY <2>1, <2>2, <2>3, <2>4, <2>5, <2>6, <2>7 DEF Next
<1> QED BY <1>1, <1>2, PTL DEF Spec

-----------------------------------------------------------------------------
(* A document that comes, changes or goes leaves the entries of the others *)
(* as they are.                                                            *)
LEMMA OthersStay ==
  ASSUME NEW ds, NEW id, NEW x, NEW es,
         \A i \in DOMAIN ds \ {id} : i \in DOMAIN es /\ es[i] = ds[i],
         DOMAIN es \subseteq DOMAIN ds \cup {id}
  PROVE  /\ Without(Entries(ds, x), id) = Without(Entries(es, x), id)
         /\ id \in DOMAIN es /\ Covers(es[id], x) =>
              Entries(es, x) = Without(Entries(es, x), id) \cup {Entry(id, es[id], x)}
         /\ ~(id \in DOMAIN es /\ Covers(es[id], x)) =>
              Entries(es, x) = Without(Entries(es, x), id)
<1>1. \A i, d : Entry(i, d, x).id = i
  BY DEF Entry
<1>2. \A tree : \A e : e \in Without(tree, id) <=> e \in tree /\ e.id # id
  BY DEF Without
<1>3. \A fs : \A e : e \in Entries(fs, x)
                   <=> \E i \in DOMAIN fs : Covers(fs[i], x) /\ e = Entry(i, fs[i], x)
  BY DEF Entries
<1>4. \A e : e.id # id => (e \in Entries(ds, x) <=> e \in Entries(es, x))
  BY <1>1, <1>3
<1>5. \A e \in Entries(es, x) : e.id = id =>
        id \in DOMAIN es /\ Covers(es[id], x) /\ e = Entry(id, es[id], x)
  BY <1>1, <1>3
<1>6. Without(Entries(ds, x), id) = Without(Entries(es, x), id)
  BY <1>2, <1>4
<1>7. ASSUME id \in DOMAIN es, Covers(es[id], x)
      PROVE  Entries(es, x) = Without(Entries(es, x), id) \cup {Entry(id, es[id], x)}
  <2>1. Entry(id, es[id], x) \in Entries(es, x)
    BY <1>3, <1>7
  <2> QED BY <1>2, <1>5, <2>1
<1>8. ASSUME ~(id \in DOMAIN es /\ Covers(es[id], x))
      PROVE  Entries(es, x) = Without(Entries(es, x), id)
  <2>1. \A e : e \in Entries(es, x) => e.id # id
    BY <1>5, <1>8
  <2>2. \A e : e \in Entries(es, x) <=> e \in Without(Entries(es, x), id)
    BY <1>2, <2>1
  <2> QED BY <2>2
<1> QED BY <1>6, <1>7, <1>8

(* What a put makes of the tree of an index that is kept and exact.        *)
LEMMA CreatedIsExact ==
  ASSUME TypeOK, NEW id \in Id, NEW d \in Doc, id \notin DOMAIN docs,
         docs' = [i \in DOMAIN docs \cup {id} |-> IF i = id THEN d ELSE docs[i]],
         NEW x \in Index, x \in Kept, trees[x] = Entries(docs, x)
  PROVE  Created(id, d)[x] = Entries(docs', x)
<1>1. /\ DOMAIN docs' = DOMAIN docs \cup {id} /\ docs'[id] = d
      /\ \A i \in DOMAIN docs \ {id} : docs'[i] = docs[i]
  OBVIOUS
<1>2. Without(Entries(docs, x), id) = Entries(docs, x)
  BY OthersStay
<1>3. Created(id, d)[x] = IF Covers(d, x) THEN trees[x] \cup {Entry(id, d, x)} ELSE trees[x]
  BY DEF Created
<1>4. Without(Entries(docs', x), id) = Entries(docs, x)
  BY <1>1, <1>2, OthersStay
<1>5. CASE Covers(d, x)
  <2>1. Entries(docs', x) = Without(Entries(docs', x), id) \cup {Entry(id, d, x)}
    BY <1>1, <1>5, OthersStay
  <2> QED BY <1>3, <1>4, <1>5, <2>1
<1>6. CASE ~Covers(d, x)
  <2>1. Entries(docs', x) = Without(Entries(docs', x), id)
    BY <1>1, <1>6, OthersStay
  <2> QED BY <1>3, <1>4, <1>6, <2>1
<1> QED BY <1>5, <1>6

LEMMA UpdatedIsExact ==
  ASSUME TypeOK, NEW id \in Id, NEW d \in Doc, id \in DOMAIN docs,
         docs' = [i \in DOMAIN docs \cup {id} |-> IF i = id THEN d ELSE docs[i]],
         NEW x \in Index, x \in Kept, trees[x] = Entries(docs, x)
  PROVE  Updated(id, docs[id], d)[x] = Entries(docs', x)
<1> DEFINE old == docs[id]
           rest == Without(Entries(docs, x), id)
<1>1. /\ DOMAIN docs' = DOMAIN docs /\ docs'[id] = d
      /\ \A i \in DOMAIN docs \ {id} : docs'[i] = docs[i]
  OBVIOUS
<1>2. /\ rest = Without(Entries(docs', x), id)
      /\ Covers(d, x) => Entries(docs', x) = rest \cup {Entry(id, d, x)}
      /\ ~Covers(d, x) => Entries(docs', x) = rest
  BY <1>1, OthersStay
<1>3. /\ Covers(old, x) => Entries(docs, x) = rest \cup {Entry(id, old, x)}
      /\ ~Covers(old, x) => Entries(docs, x) = rest
  BY OthersStay
<1>4. Updated(id, old, d)[x] =
        LET kept == IF isDel(old, d, x) THEN rest ELSE Entries(docs, x)
        IN  IF ~touched(old, d, x) THEN Entries(docs, x)
            ELSE IF isAdd(old, d, x) THEN kept \cup {Entry(id, d, x)} ELSE kept
  BY DEF Updated
<1>5. CASE ~Covers(d, x) /\ ~Covers(old, x)
  BY <1>2, <1>3, <1>4, <1>5 DEF touched
<1>6. CASE ~Covers(d, x) /\ Covers(old, x)
  <2>1. Range(x) \cap dels(old, d) # {}
    BY <1>6 DEF Covers, dels
  <2>2. isDel(old, d, x) /\ ~isAdd(old, d, x) /\ touched(old, d, x)
    BY <2>1, <1>6 DEF isDel, isAdd, touched
  <2> QED BY <1>2, <1>4, <1>6, <2>2
<1>7. CASE Covers(d, x) /\ ~Covers(old, x)
  <2>1. Range(x) \cap news(old, d) # {} /\ Range(x) \cap dels(old, d) = {}
    BY <1>7 DEF Covers, news, dels
  <2>2. isAdd(old, d, x) /\ touched(old, d, x)
    BY <2>1, <1>7 DEF isAdd, touched
  <2> QED BY <1>2, <1>3, <1>4, <1>7, <2>2
<1>8. CASE Covers(d, x) /\ Covers(old, x)
  <2>1. Range(x) \cap dels(old, d) = {} /\ Range(x) \cap news(old, d) = {}
    BY <1>8 DEF Covers, news, dels
  <2>2. CASE Range(x) \cap changes(old, d) # {}
    <3>1. isDel(old, d, x) /\ isAdd(old, d, x) /\ touched(old, d, x)
      BY <2>1, <2>2, <1>8 DEF isDel, isAdd, touched
    <3> QED BY <1>2, <1>4, <1>8, <3>1
  <2>3. CASE Range(x) \cap changes(old, d) = {}
    <3>1. ~isDel(old, d, x) /\ ~isAdd(old, d, x)
      BY <2>1, <2>3 DEF isDel, isAdd
    <3>2. \A k \in 1..Len(x) : d[x[k]] = old[x[k]]
      BY <2>3, <1>8, IndexFields DEF changes, Covers
    <3>3. Entry(id, d, x) = Entry(id, old, x)
      BY <3>2 DEF Entry
    <3> QED BY <1>2, <1>3, <1>4, <1>8, <3>1, <3>3
  <2> QED BY <2>2, <2>3
<1> QED BY <1>5, <1>6, <1>7, <1>8

LEMMA DeletedIsExact ==
  ASSUME TypeOK, NEW id \in DOMAIN docs,
         docs' = [i \in DOMAIN docs \ {id} |-> docs[i]],
         NEW x \in Index, x \in Kept, trees[x] = Entries(docs, x)
  PROVE  Deleted(id, docs[id])[x] = Entries(docs', x)
<1>1. /\ DOMAIN docs' = DOMAIN docs \ {id}
      /\ \A i \in DOMAIN docs \ {id} : docs'[i] = docs[i]
  OBVIOUS
<1>2. Entries(docs', x) = Without(Entries(docs, x), id)
  <2>1. Without(Entries(docs, x), id) = Without(Entries(docs', x), id)
    BY <1>1, OthersStay
  <2>2. Entries(docs', x) = Without(Entries(docs', x), id)
    BY <1>1, OthersStay
  <2> QED BY <2>1, <2>2
<1>3. ~Covers(docs[id], x) => Entries(docs, x) = Without(Entries(docs, x), id)
  BY OthersStay
<1>4. Deleted(id, docs[id])[x] =
        IF Covers(docs[id], x) THEN Without(trees[x], id) ELSE trees[x]
  BY DEF Deleted
<1> QED BY <1>2, <1>3, <1>4

-----------------------------------------------------------------------------
(* An index that is built, or given up, while range() returns all documents*)
(* ends up with all of them, or none.                                      *)
LEMMA AddedIsExact ==
  ASSUME TypeOK, NEW y \in Compound, addIndex(y), y \notin capped', trees[y] = {}
  PROVE  trees'[y] = Entries(docs', y)
<1>1. DOMAIN docs = InRange /\ docs' = docs
  BY DEF addIndex, Capped
<1>2. trees'[y] = {Entry(id, docs[id], y) : id \in {i \in InRange : Covers(docs[i], y)}}
  BY DEF addIndex, TypeOK, Index
<1> QED BY <1>1, <1>2 DEF Entries

LEMMA RemovedIsEmpty ==
  ASSUME TypeOK, NEW y \in Compound, removeIndex(y), y \notin capped', trees[y] = Entries(docs, y)
  PROVE  trees'[y] = {}
<1>1. DOMAIN docs = InRange
  BY DEF removeIndex, Capped
<1>2. trees'[y] = {e \in Entries(docs, y) : e.id \notin InRange}
  BY DEF removeIndex, TypeOK, Index
<1>3. \A e \in Entries(docs, y) : e.id \in DOMAIN docs
  BY DEF Entries, Entry
<1> QED BY <1>1, <1>2, <1>3

LEMMA StepKeepsIndexes == TypeOK /\ IndexIsExact /\ [Next]_vars => IndexIsExact'
<1> SUFFICES ASSUME TypeOK, IndexIsExact, [Next]_vars, NEW x \in Index, x \notin capped'
             PROVE  trees'[x] = IF x \in Kept' THEN Entries(docs', x) ELSE {}
  BY DEF IndexIsExact, Entries
<1>1. x \notin capped
  BY DEF Next, put, del, addIndex, removeIndex, Capped, addTrigger, removeTrigger, vars
<1>2. trees[x] = IF x \in Kept THEN Entries(docs, x) ELSE {}
  BY <1>1 DEF IndexIsExact, Entries
<1>3. ASSUME NEW id \in Id, NEW d \in Doc, put(id, d)
      PROVE  trees'[x] = IF x \in Kept' THEN Entries(docs', x) ELSE {}
  <2>1. /\ docs' = [i \in DOMAIN docs \cup {id} |-> IF i = id THEN d ELSE docs[i]]
        /\ Kept' = Kept
    BY <1>3 DEF put, Kept
  <2>2. CASE id \notin DOMAIN docs
    <3>1. trees' = Created(id, d)
      BY <1>3, <2>2 DEF put
    <3>2. x \notin Kept => trees'[x] = trees[x]
      BY <3>1 DEF Created
    <3> QED BY <1>2, <2>1, <2>2, <3>1, <3>2, CreatedIsExact
  <2>3. CASE id \in DOMAIN docs
    <3>1. trees' = Updated(id, docs[id], d)
      <4>1. docs[id] # NONE
        BY <2>3, NoneAssumption DEF TypeOK
      <4> QED BY <1>3, <2>3, <4>1 DEF put
    <3>2. x \notin Kept => trees'[x] = trees[x]
      BY <3>1 DEF Updated
    <3> QED BY <1>2, <2>1, <2>3, <3>1, <3>2, UpdatedIsExact
  <2> QED BY <2>2, <2>3
<1>4. ASSUME NEW id \in Id, del(id)
      PROVE  trees'[x] = IF x \in Kept' THEN Entries(docs', x) ELSE {}
  <2>1. /\ id \in DOMAIN docs /\ docs' = [i \in DOMAIN docs \ {id} |-> docs[i]]
        /\ trees' = Deleted(id, docs[id]) /\ Kept' = Kept
    BY <1>4 DEF del, Kept
  <2>2. x \notin Kept => trees'[x] = trees[x]
    BY <2>1 DEF Deleted
  <2> QED BY <1>2, <2>1, <2>2, DeletedIsExact
<1>5. ASSUME NEW y \in Compound, addIndex(y)
      PROVE  trees'[x] = IF x \in Kept' THEN Entries(docs', x) ELSE {}
  <2>1. docs' = docs /\ Kept' = Kept \cup {y} /\ y \notin Kept
    BY <1>5 DEF addIndex, Kept
  <2>2. CASE x = y
    BY <1>2, <1>5, <2>1, <2>2, AddedIsExact
  <2>3. CASE x # y
    <3>1. trees'[x] = trees[x]
      BY <1>5, <2>3 DEF addIndex
    <3> QED BY <1>2, <2>1, <2>3, <3>1
  <2> QED BY <2>2, <2>3
<1>6. ASSUME NEW y \in Compound, removeIndex(y)
      PROVE  trees'[x] = IF x \in Kept' THEN Entries(docs', x) ELSE {}
  <2>1. docs' = docs /\ Kept' = Kept \ {y} /\ y \in Kept
    BY <1>6 DEF removeIndex, Kept
  <2>2. CASE x = y
    BY <1>2, <1>6, <2>1, <2>2, RemovedIsEmpty
  <2>3. CASE x # y
    <3>1. trees'[x] = trees[x]
      BY <1>6, <2>3 DEF removeIndex
    <3> QED BY <1>2, <2>1, <2>3, <3>1
  <2> QED BY <2>2, <2>3
<1>7. ASSUME UNCHANGED <<docs, trees, indexes>>
      PROVE  trees'[x] = IF x \in Kept' THEN Entries(docs', x) ELSE {}
  BY <1>2, <1>7 DEF Kept, Entries
<1> QED BY <1>3, <1>4, <1>5, <1>6, <1>7 DEF Next, addTrigger, removeTrigger, vars

(* structure.mdx: the indexes are recomputable from the documents.         *)
THEOREM IndexesAreExact == Spec => []IndexIsExact
<1>1. Init => IndexIsExact
  BY DEF Init, IndexIsExact
<1> QED BY <1>1, TypeInv, StepKeepsIndexes, PTL DEF Spec
=============================================================================
