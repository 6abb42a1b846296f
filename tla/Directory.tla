------------------------------ MODULE Directory ------------------------------
(***************************************************************************)
(* One directory of a database: its documents, the trees of its indexes    *)
(* (core/src/indexer.js, dev_add_index.js, dev_remove_index.js) and its    *)
(* triggers (dev_trigger.js, dev_add_trigger.js, dev_remove_trigger.js).   *)
(*                                                                         *)
(* A document has some of the fields, with scalar values that are not null.*)
(* A tree is the set of its entries: the id of a document and the values   *)
(* of the index fields that it was inserted under; module BPTree has the   *)
(* tree itself.  The index <<>> is the id tree, <<f>> is the index of the  *)
(* field f, which the code keeps by itself; longer ones are added by the   *)
(* owner.  Whether a field is sorted up or down makes another index and no *)
(* other difference.                                                       *)
(*                                                                         *)
(* Every action is a committed query, and is flushed before the next one.  *)
(* What a trigger does to other directories is left out: `ran' is the set  *)
(* of the triggers that the last query ran.                                *)
(***************************************************************************)
EXTENDS Integers, Sequences, FiniteSets, Functions

CONSTANTS
  Id,          \* document ids: naturals, in the order of the id tree
  Field, Value,
  Compound,    \* the multi-field indexes that may be added
  RangeCap,    \* how many documents idtree.range() returns: 1000 in the code
  Key,         \* keys of triggers
  Trigger,     \* what addTrigger is called with: [on, fields, match]
  NONE

ASSUME DirectoryAssumption ==
  /\ Id \subseteq Nat
  /\ \A x \in Compound : x \in Seq(Field) /\ Len(x) > 1
  /\ RangeCap \in Nat
  /\ \A t \in Trigger : /\ t.on \subseteq {"create", "update", "delete"}
                        /\ t.fields = NONE \/ t.fields \subseteq Field
                        /\ t.match \in {"all", "any", "none"}

VARIABLES
  docs,      \* the documents: a function of their ids
  trees,     \* the entries of each index
  indexes,   \* the multi-field indexes of the directory
  capped,    \* those built or removed when there were more than RangeCap documents
  triggers,  \* dirinfo.triggers: key -> reference
  bodies,    \* _config/triggers_<index>_<reference>
  ran

vars == <<docs, trees, indexes, capped, triggers, bodies, ran>>

-----------------------------------------------------------------------------
Doc == UNION {[F -> Value] : F \in SUBSET Field}

ASSUME NoneAssumption ==
  NONE \notin Value /\ NONE \notin Doc /\ NONE \notin {"create", "update", "delete"}

Index == {<<>>} \cup {<<f>> : f \in Field} \cup Compound

(* The indexes whose trees follow the documents. *)
Kept == (Index \ Compound) \cup indexes

Covers(d, x) == Range(x) \subseteq DOMAIN d
Entry(id, d, x) == [id |-> id, key |-> [k \in 1..Len(x) |-> d[x[k]]]]
Without(tree, id) == {e \in tree : e.id # id}

Init ==
  /\ docs = [id \in {} |-> NONE]
  /\ trees = [x \in Index |-> {}]
  /\ indexes = {} /\ capped = {}
  /\ triggers = [k \in {} |-> 0] /\ bodies = [r \in {} |-> NONE]
  /\ ran = {}

-----------------------------------------------------------------------------
(* put() for a document that is not there: it is inserted into the tree of *)
(* every index that it has the fields of.                                  *)
Created(id, d) ==
  [x \in Index |->
     IF x \in Kept /\ Covers(d, x) THEN trees[x] \cup {Entry(id, d, x)} ELSE trees[x]]

(* mod(): the fields an update removes, adds and changes. *)
dels(old, d) == DOMAIN old \ DOMAIN d
news(old, d) == DOMAIN d \ DOMAIN old
changes(old, d) == {f \in DOMAIN d \cap DOMAIN old : d[f] # old[f]}

(* _update() looks at an index if the document has all of its fields       *)
(* before or after.  (Faulty variant of isDel: only removed fields count.) *)
touched(old, d, x) == Covers(old, x) \/ Covers(d, x)
isDel_Removed(old, d, x) == Range(x) \cap dels(old, d) # {}
isDel(old, d, x) == Range(x) \cap (changes(old, d) \cup dels(old, d)) # {}
isAdd(old, d, x) ==
  /\ Range(x) \cap (changes(old, d) \cup news(old, d)) # {}
  /\ Range(x) \cap dels(old, d) = {}

Updated(id, old, d) ==
  [x \in Index |->
     LET rest == IF isDel(old, d, x) THEN Without(trees[x], id) ELSE trees[x]
     IN  IF x \notin Kept \/ ~touched(old, d, x) THEN trees[x]
         ELSE IF isAdd(old, d, x) THEN rest \cup {Entry(id, d, x)} ELSE rest]

(* del(): out of the trees of the indexes that it has the fields of. *)
Deleted(id, old) ==
  [x \in Index |->
     IF x \in Kept /\ Covers(old, x) THEN Without(trees[x], id) ELSE trees[x]]

-----------------------------------------------------------------------------
(* trigger(): what happened to the document.  An update in which no field  *)
(* of the old document differs is no event, and new fields are not in diff *)
(* (uniq(bkeys, akeys) is uniq(bkeys)).  NONE stands for no document.      *)
diff(old, d) ==
  IF old = NONE THEN DOMAIN d
  ELSE IF d = NONE THEN DOMAIN old
  ELSE {f \in DOMAIN old : f \in DOMAIN d => d[f] # old[f]}

event(old, d) ==
  IF old = NONE THEN "create"
  ELSE IF d = NONE THEN "delete"
  ELSE IF diff(old, d) # {} THEN "update" ELSE NONE

matches(t, ks) ==
  \/ t.fields = NONE
  \/ t.match = "all" /\ t.fields \subseteq ks
  \/ t.match = "any" /\ t.fields \cap ks # {}
  \/ t.match = "none" /\ t.fields \cap ks = {}

(* A key whose reference leads to no body makes trigger() throw, and the   *)
(* query is refused.                                                       *)
fires(old, d) ==
  /\ event(old, d) # NONE => Range(triggers) \subseteq DOMAIN bodies
  /\ ran' = {k \in DOMAIN triggers :
               /\ event(old, d) # NONE
               /\ event(old, d) \in bodies[triggers[k]].on
               /\ matches(bodies[triggers[k]], diff(old, d))}

(* add, set, update and upsert; d is the document after merge(). *)
put(id, d) ==
  LET old == IF id \in DOMAIN docs THEN docs[id] ELSE NONE
  IN  /\ fires(old, d)
      /\ docs' = [i \in DOMAIN docs \cup {id} |-> IF i = id THEN d ELSE docs[i]]
      /\ trees' = IF old = NONE THEN Created(id, d) ELSE Updated(id, old, d)
      /\ UNCHANGED <<indexes, capped, triggers, bodies>>

del(id) ==
  /\ id \in DOMAIN docs
  /\ fires(docs[id], NONE)
  /\ docs' = [i \in DOMAIN docs \ {id} |-> docs[i]]
  /\ trees' = Deleted(id, docs[id])
  /\ UNCHANGED <<indexes, capped, triggers, bodies>>

-----------------------------------------------------------------------------
(* idtree.range(): the first documents. *)
InRange == {id \in DOMAIN docs : Cardinality({i \in DOMAIN docs : i < id}) < RangeCap}
Capped(x) == IF DOMAIN docs = InRange THEN capped ELSE capped \cup {x}

(* addIndex(): the tree is built from the documents that have the fields. *)
addIndex(x) ==
  /\ x \notin indexes
  /\ indexes' = indexes \cup {x}
  /\ trees' = [trees EXCEPT ![x] =
       @ \cup {Entry(id, docs[id], x) : id \in {i \in InRange : Covers(docs[i], x)}}]
  /\ capped' = Capped(x)
  /\ ran' = {}
  /\ UNCHANGED <<docs, triggers, bodies>>

(* removeIndex(): the documents are taken out one by one. *)
removeIndex(x) ==
  /\ x \in indexes
  /\ indexes' = indexes \ {x}
  /\ trees' = [trees EXCEPT ![x] = {e \in @ : e.id \notin InRange}]
  /\ capped' = Capped(x)
  /\ ran' = {}
  /\ UNCHANGED <<docs, triggers, bodies>>

(* add_trigger: triggers_index is set to -1 on every call, so the next     *)
(* reference is always 0.                                                  *)
nextRef == 0

addTrigger(k, t) ==
  /\ triggers' = [j \in DOMAIN triggers \cup {k} |-> IF j = k THEN nextRef ELSE triggers[j]]
  /\ bodies' = [r \in DOMAIN bodies \cup {nextRef} |-> IF r = nextRef THEN t ELSE bodies[r]]
  /\ ran' = {}
  /\ UNCHANGED <<docs, trees, indexes, capped>>

(* remove_trigger *)
removeTrigger(k) ==
  /\ k \in DOMAIN triggers
  /\ bodies' = [r \in DOMAIN bodies \ {triggers[k]} |-> bodies[r]]
  /\ triggers' = [j \in DOMAIN triggers \ {k} |-> triggers[j]]
  /\ ran' = {}
  /\ UNCHANGED <<docs, trees, indexes, capped>>

Next ==
  \/ \E id \in Id, d \in Doc : put(id, d)
  \/ \E id \in Id : del(id)
  \/ \E x \in Compound : addIndex(x)
  \/ \E x \in Compound : removeIndex(x)
  \/ \E k \in Key, t \in Trigger : addTrigger(k, t)
  \/ \E k \in Key : removeTrigger(k)

Spec == Init /\ [][Next]_vars

-----------------------------------------------------------------------------
TypeOK ==
  /\ DOMAIN docs \subseteq Id /\ \A id \in DOMAIN docs : docs[id] \in Doc
  /\ DOMAIN trees = Index
  /\ indexes \subseteq Compound /\ capped \subseteq Compound
  /\ DOMAIN triggers \subseteq Key
  /\ \A r \in DOMAIN bodies : bodies[r] \in Trigger
  /\ ran \subseteq Key

(* structure.mdx: the indexes are recomputable.  Whatever queries have     *)
(* added, removed and changed fields before or after an index was added,   *)
(* its tree holds every document that has its fields, once, under the      *)
(* values it has now, and nothing else; a removed index leaves nothing.    *)
(* Indexes that addIndex or removeIndex did not see all documents of are   *)
(* left out.                                                               *)
IndexIsExact ==
  \A x \in Index \ capped :
    trees[x] = IF x \in Kept
               THEN {Entry(id, docs[id], x) :
                       id \in {i \in DOMAIN docs : Covers(docs[i], x)}}
               ELSE {}
=============================================================================
