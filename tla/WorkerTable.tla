----------------------------- MODULE WorkerTable -----------------------------
(***************************************************************************)
(* What class LinearHashing promises its callers, with no bucket in sight: *)
(* a table from ids to the workers stored under them.  Several workers may *)
(* be stored under one id (insert does not look for an earlier one);       *)
(* remove takes out one of them, and which one is left open.               *)
(***************************************************************************)
EXTENDS Naturals, Sequences

CONSTANTS Ids, Workers, MaxBatch

VARIABLE table    \* table[id]: the workers stored under id

Free == Workers \ UNION {table[id] : id \in Ids}

Init == table = [id \in Ids |-> {}]

Insert(id, w) ==
  /\ w \in Free
  /\ table' = [table EXCEPT ![id] = @ \cup {w}]

BatchInsert(entries) ==
  /\ \A i, j \in DOMAIN entries : i # j => entries[i].worker # entries[j].worker
  /\ table' = [id \in Ids |-> table[id] \cup
                 {entries[i].worker : i \in {j \in DOMAIN entries : entries[j].id = id}}]

Remove(id) ==
  IF table[id] = {}
  THEN UNCHANGED table
  ELSE \E w \in table[id] : table' = [table EXCEPT ![id] = @ \ {w}]

Next ==
  \/ \E id \in Ids, w \in Workers : Insert(id, w)
  \/ \E n \in 0..MaxBatch : \E entries \in [1..n -> [id : Ids, worker : Free]] :
        BatchInsert(entries)
  \/ \E id \in Ids : Remove(id)

Spec == Init /\ [][Next]_table

=============================================================================
