----------------------------- MODULE OrderedMap -----------------------------
(***************************************************************************)
(* What class RangeLH promises: a map from keys to data.  insert writes    *)
(* the value of its key, present or not; remove deletes it.                *)
(***************************************************************************)
CONSTANTS Keys, Values, NoValue

VARIABLE map

Init == map = [k \in Keys |-> NoValue]

\* No value but that of k changes.  (Said key by key, so that TLC evaluates few of
\* the values of a refined map.)
Only(k) == \A j \in Keys \ {k} : map'[j] = map[j]

Put(k) == map'[k] \in Values /\ Only(k)
Delete(k) == map'[k] = NoValue /\ Only(k)
Get(k) == map[k]

Next == \E k \in Keys : Put(k) \/ Delete(k)

Spec == Init /\ [][Next]_map

=============================================================================
