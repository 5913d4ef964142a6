---------------------------- MODULE SnapshotStore ----------------------------
(***************************************************************************)
(* What the in-memory side of the store promises its callers: a growing    *)
(* set of written keys, and reads that work on the set as it was when they *)
(* started. A read may also see writes that are made while it runs, and    *)
(* never loses one. Flush and compaction do not exist at this level.       *)
(***************************************************************************)
CONSTANTS Keys, Readers

VARIABLES
  store,  \* the keys whose Put returned OK
  view    \* view[r]: whether r is reading, and the keys its read can find

Idle == [reading |-> FALSE, keys |-> {}]

Init ==
  /\ store \in SUBSET Keys
  /\ view = [r \in Readers |-> Idle]

\* A running read holds the live memtable, so it may find the new key, or it
\* holds only older ones and will not.
Put(k) ==
  /\ store' = store \cup {k}
  /\ \E seers \in SUBSET {r \in Readers : view[r].reading} :
        view' = [r \in Readers |->
                   IF r \in seers
                     THEN [view[r] EXCEPT !.keys = @ \cup {k}] ELSE view[r]]

BeginRead(r) ==
  /\ ~view[r].reading
  /\ view' = [view EXCEPT ![r] = [reading |-> TRUE, keys |-> store]]
  /\ UNCHANGED store

EndRead(r) ==
  /\ view[r].reading
  /\ view' = [view EXCEPT ![r] = Idle]
  /\ UNCHANGED store

Next ==
  \/ \E k \in Keys \ store : Put(k)
  \/ \E r \in Readers : BeginRead(r) \/ EndRead(r)

Spec == Init /\ [][Next]_<<store, view>>
=============================================================================
