------------------------------ MODULE OrderedSet ------------------------------
(***************************************************************************)
(* What a memtable's skip list promises its readers: a growing set of keys *)
(* in which a search finds, at one moment, the least key from its target   *)
(* upwards. How a search gets there does not exist at this level.          *)
(***************************************************************************)
EXTENDS Naturals

CONSTANTS Keys, Readers, Nil

VARIABLES
  set,    \* the keys that can be found
  answer  \* answer[r]: what r's search found, as a set of at most one pair

vars == <<set, answer>>

\* The least key of s that is not below t, or the end of the list.
IsLeastFrom(s, t, x) ==
  /\ x \in s \cup {Nil} /\ t <= x
  /\ \A k \in s : t <= k => x <= k

Init == set = {} /\ answer = [r \in Readers |-> {}]

Insert(k) ==
  /\ k \notin set
  /\ set' = set \cup {k}
  /\ UNCHANGED answer

Find(r, t, x) ==
  /\ answer[r] = {} /\ IsLeastFrom(set, t, x)
  /\ answer' = [answer EXCEPT ![r] = {<<t, x>>}]
  /\ UNCHANGED set

Return(r) ==
  /\ answer[r] # {}
  /\ answer' = [answer EXCEPT ![r] = {}]
  /\ UNCHANGED set

Next ==
  \/ \E k \in Keys : Insert(k)
  \/ \E r \in Readers : \/ \E t \in Keys, x \in Keys \cup {Nil} : Find(r, t, x)
                        \/ Return(r)
=============================================================================
