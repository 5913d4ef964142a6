------------------------------ MODULE SkipList ------------------------------
(***************************************************************************)
(* The skip list of a memtable (class SkipList, src/skiplist.cc): Put      *)
(* inserts under the DB's mutex, Get and iterators walk the list without   *)
(* it. A node is named by its InternalKey; keys are natural numbers, and   *)
(* nullptr is a number above them, so that "next is not null and its key   *)
(* is below the target" is next < target. MemTable::Add numbers its        *)
(* records, hence no key is inserted twice and the branch of Insert that   *)
(* replaces a value is not reached.                                        *)
(*                                                                         *)
(* The stores of an insertion are plain ones, which race with the readers: *)
(* a build may make them visible in program order or in any other. Which   *)
(* of the two is chosen at the start. The mutex makes all of them visible  *)
(* before Put returns.                                                     *)
(***************************************************************************)
EXTENDS Arena, FiniteSets

CONSTANTS
  Keys,         \* InternalKeys, in their order
  Nil,          \* nullptr
  Readers,      \* threads in Get or with an iterator
  MaxHeight,    \* kMaxHeight
  NodeSize,     \* sizeof(Node)
  PointerSize,  \* sizeof(Node*)
  KeySize,      \* bytes of an InternalKey
  ValueSizes    \* bytes of a value

ASSUME SkipListAssumption ==
  /\ Nil \in Nat \ {0} /\ Keys \subseteq 1..Nil - 1
  /\ MaxHeight \in Nat \ {0}
  /\ NodeSize \in Nat \ {0} /\ PointerSize \in Nat
  /\ KeySize \in Nat /\ ValueSizes \subseteq Nat

VARIABLES
  reorders,  \* whether stores may become visible out of program order
  next,      \* next[i][n]: node n's pointer on level i
  height,    \* node->height
  whole,     \* nodes whose key, value, height and cleared pointers are visible
  inserted,  \* keys whose Insert is over
  writer,    \* Insert: where it is, and its locals
  reader,    \* reader[r]: a search or an iterator, and its locals
  raced      \* history: readers beside whose walk a store became visible

listVars == <<reorders, next, height, whole, inserted, writer, reader, raced>>
vars == <<arenaVars, listVars>>

HeadNode == 0
Levels == 0..MaxHeight - 1
Nodes == Keys \cup {HeadNode}

\* pc: the constructor's allocations, idle, the search for the predecessors,
\* NewNode's allocations, the stores. todo holds the stores not yet visible.
NoInsert(pc) ==
  [pc |-> pc, key |-> Nil, level |-> 0, at |-> HeadNode,
   prev |-> [i \in Levels |-> HeadNode], succ |-> [i \in Levels |-> Nil], todo |-> {}]

\* known: the keys that were in the list when the read began; seen: what an
\* iterator has yielded.
NoRead == [pc |-> "idle", target |-> Nil, level |-> 0, at |-> HeadNode,
           known |-> {}, seen |-> {}]

Init ==
  /\ ArenaInit
  /\ reorders \in BOOLEAN
  /\ next = [i \in Levels |-> [n \in Nodes |-> Nil]]
  /\ height = [k \in Keys |-> 1]
  /\ whole = {} /\ inserted = {}
  /\ writer = NoInsert("head")
  /\ reader = [r \in Readers |-> NoRead]
  /\ raced = {}

-----------------------------------------------------------------------------
(* The walk *)

\* One step of FindGreaterOrEqual from node x on level i: where it goes.
NextAt(i, x) == next[i][x]
GoesRightPast(i, x, target) == NextAt(i, x) <= target
GoesRight(i, x, target) == NextAt(i, x) < target

-----------------------------------------------------------------------------
(* The writer, under mutex_ from BeginInsert to EndInsert *)

\* The head node, with a pointer on every level, and its empty key and value.
NodeBytes(h) == NodeSize + (h - 1) * PointerSize
CreateHead ==
  /\ writer.pc = "head" /\ AllocateAligned(NodeBytes(MaxHeight))
  /\ writer' = [writer EXCEPT !.pc = "headKey"]
  /\ UNCHANGED <<reorders, next, height, whole, inserted, reader, raced>>
CreateHeadData(pc, after) ==
  /\ writer.pc = pc /\ Allocate(1)
  /\ writer' = [writer EXCEPT !.pc = after]
  /\ UNCHANGED <<reorders, next, height, whole, inserted, reader, raced>>
Create ==
  \/ CreateHead
  \/ CreateHeadData("headKey", "headValue")
  \/ CreateHeadData("headValue", "idle")

BeginInsert(k) ==
  /\ writer.pc = "idle" /\ k \notin inserted
  /\ writer' = [NoInsert("search") EXCEPT !.key = k, !.level = MaxHeight - 1]
  /\ UNCHANGED <<arenaVars, reorders, next, height, whole, inserted, reader, raced>>

\* FindGreaterOrEqual with prev_.
SearchPrev ==
  /\ writer.pc = "search"
  /\ LET i == writer.level
     IN  IF GoesRight(i, writer.at, writer.key)
           THEN writer' = [writer EXCEPT !.at = NextAt(i, writer.at)]
         ELSE IF i = 0
           THEN writer' = [writer EXCEPT !.prev[0] = writer.at, !.pc = "node"]
         ELSE writer' = [writer EXCEPT !.prev[i] = writer.at, !.level = i - 1]
  /\ UNCHANGED <<arenaVars, reorders, next, height, whole, inserted, reader, raced>>

\* Insert's stores, numbered in program order: NewNode's into the node, then on
\* each level the node's pointer and its predecessor's.
FillLast == 2 * MaxHeight + 1
Fill == 0
LinkNextLast(i) == 2 * (MaxHeight + i) + 2
LinkNext(i) == 2 * i + 1
LinkPrev(i) == 2 * i + 2
Stores(h) == {Fill} \cup {LinkNext(i) : i \in 0..h - 1} \cup {LinkPrev(i) : i \in 0..h - 1}

\* RandomHeight, and NewNode's allocations.
NewNode(h) ==
  /\ writer.pc = "node" /\ AllocateAligned(NodeBytes(h))
  /\ writer' = [writer EXCEPT !.pc = "key"]
  /\ height' = [height EXCEPT ![writer.key] = h]
  /\ UNCHANGED <<reorders, next, whole, inserted, reader, raced>>
NewKey ==
  /\ writer.pc = "key" /\ Allocate(KeySize)
  /\ writer' = [writer EXCEPT !.pc = "value"]
  /\ UNCHANGED <<reorders, next, height, whole, inserted, reader, raced>>
NewValue(n) ==
  /\ writer.pc = "value" /\ Allocate(n)
  /\ writer' = [writer EXCEPT
       !.pc = "store",
       !.todo = Stores(height[writer.key]),
       !.succ = [i \in Levels |-> NextAt(i, writer.prev[i])]]
  /\ UNCHANGED <<reorders, next, height, whole, inserted, reader, raced>>

\* A store becomes visible.
Store(s) ==
  /\ writer.pc = "store" /\ s \in writer.todo
  /\ reorders \/ \A u \in writer.todo : s <= u
  /\ \/ s = Fill /\ whole' = whole \cup {writer.key} /\ UNCHANGED next
     \/ \E i \in Levels :
          /\ s = LinkNext(i) /\ next' = [next EXCEPT ![i][writer.key] = writer.succ[i]]
          /\ UNCHANGED whole
     \/ \E i \in Levels :
          /\ s = LinkPrev(i) /\ next' = [next EXCEPT ![i][writer.prev[i]] = writer.key]
          /\ UNCHANGED whole
  /\ writer' = [writer EXCEPT !.todo = @ \ {s}]
  /\ raced' = raced \cup {r \in Readers : reader[r].pc # "idle"}
  /\ UNCHANGED <<arenaVars, reorders, height, inserted, reader>>

EndInsert ==
  /\ writer.pc = "store" /\ writer.todo = {}
  /\ inserted' = inserted \cup {writer.key}
  /\ writer' = NoInsert("idle")
  /\ UNCHANGED <<arenaVars, reorders, next, height, whole, reader, raced>>

-----------------------------------------------------------------------------
(* The readers. They take mutex_ when they begin, and walk without it *)

Begin(r, read) ==
  /\ reader[r].pc = "idle" /\ writer.pc = "idle"
  /\ reader' = [reader EXCEPT ![r] = read]
  /\ raced' = raced \ {r}
  /\ UNCHANGED <<arenaVars, reorders, next, height, whole, inserted, writer>>

Step(r, read) ==
  /\ reader' = [reader EXCEPT ![r] = read]
  /\ UNCHANGED <<arenaVars, reorders, next, height, whole, inserted, writer, raced>>

\* A reader has come to a node that is not there yet: what it does from then on
\* is undefined.
Unreadable(n) == n # Nil /\ n \notin whole
Wild(r) == [reader[r] EXCEPT !.pc = "wild"]

\* MemTable::Get: FindGreaterOrEqual with the lookup key t, then the node found.
BeginSearch(r, t) ==
  Begin(r, [NoRead EXCEPT !.pc = "search", !.target = t, !.level = MaxHeight - 1,
                          !.known = inserted])
Search(r) ==
  LET i == reader[r].level
      x == reader[r].at
  IN  /\ reader[r].pc = "search"
      /\ \/ Unreadable(NextAt(i, x)) /\ Step(r, Wild(r))
         \/ /\ ~Unreadable(NextAt(i, x)) /\ GoesRight(i, x, reader[r].target)
            /\ Step(r, [reader[r] EXCEPT !.at = NextAt(i, x)])
         \/ /\ ~Unreadable(NextAt(i, x)) /\ ~GoesRight(i, x, reader[r].target)
            /\ i > 0 /\ Step(r, [reader[r] EXCEPT !.level = i - 1])
         \/ /\ ~Unreadable(NextAt(i, x)) /\ ~GoesRight(i, x, reader[r].target)
            /\ i = 0 /\ Step(r, [reader[r] EXCEPT !.pc = "found", !.at = NextAt(0, x)])

\* NewIterator takes its first node under mutex_, Next follows level 0.
Yield(read, x) == [read EXCEPT !.at = x, !.seen = @ \cup ({x} \ {Nil})]
BeginIterator(r) ==
  Begin(r, Yield([NoRead EXCEPT !.pc = "iterate", !.known = inserted],
                 NextAt(0, HeadNode)))
IteratorNext(r) ==
  /\ reader[r].pc = "iterate" /\ reader[r].at # Nil
  /\ LET x == NextAt(0, reader[r].at)
     IN  \/ Unreadable(x) /\ Step(r, Wild(r))
         \/ ~Unreadable(x) /\ Step(r, Yield(reader[r], x))

EndRead(r) ==
  /\ reader[r].pc \in {"found", "iterate", "wild"}
  /\ Step(r, NoRead)

WriterStep ==
  \/ Create
  \/ \E k \in Keys : BeginInsert(k)
  \/ SearchPrev
  \/ \E h \in 1..MaxHeight : NewNode(h)
  \/ NewKey
  \/ \E n \in ValueSizes : NewValue(n)
  \/ \E s \in Stores(MaxHeight) : Store(s)
  \/ EndInsert
ReaderStep(r) ==
  \/ \E t \in Keys : BeginSearch(r, t)
  \/ Search(r)
  \/ BeginIterator(r)
  \/ IteratorNext(r)
  \/ EndRead(r)

Next == WriterStep \/ \E r \in Readers : ReaderStep(r)

Spec == Init /\ [][Next]_vars

-----------------------------------------------------------------------------
(* Properties *)

\* The nodes that are linked on level i; level 0 holds what can be found.
Linked(i) ==
  {k \in inserted : height[k] > i}
    \cup {k \in {writer.key} : /\ writer.pc = "store" /\ height[k] > i
                               /\ LinkPrev(i) \notin writer.todo}

\* x is the first of s after n.
IsSuccessor(s, n, x) == x \in s \cup {Nil} /\ n < x /\ \A k \in s : n < k => x <= k

WriterStates == [pc : {"head", "headKey", "headValue", "idle", "search", "node",
                       "key", "value", "store"},
                 key : Keys \cup {Nil}, level : Levels, at : Nodes,
                 prev : [Levels -> Nodes], succ : [Levels -> Keys \cup {Nil}],
                 todo : SUBSET Stores(MaxHeight)]
ReaderStates == [pc : {"idle", "search", "found", "iterate", "wild"},
                 target : Keys \cup {Nil}, level : Levels, at : Nodes \cup {Nil},
                 known : SUBSET Keys, seen : SUBSET Keys]

\* Every variable keeps its type, and a reader can only come to a node that is
\* not there yet if the build reorders stores.
TypeOK ==
  /\ reorders \in BOOLEAN
  /\ next \in [Levels -> [Nodes -> Keys \cup {Nil}]]
  /\ height \in [Keys -> 1..MaxHeight]
  /\ whole \subseteq Keys /\ inserted \subseteq Keys
  /\ writer \in WriterStates
  /\ reader \in [Readers -> ReaderStates]
  /\ raced \subseteq Readers
  /\ \A r \in Readers : reader[r].pc = "wild" => reorders

\* When stores are visible in program order every level is, after each of them,
\* a sorted list of its nodes, in the middle of an insertion too, and each node
\* of a level is on the level below: a walk may go down anywhere. When they are
\* not, this holds between insertions.
LevelsAreLists ==
  ~reorders \/ writer.pc # "store" =>
    \A i \in Levels :
      /\ \A n \in Linked(i) \cup {HeadNode} : IsSuccessor(Linked(i), n, next[i][n])
      /\ Linked(i) \subseteq whole
      /\ i > 0 => Linked(i) \subseteq Linked(i - 1)

\* A walk beside which no store became visible out of order.
Undisturbed(r) == ~reorders \/ r \notin raced

\* Get finds the first key from its lookup key upwards: none that was in the list
\* when it began is skipped (README.md:23, reads without a lock).
SearchFindsLeast ==
  \A r \in Readers : reader[r].pc = "found" /\ Undisturbed(r) =>
    /\ reader[r].target <= reader[r].at
    /\ \A k \in reader[r].known : reader[r].target <= k => reader[r].at <= k
    /\ reader[r].at \in Linked(0) \cup {Nil}

\* An iterator yields every key that was in the list when it was made, in order,
\* whatever is inserted around it.
IteratorYieldsAll ==
  \A r \in Readers : reader[r].pc = "iterate" /\ Undisturbed(r) =>
    /\ \A k \in reader[r].known : k <= reader[r].at => k \in reader[r].seen
    /\ \A k \in reader[r].seen : k <= reader[r].at
    /\ reader[r].seen \subseteq Linked(0)

\* The list implements the set: an insertion takes effect with its store on level
\* 0, a search with its last step.
Found(r) == IF reader[r].pc = "found" THEN {<<reader[r].target, reader[r].at>>} ELSE {}
Set == INSTANCE OrderedSet
         WITH set <- Linked(0), answer <- [r \in Readers |-> Found(r)]
ImplementsSet == Set!Init /\ [][reorders \/ Set!Next]_(Set!vars)
=============================================================================
