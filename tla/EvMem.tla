------------------------------- MODULE EvMem -------------------------------
(***************************************************************************)
(* Event buffers and queues: proj/os/ev_buffer.c over proj/common/         *)
(* mempool.c, and proj/os/ev_queue.c.  A block of memory starts with one   *)
(* link word, which is next_block while the block is in a free list and    *)
(* next while it is in a queue; both uses share the variable link.         *)
(*                                                                         *)
(* Every operation disables interrupts and is one step, except             *)
(* ev_queue_freeQ, a loop that interrupt handlers may come between.        *)
(***************************************************************************)
EXTENDS Integers, Sequences, FiniteSets, Functions

CONSTANTS
  Groups,     \* buffer groups, an interval of integers searched in this order
  GroupSize,  \* BUFFER_GROUP_0 ...: bytes of a buffer, header included
  Count,      \* BUFFER_NUM_IN_GROUP0 ...
  Margin,     \* BUFFER_MARGIN: bytes of the header
  Sizes,      \* sizes that are requested
  Queues,
  PriQueues,  \* queues with a priFunc
  Prio,       \* priFunc of what is stored in a block
  Null

Blocks == UNION {{g} \X (1 .. Count[g]) : g \in Groups}

ASSUME MemAssumption ==
  /\ Groups \subseteq Nat /\ IsFiniteSet(Groups) /\ GroupSize \in [Groups -> Nat]
  /\ Count \in [Groups -> Nat \ {0}] /\ Margin \in Nat /\ Sizes \subseteq Nat
  /\ PriQueues \subseteq Queues /\ Prio \in [Blocks -> Nat]
  /\ Null \notin Blocks \cup Queues \cup Groups /\ Queues \cap {"free", "held"} = {}

VARIABLES
  link,              \* first word of each block
  freeList, avail,   \* free_list and availBufNum of each group
  groupIndex,        \* second word of a block; Null: never allocated
  qHead, qTail,      \* head and tail of each queue
  curNum,            \* of each queue
  drain, popped,     \* ev_queue_freeQ: its queue and buffer_ptr
  holder,            \* history: who has a block: "free", "held" or a queue
  earlier            \* history: what was in the queue of a block before its push

mem == <<link, freeList, avail, groupIndex>>
que == <<qHead, qTail, curNum>>
memVars == <<mem, que, drain, popped, holder, earlier>>

\* the blocks reached from h; longer than there are blocks when they form a cycle
Chain(h, lk) ==
  LET path[n \in 0 .. Cardinality(Blocks)] ==
        IF n = 0 THEN IF h = Null THEN <<>> ELSE <<h>>
        ELSE LET p == path[n - 1]
             IN IF Len(p) < n \/ lk[p[n]] = Null THEN p ELSE Append(p, lk[p[n]])
  IN path[Cardinality(Blocks)]
Queue(q) == Chain(qHead[q], link)

---------------------------------------------------------------------------
MemInit ==
  /\ link = [b \in Blocks |-> IF b[2] < Count[b[1]] THEN <<b[1], b[2] + 1>> ELSE Null]
  /\ freeList = [g \in Groups |-> <<g, 1>>] /\ avail = Count
  /\ groupIndex = [b \in Blocks |-> Null]
  /\ qHead = [q \in Queues |-> Null] /\ qTail = [q \in Queues |-> Null]
  /\ curNum = [q \in Queues |-> 0]
  /\ drain = Null /\ popped = Null
  /\ holder = [b \in Blocks |-> "free"] /\ earlier = [b \in Blocks |-> {}]

\* a request of zero or more than MAX_BUFFER_SIZE bytes fits no group
Fits(g, size) == size <= GroupSize[g] - Margin /\ avail[g] > 0

\* ev_buf_allocate: the first group that is large enough and has a buffer left
Allocate(size) ==
  /\ size > 0
  /\ \E g \in Groups :
       /\ Fits(g, size) /\ \A h \in Groups : h < g => ~Fits(h, size)
       /\ freeList[g] # Null
       /\ LET b == freeList[g]
          IN /\ freeList' = [freeList EXCEPT ![g] = link[b]]
             /\ groupIndex' = [groupIndex EXCEPT ![b] = g]
             /\ holder' = [holder EXCEPT ![b] = "held"]
       /\ avail' = [avail EXCEPT ![g] = @ - 1]
  /\ UNCHANGED <<link, que, drain, popped, earlier>>

\* Mutant: duplicate frees are not looked for.
GiveBackUnchecked(b) ==
  LET g == groupIndex[b]
  IN /\ link' = [link EXCEPT ![b] = freeList[g]]
     /\ freeList' = [freeList EXCEPT ![g] = b]
     /\ avail' = [avail EXCEPT ![g] = @ + 1]
     /\ holder' = [holder EXCEPT ![b] = "free"]

\* ev_buf_free with mempool_free; a buffer that is in the free list of its group
\* is a duplicate free and changes nothing.  sys_exceptionPost only calls what the
\* application registered; an application that stops there takes no further step.
GiveBack(b) ==
  LET g == groupIndex[b]
  IN IF b \in Range(Chain(freeList[g], link))
     THEN UNCHANGED <<link, freeList, avail, holder>>
     ELSE /\ link' = [link EXCEPT ![b] = freeList[g]]
          /\ freeList' = [freeList EXCEPT ![g] = b]
          /\ avail' = [avail EXCEPT ![g] = @ + 1]
          /\ holder' = [holder EXCEPT ![b] = "free"]

\* The holder frees its buffer, or frees one again that is free already.
Free(b) ==
  /\ holder[b] \in {"held", "free"} /\ groupIndex[b] # Null /\ b # popped
  /\ GiveBack(b)
  /\ UNCHANGED <<groupIndex, que, drain, popped, earlier>>

---------------------------------------------------------------------------
(* ev_queue.c *)

\* Mutant: an element goes before those of the same priority.
AheadStrict(q, b) ==
  LET s == Queue(q)
      n == CHOOSE k \in 0 .. Len(s) :
             /\ \A i \in 1 .. k : Prio[s[i]] < Prio[b]
             /\ k < Len(s) => Prio[b] <= Prio[s[k + 1]]
  IN IF qHead[q] = Null THEN Null
     ELSE IF q \notin PriQueues THEN qTail[q]
     ELSE IF n = 0 THEN Null ELSE s[n]

\* The element that a new one is linked in behind: tail, or with priorities the
\* one at which the search for a lower priority stops; Null: the head.
Ahead(q, b) ==
  LET s == Queue(q)
      n == CHOOSE k \in 0 .. Len(s) :
             /\ \A i \in 1 .. k : Prio[s[i]] <= Prio[b]
             /\ k < Len(s) => Prio[b] < Prio[s[k + 1]]
  IN IF qHead[q] = Null THEN Null
     ELSE IF q \notin PriQueues THEN qTail[q]
     ELSE IF n = 0 THEN Null ELSE s[n]

\* ev_queue_rawPush
Push(q, b) ==
  LET prev == Ahead(q, b)
      succ == IF prev = Null THEN qHead[q] ELSE IF q \in PriQueues THEN link[prev] ELSE Null
  IN /\ holder[b] = "held" /\ b # popped
     /\ qHead' = IF prev = Null THEN [qHead EXCEPT ![q] = b] ELSE qHead
     /\ link' = [x \in Blocks |-> IF x = b THEN succ ELSE IF x = prev THEN b ELSE link[x]]
     /\ qTail' = IF succ = Null THEN [qTail EXCEPT ![q] = b] ELSE qTail
     /\ curNum' = [curNum EXCEPT ![q] = @ + 1]
     /\ holder' = [holder EXCEPT ![b] = q]
     /\ earlier' = [earlier EXCEPT ![b] = {x \in Blocks : holder[x] = q}]
     /\ UNCHANGED <<freeList, avail, groupIndex, drain, popped>>

\* a block leaves its queue
Leaves(b) ==
  /\ holder' = [holder EXCEPT ![b] = "held"]
  /\ earlier' = [x \in Blocks |-> IF x = b THEN {} ELSE earlier[x] \ {b}]

\* ev_queue_rawPop
TakeHead(q) ==
  LET b == qHead[q]
      left == curNum[q] - 1
  IN /\ qHead' = [qHead EXCEPT ![q] = IF left = 0 THEN Null ELSE link[b]]
     /\ qTail' = [qTail EXCEPT ![q] = IF @ = b \/ left = 0 THEN Null ELSE @]
     /\ curNum' = [curNum EXCEPT ![q] = left]
     /\ Leaves(b)

Pop(q) ==
  /\ drain = Null /\ qHead[q] # Null
  /\ TakeHead(q)
  /\ UNCHANGED <<mem, drain, popped>>

\* Mutant: the tail is not moved when the last element is deleted.
UnlinkKeepsTail(q, b) ==
  LET prev == IF qHead[q] = b THEN Null
              ELSE CHOOSE x \in Range(Queue(q)) : link[x] = b
  IN /\ qHead' = IF prev = Null THEN [qHead EXCEPT ![q] = link[b]] ELSE qHead
     /\ link' = IF prev = Null THEN link ELSE [link EXCEPT ![prev] = link[b]]
     /\ UNCHANGED qTail

\* ev_queue_rawDelete: the element is searched from the head.
Unlink(q, b) ==
  LET prev == IF qHead[q] = b THEN Null
              ELSE CHOOSE x \in Range(Queue(q)) : link[x] = b
  IN /\ qHead' = IF prev = Null THEN [qHead EXCEPT ![q] = link[b]] ELSE qHead
     /\ link' = IF prev = Null THEN link ELSE [link EXCEPT ![prev] = link[b]]
     /\ qTail' = IF link[b] = Null THEN [qTail EXCEPT ![q] = prev] ELSE qTail

Delete(q, b) ==
  /\ drain = Null /\ b \in Range(Queue(q))
  /\ Unlink(q, b)
  /\ curNum' = [curNum EXCEPT ![q] = @ - 1]
  /\ Leaves(b)
  /\ UNCHANGED <<freeList, avail, groupIndex, drain, popped>>

\* ev_queue_freeQ: pop and free until the queue is empty.
FreeQ(q) ==
  /\ drain = Null /\ drain' = q
  /\ UNCHANGED <<mem, que, popped, holder, earlier>>

FreeQPop ==
  /\ drain # Null /\ popped = Null
  /\ IF qHead[drain] = Null
     THEN drain' = Null /\ UNCHANGED <<que, popped, holder, earlier>>
     ELSE popped' = qHead[drain] /\ TakeHead(drain) /\ UNCHANGED drain
  /\ UNCHANGED mem

FreeQFree ==
  /\ popped # Null /\ popped' = Null
  /\ GiveBack(popped)
  /\ UNCHANGED <<groupIndex, que, drain, earlier>>

MemNext ==
  \/ \E size \in Sizes : Allocate(size)
  \/ \E b \in Blocks : Free(b)
  \/ \E q \in Queues, b \in Blocks : Push(q, b) \/ Delete(q, b)
  \/ \E q \in Queues : Pop(q) \/ FreeQ(q)
  \/ FreeQPop \/ FreeQFree

MemSpec == MemInit /\ [][MemNext]_memVars

---------------------------------------------------------------------------
(* Properties *)

\* Types of the state.
MemTypeOK ==
  /\ link \in [Blocks -> Blocks \cup {Null}]
  /\ freeList \in [Groups -> Blocks \cup {Null}]
  /\ \A g \in Groups : avail[g] \in 0 .. Count[g]
  /\ groupIndex \in [Blocks -> Groups \cup {Null}]
  /\ qHead \in [Queues -> Blocks \cup {Null}] /\ qTail \in [Queues -> Blocks \cup {Null}]
  /\ curNum \in [Queues -> 0 .. Cardinality(Blocks)]

\* Although queues and free lists use the same word of a block, each free list
\* holds exactly the free buffers of its group, once each, and availBufNum
\* counts them: no buffer is lost and none is handed out twice.
FreeSound ==
  \A g \in Groups :
    LET s == Chain(freeList[g], link)
    IN /\ IsInjective(s) /\ avail[g] = Len(s)
       /\ Range(s) = {b \in Blocks : b[1] = g /\ holder[b] = "free"}

\* A queue holds exactly what was pushed and not taken out, tail is its last
\* element and curNum its length, through pushes by interrupts and deletions.
QueueSound ==
  \A q \in Queues :
    /\ IsInjective(Queue(q)) /\ Range(Queue(q)) = {b \in Blocks : holder[b] = q}
    /\ curNum[q] = Len(Queue(q))
    /\ qTail[q] = IF Queue(q) = <<>> THEN Null ELSE Queue(q)[Len(Queue(q))]

\* Elements leave a queue by priority, those of one priority in the order in
\* which they were pushed.
PriorityFifo ==
  \A q \in Queues : \A i, j \in 1 .. Len(Queue(q)) :
    LET x == Queue(q)[i]
        y == Queue(q)[j]
        first == IF q \in PriQueues /\ Prio[x] # Prio[y] THEN Prio[x] < Prio[y]
                 ELSE x \in earlier[y]
    IN i # j => (i < j <=> first)
=============================================================================
