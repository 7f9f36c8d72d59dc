----------------------------- MODULE ThreadList -----------------------------
(***************************************************************************)
(* The linked lists of OSThreads as the runtime walks and writes them in   *)
(* RDRAM.  TH_NEXT is at offset 0, so the address of a list's head pointer *)
(* is used as the address of a node whose TH_NEXT is the head.  The run    *)
(* queue and the wait lists are linked by TH_NEXT, the list of the created *)
(* threads by TH_TLNEXT.  Every list ends at libultra's fake thread, whose *)
(* priority is -1 and whose link is zero.                                  *)
(*                                                                         *)
(* held says what each list holds after the operations of ThreadQueue;     *)
(* ListsMatch says that the pointers agree with it.                        *)
(***************************************************************************)
EXTENDS ThreadQueue, FiniteSets

CONSTANTS
    PriList,    \* the run queue and the wait lists
    Active,     \* the list of the created threads
    Fake,       \* the fake thread that ends every list
    Null,       \* the null pointer
    MaxThreads  \* MAX_THREADS

Lists == PriList \union {Active}
Node == Thread \union Lists \union {Fake}

ASSUME ListAssumption ==
    /\ Active \notin PriList
    /\ Lists \intersect Thread = {}
    /\ Fake \notin Thread \union Lists
    /\ Null \notin Node
    /\ IsFiniteSet(Thread)
    /\ MaxThreads \in Nat
    /\ Cardinality(Thread) <= 2 * MaxThreads

VARIABLES
    next,       \* TH_NEXT, and the head pointer of each list
    tlnext,     \* TH_TLNEXT
    held,       \* history: the threads each list should hold
    pc,         \* the loop being run, or "idle"
    thread,     \* the argument of the operation
    list,       \* the list it walks
    pred,       \* prev, and pred, of the loops
    cur,        \* cur
    passed      \* i, the nodes that unlink_bounded has passed

linkVars == <<next, tlnext>>
walkVars == <<thread, list, pred, cur, passed>>
listsVars == <<linkVars, held, pc, walkVars>>

WalkBound == 2 * MaxThreads

ListsTypeOK ==
    /\ next \in [Node -> Node \union {Null}]
    /\ tlnext \in [Thread \union {Fake} -> Node \union {Null}]
    /\ held \in [Lists -> Seq(Thread)]
    /\ pc \in {"idle", "enqueue", "unlink"}
    /\ thread \in Thread \union {Null}
    /\ list \in Lists \union {Null}
    /\ pred \in Node \union {Null}
    /\ cur \in Node \union {Null}
    /\ passed \in 0 .. WalkBound
    /\ next[Fake] = Null        \* the fake thread ends every list
    /\ tlnext[Fake] = Null

Priority(n) == IF n = Fake THEN -1 ELSE Pri[n]

(* The field that links the nodes of a list, and the node after n in it.   *)
Link(l) == IF l = Active THEN tlnext ELSE next
After(l, n) == IF n = l THEN next[n] ELSE Link(l)[n]

Holds(t, l) == \E k \in DOMAIN held[l] : held[l][k] = t

(* Between operations the locals are dead: they are forgotten.             *)
Return ==
    /\ pc' = "idle"
    /\ thread' = Null /\ list' = Null /\ pred' = Null /\ cur' = Null
    /\ passed' = 0

Walk(op, t, l) ==
    /\ pc' = op
    /\ thread' = t
    /\ list' = l
    /\ pred' = l
    /\ cur' = next[l]
    /\ passed' = 0

-----------------------------------------------------------------------------
(* enqueue_by_priority, which hle.c repeats as enqueue_thread.             *)

Outranked == cur # Null /\ Pri[thread] <= Priority(cur)

(* A thread is enqueued only while it is in none of these lists: that the  *)
(* callers respect it is an invariant of module Scheduler.                 *)
EnqueueBegin(l, t) ==
    /\ pc = "idle"
    /\ Holds(t, Active)
    /\ \A m \in PriList : ~ Holds(t, m)
    /\ Walk("enqueue", t, l)
    /\ UNCHANGED <<linkVars, held>>

(* Variant: the loop moves only its trailing pointer.                      *)
EnqueueWalkStays ==
    /\ pc = "enqueue"
    /\ Outranked
    /\ pred' = cur
    /\ UNCHANGED <<linkVars, held, pc, thread, list, cur, passed>>

EnqueueWalk ==
    /\ pc = "enqueue"
    /\ Outranked
    /\ pred' = cur
    /\ cur' = next[cur]
    /\ UNCHANGED <<linkVars, held, pc, thread, list, passed>>

EnqueueLink ==
    /\ pc = "enqueue"
    /\ ~ Outranked
    /\ next' = [next EXCEPT ![thread] = cur, ![pred] = thread]
    /\ held' = [held EXCEPT ![list] = EnqueueByPriority(@, thread)]
    /\ Return
    /\ UNCHANGED tlnext

(* post_event and the run loop take the first thread, unless the fake one  *)
(* is first: head->next == 0, or a negative priority.  The link of the     *)
(* thread that leaves keeps its value.                                     *)
Dequeue(l) ==
    /\ pc = "idle"
    /\ next[next[l]] # Null
    /\ next' = [next EXCEPT ![l] = next[next[l]]]
    /\ held' = [held EXCEPT ![l] = Tail(@)]
    /\ UNCHANGED <<tlnext, pc, walkVars>>

(* osCreateThread puts the new thread first in the active list.            *)
Create(t) ==
    /\ pc = "idle"
    /\ ~ Holds(t, Active)
    /\ tlnext' = [tlnext EXCEPT ![t] = next[Active]]
    /\ next' = [next EXCEPT ![Active] = t]
    /\ held' = [held EXCEPT ![Active] = <<t>> \o @]
    /\ UNCHANGED <<pc, walkVars>>

-----------------------------------------------------------------------------
(* sched_destroy_thread: unlink_bounded on the list TH_QUEUE names, then   *)
(* on the active list, then the two links of the thread are cleared.       *)

(* A thread that is RUNNING, or whose TH_QUEUE is null, is in no list; one *)
(* that is in a list has its TH_QUEUE naming it, and a stale TH_QUEUE may  *)
(* name any other.                                                         *)
DestroyBegin(l, t) ==
    /\ pc = "idle"
    /\ Holds(t, Active)
    /\ \A m \in PriList : Holds(t, m) => l = m
    /\ Walk("unlink", t, l)
    /\ UNCHANGED <<linkVars, held>>

Searching == cur # Null /\ passed < WalkBound

UnlinkWalk ==
    /\ pc = "unlink"
    /\ Searching
    /\ cur # thread
    /\ pred' = cur
    /\ cur' = Link(list)[cur]
    /\ passed' = passed + 1
    /\ UNCHANGED <<linkVars, held, pc, thread, list>>

(* The step after the search of a list: the active list is next, and the   *)
(* links cleared after it.                                                 *)
Search(l, n, tln) ==
    IF l # Active
    THEN /\ pc' = "unlink" /\ list' = Active /\ pred' = Active
         /\ cur' = n[Active] /\ passed' = 0
         /\ next' = n /\ tlnext' = tln
         /\ UNCHANGED thread
    ELSE /\ next' = [n EXCEPT ![thread] = Null]
         /\ tlnext' = [tln EXCEPT ![thread] = Null]
         /\ Return

(* Variant: the head pointer is written at TH_TLNEXT, as a thread's is.     *)
UnlinkWritesField(n) ==
    IF list # Active
    THEN [next EXCEPT ![pred] = n]
    ELSE next

(* What becomes of the next field of the predecessor when the node after   *)
(* it becomes n: only the head pointer of the active list is in it.        *)
UnlinkWrites(n) ==
    IF pred = list \/ list # Active
    THEN [next EXCEPT ![pred] = n]
    ELSE next

UnlinkFound ==
    /\ pc = "unlink"
    /\ Searching
    /\ cur = thread
    /\ LET n == Link(list)[cur] IN
       Search(list, UnlinkWrites(n),
              IF pred # list /\ list = Active
              THEN [tlnext EXCEPT ![pred] = n] ELSE tlnext)
    /\ held' = [held EXCEPT ![list] = Unlink(@, thread)]

UnlinkMiss ==
    /\ pc = "unlink"
    /\ ~ Searching
    /\ Search(list, next, tlnext)
    /\ held' = [held EXCEPT ![list] = Unlink(@, thread)]

-----------------------------------------------------------------------------
ListsInit ==
    /\ next = [n \in Node |-> IF n \in Lists THEN Fake ELSE Null]
    /\ tlnext = [n \in Thread \union {Fake} |-> Null]
    /\ held = [l \in Lists |-> <<>>]
    /\ pc = "idle"
    /\ thread = Null /\ list = Null /\ pred = Null /\ cur = Null
    /\ passed = 0

Caller ==
    \/ \E t \in Thread :
        \/ Create(t)
        \/ \E l \in PriList : EnqueueBegin(l, t)
        \/ \E l \in Lists : DestroyBegin(l, t)
    \/ \E l \in PriList : Dequeue(l)

Loop ==
    \/ EnqueueWalk
    \/ EnqueueLink
    \/ UnlinkWalk
    \/ UnlinkFound
    \/ UnlinkMiss

ListsNext == Caller \/ Loop

(* A loop of the host thread runs on.                                      *)
ListsSpec == ListsInit /\ [][ListsNext]_listsVars /\ WF_listsVars(Loop)

-----------------------------------------------------------------------------
(* The nodes of a list, from its head pointer to the fake thread.          *)
Chain(l) == <<l>> \o held[l] \o <<Fake>>

(* The pointers of every list spell the threads that the sequence          *)
(* operations of ThreadQueue say it holds: no walk loses a thread, links   *)
(* one twice, cuts a list short or takes one list's links for another's.   *)
ListsMatch ==
    /\ ListsTypeOK
    /\ \A l \in Lists : \A k \in 1 .. Len(held[l]) + 1 :
           After(l, Chain(l)[k]) = Chain(l)[k + 1]

(* Every walk ends, though the one of enqueue_by_priority has no bound:    *)
(* the lists never become cyclic.                                          *)
WalksEnd == (pc # "idle") ~> (pc = "idle")
=============================================================================
