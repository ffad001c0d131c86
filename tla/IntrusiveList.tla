--------------------------- MODULE IntrusiveList ---------------------------
(***************************************************************************)
(* The circular doubly linked intrusive list of src/h/list.h and           *)
(* src/src/list.c.  Every record (a thread, a sleeping-thread record)      *)
(* embeds one list_t node; a queue is only a pointer to one of the nodes.  *)
(* L is the memory of all nodes: L[n].next and L[n].prev are the two       *)
(* pointers of node n.  The operators write one pointer at a time, in the  *)
(* order the C code does, so that aliasing (a node inserted into a list it *)
(* is already on, a node unlinked twice) has the effect it has in C.       *)
(***************************************************************************)
LOCAL INSTANCE Naturals
LOCAL INSTANCE Sequences
LOCAL INSTANCE FiniteSets
LOCAL INSTANCE SequencesExt

CONSTANT NULL

(* One pointer store; a store through NULL is the fault the invariants of  *)
(* the users of this module exclude, it leaves memory as it is.            *)
SetNext(L, a, b) == IF a = NULL THEN L ELSE [L EXCEPT ![a].next = b]
SetPrev(L, a, b) == IF a = NULL THEN L ELSE [L EXCEPT ![a].prev = b]

(* node->next = node->prev = &node: the one-element ring a push into an    *)
(* empty queue creates (scheduler.c, semaphore.c, console.c).              *)
ListSingle(L, n) == SetPrev(SetNext(L, n, n), n, n)

(* Mutation: the insert that moves head->prev before it links the old  *)
(* tail to the new node.                                                   *)
ListInsertLate(L, head, new) ==
    LET L1 == SetPrev(L, new, L[head].prev)
        L2 == SetNext(L1, new, head)
        L3 == SetPrev(L2, head, new)
    IN  SetNext(L3, L3[head].prev, new)

(* list_insert(head, new_node): link new_node just before head, that is    *)
(* at the tail of the ring that head starts.                               *)
ListInsert(L, head, new) ==
    LET L1 == SetPrev(L, new, L[head].prev)
        L2 == SetNext(L1, new, head)
        L3 == SetNext(L2, L2[head].prev, new)
    IN  SetPrev(L3, head, new)

(* n->prev->next = n->next; n->next->prev = n->prev: the unlink written    *)
(* out inline in __scheduler_next, __sem_next, __scheduler_tick, ...  The  *)
(* node's own pointers are left as they were.                              *)
ListUnlink(L, n) ==
    LET L1 == SetNext(L, L[n].prev, L[n].next)
    IN  SetPrev(L1, L1[n].next, L1[n].prev)

(* The nodes met following next from head until head comes round again.   *)
(* A walk that meets NULL, or a node twice without reaching head, ends in  *)
(* NULL: the ring is broken.                                               *)
RECURSIVE Follow(_, _, _, _)
Follow(L, n, head, acc) ==
    IF n = head THEN acc
    ELSE IF n = NULL \/ n \in ToSet(acc) THEN Append(acc, NULL)
    ELSE Follow(L, L[n].next, head, Append(acc, n))

Ring(L, head) == IF head = NULL THEN <<>> ELSE Follow(L, L[head].next, head, <<head>>)

(* The queue that head starts is a ring whose prev pointers mirror its     *)
(* next pointers.                                                          *)
RingOK(L, head) ==
    LET r == Ring(L, head)
    IN  /\ NULL \notin ToSet(r)
        /\ \A i \in 1..Len(r) : L[r[i]].prev = r[IF i = 1 THEN Len(r) ELSE i - 1]

Members(L, head) == ToSet(Ring(L, head)) \ {NULL}
=============================================================================
