-------------------------------- MODULE List --------------------------------
(***************************************************************************)
(* The singly linked list of list.c, with its tail pointer and its size,   *)
(* and the destruction loop one node per step.  Nodes are numbered in the  *)
(* order they are allocated; 0 is NULL.                                    *)
(*                                                                         *)
(* order is a history variable, not part of the code: the sequence of      *)
(* nodes that the calls made so far ask for.  The representation is        *)
(* compared with it.                                                       *)
(***************************************************************************)
EXTENDS Integers, Sequences

CONSTANTS
    Items,      \* data pointers a caller may store
    MaxNodes    \* bound: nodes allocated during the life of a list

ASSUME BoundAssumption == MaxNodes \in Nat

VARIABLES
    count,     \* nodes allocated since list_init
    data,      \* node->data
    next,      \* node->next
    head,      \* lst->head
    tail,      \* lst->tail
    size,      \* lst->size
    pc,        \* "live", "destroy" or "gone"
    cursor,    \* list_destroy: the node to free next
    freed,     \* the nodes freed
    order      \* history: the sequence the list stands for

vars == <<count, data, next, head, tail, size, pc, cursor, freed, order>>

Null == 0
Nodes == 1..count

-----------------------------------------------------------------------------
(* Helpers.                                                                *)

\* Mutant: a member of the new node keeps what malloc left there.
extended_unwritten(f, v) ==
    [n \in 1..(count + 1) |-> IF n = count + 1 THEN -1 ELSE f[n]]

\* The function f with one more element, for the node allocated by a call.
extended(f, v) == [n \in 1..(count + 1) |-> IF n = count + 1 THEN v ELSE f[n]]

\* The sequence s with v at position k.
with_item_at(s, k, v) ==
    [j \in 1..(Len(s) + 1) |->
        IF j < k THEN s[j] ELSE IF j = k THEN v ELSE s[j - 1]]

\* Mutant: push_front leaves the tail of an empty list.
tail_kept(n) == tail

\* push_front's tail.
tail_of_front(n) == IF size = 0 THEN n ELSE tail

\* insert's tail.
tail_after(node, n) == IF node = tail THEN n ELSE tail

-----------------------------------------------------------------------------

list_init ==
    /\ count = 0
    /\ data = <<>>
    /\ next = <<>>
    /\ head = Null
    /\ tail = Null
    /\ size = 0
    /\ pc = "live"
    /\ cursor = Null
    /\ freed = {}
    /\ order = <<>>

list_push_front(d) ==
    LET new == count + 1 IN
    /\ pc = "live" /\ count < MaxNodes
    /\ count' = new
    /\ data' = extended(data, d)
    /\ next' = extended(next, head)
    /\ head' = new
    /\ tail' = tail_of_front(new)
    /\ size' = size + 1
    /\ order' = with_item_at(order, 1, new)
    /\ UNCHANGED <<pc, cursor, freed>>

list_push_back(d) ==
    LET new == count + 1 IN
    /\ pc = "live" /\ count < MaxNodes
    /\ count' = new
    /\ data' = extended(data, d)
    /\ \/ /\ size = 0
          /\ head' = new
          /\ next' = extended(next, Null)
       \/ /\ size # 0
          /\ next' = [extended(next, Null) EXCEPT ![tail] = new]
          /\ UNCHANGED head
    /\ tail' = new
    /\ size' = size + 1
    /\ order' = with_item_at(order, Len(order) + 1, new)
    /\ UNCHANGED <<pc, cursor, freed>>

\* Insertion after the k-th node, which a caller holds a pointer to.
list_insert(k, d) ==
    LET new == count + 1
        node == order[k]
    IN
    /\ pc = "live" /\ count < MaxNodes
    /\ count' = new
    /\ data' = extended(data, d)
    /\ next' = [extended(next, next[node]) EXCEPT ![node] = new]
    /\ tail' = tail_after(node, new)
    /\ size' = size + 1
    /\ order' = with_item_at(order, k + 1, new)
    /\ UNCHANGED <<head, pc, cursor, freed>>

list_destroy ==
    /\ pc = "live"
    /\ pc' = "destroy"
    /\ cursor' = head
    /\ UNCHANGED <<count, data, next, head, tail, size, freed, order>>

\* Mutant: the loop stops at the tail and not after it.
MoreUntilTail == cursor # tail

More == cursor # Null

\* Mutant: the loop does not advance.
same_node(n) == n

successor(n) == next[n]

\* One turn of list_destroy's loop: the successor is read before the node and
\* its data are freed.
FreeNode ==
    /\ pc = "destroy"
    /\ More
    /\ cursor' = successor(cursor)
    /\ freed' = freed \cup {cursor}
    /\ UNCHANGED <<count, data, next, head, tail, size, pc, order>>

FreeList ==
    /\ pc = "destroy"
    /\ ~More
    /\ pc' = "gone"
    /\ UNCHANGED <<count, data, next, head, tail, size, cursor, freed, order>>

PushFront == \E d \in Items : list_push_front(d)
PushBack  == \E d \in Items : list_push_back(d)
Insert    == \E k \in 1..Len(order), d \in Items : list_insert(k, d)

Next == PushFront \/ PushBack \/ Insert \/ list_destroy \/ FreeNode \/ FreeList

Spec == list_init /\ [][Next]_vars /\ WF_vars(FreeNode \/ FreeList)

-----------------------------------------------------------------------------
(* Properties.                                                             *)

TypeOK ==
    /\ count \in Nat
    /\ data \in [Nodes -> Items]
    /\ next \in [Nodes -> Nodes \cup {Null}]
    /\ head \in Nodes \cup {Null}
    /\ tail \in Nodes \cup {Null}
    /\ size \in Nat
    /\ pc \in {"live", "destroy", "gone"}
    /\ cursor \in Nodes \cup {Null}
    /\ freed \subseteq Nodes
    /\ order \in Seq(Nodes)

\* The node at a position of the list, Null after its end.
At(k) == IF k \in 1..Len(order) THEN order[k] ELSE Null

\* The pointers spell out the sequence that the calls asked for: head, next and
\* tail agree with it, and size is its length.
Represents ==
    /\ size = Len(order)
    /\ head = At(1)
    /\ tail = At(Len(order))
    /\ \A k \in 1..Len(order) : next[order[k]] = At(k + 1)

\* list_destroy frees every node that was ever linked, each once, and reads no
\* node it has freed: no insertion has lost a node or linked one twice.
FreedOnce ==
    /\ pc = "destroy" => cursor \notin freed
    /\ pc = "gone" => freed = Nodes

\* list_destroy returns.
DestroyEnds == pc = "destroy" ~> pc = "gone"

=============================================================================
