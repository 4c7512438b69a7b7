-------------------------------- MODULE Alerts --------------------------------
(***************************************************************************)
(* errors.c: the queue of warnings and errors.  An alert points to its     *)
(* token and owns its message, a block of the heap; the wording is a name. *)
(***************************************************************************)
EXTENDS Array, FiniteSets

VARIABLES
    heap,       \* the blocks, by how often each was freed
    queue,      \* alert_queue->queue
    printed     \* what was reported, in order

alertVars == <<heap, queue, printed>>

\* alert_queue_push_warning and alert_queue_push_error: the message is written
\* before the queue grows.
alert_queue_push(type, tok, msg, h) ==
    LET p == array_push_back(queue,
                 [alert_type |-> type, tok |-> tok, alert_msg |-> Len(h) + 1, msg |-> msg],
                 malloc(h))
    IN [queue |-> p.arr, heap |-> p.heap]

\* alert_queue_free_alerts.
free_alerts(h) ==
    [b \in DOMAIN h |->
        h[b] + Cardinality({k \in DOMAIN queue.items : queue.items[k].alert_msg = b})]

alert_queue_clear ==
    /\ heap' = free_alerts(heap)
    /\ queue' = array_clear(queue)

\* The heap h behind alert_queue_destroy of the queue q whose array is the block a.
alert_queue_destroyed(h, q, a) == free(free(array_destroy(queue, free_alerts(h)), a), q)

\* What warn_tok_fmt and error_tok_fmt print of the token: its place, and the
\* character of its line that tok_footer's squiggly line starts under.
report_of(alert, tok) ==
    [alert_type |-> alert.alert_type, msg |-> alert.msg,
     line_num |-> tok.line_num, col_num |-> tok.col_num,
     caret |-> tok.line + tok.col_num - 1]
=============================================================================
