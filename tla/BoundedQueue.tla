---------------------------- MODULE BoundedQueue ----------------------------
(***************************************************************************)
(* What a bounded single-producer single-consumer queue promises: a FIFO   *)
(* of at most Bound items whose operations happen at one instant.  `sent`  *)
(* is the answer of the last completed enqueue and `got` the answer of the *)
(* last completed dequeue, so an implementation may neither refuse an item *)
(* while there is room, nor answer "empty" while an item waits, nor return *)
(* anything but the oldest item.                                           *)
(***************************************************************************)
EXTENDS Naturals, Sequences

CONSTANTS Items,   \* what the producer may enqueue
          NoItem,  \* the answer of a dequeue that found nothing
          Bound    \* how many items fit

VARIABLES queue,   \* the items inside, oldest first
          sent,    \* last answer of enqueue
          got      \* last answer of dequeue

absVars == <<queue, sent, got>>

AbsInit == queue = <<>> /\ sent = TRUE /\ got = NoItem

Put(v) == /\ Len(queue) < Bound
          /\ queue' = Append(queue, v)
          /\ sent' = TRUE
          /\ UNCHANGED got

Refuse == /\ Len(queue) = Bound
          /\ sent' = FALSE
          /\ UNCHANGED <<queue, got>>

Take == /\ queue # <<>>
        /\ got' = Head(queue)
        /\ queue' = Tail(queue)
        /\ UNCHANGED sent

FindEmpty == /\ queue = <<>>
             /\ got' = NoItem
             /\ UNCHANGED <<queue, sent>>

AbsNext == (\E v \in Items : Put(v)) \/ Refuse \/ Take \/ FindEmpty

AbsSpec == AbsInit /\ [][AbsNext]_absVars
=============================================================================
