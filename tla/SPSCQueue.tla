------------------------------ MODULE SPSCQueue ------------------------------
(***************************************************************************)
(* The single-producer single-consumer ring behind every market-data       *)
(* processor and the strategy supervisor (data_structures.ml, SPSCQueue):  *)
(* one Domain enqueues, another dequeues, and they share only the slots    *)
(* and the two atomic indexes.  Each access to shared memory is one step.  *)
(***************************************************************************)
EXTENDS Naturals, Sequences

CONSTANTS Capacity,  \* slots; one of them is never filled
          Items,     \* payloads
          NoItem     \* OCaml's None

ASSUME CapacityAssumption == Capacity \in Nat \ {0}
ASSUME ItemAssumption == NoItem \notin Items

VARIABLES
  buffer,  \* buffer[i]: an item, or NoItem
  head,    \* index of the oldest item; written by the consumer only
  tail,    \* index of the first free slot; written by the producer only
  ppc,     \* where the producer is inside enqueue
  pitem,   \* the item being enqueued
  cpc,     \* where the consumer is inside dequeue
  citem,   \* the item taken out of its slot but not yet returned
  sent,    \* answer of the last enqueue that returned
  got      \* answer of the last dequeue that returned

prodVars == <<ppc, pitem, sent>>
consVars == <<cpc, citem, got>>
vars == <<buffer, head, tail, ppc, pitem, cpc, citem, sent, got>>

Slots == 0 .. Capacity - 1

(* Wrong variant: "full" one slot early. *)
FullEarly == (tail + 2) % Capacity = head

(* (i + 1) land mask *)
Succ(i) == (i + 1) % Capacity

Full == Succ(tail) = head
Empty == head = tail

Init == /\ buffer = [i \in Slots |-> NoItem]
        /\ head = 0 /\ tail = 0
        /\ ppc = "idle" /\ pitem = NoItem /\ sent = TRUE
        /\ cpc = "idle" /\ citem = NoItem /\ got = NoItem

-----------------------------------------------------------------------------
(* enqueue: tail is the producer's own index, so reading it is not a step. *)

EnqueueBegin(v) == /\ ppc = "idle"
                   /\ ppc' = "check"
                   /\ pitem' = v
                   /\ UNCHANGED <<buffer, head, tail, sent, consVars>>

EnqueueFull == /\ ppc = "check"
               /\ Full
               /\ ppc' = "idle"
               /\ sent' = FALSE
               /\ UNCHANGED <<buffer, head, tail, pitem, consVars>>

EnqueueRoom == /\ ppc = "check"
               /\ ~Full
               /\ ppc' = "write"
               /\ UNCHANGED <<buffer, head, tail, pitem, sent, consVars>>

EnqueueWrite == /\ ppc = "write"
                /\ buffer' = [buffer EXCEPT ![tail] = pitem]
                /\ ppc' = "publish"
                /\ UNCHANGED <<head, tail, pitem, sent, consVars>>

EnqueuePublish == /\ ppc = "publish"
                  /\ tail' = Succ(tail)
                  /\ ppc' = "idle"
                  /\ sent' = TRUE
                  /\ UNCHANGED <<buffer, head, pitem, consVars>>

-----------------------------------------------------------------------------
(* dequeue: head is the consumer's own index. *)

DequeueEmpty == /\ cpc = "idle"
                /\ Empty
                /\ got' = NoItem
                /\ UNCHANGED <<buffer, head, tail, prodVars, cpc, citem>>

DequeueBegin == /\ cpc = "idle"
                /\ ~Empty
                /\ cpc' = "read"
                /\ UNCHANGED <<buffer, head, tail, prodVars, citem, got>>

(* A slot the indexes call full might still hold None: answer "empty". *)
DequeueRead == /\ cpc = "read"
               /\ LET none == buffer[head] = NoItem
                  IN  /\ cpc' = IF none THEN "idle" ELSE "clear"
                      /\ got' = IF none THEN NoItem ELSE got
               /\ citem' = buffer[head]
               /\ UNCHANGED <<buffer, head, tail, prodVars>>

DequeueClear == /\ cpc = "clear"
                /\ buffer' = [buffer EXCEPT ![head] = NoItem]
                /\ cpc' = "publish"
                /\ UNCHANGED <<head, tail, prodVars, citem, got>>

DequeuePublish == /\ cpc = "publish"
                  /\ head' = Succ(head)
                  /\ cpc' = "idle"
                  /\ got' = citem
                  /\ UNCHANGED <<buffer, tail, prodVars, citem>>

-----------------------------------------------------------------------------
ProducerStep == EnqueueRoom \/ EnqueueFull \/ EnqueueWrite \/ EnqueuePublish
ConsumerStep == DequeueEmpty \/ DequeueBegin \/ DequeueRead
                  \/ DequeueClear \/ DequeuePublish

Next == (\E v \in Items : EnqueueBegin(v)) \/ ProducerStep \/ ConsumerStep

Spec == Init /\ [][Next]_vars

-----------------------------------------------------------------------------
(* The abstract queue the indexes and slots stand for. *)

Wrap(i) == IF i >= Capacity THEN i - Capacity ELSE i

Used == IF tail >= head THEN tail - head ELSE tail - head + Capacity

(* The k-th oldest item; the oldest is in the consumer's hand once its     *)
(* slot has been cleared.                                                  *)
Nth(k) == IF k = 1 /\ cpc = "publish" THEN citem ELSE buffer[Wrap(head + k - 1)]

contents == [k \in 1 .. Used |-> Nth(k)]

Abstract == INSTANCE BoundedQueue WITH queue <- contents, Bound <- Capacity - 1

-----------------------------------------------------------------------------
(* Type invariant of the ring's state. *)
TypeOK == /\ buffer \in [Slots -> Items \union {NoItem}]
          /\ head \in Slots /\ tail \in Slots
          /\ ppc \in {"idle", "check", "write", "publish"}
          /\ cpc \in {"idle", "read", "clear", "publish"}
          /\ pitem \in Items \union {NoItem}
          /\ citem \in Items \union {NoItem}
          /\ got \in Items \union {NoItem}
          /\ sent \in BOOLEAN

(* The slots the consumer may look at are [head, tail): each holds an item,*)
(* except the one it has just cleared.  What the two index protocols must  *)
(* agree on for dequeue never to answer None while an item is inside.      *)
SlotsAgree ==
  /\ \A k \in 1 .. Used : Nth(k) \in Items
  /\ ppc \in {"check", "write", "publish"} => pitem \in Items
  /\ ppc \in {"write", "publish"} => Used < Capacity - 1
  /\ ppc = "publish" => buffer[tail] = pitem
  /\ cpc # "idle" => Used > 0
  /\ cpc = "clear" => citem = buffer[head]

IInv == TypeOK /\ SlotsAgree

(* The branch of dequeue that finds None in a slot the indexes call full   *)
(* is never taken: the producer's write is visible before its new tail.    *)
NeverReadsEmptySlot == cpc = "read" => buffer[head] # NoItem

(* The ring implements a bounded FIFO of Capacity - 1 items: no item is    *)
(* lost, duplicated or reordered, and "full" and "empty" are the truth at  *)
(* the instant they are decided (enqueue/dequeue of SPSCQueue).            *)
ImplementsBoundedQueue == Abstract!AbsSpec
=============================================================================
