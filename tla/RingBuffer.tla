----------------------------- MODULE RingBuffer -----------------------------
(***************************************************************************)
(* The ring behind every band of the event bus (data_structures.ml,        *)
(* RingBuffer): any Domain may push and pop, and each of `push` and `pop`  *)
(* ends in a compare-and-set on its index.  Each access to shared memory   *)
(* is one step.  `pushed`, `popped`, `sent` and `got` are history.         *)
(***************************************************************************)
EXTENDS Naturals, Sequences

CONSTANTS Capacity,   \* slots; one of them is never filled
          Producers, Consumers,
          MaxPush,    \* pushes per producer (bound of the model)
          Setups,     \* [push: pushes each producer makes, poll: consumers that poll]
          NoItem      \* the default value the slots start with

RingAssumption == /\ Capacity \in Nat \ {0}
                  /\ MaxPush \in Nat
                  /\ Producers \intersect Consumers = {}
                  /\ Setups \subseteq [push : [Producers -> 0 .. MaxPush],
                                        poll : SUBSET Consumers]

VARIABLES
  buffer, head, tail,
  pc,       \* where each thread is inside push or pop
  at,       \* the index each thread loaded: its current_tail or current_head
  item,     \* what each thread is pushing, or has read from its slot
  calls,    \* pushes each producer has begun
  pushed,   \* items in the order their compare-and-set succeeded
  popped,   \* items in the order they were returned
  sent,     \* answer of the last try_push that returned
  got,      \* answer of the last try_pop that returned
  setup     \* who uses the ring: chosen once, never changed

ring == <<buffer, head, tail>>
vars == <<ring, pc, at, item, calls, pushed, popped, sent, got, setup>>

Slots == 0 .. Capacity - 1
Threads == Producers \union Consumers
Pushes == Producers \X (1 .. MaxPush)

Goto(t, from, to) == pc[t] = from /\ pc' = [pc EXCEPT ![t] = to]

(* Wrong variants, one plausible slip of the code each: "full" one slot    *)
(* early, and a tail that is set without comparing.                        *)
FullEarly(i) == (i + 2) % Capacity = head
PushSetTail(p) ==
  /\ Goto(p, "claim", "idle")
  /\ tail' = (at[p] + 1) % Capacity
  /\ pushed' = Append(pushed, item[p])
  /\ sent' = TRUE
  /\ UNCHANGED <<buffer, head, at, item, calls, popped, got, setup>>

(* (i + 1) land mask *)
Succ(i) == (i + 1) % Capacity

(* Is the ring full for a tail, or empty for a head, loaded earlier? *)
Full(i) == Succ(i) = head
Empty(i) == i = tail

(* From head to tail, as `size` would count it if it read both at once. *)
Distance == (tail + Capacity - head) % Capacity

Init == /\ buffer = [i \in Slots |-> NoItem]
        /\ head = 0 /\ tail = 0
        /\ pc = [t \in Threads |-> "idle"]
        /\ at = [t \in Threads |-> 0]
        /\ item = [t \in Threads |-> NoItem]
        /\ calls = [p \in Producers |-> 0]
        /\ pushed = <<>> /\ popped = <<>>
        /\ sent = TRUE /\ got = NoItem
        /\ setup \in Setups

-----------------------------------------------------------------------------
(* push / try_push *)

PushCall(p) ==
  /\ calls[p] < setup.push[p]
  /\ Goto(p, "idle", "load tail")
  /\ calls' = [calls EXCEPT ![p] = @ + 1]
  /\ item' = [item EXCEPT ![p] = <<p, calls[p] + 1>>]
  /\ UNCHANGED <<buffer, head, tail, at, pushed, popped, sent, got, setup>>

PushLoadTail(p) ==
  /\ Goto(p, "load tail", "check head")
  /\ at' = [at EXCEPT ![p] = tail]
  /\ UNCHANGED <<buffer, head, tail, item, calls, pushed, popped, sent, got, setup>>

PushFull(p) ==
  /\ Full(at[p])
  /\ Goto(p, "check head", "idle")
  /\ sent' = FALSE
  /\ UNCHANGED <<buffer, head, tail, at, item, calls, pushed, popped, got, setup>>

PushRoom(p) ==
  /\ ~Full(at[p])
  /\ Goto(p, "check head", "write")
  /\ UNCHANGED <<buffer, head, tail, at, item, calls, pushed, popped, sent, got, setup>>

(* The slot is written before the index is claimed. *)
PushWrite(p) ==
  /\ Goto(p, "write", "claim")
  /\ buffer' = [buffer EXCEPT ![at[p]] = item[p]]
  /\ UNCHANGED <<head, tail, at, item, calls, pushed, popped, sent, got, setup>>

PushClaim(p) ==
  /\ tail = at[p]
  /\ Goto(p, "claim", "idle")
  /\ tail' = Succ(tail)
  /\ pushed' = Append(pushed, item[p])
  /\ sent' = TRUE
  /\ UNCHANGED <<buffer, head, at, item, calls, popped, got, setup>>

PushRetry(p) ==
  /\ tail # at[p]
  /\ Goto(p, "claim", "load tail")
  /\ UNCHANGED <<buffer, head, tail, at, item, calls, pushed, popped, sent, got, setup>>

-----------------------------------------------------------------------------
(* pop / try_pop *)

PopLoadHead(c) ==
  /\ c \in setup.poll
  /\ Goto(c, "idle", "check tail")
  /\ at' = [at EXCEPT ![c] = head]
  /\ UNCHANGED <<buffer, head, tail, item, calls, pushed, popped, sent, got, setup>>

PopEmpty(c) ==
  /\ Empty(at[c])
  /\ Goto(c, "check tail", "idle")
  /\ got' = NoItem
  /\ UNCHANGED <<buffer, head, tail, at, item, calls, pushed, popped, sent, setup>>

PopFound(c) ==
  /\ ~Empty(at[c])
  /\ Goto(c, "check tail", "read")
  /\ UNCHANGED <<buffer, head, tail, at, item, calls, pushed, popped, sent, got, setup>>

PopRead(c) ==
  /\ Goto(c, "read", "claim")
  /\ item' = [item EXCEPT ![c] = buffer[at[c]]]
  /\ UNCHANGED <<buffer, head, tail, at, calls, pushed, popped, sent, got, setup>>

PopClaim(c) ==
  /\ head = at[c]
  /\ Goto(c, "claim", "idle")
  /\ head' = Succ(head)
  /\ popped' = Append(popped, item[c])
  /\ got' = item[c]
  /\ UNCHANGED <<buffer, tail, at, item, calls, pushed, sent, setup>>

PopRetry(c) ==
  /\ head # at[c]
  /\ Goto(c, "claim", "idle")
  /\ UNCHANGED <<buffer, head, tail, at, item, calls, pushed, popped, sent, got, setup>>

-----------------------------------------------------------------------------
Push(p) == \/ PushLoadTail(p) \/ PushFull(p) \/ PushRoom(p)
           \/ PushWrite(p) \/ PushClaim(p) \/ PushRetry(p)

Pop(c) == \/ PopLoadHead(c) \/ PopEmpty(c) \/ PopFound(c)
          \/ PopRead(c) \/ PopClaim(c) \/ PopRetry(c)

Next == \/ \E p \in Producers : PushCall(p) \/ Push(p)
        \/ \E c \in Consumers : Pop(c)

Spec == Init /\ [][Next]_vars

-----------------------------------------------------------------------------
contents == [k \in 1 .. Distance |-> buffer[(head + k - 1) % Capacity]]

OneEach == /\ \E p \in Producers : {q \in Producers : setup.push[q] > 0} = {p}
           /\ \E c \in Consumers : setup.poll = {c}

(* The promise is made to one producer and one consumer; for any other     *)
(* setup the mapping is a queue at rest.                                   *)
Abstract == INSTANCE BoundedQueue WITH
              queue <- IF OneEach THEN contents ELSE <<>>,
              sent <- OneEach => sent,
              got <- IF OneEach THEN got ELSE NoItem,
              Items <- Pushes, Bound <- Capacity - 1

(* Type invariant of the ring and its threads.  A thread that races may    *)
(* read a slot that was never written, as far as the types tell.           *)
TypeOK == /\ buffer \in [Slots -> Pushes \union {NoItem}]
          /\ head \in Slots /\ tail \in Slots
          /\ pc \in [Threads -> {"idle", "load tail", "check head", "write",
                                 "claim", "check tail", "read"}]
          /\ at \in [Threads -> Slots]
          /\ item \in [Threads -> Pushes \union {NoItem}]
          /\ calls \in [Producers -> Nat]
          /\ pushed \in Seq(Pushes \union {NoItem}) /\ popped \in Seq(Pushes \union {NoItem})
          /\ sent \in BOOLEAN /\ got \in Pushes \union {NoItem}
          /\ setup \in Setups

(* However many threads push and pop, the indexes stay a true count of     *)
(* what was pushed and not yet popped.  (`size` reads head, then tail: what*)
(* others push and pop between the two may make its answer one that was    *)
(* true at no moment.)                                                     *)
CountsPending == Len(pushed) = Len(popped) + Distance

(* With one producer and one consumer the ring is a bounded FIFO: push and *)
(* pop take effect at their compare-and-set, "full" and "empty" are true   *)
(* at the instant they are decided.                                        *)
ImplementsBoundedQueue == Abstract!AbsSpec

(* push retries when another thread moved tail, so an item whose push      *)
(* returned stays in the ring until it is popped.                          *)
PushedItemsSurvive ==
  \A n \in 1 .. Len(pushed) :
     \/ \E k \in 1 .. Len(popped) : popped[k] = pushed[n]
     \/ \E k \in 1 .. Distance : contents[k] = pushed[n]
=============================================================================
