---------------------------- MODULE Queues_proofs ----------------------------
(***************************************************************************)
(* The single-producer single-consumer ring is correct for every capacity  *)
(* and every set of payloads: its inductive invariant, and the refinement  *)
(* of the bounded FIFO.  And for every capacity, every processor and every *)
(* set of ticks: a processor uses its ring as SPSCQueue says, accounts for *)
(* every event, and makes its bars by the calendar.  Last, the             *)
(* compare-and-set ring: with one producer and one consumer it refines the *)
(* same FIFO and counts what it holds.                                     *)
(***************************************************************************)
EXTENDS Queues, SequenceTheorems, FiniteSetTheorems, TLAPS

(* Masking an index that is at most one past the last slot. *)
LEMMA SuccWraps ==
  ASSUME NEW i \in Slots
  PROVE  Succ(i) = IF i + 1 = Capacity THEN 0 ELSE i + 1
<1>1. i \in Nat /\ i + 1 \in 1 .. Capacity
  BY CapacityAssumption DEF Slots
<1>2. CASE i + 1 = Capacity
  BY <1>1, <1>2, CapacityAssumption DEF Succ
<1>3. CASE i + 1 < Capacity
  BY <1>1, <1>3, CapacityAssumption DEF Succ
<1>4. QED
  BY <1>1, <1>2, <1>3, CapacityAssumption

LEMMA SuccInSlots == \A i \in Slots : Succ(i) \in Slots
BY SuccWraps, CapacityAssumption DEF Slots

-----------------------------------------------------------------------------
LEMMA TypeInit == Init => TypeOK
BY CapacityAssumption DEF Init, TypeOK, Slots

LEMMA TypeStep == TypeOK /\ SlotsAgree /\ [Next]_vars => TypeOK'
<1> SUFFICES ASSUME TypeOK, SlotsAgree, [Next]_vars
             PROVE  TypeOK'
  OBVIOUS
<1> USE DEF TypeOK, prodVars, consVars
<1>1. ASSUME NEW v \in Items, EnqueueBegin(v) PROVE TypeOK'
  BY <1>1 DEF EnqueueBegin
<1>2. CASE EnqueueRoom
  BY <1>2 DEF EnqueueRoom
<1>3. CASE EnqueueFull
  BY <1>3 DEF EnqueueFull
<1>4. CASE EnqueueWrite
  BY <1>4 DEF EnqueueWrite
<1>5. CASE EnqueuePublish
  BY <1>5, SuccInSlots DEF EnqueuePublish
<1>6. CASE DequeueEmpty
  BY <1>6 DEF DequeueEmpty
<1>7. CASE DequeueBegin
  BY <1>7 DEF DequeueBegin
<1>8. CASE DequeueRead
  BY <1>8 DEF DequeueRead
<1>9. CASE DequeueClear
  BY <1>9 DEF DequeueClear
<1>10. CASE DequeuePublish
  BY <1>10, SuccInSlots DEF DequeuePublish
<1>11. CASE UNCHANGED vars
  BY <1>11 DEF vars
<1>12. QED
  BY <1>1, <1>2, <1>3, <1>4, <1>5, <1>6, <1>7, <1>8, <1>9, <1>10, <1>11
     DEF Next, ProducerStep, ConsumerStep

-----------------------------------------------------------------------------
(* Facts about the window [head, tail) of the ring. *)

LEMMA UsedRange == TypeOK => Used \in 0 .. Capacity - 1
BY CapacityAssumption DEF TypeOK, Used, Slots

LEMMA WrapInSlots ==
  ASSUME TypeOK, NEW k \in 1 .. Capacity
  PROVE  Wrap(head + k - 1) \in Slots
BY CapacityAssumption DEF TypeOK, Wrap, Slots

(* The slot after the window is tail, and no other place of it is. *)
LEMMA WindowEnd ==
  ASSUME TypeOK
  PROVE  /\ Wrap(head + Used) = tail
         /\ \A k \in 1 .. Used : Wrap(head + k - 1) # tail
BY CapacityAssumption DEF TypeOK, Wrap, Slots, Used

(* The window starts at head, and no later place of it is head. *)
LEMMA WindowStart ==
  ASSUME TypeOK
  PROVE  /\ Wrap(head) = head
         /\ \A k \in 2 .. Used : Wrap(head + k - 1) # head
BY CapacityAssumption DEF TypeOK, Wrap, Slots, Used

LEMMA EmptyWindow == TypeOK => (Empty <=> Used = 0)
BY CapacityAssumption DEF TypeOK, Used, Slots, Empty

LEMMA FullWindow == TypeOK => (Full <=> Used = Capacity - 1)
<1> SUFFICES ASSUME TypeOK PROVE Full <=> Used = Capacity - 1
  OBVIOUS
<1>1. Succ(tail) = IF tail + 1 = Capacity THEN 0 ELSE tail + 1
  BY SuccWraps DEF TypeOK
<1>2. QED
  BY <1>1, CapacityAssumption DEF TypeOK, Used, Slots, Full

(* Publishing a slot lengthens the window by one at its end. *)
LEMMA WindowGrows ==
  ASSUME TypeOK, Used < Capacity - 1, tail' = Succ(tail), head' = head
  PROVE  /\ Used' = Used + 1
         /\ \A k \in 1 .. Capacity : Wrap(head + k - 1)' = Wrap(head + k - 1)
<1>1. Succ(tail) = IF tail + 1 = Capacity THEN 0 ELSE tail + 1
  BY SuccWraps DEF TypeOK
<1>2. Used' = Used + 1
  BY <1>1, CapacityAssumption DEF TypeOK, Used, Slots
<1>3. QED
  BY <1>2, CapacityAssumption DEF TypeOK, Wrap, Slots

(* Advancing head shortens the window by one at its start. *)
LEMMA WindowShrinks ==
  ASSUME TypeOK, Used > 0, head' = Succ(head), tail' = tail
  PROVE  /\ Used' = Used - 1
         /\ \A k \in 1 .. Capacity - 1 : Wrap(head + k - 1)' = Wrap(head + k)
<1>1. Succ(head) = IF head + 1 = Capacity THEN 0 ELSE head + 1
  BY SuccWraps DEF TypeOK
<1>2. Used' = Used - 1
  BY <1>1, CapacityAssumption DEF TypeOK, Used, Slots
<1>3. ASSUME NEW k \in 1 .. Capacity - 1
      PROVE  Wrap(head + k - 1)' = Wrap(head + k)
  BY <1>1, <1>3, CapacityAssumption DEF TypeOK, Wrap, Slots
<1>4. QED
  BY <1>2, <1>3

-----------------------------------------------------------------------------
(* What each step that touches the window does to the items in it. *)

LEMMA WriteKeepsNth ==
  ASSUME TypeOK, SlotsAgree, EnqueueWrite
  PROVE  Used' = Used /\ \A k \in 1 .. Used : Nth(k)' = Nth(k)
<1>1. /\ UNCHANGED <<head, tail, citem, cpc>>
      /\ buffer' = [buffer EXCEPT ![tail] = pitem]
  BY DEF EnqueueWrite, consVars
<1>2. Used' = Used
  BY <1>1 DEF Used
<1>3. ASSUME NEW k \in 1 .. Used PROVE Nth(k)' = Nth(k)
  <2>1. Wrap(head + k - 1) \in Slots
    BY UsedRange, WrapInSlots, CapacityAssumption
  <2>2. Wrap(head + k - 1) # tail
    BY WindowEnd
  <2>3. buffer'[Wrap(head + k - 1)] = buffer[Wrap(head + k - 1)]
    BY <1>1, <2>1, <2>2 DEF TypeOK
  <2>4. QED
    BY <1>1, <2>3 DEF Nth, Wrap
<1>4. QED
  BY <1>2, <1>3

LEMMA PublishAppendsNth ==
  ASSUME TypeOK, SlotsAgree, EnqueuePublish
  PROVE  /\ Used' = Used + 1
         /\ \A k \in 1 .. Used : Nth(k)' = Nth(k)
         /\ \A k \in 1 .. Used' : k \notin 1 .. Used => k = Used + 1 /\ Nth(k)' = pitem
<1>1. /\ tail' = Succ(tail)
      /\ UNCHANGED <<buffer, head, pitem, citem, cpc>>
  BY DEF EnqueuePublish, consVars
<1>2. Used < Capacity - 1 /\ buffer[tail] = pitem
  BY DEF EnqueuePublish, SlotsAgree
<1>3. /\ Used' = Used + 1
      /\ \A k \in 1 .. Capacity : Wrap(head + k - 1)' = Wrap(head + k - 1)
  BY <1>1, <1>2, WindowGrows
<1>4. \A k \in 1 .. Used : Nth(k)' = Nth(k)
  BY <1>1, <1>3, UsedRange, CapacityAssumption DEF Nth
<1>5. ASSUME NEW k \in 1 .. Used', k \notin 1 .. Used
      PROVE  k = Used + 1 /\ Nth(k)' = pitem
  <2>1. k = Used + 1 /\ k \in 1 .. Capacity /\ head + k - 1 = head + Used
    BY <1>2, <1>3, <1>5, UsedRange, CapacityAssumption DEF TypeOK, Slots
  <2>2. Wrap(head + k - 1)' = tail
    BY <1>3, <2>1, WindowEnd
  <2>3. ~(k = 1 /\ cpc' = "publish")
    <3>1. cpc # "idle" => Used > 0
      BY DEF SlotsAgree
    <3>2. cpc' = cpc
      BY <1>1
    <3>3. Used > 0 => k # 1
      BY <2>1, UsedRange, CapacityAssumption
    <3>4. QED
      BY <3>1, <3>2, <3>3
  <2>4. QED
    BY <1>1, <1>2, <2>1, <2>2, <2>3 DEF Nth
<1>6. QED
  BY <1>3, <1>4, <1>5

LEMMA ClearKeepsNth ==
  ASSUME TypeOK, SlotsAgree, DequeueClear
  PROVE  Used' = Used /\ \A k \in 1 .. Used : Nth(k)' = Nth(k)
<1>1. /\ cpc = "clear" /\ cpc' = "publish"
      /\ buffer' = [buffer EXCEPT ![head] = NoItem]
      /\ UNCHANGED <<head, tail, citem>>
  BY DEF DequeueClear
<1>2. Used' = Used
  BY <1>1 DEF Used
<1>3. ASSUME NEW k \in 1 .. Used PROVE Nth(k)' = Nth(k)
  <2>1. CASE k = 1
    BY <1>1, <2>1, WindowStart DEF Nth, SlotsAgree, TypeOK, Slots
  <2>2. CASE k # 1
    <3>1. k \in 2 .. Used /\ k \in 1 .. Capacity
      BY <2>2, UsedRange, CapacityAssumption
    <3>2. Wrap(head + k - 1) \in Slots /\ Wrap(head + k - 1) # head
      BY <3>1, WrapInSlots, WindowStart
    <3>3. buffer'[Wrap(head + k - 1)] = buffer[Wrap(head + k - 1)]
      BY <1>1, <3>2 DEF TypeOK
    <3>4. QED
      BY <1>1, <2>2, <3>3 DEF Nth, Wrap
  <2>3. QED
    BY <2>1, <2>2
<1>4. QED
  BY <1>2, <1>3

LEMMA TakeDropsFirst ==
  ASSUME TypeOK, SlotsAgree, DequeuePublish
  PROVE  /\ Used > 0 /\ Used' = Used - 1
         /\ Nth(1) = citem
         /\ \A k \in 1 .. Used' : k + 1 \in 1 .. Used /\ Nth(k)' = Nth(k + 1)
<1>1. /\ cpc = "publish" /\ cpc' = "idle" /\ head' = Succ(head)
      /\ UNCHANGED <<buffer, tail>>
  BY DEF DequeuePublish
<1>2. Used > 0
  BY <1>1 DEF SlotsAgree
<1>3. /\ Used' = Used - 1
      /\ \A k \in 1 .. Capacity - 1 : Wrap(head + k - 1)' = Wrap(head + k)
  BY <1>1, <1>2, WindowShrinks
<1>4. ASSUME NEW k \in 1 .. Used'
      PROVE  k + 1 \in 1 .. Used /\ Nth(k)' = Nth(k + 1)
  BY <1>1, <1>3, UsedRange, CapacityAssumption DEF Nth
<1>5. QED
  BY <1>1, <1>2, <1>3, <1>4 DEF Nth

-----------------------------------------------------------------------------
LEMMA SlotsInit == Init => SlotsAgree
BY CapacityAssumption DEF Init, SlotsAgree, Used

LEMMA SlotsStep == TypeOK /\ SlotsAgree /\ [Next]_vars => SlotsAgree'
<1> SUFFICES ASSUME TypeOK, SlotsAgree, [Next]_vars
             PROVE  SlotsAgree'
  OBVIOUS
<1>t. TypeOK'
  BY TypeStep
<1>u. Used \in 0 .. Capacity - 1
  BY UsedRange
<1>1. ASSUME NEW v \in Items, EnqueueBegin(v) PROVE SlotsAgree'
  BY <1>1 DEF EnqueueBegin, SlotsAgree, Used, Nth, Wrap, consVars
<1>2. CASE EnqueueRoom
  <2>1. Used < Capacity - 1
    BY <1>2, <1>u, FullWindow, CapacityAssumption DEF EnqueueRoom
  <2>2. QED
    BY <1>2, <2>1 DEF EnqueueRoom, SlotsAgree, Used, Nth, Wrap, consVars
<1>3. CASE EnqueueFull
  BY <1>3 DEF EnqueueFull, SlotsAgree, Used, Nth, Wrap, consVars
<1>4. CASE EnqueueWrite
  <2>1. buffer' = [buffer EXCEPT ![tail] = pitem] /\ UNCHANGED <<head, tail, pitem>>
    BY <1>4 DEF EnqueueWrite
  <2>2. buffer'[tail'] = pitem'
    BY <2>1 DEF TypeOK
  <2>3. cpc = "clear" => head # tail
    BY <1>u, EmptyWindow DEF SlotsAgree, Empty
  <2>4. cpc = "clear" => citem = buffer'[head]
    BY <2>1, <2>3 DEF TypeOK, SlotsAgree
  <2>5. QED
    BY <1>4, <2>1, <2>2, <2>4, WriteKeepsNth DEF EnqueueWrite, SlotsAgree, consVars
<1>5. CASE EnqueuePublish
  <2>1. ppc' = "idle" /\ UNCHANGED <<buffer, head, pitem, citem, cpc>> /\ pitem \in Items
    BY <1>5 DEF EnqueuePublish, consVars, SlotsAgree
  <2>2. Used' = Used + 1
    BY <1>5, PublishAppendsNth
  <2>3. \A k \in 1 .. Used' : Nth(k)' \in Items
    BY <1>5, <2>1, PublishAppendsNth DEF SlotsAgree
  <2>4. QED
    BY <1>u, <2>1, <2>2, <2>3 DEF SlotsAgree
<1>6. CASE DequeueEmpty
  BY <1>6 DEF DequeueEmpty, SlotsAgree, Used, Nth, Wrap, prodVars
<1>7. CASE DequeueBegin
  <2>1. Used > 0
    BY <1>7, <1>u, EmptyWindow DEF DequeueBegin
  <2>2. QED
    BY <1>7, <2>1 DEF DequeueBegin, SlotsAgree, Used, Nth, Wrap, prodVars
<1>8. CASE DequeueRead
  BY <1>8 DEF DequeueRead, SlotsAgree, Used, Nth, Wrap, prodVars
<1>9. CASE DequeueClear
  <2>1. /\ cpc = "clear" /\ cpc' = "publish"
        /\ buffer' = [buffer EXCEPT ![head] = NoItem]
        /\ UNCHANGED <<head, tail, ppc, pitem, citem>>
    BY <1>9 DEF DequeueClear, prodVars
  <2>2. head # tail
    BY <1>u, <2>1, EmptyWindow DEF SlotsAgree, Empty
  <2>3. ppc = "publish" => buffer'[tail] = pitem
    BY <2>1, <2>2 DEF TypeOK, SlotsAgree
  <2>4. QED
    BY <1>9, <2>1, <2>3, ClearKeepsNth DEF SlotsAgree
<1>10. CASE DequeuePublish
  <2>1. cpc' = "idle" /\ UNCHANGED <<buffer, tail, ppc, pitem>>
    BY <1>10 DEF DequeuePublish, prodVars
  <2>2. Used' = Used - 1
    BY <1>10, TakeDropsFirst
  <2>3. \A k \in 1 .. Used' : Nth(k)' \in Items
    BY <1>10, TakeDropsFirst DEF SlotsAgree
  <2>4. /\ ppc' \in {"check", "write", "publish"} => pitem' \in Items
        /\ ppc' \in {"write", "publish"} => Used' < Capacity - 1
        /\ ppc' = "publish" => buffer'[tail'] = pitem'
    BY <1>u, <2>1, <2>2, CapacityAssumption DEF SlotsAgree
  <2>5. QED
    BY <2>1, <2>3, <2>4 DEF SlotsAgree
<1>11. CASE UNCHANGED vars
  BY <1>11 DEF vars, SlotsAgree, Used, Nth, Wrap
<1>12. QED
  BY <1>1, <1>2, <1>3, <1>4, <1>5, <1>6, <1>7, <1>8, <1>9, <1>10, <1>11
     DEF Next, ProducerStep, ConsumerStep

-----------------------------------------------------------------------------
(* Every reachable state of the ring is well typed, and the two index      *)
(* protocols agree on which slots hold items (enqueue and dequeue).        *)
THEOREM TypeCorrect == Spec => []TypeOK
<1>1. Init => IInv
  BY TypeInit, SlotsInit DEF IInv
<1>2. IInv /\ [Next]_vars => IInv'
  BY TypeStep, SlotsStep DEF IInv
<1>3. IInv => TypeOK
  BY DEF IInv
<1>4. QED
  BY <1>1, <1>2, <1>3, PTL DEF Spec

(* The strengthening itself: types and slot agreement together are kept by *)
(* every step of enqueue and dequeue; the theorems below all rest on it.    *)
THEOREM InductiveInvariant == Spec => []IInv
<1>1. Init => IInv
  BY TypeInit, SlotsInit DEF IInv
<1>2. IInv /\ [Next]_vars => IInv'
  BY TypeStep, SlotsStep DEF IInv
<1>3. QED
  BY <1>1, <1>2, PTL DEF Spec

(* The slots between the indexes hold items and no others are looked at:    *)
(* what enqueue and dequeue have to agree on.                               *)
THEOREM SlotsAlwaysAgree == Spec => []SlotsAgree
BY InductiveInvariant, PTL DEF IInv

LEMMA OldestIsAnItem == IInv /\ cpc = "read" => buffer[head] \in Items
<1> SUFFICES ASSUME TypeOK, SlotsAgree, cpc = "read" PROVE buffer[head] \in Items
  BY DEF IInv
<1>1. Used > 0 /\ Used \in Nat
  BY UsedRange, CapacityAssumption DEF SlotsAgree
<1>2. Nth(1) \in Items
  BY <1>1 DEF SlotsAgree
<1>3. head \in Nat /\ head + 1 - 1 = head
  BY CapacityAssumption DEF TypeOK, Slots
<1>4. QED
  BY <1>2, <1>3, WindowStart DEF Nth

(* dequeue never finds None in a slot the indexes say is full. *)
THEOREM ReadsOnlyItems == Spec => []NeverReadsEmptySlot
<1>1. IInv => NeverReadsEmptySlot
  BY OldestIsAnItem, ItemAssumption DEF NeverReadsEmptySlot
<1>2. QED
  BY <1>1, InductiveInvariant, PTL

-----------------------------------------------------------------------------
LEMMA ContentsSeq ==
  IInv => contents \in Seq(Items) /\ Len(contents) = Used
<1> SUFFICES ASSUME TypeOK, SlotsAgree
             PROVE  contents \in Seq(Items) /\ Len(contents) = Used
  BY DEF IInv
<1>1. Used \in Nat
  BY UsedRange, CapacityAssumption
<1>2. contents \in [1 .. Used -> Items]
  BY DEF SlotsAgree, contents
<1>3. QED
  BY <1>1, <1>2, LenProperties

LEMMA SameContents ==
  ASSUME Used' = Used, \A k \in 1 .. Used : Nth(k)' = Nth(k)
  PROVE  contents' = contents
BY DEF contents

LEMMA PublishIsPut == IInv /\ IInv' /\ EnqueuePublish => Abstract!Put(pitem)
<1> SUFFICES ASSUME IInv, IInv', EnqueuePublish PROVE Abstract!Put(pitem)
  OBVIOUS
<1> USE DEF IInv
<1>1. Len(contents) = Used /\ contents \in Seq(Items) /\ Used \in Nat
  BY ContentsSeq, UsedRange, CapacityAssumption
<1>2. Used < Capacity - 1 /\ sent' = TRUE /\ UNCHANGED got
  BY DEF EnqueuePublish, SlotsAgree, consVars
<1>3. contents' = Append(contents, pitem)
  <2>1. contents' = [k \in 1 .. Used + 1 |-> IF k \in 1 .. Used THEN Nth(k) ELSE pitem]
    BY PublishAppendsNth DEF contents
  <2>2. Append(contents, pitem)
          = [k \in 1 .. Used + 1 |-> IF k \in 1 .. Used THEN Nth(k) ELSE pitem]
    BY <1>1 DEF contents
  <2>3. QED
    BY <2>1, <2>2
<1>4. QED
  BY <1>1, <1>2, <1>3 DEF Abstract!Put

LEMMA PublishIsTake == IInv /\ IInv' /\ DequeuePublish => Abstract!Take
<1> SUFFICES ASSUME IInv, IInv', DequeuePublish PROVE Abstract!Take
  OBVIOUS
<1> USE DEF IInv
<1>1. Len(contents) = Used /\ contents \in Seq(Items) /\ Used \in Nat
  BY ContentsSeq, UsedRange, CapacityAssumption
<1>2. Used > 0 /\ Used' = Used - 1 /\ Nth(1) = citem
  BY TakeDropsFirst
<1>3. contents # <<>> /\ Head(contents) = citem
  BY <1>1, <1>2 DEF contents
<1>4. contents' = Tail(contents)
  <2>1. contents' = [k \in 1 .. Used - 1 |-> Nth(k + 1)]
    BY <1>2, TakeDropsFirst DEF contents
  <2>2. /\ Tail(contents) \in Seq(Items) /\ Len(Tail(contents)) = Used - 1
        /\ \A k \in 1 .. Used - 1 : Tail(contents)[k] = contents[k + 1]
    BY <1>1, <1>3, HeadTailProperties
  <2>3. \A k \in 1 .. Used - 1 : contents[k + 1] = Nth(k + 1)
    BY <1>1, <1>2 DEF contents
  <2>4. Tail(contents) = [k \in 1 .. Used - 1 |-> Tail(contents)[k]]
    BY <2>2, LenProperties
  <2>5. QED
    BY <2>1, <2>2, <2>3, <2>4
<1>5. QED
  BY <1>3, <1>4 DEF Abstract!Take, DequeuePublish, prodVars

LEMMA StepRefines == IInv /\ IInv' /\ [Next]_vars => [Abstract!AbsNext]_(Abstract!absVars)
<1> SUFFICES ASSUME IInv, IInv', [Next]_vars
             PROVE  [Abstract!AbsNext]_(Abstract!absVars)
  OBVIOUS
<1> USE DEF Abstract!absVars, Abstract!AbsNext, IInv
<1>c. Len(contents) = Used
  BY ContentsSeq
<1>1. ASSUME NEW v \in Items, EnqueueBegin(v) PROVE UNCHANGED Abstract!absVars
  BY <1>1 DEF EnqueueBegin, consVars, contents, Nth, Wrap, Used
<1>2. CASE EnqueueRoom
  BY <1>2 DEF EnqueueRoom, consVars, contents, Nth, Wrap, Used
<1>3. CASE EnqueueFull
  <2>1. contents' = contents /\ sent' = FALSE /\ UNCHANGED got
    BY <1>3 DEF EnqueueFull, consVars, contents, Nth, Wrap, Used
  <2>2. Len(contents) = Capacity - 1
    BY <1>3, <1>c, FullWindow DEF EnqueueFull
  <2>3. QED
    BY <2>1, <2>2 DEF Abstract!Refuse
<1>4. CASE EnqueueWrite
  BY <1>4, WriteKeepsNth, SameContents DEF EnqueueWrite, consVars
<1>5. CASE EnqueuePublish
  <2>1. pitem \in Items
    BY <1>5 DEF EnqueuePublish, SlotsAgree
  <2>2. QED
    BY <1>5, <2>1, PublishIsPut
<1>6. CASE DequeueEmpty
  <2>1. contents' = contents /\ got' = NoItem /\ UNCHANGED sent
    BY <1>6 DEF DequeueEmpty, prodVars, contents, Nth, Wrap, Used
  <2>2. contents = <<>>
    BY <1>6, EmptyWindow, <1>c, ContentsSeq DEF DequeueEmpty
  <2>3. QED
    BY <2>1, <2>2 DEF Abstract!FindEmpty
<1>7. CASE DequeueBegin
  BY <1>7 DEF DequeueBegin, prodVars, contents, Nth, Wrap, Used
<1>8. CASE DequeueRead
  <2>1. buffer[head] # NoItem
    BY <1>8, OldestIsAnItem, ItemAssumption DEF DequeueRead
  <2>2. QED
    BY <1>8, <2>1 DEF DequeueRead, prodVars, contents, Nth, Wrap, Used
<1>9. CASE DequeueClear
  BY <1>9, ClearKeepsNth, SameContents DEF DequeueClear, prodVars
<1>10. CASE DequeuePublish
  BY <1>10, PublishIsTake
<1>11. CASE UNCHANGED vars
  BY <1>11 DEF vars, contents, Nth, Wrap, Used
<1>12. QED
  BY <1>1, <1>2, <1>3, <1>4, <1>5, <1>6, <1>7, <1>8, <1>9, <1>10, <1>11
     DEF Next, ProducerStep, ConsumerStep

(* For every capacity the ring is a bounded FIFO of Capacity - 1 items with *)
(* truthful "full" and "empty" answers (SPSCQueue.enqueue and .dequeue).    *)
THEOREM RingIsBoundedQueue == Spec => ImplementsBoundedQueue
<1>1. Init => Abstract!AbsInit
  BY CapacityAssumption DEF Init, Abstract!AbsInit, contents, Used
<1>2. IInv /\ IInv' /\ [Next]_vars => [Abstract!AbsNext]_(Abstract!absVars)
  BY StepRefines
<1>3. QED
  BY <1>1, <1>2, InductiveInvariant, PTL DEF Spec, ImplementsBoundedQueue, Abstract!AbsSpec

-----------------------------------------------------------------------------
(* The processors. *)

IsSetup == setup \in Setups

(* Each step of a processor is a step of its ring or leaves it alone.      *)
LEMMA ProcStepIsRingStep == IsSetup /\ [ProcNext]_procVars => [Next]_vars
<1> SUFFICES ASSUME IsSetup, [ProcNext]_procVars PROVE [Next]_vars
  OBVIOUS
<1>1. ASSUME NEW t \in setup.ticks, Accept(t) PROVE Next
  BY <1>1, ProcessorAssumption DEF IsSetup, Accept, Next
<1>2. CASE Dispatch \/ Skip \/ Reject \/ HandlerReturns
  BY <1>2 DEF Dispatch, Skip, Reject, HandlerReturns, ringVars
<1>3. CASE Enqueue
  BY <1>3 DEF Enqueue, Next
<1>4. CASE Dequeue
  BY <1>4 DEF Dequeue, Next
<1>5. CASE LookAtStop \/ Process
  BY <1>5 DEF LookAtStop, Process, ringVars
<1>6. CASE Stop
  BY <1>6 DEF Stop, StopBegin, Unsubscribe, SetStopFlag, Join, ringVars
<1>7. CASE UNCHANGED procVars
  BY <1>7 DEF procVars
<1>8. QED
  BY <1>1, <1>2, <1>3, <1>4, <1>5, <1>6, <1>7 DEF ProcNext, Handler, Drain

LEMMA SetupStays == IsSetup /\ [ProcNext]_procVars => IsSetup'
BY DEF IsSetup, ProcNext, Handler, Drain, Stop, Dispatch, Skip, Reject, Accept, Enqueue, HandlerReturns,
       LookAtStop, Dequeue, Process, StopBegin, Unsubscribe, SetStopFlag, Join, procVars

(* A processor uses its ring as one producer and one consumer: everything  *)
(* proved of the ring holds in it (handler and domain_main of the three).  *)
THEOREM RingUsedAsSpecified == ProcSpec => Spec
<1>1. ProcInit => Init /\ IsSetup
  BY DEF ProcInit, IsSetup
<1>2. QED
  BY <1>1, ProcStepIsRingStep, SetupStays, PTL DEF ProcSpec, Spec

(* In every processor the ring is a bounded FIFO with truthful answers.    *)
THEOREM RingsAreBoundedQueues == ProcSpec => []IInv /\ ImplementsBoundedQueue
BY RingUsedAsSpecified, InductiveInvariant, RingIsBoundedQueue, PTL

-----------------------------------------------------------------------------
(* Why every event is accounted for: the dispatcher is inside enqueue only *)
(* when the handler is, and the Domain inside dequeue only when it pops.   *)

Stats == [observed : Nat, skipped : Nat, rejected : Nat, dropped : Nat, processed : Nat]

(* The handler counts an event and what became of it in one go. *)
LEMMA BothCounted ==
  ASSUME NEW s \in Stats, NEW f \in {"skipped", "rejected"}, NEW r,
         r = [s EXCEPT !.observed = @ + 1, ![f] = @ + 1]
  PROVE  /\ r \in Stats
         /\ r.observed = s.observed + 1 /\ r[f] = s[f] + 1
         /\ \A x \in {"skipped", "rejected", "dropped", "processed"} \ {f} : r[x] = s[x]
<1>1. /\ r.observed = s.observed + 1 /\ r[f] = s[f] + 1
      /\ \A x \in {"skipped", "rejected", "dropped", "processed"} \ {f} : r[x] = s[x]
  BY DEF Stats
<1>2. DOMAIN r = DOMAIN s /\ r = [x \in DOMAIN s |-> r[x]]
  BY DEF Stats
<1>3. /\ DOMAIN r = {"observed", "skipped", "rejected", "dropped", "processed"}
      /\ \A x \in DOMAIN r : r[x] \in Nat
  BY <1>1, <1>2 DEF Stats
<1>4. r \in Stats
  BY <1>2, <1>3 DEF Stats
<1>5. QED
  BY <1>1, <1>4

Linked == /\ handler # "enqueue" => ppc = "idle"
          /\ phase # "pop" => cpc = "idle"
          /\ stats \in Stats

PInv == Linked /\ TicksAccounted

LEMMA PInvInit == ProcInit => PInv
BY CapacityAssumption
   DEF ProcInit, Init, PInv, Linked, Stats, TicksAccounted, NoStats, Used, Handing, Working

LEMMA UsedIsNat == TypeOK => Used \in Nat
BY UsedRange, CapacityAssumption

(* The steps of enqueue: only the last one adds to the window. *)
LEMMA EnqueueAccounts ==
  ASSUME IInv, PInv, Enqueue
  PROVE  PInv'
<1> USE DEF IInv, PInv, Linked, Stats, TicksAccounted, Enqueue, Handing, Working, stopVars, drainVars
<1>1. Used \in Nat
  BY UsedIsNat
<1>2. CASE EnqueueRoom \/ EnqueueWrite
  BY <1>1, <1>2 DEF EnqueueRoom, EnqueueWrite, consVars, Used
<1>3. CASE EnqueueFull
  BY <1>1, <1>3 DEF EnqueueFull, consVars, Used
<1>4. CASE EnqueuePublish
  <2>1. Used' = Used + 1
    BY <1>4, WindowGrows DEF EnqueuePublish, SlotsAgree
  <2>2. QED
    BY <1>1, <1>4, <2>1 DEF EnqueuePublish, consVars
<1>5. QED
  BY <1>2, <1>3, <1>4 DEF ProducerStep

(* The steps of dequeue: only the last one takes from the window, and what *)
(* it takes is a tick to be processed.                                     *)
LEMMA DequeueAccounts ==
  ASSUME IInv, PInv, Dequeue
  PROVE  PInv'
<1> USE DEF IInv, PInv, Linked, Stats, TicksAccounted, Dequeue, Handing, Working, stopVars
<1>1. Used \in Nat
  BY UsedIsNat
<1>2. CASE DequeueEmpty
  BY <1>1, <1>2 DEF DequeueEmpty, prodVars, Used
<1>3. CASE DequeueBegin \/ DequeueClear
  BY <1>1, <1>3 DEF DequeueBegin, DequeueClear, prodVars, Used
<1>4. CASE DequeueRead
  BY <1>1, <1>4 DEF DequeueRead, prodVars, Used
<1>5. CASE DequeuePublish
  <2>0. Used > 0 /\ cpc = "publish" /\ \A k \in 1 .. Used : Nth(k) \in Items
    BY <1>5 DEF DequeuePublish, SlotsAgree
  <2>a. Nth(1) \in Items
    BY <1>1, <2>0
  <2>1. Used > 0 /\ citem # NoItem
    BY <2>0, <2>a, ItemAssumption DEF Nth
  <2>2. Used' = Used - 1
    BY <1>5, <2>1, WindowShrinks DEF DequeuePublish, prodVars
  <2>3. QED
    BY <1>1, <1>5, <2>1, <2>2 DEF DequeuePublish, prodVars
<1>6. QED
  BY <1>2, <1>3, <1>4, <1>5 DEF Dequeue, ConsumerStep

LEMMA StepAccounts ==
  ASSUME IInv, PInv, [ProcNext]_procVars
  PROVE  PInv'
<1>1. Used \in Nat
  BY UsedIsNat DEF IInv
<1> USE DEF PInv, Linked, Stats, TicksAccounted, Handing, Working, Counted, ringVars, vars, stopVars,
            drainVars
<1>2. CASE Dispatch
  BY <1>1, <1>2 DEF Dispatch, Used
<1>3. CASE Skip
  <2>1. /\ handler = "called" /\ handler' = "idle"
        /\ UNCHANGED <<phase, ppc, cpc, sent, head, tail>>
        /\ stats' = [stats EXCEPT !.observed = @ + 1, !["skipped"] = @ + 1]
    BY <1>3 DEF Skip
  <2>2. Used' = Used
    BY <2>1 DEF Used
  <2>3. /\ stats' \in Stats
        /\ stats'.observed = stats.observed + 1 /\ stats'.skipped = stats.skipped + 1
        /\ \A x \in {"skipped", "rejected", "dropped", "processed"} \ {"skipped"} :
             stats'[x] = stats[x]
    BY <2>1, BothCounted
  <2>4. Handing' = Handing /\ Working' = Working /\ Handing \in Nat /\ Working \in Nat
    BY <2>1
  <2>5. TicksAccounted'
    <3> HIDE DEF Handing, Working
    <3>1. QED
      BY <1>1, <2>2, <2>3, <2>4 DEF Stats
  <2>6. QED
    BY <2>1, <2>3, <2>5
<1>4. CASE Reject
  <2>1. /\ handler = "called" /\ handler' = "idle"
        /\ UNCHANGED <<phase, ppc, cpc, sent, head, tail>>
        /\ stats' = [stats EXCEPT !.observed = @ + 1, !["rejected"] = @ + 1]
    BY <1>4 DEF Reject
  <2>2. Used' = Used
    BY <2>1 DEF Used
  <2>3. /\ stats' \in Stats
        /\ stats'.observed = stats.observed + 1 /\ stats'.rejected = stats.rejected + 1
        /\ \A x \in {"skipped", "rejected", "dropped", "processed"} \ {"rejected"} :
             stats'[x] = stats[x]
    BY <2>1, BothCounted
  <2>4. Handing' = Handing /\ Working' = Working /\ Handing \in Nat /\ Working \in Nat
    BY <2>1
  <2>5. TicksAccounted'
    <3> HIDE DEF Handing, Working
    <3>1. QED
      BY <1>1, <2>2, <2>3, <2>4 DEF Stats
  <2>6. QED
    BY <2>1, <2>3, <2>5
<1>5. ASSUME NEW t \in setup.ticks, Accept(t) PROVE PInv'
  BY <1>1, <1>5 DEF Accept, EnqueueBegin, consVars, Used
<1>6. CASE HandlerReturns
  BY <1>1, <1>6 DEF HandlerReturns, Used
<1>7. CASE LookAtStop
  BY <1>1, <1>7 DEF LookAtStop, Used
<1>8. CASE Process
  BY <1>1, <1>8 DEF Process, Used
<1>9. CASE Stop
  BY <1>1, <1>9 DEF Stop, StopBegin, Unsubscribe, SetStopFlag, Join, Used
<1>10. CASE UNCHANGED procVars
  BY <1>10 DEF procVars, Used
<1>11. QED
  BY <1>2, <1>3, <1>4, <1>5, <1>6, <1>7, <1>8, <1>9, <1>10, EnqueueAccounts, DequeueAccounts
     DEF ProcNext, Handler, Drain

(* Every event a processor's handler has seen is in a counter, in the ring *)
(* or in hand, for every capacity, table size, set of ticks and stop.      *)
THEOREM EveryTickAccounted == ProcSpec => []TicksAccounted
<1>1. PInv => TicksAccounted
  BY DEF PInv
<1>2. IInv /\ PInv /\ [ProcNext]_procVars => PInv'
  BY StepAccounts
<1>3. QED
  BY <1>1, <1>2, PInvInit, RingsAreBoundedQueues, PTL DEF ProcSpec

-----------------------------------------------------------------------------
-----------------------------------------------------------------------------

(* A non-empty set of naturals has a least element.                        *)
LEMMA LeastNat ==
  ASSUME NEW T, T \subseteq Nat, T # {}
  PROVE  \E n \in T : \A m \in T : n <= m
<1> DEFINE Below == {0 .. n : n \in T}
           R == StrictSubsetOrdering(Nat)
<1>1. IsWellFoundedOn(R, FiniteSubsetsOf(Nat))
  BY FS_StrictSubsetOrderingWellFounded
<1>2. Below \subseteq FiniteSubsetsOf(Nat) /\ Below # {}
  <2>1. \A n \in T : 0 .. n \in FiniteSubsetsOf(Nat)
    BY FS_Interval DEF FiniteSubsetsOf
  <2>2. PICK t \in T : TRUE
    OBVIOUS
  <2>3. 0 .. t \in Below
    OBVIOUS
  <2> QED BY <2>1, <2>3
<1> HIDE DEF Below, R
<1>3. PICK B \in Below : \A C \in Below : <<C, B>> \notin R
  BY <1>1, <1>2, WFMin
<1>4. PICK n \in T : B = 0 .. n
  BY <1>3 DEF Below
<1>5. ASSUME NEW m \in T, m < n PROVE FALSE
  <2>1. 0 .. m \in Below
    BY DEF Below
  <2>2. n \in 0 .. n /\ n \notin 0 .. m
    BY <1>5
  <2>3. 0 .. m \subseteq 0 .. n /\ 0 .. m # 0 .. n
    BY <1>5, <2>2
  <2>4. <<0 .. m, 0 .. n>> \in R
    BY <2>3 DEF R, StrictSubsetOrdering
  <2> QED BY <1>3, <1>4, <2>1, <2>4
<1>6. \A m \in T : n <= m
  BY <1>5
<1> QED BY <1>6

LEMMA Induction ==
  ASSUME NEW P, 0 \in P, \A n \in Nat : n \in P => n + 1 \in P
  PROVE  \A n \in Nat : n \in P
<1> SUFFICES ASSUME NEW k \in Nat, k \notin P PROVE FALSE
  OBVIOUS
<1> DEFINE T == Nat \ P
<1>1. k \in T /\ T \subseteq Nat
  OBVIOUS
<1> HIDE DEF T
<1>2. PICK n \in T : \A m \in T : n <= m
  BY <1>1, LeastNat
<1>3. n \in Nat /\ n \notin P /\ n # 0
  BY <1>2 DEF T
<1>4. n - 1 \in Nat /\ n - 1 \notin T
  BY <1>1, <1>2, <1>3
<1>5. n - 1 \in P /\ (n - 1) + 1 = n
  BY <1>3, <1>4 DEF T
<1> QED BY <1>3, <1>4, <1>5

-----------------------------------------------------------------------------
(* Why the bars are the calendar's.  First, the slot of a time: Int64.div  *)
(* put right is the floor, and the builder's comparisons with the open     *)
(* bar's two ends compare slots.                                           *)

LEMMA FloorIs ==
  ASSUME NEW a \in Int, NEW b \in Nat \ {0}
  PROVE  a \div b \in Int /\ (a \div b) * b <= a /\ a < (a \div b) * b + b
OBVIOUS

LEMMA FloorUnique ==
  ASSUME NEW a \in Int, NEW b \in Nat \ {0}, NEW q \in Int, q * b <= a, a < q * b + b
  PROVE  a \div b = q
<1>1. a \div b \in Int /\ (a \div b) * b <= a /\ a < (a \div b) * b + b
  BY FloorIs
<1> DEFINE r == a \div b
<1> HIDE DEF r
<1>2. r \in Int /\ r * b <= a /\ a < r * b + b
  BY <1>1 DEF r
<1>3. r = q
  BY <1>2
<1> QED BY <1>3 DEF r

LEMMA MultiplesApart ==
  ASSUME NEW b \in Nat \ {0}, NEW q \in Int, NEW r \in Int, q * b < r * b
  PROVE  q * b + b <= r * b
<1>1. q + 1 <= r
  OBVIOUS
<1>2. (q + 1) * b <= r * b
  BY <1>1
<1> QED BY <1>2

LEMMA ItemTyped == \A t \in Items : t.ts \in Int /\ t.price \in Int
BY ProcessorAssumption

LEMMA SlotIs ==
  ASSUME NEW t \in Items, NEW iv \in Nat \ {0}
  PROVE  Slot(t, iv) \in Int /\ Slot(t, iv) <= t.ts /\ t.ts < Slot(t, iv) + iv
<1>1. t.ts \in Int
  BY ItemTyped
<1>2. t.ts \div iv \in Int /\ (t.ts \div iv) * iv <= t.ts /\ t.ts < (t.ts \div iv) * iv + iv
  BY <1>1, FloorIs
<1> DEFINE q == t.ts \div iv
<1> HIDE DEF q
<1>3. q \in Int /\ q * iv <= t.ts /\ t.ts < q * iv + iv
  BY <1>2 DEF q
<1>4. Slot(t, iv) = q * iv /\ q * iv \in Int
  BY <1>3 DEF Slot, q
<1> QED BY <1>3, <1>4

(* bar_open_for is the floor, before 1970 too. *)
LEMMA OpensAtSlot ==
  ASSUME NEW t \in Items, NEW iv \in Nat \ {0}
  PROVE  BarOpenFor(t.ts, iv) = Slot(t, iv)
<1> DEFINE a == t.ts
           m == (-a) \div iv
<1>1. a \in Int
  BY ItemTyped
<1> HIDE DEF a
<1>2. CASE a >= 0
  BY <1>2 DEF BarOpenFor, Slot, a
<1>3. CASE a < 0
  <2>1. m \in Int /\ m * iv <= -a /\ -a < m * iv + iv
    BY <1>1, FloorIs
  <2> HIDE DEF m
  <2>2. (-m) \in Int /\ (-m) * iv = -(m * iv) /\ (-m - 1) * iv = -(m * iv) - iv /\ m * iv \in Int
    BY <2>1
  <2>3. CASE a = (-m) * iv
    <3>1. a \div iv = -m
      BY <1>1, <2>1, <2>2, <2>3, FloorUnique
    <3> QED BY <1>3, <2>3, <3>1 DEF BarOpenFor, Slot, a, m
  <2>4. CASE a # (-m) * iv
    <3>1. a \div iv = -m - 1
      <4>1. -m - 1 \in Int /\ (-m - 1) * iv <= a /\ a < (-m - 1) * iv + iv
        BY <1>1, <2>1, <2>2, <2>4
      <4> QED BY <1>1, <4>1, FloorUnique
    <3> QED BY <1>3, <2>4, <3>1 DEF BarOpenFor, Slot, a, m
  <2> QED BY <2>3, <2>4
<1> QED BY <1>1, <1>2, <1>3

(* A tick against the ends of the open bar: its slot against the bar's. *)
LEMMA EndsAreSlots ==
  ASSUME NEW t \in Items, NEW u \in Items, NEW iv \in Nat \ {0}
  PROVE  /\ t.ts >= Slot(u, iv) + iv <=> Slot(t, iv) > Slot(u, iv)
         /\ t.ts < Slot(u, iv) <=> Slot(t, iv) < Slot(u, iv)
<1>1. /\ Slot(t, iv) \in Int /\ Slot(t, iv) <= t.ts /\ t.ts < Slot(t, iv) + iv
      /\ Slot(u, iv) \in Int /\ t.ts \in Int
  BY SlotIs, ItemTyped
<1>2. Slot(t, iv) > Slot(u, iv) => Slot(t, iv) >= Slot(u, iv) + iv
  BY MultiplesApart, FloorIs, ItemTyped DEF Slot
<1>3. Slot(t, iv) < Slot(u, iv) => Slot(t, iv) + iv <= Slot(u, iv)
  BY MultiplesApart, FloorIs, ItemTyped DEF Slot
<1> QED BY <1>1, <1>2, <1>3

LEMMA LeastIs ==
  ASSUME NEW S, S \subseteq Int, NEW x \in S, \A y \in S : x <= y
  PROVE  Min(S) = x
<1>1. \A y \in S : (\A z \in S : y <= z) => y = x
  OBVIOUS
<1> QED BY <1>1 DEF Min

LEMMA GreatestIs ==
  ASSUME NEW S, S \subseteq Int, NEW x \in S, \A y \in S : y <= x
  PROVE  Max(S) = x
<1>1. \A y \in S : (\A z \in S : y >= z) => y = x
  OBVIOUS
<1> QED BY <1>1 DEF Max

-----------------------------------------------------------------------------
(* One bar and the ticks it is made of. *)

Bars == [open_ts : Int, open : Int, high : Int, low : Int, close : Int, n : Nat]

(* b is the bar of its slot: the first of the slot's ticks on time opens   *)
(* it, the last one closes it, and some are its highest and lowest.        *)
IsBar(b, ts, iv) ==
  LET ins == Of(ts, iv, b.open_ts)
  IN  /\ b \in Bars
      /\ IsFiniteSet(ins) /\ b.n = Cardinality(ins)
      /\ \E i \in ins : ts[i].price = b.open /\ \A j \in ins : i <= j
      /\ \E i \in ins : ts[i].price = b.close /\ \A j \in ins : j <= i
      /\ \E i \in ins : ts[i].price = b.high /\ \A j \in ins : ts[j].price <= b.high
      /\ \E i \in ins : ts[i].price = b.low /\ \A j \in ins : b.low <= ts[j].price

LEMMA TicksTyped ==
  ASSUME NEW ts \in Seq(Items), NEW iv \in Nat \ {0}
  PROVE  /\ Len(ts) \in Nat
         /\ \A i \in 1 .. Len(ts) : ts[i] \in Items /\ ts[i].price \in Int /\ Slot(ts[i], iv) \in Int
         /\ OnTime(ts, iv) \subseteq 1 .. Len(ts)
         /\ \A s : Of(ts, iv, s) \subseteq 1 .. Len(ts)
<1>1. Len(ts) \in Nat /\ \A i \in 1 .. Len(ts) : ts[i] \in Items
  OBVIOUS
<1> QED BY <1>1, ItemTyped, SlotIs DEF OnTime, Of

LEMMA IsBarOf ==
  ASSUME NEW ts \in Seq(Items), NEW iv \in Nat \ {0}, NEW b, IsBar(b, ts, iv)
  PROVE  b = BarOf(ts, iv, b.open_ts)
<1> DEFINE ins == Of(ts, iv, b.open_ts)
           prices == {ts[i].price : i \in ins}
<1>1. /\ b \in Bars /\ b.n = Cardinality(ins)
      /\ \E i \in ins : ts[i].price = b.open /\ \A j \in ins : i <= j
      /\ \E i \in ins : ts[i].price = b.close /\ \A j \in ins : j <= i
      /\ \E i \in ins : ts[i].price = b.high /\ \A j \in ins : ts[j].price <= b.high
      /\ \E i \in ins : ts[i].price = b.low /\ \A j \in ins : b.low <= ts[j].price
  BY DEF IsBar
<1>2. ins \subseteq Int /\ \A i \in ins : ts[i].price \in Int
  BY TicksTyped
<1>a. BarOf(ts, iv, b.open_ts) =
        [open_ts |-> b.open_ts, open |-> ts[Min(ins)].price, close |-> ts[Max(ins)].price,
         high |-> Max(prices), low |-> Min(prices), n |-> Cardinality(ins)]
  BY DEF BarOf
<1> HIDE DEF ins
<1>3. prices \subseteq Int
  BY <1>2
<1>4. ts[Min(ins)].price = b.open
  <2>1. PICK i \in ins : ts[i].price = b.open /\ \A j \in ins : i <= j
    BY <1>1
  <2>2. Min(ins) = i
    BY <1>2, <2>1, LeastIs
  <2> QED BY <2>1, <2>2
<1>5. ts[Max(ins)].price = b.close
  <2>1. PICK i \in ins : ts[i].price = b.close /\ \A j \in ins : j <= i
    BY <1>1
  <2>2. Max(ins) = i
    BY <1>2, <2>1, GreatestIs
  <2> QED BY <2>1, <2>2
<1>6. b.high \in prices /\ (\A p \in prices : p <= b.high)
  BY <1>1
<1>7. b.low \in prices /\ (\A p \in prices : b.low <= p)
  BY <1>1
<1> HIDE DEF prices
<1>8. Max(prices) = b.high
  BY <1>3, <1>6, GreatestIs
<1>9. Min(prices) = b.low
  BY <1>3, <1>7, LeastIs
<1> QED BY <1>1, <1>a, <1>4, <1>5, <1>8, <1>9 DEF Bars

(* One tick more. *)
LEMMA OneMore ==
  ASSUME NEW ts \in Seq(Items), NEW t \in Items
  PROVE  /\ Append(ts, t) \in Seq(Items) /\ Len(Append(ts, t)) = Len(ts) + 1
         /\ \A i \in 1 .. Len(ts) : Append(ts, t)[i] = ts[i]
         /\ Append(ts, t)[Len(ts) + 1] = t
OBVIOUS

LEMMA LateTick ==
  ASSUME NEW ts \in Seq(Items), NEW t \in Items, NEW iv \in Nat \ {0},
         \E j \in 1 .. Len(ts) : Slot(t, iv) < Slot(ts[j], iv)
  PROVE  /\ OnTime(Append(ts, t), iv) = OnTime(ts, iv)
         /\ \A s : Of(Append(ts, t), iv, s) = Of(ts, iv, s)
<1> DEFINE tt == Append(ts, t)
           n == Len(ts)
<1>1. /\ Len(tt) = n + 1 /\ n \in Nat /\ tt[n + 1] = t
      /\ \A i \in 1 .. n : tt[i] = ts[i] /\ Slot(ts[i], iv) \in Int
  BY OneMore, TicksTyped
<1>2. Slot(t, iv) \in Int
  BY SlotIs
<1>3. PICK j \in 1 .. n : Slot(t, iv) < Slot(ts[j], iv)
  OBVIOUS
<1> HIDE DEF tt, n
<1>4. ~ \A k \in 1 .. (n + 1) - 1 : Slot(tt[k], iv) <= Slot(tt[n + 1], iv)
  <2>1. j \in 1 .. (n + 1) - 1 /\ Slot(tt[j], iv) = Slot(ts[j], iv)
    BY <1>1, <1>3
  <2> QED BY <1>1, <1>2, <1>3, <2>1
<1>5. \A i \in 1 .. n : (\A k \in 1 .. i - 1 : Slot(tt[k], iv) <= Slot(tt[i], iv))
                        <=> (\A k \in 1 .. i - 1 : Slot(ts[k], iv) <= Slot(ts[i], iv))
  BY <1>1
<1>a. 1 .. n + 1 = (1 .. n) \union {n + 1}
  BY <1>1, SMTT(30)
<1>6. OnTime(tt, iv) = OnTime(ts, iv)
  BY <1>1, <1>4, <1>5, <1>a DEF OnTime, n
<1>7. \A i \in OnTime(ts, iv) : tt[i] = ts[i]
  BY <1>1 DEF OnTime, n
<1> QED BY <1>6, <1>7 DEF Of, tt

LEMMA TimelyTick ==
  ASSUME NEW ts \in Seq(Items), NEW t \in Items, NEW iv \in Nat \ {0},
         \A j \in 1 .. Len(ts) : Slot(ts[j], iv) <= Slot(t, iv)
  PROVE  /\ OnTime(Append(ts, t), iv) = OnTime(ts, iv) \union {Len(ts) + 1}
         /\ Of(Append(ts, t), iv, Slot(t, iv)) = Of(ts, iv, Slot(t, iv)) \union {Len(ts) + 1}
         /\ \A s : s # Slot(t, iv) => Of(Append(ts, t), iv, s) = Of(ts, iv, s)
<1> DEFINE tt == Append(ts, t)
           n == Len(ts)
<1>1. /\ Len(tt) = n + 1 /\ n \in Nat /\ tt[n + 1] = t
      /\ \A i \in 1 .. n : tt[i] = ts[i] /\ Slot(ts[i], iv) \in Int
  BY OneMore, TicksTyped
<1>2. \A j \in 1 .. n : Slot(ts[j], iv) <= Slot(t, iv)
  OBVIOUS
<1> HIDE DEF tt, n
<1>4. \A k \in 1 .. (n + 1) - 1 : Slot(tt[k], iv) <= Slot(tt[n + 1], iv)
  BY <1>1, <1>2
<1>5. \A i \in 1 .. n : (\A k \in 1 .. i - 1 : Slot(tt[k], iv) <= Slot(tt[i], iv))
                        <=> (\A k \in 1 .. i - 1 : Slot(ts[k], iv) <= Slot(ts[i], iv))
  BY <1>1
<1>6. 1 .. n + 1 = (1 .. n) \union {n + 1}
  BY <1>1
<1>7. OnTime(tt, iv) = OnTime(ts, iv) \union {n + 1}
  BY <1>1, <1>4, <1>5, <1>6 DEF OnTime, n
<1>8. \A i \in OnTime(ts, iv) : tt[i] = ts[i]
  BY <1>1 DEF OnTime, n
<1>9. Of(tt, iv, Slot(t, iv)) = Of(ts, iv, Slot(t, iv)) \union {n + 1}
  BY <1>1, <1>7, <1>8 DEF Of
<1>10. \A s : s # Slot(t, iv) => Of(tt, iv, s) = Of(ts, iv, s)
  BY <1>1, <1>7, <1>8 DEF Of
<1> QED BY <1>7, <1>9, <1>10 DEF tt, n

(* What a tick does to a bar of another slot, to one it opens, and to its  *)
(* own (open_bar, and on_tick's update).                                   *)
LEMMA BarKept ==
  ASSUME NEW ts \in Seq(Items), NEW t \in Items, NEW iv \in Nat \ {0}, NEW b,
         IsBar(b, ts, iv), Of(Append(ts, t), iv, b.open_ts) = Of(ts, iv, b.open_ts)
  PROVE  IsBar(b, Append(ts, t), iv)
<1>1. \A i \in Of(ts, iv, b.open_ts) : Append(ts, t)[i] = ts[i]
  BY OneMore, TicksTyped
<1> QED BY <1>1 DEF IsBar

LEMMA BarOpened ==
  ASSUME NEW ts \in Seq(Items), NEW t \in Items, NEW iv \in Nat \ {0},
         Of(Append(ts, t), iv, Slot(t, iv)) = {Len(ts) + 1}
  PROVE  IsBar(Bar(Slot(t, iv), t.price), Append(ts, t), iv)
<1>1. Slot(t, iv) \in Int /\ t.price \in Int /\ Append(ts, t)[Len(ts) + 1] = t /\ Len(ts) \in Nat
  BY SlotIs, ItemTyped
<1>2. IsFiniteSet({Len(ts) + 1}) /\ Cardinality({Len(ts) + 1}) = 1
  BY FS_Singleton
<1> DEFINE b == Bar(Slot(t, iv), t.price)
<1>3. /\ b \in Bars /\ b.n = 1 /\ b.open_ts = Slot(t, iv)
      /\ b.open = t.price /\ b.close = t.price /\ b.high = t.price /\ b.low = t.price
  BY <1>1 DEF Bar, Bars
<1> DEFINE tt == Append(ts, t)
           n == Len(ts) + 1
<1>a. Of(tt, iv, b.open_ts) = {n} /\ tt[n].price = t.price /\ n \in Int
  BY <1>1, <1>3
<1>b. IsFiniteSet({n}) /\ Cardinality({n}) = 1
  BY <1>2
<1> HIDE DEF b, tt, n
<1>4. IsBar(b, tt, iv)
  BY <1>1, <1>a, <1>b, <1>3 DEF IsBar
<1> QED BY <1>4 DEF b, tt

LEMMA BarWidened ==
  ASSUME NEW ts \in Seq(Items), NEW t \in Items, NEW iv \in Nat \ {0}, NEW b,
         IsBar(b, ts, iv),
         Of(Append(ts, t), iv, b.open_ts) = Of(ts, iv, b.open_ts) \union {Len(ts) + 1}
  PROVE  Widened(b, t.price).open_ts = b.open_ts /\ IsBar(Widened(b, t.price), Append(ts, t), iv)
<1> DEFINE tt == Append(ts, t)
           ins == Of(ts, iv, b.open_ts)
           n == Len(ts) + 1
           w == Widened(b, t.price)
           p == t.price
<1>1. /\ \A i \in ins : tt[i] = ts[i] /\ i < n /\ ts[i].price \in Int
      /\ tt[n] = t /\ ins \subseteq Int /\ n \in Int /\ p \in Int
  BY OneMore, TicksTyped, ItemTyped
<1>2. Of(tt, iv, b.open_ts) = ins \union {n}
  OBVIOUS
<1>3. /\ b \in Bars /\ IsFiniteSet(ins) /\ b.n = Cardinality(ins)
      /\ \E i \in ins : ts[i].price = b.open /\ \A j \in ins : i <= j
      /\ \E i \in ins : ts[i].price = b.high /\ \A j \in ins : ts[j].price <= b.high
      /\ \E i \in ins : ts[i].price = b.low /\ \A j \in ins : b.low <= ts[j].price
  BY DEF IsBar
<1>4. /\ w.open_ts = b.open_ts /\ w.open = b.open /\ w.close = p /\ w.n = b.n + 1
      /\ w.high = IF p > b.high THEN p ELSE b.high
      /\ w.low = IF p < b.low THEN p ELSE b.low
      /\ w \in Bars
  <2>1. b = [open_ts |-> b.open_ts, open |-> b.open, high |-> b.high, low |-> b.low,
             close |-> b.close, n |-> b.n]
    BY <1>3 DEF Bars
  <2>2. w = [open_ts |-> b.open_ts, open |-> b.open, high |-> IF p > b.high THEN p ELSE b.high,
             low |-> IF p < b.low THEN p ELSE b.low, close |-> p, n |-> b.n + 1]
    <3> HIDE DEF p
    <3>1. w = [b EXCEPT !.high = IF p > @ THEN p ELSE @, !.low = IF p < @ THEN p ELSE @,
                        !.close = p, !.n = @ + 1]
      BY DEF Widened, p
    <3> HIDE DEF w
    <3> QED BY <2>1, <3>1
  <2>3. /\ b.open_ts \in Int /\ b.open \in Int /\ b.high \in Int /\ b.low \in Int
        /\ b.close \in Int /\ b.n \in Nat
    BY <1>3 DEF Bars
  <2> HIDE DEF w, p
  <2>4. p \in Int
    BY <1>1
  <2>5. w \in Bars
    BY <2>2, <2>3, <2>4 DEF Bars
  <2> QED BY <2>2, <2>5
<1> HIDE DEF tt, ins, n, w, p
<1>5. n \notin ins
  BY <1>1
<1>6. IsFiniteSet(ins \union {n}) /\ Cardinality(ins \union {n}) = b.n + 1
  BY <1>3, <1>5, FS_AddElement
<1>7. \E i \in ins \union {n} : tt[i].price = w.open /\ \A j \in ins \union {n} : i <= j
  <2>1. PICK i \in ins : ts[i].price = b.open /\ \A j \in ins : i <= j
    BY <1>3
  <2> QED BY <1>1, <1>4, <2>1
<1>8. \E i \in ins \union {n} : tt[i].price = w.close /\ \A j \in ins \union {n} : j <= i
  BY <1>1, <1>4 DEF p
<1>9. \E i \in ins \union {n} : tt[i].price = w.high /\ \A j \in ins \union {n} : tt[j].price <= w.high
  <2>1. PICK i \in ins : ts[i].price = b.high /\ \A j \in ins : ts[j].price <= b.high
    BY <1>3
  <2>2. b.high \in Int /\ tt[n].price = p
    BY <1>1, <1>3 DEF Bars, p
  <2> QED BY <1>1, <1>4, <2>1, <2>2
<1>10. \E i \in ins \union {n} : tt[i].price = w.low /\ \A j \in ins \union {n} : w.low <= tt[j].price
  <2>1. PICK i \in ins : ts[i].price = b.low /\ \A j \in ins : b.low <= ts[j].price
    BY <1>3
  <2>2. b.low \in Int /\ tt[n].price = p
    BY <1>1, <1>3 DEF Bars, p
  <2> QED BY <1>1, <1>4, <2>1, <2>2
<1>11. IsBar(w, tt, iv)
  BY <1>2, <1>4, <1>6, <1>7, <1>8, <1>9, <1>10 DEF IsBar
<1> QED BY <1>4, <1>11 DEF w, tt

-----------------------------------------------------------------------------
(* The bars bs of a cell, the open one last, after the ticks ts. *)

InTime(bs) == \A i, j \in 1 .. Len(bs) : i < j => bs[i].open_ts < bs[j].open_ts

HasSlot(bs, s) == \/ \E k \in 1 .. Len(bs) : bs[k].open_ts = s
                  \/ Len(bs) = RingSize + 1 /\ s < bs[1].open_ts

BarsOK(bs, ts, iv) ==
  /\ bs \in Seq(Bars) /\ Len(bs) \in 1 .. RingSize + 1
  /\ \A i \in 1 .. Len(bs) : IsBar(bs[i], ts, iv)
  /\ InTime(bs)
  /\ \A j \in 1 .. Len(ts) : Slot(ts[j], iv) <= bs[Len(bs)].open_ts
  /\ \A i \in OnTime(ts, iv) : HasSlot(bs, Slot(ts[i], iv))

(* The open bar is of a slot that had a tick. *)
LEMMA OpenBarTicked ==
  ASSUME NEW ts \in Seq(Items), NEW iv \in Nat \ {0}, NEW bs, BarsOK(bs, ts, iv)
  PROVE  \E j \in 1 .. Len(ts) : Slot(ts[j], iv) = bs[Len(bs)].open_ts
<1> DEFINE b == bs[Len(bs)]
<1>1. IsBar(b, ts, iv)
  BY DEF BarsOK
<1>2. \E i \in Of(ts, iv, b.open_ts) : TRUE
  BY <1>1 DEF IsBar
<1> QED BY <1>2 DEF Of, OnTime

LEMMA RingSizeIs == RingSize \in Nat \ {0}
BY ProcessorAssumption

LEMMA BarsAfterLate ==
  ASSUME NEW ts \in Seq(Items), NEW t \in Items, NEW iv \in Nat \ {0}, NEW bs, BarsOK(bs, ts, iv),
         Slot(t, iv) < bs[Len(bs)].open_ts
  PROVE  BarsOK(bs, Append(ts, t), iv) /\ OnTime(Append(ts, t), iv) = OnTime(ts, iv)
<1> DEFINE tt == Append(ts, t)
<1>1. PICK j \in 1 .. Len(ts) : Slot(ts[j], iv) = bs[Len(bs)].open_ts
  BY OpenBarTicked
<1>2. OnTime(tt, iv) = OnTime(ts, iv) /\ \A s : Of(tt, iv, s) = Of(ts, iv, s)
  BY <1>1, LateTick
<1>3. \A i \in 1 .. Len(bs) : IsBar(bs[i], tt, iv)
  BY <1>2, BarKept DEF BarsOK
<1>4. /\ tt \in Seq(Items) /\ Len(tt) = Len(ts) + 1 /\ Len(ts) \in Nat
      /\ \A i \in 1 .. Len(ts) : tt[i] = ts[i]
      /\ tt[Len(ts) + 1] = t
  BY OneMore
<1>5. Slot(t, iv) \in Int /\ bs[Len(bs)].open_ts \in Int
  BY <1>1, SlotIs, TicksTyped
<1> HIDE DEF tt
<1>6. \A i \in 1 .. Len(tt) : Slot(tt[i], iv) <= bs[Len(bs)].open_ts
  <2> SUFFICES ASSUME NEW i \in 1 .. Len(tt) PROVE Slot(tt[i], iv) <= bs[Len(bs)].open_ts
    OBVIOUS
  <2>1. CASE i = Len(ts) + 1
    BY <1>4, <1>5, <2>1
  <2>2. CASE i \in 1 .. Len(ts)
    BY <1>4, <2>2 DEF BarsOK
  <2> QED BY <1>4, <2>1, <2>2
<1>7. \A i \in OnTime(tt, iv) : HasSlot(bs, Slot(tt[i], iv))
  BY <1>2, <1>4, TicksTyped DEF BarsOK
<1>8. BarsOK(bs, tt, iv)
  BY <1>3, <1>6, <1>7 DEF BarsOK
<1> QED BY <1>2, <1>8 DEF tt

LEMMA BarsAfterSame ==
  ASSUME NEW ts \in Seq(Items), NEW t \in Items, NEW iv \in Nat \ {0}, NEW bs, BarsOK(bs, ts, iv),
         Slot(t, iv) = bs[Len(bs)].open_ts,
         NEW cs \in Seq(Bars), Len(cs) = Len(bs), cs[Len(bs)] = Widened(bs[Len(bs)], t.price),
         \A i \in 1 .. Len(bs) - 1 : cs[i] = bs[i]
  PROVE  /\ BarsOK(cs, Append(ts, t), iv)
         /\ OnTime(Append(ts, t), iv) = OnTime(ts, iv) \union {Len(ts) + 1}
<1> DEFINE tt == Append(ts, t)
           n == Len(bs)
<1>1. /\ \A i \in 1 .. n : IsBar(bs[i], ts, iv)
      /\ InTime(bs) /\ n \in 1 .. RingSize + 1
      /\ \A j \in 1 .. Len(ts) : Slot(ts[j], iv) <= bs[n].open_ts
      /\ \A i \in OnTime(ts, iv) : HasSlot(bs, Slot(ts[i], iv))
  BY DEF BarsOK
<1>2. /\ OnTime(tt, iv) = OnTime(ts, iv) \union {Len(ts) + 1}
      /\ Of(tt, iv, Slot(t, iv)) = Of(ts, iv, Slot(t, iv)) \union {Len(ts) + 1}
      /\ \A s : s # Slot(t, iv) => Of(tt, iv, s) = Of(ts, iv, s)
  BY <1>1, TimelyTick
<1>3. /\ tt \in Seq(Items) /\ Len(tt) = Len(ts) + 1 /\ Len(ts) \in Nat
      /\ \A i \in 1 .. Len(ts) : tt[i] = ts[i]
      /\ tt[Len(ts) + 1] = t
  BY OneMore
<1>4. cs[n].open_ts = bs[n].open_ts /\ IsBar(cs[n], tt, iv)
  <2>1. IsBar(bs[n], ts, iv)
    BY <1>1, RingSizeIs
  <2> QED BY <1>2, <2>1, BarWidened, SMTT(30)
<1>5. n \in Nat \ {0} /\ RingSize \in Nat \ {0}
  BY <1>1, RingSizeIs
<1> HIDE DEF tt, n
<1>6. \A i \in 1 .. n : bs[i].open_ts \in Int
  BY <1>1 DEF IsBar, Bars
<1>7. \A i \in 1 .. n : IsBar(cs[i], tt, iv)
  <2> SUFFICES ASSUME NEW i \in 1 .. n PROVE IsBar(cs[i], tt, iv)
    OBVIOUS
  <2>1. CASE i = n
    BY <1>4, <2>1
  <2>2. CASE i # n
    <3>1. i \in 1 .. n - 1 /\ i < n /\ n \in 1 .. n
      BY <1>5, <2>2
    <3>2. bs[i].open_ts # Slot(t, iv)
      BY <1>1, <1>6, <3>1 DEF InTime, n
    <3>3. IsBar(bs[i], tt, iv)
      BY <1>1, <1>2, <3>2, BarKept DEF tt
    <3> QED BY <3>1, <3>3 DEF n
  <2> QED BY <2>1, <2>2
<1>8. \A i \in 1 .. n : cs[i].open_ts = bs[i].open_ts
  <2> SUFFICES ASSUME NEW i \in 1 .. n, i # n PROVE cs[i].open_ts = bs[i].open_ts
    BY <1>4
  <2>1. i \in 1 .. n - 1
    BY <1>5
  <2> QED BY <2>1 DEF n
<1>9. InTime(cs)
  BY <1>1, <1>8 DEF InTime, n
<1>10. \A i \in 1 .. Len(tt) : Slot(tt[i], iv) <= cs[n].open_ts
  <2>1. cs[n].open_ts = bs[n].open_ts /\ Slot(t, iv) = cs[n].open_ts /\ cs[n].open_ts \in Int
    BY <1>4, <1>5, <1>6 DEF n
  <2> QED BY <1>1, <1>3, <2>1
<1>11. \A i \in OnTime(tt, iv) : HasSlot(cs, Slot(tt[i], iv))
  <2> SUFFICES ASSUME NEW i \in OnTime(tt, iv) PROVE HasSlot(cs, Slot(tt[i], iv))
    OBVIOUS
  <2>1. CASE i = Len(ts) + 1
    <3>1. Slot(tt[i], iv) = cs[n].open_ts /\ n \in 1 .. Len(cs)
      BY <1>3, <1>4, <1>5, <2>1 DEF n
    <3> QED BY <3>1 DEF HasSlot
  <2>2. CASE i \in OnTime(ts, iv)
    <3>1. HasSlot(bs, Slot(ts[i], iv)) /\ tt[i] = ts[i]
      BY <1>1, <1>3, <2>2, TicksTyped
    <3>2. 1 \in 1 .. n
      BY <1>5
    <3> QED BY <1>8, <3>1, <3>2 DEF HasSlot, n
  <2> QED BY <1>2, <2>1, <2>2
<1>12. BarsOK(cs, tt, iv)
  BY <1>1, <1>7, <1>9, <1>10, <1>11 DEF BarsOK, n
<1> QED BY <1>2, <1>12 DEF tt

LEMMA ShiftIndex ==
  ASSUME NEW n \in Nat, NEW k \in {0, 1}, NEW h \in 1 .. n
  PROVE  h - k \in 1 .. n - k \/ (k = 1 /\ h = 1)
OBVIOUS

(* A later slot's tick opens a bar; the oldest goes when the ring is full. *)
NextBars(bs, cs, b) ==
  /\ cs \in Seq(Bars) /\ cs[Len(cs)] = b
  /\ \E k \in {0, 1} : /\ k = 1 <=> Len(bs) = RingSize + 1
                      /\ Len(cs) = Len(bs) + 1 - k
                      /\ \A i \in 1 .. Len(bs) - k : cs[i] = bs[i + k]

LEMMA BarsAfterNext ==
  ASSUME NEW ts \in Seq(Items), NEW t \in Items, NEW iv \in Nat \ {0}, NEW bs, BarsOK(bs, ts, iv),
         Slot(t, iv) > bs[Len(bs)].open_ts,
         NEW cs, NextBars(bs, cs, Bar(Slot(t, iv), t.price))
  PROVE  /\ BarsOK(cs, Append(ts, t), iv)
         /\ OnTime(Append(ts, t), iv) = OnTime(ts, iv) \union {Len(ts) + 1}
<1> DEFINE tt == Append(ts, t)
           n == Len(bs)
           m == Len(cs)
           s == Slot(t, iv)
<1>a. cs \in Seq(Bars) /\ cs[m] = Bar(s, t.price)
  BY DEF NextBars
<1>b. PICK k \in {0, 1} : /\ k = 1 <=> n = RingSize + 1
                         /\ m = n + 1 - k
                         /\ \A i \in 1 .. n - k : cs[i] = bs[i + k]
  BY DEF NextBars
<1>1. /\ \A i \in 1 .. n : IsBar(bs[i], ts, iv)
      /\ InTime(bs) /\ n \in 1 .. RingSize + 1
      /\ \A j \in 1 .. Len(ts) : Slot(ts[j], iv) <= bs[n].open_ts
      /\ \A i \in OnTime(ts, iv) : HasSlot(bs, Slot(ts[i], iv))
  BY DEF BarsOK
<1>2. n \in Nat \ {0} /\ RingSize \in Nat \ {0} /\ m = n + 1 - k /\ m \in 1 .. RingSize + 1
  BY <1>1, <1>b, RingSizeIs
<1>3. \A i \in 1 .. n : bs[i].open_ts \in Int
  BY <1>1 DEF IsBar, Bars
<1>4. s \in Int /\ s > bs[n].open_ts /\ bs[n].open_ts \in Int
  <2>1. n \in 1 .. n
    BY <1>2
  <2>2. bs[n].open_ts \in Int
    BY <1>3, <2>1
  <2> QED BY <2>2, SlotIs
<1>5. \A j \in 1 .. Len(ts) : Slot(ts[j], iv) < s
  BY <1>1, <1>4, TicksTyped
<1>6. /\ OnTime(tt, iv) = OnTime(ts, iv) \union {Len(ts) + 1}
      /\ Of(tt, iv, s) = Of(ts, iv, s) \union {Len(ts) + 1}
      /\ \A r : r # s => Of(tt, iv, r) = Of(ts, iv, r)
  <2>1. \A j \in 1 .. Len(ts) : Slot(ts[j], iv) <= s
    BY <1>4, <1>5, TicksTyped
  <2> QED BY <2>1, TimelyTick
<1>7. /\ tt \in Seq(Items) /\ Len(tt) = Len(ts) + 1 /\ Len(ts) \in Nat
      /\ \A i \in 1 .. Len(ts) : tt[i] = ts[i]
      /\ tt[Len(ts) + 1] = t
  BY OneMore
<1>8. IsBar(cs[m], tt, iv) /\ cs[m].open_ts = s
  <2>1. Of(ts, iv, s) = {}
    BY <1>4, <1>5, TicksTyped DEF Of
  <2>2. Of(tt, iv, s) = {Len(ts) + 1}
    BY <1>6, <2>1
  <2>3. IsBar(Bar(s, t.price), tt, iv)
    BY <2>2, BarOpened
  <2> QED BY <1>a, <2>3 DEF Bar
<1> HIDE DEF tt, n, m, s
<1>9. \A i \in 1 .. n : bs[i].open_ts < s
  <2> SUFFICES ASSUME NEW i \in 1 .. n PROVE bs[i].open_ts < s
    OBVIOUS
  <2>1. bs[i].open_ts <= bs[n].open_ts
    BY <1>1, <1>2, <1>3 DEF InTime, n
  <2>2. bs[i].open_ts \in Int
    BY <1>3
  <2> DEFINE a == bs[i].open_ts
             b == bs[n].open_ts
  <2>3. a \in Int /\ b \in Int /\ s \in Int /\ a <= b /\ s > b
    BY <1>4, <2>1, <2>2
  <2> HIDE DEF a, b
  <2>4. a < s
    BY <2>3
  <2> QED BY <2>4 DEF a
<1>10. \A i \in 1 .. n - k : i \in 1 .. m - 1 /\ i + k \in 1 .. n /\ cs[i] = bs[i + k]
  BY <1>2, <1>b
<1>11. \A i \in 1 .. m : i # m => i \in 1 .. n - k
  BY <1>2
<1>12. \A i \in 1 .. m : IsBar(cs[i], tt, iv)
  <2> SUFFICES ASSUME NEW i \in 1 .. m, i # m PROVE IsBar(cs[i], tt, iv)
    BY <1>8
  <2>1. cs[i] = bs[i + k] /\ i + k \in 1 .. n
    BY <1>10, <1>11
  <2>2. bs[i + k].open_ts # s
    BY <1>3, <1>4, <1>9, <2>1
  <2> QED BY <1>1, <1>6, <2>1, <2>2, BarKept DEF tt
<1>13. \A i, j \in 1 .. m : i < j => cs[i].open_ts < cs[j].open_ts
  <2> SUFFICES ASSUME NEW i \in 1 .. m, NEW j \in 1 .. m, i < j PROVE cs[i].open_ts < cs[j].open_ts
    OBVIOUS
  <2>1. i # m
    BY <1>2
  <2>2. cs[i] = bs[i + k] /\ i + k \in 1 .. n
    BY <1>10, <1>11, <2>1
  <2>3. CASE j = m
    BY <1>8, <1>9, <2>2, <2>3
  <2>4. CASE j # m
    <3>1. cs[j] = bs[j + k] /\ j + k \in 1 .. n /\ i + k < j + k
      BY <1>10, <1>11, <2>4
    <3> QED BY <1>1, <2>2, <3>1 DEF InTime, n
  <2> QED BY <2>3, <2>4
<1>14. \A i \in 1 .. Len(tt) : Slot(tt[i], iv) <= cs[m].open_ts
  <2> SUFFICES ASSUME NEW i \in 1 .. Len(tt) PROVE Slot(tt[i], iv) <= s
    BY <1>8
  <2>1. CASE i = Len(ts) + 1
    BY <1>4, <1>7, <2>1 DEF s
  <2>2. CASE i \in 1 .. Len(ts)
    BY <1>4, <1>5, <1>7, <2>2, TicksTyped
  <2> QED BY <1>7, <2>1, <2>2
<1>15. \A i \in OnTime(tt, iv) : HasSlot(cs, Slot(tt[i], iv))
  <2> SUFFICES ASSUME NEW i \in OnTime(tt, iv) PROVE HasSlot(cs, Slot(tt[i], iv))
    OBVIOUS
  <2>1. CASE i = Len(ts) + 1
    <3>1. Slot(tt[i], iv) = cs[m].open_ts /\ m \in 1 .. Len(cs)
      BY <1>2, <1>7, <1>8, <2>1 DEF m, s
    <3> QED BY <3>1 DEF HasSlot
  <2>2. CASE i \in OnTime(ts, iv)
    <3> DEFINE r == Slot(tt[i], iv)
    <3>1. HasSlot(bs, r) /\ r \in Int
      BY <1>1, <1>7, <2>2, TicksTyped
    <3> HIDE DEF r
    <3>2. CASE \E h \in 1 .. n : bs[h].open_ts = r /\ h - k \in 1 .. n - k
      <4>1. PICK h \in 1 .. n : bs[h].open_ts = r /\ h - k \in 1 .. n - k
        BY <3>2
      <4>2. cs[h - k] = bs[(h - k) + k] /\ (h - k) + k = h /\ h - k \in 1 .. m
        BY <1>2, <1>10, <4>1
      <4> QED BY <4>1, <4>2 DEF HasSlot, r, m
    <3>3. CASE k = 1 /\ (r < bs[1].open_ts \/ r = bs[1].open_ts)
      <4>1. Len(cs) = RingSize + 1 /\ n > 1 /\ 1 \in 1 .. n - k /\ 2 \in 1 .. n /\ 1 \in 1 .. n
        BY <1>2, <1>b, <3>3 DEF m
      <4>2. cs[1] = bs[2] /\ bs[1].open_ts < bs[2].open_ts
        BY <1>1, <1>10, <3>3, <4>1 DEF InTime, n
      <4>3. r < cs[1].open_ts
        BY <1>3, <3>1, <3>3, <4>1, <4>2
      <4> QED BY <4>1, <4>3 DEF HasSlot, r
    <3>4. k = 1 \/ k = 0
      OBVIOUS
    <3>5. k = 0 => n # RingSize + 1
      BY <1>b
    <3>6. \A h \in 1 .. n : h - k \in 1 .. n - k \/ (k = 1 /\ h = 1)
      BY <1>2, ShiftIndex
    <3> QED BY <3>1, <3>2, <3>3, <3>4, <3>5, <3>6 DEF HasSlot, r, n
  <2> QED BY <1>6, <2>1, <2>2
<1>16. BarsOK(cs, tt, iv)
  BY <1>a, <1>2, <1>12, <1>13, <1>14, <1>15 DEF BarsOK, InTime, m
<1> QED BY <1>6, <1>16 DEF tt

-----------------------------------------------------------------------------
(* A cell, and the table. *)

Cells == [bar : Bars, ring : Seq(Bars), late : Int, last : Int, ticks : Seq(Items)]

CellOK(c, iv) == /\ c \in Cells
                 /\ BarsOK(Append(c.ring, c.bar), c.ticks, iv)
                 /\ IsFiniteSet(OnTime(c.ticks, iv))
                 /\ c.late = Len(c.ticks) - Cardinality(OnTime(c.ticks, iv))

LEMMA CellCovers ==
  ASSUME NEW iv \in Nat \ {0}, NEW c, CellOK(c, iv)
  PROVE  CoversTicks(c, iv)
<1> DEFINE bs == Append(c.ring, c.bar)
           ts == c.ticks
           starts == {bs[i].open_ts : i \in DOMAIN bs}
           slots == {Slot(ts[i], iv) : i \in OnTime(ts, iv)}
<1>1. /\ ts \in Seq(Items) /\ BarsOK(bs, ts, iv) /\ c.late = Len(ts) - Cardinality(OnTime(ts, iv))
      /\ c.ring \in Seq(Bars) /\ Len(bs) = Len(c.ring) + 1 /\ Len(c.ring) \in Nat
      /\ DOMAIN bs = 1 .. Len(bs)
  BY DEF CellOK, Cells
<1>2. CoversTicks(c, iv) <=>
        /\ starts \subseteq slots
        /\ \A i \in DOMAIN bs : bs[i] = BarOf(ts, iv, bs[i].open_ts)
        /\ \A i, j \in DOMAIN bs : i < j => bs[i].open_ts < bs[j].open_ts
        /\ \A s \in slots \ starts : Len(c.ring) = RingSize /\ s < bs[1].open_ts
        /\ c.late = Len(ts) - Cardinality(OnTime(ts, iv))
  BY DEF CoversTicks
<1> HIDE DEF bs, ts
<1>3. starts \subseteq slots
  <2> SUFFICES ASSUME NEW i \in DOMAIN bs PROVE bs[i].open_ts \in slots
    OBVIOUS
  <2>1. \E j \in Of(ts, iv, bs[i].open_ts) : TRUE
    BY <1>1 DEF BarsOK, IsBar
  <2> QED BY <2>1 DEF Of
<1>4. \A i \in DOMAIN bs : bs[i] = BarOf(ts, iv, bs[i].open_ts)
  BY <1>1, IsBarOf DEF BarsOK
<1>5. \A i, j \in DOMAIN bs : i < j => bs[i].open_ts < bs[j].open_ts
  BY <1>1 DEF BarsOK, InTime
<1>6. \A s \in slots \ starts : Len(c.ring) = RingSize /\ s < bs[1].open_ts
  <2> SUFFICES ASSUME NEW i \in OnTime(ts, iv), Slot(ts[i], iv) \notin starts
               PROVE  Len(c.ring) = RingSize /\ Slot(ts[i], iv) < bs[1].open_ts
    OBVIOUS
  <2>1. HasSlot(bs, Slot(ts[i], iv))
    BY <1>1 DEF BarsOK
  <2>2. Len(bs) = RingSize + 1 /\ Slot(ts[i], iv) < bs[1].open_ts
    BY <1>1, <2>1 DEF HasSlot
  <2> QED BY <1>1, <2>2, RingSizeIs
<1> QED BY <1>1, <1>2, <1>3, <1>4, <1>5, <1>6

LEMMA FirstTickCell ==
  ASSUME NEW t \in Items, NEW iv \in Nat \ {0}
  PROVE  CellOK(BarTick(NewCell(t), t, iv), iv)
<1> DEFINE fresh == Bar(Slot(t, iv), t.price)
           c == BarTick(NewCell(t), t, iv)
           none == <<>>
           tt == Append(none, t)
<1>1. none \in Seq(Items) /\ Len(none) = 0 /\ tt = <<t>> /\ Len(tt) = 1 /\ tt[1] = t /\ tt \in Seq(Items)
  OBVIOUS
<1>2. c = [bar |-> fresh, ring |-> <<>>, late |-> 0, last |-> t.ts, ticks |-> tt]
  BY OpensAtSlot DEF BarTick, NewCell, Bar
<1>3. OnTime(none, iv) = {} /\ \A s : Of(none, iv, s) = {}
  BY DEF OnTime, Of
<1> HIDE DEF none, tt
<1>4. OnTime(tt, iv) = {1} /\ Of(tt, iv, Slot(t, iv)) = {1}
  <2>1. \A j \in 1 .. Len(none) : Slot(none[j], iv) <= Slot(t, iv)
    BY <1>1
  <2>2. Len(none) + 1 = 1
    BY <1>1
  <2>3. /\ OnTime(tt, iv) = OnTime(none, iv) \union {Len(none) + 1}
        /\ Of(tt, iv, Slot(t, iv)) = Of(none, iv, Slot(t, iv)) \union {Len(none) + 1}
    BY <1>1, <2>1, TimelyTick, ZenonT(40) DEF tt
  <2> QED BY <1>3, <2>2, <2>3
<1>5. IsBar(fresh, tt, iv)
  <2>1. Of(tt, iv, Slot(t, iv)) = {Len(none) + 1}
    BY <1>1, <1>4
  <2> QED BY <1>1, <2>1, BarOpened DEF tt
<1>6. fresh \in Bars /\ fresh.open_ts = Slot(t, iv)
  BY <1>5 DEF IsBar, Bar
<1> HIDE DEF fresh
<1> DEFINE bs == <<fresh>>
<1>7. bs \in Seq(Bars) /\ Len(bs) = 1 /\ bs[1] = fresh /\ bs = Append(<<>>, fresh)
  BY <1>6
<1> HIDE DEF bs
<1>8. Slot(t, iv) \in Int
  BY SlotIs
<1>9. BarsOK(bs, tt, iv)
  <2>1. Len(bs) \in 1 .. RingSize + 1
    BY <1>7, RingSizeIs
  <2>2. \A i \in 1 .. Len(bs) : IsBar(bs[i], tt, iv)
    BY <1>5, <1>7
  <2>3. InTime(bs)
    BY <1>7 DEF InTime
  <2>4. \A j \in 1 .. Len(tt) : Slot(tt[j], iv) <= bs[Len(bs)].open_ts
    BY <1>1, <1>6, <1>7, <1>8
  <2>5. \A i \in OnTime(tt, iv) : HasSlot(bs, Slot(tt[i], iv))
    BY <1>1, <1>4, <1>6, <1>7 DEF HasSlot
  <2> QED BY <1>7, <2>1, <2>2, <2>3, <2>4, <2>5 DEF BarsOK
<1>10. IsFiniteSet(OnTime(tt, iv)) /\ Cardinality(OnTime(tt, iv)) = 1
  BY <1>4, FS_Singleton
<1>11. t.ts \in Int
  BY ItemTyped
<1> HIDE DEF c
<1>12. c \in Cells
  BY <1>1, <1>2, <1>6, <1>11 DEF Cells
<1>13. CellOK(c, iv)
  BY <1>1, <1>2, <1>7, <1>9, <1>10, <1>12 DEF CellOK
<1> QED BY <1>13 DEF c

LEMMA NextTickCell ==
  ASSUME NEW t \in Items, NEW iv \in Nat \ {0}, NEW c, CellOK(c, iv)
  PROVE  CellOK(BarTick(c, t, iv), iv)
<1> DEFINE fresh == Bar(Slot(t, iv), t.price)
           bs == Append(c.ring, c.bar)
           ts == c.ticks
           tt == Append(ts, t)
           d == BarTick(c, t, iv)
           o == c.bar.open_ts
           s == Slot(t, iv)
           cell == [c EXCEPT !.last = t.ts, !.ticks = Append(@, t)]
<1>1. /\ c \in Cells /\ BarsOK(bs, ts, iv) /\ IsFiniteSet(OnTime(ts, iv))
      /\ c.late = Len(ts) - Cardinality(OnTime(ts, iv))
  BY DEF CellOK
<1>2. /\ c.ring \in Seq(Bars) /\ c.bar \in Bars /\ ts \in Seq(Items) /\ c.late \in Int
      /\ c = [bar |-> c.bar, ring |-> c.ring, late |-> c.late, last |-> c.last, ticks |-> ts]
  BY <1>1 DEF Cells
<1>3. /\ bs \in Seq(Bars) /\ Len(bs) = Len(c.ring) + 1 /\ Len(c.ring) \in Nat /\ bs[Len(bs)] = c.bar
      /\ \A i \in 1 .. Len(c.ring) : bs[i] = c.ring[i]
      /\ Len(bs) - 1 = Len(c.ring)
  BY <1>2
<1>4. /\ Len(ts) \in Nat /\ Len(tt) = Len(ts) + 1 /\ tt \in Seq(Items)
      /\ Cardinality(OnTime(ts, iv)) \in Nat
      /\ Len(ts) + 1 \notin OnTime(ts, iv)
  BY <1>1, <1>2, FS_CardinalityType DEF OnTime
<1>a. cell = [bar |-> c.bar, ring |-> c.ring, late |-> c.late, last |-> t.ts, ticks |-> tt]
  <2>1. cell = [c EXCEPT !.last = t.ts, !.ticks = tt]
    BY DEF ts
  <2> HIDE DEF cell, tt, ts
  <2> QED BY <1>2, <2>1
<1>5. cell = [bar |-> c.bar, ring |-> c.ring, late |-> c.late, last |-> t.ts, ticks |-> tt] /\ t.ts \in Int
  BY <1>a, ItemTyped
<1>6. o \in Int /\ o # Never /\ s \in Int
  BY <1>2, SlotIs, ProcessorAssumption DEF Bars
<1>7. (t.ts >= o + iv <=> s > o) /\ (t.ts < o <=> s < o)
  <2>1. PICK j \in 1 .. Len(ts) : Slot(ts[j], iv) = bs[Len(bs)].open_ts
    BY <1>1, <1>2, OpenBarTicked
  <2>2. ts[j] \in Items /\ Slot(ts[j], iv) = o
    BY <1>2, <1>3, <2>1
  <2> QED BY <2>2, EndsAreSlots
<1>8. d = IF s > o THEN [cell EXCEPT !.bar = fresh, !.ring = Pushed(@, c.bar)]
          ELSE IF s < o THEN [cell EXCEPT !.late = @ + 1]
          ELSE [cell EXCEPT !.bar = Widened(@, t.price)]
  BY <1>6, <1>7, OpensAtSlot DEF BarTick
<1>9. OnTime(tt, iv) = OnTime(ts, iv) \union {Len(ts) + 1}
        => /\ IsFiniteSet(OnTime(tt, iv)) /\ c.late = Len(tt) - Cardinality(OnTime(tt, iv))
  <2> SUFFICES ASSUME OnTime(tt, iv) = OnTime(ts, iv) \union {Len(ts) + 1}
               PROVE  /\ IsFiniteSet(OnTime(tt, iv)) /\ c.late = Len(tt) - Cardinality(OnTime(tt, iv))
    OBVIOUS
  <2>1. /\ IsFiniteSet(OnTime(tt, iv))
        /\ Cardinality(OnTime(tt, iv)) = Cardinality(OnTime(ts, iv)) + 1
    BY <1>1, <1>4, FS_AddElement
  <2> QED BY <1>1, <1>4, <2>1
<1> HIDE DEF d, cell, o, s, tt, ts, bs
<1>10. CASE s < o
  <2>1. d = [bar |-> c.bar, ring |-> c.ring, late |-> c.late + 1, last |-> t.ts, ticks |-> tt]
    BY <1>5, <1>6, <1>8, <1>10
  <2>2. BarsOK(bs, tt, iv) /\ OnTime(tt, iv) = OnTime(ts, iv)
    BY <1>1, <1>2, <1>3, <1>10, BarsAfterLate DEF o, s, tt
  <2>3. d \in Cells
    BY <1>2, <1>4, <1>5, <2>1 DEF Cells
  <2>4. c.late + 1 = Len(tt) - Cardinality(OnTime(tt, iv))
    BY <1>1, <1>4, <2>2
  <2> QED BY <1>1, <2>1, <2>2, <2>3, <2>4 DEF CellOK, d, bs
<1>11. CASE s = o
  <2> DEFINE w == Widened(c.bar, t.price)
             cs == Append(c.ring, w)
  <2>1. d = [bar |-> w, ring |-> c.ring, late |-> c.late, last |-> t.ts, ticks |-> tt]
    BY <1>5, <1>6, <1>8, <1>11
  <2>2. w \in Bars
    <3>1. c.bar = [open_ts |-> c.bar.open_ts, open |-> c.bar.open, high |-> c.bar.high,
                   low |-> c.bar.low, close |-> c.bar.close, n |-> c.bar.n]
          /\ c.bar.open_ts \in Int /\ c.bar.open \in Int /\ c.bar.high \in Int
          /\ c.bar.low \in Int /\ c.bar.close \in Int /\ c.bar.n \in Nat
      BY <1>2 DEF Bars
    <3>2. w = [open_ts |-> c.bar.open_ts, open |-> c.bar.open,
               high |-> IF t.price > c.bar.high THEN t.price ELSE c.bar.high,
               low |-> IF t.price < c.bar.low THEN t.price ELSE c.bar.low,
               close |-> t.price, n |-> c.bar.n + 1]
      <4>1. w = [c.bar EXCEPT !.high = IF t.price > @ THEN t.price ELSE @,
                              !.low = IF t.price < @ THEN t.price ELSE @,
                              !.close = t.price, !.n = @ + 1]
        BY DEF Widened
      <4> DEFINE b == c.bar
      <4>2. b = [open_ts |-> b.open_ts, open |-> b.open, high |-> b.high,
                 low |-> b.low, close |-> b.close, n |-> b.n]
        BY <3>1
      <4> HIDE DEF w, b
      <4>3. w = [b EXCEPT !.high = IF t.price > @ THEN t.price ELSE @,
                          !.low = IF t.price < @ THEN t.price ELSE @,
                          !.close = t.price, !.n = @ + 1]
        BY <4>1 DEF b
      <4>4. w = [open_ts |-> b.open_ts, open |-> b.open,
                 high |-> IF t.price > b.high THEN t.price ELSE b.high,
                 low |-> IF t.price < b.low THEN t.price ELSE b.low,
                 close |-> t.price, n |-> b.n + 1]
        BY <4>2, <4>3
      <4> QED BY <4>4 DEF b
    <3>3. t.price \in Int
      BY ItemTyped
    <3> HIDE DEF w
    <3> QED BY <3>1, <3>2, <3>3 DEF Bars
  <2> HIDE DEF w
  <2>3. /\ cs \in Seq(Bars) /\ Len(cs) = Len(bs) /\ cs[Len(bs)] = w
        /\ \A i \in 1 .. Len(bs) - 1 : cs[i] = bs[i]
    BY <1>2, <1>3, <2>2
  <2> HIDE DEF cs
  <2>4. BarsOK(cs, tt, iv) /\ OnTime(tt, iv) = OnTime(ts, iv) \union {Len(ts) + 1}
    <3>1. Slot(t, iv) = bs[Len(bs)].open_ts
      BY <1>3, <1>11 DEF s, o
    <3>2. cs[Len(bs)] = Widened(bs[Len(bs)], t.price)
      BY <1>3, <2>3 DEF w
    <3> QED BY <1>1, <1>2, <2>3, <3>1, <3>2, BarsAfterSame DEF tt
  <2>5. d \in Cells
    BY <1>2, <1>4, <1>5, <2>1, <2>2 DEF Cells
  <2>6. d.ticks = tt /\ Append(d.ring, d.bar) = cs /\ d.late = c.late
    BY <2>1 DEF cs
  <2>7. CellOK(d, iv)
    BY <1>9, <2>4, <2>5, <2>6 DEF CellOK
  <2> QED BY <2>7 DEF d
<1>12. CASE s > o
  <2> DEFINE ring == Pushed(c.ring, c.bar)
             cs == Append(ring, fresh)
             k == IF Len(bs) = RingSize + 1 THEN 1 ELSE 0
  <2>1. d = [bar |-> fresh, ring |-> ring, late |-> c.late, last |-> t.ts, ticks |-> tt]
    BY <1>5, <1>6, <1>8, <1>12
  <2>2. fresh \in Bars
    BY <1>6, ItemTyped DEF Bar, Bars, s
  <2>3. Len(bs) \in 1 .. RingSize + 1 /\ RingSize \in Nat \ {0} /\ k \in {0, 1} /\ k \in Int
    BY <1>1, RingSizeIs DEF BarsOK
  <2> HIDE DEF fresh
  <2>4. /\ ring \in Seq(Bars) /\ Len(ring) = Len(bs) - k
        /\ \A i \in 1 .. Len(bs) - k : ring[i] = bs[i + k]
    <3>1. CASE Len(c.ring) < RingSize
      <4>1. ring = bs /\ k = 0
        BY <1>3, <2>3, <3>1 DEF Pushed, bs
      <4>2. Len(bs) - k = Len(bs) /\ \A i \in 1 .. Len(bs) : i + k = i
        BY <2>3, <4>1
      <4>3. bs \in Seq(Bars)
        BY <1>3
      <4>4. \A i \in 1 .. Len(bs) - k : ring[i] = bs[i + k]
        BY <4>1, <4>2
      <4> QED BY <4>1, <4>2, <4>3, <4>4
    <3>2. CASE ~ (Len(c.ring) < RingSize)
      <4>1. Len(c.ring) = RingSize /\ k = 1 /\ c.ring # <<>>
        BY <1>2, <1>3, <2>3, <3>2
      <4>2. ring = Append(Tail(c.ring), c.bar)
        BY <3>2 DEF Pushed
      <4>3. /\ Tail(c.ring) \in Seq(Bars) /\ Len(Tail(c.ring)) = Len(c.ring) - 1
            /\ \A i \in 1 .. Len(c.ring) - 1 : Tail(c.ring)[i] = c.ring[i + 1]
        BY <1>2, <4>1, HeadTailProperties
      <4>4. ring \in Seq(Bars) /\ Len(ring) = Len(c.ring)
        BY <1>2, <1>3, <4>2, <4>3
      <4>5. \A i \in 1 .. Len(c.ring) - 1 : ring[i] = bs[i + 1]
        <5> SUFFICES ASSUME NEW i \in 1 .. Len(c.ring) - 1 PROVE ring[i] = bs[i + 1]
          OBVIOUS
        <5>1. i + 1 \in 1 .. Len(c.ring) /\ i \in 1 .. Len(Tail(c.ring))
          BY <1>3, <4>3
        <5>2. ring[i] = Tail(c.ring)[i]
          BY <1>2, <4>2, <4>3, <5>1
        <5> QED BY <1>3, <4>3, <5>1, <5>2
      <4>6. ring[Len(c.ring)] = bs[Len(c.ring) + 1]
        <5>1. Len(Tail(c.ring)) + 1 = Len(c.ring)
          BY <1>3, <4>3
        <5>2. ring[Len(Tail(c.ring)) + 1] = c.bar
          BY <1>2, <4>2, <4>3
        <5> QED BY <1>3, <5>1, <5>2
      <4> HIDE DEF ring
      <4>7. \A i \in 1 .. Len(c.ring) : ring[i] = bs[i + 1]
        <5> SUFFICES ASSUME NEW i \in 1 .. Len(c.ring) PROVE ring[i] = bs[i + 1]
          OBVIOUS
        <5>1. CASE i = Len(c.ring)
          BY <4>6, <5>1
        <5>2. CASE i # Len(c.ring)
          <6>1. i \in 1 .. Len(c.ring) - 1
            BY <1>3, <5>2
          <6> QED BY <4>5, <6>1
        <5> QED BY <5>1, <5>2
      <4> QED BY <1>3, <4>1, <4>4, <4>7
    <3> QED BY <3>1, <3>2
  <2> HIDE DEF ring
  <2>5. /\ cs \in Seq(Bars) /\ Len(cs) = Len(bs) + 1 - k /\ cs[Len(cs)] = fresh
        /\ \A i \in 1 .. Len(bs) - k : cs[i] = bs[i + k]
    <3>1. /\ cs \in Seq(Bars) /\ Len(cs) = Len(ring) + 1 /\ cs[Len(cs)] = fresh
          /\ \A i \in 1 .. Len(ring) : cs[i] = ring[i]
      BY <2>2, <2>4
    <3> QED BY <2>3, <2>4, <3>1
  <2>6. k = 1 <=> Len(bs) = RingSize + 1
    OBVIOUS
  <2> HIDE DEF cs, k
  <2>7. BarsOK(cs, tt, iv) /\ OnTime(tt, iv) = OnTime(ts, iv) \union {Len(ts) + 1}
    <3>1. Slot(t, iv) > bs[Len(bs)].open_ts
      BY <1>3, <1>12 DEF s, o
    <3>2. cs[Len(cs)] = Bar(Slot(t, iv), t.price)
      BY <2>5 DEF fresh
    <3>3. NextBars(bs, cs, Bar(Slot(t, iv), t.price))
      BY <2>3, <2>5, <2>6, <3>2 DEF NextBars
    <3>4. BarsOK(bs, ts, iv) /\ ts \in Seq(Items)
      BY <1>1, <1>2
    <3>5. /\ BarsOK(cs, Append(ts, t), iv)
          /\ OnTime(Append(ts, t), iv) = OnTime(ts, iv) \union {Len(ts) + 1}
      BY <3>1, <3>3, <3>4, BarsAfterNext
    <3> QED BY <3>5 DEF tt
  <2>8. d \in Cells
    BY <1>2, <1>4, <1>5, <2>1, <2>2, <2>4 DEF Cells
  <2>9. d.ticks = tt /\ Append(d.ring, d.bar) = cs /\ d.late = c.late
    BY <2>1 DEF cs
  <2>10. CellOK(d, iv)
    BY <1>9, <2>7, <2>8, <2>9 DEF CellOK
  <2> QED BY <2>10 DEF d
<1>13. s > o \/ s = o \/ s < o
  BY <1>6
<1> QED BY <1>10, <1>11, <1>12, <1>13 DEF d

-----------------------------------------------------------------------------
(* process_one, interval by interval. *)

Ticked(f, t, iv) ==
  IF <<t.sym, iv>> \in DOMAIN f
  THEN {With(f, <<t.sym, iv>>, BarTick(f[<<t.sym, iv>>], t, iv))}
  ELSE {With(g, <<t.sym, iv>>, BarTick(NewCell(t), t, iv)) : g \in Room(f)}

(* after is the tables there may be after the first intervals. *)
Intervalwise(after, tab, t) ==
  /\ after[0] = {tab}
  /\ \A n \in 1 .. Len(Intervals) :
       after[n] = UNION {Ticked(f, t, Intervals[n]) : f \in after[n - 1]}

LEMMA BarsAfterUnfolds ==
  ASSUME NEW tab, NEW t
  PROVE  \E after : Intervalwise(after, tab, t) /\ BarsAfter(tab, t) = after[Len(Intervals)]
<1> DEFINE L == Len(Intervals)
           Upto(f, m) == /\ DOMAIN f = 0 .. m
                         /\ f[0] = {tab}
                         /\ \A n \in 1 .. m : f[n] = UNION {Ticked(g, t, Intervals[n]) : g \in f[n - 1]}
           P == {m \in Nat : \E f : Upto(f, m)}
           Rule(f) == [n \in 0 .. L |-> IF n = 0 THEN {tab}
                                        ELSE UNION {Ticked(g, t, Intervals[n]) : g \in f[n - 1]}]
<1>0. L \in Nat
  BY ProcessorAssumption
<1>1. 0 \in P
  <2> DEFINE g == [n \in 0 .. 0 |-> {tab}]
  <2>1. Upto(g, 0)
    OBVIOUS
  <2> HIDE DEF Upto
  <2> QED BY <2>1
<1>2. ASSUME NEW m \in Nat, m \in P PROVE m + 1 \in P
  <2>1. PICK f : Upto(f, m)
    BY <1>2
  <2> DEFINE g == [n \in 0 .. m + 1 |->
                     IF n = m + 1 THEN UNION {Ticked(h, t, Intervals[n]) : h \in f[m]} ELSE f[n]]
  <2>2. DOMAIN g = 0 .. m + 1 /\ g[0] = {tab} /\ \A n \in 0 .. m : g[n] = f[n]
    BY <2>1
  <2>3. g[m + 1] = UNION {Ticked(h, t, Intervals[m + 1]) : h \in f[m]}
    OBVIOUS
  <2> HIDE DEF g
  <2>4. ASSUME NEW n \in 1 .. m + 1
        PROVE  g[n] = UNION {Ticked(h, t, Intervals[n]) : h \in g[n - 1]}
    <3>1. CASE n = m + 1
      <4>1. n - 1 = m /\ g[m] = f[m]
        BY <2>2, <3>1
      <4> QED BY <2>3, <3>1, <4>1
    <3>2. CASE n # m + 1
      <4>1. n \in 1 .. m /\ n - 1 \in 0 .. m /\ n \in 0 .. m
        BY <3>2
      <4>2. g[n] = f[n] /\ g[n - 1] = f[n - 1]
        BY <2>2, <4>1
      <4> QED BY <2>1, <4>1, <4>2
    <3> QED BY <3>1, <3>2
  <2>5. Upto(g, m + 1)
    BY <2>2, <2>4
  <2> HIDE DEF Upto
  <2> QED BY <2>5
<1> HIDE DEF P
<1>3. L \in P
  BY <1>0, <1>1, <1>2, Induction
<1>4. PICK f : Upto(f, L)
  BY <1>3 DEF P
<1> DEFINE h == [n \in 0 .. L |-> f[n]]
<1>5. h = Rule(h)
  <2>1. ASSUME NEW n \in 0 .. L PROVE h[n] = Rule(h)[n]
    <3>1. CASE n = 0
      BY <1>4, <3>1
    <3>2. CASE n # 0
      <4>1. n \in 1 .. L /\ n - 1 \in 0 .. L
        BY <1>0, <3>2
      <4>2. f[n] = UNION {Ticked(g, t, Intervals[n]) : g \in f[n - 1]} /\ h[n] = f[n] /\ h[n - 1] = f[n - 1]
        BY <1>4, <4>1
      <4> HIDE DEF h
      <4> QED BY <3>2, <4>1, <4>2
    <3> QED BY <3>1, <3>2
  <2> QED BY <2>1
<1> DEFINE after == CHOOSE g : g = Rule(g)
<1>6. after = Rule(after)
  BY <1>5
<1>7. BarsAfter(tab, t) = after[L]
  BY DEF BarsAfter, Ticked
<1> HIDE DEF after
<1>8. Intervalwise(after, tab, t)
  <2>1. after[0] = {tab}
    BY <1>0, <1>6
  <2>2. ASSUME NEW n \in 1 .. L
        PROVE  after[n] = UNION {Ticked(g, t, Intervals[n]) : g \in after[n - 1]}
    <3>1. n \in 0 .. L /\ n # 0
      BY <1>0
    <3> QED BY <1>6, <3>1
  <2> QED BY <2>1, <2>2 DEF Intervalwise
<1> QED BY <1>7, <1>8

TableOK(f) == \A k \in DOMAIN f : k[2] \in Nat \ {0} /\ CellOK(f[k], k[2])

LEMMA TickedOK ==
  ASSUME NEW f, TableOK(f), NEW t \in Items, NEW iv \in Nat \ {0}, NEW g \in Ticked(f, t, iv)
  PROVE  TableOK(g)
<1> DEFINE key == <<t.sym, iv>>
<1>1. key[2] = iv
  OBVIOUS
<1> HIDE DEF key
<1>2. ASSUME NEW e, TableOK(e), NEW c, CellOK(c, iv) PROVE TableOK(With(e, key, c))
  BY <1>1, <1>2 DEF TableOK, With
<1>3. CASE key \in DOMAIN f
  <2>1. CellOK(f[key], iv)
    BY <1>1, <1>3 DEF TableOK
  <2>2. CellOK(BarTick(f[key], t, iv), iv)
    BY <2>1, NextTickCell
  <2>3. g = With(f, key, BarTick(f[key], t, iv))
    BY <1>3 DEF Ticked, key
  <2> QED BY <1>2, <2>2, <2>3
<1>4. CASE key \notin DOMAIN f
  <2>1. PICK e \in Room(f) : g = With(e, key, BarTick(NewCell(t), t, iv))
    BY <1>4 DEF Ticked, key
  <2>2. TableOK(e)
    BY DEF Room, Without, Evictable, TableOK
  <2> QED BY <1>2, <2>1, <2>2, FirstTickCell
<1> QED BY <1>3, <1>4

LEMMA BarsAfterOK ==
  ASSUME NEW f, TableOK(f), NEW t \in Items, NEW g \in BarsAfter(f, t)
  PROVE  TableOK(g)
<1> DEFINE L == Len(Intervals)
<1>1. PICK after : Intervalwise(after, f, t) /\ BarsAfter(f, t) = after[L]
  BY BarsAfterUnfolds
<1>2. L \in Nat /\ \A n \in 1 .. L : Intervals[n] \in Nat \ {0}
  BY ProcessorAssumption
<1> DEFINE P == {n \in Nat : n <= L => \A e \in after[n] : TableOK(e)}
<1>3. 0 \in P
  BY <1>1 DEF Intervalwise
<1>4. ASSUME NEW n \in Nat, n \in P PROVE n + 1 \in P
  <2> SUFFICES ASSUME n + 1 <= L, NEW e \in after[n + 1] PROVE TableOK(e)
    OBVIOUS
  <2>1. n + 1 \in 1 .. L /\ (n + 1) - 1 = n /\ n <= L
    BY <1>2
  <2>2. after[n + 1] = UNION {Ticked(d, t, Intervals[n + 1]) : d \in after[n]}
    BY <1>1, <2>1 DEF Intervalwise
  <2>3. PICK d \in after[n] : e \in Ticked(d, t, Intervals[n + 1])
    BY <2>2
  <2>4. TableOK(d)
    BY <1>4, <2>1
  <2> QED BY <1>2, <2>1, <2>3, <2>4, TickedOK
<1> HIDE DEF P
<1>5. L \in P
  BY <1>2, <1>3, <1>4, Induction
<1> QED BY <1>1, <1>2, <1>5 DEF P

-----------------------------------------------------------------------------
BInv == /\ phase = "work" => got \in Items
        /\ setup.kind = "bars" => TableOK(table)

LEMMA BInvInit == ProcInit => BInv
BY DEF ProcInit, BInv, EmptyTable, NoEntries, TableOK

LEMMA BInvStep ==
  ASSUME TypeOK', BInv, [ProcNext]_procVars
  PROVE  BInv'
<1>1. CASE Dequeue
  BY <1>1 DEF Dequeue, stopVars, BInv, TypeOK, TableOK
<1>2. CASE Process
  <2>1. phase' # "work" /\ setup' = setup /\ phase = "work"
    BY <1>2 DEF Process
  <2>2. ASSUME setup.kind = "bars" PROVE TableOK(table')
    <3>1. table' \in BarsAfter(table, got)
      BY <1>2, <2>2 DEF Process, After
    <3> QED BY <2>1, <2>2, <3>1, BarsAfterOK DEF BInv
  <2>3. TableOK(table)' <=> TableOK(table')
    BY DEF TableOK
  <2> QED BY <2>1, <2>2, <2>3 DEF BInv
<1>3. UNCHANGED <<table, setup, got>> /\ (phase' = "work" => phase = "work") => BInv'
  BY DEF BInv, TableOK
<1>4. CASE UNCHANGED procVars
  BY <1>3, <1>4 DEF procVars, vars
<1>5. CASE Dispatch \/ Skip \/ Reject \/ HandlerReturns
  BY <1>3, <1>5 DEF Dispatch, Skip, Reject, HandlerReturns, drainVars, ringVars, vars
<1>6. ASSUME NEW t \in setup.ticks, Accept(t) PROVE BInv'
  BY <1>3, <1>6 DEF Accept, EnqueueBegin, drainVars, consVars
<1>7. CASE Enqueue
  BY <1>3, <1>7 DEF Enqueue, ProducerStep, EnqueueFull, EnqueueRoom, EnqueueWrite, EnqueuePublish,
                    drainVars, consVars
<1>8. CASE LookAtStop
  BY <1>3, <1>8 DEF LookAtStop, ringVars, vars
<1>9. CASE Stop
  BY <1>3, <1>9 DEF Stop, StopBegin, Unsubscribe, SetStopFlag, Join, drainVars, ringVars, vars
<1> QED BY <1>1, <1>2, <1>4, <1>5, <1>6, <1>7, <1>8, <1>9 DEF ProcNext, Handler, Drain

(* For every list of intervals, ring and table size, set of ticks and order*)
(* they come in: the bars of a symbol are what its ticks are by the        *)
(* calendar, before 1970 too (Bar_builder.on_tick, push_bar, domain_main). *)
THEOREM BarsAreTheCalendars == ProcSpec => []BarsCoverTicks
<1>1. BInv => BarsCoverTicks
  BY CellCovers DEF BInv, BarsCoverTicks, TableOK
<1>2. IInv' /\ BInv /\ [ProcNext]_procVars => BInv'
  BY BInvStep DEF IInv
<1>3. QED
  BY <1>1, <1>2, BInvInit, RingsAreBoundedQueues, PTL DEF ProcSpec

-----------------------------------------------------------------------------
(* The compare-and-set ring (RingBuffer), beside the processor's.          *)

(* The window of a ring whose indexes are h and t, and its k-th place.     *)
Span(h, t) == (t + Capacity - h) % Capacity
Place(h, k) == (h + k - 1) % Capacity

LEMMA SpanIs ==
  ASSUME NEW h \in Slots, NEW t \in Slots
  PROVE  Span(h, t) = IF h <= t THEN t - h ELSE t + Capacity - h
<1>1. h \in Nat /\ t \in Nat /\ h < Capacity /\ t < Capacity
  BY CapacityAssumption DEF Slots
<1>2. CASE h <= t
  <2>1. t + Capacity - h = (t - h) + Capacity /\ t - h \in 0 .. Capacity - 1
    BY <1>1, <1>2, CapacityAssumption
  <2> QED BY <1>2, <2>1, CapacityAssumption DEF Span
<1>3. CASE ~(h <= t)
  <2>1. t + Capacity - h \in 0 .. Capacity - 1
    BY <1>1, <1>3, CapacityAssumption
  <2> QED BY <1>3, <2>1, CapacityAssumption DEF Span
<1> QED BY <1>2, <1>3

LEMMA PlaceIs ==
  ASSUME NEW h \in Slots, NEW k \in 1 .. Capacity
  PROVE  Place(h, k) = IF h + k - 1 < Capacity THEN h + k - 1 ELSE h + k - 1 - Capacity
<1>1. h \in Nat /\ h < Capacity /\ k \in Nat /\ k >= 1 /\ k <= Capacity
  BY CapacityAssumption DEF Slots
<1>2. CASE h + k - 1 < Capacity
  <2>1. h + k - 1 \in 0 .. Capacity - 1
    BY <1>1, <1>2, CapacityAssumption
  <2> QED BY <1>2, <2>1, CapacityAssumption DEF Place
<1>3. CASE ~(h + k - 1 < Capacity)
  <2>1. h + k - 1 = (h + k - 1 - Capacity) + Capacity /\ h + k - 1 - Capacity \in 0 .. Capacity - 1
    BY <1>1, <1>3, CapacityAssumption
  <2> QED BY <1>3, <2>1, CapacityAssumption DEF Place
<1> QED BY <1>2, <1>3

LEMMA SpanAndPlaces ==
  ASSUME NEW h \in Slots, NEW t \in Slots
  PROVE  /\ Span(h, t) \in 0 .. Capacity - 1
         /\ \A k \in 1 .. Capacity : Place(h, k) \in Slots
         /\ Place(h, 1) = h /\ Place(h, Span(h, t) + 1) = t
         /\ \A k \in 1 .. Span(h, t) : Place(h, k) # t
         /\ h = t <=> Span(h, t) = 0
         /\ Succ(t) = h <=> Span(h, t) = Capacity - 1
         /\ Span(h, t) < Capacity - 1 => Span(h, Succ(t)) = Span(h, t) + 1
         /\ Span(h, t) > 0 => Span(Succ(h), t) = Span(h, t) - 1
         /\ \A k \in 1 .. Capacity - 1 : Place(Succ(h), k) = Place(h, k + 1)
<1>1. h \in Nat /\ t \in Nat /\ h < Capacity /\ t < Capacity
  BY CapacityAssumption DEF Slots
<1>2. Succ(h) \in Slots /\ Succ(t) \in Slots
  BY SuccInSlots
<1>3. Succ(h) = (IF h + 1 = Capacity THEN 0 ELSE h + 1) /\ Succ(t) = (IF t + 1 = Capacity THEN 0 ELSE t + 1)
  BY SuccWraps
<1>4. Span(h, t) \in 0 .. Capacity - 1
  BY <1>1, SpanIs, CapacityAssumption
<1>5. \A k \in 1 .. Capacity : Place(h, k) \in Slots
  BY <1>1, PlaceIs, CapacityAssumption DEF Slots
<1>6. Place(h, 1) = h
  BY <1>1, PlaceIs, CapacityAssumption
<1>7. Place(h, Span(h, t) + 1) = t
  BY <1>1, <1>4, PlaceIs, SpanIs, CapacityAssumption
<1>8. ASSUME NEW k \in 1 .. Span(h, t) PROVE Place(h, k) # t
  BY <1>1, <1>4, PlaceIs, SpanIs, CapacityAssumption
<1>9. (h = t <=> Span(h, t) = 0) /\ (Succ(t) = h <=> Span(h, t) = Capacity - 1)
  BY <1>1, <1>3, SpanIs, CapacityAssumption
<1>10. Span(h, t) < Capacity - 1 => Span(h, Succ(t)) = Span(h, t) + 1
  BY <1>1, <1>2, <1>3, SpanIs, CapacityAssumption
<1>11. Span(h, t) > 0 => Span(Succ(h), t) = Span(h, t) - 1
  BY <1>1, <1>2, <1>3, SpanIs, CapacityAssumption
<1>12. ASSUME NEW k \in 1 .. Capacity - 1 PROVE Place(Succ(h), k) = Place(h, k + 1)
  BY <1>1, <1>2, <1>3, PlaceIs, CapacityAssumption
<1> QED BY <1>4, <1>5, <1>6, <1>7, <1>8, <1>9, <1>10, <1>11, <1>12

-----------------------------------------------------------------------------
(* One producer p and one consumer c.                                      *)
Sole(p, c) == {q \in Producers : rSetup.push[q] > 0} = {p} /\ rSetup.poll = {c}

Waiting == Span(rHead, rTail)
Item(k) == rBuffer[Place(rHead, k)]

(* Where the producer stands: what it has loaded is still true, because    *)
(* nobody else moves the tail and the consumer only makes room.            *)
PusherInv(p) ==
  /\ rPc[p] \in {"idle", "load tail", "check head", "write", "claim"}
  /\ rPc[p] # "idle" => rItem[p] \in Ring!Pushes
  /\ rPc[p] \in {"check head", "write", "claim"} => rAt[p] = rTail
  /\ rPc[p] \in {"write", "claim"} => Waiting < Capacity - 1
  /\ rPc[p] = "claim" => rBuffer[rTail] = rItem[p]

(* And the consumer: nobody else moves the head and the producer only adds.*)
PopperInv(c) ==
  /\ rPc[c] \in {"idle", "check tail", "read", "claim"}
  /\ rPc[c] # "idle" => rAt[c] = rHead
  /\ rPc[c] \in {"read", "claim"} => Waiting > 0
  /\ rPc[c] = "claim" => rItem[c] = rBuffer[rHead]

PairInv(p, c) ==
  /\ \A t \in Ring!Threads \ {p, c} : rPc[t] = "idle"
  /\ PusherInv(p)
  /\ PopperInv(c)
  /\ \A k \in 1 .. Waiting : Item(k) \in Ring!Pushes

SoleInv == \A p \in Producers, c \in Consumers : Sole(p, c) => PairInv(p, c)

RingTyped ==
  /\ rBuffer \in [Slots -> Ring!Pushes \union {NoItem}]
  /\ rHead \in Slots /\ rTail \in Slots
  /\ rPc \in [Ring!Threads -> {"idle", "load tail", "check head", "write", "claim", "check tail", "read"}]
  /\ rAt \in [Ring!Threads -> Slots]
  /\ rItem \in [Ring!Threads -> Ring!Pushes \union {NoItem}]
  /\ rCalls \in [Producers -> Nat]
  /\ rSetup \in RingSetups

RingInv == RingTyped /\ SoleInv

LEMMA RingInitInv == ASSUME Ring!RingAssumption, Ring!Init PROVE RingInv
<1>1. /\ rBuffer = [i \in Slots |-> NoItem] /\ rHead = 0 /\ rTail = 0
      /\ rPc = [t \in Ring!Threads |-> "idle"] /\ rAt = [t \in Ring!Threads |-> 0]
      /\ rItem = [t \in Ring!Threads |-> NoItem] /\ rCalls = [p \in Producers |-> 0]
      /\ rSetup \in RingSetups
  BY DEF Ring!Init, Ring!Slots, Slots
<1>2. 0 \in Slots
  BY CapacityAssumption DEF Slots
<1>3. RingTyped
  BY <1>1, <1>2 DEF RingTyped
<1>4. Waiting = 0
  BY <1>1, <1>2, SpanAndPlaces DEF Waiting
<1>5. Producers \subseteq Ring!Threads /\ Consumers \subseteq Ring!Threads
  BY DEF Ring!Threads
<1>6. SoleInv
  <2> SUFFICES ASSUME NEW p \in Producers, NEW c \in Consumers
               PROVE  PairInv(p, c)
    BY DEF SoleInv
  <2>1. rPc[p] = "idle" /\ rPc[c] = "idle" /\ \A t \in Ring!Threads : rPc[t] = "idle"
    BY <1>1, <1>5
  <2>2. PusherInv(p) /\ PopperInv(c)
    BY <2>1 DEF PusherInv, PopperInv
  <2>3. 1 .. Waiting = {}
    BY <1>4
  <2> QED BY <2>1, <2>2, <2>3 DEF PairInv
<1> QED BY <1>3, <1>6 DEF RingInv

LEMMA CallIsPush ==
  ASSUME Ring!RingAssumption, RingTyped, NEW p \in Producers, Ring!PushCall(p)
  PROVE  <<p, rCalls[p] + 1>> \in Ring!Pushes
<1>1. rSetup \in [push : [Producers -> 0 .. MaxPush], poll : SUBSET Consumers] /\ MaxPush \in Nat
  BY DEF Ring!RingAssumption, RingTyped
<1> DEFINE n == rCalls[p]
           m == rSetup.push[p]
<1>2. n < m /\ m \in 0 .. MaxPush /\ n \in Nat
  BY <1>1 DEF Ring!PushCall, RingTyped
<1> HIDE DEF n, m
<1>3. n + 1 \in 1 .. MaxPush
  BY <1>1, <1>2
<1> QED BY <1>3 DEF Ring!Pushes, n

(* Every step keeps the types.                                             *)
LEMMA PushStepTyped ==
  ASSUME Ring!RingAssumption, RingTyped, NEW p \in Producers, Ring!PushCall(p) \/ Ring!Push(p)
  PROVE  RingTyped'
<1>1. p \in Ring!Threads
  BY DEF Ring!Threads
<1> USE DEF RingTyped, Ring!Goto
<1>2. CASE Ring!PushCall(p)
  <2>2. <<p, rCalls[p] + 1>> \in Ring!Pushes
    BY <1>2, CallIsPush
  <2>3. /\ rPc' = [rPc EXCEPT ![p] = "load tail"] /\ rItem' = [rItem EXCEPT ![p] = <<p, rCalls[p] + 1>>]
        /\ rCalls' = [rCalls EXCEPT ![p] = @ + 1]
        /\ UNCHANGED <<rBuffer, rHead, rTail, rAt, rSetup>>
    BY <1>2 DEF Ring!PushCall
  <2>4. rItem' \in [Ring!Threads -> Ring!Pushes \union {NoItem}]
    BY <1>1, <2>2, <2>3
  <2>5. rCalls' \in [Producers -> Nat]
    <3>1. rCalls \in [Producers -> Nat] /\ rCalls[p] \in Nat
      OBVIOUS
    <3> HIDE DEF RingTyped
    <3> DEFINE n == rCalls[p]
    <3>2. n \in Nat
      BY <3>1
    <3> HIDE DEF n
    <3>3. n + 1 \in Nat
      BY <3>2
    <3>4. rCalls' = [rCalls EXCEPT ![p] = n + 1]
      BY <2>3 DEF n
    <3> QED BY <3>1, <3>3, <3>4
  <2> QED BY <1>1, <2>3, <2>4, <2>5
<1>3. CASE Ring!PushLoadTail(p)
  BY <1>1, <1>3 DEF Ring!PushLoadTail
<1>4. CASE Ring!PushFull(p)
  BY <1>1, <1>4 DEF Ring!PushFull
<1>5. CASE Ring!PushRoom(p)
  BY <1>1, <1>5 DEF Ring!PushRoom
<1>6. CASE Ring!PushWrite(p)
  BY <1>1, <1>6 DEF Ring!PushWrite
<1>7. CASE Ring!PushClaim(p)
  <2>1. rTail' = Succ(rTail)
    BY <1>7 DEF Ring!PushClaim, Ring!Succ, Succ
  <2> QED BY <1>1, <1>7, <2>1, SuccInSlots DEF Ring!PushClaim
<1>8. CASE Ring!PushRetry(p)
  BY <1>1, <1>8 DEF Ring!PushRetry
<1> QED BY <1>2, <1>3, <1>4, <1>5, <1>6, <1>7, <1>8 DEF Ring!Push

LEMMA PopStepTyped ==
  ASSUME RingTyped, NEW c \in Consumers, Ring!Pop(c)
  PROVE  RingTyped'
<1>1. c \in Ring!Threads
  BY DEF Ring!Threads
<1> USE DEF RingTyped, Ring!Goto
<1>2. CASE Ring!PopLoadHead(c)
  BY <1>1, <1>2 DEF Ring!PopLoadHead
<1>3. CASE Ring!PopEmpty(c)
  BY <1>1, <1>3 DEF Ring!PopEmpty
<1>4. CASE Ring!PopFound(c)
  BY <1>1, <1>4 DEF Ring!PopFound
<1>5. CASE Ring!PopRead(c)
  BY <1>1, <1>5 DEF Ring!PopRead
<1>6. CASE Ring!PopClaim(c)
  <2>1. rHead' = Succ(rHead)
    BY <1>6 DEF Ring!PopClaim, Ring!Succ, Succ
  <2> QED BY <1>1, <1>6, <2>1, SuccInSlots DEF Ring!PopClaim
<1>7. CASE Ring!PopRetry(c)
  BY <1>1, <1>7 DEF Ring!PopRetry
<1> QED BY <1>2, <1>3, <1>4, <1>5, <1>6, <1>7 DEF Ring!Pop

(* The histories and answers.                                              *)
Told == /\ rPushed \in Seq(Ring!Pushes \union {NoItem}) /\ rPopped \in Seq(Ring!Pushes \union {NoItem})
        /\ rSent \in BOOLEAN /\ rGot \in Ring!Pushes \union {NoItem}

LEMMA PushStepTold ==
  ASSUME RingTyped, Told, NEW p \in Producers, Ring!PushCall(p) \/ Ring!Push(p)
  PROVE  Told'
<1>1. rItem[p] \in Ring!Pushes \union {NoItem}
  BY DEF RingTyped, Ring!Threads
<1>2. CASE Ring!PushClaim(p)
  <2>1. rPushed' = Append(rPushed, rItem[p]) /\ rSent' = TRUE /\ UNCHANGED <<rPopped, rGot>>
    BY <1>2 DEF Ring!PushClaim
  <2> QED BY <1>1, <2>1, AppendProperties DEF Told
<1>3. CASE Ring!PushFull(p)
  BY <1>3 DEF Ring!PushFull, Told
<1>4. CASE ~Ring!PushClaim(p) /\ ~Ring!PushFull(p)
  <2>1. UNCHANGED <<rPushed, rPopped, rSent, rGot>>
    BY <1>4 DEF Ring!Push, Ring!PushCall, Ring!PushLoadTail, Ring!PushRoom, Ring!PushWrite, Ring!PushRetry
  <2> QED BY <2>1 DEF Told
<1> QED BY <1>2, <1>3, <1>4

LEMMA PopStepTold ==
  ASSUME RingTyped, Told, NEW c \in Consumers, Ring!Pop(c)
  PROVE  Told'
<1>1. rItem[c] \in Ring!Pushes \union {NoItem}
  BY DEF RingTyped, Ring!Threads
<1>2. CASE Ring!PopClaim(c)
  <2>1. rPopped' = Append(rPopped, rItem[c]) /\ rGot' = rItem[c] /\ UNCHANGED <<rPushed, rSent>>
    BY <1>2 DEF Ring!PopClaim
  <2> QED BY <1>1, <2>1, AppendProperties DEF Told
<1>3. CASE Ring!PopEmpty(c)
  BY <1>3 DEF Ring!PopEmpty, Told
<1>4. CASE ~Ring!PopClaim(c) /\ ~Ring!PopEmpty(c)
  <2>1. UNCHANGED <<rPushed, rPopped, rSent, rGot>>
    BY <1>4 DEF Ring!Pop, Ring!PopLoadHead, Ring!PopFound, Ring!PopRead, Ring!PopRetry
  <2> QED BY <2>1 DEF Told
<1> QED BY <1>2, <1>3, <1>4

(* However many threads push and pop, what they hold and what the ring     *)
(* holds has its type (RingBuffer.push, pop).                              *)
THEOREM CasRingTyped ==
  ASSUME Ring!RingAssumption
  PROVE  Ring!Spec => []Ring!TypeOK
<1> DEFINE T == RingTyped /\ Told
<1>1. Ring!Init => T
  <2> SUFFICES ASSUME Ring!Init PROVE T
    OBVIOUS
  <2>1. RingTyped
    BY RingInitInv DEF RingInv
  <2>2. rPushed = <<>> /\ rPopped = <<>> /\ rSent = TRUE /\ rGot = NoItem
    BY DEF Ring!Init
  <2>3. Told
    BY <2>2, EmptySeq DEF Told
  <2> QED BY <2>1, <2>3
<1>2. T /\ [Ring!Next]_(Ring!vars) => T'
  <2> SUFFICES ASSUME RingTyped, Told, [Ring!Next]_(Ring!vars) PROVE RingTyped' /\ Told'
    OBVIOUS
  <2>1. CASE UNCHANGED Ring!vars
    BY <2>1 DEF Ring!vars, Ring!ring, RingTyped, Told
  <2>2. CASE Ring!Next
    BY <2>2, PushStepTyped, PopStepTyped, PushStepTold, PopStepTold DEF Ring!Next
  <2> QED BY <2>1, <2>2
<1>3. T => Ring!TypeOK
  BY DEF RingTyped, Told, Ring!TypeOK, Ring!Slots, Slots
<1> HIDE DEF T
<1> QED BY <1>1, <1>2, <1>3, PTL DEF Ring!Spec

-----------------------------------------------------------------------------
(* What the steps that touch the window do to the items in it.             *)
LEMMA WaitingIs == RingTyped => /\ Waiting \in 0 .. Capacity - 1
                                /\ (Waiting = 0 <=> rHead = rTail)
                                /\ (Waiting = Capacity - 1 <=> Succ(rTail) = rHead)
                                /\ Item(1) = rBuffer[rHead]
BY SpanAndPlaces, ZenonT(40) DEF RingTyped, Waiting, Item

LEMMA WriteKeepsItems ==
  ASSUME RingTyped, NEW v, rBuffer' = [rBuffer EXCEPT ![rTail] = v], UNCHANGED <<rHead, rTail>>
  PROVE  Waiting' = Waiting /\ \A k \in 1 .. Waiting : Item(k)' = Item(k)
<1>1. Waiting' = Waiting
  BY DEF Waiting
<1>2. ASSUME NEW k \in 1 .. Waiting PROVE Item(k)' = Item(k)
  <2>1. k \in 1 .. Capacity
    BY WaitingIs, CapacityAssumption
  <2>2. Place(rHead, k) \in Slots /\ Place(rHead, k) # rTail
    BY <2>1, SpanAndPlaces DEF RingTyped, Waiting
  <2> QED BY <2>2 DEF Item, RingTyped
<1> QED BY <1>1, <1>2

LEMMA ClaimAddsItem ==
  ASSUME RingTyped, Waiting < Capacity - 1, rTail' = Succ(rTail), UNCHANGED <<rBuffer, rHead>>
  PROVE  /\ Waiting' = Waiting + 1
         /\ \A k \in 1 .. Waiting : Item(k)' = Item(k)
         /\ \A k \in 1 .. Waiting' : k \in 1 .. Waiting \/ Item(k)' = rBuffer[rTail]
<1>1. Waiting' = Waiting + 1 /\ Waiting \in Nat
  <2>1. Span(rHead, rTail) < Capacity - 1 => Span(rHead, Succ(rTail)) = Span(rHead, rTail) + 1
    BY SpanAndPlaces, ZenonT(40) DEF RingTyped
  <2>2. Waiting \in Nat
    BY WaitingIs, CapacityAssumption
  <2> QED BY <2>1, <2>2 DEF Waiting
<1>2. \A k : Item(k)' = Item(k)
  BY DEF Item
<1>3. Place(rHead, Waiting + 1) = rTail
  BY SpanAndPlaces DEF RingTyped, Waiting
<1>4. Item(Waiting + 1) = rBuffer[rTail]
  BY <1>3 DEF Item
<1>5. \A k \in 1 .. Waiting' : k \in 1 .. Waiting \/ k = Waiting + 1
  BY <1>1
<1> QED BY <1>1, <1>2, <1>4, <1>5

LEMMA ClaimTakesItem ==
  ASSUME RingTyped, Waiting > 0, rHead' = Succ(rHead), UNCHANGED <<rBuffer, rTail>>
  PROVE  /\ Waiting' = Waiting - 1
         /\ \A k \in 1 .. Waiting - 1 : Item(k)' = Item(k + 1)
<1>1. Waiting' = Waiting - 1
  <2>1. Span(rHead, rTail) > 0 => Span(Succ(rHead), rTail) = Span(rHead, rTail) - 1
    BY SpanAndPlaces, ZenonT(40) DEF RingTyped
  <2> QED BY <2>1 DEF Waiting
<1>2. \A k \in 1 .. Waiting - 1 : k \in 1 .. Capacity - 1
  BY WaitingIs, CapacityAssumption
<1>3. \A k \in 1 .. Waiting - 1 : Place(rHead', k) = Place(rHead, k + 1)
  <2>1. \A k \in 1 .. Capacity - 1 : Place(Succ(rHead), k) = Place(rHead, k + 1)
    BY SpanAndPlaces DEF RingTyped
  <2> QED BY <1>2, <2>1
<1> QED BY <1>1, <1>3 DEF Item

-----------------------------------------------------------------------------
LEMMA PushKeepsPair ==
  ASSUME Ring!RingAssumption, RingTyped, RingTyped', NEW p \in Producers, NEW c \in Consumers, p # c, PairInv(p, c),
         Ring!PushCall(p) \/ Ring!Push(p)
  PROVE  PairInv(p, c)'
<1> DEFINE Others == \A t \in Ring!Threads \ {p, c} : rPc[t] = "idle"
           Inside == \A k \in 1 .. Waiting : Item(k) \in Ring!Pushes
<1>1. p \in Ring!Threads /\ c \in Ring!Threads
  BY DEF Ring!Threads
<1>2. Waiting \in 0 .. Capacity - 1 /\ rTail \in Slots /\ rHead \in Slots
  BY WaitingIs DEF RingTyped
<1>3. Others /\ PusherInv(p) /\ PopperInv(c) /\ Inside
  BY DEF PairInv
<1>4. Others'
  BY <1>1, <1>3 DEF RingTyped, Ring!Goto, Ring!Push, Ring!PushCall, Ring!PushLoadTail, Ring!PushFull,
     Ring!PushRoom, Ring!PushWrite, Ring!PushClaim, Ring!PushRetry
<1>5. CASE UNCHANGED <<rBuffer, rHead, rTail>>
  <2>1. Waiting' = Waiting /\ \A k : Item(k)' = Item(k)
    BY <1>5 DEF Waiting, Item
  <2>2. rPc'[c] = rPc[c] /\ rAt'[c] = rAt[c] /\ rItem'[c] = rItem[c]
    BY <1>1 DEF RingTyped, Ring!Goto, Ring!Push, Ring!PushCall, Ring!PushLoadTail, Ring!PushFull,
       Ring!PushRoom, Ring!PushWrite, Ring!PushClaim, Ring!PushRetry
  <2>3. PopperInv(c)'
    BY <1>3, <1>5, <2>1, <2>2 DEF PopperInv
  <2>4. Inside'
    BY <1>3, <2>1
  <2>5. PusherInv(p)'
    <3> USE DEF PusherInv, Ring!Goto
    <3>1. CASE Ring!PushCall(p)
      <4>1. rPc'[p] = "load tail" /\ rItem'[p] = <<p, rCalls[p] + 1>>
        BY <1>1, <3>1 DEF Ring!PushCall, RingTyped
      <4>2. <<p, rCalls[p] + 1>> \in Ring!Pushes
        BY <3>1, CallIsPush
      <4> QED BY <4>1, <4>2
    <3>2. CASE Ring!PushLoadTail(p)
      BY <1>1, <1>3, <1>5, <3>2 DEF Ring!PushLoadTail, RingTyped
    <3>3. CASE Ring!PushFull(p)
      BY <1>1, <1>3, <1>5, <3>3 DEF Ring!PushFull, RingTyped
    <3>4. CASE Ring!PushRoom(p)
      <4>1. /\ rPc[p] = "check head" /\ rPc'[p] = "write" /\ rAt' = rAt /\ rItem' = rItem
            /\ Succ(rAt[p]) # rHead
        BY <1>1, <3>4 DEF Ring!PushRoom, RingTyped, Ring!Full, Ring!Succ, Succ
      <4>2. rAt[p] = rTail /\ rItem[p] \in Ring!Pushes
        BY <1>3, <4>1
      <4>3. Waiting # Capacity - 1
        BY <4>1, <4>2, WaitingIs
      <4>4. Waiting' < Capacity - 1
        BY <1>2, <2>1, <4>3, CapacityAssumption
      <4> QED BY <1>5, <4>1, <4>2, <4>4
    <3>5. CASE Ring!PushWrite(p)
      BY <1>1, <1>3, <1>5, <2>1, <3>5, ZenonT(40) DEF Ring!PushWrite, RingTyped
    <3>6. CASE Ring!PushClaim(p)
      BY <1>1, <1>3, <1>5, <3>6 DEF Ring!PushClaim, RingTyped
    <3>7. CASE Ring!PushRetry(p)
      BY <1>1, <1>3, <1>5, <3>7 DEF Ring!PushRetry, RingTyped
    <3> QED BY <3>1, <3>2, <3>3, <3>4, <3>5, <3>6, <3>7 DEF Ring!Push
  <2> QED BY <1>4, <2>3, <2>4, <2>5 DEF PairInv
<1>6. CASE Ring!PushWrite(p)
  <2>1. /\ rPc[p] = "write" /\ rPc' = [rPc EXCEPT ![p] = "claim"] /\ rBuffer' = [rBuffer EXCEPT ![rTail] = rItem[p]]
        /\ UNCHANGED <<rHead, rTail, rAt, rItem>>
    BY <1>3, <1>6 DEF Ring!PushWrite, Ring!Goto, PusherInv
  <2>2. Waiting' = Waiting /\ \A k \in 1 .. Waiting : Item(k)' = Item(k)
    BY <2>1, WriteKeepsItems
  <2>3. Inside'
    BY <1>3, <2>2
  <2>4. PusherInv(p)'
    BY <1>1, <1>2, <1>3, <2>1, <2>2 DEF PusherInv, RingTyped
  <2>5. rPc'[c] = rPc[c]
    BY <1>1, <2>1 DEF RingTyped
  <2>6. rPc[c] = "claim" => rBuffer'[rHead] = rBuffer[rHead]
    <3>1. rPc[c] = "claim" => Waiting > 0
      BY <1>3 DEF PopperInv
    <3>2. rPc[c] = "claim" => rHead # rTail
      BY <3>1, WaitingIs
    <3> QED BY <2>1, <3>2 DEF RingTyped
  <2>7. PopperInv(c)'
    BY <1>3, <2>1, <2>2, <2>5, <2>6 DEF PopperInv
  <2> QED BY <1>4, <2>3, <2>4, <2>7 DEF PairInv
<1>7. CASE Ring!PushClaim(p)
  <2>1. /\ rPc[p] = "claim" /\ rPc' = [rPc EXCEPT ![p] = "idle"] /\ rTail' = Succ(rTail)
        /\ UNCHANGED <<rBuffer, rHead, rAt, rItem>>
    BY <1>7 DEF Ring!PushClaim, Ring!Goto, Ring!Succ, Succ
  <2>2. Waiting < Capacity - 1 /\ rBuffer[rTail] \in Ring!Pushes
    BY <1>3, <2>1 DEF PusherInv
  <2>3. /\ Waiting' = Waiting + 1
        /\ \A k \in 1 .. Waiting : Item(k)' = Item(k)
        /\ \A k \in 1 .. Waiting' : k \in 1 .. Waiting \/ Item(k)' = rBuffer[rTail]
    BY <2>1, <2>2, ClaimAddsItem
  <2>4. Inside'
    <3>1. ASSUME NEW k \in 1 .. Waiting' PROVE Item(k)' \in Ring!Pushes
      BY <1>3, <2>2, <2>3
    <3>2. Ring!Pushes' = Ring!Pushes
      BY DEF Ring!Pushes
    <3> QED BY <3>1, <3>2
  <2>5. PusherInv(p)'
    BY <1>1, <2>1 DEF PusherInv, RingTyped
  <2>6. rPc'[c] = rPc[c] /\ (Waiting > 0 => Waiting' > 0)
    <3>1. rPc'[c] = rPc[c]
      BY <1>1, <2>1 DEF RingTyped
    <3>2. Waiting \in Nat /\ Waiting' = Waiting + 1
      BY <1>2, <2>3, CapacityAssumption
    <3> QED BY <3>1, <3>2
  <2>7. PopperInv(c)'
    BY <1>3, <2>1, <2>6 DEF PopperInv
  <2> QED BY <1>4, <2>4, <2>5, <2>7 DEF PairInv
<1> QED
  BY <1>5, <1>6, <1>7 DEF Ring!Push, Ring!PushCall, Ring!PushLoadTail, Ring!PushFull, Ring!PushRoom, Ring!PushRetry

LEMMA PopKeepsPair ==
  ASSUME RingTyped, RingTyped', NEW p \in Producers, NEW c \in Consumers, p # c, PairInv(p, c),
         Ring!Pop(c)
  PROVE  PairInv(p, c)'
<1> DEFINE Others == \A t \in Ring!Threads \ {p, c} : rPc[t] = "idle"
           Inside == \A k \in 1 .. Waiting : Item(k) \in Ring!Pushes
<1>1. p \in Ring!Threads /\ c \in Ring!Threads
  BY DEF Ring!Threads
<1>2. Waiting \in Nat /\ Waiting \in 0 .. Capacity - 1 /\ rTail \in Slots /\ rHead \in Slots
  <2>1. Waiting \in 0 .. Capacity - 1
    BY WaitingIs
  <2>2. Waiting \in Nat
    BY <2>1, CapacityAssumption
  <2> QED BY <2>1, <2>2 DEF RingTyped
<1>3. Others /\ PusherInv(p) /\ PopperInv(c) /\ Inside
  BY DEF PairInv
<1>4. /\ Others'
      /\ rPc'[p] = rPc[p] /\ rAt'[p] = rAt[p] /\ rItem'[p] = rItem[p]
      /\ UNCHANGED <<rBuffer, rTail>>
  BY <1>1, <1>3 DEF RingTyped, Ring!Goto, Ring!Pop, Ring!PopLoadHead, Ring!PopEmpty, Ring!PopFound,
     Ring!PopRead, Ring!PopClaim, Ring!PopRetry
<1>5. CASE UNCHANGED rHead
  <2>1. Waiting' = Waiting /\ \A k : Item(k)' = Item(k)
    BY <1>4, <1>5 DEF Waiting, Item
  <2>2. PusherInv(p)' /\ Inside'
    BY <1>3, <1>4, <1>5, <2>1 DEF PusherInv
  <2>3. PopperInv(c)'
    <3> USE DEF PopperInv, Ring!Goto
    <3>1. CASE Ring!PopLoadHead(c)
      BY <1>1, <1>3, <1>5, <3>1 DEF Ring!PopLoadHead, RingTyped
    <3>2. CASE Ring!PopEmpty(c)
      BY <1>1, <1>3, <1>5, <3>2 DEF Ring!PopEmpty, RingTyped
    <3>3. CASE Ring!PopFound(c)
      <4>1. /\ rPc[c] = "check tail" /\ rPc'[c] = "read" /\ rAt' = rAt
            /\ rAt[c] # rTail
        BY <1>1, <3>3 DEF Ring!PopFound, RingTyped, Ring!Empty
      <4>2. rAt[c] = rHead
        BY <1>3, <4>1
      <4>3. Waiting # 0
        BY <4>1, <4>2, WaitingIs
      <4>4. Waiting' > 0
        BY <1>2, <2>1, <4>3
      <4> QED BY <1>5, <4>1, <4>2, <4>4
    <3>4. CASE Ring!PopRead(c)
      BY <1>1, <1>3, <1>4, <1>5, <2>1, <3>4 DEF Ring!PopRead, RingTyped
    <3>5. CASE Ring!PopClaim(c)
      BY <1>1, <1>3, <1>5, <3>5 DEF Ring!PopClaim, RingTyped
    <3>6. CASE Ring!PopRetry(c)
      BY <1>1, <1>3, <1>5, <3>6 DEF Ring!PopRetry, RingTyped
    <3> QED BY <3>1, <3>2, <3>3, <3>4, <3>5, <3>6 DEF Ring!Pop
  <2> QED BY <1>4, <2>2, <2>3 DEF PairInv
<1>6. CASE Ring!PopClaim(c)
  <2>1. rPc[c] = "claim" /\ rPc'[c] = "idle" /\ rHead' = Succ(rHead)
    BY <1>1, <1>6 DEF Ring!PopClaim, Ring!Goto, Ring!Succ, Succ, RingTyped
  <2>2. Waiting > 0
    BY <1>3, <2>1 DEF PopperInv
  <2>3. /\ Waiting' = Waiting - 1
        /\ \A k \in 1 .. Waiting - 1 : Item(k)' = Item(k + 1)
    BY <1>4, <2>1, <2>2, ClaimTakesItem
  <2>4. Inside'
    <3>1. ASSUME NEW k \in 1 .. Waiting' PROVE Item(k)' \in Ring!Pushes
      <4>1. k \in 1 .. Waiting - 1 /\ k + 1 \in 1 .. Waiting
        BY <1>2, <2>3
      <4> QED BY <1>3, <2>3, <4>1
    <3>2. Ring!Pushes' = Ring!Pushes
      BY DEF Ring!Pushes
    <3> QED BY <3>1, <3>2
  <2>5. Waiting < Capacity - 1 => Waiting' < Capacity - 1
    BY <1>2, <2>3, CapacityAssumption
  <2>6. PusherInv(p)'
    BY <1>3, <1>4, <2>5 DEF PusherInv
  <2>7. PopperInv(c)'
    BY <2>1 DEF PopperInv
  <2> QED BY <1>4, <2>4, <2>6, <2>7 DEF PairInv
<1> QED
  BY <1>5, <1>6 DEF Ring!Pop, Ring!PopLoadHead, Ring!PopEmpty, Ring!PopFound, Ring!PopRead, Ring!PopRetry

(* Only the producer and the consumer of the setup ever move.              *)
LEMMA OnlyThePair ==
  ASSUME Ring!RingAssumption, RingTyped, NEW p \in Producers, NEW c \in Consumers, Sole(p, c),
         PairInv(p, c), Ring!Next
  PROVE  /\ p # c /\ rSetup' = rSetup
         /\ (Ring!PushCall(p) \/ Ring!Push(p)) \/ Ring!Pop(c)
<1>1. p # c
  BY DEF Ring!RingAssumption
<1>2. rSetup' = rSetup
  BY DEF Ring!Next, Ring!Push, Ring!PushCall, Ring!PushLoadTail, Ring!PushFull,
     Ring!PushRoom, Ring!PushWrite, Ring!PushClaim, Ring!PushRetry, Ring!Pop, Ring!PopLoadHead,
     Ring!PopEmpty, Ring!PopFound, Ring!PopRead, Ring!PopClaim, Ring!PopRetry
<1>3. ASSUME NEW q \in Producers, Ring!PushCall(q) \/ Ring!Push(q) PROVE q = p
  <2>1. CASE Ring!PushCall(q)
    <3>1. rSetup \in [push : [Producers -> 0 .. MaxPush], poll : SUBSET Consumers] /\ MaxPush \in Nat
      BY DEF Ring!RingAssumption, RingTyped
    <3> DEFINE n == rCalls[q]
               m == rSetup.push[q]
    <3>2. n < m /\ m \in 0 .. MaxPush /\ n \in Nat
      BY <2>1, <3>1 DEF Ring!PushCall, RingTyped
    <3> HIDE DEF n, m
    <3>4. m > 0
      BY <3>1, <3>2
    <3>3. rSetup.push[q] > 0
      BY <3>4 DEF m
    <3> QED BY <3>3 DEF Sole
  <2>2. CASE Ring!Push(q)
    <3>1. rPc[q] # "idle"
      BY <2>2 DEF Ring!Push, Ring!Goto, Ring!PushLoadTail, Ring!PushFull,
         Ring!PushRoom, Ring!PushWrite, Ring!PushClaim, Ring!PushRetry
    <3>2. q \in Ring!Threads /\ q # c
      BY DEF Ring!Threads, Ring!RingAssumption
    <3> QED BY <3>1, <3>2 DEF PairInv
  <2> QED BY <1>3, <2>1, <2>2
<1>4. ASSUME NEW d \in Consumers, Ring!Pop(d) PROVE d = c
  <2>1. CASE Ring!PopLoadHead(d)
    BY <2>1 DEF Ring!PopLoadHead, Sole
  <2>2. CASE ~Ring!PopLoadHead(d)
    <3>1. rPc[d] # "idle"
      BY <1>4, <2>2 DEF Ring!Pop, Ring!Goto, Ring!PopEmpty, Ring!PopFound, Ring!PopRead, Ring!PopClaim,
         Ring!PopRetry
    <3>2. d \in Ring!Threads /\ d # p
      BY DEF Ring!Threads, Ring!RingAssumption
    <3> QED BY <3>1, <3>2 DEF PairInv
  <2> QED BY <2>1, <2>2
<1> QED BY <1>1, <1>2, <1>3, <1>4 DEF Ring!Next

LEMMA RingStepInv == ASSUME Ring!RingAssumption, RingInv, [Ring!Next]_(Ring!vars) PROVE RingInv'
<1> USE DEF RingInv
<1>1. CASE UNCHANGED Ring!vars
  <2>1. UNCHANGED <<rBuffer, rHead, rTail, rPc, rAt, rItem, rCalls, rSetup>>
    BY <1>1 DEF Ring!vars, Ring!ring
  <2>2. RingTyped'
    BY <2>1 DEF RingTyped
  <2>3. SoleInv'
    <3>1. Waiting' = Waiting /\ (\A k : Item(k)' = Item(k)) /\ Ring!Pushes' = Ring!Pushes
      BY <2>1 DEF Waiting, Item, Ring!Pushes
    <3>2. ASSUME NEW p \in Producers, NEW c \in Consumers, Sole(p, c)' PROVE PairInv(p, c)'
      <4>1. PairInv(p, c)
        BY <2>1, <3>2 DEF SoleInv, Sole
      <4>2. PusherInv(p)' /\ PopperInv(c)'
        BY <2>1, <3>1, <4>1 DEF PairInv, PusherInv, PopperInv
      <4> QED BY <2>1, <3>1, <4>1, <4>2 DEF PairInv
    <3> QED BY <3>2 DEF SoleInv
  <2> QED BY <2>2, <2>3
<1>2. CASE Ring!Next
  <2>1. RingTyped'
    BY <1>2, PushStepTyped, PopStepTyped DEF Ring!Next
  <2>2. ASSUME NEW p \in Producers, NEW c \in Consumers, Sole(p, c)' PROVE PairInv(p, c)'
    <3>1. rSetup' = rSetup
      BY <1>2 DEF Ring!Next, Ring!Push, Ring!PushCall, Ring!PushLoadTail, Ring!PushFull,
         Ring!PushRoom, Ring!PushWrite, Ring!PushClaim, Ring!PushRetry, Ring!Pop, Ring!PopLoadHead,
         Ring!PopEmpty, Ring!PopFound, Ring!PopRead, Ring!PopClaim, Ring!PopRetry
    <3>2. Sole(p, c) /\ PairInv(p, c)
      BY <2>2, <3>1 DEF Sole, SoleInv
    <3>3. p # c /\ ((Ring!PushCall(p) \/ Ring!Push(p)) \/ Ring!Pop(c))
      BY <1>2, <3>2, OnlyThePair
    <3> QED BY <2>1, <3>2, <3>3, PushKeepsPair, PopKeepsPair
  <2> QED BY <2>1, <2>2 DEF SoleInv
<1> QED BY <1>1, <1>2

-----------------------------------------------------------------------------
(* The refinement: the items between the indexes are the abstract queue.   *)
LEMMA RingContents ==
  ASSUME RingTyped, \A k \in 1 .. Waiting : Item(k) \in Ring!Pushes
  PROVE  /\ Ring!contents = [k \in 1 .. Waiting |-> Item(k)]
         /\ Ring!contents \in Seq(Ring!Pushes) /\ Len(Ring!contents) = Waiting /\ Waiting \in Nat
<1>1. Waiting \in 0 .. Capacity - 1
  BY WaitingIs
<1>2. Waiting \in Nat
  BY <1>1, CapacityAssumption
<1>3. Ring!contents = [k \in 1 .. Waiting |-> Item(k)]
  BY DEF Ring!contents, Ring!Distance, Waiting, Span, Item, Place
<1> QED BY <1>2, <1>3, LenProperties

LEMMA RingContentsNext ==
  Ring!contents' = [k \in 1 .. Waiting' |-> Item(k)']
BY DEF Ring!contents, Ring!Distance, Waiting, Span, Item, Place

LEMMA ClaimIsPut ==
  ASSUME RingTyped, NEW p \in Producers, NEW c \in Consumers, PairInv(p, c), Ring!PushClaim(p)
  PROVE  /\ Len(Ring!contents) < Capacity - 1
         /\ Ring!contents' = Append(Ring!contents, rItem[p])
         /\ rItem[p] \in Ring!Pushes
<1>1. p \in Ring!Threads
  BY DEF Ring!Threads
<1>2. /\ rPc[p] = "claim" /\ rTail' = Succ(rTail) /\ UNCHANGED <<rBuffer, rHead>>
  BY <1>1 DEF Ring!PushClaim, Ring!Goto, Ring!Succ, Succ
<1>3. Waiting < Capacity - 1 /\ rBuffer[rTail] = rItem[p] /\ rItem[p] \in Ring!Pushes
  BY <1>2 DEF PairInv, PusherInv
<1>4. /\ Ring!contents = [k \in 1 .. Waiting |-> Item(k)]
      /\ Ring!contents \in Seq(Ring!Pushes) /\ Len(Ring!contents) = Waiting /\ Waiting \in Nat
  BY RingContents DEF PairInv
<1>5. Ring!contents' = [k \in 1 .. Waiting' |-> Item(k)']
  BY RingContentsNext
<1>6. /\ Waiting' = Waiting + 1
      /\ \A k \in 1 .. Waiting : Item(k)' = Item(k)
      /\ \A k \in 1 .. Waiting' : k \in 1 .. Waiting \/ Item(k)' = rBuffer[rTail]
  BY <1>2, <1>3, ClaimAddsItem
<1>7. Ring!contents' = [k \in 1 .. Waiting + 1 |-> IF k \in 1 .. Waiting THEN Item(k) ELSE rItem[p]]
  BY <1>3, <1>5, <1>6
<1>8. Append(Ring!contents, rItem[p])
        = [k \in 1 .. Waiting + 1 |-> IF k \in 1 .. Waiting THEN Item(k) ELSE rItem[p]]
  BY <1>4
<1> QED BY <1>3, <1>4, <1>7, <1>8

LEMMA ClaimIsTake ==
  ASSUME RingTyped, NEW p \in Producers, NEW c \in Consumers, PairInv(p, c), Ring!PopClaim(c)
  PROVE  /\ Ring!contents # <<>>
         /\ rItem[c] = Head(Ring!contents)
         /\ Ring!contents' = Tail(Ring!contents)
<1>1. c \in Ring!Threads
  BY DEF Ring!Threads
<1>2. /\ rPc[c] = "claim" /\ rHead' = Succ(rHead) /\ UNCHANGED <<rBuffer, rTail>>
  BY <1>1 DEF Ring!PopClaim, Ring!Goto, Ring!Succ, Succ
<1>3. Waiting > 0 /\ rItem[c] = rBuffer[rHead]
  BY <1>2 DEF PairInv, PopperInv
<1>4. /\ Ring!contents = [k \in 1 .. Waiting |-> Item(k)]
      /\ Ring!contents \in Seq(Ring!Pushes) /\ Len(Ring!contents) = Waiting /\ Waiting \in Nat
  BY RingContents DEF PairInv
<1>5. Ring!contents' = [k \in 1 .. Waiting - 1 |-> Item(k + 1)]
  BY <1>2, <1>3, RingContentsNext, ClaimTakesItem
<1>6. Item(1) = rBuffer[rHead]
  BY WaitingIs
<1>7. Ring!contents # <<>> /\ Head(Ring!contents) = rItem[c]
  BY <1>3, <1>4, <1>6
<1>8. Ring!contents' = Tail(Ring!contents)
  <2>1. /\ Tail(Ring!contents) \in Seq(Ring!Pushes) /\ Len(Tail(Ring!contents)) = Waiting - 1
        /\ \A k \in 1 .. Waiting - 1 : Tail(Ring!contents)[k] = Ring!contents[k + 1]
    BY <1>4, <1>7, HeadTailProperties
  <2>2. \A k \in 1 .. Waiting - 1 : Ring!contents[k + 1] = Item(k + 1)
    BY <1>4
  <2>3. Tail(Ring!contents) = [k \in 1 .. Waiting - 1 |-> Tail(Ring!contents)[k]]
    BY <2>1, LenProperties
  <2> QED BY <1>5, <2>1, <2>2, <2>3
<1> QED BY <1>7, <1>8

LEMMA RingStepRefines ==
  ASSUME Ring!RingAssumption, RingInv, [Ring!Next]_(Ring!vars)
  PROVE  [Ring!Abstract!AbsNext]_(Ring!Abstract!absVars)
<1> USE DEF RingInv
<1>1. CASE UNCHANGED Ring!vars
  <2>1. UNCHANGED <<rBuffer, rHead, rTail, rSent, rGot, rSetup>>
    BY <1>1 DEF Ring!vars, Ring!ring
  <2>2. Ring!contents' = Ring!contents /\ Ring!OneEach' = Ring!OneEach
    BY <2>1 DEF Ring!contents, Ring!Distance, Ring!OneEach
  <2> QED BY <2>1, <2>2 DEF Ring!Abstract!absVars
<1>2. ASSUME Ring!Next PROVE rSetup' = rSetup /\ Ring!OneEach' = Ring!OneEach
  BY <1>2 DEF Ring!OneEach, Ring!Next, Ring!Push, Ring!PushCall, Ring!PushLoadTail, Ring!PushFull,
     Ring!PushRoom, Ring!PushWrite, Ring!PushClaim, Ring!PushRetry, Ring!Pop, Ring!PopLoadHead,
     Ring!PopEmpty, Ring!PopFound, Ring!PopRead, Ring!PopClaim, Ring!PopRetry
<1>3. CASE Ring!Next /\ ~Ring!OneEach
  BY <1>2, <1>3 DEF Ring!Abstract!absVars
<1>4. CASE Ring!Next /\ Ring!OneEach
  <2>1. PICK p \in Producers, c \in Consumers : Sole(p, c)
    BY <1>4 DEF Ring!OneEach, Sole
  <2>2. PairInv(p, c)
    BY <2>1 DEF SoleInv
  <2>3. (Ring!PushCall(p) \/ Ring!Push(p)) \/ Ring!Pop(c)
    BY <1>4, <2>1, <2>2, OnlyThePair
  <2>4. Ring!OneEach /\ Ring!OneEach'
    BY <1>2, <1>4
  <2>5. /\ \A k \in 1 .. Waiting : Item(k) \in Ring!Pushes
        /\ PusherInv(p) /\ PopperInv(c)
    BY <2>2 DEF PairInv
  <2>6. Len(Ring!contents) = Waiting /\ Waiting \in Nat /\ Ring!contents \in Seq(Ring!Pushes)
    BY <2>5, RingContents
  <2>7. UNCHANGED <<rBuffer, rHead, rTail>> => Ring!contents' = Ring!contents
    BY DEF Ring!contents, Ring!Distance
  <2>8. CASE Ring!PushClaim(p)
    <3>1. rSent' = TRUE /\ rGot' = rGot
      BY <2>8 DEF Ring!PushClaim
    <3>2. Ring!Abstract!Put(rItem[p]) /\ rItem[p] \in Ring!Pushes
      BY <2>2, <2>4, <2>8, <3>1, ClaimIsPut DEF Ring!Abstract!Put
    <3> QED BY <3>2 DEF Ring!Abstract!AbsNext
  <2>9. CASE Ring!PushFull(p)
    <3>1. rSent' = FALSE /\ rGot' = rGot /\ UNCHANGED <<rBuffer, rHead, rTail>>
          /\ rPc[p] = "check head" /\ Succ(rAt[p]) = rHead
      BY <2>9 DEF Ring!PushFull, Ring!Goto, Ring!Full, Ring!Succ, Succ
    <3>2. Len(Ring!contents) = Capacity - 1
      BY <2>5, <2>6, <3>1, WaitingIs DEF PusherInv
    <3>3. Ring!Abstract!Refuse
      BY <2>4, <2>7, <3>1, <3>2 DEF Ring!Abstract!Refuse
    <3> QED BY <3>3 DEF Ring!Abstract!AbsNext
  <2>10. CASE Ring!PopClaim(c)
    <3>1. rGot' = rItem[c] /\ rSent' = rSent
      BY <2>10 DEF Ring!PopClaim
    <3>2. Ring!Abstract!Take
      BY <2>2, <2>4, <2>10, <3>1, ClaimIsTake DEF Ring!Abstract!Take
    <3> QED BY <3>2 DEF Ring!Abstract!AbsNext
  <2>11. CASE Ring!PopEmpty(c)
    <3>1. rGot' = NoItem /\ rSent' = rSent /\ UNCHANGED <<rBuffer, rHead, rTail>>
          /\ rPc[c] = "check tail" /\ rAt[c] = rTail
      BY <2>11 DEF Ring!PopEmpty, Ring!Goto, Ring!Empty
    <3>2. Waiting = 0
      BY <2>5, <3>1, WaitingIs DEF PopperInv
    <3>3. Ring!contents = <<>>
      BY <2>6, <3>2
    <3>4. Ring!Abstract!FindEmpty
      BY <2>4, <2>7, <3>1, <3>3 DEF Ring!Abstract!FindEmpty
    <3> QED BY <3>4 DEF Ring!Abstract!AbsNext
  <2>12. CASE Ring!PushWrite(p)
    <3>1. /\ rPc[p] = "write" /\ rBuffer' = [rBuffer EXCEPT ![rAt[p]] = rItem[p]]
          /\ UNCHANGED <<rHead, rTail, rSent, rGot>>
      BY <2>12 DEF Ring!PushWrite, Ring!Goto
    <3>2. rAt[p] = rTail
      BY <2>5, <3>1 DEF PusherInv
    <3>3. Waiting' = Waiting /\ \A k \in 1 .. Waiting : Item(k)' = Item(k)
      BY <3>1, <3>2, WriteKeepsItems
    <3>4. Ring!contents' = Ring!contents
      BY <2>5, <3>3, RingContents, RingContentsNext
    <3> QED BY <2>4, <3>1, <3>4 DEF Ring!Abstract!absVars
  <2>13. CASE UNCHANGED <<rBuffer, rHead, rTail, rSent, rGot>>
    BY <2>4, <2>7, <2>13 DEF Ring!Abstract!absVars
  <2> QED
    BY <2>3, <2>8, <2>9, <2>10, <2>11, <2>12, <2>13 DEF Ring!Push, Ring!PushCall, Ring!PushLoadTail,
       Ring!PushRoom, Ring!PushRetry, Ring!Pop, Ring!PopLoadHead, Ring!PopFound, Ring!PopRead, Ring!PopRetry
<1> QED BY <1>1, <1>3, <1>4

(* For every capacity and however often its indexes wrap: with one         *)
(* producer and one consumer, among any number of idle ones, the           *)
(* compare-and-set ring is a bounded FIFO whose answers are true           *)
(* (RingBuffer.push, try_push, pop, try_pop).                              *)
THEOREM CasRingIsBoundedQueue ==
  ASSUME Ring!RingAssumption
  PROVE  Ring!Spec => RingIsQueue
<1>1. Ring!Init => RingInv
  BY RingInitInv
<1>2. RingInv /\ [Ring!Next]_(Ring!vars) => RingInv'
  BY RingStepInv
<1>3. Ring!Init => Ring!Abstract!AbsInit
  <2> SUFFICES ASSUME Ring!Init PROVE Ring!Abstract!AbsInit
    OBVIOUS
  <2>1. rSent = TRUE /\ rGot = NoItem /\ rHead = 0 /\ rTail = 0
    BY DEF Ring!Init
  <2>2. RingTyped
    BY RingInitInv DEF RingInv
  <2>3. Waiting = 0
    BY <2>1, <2>2, WaitingIs
  <2>4. Ring!contents = <<>>
    BY <2>2, <2>3, RingContents
  <2> QED BY <2>1, <2>4 DEF Ring!Abstract!AbsInit
<1>4. RingInv /\ [Ring!Next]_(Ring!vars) => [Ring!Abstract!AbsNext]_(Ring!Abstract!absVars)
  BY RingStepRefines
<1> QED
  BY <1>1, <1>2, <1>3, <1>4, PTL DEF RingIsQueue, Ring!Spec, Ring!ImplementsBoundedQueue, Ring!Abstract!AbsSpec

-----------------------------------------------------------------------------
(* The count.  Until the tail has gone round once the indexes are the      *)
(* counts themselves, and what a thread has loaded is never ahead of them: *)
(* a compare-and-set that succeeds found the index it loaded.  With one    *)
(* producer and one consumer the window says it, however often they wrap.  *)

NotRound ==
  Len(rPushed) < Capacity =>
    /\ rTail = Len(rPushed) /\ rHead = Len(rPopped) /\ Len(rPopped) <= Len(rPushed)
    /\ \A c \in Consumers : /\ rPc[c] # "idle" => rAt[c] <= rHead
                            /\ rPc[c] \in {"read", "claim"} => rAt[c] # rTail
                            /\ rPc[c] \in {"idle", "check tail", "read", "claim"}

PairCounts == Ring!OneEach => Len(rPushed) = Len(rPopped) + Waiting

Counts == Told /\ NotRound /\ PairCounts

LEMMA SlotsAreNat == \A i \in Slots : i \in Nat /\ i < Capacity /\ i <= i
BY CapacityAssumption DEF Slots

LEMMA CountsInit == ASSUME Ring!RingAssumption, Ring!Init PROVE Counts
<1>1. /\ rPushed = <<>> /\ rPopped = <<>> /\ rSent = TRUE /\ rGot = NoItem /\ rHead = 0 /\ rTail = 0
      /\ rPc = [t \in Ring!Threads |-> "idle"]
  BY DEF Ring!Init
<1>2. Told
  BY <1>1, EmptySeq DEF Told
<1>3. Len(rPushed) = 0 /\ Len(rPopped) = 0
  BY <1>1, EmptySeq
<1>4. \A c \in Consumers : rPc[c] = "idle"
  BY <1>1 DEF Ring!Threads
<1>a. Len(rPopped) <= Len(rPushed)
  BY <1>3
<1>5. NotRound
  BY <1>1, <1>3, <1>4, <1>a DEF NotRound
<1>6. Waiting = 0
  BY <1>1, RingInitInv, WaitingIs DEF RingInv
<1> QED BY <1>2, <1>3, <1>5, <1>6 DEF Counts, PairCounts

(* A step that claims nothing. *)
LEMMA RestKeepsCounts ==
  ASSUME RingTyped, Counts, UNCHANGED <<rHead, rTail, rPushed, rPopped>>, Ring!OneEach' = Ring!OneEach,
         Told',
         \A c \in Consumers :
           /\ rPc'[c] # "idle" => rAt'[c] = rHead \/ (rPc[c] # "idle" /\ rAt'[c] = rAt[c])
           /\ rPc'[c] \in {"read", "claim"} =>
                rAt'[c] # rTail \/ (rPc[c] \in {"read", "claim"} /\ rAt'[c] = rAt[c])
           /\ rPc[c] \in {"idle", "check tail", "read", "claim"}
                => rPc'[c] \in {"idle", "check tail", "read", "claim"}
  PROVE  Counts'
<1>1. Waiting' = Waiting
  BY DEF Waiting
<1>2. PairCounts'
  BY <1>1 DEF Counts, PairCounts
<1>3. rHead \in Slots
  BY DEF RingTyped
<1>b. rHead <= rHead
  BY <1>3, SlotsAreNat
<1>4. NotRound'
  <2> SUFFICES ASSUME Len(rPushed) < Capacity, NEW c \in Consumers
               PROVE  /\ rPc'[c] # "idle" => rAt'[c] <= rHead
                      /\ rPc'[c] \in {"read", "claim"} => rAt'[c] # rTail
                      /\ rPc'[c] \in {"idle", "check tail", "read", "claim"}
    BY DEF Counts, NotRound
  <2>1. /\ rPc[c] # "idle" => rAt[c] <= rHead
        /\ rPc[c] \in {"read", "claim"} => rAt[c] # rTail
        /\ rPc[c] \in {"idle", "check tail", "read", "claim"}
    BY DEF Counts, NotRound
  <2> QED BY <1>b, <2>1
<1> QED BY <1>2, <1>4 DEF Counts

LEMMA PushKeepsCounts ==
  ASSUME Ring!RingAssumption, RingTyped, Counts, Told', Ring!OneEach' = Ring!OneEach,
         NEW p \in Producers, Ring!PushCall(p) \/ Ring!Push(p),
         Ring!OneEach => \E c \in Consumers : PairInv(p, c)
  PROVE  Counts'
<1>1. p \in Ring!Threads /\ \A c \in Consumers : c \in Ring!Threads /\ c # p
  BY DEF Ring!Threads, Ring!RingAssumption
<1>2. \A c \in Consumers : rPc'[c] = rPc[c] /\ rAt'[c] = rAt[c]
  BY <1>1 DEF RingTyped, Ring!Goto, Ring!Push, Ring!PushCall, Ring!PushLoadTail, Ring!PushFull,
     Ring!PushRoom, Ring!PushWrite, Ring!PushClaim, Ring!PushRetry
<1>3. CASE Ring!PushClaim(p)
  <2>1. /\ rTail = rAt[p] /\ rPc[p] = "claim" /\ rTail' = Succ(rTail) /\ rHead' = rHead
        /\ rPushed' = Append(rPushed, rItem[p]) /\ rPopped' = rPopped /\ rBuffer' = rBuffer
    BY <1>3 DEF Ring!PushClaim, Ring!Goto, Ring!Succ, Succ
  <2>2. /\ Len(rPushed') = Len(rPushed) + 1 /\ Len(rPushed) \in Nat /\ Len(rPopped) \in Nat
    <3>1. rItem[p] \in Ring!Pushes \union {NoItem}
      BY <1>1 DEF RingTyped
    <3> QED BY <2>1, <3>1, AppendProperties DEF Counts, Told
  <2>3. NotRound'
    <3> SUFFICES ASSUME Len(rPushed) + 1 < Capacity
                 PROVE  /\ rTail' = Len(rPushed) + 1 /\ rHead = Len(rPopped)
                        /\ Len(rPopped) <= Len(rPushed) + 1
                        /\ \A c \in Consumers : /\ rPc[c] # "idle" => rAt[c] <= rHead
                                                /\ rPc[c] \in {"read", "claim"} => rAt[c] # rTail'
                                                /\ rPc[c] \in {"idle", "check tail", "read", "claim"}
      BY <1>2, <2>1, <2>2 DEF NotRound
    <3>1. /\ rTail = Len(rPushed) /\ rHead = Len(rPopped) /\ Len(rPopped) <= Len(rPushed)
          /\ \A c \in Consumers : /\ rPc[c] # "idle" => rAt[c] <= rHead
                                  /\ rPc[c] \in {"read", "claim"} => rAt[c] # rTail
                                  /\ rPc[c] \in {"idle", "check tail", "read", "claim"}
      <4>1. Len(rPushed) < Capacity
        BY <2>2, CapacityAssumption
      <4> QED BY <4>1 DEF Counts, NotRound
    <3>2. rTail \in Slots /\ \A c \in Consumers : rAt[c] \in Slots
      BY <1>1 DEF RingTyped
    <3>3. rTail' = rTail + 1
      <4>a. rTail \in Nat /\ rTail + 1 < Capacity /\ Capacity \in Nat
        BY <2>2, <3>1, CapacityAssumption
      <4>1. rTail + 1 # Capacity
        BY <4>a
      <4> QED BY <2>1, <3>2, <4>1, SuccWraps
    <3>4. \A c \in Consumers : rPc[c] # "idle" => rAt[c] # rTail'
      <4> SUFFICES ASSUME NEW c \in Consumers, rPc[c] # "idle" PROVE rAt[c] # rTail + 1
        BY <3>3
      <4>1. rAt[c] <= rHead
        BY <3>1
      <4>2. rAt[c] \in Nat /\ rHead \in Nat /\ rTail \in Nat /\ rHead <= rTail
        BY <3>1, <3>2, <2>2, SlotsAreNat
      <4> QED BY <4>1, <4>2
    <3>a. Len(rPopped) <= Len(rPushed) /\ Len(rPopped) \in Nat /\ Len(rPushed) \in Nat
      BY <2>2, <3>1
    <3>5. Len(rPopped) <= Len(rPushed) + 1
      BY <3>a
    <3> QED BY <3>1, <3>3, <3>4, <3>5
  <2>4. PairCounts'
    <3> SUFFICES ASSUME Ring!OneEach PROVE Len(rPushed') = Len(rPopped') + Waiting'
      BY DEF PairCounts
    <3>1. PICK c \in Consumers : PairInv(p, c)
      OBVIOUS
    <3>2. Waiting < Capacity - 1
      BY <2>1, <3>1 DEF PairInv, PusherInv
    <3>3. Waiting' = Waiting + 1
      BY <2>1, <3>2, ClaimAddsItem
    <3>4. Waiting \in Nat
      BY WaitingIs, CapacityAssumption
    <3> QED BY <2>1, <2>2, <3>3, <3>4 DEF Counts, PairCounts
  <2> QED BY <2>3, <2>4 DEF Counts
<1>4. CASE ~Ring!PushClaim(p)
  <2>1. UNCHANGED <<rHead, rTail, rPushed, rPopped>>
    BY <1>4 DEF Ring!Push, Ring!PushCall, Ring!PushLoadTail, Ring!PushFull, Ring!PushRoom,
       Ring!PushWrite, Ring!PushRetry
  <2> QED BY <1>2, <2>1, RestKeepsCounts
<1> QED BY <1>3, <1>4

LEMMA PopKeepsCounts ==
  ASSUME Ring!RingAssumption, RingTyped, Counts, Told', Ring!OneEach' = Ring!OneEach,
         NEW c \in Consumers, Ring!Pop(c),
         Ring!OneEach => \E p \in Producers : PairInv(p, c)
  PROVE  Counts'
<1>1. \A d \in Consumers : d \in Ring!Threads
  BY DEF Ring!Threads
<1>2. \A d \in Consumers : d # c => rPc'[d] = rPc[d] /\ rAt'[d] = rAt[d]
  BY <1>1 DEF RingTyped, Ring!Goto, Ring!Pop, Ring!PopLoadHead, Ring!PopEmpty, Ring!PopFound,
     Ring!PopRead, Ring!PopClaim, Ring!PopRetry
<1>3. CASE Ring!PopClaim(c)
  <2>1. /\ rHead = rAt[c] /\ rPc[c] = "claim" /\ rPc'[c] = "idle" /\ rHead' = Succ(rHead) /\ rTail' = rTail
        /\ rPopped' = Append(rPopped, rItem[c]) /\ rPushed' = rPushed /\ rBuffer' = rBuffer
    BY <1>1, <1>3 DEF Ring!PopClaim, Ring!Goto, Ring!Succ, Succ, RingTyped
  <2>2. /\ Len(rPopped') = Len(rPopped) + 1 /\ Len(rPushed) \in Nat /\ Len(rPopped) \in Nat
    <3>1. rItem[c] \in Ring!Pushes \union {NoItem}
      BY <1>1 DEF RingTyped
    <3> QED BY <2>1, <3>1, AppendProperties DEF Counts, Told
  <2>3. NotRound'
    <3> SUFFICES ASSUME Len(rPushed) < Capacity
                 PROVE  /\ rTail = Len(rPushed) /\ rHead' = Len(rPopped) + 1
                        /\ Len(rPopped) + 1 <= Len(rPushed)
                        /\ \A d \in Consumers :
                             /\ rPc'[d] # "idle" => rAt'[d] <= rHead'
                             /\ rPc'[d] \in {"read", "claim"} => rAt'[d] # rTail
                             /\ rPc'[d] \in {"idle", "check tail", "read", "claim"}
      BY <2>1, <2>2 DEF NotRound
    <3>1. /\ rTail = Len(rPushed) /\ rHead = Len(rPopped) /\ Len(rPopped) <= Len(rPushed)
          /\ \A d \in Consumers : /\ rPc[d] # "idle" => rAt[d] <= rHead
                                  /\ rPc[d] \in {"read", "claim"} => rAt[d] # rTail
                                  /\ rPc[d] \in {"idle", "check tail", "read", "claim"}
      BY DEF Counts, NotRound
    <3>2. rHead \in Slots /\ \A d \in Consumers : rAt[d] \in Slots
      BY <1>1 DEF RingTyped
    <3>3. rHead # rTail
      BY <2>1, <3>1
    <3>c. rHead \in Nat /\ rTail \in Nat /\ rHead <= rTail /\ rTail < Capacity
      BY <2>2, <3>1
    <3>d. rHead < rTail
      BY <3>3, <3>c
    <3>e. rHead + 1 <= rTail
      BY <3>c, <3>d
    <3>a. rHead < rTail /\ rHead \in Nat /\ rTail \in Nat /\ Len(rPopped) + 1 <= Len(rPushed)
      BY <3>1, <3>c, <3>d, <3>e
    <3>b. rHead + 1 # Capacity
      BY <3>a, <3>c, CapacityAssumption
    <3>4. rHead' = rHead + 1
      BY <2>1, <3>2, <3>b, SuccWraps
    <3>5. ASSUME NEW d \in Consumers
          PROVE  /\ rPc'[d] # "idle" => rAt'[d] <= rHead'
                 /\ rPc'[d] \in {"read", "claim"} => rAt'[d] # rTail
                 /\ rPc'[d] \in {"idle", "check tail", "read", "claim"}
      <4>1. CASE d = c
        BY <2>1, <4>1
      <4>2. CASE d # c
        <5>1. rAt[d] \in Int
          BY <3>2, CapacityAssumption DEF Slots
        <5>2. rPc'[d] = rPc[d] /\ rAt'[d] = rAt[d]
          BY <1>2, <4>2
        <5>3. rAt[d] <= rHead => rAt[d] <= rHead + 1
          BY <3>a, <5>1
        <5> QED BY <3>1, <3>4, <5>2, <5>3
      <4> QED BY <4>1, <4>2
    <3> QED BY <3>1, <3>a, <3>4, <3>5
  <2>4. PairCounts'
    <3> SUFFICES ASSUME Ring!OneEach PROVE Len(rPushed') = Len(rPopped') + Waiting'
      BY DEF PairCounts
    <3>1. PICK p \in Producers : PairInv(p, c)
      OBVIOUS
    <3>2. Waiting > 0
      BY <2>1, <3>1 DEF PairInv, PopperInv
    <3>3. Waiting' = Waiting - 1
      BY <2>1, <3>2, ClaimTakesItem
    <3>4. Waiting \in Nat
      BY WaitingIs, CapacityAssumption
    <3> QED BY <2>1, <2>2, <3>3, <3>4 DEF Counts, PairCounts
  <2> QED BY <2>3, <2>4 DEF Counts
<1>4. CASE ~Ring!PopClaim(c)
  <2>1. UNCHANGED <<rHead, rTail, rPushed, rPopped>>
    BY <1>4 DEF Ring!Pop, Ring!PopLoadHead, Ring!PopEmpty, Ring!PopFound, Ring!PopRead, Ring!PopRetry
  <2>2. /\ rPc'[c] # "idle" => rAt'[c] = rHead \/ (rPc[c] # "idle" /\ rAt'[c] = rAt[c])
        /\ rPc'[c] \in {"read", "claim"} =>
             rAt'[c] # rTail \/ (rPc[c] \in {"read", "claim"} /\ rAt'[c] = rAt[c])
        /\ rPc'[c] \in {"idle", "check tail", "read", "claim"}
    BY <1>1, <1>4 DEF RingTyped, Ring!Goto, Ring!Pop, Ring!PopLoadHead, Ring!PopEmpty, Ring!PopFound,
       Ring!PopRead, Ring!PopRetry, Ring!Empty
  <2> QED BY <1>2, <2>1, <2>2, RestKeepsCounts
<1> QED BY <1>3, <1>4

(* Head and tail tell what was pushed and not yet popped: for any capacity *)
(* however often the indexes wrap with one producer and one consumer, and  *)
(* with any number of them as long as the tail has not gone round once     *)
(* (RingBuffer.push and pop).  Beyond that it is not so in general: a      *)
(* thread held up for a whole round finds again the index it loaded.       *)
THEOREM CasRingCountsPending ==
  ASSUME Ring!RingAssumption
  PROVE  Ring!Spec => []RingCountsPending
<1>1. Ring!Init => RingInv /\ Counts
  BY RingInitInv, CountsInit
<1>2. RingInv /\ Counts /\ [Ring!Next]_(Ring!vars) => RingInv' /\ Counts'
  <2> SUFFICES ASSUME RingInv, Counts, [Ring!Next]_(Ring!vars) PROVE Counts'
    BY RingStepInv
  <2>1. CASE UNCHANGED Ring!vars
    <3>1. UNCHANGED <<rBuffer, rHead, rTail, rPc, rAt, rSetup, rPushed, rPopped, rSent, rGot>>
      BY <2>1 DEF Ring!vars, Ring!ring
    <3>2. Told' /\ Ring!OneEach' = Ring!OneEach /\ Waiting' = Waiting
      BY <3>1 DEF Counts, Told, Ring!OneEach, Waiting
    <3> QED BY <3>1, <3>2 DEF Counts, NotRound, PairCounts
  <2>2. CASE Ring!Next
    <3>1. Told'
      BY <2>2, PushStepTold, PopStepTold DEF Ring!Next, RingInv, Counts
    <3>2. rSetup' = rSetup
      BY <2>2 DEF Ring!Next, Ring!Push, Ring!PushCall, Ring!PushLoadTail, Ring!PushFull,
         Ring!PushRoom, Ring!PushWrite, Ring!PushClaim, Ring!PushRetry, Ring!Pop, Ring!PopLoadHead,
         Ring!PopEmpty, Ring!PopFound, Ring!PopRead, Ring!PopClaim, Ring!PopRetry
    <3>3. Ring!OneEach' = Ring!OneEach
      BY <3>2 DEF Ring!OneEach
    <3>4. CASE Ring!OneEach
      <4>1. PICK p \in Producers, c \in Consumers : Sole(p, c)
        BY <3>4 DEF Ring!OneEach, Sole
      <4>2. PairInv(p, c)
        BY <4>1 DEF RingInv, SoleInv
      <4>3. (Ring!PushCall(p) \/ Ring!Push(p)) \/ Ring!Pop(c)
        BY <2>2, <4>1, <4>2, OnlyThePair DEF RingInv
      <4> QED BY <3>1, <3>3, <4>2, <4>3, PushKeepsCounts, PopKeepsCounts DEF RingInv
    <3>5. CASE ~Ring!OneEach
      BY <2>2, <3>1, <3>3, <3>5, PushKeepsCounts, PopKeepsCounts DEF RingInv, Ring!Next
    <3> QED BY <3>4, <3>5
  <2> QED BY <2>1, <2>2
<1>3. RingInv /\ Counts => RingCountsPending
  <2> SUFFICES ASSUME RingTyped, Counts, Ring!OneEach \/ Len(rPushed) < Capacity
               PROVE  Len(rPushed) = Len(rPopped) + Waiting
    BY DEF RingInv, RingCountsPending, Ring!CountsPending, Ring!Distance, Waiting, Span
  <2>1. CASE Ring!OneEach
    BY <2>1 DEF Counts, PairCounts
  <2>2. CASE Len(rPushed) < Capacity
    <3>1. rTail = Len(rPushed) /\ rHead = Len(rPopped) /\ Len(rPopped) <= Len(rPushed)
          /\ rTail \in Slots /\ rHead \in Slots
      BY <2>2 DEF Counts, NotRound, RingTyped
    <3>2. Len(rPushed) \in Nat /\ Len(rPopped) \in Nat
      BY DEF Counts, Told
    <3>3. Waiting = rTail - rHead
      BY <3>1, <3>2, SpanIs DEF Waiting
    <3> QED BY <3>1, <3>2, <3>3
  <2> QED BY <2>1, <2>2
<1> QED
  BY <1>1, <1>2, <1>3, PTL DEF Ring!Spec
=============================================================================
