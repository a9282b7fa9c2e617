-------------------------------- MODULE Queues --------------------------------
(***************************************************************************)
(* The two queues of data_structures.ml, one beside the other: SPSCQueue   *)
(* under its users, the processors, and RingBuffer under any threads.      *)
(***************************************************************************)
EXTENDS Processors

CONSTANTS Producers, Consumers, MaxPush, RingSetups      \* those of RingBuffer

VARIABLES rBuffer, rHead, rTail, rPc, rAt, rItem, rCalls, rPushed, rPopped, rSent, rGot, rSetup

Ring == INSTANCE RingBuffer WITH
  buffer <- rBuffer, head <- rHead, tail <- rTail, pc <- rPc, at <- rAt, item <- rItem,
  calls <- rCalls, pushed <- rPushed, popped <- rPopped, sent <- rSent, got <- rGot,
  setup <- rSetup, Setups <- RingSetups

(* RingBuffer: what was pushed and not yet popped is what head and tail say,*)
(* with one producer and one consumer however often the indexes wrap, and  *)
(* with any number of threads until the tail has gone round once.  Beyond  *)
(* that it need not: a thread held up for a whole round finds again the    *)
(* index it loaded, and its compare-and-set succeeds.                      *)
RingCountsPending == Ring!OneEach \/ Len(rPushed) < Capacity => Ring!CountsPending

(* RingBuffer: with one producer and one consumer a bounded FIFO.          *)
RingIsQueue == Ring!ImplementsBoundedQueue
=============================================================================
