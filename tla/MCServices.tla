----------------------------- MODULE MCServices -----------------------------
(* TLC instances of the server and its audit log.  Each budget leaves room *)
(* for one kind of trouble: guessing, key changes, tickets, failing writes.*)
EXTENDS Gateway, TLC

CONSTANTS k1, p1

B(time, es, records, ts, fs, days) ==
  [time |-> time, edits |-> es, records |-> records, tickets |-> ts,
   faults |-> fs, days |-> days]

AllBudgets == {B(5, 0, 5, 0, 0, 1),   \* guesses over two windows
               B(6, 2, 0, 1, 0, 1),   \* key changes under requests and streams
               B(5, 0, 0, 3, 0, 1),   \* tickets
               B(2, 0, 3, 0, 2, 2)}   \* commands, bad writes, restarts, days
=============================================================================
