------------------------------ MODULE AuditLog ------------------------------
(***************************************************************************)
(* The hash-chained audit log of audit_log.ml: one file per day, written   *)
(* by the daemon's single Writer, read back by Verify and by the Writer    *)
(* itself when it opens.  A hash is the sequence of everything that was    *)
(* hashed into it, so two hashes are equal when their inputs are.          *)
(* A write may fall short, fail, or be cut by a crash.                     *)
(***************************************************************************)
EXTENDS Naturals, Sequences, FiniteSetsExt

CONSTANTS MaxDay, MaxRecords, MaxFaults,  \* bounds of the model
          Garbled                         \* what bytes that are no hash read as

ASSUME AuditAssumption == /\ MaxDay \in Nat \ {0}
                          /\ MaxRecords \in Nat
                          /\ MaxFaults \in Nat

VARIABLES
  files,    \* files[day]: what the file of that day holds
  writer,   \* the Writer: whether open, its day, last sequence, chain head
  today,    \* the day of the wall clock
  count,    \* records handed to append so far; they are numbered 1, 2, ...
  faults,   \* writes that went wrong so far
  acked,    \* acked[day]: records append answered Ok for (history)
  hurt      \* days on which a write went wrong (history)

auditVars == <<files, writer, today, count, faults, acked, hurt>>

Days == 1 .. MaxDay

-----------------------------------------------------------------------------
(* The chain. *)

Zero32 == <<>>
Genesis(prevHash) == <<prevHash>>
Chain(hash, seq, rec) == Append(hash, <<seq, rec>>)

(* header: "none" (no file), "whole", "short" (the magic is there, bytes at*)
(* the end are missing) or "stub" (not even the magic).                    *)
NoFile == [header |-> "none", prev |-> Zero32, frames |-> <<>>]
NewFile(header, prevHash) ==
  [header |-> header, prev |-> prevHash, frames |-> <<>>]

(* Bytes of a frame that was not written to its end. *)
TornFrame == [seq |-> 0, rec |-> 0, hash |-> Garbled]

(* Frame i continues the chain and, after the first, the sequence. *)
Intact(f, i) ==
  LET e == f.frames[i]
  IN  /\ e.hash = Chain(IF i = 1 THEN Genesis(f.prev) ELSE f.frames[i - 1].hash,
                        e.seq, e.rec)
      /\ i > 1 => e.seq = f.frames[i - 1].seq + 1

(* walk: how many frames are read before the end or the first break.  The  *)
(* frames of a file with a short header do not start where walk looks.     *)
Verified(f) ==
  IF f.header # "whole" THEN 0
  ELSE Max({n \in 0 .. Len(f.frames) : \A i \in 1 .. n : Intact(f, i)})

(* decode_header: enough bytes, and the magic.  A first frame supplies the *)
(* bytes a short header lacks.                                             *)
Readable(f) == f.header = "whole" \/ (f.header = "short" /\ f.frames # <<>>)

LastSeq(f) == IF Verified(f) = 0 THEN 0 ELSE f.frames[Verified(f)].seq
HeadOf(f) == IF f.header # "whole" THEN <<Garbled>>
             ELSE IF Verified(f) = 0 THEN Genesis(f.prev)
             ELSE f.frames[Verified(f)].hash

(* Verify.file: an Error, or a report with broken_at. *)
Broken(f) == ~Readable(f) \/ Verified(f) < Len(f.frames)

RecordsOf(f) == {f.frames[i].rec : i \in 1 .. Verified(f)}

-----------------------------------------------------------------------------
(* The Writer.  Each operator returns the ways an operation can end: the   *)
(* files and the writer it leaves, its answer, and whether it went wrong.  *)

Closed == [open |-> FALSE, day |-> 0, seq |-> 0, head |-> Zero32]
Opened(d, seq, head) == [open |-> TRUE, day |-> d, seq |-> seq, head |-> head]
Ended(fs, w, ok, fault) == [files |-> fs, writer |-> w, ok |-> ok, fault |-> fault]

(* previous_file looks for names of 20 characters; file_for makes names    *)
(* "audit-" YYYYMMDD ".log".                                               *)
NameLength == 6 + 8 + 4
Earlier(fs, d) == {p \in Days : p < d /\ fs[p].header # "none" /\ NameLength = 20}

PreviousHash(fs, d) ==
  IF Earlier(fs, d) = {} THEN Zero32
  ELSE LET f == fs[Max(Earlier(fs, d))]
       IN  IF Readable(f) THEN HeadOf(f) ELSE Zero32

(* Wrong variant: a reopened file is truncated, as Event_log's is. *)
ReopenTruncates(fs, d) ==
  {Ended([fs EXCEPT ![d].frames = <<>>],
         Opened(d, 0, Genesis(fs[d].prev)), TRUE, FALSE)}

(* open_at on an existing file: take up where its chain ends or breaks.    *)
(* Reading or opening it may fail; a file without a header always does.    *)
Reopen(fs, d) ==
  LET refused(fault) == Ended(fs, Closed, FALSE, fault)
  IN  IF ~Readable(fs[d]) THEN {refused(FALSE)}
      ELSE {refused(TRUE),
            Ended(fs, Opened(d, LastSeq(fs[d]), HeadOf(fs[d])), TRUE, FALSE)}

(* open_at on a new file: how many bytes of the header were written is not *)
(* looked at; creating the file, or the write itself, may raise.           *)
Create(fs, d) ==
  LET prev == PreviousHash(fs, d)
      with(h) == [fs EXCEPT ![d] = NewFile(h, prev)]
  IN  {Ended(with(h), Opened(d, 0, Genesis(prev)), TRUE, h # "whole") :
         h \in {"whole", "short", "stub"}}
      \union {Ended(fs, Closed, FALSE, TRUE), Ended(with("stub"), Closed, FALSE, TRUE)}

OpenAt(fs, d) == IF fs[d].header # "none" THEN Reopen(fs, d) ELSE Create(fs, d)

(* One frame: written and synced; cut; refused; or written, then fsync     *)
(* fails.  The sequence and the head advance only in the first case.       *)
WriteFrame(fs, w, rec) ==
  LET seq == w.seq + 1
      hash == Chain(w.head, seq, rec)
      with(e) == [fs EXCEPT ![w.day].frames = Append(@, e)]
      frame == [seq |-> seq, rec |-> rec, hash |-> hash]
  IN  {Ended(with(frame), Opened(w.day, seq, hash), TRUE, FALSE),
       Ended(with(TornFrame), w, FALSE, TRUE),
       Ended(fs, w, FALSE, TRUE),
       Ended(with(frame), w, FALSE, TRUE)}

(* append: rotate when the day has changed, then write.  A rotation that   *)
(* fails leaves the old day in the writer, so the next append tries again. *)
AppendTo(fs, w, d, rec) ==
  LET rotated == IF d = w.day THEN {Ended(fs, w, TRUE, FALSE)} ELSE OpenAt(fs, d)
  IN  UNION {IF ~r.ok THEN {[r EXCEPT !.writer = w]}
             ELSE {[a EXCEPT !.fault = a.fault \/ r.fault] :
                     a \in WriteFrame(r.files, r.writer, rec)}
             : r \in rotated}

-----------------------------------------------------------------------------
(* Wall clock, daemon and records.  Every way an operation goes wrong is   *)
(* counted, up to MaxFaults.                                               *)

Happened(r, d) == /\ r.fault => faults < MaxFaults
                  /\ faults' = IF r.fault THEN faults + 1 ELSE faults
                  /\ hurt' = IF r.fault THEN hurt \union {d} ELSE hurt
                  /\ files' = r.files

AuditInit == /\ files = [d \in Days |-> NoFile]
             /\ writer = Closed
             /\ today = 1
             /\ count = 0 /\ faults = 0
             /\ acked = [d \in Days |-> {}]
             /\ hurt = {}

NextDay == /\ today < MaxDay
           /\ today' = today + 1
           /\ UNCHANGED <<files, writer, count, faults, acked, hurt>>

(* Writer.open_ at start; the daemon exits when it is refused. *)
Open == /\ ~writer.open
        /\ \E r \in OpenAt(files, today) :
             Happened(r, today) /\ writer' = r.writer
        /\ UNCHANGED <<today, count, acked>>

LogRecord == /\ writer.open
             /\ count < MaxRecords
             /\ count' = count + 1
             /\ \E r \in AppendTo(files, writer, today, count + 1) :
                  /\ Happened(r, today)
                  /\ writer' = r.writer
                  /\ acked' = IF r.ok THEN [acked EXCEPT ![today] = @ \union {count + 1}]
                              ELSE acked
             /\ UNCHANGED today

Exit == /\ writer.open
        /\ writer' = Closed
        /\ UNCHANGED <<files, today, count, faults, acked, hurt>>

(* The process dies inside append: the file holds what it would have held, *)
(* and nobody was answered.                                                *)
DieAppending == /\ writer.open
                /\ count < MaxRecords
                /\ count' = count + 1
                /\ \E r \in AppendTo(files, writer, today, count + 1) : Happened(r, today)
                /\ writer' = Closed
                /\ UNCHANGED <<today, acked>>

AuditNext == NextDay \/ Open \/ LogRecord \/ Exit \/ DieAppending

AuditSpec == AuditInit /\ [][AuditNext]_auditVars

-----------------------------------------------------------------------------
(* A record that append answered Ok for is read back from that day's file, *)
(* or verifying the file says that it is broken: no later failure, restart *)
(* or turn of the day makes it vanish from a file that verifies.  A day on *)
(* which no write went wrong does verify, however often the daemon was     *)
(* restarted or killed on it: walk and the writer agree on the chain.      *)
NothingVanishes ==
  \A d \in Days :
    /\ acked[d] \subseteq RecordsOf(files[d]) \/ Broken(files[d])
    /\ files[d].header # "none" /\ d \notin hurt => ~Broken(files[d])
=============================================================================
