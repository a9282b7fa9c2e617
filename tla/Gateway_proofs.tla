--------------------------- MODULE Gateway_proofs ---------------------------
(***************************************************************************)
(* The audit log and the server that writes it, for every number of keys,  *)
(* peers, days and records, and every limit.                               *)
(***************************************************************************)
EXTENDS Gateway, TLAPS, SequenceTheorems, FiniteSetTheorems

(* A sequence, of whatever it holds: a hash has no simpler type.           *)
Sequential(q) == q \in Seq(Range(q))

LEMMA EmptyIsSequential == Sequential(<<>>)
BY DEF Sequential

LEMMA AppendIsSequential ==
  ASSUME NEW q, Sequential(q), NEW e
  PROVE  /\ Sequential(Append(q, e)) /\ Len(Append(q, e)) = Len(q) + 1 /\ Len(q) \in Nat
         /\ DOMAIN q = 1 .. Len(q) /\ DOMAIN Append(q, e) = 1 .. Len(q) + 1
         /\ \A i \in 1 .. Len(q) : Append(q, e)[i] = q[i]
         /\ Append(q, e)[Len(q) + 1] = e
<1> DEFINE T == Range(q) \union {e}
<1>1. q \in Seq(T) /\ e \in T
  BY SeqMonotonic DEF Sequential
<1>2. Append(q, e) \in Seq(T)
  BY <1>1, AppendProperties
<1>3. Sequential(Append(q, e))
  BY <1>2, SeqOfRange DEF Sequential
<1> QED BY <1>1, <1>2, <1>3, AppendProperties, LenProperties

(* A non-empty set of naturals has a least element.                        *)
LEMMA LeastNat ==
  ASSUME NEW T, T \subseteq Nat, T # {}
  PROVE  \E n \in T : \A m \in T : n <= m
<1> DEFINE Below == {0 .. n : n \in T}
           R == StrictSubsetOrdering(Nat)
<1>1. IsWellFoundedOn(R, FiniteSubsetsOf(Nat))
  BY FS_StrictSubsetOrderingWellFounded
<1>2. Below \subseteq FiniteSubsetsOf(Nat) /\ Below # {}
  <2>1. \A n \in T : IsFiniteSet(0 .. n)
    BY FS_Interval
  <2>2. \A n \in T : 0 .. n \in FiniteSubsetsOf(Nat)
    BY <2>1 DEF FiniteSubsetsOf
  <2>3. PICK t \in T : TRUE
    OBVIOUS
  <2>4. 0 .. t \in Below
    OBVIOUS
  <2>5. Below # {}
    BY <2>4
  <2> QED BY <2>2, <2>5
<1> HIDE DEF Below, R
<1>3. PICK B \in Below : \A C \in Below : <<C, B>> \notin R
  BY <1>1, <1>2, WFMin
<1>4. PICK n \in T : B = 0 .. n
  BY <1>3 DEF Below
<1>5. ASSUME NEW m \in T, m < n PROVE FALSE
  <2>1. 0 .. m \in Below
    BY DEF Below
  <2>2. n \in 0 .. n /\ n \notin 0 .. m
    BY <1>5
  <2>3. 0 .. m \subseteq 0 .. n /\ 0 .. m # 0 .. n
    BY <1>5, <2>2
  <2>4. <<0 .. m, 0 .. n>> \in R
    BY <2>3 DEF R, StrictSubsetOrdering
  <2> QED BY <1>3, <1>4, <2>1, <2>4
<1>6. \A m \in T : n <= m
  BY <1>5
<1> QED BY <1>6

LEMMA GreatestNat ==
  ASSUME NEW T, NEW n \in Nat, T \subseteq 0 .. n, T # {}
  PROVE  Max(T) \in T /\ \A m \in T : Max(T) >= m
<1> DEFINE U == {u \in 0 .. n : n - u \in T}
<1>1. PICK t \in T : TRUE
  OBVIOUS
<1>2. n - t \in U /\ U \subseteq Nat
  BY <1>1
<1> HIDE DEF U
<1>3. PICK u \in U : \A v \in U : u <= v
  BY <1>2, LeastNat
<1> USE DEF U
<1>4. n - u \in T /\ \A m \in T : n - u >= m
  <2>1. ASSUME NEW m \in T PROVE n - u >= m
    <3>1. n - m \in U
      BY <2>1
    <3> QED BY <1>3, <3>1
  <2> QED BY <2>1
<1> QED BY <1>4 DEF Max
-----------------------------------------------------------------------------
(* The audit log. *)

Recorded(f) == {f.frames[i].rec : i \in DOMAIN f.frames}

FileShape(f) ==
  /\ DOMAIN f = {"header", "prev", "frames"}
  /\ f.header \in {"none", "whole", "short", "stub"}
  /\ Sequential(f.frames)
  /\ f.header = "none" => f.frames = <<>>

(* A file nothing went wrong with: its chain is whole. *)
Sound(f) == f.header = "whole" /\ \A i \in 1 .. Len(f.frames) : Intact(f, i)

FilesOK(fs, hs) ==
  /\ DOMAIN fs = Days
  /\ \A d \in Days : /\ FileShape(fs[d])
                     /\ d \in hs \/ fs[d].header = "none" \/ Sound(fs[d])

WriterShape(w) == DOMAIN w = {"open", "day", "seq", "head"} /\ w.open \in BOOLEAN

(* The writer stands at the end of its file. *)
WriterOK(fs, w, hs) ==
  w.open => /\ w.day \in Days /\ fs[w.day].header # "none"
            /\ w.day \notin hs =>
                 /\ fs[w.day].header = "whole"
                 /\ w.seq = LastSeq(fs[w.day]) /\ w.head = HeadOf(fs[w.day])

AuditInv ==
  /\ FilesOK(files, hurt) /\ WriterShape(writer) /\ WriterOK(files, writer, hurt)
  /\ today \in Days /\ count \in Nat
  /\ DOMAIN acked = Days /\ \A d \in Days : acked[d] \subseteq Recorded(files[d])

-----------------------------------------------------------------------------
LEMMA VerifiedBounds ==
  ASSUME NEW f, FileShape(f)
  PROVE  /\ Len(f.frames) \in Nat /\ DOMAIN f.frames = 1 .. Len(f.frames)
         /\ Verified(f) \in 0 .. Len(f.frames)
         /\ Sound(f) => Verified(f) = Len(f.frames)
<1> DEFINE L == Len(f.frames)
           T == {n \in 0 .. L : \A i \in 1 .. n : Intact(f, i)}
<1>1. L \in Nat /\ DOMAIN f.frames = 1 .. L
  BY LenProperties DEF FileShape, Sequential
<1>2. T \subseteq 0 .. L /\ 0 \in T
  BY <1>1
<1>3. Sound(f) => L \in T
  BY <1>1 DEF Sound
<1>4. Max(T) \in T /\ \A m \in T : Max(T) >= m
  <2> HIDE DEF T, L
  <2> QED BY <1>1, <1>2, GreatestNat
<1>5. Verified(f) = IF f.header # "whole" THEN 0 ELSE Max(T)
  BY DEF Verified
<1>6. CASE f.header # "whole"
  BY <1>1, <1>5, <1>6 DEF Sound
<1>7. CASE f.header = "whole"
  <2>1. Max(T) \in 0 .. L
    BY <1>4
  <2>2. Sound(f) => Max(T) >= L
    BY <1>3, <1>4
  <2> QED BY <1>1, <1>5, <1>7, <2>1, <2>2
<1> QED BY <1>6, <1>7

(* A frame more: what was intact stays so. *)
More(f, e) == [f EXCEPT !.frames = Append(@, e)]

LEMMA OneFrameMore ==
  ASSUME NEW f, FileShape(f), f.header # "none", NEW e
  PROVE  LET g == More(f, e)
         IN  /\ FileShape(g) /\ g.header = f.header /\ g.prev = f.prev
             /\ Len(g.frames) = Len(f.frames) + 1
             /\ g.frames[Len(f.frames) + 1] = e
             /\ \A i \in 1 .. Len(f.frames) :
                  g.frames[i] = f.frames[i] /\ (Intact(g, i) <=> Intact(f, i))
             /\ Recorded(g) = Recorded(f) \union {e.rec}
<1> DEFINE L == Len(f.frames)  g == More(f, e)
<1>1. g.header = f.header /\ g.prev = f.prev /\ g.frames = Append(f.frames, e) /\ DOMAIN g = DOMAIN f
  BY DEF FileShape, More
<1> HIDE DEF g
<1>2. /\ Sequential(g.frames) /\ Len(g.frames) = L + 1 /\ L \in Nat
      /\ DOMAIN f.frames = 1 .. L /\ DOMAIN g.frames = 1 .. L + 1
      /\ \A i \in 1 .. L : g.frames[i] = f.frames[i]
      /\ g.frames[L + 1] = e
  BY <1>1, AppendIsSequential DEF FileShape
<1>3. FileShape(g)
  BY <1>1, <1>2 DEF FileShape
<1>4. \A i \in 1 .. L : Intact(g, i) <=> Intact(f, i)
  <2> TAKE i \in 1 .. L
  <2>1. g.frames[i] = f.frames[i] /\ (i # 1 => g.frames[i - 1] = f.frames[i - 1])
    BY <1>2
  <2> QED BY <1>1, <1>2, <2>1 DEF Intact
<1>5. Recorded(g) = Recorded(f) \union {e.rec}
  <2>1. ASSUME NEW x \in Recorded(g) PROVE x \in Recorded(f) \union {e.rec}
    <3>1. PICK i \in 1 .. L + 1 : x = g.frames[i].rec
      BY <1>2, <2>1 DEF Recorded
    <3>2. CASE i = L + 1
      BY <1>2, <3>1, <3>2
    <3>3. CASE i \in 1 .. L
      BY <1>2, <3>1, <3>3 DEF Recorded
    <3> QED BY <1>2, <3>2, <3>3
  <2>2. ASSUME NEW x \in Recorded(f) PROVE x \in Recorded(g)
    <3>1. PICK i \in 1 .. L : x = f.frames[i].rec
      BY <1>2, <2>2 DEF Recorded
    <3> QED BY <1>2, <3>1, SMTT(30) DEF Recorded
  <2>3. e.rec \in Recorded(g)
    <3>1. L + 1 \in 1 .. L + 1
      BY <1>2
    <3> QED BY <1>2, <3>1 DEF Recorded
  <2> QED BY <2>1, <2>2, <2>3
<1> QED BY <1>1, <1>2, <1>3, <1>4, <1>5 DEF g

(* The frame the writer writes continues a sound file. *)
LEMMA NextFrameIsIntact ==
  ASSUME NEW f, FileShape(f), Sound(f),
         NEW e, e.seq = LastSeq(f) + 1, e.hash = Chain(HeadOf(f), e.seq, e.rec),
         NEW g, g = More(f, e)
  PROVE  /\ FileShape(g) /\ Sound(g)
         /\ LastSeq(g) = e.seq /\ HeadOf(g) = e.hash
<1> DEFINE L == Len(f.frames)
<1>1. f.header = "whole" /\ f.header # "none"
  BY DEF Sound
<1>2. L \in Nat /\ Verified(f) = L
  BY VerifiedBounds
<1>3. /\ FileShape(g) /\ g.header = f.header /\ g.prev = f.prev /\ Len(g.frames) = L + 1
      /\ g.frames[L + 1] = e
      /\ \A i \in 1 .. L : g.frames[i] = f.frames[i] /\ (Intact(g, i) <=> Intact(f, i))
  BY <1>1, OneFrameMore
<1>4. Intact(g, L + 1)
  <2>1. CASE L = 0
    BY <1>1, <1>2, <1>3, <2>1 DEF Intact, LastSeq, HeadOf
  <2>2. CASE L # 0
    <3>1. g.frames[L + 1 - 1] = f.frames[L] /\ L + 1 > 1
      BY <1>2, <1>3, <2>2
    <3> QED BY <1>1, <1>2, <1>3, <2>2, <3>1 DEF Intact, LastSeq, HeadOf
  <2> QED BY <2>1, <2>2
<1>5. Sound(g)
  <2>1. \A i \in 1 .. L + 1 : i \in 1 .. L \/ i = L + 1
    BY <1>2
  <2> QED BY <1>1, <1>3, <1>4, <2>1 DEF Sound
<1>6. Verified(g) = L + 1 /\ L + 1 # 0
  <2>1. FileShape(g) /\ Sound(g)
    BY <1>3, <1>5
  <2>2. Verified(g) = Len(g.frames)
    BY <2>1, VerifiedBounds
  <2> QED BY <1>2, <1>3, <2>2
<1>7. LastSeq(g) = e.seq /\ HeadOf(g) = e.hash
  BY <1>1, <1>3, <1>6 DEF LastSeq, HeadOf
<1> QED BY <1>3, <1>5, <1>7

-----------------------------------------------------------------------------
(* The ways an operation on day d can end, from files fs with the days hs  *)
(* hurt: what it leaves is in order, and only the file of d has changed.   *)
Hurt(hs, r, d) == IF r.fault THEN hs \union {d} ELSE hs

EndsWell(fs, hs, d, r) ==
  /\ r.ok \in BOOLEAN /\ r.fault \in BOOLEAN /\ DOMAIN r = {"files", "writer", "ok", "fault"}
  /\ FilesOK(r.files, Hurt(hs, r, d)) /\ WriterShape(r.writer)
  /\ \A p \in Days \ {d} : r.files[p] = fs[p]
  /\ Recorded(fs[d]) \subseteq Recorded(r.files[d])
  /\ ~r.ok /\ ~r.fault => d \in hs

LEMMA WritersHaveShape ==
  /\ WriterShape(Closed) /\ Closed.open = FALSE
  /\ \A d, n, h : LET w == Opened(d, n, h)
                  IN  WriterShape(w) /\ w.open = TRUE /\ w.day = d /\ w.seq = n /\ w.head = h
BY DEF Closed, Opened, WriterShape

LEMMA OpenAtEndsWell ==
  ASSUME NEW fs, NEW hs, FilesOK(fs, hs), NEW d \in Days, NEW r \in OpenAt(fs, d)
  PROVE  /\ EndsWell(fs, hs, d, r) /\ WriterOK(r.files, r.writer, Hurt(hs, r, d))
         /\ r.ok => r.writer.open /\ r.writer.day = d /\ r.files[d].header # "none"
<1>1. FileShape(fs[d]) /\ DOMAIN fs = Days /\ (d \in hs \/ fs[d].header = "none" \/ Sound(fs[d]))
  BY DEF FilesOK
<1>2. ASSUME fs[d].header # "none"
      PROVE  \/ r = Ended(fs, Closed, FALSE, FALSE) /\ ~Readable(fs[d])
             \/ r = Ended(fs, Closed, FALSE, TRUE)
             \/ r = Ended(fs, Opened(d, LastSeq(fs[d]), HeadOf(fs[d])), TRUE, FALSE)
  BY <1>2 DEF OpenAt, Reopen
<1>3. ASSUME fs[d].header # "none" PROVE d \in hs \/ (fs[d].header = "whole" /\ Readable(fs[d]))
  BY <1>1, <1>3 DEF Sound, Readable
<1>4. CASE fs[d].header # "none"
  <2>1. /\ r.files = fs /\ r.ok \in BOOLEAN /\ r.fault \in BOOLEAN
        /\ DOMAIN r = {"files", "writer", "ok", "fault"}
        /\ \/ ~r.ok /\ r.writer = Closed /\ (~r.fault => ~Readable(fs[d]))
           \/ r.ok /\ r.writer = Opened(d, LastSeq(fs[d]), HeadOf(fs[d]))
    <3>1. CASE r = Ended(fs, Closed, FALSE, FALSE) /\ ~Readable(fs[d])
      BY <3>1 DEF Ended
    <3>2. CASE r = Ended(fs, Closed, FALSE, TRUE)
      BY <3>2 DEF Ended
    <3>3. CASE r = Ended(fs, Opened(d, LastSeq(fs[d]), HeadOf(fs[d])), TRUE, FALSE)
      BY <3>3 DEF Ended
    <3> QED BY <1>2, <1>4, <3>1, <3>2, <3>3
  <2>2. FilesOK(fs, Hurt(hs, r, d)) /\ hs \subseteq Hurt(hs, r, d)
    BY DEF FilesOK, Hurt
  <2>3. WriterShape(r.writer)
    BY <2>1, WritersHaveShape
  <2>4. ~r.ok /\ ~r.fault => d \in hs
    BY <1>3, <1>4, <2>1
  <2>5. /\ WriterOK(r.files, r.writer, Hurt(hs, r, d))
        /\ r.ok => r.writer.open /\ r.writer.day = d
    BY <1>3, <1>4, <2>1, <2>2 DEF Closed, Opened, WriterOK
  <2> QED BY <1>4, <2>1, <2>2, <2>3, <2>4, <2>5 DEF EndsWell
<1>5. CASE fs[d].header = "none"
  <2> DEFINE prev == PreviousHash(fs, d)
             with(h) == [fs EXCEPT ![d] = NewFile(h, prev)]
  <2>1. \/ \E h \in {"whole", "short", "stub"} :
             r = Ended(with(h), Opened(d, 0, Genesis(prev)), TRUE, h # "whole")
        \/ r = Ended(fs, Closed, FALSE, TRUE)
        \/ r = Ended(with("stub"), Closed, FALSE, TRUE)
    BY <1>5 DEF OpenAt, Create
  <2> HIDE DEF prev
  <2>2. ASSUME NEW h \in {"whole", "short", "stub"}
        PROVE /\ FileShape(NewFile(h, prev)) /\ NewFile(h, prev).header = h
              /\ h = "whole" => /\ Sound(NewFile(h, prev)) /\ LastSeq(NewFile(h, prev)) = 0
                                /\ HeadOf(NewFile(h, prev)) = Genesis(prev)
    <3> DEFINE f == NewFile(h, prev)
    <3>1. FileShape(f) /\ f.header = h /\ f.frames = <<>> /\ f.prev = prev /\ Len(f.frames) = 0
      BY EmptyIsSequential DEF NewFile, FileShape
    <3>2. h = "whole" => Sound(f)
      BY <3>1 DEF Sound
    <3>3. h = "whole" => Verified(f) = 0
      <4> HIDE DEF f
      <4> QED BY <3>1, <3>2, VerifiedBounds
    <3> QED BY <3>1, <3>2, <3>3 DEF LastSeq, HeadOf
  <2>3. Recorded(fs[d]) = {}
    BY <1>1, <1>5 DEF FileShape, Recorded
  <2>4. ASSUME NEW h \in {"whole", "short", "stub"}, NEW gs, gs = with(h), NEW ks,
               hs \subseteq ks, h # "whole" => d \in ks
        PROVE  FilesOK(gs, ks) /\ gs[d] = NewFile(h, prev) /\ \A p \in Days \ {d} : gs[p] = fs[p]
    <3>1. DOMAIN gs = Days /\ gs[d] = NewFile(h, prev) /\ \A p \in Days \ {d} : gs[p] = fs[p]
      BY <1>1, <2>4
    <3> QED BY <2>2, <2>4, <3>1 DEF FilesOK
  <2>5. CASE r = Ended(fs, Closed, FALSE, TRUE)
    <3>1. r.files = fs /\ r.writer = Closed /\ r.ok = FALSE /\ r.fault = TRUE /\ DOMAIN r = {"files", "writer", "ok", "fault"}
      BY <2>5 DEF Ended
    <3>2. FilesOK(fs, Hurt(hs, r, d))
      BY DEF FilesOK, Hurt
    <3> QED BY <3>1, <3>2, WritersHaveShape DEF EndsWell, WriterOK
  <2>6. CASE r = Ended(with("stub"), Closed, FALSE, TRUE)
    <3>1. /\ r.files = with("stub") /\ r.writer = Closed /\ r.ok = FALSE /\ r.fault = TRUE
          /\ DOMAIN r = {"files", "writer", "ok", "fault"}
      BY <2>6 DEF Ended
    <3>2. hs \subseteq Hurt(hs, r, d) /\ d \in Hurt(hs, r, d)
      BY <3>1 DEF Hurt
    <3> DEFINE gs == r.files  ks == Hurt(hs, r, d)
    <3>3. gs = with("stub") /\ hs \subseteq ks /\ d \in ks
      BY <3>1, <3>2
    <3> HIDE DEF gs, ks
    <3>4. FilesOK(gs, ks) /\ \A p \in Days \ {d} : gs[p] = fs[p]
      BY <2>4, <3>3
    <3> USE DEF gs, ks
    <3> QED BY <2>3, <3>1, <3>4, WritersHaveShape DEF EndsWell, WriterOK
  <2>7. ASSUME NEW h \in {"whole", "short", "stub"},
               r = Ended(with(h), Opened(d, 0, Genesis(prev)), TRUE, h # "whole")
        PROVE  /\ EndsWell(fs, hs, d, r) /\ WriterOK(r.files, r.writer, Hurt(hs, r, d))
               /\ r.ok => r.writer.open /\ r.writer.day = d /\ r.files[d].header # "none"
    <3>1. /\ r.files = with(h) /\ r.writer = Opened(d, 0, Genesis(prev)) /\ r.ok = TRUE
          /\ r.fault = (h # "whole") /\ DOMAIN r = {"files", "writer", "ok", "fault"}
          /\ r.fault \in BOOLEAN /\ r.ok \in BOOLEAN
      BY <2>7 DEF Ended
    <3>2. hs \subseteq Hurt(hs, r, d) /\ (h # "whole" => d \in Hurt(hs, r, d))
      BY <3>1 DEF Hurt
    <3> DEFINE gs == r.files  ks == Hurt(hs, r, d)
    <3>3. gs = with(h) /\ hs \subseteq ks /\ (h # "whole" => d \in ks)
      BY <3>1, <3>2
    <3> HIDE DEF gs, ks
    <3>4. FilesOK(gs, ks) /\ gs[d] = NewFile(h, prev) /\ \A p \in Days \ {d} : gs[p] = fs[p]
      BY <2>4, <3>3
    <3> USE DEF gs, ks
    <3>5. EndsWell(fs, hs, d, r)
      BY <2>3, <3>1, <3>4, WritersHaveShape DEF EndsWell
    <3>6. WriterOK(r.files, r.writer, Hurt(hs, r, d))
      BY <2>2, <3>1, <3>2, <3>4 DEF WriterOK, Opened
    <3> QED BY <2>2, <3>1, <3>4, <3>5, <3>6 DEF Opened
  <2> QED BY <2>1, <2>5, <2>6, <2>7 DEF Ended
<1> QED BY <1>4, <1>5

LEMMA WriteFrameEndsWell ==
  ASSUME NEW fs, NEW hs, FilesOK(fs, hs), NEW w, WriterShape(w), w.open = TRUE,
         WriterOK(fs, w, hs), NEW rec, NEW r \in WriteFrame(fs, w, rec)
  PROVE  /\ EndsWell(fs, hs, w.day, r) /\ WriterOK(r.files, r.writer, Hurt(hs, r, w.day))
         /\ r.ok => rec \in Recorded(r.files[w.day])
         /\ r.writer.open = TRUE
<1> DEFINE d == w.day
           seq == w.seq + 1
           hash == Chain(w.head, seq, rec)
           frame == [seq |-> seq, rec |-> rec, hash |-> hash]
           with(e) == [fs EXCEPT ![d].frames = Append(@, e)]
           ks == Hurt(hs, r, d)
<1>1. /\ FileShape(fs[d]) /\ DOMAIN fs = Days /\ d \in Days /\ fs[d].header # "none"
      /\ d \in hs \/ Sound(fs[d])
      /\ d \notin hs => w.seq = LastSeq(fs[d]) /\ w.head = HeadOf(fs[d])
  BY DEF FilesOK, WriterOK
<1>2. ASSUME NEW e
      PROVE  LET gs == with(e)
             IN  /\ DOMAIN gs = Days /\ gs[d] = More(fs[d], e)
                 /\ \A p \in Days \ {d} : gs[p] = fs[p]
  BY <1>1 DEF More
<1>3. ASSUME NEW e, NEW gs, gs = with(e)
      PROVE  /\ FileShape(gs[d]) /\ gs[d].header = fs[d].header
             /\ Recorded(gs[d]) = Recorded(fs[d]) \union {e.rec}
             /\ \A p \in Days \ {d} : gs[p] = fs[p]
             /\ FilesOK(gs, hs \union {d})
  <2>1. /\ DOMAIN gs = Days /\ gs[d] = More(fs[d], e)
        /\ \A p \in Days \ {d} : gs[p] = fs[p]
    BY <1>2, <1>3
  <2>2. /\ FileShape(gs[d]) /\ gs[d].header = fs[d].header
        /\ Recorded(gs[d]) = Recorded(fs[d]) \union {e.rec}
    <3> DEFINE f == fs[d]  g == More(f, e)
    <3>1. FileShape(f) /\ f.header # "none"
      BY <1>1
    <3> HIDE DEF f
    <3>2. FileShape(g) /\ g.header = f.header /\ Recorded(g) = Recorded(f) \union {e.rec}
      BY <3>1, OneFrameMore
    <3> QED BY <2>1, <3>2 DEF f
  <2> QED BY <2>1, <2>2 DEF FilesOK
<1>4. frame.seq = seq /\ frame.hash = hash /\ frame.rec = rec
  OBVIOUS
<1> HIDE DEF with, frame, d, seq, hash
<1>5. /\ DOMAIN r = {"files", "writer", "ok", "fault"} /\ r.ok \in BOOLEAN /\ r.fault \in BOOLEAN
      /\ \/ r.files = with(frame) /\ r.writer = Opened(d, seq, hash) /\ r.ok /\ ~r.fault
         \/ r.files = with(TornFrame) /\ r.writer = w /\ ~r.ok /\ r.fault
         \/ r.files = fs /\ r.writer = w /\ ~r.ok /\ r.fault
         \/ r.files = with(frame) /\ r.writer = w /\ ~r.ok /\ r.fault
  <2>1. \/ r = Ended(with(frame), Opened(d, seq, hash), TRUE, FALSE)
        \/ r = Ended(with(TornFrame), w, FALSE, TRUE)
        \/ r = Ended(fs, w, FALSE, TRUE)
        \/ r = Ended(with(frame), w, FALSE, TRUE)
    BY DEF WriteFrame, with, frame, d, seq, hash
  <2>2. CASE r = Ended(with(frame), Opened(d, seq, hash), TRUE, FALSE)
    BY <2>2 DEF Ended
  <2>3. CASE r = Ended(with(TornFrame), w, FALSE, TRUE)
    BY <2>3 DEF Ended
  <2>4. CASE r = Ended(fs, w, FALSE, TRUE)
    BY <2>4 DEF Ended
  <2>5. CASE r = Ended(with(frame), w, FALSE, TRUE)
    BY <2>5 DEF Ended
  <2> QED BY <2>1, <2>2, <2>3, <2>4, <2>5
<1>6. ks = IF r.fault THEN hs \union {d} ELSE hs
  BY DEF Hurt, d
<1> DEFINE Goal == /\ EndsWell(fs, hs, d, r) /\ WriterOK(r.files, r.writer, ks)
                   /\ r.ok => rec \in Recorded(r.files[d])
                   /\ r.writer.open = TRUE
<1>7. ASSUME r.fault, ~r.ok, r.writer = w, NEW e, r.files = with(e) \/ r.files = fs
      PROVE  Goal
  <2>1. ks = hs \union {d}
    BY <1>6, <1>7
  <2>2. /\ FilesOK(r.files, hs \union {d}) /\ Recorded(fs[d]) \subseteq Recorded(r.files[d])
        /\ \A p \in Days \ {d} : r.files[p] = fs[p]
        /\ r.files[d].header # "none"
    <3>1. CASE r.files = with(e)
      BY <1>1, <1>3, <3>1, ZenonT(40)
    <3>2. CASE r.files = fs
      BY <1>1, <3>2 DEF FilesOK
    <3> QED BY <1>7, <3>1, <3>2
  <2>3. WriterOK(r.files, w, hs \union {d})
    BY <1>1, <2>2 DEF WriterOK, d
  <2> QED BY <1>5, <1>7, <2>1, <2>2, <2>3 DEF EndsWell
<1>8. ASSUME r.files = with(frame), r.writer = Opened(d, seq, hash), r.ok, ~r.fault
      PROVE  Goal
  <2> DEFINE gs == r.files
  <2>1. ks = hs
    BY <1>6, <1>8
  <2>2. /\ FileShape(gs[d]) /\ gs[d].header = fs[d].header
        /\ Recorded(gs[d]) = Recorded(fs[d]) \union {rec}
        /\ \A p \in Days \ {d} : gs[p] = fs[p]
        /\ DOMAIN gs = Days /\ gs[d] = More(fs[d], frame)
    BY <1>2, <1>3, <1>4, <1>8
  <2>3. d \notin hs => /\ Sound(gs[d]) /\ LastSeq(gs[d]) = seq /\ HeadOf(gs[d]) = hash
    <3> SUFFICES ASSUME d \notin hs
                 PROVE  /\ Sound(gs[d]) /\ LastSeq(gs[d]) = seq /\ HeadOf(gs[d]) = hash
      OBVIOUS
    <3>1. FileShape(fs[d]) /\ Sound(fs[d])
      BY <1>1
    <3>2. frame.seq = LastSeq(fs[d]) + 1 /\ frame.hash = Chain(HeadOf(fs[d]), frame.seq, frame.rec)
      BY <1>1, <1>4 DEF seq, hash
    <3>3. Sound(gs[d]) /\ LastSeq(gs[d]) = frame.seq /\ HeadOf(gs[d]) = frame.hash
      BY <2>2, <3>1, <3>2, NextFrameIsIntact
    <3> QED BY <1>4, <3>3
  <2>4. FilesOK(gs, hs)
    BY <2>2, <2>3 DEF FilesOK
  <2>5. WriterOK(gs, r.writer, hs)
    BY <1>1, <1>8, <2>2, <2>3, WritersHaveShape DEF WriterOK, Sound
  <2> QED BY <1>5, <1>8, <2>1, <2>2, <2>4, <2>5, WritersHaveShape DEF EndsWell
<1> HIDE DEF Goal
<1>9. Goal
  BY <1>5, <1>7, <1>8
<1> QED BY <1>9 DEF Goal, d

LEMMA AppendToEndsWell ==
  ASSUME NEW fs, NEW hs, FilesOK(fs, hs), NEW w, WriterShape(w), w.open = TRUE,
         WriterOK(fs, w, hs), NEW d \in Days, NEW rec, NEW q \in AppendTo(fs, w, d, rec)
  PROVE  /\ EndsWell(fs, hs, d, q) /\ WriterOK(q.files, q.writer, Hurt(hs, q, d))
         /\ q.ok => rec \in Recorded(q.files[d])
         /\ q.writer.open = TRUE
<1> DEFINE Goal == /\ EndsWell(fs, hs, d, q) /\ WriterOK(q.files, q.writer, Hurt(hs, q, d))
                   /\ q.ok => rec \in Recorded(q.files[d])
                   /\ q.writer.open = TRUE
<1>1. \E r \in IF d = w.day THEN {Ended(fs, w, TRUE, FALSE)} ELSE OpenAt(fs, d) :
        q \in IF ~r.ok THEN {[r EXCEPT !.writer = w]}
              ELSE {[a EXCEPT !.fault = a.fault \/ r.fault] : a \in WriteFrame(r.files, r.writer, rec)}
  BY DEF AppendTo
<1>2. PICK r \in IF d = w.day THEN {Ended(fs, w, TRUE, FALSE)} ELSE OpenAt(fs, d) :
        q \in IF ~r.ok THEN {[r EXCEPT !.writer = w]}
              ELSE {[a EXCEPT !.fault = a.fault \/ r.fault] : a \in WriteFrame(r.files, r.writer, rec)}
  BY <1>1
<1> DEFINE ks == Hurt(hs, r, d)
<1>3. /\ EndsWell(fs, hs, d, r) /\ (r.ok => WriterOK(r.files, r.writer, ks))
      /\ r.ok => r.writer.open = TRUE /\ r.writer.day = d
      /\ ~r.ok => d # w.day
  <2>1. CASE d = w.day
    <3>1. r = Ended(fs, w, TRUE, FALSE)
      BY <1>2, <2>1
    <3>2. /\ r.files = fs /\ r.writer = w /\ r.ok = TRUE /\ r.fault = FALSE
          /\ DOMAIN r = {"files", "writer", "ok", "fault"}
      BY <3>1 DEF Ended
    <3>3. ks = hs
      BY <3>2 DEF Hurt
    <3> QED BY <2>1, <3>2, <3>3 DEF EndsWell
  <2>2. CASE d # w.day
    <3>1. r \in OpenAt(fs, d)
      BY <1>2, <2>2
    <3>2. EndsWell(fs, hs, d, r) /\ WriterOK(r.files, r.writer, ks) /\ (r.ok => r.writer.open /\ r.writer.day = d)
      BY <3>1, OpenAtEndsWell
    <3>3. r.writer.open \in BOOLEAN
      BY <3>2 DEF EndsWell, WriterShape
    <3> QED BY <2>2, <3>2, <3>3
  <2> QED BY <2>1, <2>2
<1>4. ASSUME ~r.ok PROVE Goal
  <2>1. q = [r EXCEPT !.writer = w]
    BY <1>2, <1>4
  <2>2. /\ q.files = r.files /\ q.writer = w /\ q.ok = r.ok /\ q.fault = r.fault /\ DOMAIN q = DOMAIN r
    BY <1>3, <2>1 DEF EndsWell
  <2>3. Hurt(hs, q, d) = ks
    BY <2>2 DEF Hurt
  <2>4. EndsWell(fs, hs, d, q)
    BY <1>3, <2>2, <2>3 DEF EndsWell
  <2>5. WriterOK(q.files, w, ks)
    <3>1. w.day \in Days /\ q.files[w.day] = fs[w.day] /\ (w.day \notin ks => w.day \notin hs)
      BY <1>3, <1>4, <2>2 DEF EndsWell, WriterOK, Hurt
    <3> QED BY <3>1 DEF WriterOK
  <2> QED BY <1>4, <2>2, <2>3, <2>4, <2>5
<1>5. ASSUME r.ok PROVE Goal
  <2>1. PICK a \in WriteFrame(r.files, r.writer, rec) : q = [a EXCEPT !.fault = a.fault \/ r.fault]
    BY <1>2, <1>5
  <2>2. FilesOK(r.files, ks) /\ WriterShape(r.writer)
    BY <1>3 DEF EndsWell
  <2>3. /\ EndsWell(r.files, ks, d, a) /\ WriterOK(a.files, a.writer, Hurt(ks, a, d))
        /\ a.ok => rec \in Recorded(a.files[d])
        /\ a.writer.open = TRUE
    <3> DEFINE gs == r.files  v == r.writer
    <3>1. /\ FilesOK(gs, ks) /\ WriterShape(v) /\ v.open = TRUE /\ WriterOK(gs, v, ks)
          /\ a \in WriteFrame(gs, v, rec) /\ v.day = d
      BY <1>3, <1>5, <2>2
    <3> HIDE DEF ks, gs, v
    <3>2. /\ EndsWell(gs, ks, v.day, a) /\ WriterOK(a.files, a.writer, Hurt(ks, a, v.day))
          /\ a.ok => rec \in Recorded(a.files[v.day])
          /\ a.writer.open = TRUE
      BY <3>1, WriteFrameEndsWell
    <3> QED BY <3>1, <3>2, Zenon DEF gs
  <2>4. /\ q.files = a.files /\ q.writer = a.writer /\ q.ok = a.ok /\ DOMAIN q = DOMAIN a
        /\ q.fault = (a.fault \/ r.fault)
    BY <2>1, <2>3 DEF EndsWell
  <2>5. q.fault \in BOOLEAN /\ (q.fault <=> a.fault \/ r.fault)
    BY <2>4
  <2>6. Hurt(hs, q, d) = Hurt(ks, a, d)
    BY <2>5 DEF Hurt
  <2>7. EndsWell(fs, hs, d, q)
    <3>1. \A p \in Days \ {d} : q.files[p] = fs[p]
      BY <1>3, <2>3, <2>4 DEF EndsWell
    <3>2. Recorded(fs[d]) \subseteq Recorded(q.files[d])
      BY <1>3, <2>3, <2>4 DEF EndsWell
    <3>3. ~q.ok /\ ~q.fault => d \in hs
      BY <2>3, <2>4, <2>5 DEF EndsWell, Hurt
    <3> QED BY <2>3, <2>4, <2>5, <2>6, <3>1, <3>2, <3>3 DEF EndsWell
  <2> QED BY <2>3, <2>4, <2>6, <2>7
<1> QED BY <1>4, <1>5

-----------------------------------------------------------------------------
LEMMA AuditStarts == AuditInit => AuditInv
<1> SUFFICES ASSUME AuditInit PROVE AuditInv
  OBVIOUS
<1>1. FileShape(NoFile) /\ NoFile.header = "none"
  BY EmptyIsSequential DEF NoFile, FileShape
<1>2. FilesOK(files, hurt)
  BY <1>1 DEF AuditInit, FilesOK
<1>3. WriterShape(writer) /\ WriterOK(files, writer, hurt)
  BY WritersHaveShape DEF AuditInit, WriterOK
<1> QED BY <1>2, <1>3, AuditAssumption DEF AuditInit, AuditInv, Days

(* Records never leave a file, and a day once hurt stays so.               *)
AuditKeeps == /\ \A d \in Days : Recorded(files[d]) \subseteq Recorded(files'[d])
              /\ hurt \subseteq hurt'

(* An operation on today that ends well leaves the files in order.         *)
LEMMA AuditSettles ==
  ASSUME AuditInv, NEW r, EndsWell(files, hurt, today, r), Happened(r, today)
  PROVE  /\ FilesOK(files', hurt') /\ AuditKeeps /\ hurt' = Hurt(hurt, r, today)
         /\ \A d \in Days : acked[d] \subseteq Recorded(files'[d])
<1>1. files' = r.files /\ hurt' = Hurt(hurt, r, today) /\ today \in Days
  BY DEF Happened, Hurt, AuditInv
<1>2. FilesOK(files', hurt')
  BY <1>1 DEF EndsWell
<1>3. AuditKeeps
  BY <1>1 DEF EndsWell, AuditKeeps, Hurt
<1> QED BY <1>1, <1>2, <1>3 DEF AuditInv, AuditKeeps

LEMMA LogRecordSettles ==
  ASSUME AuditInv, LogRecord
  PROVE  /\ AuditInv' /\ AuditKeeps /\ writer'.open = TRUE
         /\ today \in hurt' \/ count + 1 \in Recorded(files'[today])
<1>1. PICK r \in AppendTo(files, writer, today, count + 1) :
        /\ Happened(r, today)
        /\ writer' = r.writer
        /\ acked' = IF r.ok THEN [acked EXCEPT ![today] = @ \union {count + 1}] ELSE acked
  BY DEF LogRecord
<1>2. writer.open = TRUE /\ today \in Days
  BY DEF LogRecord, AuditInv, WriterShape
<1>3. /\ EndsWell(files, hurt, today, r) /\ WriterOK(r.files, r.writer, Hurt(hurt, r, today))
      /\ r.ok => count + 1 \in Recorded(r.files[today])
      /\ r.writer.open = TRUE
  BY <1>1, <1>2, AppendToEndsWell DEF AuditInv
<1>4. /\ FilesOK(files', hurt') /\ AuditKeeps /\ hurt' = Hurt(hurt, r, today)
      /\ \A d \in Days : acked[d] \subseteq Recorded(files'[d])
  BY <1>1, <1>3, AuditSettles
<1>5. files' = r.files
  BY <1>1 DEF Happened
<1>6. DOMAIN acked' = Days /\ \A d \in Days : acked'[d] \subseteq Recorded(files'[d])
  <2>1. CASE ~r.ok
    BY <1>1, <1>4, <2>1 DEF AuditInv
  <2>2. CASE r.ok
    BY <1>1, <1>2, <1>3, <1>4, <1>5, <2>2 DEF AuditInv
  <2> QED BY <2>1, <2>2
<1>7. today \in hurt' \/ count + 1 \in Recorded(files'[today])
  BY <1>3, <1>4, <1>5 DEF EndsWell, Hurt
<1>8. today' = today /\ count' \in Nat
  BY DEF LogRecord, AuditInv
<1>9. WriterShape(writer') /\ WriterOK(files', writer', hurt')
  BY <1>1, <1>3, <1>4, <1>5 DEF EndsWell
<1> QED BY <1>1, <1>2, <1>3, <1>4, <1>6, <1>7, <1>8, <1>9 DEF AuditInv

LEMMA AuditStep ==
  ASSUME AuditInv, [AuditNext]_auditVars
  PROVE  AuditInv' /\ AuditKeeps
<1>1. CASE NextDay
  <2>1. today' \in Days /\ UNCHANGED <<files, writer, count, acked, hurt>>
    BY <1>1, AuditAssumption DEF NextDay, AuditInv, Days
  <2> QED BY <2>1 DEF AuditInv, AuditKeeps
<1>2. CASE Open
  <2>1. PICK r \in OpenAt(files, today) : Happened(r, today) /\ writer' = r.writer
    BY <1>2 DEF Open
  <2>2. EndsWell(files, hurt, today, r) /\ WriterOK(r.files, r.writer, Hurt(hurt, r, today))
    BY OpenAtEndsWell DEF AuditInv
  <2>3. /\ FilesOK(files', hurt') /\ AuditKeeps /\ hurt' = Hurt(hurt, r, today)
        /\ \A d \in Days : acked[d] \subseteq Recorded(files'[d])
    BY <2>1, <2>2, AuditSettles
  <2>4. files' = r.files /\ UNCHANGED <<today, count, acked>>
    BY <1>2, <2>1 DEF Happened, Open
  <2>5. WriterShape(writer') /\ WriterOK(files', writer', hurt')
    BY <2>1, <2>2, <2>3, <2>4 DEF EndsWell
  <2> QED BY <2>3, <2>4, <2>5 DEF AuditInv
<1>3. CASE LogRecord
  BY <1>3, LogRecordSettles
<1>4. CASE Exit
  <2>1. writer' = Closed /\ UNCHANGED <<files, today, count, acked, hurt>>
    BY <1>4 DEF Exit
  <2>2. WriterShape(writer') /\ WriterOK(files', writer', hurt')
    BY <2>1, WritersHaveShape DEF WriterOK
  <2> QED BY <2>1, <2>2 DEF AuditInv, AuditKeeps
<1>5. CASE DieAppending
  <2>1. PICK r \in AppendTo(files, writer, today, count + 1) : Happened(r, today)
    BY <1>5 DEF DieAppending
  <2>2. writer.open = TRUE /\ today \in Days
    BY <1>5 DEF DieAppending, AuditInv, WriterShape
  <2>3. EndsWell(files, hurt, today, r)
    BY <2>2, AppendToEndsWell DEF AuditInv
  <2>4. /\ FilesOK(files', hurt') /\ AuditKeeps
        /\ \A d \in Days : acked[d] \subseteq Recorded(files'[d])
    BY <2>1, <2>3, AuditSettles
  <2>5. writer' = Closed /\ UNCHANGED <<today, acked>> /\ count' \in Nat
    BY <1>5 DEF DieAppending, AuditInv
  <2>6. WriterShape(writer') /\ WriterOK(files', writer', hurt')
    BY <2>5, WritersHaveShape DEF WriterOK
  <2> QED BY <2>4, <2>5, <2>6 DEF AuditInv
<1>6. CASE UNCHANGED auditVars
  BY <1>6 DEF AuditInv, AuditKeeps, auditVars
<1> QED BY <1>1, <1>2, <1>3, <1>4, <1>5, <1>6 DEF AuditNext

LEMMA AuditInvGivesNothingVanishes == AuditInv => NothingVanishes
<1> SUFFICES ASSUME AuditInv, NEW d \in Days
             PROVE  /\ acked[d] \subseteq RecordsOf(files[d]) \/ Broken(files[d])
                    /\ files[d].header # "none" /\ d \notin hurt => ~Broken(files[d])
  BY DEF NothingVanishes
<1> DEFINE f == files[d]
<1>1. /\ FileShape(f) /\ acked[d] \subseteq Recorded(f)
      /\ d \in hurt \/ f.header = "none" \/ Sound(f)
  BY DEF AuditInv, FilesOK
<1> HIDE DEF f
<1>2. /\ Len(f.frames) \in Nat /\ DOMAIN f.frames = 1 .. Len(f.frames)
      /\ Verified(f) \in 0 .. Len(f.frames)
      /\ Sound(f) => Verified(f) = Len(f.frames)
  BY <1>1, VerifiedBounds
<1>3. ~Broken(f) => Recorded(f) = RecordsOf(f)
  BY <1>2 DEF Broken, Recorded, RecordsOf
<1>4. Sound(f) => ~Broken(f)
  BY <1>2 DEF Broken, Readable, Sound
<1> QED BY <1>1, <1>3, <1>4 DEF f

(* For every number of days, records and failures: a record that append    *)
(* answered Ok for is read back, or its file does not verify; and a day on *)
(* which no write went wrong does verify, whatever restarts and crashes    *)
(* there were.                                                             *)
THEOREM LogNeverVanishes == AuditSpec => []NothingVanishes
<1>1. AuditInv /\ [AuditNext]_auditVars => AuditInv'
  BY AuditStep
<1> QED BY AuditStarts, <1>1, AuditInvGivesNothingVanishes, PTL DEF AuditSpec

(* Whatever the server does to its log is a behaviour of the log alone.    *)
LEMMA NextDrivesTheLog == [Next]_vars => [AuditNext]_auditVars
<1> SUFFICES ASSUME [Next]_vars PROVE [AuditNext]_auditVars
  OBVIOUS
<1> USE DEF Audited, Unaudited, AuditNext
<1>1. ASSUME NEW p \in Peers, ApiNoCredential(p) PROVE LogRecord
  BY <1>1 DEF ApiNoCredential
<1>2. ASSUME NEW p \in Peers, NEW c, ApiRefused(p, c) PROVE LogRecord
  BY <1>2 DEF ApiRefused
<1>3. ASSUME NEW p \in Peers, NEW k \in Kids, ApiForbidden(p, k) PROVE LogRecord
  BY <1>3 DEF ApiForbidden
<1>4. ASSUME NEW p \in Peers, NEW k \in Kids, NEW need, NEW raises, ApiServed(p, k, need, raises)
      PROVE  LogRecord \/ UNCHANGED auditVars
  BY <1>4 DEF ApiServed
<1>5. ASSUME NEW c, StreamTicket(c) \/ Metrics(c) PROVE UNCHANGED auditVars
  BY <1>5 DEF StreamTicket, Metrics
<1>6. ASSUME NEW i \in 1 .. Capacity, OpenStream(i) PROVE UNCHANGED auditVars
  BY <1>6 DEF OpenStream
<1>7. ASSUME OpenStreamRefused \/ Push \/ Keyctl \/ EditByHand \/ Tick PROVE UNCHANGED auditVars
  BY <1>7 DEF OpenStreamRefused, Push, Keyctl, EditByHand, Tick
<1>8. ASSUME ApiPublicRaises \/ Start \/ Stop \/ Crash \/ Midnight PROVE AuditNext
  BY <1>8 DEF ApiPublicRaises, Start, Stop, Crash, Midnight
<1>9. CASE UNCHANGED vars
  BY <1>9 DEF vars
<1> QED BY <1>1, <1>2, <1>3, <1>4, <1>5, <1>6, <1>7, <1>8, <1>9 DEF Next

(* The server implements the log: each of its steps is one of the log's or *)
(* leaves it alone.                                                        *)
THEOREM ServerDrivesTheLog == Spec => AuditSpec
<1>1. Init => AuditInit
  BY DEF Init
<1> QED BY <1>1, NextDrivesTheLog, PTL DEF Spec, AuditSpec

(* So what the log promises holds of the log under the server.             *)
THEOREM NothingVanishesUnderTheServer == Spec => []NothingVanishes
BY ServerDrivesTheLog, LogNeverVanishes, PTL

-----------------------------------------------------------------------------
(* Control requests and their records. *)

CommandsOK == \A c \in commands : /\ c[2] \in Days
                                  /\ c[2] \in hurt \/ c[1] \in Recorded(files[c[2]])

CommandsInv == AuditInv /\ CommandsOK

(* Commands are only added by control requests, each with its record.      *)
LEMMA CommandsGrow ==
  ASSUME [Next]_vars
  PROVE  \/ UNCHANGED commands
         \/ LogRecord /\ commands' = commands \union {<<count + 1, today>>}
<1>1. ASSUME NEW p \in Peers, ApiNoCredential(p) PROVE UNCHANGED commands
  BY <1>1 DEF ApiNoCredential, history
<1>2. ASSUME NEW p \in Peers, NEW c, ApiRefused(p, c) PROVE UNCHANGED commands
  BY <1>2 DEF ApiRefused, history
<1>3. ASSUME NEW p \in Peers, NEW k \in Kids, ApiForbidden(p, k) PROVE UNCHANGED commands
  BY <1>3 DEF ApiForbidden, history
<1>4. ASSUME NEW p \in Peers, NEW k \in Kids, NEW need, NEW raises, ApiServed(p, k, need, raises)
      PROVE  \/ UNCHANGED commands
             \/ LogRecord /\ commands' = commands \union {<<count + 1, today>>}
  BY <1>4 DEF ApiServed, Audited
<1>5. ASSUME NEW c, StreamTicket(c) \/ Metrics(c) PROVE UNCHANGED commands
  BY <1>5 DEF StreamTicket, Metrics, history
<1>6. ASSUME NEW i \in 1 .. Capacity, OpenStream(i) PROVE UNCHANGED commands
  BY <1>6 DEF OpenStream, history
<1>7. ASSUME \/ OpenStreamRefused \/ Push \/ Keyctl \/ EditByHand \/ Tick
             \/ ApiPublicRaises \/ Start \/ Stop \/ Crash \/ Midnight
      PROVE  UNCHANGED commands
  BY <1>7 DEF OpenStreamRefused, Push, Keyctl, EditByHand, Tick,
              ApiPublicRaises, Start, Stop, Crash, Midnight, history
<1>8. CASE UNCHANGED vars
  BY <1>8 DEF vars, history
<1> QED BY <1>1, <1>2, <1>3, <1>4, <1>5, <1>6, <1>7, <1>8 DEF Next

LEMMA CommandsStep == CommandsInv /\ [Next]_vars => CommandsInv'
<1> SUFFICES ASSUME CommandsInv, [Next]_vars PROVE CommandsInv'
  OBVIOUS
<1>1. AuditInv' /\ AuditKeeps
  BY NextDrivesTheLog, AuditStep DEF CommandsInv
<1>2. \A c \in commands : c[2] \in Days /\ (c[2] \in hurt' \/ c[1] \in Recorded(files'[c[2]]))
  BY <1>1 DEF CommandsInv, CommandsOK, AuditKeeps
<1>3. CASE UNCHANGED commands
  BY <1>1, <1>2, <1>3 DEF CommandsInv, CommandsOK
<1>4. CASE LogRecord /\ commands' = commands \union {<<count + 1, today>>}
  <2>1. today \in Days /\ (today \in hurt' \/ count + 1 \in Recorded(files'[today]))
    BY <1>4, LogRecordSettles DEF CommandsInv, AuditInv
  <2> DEFINE new == <<count + 1, today>>
  <2>2. new[1] = count + 1 /\ new[2] = today
    OBVIOUS
  <2> HIDE DEF new
  <2>3. \A c \in commands' : c \in commands \/ c = new
    BY <1>4 DEF new
  <2>4. CommandsOK'
    <3> SUFFICES ASSUME NEW c \in commands'
                 PROVE  c[2] \in Days /\ (c[2] \in hurt' \/ c[1] \in Recorded(files'[c[2]]))
      BY DEF CommandsOK
    <3> QED BY <1>2, <2>1, <2>2, <2>3
  <2> QED BY <1>1, <2>4 DEF CommandsInv
<1> QED BY <1>3, <1>4, CommandsGrow

LEMMA CommandsInvGivesRecords == CommandsInv => CommandsAreOnRecord
<1> SUFFICES ASSUME CommandsInv, NEW c \in commands, c[2] \notin hurt
             PROVE  c[1] \in RecordsOf(files[c[2]])
  BY DEF CommandsAreOnRecord
<1> DEFINE f == files[c[2]]
<1>1. /\ c[1] \in Recorded(f) /\ FileShape(f) /\ (f.header = "none" \/ Sound(f))
  BY DEF CommandsInv, CommandsOK, AuditInv, FilesOK
<1> HIDE DEF f
<1>2. f.header # "none"
  BY <1>1 DEF FileShape, Recorded
<1>3. Verified(f) = Len(f.frames) /\ DOMAIN f.frames = 1 .. Len(f.frames)
  BY <1>1, <1>2, VerifiedBounds
<1>4. Recorded(f) = RecordsOf(f)
  BY <1>3 DEF Recorded, RecordsOf
<1> QED BY <1>1, <1>4 DEF f

(* For every number of keys, peers and days: a control request that was    *)
(* answered is in the verified part of the log of its day, or writing that *)
(* day's log went wrong.                                                   *)
THEOREM CommandsStayOnRecord == Spec => []CommandsAreOnRecord
<1>1. Init => CommandsInv
  BY AuditStarts DEF Init, CommandsInv, CommandsOK
<1> QED BY <1>1, CommandsStep, CommandsInvGivesRecords, PTL DEF Spec

-----------------------------------------------------------------------------
(* The rate limit. *)

(* A peer's refusals t, against what Rate_limit remembers of them at time  *)
(* at: the last s.n of them, of which the first was at s.first.  Those at  *)
(* least MaxFailures before that one are a window older.                   *)
PeerOK(t, s, at) ==
  /\ DOMAIN s = {"n", "first"} /\ s.n \in 0 .. MaxFailures /\ s.first \in Nat
  /\ t \in Seq(Nat) /\ s.n <= Len(t) /\ (s.n = 0 <=> t = <<>>)
  /\ \A i \in 1 .. Len(t) : t[i] <= at /\ \A j \in i .. Len(t) : t[i] <= t[j]
  /\ s.n > 0 => s.first = t[Len(t) - s.n + 1]
  /\ \A i \in 1 .. Len(t) - s.n + 1 - MaxFailures : s.first - t[i] >= Window
  /\ \A i \in 1 .. Len(t) - (2 * MaxFailures - 1) : t[i + 2 * MaxFailures - 1] - t[i] >= Window

LimitInv == /\ now \in Nat /\ DOMAIN fails = Peers /\ DOMAIN refusals = Peers
            /\ \A p \in Peers : PeerOK(refusals[p], fails[p], now)

LEMMA LimitsAreNat == /\ Reload \in Nat \ {0} /\ Window \in Nat \ {0} /\ MaxFailures \in Nat \ {0}
                      /\ Ttl \in Nat \ {0} /\ Capacity \in Nat \ {0} /\ Lease \in Nat \ {0}
BY GatewayAssumption

LEMMA FreshIsOK == ASSUME NEW at PROVE PeerOK(<<>>, Fresh, at)
<1>1. Fresh.n = 0 /\ Fresh.first = 0 /\ DOMAIN Fresh = {"n", "first"}
  BY DEF Fresh
<1>2. <<>> \in Seq(Nat) /\ Len(<<>>) = 0
  OBVIOUS
<1>3. MaxFailures \in Nat \ {0}
  BY LimitsAreNat
<1> QED BY <1>1, <1>2, <1>3 DEF PeerOK

LEMMA LaterIsOK ==
  ASSUME NEW t, NEW s, NEW at \in Nat, PeerOK(t, s, at), NEW later \in Nat, at <= later
  PROVE  PeerOK(t, s, later)
<1>1. \A i \in 1 .. Len(t) : t[i] \in Nat
  BY DEF PeerOK
<1> QED BY <1>1 DEF PeerOK

(* One more failure, when the window is over or the count is not reached.  *)
LEMMA NotedIsOK ==
  ASSUME NEW t, NEW s, NEW at \in Nat, PeerOK(t, s, at), NEW u, u = Append(t, at), NEW v,
         DOMAIN v = {"n", "first"},
         \/ v.n = 1 /\ v.first = at /\ (s.n = 0 \/ at - s.first >= Window)
         \/ v.n = s.n + 1 /\ v.first = s.first /\ s.n > 0 /\ s.n < MaxFailures
  PROVE  PeerOK(u, v, at)
<1> DEFINE L == Len(t)  M == MaxFailures  c == L - s.n + 1  span == 2 * M - 1
<1>1. M \in Nat \ {0} /\ Window \in Nat \ {0} /\ M = MaxFailures /\ span \in Nat /\ span + 1 = M + M
  BY LimitsAreNat
<1>0. /\ t \in Seq(Nat) /\ L \in Nat /\ s.n \in 0 .. M /\ s.first \in Nat /\ s.n <= L
      /\ s.n = 0 <=> L = 0
  BY LenProperties, EmptySeq DEF PeerOK
<1>12. c \in Int /\ c = L - s.n + 1 /\ (s.n > 0 => c \in 1 .. L)
  BY <1>0, <1>1
<1>2. /\ \A i \in 1 .. L : t[i] \in Nat /\ t[i] <= at /\ \A j \in i .. L : t[i] <= t[j]
      /\ s.n > 0 => s.first = t[c]
      /\ \A i \in 1 .. c - M : s.first - t[i] >= Window
  <2>1. \A i \in 1 .. L : t[i] \in Nat
    BY <1>0
  <2>2. \A i \in 1 .. L : t[i] <= at /\ \A j \in i .. L : t[i] <= t[j]
    BY DEF PeerOK
  <2>3. s.n > 0 => s.first = t[c]
    BY DEF PeerOK
  <2>4. \A i \in 1 .. Len(t) - s.n + 1 - MaxFailures : s.first - t[i] >= Window
    BY Zenon DEF PeerOK
  <2>5. Len(t) - s.n + 1 - MaxFailures = c - M
    BY <1>0, <1>1
  <2>6. \A i \in 1 .. c - M : s.first - t[i] >= Window
    BY <2>4, <2>5, Zenon
  <2> QED BY <2>1, <2>2, <2>3, <2>6
<1>13. \A i \in 1 .. L - span : t[i + span] - t[i] >= Window
  <2> SUFFICES ASSUME NEW i \in 1 .. L - span PROVE t[i + span] - t[i] >= Window
    OBVIOUS
  <2>1. i + span = i + 2 * MaxFailures - 1 /\ i \in 1 .. L - (2 * MaxFailures - 1)
    BY <1>1
  <2> QED BY <2>1 DEF PeerOK
<1>3. /\ u \in Seq(Nat) /\ Len(u) = L + 1 /\ u[L + 1] = at
      /\ \A i \in 1 .. L : u[i] = t[i]
  BY <1>0, AppendProperties
<1> HIDE DEF L, M, span, c
<1>4. v.n \in 1 .. M /\ v.first \in Nat /\ v.n <= L + 1
  BY <1>0, <1>1
<1>5. \A i \in 1 .. L + 1 : u[i] <= at /\ \A j \in i .. L + 1 : u[i] <= u[j]
  <2> SUFFICES ASSUME NEW i \in 1 .. L + 1
               PROVE  u[i] <= at /\ \A j \in i .. L + 1 : u[i] <= u[j]
    OBVIOUS
  <2>0. u[i] <= at
    <3>1. i \in 1 .. L \/ i = L + 1
      BY <1>0
    <3> QED BY <1>2, <1>3, <3>1
  <2> SUFFICES ASSUME NEW j \in i .. L + 1 PROVE u[i] <= u[j]
    BY <2>0
  <2>1. CASE j \in 1 .. L
    <3>1. i \in 1 .. L /\ j \in i .. L
      BY <1>0, <2>1
    <3> QED BY <1>2, <1>3, <2>1, <3>1
  <2>2. CASE j = L + 1
    <3>1. i \in 1 .. L \/ i = L + 1
      BY <1>0
    <3> QED BY <1>2, <1>3, <2>2, <3>1
  <2>3. j \in 1 .. L \/ j = L + 1
    BY <1>0
  <2> QED BY <2>1, <2>2, <2>3
<1>6. v.first = u[L + 1 - v.n + 1]
  <2>1. CASE v.n = 1 /\ v.first = at
    BY <1>0, <1>3, <2>1
  <2>2. CASE v.n = s.n + 1 /\ v.first = s.first /\ s.n > 0
    <3>1. L + 1 - v.n + 1 = c /\ c \in 1 .. L
      BY <1>0, <1>12, <2>2
    <3> QED BY <1>2, <1>3, <2>2, <3>1
  <2> QED BY <2>1, <2>2
<1>7. \A i \in 1 .. L + 1 - v.n + 1 - M : i \in 1 .. L /\ v.first - t[i] >= Window
  <2> SUFFICES ASSUME NEW i \in 1 .. L + 1 - v.n + 1 - M
               PROVE  i \in 1 .. L /\ v.first - t[i] >= Window
    OBVIOUS
  <2>1. CASE v.n = 1 /\ v.first = at /\ (s.n = 0 \/ at - s.first >= Window)
    <3>1. i <= L + 1 - M /\ i >= 1 /\ i \in Int
      BY <1>0, <1>1, <2>1
    <3>0. L # 0 /\ i <= L
      BY <1>0, <1>1, <3>1
    <3>2. s.n # 0 /\ i <= c /\ c \in 1 .. L
      BY <1>0, <1>1, <1>12, <3>0, <3>1, SMTT(30)
    <3>3. c \in i .. L /\ i \in 1 .. L
      BY <1>0, <3>0, <3>1, <3>2
    <3>4. t[i] <= s.first /\ t[i] \in Nat
      BY <1>0, <1>2, <3>2, <3>3
    <3>5. at - s.first >= Window
      BY <2>1, <3>2
    <3> QED BY <1>0, <1>1, <2>1, <3>3, <3>4, <3>5
  <2>2. CASE v.n = s.n + 1 /\ v.first = s.first /\ s.n > 0
    <3>1. i \in 1 .. c - M /\ i \in 1 .. L
      BY <1>0, <1>1, <1>12, <2>2, SMTT(30)
    <3> QED BY <1>2, <2>2, <3>1
  <2> QED BY <2>1, <2>2
<1>8. \A i \in 1 .. L + 1 - span : u[i + span] - u[i] >= Window
  <2> SUFFICES ASSUME NEW i \in 1 .. L + 1 - span
               PROVE  u[i + span] - u[i] >= Window
    OBVIOUS
  <2>1. CASE i \in 1 .. L - span
    <3>1. i \in 1 .. L /\ i + span \in 1 .. L
      BY <1>0, <1>1, <2>1
    <3> QED BY <1>13, <1>3, <2>1, <3>1
  <2>2. CASE i = L + 1 - span
    <3>1. i + span = L + 1 /\ i \in 1 .. L + 1 - v.n + 1 - M
      BY <1>0, <1>1, <1>4, <2>2
    <3>2. i \in 1 .. L /\ v.first - t[i] >= Window
      BY <1>7, <3>1
    <3>3. v.first <= at
      <4>1. CASE v.n = 1 /\ v.first = at
        BY <4>1
      <4>2. CASE v.first = s.first /\ s.n > 0
        <5>1. c \in 1 .. L
          BY <1>12, <4>2
        <5> QED BY <1>2, <4>2, <5>1
      <4> QED BY <4>1, <4>2
    <3>4. u[i] = t[i] /\ u[i + span] = at /\ t[i] \in Nat
      BY <1>2, <1>3, <3>1, <3>2
    <3>5. at - t[i] >= Window
      <4> HIDE DEF PeerOK
      <4> QED BY <1>1, <1>4, <3>2, <3>3, <3>4
    <3> QED BY <3>4, <3>5
  <2>3. i \in 1 .. L - span \/ i = L + 1 - span
    BY <1>0, <1>1
  <2> QED BY <2>1, <2>2, <2>3
<1>9. \A i \in 1 .. L + 1 - v.n + 1 - M : v.first - u[i] >= Window
  BY <1>3, <1>7
<1>10. u # <<>> /\ v.n # 0
  BY <1>0, <1>3, <1>4, EmptySeq
<1>11. \A i \in 1 .. (L + 1) - (2 * MaxFailures - 1) : u[i + 2 * MaxFailures - 1] - u[i] >= Window
  <2> SUFFICES ASSUME NEW i \in 1 .. (L + 1) - (2 * MaxFailures - 1)
               PROVE  u[i + 2 * MaxFailures - 1] - u[i] >= Window
    OBVIOUS
  <2>1. i \in 1 .. L + 1 - span /\ i + 2 * MaxFailures - 1 = i + span
    BY <1>0, <1>1
  <2> QED BY <1>8, <2>1
<1>14. Len(u) = L + 1 /\ u \in Seq(Nat)
  BY <1>3
<1>15. \A i \in 1 .. Len(u) : u[i] <= at /\ \A j \in i .. Len(u) : u[i] <= u[j]
  BY <1>5, <1>14
<1>16. /\ Len(u) - v.n + 1 = L + 1 - v.n + 1
       /\ Len(u) - v.n + 1 - MaxFailures = L + 1 - v.n + 1 - M
       /\ v.n \in 0 .. MaxFailures /\ v.n <= Len(u)
  <2>1. v.n \in Int /\ L \in Int /\ M \in Int /\ M = MaxFailures /\ Len(u) = L + 1
    BY <1>0, <1>1, <1>4, <1>14
  <2>2. Len(u) - v.n + 1 = L + 1 - v.n + 1
    BY <2>1
  <2>3. Len(u) - v.n + 1 - MaxFailures = L + 1 - v.n + 1 - M
    BY <2>1
  <2>4. v.n \in 0 .. MaxFailures /\ v.n <= Len(u)
    BY <1>1, <1>4, <1>14
  <2> QED BY <2>2, <2>3, <2>4
<1>17. \A i \in 1 .. Len(u) - v.n + 1 - MaxFailures : v.first - u[i] >= Window
  BY <1>9, <1>16, Zenon
<1>18. \A i \in 1 .. Len(u) - (2 * MaxFailures - 1) : u[i + 2 * MaxFailures - 1] - u[i] >= Window
  BY <1>11, <1>14, Zenon
<1>19. v.first = u[Len(u) - v.n + 1]
  BY <1>6, <1>16, Zenon
<1> QED BY <1>4, <1>10, <1>14, <1>15, <1>16, <1>17, <1>18, <1>19 DEF PeerOK

(* The failure of a peer that is not limited. *)
LEMMA NoteFailureIsOK ==
  ASSUME NEW p \in Peers, LimitInv, ~Limited(p), NoteFailure(p), now' = now
  PROVE  LimitInv'
<1> DEFINE s == fails[p]  t == refusals[p]
<1>1. PeerOK(t, s, now) /\ now \in Nat
  BY DEF LimitInv
<1>2. fails'[p] = Noted(p) /\ refusals'[p] = Append(t, now)
  BY DEF NoteFailure, LimitInv
<1>3. MaxFailures \in Nat \ {0} /\ s.n \in 0 .. MaxFailures /\ DOMAIN s = {"n", "first"}
  BY <1>1, LimitsAreNat DEF PeerOK
<1>4. DOMAIN Noted(p) = {"n", "first"}
  BY DEF Noted
<1>5. /\ Noted(p).n = Expired(p).n + 1
      /\ Noted(p).first = IF Expired(p).n = 0 THEN now ELSE Expired(p).first
  BY DEF Noted
<1>6. \/ Noted(p).n = 1 /\ Noted(p).first = now /\ (s.n = 0 \/ now - s.first >= Window)
      \/ Noted(p).n = s.n + 1 /\ Noted(p).first = s.first /\ s.n > 0 /\ s.n < MaxFailures
  <2>1. CASE s.n > 0 /\ now - s.first >= Window
    <3>1. Expired(p) = Fresh /\ Fresh.n = 0
      BY <2>1 DEF Expired, Fresh
    <3> QED BY <1>5, <2>1, <3>1
  <2>2. CASE ~(s.n > 0 /\ now - s.first >= Window)
    <3>1. Expired(p) = s
      BY <2>2 DEF Expired
    <3>2. s.n < MaxFailures
      BY <1>3, <3>1 DEF Limited
    <3>3. s.n = 0 \/ s.n > 0
      BY <1>3
    <3> QED BY <1>3, <1>5, <3>1, <3>2, <3>3
  <2> QED BY <2>1, <2>2
<1> HIDE DEF s, t
<1> DEFINE v == Noted(p)  u == Append(t, now)
<1>7. PeerOK(u, v, now)
  <2>1. v = Noted(p) /\ u = Append(t, now)
    OBVIOUS
  <2> HIDE DEF u, v
  <2> QED BY <1>1, <1>4, <1>6, <2>1, NotedIsOK
<1>8. \A q \in Peers \ {p} : fails'[q] = fails[q] /\ refusals'[q] = refusals[q]
  BY DEF NoteFailure, LimitInv
<1>9. DOMAIN fails' = Peers /\ DOMAIN refusals' = Peers
  BY DEF NoteFailure, LimitInv
<1> QED BY <1>2, <1>7, <1>8, <1>9 DEF LimitInv, t

LEMMA NoteSuccessIsOK ==
  ASSUME NEW p \in Peers, LimitInv, NoteSuccess(p), now' = now
  PROVE  LimitInv'
<1>1. fails'[p] = Fresh /\ refusals'[p] = <<>>
  BY DEF NoteSuccess, LimitInv
<1>2. PeerOK(<<>>, Fresh, now)
  BY FreshIsOK
<1>3. \A q \in Peers \ {p} : fails'[q] = fails[q] /\ refusals'[q] = refusals[q]
  BY DEF NoteSuccess, LimitInv
<1>4. DOMAIN fails' = Peers /\ DOMAIN refusals' = Peers
  BY DEF NoteSuccess, LimitInv
<1> QED BY <1>1, <1>2, <1>3, <1>4 DEF LimitInv

(* The ways a step touches what the rate limit remembers. *)
LEMMA RefusalsMove ==
  ASSUME [Next]_vars
  PROVE  \/ UNCHANGED <<fails, refusals, now>>
         \/ UNCHANGED <<fails, refusals>> /\ now' = now + 1
         \/ \E p \in Peers : now' = now /\ (NoteSuccess(p) \/ (~Limited(p) /\ NoteFailure(p)))
         \/ /\ now' = now /\ fails' = [p \in Peers |-> Fresh]
            /\ refusals' = [p \in Peers |-> <<>>]
<1> DEFINE Calm == UNCHANGED <<fails, refusals, now>>
           Noting == \E p \in Peers : now' = now /\ (NoteSuccess(p) \/ (~Limited(p) /\ NoteFailure(p)))
           Blank == /\ now' = now /\ fails' = [p \in Peers |-> Fresh]
                    /\ refusals' = [p \in Peers |-> <<>>]
<1>1. ASSUME NEW p \in Peers, ApiNoCredential(p) PROVE Noting
  BY <1>1 DEF ApiNoCredential, Admitted
<1>2. ASSUME NEW p \in Peers, NEW c, ApiRefused(p, c) PROVE Noting
  BY <1>2 DEF ApiRefused, Admitted
<1>3. ASSUME NEW p \in Peers, NEW k \in Kids, ApiForbidden(p, k) PROVE Noting
  BY <1>3 DEF ApiForbidden
<1>4. ASSUME NEW p \in Peers, NEW k \in Kids, NEW need, NEW raises, ApiServed(p, k, need, raises)
      PROVE  Noting
  BY <1>4 DEF ApiServed
<1>5. ASSUME NEW c, StreamTicket(c) \/ Metrics(c) PROVE Calm
  BY <1>5 DEF StreamTicket, Metrics
<1>6. ASSUME NEW i \in 1 .. Capacity, OpenStream(i) PROVE Calm
  BY <1>6 DEF OpenStream
<1>7. ASSUME \/ OpenStreamRefused \/ Push \/ Keyctl \/ EditByHand
             \/ ApiPublicRaises \/ Start \/ Midnight
      PROVE  Calm
  BY <1>7 DEF OpenStreamRefused, Push, Keyctl, EditByHand, ApiPublicRaises, Start, Midnight, memory
<1>8. ASSUME Stop \/ Crash PROVE Blank
  BY <1>8 DEF Stop, Crash, Forgotten
<1>9. ASSUME Tick PROVE UNCHANGED <<fails, refusals>> /\ now' = now + 1
  BY <1>9 DEF Tick, memory
<1>10. CASE UNCHANGED vars
  BY <1>10 DEF vars, memory
<1> QED BY <1>1, <1>2, <1>3, <1>4, <1>5, <1>6, <1>7, <1>8, <1>9, <1>10 DEF Next

LEMMA LimitStep == LimitInv /\ [Next]_vars => LimitInv'
<1> SUFFICES ASSUME LimitInv, [Next]_vars PROVE LimitInv'
  OBVIOUS
<1>1. CASE UNCHANGED <<fails, refusals, now>>
  BY <1>1 DEF LimitInv
<1>2. CASE UNCHANGED <<fails, refusals>> /\ now' = now + 1
  <2>1. now \in Nat /\ now' \in Nat /\ now <= now'
    BY <1>2 DEF LimitInv
  <2>2. \A p \in Peers : PeerOK(refusals[p], fails[p], now')
    BY <2>1, LaterIsOK DEF LimitInv
  <2> QED BY <1>2, <2>1, <2>2 DEF LimitInv
<1>3. ASSUME NEW p \in Peers, now' = now, NoteSuccess(p) \/ (~Limited(p) /\ NoteFailure(p))
      PROVE  LimitInv'
  BY <1>3, NoteSuccessIsOK, NoteFailureIsOK
<1>4. CASE /\ now' = now /\ fails' = [p \in Peers |-> Fresh]
           /\ refusals' = [p \in Peers |-> <<>>]
  <2>1. PeerOK(<<>>, Fresh, now')
    BY FreshIsOK
  <2> QED BY <1>4, <2>1 DEF LimitInv
<1> QED BY <1>1, <1>2, <1>3, <1>4, RefusalsMove

LEMMA LimitStarts == Init => LimitInv
<1> SUFFICES ASSUME Init PROVE LimitInv
  OBVIOUS
<1>1. now \in Nat /\ PeerOK(<<>>, Fresh, now)
  BY FreshIsOK, LimitsAreNat DEF Init
<1> QED BY <1>1 DEF Init, LimitInv

(* For every number of connections and every limit: however a connection   *)
(* times its requests, 2 * MaxFailures of them that handle_api refuses in  *)
(* a row, and records, take at least a window.                             *)
THEOREM RefusalsStayBounded == Spec => []RefusalsBounded
<1>1. LimitInv => RefusalsBounded
  BY DEF LimitInv, PeerOK, RefusalsBounded
<1> QED BY <1>1, LimitStarts, LimitStep, PTL DEF Spec

-----------------------------------------------------------------------------
(* Sequences with elements left out. *)

(* f says where in s the elements of q stand; every step of it is one up   *)
(* or more.                                                                *)
Threads(f, q, s) ==
  /\ f \in [1 .. Len(q) -> 1 .. Len(s)]
  /\ \A j \in 1 .. Len(q) : q[j] = s[f[j]]
  /\ \A j, k \in 1 .. Len(q) : j < k => f[k] - f[j] >= k - j

(* The body of Filtered: F holds what is kept of each prefix of s.         *)
Prefixes(F, s, keep, n) ==
  F = [i \in 0 .. n |-> IF i = 0 THEN <<>>
                        ELSE IF i \in keep THEN Append(F[i - 1], s[i]) ELSE F[i - 1]]

LEMMA PrefixesExist ==
  ASSUME NEW s, NEW keep, NEW L \in Nat
  PROVE  \E F : Prefixes(F, s, keep, L)
<1> DEFINE Bad == {n \in 0 .. L : ~ \E F : Prefixes(F, s, keep, n)}
<1> SUFFICES ASSUME Bad # {} PROVE FALSE
  <2>1. L \in 0 .. L
    OBVIOUS
  <2> QED BY <2>1
<1>1. PICK n \in Bad : \A m \in Bad : n <= m
  <2>1. Bad \subseteq Nat
    OBVIOUS
  <2> HIDE DEF Bad
  <2> QED BY <2>1, LeastNat
<1>2. n # 0
  <2> SUFFICES Prefixes([i \in 0 .. 0 |-> <<>>], s, keep, 0)
    BY <1>1
  <2> QED BY DEF Prefixes
<1>3. n - 1 \in 0 .. L /\ n - 1 \notin Bad /\ n \in 1 .. L
  BY <1>1, <1>2
<1>4. PICK G : Prefixes(G, s, keep, n - 1)
  BY <1>3
<1>5. n \in Nat \ {0} /\ DOMAIN G = 0 .. n - 1
  BY <1>3, <1>4 DEF Prefixes
<1> DEFINE F == [i \in 0 .. n |->
             IF i = n THEN IF n \in keep THEN Append(G[n - 1], s[n]) ELSE G[n - 1] ELSE G[i]]
<1>6. \A i \in 0 .. n : F[i] = IF i = 0 THEN <<>>
                               ELSE IF i \in keep THEN Append(F[i - 1], s[i]) ELSE F[i - 1]
  <2> SUFFICES ASSUME NEW i \in 0 .. n
               PROVE  F[i] = IF i = 0 THEN <<>>
                             ELSE IF i \in keep THEN Append(F[i - 1], s[i]) ELSE F[i - 1]
    OBVIOUS
  <2>1. CASE i = n
    <3>1. F[i - 1] = G[n - 1] /\ i # 0
      BY <1>5, <2>1
    <3> QED BY <2>1, <3>1
  <2>2. CASE i = 0
    <3>1. G[0] = <<>>
      BY <1>4, <1>5 DEF Prefixes
    <3> QED BY <1>2, <2>2, <3>1
  <2>3. CASE i \in 1 .. n - 1
    <3>1. F[i] = G[i] /\ F[i - 1] = G[i - 1] /\ i \in 0 .. n - 1 /\ i # 0
      BY <1>5, <2>3
    <3> HIDE DEF F
    <3> QED BY <1>4, <3>1 DEF Prefixes
  <2> QED BY <1>5, <2>1, <2>2, <2>3
<1>7. Prefixes(F, s, keep, n)
  <2>1. F = [i \in 0 .. n |-> F[i]]
    OBVIOUS
  <2> HIDE DEF F
  <2> QED BY <1>6, <2>1 DEF Prefixes
<1> QED BY <1>1, <1>7

LEMMA FilteredThreads ==
  ASSUME NEW S, NEW s \in Seq(S), NEW keep
  PROVE  LET q == Filtered(s, keep)
         IN  /\ q \in Seq(S)
             /\ \E f : /\ Threads(f, q, s)
                       /\ \A j \in 1 .. Len(q) : f[j] \in keep
                       /\ \A i \in (1 .. Len(s)) \cap keep : \E j \in 1 .. Len(q) : f[j] = i
<1> DEFINE L == Len(s)
           F == CHOOSE F : Prefixes(F, s, keep, L)
<1>1. L \in Nat /\ \A i \in 1 .. L : s[i] \in S
  OBVIOUS
<1>2. Prefixes(F, s, keep, L)
  <2>1. \E G : Prefixes(G, s, keep, L)
    BY <1>1, PrefixesExist
  <2> QED BY <2>1
<1>3. Filtered(s, keep) = F[L]
  BY DEF Filtered, Prefixes
<1> HIDE DEF F
<1>4. /\ F[0] = <<>>
      /\ \A i \in 1 .. L : F[i] = IF i \in keep THEN Append(F[i - 1], s[i]) ELSE F[i - 1]
  <2>1. F[0] = <<>>
    <3>1. 0 \in 0 .. L
      BY <1>1
    <3> QED BY <1>2, <3>1 DEF Prefixes
  <2>2. ASSUME NEW i \in 1 .. L
        PROVE  F[i] = IF i \in keep THEN Append(F[i - 1], s[i]) ELSE F[i - 1]
    <3>1. i \in 0 .. L /\ i # 0
      BY <1>1
    <3> QED BY <1>2, <3>1 DEF Prefixes
  <2> QED BY <2>1, <2>2
<1> DEFINE Kept(q, f, n) == /\ q \in Seq(S) /\ Threads(f, q, s)
                            /\ \A j \in 1 .. Len(q) : f[j] \in keep /\ f[j] <= n
                            /\ \A i \in (1 .. n) \cap keep : \E j \in 1 .. Len(q) : f[j] = i
           Bad == {n \in 0 .. L : ~ \E f : Kept(F[n], f, n)}
<1>5. Bad = {}
  <2> SUFFICES ASSUME Bad # {} PROVE FALSE
    OBVIOUS
  <2>1. PICK n \in Bad : \A m \in Bad : n <= m
    <3>1. Bad \subseteq Nat
      BY <1>1
    <3> HIDE DEF Bad
    <3> QED BY <3>1, LeastNat
  <2>2. n # 0
    <3>1. Kept(<<>>, <<>>, 0)
      <4>1. Len(<<>>) = 0 /\ <<>> \in Seq(S) /\ 1 .. 0 = {}
        OBVIOUS
      <4>2. <<>> \in [1 .. 0 -> 1 .. Len(s)]
        BY <4>1
      <4> QED BY <4>1, <4>2 DEF Threads
    <3>2. Kept(F[0], <<>>, 0)
      BY <1>4, <3>1
    <3> HIDE DEF Kept
    <3>3. 0 \notin Bad
      BY <3>2
    <3> QED BY <2>1, <3>3
  <2>3. n \in 1 .. L /\ n - 1 \in 0 .. L /\ n - 1 \notin Bad
    BY <1>1, <2>1, <2>2
  <2>4. PICK f : Kept(F[n - 1], f, n - 1)
    BY <2>3
  <2> DEFINE q == F[n - 1]  K == Len(q)
  <2> HIDE DEF q
  <2>5. q \in Seq(S) /\ K \in Nat /\ Threads(f, q, s) /\ Kept(q, f, n - 1)
    BY <2>4 DEF q
  <2>6. CASE n \notin keep
    <3>1. F[n] = q
      BY <1>4, <2>3, <2>6 DEF q
    <3>2. \A j \in 1 .. Len(q) : f[j] \in keep /\ f[j] <= n
      <4>1. \A j \in 1 .. Len(q) : f[j] \in 1 .. Len(s) /\ f[j] \in keep /\ f[j] <= n - 1
        BY <2>5 DEF Threads
      <4> QED BY <1>1, <2>3, <4>1
    <3>4. \A i \in (1 .. n) \cap keep : i \in (1 .. n - 1) \cap keep
      BY <1>1, <2>3, <2>6
    <3>5. Kept(q, f, n)
      BY <2>5, <3>2, <3>4
    <3> HIDE DEF Kept
    <3> QED BY <2>1, <3>1, <3>5
  <2>7. CASE n \in keep
    <3> DEFINE p == Append(q, s[n])
               g == [j \in 1 .. K + 1 |-> IF j = K + 1 THEN n ELSE f[j]]
    <3>1. F[n] = p
      BY <1>4, <2>3, <2>7 DEF q
    <3>2. /\ p \in Seq(S) /\ Len(p) = K + 1 /\ p[K + 1] = s[n]
          /\ \A j \in 1 .. K : p[j] = q[j]
      BY <1>1, <2>3, <2>5, AppendProperties
    <3>3. \A j \in 1 .. K : f[j] \in 1 .. L /\ f[j] <= n - 1 /\ f[j] \in keep /\ q[j] = s[f[j]]
      BY <2>5 DEF Threads
    <3>4. g[K + 1] = n /\ \A j \in 1 .. K : g[j] = f[j]
      BY <2>5
    <3>5. g \in [1 .. Len(p) -> 1 .. Len(s)]
      BY <2>3, <2>5, <3>2, <3>3
    <3> HIDE DEF p, g
    <3>6. \A j \in 1 .. K : g[K + 1] - g[j] >= K + 1 - j
      <4> SUFFICES ASSUME NEW j \in 1 .. K PROVE n - f[j] >= K + 1 - j
        BY <3>4
      <4>1. K \in 1 .. K
        BY <2>5
      <4>2. j < K => f[K] - f[j] >= K - j
        BY <2>5, <4>1 DEF Threads
      <4> QED BY <2>3, <2>5, <3>3, <4>1, <4>2, SMTT(30)
    <3>7. \A j, k \in 1 .. K + 1 : j < k => g[k] - g[j] >= k - j
      <4> SUFFICES ASSUME NEW j \in 1 .. K + 1, NEW k \in 1 .. K + 1, j < k
                   PROVE  g[k] - g[j] >= k - j
        OBVIOUS
      <4>0. K \in Nat
        BY <2>5
      <4>1. j \in 1 .. K /\ (k \in 1 .. K \/ k = K + 1)
        BY <4>0
      <4>2. CASE k \in 1 .. K
        BY <2>5, <3>4, <4>1, <4>2 DEF Threads
      <4>3. CASE k = K + 1
        BY <3>6, <4>1, <4>3
      <4> QED BY <4>1, <4>2, <4>3
    <3>8. \A j \in 1 .. K + 1 : p[j] = s[g[j]] /\ g[j] \in keep /\ g[j] <= n
      <4> SUFFICES ASSUME NEW j \in 1 .. K + 1 PROVE p[j] = s[g[j]] /\ g[j] \in keep /\ g[j] <= n
        OBVIOUS
      <4>1. j \in 1 .. K \/ j = K + 1
        BY <2>5
      <4>2. CASE j \in 1 .. K
        BY <2>3, <3>2, <3>3, <3>4, <4>2, SMTT(30)
      <4>3. CASE j = K + 1
        BY <2>3, <2>7, <3>2, <3>4, <4>3
      <4> QED BY <4>1, <4>2, <4>3
    <3>9. \A i \in (1 .. n) \cap keep : \E j \in 1 .. K + 1 : g[j] = i
      <4> SUFFICES ASSUME NEW i \in (1 .. n) \cap keep PROVE \E j \in 1 .. K + 1 : g[j] = i
        OBVIOUS
      <4>1. CASE i = n
        <5>1. K + 1 \in 1 .. K + 1
          BY <2>5
        <5> QED BY <3>4, <4>1, <5>1
      <4>2. CASE i # n
        <5>1. i \in (1 .. n - 1) \cap keep
          BY <2>3, <4>2
        <5>0. \A x \in (1 .. n - 1) \cap keep : \E j \in 1 .. K : f[j] = x
          BY <2>5, Zenon
        <5>2. PICK j \in 1 .. K : f[j] = i
          BY <5>0, <5>1, Zenon
        <5>3. j \in 1 .. K + 1
          BY <2>5
        <5> QED BY <3>4, <5>2, <5>3
      <4> QED BY <4>1, <4>2
    <3>10. Kept(p, g, n)
      BY <3>2, <3>5, <3>7, <3>8, <3>9 DEF Threads
    <3> QED BY <2>1, <3>1, <3>10
  <2> QED BY <2>6, <2>7
<1>6. PICK f : Kept(F[L], f, L)
  <2>1. L \in 0 .. L
    BY <1>1
  <2> QED BY <1>5, <2>1
<1> DEFINE q == F[L]
<1>7. q = Filtered(s, keep) /\ Kept(q, f, L)
  BY <1>3, <1>6
<1> HIDE DEF q
<1>8. /\ q \in Seq(S) /\ Threads(f, q, s)
      /\ \A j \in 1 .. Len(q) : f[j] \in keep
      /\ \A i \in (1 .. Len(s)) \cap keep : \E j \in 1 .. Len(q) : f[j] = i
  BY <1>7, Zenon
<1> HIDE DEF Kept
<1> QED BY <1>7, <1>8, Zenon

LEMMA ThreadsIsShorter ==
  ASSUME NEW S, NEW q \in Seq(S), NEW s \in Seq(S), NEW f, Threads(f, q, s)
  PROVE  Len(q) <= Len(s) /\ \A j \in 1 .. Len(q) : f[j] \in 1 .. Len(s) /\ q[j] = s[f[j]]
<1>1. Len(q) \in Nat /\ Len(s) \in Nat
  OBVIOUS
<1>2. \A j \in 1 .. Len(q) : f[j] \in 1 .. Len(s) /\ q[j] = s[f[j]]
  BY DEF Threads
<1>3. CASE Len(q) > 0
  <2>1. 1 \in 1 .. Len(q) /\ Len(q) \in 1 .. Len(q)
    BY <1>1, <1>3
  <2>2. 1 < Len(q) => f[Len(q)] - f[1] >= Len(q) - 1
    BY <2>1 DEF Threads
  <2> QED BY <1>1, <1>2, <2>1, <2>2
<1> QED BY <1>1, <1>2, <1>3

Without(s, i) == SubSeq(s, 1, i - 1) \o SubSeq(s, i + 1, Len(s))

LEMMA WithoutThreads ==
  ASSUME NEW S, NEW s \in Seq(S), NEW i \in 1 .. Len(s),
         NEW q, q = Without(s, i)
  PROVE  /\ q \in Seq(S)
         /\ \E f : /\ Threads(f, q, s)
                   /\ \A j \in 1 .. Len(q) : f[j] # i
                   /\ \A k \in 1 .. Len(s) : k # i => \E j \in 1 .. Len(q) : f[j] = k
<1> DEFINE L == Len(s)
           a == SubSeq(s, 1, i - 1)
           b == SubSeq(s, i + 1, L)
           f == [j \in 1 .. L - 1 |-> IF j < i THEN j ELSE j + 1]
<1>1. L \in Nat /\ i \in 1 .. L
  OBVIOUS
<1>2. a \in Seq(S) /\ Len(a) = i - 1 /\ \A j \in 1 .. i - 1 : a[j] = s[j]
  BY <1>1, SubSeqProperties
<1>3. b \in Seq(S) /\ Len(b) = L - i /\ \A j \in 1 .. L - i : b[j] = s[i + j]
  <2>1. /\ b \in Seq(S) /\ Len(b) = IF i + 1 <= L THEN L - (i + 1) + 1 ELSE 0
        /\ \A j \in 1 .. L - (i + 1) + 1 : b[j] = s[(i + 1) + j - 1]
    BY <1>1, SubSeqProperties
  <2>2. Len(b) = L - i
    BY <1>1, <2>1
  <2>3. ASSUME NEW j \in 1 .. L - i PROVE b[j] = s[i + j]
    <3>1. j \in 1 .. L - (i + 1) + 1 /\ (i + 1) + j - 1 = i + j
      BY <1>1
    <3> QED BY <2>1, <3>1
  <2> QED BY <2>1, <2>2, <2>3
<1> HIDE DEF a, b
<1>4. /\ q \in Seq(S) /\ Len(q) = L - 1
      /\ \A j \in 1 .. i - 1 : q[j] = s[j]
      /\ \A j \in i .. L - 1 : q[j] = s[j + 1]
  <2>1. q = a \o b
    BY DEF a, b, Without
  <2>2. /\ q \in Seq(S) /\ Len(q) = Len(a) + Len(b)
        /\ \A j \in 1 .. Len(a) + Len(b) : q[j] = IF j <= Len(a) THEN a[j] ELSE b[j - Len(a)]
    <3>1. /\ a \o b \in Seq(S) /\ Len(a \o b) = Len(a) + Len(b)
          /\ \A j \in 1 .. Len(a) + Len(b) :
               (a \o b)[j] = IF j <= Len(a) THEN a[j] ELSE b[j - Len(a)]
      BY <1>2, <1>3, ConcatProperties
    <3> QED BY <2>1, <3>1, Zenon
  <2>3. Len(a) + Len(b) = L - 1
    BY <1>1, <1>2, <1>3
  <2>4. ASSUME NEW j \in 1 .. i - 1 PROVE q[j] = s[j]
    <3>1. j \in 1 .. Len(a) + Len(b) /\ j <= Len(a)
      BY <1>1, <1>2, <2>3
    <3> QED BY <1>2, <2>2, <3>1
  <2>5. ASSUME NEW j \in i .. L - 1 PROVE q[j] = s[j + 1]
    <3>1. /\ j \in 1 .. Len(a) + Len(b) /\ ~(j <= Len(a))
          /\ j - Len(a) \in 1 .. L - i /\ i + (j - Len(a)) = j + 1
      BY <1>1, <1>2, <2>3
    <3>2. q[j] = b[j - Len(a)]
      BY <2>2, <3>1
    <3> QED BY <1>3, <3>1, <3>2
  <2> QED BY <2>2, <2>3, <2>4, <2>5
<1>5. \A j \in 1 .. L - 1 : f[j] \in 1 .. L /\ f[j] # i /\ q[j] = s[f[j]]
  <2> SUFFICES ASSUME NEW j \in 1 .. L - 1
               PROVE  f[j] \in 1 .. L /\ f[j] # i /\ q[j] = s[f[j]]
    OBVIOUS
  <2>1. CASE j < i
    <3>1. f[j] = j /\ j \in 1 .. i - 1 /\ j \in 1 .. L /\ j # i
      BY <1>1, <2>1
    <3>2. q[j] = s[j]
      BY <1>4, <3>1
    <3> HIDE DEF f
    <3> QED BY <3>1, <3>2, Zenon
  <2>2. CASE ~(j < i)
    <3>1. f[j] = j + 1 /\ j \in i .. L - 1 /\ j + 1 \in 1 .. L /\ j + 1 # i
      BY <1>1, <2>2
    <3>2. q[j] = s[j + 1]
      BY <1>4, <3>1
    <3> QED BY <3>1, <3>2
  <2> QED BY <2>1, <2>2
<1>6. \A j, k \in 1 .. L - 1 : j < k => f[k] - f[j] >= k - j
  BY <1>1
<1>7. \A k \in 1 .. L : k # i => \E j \in 1 .. L - 1 : f[j] = k
  <2> SUFFICES ASSUME NEW k \in 1 .. L, k # i PROVE \E j \in 1 .. L - 1 : f[j] = k
    OBVIOUS
  <2>1. CASE k < i
    <3>1. k \in 1 .. L - 1 /\ f[k] = k
      BY <1>1, <2>1
    <3> QED BY <3>1
  <2>2. CASE ~(k < i)
    <3>1. k - 1 \in 1 .. L - 1 /\ f[k - 1] = k
      BY <1>1, <2>2
    <3> QED BY <3>1
  <2> QED BY <2>1, <2>2
<1>8. f \in [1 .. L - 1 -> 1 .. L]
  BY <1>1
<1> HIDE DEF f
<1>9. Threads(f, q, s)
  BY <1>4, <1>5, <1>6, <1>8 DEF Threads
<1>10. Len(q) = L - 1
  BY <1>4
<1>11. \A j \in 1 .. Len(q) : f[j] # i
  BY <1>5, <1>10
<1>12. \A k \in 1 .. Len(s) : k # i => \E j \in 1 .. Len(q) : f[j] = k
  BY <1>7, <1>10
<1> QED BY <1>4, <1>9, <1>11, <1>12

LEMMA TailThreads ==
  ASSUME NEW S, NEW s \in Seq(S), Len(s) > 0
  PROVE  /\ Tail(s) \in Seq(S)
         /\ \E f : /\ Threads(f, Tail(s), s)
                   /\ \A k \in 1 .. Len(s) : k # 1 => \E j \in 1 .. Len(Tail(s)) : f[j] = k
<1> DEFINE q == Tail(s)  L == Len(s)  f == [j \in 1 .. L - 1 |-> j + 1]
<1>1. L \in Nat /\ L > 0
  OBVIOUS
<1>2. q \in Seq(S) /\ Len(q) = L - 1 /\ \A j \in 1 .. L - 1 : q[j] = s[j + 1]
  <2>1. s # <<>>
    BY <1>1, EmptySeq
  <2> QED BY <1>1, <2>1, HeadTailProperties
<1> HIDE DEF q
<1>3. f \in [1 .. L - 1 -> 1 .. L] /\ \A j \in 1 .. L - 1 : f[j] = j + 1
  BY <1>1
<1>4. \A j, k \in 1 .. L - 1 : j < k => f[k] - f[j] >= k - j
  BY <1>1
<1>5. \A k \in 1 .. L : k # 1 => \E j \in 1 .. L - 1 : f[j] = k
  <2> SUFFICES ASSUME NEW k \in 1 .. L, k # 1 PROVE \E j \in 1 .. L - 1 : f[j] = k
    OBVIOUS
  <2>1. k - 1 \in 1 .. L - 1 /\ f[k - 1] = k
    BY <1>1
  <2> QED BY <2>1
<1> HIDE DEF f
<1>6. Threads(f, q, s)
  BY <1>2, <1>3, <1>4 DEF Threads
<1> QED BY <1>2, <1>5, <1>6 DEF q

-----------------------------------------------------------------------------
(* Tickets. *)

TicketRecords == [id : Nat, kid : Kids, minted : Nat]

(* A table t of tickets, of those minted at the times m: each is what was  *)
(* minted under its id, in the order of minting.                           *)
TableOK(t, m) ==
  /\ t \in Seq(TicketRecords)
  /\ \A i \in 1 .. Len(t) : t[i].id \in 1 .. Len(m) /\ t[i].minted = m[t[i].id]
  /\ \A i, j \in 1 .. Len(t) : i < j => t[j].id - t[i].id >= j - i

(* What was redeemed (r) was fresh, and is redeemed once.                  *)
RedeemedOK(r, m) ==
  /\ r \in Seq(Nat \X Nat)
  /\ \A i \in 1 .. Len(r) : r[i][1] \in 1 .. Len(m) /\ r[i][2] < Ttl
  /\ \A i \in 1 .. Len(r) : \A j \in 1 .. i - 1 : r[j][1] # r[i][1]

Holds(t, n) == \E i \in 1 .. Len(t) : t[i].id = n
Spent(r, n) == \E i \in 1 .. Len(r) : r[i][1] = n

TicketsOK(t, m, r, at) ==
  /\ m \in Seq(Nat) /\ \A n \in 1 .. Len(m) : m[n] <= at
  /\ TableOK(t, m) /\ Len(t) <= Capacity
  /\ RedeemedOK(r, m)
  /\ \A n \in 1 .. Len(m) : /\ ~(Spent(r, n) /\ Holds(t, n))
                            /\ \/ at - m[n] >= Ttl \/ Len(m) - n >= Capacity
                               \/ Spent(r, n) \/ Holds(t, n)

LEMMA NoTicketsIsOK == ASSUME NEW at PROVE TicketsOK(<<>>, <<>>, <<>>, at)
<1>1. /\ <<>> \in Seq(Nat) /\ <<>> \in Seq(TicketRecords) /\ <<>> \in Seq(Nat \X Nat)
      /\ Len(<<>>) = 0
  OBVIOUS
<1>2. Capacity \in Nat
  BY LimitsAreNat
<1> QED BY <1>1, <1>2 DEF TicketsOK, TableOK, RedeemedOK

LEMMA LaterTicketsAreOK ==
  ASSUME NEW t, NEW m, NEW r, NEW at \in Nat, NEW later \in Nat, at <= later,
         TicketsOK(t, m, r, at)
  PROVE  TicketsOK(t, m, r, later)
<1>1. \A n \in 1 .. Len(m) : m[n] \in Nat
  BY DEF TicketsOK
<1>2. \A n \in 1 .. Len(m) : m[n] <= at /\ (at - m[n] >= Ttl => later - m[n] >= Ttl)
  BY <1>1, LimitsAreNat DEF TicketsOK
<1>3. \A n \in 1 .. Len(m) : m[n] <= later
  BY <1>1, <1>2
<1> QED BY <1>2, <1>3 DEF TicketsOK

(* Leaving tickets out keeps a table in order. *)
LEMMA ThinnedTableIsOK ==
  ASSUME NEW t, NEW m \in Seq(Nat), TableOK(t, m), NEW q \in Seq(TicketRecords),
         NEW f, Threads(f, q, t)
  PROVE  /\ TableOK(q, m) /\ Len(q) <= Len(t)
         /\ \A n : Holds(q, n) => Holds(t, n)
<1>1. t \in Seq(TicketRecords)
  BY DEF TableOK
<1>2. Len(q) <= Len(t) /\ \A j \in 1 .. Len(q) : f[j] \in 1 .. Len(t) /\ q[j] = t[f[j]]
  BY <1>1, ThreadsIsShorter
<1>3. \A i \in 1 .. Len(q) : q[i].id \in 1 .. Len(m) /\ q[i].minted = m[q[i].id]
  BY <1>2 DEF TableOK
<1>4. ASSUME NEW i \in 1 .. Len(q), NEW j \in 1 .. Len(q), i < j
      PROVE  q[j].id - q[i].id >= j - i
  <2>1. f[j] - f[i] >= j - i
    BY <1>4 DEF Threads
  <2>2. f[i] \in 1 .. Len(t) /\ f[j] \in 1 .. Len(t) /\ q[i] = t[f[i]] /\ q[j] = t[f[j]]
    BY <1>2
  <2>3. f[i] < f[j]
    BY <1>4, <2>1, <2>2
  <2>4. t[f[j]].id - t[f[i]].id >= f[j] - f[i]
    BY <2>2, <2>3 DEF TableOK
  <2>5. q[i].id \in Int /\ q[j].id \in Int
    BY <1>3
  <2> QED BY <2>1, <2>2, <2>4, <2>5, SMTT(30)
<1>5. \A n : Holds(q, n) => Holds(t, n)
  BY <1>2 DEF Holds
<1> QED BY <1>2, <1>3, <1>4, <1>5 DEF TableOK

TicketState == TicketsOK(tickets, minted, redeemed, now) /\ now \in Nat

LEMMA SweptIsOK ==
  ASSUME TicketState
  PROVE  /\ TicketsOK(Swept, minted, redeemed, now)
         /\ \A j \in 1 .. Len(Swept) : now - Swept[j].minted < Ttl
<1> DEFINE keep == {i \in DOMAIN tickets : now - tickets[i].minted < Ttl}
           q == Swept
<1>1. TableOK(tickets, minted) /\ minted \in Seq(Nat) /\ tickets \in Seq(TicketRecords)
  BY DEF TicketState, TicketsOK, TableOK
<1>2. q = Filtered(tickets, keep)
  BY DEF Swept
<1> HIDE DEF q
<1>3. DOMAIN tickets = 1 .. Len(tickets) /\ keep \subseteq 1 .. Len(tickets)
  BY <1>1
<1>4. \A i \in 1 .. Len(tickets) : i \in keep <=> now - tickets[i].minted < Ttl
  BY <1>3
<1> HIDE DEF keep
<1>5. /\ q \in Seq(TicketRecords)
      /\ \E f : /\ Threads(f, q, tickets)
                /\ \A j \in 1 .. Len(q) : f[j] \in keep
                /\ \A i \in (1 .. Len(tickets)) \cap keep : \E j \in 1 .. Len(q) : f[j] = i
  BY <1>1, <1>2, FilteredThreads
<1>6. PICK f : /\ Threads(f, q, tickets)
               /\ \A j \in 1 .. Len(q) : f[j] \in keep
               /\ \A i \in (1 .. Len(tickets)) \cap keep : \E j \in 1 .. Len(q) : f[j] = i
  BY <1>5
<1>7. TableOK(q, minted) /\ Len(q) <= Len(tickets) /\ \A n : Holds(q, n) => Holds(tickets, n)
  BY <1>1, <1>5, <1>6, ThinnedTableIsOK
<1>8. \A j \in 1 .. Len(q) : f[j] \in 1 .. Len(tickets) /\ f[j] \in keep /\ q[j] = tickets[f[j]]
  BY <1>1, <1>5, <1>6, ThreadsIsShorter
<1>9. \A j \in 1 .. Len(q) : now - q[j].minted < Ttl
  BY <1>4, <1>8
<1>10. ASSUME NEW n \in 1 .. Len(minted), Holds(tickets, n), ~(now - minted[n] >= Ttl)
       PROVE  Holds(q, n)
  <2>1. PICK i \in 1 .. Len(tickets) : tickets[i].id = n
    BY <1>10 DEF Holds
  <2>2. tickets[i].minted = minted[n] /\ minted[n] \in Nat /\ now \in Nat /\ Ttl \in Nat
    BY <1>1, <2>1, LimitsAreNat DEF TableOK, TicketState
  <2>3. i \in keep
    BY <1>4, <1>10, <2>2
  <2>4. PICK j \in 1 .. Len(q) : f[j] = i
    BY <1>6, <2>3
  <2> QED BY <1>8, <2>1, <2>4 DEF Holds
<1>11. Len(q) <= Capacity
  <2>1. Len(tickets) \in Nat /\ Len(q) \in Nat /\ Capacity \in Nat /\ Len(tickets) <= Capacity
    BY <1>1, <1>5, LimitsAreNat DEF TicketState, TicketsOK
  <2> QED BY <1>7, <2>1
<1>12. TicketsOK(q, minted, redeemed, now)
  BY <1>1, <1>7, <1>10, <1>11 DEF TicketState, TicketsOK
<1> QED BY <1>9, <1>12 DEF q

LEMMA TakenIsOK ==
  ASSUME TicketState, NEW i \in 1 .. Len(Swept)
  PROVE  TicketsOK(Taken(i), minted,
                   Append(redeemed, <<Swept[i].id, now - Swept[i].minted>>), now)
<1> DEFINE q == Swept  m == minted  r == redeemed  t == Taken(i)
           e == <<q[i].id, now - q[i].minted>>
           u == Append(r, e)
<1>1. /\ TicketsOK(q, m, r, now) /\ now - q[i].minted < Ttl /\ now \in Nat
      /\ t = Without(q, i)
  BY SweptIsOK DEF Taken, Without, TicketState
<1> HIDE DEF q, t
<1>2. TableOK(q, m) /\ q \in Seq(TicketRecords) /\ m \in Seq(Nat) /\ RedeemedOK(r, m) /\ i \in 1 .. Len(q)
  BY <1>1 DEF TicketsOK, TableOK, q
<1>3. /\ q[i].id \in 1 .. Len(m) /\ q[i].id \in Nat /\ q[i].minted = m[q[i].id]
      /\ m[q[i].id] \in Nat /\ m[q[i].id] <= now
  BY <1>1, <1>2 DEF TableOK, TicketsOK
<1>4. e \in Nat \X Nat /\ e[1] = q[i].id /\ e[2] = now - q[i].minted
  BY <1>1, <1>3
<1> HIDE DEF e
<1>5. /\ t \in Seq(TicketRecords)
      /\ \E f : /\ Threads(f, t, q)
                /\ \A j \in 1 .. Len(t) : f[j] # i
                /\ \A k \in 1 .. Len(q) : k # i => \E j \in 1 .. Len(t) : f[j] = k
  BY <1>1, <1>2, WithoutThreads
<1>6. PICK f : /\ Threads(f, t, q)
               /\ \A j \in 1 .. Len(t) : f[j] # i
               /\ \A k \in 1 .. Len(q) : k # i => \E j \in 1 .. Len(t) : f[j] = k
  BY <1>5
<1>7. TableOK(t, m) /\ Len(t) <= Len(q) /\ \A n : Holds(t, n) => Holds(q, n)
  BY <1>2, <1>5, <1>6, ThinnedTableIsOK
<1>8. \A j \in 1 .. Len(t) : f[j] \in 1 .. Len(q) /\ f[j] # i /\ t[j] = q[f[j]]
  BY <1>2, <1>5, <1>6, ThreadsIsShorter
<1>9. \A k \in 1 .. Len(q) : k # i => q[k].id # q[i].id
  <2> SUFFICES ASSUME NEW k \in 1 .. Len(q), k # i PROVE q[k].id # q[i].id
    OBVIOUS
  <2>1. q[k].id \in Int /\ q[i].id \in Int
    BY <1>2 DEF TableOK
  <2>2. CASE k < i
    <3>1. q[i].id - q[k].id >= i - k
      BY <1>2, <2>2 DEF TableOK
    <3> QED BY <2>1, <2>2, <3>1
  <2>3. CASE i < k
    <3>1. q[k].id - q[i].id >= k - i
      BY <1>2, <2>3 DEF TableOK
    <3> QED BY <2>1, <2>3, <3>1
  <2> QED BY <2>2, <2>3
<1>10. ~Holds(t, q[i].id)
  BY <1>8, <1>9 DEF Holds
<1>11. \A n : Holds(q, n) /\ n # q[i].id => Holds(t, n)
  <2> SUFFICES ASSUME NEW n, Holds(q, n), n # q[i].id PROVE Holds(t, n)
    OBVIOUS
  <2>1. PICK k \in 1 .. Len(q) : q[k].id = n
    BY DEF Holds
  <2>2. PICK j \in 1 .. Len(t) : f[j] = k
    BY <1>6, <2>1
  <2> QED BY <1>8, <2>1, <2>2 DEF Holds
<1>12. /\ u \in Seq(Nat \X Nat) /\ Len(u) = Len(r) + 1 /\ u[Len(r) + 1] = e
       /\ \A j \in 1 .. Len(r) : u[j] = r[j]
       /\ Len(r) \in Nat
  BY <1>2, <1>4, AppendProperties DEF RedeemedOK
<1> HIDE DEF u
<1>13. \A n : Spent(u, n) <=> Spent(r, n) \/ n = q[i].id
  <2>1. \A n : Spent(u, n) => Spent(r, n) \/ n = q[i].id
    <3> SUFFICES ASSUME NEW n, NEW j \in 1 .. Len(u), u[j][1] = n PROVE Spent(r, n) \/ n = q[i].id
      BY DEF Spent
    <3>1. j \in 1 .. Len(r) \/ j = Len(r) + 1
      BY <1>12
    <3> QED BY <1>4, <1>12, <3>1 DEF Spent
  <2>2. \A n : Spent(r, n) => Spent(u, n)
    <3> SUFFICES ASSUME NEW n, NEW j \in 1 .. Len(r), r[j][1] = n PROVE Spent(u, n)
      BY DEF Spent
    <3>1. j \in 1 .. Len(u) /\ u[j][1] = n
      BY <1>12, SMTT(30)
    <3> QED BY <3>1 DEF Spent
  <2>3. Spent(u, q[i].id)
    <3>1. Len(r) + 1 \in 1 .. Len(u) /\ u[Len(r) + 1][1] = q[i].id
      BY <1>4, <1>12
    <3> QED BY <3>1 DEF Spent
  <2> QED BY <2>1, <2>2, <2>3
<1>14. Holds(q, q[i].id)
  BY <1>2 DEF Holds
<1>15. ~Spent(r, q[i].id)
  BY <1>1, <1>3, <1>14 DEF TicketsOK
<1>16. RedeemedOK(u, m)
  <2>1. \A j \in 1 .. Len(u) : j \in 1 .. Len(r) \/ j = Len(r) + 1
    BY <1>12
  <2>2. \A j \in 1 .. Len(u) : u[j][1] \in 1 .. Len(m) /\ u[j][2] < Ttl
    BY <1>1, <1>2, <1>3, <1>4, <1>12, <2>1 DEF RedeemedOK
  <2>3. ASSUME NEW j \in 1 .. Len(u), NEW k \in 1 .. j - 1 PROVE u[k][1] # u[j][1]
    <3>0. Len(r) \in Nat /\ Len(u) = Len(r) + 1
      BY <1>12
    <3>1. k \in 1 .. Len(r)
      BY <2>3, <3>0
    <3>4. u[k] = r[k]
      BY <1>12, <3>1
    <3>2. CASE j \in 1 .. Len(r)
      BY <1>2, <1>12, <3>1, <3>2, <3>4 DEF RedeemedOK
    <3>3. CASE j = Len(r) + 1
      BY <1>4, <1>12, <1>15, <3>1, <3>3, <3>4 DEF Spent
    <3> QED BY <2>1, <3>2, <3>3
  <2> QED BY <1>12, <2>2, <2>3 DEF RedeemedOK
<1>17. Len(t) <= Capacity
  <2>1. Len(q) \in Nat /\ Len(t) \in Nat /\ Capacity \in Nat /\ Len(q) <= Capacity
    <3>1. t \in Seq(TicketRecords)
      BY <1>5
    <3> QED BY <1>1, <1>2, <3>1, LimitsAreNat DEF TicketsOK
  <2> QED BY <1>7, <2>1
<1>18. \A n \in 1 .. Len(m) : /\ ~(Spent(u, n) /\ Holds(t, n))
                              /\ \/ now - m[n] >= Ttl \/ Len(m) - n >= Capacity
                                 \/ Spent(u, n) \/ Holds(t, n)
  BY <1>1, <1>7, <1>10, <1>11, <1>13 DEF TicketsOK
<1>19. TicketsOK(t, m, u, now)
  BY <1>1, <1>7, <1>16, <1>17, <1>18 DEF TicketsOK
<1> QED BY <1>19 DEF t, u, e, q

LEMMA RoomIsOK ==
  ASSUME TicketState
  PROVE  LET w == Room(Swept)
         IN  /\ TableOK(w, minted) /\ Len(w) < Capacity
             /\ \A n : Holds(w, n) => Holds(Swept, n)
             /\ \A n \in 1 .. Len(minted) :
                  Holds(Swept, n) => Holds(w, n) \/ Len(minted) + 1 - n >= Capacity
<1> DEFINE q == Swept  m == minted  L == Len(q)
<1>1. /\ TicketsOK(q, m, redeemed, now) /\ TableOK(q, m) /\ q \in Seq(TicketRecords) /\ m \in Seq(Nat)
      /\ L <= Capacity /\ L \in Nat /\ Capacity \in Nat \ {0}
  BY SweptIsOK, LimitsAreNat DEF TicketsOK, TableOK
<1> HIDE DEF q
<1>2. CASE ~(L >= Capacity)
  BY <1>1, <1>2 DEF Room, q
<1>3. CASE L >= Capacity
  <2> DEFINE w == Tail(q)
  <2>1. Room(q) = w /\ L = Capacity /\ L > 0
    BY <1>1, <1>3 DEF Room
  <2>2. /\ w \in Seq(TicketRecords)
        /\ \E f : /\ Threads(f, w, q)
                  /\ \A k \in 1 .. Len(q) : k # 1 => \E j \in 1 .. Len(w) : f[j] = k
    BY <1>1, <2>1, TailThreads
  <2>3. Len(w) = L - 1
    <3>1. q # <<>>
      BY <1>1, <2>1, EmptySeq
    <3> QED BY <1>1, <3>1, HeadTailProperties
  <2> HIDE DEF w
  <2>4. PICK f : /\ Threads(f, w, q)
                 /\ \A k \in 1 .. Len(q) : k # 1 => \E j \in 1 .. Len(w) : f[j] = k
    BY <2>2
  <2>5. TableOK(w, m) /\ \A n : Holds(w, n) => Holds(q, n)
    BY <1>1, <2>2, <2>4, ThinnedTableIsOK
  <2>6. ASSUME NEW n \in 1 .. Len(m), Holds(q, n), ~Holds(w, n)
        PROVE  Len(m) + 1 - n >= Capacity
    <3>1. PICK k \in 1 .. L : q[k].id = n
      BY <2>6 DEF Holds
    <3>2. k = 1
      <4> SUFFICES ASSUME k # 1 PROVE FALSE
        OBVIOUS
      <4>1. PICK j \in 1 .. Len(w) : f[j] = k
        BY <2>4, <3>1
      <4>2. w[j] = q[k]
        BY <2>4, <4>1 DEF Threads
      <4> QED BY <2>6, <3>1, <4>1, <4>2 DEF Holds
    <3>3. /\ 1 \in 1 .. L /\ L \in 1 .. L /\ q[1].id = n /\ n \in Nat
          /\ q[L].id \in 1 .. Len(m) /\ Len(m) \in Nat
      BY <1>1, <2>1, <3>1, <3>2 DEF TableOK
    <3>4. 1 < L => q[L].id - q[1].id >= L - 1
      BY <1>1, <3>3 DEF TableOK
    <3> QED BY <1>1, <2>1, <3>3, <3>4
  <2> QED BY <1>1, <2>1, <2>3, <2>5, <2>6 DEF q
<1> QED BY <1>2, <1>3

LEMMA MintIsOK ==
  ASSUME TicketState, NEW k \in Kids
  PROVE  TicketsOK(Append(Room(Swept), [id |-> Len(minted) + 1, kid |-> k, minted |-> now]),
                   Append(minted, now), redeemed, now)
<1> DEFINE w == Room(Swept)  m == minted  r == redeemed  M == Len(m)
           e == [id |-> M + 1, kid |-> k, minted |-> now]
           t == Append(w, e)
           u == Append(m, now)
<1>1. /\ TicketsOK(Swept, m, r, now) /\ now \in Nat /\ m \in Seq(Nat) /\ M \in Nat
      /\ RedeemedOK(r, m) /\ Capacity \in Nat /\ Ttl \in Nat
  BY SweptIsOK, LimitsAreNat DEF TicketState, TicketsOK
<1>2. /\ TableOK(w, m) /\ Len(w) < Capacity
      /\ \A n : Holds(w, n) => Holds(Swept, n)
      /\ \A n \in 1 .. M : Holds(Swept, n) => Holds(w, n) \/ M + 1 - n >= Capacity
  BY RoomIsOK
<1> HIDE DEF w
<1>3. w \in Seq(TicketRecords) /\ Len(w) \in Nat
  BY <1>2 DEF TableOK
<1>4. e \in TicketRecords /\ e.id = M + 1 /\ e.minted = now
  BY <1>1 DEF TicketRecords
<1> HIDE DEF e
<1>5. /\ t \in Seq(TicketRecords) /\ Len(t) = Len(w) + 1 /\ t[Len(w) + 1] = e
      /\ \A j \in 1 .. Len(w) : t[j] = w[j]
  BY <1>3, <1>4, AppendProperties
<1>6. /\ u \in Seq(Nat) /\ Len(u) = M + 1 /\ u[M + 1] = now
      /\ \A j \in 1 .. M : u[j] = m[j]
  BY <1>1, AppendProperties
<1> HIDE DEF t, u, M
<1>7. \A j \in 1 .. Len(t) : j \in 1 .. Len(w) \/ j = Len(w) + 1
  BY <1>3, <1>5
<1>8. \A j \in 1 .. Len(w) : w[j].id \in 1 .. M /\ w[j].minted = m[w[j].id]
  BY <1>2 DEF TableOK, M
<1>9. \A j \in 1 .. Len(t) : t[j].id \in 1 .. Len(u) /\ t[j].minted = u[t[j].id]
  <2> SUFFICES ASSUME NEW j \in 1 .. Len(t)
               PROVE  t[j].id \in 1 .. Len(u) /\ t[j].minted = u[t[j].id]
    OBVIOUS
  <2>1. CASE j \in 1 .. Len(w)
    <3>1. t[j] = w[j] /\ w[j].id \in 1 .. M /\ w[j].minted = m[w[j].id]
      BY <1>5, <1>8, <2>1
    <3>2. w[j].id \in 1 .. M + 1 /\ u[w[j].id] = m[w[j].id]
      BY <1>1, <1>6, <3>1
    <3> QED BY <1>6, <3>1, <3>2
  <2>2. CASE j = Len(w) + 1
    BY <1>1, <1>4, <1>5, <1>6, <2>2
  <2> QED BY <1>7, <2>1, <2>2
<1>10. ASSUME NEW i \in 1 .. Len(t), NEW j \in 1 .. Len(t), i < j
       PROVE  t[j].id - t[i].id >= j - i
  <2>1. i \in 1 .. Len(w)
    BY <1>3, <1>5, <1>10
  <2>2. CASE j \in 1 .. Len(w)
    BY <1>2, <1>5, <1>10, <2>1, <2>2 DEF TableOK
  <2>3. CASE j = Len(w) + 1
    <3>1. Len(w) \in 1 .. Len(w) /\ w[Len(w)].id \in 1 .. M /\ w[i].id \in 1 .. M
      BY <1>3, <1>8, <2>1
    <3>2. i < Len(w) => w[Len(w)].id - w[i].id >= Len(w) - i
      BY <1>2, <2>1, <3>1 DEF TableOK
    <3>3. t[j].id = M + 1 /\ t[i].id = w[i].id
      BY <1>4, <1>5, <2>1, <2>3
    <3>4. (M + 1) - w[i].id >= j - i
      <4>1. i \in Nat /\ i <= Len(w)
        BY <2>1
      <4> QED BY <1>1, <1>3, <2>3, <3>1, <3>2, <4>1, SMTT(30)
    <3> QED BY <3>3, <3>4
  <2> QED BY <1>7, <2>2, <2>3
<1>11. TableOK(t, u)
  BY <1>5, <1>9, <1>10 DEF TableOK
<1>12. Len(t) <= Capacity
  BY <1>1, <1>2, <1>3, <1>5
<1>13. RedeemedOK(r, u)
  <2>1. \A i \in 1 .. Len(r) : r[i][1] \in 1 .. M + 1
    BY <1>1 DEF RedeemedOK, M
  <2> QED BY <1>1, <1>6, <2>1 DEF RedeemedOK
<1>14. ASSUME NEW n \in 1 .. M
       PROVE  (Holds(w, n) => Holds(t, n)) /\ (Holds(t, n) => Holds(w, n))
  <2>1. Holds(w, n) => Holds(t, n)
    <3> SUFFICES ASSUME NEW j \in 1 .. Len(w), w[j].id = n PROVE Holds(t, n)
      BY DEF Holds
    <3>1. j \in 1 .. Len(t) /\ t[j].id = n
      BY <1>3, <1>5
    <3> QED BY <3>1 DEF Holds
  <2>2. Holds(t, n) => Holds(w, n)
    <3> SUFFICES ASSUME NEW j \in 1 .. Len(t), t[j].id = n PROVE Holds(w, n)
      BY DEF Holds
    <3>1. j # Len(w) + 1
      BY <1>1, <1>4, <1>5
    <3>2. j \in 1 .. Len(w)
      BY <1>7, <3>1
    <3> QED BY <1>5, <3>2 DEF Holds
  <2> QED BY <2>1, <2>2
<1>15. ASSUME NEW n \in 1 .. M
       PROVE  /\ ~(Spent(r, n) /\ Holds(t, n))
              /\ now - u[n] >= Ttl \/ Len(u) - n >= Capacity \/ Spent(r, n) \/ Holds(t, n)
  <2>1. /\ ~(Spent(r, n) /\ Holds(Swept, n))
        /\ now - m[n] >= Ttl \/ M - n >= Capacity \/ Spent(r, n) \/ Holds(Swept, n)
    BY <1>1 DEF TicketsOK, M
  <2>2. M - n >= Capacity => Len(u) - n >= Capacity
    BY <1>1, <1>6
  <2>3. M + 1 - n = Len(u) - n
    BY <1>1, <1>6
  <2> QED BY <1>2, <1>6, <1>14, <2>1, <2>2, <2>3
<1>16. ~Spent(r, M + 1) /\ Holds(t, M + 1)
  <2>1. \A i \in 1 .. Len(r) : r[i][1] \in 1 .. M
    BY <1>1 DEF RedeemedOK, M
  <2>2. ~Spent(r, M + 1)
    BY <1>1, <2>1 DEF Spent
  <2>3. Len(w) + 1 \in 1 .. Len(t)
    BY <1>3, <1>5
  <2> QED BY <1>4, <1>5, <2>2, <2>3 DEF Holds
<1>17. \A n \in 1 .. Len(u) : n \in 1 .. M \/ n = M + 1
  BY <1>1, <1>6
<1>18. \A n \in 1 .. Len(u) : u[n] <= now
  <2>1. \A n \in 1 .. M : m[n] <= now
    BY <1>1 DEF TicketsOK, M
  <2> QED BY <1>1, <1>6, <1>17, <2>1
<1>19. TicketsOK(t, u, r, now)
  BY <1>6, <1>11, <1>12, <1>13, <1>15, <1>16, <1>17, <1>18 DEF TicketsOK
<1> QED BY <1>19 DEF t, u, e, w, M
-----------------------------------------------------------------------------
TicketInv == /\ TicketState
             /\ clients \subseteq [id : Nat, kid : Kids]

(* The ways a step touches the tickets and the streams. *)
LEMMA TicketsMove ==
  ASSUME [Next]_vars, TicketInv
  PROVE  /\ \/ UNCHANGED <<tickets, minted, redeemed>> /\ (now' = now \/ now' = now + 1)
            \/ now' = now /\ UNCHANGED <<minted, redeemed>> /\ tickets' = Swept
            \/ /\ now' = now /\ minted' = Append(minted, now) /\ UNCHANGED redeemed
               /\ \E k \in Kids :
                    tickets' = Append(Room(Swept), [id |-> Len(minted) + 1, kid |-> k, minted |-> now])
            \/ /\ now' = now /\ UNCHANGED minted
               /\ \E i \in 1 .. Len(Swept) :
                    /\ tickets' = Taken(i)
                    /\ redeemed' = Append(redeemed, <<Swept[i].id, now - Swept[i].minted>>)
            \/ now' = now /\ tickets' = <<>> /\ minted' = <<>> /\ redeemed' = <<>>
         /\ \/ clients' \subseteq clients
            \/ \E i \in 1 .. Len(Swept) :
                 clients' = clients \union {[id |-> Swept[i].id, kid |-> Swept[i].kid]}
<1> DEFINE Calm == UNCHANGED <<tickets, minted, redeemed, now, clients>>
<1>1. ASSUME NEW p \in Peers, ApiNoCredential(p) PROVE Calm
  BY <1>1 DEF ApiNoCredential, streams
<1>2. ASSUME NEW p \in Peers, NEW c, ApiRefused(p, c) PROVE Calm
  BY <1>2 DEF ApiRefused, streams
<1>3. ASSUME NEW p \in Peers, NEW k \in Kids, ApiForbidden(p, k) PROVE Calm
  BY <1>3 DEF ApiForbidden, streams
<1>4. ASSUME NEW p \in Peers, NEW k \in Kids, NEW need, NEW raises, ApiServed(p, k, need, raises)
      PROVE  Calm
  BY <1>4 DEF ApiServed, streams
<1>5. ASSUME NEW c, Metrics(c) PROVE Calm
  BY <1>5 DEF Metrics, streams
<1>6. ASSUME NEW c, StreamTicket(c)
      PROVE  \/ Calm
             \/ /\ now' = now /\ minted' = Append(minted, now) /\ UNCHANGED <<redeemed, clients>>
                /\ c \in Kids
                /\ tickets' = Append(Room(Swept), [id |-> Len(minted) + 1, kid |-> c, minted |-> now])
  BY <1>6 DEF StreamTicket, Accepted, Refused
<1>7. ASSUME NEW i \in 1 .. Capacity, OpenStream(i)
      PROVE  /\ now' = now /\ UNCHANGED minted /\ i \in 1 .. Len(Swept)
             /\ tickets' = Taken(i)
             /\ redeemed' = Append(redeemed, <<Swept[i].id, now - Swept[i].minted>>)
             /\ clients' = clients \union {[id |-> Swept[i].id, kid |-> Swept[i].kid]}
  BY <1>7 DEF OpenStream
<1>8. ASSUME OpenStreamRefused
      PROVE  now' = now /\ UNCHANGED <<minted, redeemed, clients>> /\ tickets' = Swept
  BY <1>8 DEF OpenStreamRefused
<1>9. ASSUME Push PROVE UNCHANGED <<tickets, minted, redeemed, now>> /\ clients' \subseteq clients
  BY <1>9 DEF Push
<1>10. ASSUME Keyctl \/ EditByHand \/ ApiPublicRaises \/ Start \/ Midnight PROVE Calm
  BY <1>10 DEF Keyctl, EditByHand, ApiPublicRaises, Start, Midnight, memory, streams
<1>11. ASSUME Stop \/ Crash
       PROVE  now' = now /\ tickets' = <<>> /\ minted' = <<>> /\ redeemed' = <<>> /\ clients' = {}
  BY <1>11 DEF Stop, Crash, Forgotten
<1>12. ASSUME Tick PROVE UNCHANGED <<tickets, minted, redeemed, clients>> /\ now' = now + 1
  BY <1>12 DEF Tick, memory, streams
<1>13. CASE UNCHANGED vars
  BY <1>13 DEF vars, memory, streams
<1> QED BY <1>1, <1>2, <1>3, <1>4, <1>5, <1>6, <1>7, <1>8, <1>9, <1>10, <1>11, <1>12, <1>13 DEF Next

LEMMA TicketStep == TicketInv /\ [Next]_vars => TicketInv'
<1> SUFFICES ASSUME TicketInv, [Next]_vars PROVE TicketInv'
  OBVIOUS
<1>1. TicketState /\ TicketsOK(tickets, minted, redeemed, now) /\ now \in Nat
  BY DEF TicketInv, TicketState
<1>2. now' \in Nat /\ now <= now' /\ (now' = now \/ now' = now + 1)
  BY <1>1, TicketsMove
<1>3. TicketsOK(tickets', minted', redeemed', now')
  <2>1. CASE UNCHANGED <<tickets, minted, redeemed>>
    BY <1>1, <1>2, <2>1, LaterTicketsAreOK
  <2>2. CASE now' = now /\ UNCHANGED <<minted, redeemed>> /\ tickets' = Swept
    BY <1>1, <2>2, SweptIsOK
  <2>3. ASSUME NEW k \in Kids, now' = now, minted' = Append(minted, now), UNCHANGED redeemed,
               tickets' = Append(Room(Swept), [id |-> Len(minted) + 1, kid |-> k, minted |-> now])
        PROVE  TicketsOK(tickets', minted', redeemed', now')
    BY <1>1, <2>3, MintIsOK
  <2>4. ASSUME NEW i \in 1 .. Len(Swept), now' = now, UNCHANGED minted, tickets' = Taken(i),
               redeemed' = Append(redeemed, <<Swept[i].id, now - Swept[i].minted>>)
        PROVE  TicketsOK(tickets', minted', redeemed', now')
    BY <1>1, <2>4, TakenIsOK
  <2>5. CASE now' = now /\ tickets' = <<>> /\ minted' = <<>> /\ redeemed' = <<>>
    BY <2>5, NoTicketsIsOK
  <2> QED BY <2>1, <2>2, <2>3, <2>4, <2>5, TicketsMove
<1>4. clients' \subseteq [id : Nat, kid : Kids]
  <2>1. CASE clients' \subseteq clients
    BY <2>1 DEF TicketInv
  <2>2. ASSUME NEW i \in 1 .. Len(Swept),
               clients' = clients \union {[id |-> Swept[i].id, kid |-> Swept[i].kid]}
        PROVE  clients' \subseteq [id : Nat, kid : Kids]
    <3>1. Swept \in Seq(TicketRecords)
      BY <1>1, SweptIsOK DEF TicketsOK, TableOK
    <3>2. Swept[i] \in TicketRecords
      BY <3>1
    <3>3. Swept[i].kid \in Kids /\ Swept[i].id \in Nat
      BY <3>2 DEF TicketRecords
    <3> QED BY <2>2, <3>3 DEF TicketInv
  <2> QED BY <2>1, <2>2, TicketsMove
<1> QED BY <1>2, <1>3, <1>4 DEF TicketInv, TicketState

LEMMA TicketsStart == Init => TicketInv
<1> SUFFICES ASSUME Init PROVE TicketInv
  OBVIOUS
<1>1. now \in Nat
  BY LimitsAreNat DEF Init
<1>2. TicketsOK(<<>>, <<>>, <<>>, now)
  BY NoTicketsIsOK
<1> QED BY <1>1, <1>2 DEF Init, TicketInv, TicketState

(* For every capacity and lifetime: a ticket opens one stream, while it is *)
(* fresh, and stays good until it is used, grows old or is crowded out.    *)
THEOREM TicketsStayGoodOnce == Spec => []TicketsAreGoodOnce
<1>1. TicketInv => TicketsAreGoodOnce
  BY DEF TicketInv, TicketState, TicketsOK, RedeemedOK, TicketsAreGoodOnce, Spent, Holds
<1> QED BY <1>1, TicketsStart, TicketStep, PTL DEF Spec

-----------------------------------------------------------------------------
(* Keys: what the server has loaded, against what the file says. *)

KeyFiles == [ver : Nat, mode : {"ok", "mode", "json", "fixed"}, keys : [Kids -> Keys]]
Stores == [stat : Nat, ver : Nat, keys : [Kids -> Keys]]

FileOK(f) == f \in KeyFiles /\ f.ver # 0

(* What the last reload took up is what the file said at that time: of the *)
(* whole file, while its version is the one that was loaded, and of every  *)
(* key that the file says nothing new of since the last look at it.        *)
KeysInv ==
  /\ now \in Nat /\ FileOK(disk)
  /\ store \in Stores
  /\ store.stat <= now /\ store.ver <= disk.ver
  /\ DOMAIN changedAt = Kids /\ \A k \in Kids : changedAt[k] \in Nat /\ changedAt[k] <= now
  /\ disk.mode = "ok" /\ store.ver = disk.ver => store.keys = disk.keys
  /\ \A k \in Kids : disk.mode = "ok" /\ changedAt[k] < store.stat => store.keys[k] = disk.keys[k]

LEMMA FilesHaveShape ==
  ASSUME NEW f, FileOK(f)
  PROVE  /\ DOMAIN f = {"ver", "mode", "keys"} /\ f.ver \in Nat \ {0}
         /\ f.mode \in {"ok", "mode", "json", "fixed"}
         /\ f.keys \in [Kids -> Keys] /\ DOMAIN f.keys = Kids
BY DEF FileOK, KeyFiles

LEMMA StoresHaveShape ==
  ASSUME NEW st, st \in Stores
  PROVE  /\ DOMAIN st = {"stat", "ver", "keys"} /\ st.stat \in Nat /\ st.ver \in Nat
         /\ st.keys \in [Kids -> Keys] /\ DOMAIN st.keys = Kids
BY DEF Stores

LEMMA KeysHaveShape ==
  KeysInv => /\ now \in Nat /\ FileOK(disk) /\ DOMAIN disk = {"ver", "mode", "keys"} /\ disk.ver \in Nat \ {0}
             /\ disk.mode \in {"ok", "mode", "json", "fixed"}
             /\ disk.keys \in [Kids -> Keys] /\ DOMAIN disk.keys = Kids
             /\ store \in Stores
             /\ DOMAIN store = {"stat", "ver", "keys"} /\ store.stat \in Nat /\ store.ver \in Nat
             /\ store.keys \in [Kids -> Keys] /\ DOMAIN store.keys = Kids
             /\ store.stat <= now /\ store.ver <= disk.ver
BY FilesHaveShape, StoresHaveShape DEF KeysInv

(* What may take the place of the key file: the same file, a new version,  *)
(* or the same version made readable again.                                *)
Successor(f) == /\ FileOK(f)
                /\ \/ f = disk
                   \/ f.ver = disk.ver + 1
                   \/ f.ver = disk.ver /\ f.mode = "fixed"

LEMMA RewrittenAreSuccessors ==
  ASSUME KeysInv, NEW mode \in {"ok", "mode", "json", "fixed"}, NEW keys \in [Kids -> Keys]
  PROVE  Successor(Rewritten(mode, keys))
<1>1. disk.ver \in Nat
  BY KeysHaveShape
<1>2. Rewritten(mode, keys) \in KeyFiles /\ Rewritten(mode, keys).ver = disk.ver + 1
  BY <1>1 DEF Rewritten, KeyFiles
<1> QED BY <1>1, <1>2 DEF Successor, FileOK

LEMMA SavedAreSuccessors ==
  ASSUME KeysInv, NEW f \in Saved
  PROVE  Successor(f) /\ f.ver = disk.ver + 1 /\ f.mode = "ok"
<1>1. PICK keys \in Edited(disk.keys) : f = Rewritten("ok", keys)
  BY DEF Saved
<1>2. disk.keys \in [Kids -> Keys] /\ disk.ver \in Nat /\ now \in Nat /\ Lease \in Nat
  BY KeysHaveShape, LimitsAreNat
<1>4. Absent \in Keys /\ \A s \in {"read", "control"} : Key(s, FALSE, Never) \in Keys
  BY DEF Absent, Key, Keys, Never
<1>3. keys \in [Kids -> Keys]
  <2> DEFINE old == disk.keys
  <2>1. \/ \E k \in Kids, s \in {"read", "control"} : keys = [old EXCEPT ![k] = Key(s, FALSE, Never)]
        \/ \E k \in Kids : keys = [old EXCEPT ![k].expires = now + Lease]
        \/ \E k \in Kids : keys = [old EXCEPT ![k].revoked = TRUE]
        \/ keys = [k \in Kids |-> IF LiveKey(old[k]) THEN old[k] ELSE Absent]
    <3> DEFINE added == UNION {{[old EXCEPT ![k] = Key(s, FALSE, Never)] : s \in {"read", "control"}}
                             : k \in {x \in Kids : old[x] = Absent}}
               expired == {[old EXCEPT ![k].expires = now + Lease] : k \in {x \in Kids : old[x] # Absent}}
               revoked == {[old EXCEPT ![k].revoked = TRUE] : k \in {x \in Kids : old[x] # Absent}}
               pruned == {[k \in Kids |-> IF LiveKey(old[k]) THEN old[k] ELSE Absent]}
    <3>0. Edited(old) = added \union expired \union revoked \union pruned
      BY DEF Edited
    <3>1. keys \in added \/ keys \in expired \/ keys \in revoked \/ keys \in pruned
      <4> HIDE DEF added, expired, revoked, pruned
      <4> QED BY <1>1, <3>0
    <3>2. keys \in added => \E k \in Kids, s \in {"read", "control"} : keys = [old EXCEPT ![k] = Key(s, FALSE, Never)]
      OBVIOUS
    <3>3. keys \in expired => \E k \in Kids : keys = [old EXCEPT ![k].expires = now + Lease]
      BY Zenon
    <3>4. keys \in revoked => \E k \in Kids : keys = [old EXCEPT ![k].revoked = TRUE]
      BY Zenon
    <3> HIDE DEF added, expired, revoked
    <3> QED BY <3>1, <3>2, <3>3, <3>4
  <2>2. ASSUME NEW k \in Kids PROVE [old EXCEPT ![k].expires = now + Lease] \in [Kids -> Keys]
    <3>1. [old[k] EXCEPT !.expires = now + Lease] \in Keys
      BY <1>2 DEF Keys
    <3> QED BY <1>2, <3>1
  <2>3. ASSUME NEW k \in Kids PROVE [old EXCEPT ![k].revoked = TRUE] \in [Kids -> Keys]
    <3>1. [old[k] EXCEPT !.revoked = TRUE] \in Keys
      BY <1>2 DEF Keys
    <3> QED BY <1>2, <3>1
  <2>4. ASSUME NEW k \in Kids, NEW s \in {"read", "control"}
        PROVE  [old EXCEPT ![k] = Key(s, FALSE, Never)] \in [Kids -> Keys]
    BY <1>2, <1>4
  <2>5. [k \in Kids |-> IF LiveKey(old[k]) THEN old[k] ELSE Absent] \in [Kids -> Keys]
    BY <1>2, <1>4
  <2>6. CASE \E k \in Kids, s \in {"read", "control"} : keys = [old EXCEPT ![k] = Key(s, FALSE, Never)]
    BY <2>4, <2>6, Zenon
  <2>7. CASE \E k \in Kids : keys = [old EXCEPT ![k].expires = now + Lease]
    BY <2>2, <2>7, Zenon
  <2>8. CASE \E k \in Kids : keys = [old EXCEPT ![k].revoked = TRUE]
    BY <2>3, <2>8, Zenon
  <2>9. CASE keys = [k \in Kids |-> IF LiveKey(old[k]) THEN old[k] ELSE Absent]
    BY <2>5, <2>9, Zenon
  <2> QED BY <2>1, <2>6, <2>7, <2>8, <2>9, Zenon
<1> QED BY <1>1, <1>2, <1>3, RewrittenAreSuccessors DEF Rewritten

LEMMA HandMadeAreSuccessors ==
  ASSUME KeysInv, EditByHand
  PROVE  \E f : Successor(f) /\ Replaced(f)
<1>1. disk \in KeyFiles /\ disk.keys \in [Kids -> Keys] /\ disk.ver \in Nat \ {0}
  BY KeysHaveShape DEF FileOK
<1>2. ASSUME NEW mode \in {"json", "mode"}, NEW k \in Kids
      PROVE  Successor(Rewritten(mode, [disk.keys EXCEPT ![k].revoked = TRUE]))
  <2>1. [disk.keys[k] EXCEPT !.revoked = TRUE] \in Keys
    BY <1>1 DEF Keys
  <2>2. [disk.keys EXCEPT ![k].revoked = TRUE] \in [Kids -> Keys]
    BY <1>1, <2>1
  <2> QED BY <2>2, RewrittenAreSuccessors
<1>3. Successor(Rewritten("ok", disk.keys))
  BY <1>1, RewrittenAreSuccessors
<1>4. Successor([disk EXCEPT !.mode = "fixed"])
  BY <1>1 DEF Successor, FileOK, KeyFiles
<1> QED BY <1>2, <1>3, <1>4 DEF EditByHand

(* A key whose file entry was left alone is as old as it was. *)
LEMMA ReplacedKeeps ==
  ASSUME KeysInv, NEW f, Successor(f), Replaced(f)
  PROVE  /\ disk' = f /\ DOMAIN changedAt' = Kids
         /\ \A k \in Kids :
              /\ changedAt'[k] \in Nat /\ changedAt'[k] <= now
              /\ \/ changedAt'[k] = now
                 \/ /\ changedAt'[k] = changedAt[k] /\ f.keys[k] = disk.keys[k]
                    /\ f.mode = disk.mode
<1>1. now \in Nat
  BY DEF KeysInv
<1> QED BY <1>1 DEF Replaced, KeysInv

(* The file is replaced and the server does not look. *)
LEMMA UnseenIsOK ==
  ASSUME KeysInv, NEW f, Successor(f), Replaced(f), UNCHANGED <<now, store>>
  PROVE  KeysInv'
<1>1. /\ disk' = f /\ DOMAIN changedAt' = Kids
      /\ \A k \in Kids :
           /\ changedAt'[k] \in Nat /\ changedAt'[k] <= now
           /\ \/ changedAt'[k] = now
              \/ /\ changedAt'[k] = changedAt[k] /\ f.keys[k] = disk.keys[k]
                 /\ f.mode = disk.mode
  BY ReplacedKeeps
<1>2. /\ store.ver \in Nat /\ disk.ver \in Nat /\ store.ver <= disk.ver
      /\ store.stat \in Nat /\ now \in Nat /\ store.stat <= now
  BY KeysHaveShape
<1>3. store.ver <= f.ver /\ FileOK(f)
  BY <1>2 DEF Successor
<1>4. f.mode = "ok" /\ store.ver = f.ver => store.keys = f.keys
  BY <1>2 DEF Successor, KeysInv
<1>5. \A k \in Kids : f.mode = "ok" /\ changedAt'[k] < store.stat => store.keys[k] = f.keys[k]
  BY <1>1, <1>2 DEF KeysInv
<1> QED BY <1>1, <1>3, <1>4, <1>5 DEF KeysInv

(* A look at the file leaves the store younger than a reload interval.     *)
LEMMA ConsultIsOK ==
  ASSUME KeysInv, Consult, now' = now
  PROVE  /\ KeysInv' /\ now - store'.stat < Reload
         /\ \E f : Successor(f) /\ Replaced(f)
<1>1. PICK f \in AtRead : Replaced(f) /\ store' = Reloaded(f)
  BY DEF Consult
<1>2. /\ store.ver \in Nat /\ disk.ver \in Nat /\ store.ver <= disk.ver
      /\ store.stat \in Nat /\ now \in Nat /\ store.stat <= now /\ FileOK(disk)
      /\ store.keys \in [Kids -> Keys] /\ disk.keys \in [Kids -> Keys] /\ Reload \in Nat \ {0}
      /\ store \in Stores
  BY LimitsAreNat, KeysHaveShape
<1>3. Successor(f) /\ (f = disk \/ (Due /\ disk.ver # store.ver /\ f.ver = disk.ver + 1 /\ f.mode = "ok"))
  <2>1. CASE f = disk
    BY <1>2, <2>1 DEF Successor
  <2>2. CASE f # disk
    <3>1. f \in Saved /\ Due /\ disk.ver # store.ver
      BY <1>1, <2>2 DEF AtRead
    <3> QED BY <3>1, SavedAreSuccessors
  <2> QED BY <2>1, <2>2
<1>4. /\ disk' = f /\ DOMAIN changedAt' = Kids
      /\ \A k \in Kids :
           /\ changedAt'[k] \in Nat /\ changedAt'[k] <= now
           /\ \/ changedAt'[k] = now
              \/ /\ changedAt'[k] = changedAt[k] /\ f.keys[k] = disk.keys[k]
                 /\ f.mode = disk.mode
  BY <1>1, <1>3, ReplacedKeeps
<1>5. CASE ~Due
  <2>1. store' = store /\ f = disk /\ now - store.stat < Reload
    BY <1>1, <1>2, <1>3, <1>5 DEF Reloaded, Due
  <2>2. KeysInv'
    BY <1>1, <1>3, <2>1, UnseenIsOK
  <2> QED BY <1>1, <1>3, <2>1, <2>2
<1>6. CASE Due /\ disk.ver = store.ver
  <2>1. /\ store' = [store EXCEPT !.stat = now] /\ f = disk
    BY <1>1, <1>3, <1>6 DEF Reloaded
  <2>2. /\ store' \in Stores /\ store'.stat = now
        /\ store'.ver = store.ver /\ store'.keys = store.keys
    BY <1>2, <2>1 DEF Stores
  <2>3. disk.mode = "ok" => store.keys = disk.keys
    BY <1>6 DEF KeysInv
  <2>4. KeysInv'
    BY <1>2, <1>4, <2>1, <2>2, <2>3 DEF KeysInv
  <2> QED BY <1>1, <1>2, <1>3, <2>2, <2>4
<1>7. CASE Due /\ disk.ver # store.ver
  <2>1. store' = [stat |-> now, ver |-> disk.ver,
                  keys |-> IF Good(f) THEN f.keys ELSE store.keys]
    BY <1>1, <1>7 DEF Reloaded
  <2>0. f.keys \in [Kids -> Keys] /\ FileOK(f)
    BY <1>3, FilesHaveShape DEF Successor
  <2>2. /\ store' \in Stores /\ store'.stat = now /\ store'.ver = disk.ver
        /\ f.mode = "ok" => store'.keys = f.keys
    BY <1>2, <2>0, <2>1 DEF Good, Stores
  <2>3. f.ver \in Nat \ {0} /\ disk.ver <= f.ver /\ FileOK(f)
    BY <1>2, <1>3, <2>0, FilesHaveShape
  <2>4. KeysInv'
    BY <1>2, <1>4, <2>2, <2>3 DEF KeysInv
  <2> QED BY <1>1, <1>2, <1>3, <2>2, <2>4
<1> QED BY <1>5, <1>6, <1>7

(* The server starts with what the file says, and ends knowing nothing.    *)
LEMMA NewStoreIsOK ==
  ASSUME KeysInv, UNCHANGED <<now, disk, changedAt>>,
         \/ store' = [stat |-> 0, ver |-> 0, keys |-> NoKeys]
         \/ store' = [stat |-> 0, ver |-> disk.ver, keys |-> disk.keys]
  PROVE  KeysInv'
<1>1. /\ NoKeys \in [Kids -> Keys] /\ disk.ver \in Nat \ {0} /\ disk.keys \in [Kids -> Keys]
      /\ now \in Nat /\ FileOK(disk)
  BY KeysHaveShape DEF NoKeys, Absent, Key, Keys
<1>2. /\ store' \in Stores /\ store'.stat = 0
      /\ store'.ver = 0 \/ (store'.ver = disk.ver /\ store'.keys = disk.keys)
  BY <1>1 DEF Stores
<1> QED BY <1>1, <1>2 DEF KeysInv
-----------------------------------------------------------------------------
(* What the keys just reloaded grant. *)
Granted(a) == /\ a[1] \in Kids /\ LiveKey(store'.keys[a[1]])
              /\ Satisfies(store'.keys[a[1]], a[2])

(* The ways a step touches the file, the store and who was served.         *)
LEMMA KeysMove ==
  ASSUME [Next]_vars, KeysInv, TicketInv
  PROVE  \/ UNCHANGED <<now, disk, changedAt, store, acted>>
         \/ /\ Consult /\ now' = now
            /\ \A a \in acted' : a \in acted \/ Granted(a)
         \/ /\ \E f : Successor(f) /\ Replaced(f)
            /\ UNCHANGED <<now, store, acted>>
         \/ /\ \/ store' = [stat |-> 0, ver |-> 0, keys |-> NoKeys]
               \/ store' = [stat |-> 0, ver |-> disk.ver, keys |-> disk.keys]
            /\ UNCHANGED <<now, disk, changedAt, acted>>
         \/ now' = now + 1 /\ UNCHANGED <<disk, changedAt, store>> /\ acted' = {}
<1> DEFINE Calm == UNCHANGED <<now, disk, changedAt, store, acted>>
           Look == Consult /\ now' = now /\ \A a \in acted' : a \in acted \/ Granted(a)
           New == /\ \/ store' = [stat |-> 0, ver |-> 0, keys |-> NoKeys]
                     \/ store' = [stat |-> 0, ver |-> disk.ver, keys |-> disk.keys]
                  /\ UNCHANGED <<now, disk, changedAt, acted>>
<1>1. ASSUME NEW p \in Peers, ApiNoCredential(p) PROVE Calm
  BY <1>1 DEF ApiNoCredential, fileVars, history
<1>2. ASSUME NEW p \in Peers, NEW c, ApiRefused(p, c) PROVE Look
  BY <1>2 DEF ApiRefused, history
<1>3. ASSUME NEW p \in Peers, NEW k \in Kids, ApiForbidden(p, k) PROVE Look
  BY <1>3 DEF ApiForbidden, history
<1>4. ASSUME NEW p \in Peers, NEW k \in Kids, NEW need, NEW raises, ApiServed(p, k, need, raises)
      PROVE  Look
  <2> DEFINE b == <<k, need>>
  <2>1. Consult /\ now' = now /\ acted' = acted \union {b} /\ Accepted(k, need)
    BY <1>4 DEF ApiServed
  <2>2. b[1] = k /\ b[2] = need
    OBVIOUS
  <2> HIDE DEF b
  <2>3. Granted(b)
    BY <2>1, <2>2 DEF Granted, Accepted, Refused
  <2> QED BY <2>1, <2>3
<1>5. ASSUME NEW c, StreamTicket(c) PROVE Look
  BY <1>5 DEF StreamTicket, history
<1>6. ASSUME NEW c, Metrics(c) PROVE Look
  <2> DEFINE b == <<c, "read">>
  <2>1. Consult /\ now' = now /\ acted' = IF Accepted(c, "read") THEN acted \union {b} ELSE acted
    BY <1>6 DEF Metrics
  <2>2. b[1] = c /\ b[2] = "read"
    OBVIOUS
  <2> HIDE DEF b
  <2>3. Accepted(c, "read") => Granted(b)
    BY <2>2 DEF Granted, Accepted, Refused
  <2> QED BY <2>1, <2>3
<1>7. ASSUME NEW i \in 1 .. Capacity, OpenStream(i) PROVE Calm
  BY <1>7 DEF OpenStream, fileVars, history
<1>8. ASSUME Push PROVE Look
  <2> DEFINE kept == {c \in clients : LiveKey(store'.keys[c.kid])}
  <2>1. /\ Consult /\ now' = now
        /\ \/ UNCHANGED acted
           \/ \E there \in SUBSET kept : acted' = acted \union {<<c.kid, "read">> : c \in there}
    BY <1>8 DEF Push
  <2>2. ASSUME NEW there \in SUBSET kept, acted' = acted \union {<<c.kid, "read">> : c \in there},
               NEW a \in acted'
        PROVE  a \in acted \/ Granted(a)
    <3>1. CASE a \in acted
      BY <3>1
    <3>2. CASE a \notin acted
      <4>1. PICK c \in there : a = <<c.kid, "read">>
        BY <2>2, <3>2
      <4>2. a[1] = c.kid /\ a[2] = "read" /\ c \in clients /\ LiveKey(store'.keys[c.kid])
        BY <4>1
      <4> QED BY <4>2 DEF Granted, Satisfies, TicketInv
    <3> QED BY <3>1, <3>2
  <2> QED BY <2>1, <2>2
<1>9. ASSUME OpenStreamRefused \/ ApiPublicRaises \/ Midnight PROVE Calm
  BY <1>9 DEF OpenStreamRefused, ApiPublicRaises, Midnight, fileVars, history, memory
<1>10. ASSUME Start PROVE Calm \/ New
  BY <1>10 DEF Start, fileVars, history
<1>11. ASSUME Stop \/ Crash PROVE New
  BY <1>11 DEF Stop, Crash, Forgotten, fileVars, history
<1>12. ASSUME Keyctl
       PROVE  (\E f : Successor(f) /\ Replaced(f)) /\ UNCHANGED <<now, store, acted>>
  <2>1. PICK f \in Saved : Replaced(f)
    BY <1>12 DEF Keyctl
  <2>2. Successor(f)
    BY SavedAreSuccessors
  <2> QED BY <1>12, <2>1, <2>2 DEF Keyctl, memory, history
<1>13. ASSUME EditByHand
       PROVE  (\E f : Successor(f) /\ Replaced(f)) /\ UNCHANGED <<now, store, acted>>
  <2>1. UNCHANGED <<now, store, acted>>
    BY <1>13 DEF EditByHand, memory, history
  <2> QED BY <1>13, <2>1, HandMadeAreSuccessors
<1>14. ASSUME Tick
       PROVE  now' = now + 1 /\ UNCHANGED <<disk, changedAt, store>> /\ acted' = {}
  BY <1>14 DEF Tick, fileVars, memory
<1>15. CASE UNCHANGED vars
  BY <1>15 DEF vars, memory, fileVars, history
<1> QED BY <1>1, <1>2, <1>3, <1>4, <1>5, <1>6, <1>7, <1>8, <1>9, <1>10, <1>11, <1>12, <1>13,
           <1>14, <1>15 DEF Next

RevocationInv == /\ TicketInv /\ KeysInv
                 /\ \A a \in acted : a[1] \in Kids
                 /\ RevocationBites

LEMMA RevocationStep == RevocationInv /\ [Next]_vars => RevocationInv'
<1> SUFFICES ASSUME RevocationInv, [Next]_vars PROVE RevocationInv'
  OBVIOUS
<1>1. TicketInv' /\ TicketInv /\ KeysInv
  BY TicketStep DEF RevocationInv
<1>2. CASE UNCHANGED <<now, disk, changedAt, store, acted>>
  BY <1>1, <1>2 DEF RevocationInv, KeysInv, RevocationBites, Entitled, LiveKey, FileOK
<1>3. CASE now' = now + 1 /\ UNCHANGED <<disk, changedAt, store>> /\ acted' = {}
  <2>1. KeysInv'
    <3>1. now \in Nat /\ now' \in Nat /\ now <= now' /\ store.stat \in Nat
      BY <1>1, <1>3, KeysHaveShape
    <3>2. store.stat <= now' /\ \A k \in Kids : changedAt[k] <= now'
      BY <1>1, <3>1 DEF KeysInv
    <3> QED BY <1>1, <1>3, <3>1, <3>2 DEF KeysInv, FileOK
  <2> QED BY <1>1, <1>3, <2>1 DEF RevocationInv, RevocationBites
<1>4. ASSUME now' = now, KeysInv', \E f : Successor(f) /\ Replaced(f),
             \A a \in acted' : a \in acted \/ (Granted(a) /\ now - store'.stat < Reload)
      PROVE  RevocationInv'
  <2>1. PICK f : Successor(f) /\ Replaced(f)
    BY <1>4
  <2>2. /\ disk' = f
        /\ \A k \in Kids :
             /\ changedAt'[k] \in Nat
             /\ \/ changedAt'[k] = now
                \/ /\ changedAt'[k] = changedAt[k] /\ f.keys[k] = disk.keys[k]
                   /\ f.mode = disk.mode
    BY <1>1, <2>1, ReplacedKeeps
  <2>3. now \in Nat /\ Reload \in Nat \ {0} /\ store'.stat \in Nat
    BY <1>1, <1>4, LimitsAreNat, StoresHaveShape DEF KeysInv
  <2>4. \A a \in acted' : a[1] \in Kids
    BY <1>4 DEF Granted, RevocationInv
  <2>5. ASSUME NEW a \in acted', disk'.mode = "ok", now >= changedAt'[a[1]] + Reload
        PROVE  ~disk'.keys[a[1]].revoked /\ now < disk'.keys[a[1]].expires /\ Satisfies(disk'.keys[a[1]], a[2])
    <3> DEFINE k == a[1]
    <3>1. k \in Kids /\ changedAt'[k] # now /\ changedAt'[k] \in Nat
      BY <2>2, <2>3, <2>4, <2>5
    <3>2. changedAt'[k] = changedAt[k] /\ f.keys[k] = disk.keys[k] /\ f.mode = disk.mode
      BY <2>2, <3>1
    <3>3. CASE a \in acted
      BY <2>2, <2>5, <3>2, <3>3 DEF RevocationInv, RevocationBites, Entitled, LiveKey
    <3>4. CASE Granted(a) /\ now - store'.stat < Reload
      <4>1. changedAt'[k] < store'.stat
        BY <2>3, <2>5, <3>1, <3>4
      <4>2. store'.keys[k] = disk'.keys[k]
        BY <1>4, <2>5, <3>1, <4>1 DEF KeysInv
      <4> QED BY <3>4, <4>2 DEF Granted, LiveKey
    <3> QED BY <1>4, <3>3, <3>4
  <2>6. RevocationBites'
    BY <1>4, <2>5 DEF RevocationBites, Entitled, LiveKey, Satisfies
  <2> QED BY <1>1, <1>4, <2>4, <2>6 DEF RevocationInv
<1>5. CASE Consult /\ now' = now /\ \A a \in acted' : a \in acted \/ Granted(a)
  BY <1>1, <1>4, <1>5, ConsultIsOK
<1>6. CASE (\E f : Successor(f) /\ Replaced(f)) /\ UNCHANGED <<now, store, acted>>
  BY <1>1, <1>4, <1>6, UnseenIsOK
<1>7. CASE /\ \/ store' = [stat |-> 0, ver |-> 0, keys |-> NoKeys]
              \/ store' = [stat |-> 0, ver |-> disk.ver, keys |-> disk.keys]
           /\ UNCHANGED <<now, disk, changedAt, acted>>
  <2>1. KeysInv'
    BY <1>1, <1>7, NewStoreIsOK
  <2> QED BY <1>1, <1>7, <2>1 DEF RevocationInv, RevocationBites, Entitled, LiveKey
<1> QED BY <1>1, <1>2, <1>3, <1>5, <1>6, <1>7, KeysMove

LEMMA KeysStart == Init => KeysInv
<1> SUFFICES ASSUME Init PROVE KeysInv
  OBVIOUS
<1>1. now \in Nat \ {0}
  BY LimitsAreNat DEF Init
<1>2. store \in Stores /\ store.stat = 0 /\ store.ver = 0
  <2>1. NoKeys \in [Kids -> Keys]
    BY DEF NoKeys, Absent, Key, Keys
  <2> QED BY <2>1 DEF Init, Stores
<1>3. FileOK(disk) /\ disk.ver = 1
  <2>1. PICK keys \in [Kids -> {Key("read", FALSE, Never), Key("control", FALSE, Never)}] :
          disk = [ver |-> 1, mode |-> "ok", keys |-> keys]
    BY DEF Init
  <2>2. {Key("read", FALSE, Never), Key("control", FALSE, Never)} \subseteq Keys
    BY DEF Key, Keys, Never
  <2>3. keys \in [Kids -> Keys]
    BY <2>2
  <2> QED BY <2>1, <2>3 DEF FileOK, KeyFiles
<1>4. DOMAIN changedAt = Kids /\ \A k \in Kids : changedAt[k] = 0
  BY DEF Init
<1> QED BY <1>1, <1>2, <1>3, <1>4 DEF KeysInv

(* For every number of keys and every reload interval: once the interval   *)
(* has passed since the file said so, nobody is served what the file does  *)
(* not entitle them to, whatever raced with the reload.                    *)
THEOREM RevocationAlwaysBites == Spec => []RevocationBites
<1>1. Init => RevocationInv
  BY TicketsStart, KeysStart DEF Init, RevocationInv, RevocationBites
<1>2. RevocationInv => RevocationBites
  BY DEF RevocationInv
<1> QED BY <1>1, <1>2, RevocationStep, PTL DEF Spec

-----------------------------------------------------------------------------
(* A daemon that is down holds no tickets and no streams. *)
LEMMA UpMoves ==
  ASSUME [Next]_vars, AuditInv
  PROVE  \/ writer'.open = TRUE
         \/ tickets' = <<>> /\ clients' = {}
         \/ ~Up /\ UNCHANGED <<tickets, clients>>
<1> USE DEF Up
<1>1. ASSUME LogRecord PROVE writer'.open = TRUE
  BY <1>1, LogRecordSettles
<1>2. ASSUME Up PROVE writer.open = TRUE
  BY <1>2 DEF AuditInv, WriterShape
<1>3. ASSUME NEW p \in Peers, ApiNoCredential(p) PROVE LogRecord
  BY <1>3 DEF ApiNoCredential, Audited
<1>4. ASSUME NEW p \in Peers, NEW c, ApiRefused(p, c) PROVE LogRecord
  BY <1>4 DEF ApiRefused, Audited
<1>5. ASSUME NEW p \in Peers, NEW k \in Kids, ApiForbidden(p, k) PROVE LogRecord
  BY <1>5 DEF ApiForbidden, Audited
<1>6. ASSUME NEW p \in Peers, NEW k \in Kids, NEW need, NEW raises, ApiServed(p, k, need, raises)
      PROVE  LogRecord \/ (Up /\ UNCHANGED writer)
  BY <1>6 DEF ApiServed, Admitted, Audited, Unaudited, auditVars
<1>7. ASSUME NEW c, StreamTicket(c) \/ Metrics(c) PROVE Up /\ UNCHANGED writer
  BY <1>7 DEF StreamTicket, Metrics, Unaudited, auditVars
<1>8. ASSUME NEW i \in 1 .. Capacity, OpenStream(i) PROVE Up /\ UNCHANGED writer
  BY <1>8 DEF OpenStream, Unaudited, auditVars
<1>9. ASSUME OpenStreamRefused \/ Push PROVE Up /\ UNCHANGED writer
  BY <1>9 DEF OpenStreamRefused, Push, Unaudited, auditVars
<1>10. ASSUME ApiPublicRaises PROVE LogRecord
  BY <1>10 DEF ApiPublicRaises, Audited
<1>11. ASSUME Start PROVE ~Up /\ UNCHANGED <<tickets, clients>>
  BY <1>11 DEF Start, Open, streams
<1>12. ASSUME Stop \/ Crash PROVE tickets' = <<>> /\ clients' = {}
  BY <1>12 DEF Stop, Crash, Forgotten
<1>13. ASSUME Keyctl \/ EditByHand \/ Tick \/ Midnight \/ UNCHANGED vars
       PROVE  UNCHANGED <<tickets, clients, writer>>
  BY <1>13 DEF Keyctl, EditByHand, Tick, Midnight, NextDay, Unaudited, auditVars, vars, memory, streams
<1> QED BY <1>1, <1>2, <1>3, <1>4, <1>5, <1>6, <1>7, <1>8, <1>9, <1>10, <1>11, <1>12, <1>13 DEF Next

TypeInv == /\ AuditInv /\ LimitInv /\ TicketInv /\ KeysInv
           /\ fails \in [Peers -> [n : Nat, first : Nat]]
           /\ ~Up => tickets = <<>> /\ clients = {}

LEMMA FailsAreTyped ==
  ASSUME LimitInv, fails \in [Peers -> [n : Nat, first : Nat]], [Next]_vars
  PROVE  fails' \in [Peers -> [n : Nat, first : Nat]]
<1>1. Fresh \in [n : Nat, first : Nat]
  BY DEF Fresh
<1>2. \A p \in Peers : Noted(p) \in [n : Nat, first : Nat]
  BY <1>1 DEF Noted, Expired, LimitInv
<1> QED BY <1>1, <1>2, RefusalsMove DEF NoteSuccess, NoteFailure

LEMMA KeysStep ==
  ASSUME KeysInv, TicketInv, [Next]_vars
  PROVE  KeysInv'
<1>1. CASE UNCHANGED <<now, disk, changedAt, store>>
  BY <1>1 DEF KeysInv
<1>2. CASE Consult /\ now' = now
  BY <1>2, ConsultIsOK
<1>3. CASE (\E f : Successor(f) /\ Replaced(f)) /\ UNCHANGED <<now, store>>
  BY <1>3, UnseenIsOK
<1>4. CASE /\ \/ store' = [stat |-> 0, ver |-> 0, keys |-> NoKeys]
              \/ store' = [stat |-> 0, ver |-> disk.ver, keys |-> disk.keys]
           /\ UNCHANGED <<now, disk, changedAt>>
  BY <1>4, NewStoreIsOK
<1>5. CASE now' = now + 1 /\ UNCHANGED <<disk, changedAt, store>>
  <2>1. now \in Nat /\ now' \in Nat /\ now <= now' /\ store.stat \in Nat
    BY <1>5, KeysHaveShape
  <2>2. store.stat <= now' /\ \A k \in Kids : changedAt[k] <= now'
    BY <2>1 DEF KeysInv
  <2> QED BY <1>5, <2>1, <2>2 DEF KeysInv, FileOK
<1> QED BY <1>1, <1>2, <1>3, <1>4, <1>5, KeysMove

LEMMA TypeStep == TypeInv /\ [Next]_vars => TypeInv'
<1> SUFFICES ASSUME TypeInv, [Next]_vars PROVE TypeInv'
  OBVIOUS
<1>1. AuditInv'
  BY NextDrivesTheLog, AuditStep DEF TypeInv
<1>2. LimitInv' /\ TicketInv' /\ KeysInv'
  BY LimitStep, TicketStep, KeysStep DEF TypeInv
<1>3. fails' \in [Peers -> [n : Nat, first : Nat]]
  BY FailsAreTyped DEF TypeInv
<1>4. ~Up' => tickets' = <<>> /\ clients' = {}
  BY UpMoves DEF TypeInv, Up
<1> QED BY <1>1, <1>2, <1>3, <1>4 DEF TypeInv

LEMMA TypeInvGivesTypeOK == TypeInv => TypeOK
<1> SUFFICES ASSUME TypeInv PROVE TypeOK
  OBVIOUS
<1>1. disk \in KeyFiles /\ store \in Stores
  BY DEF TypeInv, KeysInv, FileOK
<1>2. fails \in [Peers -> [n : 0 .. MaxFailures, first : Nat]]
  <2>1. \A p \in Peers : fails[p].n \in 0 .. MaxFailures
    BY DEF TypeInv, LimitInv, PeerOK
  <2> QED BY <2>1 DEF TypeInv
<1>3. tickets \in Seq(TicketRecords) /\ Len(tickets) <= Capacity
  BY DEF TypeInv, TicketInv, TicketState, TicketsOK, TableOK
<1> QED BY <1>1, <1>2, <1>3 DEF TypeInv, TicketInv, TypeOK, KeyFiles, Stores, TicketRecords

(* The server's state has its types, for every value of the constants: no  *)
(* peer is remembered beyond the limit, no table outgrows its capacity,    *)
(* and nothing outlives the daemon.                                        *)
THEOREM GatewayTypeCorrect == Spec => []TypeOK
<1>1. Init => TypeInv
  <2> SUFFICES ASSUME Init PROVE TypeInv
    OBVIOUS
  <2>1. fails \in [Peers -> [n : Nat, first : Nat]]
    BY DEF Init, Fresh
  <2> QED BY <2>1, AuditStarts, LimitStarts, TicketsStart, KeysStart DEF Init, TypeInv
<1> QED BY <1>1, TypeStep, TypeInvGivesTypeOK, PTL DEF Spec
=============================================================================
