---------------------------- MODULE Site_proofs -----------------------------
(***************************************************************************)
(* What the site promises for every set of keys, every daemon and browser  *)
(* of Setups, every guide, report and history of benchmarks: proofs about  *)
(* SiteSpec.                                                               *)
(*                                                                         *)
(* First the credentials: a callback of the dashboard that belongs to one  *)
(* run of begin() touches nothing but that run (Moves); whoami, submit,    *)
(* sign out, load, leave and an outage are the others.  Then the guides.   *)
(*                                                                         *)
(* What the pages show is computed from what they hold: so the charts, the *)
(* tables and the page of benchmarks are lemmas about filter, sort,        *)
(* flatten and sums, and an invariant that says what they are applied to   *)
(* (ScreenInv, BenchInv).                                                  *)
(***************************************************************************)
EXTENDS Site, FiniteSetTheorems, SequenceTheorems, TLAPS

(* A run is well typed, and has ended when its failures reach the limit.   *)
(* A ticket that has been redeemed is kept by an EventSource that was open *)
(* with it; minting another drops it.                                      *)
Sound(v) ==
  /\ v \in VisitType
  /\ v.failures = Tries => v.stream = "ended"
  /\ v.ticket = "used" => v.stream \in {"open", "waiting", "ended"}
  /\ v.whoami \in {"asked", "told"} => v.key # NoKey
  /\ ~v.settled => v.stream = "none" /\ v.ticket = "none"

TicketInv ==
  /\ TypeOK
  /\ \A b \in DOMAIN visits : Sound(visits[b])

(* The key that is stored is the last run's, unless it was signed out.     *)
KeyInv == visits # <<>> /\ key # NoKey => visits[Len(visits)].key = key

ControlInv == TicketInv /\ KeyInv /\ ControlsMatchTheKey

(* One run goes on, with the key and the scopes it had. *)
Moves(b) ==
  /\ \E v \in VisitType :
       /\ visits' = [visits EXCEPT ![b] = v]
       /\ Sound(v) /\ v.key = visits[b].key /\ v.whoami = visits[b].whoami
  /\ UNCHANGED <<setup, key, canControl, gone>>

-----------------------------------------------------------------------------
(* A run of begin() starts sound, and opening its stream keeps it so.      *)
LEMMA VisitIsSound == ASSUME NEW k \in Keys \union {NoKey} PROVE Sound(Visit(k))
  BY KeyAssumption, BoundAssumption DEF Sound, Visit, VisitType

LEMMA OpenedIsSound ==
  ASSUME TicketInv, NEW v, Sound(v), v.settled, v.failures < Tries
  PROVE  Sound(Opened(v)) /\ Opened(v).key = v.key /\ Opened(v).whoami = v.whoami
<1> USE DEF Sound, VisitType
<1>1. CASE key = NoKey
  <2> DEFINE w == [v EXCEPT !.stream = "opening", !.ticket = "none"]
  <2>1. Opened(v) = w
    BY <1>1 DEF Opened
  <2>2. w \in VisitType /\ w.failures = v.failures /\ w.ticket = "none" /\ w.whoami = v.whoami
          /\ w.key = v.key /\ w.settled
    OBVIOUS
  <2> QED BY <2>1, <2>2, BoundAssumption
<1>2. CASE key # NoKey
  <2> DEFINE w == [v EXCEPT !.stream = "minting", !.ticket = "none", !.sent = key]
  <2>1. Opened(v) = w
    BY <1>2 DEF Opened
  <2>2. w \in VisitType /\ w.failures = v.failures /\ w.ticket = "none" /\ w.whoami = v.whoami
          /\ w.key = v.key /\ w.settled
    BY DEF TicketInv, TypeOK
  <2> QED BY <2>1, <2>2, BoundAssumption
<1> QED BY <1>1, <1>2

(* Deciding a run, for the stream or for the recording, moves that run.    *)
LEMMA DecideMoves ==
  ASSUME TicketInv, NEW b \in DOMAIN visits, NEW v, Sound(v), NEW live \in BOOLEAN,
         v.key = visits[b].key, v.whoami = visits[b].whoami,
         Decide(b, v, live), UNCHANGED <<setup, key, canControl, gone>>
  PROVE  Moves(b)
<1> DEFINE settled == [v EXCEPT !.settled = TRUE]
<1>1. CASE v.settled
  BY <1>1 DEF Decide, Moves, Sound
<1>2. CASE ~v.settled
  <2>1. Sound(settled) /\ settled.key = v.key /\ settled.whoami = v.whoami
         /\ settled.failures < Tries /\ settled.settled
    <3>1. v \in VisitType /\ v.stream = "none" /\ v.ticket = "none" /\ v.failures # Tries
            /\ (v.whoami \in {"asked", "told"} => v.key # NoKey)
      BY <1>2 DEF Sound
    <3>2. settled \in VisitType /\ settled.stream = "none" /\ settled.ticket = "none" /\ settled.settled
            /\ settled.failures = v.failures /\ settled.key = v.key /\ settled.whoami = v.whoami
      BY <3>1 DEF VisitType
    <3>3. v.failures < Tries
      BY <3>1, BoundAssumption DEF VisitType
    <3> QED BY <3>1, <3>2, <3>3 DEF Sound
  <2>2. ASSUME NEW w, Sound(w), w.key = v.key, w.whoami = v.whoami, visits' = [visits EXCEPT ![b] = w]
        PROVE  Moves(b)
    BY <2>2 DEF Moves, Sound
  <2>3. CASE live /\ setup.sse
    <3>1. visits' = [visits EXCEPT ![b] = Opened(settled)]
      BY <1>2, <2>3 DEF Decide, StartStream
    <3> QED BY <3>1, <2>1, <2>2, OpenedIsSound
  <2>4. CASE live /\ ~setup.sse
    <3> DEFINE w == [settled EXCEPT !.stream = "ended"]
    <3>1. visits' = [visits EXCEPT ![b] = w]
      BY <1>2, <2>4 DEF Decide, StartStream
    <3>2. Sound(w) /\ w.key = v.key /\ w.whoami = v.whoami
      BY <2>1, ZenonT(40) DEF Sound, VisitType
    <3> QED BY <3>1, <3>2, <2>2
  <2>5. CASE ~live
    <3> DEFINE w == [settled EXCEPT !.demo = "fetching"]
    <3>1. visits' = [visits EXCEPT ![b] = w]
      BY <1>2, <2>5 DEF Decide, StartDemo
    <3>2. w \in VisitType /\ w.stream = settled.stream /\ w.ticket = settled.ticket /\ w.settled
            /\ w.failures = settled.failures /\ w.key = v.key /\ w.whoami = v.whoami
      BY <2>1 DEF Sound, VisitType
    <3>3. Sound(w)
      BY <2>1, <3>2 DEF Sound
    <3> QED BY <3>1, <3>2, <3>3, <2>2
  <2> QED BY <2>3, <2>4, <2>5
<1> QED BY <1>1, <1>2

LEMMA MovesTo ==
  ASSUME NEW b \in DOMAIN visits, NEW w, Sound(w), w.key = visits[b].key, w.whoami = visits[b].whoami,
         visits' = [visits EXCEPT ![b] = w], UNCHANGED <<setup, key, canControl, gone>>
  PROVE  Moves(b)
  BY DEF Moves, Sound

(* The answer to the probe, its timer, and whatever the stream or the demo *)
(* of a run does, moves that run.                                          *)
LEMMA ProbeMoves ==
  ASSUME TicketInv, NEW b \in DOMAIN visits, ProbeTimesOut(b) \/ ProbeAnswers(b)
  PROVE  Moves(b)
<1>1. visits[b] \in VisitType /\ Sound(visits[b])
  BY DEF TicketInv, TypeOK
<1>2. CASE ProbeTimesOut(b)
  <2>1. Decide(b, visits[b], FALSE) /\ UNCHANGED <<setup, key, canControl, gone>>
    BY <1>2 DEF ProbeTimesOut, world
  <2> QED BY <1>1, <2>1, DecideMoves
<1>3. CASE ProbeAnswers(b) /\ KeyRequired
  <2> DEFINE w == [visits[b] EXCEPT !.probe = IF ~up THEN "failed" ELSE IF visits[b].settled THEN "late" ELSE "answered",
                                    !.settled = TRUE]
  <2>1. visits' = [visits EXCEPT ![b] = w] /\ UNCHANGED <<setup, key, canControl, gone>>
    BY <1>1, <1>3 DEF ProbeAnswers, world, VisitType
  <2>2. w \in VisitType /\ w.stream = visits[b].stream /\ w.ticket = visits[b].ticket /\ w.settled
          /\ w.failures = visits[b].failures /\ w.key = visits[b].key /\ w.whoami = visits[b].whoami
    BY <1>1 DEF VisitType
  <2>3. Sound(w)
    BY <1>1, <2>2 DEF Sound
  <2> QED BY <2>1, <2>2, <2>3, MovesTo
<1>4. CASE ProbeAnswers(b) /\ ~KeyRequired
  <2> DEFINE v == [visits[b] EXCEPT !.probe = IF ~up THEN "failed" ELSE IF visits[b].settled THEN "late" ELSE "answered"]
  <2>1. Decide(b, v, up /\ setup.healthy) /\ UNCHANGED <<setup, key, canControl, gone>>
    BY <1>4 DEF ProbeAnswers, world
  <2>2. v \in VisitType /\ v.stream = visits[b].stream /\ v.ticket = visits[b].ticket
          /\ v.settled = visits[b].settled
          /\ v.failures = visits[b].failures /\ v.key = visits[b].key /\ v.whoami = visits[b].whoami
    BY <1>1 DEF VisitType
  <2>3. Sound(v)
    BY <1>1, <2>2 DEF Sound
  <2>4. (up /\ setup.healthy) \in BOOLEAN
    OBVIOUS
  <2> QED BY <2>1, <2>2, <2>3, <2>4, DecideMoves
<1> QED BY <1>2, <1>3, <1>4

LEMMA DemoMoves ==
  ASSUME TicketInv, NEW b \in DOMAIN visits, DemoArrives(b) \/ DemoTick(b)
  PROVE  Moves(b)
<1>1. visits[b] \in VisitType /\ Sound(visits[b]) /\ visits = [visits EXCEPT ![b] = visits[b]]
  BY DEF TicketInv, TypeOK
<1>2. CASE DemoTick(b)
  BY <1>1, <1>2, MovesTo DEF DemoTick, world
<1>3. ASSUME NEW d \in {"running", "missing"}, visits' = [visits EXCEPT ![b].demo = d],
             UNCHANGED <<setup, key, canControl, gone>>
      PROVE  Moves(b)
  <2> DEFINE w == [visits[b] EXCEPT !.demo = d]
  <2>1. visits' = [visits EXCEPT ![b] = w]
    BY <1>3
  <2>2. Sound(w) /\ w.key = visits[b].key /\ w.whoami = visits[b].whoami
    BY <1>1 DEF Sound, VisitType
  <2> QED BY <1>3, <2>1, <2>2, MovesTo
<1>4. CASE DemoArrives(b)
  BY <1>3, <1>4 DEF DemoArrives, world
<1> QED BY <1>2, <1>4

LEMMA StreamMoves ==
  ASSUME TicketInv, NEW b \in DOMAIN visits,
         TicketAnswers(b) \/ StreamOpens(b) \/ StreamFrame(b) \/ StreamFails(b) \/ Reopen(b)
  PROVE  Moves(b)
<1>1. visits[b] \in VisitType /\ Sound(visits[b]) /\ visits = [visits EXCEPT ![b] = visits[b]]
  BY DEF TicketInv, TypeOK
<1>2. CASE TicketAnswers(b)
  <2>1. PICK t \in {"good", "none"} :
               visits' = [visits EXCEPT ![b] = [visits[b] EXCEPT !.stream = "opening", !.sent = NoKey, !.ticket = t]]
    BY <1>1, <1>2 DEF TicketAnswers
  <2> DEFINE w == [visits[b] EXCEPT !.stream = "opening", !.sent = NoKey, !.ticket = t]
  <2>2. w \in VisitType /\ w.stream = "opening" /\ w.ticket = t /\ w.settled = visits[b].settled
          /\ w.failures = visits[b].failures /\ w.key = visits[b].key /\ w.whoami = visits[b].whoami
    BY <1>1 DEF VisitType
  <2>3. Sound(w)
    BY <1>1, <1>2, <2>2 DEF Sound, TicketAnswers
  <2> QED BY <1>2, <2>1, <2>2, <2>3, MovesTo DEF TicketAnswers, world
<1>3. CASE StreamOpens(b)
  <2>1. PICK t \in {"none", "good", "used", "lost"} :
               visits' = [visits EXCEPT ![b] = [visits[b] EXCEPT !.stream = "open", !.failures = 0, !.ticket = t]]
    BY <1>1, <1>3, ZenonT(40) DEF StreamOpens, VisitType
  <2> DEFINE w == [visits[b] EXCEPT !.stream = "open", !.failures = 0, !.ticket = t]
  <2>2. w \in VisitType /\ w.stream = "open" /\ w.ticket = t /\ w.settled = visits[b].settled
          /\ w.failures = 0 /\ w.key = visits[b].key /\ w.whoami = visits[b].whoami
    <3>1. 0 \in 0 .. Tries
      BY BoundAssumption
    <3> QED BY <1>1, <3>1 DEF VisitType
  <2>3. Sound(w)
    BY <1>1, <1>3, <2>2, BoundAssumption DEF Sound, StreamOpens
  <2> QED BY <1>3, <2>1, <2>2, <2>3, MovesTo DEF StreamOpens, world
<1>4. CASE StreamFrame(b)
  BY <1>1, <1>4, MovesTo DEF StreamFrame, world
<1>5. CASE StreamFails(b)
  <2> DEFINE n == visits[b].failures + 1
             w == [visits[b] EXCEPT !.failures = n, !.stream = IF n >= Tries THEN "ended" ELSE "waiting"]
  <2>1. visits' = [visits EXCEPT ![b] = w]
    BY <1>1, <1>5 DEF StreamFails
  <2>2. n \in 0 .. Tries
    BY <1>1, <1>5, BoundAssumption DEF StreamFails, Sound, VisitType
  <2>3. w \in VisitType /\ w.ticket = visits[b].ticket /\ w.settled = visits[b].settled
          /\ w.stream = (IF n >= Tries THEN "ended" ELSE "waiting")
          /\ w.failures = n /\ w.key = visits[b].key /\ w.whoami = visits[b].whoami
    BY <1>1, <2>2 DEF VisitType
  <2>4. Sound(w)
    BY <1>1, <1>5, <2>2, <2>3, BoundAssumption DEF Sound, StreamFails
  <2> QED BY <1>5, <2>1, <2>3, <2>4, MovesTo DEF StreamFails
<1>6. CASE Reopen(b)
  <2>1. visits' = [visits EXCEPT ![b] = Opened(visits[b])] /\ UNCHANGED <<setup, key, canControl, gone>>
    BY <1>6 DEF Reopen, world
  <2>2. visits[b].settled /\ visits[b].failures < Tries
    BY <1>1, <1>6, BoundAssumption DEF Reopen, Sound, VisitType
  <2> QED BY <1>1, <2>1, <2>2, OpenedIsSound, MovesTo
<1> QED BY <1>2, <1>3, <1>4, <1>5, <1>6
-----------------------------------------------------------------------------
(* What a run does on its own keeps the invariant.                         *)
LEMMA MovesKeepsControl ==
  ASSUME ControlInv, NEW b \in DOMAIN visits, Moves(b)
  PROVE  ControlInv'
<1> USE DEF ControlInv
<1>1. PICK v \in VisitType :
             visits' = [visits EXCEPT ![b] = v] /\ Sound(v)
               /\ v.key = visits[b].key /\ v.whoami = visits[b].whoami
  BY DEF Moves
<1>2. UNCHANGED <<setup, key, canControl, gone>>
  BY DEF Moves
<1>3. visits' \in Seq(VisitType) /\ DOMAIN visits' = DOMAIN visits /\ Len(visits') = Len(visits)
  BY <1>1 DEF TicketInv, TypeOK
<1>4. \A c \in DOMAIN visits' :
        visits'[c].key = visits[c].key /\ visits'[c].whoami = visits[c].whoami /\ Sound(visits'[c])
  BY <1>1, <1>3 DEF TicketInv, TypeOK
<1>5. visits # <<>> /\ visits' # <<>> => Len(visits) \in DOMAIN visits
  BY <1>3 DEF TicketInv, TypeOK
<1>6. TicketInv'
  BY <1>2, <1>3, <1>4 DEF TicketInv, TypeOK, Sound, VisitType
<1>7. visits' # <<>> => visits # <<>>
  BY <1>1, <1>3 DEF TicketInv, TypeOK
<1>8. KeyInv'
  BY <1>2, <1>3, <1>4, <1>5, <1>7 DEF KeyInv
<1>9. ControlsMatchTheKey'
  BY <1>2, <1>3, <1>4, <1>5, <1>7 DEF ControlsMatchTheKey
<1> QED BY <1>6, <1>8, <1>9

(* The answer to whoami: it may speak for a key that is no longer stored,  *)
(* which `gone` remembers; otherwise it speaks for the stored one.         *)
LEMMA WhoamiKeepsControl ==
  ASSUME ControlInv, NEW b \in DOMAIN visits, WhoamiAnswers(b)
  PROVE  ControlInv'
<1> USE DEF ControlInv
<1> DEFINE told == Answer(visits[b].key) = "ok"
           v == [visits[b] EXCEPT !.whoami = IF told THEN "told" ELSE "failed"]
<1>1. visits[b] \in VisitType /\ Sound(visits[b]) /\ visits[b].whoami = "asked"
  BY DEF TicketInv, TypeOK, WhoamiAnswers
<1>2. visits' = [visits EXCEPT ![b] = v] /\ UNCHANGED <<setup, key>>
  BY DEF WhoamiAnswers, world
<1>3. Sound(v) /\ v.key = visits[b].key /\ v.whoami = (IF told THEN "told" ELSE "failed")
  BY <1>1 DEF Sound, VisitType
<1>4. visits' \in Seq(VisitType) /\ DOMAIN visits' = DOMAIN visits /\ Len(visits') = Len(visits)
  BY <1>2, <1>3 DEF TicketInv, TypeOK, Sound
<1>5. \A c \in DOMAIN visits' : visits'[c].key = visits[c].key /\ Sound(visits'[c])
        /\ (c # b => visits'[c].whoami = visits[c].whoami)
  BY <1>2, <1>3, <1>4 DEF TicketInv, TypeOK
<1>6. visits'[b].whoami = (IF told THEN "told" ELSE "failed")
  BY <1>2, <1>3 DEF TicketInv, TypeOK
<1>7. Len(visits) \in DOMAIN visits /\ visits # <<>> /\ visits' # <<>>
  BY <1>4 DEF TicketInv, TypeOK
<1>8. TicketInv'
  <2>1. \A c \in DOMAIN visits' : Sound(visits'[c])
    BY <1>5
  <2> QED BY <1>2, <1>4, <2>1 DEF TicketInv, TypeOK, Sound, VisitType
<1>9. KeyInv'
  BY <1>2, <1>4, <1>5, <1>7 DEF KeyInv
<1>10. ControlsMatchTheKey'
  <2>1. CASE told
    <3>1. canControl' = (setup.daemon = "keyed" /\ visits[b].key \in Controllers)
            /\ (gone' = (gone \/ visits[b].key # key)) /\ visits[b].key # NoKey
      BY <1>1, <2>1 DEF WhoamiAnswers, ApplyScopes, Sound
    <3> QED BY <1>2, <3>1 DEF ControlsMatchTheKey
  <2>2. CASE ~told
    <3>1. UNCHANGED <<canControl, gone>>
      BY <2>2 DEF WhoamiAnswers
    <3> QED BY <1>2, <1>4, <1>5, <1>6, <1>7, <2>2, <3>1 DEF ControlsMatchTheKey
  <2> QED BY <2>1, <2>2
<1> QED BY <1>8, <1>9, <1>10

(* Submitting a key appends a run with it; signing out forgets the key and *)
(* turns the controls off.                                                 *)
LEMMA OperatorKeepsControl ==
  ASSUME ControlInv, (\E k \in setup.keys : Submit(k)) \/ SignOut
  PROVE  ControlInv'
<1> USE DEF ControlInv
<1>1. ASSUME NEW k \in setup.keys, Submit(k)
      PROVE  ControlInv'
  <2>1. k \in Keys \union {NoKey}
    BY <1>1, SetupAssumption DEF TicketInv, TypeOK
  <2>2. visits' = Append(visits, Visit(k)) /\ key' = k /\ setup' = setup
    BY <1>1 DEF Submit, SetApiKey
  <2>3. Sound(Visit(k)) /\ Visit(k) \in VisitType /\ Visit(k).key = k /\ Visit(k).whoami # "told"
    BY <2>1, VisitIsSound DEF Sound, Visit
  <2>4. visits' \in Seq(VisitType) /\ visits' # <<>> /\ visits'[Len(visits')] = Visit(k)
    BY <2>2, <2>3 DEF TicketInv, TypeOK
  <2>5. \A b \in DOMAIN visits' : Sound(visits'[b])
    BY <2>2, <2>3 DEF TicketInv, TypeOK
  <2>6. TicketInv'
    BY <2>1, <2>2, <2>4, <2>5 DEF TicketInv, TypeOK, Sound, VisitType
  <2> QED BY <2>2, <2>3, <2>4, <2>6 DEF KeyInv, ControlsMatchTheKey
<1>2. CASE SignOut
  <2>1. UNCHANGED <<setup, visits>> /\ key' = NoKey /\ canControl' = FALSE
    BY <1>2 DEF SignOut, SetApiKey
  <2> QED BY <2>1 DEF TicketInv, TypeOK, KeyInv, ControlsMatchTheKey, Sound, VisitType
<1> QED BY <1>1, <1>2
(* The page as a whole: the dashboard's other steps, and the other pages,  *)
(* write neither the runs nor the key; loading starts one run with the     *)
(* stored key, leaving ends them all, an outage spoils minted tickets.     *)
LEMMA BystandersKeepControl ==
  ASSUME ControlInv, UNCHANGED <<setup, key, visits, canControl, gone>>
  PROVE  ControlInv'
  BY DEF ControlInv, TicketInv, TypeOK, KeyInv, ControlsMatchTheKey, Sound, VisitType

LEMMA PageKeepsControl ==
  ASSUME ControlInv, Load \/ Leave \/ Outage
  PROVE  ControlInv'
<1> USE DEF ControlInv
<1>1. CASE Load
  <2>1. visits' = <<Visit(key)>> /\ UNCHANGED <<setup, key>>
    BY <1>1 DEF Load
  <2>2. Sound(Visit(key)) /\ Visit(key) \in VisitType /\ Visit(key).key = key /\ Visit(key).whoami # "told"
    BY VisitIsSound DEF TicketInv, TypeOK, Sound, Visit
  <2>3. visits' \in Seq(VisitType) /\ visits' # <<>> /\ visits'[Len(visits')] = Visit(key)
          /\ \A b \in DOMAIN visits' : Sound(visits'[b])
    BY <2>1, <2>2
  <2>4. TicketInv'
    BY <2>1, <2>3 DEF TicketInv, TypeOK, Sound, VisitType
  <2> QED BY <2>1, <2>2, <2>3, <2>4 DEF KeyInv, ControlsMatchTheKey
<1>2. CASE Leave
  <2>1. visits' = <<>> /\ UNCHANGED <<setup, key>>
    BY <1>2 DEF Leave, world
  <2>2. visits' \in Seq(VisitType) /\ \A b \in DOMAIN visits' : Sound(visits'[b])
    BY <2>1
  <2> QED BY <2>1, <2>2 DEF TicketInv, TypeOK, KeyInv, ControlsMatchTheKey, Sound, VisitType
<1>3. CASE Outage
  <2>1. UNCHANGED <<setup, key, canControl, gone>>
    BY <1>3 DEF Outage
  <2> DEFINE Spoilt(v) == [v EXCEPT !.ticket = "lost"]
             w == [b \in DOMAIN visits |-> IF visits[b].ticket = "good" THEN Spoilt(visits[b]) ELSE visits[b]]
  <2>2. visits' = w
    BY <1>3 DEF Outage
  <2>3. ASSUME NEW v \in VisitType, Sound(v), v.ticket = "good"
        PROVE  Sound(Spoilt(v)) /\ Spoilt(v).key = v.key /\ Spoilt(v).whoami = v.whoami
    BY <2>3 DEF Sound, VisitType
  <2> HIDE DEF Spoilt
  <2>4. \A b \in DOMAIN visits : Sound(w[b]) /\ w[b].key = visits[b].key /\ w[b].whoami = visits[b].whoami
    BY <2>3 DEF TicketInv, TypeOK, Sound
  <2>5. visits' \in Seq(VisitType) /\ DOMAIN visits' = DOMAIN visits /\ Len(visits') = Len(visits)
    BY <2>2, <2>4 DEF TicketInv, TypeOK, Sound
  <2> HIDE DEF w
  <2>6. \A b \in DOMAIN visits' :
          visits'[b].key = visits[b].key /\ visits'[b].whoami = visits[b].whoami /\ Sound(visits'[b])
    BY <2>2, <2>4, <2>5
  <2>7. (visits # <<>> => Len(visits) \in DOMAIN visits) /\ (visits' # <<>> => visits # <<>>)
    BY <2>5 DEF TicketInv, TypeOK
  <2>8. TicketInv'
    <3>1. \A b \in DOMAIN visits' : Sound(visits'[b])
      BY <2>6
    <3> QED BY <2>1, <2>5, <3>1 DEF TicketInv, TypeOK, Sound, VisitType
  <2> QED BY <2>1, <2>5, <2>6, <2>7, <2>8 DEF KeyInv, ControlsMatchTheKey
<1> QED BY <1>1, <1>2, <1>3

LEMMA DashKeepsControl == ASSUME ControlInv, DashStep PROVE ControlInv'
<1>1. ControlInv => TicketInv
  BY DEF ControlInv
<1>2. ASSUME NEW b \in DOMAIN visits,
             \/ ProbeTimesOut(b) \/ ProbeAnswers(b) \/ TicketAnswers(b) \/ StreamOpens(b)
             \/ StreamFrame(b) \/ StreamFails(b) \/ Reopen(b) \/ DemoArrives(b) \/ DemoTick(b)
      PROVE  ControlInv'
  BY <1>1, <1>2, ProbeMoves, DemoMoves, StreamMoves, MovesKeepsControl
<1>3. ASSUME NEW b \in DOMAIN visits, WhoamiAnswers(b) PROVE ControlInv'
  BY <1>3, WhoamiKeepsControl
<1>4. ASSUME NEW c \in calls, PollAnswers(c) \/ ListAnswers(c) \/ CompareAnswers(c) \/ CommandAnswers(c)
      PROVE  ControlInv'
  BY <1>4, BystandersKeepControl DEF PollAnswers, ListAnswers, CompareAnswers, CommandAnswers, world
<1>5. ASSUME NEW a \in Actions, Click(a) PROVE ControlInv'
  BY <1>5, BystandersKeepControl DEF Click
<1>6. CASE PollTick \/ CompareTick \/ Restart
  BY <1>6, BystandersKeepControl DEF PollTick, CompareTick, Restart, world
<1>7. CASE (\E k \in setup.keys : Submit(k)) \/ SignOut
  BY <1>7, OperatorKeepsControl
<1>8. CASE Outage
  BY <1>8, PageKeepsControl
<1> QED BY <1>2, <1>3, <1>4, <1>5, <1>6, <1>7, <1>8 DEF DashStep

LEMMA SiteKeepsControl == ASSUME ControlInv, [SiteNext]_siteVars PROVE ControlInv'
<1>1. CASE OpenADashboard \/ LeaveADashboard
  BY <1>1, PageKeepsControl DEF OpenADashboard, LeaveADashboard
<1>2. CASE OpenTheBenchmarks \/ OpenAGuide
  <2>1. UNCHANGED dashRest
    BY <1>2 DEF OpenTheBenchmarks, OpenAGuide
  <2> QED BY <2>1, BystandersKeepControl DEF dashRest
<1>3. CASE LeaveTheBenchmarks \/ LeaveAGuide \/ (page = "bench" /\ BenchStep /\ UNCHANGED <<vars, guideVars, page>>)
             \/ (page = "guide" /\ GuideStep /\ UNCHANGED <<vars, benchVars, page>>) \/ UNCHANGED siteVars
  <2>1. UNCHANGED vars
    BY <1>3 DEF LeaveTheBenchmarks, LeaveAGuide, siteVars
  <2> QED BY <2>1, BystandersKeepControl DEF vars, world
<1>4. CASE DashStep
  BY <1>4, DashKeepsControl
<1> QED BY <1>1, <1>2, <1>3, <1>4 DEF SiteNext

(* The invariant of the dashboard's credentials holds from the first load  *)
(* on, for every set of keys, limit of failures, daemon and browser.       *)
THEOREM ControlInvariant == SiteSpec => []ControlInv
<1>1. SiteInit => ControlInv
  <2> SUFFICES ASSUME SiteInit PROVE ControlInv
    OBVIOUS
  <2>1. setup \in Setups /\ key = NoKey /\ visits = <<>>
    BY DEF SiteInit, DashInit, Unloaded
  <2> QED BY <2>1 DEF ControlInv, TicketInv, TypeOK, KeyInv, ControlsMatchTheKey
<1> QED BY <1>1, SiteKeepsControl, PTL DEF SiteSpec

(* "redeeming one twice is a 401 by design": no EventSource is opened with *)
(* a ticket that has been redeemed, whatever the keys, the limit of        *)
(* failures, the outages and the runs of begin().                          *)
THEOREM TicketsSpentOnce == SiteSpec => []TicketsAreSpentOnce
<1>1. ControlInv => TicketsAreSpentOnce
  BY DEF ControlInv, TicketInv, TypeOK, Sound, TicketsAreSpentOnce
<1> QED BY <1>1, ControlInvariant, PTL

(* "A read-only key disables all three": the controls are those of the     *)
(* stored key once its scopes are known, and off after a sign out, unless  *)
(* a late whoami has spoken for another key.                               *)
THEOREM ControlsFollowTheKey == SiteSpec => []ControlsMatchTheKey
<1>1. ControlInv => ControlsMatchTheKey
  BY DEF ControlInv
<1> QED BY <1>1, ControlInvariant, PTL

-----------------------------------------------------------------------------
(* guide-nav.js: the flag that absorbs events is up exactly while a frame  *)
(* is coming, and with none coming the highlighted entry is the one of the *)
(* section at the probe line.                                              *)
GuideInv ==
  /\ queued \in BOOLEAN /\ queued = frame
  /\ reading /\ ~queued => active = Current(scrollY, innerHeight)
  /\ ~reading => ~queued /\ scrollY = 0

LEMMA GuideKeepsUp == ASSUME GuideInv, GuideStep \/ OpenGuide \/ CloseGuide \/ UNCHANGED guideVars PROVE GuideInv'
<1> USE DEF GuideInv
<1>1. CASE \E y \in 0 .. DocHeight - innerHeight : Scroll(y)
  <2>1. queued' = TRUE /\ frame' = TRUE /\ reading' = reading /\ reading
    BY <1>1 DEF Scroll, Schedule
  <2> QED BY <2>1
<1>2. CASE \E h \in Viewports : Resize(h)
  <2>1. queued' = TRUE /\ frame' = TRUE /\ reading' = reading /\ reading
    BY <1>2 DEF Resize, Schedule
  <2> QED BY <2>1
<1>3. CASE Paint
  BY <1>3 DEF Paint
<1>4. CASE OpenGuide
  BY <1>4 DEF OpenGuide
<1>5. CASE CloseGuide
  BY <1>5 DEF CloseGuide
<1>6. CASE UNCHANGED guideVars
  BY <1>6 DEF guideVars
<1> QED BY <1>1, <1>2, <1>3, <1>4, <1>5, <1>6 DEF GuideStep

(* A guide at rest never highlights a section the reader has left, for     *)
(* every document, window and place of the probe line.                     *)
THEOREM RestingHighlightIsRight == SiteSpec => []GuideInv
<1>1. SiteInit => GuideInv
  BY DEF SiteInit, GuideInit, GuideInv
<1>2. GuideInv /\ [SiteNext]_siteVars => GuideInv'
  BY GuideKeepsUp DEF SiteNext, OpenADashboard, LeaveADashboard, OpenTheBenchmarks, LeaveTheBenchmarks,
                      OpenAGuide, LeaveAGuide, siteVars
<1> QED BY <1>1, <1>2, PTL DEF SiteSpec
-----------------------------------------------------------------------------
(* Why the charts keep their scale.  First, finite sets of integers have   *)
(* their extremes, which is what an axis is built from.                    *)
LEMMA ImageIsFinite ==
  ASSUME NEW S, IsFiniteSet(S), NEW f, f = [x \in S |-> f[x]]
  PROVE  IsFiniteSet({f[x] : x \in S})
<1> DEFINE T == {f[x] : x \in S}
<1>1. f \in Surjection(S, T)
  BY DEF Surjection
<1> QED BY <1>1, FS_Surjection

LEMMA SequenceIsFinite ==
  ASSUME NEW A, NEW s \in Seq(A)
  PROVE  IsFiniteSet(ToSet(s)) /\ ToSet(s) \subseteq A
<1>1. Len(s) \in Nat /\ DOMAIN s = 1 .. Len(s) /\ s = [i \in 1 .. Len(s) |-> s[i]]
  OBVIOUS
<1> DEFINE n == Len(s)
<1> HIDE DEF n
<1>2. IsFiniteSet(1 .. Len(s))
  <2>1. n \in Int
    BY <1>1 DEF n
  <2>2. IsFiniteSet(1 .. n)
    BY <2>1, FS_Interval
  <2> QED BY <2>2 DEF n
<1>3. IsFiniteSet({s[i] : i \in 1 .. Len(s)})
  BY <1>1, <1>2, ImageIsFinite
<1> QED BY <1>1, <1>3 DEF ToSet

LEMMA Topmost ==
  ASSUME NEW S, IsFiniteSet(S), S # {}, S \subseteq Int
  PROVE  \E x \in S : \A y \in S : y <= x
<1> DEFINE Over(x) == {y \in S : y > x}
           Family == {Over(x) : x \in S}
           R == StrictSubsetOrdering(S)
<1>1. IsWellFoundedOn(R, FiniteSubsetsOf(S))
  BY FS_StrictSubsetOrderingWellFounded
<1>2. Family \subseteq FiniteSubsetsOf(S) /\ Family # {}
  <2>1. \A x \in S : Over(x) \in SUBSET S
    OBVIOUS
  <2> HIDE DEF Over
  <2>2. \A x \in S : Over(x) \in FiniteSubsetsOf(S)
    BY <2>1, FS_Subset DEF FiniteSubsetsOf
  <2> QED BY <2>2
<1> HIDE DEF Family, R
<1>3. PICK B \in Family : \A C \in Family : <<C, B>> \notin R
  BY <1>1, <1>2, WFMin
<1>4. PICK x \in S : B = Over(x)
  BY <1>3 DEF Family
<1>5. ASSUME NEW y \in S, y > x PROVE FALSE
  <2>1. Over(y) \in Family
    BY DEF Family
  <2>2. Over(y) \subseteq Over(x) /\ y \in Over(x) /\ y \notin Over(y) /\ Over(x) \subseteq S
    <3>1. x \in Int /\ y \in Int
      OBVIOUS
    <3>2. \A z \in S : z > y => z > x
      BY <1>5, <3>1
    <3>3. ~(y > y)
      BY <3>1
    <3>4. y \notin Over(y)
      BY <3>3
    <3>5. Over(y) \subseteq Over(x) /\ Over(x) \subseteq S
      BY <3>2
    <3>6. y \in Over(x)
      BY <1>5
    <3> QED BY <3>4, <3>5, <3>6
  <2>3. <<Over(y), Over(x)>> \in R
    BY <2>2 DEF R, StrictSubsetOrdering
  <2> QED BY <1>3, <1>4, <2>1, <2>3
<1> QED BY <1>5

LEMMA Extremes ==
  ASSUME NEW S, IsFiniteSet(S), S # {}, S \subseteq Int
  PROVE  /\ Max(S) \in S /\ \A y \in S : y <= Max(S)
         /\ Min(S) \in S /\ \A y \in S : Min(S) <= y
<1>1. \E x \in S : \A y \in S : x >= y
  BY Topmost
<1> DEFINE g == [x \in S |-> -x]
           N == {g[x] : x \in S}
<1>2. IsFiniteSet(N) /\ N # {} /\ N \subseteq Int
  <2>1. g = [x \in S |-> g[x]] /\ \A x \in S : g[x] \in Int
    OBVIOUS
  <2> HIDE DEF g
  <2>2. IsFiniteSet(N)
    BY <2>1, ImageIsFinite
  <2> QED BY <2>1, <2>2
<1>3. PICK n \in N : \A m \in N : m <= n
  BY <1>2, Topmost
<1>4. PICK x \in S : n = -x
  BY <1>3
<1>5. \A y \in S : -y \in N
  OBVIOUS
<1>6. \A y \in S : x =< y
  <2> TAKE y \in S
  <2>1. -y <= n /\ n = -x /\ x \in Int /\ y \in Int
    BY <1>3, <1>4, <1>5
  <2> QED BY <2>1
<1> QED BY <1>1, <1>6 DEF Max, Min

-----------------------------------------------------------------------------
(* A share of a length lies within it and grows with the part.             *)
LEMMA Halved ==
  ASSUME NEW a \in Int, NEW b \in Int, b > 0
  PROVE  a \div b \in Int /\ (a \div b) * b <= a /\ a < (a \div b) * b + b
OBVIOUS

LEMMA RoundsWithin ==
  ASSUME NEW p \in Int, NEW w \in Int, NEW l \in Nat, NEW q \in Int, 0 <= p, p <= w, w > 0,
         q * (2 * w) <= 2 * p * l + w, 2 * p * l + w < q * (2 * w) + 2 * w
  PROVE  0 <= q /\ q <= l
<1>1. p * l \in Int /\ w * l \in Int /\ 0 <= p * l /\ p * l <= w * l
  OBVIOUS
<1>2. ASSUME q < 0 PROVE FALSE
  <2>1. (q + 1) * w <= 0
    BY <1>2
  <2> QED BY <1>1, <2>1
<1>3. ASSUME q > l PROVE FALSE
  <2>1. (q - l - 1) * w >= 0
    BY <1>3
  <2> QED BY <1>1, <2>1
<1> QED BY <1>2, <1>3

LEMMA ShareBounds ==
  ASSUME NEW p \in Int, NEW w \in Int, NEW l \in Nat, 0 <= p, p <= w, w > 0
  PROVE  Share(p, w, l) \in 0 .. l
<1> DEFINE a == 2 * p * l + w
           q == a \div (2 * w)
<1>1. a \in Int /\ 2 * w \in Int /\ 2 * w > 0
  OBVIOUS
<1>2. q \in Int /\ q * (2 * w) <= a /\ a < q * (2 * w) + 2 * w
  BY <1>1, Halved
<1>3. Share(p, w, l) = q
  BY DEF Share
<1> HIDE DEF q
<1>4. 0 <= q /\ q <= l
  BY <1>2, RoundsWithin
<1> QED BY <1>2, <1>3, <1>4

LEMMA RoundsUp ==
  ASSUME NEW p \in Int, NEW r \in Int, NEW w \in Int, NEW l \in Nat, NEW q \in Int, NEW t \in Int, p <= r, w > 0,
         q * (2 * w) <= 2 * p * l + w, 2 * r * l + w < t * (2 * w) + 2 * w
  PROVE  q <= t
<1>1. p * l \in Int /\ r * l \in Int /\ p * l <= r * l
  OBVIOUS
<1>2. ASSUME q > t PROVE FALSE
  <2>1. (q - t - 1) * w >= 0
    BY <1>2
  <2> QED BY <1>1, <2>1
<1> QED BY <1>2

LEMMA ShareGrows ==
  ASSUME NEW p \in Int, NEW r \in Int, NEW w \in Int, NEW l \in Nat, p <= r, w > 0
  PROVE  Share(p, w, l) \in Int /\ Share(r, w, l) \in Int /\ Share(p, w, l) <= Share(r, w, l)
<1> DEFINE a == 2 * p * l + w
           c == 2 * r * l + w
           q == a \div (2 * w)
           t == c \div (2 * w)
<1>1. a \in Int /\ c \in Int /\ 2 * w \in Int /\ 2 * w > 0
  OBVIOUS
<1>2. q \in Int /\ q * (2 * w) <= a
  BY <1>1, Halved
<1>3. t \in Int /\ c < t * (2 * w) + 2 * w
  BY <1>1, Halved
<1>4. Share(p, w, l) = q /\ Share(r, w, l) = t
  BY DEF Share
<1> HIDE DEF q, t
<1>5. q <= t
  BY <1>2, <1>3, RoundsUp
<1> QED BY <1>2, <1>3, <1>4, <1>5
(* Rounding takes no more than one hundredth of the difference of two.     *)
LEMMA ShareEven ==
  ASSUME NEW p \in Int, NEW q \in Int, NEW r \in Int, NEW t \in Int, NEW w \in Int, NEW l \in Nat, w > 0,
         q - p >= t - r
  PROVE  Share(q, w, l) - Share(p, w, l) >= Share(t, w, l) - Share(r, w, l) - 1
<1> DEFINE X(n) == Share(n, w, l)
<1>1. ASSUME NEW n \in Int
      PROVE  X(n) \in Int /\ X(n) * (2 * w) <= 2 * (n * l) + w /\ 2 * (n * l) + w < X(n) * (2 * w) + 2 * w
  <2> DEFINE a == 2 * n * l + w
             c == a \div (2 * w)
  <2>1. a \in Int /\ 2 * w \in Int /\ 2 * w > 0 /\ a = 2 * (n * l) + w
    OBVIOUS
  <2>2. c \in Int /\ c * (2 * w) <= a /\ a < c * (2 * w) + 2 * w
    BY <2>1, Halved
  <2>3. X(n) = c
    BY DEF Share
  <2> HIDE DEF X, a, c
  <2> QED BY <2>1, <2>2, <2>3
<1>2. (q - p) * l >= (t - r) * l
  <2> DEFINE d == q - p
             e == t - r
  <2>1. d \in Int /\ e \in Int /\ d >= e
    OBVIOUS
  <2> HIDE DEF d, e
  <2>2. d * l >= e * l
    BY <2>1
  <2> QED BY <2>2 DEF d, e
<1>3. q * l - p * l >= t * l - r * l
  BY <1>2
<1> DEFINE qx == X(q) * (2 * w)
           px == X(p) * (2 * w)
           tx == X(t) * (2 * w)
           rx == X(r) * (2 * w)
<1>4. X(q) \in Int /\ X(p) \in Int /\ X(t) \in Int /\ X(r) \in Int
  BY <1>1
<1> HIDE DEF X
<1>5. tx - rx - 2 * w < qx - px + 2 * w
  <2> DEFINE ql == q * l
             pl == p * l
             tl == t * l
             rl == r * l
  <2>1. qx \in Int /\ px \in Int /\ tx \in Int /\ rx \in Int /\ ql \in Int /\ pl \in Int /\ tl \in Int /\ rl \in Int
    BY <1>4
  <2>2. /\ 2 * ql + w < qx + 2 * w /\ px <= 2 * pl + w
        /\ tx <= 2 * tl + w /\ 2 * rl + w < rx + 2 * w /\ ql - pl >= tl - rl
    BY <1>1, <1>3
  <2> HIDE DEF qx, px, tx, rx, ql, pl, tl, rl
  <2> QED BY <2>1, <2>2
<1>6. ASSUME X(q) - X(p) < X(t) - X(r) - 1 PROVE FALSE
  <2> DEFINE k == X(t) - X(r) - 2 - (X(q) - X(p))
  <2>1. k \in Int /\ k >= 0
    BY <1>4, <1>6
  <2>2. k * w = (X(t) - X(r) - 2 - (X(q) - X(p))) * w
    OBVIOUS
  <2>3. 2 * (k * w) = tx - rx - 4 * w - (qx - px)
    BY <1>4, <2>2
  <2> HIDE DEF k
  <2>4. k * w >= 0 /\ k * w \in Int
    BY <2>1
  <2>5. qx \in Int /\ px \in Int /\ tx \in Int /\ rx \in Int
    BY <1>4
  <2> HIDE DEF qx, px, tx, rx
  <2> QED BY <1>5, <2>3, <2>4, <2>5
<1> QED BY <1>4, <1>6 DEF X
-----------------------------------------------------------------------------
(* An axis: what lies between the extremes of the values is drawn inside   *)
(* the plot, and what is drawn higher is higher.                           *)
LEMMA WidenedSpan ==
  ASSUME NEW S, IsFiniteSet(S), S # {}, S \subseteq Int
  PROVE  /\ Widened(S)[1] \in Int /\ Widened(S)[2] \in Int /\ Widened(S)[1] < Widened(S)[2]
         /\ Widened(S)[1] <= Min(S) /\ Max(S) <= Widened(S)[2]
<1>1. Max(S) \in Int /\ Min(S) \in Int /\ Min(S) <= Max(S)
  BY Extremes
<1> DEFINE lo == Min(S)
           hi == Max(S)
<1>2. Widened(S) = IF lo = hi THEN <<lo - 1, hi + 1>> ELSE <<lo, hi>>
  BY DEF Widened
<1>3. lo \in Int /\ hi \in Int /\ lo <= hi
  BY <1>1
<1> HIDE DEF lo, hi
<1>4. Widened(S)[1] \in Int /\ Widened(S)[2] \in Int /\ Widened(S)[1] < Widened(S)[2]
        /\ Widened(S)[1] <= lo /\ hi <= Widened(S)[2]
  BY <1>2, <1>3
<1> QED BY <1>4 DEF lo, hi

LEMMA DomainSpan ==
  ASSUME NEW S, IsFiniteSet(S), S # {}, S \subseteq Int
  PROVE  /\ Domain(S).lo \in Int /\ Domain(S).hi \in Int /\ Domain(S).hi - Domain(S).lo > 0
         /\ Domain(S).lo <= 50 * Min(S) /\ 50 * Max(S) <= Domain(S).hi
<1> DEFINE w == Widened(S)
<1>1. Max(S) \in Int /\ Min(S) \in Int
  BY Extremes
<1>2. w[1] \in Int /\ w[2] \in Int /\ w[1] < w[2] /\ w[1] <= Min(S) /\ Max(S) <= w[2]
  BY WidenedSpan
<1>3. Domain(S) = [lo |-> 50 * w[1] - 3 * (w[2] - w[1]), hi |-> 50 * w[2] + 3 * (w[2] - w[1])]
  BY DEF Domain
<1> HIDE DEF w
<1>4. Domain(S).lo = 50 * w[1] - 3 * (w[2] - w[1]) /\ Domain(S).hi = 50 * w[2] + 3 * (w[2] - w[1])
  BY <1>3
<1> QED BY <1>1, <1>2, <1>4

LEMMA HeightInside ==
  ASSUME NEW S, IsFiniteSet(S), S # {}, S \subseteq Int, NEW v \in Int, Min(S) <= v, v <= Max(S)
  PROVE  Height(v, Domain(S)) \in PadTop .. H - PadBottom
<1> DEFINE d == Domain(S)
<1>1. d.lo \in Int /\ d.hi \in Int /\ d.hi - d.lo > 0 /\ d.lo <= 50 * Min(S) /\ 50 * Max(S) <= d.hi
  BY DomainSpan
<1>2. Max(S) \in Int /\ Min(S) \in Int
  BY Extremes
<1> HIDE DEF d
<1> DEFINE p == 50 * v - d.lo
           w == d.hi - d.lo
           l == H - PadTop - PadBottom
<1>3. p \in Int /\ w \in Int /\ 0 <= p /\ p <= w /\ w > 0
  BY <1>1, <1>2
<1>4. l \in Nat
  BY DEF H, PadTop, PadBottom
<1>5. l = 8400
  BY DEF H, PadTop, PadBottom
<1> HIDE DEF p, w, l
<1>6. Share(p, w, l) \in 0 .. l
  BY <1>3, <1>4, ShareBounds
<1>7. Height(v, d) = 10000 - 1000 - Share(p, w, l)
  BY DEF Height, p, w, l, H, PadBottom
<1>8. Height(v, d) \in 600 .. 9000
  <2> DEFINE q == Share(p, w, l)
  <2>1. q \in 0 .. 8400
    BY <1>5, <1>6
  <2>2. Height(v, d) = 9000 - q
    BY <1>7
  <2> HIDE DEF q
  <2> QED BY <2>1, <2>2
<1> QED BY <1>8, SMTT(30) DEF d, PadTop, PadBottom, H

LEMMA HigherIsHigher ==
  ASSUME NEW S, IsFiniteSet(S), S # {}, S \subseteq Int, NEW u \in Int, NEW v \in Int,
         Height(u, Domain(S)) > Height(v, Domain(S))
  PROVE  u < v
<1> SUFFICES ASSUME v <= u PROVE FALSE
  OBVIOUS
<1> DEFINE d == Domain(S)
<1>1. d.lo \in Int /\ d.hi \in Int /\ d.hi - d.lo > 0
  BY DomainSpan
<1>2. Height(u, d) > Height(v, d)
  OBVIOUS
<1> HIDE DEF d
<1> DEFINE p == 50 * v - d.lo
           r == 50 * u - d.lo
           w == d.hi - d.lo
           l == H - PadTop - PadBottom
<1>3. p \in Int /\ r \in Int /\ w \in Int /\ p <= r /\ w > 0
  BY <1>1
<1>4. l \in Nat /\ l = 8400
  BY DEF H, PadTop, PadBottom
<1> HIDE DEF p, r, w, l
<1>5. Share(p, w, l) \in Int /\ Share(r, w, l) \in Int /\ Share(p, w, l) <= Share(r, w, l)
  BY <1>3, <1>4, ShareGrows
<1>6. Height(v, d) = 10000 - 1000 - Share(p, w, l) /\ Height(u, d) = 10000 - 1000 - Share(r, w, l)
  BY DEF Height, p, r, w, l, H, PadBottom
<1> QED BY <1>2, <1>5, <1>6

(* By index, a point stands within the width of the plot.                  *)
LEMMA AcrossInside ==
  ASSUME NEW n \in Nat, NEW i \in 1 .. n
  PROVE  Across(i, n) \in 0 .. W
<1>1. CASE n = 1
  <2>1. Across(i, n) = 10000 \div 2
    BY <1>1 DEF Across, W
  <2> QED BY <2>1 DEF W
<1>2. CASE n # 1
  <2> DEFINE p == i - 1
             w == n - 1
  <2>1. p \in Int /\ w \in Int /\ 0 <= p /\ p <= w /\ w > 0 /\ W \in Nat
    BY <1>2 DEF W
  <2>2. Across(i, n) = Share(p, w, W)
    BY <1>2 DEF Across
  <2> HIDE DEF p, w
  <2>3. Share(p, w, W) \in 0 .. W
    BY <2>1, ShareBounds
  <2> QED BY <2>2, <2>3
<1> QED BY <1>1, <1>2

(* Arithmetic reads a null as 0, and only what is not finite is not drawn. *)
LEMMA ReadAsNumbers ==
  /\ \A v \in Int : ToNumber(v) = v /\ IsFinite(v)
  /\ ~IsFinite(NaN)
  /\ \A v \in Int \union {NaN, Null} : IsFinite(v) => ToNumber(v) \in Int
BY FrameAssumption DEF ToNumber, IsFinite

(* line(): with its lower end given, if no value is below it.              *)
LEMMA LineInside ==
  ASSUME NEW values \in Seq(Int), NEW yMin \in Int \union {NaN}, NEW band \in Int \union {NaN},
         IsFinite(yMin) => \A i \in DOMAIN values : yMin <= values[i]
  PROVE  /\ InsidePlot(Line(values, yMin, band).path)
         /\ \A y \in Line(values, yMin, band).band : y \in PadTop .. H - PadBottom
<1>1. CASE values = <<>>
  <2>1. Line(values, yMin, band) = [path |-> <<>>, band |-> {}]
    BY <1>1 DEF Line
  <2>2. Line(values, yMin, band).path = <<>> /\ Line(values, yMin, band).band = {}
    BY <2>1
  <2> QED BY <2>2 DEF InsidePlot
<1>2. CASE values # <<>>
  <2> DEFINE ys == {v \in ToSet(values) : IsFinite(v)}
             floor == IF IsFinite(yMin) THEN {yMin, Max(ys)} ELSE ys
             F == floor \union ({band} \ {NaN})
             d == Domain(F)
             Place(i, v) == <<Across(i, Len(values)), IF IsFinite(v) THEN Height(v, d) ELSE H - PadBottom>>
  <2>1. DOMAIN values = 1 .. Len(values) /\ Len(values) \in Nat /\ 1 \in DOMAIN values
          /\ \A i \in DOMAIN values : values[i] \in Int /\ values[i] \in ToSet(values)
    BY <1>2 DEF ToSet
  <2>2. ys = ToSet(values) /\ IsFiniteSet(ys) /\ ys \subseteq Int /\ ys # {}
    <3>1. IsFiniteSet(ToSet(values)) /\ ToSet(values) \subseteq Int
      BY SequenceIsFinite
    <3>2. ys = ToSet(values)
      BY <3>1, ReadAsNumbers
    <3> QED BY <2>1, <3>1, <3>2
  <2>3. Max(ys) \in ys /\ Max(ys) \in Int /\ \A y \in ys : y <= Max(ys)
    BY <2>2, Extremes
  <2> HIDE DEF ys
  <2>4. IsFiniteSet(floor) /\ floor \subseteq Int /\ floor # {}
    <3>1. CASE IsFinite(yMin)
      <4>1. floor = {yMin} \union {Max(ys)} /\ yMin \in Int
        BY <3>1, ReadAsNumbers
      <4>2. IsFiniteSet({yMin}) /\ IsFiniteSet({Max(ys)})
        BY FS_Singleton
      <4> HIDE DEF floor
      <4>3. IsFiniteSet(floor)
        BY <4>1, <4>2, FS_Union
      <4> QED BY <2>3, <4>1, <4>3
    <3>2. CASE ~IsFinite(yMin)
      BY <2>2, <3>2
    <3> QED BY <3>1, <3>2
  <2>5. Max(ys) \in floor /\ (IsFinite(yMin) => yMin \in floor) /\ (~IsFinite(yMin) => floor = ys)
    BY <2>3
  <2> HIDE DEF floor
  <2>6. IsFiniteSet({band} \ {NaN}) /\ {band} \ {NaN} \subseteq Int
    <3>1. IsFiniteSet({band})
      BY FS_Singleton
    <3>2. IsFiniteSet({band} \ {NaN})
      BY <3>1, FS_Subset
    <3> QED BY <3>2
  <2>7. IsFiniteSet(F) /\ F \subseteq Int /\ F # {}
    BY <2>4, <2>6, FS_Union
  <2>8. floor \subseteq F /\ {band} \ {NaN} \subseteq F
    OBVIOUS
  <2> HIDE DEF F
  <2>9. Min(F) \in Int /\ Max(F) \in Int /\ \A y \in F : Min(F) <= y /\ y <= Max(F)
    BY <2>7, Extremes
  <2>10. \A i \in DOMAIN values : Min(F) <= values[i] /\ values[i] <= Max(F)
    <3> TAKE i \in DOMAIN values
    <3>1. values[i] \in Int /\ values[i] \in ys /\ values[i] <= Max(ys) /\ Max(ys) <= Max(F)
      BY <2>1, <2>2, <2>3, <2>5, <2>8, <2>9
    <3>2. values[i] <= Max(F)
      BY <2>3, <2>9, <3>1
    <3>3. CASE IsFinite(yMin)
      <4>1. Min(F) <= yMin /\ yMin <= values[i] /\ yMin \in Int
        BY <2>5, <2>8, <2>9, <3>3, ReadAsNumbers
      <4> QED BY <2>9, <3>1, <3>2, <4>1
    <3>4. CASE ~IsFinite(yMin)
      BY <2>5, <2>8, <2>9, <3>1, <3>2, <3>4
    <3> QED BY <3>3, <3>4
  <2>11. Line(values, yMin, band) =
           [path |-> [i \in DOMAIN values |-> Place(i, values[i])], band |-> {Height(b, d) : b \in {band} \ {NaN}}]
    BY <1>2 DEF Line, F, floor, ys
  <2>12. \A i \in DOMAIN values : Place(i, values[i]) = <<Across(i, Len(values)), Height(values[i], d)>>
    BY <2>1, ReadAsNumbers
  <2>13. \A i \in DOMAIN values : Height(values[i], d) \in PadTop .. H - PadBottom
    BY <2>1, <2>7, <2>10, HeightInside
  <2>14. \A i \in DOMAIN values : Across(i, Len(values)) \in 0 .. W
    BY <2>1, AcrossInside
  <2>15. \A b \in {band} \ {NaN} : Height(b, d) \in PadTop .. H - PadBottom
    BY <2>6, <2>7, <2>8, <2>9, HeightInside
  <2> HIDE DEF Place, d
  <2>16. Line(values, yMin, band).path = [i \in DOMAIN values |-> Place(i, values[i])]
           /\ Line(values, yMin, band).band = {Height(b, d) : b \in {band} \ {NaN}}
    BY <2>11
  <2>17. \A i \in DOMAIN values : Place(i, values[i])[1] \in 0 .. W
                                    /\ Place(i, values[i])[2] \in PadTop .. H - PadBottom
    BY <2>12, <2>13, <2>14
  <2>18. InsidePlot(Line(values, yMin, band).path)
    BY <2>16, <2>17 DEF InsidePlot
  <2> QED BY <2>15, <2>16, <2>18
<1> QED BY <1>1, <1>2
-----------------------------------------------------------------------------
(* Counting up, recursive functions over 0 .. L, and what filter keeps.    *)
LEMMA CountingUp ==
  ASSUME NEW P, 0 \in P, \A n \in Nat : n \in P => n + 1 \in P
  PROVE  \A n \in Nat : n \in P
<1> SUFFICES ASSUME NEW k \in Nat, k \notin P PROVE FALSE
  OBVIOUS
<1> DEFINE T == {m \in 0 .. k : m \notin P}
<1>1. IsFiniteSet(T) /\ T \subseteq Int /\ k \in T
  <2> DEFINE I == 0 .. k
  <2>1. IsFiniteSet(I)
    BY FS_Interval
  <2>2. T \in SUBSET I
    OBVIOUS
  <2>3. T \subseteq Int /\ k \in T
    OBVIOUS
  <2> HIDE DEF T, I
  <2> QED BY <2>1, <2>2, <2>3, FS_Subset
<1>2. Min(T) \in T /\ \A m \in T : Min(T) <= m
  BY <1>1, Extremes
<1> DEFINE n == Min(T)
<1>3. n \in 0 .. k /\ n \notin P /\ \A m \in 0 .. k : m \notin P => n <= m
  BY <1>2
<1> HIDE DEF n
<1>4. n # 0 /\ n - 1 \in 0 .. k /\ n - 1 \in Nat /\ (n - 1) + 1 = n
  BY <1>3
<1>5. n - 1 \in P
  BY <1>3, <1>4
<1> QED BY <1>3, <1>4, <1>5

(* A value of A, and a step on A for each of the places 1 .. L: what a     *)
(* recursive function over 0 .. L computes stays in A, and there is one.   *)
StepsIn(step, L, A) == \A n \in 1 .. L : \A x \in A : step[n][x] \in A

Recurs(f, L, A, base, step) ==
  f \in [0 .. L -> A] /\ f[0] = base /\ \A n \in 1 .. L : f[n] = step[n][f[n - 1]]

LEMMA Recurrence ==
  ASSUME NEW L \in Nat, NEW A, NEW base \in A, NEW step, StepsIn(step, L, A)
  PROVE  \E f : Recurs(f, L, A, base, step)
<1> USE DEF StepsIn
<1> DEFINE Upto(f, m) == f[0] = base /\ \A n \in 1 .. m : f[n] = step[n][f[n - 1]]
           P == {m \in Nat : m <= L => \E f \in [0 .. m -> A] : Upto(f, m)}
<1>1. 0 \in P
  <2> DEFINE g == [n \in 0 .. 0 |-> base]
  <2>1. g \in [0 .. 0 -> A] /\ Upto(g, 0)
    OBVIOUS
  <2> HIDE DEF Upto
  <2> QED BY <2>1
<1>2. ASSUME NEW m \in Nat, m \in P PROVE m + 1 \in P
  <2> SUFFICES ASSUME m + 1 <= L PROVE \E f \in [0 .. m + 1 -> A] : Upto(f, m + 1)
    OBVIOUS
  <2>1. PICK f \in [0 .. m -> A] : Upto(f, m)
    BY <1>2
  <2> DEFINE g == [n \in 0 .. m + 1 |-> IF n = m + 1 THEN step[n][f[m]] ELSE f[n]]
  <2>2. g \in [0 .. m + 1 -> A]
    <3>1. m + 1 \in 1 .. L /\ f[m] \in A
      OBVIOUS
    <3>2. step[m + 1][f[m]] \in A
      BY <3>1
    <3> QED BY <3>2
  <2>3. g[0] = base /\ g[m + 1] = step[m + 1][f[m]] /\ \A n \in 0 .. m : g[n] = f[n]
    BY <2>1
  <2> HIDE DEF g
  <2>4. ASSUME NEW n \in 1 .. m + 1 PROVE g[n] = step[n][g[n - 1]]
    <3>1. CASE n = m + 1
      BY <2>3, <3>1
    <3>2. CASE n # m + 1
      <4>1. n \in 1 .. m /\ n - 1 \in 0 .. m
        BY <3>2
      <4> QED BY <2>1, <2>3, <4>1
    <3> QED BY <3>1, <3>2
  <2> QED BY <2>2, <2>3, <2>4
<1> HIDE DEF P
<1>3. L \in P
  BY <1>1, <1>2, CountingUp
<1> QED BY <1>3 DEF P, Recurs

LEMMA StaysIn ==
  ASSUME NEW L \in Nat, NEW A, NEW g, g[0] \in A,
         \A n \in 1 .. L : g[n - 1] \in A => g[n] \in A
  PROVE  \A n \in 0 .. L : g[n] \in A
<1> DEFINE P == {m \in Nat : m <= L => g[m] \in A}
<1>1. 0 \in P
  OBVIOUS
<1>2. ASSUME NEW m \in Nat, m \in P PROVE m + 1 \in P
  <2> SUFFICES ASSUME m + 1 <= L PROVE g[m + 1] \in A
    OBVIOUS
  <2> DEFINE n == m + 1
  <2>1. n \in 1 .. L /\ n - 1 = m /\ g[m] \in A
    BY <1>2
  <2> HIDE DEF n
  <2>2. g[n] \in A
    BY <2>1
  <2> QED BY <2>2 DEF n
<1> HIDE DEF P
<1>3. \A m \in Nat : m \in P
  BY <1>1, <1>2, CountingUp
<1> QED BY <1>3 DEF P

(* filter: the elements at the chosen places, each once and in their order.*)
Selects(at, kept, s, places) ==
  /\ at \in [1 .. Len(kept) -> places]
  /\ \A i \in 1 .. Len(kept) : kept[i] = s[at[i]]
  /\ \A i, j \in 1 .. Len(kept) : i < j => at[i] < at[j]
  /\ \A p \in places : \E i \in 1 .. Len(kept) : at[i] = p

LEMMA KeptUnfolds ==
  ASSUME NEW X, NEW s \in Seq(X), NEW places
  PROVE  \E f : /\ f[0] = <<>> /\ Kept(s, places) = f[Len(s)]
                /\ \A n \in 1 .. Len(s) : f[n] = IF n \in places THEN Append(f[n - 1], s[n]) ELSE f[n - 1]
<1> DEFINE L == Len(s)
           A == Seq(X)
           step == [n \in 1 .. L |-> [t \in A |-> IF n \in places THEN Append(t, s[n]) ELSE t]]
           Rule(g) == [n \in 0 .. L |->
                         IF n = 0 THEN <<>> ELSE IF n \in places THEN Append(g[n - 1], s[n]) ELSE g[n - 1]]
<1>1. L \in Nat /\ \A n \in 1 .. L : s[n] \in X
  OBVIOUS
<1> HIDE DEF L
<1>2. <<>> \in A /\ \A n \in 1 .. L : \A t \in A : step[n][t] \in A
  BY <1>1
<1>3. \A n \in 1 .. L : \A t \in A : step[n][t] = IF n \in places THEN Append(t, s[n]) ELSE t
  OBVIOUS
<1> HIDE DEF step, A
<1>4. PICK f : Recurs(f, L, A, <<>>, step)
  <2>1. StepsIn(step, L, A)
    BY <1>2 DEF StepsIn
  <2> QED BY <1>1, <1>2, <2>1, Recurrence
<1>5. f = Rule(f)
  <2>1. ASSUME NEW n \in 0 .. L PROVE f[n] = Rule(f)[n]
    <3>1. CASE n = 0
      BY <1>4, <3>1 DEF Recurs
    <3>2. CASE n # 0
      <4>1. n \in 1 .. L /\ n - 1 \in 0 .. L
        BY <1>1, <3>2
      <4>2. f[n] = step[n][f[n - 1]] /\ f[n - 1] \in A
        BY <1>4, <4>1 DEF Recurs
      <4>3. f[n] = IF n \in places THEN Append(f[n - 1], s[n]) ELSE f[n - 1]
        BY <1>3, <4>1, <4>2
      <4> QED BY <3>2, <4>3
    <3> QED BY <3>1, <3>2
  <2>2. f = [n \in 0 .. L |-> f[n]]
    BY <1>4 DEF Recurs
  <2> QED BY <2>1, <2>2
<1> DEFINE upto == CHOOSE g : g = Rule(g)
<1>6. upto = Rule(upto)
  BY <1>5
<1>7. Kept(s, places) = upto[L]
  BY DEF Kept, L
<1> HIDE DEF upto
<1>8. upto[0] = <<>>
  BY <1>1, <1>6
<1>9. ASSUME NEW n \in 1 .. L PROVE upto[n] = IF n \in places THEN Append(upto[n - 1], s[n]) ELSE upto[n - 1]
  <2>1. n \in 0 .. L /\ n # 0
    BY <1>1
  <2> QED BY <1>6, <2>1
<1> QED BY <1>7, <1>8, <1>9 DEF L

LEMMA KeptSelects ==
  ASSUME NEW X, NEW s \in Seq(X), NEW places \in SUBSET DOMAIN s
  PROVE  Kept(s, places) \in Seq(X) /\ \E at : Selects(at, Kept(s, places), s, places)
<1> DEFINE L == Len(s)
           Early(n) == {p \in places : p <= n}
<1>1. L \in Nat /\ DOMAIN s = 1 .. L /\ places \subseteq 1 .. L /\ \A n \in 1 .. L : s[n] \in X
  OBVIOUS
<1>2. PICK f : /\ f[0] = <<>> /\ Kept(s, places) = f[L]
               /\ \A n \in 1 .. L : f[n] = IF n \in places THEN Append(f[n - 1], s[n]) ELSE f[n - 1]
  BY KeptUnfolds
<1> HIDE DEF L
<1> DEFINE P == {n \in Nat : n <= L => f[n] \in Seq(X) /\ \E at : Selects(at, f[n], s, Early(n))}
<1>3. 0 \in P
  <2> DEFINE at == [i \in {} |-> 0]
  <2>1. Early(0) = {}
    BY <1>1
  <2>2. f[0] = <<>> /\ Len(f[0]) = 0 /\ f[0] \in Seq(X)
    BY <1>2
  <2>3. 1 .. 0 = {} /\ at \in [{} -> {}]
    <3>1. 1 .. 0 = {}
      OBVIOUS
    <3>2. at \in [{} -> {}]
      BY Zenon
    <3> QED BY <3>1, <3>2
  <2> HIDE DEF Early, at
  <2>4. Selects(at, f[0], s, Early(0))
    BY <2>1, <2>2, <2>3 DEF Selects
  <2> QED BY <2>2, <2>4
<1>4. ASSUME NEW k \in Nat, k \in P PROVE k + 1 \in P
  <2> DEFINE n == k + 1
  <2>0. n \in Nat
    OBVIOUS
  <2> HIDE DEF n, Early
  <2> SUFFICES ASSUME n <= L PROVE f[n] \in Seq(X) /\ \E at : Selects(at, f[n], s, Early(n))
    BY <2>0, Zenon DEF n
  <2> USE DEF n, Early
  <2>1. n \in 1 .. L /\ n - 1 = k /\ n = k + 1 /\ k <= L
    BY <1>1
  <2> HIDE DEF n
  <2>2. f[n] = IF n \in places THEN Append(f[k], s[n]) ELSE f[k]
    BY <1>2, <2>1
  <2>3. f[k] \in Seq(X) /\ s[n] \in X
    BY <1>1, <1>4, <2>1
  <2>4. PICK at : Selects(at, f[k], s, Early(k))
    BY <1>4, <2>1
  <2>5. CASE n \notin places
    <3>1. f[n] = f[k]
      BY <2>2, <2>5
    <3>2. Early(n) = Early(k)
      BY <1>1, <2>1, <2>5
    <3> HIDE DEF Early
    <3> QED BY <2>3, <2>4, <3>1, <3>2
  <2>6. CASE n \in places
    <3> DEFINE m == Len(f[k])
               b == [i \in 1 .. m + 1 |-> IF i = m + 1 THEN n ELSE at[i]]
    <3>1. f[n] = Append(f[k], s[n]) /\ f[n] \in Seq(X) /\ m \in Nat
      BY <2>2, <2>3, <2>6
    <3>2. Len(f[n]) = m + 1 /\ f[n][m + 1] = s[n] /\ \A i \in 1 .. m : f[n][i] = f[k][i]
      BY <2>3, <3>1
    <3>3. Early(n) = Early(k) \union {n} /\ \A p \in Early(k) : p < n
      BY <1>1, <2>1, <2>6
    <3> HIDE DEF m, Early
    <3>4. /\ at \in [1 .. m -> Early(k)]
          /\ \A i \in 1 .. m : f[k][i] = s[at[i]]
          /\ \A i, j \in 1 .. m : i < j => at[i] < at[j]
          /\ \A p \in Early(k) : \E i \in 1 .. m : at[i] = p
      BY <2>4 DEF Selects, m
    <3>5. b[m + 1] = n /\ \A i \in 1 .. m : b[i] = at[i]
      BY <3>1
    <3>6. b \in [1 .. m + 1 -> Early(n)]
      <4>1. \A i \in 1 .. m + 1 : i = m + 1 \/ i \in 1 .. m
        BY <3>1
      <4>2. \A i \in 1 .. m + 1 : b[i] \in Early(n)
        BY <3>3, <3>4, <3>5, <4>1
      <4> QED BY <4>2
    <3> HIDE DEF b
    <3>7. \A i \in 1 .. m + 1 : (i = m + 1 /\ i \notin 1 .. m) \/ (i \in 1 .. m /\ i # m + 1)
      BY <3>1
    <3>8. \A i \in 1 .. m + 1 : f[n][i] = s[b[i]]
      BY <3>2, <3>4, <3>5, <3>7
    <3>9. \A i, j \in 1 .. m + 1 : i < j => b[i] < b[j]
      <4> SUFFICES ASSUME NEW i \in 1 .. m + 1, NEW j \in 1 .. m + 1, i < j PROVE b[i] < b[j]
        OBVIOUS
      <4>1. i \in 1 .. m
        BY <3>1
      <4>2. CASE j = m + 1
        BY <3>3, <3>4, <3>5, <4>1, <4>2
      <4>3. CASE j \in 1 .. m
        BY <3>4, <3>5, <4>1, <4>3
      <4> QED BY <3>7, <4>2, <4>3
    <3>10. ASSUME NEW p \in Early(n) PROVE \E i \in 1 .. m + 1 : b[i] = p
      <4>1. CASE p = n
        <5>1. m + 1 \in 1 .. m + 1
          BY <3>1
        <5> QED BY <3>5, <4>1, <5>1
      <4>2. CASE p # n
        <5>1. PICK i \in 1 .. m : at[i] = p
          BY <3>3, <3>4, <4>2
        <5>2. i \in 1 .. m + 1
          BY <3>1
        <5> QED BY <3>5, <5>1, <5>2
      <4> QED BY <4>1, <4>2
    <3>11. Selects(b, f[n], s, Early(n))
      <4> DEFINE l == m + 1
      <4>1. Len(f[n]) = l
        BY <3>2
      <4> HIDE DEF l
      <4> QED BY <3>6, <3>8, <3>9, <3>10, <4>1 DEF Selects, l
    <3> QED BY <3>1, <3>11
  <2> QED BY <2>5, <2>6
<1> HIDE DEF P
<1>5. L \in P
  BY <1>1, <1>3, <1>4, CountingUp
<1>6. f[L] \in Seq(X) /\ \E at : Selects(at, f[L], s, Early(L))
  <2> HIDE DEF Early
  <2>1. L <= L
    BY <1>1
  <2>2. L <= L => f[L] \in Seq(X) /\ \E at : Selects(at, f[L], s, Early(L))
    BY <1>5, Zenon DEF P
  <2> QED BY <2>1, <2>2
<1>7. Early(L) = places
  BY <1>1
<1> HIDE DEF Early
<1> QED BY <1>2, <1>6, <1>7

Plane == Int \X Int

(* lines(): what is left of a series are points with finite coordinates.   *)
LEMMA DrawableIsFinite ==
  ASSUME NEW points \in Seq(Int \X (Int \union {NaN, Null}))
  PROVE  Drawable(points) \in Seq(Plane)
<1> DEFINE places == {n \in DOMAIN points : IsFinite(points[n][1]) /\ IsFinite(points[n][2])}
           kept == Kept(points, places)
           read == [i \in DOMAIN kept |-> <<ToNumber(kept[i][1]), ToNumber(kept[i][2])>>]
<1>1. Drawable(points) = read /\ places \in SUBSET DOMAIN points
  BY DEF Drawable
<1>2. \A n \in places : ToNumber(points[n][1]) \in Int /\ ToNumber(points[n][2]) \in Int
  <2> TAKE n \in places
  <2>1. points[n] \in Int \X (Int \union {NaN, Null}) /\ IsFinite(points[n][2])
    OBVIOUS
  <2>2. points[n][1] \in Int /\ points[n][2] \in Int \union {NaN, Null}
    BY <2>1
  <2> QED BY <2>1, <2>2, ReadAsNumbers
<1> HIDE DEF places
<1>3. kept \in Seq(Int \X (Int \union {NaN, Null})) /\ \E at : Selects(at, kept, points, places)
  BY <1>1, KeptSelects
<1> HIDE DEF kept
<1>4. PICK at : Selects(at, kept, points, places)
  BY <1>3
<1>5. DOMAIN kept = 1 .. Len(kept) /\ Len(kept) \in Nat
  BY <1>3
<1>6. \A i \in 1 .. Len(kept) : ToNumber(kept[i][1]) \in Int /\ ToNumber(kept[i][2]) \in Int
  BY <1>2, <1>4 DEF Selects
<1>7. read \in [1 .. Len(kept) -> Plane]
  BY <1>5, <1>6 DEF Plane
<1> HIDE DEF read
<1>8. read \in Seq(Plane)
  BY <1>5, <1>7, SeqDef
<1> QED BY <1>1, <1>8

(* lines(): every series on the same two axes, and inside the plot.        *)
LEMMA LinesShareAxes ==
  ASSUME NEW series \in Seq(Seq(Int \X (Int \union {NaN, Null}))), Spread(series)
  PROVE  /\ SharedAxes(Marks(series, Lines(series))) /\ EvenTime(Marks(series, Lines(series)))
         /\ \A s \in DOMAIN Lines(series) : InsidePlot(Lines(series)[s])
<1> DEFINE all == UNION {ToSet(Drawable(series[s])) : s \in DOMAIN series}
           xs == {p[1] : p \in all}
           ys == {p[2] : p \in all}
           span == Span(xs)
           d == Domain(ys)
           Path(points) ==
             [i \in DOMAIN points |-> <<XOf(points[i], i, Len(points), span), Height(points[i][2], d)>>]
<1>1. \A s \in DOMAIN series : Drawable(series[s]) \in Seq(Plane)
  <2> TAKE s \in DOMAIN series
  <2>1. series[s] \in Seq(Int \X (Int \union {NaN, Null}))
    OBVIOUS
  <2> QED BY <2>1, DrawableIsFinite
<1>2. IsFiniteSet(all) /\ all \subseteq Plane
  <2> DEFINE f == [s \in DOMAIN series |-> ToSet(Drawable(series[s]))]
             Sets == {f[s] : s \in DOMAIN series}
  <2>1. \A s \in DOMAIN series : f[s] = ToSet(Drawable(series[s])) /\ IsFiniteSet(f[s]) /\ f[s] \subseteq Plane
    BY <1>1, SequenceIsFinite
  <2>2. f = [s \in DOMAIN series |-> f[s]] /\ IsFiniteSet(DOMAIN series)
    <3> DEFINE n == Len(series)
    <3>1. n \in Int /\ DOMAIN series = 1 .. n
      OBVIOUS
    <3> HIDE DEF n
    <3> QED BY <3>1, FS_Interval
  <2>3. all = UNION Sets
    BY <2>1
  <2> HIDE DEF f
  <2>4. IsFiniteSet(Sets)
    BY <2>2, ImageIsFinite
  <2>5. \A T \in Sets : IsFiniteSet(T) /\ T \subseteq Plane
    BY <2>1
  <2> HIDE DEF Sets, all
  <2>6. IsFiniteSet(UNION Sets)
    BY <2>4, <2>5, FS_UNION
  <2> QED BY <2>3, <2>5, <2>6
<1>3. \A s \in DOMAIN series : \A i \in DOMAIN Drawable(series[s]) :
        Drawable(series[s])[i] \in all /\ Drawable(series[s])[i] \in Plane
  <2> TAKE s \in DOMAIN series
  <2> TAKE i \in DOMAIN Drawable(series[s])
  <2>1. Drawable(series[s])[i] \in ToSet(Drawable(series[s]))
    BY DEF ToSet
  <2> QED BY <1>1, <2>1
<1>4. Lines(series) = [s \in DOMAIN series |-> IF all = {} THEN <<>> ELSE Path(Drawable(series[s]))]
  BY DEF Lines
<1> HIDE DEF all
<1>5. DOMAIN Lines(series) = DOMAIN series
  BY <1>4
<1>6. PICK some \in all, other \in all : some[1] # other[1]
  BY <1>3 DEF Spread
<1>7. all # {}
  BY <1>6
<1>8. QED
  <2>1. IsFiniteSet(xs) /\ xs \subseteq Int /\ xs # {}
    <3> DEFINE f == [p \in all |-> p[1]]
    <3>1. f = [p \in all |-> f[p]] /\ xs = {f[p] : p \in all} /\ \A p \in all : f[p] \in Int
      BY <1>2 DEF Plane
    <3> HIDE DEF f, xs
    <3> QED BY <1>2, <1>7, <3>1, ImageIsFinite
  <2>2. IsFiniteSet(ys) /\ ys \subseteq Int /\ ys # {}
    <3> DEFINE f == [p \in all |-> p[2]]
    <3>1. f = [p \in all |-> f[p]] /\ ys = {f[p] : p \in all} /\ \A p \in all : f[p] \in Int
      BY <1>2 DEF Plane
    <3> HIDE DEF f, ys
    <3> QED BY <1>2, <1>7, <3>1, ImageIsFinite
  <2>3. \A p \in all : p[1] \in xs /\ p[2] \in ys
    OBVIOUS
  <2> HIDE DEF xs, ys
  <2>4. span[1] \in Int /\ span[2] \in Int /\ span[1] < span[2]
          /\ \A x \in xs : span[1] <= x /\ x <= span[2]
    <3>1. Min(xs) \in Int /\ Max(xs) \in Int /\ \A x \in xs : Min(xs) <= x /\ x <= Max(xs)
      BY <2>1, Extremes
    <3>2. some[1] \in xs /\ other[1] \in xs /\ some[1] \in Int /\ other[1] \in Int /\ some[1] # other[1]
      BY <1>6, <2>1, <2>3
    <3>3. Min(xs) < Max(xs)
      BY <3>1, <3>2
    <3>4. span = <<Min(xs), Max(xs)>>
      BY <3>1, <3>3 DEF Span
    <3> QED BY <3>1, <3>3, <3>4
  <2>5. \A y \in ys : Min(ys) <= y /\ y <= Max(ys)
    BY <2>2, Extremes
  <2> HIDE DEF span
  <2> DEFINE w == span[2] - span[1]
             X(p) == Share(p[1] - span[1], w, W)
  <2>6. w \in Int /\ w > 0 /\ W \in Nat
    BY <2>4 DEF W
  <2> HIDE DEF w
  <2>7. ASSUME NEW p \in all
        PROVE  X(p) \in 0 .. W /\ Height(p[2], d) \in PadTop .. H - PadBottom
    <3>1. p[1] \in xs /\ p[2] \in ys /\ p[1] \in Int /\ p[2] \in Int
      BY <1>2, <2>3 DEF Plane
    <3> DEFINE a == p[1] - span[1]
    <3>2. a \in Int /\ 0 <= a /\ a <= w
      BY <2>4, <3>1 DEF w
    <3> HIDE DEF a
    <3>3. Share(a, w, W) \in 0 .. W
      BY <2>6, <3>2, ShareBounds
    <3>4. Height(p[2], Domain(ys)) \in PadTop .. H - PadBottom
      BY <2>2, <2>5, <3>1, HeightInside
    <3> QED BY <3>3, <3>4 DEF a
  <2>8. ASSUME NEW p \in all, NEW q \in all
        PROVE  /\ X(p) < X(q) => p[1] < q[1]
               /\ Height(p[2], d) > Height(q[2], d) => p[2] < q[2]
    <3>1. p[1] \in Int /\ p[2] \in Int /\ q[1] \in Int /\ q[2] \in Int
      BY <1>2 DEF Plane
    <3>2. ASSUME q[1] <= p[1] PROVE ~(X(p) < X(q))
      <4> DEFINE a == q[1] - span[1]
                 b == p[1] - span[1]
      <4>1. a \in Int /\ b \in Int /\ a <= b
        BY <2>4, <3>1, <3>2
      <4> HIDE DEF a, b
      <4>2. Share(a, w, W) \in Int /\ Share(b, w, W) \in Int /\ Share(a, w, W) <= Share(b, w, W)
        BY <2>6, <4>1, ShareGrows
      <4>3. X(p) = Share(b, w, W) /\ X(q) = Share(a, w, W)
        BY DEF a, b
      <4> HIDE DEF X
      <4> QED BY <4>2, <4>3
    <3> HIDE DEF X
    <3>3. Height(p[2], d) > Height(q[2], d) => p[2] < q[2]
      BY <2>2, <3>1, HigherIsHigher
    <3> QED BY <3>1, <3>2, <3>3
  <2>9. \A s \in DOMAIN series : Lines(series)[s] = Path(Drawable(series[s]))
    BY <1>4, <1>7
  <2>10. ASSUME NEW s \in DOMAIN series, NEW i \in DOMAIN Lines(series)[s]
         PROVE  /\ Drawable(series[s])[i] \in all
                /\ Lines(series)[s][i][1] = X(Drawable(series[s])[i])
                /\ Lines(series)[s][i][2] = Height(Drawable(series[s])[i][2], d)
    <3> DEFINE points == Drawable(series[s])
    <3>1. Lines(series)[s] = Path(points) /\ i \in DOMAIN points
      BY <2>9, <2>10
    <3>2. points[i] \in all
      BY <1>3, <3>1
    <3> HIDE DEF points
    <3>3. Lines(series)[s][i] = <<XOf(points[i], i, Len(points), span), Height(points[i][2], d)>>
      BY <3>1
    <3>4. XOf(points[i], i, Len(points), span) = X(points[i])
      BY <2>4 DEF XOf, w
    <3> HIDE DEF X, d
    <3>5. Lines(series)[s][i][1] = X(points[i]) /\ Lines(series)[s][i][2] = Height(points[i][2], d)
      BY <3>3, <3>4
    <3> QED BY <3>2, <3>5 DEF points
  <2> HIDE DEF X, d
  <2> DEFINE marks == Marks(series, Lines(series))
  <2>11. ASSUME NEW m \in marks
         PROVE  m.point \in all /\ m.at[1] = X(m.point) /\ m.at[2] = Height(m.point[2], d)
    <3>1. PICK s \in DOMAIN Lines(series) : \E i \in DOMAIN Lines(series)[s] :
                 m = [point |-> Drawable(series[s])[i], at |-> Lines(series)[s][i]]
      BY DEF Marks
    <3>2. PICK i \in DOMAIN Lines(series)[s] : m = [point |-> Drawable(series[s])[i], at |-> Lines(series)[s][i]]
      BY <3>1
    <3>3. m.point = Drawable(series[s])[i] /\ m.at = Lines(series)[s][i]
      BY <3>2
    <3>4. s \in DOMAIN series
      BY <1>5
    <3> QED BY <2>10, <3>3, <3>4
  <2> HIDE DEF marks
  <2>12. SharedAxes(marks)
    BY <2>8, <2>11 DEF SharedAxes
  <2>13. EvenTime(marks)
    <3> DEFINE places == {<<m.point[1], m.at[1]>> : m \in marks}
    <3>1. ASSUME NEW b \in places
          PROVE  b[1] \in Int /\ b[2] = Share(b[1] - span[1], w, W)
      <4>1. PICK m \in marks : b = <<m.point[1], m.at[1]>>
        OBVIOUS
      <4>2. b[1] = m.point[1] /\ b[2] = m.at[1]
        BY <4>1
      <4> QED BY <1>2, <2>11, <4>2 DEF Plane, X
    <3> HIDE DEF places
    <3>2. ASSUME NEW b \in places, NEW c \in places, NEW e \in places, NEW g \in places,
                 c[1] - b[1] >= g[1] - e[1]
          PROVE  c[2] - b[2] >= g[2] - e[2] - 1
      <4> DEFINE from(x) == x[1] - span[1]
      <4>1. /\ from(b) \in Int /\ from(c) \in Int /\ from(e) \in Int /\ from(g) \in Int
            /\ from(c) - from(b) >= from(g) - from(e)
        BY <2>4, <3>1, <3>2
      <4>2. b[2] = Share(from(b), w, W) /\ c[2] = Share(from(c), w, W)
              /\ e[2] = Share(from(e), w, W) /\ g[2] = Share(from(g), w, W)
        BY <3>1
      <4> HIDE DEF from
      <4>3. Share(from(c), w, W) - Share(from(b), w, W) >= Share(from(g), w, W) - Share(from(e), w, W) - 1
        BY <2>6, <4>1, ShareEven
      <4> QED BY <4>2, <4>3
    <3> QED BY <3>2, Zenon DEF EvenTime, places
  <2>14. \A s \in DOMAIN Lines(series) : InsidePlot(Lines(series)[s])
    <3> SUFFICES ASSUME NEW s \in DOMAIN Lines(series), NEW i \in DOMAIN Lines(series)[s]
                 PROVE  /\ Lines(series)[s][i][1] \in 0 .. W
                        /\ Lines(series)[s][i][2] \in PadTop .. H - PadBottom
      BY DEF InsidePlot
    <3>1. /\ Drawable(series[s])[i] \in all
          /\ Lines(series)[s][i][1] = X(Drawable(series[s])[i])
          /\ Lines(series)[s][i][2] = Height(Drawable(series[s])[i][2], d)
      BY <1>5, <2>10
    <3> QED BY <2>7, <3>1
  <2> QED BY <2>12, <2>13, <2>14 DEF marks

(* renderCharts: a bar that warns fills more than 700 of its 1000.         *)
LEMMA PairExtremes ==
  ASSUME NEW a \in Int, NEW b \in Int
  PROVE  /\ Max({a, b}) = (IF a >= b THEN a ELSE b)
         /\ Min({a, b}) = (IF a <= b THEN a ELSE b)
<1> DEFINE S == {a} \union {b}
<1>1. IsFiniteSet(S) /\ S \subseteq Int /\ S # {} /\ S = {a, b}
  <2>1. IsFiniteSet({a}) /\ IsFiniteSet({b})
    BY FS_Singleton
  <2> QED BY <2>1, FS_Union
<1>2. /\ Max(S) \in S /\ \A y \in S : y <= Max(S)
      /\ Min(S) \in S /\ \A y \in S : Min(S) <= y
  BY <1>1, Extremes
<1> QED BY <1>1, <1>2

HonestBars(bands) == \A i \in DOMAIN bands : bands[i].tone = "warn" => bands[i].filled >= 700

LEMMA WarnedIsFull ==
  ASSUME NEW v \in Nat, NEW top \in Nat, v <= top, 10 * v > 7 * top
  PROVE  Filled(v, top) >= 700
<1>1. top > 0
  OBVIOUS
<1> DEFINE q == Share(v, top, 1000)
<1>2. q \in Int /\ 700 <= q
  <2> DEFINE a == 2 * v * 1000 + top
             b == 2 * top
             r == a \div b
  <2>1. a \in Int /\ b \in Int /\ b > 0
    BY <1>1
  <2>2. r \in Int /\ a < r * b + b
    BY <2>1, Halved
  <2>3. q = r
    BY DEF Share
  <2> HIDE DEF r, q
  <2>4. r * b + b > 2 * v * 1000 + top
    BY <2>2
  <2>5. ASSUME r <= 699 PROVE FALSE
    <3>1. r * b <= 699 * b
      BY <2>1, <2>2, <2>5
    <3> QED BY <2>1, <2>2, <2>4, <3>1
  <2> QED BY <2>2, <2>3, <2>5
<1> HIDE DEF q
<1> DEFINE m == Min({1000, q})
<1>3. m \in Int /\ 700 <= m
  BY <1>2, PairExtremes
<1>4. Filled(v, top) = Max({0, m})
  BY <1>1 DEF Filled, q
<1> HIDE DEF m
<1>5. Max({0, m}) >= 700
  BY <1>3, PairExtremes
<1> QED BY <1>4, <1>5

LEMMA BandsAreHonest == ASSUME NEW depth \in Seq(Nat) PROVE HonestBars(Bands(depth))
<1> DEFINE S == ToSet(depth) \union {1}
           deepest == Max(S)
<1>1. IsFiniteSet(S) /\ S \subseteq Nat /\ 1 \in S
  <2>1. IsFiniteSet(ToSet(depth)) /\ ToSet(depth) \subseteq Nat
    BY SequenceIsFinite
  <2>2. IsFiniteSet({1})
    BY FS_Singleton
  <2>3. IsFiniteSet(S)
    BY <2>1, <2>2, FS_Union
  <2> QED BY <2>1, <2>3
<1>2. \A i \in DOMAIN depth : depth[i] \in S
  BY DEF ToSet
<1>3. Bands(depth) = [i \in DOMAIN depth |->
         [filled |-> Filled(depth[i], deepest),
          tone |-> IF i = 1 /\ depth[i] > 0 THEN "bad"
                   ELSE IF 10 * depth[i] > 7 * deepest THEN "warn" ELSE "ok"]]
  BY DEF Bands
<1> HIDE DEF S
<1>4. deepest \in Nat /\ \A y \in S : y <= deepest
  <2>1. S # {} /\ S \subseteq Int
    BY <1>1
  <2> QED BY <1>1, <2>1, Extremes
<1> HIDE DEF deepest
<1>5. ASSUME NEW i \in DOMAIN depth, 10 * depth[i] > 7 * deepest PROVE Filled(depth[i], deepest) >= 700
  <2>1. depth[i] \in Nat /\ depth[i] <= deepest
    BY <1>1, <1>2, <1>4
  <2> QED BY <1>4, <1>5, <2>1, WarnedIsFull
<1> QED BY <1>3, <1>5 DEF HonestBars

-----------------------------------------------------------------------------
(* What is behind the charts, and on the page, came from frames.           *)
Sample == [p99 : Int, eps : Nat, nav : Int]

FrameTyped(shot) ==
  /\ shot.p99 \in Int /\ shot.eps \in Nat /\ shot.nav \in Int
  /\ shot.sla \in Int \union {NaN} /\ shot.depth \in Seq(Nat) /\ Reported(shot.insts)

ScreenInv ==
  /\ recent \in Seq(Sample)
  /\ screen.sla \in Int \union {NaN} /\ HonestBars(screen.bands) /\ Reported(screen.insts)

LEMMA PushKeepsSamples ==
  ASSUME NEW ring \in Seq(Sample), NEW v \in Sample
  PROVE  Push(ring, v, Cap) \in Seq(Sample)
<1> DEFINE all == Append(ring, v)
           n == Len(all)
           from == n - Cap + 1
           m == Max({1, from})
<1>1. all \in Seq(Sample) /\ n \in Nat /\ from \in Int
  BY BoundAssumption
<1>2. Push(ring, v, Cap) = SubSeq(all, m, n)
  BY DEF Push
<1> HIDE DEF from
<1>3. m \in Int /\ 1 <= m
  BY <1>1, PairExtremes
<1> HIDE DEF all, m
<1> QED BY <1>1, <1>2, <1>3

LEMMA SmallReports == Reported(<<>>) /\ Reported(<<DemoBook>>)
<1>1. Reported(<<>>)
  <2> DEFINE none == <<>>
  <2>1. DOMAIN none = {} /\ none \in Seq(ToSet(none))
    OBVIOUS
  <2> QED BY <2>1 DEF Reported
<1>2. Reported(<<DemoBook>>)
  <2> DEFINE one == <<DemoBook>>
             none == <<>>
             amounts == [p \in DOMAIN none |-> none[p].unrealized]
  <2>1. DOMAIN one = {1} /\ one[1] = DemoBook
    OBVIOUS
  <2>2. DemoBook.positions = none /\ DemoBook.recent \in Seq(Int)
    BY DEF DemoBook
  <2>3. one \in Seq(ToSet(one))
    <3>1. DemoBook \in ToSet(one)
      BY <2>1 DEF ToSet
    <3> QED BY <3>1
  <2>4. amounts = <<>>
    OBVIOUS
  <2>5. amounts \in Seq(Int)
    BY <2>4
  <2> HIDE DEF one
  <2> QED BY <2>1, <2>2, <2>3, <2>5 DEF Reported, one
<1> QED BY <1>1, <1>2

LEMMA FramesAreTyped ==
  ASSUME setup \in Setups
  PROVE  FrameTyped(BlankFrame) /\ FrameTyped(DemoFrame) /\ FrameTyped(LiveFrame) /\ FrameTyped(PolledFrame)
<1>1. FrameTyped(BlankFrame)
  BY SmallReports DEF FrameTyped, BlankFrame
<1>2. FrameTyped(DemoFrame)
  BY FrameAssumption, SmallReports DEF FrameTyped, DemoFrame
<1>3. FrameTyped(LiveFrame)
  BY FrameAssumption DEF FrameTyped, LiveFrame
<1>4. FrameTyped(PolledFrame)
  BY <1>3 DEF FrameTyped, PolledFrame, LiveFrame
<1> QED BY <1>1, <1>2, <1>3, <1>4

LEMMA ShownIsSound ==
  ASSUME NEW shot, FrameTyped(shot), NEW from
  PROVE  Points(shot) \in Sample /\ Shown(shot, from).sla \in Int \union {NaN}
           /\ HonestBars(Shown(shot, from).bands) /\ Reported(Shown(shot, from).insts)
  BY BandsAreHonest DEF FrameTyped, Points, Sample, Shown

LEMMA RenderKeepsScreen ==
  ASSUME ScreenInv, NEW shot, FrameTyped(shot), Render(shot)
  PROVE  ScreenInv'
<1>1. recent' = Push(recent, Points(shot), Cap) /\ screen' = Shown(shot, source')
  BY DEF Render
<1> DEFINE from == source'
<1> HIDE DEF from
<1>2. screen' = Shown(shot, from)
  BY <1>1 DEF from
<1> QED BY <1>1, <1>2, ShownIsSound, PushKeepsSamples DEF ScreenInv

LEMMA LoadKeepsScreen == ASSUME setup \in Setups, ScreenInv, Load \/ Leave PROVE ScreenInv'
<1>1. CASE Load
  <2>1. recent' = Push(<<>>, Points(BlankFrame), Cap) /\ screen' = Shown(BlankFrame, source)
    BY <1>1 DEF Load
  <2>2. <<>> \in Seq(Sample) /\ FrameTyped(BlankFrame)
    BY FramesAreTyped
  <2> QED BY <2>1, <2>2, ShownIsSound, PushKeepsSamples DEF ScreenInv
<1>2. CASE Leave
  <2>1. recent' = <<>> /\ screen' = NoScreen
    BY <1>2 DEF Leave
  <2> QED BY <2>1, SmallReports DEF ScreenInv, NoScreen, HonestBars
<1> QED BY <1>1, <1>2

LEMMA SameScreen == ASSUME ScreenInv, UNCHANGED charts PROVE ScreenInv'
  BY DEF ScreenInv, charts

LEMMA DashKeepsScreen == ASSUME setup \in Setups, ScreenInv, DashStep PROVE ScreenInv'
<1> USE FramesAreTyped
<1>1. ASSUME NEW b \in DOMAIN visits, ProbeTimesOut(b) \/ ProbeAnswers(b) \/ WhoamiAnswers(b) PROVE ScreenInv'
  BY <1>1, SameScreen DEF ProbeTimesOut, ProbeAnswers, WhoamiAnswers
<1>2. ASSUME NEW b \in DOMAIN visits, TicketAnswers(b) \/ StreamOpens(b) \/ StreamFails(b) \/ Reopen(b)
      PROVE  ScreenInv'
  BY <1>2, SameScreen DEF TicketAnswers, StreamOpens, StreamFails, Reopen
<1>3. ASSUME NEW b \in DOMAIN visits, StreamFrame(b) PROVE ScreenInv'
  BY <1>3, RenderKeepsScreen DEF StreamFrame
<1>4. ASSUME NEW b \in DOMAIN visits, DemoArrives(b) \/ DemoTick(b) PROVE ScreenInv'
  BY <1>4, RenderKeepsScreen, SameScreen DEF DemoArrives, DemoTick
<1>5. ASSUME NEW c \in calls, PollAnswers(c) PROVE ScreenInv'
  <2>1. Render(PolledFrame) \/ Render(ErrorFrame) \/ UNCHANGED charts
    BY <1>5 DEF PollAnswers
  <2> QED BY <2>1, RenderKeepsScreen, SameScreen DEF ErrorFrame
<1>6. ASSUME NEW c \in calls, ListAnswers(c) \/ CompareAnswers(c) \/ CommandAnswers(c) PROVE ScreenInv'
  BY <1>6, SameScreen DEF ListAnswers, CompareAnswers, CommandAnswers
<1>7. ASSUME NEW a \in Actions, Click(a) PROVE ScreenInv'
  BY <1>7, SameScreen DEF Click
<1>8. ASSUME NEW k \in setup.keys, Submit(k) PROVE ScreenInv'
  BY <1>8, SameScreen DEF Submit
<1>9. CASE PollTick \/ CompareTick \/ SignOut \/ Outage \/ Restart
  BY <1>9, SameScreen DEF PollTick, CompareTick, SignOut, Outage, Restart
<1> QED BY <1>1, <1>2, <1>3, <1>4, <1>5, <1>6, <1>7, <1>8, <1>9 DEF DashStep

LEMMA SiteKeepsScreen == ASSUME setup \in Setups, ScreenInv, [SiteNext]_siteVars PROVE ScreenInv'
<1>1. CASE OpenADashboard \/ LeaveADashboard
  BY <1>1, LoadKeepsScreen DEF OpenADashboard, LeaveADashboard
<1>2. CASE OpenTheBenchmarks \/ OpenAGuide
  BY <1>2, SameScreen DEF OpenTheBenchmarks, OpenAGuide, dashRest
<1>3. CASE LeaveTheBenchmarks \/ LeaveAGuide \/ (page = "bench" /\ BenchStep /\ UNCHANGED <<vars, guideVars, page>>)
             \/ (page = "guide" /\ GuideStep /\ UNCHANGED <<vars, benchVars, page>>) \/ UNCHANGED siteVars
  BY <1>3, SameScreen DEF LeaveTheBenchmarks, LeaveAGuide, siteVars, vars
<1>4. CASE DashStep
  BY <1>4, DashKeepsScreen
<1> QED BY <1>1, <1>2, <1>3, <1>4 DEF SiteNext

(* Number(): a double within half a spacing.                               *)
LEMMA NumberIsNear ==
  ASSUME NEW t \in Int
  PROVE  Number(t) \in Int /\ 2 * (Number(t) - t) <= Spacing /\ 2 * (t - Number(t)) <= Spacing
<1> DEFINE q == t \div Spacing
           r == t % Spacing
           e == q % 2
<1>1. Spacing \in Nat \ {0}
  BY SpacingAssumption
<1>2. q \in Int /\ r \in 0 .. Spacing - 1 /\ t = Spacing * q + r
  BY <1>1
<1>3. e \in 0 .. 1
  BY <1>2
<1>4. Number(t) = Spacing * (IF 2 * r < Spacing THEN q ELSE IF 2 * r > Spacing THEN q + 1 ELSE q + e)
  BY DEF Number
<1> HIDE DEF q, r, e
<1> DEFINE p == Spacing * q
<1>5. p \in Int /\ Spacing * (q + 1) = p + Spacing /\ t = p + r
  BY <1>1, <1>2
<1>6. Number(t) = p \/ Number(t) = p + Spacing
  <2>1. e = 0 => Number(t) = (IF 2 * r > Spacing THEN Spacing * (q + 1) ELSE p)
    BY <1>1, <1>2, <1>4
  <2>2. e = 1 => Number(t) = (IF 2 * r < Spacing THEN p ELSE Spacing * (q + 1))
    BY <1>1, <1>2, <1>4
  <2> QED BY <1>3, <1>5, <2>1, <2>2
<1>7. 2 * r < Spacing => Number(t) = p
  BY <1>4
<1>8. 2 * r > Spacing => Number(t) = p + Spacing
  BY <1>1, <1>2, <1>4, <1>5
<1> HIDE DEF p
<1> QED BY <1>1, <1>2, <1>5, <1>6, <1>7, <1>8

LEMMA ScreenKeepsScale == ASSUME setup \in Setups, ScreenInv PROVE ChartsKeepScale
<1> DEFINE p99s == [i \in DOMAIN recent |-> recent[i].p99]
           epss == [i \in DOMAIN recent |-> recent[i].eps]
           navs == [i \in DOMAIN recent |-> recent[i].nav]
<1>1. p99s \in Seq(Int) /\ epss \in Seq(Int) /\ navs \in Seq(Int) /\ \A i \in DOMAIN epss : 0 <= epss[i]
  <2> DEFINE n == Len(recent)
  <2>1. n \in Nat /\ DOMAIN recent = 1 .. n
    BY DEF ScreenInv
  <2>2. \A i \in 1 .. n : recent[i].p99 \in Int /\ recent[i].eps \in Nat /\ recent[i].nav \in Int
    <3> TAKE i \in 1 .. n
    <3>1. recent[i] \in Sample
      BY <2>1 DEF ScreenInv
    <3> QED BY <3>1 DEF Sample
  <2> HIDE DEF n
  <2>3. p99s \in [1 .. n -> Int] /\ navs \in [1 .. n -> Int] /\ epss \in [1 .. n -> Nat]
    BY <2>1, <2>2
  <2> HIDE DEF p99s, epss, navs
  <2>4. p99s \in Seq(Int) /\ epss \in Seq(Int) /\ navs \in Seq(Int)
    BY <2>1, <2>3, SeqDef
  <2> QED BY <2>3, <2>4
<1>2. screen.sla \in Int \union {NaN} /\ ~IsFinite(NaN) /\ 0 \in Int \union {NaN} /\ NaN \in Int \union {NaN}
  BY ReadAsNumbers DEF ScreenInv
<1>3. LatencyChart = Line(p99s, NaN, screen.sla) /\ ThroughputChart = Line(epss, 0, NaN) /\ NavChart = Line(navs, NaN, NaN)
  BY DEF LatencyChart, ThroughputChart, NavChart
<1> HIDE DEF p99s, epss, navs
<1>4. InsidePlot(LatencyChart.path) /\ \A y \in LatencyChart.band : y \in PadTop .. H - PadBottom
  BY <1>1, <1>2, <1>3, LineInside
<1>5. InsidePlot(ThroughputChart.path)
  BY <1>1, <1>2, <1>3, LineInside
<1>6. InsidePlot(NavChart.path)
  BY <1>1, <1>2, <1>3, LineInside
<1>7. \A i \in DOMAIN screen.bands : screen.bands[i].tone = "warn" => screen.bands[i].filled >= 700
  BY DEF ScreenInv, HonestBars
<1>8. ASSUME comparing, Spread(CurvesInDoubles)
      PROVE  /\ SharedAxes(Marks(CurvesInDoubles, CompareChart)) /\ EvenTime(Marks(CurvesInDoubles, CompareChart))
             /\ \A s \in DOMAIN CompareChart : InsidePlot(CompareChart[s])
  <2> DEFINE Curve == Seq(Int \X (Int \union {NaN, Null}))
  <2>1. setup.curves \in Seq(Curve)
    BY FrameAssumption
  <2> HIDE DEF Curve
  <2>2. ASSUME NEW s \in DOMAIN setup.curves PROVE InDoubles(setup.curves[s]) \in Curve
    <3> DEFINE c == setup.curves[s]
               L == Len(c)
    <3>1. c \in Seq(Int \X (Int \union {NaN, Null}))
      BY <2>1 DEF Curve
    <3> HIDE DEF c
    <3>2. L \in Nat /\ DOMAIN c = 1 .. L
      BY <3>1
    <3>3. \A i \in 1 .. L : c[i][1] \in Int /\ c[i][2] \in Int \union {NaN, Null}
      BY <3>1, <3>2
    <3> HIDE DEF L
    <3>4. \A i \in 1 .. L : Number(c[i][1]) \in Int
      BY <3>3, NumberIsNear
    <3>5. InDoubles(c) \in [1 .. L -> Int \X (Int \union {NaN, Null})]
      BY <3>2, <3>3, <3>4 DEF InDoubles
    <3>6. InDoubles(c) \in Seq(Int \X (Int \union {NaN, Null}))
      BY <3>2, <3>5, SeqDef
    <3> QED BY <3>6 DEF c, Curve
  <2>3. CurvesInDoubles \in Seq(Curve)
    <3> DEFINE n == Len(setup.curves)
    <3>1. n \in Nat /\ DOMAIN setup.curves = 1 .. n
      BY <2>1
    <3> HIDE DEF n
    <3>2. CurvesInDoubles \in [1 .. n -> Curve]
      BY <2>2, <3>1 DEF CurvesInDoubles
    <3> QED BY <3>1, <3>2, SeqDef
  <2>4. CompareChart = Lines(CurvesInDoubles)
    BY <1>8 DEF CompareChart
  <2> QED BY <1>8, <2>3, <2>4, LinesShareAxes DEF Curve
<1> QED BY <1>4, <1>5, <1>6, <1>7, <1>8 DEF ChartsKeepScale

LEMMA SiteShowsFrames == SiteSpec => [](setup \in Setups /\ ScreenInv)
<1>1. SiteInit => ScreenInv
  <2> SUFFICES ASSUME SiteInit PROVE ScreenInv
    OBVIOUS
  <2>1. recent = <<>> /\ screen = NoScreen
    BY DEF SiteInit, DashInit, Unloaded
  <2> QED BY <2>1, SmallReports DEF NoScreen, ScreenInv, HonestBars
<1>2. ControlInv => setup \in Setups
  BY DEF ControlInv, TicketInv, TypeOK
<1>3. ControlInv /\ ScreenInv /\ [SiteNext]_siteVars => ScreenInv'
  BY <1>2, SiteKeepsScreen
<1> QED BY <1>1, <1>2, <1>3, ControlInvariant, PTL DEF SiteSpec

(* Whatever frames have come, in whatever order and from wherever, every   *)
(* chart stays inside its plot, the reference line of the SLA too; a bar   *)
(* that warns is a long one, and compared curves of two instants or more   *)
(* (as doubles) share their axes, a null counting as 0: for all values,    *)
(* series, SLA, lengths of the rings and spacings of the doubles.          *)
THEOREM ChartsAlwaysKeepScale == SiteSpec => []ChartsKeepScale
<1>1. setup \in Setups /\ ScreenInv => ChartsKeepScale
  BY ScreenKeepsScale
<1> QED BY <1>1, SiteShowsFrames, PTL

-----------------------------------------------------------------------------
(* Why the tables tell the book.  First, Array.prototype.sort: ranks are   *)
(* distinct, so every place is taken and every element has a place.        *)
StrictOrder(before, n) ==
  /\ \A i \in 1 .. n : <<i, i>> \notin before
  /\ \A i, j \in 1 .. n : i # j => <<i, j>> \in before \/ <<j, i>> \in before
  /\ \A i, j, k \in 1 .. n : <<i, j>> \in before /\ <<j, k>> \in before => <<i, k>> \in before

LEMMA RankedSorts ==
  ASSUME NEW n \in Nat, NEW before, StrictOrder(before, n)
  PROVE  /\ Ranked(n, before) \in [1 .. n -> 1 .. n]
         /\ \A j \in 1 .. n : \E k \in 1 .. n : Ranked(n, before)[k] = j
         /\ \A k, l \in 1 .. n : k < l => <<Ranked(n, before)[k], Ranked(n, before)[l]>> \in before
<1> DEFINE I == 1 .. n
           rank == [j \in I |-> Cardinality(Ahead(before, n, j)) + 1]
<1>1. IsFiniteSet(I) /\ Cardinality(I) = n
  <2>1. IsFiniteSet(1 .. n) /\ Cardinality(1 .. n) = IF 1 > n THEN 0 ELSE n - 1 + 1
    BY FS_Interval
  <2> QED BY <2>1
<1>2. ASSUME NEW j \in I
      PROVE  IsFiniteSet(Ahead(before, n, j)) /\ Cardinality(Ahead(before, n, j)) \in 0 .. n - 1
  <2> DEFINE B == I \ {j}
             A == Ahead(before, n, j)
  <2>1. A \in SUBSET B
    BY DEF Ahead, StrictOrder
  <2> HIDE DEF A, I
  <2>2. IsFiniteSet(B) /\ Cardinality(B) = n - 1
    BY <1>1, FS_RemoveElement
  <2> HIDE DEF B
  <2>3. IsFiniteSet(A) /\ Cardinality(A) <= n - 1
    BY <2>1, <2>2, FS_Subset
  <2>4. Cardinality(A) \in Nat
    BY <2>3, FS_CardinalityType
  <2>5. Cardinality(A) \in 0 .. n - 1
    BY <2>3, <2>4
  <2> QED BY <2>3, <2>5 DEF A
<1>3. ASSUME NEW i \in I, NEW j \in I, <<i, j>> \in before
      PROVE  Cardinality(Ahead(before, n, i)) < Cardinality(Ahead(before, n, j))
  <2> DEFINE A == Ahead(before, n, i)
             B == Ahead(before, n, j)
  <2>1. A \in SUBSET B /\ i \in B /\ i \notin A
    BY <1>3 DEF Ahead, StrictOrder
  <2>2. IsFiniteSet(B) /\ Cardinality(A) \in Nat /\ Cardinality(B) \in Nat
    BY <1>2
  <2> HIDE DEF A, B
  <2>3. Cardinality(A) <= Cardinality(B) /\ (Cardinality(B) = Cardinality(A) => B = A)
    BY <2>1, <2>2, FS_Subset
  <2>4. Cardinality(A) < Cardinality(B)
    BY <2>1, <2>2, <2>3
  <2> QED BY <2>4 DEF A, B
<1>4. rank \in Injection(I, I)
  <2>1. rank \in [I -> I]
    <3>1. \A j \in I : Cardinality(Ahead(before, n, j)) + 1 \in I
      <4> TAKE j \in I
      <4> DEFINE c == Cardinality(Ahead(before, n, j))
      <4>1. c \in 0 .. n - 1
        BY <1>2
      <4> HIDE DEF c
      <4>2. c + 1 \in 1 .. n
        BY <4>1
      <4> QED BY <4>2 DEF c
    <3> HIDE DEF I
    <3> QED BY <3>1
  <2>2. ASSUME NEW i \in I, NEW j \in I, i # j PROVE rank[i] # rank[j]
    <3> DEFINE a == Cardinality(Ahead(before, n, i))
               b == Cardinality(Ahead(before, n, j))
    <3>1. a \in Nat /\ b \in Nat
      BY <1>2
    <3>2. a < b \/ b < a
      BY <1>3, <2>2 DEF StrictOrder
    <3>3. rank[i] = a + 1 /\ rank[j] = b + 1
      OBVIOUS
    <3> HIDE DEF a, b, rank
    <3> QED BY <3>1, <3>2, <3>3
  <2> QED BY <2>1, <2>2 DEF Injection, IsInjective
<1>5. rank \in Surjection(I, I)
  BY <1>1, <1>4, FS_Injection
<1>6. \A k \in I : \E j \in I : Cardinality(Ahead(before, n, j)) = k - 1
  <2> TAKE k \in I
  <2>1. PICK j \in I : rank[j] = k
    BY <1>5 DEF Surjection
  <2> DEFINE c == Cardinality(Ahead(before, n, j))
  <2>2. c \in Nat /\ c + 1 = k
    BY <1>2, <2>1
  <2> HIDE DEF c
  <2>3. c = k - 1
    BY <2>2
  <2> QED BY <2>3 DEF c
<1> DEFINE order == Ranked(n, before)
<1>7. \A k \in I : order[k] \in I /\ Cardinality(Ahead(before, n, order[k])) = k - 1
  BY <1>6 DEF Ranked
<1>8. order \in [I -> I]
  <2>1. DOMAIN order = I /\ order = [k \in I |-> order[k]]
    BY DEF Ranked
  <2> HIDE DEF order, I
  <2> QED BY <1>7, <2>1
<1> HIDE DEF order
<1>9. ASSUME NEW j \in I PROVE \E k \in I : order[k] = j
  <2> DEFINE k == rank[j]
  <2>1. k \in I /\ k = Cardinality(Ahead(before, n, j)) + 1
    BY <1>4 DEF Injection
  <2> HIDE DEF k
  <2>2. order[k] \in I /\ Cardinality(Ahead(before, n, order[k])) = k - 1
    BY <1>7, <2>1
  <2>3. rank[order[k]] = rank[j]
    <3>1. rank[order[k]] = Cardinality(Ahead(before, n, order[k])) + 1 /\ rank[j] = Cardinality(Ahead(before, n, j)) + 1
      BY <2>2
    <3>2. Cardinality(Ahead(before, n, j)) \in Nat
      BY <1>2
    <3> HIDE DEF rank
    <3> QED BY <2>1, <2>2, <3>1, <3>2
  <2>4. order[k] = j
    BY <1>4, <2>2, <2>3 DEF Injection, IsInjective
  <2> QED BY <2>1, <2>4
<1>10. ASSUME NEW k \in I, NEW l \in I, k < l PROVE <<order[k], order[l]>> \in before
  <2> DEFINE i == order[k]
             j == order[l]
  <2>1. i \in I /\ j \in I /\ Cardinality(Ahead(before, n, i)) = k - 1 /\ Cardinality(Ahead(before, n, j)) = l - 1
    BY <1>7
  <2> HIDE DEF i, j
  <2>2. i # j
    BY <1>10, <2>1
  <2>3. <<j, i>> \notin before
    <3>1. ~(l - 1 < k - 1)
      BY <1>10
    <3> QED BY <1>3, <2>1, <3>1
  <2>4. <<i, j>> \in before
    BY <2>1, <2>2, <2>3 DEF StrictOrder
  <2> QED BY <2>4 DEF i, j
<1> QED BY <1>8, <1>9, <1>10 DEF order

(* FlattenSeq puts one sequence after the other.                           *)
LEMMA FlattenUnfolds ==
  ASSUME NEW X, NEW seqs \in Seq(Seq(X))
  PROVE  \E f : /\ f[0] = <<>> /\ FlattenSeq(seqs) = f[Len(seqs)]
                /\ \A n \in 0 .. Len(seqs) : f[n] \in Seq(X)
                /\ \A n \in 1 .. Len(seqs) : f[n] = f[n - 1] \o seqs[n]
<1> DEFINE L == Len(seqs)
<1>1. L \in Nat /\ DOMAIN seqs = 1 .. L /\ \A n \in 1 .. L : seqs[n] \in Seq(X)
  OBVIOUS
<1>2. CASE L = 0
  <2>1. FlattenSeq(seqs) = <<>>
    BY <1>2 DEF FlattenSeq
  <2> DEFINE f == [n \in 0 .. 0 |-> <<>>]
  <2>2. f[0] = <<>> /\ f[0] \in Seq(X)
    OBVIOUS
  <2> HIDE DEF f
  <2>3. (\A n \in 0 .. Len(seqs) : n = 0) /\ ~\E n \in 1 .. Len(seqs) : TRUE
    BY <1>2
  <2>4. \A n \in 0 .. Len(seqs) : f[n] \in Seq(X)
    BY <2>2, <2>3
  <2>5. \A n \in 1 .. Len(seqs) : f[n] = f[n - 1] \o seqs[n]
    BY <2>3
  <2> QED BY <1>2, <2>1, <2>2, <2>4, <2>5
<1>3. CASE L # 0
  <2> HIDE DEF L
  <2> DEFINE A == Seq(X)
             step == [n \in 1 .. L |-> [s \in A |-> s \o seqs[n]]]
  <2>1. <<>> \in A /\ \A n \in 1 .. L : \A s \in A : step[n][s] \in A
    BY <1>1
  <2>2. \A n \in 1 .. L : \A s \in A : step[n][s] = s \o seqs[n]
    OBVIOUS
  <2> HIDE DEF step, A
  <2>3. PICK f : Recurs(f, L, A, <<>>, step)
    <3>1. StepsIn(step, L, A)
      BY <2>1 DEF StepsIn
    <3> QED BY <1>1, <2>1, <3>1, Recurrence
  <2> DEFINE Rule(g) == [i \in 1 .. L |-> IF i = 1 THEN seqs[i] ELSE g[i - 1] \o seqs[i]]
             h == [i \in 1 .. L |-> f[i]]
  <2>4. h = Rule(h)
    <3>1. ASSUME NEW i \in 1 .. L PROVE h[i] = Rule(h)[i]
      <4>1. h[i] = f[i] /\ i - 1 \in 0 .. L /\ f[i - 1] \in A
        BY <1>1, <2>3 DEF Recurs
      <4>2. f[i] = f[i - 1] \o seqs[i]
        BY <2>2, <2>3, <4>1 DEF Recurs
      <4>3. CASE i = 1
        <5>1. f[i - 1] = <<>>
          BY <2>3, <4>3 DEF Recurs
        <5>2. seqs[i] \in Seq(X)
          BY <1>1
        <5>3. f[i] = seqs[i]
          BY <4>2, <5>1, <5>2
        <5> QED BY <4>1, <4>3, <5>3
      <4>4. CASE i # 1
        <5>1. i - 1 \in 1 .. L
          BY <1>1, <4>4
        <5>2. h[i - 1] = f[i - 1]
          BY <5>1
        <5> HIDE DEF h
        <5> QED BY <4>1, <4>2, <4>4, <5>2
      <4> QED BY <4>3, <4>4
    <3> QED BY <3>1
  <2> HIDE DEF h
  <2> DEFINE flatten == CHOOSE g : g = Rule(g)
  <2>5. flatten = Rule(flatten)
    BY <2>4
  <2>6. FlattenSeq(seqs) = flatten[L]
    BY <1>3 DEF FlattenSeq, L
  <2> HIDE DEF flatten
  <2>7. \A i \in 1 .. L : flatten[i] = IF i = 1 THEN seqs[i] ELSE flatten[i - 1] \o seqs[i]
    BY <2>5
  <2> DEFINE k == [n \in 0 .. L |-> IF n = 0 THEN <<>> ELSE flatten[n]]
  <2>8. k[0] = <<>> /\ k[L] = flatten[L]
    BY <1>1, <1>3
  <2>9. ASSUME NEW n \in 1 .. L PROVE k[n] = k[n - 1] \o seqs[n]
    <3>1. n \in 0 .. L /\ n # 0 /\ n - 1 \in 0 .. L
      BY <1>1
    <3>2. k[n] = flatten[n] /\ k[n - 1] = IF n - 1 = 0 THEN <<>> ELSE flatten[n - 1]
      BY <3>1
    <3>3. seqs[n] \in Seq(X)
      BY <1>1
    <3> HIDE DEF k
    <3>4. CASE n = 1
      <4>1. k[n - 1] = <<>> /\ k[n] = seqs[n]
        BY <2>7, <3>2, <3>4
      <4> QED BY <3>3, <4>1
    <3>5. CASE n # 1
      <4>1. n - 1 # 0
        BY <3>1, <3>5
      <4>2. k[n - 1] = flatten[n - 1]
        BY <3>2, <4>1
      <4>3. flatten[n] = flatten[n - 1] \o seqs[n]
        BY <2>7, <3>5
      <4> QED BY <3>2, <4>2, <4>3
    <3> QED BY <3>4, <3>5
  <2> HIDE DEF k
  <2>10. ASSUME NEW n \in 1 .. L, k[n - 1] \in Seq(X) PROVE k[n] \in Seq(X)
    <3>1. seqs[n] \in Seq(X) /\ k[n] = k[n - 1] \o seqs[n]
      BY <1>1, <2>9
    <3> DEFINE u == k[n - 1]
               t == seqs[n]
    <3>2. u \in Seq(X) /\ t \in Seq(X) /\ k[n] = u \o t
      BY <2>10, <3>1
    <3> HIDE DEF u, t
    <3> QED BY <3>2
  <2>11. \A n \in 0 .. L : k[n] \in Seq(X)
    <3>1. k[0] \in Seq(X)
      BY <2>8
    <3> QED BY <1>1, <2>10, <3>1, StaysIn
  <2> QED BY <2>6, <2>8, <2>9, <2>11 DEF L
<1> QED BY <1>2, <1>3

LEMMA Joined ==
  ASSUME NEW X, NEW s \in Seq(X), NEW t \in Seq(X)
  PROVE  /\ ToSet(s \o t) = ToSet(s) \union ToSet(t)
         /\ IsInjective(s) /\ IsInjective(t) /\ ToSet(s) \cap ToSet(t) = {} => IsInjective(s \o t)
<1> DEFINE c == s \o t
           m == Len(s)
           n == Len(t)
<1>1. c \in Seq(X) /\ m \in Nat /\ n \in Nat /\ DOMAIN s = 1 .. m /\ DOMAIN t = 1 .. n /\ DOMAIN c = 1 .. m + n
  OBVIOUS
<1>2. /\ \A i \in 1 .. m : c[i] = s[i]
      /\ \A i \in m + 1 .. m + n : c[i] = t[i - m]
  BY <1>1
<1> HIDE DEF c, m, n
<1>3. \A i \in 1 .. n : c[i + m] = t[i] /\ i + m \in 1 .. m + n
  <2> TAKE i \in 1 .. n
  <2> DEFINE j == i + m
  <2>1. j \in m + 1 .. m + n /\ j - m = i
    BY <1>1
  <2> HIDE DEF j
  <2>2. c[j] = t[i]
    BY <1>2, <2>1
  <2>3. j \in 1 .. m + n
    BY <1>1, <2>1
  <2> QED BY <2>2, <2>3 DEF j
<1>4. \A i \in 1 .. m + n : (i \in 1 .. m /\ c[i] = s[i]) \/ (i - m \in 1 .. n /\ c[i] = t[i - m] /\ i \notin 1 .. m)
  BY <1>1, <1>2
<1>5. ToSet(c) = ToSet(s) \union ToSet(t)
  <2>1. ToSet(s) \subseteq ToSet(c)
    BY <1>1, <1>2 DEF ToSet
  <2>2. ToSet(t) \subseteq ToSet(c)
    BY <1>1, <1>3 DEF ToSet
  <2>3. ToSet(c) \subseteq ToSet(s) \union ToSet(t)
    BY <1>1, <1>4 DEF ToSet
  <2> QED BY <2>1, <2>2, <2>3
<1>6. ASSUME IsInjective(s), IsInjective(t), ToSet(s) \cap ToSet(t) = {}, NEW i \in DOMAIN c, NEW j \in DOMAIN c, c[i] = c[j]
      PROVE  i = j
  <2>0. i \in 1 .. m + n /\ j \in 1 .. m + n
    BY <1>1
  <2>1. CASE i \in 1 .. m /\ j \in 1 .. m
    BY <1>1, <1>2, <1>6, <2>1 DEF IsInjective
  <2>2. CASE i \in 1 .. m /\ j \notin 1 .. m
    BY <1>1, <1>4, <1>6, <2>0, <2>2 DEF ToSet
  <2>3. CASE i \notin 1 .. m /\ j \in 1 .. m
    BY <1>1, <1>4, <1>6, <2>0, <2>3 DEF ToSet
  <2>4. CASE i \notin 1 .. m /\ j \notin 1 .. m
    <3>1. i - m \in 1 .. n /\ j - m \in 1 .. n /\ t[i - m] = t[j - m]
      BY <1>4, <1>6, <2>0, <2>4
    <3>2. i - m = j - m
      BY <1>1, <1>6, <3>1 DEF IsInjective
    <3> QED BY <1>1, <2>0, <3>2
  <2> QED BY <2>1, <2>2, <2>3, <2>4
<1> QED BY <1>5, <1>6 DEF IsInjective, c

LEMMA Flattened ==
  ASSUME NEW X, NEW seqs \in Seq(Seq(X))
  PROVE  /\ FlattenSeq(seqs) \in Seq(X)
         /\ ToSet(FlattenSeq(seqs)) = UNION {ToSet(seqs[n]) : n \in DOMAIN seqs}
         /\ (/\ \A n \in DOMAIN seqs : IsInjective(seqs[n])
             /\ \A n, m \in DOMAIN seqs : n # m => ToSet(seqs[n]) \cap ToSet(seqs[m]) = {})
              => IsInjective(FlattenSeq(seqs))
<1> DEFINE L == Len(seqs)
           Distinct == /\ \A n \in DOMAIN seqs : IsInjective(seqs[n])
                       /\ \A n, m \in DOMAIN seqs : n # m => ToSet(seqs[n]) \cap ToSet(seqs[m]) = {}
           Upto(n) == UNION {ToSet(seqs[m]) : m \in 1 .. n}
<1>1. L \in Nat /\ DOMAIN seqs = 1 .. L /\ \A n \in 1 .. L : seqs[n] \in Seq(X)
  OBVIOUS
<1>2. PICK f : /\ f[0] = <<>> /\ FlattenSeq(seqs) = f[L]
               /\ \A n \in 0 .. L : f[n] \in Seq(X)
               /\ \A n \in 1 .. L : f[n] = f[n - 1] \o seqs[n]
  BY FlattenUnfolds
<1> HIDE DEF L
<1> DEFINE P == {n \in Nat : n <= L => ToSet(f[n]) = Upto(n) /\ (Distinct => IsInjective(f[n]))}
<1>3. 0 \in P
  <2>1. ToSet(f[0]) = {} /\ Upto(0) = {} /\ IsInjective(f[0])
    BY <1>2 DEF ToSet, IsInjective
  <2> HIDE DEF Upto, Distinct
  <2> QED BY <2>1
<1>4. ASSUME NEW k \in Nat, k \in P PROVE k + 1 \in P
  <2> DEFINE n == k + 1
  <2> SUFFICES ASSUME n <= L PROVE ToSet(f[n]) = Upto(n) /\ (Distinct => IsInjective(f[n]))
    OBVIOUS
  <2>1. n \in 1 .. L /\ n - 1 = k /\ k \in 0 .. L /\ n = k + 1
    BY <1>1
  <2> HIDE DEF n
  <2>2. f[n] = f[k] \o seqs[n] /\ f[k] \in Seq(X) /\ seqs[n] \in Seq(X)
    BY <1>1, <1>2, <2>1
  <2>3. ToSet(f[k]) = Upto(k) /\ (Distinct => IsInjective(f[k]))
    BY <1>4, <2>1
  <2>4. ToSet(f[n]) = Upto(k) \union ToSet(seqs[n])
    BY <2>2, <2>3, Joined
  <2>5. Upto(n) = Upto(k) \union ToSet(seqs[n])
    <3>1. 1 .. n = (1 .. k) \union {n}
      BY <2>1
    <3> QED BY <3>1
  <2>6. ASSUME Distinct PROVE IsInjective(f[n])
    <3>1. Upto(k) \cap ToSet(seqs[n]) = {}
      <4>1. \A m \in 1 .. k : m \in DOMAIN seqs /\ m # n
        BY <1>1, <2>1
      <4>2. \A m \in 1 .. k : ToSet(seqs[m]) \cap ToSet(seqs[n]) = {}
        BY <1>1, <2>1, <2>6, <4>1
      <4> QED BY <4>2
    <3>2. IsInjective(seqs[n]) /\ IsInjective(f[k])
      BY <1>1, <2>1, <2>3, <2>6
    <3> QED BY <2>2, <2>3, <3>1, <3>2, Joined
  <2> QED BY <2>4, <2>5, <2>6
<1> HIDE DEF P
<1>5. L \in P
  BY <1>1, <1>3, <1>4, CountingUp
<1>6. f[L] \in Seq(X) /\ ToSet(f[L]) = Upto(L) /\ (Distinct => IsInjective(f[L]))
  BY <1>1, <1>2, <1>5 DEF P
<1> QED BY <1>1, <1>2, <1>6
-----------------------------------------------------------------------------
(* The table of fills.  The fills of a report are distinct rows; sorting   *)
(* keeps them all and puts no later time, as a double, after an earlier.   *)
FillRow(ids) == [strategy : ids, number : Nat, ts : Int]

LEMMA ReportedInstances ==
  ASSUME NEW insts, Reported(insts)
  PROVE  \E n \in Nat : DOMAIN insts = 1 .. n
  BY DEF Reported

LEMMA FillsAreDistinct ==
  ASSUME NEW insts, Reported(insts)
  PROVE  /\ AllFills(insts) \in Seq(FillRow({insts[i].id : i \in DOMAIN insts}))
         /\ IsInjective(AllFills(insts))
<1> DEFINE ids == {insts[i].id : i \in DOMAIN insts}
           row(i, f) == [strategy |-> insts[i].id, number |-> f, ts |-> insts[i].recent[f]]
           seqs == [i \in DOMAIN insts |-> [f \in DOMAIN insts[i].recent |-> row(i, f)]]
<1>1. PICK n \in Nat : DOMAIN insts = 1 .. n /\ \A i \in 1 .. n : insts[i].id \in ids
  BY ReportedInstances
<1> HIDE DEF ids
<1>2. \A i \in 1 .. n : insts[i].recent \in Seq(Int)
  BY <1>1 DEF Reported
<1>3. \A i, j \in 1 .. n : insts[i].id = insts[j].id => i = j
  BY <1>1 DEF Reported
<1>4. ASSUME NEW i \in 1 .. n
      PROVE  /\ seqs[i] \in Seq(FillRow(ids)) /\ IsInjective(seqs[i])
             /\ \A r \in ToSet(seqs[i]) : r.strategy = insts[i].id
  <2> DEFINE times == insts[i].recent
  <2>1. times \in Seq(Int)
    BY <1>2
  <2>2. PICK m \in Nat : DOMAIN times = 1 .. m /\ \A f \in 1 .. m : times[f] \in Int
    BY <2>1
  <2>3. seqs[i] = [f \in 1 .. m |-> row(i, f)]
    BY <1>1, <2>2
  <2>4. \A f \in 1 .. m : row(i, f) \in FillRow(ids) /\ row(i, f).number = f /\ row(i, f).strategy = insts[i].id
    BY <1>1, <2>2 DEF FillRow
  <2> HIDE DEF seqs, row
  <2>5. seqs[i] \in [1 .. m -> FillRow(ids)] /\ \A f \in 1 .. m : seqs[i][f] = row(i, f)
    BY <2>3, <2>4
  <2>6. DOMAIN seqs[i] = 1 .. m /\ seqs[i] \in Seq(FillRow(ids))
    BY <2>5, SeqDef
  <2>7. IsInjective(seqs[i])
    <3>1. ASSUME NEW f \in 1 .. m, NEW g \in 1 .. m, seqs[i][f] = seqs[i][g] PROVE f = g
      BY <2>4, <2>5, <3>1
    <3> QED BY <2>6, <3>1 DEF IsInjective
  <2>8. \A r \in ToSet(seqs[i]) : r.strategy = insts[i].id
    BY <2>4, <2>5, <2>6 DEF ToSet
  <2> QED BY <2>6, <2>7, <2>8
<1>5. DOMAIN seqs = 1 .. n
  BY <1>1
<1>6. AllFills(insts) = FlattenSeq(seqs)
  BY DEF AllFills
<1> HIDE DEF seqs
<1>7. seqs \in Seq(Seq(FillRow(ids)))
  <2>1. seqs = [i \in 1 .. n |-> seqs[i]]
    <3>1. seqs = [i \in DOMAIN insts |-> seqs[i]]
      BY DEF seqs
    <3> QED BY <1>1, <3>1
  <2>2. seqs \in [1 .. n -> Seq(FillRow(ids))]
    BY <1>4, <2>1
  <2> QED BY <2>2, SeqDef
<1>8. ASSUME NEW i \in DOMAIN seqs, NEW j \in DOMAIN seqs, i # j
      PROVE  ToSet(seqs[i]) \cap ToSet(seqs[j]) = {}
  <2>1. insts[i].id # insts[j].id
    BY <1>3, <1>5, <1>8
  <2> QED BY <1>4, <1>5, <2>1
<1>9. \A i \in DOMAIN seqs : IsInjective(seqs[i])
  BY <1>4, <1>5
<1> QED BY <1>6, <1>7, <1>8, <1>9, Flattened DEF ids

LEMMA SortedFills ==
  ASSUME NEW ids, NEW rows \in Seq(FillRow(ids)), IsInjective(rows)
  PROVE  /\ NewestFirst(rows) \in Seq(FillRow(ids)) /\ Len(NewestFirst(rows)) = Len(rows)
         /\ IsInjective(NewestFirst(rows))
         /\ ToSet(NewestFirst(rows)) = ToSet(rows)
         /\ \A j, k \in DOMAIN NewestFirst(rows) :
              j < k => Number(NewestFirst(rows)[j].ts) >= Number(NewestFirst(rows)[k].ts)
<1> DEFINE n == Len(rows)
           num == [i \in 1 .. n |-> Number(rows[i].ts)]
           Newer(i, j) == \/ Number(rows[i].ts) > Number(rows[j].ts)
                          \/ Number(rows[i].ts) = Number(rows[j].ts) /\ i < j
           before == {p \in (DOMAIN rows) \X (DOMAIN rows) : Newer(p[1], p[2])}
           order == Ranked(n, before)
           sorted == NewestFirst(rows)
<1>1. n \in Nat /\ DOMAIN rows = 1 .. n /\ \A i \in 1 .. n : rows[i] \in FillRow(ids)
  OBVIOUS
<1>2. \A i \in 1 .. n : num[i] \in Int /\ num[i] = Number(rows[i].ts)
  BY <1>1, NumberIsNear DEF FillRow
<1>3. \A i, j \in 1 .. n : <<i, j>> \in before <=> (num[i] > num[j] \/ (num[i] = num[j] /\ i < j))
  BY <1>1, <1>2
<1>4. sorted = [k \in 1 .. n |-> rows[order[k]]]
  BY <1>1 DEF NewestFirst
<1> HIDE DEF n, num, before, sorted
<1>5. StrictOrder(before, n)
  <2>1. \A i \in 1 .. n : <<i, i>> \notin before
    BY <1>1, <1>2, <1>3
  <2>2. \A i, j \in 1 .. n : i # j => <<i, j>> \in before \/ <<j, i>> \in before
    BY <1>1, <1>2, <1>3
  <2>3. ASSUME NEW i \in 1 .. n, NEW j \in 1 .. n, NEW k \in 1 .. n, <<i, j>> \in before, <<j, k>> \in before
        PROVE  <<i, k>> \in before
    <3>1. num[i] \in Int /\ num[j] \in Int /\ num[k] \in Int /\ i \in Int /\ j \in Int /\ k \in Int
      BY <1>1, <1>2
    <3>2. num[i] > num[j] \/ (num[i] = num[j] /\ i < j)
      BY <1>3, <2>3
    <3>3. num[j] > num[k] \/ (num[j] = num[k] /\ j < k)
      BY <1>3, <2>3
    <3>4. num[i] > num[k] \/ (num[i] = num[k] /\ i < k)
      BY <3>1, <3>2, <3>3
    <3> QED BY <1>3, <3>4
  <2> QED BY <2>1, <2>2, <2>3 DEF StrictOrder
<1>6. /\ order \in [1 .. n -> 1 .. n]
      /\ \A j \in 1 .. n : \E k \in 1 .. n : order[k] = j
      /\ \A k, l \in 1 .. n : k < l => <<order[k], order[l]>> \in before
  BY <1>1, <1>5, RankedSorts
<1> HIDE DEF order
<1>7. sorted \in [1 .. n -> FillRow(ids)] /\ DOMAIN sorted = 1 .. n /\ \A k \in 1 .. n : sorted[k] = rows[order[k]]
  BY <1>1, <1>4, <1>6
<1>8. sorted \in Seq(FillRow(ids)) /\ Len(sorted) = n
  <2>1. sorted \in Seq(FillRow(ids))
    BY <1>1, <1>7, SeqDef
  <2> QED BY <1>1, <1>7, <2>1
<1>9. IsInjective(sorted)
  <2>1. ASSUME NEW k \in 1 .. n, NEW l \in 1 .. n, sorted[k] = sorted[l], k < l PROVE FALSE
    <3>1. order[k] \in 1 .. n /\ order[l] \in 1 .. n /\ rows[order[k]] = rows[order[l]]
      BY <1>6, <1>7, <2>1
    <3>2. order[k] = order[l]
      BY <1>1, <3>1 DEF IsInjective
    <3>3. <<order[k], order[l]>> \in before
      BY <1>6, <2>1
    <3> QED BY <1>5, <3>1, <3>2, <3>3 DEF StrictOrder
  <2>2. \A k, l \in 1 .. n : k < l \/ l < k \/ k = l
    BY <1>1
  <2> QED BY <1>7, <2>1, <2>2 DEF IsInjective
<1>10. ToSet(sorted) = ToSet(rows)
  <2>1. ToSet(sorted) \subseteq ToSet(rows)
    BY <1>1, <1>6, <1>7 DEF ToSet
  <2>2. ASSUME NEW j \in 1 .. n PROVE rows[j] \in ToSet(sorted)
    <3>1. PICK k \in 1 .. n : order[k] = j
      BY <1>6
    <3> QED BY <1>7, <3>1 DEF ToSet
  <2> QED BY <1>1, <2>1, <2>2 DEF ToSet
<1>11. ASSUME NEW j \in 1 .. n, NEW k \in 1 .. n, j < k
       PROVE  Number(sorted[j].ts) >= Number(sorted[k].ts)
  <2>1. <<order[j], order[k]>> \in before /\ order[j] \in 1 .. n /\ order[k] \in 1 .. n
    BY <1>6, <1>11
  <2>2. num[order[j]] \in Int /\ num[order[k]] \in Int
          /\ (num[order[j]] > num[order[k]] \/ num[order[j]] = num[order[k]])
    BY <1>2, <1>3, <2>1
  <2>3. num[order[j]] = Number(sorted[j].ts) /\ num[order[k]] = Number(sorted[k].ts)
    BY <1>2, <1>7, <2>1
  <2> QED BY <2>2, <2>3
<1> QED BY <1>7, <1>8, <1>9, <1>10, <1>11 DEF sorted, n

LEMMA NewerByNoMore ==
  ASSUME NEW s \in Int, NEW t \in Int, Number(s) >= Number(t)
  PROVE  t - s <= Spacing
<1>1. Number(s) \in Int /\ 2 * (Number(s) - s) <= Spacing
  BY NumberIsNear
<1>2. Number(t) \in Int /\ 2 * (t - Number(t)) <= Spacing
  BY NumberIsNear
<1>3. Spacing \in Nat
  BY SpacingAssumption
<1> QED BY <1>1, <1>2, <1>3

LEMMA FillTableShowsTheNewest ==
  ASSUME NEW insts, Reported(insts)
  PROVE  ShowsTheNewest(FillRows(insts), insts)
<1> DEFINE all == AllFills(insts)
           sorted == NewestFirst(all)
           n == Len(all)
           m == IF n < Rows THEN n ELSE Rows
           rows == FillRows(insts)
           hidden == ToSet(all) \ ToSet(rows)
           ids == {insts[i].id : i \in DOMAIN insts}
<1>1. all \in Seq(FillRow(ids)) /\ IsInjective(all) /\ n \in Nat
  BY FillsAreDistinct
<1> HIDE DEF all, ids
<1>2. /\ sorted \in Seq(FillRow(ids)) /\ Len(sorted) = n
      /\ IsInjective(sorted)
      /\ ToSet(sorted) = ToSet(all)
      /\ \A j, k \in DOMAIN sorted : j < k => Number(sorted[j].ts) >= Number(sorted[k].ts)
  BY <1>1, SortedFills
<1>3. rows = SubSeq(sorted, 1, m)
  <2>1. rows = Shortened(sorted)
    BY DEF FillRows, all
  <2> QED BY <1>2, <2>1 DEF Shortened
<1> HIDE DEF sorted, n, rows
<1>4. m \in Nat /\ m <= n
  BY <1>1, RowsAssumption, SpacingAssumption
<1>5. m = (IF n < Rows THEN n ELSE Rows)
  OBVIOUS
<1> HIDE DEF m
<1>6. DOMAIN sorted = 1 .. n /\ \A j \in 1 .. n : sorted[j] \in FillRow(ids)
  BY <1>1, <1>2
<1>7. Len(rows) = m /\ DOMAIN rows = 1 .. m /\ \A j \in 1 .. m : rows[j] = sorted[j]
  BY <1>1, <1>2, <1>3, <1>4
<1>8. \A j \in 1 .. m : j \in 1 .. n
  BY <1>1, <1>4
<1>9. ToSet(rows) \subseteq ToSet(all) /\ IsInjective(rows)
  <2>1. ToSet(rows) \subseteq ToSet(sorted)
    BY <1>6, <1>7, <1>8 DEF ToSet
  <2>2. IsInjective(rows)
    BY <1>2, <1>6, <1>7, <1>8 DEF IsInjective
  <2> QED BY <1>2, <2>1, <2>2
<1>10. \A j, k \in 1 .. n : j < k => sorted[k].ts - sorted[j].ts <= Spacing
  <2> SUFFICES ASSUME NEW j \in 1 .. n, NEW k \in 1 .. n, j < k PROVE sorted[k].ts - sorted[j].ts <= Spacing
    OBVIOUS
  <2>1. sorted[j].ts \in Int /\ sorted[k].ts \in Int
    BY <1>6 DEF FillRow
  <2>2. Number(sorted[j].ts) >= Number(sorted[k].ts)
    BY <1>2, <1>6
  <2> QED BY <2>1, <2>2, NewerByNoMore
<1>11. ASSUME NEW j \in DOMAIN rows, NEW h \in hidden PROVE h.ts - rows[j].ts <= Spacing
  <2>1. PICK k \in 1 .. n : h = sorted[k]
    BY <1>2, <1>6 DEF ToSet
  <2>2. k \notin 1 .. m
    BY <1>7, <2>1 DEF ToSet
  <2>3. j \in 1 .. m /\ j \in 1 .. n /\ j < k
    BY <1>1, <1>4, <1>7, <1>8, <2>1, <2>2
  <2> QED BY <1>7, <1>10, <2>1, <2>3
<1>12. ASSUME NEW j \in DOMAIN rows, NEW k \in 1 .. j - 1 PROVE rows[j].ts - rows[k].ts <= Spacing
  <2>1. j \in 1 .. m /\ k \in 1 .. m /\ k < j /\ j \in 1 .. n /\ k \in 1 .. n
    BY <1>1, <1>4, <1>7
  <2> QED BY <1>7, <1>10, <2>1
<1>13. Len(rows) = (IF Len(all) < Rows THEN Len(all) ELSE Rows)
  BY <1>5, <1>7 DEF n
<1> HIDE DEF hidden
<1>14. /\ \A h \in hidden : \A j \in DOMAIN rows : h.ts - rows[j].ts <= Spacing
       /\ \A j \in DOMAIN rows : \A k \in 1 .. j - 1 : rows[j].ts - rows[k].ts <= Spacing
  BY <1>11, <1>12
<1> QED BY <1>9, <1>13, <1>14 DEF ShowsTheNewest, all, rows, hidden
-----------------------------------------------------------------------------
(* Sums.                                                                   *)
(* it[s] is the sum of f over s, whichever element is added last.          *)
Adds(it, f, S) ==
  /\ it[{}] = 0
  /\ \A s \in SUBSET S : it[s] \in Int
  /\ \A s \in SUBSET S : \A x \in s : it[s] = f[x] + it[s \ {x}]

(* SumFunction adds one element after the other, in an order it chooses;   *)
(* the order makes no difference.                                          *)
LEMMA SumUnfolds ==
  ASSUME NEW S, IsFiniteSet(S), NEW f \in [S -> Int]
  PROVE  \E it : Adds(it, f, S) /\ SumFunction(f) = it[S]
<1> DEFINE One(s) == CHOOSE x \in s : TRUE
           Sums(g, D) == /\ DOMAIN g = D
                         /\ \A s \in D : g[s] = IF s = {} THEN 0 ELSE f[One(s)] + g[s \ {One(s)}]
           Upto(n) == {s \in SUBSET S : Cardinality(s) <= n}
           P == {n \in Nat : \E g : Sums(g, Upto(n))}
<1>1. \A s \in SUBSET S : IsFiniteSet(s) /\ Cardinality(s) \in Nat /\ (Cardinality(s) = 0 <=> s = {})
  BY FS_Subset, FS_CardinalityType, FS_EmptySet
<1>2. \A s \in SUBSET S : s # {} => /\ One(s) \in s /\ One(s) \in S /\ s \ {One(s)} \in SUBSET S
                                  /\ Cardinality(s \ {One(s)}) = Cardinality(s) - 1
  BY <1>1, FS_RemoveElement
<1> HIDE DEF One
<1>3. 0 \in P
  <2> DEFINE g == [s \in Upto(0) |-> 0]
  <2>1. \A s \in Upto(0) : s = {}
    BY <1>1
  <2>2. Sums(g, Upto(0))
    BY <2>1
  <2> QED BY <2>2
<1>4. ASSUME NEW n \in Nat, n \in P PROVE n + 1 \in P
  <2>1. PICK g : Sums(g, Upto(n))
    BY <1>4
  <2> DEFINE h == [s \in Upto(n + 1) |-> IF s = {} THEN 0 ELSE f[One(s)] + g[s \ {One(s)}]]
  <2>2. ASSUME NEW s \in Upto(n + 1), s # {}
        PROVE  s \ {One(s)} \in Upto(n)
    BY <1>1, <1>2, <2>2
  <2>3. \A s \in Upto(n) : s \in Upto(n + 1) /\ h[s] = g[s]
    <3> SUFFICES ASSUME NEW s \in Upto(n) PROVE s \in Upto(n + 1) /\ h[s] = g[s]
      OBVIOUS
    <3>1. s \in Upto(n + 1)
      BY <1>1
    <3>2. g[s] = IF s = {} THEN 0 ELSE f[One(s)] + g[s \ {One(s)}]
      BY <2>1
    <3> QED BY <3>1, <3>2
  <2> HIDE DEF Upto
  <2>4. \A s \in Upto(n + 1) : s # {} => h[s \ {One(s)}] = g[s \ {One(s)}]
    BY <2>2, <2>3
  <2>5. Sums(h, Upto(n + 1))
    BY <2>4
  <2> HIDE DEF h, Sums
  <2>6. n + 1 \in Nat /\ \E g1 : Sums(g1, Upto(n + 1))
    BY <2>5
  <2> QED BY <2>6
<1> HIDE DEF P
<1>5. Cardinality(S) \in Nat /\ Cardinality(S) \in P
  BY <1>1, <1>3, <1>4, CountingUp
<1>6. SUBSET S = Upto(Cardinality(S))
  BY <1>1, FS_Subset
<1>7. \E g : g = [s \in SUBSET S |-> IF s = {} THEN 0 ELSE f[One(s)] + g[s \ {One(s)}]]
  <2>1. PICK g : Sums(g, SUBSET S)
    BY <1>5, <1>6 DEF P
  <2> DEFINE h == [s \in SUBSET S |-> g[s]]
  <2>2. \A s \in SUBSET S : s # {} => h[s \ {One(s)}] = g[s \ {One(s)}]
    BY <1>2
  <2>3. h = [s \in SUBSET S |-> IF s = {} THEN 0 ELSE f[One(s)] + h[s \ {One(s)}]]
    BY <2>1, <2>2
  <2> QED BY <2>3
<1> DEFINE iter == CHOOSE g : g = [s \in SUBSET S |-> IF s = {} THEN 0 ELSE f[One(s)] + g[s \ {One(s)}]]
<1>8. \A s \in SUBSET S : iter[s] = IF s = {} THEN 0 ELSE f[One(s)] + iter[s \ {One(s)}]
  BY <1>7
<1> HIDE DEF iter
<1> DEFINE Q == {n \in Nat : \A s \in SUBSET S : Cardinality(s) = n => iter[s] \in Int}
<1>9. 0 \in Q
  BY <1>1, <1>8
<1>10. ASSUME NEW n \in Nat, n \in Q PROVE n + 1 \in Q
  <2> SUFFICES ASSUME NEW s \in SUBSET S, Cardinality(s) = n + 1 PROVE iter[s] \in Int
    OBVIOUS
  <2>1. s # {} /\ One(s) \in S /\ s \ {One(s)} \in SUBSET S /\ Cardinality(s \ {One(s)}) = n
    BY <1>1, <1>2
  <2>2. iter[s \ {One(s)}] \in Int /\ f[One(s)] \in Int
    BY <1>10, <2>1
  <2> QED BY <1>8, <2>1, <2>2, SMTT(30)
<1> HIDE DEF Q
<1>11. \A s \in SUBSET S : iter[s] \in Int
  <2> SUFFICES ASSUME NEW s \in SUBSET S PROVE iter[s] \in Int
    OBVIOUS
  <2>1. Cardinality(s) \in Nat
    BY <1>1
  <2>2. \A n \in Nat : n \in Q
    BY <1>9, <1>10, CountingUp
  <2> QED BY <2>1, <2>2 DEF Q
<1> DEFINE R == {n \in Nat : \A s \in SUBSET S : Cardinality(s) = n =>
                               \A x \in s : iter[s] = f[x] + iter[s \ {x}]}
<1>12. 0 \in R
  BY <1>1
<1>13. ASSUME NEW n \in Nat, n \in R PROVE n + 1 \in R
  <2> SUFFICES ASSUME NEW s \in SUBSET S, Cardinality(s) = n + 1, NEW x \in s
               PROVE  iter[s] = f[x] + iter[s \ {x}]
    OBVIOUS
  <2> DEFINE o == One(s)
             r == s \ {o, x}
  <2>1. /\ o \in s /\ s \ {o} \in SUBSET S /\ s \ {x} \in SUBSET S /\ r \in SUBSET S
        /\ iter[s] = f[o] + iter[s \ {o}]
    BY <1>2, <1>8
  <2>2. Cardinality(s \ {o}) = n /\ Cardinality(s \ {x}) = n
    <3>1. IsFiniteSet(s) /\ o \in s
      BY <1>1, <2>1
    <3> HIDE DEF o
    <3>2. Cardinality(s \ {o}) = (n + 1) - 1 /\ Cardinality(s \ {x}) = (n + 1) - 1
      BY <3>1, FS_RemoveElement
    <3> QED BY <3>2
  <2> HIDE DEF o
  <2>3. CASE o = x
    BY <2>1, <2>3
  <2>4. CASE o # x
    <3>1. x \in s \ {o} /\ o \in s \ {x} /\ (s \ {o}) \ {x} = r /\ (s \ {x}) \ {o} = r
      BY <2>1, <2>4
    <3> HIDE DEF r
    <3>2. iter[s \ {o}] = f[x] + iter[r] /\ iter[s \ {x}] = f[o] + iter[r]
      BY <1>13, <2>1, <2>2, <3>1
    <3>3. f[o] \in Int /\ f[x] \in Int /\ iter[r] \in Int
      BY <1>11, <2>1
    <3> QED BY <2>1, <3>2, <3>3
  <2> QED BY <2>3, <2>4
<1> HIDE DEF R
<1>14. \A s \in SUBSET S : \A x \in s : iter[s] = f[x] + iter[s \ {x}]
  <2> SUFFICES ASSUME NEW s \in SUBSET S PROVE \A x \in s : iter[s] = f[x] + iter[s \ {x}]
    OBVIOUS
  <2>1. Cardinality(s) \in Nat
    BY <1>1
  <2>2. \A n \in Nat : n \in R
    BY <1>12, <1>13, CountingUp
  <2> QED BY <2>1, <2>2 DEF R
<1>15. iter[{}] = 0
  BY <1>8
<1>16. SumFunction(f) = iter[S]
  BY DEF SumFunction, SumFunctionOnSet, FoldFunctionOnSet, MapThenFoldSet, iter, One
<1>17. Adds(iter, f, S)
  BY <1>11, <1>14, <1>15 DEF Adds
<1> QED BY <1>16, <1>17

(* A sum over a finite set of integers is one.                             *)
LEMMA SumIsInt ==
  ASSUME NEW S, IsFiniteSet(S), NEW f \in [S -> Int]
  PROVE  SumFunction(f) \in Int
<1>1. PICK it : Adds(it, f, S) /\ SumFunction(f) = it[S]
  BY SumUnfolds
<1> QED BY <1>1 DEF Adds
(* Without a negative amount a sum is not negative.                        *)
LEMMA SumOfGains ==
  ASSUME NEW S, IsFiniteSet(S), NEW f \in [S -> Int], \A x \in S : f[x] >= 0
  PROVE  SumFunction(f) >= 0
<1>1. PICK it : Adds(it, f, S) /\ SumFunction(f) = it[S]
  BY SumUnfolds
<1> DEFINE P == {n \in Nat : \A s \in SUBSET S : Cardinality(s) = n => it[s] >= 0}
<1>2. \A s \in SUBSET S : IsFiniteSet(s) /\ Cardinality(s) \in Nat /\ (Cardinality(s) = 0 <=> s = {})
  BY FS_Subset, FS_CardinalityType, FS_EmptySet
<1>3. 0 \in P
  <2>1. it[{}] >= 0
    BY <1>1 DEF Adds
  <2> QED BY <1>2, <2>1
<1>4. ASSUME NEW n \in Nat, n \in P PROVE n + 1 \in P
  <2> SUFFICES ASSUME NEW s \in SUBSET S, Cardinality(s) = n + 1 PROVE it[s] >= 0
    OBVIOUS
  <2>1. s # {}
    BY <1>2
  <2>2. PICK x \in s : TRUE
    BY <2>1
  <2> DEFINE r == s \ {x}
  <2>3. r \in SUBSET S /\ Cardinality(r) = n
    <3>1. Cardinality(s \ {x}) = (n + 1) - 1
      BY <1>2, <2>2, FS_RemoveElement
    <3> QED BY <3>1
  <2>4. it[s] = f[x] + it[r]
    BY <1>1, <2>2 DEF Adds
  <2> HIDE DEF r
  <2>5. it[r] >= 0 /\ it[r] \in Int /\ f[x] >= 0 /\ f[x] \in Int
    BY <1>1, <1>4, <2>2, <2>3 DEF Adds
  <2> QED BY <2>4, <2>5
<1> HIDE DEF P
<1>5. Cardinality(S) \in Nat /\ Cardinality(S) \in P
  BY <1>2, <1>3, <1>4, CountingUp
<1>6. it[S] >= 0
  BY <1>5 DEF P
<1> QED BY <1>1, <1>6

LEMMA SequenceSum ==
  ASSUME NEW amounts \in Seq(Int)
  PROVE  /\ Total(amounts) \in Int
         /\ Total(amounts) < 0 => \E i \in DOMAIN amounts : amounts[i] < 0
<1> DEFINE S == DOMAIN amounts
<1>1. IsFiniteSet(S) /\ amounts \in [S -> Int]
  <2>1. PICK n \in Nat : S = 1 .. n /\ amounts \in [1 .. n -> Int]
    BY SeqDef
  <2>2. IsFiniteSet(1 .. n)
    BY FS_Interval
  <2> QED BY <2>1, <2>2
<1> HIDE DEF S
<1>2. Total(amounts) \in Int
  BY <1>1, SumIsInt DEF Total
<1>3. ASSUME \A i \in S : ~(amounts[i] < 0) PROVE Total(amounts) >= 0
  <2>1. \A i \in S : amounts[i] >= 0
    BY <1>1, <1>3
  <2> QED BY <1>1, <2>1, SumOfGains DEF Total
<1> QED BY <1>2, <1>3 DEF S

(* Instances whose amounts add up to a loss have a position with a loss,   *)
(* and it is a row of the table.                                           *)
LEMMA LossIsInTheTable ==
  ASSUME NEW insts, Reported(insts), Figures(insts).unrealized = "neg"
  PROVE  \E row \in ToSet(PositionRows(insts)) : row.tone = "neg"
<1> DEFINE pos(i) == [p \in DOMAIN insts[i].positions |-> insts[i].positions[p].unrealized]
           sums == [i \in DOMAIN insts |-> Unrealized(insts[i])]
           rowOf(i, p) == [strategy |-> insts[i].id, symbol |-> insts[i].positions[p].symbol,
                           tone |-> Sign(insts[i].positions[p].unrealized)]
           rows == [i \in DOMAIN insts |-> [p \in DOMAIN insts[i].positions |-> rowOf(i, p)]]
<1>1. PICK n \in Nat : DOMAIN insts = 1 .. n
  BY ReportedInstances
<1>2. ASSUME NEW i \in 1 .. n
      PROVE  pos(i) \in Seq(Int) /\ Unrealized(insts[i]) = Total(pos(i))
  BY <1>1 DEF Reported, Unrealized
<1>3. ASSUME NEW i \in 1 .. n
      PROVE  /\ Unrealized(insts[i]) \in Int
             /\ Unrealized(insts[i]) < 0 => \E p \in DOMAIN insts[i].positions : insts[i].positions[p].unrealized < 0
  <2> DEFINE q == pos(i)
  <2>1. q \in Seq(Int) /\ Unrealized(insts[i]) = Total(q)
    BY <1>2
  <2>2. DOMAIN q = DOMAIN insts[i].positions /\ \A p \in DOMAIN q : q[p] = insts[i].positions[p].unrealized
    OBVIOUS
  <2> HIDE DEF q, pos
  <2>3. Total(q) \in Int /\ (Total(q) < 0 => \E p \in DOMAIN q : q[p] < 0)
    BY <2>1, SequenceSum
  <2> QED BY <2>1, <2>2, <2>3
<1>4. sums \in Seq(Int) /\ DOMAIN sums = 1 .. n /\ \A i \in 1 .. n : sums[i] = Unrealized(insts[i])
  <2>1. sums \in [1 .. n -> Int]
    BY <1>1, <1>3
  <2> QED BY <1>1, <2>1, SeqDef
<1>5. Sign(Total(sums)) = "neg"
  BY DEF Figures
<1> HIDE DEF sums
<1>6. PICK i \in 1 .. n : Unrealized(insts[i]) < 0
  <2>1. Total(sums) \in Int /\ (Total(sums) < 0 => \E i \in DOMAIN sums : sums[i] < 0)
    BY <1>4, SequenceSum
  <2>2. Total(sums) < 0
    BY <1>5, <2>1 DEF Sign
  <2> QED BY <1>4, <2>1, <2>2
<1>7. PICK p \in DOMAIN insts[i].positions : insts[i].positions[p].unrealized < 0
  BY <1>3, <1>6
<1> DEFINE X == UNION {ToSet(rows[k]) : k \in 1 .. n}
<1>8. PositionRows(insts) = FlattenSeq(rows)
  BY DEF PositionRows
<1>9. rows \in Seq(Seq(X)) /\ DOMAIN rows = 1 .. n
  <2>1. ASSUME NEW k \in 1 .. n PROVE rows[k] \in Seq(X)
    <3>1. PICK m \in Nat : DOMAIN insts[k].positions = 1 .. m
      <4> DEFINE q == pos(k)
      <4>1. q \in Seq(Int) /\ DOMAIN q = DOMAIN insts[k].positions
        BY <1>2
      <4> HIDE DEF q, pos
      <4>2. \E m \in Nat : DOMAIN q = 1 .. m
        BY <4>1
      <4> QED BY <4>1, <4>2
    <3>2. rows[k] = [j \in 1 .. m |-> rowOf(k, j)]
      BY <1>1, <3>1
    <3> HIDE DEF rows, rowOf
    <3>3. \A j \in 1 .. m : rows[k][j] \in ToSet(rows[k])
      BY <3>2 DEF ToSet
    <3>4. ToSet(rows[k]) \subseteq X
      OBVIOUS
    <3> HIDE DEF X
    <3>5. rows[k] \in [1 .. m -> X]
      BY <3>2, <3>3, <3>4
    <3> QED BY <3>5, SeqDef
  <2>2. rows = [k \in 1 .. n |-> rows[k]]
    <3>1. rows = [k \in DOMAIN insts |-> rows[k]]
      OBVIOUS
    <3> HIDE DEF rows
    <3> QED BY <1>1, <3>1
  <2> HIDE DEF rows, X
  <2>3. rows \in [1 .. n -> Seq(X)]
    BY <2>1, <2>2
  <2> QED BY <2>3, SeqDef
<1>10. rowOf(i, p) \in ToSet(rows[i]) /\ rowOf(i, p).tone = "neg"
  <2>1. p \in DOMAIN rows[i] /\ rows[i][p] = rowOf(i, p)
    BY <1>1, <1>6, <1>7
  <2>2. Sign(insts[i].positions[p].unrealized) = "neg"
    <3>1. insts[i].positions[p].unrealized \in Int
      <4> DEFINE q == pos(i)
      <4>1. q \in Seq(Int) /\ p \in DOMAIN q /\ q[p] = insts[i].positions[p].unrealized
        BY <1>2, <1>6, <1>7
      <4> HIDE DEF q, pos
      <4>2. q[p] \in Int
        BY <4>1
      <4> QED BY <4>1, <4>2
    <3> QED BY <1>7, <3>1 DEF Sign
  <2>3. rowOf(i, p) \in ToSet(rows[i])
    <3> HIDE DEF rows, rowOf
    <3> QED BY <2>1 DEF ToSet
  <2> QED BY <2>2, <2>3
<1> HIDE DEF rows, X, rowOf
<1>11. ToSet(FlattenSeq(rows)) = UNION {ToSet(rows[k]) : k \in DOMAIN rows}
  BY <1>9, Flattened
<1> QED BY <1>6, <1>8, <1>9, <1>10, <1>11

(* Whatever the daemon reports, the table of fills shows the newest of all *)
(* instances, as far as doubles can tell, each once, and a loss on open    *)
(* positions in the figures is the loss of a position in the table: for    *)
(* all instances, books and times, room in the table and spacing.          *)
THEOREM TablesAlwaysTellTheBook == SiteSpec => []TablesTellTheBook
<1>1. ScreenInv => TablesTellTheBook
  BY FillTableShowsTheNewest, LossIsInTheTable
     DEF ScreenInv, TablesTellTheBook, FillTable, PositionTable, Portfolio
<1> QED BY <1>1, SiteShowsFrames, PTL
-----------------------------------------------------------------------------
(* Counting.                                                               *)
(* A function that is one-to-one and onto leaves the size as it is.        *)
LEMMA SameSize ==
  ASSUME NEW S, IsFiniteSet(S), NEW T, NEW f \in [S -> T], IsInjective(f), \A y \in T : \E x \in S : f[x] = y
  PROVE  IsFiniteSet(T) /\ Cardinality(T) = Cardinality(S)
<1>1. f \in Bijection(S, T)
  BY DEF Bijection, Injection, Surjection
<1>2. ExistsBijection(S, T)
  BY <1>1 DEF ExistsBijection
<1> QED BY <1>2, FS_Bijection

(* Disjoint sets have as many elements together as their sizes add up to.  *)
LEMMA Partition ==
  ASSUME NEW S, IsFiniteSet(S), NEW B,
         \A x \in S : IsFiniteSet(B[x]),
         \A x, y \in S : x # y => B[x] \cap B[y] = {}
  PROVE  /\ IsFiniteSet(UNION {B[x] : x \in S})
         /\ SumFunction([x \in S |-> Cardinality(B[x])]) = Cardinality(UNION {B[x] : x \in S})
<1> DEFINE f == [x \in S |-> Cardinality(B[x])]
           Whole(s) == UNION {B[x] : x \in s}
           Sums(it, s) == IsFiniteSet(Whole(s)) /\ it[s] = Cardinality(Whole(s))
<1>1. \A x \in S : Cardinality(B[x]) \in Nat
  BY FS_CardinalityType
<1>2. f \in [S -> Int] /\ \A x \in S : f[x] = Cardinality(B[x])
  BY <1>1
<1> HIDE DEF f
<1>3. PICK it : Adds(it, f, S) /\ SumFunction(f) = it[S]
  BY <1>2, SumUnfolds
<1> DEFINE P == {n \in Nat : \A s \in SUBSET S : Cardinality(s) = n => Sums(it, s)}
<1>4. \A s \in SUBSET S : IsFiniteSet(s) /\ Cardinality(s) \in Nat /\ (Cardinality(s) = 0 <=> s = {})
  BY FS_Subset, FS_CardinalityType, FS_EmptySet
<1>5. 0 \in P
  <2>1. it[{}] = 0
    BY <1>3 DEF Adds
  <2>2. Whole({}) = {}
    OBVIOUS
  <2>3. Sums(it, {})
    BY <2>1, <2>2, FS_EmptySet
  <2> HIDE DEF Sums
  <2> QED BY <1>4, <2>3
<1>6. ASSUME NEW n \in Nat, n \in P PROVE n + 1 \in P
  <2> HIDE DEF Sums
  <2> SUFFICES ASSUME NEW s \in SUBSET S, Cardinality(s) = n + 1 PROVE Sums(it, s)
    OBVIOUS
  <2>1. s # {}
    BY <1>4
  <2>2. PICK x \in s : TRUE
    BY <2>1
  <2> DEFINE r == s \ {x}
  <2>3. r \in SUBSET S /\ Cardinality(r) = n
    <3>1. Cardinality(s \ {x}) = (n + 1) - 1
      BY <1>4, <2>2, FS_RemoveElement
    <3> QED BY <3>1
  <2>4. it[s] = f[x] + it[r]
    BY <1>3, <2>2 DEF Adds
  <2>5. Sums(it, r)
    BY <1>6, <2>3
  <2>6. Whole(s) = B[x] \union Whole(r)
    BY <2>2
  <2>7. B[x] \cap Whole(r) = {}
    BY <2>2
  <2>8. IsFiniteSet(B[x]) /\ f[x] = Cardinality(B[x]) /\ Cardinality(B[x]) \in Nat
    BY <1>1, <1>2, <2>2
  <2> HIDE DEF Whole, r
  <2>9. IsFiniteSet(Whole(r)) /\ it[r] = Cardinality(Whole(r)) /\ Cardinality(Whole(r)) \in Nat
    BY <2>5, FS_CardinalityType DEF Sums
  <2>10. /\ IsFiniteSet(B[x] \union Whole(r))
         /\ Cardinality(B[x] \union Whole(r))
              = Cardinality(B[x]) + Cardinality(Whole(r)) - Cardinality(B[x] \cap Whole(r))
    BY <2>8, <2>9, FS_Union
  <2>11. Cardinality(B[x] \cap Whole(r)) = 0
    BY <2>7, FS_EmptySet
  <2>12. Cardinality(Whole(s)) = it[s]
    BY <2>4, <2>6, <2>8, <2>9, <2>10, <2>11
  <2> QED BY <2>6, <2>10, <2>12 DEF Sums
<1> HIDE DEF P
<1>7. Cardinality(S) \in Nat /\ Cardinality(S) \in P
  BY <1>4, <1>5, <1>6, CountingUp
<1>8. Sums(it, S)
  <2> HIDE DEF Sums
  <2> QED BY <1>7 DEF P
<1> QED BY <1>3, <1>8 DEF f

(* The places that filter keeps are as many as the elements it returns.    *)
LEMMA KeptCounts ==
  ASSUME NEW X, NEW s \in Seq(X), NEW places \in SUBSET DOMAIN s
  PROVE  Len(Kept(s, places)) = Cardinality(places) /\ IsFiniteSet(places)
<1> DEFINE kept == Kept(s, places)
           n == Len(kept)
<1>1. PICK at : Selects(at, kept, s, places)
  BY KeptSelects
<1>2. kept \in Seq(X)
  BY KeptSelects
<1>3. places \subseteq Int
  OBVIOUS
<1> HIDE DEF kept
<1>4. n \in Nat
  BY <1>2
<1> HIDE DEF n
<1>5. at \in [1 .. n -> places] /\ \A p \in places : \E i \in 1 .. n : at[i] = p
  BY <1>1 DEF Selects, n
<1>6. ASSUME NEW i \in 1 .. n, NEW j \in 1 .. n, at[i] = at[j] PROVE i = j
  <2>1. i < j => at[i] < at[j]
    BY <1>1 DEF Selects, n
  <2>2. j < i => at[j] < at[i]
    BY <1>1 DEF Selects, n
  <2>3. at[i] \in Int /\ at[j] \in Int
    BY <1>3, <1>5
  <2> QED BY <1>4, <1>6, <2>1, <2>2, <2>3
<1>7. IsInjective(at)
  BY <1>5, <1>6 DEF IsInjective
<1>8. IsFiniteSet(1 .. n) /\ Cardinality(1 .. n) = n
  <2>1. IsFiniteSet(1 .. n) /\ Cardinality(1 .. n) = IF 1 > n THEN 0 ELSE n - 1 + 1
    BY <1>4, FS_Interval
  <2> QED BY <1>4, <2>1
<1>9. IsFiniteSet(places) /\ Cardinality(places) = n
  BY <1>5, <1>7, <1>8, SameSize
<1> QED BY <1>9 DEF n, kept

(* flat lays out the first n sequences of seqs, one behind the other.      *)
LaidOut(row, col, flat, seqs, n) ==
  /\ row \in [1 .. Len(flat) -> 1 .. n] /\ col \in [1 .. Len(flat) -> Nat]
  /\ \A i \in 1 .. Len(flat) : col[i] \in 1 .. Len(seqs[row[i]]) /\ flat[i] = seqs[row[i]][col[i]]
  /\ \A i, j \in 1 .. Len(flat) : i < j => row[i] < row[j] \/ (row[i] = row[j] /\ col[i] < col[j])
  /\ \A a \in 1 .. n : \A k \in 1 .. Len(seqs[a]) : \E i \in 1 .. Len(flat) : row[i] = a /\ col[i] = k

LEMMA LayOneMore ==
  ASSUME NEW X, NEW seqs, NEW k \in Nat, NEW flat \in Seq(X), seqs[k + 1] \in Seq(X),
         NEW row, NEW col, LaidOut(row, col, flat, seqs, k)
  PROVE  \E r, c : LaidOut(r, c, flat \o seqs[k + 1], seqs, k + 1)
<1> DEFINE m == Len(flat)
           more == seqs[k + 1]
           l == Len(more)
           both == flat \o more
           n == k + 1
           r == [i \in 1 .. m + l |-> IF i <= m THEN row[i] ELSE n]
           c == [i \in 1 .. m + l |-> IF i <= m THEN col[i] ELSE i - m]
<1>1. m \in Nat /\ l \in Nat /\ Len(both) = m + l
  OBVIOUS
<1>2. /\ \A i \in 1 .. m : both[i] = flat[i]
      /\ \A i \in m + 1 .. m + l : both[i] = more[i - m]
  OBVIOUS
<1>3. n \in Nat /\ n = k + 1 /\ seqs[n] = more
  OBVIOUS
<1>4. /\ row \in [1 .. m -> 1 .. k] /\ col \in [1 .. m -> Nat]
      /\ \A i \in 1 .. m : col[i] \in 1 .. Len(seqs[row[i]]) /\ flat[i] = seqs[row[i]][col[i]]
      /\ \A i, j \in 1 .. m : i < j => row[i] < row[j] \/ (row[i] = row[j] /\ col[i] < col[j])
      /\ \A a \in 1 .. k : \A q \in 1 .. Len(seqs[a]) : \E i \in 1 .. m : row[i] = a /\ col[i] = q
  BY DEF LaidOut
<1> HIDE DEF m, both, n, more
<1> DEFINE Old(i) == i \in 1 .. m /\ r[i] = row[i] /\ c[i] = col[i]
           New(i) == i \in m + 1 .. m + l /\ i - m \in 1 .. l /\ r[i] = n /\ c[i] = i - m
<1>5. Len(more) = l
  OBVIOUS
<1> HIDE DEF l
<1>6. \A i \in 1 .. m : i \in 1 .. m + l /\ Old(i)
  BY <1>1
<1>7. \A i \in 1 .. m + l : Old(i) \/ New(i)
  BY <1>1
<1>8. \A q \in 1 .. l : q + m \in 1 .. m + l /\ New(q + m) /\ (q + m) - m = q
  BY <1>1
<1>9. r \in [1 .. m + l -> 1 .. n] /\ c \in [1 .. m + l -> Nat]
  <2>1. \A i \in 1 .. m + l : r[i] \in 1 .. n /\ c[i] \in Nat
    <3> TAKE i \in 1 .. m + l
    <3>1. CASE i \in 1 .. m
      BY <1>3, <1>4, <3>1, <1>1
    <3>2. CASE i \notin 1 .. m
      BY <1>3, <3>2, <1>1
    <3> QED BY <3>1, <3>2
  <2> QED BY <2>1
<1> HIDE DEF r, c
<1>10. ASSUME NEW i \in 1 .. m + l PROVE c[i] \in 1 .. Len(seqs[r[i]]) /\ both[i] = seqs[r[i]][c[i]]
  <2>1. CASE Old(i)
    BY <1>2, <1>4, <2>1
  <2>2. CASE New(i)
    BY <1>2, <1>3, <1>5, <2>2
  <2> QED BY <1>7, <2>1, <2>2
<1>11. ASSUME NEW i \in 1 .. m + l, NEW j \in 1 .. m + l, i < j
       PROVE  r[i] < r[j] \/ (r[i] = r[j] /\ c[i] < c[j])
  <2>1. CASE Old(i) /\ Old(j)
    BY <1>4, <1>11, <2>1
  <2>2. CASE Old(i) /\ New(j)
    <3>1. r[i] \in 1 .. k /\ r[j] = n
      BY <1>4, <2>2
    <3> QED BY <1>3, <3>1
  <2>3. CASE New(i) /\ New(j)
    BY <1>1, <1>11, <2>3
  <2>4. CASE New(i) /\ Old(j)
    BY <1>1, <1>11, <2>4
  <2> QED BY <1>7, <2>1, <2>2, <2>3, <2>4
<1>12. ASSUME NEW a \in 1 .. n, NEW q \in 1 .. Len(seqs[a])
       PROVE  \E i \in 1 .. m + l : r[i] = a /\ c[i] = q
  <2>1. CASE a = n
    <3>1. q \in 1 .. l
      BY <1>3, <1>5, <2>1
    <3> QED BY <1>8, <2>1, <3>1
  <2>2. CASE a # n
    <3>1. a \in 1 .. k
      BY <1>3, <2>2
    <3>2. PICK i \in 1 .. m : row[i] = a /\ col[i] = q
      BY <1>4, <3>1
    <3>3. i \in 1 .. m + l /\ r[i] = a /\ c[i] = q
      BY <1>6, <3>2
    <3> QED BY <3>3
  <2> QED BY <2>1, <2>2
<1>13. LaidOut(r, c, both, seqs, n)
  <2> DEFINE size == m + l
  <2>1. Len(both) = size
    BY <1>1
  <2> HIDE DEF size
  <2>2. r \in [1 .. size -> 1 .. n] /\ c \in [1 .. size -> Nat]
    BY <1>9 DEF size
  <2>3. \A i \in 1 .. size : c[i] \in 1 .. Len(seqs[r[i]]) /\ both[i] = seqs[r[i]][c[i]]
    BY <1>10 DEF size
  <2>4. \A i, j \in 1 .. size : i < j => r[i] < r[j] \/ (r[i] = r[j] /\ c[i] < c[j])
    BY <1>11 DEF size
  <2>5. \A a \in 1 .. n : \A q \in 1 .. Len(seqs[a]) : \E i \in 1 .. size : r[i] = a /\ c[i] = q
    BY <1>12 DEF size
  <2> QED BY <2>1, <2>2, <2>3, <2>4, <2>5 DEF LaidOut
<1> QED BY <1>13 DEF both, n, more

LEMMA FlatIsLaidOut ==
  ASSUME NEW X, NEW seqs \in Seq(Seq(X))
  PROVE  \E row, col : LaidOut(row, col, FlattenSeq(seqs), seqs, Len(seqs))
<1> DEFINE L == Len(seqs)
<1>1. L \in Nat /\ \A n \in 1 .. L : seqs[n] \in Seq(X)
  OBVIOUS
<1>2. PICK f : /\ f[0] = <<>> /\ FlattenSeq(seqs) = f[L]
               /\ \A n \in 0 .. L : f[n] \in Seq(X)
               /\ \A n \in 1 .. L : f[n] = f[n - 1] \o seqs[n]
  BY FlattenUnfolds
<1> HIDE DEF L
<1> DEFINE Done(n) == \E row, col : LaidOut(row, col, f[n], seqs, n)
           P == {n \in Nat : n <= L => Done(n)}
<1>3. Done(0)
  <2> DEFINE none == [i \in 1 .. 0 |-> 0]
  <2>1. Len(f[0]) = 0
    BY <1>2
  <2>2. 1 .. 0 = {}
    OBVIOUS
  <2>3. none \in [{} -> {}] /\ none \in [{} -> Nat]
    BY <2>2, Zenon
  <2> HIDE DEF none
  <2>4. LaidOut(none, none, f[0], seqs, 0)
    BY <2>1, <2>2, <2>3 DEF LaidOut
  <2> QED BY <2>4
<1>4. ASSUME NEW k \in Nat, k \in P, k + 1 <= L PROVE Done(k + 1)
  <2>1. k <= L /\ k \in 0 .. L /\ k + 1 \in 1 .. L /\ (k + 1) - 1 = k
    BY <1>1, <1>4
  <2>2. Done(k)
    <3> HIDE DEF Done
    <3> QED BY <1>4, <2>1
  <2>3. PICK row, col : LaidOut(row, col, f[k], seqs, k)
    BY <2>2
  <2>4. f[k + 1] = f[k] \o seqs[k + 1] /\ f[k] \in Seq(X) /\ seqs[k + 1] \in Seq(X)
    BY <1>1, <1>2, <2>1
  <2>5. \E r, c : LaidOut(r, c, f[k] \o seqs[k + 1], seqs, k + 1)
    BY <2>3, <2>4, LayOneMore
  <2> QED BY <2>4, <2>5
<1> HIDE DEF Done
<1>5. 0 \in P /\ \A k \in Nat : k \in P => k + 1 \in P
  BY <1>3, <1>4
<1> HIDE DEF P
<1>6. L \in P
  BY <1>1, <1>5, CountingUp
<1>7. Done(L)
  BY <1>1, <1>6 DEF P
<1> QED BY <1>2, <1>7 DEF Done, L
-----------------------------------------------------------------------------
(* The record.  Sorting the entries by date loses none; the points follow  *)
(* them, one for each benchmark of each entry.                             *)
Reorders(order) ==
  /\ order \in [DOMAIN entries -> DOMAIN entries] /\ IsInjective(order)
  /\ \A j \in DOMAIN entries : \E k \in DOMAIN entries : order[k] = j
  /\ Sorted = [n \in DOMAIN entries |-> entries[order[n]]]
  /\ \A i, j \in DOMAIN entries : i < j => Sorted[i].date <= Sorted[j].date

LEMMA EntriesAreMeasured ==
  ASSUME Measured(entries)
  PROVE  /\ Len(entries) \in Nat /\ DOMAIN entries = 1 .. Len(entries)
         /\ \A i \in DOMAIN entries :
              /\ entries[i] \in ToSet(entries) /\ entries[i].date \in Int
              /\ entries[i].benches \in Seq(ToSet(entries[i].benches))
              /\ \A k \in DOMAIN entries[i].benches : entries[i].benches[k].value \in Nat
<1>1. entries \in Seq(ToSet(entries))
  BY DEF Measured
<1>2. Len(entries) \in Nat /\ DOMAIN entries = 1 .. Len(entries)
  BY <1>1
<1>3. \A i \in DOMAIN entries : entries[i] \in ToSet(entries)
  BY DEF ToSet
<1>4. \A i \in DOMAIN entries : \A k \in DOMAIN entries[i].benches : entries[i].benches[k] \in ToSet(entries[i].benches)
  BY DEF ToSet
<1> QED BY <1>2, <1>3, <1>4 DEF Measured

LEMMA SortedIsAReordering ==
  ASSUME Measured(entries)
  PROVE  \E order : Reorders(order)
<1> DEFINE n == Len(entries)
           before == {p \in (DOMAIN entries) \X (DOMAIN entries) : Before(p[1], p[2])}
           date == [i \in 1 .. n |-> entries[i].date]
           order == Ranked(n, before)
<1>1. n \in Nat /\ DOMAIN entries = 1 .. n /\ \A i \in 1 .. n : entries[i].date \in Int
  BY EntriesAreMeasured
<1>2. \A i \in 1 .. n : date[i] \in Int /\ date[i] = entries[i].date
  BY <1>1
<1>3. Sorted = [k \in DOMAIN entries |-> entries[order[k]]]
  BY DEF Sorted
<1> HIDE DEF date, n
<1>4. \A i, j \in 1 .. n : <<i, j>> \in before <=> date[i] < date[j] \/ (date[i] = date[j] /\ i < j)
  BY <1>1, <1>2 DEF Before
<1> HIDE DEF before
<1>5. StrictOrder(before, n)
  <2>1. \A i \in 1 .. n : <<i, i>> \notin before
    BY <1>1, <1>2, <1>4
  <2>2. \A i, j \in 1 .. n : i # j => <<i, j>> \in before \/ <<j, i>> \in before
    BY <1>1, <1>2, <1>4
  <2>3. \A i, j, k \in 1 .. n : <<i, j>> \in before /\ <<j, k>> \in before => <<i, k>> \in before
    BY <1>1, <1>2, <1>4
  <2> QED BY <2>1, <2>2, <2>3 DEF StrictOrder
<1>6. /\ order \in [1 .. n -> 1 .. n]
      /\ \A j \in 1 .. n : \E k \in 1 .. n : order[k] = j
      /\ \A k, l \in 1 .. n : k < l => <<order[k], order[l]>> \in before
  BY <1>1, <1>5, RankedSorts
<1> HIDE DEF order
<1>7. \A i, j \in 1 .. n : i < j => date[order[i]] <= date[order[j]] /\ order[i] # order[j]
  <2> SUFFICES ASSUME NEW i \in 1 .. n, NEW j \in 1 .. n, i < j
               PROVE  date[order[i]] <= date[order[j]] /\ order[i] # order[j]
    OBVIOUS
  <2>1. order[i] \in 1 .. n /\ order[j] \in 1 .. n /\ <<order[i], order[j]>> \in before
    BY <1>6
  <2>2. date[order[i]] < date[order[j]] \/ (date[order[i]] = date[order[j]] /\ order[i] < order[j])
    BY <1>4, <2>1
  <2>3. date[order[i]] \in Int /\ date[order[j]] \in Int /\ order[i] \in Int /\ order[j] \in Int
    BY <1>1, <1>2, <2>1
  <2> QED BY <2>2, <2>3
<1>8. IsInjective(order)
  <2> SUFFICES ASSUME NEW i \in 1 .. n, NEW j \in 1 .. n, order[i] = order[j] PROVE i = j
    BY <1>6 DEF IsInjective
  <2>1. i < j \/ j < i \/ i = j
    BY <1>1
  <2> QED BY <1>7, <2>1
<1>9. \A i, j \in 1 .. n : i < j => Sorted[i].date <= Sorted[j].date
  <2> SUFFICES ASSUME NEW i \in 1 .. n, NEW j \in 1 .. n, i < j PROVE Sorted[i].date <= Sorted[j].date
    OBVIOUS
  <2>1. Sorted[i] = entries[order[i]] /\ Sorted[j] = entries[order[j]]
    BY <1>1, <1>3
  <2>2. date[order[i]] = Sorted[i].date /\ date[order[j]] = Sorted[j].date
    BY <1>2, <1>6, <2>1
  <2> QED BY <1>7, <2>2
<1>10. Reorders(order)
  BY <1>1, <1>3, <1>6, <1>8, <1>9 DEF Reorders
<1> QED BY <1>10

(* The measurements, as the entries list them. *)
Taken == [i \in DOMAIN entries |-> {<<i, k>> : k \in 1 .. Len(entries[i].benches)}]
AllMarks == UNION {Taken[i] : i \in DOMAIN entries}

LEMMA MarksAreCounted ==
  ASSUME Measured(entries)
  PROVE  /\ IsFiniteSet(AllMarks)
         /\ Cardinality(AllMarks) = SumFunction([i \in DOMAIN entries |-> Len(entries[i].benches)])
<1> DEFINE D == DOMAIN entries
<1>1. IsFiniteSet(D)
  BY EntriesAreMeasured, FS_Interval
<1>2. \A i \in D : IsFiniteSet(Taken[i]) /\ Cardinality(Taken[i]) = Len(entries[i].benches)
  <2> TAKE i \in D
  <2> DEFINE l == Len(entries[i].benches)
             f == [k \in 1 .. l |-> <<i, k>>]
             T == {<<i, k>> : k \in 1 .. l}
  <2>1. Taken[i] = T
    BY DEF Taken
  <2>2. l \in Nat
    BY EntriesAreMeasured
  <2> HIDE DEF l
  <2>3. IsFiniteSet(1 .. l) /\ Cardinality(1 .. l) = l
    <3>1. IsFiniteSet(1 .. l) /\ Cardinality(1 .. l) = IF 1 > l THEN 0 ELSE l - 1 + 1
      BY <2>2, FS_Interval
    <3> QED BY <2>2, <3>1
  <2>4. f \in [1 .. l -> T] /\ IsInjective(f) /\ \A y \in T : \E k \in 1 .. l : f[k] = y
    BY DEF IsInjective
  <2> HIDE DEF f, T
  <2>5. IsFiniteSet(T) /\ Cardinality(T) = l
    BY <2>3, <2>4, SameSize
  <2> QED BY <2>1, <2>5 DEF l
<1>3. \A i, j \in D : i # j => Taken[i] \cap Taken[j] = {}
  BY DEF Taken
<1>4. /\ IsFiniteSet(UNION {Taken[i] : i \in D})
      /\ SumFunction([i \in D |-> Cardinality(Taken[i])]) = Cardinality(UNION {Taken[i] : i \in D})
  <2> HIDE DEF D
  <2> QED BY <1>1, <1>2, <1>3, Partition
<1>5. [i \in D |-> Cardinality(Taken[i])] = [i \in D |-> Len(entries[i].benches)]
  BY <1>2
<1> QED BY <1>4, <1>5 DEF AllMarks

(* AllPoints: one for each measurement, in the order of time.              *)
LEMMA PointsAreMeasured ==
  ASSUME Measured(entries)
  PROVE  \A n \in DOMAIN entries :
           /\ PointsOf(entries[n]) \in Seq(ToSet(PointsOf(entries[n])))
           /\ Len(PointsOf(entries[n])) = Len(entries[n].benches)
           /\ \A p \in ToSet(PointsOf(entries[n])) : p.value \in Nat /\ p.date = entries[n].date /\ p.date \in Int
<1> TAKE n \in DOMAIN entries
<1> DEFINE e == entries[n]
           s == PointsOf(e)
           l == Len(e.benches)
<1>1. l \in Nat /\ DOMAIN e.benches = 1 .. l /\ e.date \in Int
  BY EntriesAreMeasured
<1>2. \A k \in 1 .. l : e.benches[k].value \in Nat
  BY <1>1, EntriesAreMeasured
<1> HIDE DEF e, l
<1>3. DOMAIN s = 1 .. l
  BY <1>1 DEF PointsOf
<1>4. \A k \in 1 .. l : s[k].value = e.benches[k].value /\ s[k].date = e.date
  BY <1>1 DEF PointsOf
<1>5. s = [k \in 1 .. l |-> s[k]]
  BY <1>1 DEF PointsOf
<1> HIDE DEF s
<1>6. \A k \in 1 .. l : s[k] \in ToSet(s)
  BY <1>3 DEF ToSet
<1>7. s \in [1 .. l -> ToSet(s)]
  BY <1>5, <1>6
<1>8. s \in Seq(ToSet(s)) /\ Len(s) = l
  <2>1. s \in Seq(ToSet(s))
    BY <1>1, <1>7, SeqDef
  <2> QED BY <1>1, <1>3, <2>1
<1>9. \A p \in ToSet(s) : p.value \in Nat /\ p.date = e.date
  BY <1>2, <1>3, <1>4 DEF ToSet
<1> QED BY <1>1, <1>8, <1>9 DEF s, e, l
LEMMA RecordInTime ==
  ASSUME Measured(entries)
  PROVE  /\ AllPoints \in Seq(ToSet(AllPoints))
         /\ Len(AllPoints) = SumFunction([i \in DOMAIN entries |-> Len(entries[i].benches)])
         /\ \A i \in DOMAIN AllPoints : AllPoints[i].value \in Nat /\ AllPoints[i].date \in Int
         /\ Chronological(AllPoints)
<1> DEFINE L == Len(entries)
           X == UNION {ToSet(PointsOf(entries[n])) : n \in DOMAIN entries}
           seqs == [n \in DOMAIN entries |-> PointsOf(Sorted[n])]
           flat == AllPoints
           size == Len(flat)
<1>1. L \in Nat /\ DOMAIN entries = 1 .. L
  BY EntriesAreMeasured
<1>2. PICK order : Reorders(order)
  BY SortedIsAReordering
<1>3. \A n \in 1 .. L : order[n] \in 1 .. L /\ Sorted[n] = entries[order[n]]
  BY <1>1, <1>2 DEF Reorders
<1>4. \A n \in 1 .. L : /\ seqs[n] \in Seq(X) /\ Len(seqs[n]) = Len(entries[order[n]].benches)
                        /\ \A k \in 1 .. Len(seqs[n]) :
                             /\ seqs[n][k].value \in Nat /\ seqs[n][k].date = Sorted[n].date /\ Sorted[n].date \in Int
  <2> TAKE n \in 1 .. L
  <2> DEFINE s == PointsOf(entries[order[n]])
  <2>1. seqs[n] = s
    BY <1>1, <1>3
  <2>2. order[n] \in DOMAIN entries
    BY <1>1, <1>3
  <2>3. /\ s \in Seq(ToSet(s)) /\ Len(s) = Len(entries[order[n]].benches)
        /\ \A p \in ToSet(s) : p.value \in Nat /\ p.date = entries[order[n]].date /\ p.date \in Int
    BY <2>2, PointsAreMeasured
  <2>4. ToSet(s) \subseteq X
    BY <2>2
  <2> HIDE DEF s, X
  <2>5. PICK l \in Nat : s \in [1 .. l -> ToSet(s)]
    BY <2>3, SeqDef
  <2>6. s \in [1 .. l -> X] /\ Len(s) = l
    BY <2>3, <2>4, <2>5
  <2>7. s \in Seq(X)
    BY <2>5, <2>6, SeqDef
  <2>8. \A k \in 1 .. Len(s) : s[k] \in ToSet(s)
    BY <2>5, <2>6
  <2>9. \A k \in 1 .. Len(s) : s[k].value \in Nat /\ s[k].date = Sorted[n].date /\ Sorted[n].date \in Int
    BY <1>3, <2>3, <2>8
  <2> QED BY <2>1, <2>3, <2>7, <2>9
<1> HIDE DEF X
<1>5. seqs \in Seq(Seq(X)) /\ Len(seqs) = L
  <2>1. seqs \in [1 .. L -> Seq(X)]
    <3>1. \A n \in 1 .. L : seqs[n] \in Seq(X)
      BY <1>4
    <3> QED BY <1>1, <3>1
  <2>2. seqs \in Seq(Seq(X))
    BY <1>1, <2>1, SeqDef
  <2> QED BY <1>1, <2>1, <2>2
<1>6. flat = FlattenSeq(seqs)
  BY DEF AllPoints
<1> HIDE DEF seqs, flat, L
<1>7. flat \in Seq(X) /\ size \in Nat /\ DOMAIN flat = 1 .. size
  <2>1. flat \in Seq(X)
    BY <1>5, <1>6, Flattened
  <2> QED BY <2>1
<1>8. PICK row, col : LaidOut(row, col, flat, seqs, L)
  BY <1>5, <1>6, FlatIsLaidOut
<1> HIDE DEF size
<1>9. /\ row \in [1 .. size -> 1 .. L] /\ col \in [1 .. size -> Nat]
      /\ \A i \in 1 .. size : col[i] \in 1 .. Len(seqs[row[i]]) /\ flat[i] = seqs[row[i]][col[i]]
      /\ \A i, j \in 1 .. size : i < j => row[i] < row[j] \/ (row[i] = row[j] /\ col[i] < col[j])
      /\ \A a \in 1 .. L : \A k \in 1 .. Len(seqs[a]) : \E i \in 1 .. size : row[i] = a /\ col[i] = k
  BY <1>8 DEF LaidOut, size
<1>10. \A i \in 1 .. size : flat[i].value \in Nat /\ flat[i].date = Sorted[row[i]].date /\ flat[i].date \in Int
  BY <1>4, <1>9
<1>11. ASSUME NEW i \in 1 .. size, NEW j \in 1 .. size, i < j PROVE flat[i].date <= flat[j].date
  <2>1. row[i] \in 1 .. L /\ row[j] \in 1 .. L /\ (row[i] < row[j] \/ row[i] = row[j])
    BY <1>9, <1>11
  <2>2. row[i] < row[j] => Sorted[row[i]].date <= Sorted[row[j]].date
    BY <1>1, <1>2, <2>1 DEF Reorders
  <2> QED BY <1>10, <2>1, <2>2
<1>12. flat \in Seq(ToSet(flat))
  <2>1. \A i \in 1 .. size : flat[i] \in ToSet(flat)
    BY <1>7 DEF ToSet
  <2>2. flat \in [1 .. size -> X]
    BY <1>7 DEF size
  <2>3. flat \in [1 .. size -> ToSet(flat)]
    BY <2>1, <2>2
  <2> QED BY <1>7, <2>3, SeqDef
<1>13. size = Cardinality(AllMarks)
  <2> DEFINE f == [i \in 1 .. size |-> <<order[row[i]], col[i]>>]
  <2>1. IsFiniteSet(1 .. size) /\ Cardinality(1 .. size) = size
    <3>1. IsFiniteSet(1 .. size) /\ Cardinality(1 .. size) = IF 1 > size THEN 0 ELSE size - 1 + 1
      BY <1>7, FS_Interval
    <3> QED BY <1>7, <3>1
  <2>2. \A x : x \in AllMarks <=> \E i \in 1 .. L : \E k \in 1 .. Len(entries[i].benches) : x = <<i, k>>
    BY <1>1 DEF AllMarks, Taken
  <2>3. f \in [1 .. size -> AllMarks]
    <3>1. ASSUME NEW i \in 1 .. size PROVE f[i] \in AllMarks
      <4>1. row[i] \in 1 .. L /\ order[row[i]] \in 1 .. L /\ col[i] \in 1 .. Len(entries[order[row[i]]].benches)
        BY <1>3, <1>4, <1>9
      <4> QED BY <2>2, <4>1
    <3> QED BY <3>1
  <2>4. IsInjective(f)
    <3> SUFFICES ASSUME NEW i \in 1 .. size, NEW j \in 1 .. size, f[i] = f[j] PROVE i = j
      BY DEF IsInjective
    <3>1. order[row[i]] = order[row[j]] /\ col[i] = col[j]
      OBVIOUS
    <3>2. row[i] \in 1 .. L /\ row[j] \in 1 .. L /\ col[i] \in Nat /\ col[j] \in Nat
      BY <1>9
    <3>3. row[i] = row[j]
      <4>1. DOMAIN order = 1 .. L /\ IsInjective(order)
        BY <1>1, <1>2 DEF Reorders
      <4> QED BY <3>1, <3>2, <4>1 DEF IsInjective
    <3>4. ~(i < j) /\ ~(j < i)
      BY <1>9, <3>1, <3>2, <3>3
    <3> QED BY <1>7, <3>4
  <2>5. ASSUME NEW y \in AllMarks PROVE \E i \in 1 .. size : f[i] = y
    <3>1. PICK a, k : a \in 1 .. L /\ k \in 1 .. Len(entries[a].benches) /\ y = <<a, k>>
      BY <2>2
    <3>2. PICK b \in 1 .. L : order[b] = a
      <4>1. \A j \in 1 .. L : \E b \in 1 .. L : order[b] = j
        BY <1>1, <1>2 DEF Reorders
      <4> QED BY <3>1, <4>1
    <3>3. k \in 1 .. Len(seqs[b])
      BY <1>4, <3>1, <3>2
    <3>4. PICK i \in 1 .. size : row[i] = b /\ col[i] = k
      BY <1>9, <3>3
    <3> QED BY <3>1, <3>2, <3>4
  <2> HIDE DEF f
  <2> QED BY <2>1, <2>3, <2>4, <2>5, SameSize
<1>14. size = SumFunction([i \in DOMAIN entries |-> Len(entries[i].benches)])
  BY <1>13, MarksAreCounted
<1> QED BY <1>7, <1>10, <1>11, <1>12, <1>14 DEF Chronological, size, flat

(* A metric's series: its measurements, in the order of time.              *)
Spots(m) == {i \in DOMAIN AllPoints : AllPoints[i].name = m}

LEMMA SeriesOfAMetric ==
  ASSUME Measured(entries), NEW m \in Names
  PROVE  /\ Len(Series(m)) = Cardinality(Spots(m)) /\ IsFiniteSet(Spots(m))
         /\ Len(Series(m)) \in Nat \ {0}
         /\ \A i \in 1 .. Len(Series(m)) : Series(m)[i].value \in Nat
         /\ Chronological(Series(m))
<1> DEFINE all == AllPoints
           s == Series(m)
           l == Len(s)
<1>1. /\ all \in Seq(ToSet(all)) /\ Chronological(all)
      /\ \A i \in DOMAIN all : all[i].value \in Nat /\ all[i].date \in Int
  BY RecordInTime
<1>2. s = Kept(all, Spots(m)) /\ Spots(m) \in SUBSET DOMAIN all
  BY DEF Series, Spots
<1>3. s \in Seq(ToSet(all)) /\ l = Cardinality(Spots(m)) /\ IsFiniteSet(Spots(m))
  <2> HIDE DEF all, s
  <2> QED BY <1>1, <1>2, KeptSelects, KeptCounts
<1>4. PICK at : Selects(at, s, all, Spots(m))
  <2> HIDE DEF all, s
  <2> QED BY <1>1, <1>2, KeptSelects
<1>5. \E i \in DOMAIN all : all[i].name = m
  BY DEF Names, ToSet
<1>6. Spots(m) # {}
  BY <1>5 DEF Spots
<1>7. l \in Nat /\ DOMAIN s = 1 .. l
  BY <1>3
<1> HIDE DEF all, s
<1>8. l # 0
  BY <1>3, <1>6, FS_EmptySet
<1> HIDE DEF l
<1>9. /\ at \in [1 .. l -> Spots(m)] /\ \A i \in 1 .. l : s[i] = all[at[i]]
      /\ \A i, j \in 1 .. l : i < j => at[i] < at[j]
  BY <1>4 DEF Selects, l
<1>10. \A i \in 1 .. l : at[i] \in DOMAIN all
  BY <1>2, <1>9
<1>11. \A i \in 1 .. l : s[i].value \in Nat
  BY <1>1, <1>9, <1>10
<1>12. Chronological(s)
  BY <1>1, <1>7, <1>9, <1>10 DEF Chronological
<1> QED BY <1>3, <1>7, <1>8, <1>11, <1>12 DEF l, s

LEMMA NamesAreFinite ==
  ASSUME Measured(entries)
  PROVE  IsFiniteSet(Names)
<1> DEFINE S == ToSet(AllPoints)
           f == [p \in S |-> p.name]
<1>1. AllPoints \in Seq(S)
  BY RecordInTime
<1>2. IsFiniteSet(S)
  <2> HIDE DEF S
  <2>1. IsFiniteSet(ToSet(AllPoints))
    BY <1>1, SequenceIsFinite
  <2> QED BY <2>1 DEF S
<1>3. f = [p \in S |-> f[p]]
  OBVIOUS
<1>4. {f[p] : p \in S} = Names
  BY DEF Names
<1> HIDE DEF f, S
<1> QED BY <1>2, <1>3, <1>4, ImageIsFinite
-----------------------------------------------------------------------------
(* The panels.  Each has a title of its own, and every metric is on one.   *)
LEMMA TitlesAreDistinct ==
  /\ Titles \in Seq(ToSet(Sections) \union {Fallback})
  /\ IsInjective(Titles)
  /\ \A x \in ToSet(Sections) \union {Fallback} : \E n \in DOMAIN Titles : Titles[n] = x
<1> DEFINE n == Len(Sections)
<1>1. Sections \in Seq(ToSet(Sections)) /\ n \in Nat /\ DOMAIN Sections = 1 .. n
  BY SectionAssumption
<1>2. /\ Titles \in Seq(ToSet(Sections) \union {Fallback}) /\ Len(Titles) = n + 1 /\ Titles[n + 1] = Fallback
      /\ \A i \in 1 .. n : Titles[i] = Sections[i]
  BY <1>1 DEF Titles
<1>3. DOMAIN Titles = 1 .. n + 1
  BY <1>1, <1>2
<1>4. \A i \in 1 .. n : Sections[i] \in ToSet(Sections) /\ Sections[i] # Fallback
  BY <1>1, SectionAssumption DEF ToSet
<1>5. \A i, j \in 1 .. n : Sections[i] = Sections[j] => i = j
  BY <1>1, SectionAssumption DEF IsInjective
<1>6. \A x \in ToSet(Sections) : \E i \in 1 .. n : Sections[i] = x
  BY <1>1 DEF ToSet
<1> HIDE DEF n
<1>7. n + 1 \in 1 .. n + 1 /\ \A i \in 1 .. n + 1 : i = n + 1 \/ i \in 1 .. n
  BY <1>1
<1>8. ASSUME NEW i \in 1 .. n + 1, NEW j \in 1 .. n + 1, Titles[i] = Titles[j] PROVE i = j
  <2>1. CASE i \in 1 .. n /\ j \in 1 .. n
    BY <1>2, <1>5, <1>8, <2>1
  <2>2. CASE i \in 1 .. n /\ j = n + 1
    BY <1>2, <1>4, <1>8, <2>2
  <2>3. CASE i = n + 1 /\ j \in 1 .. n
    BY <1>2, <1>4, <1>8, <2>3
  <2> QED BY <1>7, <2>1, <2>2, <2>3
<1>9. ASSUME NEW x \in ToSet(Sections) PROVE \E i \in 1 .. n + 1 : Titles[i] = x
  <2>1. PICK i \in 1 .. n : Sections[i] = x
    BY <1>6
  <2>2. i \in 1 .. n + 1
    BY <1>1
  <2> QED BY <1>2, <2>1, <2>2
<1> QED BY <1>2, <1>3, <1>7, <1>8, <1>9 DEF IsInjective

LEMMA PanelsAreDistinct ==
  /\ Len(Order) \in Nat /\ DOMAIN Order = 1 .. Len(Order)
  /\ IsInjective(Order)
  /\ \A m \in Names : \E n \in DOMAIN Order : Order[n] = SectionOf(m)
<1> DEFINE X == ToSet(Sections) \union {Fallback}
           places == {n \in DOMAIN Titles : Bucket(Titles[n]) # {}}
           o == Order
           l == Len(o)
<1>1. /\ Titles \in Seq(X) /\ IsInjective(Titles) /\ \A x \in X : \E n \in DOMAIN Titles : Titles[n] = x
  BY TitlesAreDistinct
<1>2. o = Kept(Titles, places) /\ places \in SUBSET DOMAIN Titles
  BY DEF Order
<1>3. \A m \in Names : SectionOf(m) \in X
  BY DEF SectionOf
<1>4. \A n \in DOMAIN Titles : \A m \in Names : SectionOf(m) = Titles[n] => n \in places
  BY DEF Bucket
<1>5. DOMAIN Titles \subseteq Int
  BY <1>1
<1> HIDE DEF o, places, X
<1>6. o \in Seq(X)
  BY <1>1, <1>2, KeptSelects
<1>7. PICK at : Selects(at, o, Titles, places)
  BY <1>1, <1>2, KeptSelects
<1>8. l \in Nat /\ DOMAIN o = 1 .. l
  BY <1>6
<1> HIDE DEF l
<1>9. /\ at \in [1 .. l -> places] /\ \A i \in 1 .. l : o[i] = Titles[at[i]]
      /\ \A i, j \in 1 .. l : i < j => at[i] < at[j]
      /\ \A p \in places : \E i \in 1 .. l : at[i] = p
  BY <1>7 DEF Selects, l
<1>10. ASSUME NEW i \in 1 .. l, NEW j \in 1 .. l, o[i] = o[j] PROVE i = j
  <2>1. at[i] \in DOMAIN Titles /\ at[j] \in DOMAIN Titles
    BY <1>2, <1>9
  <2>2. at[i] = at[j]
    BY <1>1, <1>9, <1>10, <2>1 DEF IsInjective
  <2>3. ~(i < j) /\ ~(j < i)
    BY <1>5, <1>9, <2>1, <2>2
  <2> QED BY <1>8, <2>3
<1>11. ASSUME NEW m \in Names PROVE \E i \in 1 .. l : o[i] = SectionOf(m)
  <2>1. PICK n \in DOMAIN Titles : Titles[n] = SectionOf(m)
    BY <1>1, <1>3
  <2>2. n \in places
    BY <1>4, <2>1
  <2>3. PICK i \in 1 .. l : at[i] = n
    BY <1>9, <2>2
  <2> QED BY <1>9, <2>1, <2>3
<1> QED BY <1>8, <1>10, <1>11 DEF IsInjective, l, o

(* A card is one metric's.                                                 *)
LEMMA CardsAreCounted ==
  ASSUME NEW M, IsFiniteSet(M)
  PROVE  IsFiniteSet({Card(m) : m \in M}) /\ Cardinality({Card(m) : m \in M}) = Cardinality(M)
<1> DEFINE T == {Card(m) : m \in M}
           f == [m \in M |-> Card(m)]
<1>1. \A m \in M : Card(m).name = m
  BY DEF Card
<1>2. f \in [M -> T] /\ \A y \in T : \E m \in M : f[m] = y
  OBVIOUS
<1>3. IsInjective(f)
  BY <1>1 DEF IsInjective
<1> HIDE DEF f, T
<1>4. IsFiniteSet(T) /\ Cardinality(T) = Cardinality(M)
  BY <1>2, <1>3, SameSize
<1> QED BY <1>4 DEF T

LEMMA PanelsShowTheNames ==
  /\ DOMAIN Panels = DOMAIN Order /\ AllCards = {Card(m) : m \in Names}
  /\ \A n \in DOMAIN Order : CardsOf(n) = {Card(m) : m \in Bucket(Order[n])}
<1>1. DOMAIN Panels = DOMAIN Order /\ \A n \in DOMAIN Order : CardsOf(n) = {Card(m) : m \in Bucket(Order[n])}
  BY DEF Panels, CardsOf
<1>2. \A m \in Names : \E n \in DOMAIN Order : m \in Bucket(Order[n])
  BY PanelsAreDistinct DEF Bucket
<1>3. AllCards \subseteq {Card(m) : m \in Names}
  BY <1>1 DEF AllCards, Bucket
<1>4. ASSUME NEW m \in Names PROVE Card(m) \in AllCards
  <2>1. PICK n \in DOMAIN Order : m \in Bucket(Order[n])
    BY <1>2
  <2>2. Card(m) \in CardsOf(n)
    BY <1>1, <2>1
  <2> QED BY <1>1, <2>2 DEF AllCards
<1> QED BY <1>1, <1>3, <1>4

(* The panels' cards are as many as the metrics.                           *)
LEMMA CardsAddUp ==
  ASSUME Measured(entries)
  PROVE  SumFunction([n \in DOMAIN Panels |-> Cardinality(CardsOf(n))]) = Cardinality(Names)
<1> DEFINE D == DOMAIN Panels
           B == [n \in D |-> CardsOf(n)]
<1>1. IsFiniteSet(D)
  BY PanelsAreDistinct, PanelsShowTheNames, FS_Interval
<1>2. \A n \in D : IsFiniteSet(B[n])
  <2> TAKE n \in D
  <2>1. Bucket(Order[n]) \in SUBSET Names
    BY DEF Bucket
  <2>2. IsFiniteSet(Bucket(Order[n]))
    BY <2>1, NamesAreFinite, FS_Subset
  <2>3. B[n] = {Card(m) : m \in Bucket(Order[n])}
    BY PanelsShowTheNames
  <2> QED BY <2>2, <2>3, CardsAreCounted
<1>3. ASSUME NEW i \in D, NEW j \in D, i # j PROVE B[i] \cap B[j] = {}
  <2>1. Order[i] # Order[j]
    BY <1>3, PanelsAreDistinct, PanelsShowTheNames DEF IsInjective
  <2>2. \A m \in Bucket(Order[i]) : m \notin Bucket(Order[j])
    BY <2>1 DEF Bucket
  <2>3. \A m : Card(m).name = m
    BY DEF Card
  <2>4. B[i] = {Card(m) : m \in Bucket(Order[i])} /\ B[j] = {Card(m) : m \in Bucket(Order[j])}
    BY PanelsShowTheNames
  <2> QED BY <2>2, <2>3, <2>4
<1>4. UNION {B[n] : n \in D} = {Card(m) : m \in Names}
  BY PanelsShowTheNames DEF AllCards
<1>5. [n \in D |-> Cardinality(CardsOf(n))] = [n \in D |-> Cardinality(B[n])]
  OBVIOUS
<1> HIDE DEF B, D
<1>6. SumFunction([n \in D |-> Cardinality(B[n])]) = Cardinality(UNION {B[n] : n \in D})
  BY <1>1, <1>2, <1>3, Partition
<1>7. Cardinality({Card(m) : m \in Names}) = Cardinality(Names)
  BY NamesAreFinite, CardsAreCounted
<1> QED BY <1>4, <1>5, <1>6, <1>7 DEF D

(* Together the cards account for every measurement, once.                 *)
LEMMA RunsOfAPanel ==
  ASSUME Measured(entries), NEW M \in SUBSET Names
  PROVE  /\ IsFiniteSet(UNION {Spots(m) : m \in M})
         /\ SumFunction([c \in {Card(m) : m \in M} |-> c.runs]) = Cardinality(UNION {Spots(m) : m \in M})
<1> DEFINE C == {Card(m) : m \in M}
           B == [c \in C |-> Spots(c.name)]
<1>1. \A m \in M : Card(m).name = m /\ Card(m).runs = Cardinality(Spots(m)) /\ IsFiniteSet(Spots(m))
  BY SeriesOfAMetric DEF Card
<1>2. \A c \in C : c.name \in M /\ c = Card(c.name)
  BY <1>1
<1>3. IsFiniteSet(C)
  <2>1. IsFiniteSet(M)
    BY NamesAreFinite, FS_Subset
  <2> QED BY <2>1, CardsAreCounted
<1>4. \A c \in C : IsFiniteSet(B[c]) /\ c.runs = Cardinality(B[c]) /\ B[c] = Spots(c.name)
  BY <1>1, <1>2
<1>5. \A c, d \in C : c # d => B[c] \cap B[d] = {}
  BY <1>2, <1>4 DEF Spots
<1>6. UNION {B[c] : c \in C} = UNION {Spots(m) : m \in M}
  <2>1. \A m \in M : Card(m) \in C /\ B[Card(m)] = Spots(m)
    BY <1>1
  <2>2. \A c \in C : \E m \in M : B[c] = Spots(m)
    BY <1>2, <1>4
  <2> HIDE DEF B, C
  <2> QED BY <2>1, <2>2
<1> HIDE DEF B, C
<1>7. [c \in C |-> c.runs] = [c \in C |-> Cardinality(B[c])]
  BY <1>4
<1>8. /\ IsFiniteSet(UNION {B[c] : c \in C})
      /\ SumFunction([c \in C |-> Cardinality(B[c])]) = Cardinality(UNION {B[c] : c \in C})
  <2>1. \A c \in C : IsFiniteSet(B[c])
    BY <1>4
  <2> QED BY <1>3, <1>5, <2>1, Partition
<1> QED BY <1>6, <1>7, <1>8 DEF C

LEMMA RunsAddUp ==
  ASSUME Measured(entries)
  PROVE  SumFunction([n \in DOMAIN Panels |-> SumFunction([c \in CardsOf(n) |-> c.runs])])
           = SumFunction([i \in DOMAIN entries |-> Len(entries[i].benches)])
<1> DEFINE D == DOMAIN Panels
           B == [n \in D |-> UNION {Spots(m) : m \in Bucket(Order[n])}]
           l == Len(AllPoints)
<1>1. IsFiniteSet(D)
  BY PanelsAreDistinct, PanelsShowTheNames, FS_Interval
<1>2. \A n \in D : IsFiniteSet(B[n]) /\ SumFunction([c \in CardsOf(n) |-> c.runs]) = Cardinality(B[n])
  <2> TAKE n \in D
  <2>1. Bucket(Order[n]) \in SUBSET Names
    BY DEF Bucket
  <2>2. CardsOf(n) = {Card(m) : m \in Bucket(Order[n])}
    BY PanelsShowTheNames
  <2>3. B[n] = UNION {Spots(m) : m \in Bucket(Order[n])}
    OBVIOUS
  <2> HIDE DEF B
  <2> QED BY <2>1, <2>2, <2>3, RunsOfAPanel
<1>3. ASSUME NEW i \in D, NEW j \in D, i # j PROVE B[i] \cap B[j] = {}
  <2>1. Order[i] # Order[j]
    BY <1>3, PanelsAreDistinct, PanelsShowTheNames DEF IsInjective
  <2>2. \A m \in Bucket(Order[i]) : \A p \in Bucket(Order[j]) : m # p
    BY <2>1 DEF Bucket
  <2>3. \A m, p : m # p => Spots(m) \cap Spots(p) = {}
    BY DEF Spots
  <2> QED BY <2>2, <2>3
<1>4. UNION {B[n] : n \in D} = DOMAIN AllPoints
  <2>1. \A n \in D : B[n] \subseteq DOMAIN AllPoints
    BY DEF Spots
  <2>2. ASSUME NEW p \in DOMAIN AllPoints PROVE \E n \in D : p \in B[n]
    <3>1. AllPoints[p].name \in Names
      BY DEF Names, ToSet
    <3>2. PICK n \in D : AllPoints[p].name \in Bucket(Order[n])
      BY <3>1, PanelsAreDistinct, PanelsShowTheNames DEF Bucket
    <3> QED BY <3>2 DEF Spots
  <2> HIDE DEF B, D
  <2> QED BY <2>1, <2>2
<1> HIDE DEF B, D
<1>5. [n \in D |-> SumFunction([c \in CardsOf(n) |-> c.runs])] = [n \in D |-> Cardinality(B[n])]
  BY <1>2
<1>6. SumFunction([n \in D |-> Cardinality(B[n])]) = Cardinality(UNION {B[n] : n \in D})
  <2>1. \A n \in D : IsFiniteSet(B[n])
    BY <1>2
  <2> QED BY <1>1, <1>3, <2>1, Partition
<1>7. l \in Nat /\ DOMAIN AllPoints = 1 .. l /\ l = SumFunction([i \in DOMAIN entries |-> Len(entries[i].benches)])
  BY RecordInTime
<1> HIDE DEF l
<1>8. Cardinality(1 .. l) = l
  <2>0. l \in Nat
    BY <1>7
  <2>1. IsFiniteSet(1 .. l) /\ Cardinality(1 .. l) = IF 1 > l THEN 0 ELSE l - 1 + 1
    BY <2>0, FS_Interval
  <2> QED BY <2>0, <2>1
<1> QED BY <1>4, <1>5, <1>6, <1>7, <1>8 DEF D
(* A value more than twice as bad is neither flat nor good on its card.    *)
LEMMA BreachIsBad ==
  ASSUME Measured(entries), NEW m \in Names, Breached(m)
  PROVE  Card(m).delta = "bad"
<1> DEFINE s == Series(m)
           n == Len(s)
           last == s[n]
           prev == s[n - 1].value
           v == last.value
           change == v - prev
<1>1. n \in Nat /\ \A i \in 1 .. n : s[i].value \in Nat
  BY SeriesOfAMetric
<1>2. n >= 2 /\ prev # 0 /\ v # 0 /\ Worse(last, prev)
  BY DEF Breached
<1>3. Card(m).delta = Delta(s)
  BY DEF Card
<1>4. Delta(s) = IF n < 2 \/ prev = 0 THEN "none"
                 ELSE IF 2000 * Size(change) < Size(prev) THEN "flat"
                 ELSE IF (change > 0) = HigherIsBetter(last) THEN "good" ELSE "bad"
  BY DEF Delta
<1> HIDE DEF n
<1>5. n \in 1 .. n /\ n - 1 \in 1 .. n
  BY <1>1, <1>2
<1>6. v \in Nat /\ prev \in Nat
  BY <1>1, <1>5
<1>7. Worse(last, prev) <=> IF HigherIsBetter(last) THEN prev > 2 * v ELSE v > 2 * prev
  BY DEF Worse
<1>8. HigherIsBetter(last) \in BOOLEAN
  BY DEF HigherIsBetter
<1> HIDE DEF s, last, prev, v
<1>9. Size(prev) = prev
  BY <1>6 DEF Size
<1>10. change \in Int /\ Size(change) = IF change < 0 THEN -change ELSE change
  BY <1>6 DEF Size
<1>11. CASE HigherIsBetter(last)
  <2>1. prev > 2 * v
    BY <1>2, <1>7, <1>11
  <2>2. ~(change > 0) /\ ~(2000 * Size(change) < prev)
    BY <1>6, <1>10, <2>1
  <2>3. (change > 0) # HigherIsBetter(last)
    <3>1. HigherIsBetter(last) = TRUE /\ (change > 0) = FALSE
      <4> HIDE DEF change
      <4>1. HigherIsBetter(last) = TRUE
        BY <1>8, <1>11
      <4>2. (change > 0) = FALSE
        BY <2>2
      <4> QED BY <4>1, <4>2
    <3> QED BY <3>1
  <2> HIDE DEF change
  <2>4. ~(n < 2)
    BY <1>1, <1>2
  <2> QED BY <1>2, <1>3, <1>4, <1>9, <2>2, <2>3, <2>4
<1>12. CASE ~HigherIsBetter(last)
  <2>1. v > 2 * prev
    BY <1>2, <1>7, <1>12
  <2>2. change > 0 /\ ~(2000 * Size(change) < prev)
    BY <1>6, <1>10, <2>1
  <2>3. (change > 0) # HigherIsBetter(last)
    BY <1>8, <1>12, <2>2
  <2> HIDE DEF change
  <2>4. ~(n < 2)
    BY <1>1, <1>2
  <2> QED BY <1>2, <1>3, <1>4, <1>9, <2>2, <2>3, <2>4
<1> QED BY <1>11, <1>12

LEMMA BreachesAreShown ==
  ASSUME Measured(entries)
  PROVE  Summary.breaches = Cardinality({c \in AllCards : c.delta = "bad" /\ Breached(c.name)})
<1> DEFINE M == {m \in Names : Breached(m)}
           C == {c \in AllCards : c.delta = "bad" /\ Breached(c.name)}
<1>1. \A m : Card(m).name = m
  BY DEF Card
<1>2. C = {Card(m) : m \in M}
  <2>1. \A m \in M : Card(m) \in C
    BY <1>1, BreachIsBad, PanelsShowTheNames
  <2>2. \A c \in C : \E m \in M : c = Card(m)
    BY <1>1, PanelsShowTheNames
  <2> QED BY <2>1, <2>2
<1>3. IsFiniteSet(M)
  BY NamesAreFinite, FS_Subset
<1>4. Summary.breaches = Cardinality(M)
  BY DEF Summary
<1> QED BY <1>2, <1>3, <1>4, CardsAreCounted

-----------------------------------------------------------------------------
(* The tooltip.  The band under the pointer is that of the nearest dot.    *)
LEMMA NearestBand ==
  ASSUME NEW n \in Nat \ {0}, NEW x \in 0 .. SparkWidth(n)
  PROVE  /\ BandUnder(x, n) \in 1 .. n
         /\ \A k \in 1 .. n : Size(x - DotAt(BandUnder(x, n), n)) <= Size(x - DotAt(k, n))
<1> DEFINE S == {k \in 1 .. n : BandStart(k, n) <= x /\ x <= BandStart(k, n) + BandWidth}
           b == BandUnder(x, n)
<1>1. CASE n = 1
  <2>1. \A k \in 1 .. n : k = 1 /\ k \in S
    BY <1>1 DEF BandStart, BandWidth, SparkWidth
  <2>2. S # {} /\ S \subseteq Int
    BY <2>1
  <2>3. IsFiniteSet(S)
    <3>1. S \in SUBSET (1 .. n) /\ IsFiniteSet(1 .. n)
      BY FS_Interval
    <3> HIDE DEF S
    <3> QED BY <3>1, FS_Subset
  <2>4. b = Max(S)
    BY DEF BandUnder
  <2>5. S \subseteq 1 .. n
    OBVIOUS
  <2> HIDE DEF S, b
  <2>6. b \in 1 .. n
    BY <2>2, <2>3, <2>4, <2>5, Extremes
  <2>7. \A k \in 1 .. n : k = b
    BY <2>1, <2>6
  <2>8. Size(x - DotAt(b, n)) \in Int
    BY <1>1 DEF Size, DotAt, SparkWidth
  <2>9. \A k \in 1 .. n : Size(x - DotAt(b, n)) <= Size(x - DotAt(k, n))
    BY <2>7, <2>8
  <2> QED BY <2>6, <2>9 DEF b
<1>2. CASE n # 1
  <2>1. n >= 2 /\ x \in Int /\ 0 <= x /\ x <= 4 * (n - 1)
    BY <1>2 DEF SparkWidth
  <2>2. /\ S = {k \in 1 .. n : 4 * (k - 1) - 2 <= x /\ x <= 4 * (k - 1) + 2}
        /\ \A k \in 1 .. n : DotAt(k, n) = 4 * (k - 1)
    <3>1. \A k \in 1 .. n : BandStart(k, n) = 4 * (k - 1) - 2 /\ DotAt(k, n) = 4 * (k - 1)
      BY <1>2 DEF BandStart, DotAt
    <3>2. \A k \in 1 .. n : BandStart(k, n) + BandWidth = 4 * (k - 1) + 2
      BY <3>1 DEF BandWidth
    <3> QED BY <3>1, <3>2
  <2>3. S # {}
    <3> DEFINE q == (x + 2) \div 4
    <3>1. q \in Int /\ q * 4 <= x + 2 /\ x + 2 < q * 4 + 4
      <4>1. x + 2 \in Int
        BY <2>1
      <4> QED BY <4>1, Halved
    <3> HIDE DEF q
    <3>2. q + 1 \in 1 .. n /\ 4 * ((q + 1) - 1) - 2 <= x /\ x <= 4 * ((q + 1) - 1) + 2
      BY <2>1, <3>1
    <3> QED BY <2>2, <3>2
  <2>4. S \in SUBSET (1 .. n) /\ S \subseteq Int
    OBVIOUS
  <2>5. b = Max(S)
    BY DEF BandUnder
  <2> HIDE DEF S, b
  <2>6. IsFiniteSet(S)
    <3>1. IsFiniteSet(1 .. n)
      BY FS_Interval
    <3> QED BY <2>4, <3>1, FS_Subset
  <2>7. b \in S
    BY <2>3, <2>4, <2>5, <2>6, Extremes
  <2>8. b \in 1 .. n /\ 4 * (b - 1) - 2 <= x /\ x <= 4 * (b - 1) + 2
    BY <2>2, <2>7
  <2>9. ASSUME NEW k \in 1 .. n PROVE Size(x - 4 * (b - 1)) <= Size(x - 4 * (k - 1))
    <3>1. k = b \/ k >= b + 1 \/ k <= b - 1
      BY <2>8
    <3>2. CASE k = b
      BY <2>1, <2>8, <3>2 DEF Size
    <3>3. CASE k >= b + 1
      BY <2>1, <2>8, <3>3 DEF Size
    <3>4. CASE k <= b - 1
      BY <2>1, <2>8, <3>4 DEF Size
    <3> QED BY <3>1, <3>2, <3>3, <3>4
  <2>10. \A k \in 1 .. n : Size(x - DotAt(b, n)) <= Size(x - DotAt(k, n))
    BY <2>2, <2>8, <2>9
  <2> QED BY <2>8, <2>10 DEF b
<1> QED BY <1>1, <1>2

(* What is drawn is a history; the tooltip shows the point in whose band   *)
(* the pointer is, and its dot is lit.                                     *)
TipAt(m, x) ==
  /\ pointer = <<m, x>> /\ dot = tip
  /\ tip = <<m, BandUnder(x, Len(Series(m)))>>

BenchInv ==
  /\ drawn => entries \in Histories
  /\ tip # NoWhere =>
       drawn /\ \E m \in Names : \E x \in 0 .. SparkWidth(Len(Series(m))) : TipAt(m, x)

LEMMA SameRecord ==
  ASSUME entries' = entries
  PROVE  Names' = Names /\ \A m : Series(m)' = Series(m)
<1>1. AllPoints' = AllPoints
  BY DEF AllPoints, PointsOf, Sorted, Before
<1> QED BY <1>1 DEF Names, Series

LEMMA SameTip == ASSUME BenchInv, UNCHANGED benchVars PROVE BenchInv'
<1>1. UNCHANGED <<entries, drawn, pointer, dot, tip>>
  BY DEF benchVars
<1>2. Names' = Names /\ \A m : Series(m)' = Series(m)
  BY <1>1, SameRecord
<1>3. \A m, x : TipAt(m, x)' <=> TipAt(m, x)
  BY <1>1, <1>2 DEF TipAt
<1> QED BY <1>1, <1>2, <1>3 DEF BenchInv

LEMMA PointerKeepsTip == ASSUME BenchInv, BenchStep PROVE BenchInv'
<1>1. entries' = entries /\ drawn' = drawn
  BY DEF BenchStep, Hover, MoveOut, ScrollBench
<1>2. Names' = Names /\ \A m : Series(m)' = Series(m)
  BY <1>1, SameRecord
<1>3. ASSUME NEW m \in Names, NEW x \in 0 .. SparkWidth(Len(Series(m))), Hover(m, x), tip' # NoWhere
      PROVE  drawn' /\ \E p \in Names' : \E y \in 0 .. SparkWidth(Len(Series(p)')) : TipAt(p, y)'
  <2> DEFINE k == BandUnder(x, Len(Series(m)))
  <2>1. drawn /\ pointer' = <<m, x>>
    BY <1>3 DEF Hover
  <2>2. dot' = tip' /\ tip' = <<m, k>>
    <3>1. CASE dot = <<m, k>>
      <4>1. dot' = dot /\ tip' = tip
        BY <1>3, <3>1 DEF Hover
      <4>2. dot = tip
        BY <1>3, <4>1 DEF BenchInv, TipAt
      <4> QED BY <3>1, <4>1, <4>2
    <3>2. CASE dot # <<m, k>>
      BY <1>3, <3>2 DEF Hover
    <3> QED BY <3>1, <3>2
  <2>3. TipAt(m, x)'
    BY <1>2, <2>1, <2>2 DEF TipAt
  <2>4. m \in Names' /\ x \in 0 .. SparkWidth(Len(Series(m)'))
    BY <1>2
  <2> QED BY <1>1, <2>1, <2>3, <2>4
<1>4. CASE MoveOut \/ ScrollBench
  <2>1. tip' = NoWhere
    BY <1>4 DEF MoveOut, ScrollBench
  <2> QED BY <1>1, <2>1 DEF BenchInv, NoWhere
<1>5. CASE \E m \in Names : \E x \in 0 .. SparkWidth(Len(Series(m))) : Hover(m, x)
  <2>1. tip' # NoWhere =>
          drawn' /\ \E p \in Names' : \E y \in 0 .. SparkWidth(Len(Series(p)')) : TipAt(p, y)'
    BY <1>3, <1>5
  <2>2. \A p : (0 .. SparkWidth(Len(Series(p))))' = 0 .. SparkWidth(Len(Series(p)'))
    BY DEF SparkWidth
  <2>3. drawn' => entries' \in Histories
    BY <1>1 DEF BenchInv
  <2> QED BY <2>1, <2>2, <2>3 DEF BenchInv, NoWhere
<1> QED BY <1>4, <1>5 DEF BenchStep

LEMMA SiteKeepsTip == ASSUME BenchInv, [SiteNext]_siteVars PROVE BenchInv'
<1>1. CASE OpenTheBenchmarks
  <2>1. ~drawn /\ tip' = tip /\ entries' \in Histories
    BY <1>1 DEF OpenTheBenchmarks, OpenBench
  <2>2. tip = NoWhere
    BY <2>1 DEF BenchInv
  <2> QED BY <2>1, <2>2 DEF BenchInv, NoWhere
<1>2. CASE LeaveTheBenchmarks
  BY <1>2 DEF LeaveTheBenchmarks, CloseBench, BenchInv, NoWhere
<1>3. CASE page = "bench" /\ BenchStep /\ UNCHANGED <<vars, guideVars, page>>
  BY <1>3, PointerKeepsTip
<1>4. CASE UNCHANGED benchVars
  BY <1>4, SameTip
<1>5. OpenADashboard \/ LeaveADashboard \/ OpenAGuide \/ LeaveAGuide
        \/ (DashStep /\ UNCHANGED <<benchVars, guideVars, page>>)
        \/ (page = "guide" /\ GuideStep /\ UNCHANGED <<vars, benchVars, page>>)
        \/ UNCHANGED siteVars => UNCHANGED benchVars
  BY DEF OpenADashboard, LeaveADashboard, OpenAGuide, LeaveAGuide, siteVars
<1> QED BY <1>1, <1>2, <1>3, <1>4, <1>5 DEF SiteNext

LEMMA RecordIsTold == ASSUME BenchInv PROVE BenchTellsTheRecord
<1>1. drawn => Measured(entries)
  BY HistoryAssumption DEF BenchInv
<1>2. ASSUME drawn PROVE SummaryAgreesWithCards
  <2>1. Summary.metrics = Cardinality(Names)
    BY DEF Summary
  <2>2. \A m \in Names : Chronological(Series(m))
    BY <1>1, <1>2, SeriesOfAMetric
  <2> QED BY <1>1, <1>2, <2>1, <2>2, RunsAddUp, CardsAddUp, BreachesAreShown DEF SummaryAgreesWithCards
<1>3. ASSUME tip # NoWhere PROVE TipIsTheNearest
  <2>1. drawn
    BY <1>3 DEF BenchInv
  <2>2. PICK m \in Names : \E x \in 0 .. SparkWidth(Len(Series(m))) : TipAt(m, x)
    BY <1>3 DEF BenchInv
  <2>3. PICK x \in 0 .. SparkWidth(Len(Series(m))) : TipAt(m, x)
    BY <2>2
  <2> DEFINE n == Len(Series(m))
  <2>4. n \in Nat \ {0}
    BY <1>1, <2>1, SeriesOfAMetric
  <2>5. tip[1] = m /\ tip[2] = BandUnder(x, n) /\ pointer[1] = m /\ pointer[2] = x /\ dot = tip
    BY <2>3 DEF TipAt
  <2>6. \A k \in 1 .. n : Size(x - DotAt(BandUnder(x, n), n)) <= Size(x - DotAt(k, n))
    <3> HIDE DEF n
    <3>1. x \in 0 .. SparkWidth(n)
      BY DEF n
    <3> QED BY <2>4, <3>1, NearestBand
  <2> QED BY <2>5, <2>6 DEF TipIsTheNearest
<1> QED BY <1>2, <1>3 DEF BenchTellsTheRecord, SummaryAgreesWithCards, TipIsTheNearest

(* For every list of sections and every set of histories: the cards        *)
(* account for every measurement once and in the order of time, the        *)
(* summary counts what they show, whatever breaches CI's threshold shows   *)
(* as a change for the worse, and the tooltip is that of the measurement   *)
(* nearest to the pointer.  init() and the handlers of sparkline.          *)
THEOREM BenchAlwaysTellsTheRecord == SiteSpec => []BenchTellsTheRecord
<1>1. SiteInit => BenchInv
  BY DEF SiteInit, BenchInit, BenchInv, NoWhere
<1> QED BY <1>1, SiteKeepsTip, RecordIsTold, PTL DEF SiteSpec
=============================================================================
