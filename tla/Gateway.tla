------------------------------- MODULE Gateway -------------------------------
(***************************************************************************)
(* Who may do what over HTTP, and what is left on record: the request      *)
(* handlers of server.ml with keystore.ml, ticket.ml and rate_limit.ml,    *)
(* on top of the audit log.  The server is one Lwt thread that does not    *)
(* yield inside a request; the key file is edited by other processes at    *)
(* any time, even between the stat and the read of a reload.  Time passes  *)
(* in ticks.  Passwords and digests are left out: a credential is a key id *)
(* or something that no key verifies.                                      *)
(***************************************************************************)
EXTENDS AuditLog

CONSTANTS Kids,
          Peers,     \* connections: server.ml names a peer by its address and port
          Reload, Window, MaxFailures, Ttl, Capacity,  \* the code's limits
          Lease,     \* what keyctl expire is asked for
          Budgets    \* bounds of the model; a behaviour stays within one

ASSUME GatewayAssumption ==
  /\ {Reload, Window, MaxFailures, Ttl, Capacity, Lease} \subseteq Nat \ {0}
  /\ Budgets \subseteq [time : Nat, edits : Nat, records : Nat, tickets : Nat,
                        faults : Nat, days : Nat]

VARIABLES
  budget,     \* constant
  now,
  disk,       \* the key file: version (mtime and size), mode, keys
  edits,      \* times it was changed
  store,      \* Keystore.t: time of the last stat, version, keys
  fails,      \* Rate_limit.t: failures per peer and when the first one was
  tickets,    \* Ticket.t: oldest first
  clients,    \* open event streams
  changedAt,  \* when the file last said something new of a key, or became or
              \* stopped being one that a reload takes up (history)
  acted,      \* who was served, and what, in this tick (history)
  refusals,   \* when handle_api refused a peer a credential, all in a row; it records
              \* each in the log (history)
  minted,     \* times tickets were minted since the daemon started; a ticket
              \* is its index (history)
  redeemed,   \* tickets in the order streams were opened, with age (history)
  commands    \* control requests that were answered, with day (history)

streams == <<tickets, clients, minted, redeemed>>
memory == <<store, fails, refusals, streams>>
fileVars == <<disk, edits, changedAt>>
history == <<acted, commands>>
vars == <<budget, now, fileVars, memory, history, auditVars>>

-----------------------------------------------------------------------------
(* Keys.  A key that is not in the file is never live. *)

Never == 1000
Key(scope, revoked, expires) ==
  [scope |-> scope, revoked |-> revoked, expires |-> expires]
Absent == Key("none", FALSE, 0)

LiveKey(key) == ~key.revoked /\ now < key.expires

(* Scope.satisfies: control implies read. *)
Satisfies(key, need) == need = "read" \/ key.scope = "control"

(* A mode of "fixed" is readable again without the file having changed. *)
Good(file) == file.mode \in {"ok", "fixed"}

(* What one keyctl command may make of the keys: add, expire, revoke, prune.*)
Edited(keys) ==
  (UNION {{[keys EXCEPT ![k] = Key(s, FALSE, Never)] : s \in {"read", "control"}}
           : k \in {x \in Kids : keys[x] = Absent}})
  \union {[keys EXCEPT ![k].expires = now + Lease] : k \in {x \in Kids : keys[x] # Absent}}
  \union {[keys EXCEPT ![k].revoked = TRUE] : k \in {x \in Kids : keys[x] # Absent}}
  \union {[k \in Kids |-> IF LiveKey(keys[k]) THEN keys[k] ELSE Absent]}

Rewritten(mode, keys) == [ver |-> disk.ver + 1, mode |-> mode, keys |-> keys]

(* keyctl refuses a file it cannot load, and renames a new one into place. *)
Saved == IF Good(disk) /\ edits < budget.edits
         THEN {Rewritten("ok", keys) : keys \in Edited(disk.keys) \ {disk.keys}}
         ELSE {}

Replaced(file) ==
  /\ disk' = file
  /\ edits' = IF file = disk THEN edits ELSE edits + 1
  /\ changedAt' = [k \in Kids |->
       IF file.keys[k] # disk.keys[k] \/ file.mode # disk.mode
       THEN now ELSE changedAt[k]]

-----------------------------------------------------------------------------
(* Keystore *)

Due == now - store.stat >= Reload

(* Wrong variant: the version is taken after the keys. *)
ReloadedVersionLast(file) ==
  IF ~Due THEN store
  ELSE IF disk.ver = store.ver THEN [store EXCEPT !.stat = now]
  ELSE [stat |-> now, ver |-> file.ver,
        keys |-> IF Good(disk) THEN disk.keys ELSE store.keys]

(* maybe_reload: disk is the file at the stat, `file` the one that is read.*)
(* A file that does not load is not tried again until it changes.          *)
Reloaded(file) ==
  IF ~Due THEN store
  ELSE IF disk.ver = store.ver THEN [store EXCEPT !.stat = now]
  ELSE [stat |-> now, ver |-> disk.ver,
        keys |-> IF Good(file) THEN file.keys ELSE store.keys]

(* The file may be replaced between the stat and the read. *)
AtRead == IF Due /\ disk.ver # store.ver THEN {disk} \union Saved ELSE {disk}

(* Every authentication and every is_live starts with a reload. *)
Consult == \E file \in AtRead : Replaced(file) /\ store' = Reloaded(file)

(* authenticate, with the keys just reloaded. *)
Refused(cred) == cred \in Kids => ~LiveKey(store'.keys[cred])
Accepted(cred, need) == ~Refused(cred) /\ Satisfies(store'.keys[cred], need)

-----------------------------------------------------------------------------
(* Rate_limit *)

Fresh == [n |-> 0, first |-> 0]

(* Wrong variant: the time of the first failure is not noted. *)
NotedUntimed(p) == [fails[p] EXCEPT !.n = @ + 1]

(* expire: a window that has elapsed is forgotten. *)
Expired(p) == IF fails[p].n > 0 /\ now - fails[p].first >= Window THEN Fresh ELSE fails[p]

Limited(p) == Expired(p).n >= MaxFailures

Noted(p) == LET s == Expired(p)
            IN  [n |-> s.n + 1, first |-> IF s.n = 0 THEN now ELSE s.first]

NoteFailure(p) == /\ fails' = [fails EXCEPT ![p] = Noted(p)]
                  /\ refusals' = [refusals EXCEPT ![p] = Append(@, now)]

NoteSuccess(p) == /\ fails' = [fails EXCEPT ![p] = Fresh]
                  /\ refusals' = [refusals EXCEPT ![p] = <<>>]

-----------------------------------------------------------------------------
(* Ticket *)

(* The elements of s at the indices in keep, in their order: SelectSeq, as *)
(* a recursive function that a proof can unfold.                           *)
Filtered(s, keep) ==
  LET F[i \in 0 .. Len(s)] == IF i = 0 THEN <<>>
                              ELSE IF i \in keep THEN Append(F[i - 1], s[i]) ELSE F[i - 1]
  IN  F[Len(s)]

Swept == Filtered(tickets, {i \in DOMAIN tickets : now - tickets[i].minted < Ttl})

(* Wrong variant: a ticket stays in the table. *)
TakenNot(i) == Swept

(* The oldest makes room when the table is full. *)
Room(s) == IF Len(s) >= Capacity THEN Tail(s) ELSE s

(* The table without its i-th live ticket. *)
Taken(i) == SubSeq(Swept, 1, i - 1) \o SubSeq(Swept, i + 1, Len(Swept))

-----------------------------------------------------------------------------
(* Requests.  Each is answered in one step; writer.open says the daemon is *)
(* up.  A peer over its budget is answered 429 and nothing changes.        *)

Up == writer.open
Admitted(p) == Up /\ ~Limited(p)

Audited == LogRecord /\ count < budget.records /\ faults' <= budget.faults
Unaudited == UNCHANGED auditVars

(* Wrong variant: a command that succeeds leaves no record. *)
ServedSilently(p, k, need, raises) ==
  /\ Admitted(p)
  /\ Consult
  /\ Accepted(k, need)
  /\ NoteSuccess(p)
  /\ acted' = acted \union {<<k, need>>}
  /\ commands' = IF need = "control" THEN commands \union {<<count + 1, today>>} ELSE commands
  /\ IF raises THEN Audited ELSE Unaudited
  /\ UNCHANGED <<budget, now, streams>>

(* handle_api, one action per way a request ends. *)
ApiNoCredential(p) ==
  /\ Admitted(p)
  /\ NoteFailure(p)
  /\ Audited
  /\ UNCHANGED <<budget, now, fileVars, store, streams, history>>

ApiRefused(p, cred) ==
  /\ Admitted(p)
  /\ Consult
  /\ Refused(cred)
  /\ NoteFailure(p)
  /\ Audited
  /\ UNCHANGED <<budget, now, streams, history>>

(* The key is good but its scope is not: the peer's failures are cleared.  *)
ApiForbidden(p, k) ==
  /\ Admitted(p)
  /\ Consult
  /\ ~Refused(k) /\ ~Accepted(k, "control")
  /\ NoteSuccess(p)
  /\ Audited
  /\ UNCHANGED <<budget, now, streams, history>>

(* The handler runs, and may raise; control requests are always recorded.  *)
ApiServed(p, k, need, raises) ==
  /\ Admitted(p)
  /\ Consult
  /\ Accepted(k, need)
  /\ NoteSuccess(p)
  /\ acted' = acted \union {<<k, need>>}
  /\ commands' = IF need = "control" THEN commands \union {<<count + 1, today>>} ELSE commands
  /\ IF need = "control" \/ raises THEN Audited ELSE Unaudited
  /\ UNCHANGED <<budget, now, streams>>

(* A public route is served to anyone; only a handler that raises shows.   *)
ApiPublicRaises ==
  Up /\ Audited /\ UNCHANGED <<budget, now, fileVars, memory, history>>

(* handle_stream_ticket: neither limited, counted nor recorded. *)
StreamTicket(cred) ==
  /\ Up
  /\ Consult
  /\ IF Accepted(cred, "read")
     THEN /\ Len(minted) < budget.tickets
          /\ minted' = Append(minted, now)
          /\ tickets' = Append(Room(Swept), [id |-> Len(minted) + 1, kid |-> cred, minted |-> now])
     ELSE UNCHANGED <<minted, tickets>>
  /\ Unaudited
  /\ UNCHANGED <<budget, now, fails, refusals, clients, redeemed, history>>

(* handle_events_authenticated; the first frame is sent with the answer.   *)
OpenStream(i) ==
  /\ Up
  /\ i \in 1 .. Len(Swept)
  /\ tickets' = Taken(i)
  /\ clients' = clients \union {[id |-> Swept[i].id, kid |-> Swept[i].kid]}
  /\ redeemed' = Append(redeemed, <<Swept[i].id, now - Swept[i].minted>>)
  /\ Unaudited
  /\ UNCHANGED <<budget, now, fileVars, store, fails, refusals, minted, history>>

OpenStreamRefused ==
  /\ Up
  /\ tickets' = Swept
  /\ Unaudited
  /\ UNCHANGED <<budget, now, fileVars, store, fails, refusals, clients, minted, redeemed, history>>

(* handle_metrics: neither limited, counted nor recorded. *)
Metrics(cred) ==
  /\ Up
  /\ Consult
  /\ acted' = IF Accepted(cred, "read") THEN acted \union {<<cred, "read">>} ELSE acted
  /\ Unaudited
  /\ UNCHANGED <<budget, now, fails, refusals, streams, commands>>

(* The push loop: streams of keys that are not live are dropped, then the  *)
(* rest get a frame; a stream whose peer has gone is dropped as well, and  *)
(* nothing is sent when taking the snapshot raises.                        *)
Push ==
  /\ Up /\ clients # {}
  /\ Consult
  /\ LET kept == {c \in clients : LiveKey(store'.keys[c.kid])}
     IN  \/ \E there \in SUBSET kept :
              /\ clients' = there
              /\ acted' = acted \union {<<c.kid, "read">> : c \in there}
         \/ clients' = kept /\ UNCHANGED acted
  /\ Unaudited
  /\ UNCHANGED <<budget, now, fails, refusals, tickets, minted, redeemed, commands>>

-----------------------------------------------------------------------------
(* The daemon's life, the key file and the clock. *)

NoKeys == [k \in Kids |-> Absent]

Forgotten == /\ store' = [stat |-> 0, ver |-> 0, keys |-> NoKeys]
             /\ fails' = [p \in Peers |-> Fresh]
             /\ tickets' = <<>>
             /\ clients' = {}
             /\ minted' = <<>> /\ redeemed' = <<>>
             /\ refusals' = [p \in Peers |-> <<>>]

(* The daemon refuses to start without a key file that loads or a log that *)
(* opens.                                                                  *)
Start == /\ Good(disk)
         /\ Open
         /\ faults' <= budget.faults
         /\ store' = IF writer'.open THEN [stat |-> 0, ver |-> disk.ver, keys |-> disk.keys]
                     ELSE store
         /\ UNCHANGED <<budget, now, fileVars, fails, refusals, streams, history>>

Stop == Exit /\ Forgotten /\ UNCHANGED <<budget, now, fileVars, history>>

Crash == /\ DieAppending
         /\ count < budget.records /\ faults' <= budget.faults
         /\ Forgotten
         /\ UNCHANGED <<budget, now, fileVars, history>>

Keyctl == /\ \E file \in Saved : Replaced(file)
          /\ Unaudited
          /\ UNCHANGED <<budget, now, memory, history>>

(* An editor leaves a file that does not parse, or one others may read; it *)
(* is put right by another edit, or by chmod alone.                        *)
EditByHand ==
  /\ edits < budget.edits
  /\ \/ \E mode \in {"json", "mode"}, k \in Kids :
          Replaced(Rewritten(mode, [disk.keys EXCEPT ![k].revoked = TRUE]))
     \/ disk.mode = "json" /\ Replaced(Rewritten("ok", disk.keys))
     \/ disk.mode = "mode" /\ Replaced([disk EXCEPT !.mode = "fixed"])
  /\ Unaudited
  /\ UNCHANGED <<budget, now, memory, history>>

Midnight == /\ NextDay /\ today < budget.days
            /\ UNCHANGED <<budget, now, fileVars, memory, history>>

Tick == /\ now < budget.time
        /\ now' = now + 1
        /\ acted' = {}
        /\ Unaudited
        /\ UNCHANGED <<budget, fileVars, memory, commands>>

Init == /\ AuditInit
        /\ budget \in Budgets
        /\ now = Reload
        /\ \E keys \in [Kids -> {Key("read", FALSE, Never), Key("control", FALSE, Never)}] :
             disk = [ver |-> 1, mode |-> "ok", keys |-> keys]
        /\ edits = 0
        /\ store = [stat |-> 0, ver |-> 0, keys |-> NoKeys]
        /\ fails = [p \in Peers |-> Fresh]
        /\ tickets = <<>> /\ clients = {}
        /\ refusals = [p \in Peers |-> <<>>]
        /\ changedAt = [k \in Kids |-> 0]
        /\ acted = {} /\ minted = <<>> /\ redeemed = <<>> /\ commands = {}

Wrong == "no such key"

Next == \/ \E p \in Peers :
             \/ ApiNoCredential(p)
             \/ \E cred \in Kids \union {Wrong} : ApiRefused(p, cred)
             \/ \E k \in Kids :
                  \/ ApiForbidden(p, k)
                  \/ \E need \in {"read", "control"}, raises \in BOOLEAN :
                       ApiServed(p, k, need, raises)
        \/ \E cred \in Kids \union {Wrong} : StreamTicket(cred) \/ Metrics(cred)
        \/ \E i \in 1 .. Capacity : OpenStream(i)
        \/ OpenStreamRefused \/ ApiPublicRaises \/ Push
        \/ Start \/ Stop \/ Crash \/ Keyctl \/ EditByHand \/ Midnight \/ Tick

Spec == Init /\ [][Next]_vars

-----------------------------------------------------------------------------
(* Type invariant of the server's state. *)
Keys == [scope : {"none", "read", "control"}, revoked : BOOLEAN, expires : Nat]
TypeOK ==
  /\ disk \in [ver : Nat, mode : {"ok", "mode", "json", "fixed"}, keys : [Kids -> Keys]]
  /\ store \in [stat : Nat, ver : Nat, keys : [Kids -> Keys]]
  /\ fails \in [Peers -> [n : 0 .. MaxFailures, first : Nat]]
  /\ tickets \in Seq([id : Nat, kid : Kids, minted : Nat]) /\ Len(tickets) <= Capacity
  /\ clients \subseteq [id : Nat, kid : Kids]
  /\ ~Up => tickets = <<>> /\ clients = {}

Entitled(k, need) == LiveKey(disk.keys[k]) /\ Satisfies(disk.keys[k], need)

(* Once a reload interval has passed since the file said so, nobody is     *)
(* served a request or a pushed frame that the file does not entitle them  *)
(* to, whatever raced with the reload.  While the file cannot be loaded,   *)
(* and after it was put right by chmod alone, the old keys stay in force.  *)
RevocationBites ==
  \A a \in acted : disk.mode = "ok" /\ now >= changedAt[a[1]] + Reload => Entitled(a[1], a[2])

(* A ticket opens one stream, while it is fresh; and it is still good as   *)
(* long as it is fresh and the table was not filled up behind it.          *)
TicketsAreGoodOnce ==
  /\ \A i \in 1 .. Len(redeemed) :
       /\ redeemed[i][2] < Ttl
       /\ \A j \in 1 .. i - 1 : redeemed[j][1] # redeemed[i][1]
  /\ Up => \A n \in 1 .. Len(minted) :
       \/ now - minted[n] >= Ttl \/ Len(minted) - n >= Capacity
       \/ \E i \in 1 .. Len(redeemed) : redeemed[i][1] = n
       \/ \E i \in 1 .. Len(tickets) : tickets[i].id = n

(* rate_limit.ml protects the audit log, which records every refusal of    *)
(* handle_api: however one connection times its requests, 2 * MaxFailures  *)
(* refusals in a row take it at least a window.  The ticket and the        *)
(* metrics endpoint refuse without counting or recording, and a client     *)
(* that connects anew starts afresh: neither is bounded.                   *)
RefusalsBounded ==
  \A p \in Peers : \A i \in 1 .. Len(refusals[p]) - (2 * MaxFailures - 1) :
     refusals[p][i + 2 * MaxFailures - 1] - refusals[p][i] >= Window

(* A control request that was answered is in the verified part of the log  *)
(* of its day, or writing that day's log went wrong.                       *)
CommandsAreOnRecord ==
  \A c \in commands : c[1] \in RecordsOf(files[c[2]]) \/ c[2] \in hurt
=============================================================================
