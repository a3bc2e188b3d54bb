----------------------------- MODULE EventStore -----------------------------
(***************************************************************************)
(* The event store: src/episteme/store.py under the delivery path of       *)
(* src/episteme/commands.py.                                               *)
(*                                                                         *)
(* Every process opens the same SQLite database and artifact directory     *)
(* through a Store of its own.  One Store at a time holds the write        *)
(* transaction of BEGIN IMMEDIATE; the others may read the committed       *)
(* state meanwhile.  Each Store keeps a verified copy of the events and of *)
(* the receipts and rereads them only when a cheap fingerprint of the      *)
(* database has moved.  A process may crash at any step, and any process   *)
(* may deliver any envelope at any time, again and again, which covers     *)
(* retries after a lost response and identifiers used twice.               *)
(*                                                                         *)
(* SQLite itself (one writer, atomic commit, snapshot reads) and the file  *)
(* system's atomic rename are taken as given.                              *)
(***************************************************************************)
EXTENDS LedgerData, FiniteSets

CONSTANTS
    Proc,       \* processes, each with one Store
    NoProc,     \* nobody holds the write transaction
    NoEnv,      \* no command is running
    NoReply,    \* no answer is on its way to a caller
    MaxLog      \* bound on the log, for model checking

ASSUME EventStoreAssumption ==
    /\ NoProc \notin Proc
    /\ NoEnv \notin Envelope
    /\ NoReply \notin [env : Envelope, result : Result]
    /\ MaxLog \in Nat

VARIABLES
    log,        \* committed rows of table events
    receipts,   \* committed rows of table command_receipts
    blobs,      \* digests under artifacts/sha256
    acks,       \* history: answers that reached a caller
    owner,      \* the process inside Store.command, or NoProc
    env,        \* its envelope (_command_context)
    rows,       \* events its handler has inserted and not committed
    held,       \* digests its handler got back from put
    poisoned,   \* _command_rollback_only
    saved,      \* the checkpoint taken before BEGIN IMMEDIATE
    cache,      \* per process: verified events (_events)
    rcache,     \* per process: verified receipts (_receipts)
    fresh,      \* per process: the verified copies whose fingerprint still holds
    snap,       \* per process: length of the log its read transaction sees
    reply       \* per process: answer being returned to the caller

disk == <<log, receipts, blobs>>
command == <<owner, env, rows, held, poisoned, saved>>
copies == <<cache, rcache, fresh>>
vars == <<disk, acks, command, copies, snap, reply>>

Copy == {"events", "receipts"}
NoSnap == -1
NothingSaved == [events |-> << >>, receipts |-> {}]

\* A Store runs one call at a time.
Idle(p) == owner # p /\ snap[p] = NoSnap /\ reply[p] = NoReply

Visible(p) == IF owner = p THEN log \o rows ELSE log

Prior(id) == {r \in receipts : r.env.id = id}

-----------------------------------------------------------------------------

Init ==
    /\ log = << >> /\ receipts = {} /\ blobs = {} /\ acks = {}
    /\ owner = NoProc /\ env = NoEnv /\ rows = << >> /\ held = {}
    /\ poisoned = FALSE /\ saved = NothingSaved
    /\ cache = [p \in Proc |-> << >>]
    /\ rcache = [p \in Proc |-> {}]
    /\ fresh = [p \in Proc |-> {}]
    /\ snap = [p \in Proc |-> NoSnap]
    /\ reply = [p \in Proc |-> NoReply]

\* _sync: p's copies become what the database shows it.
Reread(p, which) ==
    /\ cache' = [cache EXCEPT ![p] = Visible(p)]
    /\ rcache' = IF "receipts" \in which THEN [rcache EXCEPT ![p] = receipts] ELSE rcache
    /\ fresh' = [fresh EXCEPT ![p] = @ \cup which]

\* The end of Store.command, with commit or rollback: the context, the
\* rollback-only mark and the transaction are gone.
CloseCommand ==
    /\ owner' = NoProc /\ env' = NoEnv /\ rows' = << >> /\ held' = {}
    /\ poisoned' = FALSE /\ saved' = NothingSaved

\* Mutant: the fingerprint without data_version sees only its own writes.
FingerprintsOfWriterOnly(p) == [fresh EXCEPT ![p] = {}]

\* A commit moves the fingerprint of every Store: data_version for the others,
\* total_changes for the one that wrote.
FingerprintsAfterCommit(p) == [q \in Proc |-> {}]

\* Mutant: the artifacts of a rolled-back handler are cleaned up.
RollbackDeletesArtifacts(p) ==
    /\ cache' = [cache EXCEPT ![p] = saved.events]
    /\ rcache' = [rcache EXCEPT ![p] = saved.receipts]
    /\ fresh' = [fresh EXCEPT ![p] = {}]
    /\ blobs' = blobs \ held
    /\ CloseCommand

\* After ROLLBACK, _restore puts the checkpoint back and forgets both
\* fingerprints.  Artifacts the handler stored stay as orphans.
Rollback(p) ==
    /\ cache' = [cache EXCEPT ![p] = saved.events]
    /\ rcache' = [rcache EXCEPT ![p] = saved.receipts]
    /\ fresh' = [fresh EXCEPT ![p] = {}]
    /\ blobs' = blobs
    /\ CloseCommand

-----------------------------------------------------------------------------
\* Store.command up to the call of the handler.  A busy database makes the
\* caller wait or fail without any effect.

MayBegin(p) == Idle(p) /\ owner = NoProc

\* Mutant: a replay runs the handler again for its result.
ReplayRecomputes(p, e) ==
    /\ MayBegin(p)
    /\ \E r \in Prior(e.id), res \in Result :
         r.env = e /\ reply' = [reply EXCEPT ![p] = [env |-> e, result |-> res]]
    /\ Reread(p, Copy)
    /\ UNCHANGED <<disk, acks, command, snap>>

\* The replay comes before the revision check: a retry carries the revision it
\* expected the first time.  The request hash covers context and request.
Replay(p, e) ==
    /\ MayBegin(p)
    /\ \E r \in Prior(e.id) : r.env = e /\ reply' = [reply EXCEPT ![p] = Answer(r)]
    /\ Reread(p, Copy)
    /\ UNCHANGED <<disk, acks, command, snap>>

\* ConflictError or a causation that is not in the log: roll back, restore.
Refusable(e) ==
    \/ \E r \in Prior(e.id) : r.env # e
    \/ Prior(e.id) = {} /\ (e.expected # Len(log) \/ e.cause > Len(log))

Refuse(p, e) ==
    /\ MayBegin(p)
    /\ Refusable(e)
    /\ fresh' = [fresh EXCEPT ![p] = {}]
    /\ UNCHANGED <<disk, acks, command, cache, rcache, snap, reply>>

Admissible(e) == Prior(e.id) = {} /\ e.expected = Len(log) /\ e.cause =< Len(log)

Begin(p, e) ==
    /\ MayBegin(p)
    /\ Admissible(e)
    /\ saved' = [events |-> cache[p], receipts |-> rcache[p]]
    /\ Reread(p, Copy)
    /\ owner' = p /\ env' = e
    /\ rows' = << >> /\ held' = {} /\ poisoned' = FALSE
    /\ UNCHANGED <<disk, acks, snap, reply>>

-----------------------------------------------------------------------------
\* Inside the handler.

HandlerPut(p, b) ==
    /\ owner = p
    /\ blobs' = blobs \cup {b}
    /\ held' = held \cup {b}
    /\ UNCHANGED <<log, receipts, acks, owner, env, rows, poisoned, saved,
                   copies, snap, reply>>

\* Store.append joins the command: it reads the history for the revision and
\* the previous hash, then inserts.  Inserting moves total_changes.
HandlerAppend(p, b) ==
    /\ owner = p
    /\ b \in held
    /\ ~poisoned
    /\ Len(log) + Len(rows) < MaxLog
    /\ cache' = [cache EXCEPT ![p] = Visible(p)]
    /\ rows' = Append(rows, [actor |-> env.actor, ref |-> b, by |-> env.id])
    /\ fresh' = [fresh EXCEPT ![p] = {}]
    /\ UNCHANGED <<disk, acks, owner, env, held, poisoned, saved, rcache,
                   snap, reply>>

\* An append with another actor or a stale revision, or a nested command.
\* The handler may catch the exception; the mark stays.
HandlerFault(p) ==
    /\ owner = p
    /\ poisoned' = TRUE
    /\ UNCHANGED <<disk, acks, owner, env, rows, held, saved, copies, snap, reply>>

HandlerRead(p) ==
    /\ owner = p
    /\ "events" \notin fresh[p]
    /\ Reread(p, {"events"})
    /\ UNCHANGED <<disk, acks, command, snap, reply>>

-----------------------------------------------------------------------------
\* The handler returned or raised.

\* Mutant: a command without events commits its receipt.
MayCommitEmpty == ~poisoned

MayCommit == ~poisoned /\ rows # << >>

Commit(p, res) ==
    /\ owner = p
    /\ MayCommit
    /\ log' = log \o rows
    /\ receipts' = receipts \cup {[env |-> env, before |-> Len(log),
                                   after |-> Len(log) + Len(rows), result |-> res]}
    /\ cache' = [cache EXCEPT ![p] = log \o rows]
    /\ fresh' = FingerprintsAfterCommit(p)
    /\ reply' = [reply EXCEPT ![p] = [env |-> env, result |-> res]]
    /\ CloseCommand
    /\ UNCHANGED <<blobs, acks, rcache, snap>>

\* Mutant: a rollback-only return leaves its transaction open.
HandlerRaiseUnlessPoisoned(p) ==
    /\ owner = p
    /\ ~poisoned
    /\ Rollback(p)
    /\ UNCHANGED <<log, receipts, acks, snap, reply>>

\* A return without events or after a fault raises too.
HandlerRaise(p) ==
    /\ owner = p
    /\ Rollback(p)
    /\ UNCHANGED <<log, receipts, acks, snap, reply>>

Deliver(p) ==
    /\ reply[p] # NoReply
    /\ acks' = acks \cup {reply[p]}
    /\ reply' = [reply EXCEPT ![p] = NoReply]
    /\ UNCHANGED <<disk, command, copies, snap>>

-----------------------------------------------------------------------------
\* Outside commands.

Put(p, b) ==
    /\ Idle(p)
    /\ b \notin blobs
    /\ blobs' = blobs \cup {b}
    /\ UNCHANGED <<log, receipts, acks, command, copies, snap, reply>>

\* Store.append with a transaction of its own; the caller read rev events.
AppendDirect(p, a, b, rev) ==
    /\ MayBegin(p)
    /\ Len(log) < MaxLog
    /\ rev = Len(log)
    /\ log' = Append(log, [actor |-> a, ref |-> b, by |-> NoCmd])
    /\ cache' = [cache EXCEPT ![p] = log]
    /\ fresh' = FingerprintsAfterCommit(p)
    /\ UNCHANGED <<receipts, blobs, acks, command, rcache, snap, reply>>

AppendConflict(p, rev) ==
    /\ MayBegin(p)
    /\ rev # Len(log)
    /\ fresh' = [fresh EXCEPT ![p] = {}]
    /\ UNCHANGED <<disk, acks, command, cache, rcache, snap, reply>>

\* events(): one select.
ReadEvents(p) ==
    /\ Idle(p)
    /\ "events" \notin fresh[p]
    /\ Reread(p, {"events"})
    /\ UNCHANGED <<disk, acks, command, snap, reply>>

\* receipts(), snapshot() and external_checkpoint(): events, then receipts,
\* both from one read transaction, while another Store may commit.
SnapshotBegin(p) ==
    /\ Idle(p)
    /\ fresh[p] # Copy
    /\ snap' = [snap EXCEPT ![p] = Len(log)]
    /\ cache' = [cache EXCEPT ![p] = log]
    /\ UNCHANGED <<disk, acks, command, rcache, fresh, reply>>

\* The receipts of the commits that the read transaction sees.
ReceiptsInSnapshot(n) == {r \in receipts : r.after =< n}

SnapshotEnd(p) ==
    /\ snap[p] # NoSnap
    /\ rcache' = [rcache EXCEPT ![p] = ReceiptsInSnapshot(snap[p])]
    /\ fresh' = [fresh EXCEPT ![p] = IF snap[p] = Len(log) THEN Copy ELSE {}]
    /\ snap' = [snap EXCEPT ![p] = NoSnap]
    /\ UNCHANGED <<disk, acks, command, cache, reply>>

\* The process dies; the next one opens a Store with nothing verified.  SQLite
\* discards an open transaction.
Crash(p) ==
    /\ IF owner = p THEN CloseCommand ELSE UNCHANGED command
    /\ cache' = [cache EXCEPT ![p] = << >>]
    /\ rcache' = [rcache EXCEPT ![p] = {}]
    /\ fresh' = [fresh EXCEPT ![p] = {}]
    /\ snap' = [snap EXCEPT ![p] = NoSnap]
    /\ reply' = [reply EXCEPT ![p] = NoReply]
    /\ UNCHANGED <<disk, acks>>

-----------------------------------------------------------------------------

Next ==
    \E p \in Proc :
        \/ \E e \in Envelope : Replay(p, e) \/ Refuse(p, e) \/ Begin(p, e)
        \/ \E b \in Blob : HandlerPut(p, b) \/ HandlerAppend(p, b) \/ Put(p, b)
        \/ HandlerFault(p)
        \/ HandlerRead(p)
        \/ \E res \in Result : Commit(p, res)
        \/ HandlerRaise(p)
        \/ Deliver(p)
        \/ \E a \in Actor, b \in blobs, rev \in 0 .. MaxLog : AppendDirect(p, a, b, rev)
        \/ \E rev \in 0 .. MaxLog : AppendConflict(p, rev)
        \/ ReadEvents(p)
        \/ SnapshotBegin(p)
        \/ SnapshotEnd(p)
        \/ Crash(p)

Spec == Init /\ [][Next]_vars

\* Handlers are short and never wait for external work, so each one returns
\* or raises.
HandlerEnds(p) == HandlerRaise(p) \/ \E res \in Result : Commit(p, res)

FairSpec == Spec /\ \A p \in Proc : WF_vars(HandlerEnds(p))

-----------------------------------------------------------------------------
\* Properties.

TypeOK ==
    /\ log \in Seq(Event)
    /\ receipts \subseteq Receipt
    /\ blobs \subseteq Blob
    /\ acks \subseteq [env : Envelope, result : Result]
    /\ owner \in Proc \cup {NoProc}
    /\ env \in Envelope \cup {NoEnv}
    /\ rows \in Seq(Event)
    /\ held \subseteq Blob
    /\ poisoned \in BOOLEAN
    /\ saved \in [events : Seq(Event), receipts : SUBSET Receipt]
    /\ cache \in [Proc -> Seq(Event)]
    /\ rcache \in [Proc -> SUBSET Receipt]
    /\ fresh \in [Proc -> SUBSET Copy]
    /\ snap \in [Proc -> Int]
    /\ reply \in [Proc -> [env : Envelope, result : Result] \cup {NoReply}]

Promise == INSTANCE Ledger

\* store.py keeps the promise of Ledger: every committed state and every
\* delivered answer follow from its three actions, through every interleaving,
\* crash, retry and reuse of an identifier.
KeepsPromise == Promise!Spec

\* The effect of a command is in the log exactly once, under its receipt; every
\* stored receipt passes _verify_receipt and _ordered_receipts; a delivered
\* answer is durable and every later delivery agrees with it (Store.command's
\* replay path and its one commit).
AnswersHold == Promise!Safe

\* The fast path of _sync: a copy whose fingerprint still holds equals what
\* the database shows, so returning it without reading a row is right.
CacheCoherent ==
    \A p \in Proc :
        /\ "events" \in fresh[p] => cache[p] = Visible(p)
        /\ "receipts" \in fresh[p] => rcache[p] = receipts

\* Rows of a command that rolled back are in no verified copy afterwards:
\* outside its own command a Store holds a prefix of the committed chain.
NoGhostRows ==
    \A p \in Proc : owner # p => /\ ExtendedFrom(cache[p], log)
                                 /\ rcache[p] \subseteq receipts

\* The receipts a Store verified never bind events beyond the events it
\* verified with them; otherwise _verify_receipt would report a sound store as
\* corrupt (the snapshot of receipts() and snapshot()).
ReceiptsWithinEvents ==
    \A p \in Proc : \A r \in rcache[p] : r.after =< Len(cache[p])

\* What a Store answers from without reading a row is what the database
\* committed, in copies that belong together.
CopiesAreTrue == CacheCoherent /\ NoGhostRows /\ ReceiptsWithinEvents

\* Every artifact a committed event names can be read, also after the command
\* that first stored it rolled back or its process died.
NoDanglingArtifact == \A i \in Ranks(log) : log[i].ref \in blobs

\* No step changes or drops a committed event or receipt.
AppendOnly == Promise!AppendOnly

\* A command that got the write lock gives it back, whatever its handler does.
LockIsReleased == \A p \in Proc : owner = p ~> owner # p

=============================================================================
