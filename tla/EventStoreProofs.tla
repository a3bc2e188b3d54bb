-------------------------- MODULE EventStoreProofs --------------------------
(***************************************************************************)
(* EventStore.tla implements Ledger.tla, for every number of processes,    *)
(* identifiers, envelopes and events.  The inductive invariant says what   *)
(* the write lock protects between BEGIN IMMEDIATE and COMMIT: the open    *)
(* command is still admissible, its rows are its own, and every answer on  *)
(* its way to a caller is the answer of a committed receipt.  A second one *)
(* says what the Stores have verified: outside commands a copy is a prefix *)
(* of the committed chain with receipts that fit it, and a copy whose      *)
(* fingerprint holds is current.                                           *)
(***************************************************************************)
EXTENDS EventStore, SequenceTheorems, TLAPS

\* What Store.command checked under the write lock still holds when it commits.
CommandAdmissible ==
    owner # NoProc =>
        /\ env \in Envelope
        /\ Admissible(env)
        /\ \A i \in Ranks(rows) : rows[i].by = env.id /\ rows[i].actor = env.actor

ReplyRecorded ==
    \A p \in Proc : reply[p] # NoReply => \E r \in receipts : reply[p] = Answer(r)

IInv == TypeOK /\ CommandAdmissible /\ ReplyRecorded

-----------------------------------------------------------------------------

LEMMA NothingTyped ==
    /\ << >> \in Seq(Event)
    /\ NothingSaved \in [events : Seq(Event), receipts : SUBSET Receipt]
  <1>1. << >> \in Seq(Event)
    OBVIOUS
  <1>2. {} \in SUBSET Receipt
    OBVIOUS
  <1> QED
    BY <1>1, <1>2 DEF NothingSaved

LEMMA InitIInv == Init => IInv
  <1> SUFFICES ASSUME Init PROVE IInv
    OBVIOUS
  <1>1. TypeOK
    <2>1. cache \in [Proc -> Seq(Event)] /\ rcache \in [Proc -> SUBSET Receipt]
      BY NothingTyped DEF Init
    <2>2. fresh \in [Proc -> SUBSET Copy] /\ snap \in [Proc -> Int]
      BY DEF Init, NoSnap
    <2>3. reply \in [Proc -> [env : Envelope, result : Result] \cup {NoReply}]
      BY DEF Init
    <2> QED
      BY <2>1, <2>2, <2>3, NothingTyped DEF Init, TypeOK
  <1>2. CommandAdmissible /\ ReplyRecorded
    BY DEF Init, CommandAdmissible, ReplyRecorded
  <1> QED
    BY <1>1, <1>2 DEF IInv

LEMMA VisibleTyped ==
    ASSUME TypeOK, NEW p \in Proc
    PROVE  Visible(p) \in Seq(Event)
  BY DEF TypeOK, Visible

LEMMA RereadTyped ==
    ASSUME TypeOK, NEW p \in Proc, NEW which \in SUBSET Copy, Reread(p, which)
    PROVE  /\ cache' \in [Proc -> Seq(Event)]
           /\ rcache' \in [Proc -> SUBSET Receipt]
           /\ fresh' \in [Proc -> SUBSET Copy]
  BY VisibleTyped DEF TypeOK, Reread

LEMMA CloseTyped ==
    ASSUME CloseCommand
    PROVE  /\ owner' = NoProc /\ env' = NoEnv /\ rows' \in Seq(Event)
           /\ held' \subseteq Blob /\ poisoned' \in BOOLEAN
           /\ saved' \in [events : Seq(Event), receipts : SUBSET Receipt]
  BY NothingTyped DEF CloseCommand

LEMMA RollbackTyped ==
    ASSUME TypeOK, NEW p \in Proc, Rollback(p)
    PROVE  /\ cache' \in [Proc -> Seq(Event)]
           /\ rcache' \in [Proc -> SUBSET Receipt]
           /\ fresh' \in [Proc -> SUBSET Copy]
           /\ blobs' \subseteq Blob
  BY DEF TypeOK, Rollback

LEMMA CommitReceipt ==
    ASSUME TypeOK, CommandAdmissible, NEW p \in Proc, NEW res \in Result, Commit(p, res)
    PROVE  /\ env \in Envelope
           /\ log' \in Seq(Event)
           /\ [env |-> env, before |-> Len(log), after |-> Len(log) + Len(rows),
               result |-> res] \in Receipt
  <1>1. env \in Envelope
    BY EventStoreAssumption DEF CommandAdmissible, Commit
  <1>2. log' \in Seq(Event)
    BY DEF TypeOK, Commit
  <1>3. Len(log) \in Nat /\ Len(log) + Len(rows) \in Nat
    BY DEF TypeOK
  <1> QED
    BY <1>1, <1>2, <1>3 DEF Receipt

\* Every action of the store keeps its types.
LEMMA NextTyped ==
    ASSUME IInv, [Next]_vars
    PROVE  TypeOK'
  <1> USE DEF IInv
  <1>0. CASE UNCHANGED vars
    BY <1>0 DEF TypeOK, vars, disk, command, copies
  <1> SUFFICES ASSUME NEW p \in Proc,
                      \/ \E e \in Envelope : Replay(p, e) \/ Refuse(p, e) \/ Begin(p, e)
                      \/ \E b \in Blob : HandlerPut(p, b) \/ HandlerAppend(p, b) \/ Put(p, b)
                      \/ HandlerFault(p)
                      \/ HandlerRead(p)
                      \/ \E res \in Result : Commit(p, res)
                      \/ HandlerRaise(p)
                      \/ Deliver(p)
                      \/ \E a \in Actor, b \in blobs, rev \in 0 .. MaxLog :
                           AppendDirect(p, a, b, rev)
                      \/ \E rev \in 0 .. MaxLog : AppendConflict(p, rev)
                      \/ ReadEvents(p)
                      \/ SnapshotBegin(p)
                      \/ SnapshotEnd(p)
                      \/ Crash(p)
               PROVE  TypeOK'
    BY <1>0 DEF Next
  <1>1. ASSUME NEW e \in Envelope, Replay(p, e) PROVE TypeOK'
    <2>1. \E r \in Prior(e.id) : Answer(r) \in [env : Envelope, result : Result]
                                 /\ reply' = [reply EXCEPT ![p] = Answer(r)]
      BY <1>1 DEF Replay, Prior, TypeOK, Receipt, Answer
    <2> QED
      BY <1>1, <2>1, RereadTyped DEF Replay, TypeOK, disk, command
  <1>2. ASSUME NEW e \in Envelope, Refuse(p, e) PROVE TypeOK'
    BY <1>2 DEF Refuse, TypeOK, disk, command
  <1>3. ASSUME NEW e \in Envelope, Begin(p, e) PROVE TypeOK'
    <2>1. saved' \in [events : Seq(Event), receipts : SUBSET Receipt]
      BY <1>3 DEF Begin, TypeOK
    <2> QED
      BY <1>3, <2>1, RereadTyped, NothingTyped DEF Begin, TypeOK, disk
  <1>4. ASSUME NEW b \in Blob, HandlerPut(p, b) PROVE TypeOK'
    BY <1>4 DEF HandlerPut, TypeOK, copies
  <1>5. ASSUME NEW b \in Blob, HandlerAppend(p, b) PROVE TypeOK'
    <2>1. env \in Envelope /\ owner = p
      BY <1>5, EventStoreAssumption DEF HandlerAppend, CommandAdmissible
    <2>2. [actor |-> env.actor, ref |-> b, by |-> env.id] \in Event
      BY <2>1, LedgerAssumption DEF Event
    <2>3. rows' \in Seq(Event)
      BY <1>5, <2>2 DEF HandlerAppend, TypeOK
    <2> QED
      BY <1>5, <2>3, VisibleTyped DEF HandlerAppend, TypeOK, disk
  <1>6. ASSUME NEW b \in Blob, Put(p, b) PROVE TypeOK'
    BY <1>6 DEF Put, TypeOK, command, copies
  <1>7. CASE HandlerFault(p)
    BY <1>7 DEF HandlerFault, TypeOK, disk, copies
  <1>8. CASE HandlerRead(p)
    BY <1>8, RereadTyped DEF HandlerRead, TypeOK, disk, command, Copy
  <1>9. ASSUME NEW res \in Result, Commit(p, res) PROVE TypeOK'
    <2>1. receipts' \subseteq Receipt
      BY <1>9, CommitReceipt DEF Commit, TypeOK
    <2>2. reply' \in [Proc -> [env : Envelope, result : Result] \cup {NoReply}]
      BY <1>9, CommitReceipt DEF Commit, TypeOK
    <2>3. cache' \in [Proc -> Seq(Event)] /\ fresh' \in [Proc -> SUBSET Copy]
      BY <1>9, CommitReceipt DEF Commit, TypeOK, FingerprintsAfterCommit
    <2> QED
      BY <1>9, <2>1, <2>2, <2>3, CommitReceipt, CloseTyped DEF Commit, TypeOK
  <1>10. CASE HandlerRaise(p)
    <2>1. CloseCommand
      BY <1>10 DEF HandlerRaise, Rollback
    <2> QED
      BY <1>10, <2>1, RollbackTyped, CloseTyped DEF HandlerRaise, TypeOK
  <1>11. CASE Deliver(p)
    BY <1>11 DEF Deliver, TypeOK, disk, command, copies
  <1>12. ASSUME NEW a \in Actor, NEW b \in blobs, NEW rev \in 0 .. MaxLog,
                AppendDirect(p, a, b, rev)
         PROVE  TypeOK'
    <2>1. [actor |-> a, ref |-> b, by |-> NoCmd] \in Event
      BY DEF Event, TypeOK
    <2> QED
      BY <1>12, <2>1 DEF AppendDirect, TypeOK, command, FingerprintsAfterCommit
  <1>13. ASSUME NEW rev \in 0 .. MaxLog, AppendConflict(p, rev) PROVE TypeOK'
    BY <1>13 DEF AppendConflict, TypeOK, disk, command
  <1>14. CASE ReadEvents(p)
    BY <1>14, RereadTyped DEF ReadEvents, TypeOK, disk, command, Copy
  <1>15. CASE SnapshotBegin(p)
    BY <1>15 DEF SnapshotBegin, TypeOK, disk, command
  <1>16. CASE SnapshotEnd(p)
    BY <1>16 DEF SnapshotEnd, TypeOK, disk, command, ReceiptsInSnapshot, NoSnap
  <1>17. CASE Crash(p)
    <2>1. CloseCommand \/ UNCHANGED command
      BY <1>17 DEF Crash
    <2>2. /\ owner' \in Proc \cup {NoProc} /\ env' \in Envelope \cup {NoEnv}
          /\ rows' \in Seq(Event) /\ held' \subseteq Blob /\ poisoned' \in BOOLEAN
          /\ saved' \in [events : Seq(Event), receipts : SUBSET Receipt]
      BY <2>1, CloseTyped DEF TypeOK, command
    <2> QED
      BY <1>17, <2>2 DEF Crash, TypeOK, disk, NoSnap
  <1> QED
    BY <1>1, <1>2, <1>3, <1>4, <1>5, <1>6, <1>7, <1>8, <1>9, <1>10, <1>11,
       <1>12, <1>13, <1>14, <1>15, <1>16, <1>17

-----------------------------------------------------------------------------

\* The steps that the rest of the argument has to tell apart; all others keep
\* the log, the receipts, the answers and the open command's rows.
LEMMA StepKinds ==
    ASSUME [Next]_vars
    PROVE  \/ UNCHANGED <<log, receipts, acks, owner, env, rows, reply>>
           \/ \E p \in Proc, e \in Envelope : Replay(p, e) \/ Begin(p, e)
           \/ \E p \in Proc, b \in Blob : HandlerAppend(p, b)
           \/ \E p \in Proc, res \in Result : Commit(p, res)
           \/ \E p \in Proc : HandlerRaise(p) \/ Deliver(p) \/ Crash(p)
           \/ \E p \in Proc, a \in Actor, b \in blobs, rev \in 0 .. MaxLog :
                AppendDirect(p, a, b, rev)
  BY DEF Next, vars, disk, command, Refuse, HandlerPut, Put, HandlerFault,
         HandlerRead, AppendConflict, ReadEvents, SnapshotBegin, SnapshotEnd

LEMMA StepAdmissible ==
    ASSUME IInv, [Next]_vars
    PROVE  CommandAdmissible'
  <1> USE DEF IInv
  <1>1. CASE UNCHANGED <<log, receipts, acks, owner, env, rows, reply>>
    BY <1>1 DEF CommandAdmissible, Admissible, Prior, Ranks
  <1>2. ASSUME NEW p \in Proc, NEW e \in Envelope, Replay(p, e)
        PROVE  CommandAdmissible'
    BY <1>2 DEF Replay, disk, command, CommandAdmissible, Admissible, Prior, Ranks
  <1>3. ASSUME NEW p \in Proc, NEW e \in Envelope, Begin(p, e)
        PROVE  CommandAdmissible'
    BY <1>3 DEF Begin, disk, CommandAdmissible, Admissible, Prior, Ranks
  <1>4. ASSUME NEW p \in Proc, NEW b \in Blob, HandlerAppend(p, b)
        PROVE  CommandAdmissible'
    <2> DEFINE row == [actor |-> env.actor, ref |-> b, by |-> env.id]
    <2>1. /\ rows' = Append(rows, row) /\ owner' = owner /\ env' = env
          /\ log' = log /\ receipts' = receipts /\ owner # NoProc
      BY <1>4, EventStoreAssumption DEF HandlerAppend, disk
    <2>2. Ranks(rows') = Ranks(rows) \cup {Len(rows) + 1}
      BY <2>1 DEF TypeOK, Ranks
    <2>3. \A i \in Ranks(rows') : IF i = Len(rows) + 1 THEN rows'[i] = row
                                                     ELSE rows'[i] = rows[i]
      BY <2>1, <2>2 DEF TypeOK, Ranks
    <2>4. \A i \in Ranks(rows') : rows'[i].by = env.id /\ rows'[i].actor = env.actor
      <3>1. row.by = env.id /\ row.actor = env.actor
        OBVIOUS
      <3>2. \A i \in Ranks(rows) : rows[i].by = env.id /\ rows[i].actor = env.actor
        BY <2>1 DEF CommandAdmissible
      <3> HIDE DEF row
      <3> QED
        BY <2>2, <2>3, <3>1, <3>2
    <2> QED
      BY <2>1, <2>4 DEF CommandAdmissible, Admissible, Prior, Ranks
  <1>5. ASSUME NEW p \in Proc, NEW res \in Result, Commit(p, res)
        PROVE  CommandAdmissible'
    BY <1>5 DEF Commit, CloseCommand, CommandAdmissible
  <1>6. ASSUME NEW p \in Proc, HandlerRaise(p) \/ Deliver(p) \/ Crash(p)
        PROVE  CommandAdmissible'
    <2>1. CASE CloseCommand
      BY <2>1 DEF CloseCommand, CommandAdmissible
    <2>2. CASE UNCHANGED <<disk, command>>
      BY <2>2 DEF disk, command, CommandAdmissible, Admissible, Prior, Ranks
    <2> QED
      BY <1>6, <2>1, <2>2 DEF HandlerRaise, Rollback, Deliver, Crash
  <1>7. ASSUME NEW p \in Proc, NEW a \in Actor, NEW b \in blobs, NEW rev \in 0 .. MaxLog,
               AppendDirect(p, a, b, rev)
        PROVE  CommandAdmissible'
    BY <1>7 DEF AppendDirect, MayBegin, command, CommandAdmissible
  <1> QED
    BY <1>1, <1>2, <1>3, <1>4, <1>5, <1>6, <1>7, StepKinds

LEMMA StepReplyRecorded ==
    ASSUME IInv, [Next]_vars
    PROVE  ReplyRecorded'
  <1> USE DEF IInv
  <1>1. CASE UNCHANGED <<log, receipts, acks, owner, env, rows, reply>>
    BY <1>1 DEF ReplyRecorded
  <1>2. ASSUME NEW p \in Proc, NEW e \in Envelope, Replay(p, e)
        PROVE  ReplyRecorded'
    BY <1>2 DEF Replay, Prior, disk, ReplyRecorded, TypeOK
  <1>3. ASSUME NEW p \in Proc, NEW e \in Envelope, Begin(p, e)
        PROVE  ReplyRecorded'
    BY <1>3 DEF Begin, disk, ReplyRecorded
  <1>4. ASSUME NEW p \in Proc, NEW b \in Blob, HandlerAppend(p, b)
        PROVE  ReplyRecorded'
    BY <1>4 DEF HandlerAppend, disk, ReplyRecorded
  <1>5. ASSUME NEW p \in Proc, NEW res \in Result, Commit(p, res)
        PROVE  ReplyRecorded'
    <2> DEFINE new == [env |-> env, before |-> Len(log),
                       after |-> Len(log) + Len(rows), result |-> res]
    <2>1. new \in receipts' /\ receipts \subseteq receipts'
      BY <1>5 DEF Commit
    <2>2. Answer(new) = [env |-> env, result |-> res]
      BY DEF Answer
    <2>3. \A q \in Proc : reply'[q] = reply[q] \/ reply'[q] = Answer(new)
      BY <1>5, <2>2 DEF Commit, TypeOK
    <2> HIDE DEF new
    <2> QED
      BY <2>1, <2>3 DEF ReplyRecorded
  <1>6. ASSUME NEW p \in Proc, HandlerRaise(p) \/ Deliver(p) \/ Crash(p)
        PROVE  ReplyRecorded'
    BY <1>6 DEF HandlerRaise, Deliver, Crash, disk, ReplyRecorded, TypeOK
  <1>7. ASSUME NEW p \in Proc, NEW a \in Actor, NEW b \in blobs, NEW rev \in 0 .. MaxLog,
               AppendDirect(p, a, b, rev)
        PROVE  ReplyRecorded'
    BY <1>7 DEF AppendDirect, ReplyRecorded
  <1> QED
    BY <1>1, <1>2, <1>3, <1>4, <1>5, <1>6, <1>7, StepKinds

\* The invariant that the write lock of Store.command maintains.
THEOREM StoreInvariant == Spec => []IInv
  <1>1. IInv /\ [Next]_vars => IInv'
    BY NextTyped, StepAdmissible, StepReplyRecorded DEF IInv
  <1> QED
    BY InitIInv, <1>1, PTL DEF Spec

\* Tables, checkpoint, verified copies and answers keep their types in every
\* reachable state of the store.
THEOREM StoreTyped == Spec => []TypeOK
  BY StoreInvariant, PTL DEF IInv

-----------------------------------------------------------------------------

LEMMA CommitAdmits ==
    ASSUME IInv, NEW p \in Proc, NEW res \in Result, Commit(p, res)
    PROVE  Promise!Admit(env)
  <1> USE DEF IInv
  <1>1. /\ env \in Envelope /\ Admissible(env)
        /\ \A i \in Ranks(rows) : rows[i].by = env.id /\ rows[i].actor = env.actor
    BY EventStoreAssumption DEF Commit, CommandAdmissible
  <1>2. ~Promise!Admitted(env.id)
    BY <1>1 DEF Admissible, Prior, Promise!Admitted
  <1>3. /\ log \in Seq(Event) /\ rows \in Seq(Event) /\ log' = log \o rows
        /\ rows # << >>
    BY DEF Commit, MayCommit, TypeOK
  <1>4. Len(log') = Len(log) + Len(rows) /\ Len(rows) > 0 /\ Len(log) \in Nat
        /\ Len(rows) \in Nat
    BY <1>3
  <1>5. log' \in Seq(Event)
    BY <1>3
  <1>6. Promise!ExtendedFrom(log, log')
    BY <1>3, <1>4 DEF Promise!ExtendedFrom, Promise!Ranks
  <1>7. ASSUME NEW i \in Promise!Beyond(log', Len(log))
        PROVE  log'[i].by = env.id /\ log'[i].actor = env.actor
    <2>1. i - Len(log) \in Ranks(rows) /\ i \in Int /\ i > Len(log) /\ i =< Len(log')
      BY <1>4 DEF Promise!Beyond, Ranks
    <2>2. log'[i] = rows[i - Len(log)]
      BY <1>3, <1>4, <2>1 DEF Ranks
    <2> QED
      BY <1>1, <2>1, <2>2
  <1>8. Len(log) + 1 \in Promise!Beyond(log', Len(log))
    BY <1>4 DEF Promise!Beyond
  <1>9. receipts' = receipts \cup {[env |-> env, before |-> Len(log),
                                    after |-> Len(log'), result |-> res]}
    BY <1>4 DEF Commit
  <1> QED
    BY <1>1, <1>2, <1>5, <1>6, <1>7, <1>8, <1>9
       DEF Promise!Admit, Promise!Event, Event, Admissible, Commit

LEMMA DirectAppendIsPlain ==
    ASSUME IInv, NEW p \in Proc, NEW a \in Actor, NEW b \in blobs, NEW rev \in 0 .. MaxLog,
           AppendDirect(p, a, b, rev)
    PROVE  Promise!AppendPlain
  <1> DEFINE row == [actor |-> a, ref |-> b, by |-> NoCmd]
  <1>1. log \in Seq(Event) /\ row \in Event
    BY DEF IInv, TypeOK, Event
  <1> HIDE DEF row
  <1>2. log' = Append(log, row)
    BY DEF AppendDirect, row
  <1>3. /\ log' \in Seq(Event) /\ Len(log) \in Nat /\ Len(log') = Len(log) + 1
        /\ log'[Len(log) + 1] = row
        /\ \A i \in 1 .. Len(log) : log'[i] = log[i]
    BY <1>1, <1>2
  <1>4. row.by = NoCmd
    BY DEF row
  <1>5. Promise!ExtendedFrom(log, log')
    BY <1>3 DEF Promise!ExtendedFrom, Promise!Ranks
  <1> QED
    BY <1>3, <1>4, <1>5
       DEF AppendDirect, Promise!AppendPlain, Promise!Event, Event

\* src/episteme/store.py implements the promise: initial states map to initial
\* states, a commit to an admission, a direct append to a plain one, a
\* delivered answer to an acknowledgement and every other step to a stutter.
THEOREM StoreKeepsPromise == Spec => KeepsPromise
  <1>1. Init => Promise!Init
    BY DEF Init, Promise!Init
  <1>2. IInv /\ [Next]_vars => [Promise!Next]_(Promise!vars)
    <2> SUFFICES ASSUME IInv, [Next]_vars
                 PROVE  Promise!Next \/ UNCHANGED <<log, receipts, acks>>
      BY DEF Promise!vars
    <2>1. ASSUME NEW p \in Proc, NEW e \in Envelope, Replay(p, e) \/ Begin(p, e)
          PROVE  UNCHANGED <<log, receipts, acks>>
      BY <2>1 DEF Replay, Begin, disk
    <2>2. ASSUME NEW p \in Proc, NEW b \in Blob, HandlerAppend(p, b)
          PROVE  UNCHANGED <<log, receipts, acks>>
      BY <2>2 DEF HandlerAppend, disk
    <2>3. ASSUME NEW p \in Proc, NEW res \in Result, Commit(p, res)
          PROVE  Promise!Next
      BY <2>3, CommitAdmits, EventStoreAssumption
         DEF Promise!Next, Commit, IInv, CommandAdmissible
    <2>4. ASSUME NEW p \in Proc, HandlerRaise(p) \/ Crash(p)
          PROVE  UNCHANGED <<log, receipts, acks>>
      BY <2>4 DEF HandlerRaise, Crash, disk
    <2>5. ASSUME NEW p \in Proc, Deliver(p)
          PROVE  Promise!Acknowledge
      BY <2>5 DEF Deliver, disk, IInv, ReplyRecorded, Promise!Acknowledge,
                  Promise!Answer, Answer
    <2>6. ASSUME NEW p \in Proc, NEW a \in Actor, NEW b \in blobs,
                 NEW rev \in 0 .. MaxLog, AppendDirect(p, a, b, rev)
          PROVE  Promise!AppendPlain
      BY <2>6, DirectAppendIsPlain
    <2> QED
      BY <2>1, <2>2, <2>3, <2>4, <2>5, <2>6, StepKinds DEF Promise!Next
  <1> QED
    BY <1>1, <1>2, StoreInvariant, PTL DEF Spec, KeepsPromise, Promise!Spec

-----------------------------------------------------------------------------

\* The promise is worth keeping: what follows is about the three actions of
\* Ledger.tla alone.

\* What one admission adds to the receipts and where it lands in the log.
LEMMA AdmitFacts ==
    ASSUME Promise!TypeOK, NEW e \in Envelope, Promise!Admit(e)
    PROVE  /\ Len(log) \in Nat /\ Len(log') \in Nat
           /\ Len(log) < Len(log')
           /\ e.id \in CmdId /\ e.cause \in Nat
           /\ \E res \in Result :
                /\ receipts' = receipts \cup {[env |-> e, before |-> Len(log),
                                               after |-> Len(log'), result |-> res]}
                /\ [env |-> e, before |-> Len(log), after |-> Len(log'),
                    result |-> res] \in Promise!Receipt
  <1>1. Len(log) \in Nat /\ Len(log') \in Nat
    BY DEF Promise!TypeOK, Promise!Admit
  <1>2. Len(log) < Len(log')
    BY <1>1 DEF Promise!Admit, Promise!Beyond
  <1>3. e.id \in CmdId /\ e.cause \in Nat
    BY LedgerAssumption
  <1>4. PICK res \in Result :
           receipts' = receipts \cup {[env |-> e, before |-> Len(log),
                                       after |-> Len(log'), result |-> res]}
    BY DEF Promise!Admit
  <1>5. [env |-> e, before |-> Len(log), after |-> Len(log'), result |-> res]
          \in Promise!Receipt
    BY <1>1 DEF Promise!Receipt
  <1> QED
    BY <1>1, <1>2, <1>3, <1>4, <1>5

\* The log and the receipts of the promise are well formed: every action of
\* Store.command and Store.append keeps their types.
THEOREM PromiseTyped == Promise!Spec => []Promise!TypeOK
  <1>1. Promise!Init => Promise!TypeOK
    BY DEF Promise!Init, Promise!TypeOK
  <1>2. Promise!TypeOK /\ [Promise!Next]_(Promise!vars) => Promise!TypeOK'
    <2> SUFFICES ASSUME Promise!TypeOK, [Promise!Next]_(Promise!vars) PROVE Promise!TypeOK'
      OBVIOUS
    <2>1. ASSUME NEW e \in Envelope, Promise!Admit(e) PROVE Promise!TypeOK'
      <3>1. log' \in Seq(Promise!Event) /\ acks' = acks
        BY <2>1 DEF Promise!Admit
      <3>2. receipts' \subseteq Promise!Receipt
        BY <2>1, AdmitFacts DEF Promise!TypeOK
      <3> QED
        BY <3>1, <3>2 DEF Promise!TypeOK
    <2>2. CASE Promise!AppendPlain
      BY <2>2 DEF Promise!AppendPlain, Promise!TypeOK
    <2>3. CASE Promise!Acknowledge
      BY <2>3 DEF Promise!Acknowledge, Promise!TypeOK, Promise!Answer, Promise!Receipt
    <2>4. CASE UNCHANGED Promise!vars
      BY <2>4 DEF Promise!vars, Promise!TypeOK
    <2> QED
      BY <2>1, <2>2, <2>3, <2>4 DEF Promise!Next
  <1> QED
    BY <1>1, <1>2, PTL DEF Promise!Spec

-----------------------------------------------------------------------------

LEMMA AdmitExactlyOnce ==
    ASSUME Promise!TypeOK, Promise!ExactlyOnce, Promise!ReceiptsVerify,
           NEW e \in Envelope, Promise!Admit(e)
    PROVE  Promise!ExactlyOnce'
  <1>0. /\ Len(log) \in Nat /\ Len(log') \in Nat /\ Len(log) < Len(log')
        /\ e.id \in CmdId
    BY AdmitFacts
  <1>1. PICK res \in Result :
           receipts' = receipts \cup {[env |-> e, before |-> Len(log),
                                       after |-> Len(log'), result |-> res]}
    BY AdmitFacts
  <1> DEFINE new == [env |-> e, before |-> Len(log), after |-> Len(log'), result |-> res]
  <1>2. \A i \in Promise!Ranks(log) : i \in Promise!Ranks(log') /\ log'[i] = log[i]
    BY <1>0 DEF Promise!Admit, Promise!ExtendedFrom, Promise!Ranks
  <1>3. \A i \in Promise!Ranks(log') :
          \/ i \in Promise!Ranks(log)
          \/ i \in Promise!Beyond(log', Len(log)) /\ log'[i].by = e.id
    BY <1>0 DEF Promise!Admit, Promise!Ranks, Promise!Beyond
  <1>4. \A r \in receipts : r.env.id # e.id
    BY DEF Promise!Admit, Promise!Admitted
  <1>5. \A i \in Promise!Ranks(log') :
          log'[i].by # NoCmd => \E r \in receipts' : r.env.id = log'[i].by
    BY <1>1, <1>2, <1>3, new.env = e DEF Promise!ExactlyOnce, Promise!Admitted
  <1>6. ASSUME NEW r \in receipts', NEW i \in Promise!Ranks(log')
        PROVE  log'[i].by = r.env.id <=> i \in (r.before + 1) .. r.after
    <2>1. CASE r \in receipts /\ i \in Promise!Ranks(log)
      BY <2>1, <1>2 DEF Promise!ExactlyOnce
    <2>2. CASE r \in receipts /\ i \notin Promise!Ranks(log)
      <3>1. log'[i].by = e.id /\ i > Len(log)
        BY <2>2, <1>3, <1>0 DEF Promise!Beyond
      <3>2. r.after =< Len(log) /\ r.after \in Nat /\ r.before \in Nat
        BY <2>2 DEF Promise!ReceiptsVerify, Promise!TypeOK, Promise!Receipt
      <3> QED
        BY <3>1, <3>2, <2>2, <1>4, <1>0 DEF Promise!Ranks
    <2>3. CASE r = new /\ i \in Promise!Ranks(log)
      <3>1. log'[i].by = log[i].by
        BY <2>3, <1>2
      <3>2. log[i].by # e.id
        BY <2>3, <1>4, <1>0, LedgerAssumption DEF Promise!ExactlyOnce, Promise!Admitted
      <3> QED
        BY <3>1, <3>2, <2>3, <1>0 DEF Promise!Ranks
    <2>4. CASE r = new /\ i \notin Promise!Ranks(log)
      BY <2>4, <1>3, <1>0 DEF Promise!Beyond, Promise!Ranks
    <2> QED
      BY <1>1, <2>1, <2>2, <2>3, <2>4
  <1> QED
    BY <1>5, <1>6 DEF Promise!ExactlyOnce, Promise!Admitted, Promise!Ranks

LEMMA AdmitReceiptsVerify ==
    ASSUME Promise!TypeOK, Promise!ReceiptsVerify, NEW e \in Envelope, Promise!Admit(e)
    PROVE  Promise!ReceiptsVerify'
  <1>0. /\ Len(log) \in Nat /\ Len(log') \in Nat /\ Len(log) < Len(log')
        /\ e.cause \in Nat
    BY AdmitFacts
  <1>1. PICK res \in Result :
           receipts' = receipts \cup {[env |-> e, before |-> Len(log),
                                       after |-> Len(log'), result |-> res]}
    BY AdmitFacts
  <1> DEFINE new == [env |-> e, before |-> Len(log), after |-> Len(log'), result |-> res]
  <1>2. \A i \in Promise!Ranks(log) : i \in Promise!Ranks(log') /\ log'[i] = log[i]
    BY <1>0 DEF Promise!Admit, Promise!ExtendedFrom, Promise!Ranks
  <1>3. ASSUME NEW r \in receipts
        PROVE  /\ r.before < r.after /\ r.after =< Len(log')
               /\ r.before = r.env.expected /\ r.env.cause =< r.before
               /\ \A i \in (r.before + 1) .. r.after : log'[i].actor = r.env.actor
    <2>1. r.before \in Nat /\ r.after \in Nat
      BY DEF Promise!TypeOK, Promise!Receipt
    <2>2. (r.before + 1) .. r.after \subseteq Promise!Ranks(log)
      BY <2>1, <1>0 DEF Promise!ReceiptsVerify, Promise!Ranks
    <2> QED
      BY <2>1, <2>2, <1>0, <1>2 DEF Promise!ReceiptsVerify
  <1>4. /\ new.before < new.after /\ new.after =< Len(log')
        /\ new.before = new.env.expected /\ new.env.cause =< new.before
        /\ \A i \in (new.before + 1) .. new.after : log'[i].actor = new.env.actor
    BY <1>0 DEF Promise!Admit, Promise!Beyond
  <1>5. ASSUME NEW r \in receipts
        PROVE  r.env.id # new.env.id /\ r.after =< new.before
    BY DEF Promise!Admit, Promise!Admitted, Promise!ReceiptsVerify
  <1> QED
    BY <1>1, <1>3, <1>4, <1>5 DEF Promise!ReceiptsVerify

LEMMA PlainSafe ==
    ASSUME Promise!TypeOK, Promise!ExactlyOnce, Promise!ReceiptsVerify, Promise!AppendPlain
    PROVE  Promise!ExactlyOnce' /\ Promise!ReceiptsVerify'
  <1>0. Len(log) \in Nat /\ Len(log') = Len(log) + 1 /\ receipts' = receipts
    BY DEF Promise!TypeOK, Promise!AppendPlain
  <1>1. \A i \in Promise!Ranks(log) : i \in Promise!Ranks(log') /\ log'[i] = log[i]
    BY <1>0 DEF Promise!AppendPlain, Promise!ExtendedFrom, Promise!Ranks
  <1>2. \A i \in Promise!Ranks(log') :
          i \in Promise!Ranks(log) \/ (i = Len(log) + 1 /\ log'[i].by = NoCmd)
    BY <1>0 DEF Promise!AppendPlain, Promise!Ranks
  <1>3. \A r \in receipts : /\ r.before \in Nat /\ r.after \in Nat
                            /\ r.env.id # NoCmd /\ r.after =< Len(log)
    BY LedgerAssumption DEF Promise!TypeOK, Promise!Receipt, Promise!ReceiptsVerify
  <1>4. Promise!ExactlyOnce'
    <2>1. \A i \in Promise!Ranks(log') :
            log'[i].by # NoCmd => \E r \in receipts' : r.env.id = log'[i].by
      BY <1>0, <1>1, <1>2 DEF Promise!ExactlyOnce, Promise!Admitted
    <2>2. ASSUME NEW r \in receipts, NEW i \in Promise!Ranks(log')
          PROVE  log'[i].by = r.env.id <=> i \in (r.before + 1) .. r.after
      <3>1. CASE i \in Promise!Ranks(log)
        BY <3>1, <1>1 DEF Promise!ExactlyOnce
      <3>2. CASE i = Len(log) + 1 /\ log'[i].by = NoCmd
        BY <3>2, <1>0, <1>3
      <3> QED
        BY <3>1, <3>2, <1>2
    <2> QED
      BY <2>1, <2>2, <1>0 DEF Promise!ExactlyOnce, Promise!Admitted, Promise!Ranks
  <1>5. Promise!ReceiptsVerify'
    <2>1. ASSUME NEW r \in receipts
          PROVE  (r.before + 1) .. r.after \subseteq Promise!Ranks(log)
      BY <1>0, <1>3 DEF Promise!Ranks
    <2> QED
      BY <2>1, <1>0, <1>1, <1>3 DEF Promise!ReceiptsVerify
  <1> QED
    BY <1>4, <1>5

\* Exactly-once delivery, verifiable receipts and recorded answers follow from
\* the promise of Store.command, whatever identifiers, revisions and causes
\* the envelopes carry.
THEOREM PromiseSafe == Promise!Spec => []Promise!Safe
  <1> DEFINE Inv == Promise!TypeOK /\ Promise!Safe
  <1>1. Promise!Init => Inv
    BY DEF Promise!Init, Promise!TypeOK, Promise!Safe, Promise!ExactlyOnce,
           Promise!ReceiptsVerify, Promise!AnswersAreRecorded, Promise!Ranks
  <1>2. Inv /\ Promise!TypeOK' /\ [Promise!Next]_(Promise!vars) => Inv'
    <2> SUFFICES ASSUME Promise!TypeOK, Promise!Safe, Promise!TypeOK',
                        [Promise!Next]_(Promise!vars)
                 PROVE  Promise!Safe'
      OBVIOUS
    <2> USE DEF Promise!Safe
    <2>1. ASSUME NEW e \in Envelope, Promise!Admit(e) PROVE Promise!Safe'
      <3>1. Promise!ExactlyOnce' /\ Promise!ReceiptsVerify'
        BY <2>1, AdmitExactlyOnce, AdmitReceiptsVerify
      <3>2. Promise!AnswersAreRecorded'
        BY <2>1 DEF Promise!Admit, Promise!AnswersAreRecorded
      <3> QED
        BY <3>1, <3>2
    <2>2. CASE Promise!AppendPlain
      BY <2>2, PlainSafe DEF Promise!AppendPlain, Promise!AnswersAreRecorded
    <2>3. CASE Promise!Acknowledge
      <3>1. Promise!ExactlyOnce' /\ Promise!ReceiptsVerify'
        BY <2>3 DEF Promise!Acknowledge, Promise!ExactlyOnce, Promise!ReceiptsVerify,
                    Promise!Admitted
      <3>2. Promise!AnswersAreRecorded'
        BY <2>3 DEF Promise!Acknowledge, Promise!AnswersAreRecorded
      <3> QED
        BY <3>1, <3>2
    <2>4. CASE UNCHANGED Promise!vars
      BY <2>4 DEF Promise!vars, Promise!ExactlyOnce, Promise!ReceiptsVerify,
                  Promise!AnswersAreRecorded, Promise!Admitted
    <2> QED
      BY <2>1, <2>2, <2>3, <2>4 DEF Promise!Next
  <1> QED
    BY <1>1, <1>2, PromiseTyped, PTL DEF Promise!Spec

\* No step of the promise changes or drops a committed event or a receipt.
THEOREM PromiseAppendOnly == Promise!Spec => Promise!AppendOnly
  <1>1. Promise!TypeOK /\ [Promise!Next]_(Promise!vars)
          => [Promise!ExtendedFrom(log, log') /\ receipts \subseteq receipts']_(Promise!vars)
    BY DEF Promise!TypeOK, Promise!Next, Promise!Admit, Promise!AppendPlain,
           Promise!Acknowledge, Promise!vars, Promise!ExtendedFrom, Promise!Ranks
  <1> QED
    BY <1>1, PromiseTyped, PTL DEF Promise!Spec, Promise!AppendOnly

-----------------------------------------------------------------------------

\* What the promise is worth holds of its implementation: with any number of
\* processes, crashes and repeated deliveries, the effect of a command is in
\* the log exactly once, the stored receipts verify and every delivered answer
\* is the recorded one.
THEOREM StoreSafe == Spec => []AnswersHold
  BY StoreKeepsPromise, PromiseSafe, PTL DEF KeepsPromise, AnswersHold

\* The committed chain and the delivery ledger only grow: neither a crash nor a
\* rollback takes back what a commit wrote.
THEOREM StoreAppendOnly == Spec => AppendOnly
  BY StoreKeepsPromise, PromiseAppendOnly, PTL DEF KeepsPromise, AppendOnly

-----------------------------------------------------------------------------
\* The copies: what each Store verified is what the database committed.

\* What one Store verified together: a prefix of the committed chain with
\* receipts that bind no event beyond it.
Agrees(events, verified) ==
    /\ ExtendedFrom(events, log)
    /\ verified \subseteq receipts
    /\ \A r \in verified : r.after =< Len(events)

\* Inside Store.command the copies may hold uncommitted rows; then it is the
\* checkpoint that agrees with what is committed.
CopyAgrees(p) ==
    IF owner = p THEN /\ Agrees(saved.events, saved.receipts)
                      /\ rcache[p] \subseteq receipts
                      /\ Len(log) =< Len(cache[p])
                 ELSE Agrees(cache[p], rcache[p])

\* A read transaction has read its events and no command runs beside it.
SnapshotAgrees(p) == snap[p] # NoSnap => owner # p /\ snap[p] = Len(cache[p])

Coherent(p) == /\ "events" \in fresh[p] => cache[p] = Visible(p)
               /\ "receipts" \in fresh[p] => rcache[p] = receipts

CopyInv(p) == CopyAgrees(p) /\ SnapshotAgrees(p) /\ Coherent(p)

ReceiptsBindLog == \A r \in receipts : r.after =< Len(log)

CopiesInv == ReceiptsBindLog /\ \A p \in Proc : CopyInv(p)

\* One step of one process.
StepOf(p) ==
    \/ \E e \in Envelope : Replay(p, e) \/ Refuse(p, e) \/ Begin(p, e)
    \/ \E b \in Blob : HandlerPut(p, b) \/ HandlerAppend(p, b) \/ Put(p, b)
    \/ HandlerFault(p) \/ HandlerRead(p) \/ HandlerRaise(p)
    \/ \E res \in Result : Commit(p, res)
    \/ Deliver(p)
    \/ \E a \in Actor, b \in blobs, rev \in 0 .. MaxLog : AppendDirect(p, a, b, rev)
    \/ \E rev \in 0 .. MaxLog : AppendConflict(p, rev)
    \/ ReadEvents(p) \/ SnapshotBegin(p) \/ SnapshotEnd(p)
    \/ Crash(p)

LEMMA SomeProcessSteps == Next => \E p \in Proc : StepOf(p)
  BY DEF Next, StepOf

LEMMA PrefixFacts ==
    /\ \A s, t \in Seq(Event) : ExtendedFrom(s, s \o t)
    /\ \A s \in Seq(Event), e \in Event : ExtendedFrom(s, Append(s, e))
    /\ \A s \in Seq(Event) : ExtendedFrom(s, s) /\ s \o << >> = s
    /\ \A s, t, u \in Seq(Event) :
         ExtendedFrom(s, t) /\ ExtendedFrom(t, u) => ExtendedFrom(s, u)
    /\ \A s, t \in Seq(Event) : ExtendedFrom(s, t) /\ Len(s) = Len(t) => s = t
  <1>1. \A s, t \in Seq(Event) : ExtendedFrom(s, s \o t)
    BY DEF ExtendedFrom, Ranks
  <1>2. \A s \in Seq(Event), e \in Event : ExtendedFrom(s, Append(s, e))
    BY DEF ExtendedFrom, Ranks
  <1>3. \A s \in Seq(Event) : ExtendedFrom(s, s)
    BY DEF ExtendedFrom, Ranks
  <1>4. \A s, t, u \in Seq(Event) :
          ExtendedFrom(s, t) /\ ExtendedFrom(t, u) => ExtendedFrom(s, u)
    BY DEF ExtendedFrom, Ranks
  <1>5. \A s, t \in Seq(Event) : ExtendedFrom(s, t) /\ Len(s) = Len(t) => s = t
    BY SeqEqual DEF ExtendedFrom, Ranks
  <1>6. ASSUME NEW s \in Seq(Event) PROVE s \o << >> = s
    <2>1. s \o << >> \in Seq(Event) /\ Len(s \o << >>) = Len(s)
      OBVIOUS
    <2> QED
      BY <1>1, <1>5, <2>1, NothingTyped
  <1> QED
    BY <1>1, <1>2, <1>3, <1>4, <1>5, <1>6

\* The database only grows, whoever steps.
LEMMA DatabaseGrows ==
    ASSUME IInv, [Next]_vars
    PROVE  ExtendedFrom(log, log') /\ receipts \subseteq receipts'
  <1>0. log \in Seq(Event) /\ rows \in Seq(Event)
    BY DEF IInv, TypeOK
  <1>1. CASE log' = log /\ receipts' = receipts
    BY <1>0, <1>1, PrefixFacts
  <1>2. ASSUME NEW p \in Proc, NEW res \in Result, Commit(p, res)
        PROVE  ExtendedFrom(log, log') /\ receipts \subseteq receipts'
    BY <1>0, <1>2, PrefixFacts DEF Commit
  <1>3. ASSUME NEW p \in Proc, NEW a \in Actor, NEW b \in blobs, NEW rev \in 0 .. MaxLog,
               AppendDirect(p, a, b, rev)
        PROVE  ExtendedFrom(log, log') /\ receipts \subseteq receipts'
    <2>1. [actor |-> a, ref |-> b, by |-> NoCmd] \in Event
      BY DEF Event, IInv, TypeOK
    <2> QED
      BY <1>0, <1>3, <2>1, PrefixFacts DEF AppendDirect
  <1> QED
    BY <1>1, <1>2, <1>3, StepKinds
       DEF Replay, Begin, HandlerAppend, HandlerRaise, Deliver, Crash, disk

LEMMA StillAgrees ==
    ASSUME IInv, IInv', ExtendedFrom(log, log'), receipts \subseteq receipts',
           NEW c \in Seq(Event), NEW v, Agrees(c, v)
    PROVE  ExtendedFrom(c, log') /\ v \subseteq receipts' /\ \A r \in v : r.after =< Len(c)
  BY PrefixFacts DEF IInv, TypeOK, Agrees

\* What a step of p leaves alone in the other Stores: their copies and their
\* read transactions; a fingerprint survives only if nothing was committed,
\* and the holder of the write lock sees no one else's commit.
Elsewhere(q) ==
    /\ cache'[q] = cache[q] /\ rcache'[q] = rcache[q] /\ snap'[q] = snap[q]
    /\ \/ fresh'[q] = {}
       \/ fresh'[q] = fresh[q] /\ log' = log /\ receipts' = receipts
    /\ owner = q <=> owner' = q
    /\ owner = q => /\ log' = log /\ receipts' = receipts
                    /\ rows' = rows /\ saved' = saved

LEMMA OthersKept ==
    ASSUME TypeOK, NEW p \in Proc, StepOf(p), NEW q \in Proc, q # p
    PROVE  Elsewhere(q)
  <1> USE DEF TypeOK, Elsewhere
  <1>0. q # NoProc /\ p # NoProc
    BY EventStoreAssumption
  <1>1. ASSUME NEW e \in Envelope, Replay(p, e) \/ Refuse(p, e) PROVE Elsewhere(q)
    BY <1>1 DEF Replay, Refuse, Reread, disk, command
  <1>2. ASSUME NEW e \in Envelope, Begin(p, e) PROVE Elsewhere(q)
    BY <1>0, <1>2 DEF Begin, MayBegin, Reread, disk
  <1>3. ASSUME NEW b \in Blob, HandlerPut(p, b) \/ Put(p, b) PROVE Elsewhere(q)
    BY <1>3 DEF HandlerPut, Put, command, copies
  <1>4. ASSUME NEW b \in Blob, HandlerAppend(p, b) PROVE Elsewhere(q)
    BY <1>4 DEF HandlerAppend, disk
  <1>5. CASE HandlerFault(p) \/ HandlerRead(p)
    BY <1>5 DEF HandlerFault, HandlerRead, Reread, disk, command, copies
  <1>6. CASE HandlerRaise(p)
    BY <1>0, <1>6 DEF HandlerRaise, Rollback, CloseCommand
  <1>7. ASSUME NEW res \in Result, Commit(p, res) PROVE Elsewhere(q)
    BY <1>0, <1>7 DEF Commit, CloseCommand, FingerprintsAfterCommit
  <1>8. CASE Deliver(p)
    BY <1>8 DEF Deliver, disk, command, copies
  <1>9. ASSUME NEW a \in Actor, NEW b \in blobs, NEW rev \in 0 .. MaxLog,
               AppendDirect(p, a, b, rev)
        PROVE  Elsewhere(q)
    BY <1>0, <1>9 DEF AppendDirect, MayBegin, command, FingerprintsAfterCommit
  <1>10. ASSUME NEW rev \in 0 .. MaxLog, AppendConflict(p, rev) PROVE Elsewhere(q)
    BY <1>10 DEF AppendConflict, disk, command
  <1>11. CASE ReadEvents(p) \/ SnapshotBegin(p) \/ SnapshotEnd(p)
    BY <1>11 DEF ReadEvents, SnapshotBegin, SnapshotEnd, Reread, disk, command
  <1>12. CASE Crash(p)
    BY <1>0, <1>12 DEF Crash, CloseCommand, disk, command
  <1> QED
    BY <1>1, <1>2, <1>3, <1>4, <1>5, <1>6, <1>7, <1>8, <1>9, <1>10, <1>11, <1>12
       DEF StepOf

LEMMA OthersTrue ==
    ASSUME IInv, IInv', NEW p \in Proc, StepOf(p), NEW q \in Proc, q # p, CopyInv(q),
           ExtendedFrom(log, log'), receipts \subseteq receipts'
    PROVE  CopyInv(q)'
  <1>0. Elsewhere(q)
    BY OthersKept DEF IInv
  <1>1. cache[q] \in Seq(Event) /\ saved.events \in Seq(Event)
    BY DEF IInv, TypeOK
  <1>2. CopyAgrees(q)'
    <2>1. CASE owner = q
      BY <1>0, <2>1 DEF Elsewhere, CopyInv, CopyAgrees, Agrees
    <2>2. CASE owner # q
      <3>1. Agrees(cache[q], rcache[q])
        BY <2>2 DEF CopyInv, CopyAgrees
      <3>2. /\ ExtendedFrom(cache[q], log') /\ rcache[q] \subseteq receipts'
            /\ \A r \in rcache[q] : r.after =< Len(cache[q])
        BY <1>1, <3>1, StillAgrees
      <3> QED
        BY <1>0, <2>2, <3>2 DEF Elsewhere, CopyAgrees, Agrees
    <2> QED
      BY <2>1, <2>2
  <1>3. SnapshotAgrees(q)'
    BY <1>0 DEF Elsewhere, CopyInv, SnapshotAgrees
  <1>4. Coherent(q)'
    BY <1>0 DEF Elsewhere, CopyInv, Coherent, Visible
  <1> QED
    BY <1>2, <1>3, <1>4 DEF CopyInv

\* What a step of p does to the copies of p itself, action by action.
LEMMA OwnTrue ==
    ASSUME IInv, IInv', NEW p \in Proc, StepOf(p), CopyInv(p), ReceiptsBindLog,
           ExtendedFrom(log, log'), receipts \subseteq receipts'
    PROVE  CopyInv(p)'
  <1>0. /\ log \in Seq(Event) /\ rows \in Seq(Event) /\ cache \in [Proc -> Seq(Event)]
        /\ rcache \in [Proc -> SUBSET Receipt] /\ fresh \in [Proc -> SUBSET Copy]
        /\ snap \in [Proc -> Int] /\ p # NoProc /\ receipts \subseteq Receipt
        /\ saved \in [events : Seq(Event), receipts : SUBSET Receipt]
        /\ log' \in Seq(Event) /\ receipts' \subseteq Receipt
    BY EventStoreAssumption DEF IInv, TypeOK
  <1>1. /\ ExtendedFrom(log, log) /\ log \o << >> = log
        /\ ExtendedFrom(log, log \o rows) /\ Len(log) =< Len(log \o rows)
    BY <1>0, PrefixFacts
  <1>2. Agrees(log, receipts)
    BY <1>1 DEF Agrees, ReceiptsBindLog
  \* A reread makes the copies what the database shows p.
  <1>3. ASSUME UNCHANGED <<log, receipts, owner, saved, rows, snap>>, snap[p] = NoSnap,
               NEW which \in SUBSET Copy, Reread(p, which)
        PROVE  CopyInv(p)'
    <2>1. /\ cache'[p] = Visible(p)
          /\ rcache'[p] = IF "receipts" \in which THEN receipts ELSE rcache[p]
          /\ fresh'[p] = fresh[p] \cup which
      BY <1>0, <1>3 DEF Reread
    <2>2. Coherent(p)'
      BY <1>3, <2>1 DEF Coherent, CopyInv, Visible
    <2>3. CopyAgrees(p)'
      <3>1. CASE owner = p
        BY <1>1, <1>3, <2>1, <3>1 DEF CopyInv, CopyAgrees, Agrees, Visible
      <3>2. CASE owner # p
        BY <1>1, <1>3, <2>1, <3>2 DEF CopyInv, CopyAgrees, Agrees, Visible, ReceiptsBindLog
      <3> QED
        BY <3>1, <3>2
    <2>4. SnapshotAgrees(p)'
      BY <1>3 DEF SnapshotAgrees
    <2> QED
      BY <2>2, <2>3, <2>4 DEF CopyInv
  \* A forgotten fingerprint takes nothing from the copies.
  <1>4. ASSUME UNCHANGED <<log, receipts, owner, saved, cache, rcache, snap>>, fresh'[p] = {}
        PROVE  CopyInv(p)'
    BY <1>4 DEF CopyInv, CopyAgrees, Agrees, SnapshotAgrees, Coherent
  <1>5. ASSUME UNCHANGED <<log, receipts, owner, saved, rows, cache, rcache, snap, fresh>>
        PROVE  CopyInv(p)'
    BY <1>5 DEF CopyInv, CopyAgrees, Agrees, SnapshotAgrees, Coherent, Visible
  \* An end of the command with the checkpoint put back.
  <1>6. ASSUME owner = p, UNCHANGED <<log, receipts, snap>>, Rollback(p)
        PROVE  CopyInv(p)'
    <2>1. /\ cache'[p] = saved.events /\ rcache'[p] = saved.receipts
          /\ fresh'[p] = {} /\ owner' # p
      BY <1>0, <1>6 DEF Rollback, CloseCommand
    <2> QED
      BY <1>6, <2>1 DEF CopyInv, CopyAgrees, Agrees, SnapshotAgrees, Coherent
  <1>7. ASSUME NEW e \in Envelope, Replay(p, e) PROVE CopyInv(p)'
    BY <1>3, <1>7 DEF Replay, MayBegin, Idle, disk, command, Copy
  <1>8. ASSUME NEW e \in Envelope, Refuse(p, e) PROVE CopyInv(p)'
    BY <1>0, <1>4, <1>8 DEF Refuse, disk, command
  <1>9. ASSUME NEW e \in Envelope, Begin(p, e) PROVE CopyInv(p)'
    <2>1. /\ owner # p /\ snap[p] = NoSnap /\ Visible(p) = log
          /\ log' = log /\ receipts' = receipts /\ rows' = << >> /\ snap' = snap
          /\ saved' = [events |-> cache[p], receipts |-> rcache[p]] /\ owner' = p
      BY <1>9 DEF Begin, MayBegin, Idle, Visible, disk
    <2>2. cache'[p] = log /\ rcache'[p] = receipts /\ fresh'[p] = Copy
      BY <1>0, <1>9, <2>1 DEF Begin, Reread, Copy
    <2>3. saved'.events = cache[p] /\ saved'.receipts = rcache[p]
      BY <2>1
    <2>4. CopyAgrees(p)'
      BY <1>0, <2>1, <2>2, <2>3 DEF CopyInv, CopyAgrees, Agrees
    <2>5. Coherent(p)'
      BY <1>1, <2>1, <2>2 DEF Coherent, Visible
    <2> QED
      BY <2>1, <2>4, <2>5 DEF CopyInv, SnapshotAgrees
  <1>10. ASSUME NEW b \in Blob, HandlerPut(p, b) \/ Put(p, b) PROVE CopyInv(p)'
    BY <1>5, <1>10 DEF HandlerPut, Put, command, copies
  <1>11. ASSUME NEW b \in Blob, HandlerAppend(p, b) PROVE CopyInv(p)'
    <2>1. /\ owner = p /\ owner' = p /\ UNCHANGED <<log, receipts, saved, snap, rcache>>
          /\ cache'[p] = log \o rows /\ fresh'[p] = {}
      BY <1>0, <1>11 DEF HandlerAppend, Visible, disk
    <2> QED
      BY <1>1, <2>1 DEF CopyInv, CopyAgrees, Agrees, SnapshotAgrees, Coherent
  <1>12. CASE HandlerFault(p)
    BY <1>5, <1>12 DEF HandlerFault, disk, copies
  <1>13. CASE HandlerRead(p)
    <2>1. snap[p] = NoSnap
      BY <1>13 DEF HandlerRead, CopyInv, SnapshotAgrees
    <2> QED
      BY <1>3, <1>13, <2>1 DEF HandlerRead, disk, command, Copy
  <1>14. CASE HandlerRaise(p)
    BY <1>6, <1>14 DEF HandlerRaise
  <1>15. ASSUME NEW res \in Result, Commit(p, res) PROVE CopyInv(p)'
    <2>1. /\ owner = p /\ owner' # p /\ log' = log \o rows
          /\ cache'[p] = log \o rows /\ fresh'[p] = {}
          /\ rcache' = rcache /\ snap' = snap
      BY <1>0, <1>15 DEF Commit, CloseCommand, FingerprintsAfterCommit
    <2>2. snap[p] = NoSnap /\ rcache[p] \subseteq receipts
      BY <2>1 DEF CopyInv, CopyAgrees, SnapshotAgrees
    <2>3. ExtendedFrom(log', log')
      BY <1>0, PrefixFacts
    <2>4. \A r \in receipts : r.after \in Nat /\ r.after =< Len(log)
      BY <1>0 DEF ReceiptsBindLog, Receipt
    <2>5. \A r \in receipts : r.after =< Len(log')
      <3>1. Len(log) \in Nat /\ Len(log') \in Nat /\ Len(log) =< Len(log')
        BY <1>0, <1>1, <2>1
      <3> QED
        BY <2>4, <3>1
    <2>6. Agrees(cache[p], rcache[p])'
      BY <2>1, <2>2, <2>3, <2>5 DEF Agrees
    <2> QED
      BY <2>1, <2>2, <2>6 DEF CopyInv, CopyAgrees, SnapshotAgrees, Coherent
  <1>16. CASE Deliver(p)
    BY <1>5, <1>16 DEF Deliver, disk, command, copies
  <1>17. ASSUME NEW a \in Actor, NEW b \in blobs, NEW rev \in 0 .. MaxLog,
                AppendDirect(p, a, b, rev)
         PROVE  CopyInv(p)'
    <2>1. /\ owner # p /\ owner' = owner /\ snap[p] = NoSnap /\ snap' = snap
          /\ receipts' = receipts /\ cache'[p] = log /\ rcache' = rcache /\ fresh'[p] = {}
      BY <1>0, <1>17
         DEF AppendDirect, MayBegin, Idle, command, FingerprintsAfterCommit
    <2>2. Agrees(cache[p], rcache[p])
      BY <2>1 DEF CopyInv, CopyAgrees
    <2>3. Agrees(cache[p], rcache[p])'
      BY <2>1, <2>2 DEF Agrees, ReceiptsBindLog
    <2> QED
      BY <2>1, <2>3 DEF CopyInv, CopyAgrees, SnapshotAgrees, Coherent
  <1>18. ASSUME NEW rev \in 0 .. MaxLog, AppendConflict(p, rev) PROVE CopyInv(p)'
    BY <1>0, <1>4, <1>18 DEF AppendConflict, disk, command
  <1>19. CASE ReadEvents(p)
    BY <1>3, <1>19 DEF ReadEvents, Idle, disk, command, Copy
  <1>20. CASE SnapshotBegin(p)
    <2>1. /\ owner # p /\ owner' = owner /\ snap'[p] = Len(log) /\ cache'[p] = log
          /\ UNCHANGED <<log, receipts, rcache, fresh>>
      BY <1>0, <1>20 DEF SnapshotBegin, Idle, disk, command
    <2>2. CopyAgrees(p)'
      BY <1>1, <2>1 DEF CopyInv, CopyAgrees, Agrees, ReceiptsBindLog
    <2>3. Coherent(p)'
      BY <2>1 DEF CopyInv, Coherent, Visible
    <2> QED
      BY <2>1, <2>2, <2>3 DEF CopyInv, SnapshotAgrees
  \* If nobody committed since SnapshotBegin, the copies are current.
  <1>21. CASE SnapshotEnd(p)
    <2>1. /\ owner # p /\ owner' = owner /\ snap'[p] = NoSnap /\ cache' = cache
          /\ snap[p] = Len(cache[p]) /\ UNCHANGED <<log, receipts>>
          /\ rcache'[p] = {r \in receipts : r.after =< snap[p]}
          /\ fresh'[p] = IF snap[p] = Len(log) THEN Copy ELSE {}
      BY <1>0, <1>21
         DEF SnapshotEnd, CopyInv, SnapshotAgrees, ReceiptsInSnapshot, disk, command
    <2>2. Agrees(cache[p], rcache[p])
      BY <2>1 DEF CopyInv, CopyAgrees
    <2>3. CopyAgrees(p)'
      BY <2>1, <2>2 DEF CopyAgrees, Agrees
    <2>4. ASSUME snap[p] = Len(log) PROVE cache[p] = log /\ rcache'[p] = receipts
      <3>1. cache[p] \in Seq(Event) /\ ExtendedFrom(cache[p], log) /\ Len(cache[p]) = Len(log)
        BY <1>0, <2>1, <2>2, <2>4 DEF Agrees
      <3>2. cache[p] = log
        BY <1>0, <3>1, PrefixFacts
      <3>3. rcache'[p] = receipts
        BY <2>1, <2>4 DEF ReceiptsBindLog
      <3> QED
        BY <3>2, <3>3
    <2>5. Coherent(p)'
      BY <2>1, <2>4 DEF Coherent, Visible, Copy
    <2> QED
      BY <2>1, <2>3, <2>5 DEF CopyInv, SnapshotAgrees
  <1>22. CASE Crash(p)
    <2>1. /\ owner' # p /\ UNCHANGED <<log, receipts>> /\ cache'[p] = << >>
          /\ rcache'[p] = {} /\ fresh'[p] = {} /\ snap'[p] = NoSnap
      BY <1>0, <1>22 DEF Crash, CloseCommand, disk, command
    <2>2. ExtendedFrom(<< >>, log')
      BY <1>0 DEF ExtendedFrom, Ranks
    <2> QED
      BY <2>1, <2>2 DEF CopyInv, CopyAgrees, Agrees, SnapshotAgrees, Coherent
  <1> QED
    BY <1>7, <1>8, <1>9, <1>10, <1>11, <1>12, <1>13, <1>14, <1>15, <1>16, <1>17,
       <1>18, <1>19, <1>20, <1>21, <1>22 DEF StepOf

LEMMA StepBindsLog ==
    ASSUME IInv, IInv', [Next]_vars, ReceiptsBindLog,
           ExtendedFrom(log, log'), receipts \subseteq receipts'
    PROVE  ReceiptsBindLog'
  <1>0. /\ log \in Seq(Event) /\ log' \in Seq(Event) /\ rows \in Seq(Event)
        /\ receipts \subseteq Receipt
    BY DEF IInv, TypeOK
  <1>1. Len(log) \in Nat /\ Len(log') \in Nat /\ Len(log) =< Len(log')
    BY <1>0 DEF ExtendedFrom
  <1>2. \A r \in receipts : r.after =< Len(log')
    BY <1>0, <1>1 DEF ReceiptsBindLog, Receipt
  <1>3. CASE receipts' = receipts
    BY <1>2, <1>3 DEF ReceiptsBindLog
  <1>4. ASSUME NEW p \in Proc, NEW res \in Result, Commit(p, res)
        PROVE  ReceiptsBindLog'
    <2>1. Len(log') = Len(log) + Len(rows)
      BY <1>0, <1>4 DEF Commit
    <2> DEFINE new == [env |-> env, before |-> Len(log),
                       after |-> Len(log) + Len(rows), result |-> res]
    <2>2. receipts' = receipts \cup {new}
      BY <1>4 DEF Commit
    <2>3. new.after =< Len(log')
      BY <1>1, <2>1
    <2> HIDE DEF new
    <2> QED
      BY <1>2, <2>2, <2>3 DEF ReceiptsBindLog
  <1> QED
    BY <1>3, <1>4, StepKinds
       DEF Replay, Begin, HandlerAppend, HandlerRaise, Deliver, Crash, AppendDirect, disk

LEMMA InitCopies == Init => CopiesInv
  <1>1. ExtendedFrom(<< >>, << >>)
    BY DEF ExtendedFrom, Ranks
  <1> QED
    BY <1>1, EventStoreAssumption
       DEF Init, CopiesInv, ReceiptsBindLog, CopyInv, CopyAgrees, Agrees, SnapshotAgrees,
           Coherent

LEMMA StepCopies ==
    ASSUME IInv, IInv', CopiesInv, [Next]_vars
    PROVE  CopiesInv'
  <1>1. ExtendedFrom(log, log') /\ receipts \subseteq receipts'
    BY DatabaseGrows
  <1>2. ReceiptsBindLog'
    BY <1>1, StepBindsLog DEF CopiesInv
  <1>3. CASE UNCHANGED vars
    BY <1>3 DEF vars, disk, command, copies, CopiesInv, ReceiptsBindLog, CopyInv,
                CopyAgrees, Agrees, SnapshotAgrees, Coherent, Visible
  <1>4. ASSUME NEW p \in Proc, StepOf(p), NEW q \in Proc PROVE CopyInv(q)'
    <2>1. CASE q = p
      BY <1>1, <1>4, <2>1, OwnTrue DEF CopiesInv
    <2>2. CASE q # p
      BY <1>1, <1>4, <2>2, OthersTrue DEF CopiesInv
    <2> QED
      BY <2>1, <2>2
  <1> QED
    BY <1>2, <1>3, <1>4, SomeProcessSteps DEF CopiesInv

THEOREM StoreCopies == Spec => [](IInv /\ CopiesInv)
  <1>1. IInv /\ CopiesInv /\ [Next]_vars => (IInv /\ CopiesInv)'
    BY NextTyped, StepAdmissible, StepReplyRecorded, StepCopies DEF IInv
  <1> QED
    BY InitIInv, InitCopies, <1>1, PTL DEF Spec

\* The fast path of _sync is right: whatever processes commit, crash, roll back
\* or read in between, a Store answers without reading a row only what the
\* database would answer, no verified copy keeps rows of a rolled-back command
\* and no receipt is held without the events it binds.
THEOREM StoreCopiesAreTrue == Spec => []CopiesAreTrue
  <1>1. IInv /\ CopiesInv => CopiesAreTrue
    <2> SUFFICES ASSUME IInv, CopiesInv, NEW p \in Proc
                 PROVE  /\ Coherent(p)
                        /\ owner # p => /\ ExtendedFrom(cache[p], log)
                                        /\ rcache[p] \subseteq receipts
                        /\ \A r \in rcache[p] : r.after =< Len(cache[p])
      BY DEF CopiesAreTrue, CacheCoherent, NoGhostRows, ReceiptsWithinEvents, Coherent
    <2>1. CopyInv(p) /\ ReceiptsBindLog
      BY DEF CopiesInv
    <2>2. CASE owner = p
      <3>1. /\ rcache[p] \subseteq receipts /\ Len(log) =< Len(cache[p])
            /\ Len(log) \in Nat /\ Len(cache[p]) \in Nat
        BY <2>1, <2>2 DEF CopyInv, CopyAgrees, IInv, TypeOK
      <3>2. \A r \in receipts : r.after \in Nat /\ r.after =< Len(log)
        BY <2>1 DEF ReceiptsBindLog, IInv, TypeOK, Receipt
      <3> QED
        BY <2>1, <2>2, <3>1, <3>2 DEF CopyInv
    <2>3. CASE owner # p
      BY <2>1, <2>3 DEF CopyInv, CopyAgrees, Agrees
    <2> QED
      BY <2>2, <2>3
  <1> QED
    BY <1>1, StoreCopies, PTL

-----------------------------------------------------------------------------

\* Every digest that the open handler holds or its rows name is stored.
ArtifactsStored ==
    /\ held \subseteq blobs
    /\ \A i \in Ranks(rows) : rows[i].ref \in blobs
    /\ NoDanglingArtifact

LEMMA StepArtifacts ==
    ASSUME IInv, ArtifactsStored, [Next]_vars
    PROVE  ArtifactsStored'
  <1> USE DEF IInv
  <1>0. log \in Seq(Event) /\ rows \in Seq(Event)
    BY DEF TypeOK
  <1>1. CASE UNCHANGED <<log, rows>> /\ blobs \subseteq blobs' /\ held' \subseteq blobs'
    BY <1>1 DEF ArtifactsStored, NoDanglingArtifact, Ranks
  <1>2. CASE UNCHANGED <<log, blobs>> /\ rows' = << >> /\ held' \subseteq held
    BY <1>2 DEF ArtifactsStored, NoDanglingArtifact, Ranks
  <1>3. ASSUME NEW p \in Proc, NEW b \in Blob, HandlerAppend(p, b)
        PROVE  ArtifactsStored'
    <2> DEFINE row == [actor |-> env.actor, ref |-> b, by |-> env.id]
    <2>1. /\ rows' = Append(rows, row) /\ UNCHANGED <<log, blobs, held>> /\ row.ref \in blobs
      BY <1>3 DEF HandlerAppend, disk, ArtifactsStored
    <2> HIDE DEF row
    <2>2. \A i \in Ranks(rows') : (i \in Ranks(rows) /\ rows'[i] = rows[i]) \/ rows'[i] = row
      BY <1>0, <2>1 DEF Ranks
    <2> QED
      BY <2>1, <2>2 DEF ArtifactsStored, NoDanglingArtifact, Ranks
  <1>4. ASSUME NEW p \in Proc, NEW res \in Result, Commit(p, res)
        PROVE  ArtifactsStored'
    <2>1. log' = log \o rows /\ rows' = << >> /\ held' = {} /\ blobs' = blobs
      BY <1>4 DEF Commit, CloseCommand
    <2>2. ASSUME NEW i \in Ranks(log')
          PROVE  \/ i \in Ranks(log) /\ log'[i] = log[i]
                 \/ i - Len(log) \in Ranks(rows) /\ log'[i] = rows[i - Len(log)]
      BY <1>0, <2>1 DEF Ranks
    <2> QED
      BY <2>1, <2>2 DEF ArtifactsStored, NoDanglingArtifact, Ranks
  <1>5. ASSUME NEW p \in Proc, NEW a \in Actor, NEW b \in blobs, NEW rev \in 0 .. MaxLog,
               AppendDirect(p, a, b, rev)
        PROVE  ArtifactsStored'
    <2> DEFINE row == [actor |-> a, ref |-> b, by |-> NoCmd]
    <2>1. /\ log' = Append(log, row) /\ UNCHANGED <<rows, blobs, held>> /\ row.ref \in blobs
      BY <1>5 DEF AppendDirect, command
    <2> HIDE DEF row
    <2>2. \A i \in Ranks(log') : (i \in Ranks(log) /\ log'[i] = log[i]) \/ log'[i] = row
      BY <1>0, <2>1 DEF Ranks
    <2> QED
      BY <2>1, <2>2 DEF ArtifactsStored, NoDanglingArtifact, Ranks
  <1>6. \/ UNCHANGED <<log, rows>> /\ blobs \subseteq blobs' /\ held' \subseteq blobs'
        \/ UNCHANGED <<log, blobs>> /\ rows' = << >> /\ held' \subseteq held
        \/ \E p \in Proc, b \in Blob : HandlerAppend(p, b)
        \/ \E p \in Proc, res \in Result : Commit(p, res)
        \/ \E p \in Proc, a \in Actor, b \in blobs, rev \in 0 .. MaxLog :
             AppendDirect(p, a, b, rev)
    BY DEF Next, vars, disk, command, Replay, Refuse, Begin, HandlerPut, Put, HandlerFault,
           HandlerRead, HandlerRaise, Rollback, CloseCommand, Deliver, AppendConflict,
           ReadEvents, SnapshotBegin, SnapshotEnd, Crash, ArtifactsStored
  <1> QED
    BY <1>1, <1>2, <1>3, <1>4, <1>5, <1>6

\* Every artifact a committed event names is in the directory for good: put
\* stores a digest before an event names it, and neither a rollback nor a
\* crash removes one.
THEOREM StoreArtifacts == Spec => []NoDanglingArtifact
  <1>1. Init => ArtifactsStored
    BY DEF Init, ArtifactsStored, NoDanglingArtifact, Ranks
  <1>2. ArtifactsStored => NoDanglingArtifact
    BY DEF ArtifactsStored
  <1> QED
    BY <1>1, <1>2, StepArtifacts, StoreInvariant, PTL DEF Spec

=============================================================================
