------------------------------- MODULE Ledger -------------------------------
(***************************************************************************)
(* What the event store of EpistemeOS promises to its callers, apart from  *)
(* how src/episteme/store.py keeps the promise.                            *)
(*                                                                         *)
(* A command envelope is admitted at most once.  Its admission extends an  *)
(* append-only log by at least one event of its own actor and, in the same *)
(* step, records the receipt that binds exactly these events and holds the *)
(* answer every later delivery of the envelope gets back.  There are no    *)
(* transactions, caches, crashes or processes here: EventStore.tla has     *)
(* them and implements this module.                                        *)
(***************************************************************************)
EXTENDS LedgerData

VARIABLES log, receipts, acks

vars == <<log, receipts, acks>>

-----------------------------------------------------------------------------

Admitted(id) == \E r \in receipts : r.env.id = id

-----------------------------------------------------------------------------

Init == /\ log = << >>
        /\ receipts = {}
        /\ acks = {}

Admit(e) ==
    /\ ~Admitted(e.id)
    /\ e.expected = Len(log)
    /\ e.cause =< Len(log)
    /\ log' \in Seq(Event)
    /\ ExtendedFrom(log, log')
    /\ Beyond(log', Len(log)) # {}
    /\ \A i \in Beyond(log', Len(log)) : log'[i].by = e.id /\ log'[i].actor = e.actor
    /\ \E res \in Result :
         receipts' = receipts \cup {[env |-> e, before |-> Len(log),
                                     after |-> Len(log'), result |-> res]}
    /\ UNCHANGED acks

\* A direct Store.append: one event that no receipt covers.
AppendPlain ==
    /\ log' \in Seq(Event)
    /\ Len(log') = Len(log) + 1
    /\ ExtendedFrom(log, log')
    /\ log'[Len(log')].by = NoCmd
    /\ UNCHANGED <<receipts, acks>>

Acknowledge == \E r \in receipts : /\ acks' = acks \cup {Answer(r)}
                                   /\ UNCHANGED <<log, receipts>>

Next == \/ \E e \in Envelope : Admit(e)
        \/ AppendPlain
        \/ Acknowledge

Spec == Init /\ [][Next]_vars

-----------------------------------------------------------------------------

TypeOK == /\ log \in Seq(Event)
          /\ receipts \subseteq Receipt
          /\ acks \subseteq [env : Envelope, result : Result]

\* The effect of a command is in the log exactly once, at exactly the ranks
\* its receipt binds, and an event of a command never lacks the receipt.
ExactlyOnce ==
    /\ \A i \in Ranks(log) : log[i].by # NoCmd => Admitted(log[i].by)
    /\ \A r \in receipts : \A i \in Ranks(log) :
         log[i].by = r.env.id <=> i \in (r.before + 1) .. r.after

\* What store.py verifies of every stored receipt (_verify_receipt and
\* _ordered_receipts): a non-empty range within the log, the revision the
\* caller expected, one actor, a cause that precedes the command, one receipt
\* per identifier and no event bound twice.
ReceiptsVerify ==
    /\ \A r \in receipts :
         /\ r.before < r.after /\ r.after =< Len(log)
         /\ r.before = r.env.expected
         /\ r.env.cause =< r.before
         /\ \A i \in (r.before + 1) .. r.after : log[i].actor = r.env.actor
    /\ \A r, s \in receipts : r # s => /\ r.env.id # s.env.id
                                       /\ \/ r.after =< s.before
                                          \/ s.after =< r.before

\* An answer that reached a caller is the answer of a recorded receipt, so it
\* is never taken back and two deliveries of one identifier never disagree.
AnswersAreRecorded == acks \subseteq {Answer(r) : r \in receipts}

Safe == ExactlyOnce /\ ReceiptsVerify /\ AnswersAreRecorded

\* History is append-only: no step drops, changes or reorders an event, and no
\* step drops or changes a receipt.
AppendOnly == [][ExtendedFrom(log, log') /\ receipts \subseteq receipts']_vars

=============================================================================
