----------------------------- MODULE LedgerData -----------------------------
(***************************************************************************)
(* The data the event store keeps: events, command envelopes, receipts and *)
(* answers, as far as Ledger.tla (the promise) and EventStore.tla (the     *)
(* implementation) tell them apart.                                        *)
(***************************************************************************)
EXTENDS Integers, Sequences


CONSTANTS
    CmdId,      \* command identifiers chosen by callers
    Actor,      \* an actor together with its role
    Blob,       \* artifact digests an event payload may name
    Body,       \* normalised requests (action and payload)
    Result,     \* results a handler may return
    Envelope,   \* the envelopes callers send
    NoCmd       \* origin of an event appended outside every command

ASSUME LedgerAssumption ==
    /\ Envelope \subseteq [id : CmdId, actor : Actor, body : Body,
                           expected : Nat, cause : Nat]
    /\ NoCmd \notin CmdId

\* "by" is history: the command whose handler appended the event.
Event == [actor : Actor, ref : Blob, by : CmdId \cup {NoCmd}]

Receipt == [env : Envelope, before : Nat, after : Nat, result : Result]

Answer(r) == [env |-> r.env, result |-> r.result]

Ranks(s) == 1 .. Len(s)

\* The events that s has beyond its first n.
Beyond(s, n) == (n + 1) .. Len(s)

ExtendedFrom(s, t) == /\ Len(s) =< Len(t)
                      /\ \A i \in Ranks(s) : t[i] = s[i]

=============================================================================
