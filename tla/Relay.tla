------------------------------- MODULE Relay -------------------------------
(***************************************************************************)
(* BorderRelay (border/relay.py): sessions whose bytes are counted and     *)
(* claimed in bandwidth proofs.  HTTP handler threads record bytes and     *)
(* close sessions, a daemon flushes open sessions on a timer.  The counter *)
(* updates are under _lock; _emit_proof is under it when _record_bytes     *)
(* calls it, and not when close_session and _flush_loop do.                *)
(*                                                                         *)
(* A proof is its byte count; add_proof takes it, since every receipt_id   *)
(* ends in a fresh uuid, so the proofs of a session are a sum, claimed.    *)
(* The mining daemon is in module BorderChain.                             *)
(***************************************************************************)
EXTENDS Integers, FiniteSets

CONSTANTS
    Sessions,       \* session ids
    Handlers,       \* threads that record bytes and close sessions
    Flushers,       \* threads that run _flush_loop (one, once start() was called)
    Sizes,          \* sizes of wrapped messages
    FlushBytes,     \* PROOF_FLUSH_BYTES
    MaxBytes,       \* bound on the bytes of a session
    NoOwner

ASSUME RelayAssumption ==
    /\ Sessions # {}
    /\ Sizes \subseteq Nat \ {0}
    /\ FlushBytes \in Nat \ {0} /\ MaxBytes \in Nat
    /\ NoOwner \notin Handlers \cup Flushers

RelayThreads == Handlers \cup Flushers

VARIABLES
    state,      \* state[s]: "new", "open" (a key of _sessions), "closed"
    total,      \* total[s]: bytes_in + bytes_out
    flushed,    \* flushed[s]: _flushed_bytes
    claimed,    \* claimed[s]: bytes of the proofs given to the chain
    relayLock,  \* owner of _lock across steps
    relayPc,    \* relayPc[th]
    relayLocal  \* relayLocal[th]: [s, count, mark, todo]

relayVars == <<state, total, flushed, claimed, relayLock, relayPc, relayLocal>>

Unflushed(s) == total[s] - flushed[s]

Locals == [s : Sessions, count : Nat, mark : Nat, todo : SUBSET Sessions]

RelayInit ==
    /\ state = [s \in Sessions |-> "new"]
    /\ total = [s \in Sessions |-> 0]
    /\ flushed = [s \in Sessions |-> 0]
    /\ claimed = [s \in Sessions |-> 0]
    /\ relayLock = NoOwner
    /\ relayPc = [th \in RelayThreads |-> "idle"]
    /\ relayLocal \in [RelayThreads -> [s : {CHOOSE s \in Sessions : TRUE}, count : {0}, mark : {0},
                              todo : {{}}]]

Move(th, from, to) ==
    /\ relayPc[th] = from
    /\ relayPc' = [relayPc EXCEPT ![th] = to]

-----------------------------------------------------------------------------
OpenSession(th, s) ==
    /\ relayPc[th] = "idle" /\ relayLock = NoOwner
    /\ state[s] = "new"
    /\ state' = [state EXCEPT ![s] = "open"]
    /\ UNCHANGED <<total, flushed, claimed, relayLock, relayPc, relayLocal>>

\* _record_bytes, first critical section: count, and look whether to flush.
RecordBytes(th, s, k) ==
    /\ relayLock = NoOwner
    /\ state[s] = "open"
    /\ total[s] + k <= MaxBytes
    /\ total' = [total EXCEPT ![s] = @ + k]
    /\ IF Unflushed(s) + k >= FlushBytes
       THEN /\ Move(th, "idle", "relock")
            /\ relayLocal' = [relayLocal EXCEPT ![th].s = s, ![th].count = Unflushed(s) + k]
       ELSE relayPc[th] = "idle" /\ UNCHANGED <<relayPc, relayLocal>>
    /\ UNCHANGED <<state, flushed, claimed, relayLock>>

\* Second critical section: the session is looked up again, the count is not.
Relock(th) ==
    /\ relayLock = NoOwner
    /\ IF state[relayLocal[th].s] = "open"
       THEN Move(th, "relock", "emit") /\ relayLock' = th
       ELSE Move(th, "relock", "idle") /\ UNCHANGED relayLock
    /\ UNCHANGED <<state, total, flushed, claimed, relayLocal>>

\* close_session: the session leaves _sessions under the lock ...
CloseSession(th, s) ==
    /\ relayLock = NoOwner
    /\ state[s] = "open"
    /\ state' = [state EXCEPT ![s] = "closed"]
    /\ Move(th, "idle", "check")
    /\ relayLocal' = [relayLocal EXCEPT ![th].s = s]
    /\ UNCHANGED <<total, flushed, claimed, relayLock>>

\* ... and whether bytes are left is looked at without it.
CheckLeft(th) ==
    /\ Move(th, "check", IF Unflushed(relayLocal[th].s) > 0 THEN "arg" ELSE "idle")
    /\ UNCHANGED <<state, total, flushed, claimed, relayLock, relayLocal>>

\* _flush_loop: the sessions due are listed under the lock (the timer is any of them).
FlushLoop(th, due) ==
    /\ relayLock = NoOwner
    /\ due # {}
    /\ \A s \in due : state[s] = "open" /\ Unflushed(s) > 0
    /\ Move(th, "idle", "flush")
    /\ relayLocal' = [relayLocal EXCEPT ![th].todo = due]
    /\ UNCHANGED <<state, total, flushed, claimed, relayLock>>

FlushOne(th) ==
    /\ IF relayLocal[th].todo = {}
       THEN Move(th, "flush", "idle") /\ UNCHANGED relayLocal
       ELSE /\ Move(th, "flush", "arg")
            /\ \E s \in relayLocal[th].todo :
                   relayLocal' = [relayLocal EXCEPT ![th].s = s, ![th].todo = @ \ {s}]
    /\ UNCHANGED <<state, total, flushed, claimed, relayLock>>

\* stats.unflushed_bytes, as the argument of _emit_proof
EvalCount(th) ==
    /\ Move(th, "arg", "emit")
    /\ relayLocal' = [relayLocal EXCEPT ![th].count = Unflushed(relayLocal[th].s)]
    /\ UNCHANGED <<state, total, flushed, claimed, relayLock>>

-----------------------------------------------------------------------------
(* _emit_proof *)

\* The proof is signed; stats.total_bytes, as the argument of mark_flush
SignProof(th) ==
    /\ Move(th, "emit", "mark")
    /\ relayLocal' = [relayLocal EXCEPT ![th].mark = total[relayLocal[th].s]]
    /\ UNCHANGED <<state, total, flushed, claimed, relayLock>>

\* Mutant: what is marked is the count of this proof.
MarkFlushCount(th) ==
    /\ Move(th, "mark", "submit")
    /\ flushed' = [flushed EXCEPT ![relayLocal[th].s] = relayLocal[th].count]
    /\ UNCHANGED <<state, total, claimed, relayLock, relayLocal>>

MarkFlush(th) ==
    /\ Move(th, "mark", "submit")
    /\ flushed' = [flushed EXCEPT ![relayLocal[th].s] = relayLocal[th].mark]
    /\ UNCHANGED <<state, total, claimed, relayLock, relayLocal>>

\* Mutant: _lock stays with the thread after _record_bytes.
SubmitHolding(th) ==
    /\ Move(th, "submit", IF relayLocal[th].todo # {} THEN "flush" ELSE "idle")
    /\ claimed' = [claimed EXCEPT ![relayLocal[th].s] = @ + relayLocal[th].count]
    /\ UNCHANGED <<state, total, flushed, relayLock, relayLocal>>

\* chain.add_proof; then back to _flush_loop, or out of _record_bytes or close_session.
Submit(th) ==
    /\ Move(th, "submit", IF relayLocal[th].todo # {} THEN "flush" ELSE "idle")
    /\ claimed' = [claimed EXCEPT ![relayLocal[th].s] = @ + relayLocal[th].count]
    /\ relayLock' = IF relayLock = th THEN NoOwner ELSE relayLock
    /\ relayLocal' = [relayLocal EXCEPT ![th].count = 0, ![th].mark = 0]
    /\ UNCHANGED <<state, total, flushed>>

-----------------------------------------------------------------------------
RelayContinue(th) ==
    \/ Relock(th) \/ CheckLeft(th) \/ FlushOne(th) \/ EvalCount(th)
    \/ SignProof(th) \/ MarkFlush(th) \/ Submit(th)

RelayNext ==
    \/ \E th \in Handlers, s \in Sessions :
          \/ OpenSession(th, s)
          \/ \E k \in Sizes : RecordBytes(th, s, k)
          \/ CloseSession(th, s)
    \/ \E th \in Flushers, due \in SUBSET Sessions : FlushLoop(th, due)
    \/ \E th \in RelayThreads : RelayContinue(th)

RelayFairness == \A th \in RelayThreads : WF_relayVars(RelayContinue(th))

RelaySpec == RelayInit /\ [][RelayNext]_relayVars /\ RelayFairness

-----------------------------------------------------------------------------
(* Properties *)

\* Types; in particular no proof claims a negative number of bytes, whatever counter
\* values _emit_proof and mark_flush read and write without the lock.
RelayTypeOK ==
    /\ state \in [Sessions -> {"new", "open", "closed"}]
    /\ total \in [Sessions -> Nat]
    /\ flushed \in [Sessions -> Nat]
    /\ claimed \in [Sessions -> Nat]
    /\ relayLock \in RelayThreads \cup {NoOwner}
    /\ relayPc \in [RelayThreads -> {"idle", "relock", "check", "flush", "arg", "emit", "mark", "submit"}]
    /\ relayLocal \in [RelayThreads -> Locals]

\* The relay implements the meter: every proof claims what no proof has claimed yet.
Meter == INSTANCE BandwidthMeter WITH Sessions <- Sessions, Sizes <- Sizes,
                                     total <- total, claimed <- claimed
ImplementsMeter == Meter!Spec

\* border_whitepaper.md 4.2: rewards are "proportional to bytes forwarded", so a session
\* never claims more bytes than it forwarded.
NeverOverclaims == \A s \in Sessions : claimed[s] <= total[s]

\* Every call of a handler and every round of the flush daemon ends: _lock is not
\* reentrant and is held across _emit_proof, which must not need it.
CallsReturn == \A th \in RelayThreads : []<>(relayPc[th] = "idle")
=============================================================================
