--------------------------- MODULE PaymentChannel ---------------------------
(***************************************************************************)
(* An off-chain payment channel (border/payments): channels of a           *)
(* ChannelManager are independent, so this is one of them, with one        *)
(* manager that serves both parties as in the tests.  The sender signs     *)
(* receipts with a nonce and the cumulative amount; they reach the         *)
(* receiver late, out of order, more than once or not at all.              *)
(*                                                                         *)
(* The manager has no chain (chain is None): with one, open_channel and    *)
(* settle fail in Transaction.create.  Wallets are the right ones and      *)
(* signatures verify; calls with others return without effect.             *)
(*                                                                         *)
(* A receipt may also reach a manager of the receiver that does not know   *)
(* the channel (a second process, or the same one started anew: managers   *)
(* keep everything in memory).  It countersigns whatever the sender signed *)
(* and remembers nothing (elsewhere counts how often).                     *)
(***************************************************************************)
EXTENDS Integers, FiniteSets, Functions

CONSTANTS
    Deposits,     \* deposits offered to open_channel
    Increments,   \* increments offered to send
    MaxNonce,     \* bound on the receipts of a behaviour
    MaxElsewhere  \* bound on what managers without the channel countersign

ASSUME PaymentAssumption ==
    /\ Deposits \subseteq Int /\ Increments \subseteq Int
    /\ MaxNonce \in Nat /\ MaxElsewhere \in Nat

VARIABLES
    state,      \* "none" before open_channel, then ChannelState
    ttl,        \* "never", "running" or "expired": expires_at against the clock
    deposited,  \* deposited
    nonce,      \* ch.nonce
    paid,       \* ch.cumulative_paid
    recvNonce,  \* _received_nonces[channel]
    latest,     \* nonce of _latest_receipt, 0 when there is none
    signed,     \* receipts the sender signed: [nonce, amount]
    acks,       \* acks[k]: how often this manager countersigned a receipt of nonce k
    elsewhere   \* elsewhere[k]: how often managers without the channel did

channelVars == <<state, ttl, deposited, nonce, paid, recvNonce, latest, signed, acks, elsewhere>>

Receipt == [nonce : Nat, amount : Nat]
Nonces == 1 .. MaxNonce

BalanceReceiver == IF paid < deposited THEN paid ELSE deposited
BalanceSender   == IF deposited > paid THEN deposited - paid ELSE 0
IsActive == state = "open" /\ ttl # "expired"

ChannelInit ==
    /\ state = "none" /\ ttl = "never"
    /\ deposited = 0 /\ nonce = 0 /\ paid = 0 /\ recvNonce = 0 /\ latest = 0
    /\ signed = {}
    /\ acks = [k \in Nonces |-> 0] /\ elsewhere = [k \in Nonces |-> 0]

OpenChannel(deposit, withTtl) ==
    /\ state = "none"
    /\ deposit > 0
    /\ state' = "open"
    /\ ttl' = IF withTtl THEN "running" ELSE "never"
    /\ deposited' = deposit
    /\ UNCHANGED <<nonce, paid, recvNonce, latest, signed, acks, elsewhere>>

\* Time passes expires_at.
Expire ==
    /\ ttl = "running"
    /\ ttl' = "expired"
    /\ UNCHANGED <<state, deposited, nonce, paid, recvNonce, latest, signed, acks, elsewhere>>

Send(inc) ==
    /\ IsActive
    /\ inc > 0
    /\ paid + inc <= deposited
    /\ nonce < MaxNonce
    /\ signed' = signed \cup {[nonce |-> nonce + 1, amount |-> paid + inc]}
    /\ nonce' = nonce + 1
    /\ paid' = paid + inc
    /\ latest' = nonce + 1
    /\ UNCHANGED <<state, ttl, deposited, recvNonce, acks, elsewhere>>

ReceiveAgain(r) ==
    /\ state # "none"
    /\ r.nonce >= recvNonce /\ r.amount <= deposited
    /\ acks' = [acks EXCEPT ![r.nonce] = @ + 1]
    /\ recvNonce' = r.nonce
    /\ nonce' = IF r.nonce > nonce THEN r.nonce ELSE nonce
    /\ paid' = r.amount
    /\ latest' = r.nonce
    /\ UNCHANGED <<state, ttl, deposited, signed, elsewhere>>

\* receive at the manager of the channel, whatever its state; a stale nonce is refused.
Receive(r) ==
    /\ state # "none"
    /\ r.nonce > recvNonce
    /\ r.amount <= deposited
    /\ acks' = [acks EXCEPT ![r.nonce] = @ + 1]
    /\ recvNonce' = r.nonce
    /\ nonce' = IF r.nonce > nonce THEN r.nonce ELSE nonce
    /\ paid' = r.amount
    /\ latest' = r.nonce
    /\ UNCHANGED <<state, ttl, deposited, signed, elsewhere>>

\* receive at a manager that finds no channel of this id: "ok (stateless)".
ReceiveStateless(r) ==
    /\ SumFunction(elsewhere) < MaxElsewhere
    /\ elsewhere' = [elsewhere EXCEPT ![r.nonce] = @ + 1]
    /\ UNCHANGED <<state, ttl, deposited, nonce, paid, recvNonce, latest, signed, acks>>

Close ==
    /\ state = "open"
    /\ state' = "closing"
    /\ UNCHANGED <<ttl, deposited, nonce, paid, recvNonce, latest, signed, acks, elsewhere>>

\* settle, of a closing or an open channel.
Settle ==
    /\ state \in {"closing", "open"}
    /\ state' = "closed"
    /\ UNCHANGED <<ttl, deposited, nonce, paid, recvNonce, latest, signed, acks, elsewhere>>

ChannelNext ==
    \/ \E d \in Deposits, withTtl \in BOOLEAN : OpenChannel(d, withTtl)
    \/ Expire
    \/ \E inc \in Increments : Send(inc)
    \/ \E r \in signed : Receive(r) \/ ReceiveStateless(r)
    \/ Close
    \/ Settle

ChannelSpec == ChannelInit /\ [][ChannelNext]_channelVars

-----------------------------------------------------------------------------
(* Properties *)

\* Types: amounts are never negative, whatever callers offer as deposit and increment.
ChannelTypeOK ==
    /\ state \in {"none", "open", "closing", "closed"}
    /\ ttl \in {"never", "running", "expired"}
    /\ deposited \in Nat /\ nonce \in 0 .. MaxNonce /\ paid \in Nat
    /\ recvNonce \in Nat /\ latest \in Nat
    /\ signed \subseteq [nonce : Nonces, amount : Nat]
    /\ acks \in [Nonces -> Nat] /\ elsewhere \in [Nonces -> Nat]

\* The sender never signs two receipts with one nonce, in whatever order sends and late
\* deliveries alternate: receive moves ch.nonce too, and never back.
OneReceiptPerNonce == \A r, q \in signed : r.nonce = q.nonce => r = q

\* No receipt promises more than the deposit, and the two shares add up to it.
WithinDeposit ==
    /\ \A r \in signed : r.amount <= deposited
    /\ BalanceReceiver + BalanceSender = deposited
    /\ paid <= deposited

\* A receipt delivered twice, or after a newer one, is countersigned once at most by the
\* manager that knows the channel, whatever others countersign meanwhile.
NoReplay == \A k \in Nonces : acks[k] <= 1

\* border_whitepaper.md 5.3: "Each receipt commits to a monotonically increasing nonce
\* and cumulative amount".
AmountsIncrease == \A r, q \in signed : r.nonce < q.nonce => r.amount < q.amount

\* At the manager of the channel a receipt counts once and never for more than the deposit,
\* in whatever order and however often receipts arrive.
ReceiptsCountOnce == ChannelTypeOK /\ OneReceiptPerNonce /\ NoReplay /\ WithinDeposit
=============================================================================
