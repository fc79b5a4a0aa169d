------------------------------- MODULE Faucet -------------------------------
(***************************************************************************)
(* The testnet faucet (border/faucet.py) behind its Flask routes.  Every   *)
(* request has a thread of its own and drip holds no lock: it takes the    *)
(* time, checks the two cooldowns and the balance, and only later, after   *)
(* the chain has accepted its transaction, writes down that time.  The     *)
(* chain (modelled in BorderChain) is represented by the balance of the    *)
(* faucet's wallet and the drips in the mempool; add_transaction is one    *)
(* step here, and what two of them at once do is in ChainThreads.          *)
(***************************************************************************)
EXTENDS Integers, FiniteSets, SequencesExt

CONSTANTS
    FaucetThreads, Ips, Wallets,
    Drip,                 \* DRIP_AMOUNT_BC with the fee of the transaction
    IpCooldown, AddrCooldown,
    FaucetFunds,          \* the balance at the start
    MaxHistory,           \* MAX_HISTORY
    FaucetEnd,            \* bound: the last moment of the clock
    Unasked               \* a thread without a request

ASSUME FaucetAssumption ==
    /\ {Drip, IpCooldown, AddrCooldown, MaxHistory} \subseteq Nat \ {0}
    /\ FaucetFunds \in Nat /\ FaucetEnd \in Nat /\ IpCooldown <= AddrCooldown

VARIABLES
    faucetClock,    \* time.time()
    lastIp,         \* _last_ip; long ago when there is no entry
    lastAddr,       \* _last_addr
    faucetBalance,  \* get_balance(wallet.address): what the blocks say
    unconfirmed,    \* how many drips are in the mempool
    faucetCall,     \* faucetCall[t]: the request that thread t has checked
    history,        \* _history, latest first
    drips,          \* drips[ip]: how many drips went out to ip
    overlapped      \* the IPs that were checked while another thread held a request of theirs

faucetVars == <<faucetClock, lastIp, lastAddr, faucetBalance, unconfirmed, faucetCall, history, drips,
                overlapped>>

LongAgo == -AddrCooldown

FaucetInit ==
    /\ faucetClock = 0
    /\ lastIp = [i \in Ips |-> LongAgo]
    /\ lastAddr = [a \in Wallets |-> LongAgo]
    /\ faucetBalance = FaucetFunds
    /\ unconfirmed = 0
    /\ faucetCall = [t \in FaucetThreads |-> Unasked]
    /\ history = <<>>
    /\ drips = [i \in Ips |-> 0]
    /\ overlapped = {}

\* The checks of drip; a request that fails one is answered with an error.
DripCheck(t) ==
    \E ip \in Ips, addr \in Wallets :
        /\ faucetCall[t] = Unasked
        /\ faucetClock - lastIp[ip] >= IpCooldown
        /\ faucetClock - lastAddr[addr] >= AddrCooldown
        /\ faucetBalance >= Drip
        /\ faucetCall' = [faucetCall EXCEPT ![t] = [ip |-> ip, addr |-> addr, now |-> faucetClock]]
        /\ overlapped' = IF \E u \in FaucetThreads : faucetCall[u] # Unasked /\ faucetCall[u].ip = ip
                         THEN overlapped \cup {ip} ELSE overlapped
        /\ UNCHANGED <<faucetClock, lastIp, lastAddr, faucetBalance, unconfirmed, history, drips>>

\* Mutant: the balance is compared without what the mempool has reserved.
ChainAcceptsUnreserved == faucetBalance >= Drip

\* add_transaction: the mempool reserves what its transactions spend.
ChainAccepts == faucetBalance >= Drip * (unconfirmed + 1)

\* The time that was taken before the checks is written down.
RecordDrip(c) ==
    /\ lastIp' = [lastIp EXCEPT ![c.ip] = c.now]
    /\ lastAddr' = [lastAddr EXCEPT ![c.addr] = c.now]

\* _history.appendleft on a deque with maxlen
Remember(c) == SubSeq(<<c.addr>> \o history, 1, Min({Len(history) + 1, MaxHistory}))

\* The transaction is sent, and the drip recorded if the chain accepts it.
DripSend(t) ==
    /\ faucetCall[t] # Unasked
    /\ LET c == faucetCall[t] IN
       \/ /\ ChainAccepts
          /\ unconfirmed' = unconfirmed + 1
          /\ RecordDrip(c)
          /\ history' = Remember(c)
          /\ drips' = [drips EXCEPT ![c.ip] = @ + 1]
       \/ ~ChainAccepts /\ UNCHANGED <<unconfirmed, lastIp, lastAddr, history, drips>>
    /\ faucetCall' = [faucetCall EXCEPT ![t] = Unasked]
    /\ UNCHANGED <<faucetClock, faucetBalance, overlapped>>

\* A block takes the drips out of the mempool.
BlockConfirms ==
    /\ unconfirmed > 0
    /\ faucetBalance' = faucetBalance - Drip * unconfirmed
    /\ unconfirmed' = 0
    /\ UNCHANGED <<faucetClock, lastIp, lastAddr, faucetCall, history, drips, overlapped>>

FaucetTick ==
    /\ faucetClock < FaucetEnd
    /\ faucetClock' = faucetClock + 1
    /\ UNCHANGED <<lastIp, lastAddr, faucetBalance, unconfirmed, faucetCall, history, drips, overlapped>>

FaucetNext ==
    \/ \E t \in FaucetThreads : DripCheck(t) \/ DripSend(t)
    \/ BlockConfirms \/ FaucetTick

FaucetSpec == FaucetInit /\ [][FaucetNext]_faucetVars

(* ------------------------------- properties ------------------------------ *)

\* The history never outgrows MAX_HISTORY (faucet.py:38).
FaucetTypeOK ==
    /\ faucetClock \in 0..FaucetEnd /\ unconfirmed \in Nat /\ faucetBalance \in Int
    /\ lastIp \in [Ips -> LongAgo..FaucetEnd] /\ lastAddr \in [Wallets -> LongAgo..FaucetEnd]
    /\ history \in Seq(Wallets) /\ Len(history) <= MaxHistory

\* The drips on their way never exceed the faucet's balance, although threads check it
\* one after the other before any of them spends, and blocks confirm in between: the
\* chain's reservations see to it while its add_transaction is undisturbed (faucet.py:52-66).
FaucetSolvent == Drip * unconfirmed <= faucetBalance

\* An IP whose requests do not overlap gets at most one drip per cooldown,
\* however slow a request is between taking the time and recording it.  (Threads
\* that check at the same time get past the cooldown together, and a slow one
\* writes an old time over a later one: faucet.py:41 and 67.)
CooldownKept ==
    \A i \in Ips \ overlapped : drips[i] <= 1 + faucetClock \div IpCooldown

\* The limits of the faucet hold under threads that check before any of them records.
FaucetConsistent == FaucetTypeOK /\ FaucetSolvent /\ CooldownKept
=============================================================================
