----------------------------- MODULE MCServices -----------------------------
(***************************************************************************)
(* The services beside the chain, each taking its calls one at a time or,  *)
(* for DNS and the faucet, with threads: the relay (Relay, one thread),    *)
(* DNS, identity, the faucet, storage, LoRa and the directory of relays,   *)
(* and three pieces they and the chain rest on: the money schedule         *)
(* (Economics), scripts (ScriptEngine) and what records go through on the  *)
(* wire (WireFormat).                                                      *)
(* They share no variable, so a behaviour is one of one of them.           *)
(***************************************************************************)
EXTENDS MCRelay, DnsRegistry, Identity, Faucet, MCStorage, Lora, Economics, MCScripts, WireFormat,
        RelayDirectory

CONSTANTS n1, n2, bare, o1, o2, th1, th2, da, db, hd1, hd2, c1, c2, c3, i1, i2, w1, w2,
          plain, urgent, long, longer, rb, rx, ry

\* DNS: names, one of them written without its suffix, and what is asked of the registry.
MCNormal == [n \in DnsNames |-> IF n = bare THEN n1 ELSE n]
Ask(op, n, o, type, target, to) ==
    [op |-> op, name |-> n, owner |-> o, signer |-> o, type |-> type, target |-> target, to |-> to]
MCAsks == {Ask("register", n1, o1, "address", n1, o1), Ask("register", n1, o2, "address", n1, o2),
           Ask("register", n2, o2, "cname", n1, o2), Ask("add", n2, o2, "did", n1, o2),
           Ask("transfer", n1, o1, "address", n1, o2),
           [Ask("register", bare, o1, "did", n1, o1) EXCEPT !.signer = o2]}

\* Bounds: names are asked for, records and claims expire and proofs are counted once the last
\* request has ended; none of it plays a part in the requests.
LateQueries ==
    requests < MaxRequests \/ (\E t \in DnsThreads : dnsCall[t] # DnsIdle)
        => UNCHANGED <<dnsCache, dnsExpired>>
LateCounts ==
    idRequests < MaxIdRequests \/ (\E t \in IdThreads : idCall[t] # IdIdle)
        => UNCHANGED <<claimsOver, proofCount, penalties>>

\* Identity: two claims of a stake, made in the other order than they arrive, and a voucher;
\* two registrations of one DID, two of one handle.
Claim(i, s, t, v, at) == [issuer |-> i, subject |-> s, type |-> t, value |-> v, issued |-> at]
MCClaimOf == [c \in Claims |-> CASE c = c1 -> Claim(da, da, "stake", 10, 2)
                                 [] c = c2 -> Claim(da, da, "stake", 30, 1)
                                 [] c = c3 -> Claim(db, da, "peer_trust", 0, 1)]
MCIdAsks == [op : {"register"}, did : {da}, handle : {hd1, hd2}]
            \cup [op : {"register"}, did : {db}, handle : {hd1}]
            \cup [op : {"service"}, did : {da}] \cup [op : {"claim"}, claim : Claims]

\* LoRa: contents of one packet, of exactly one, of two, of exactly two.
MCPriority == [c \in Contents |-> CASE c = urgent -> 0 [] c = plain -> 1 [] OTHER -> 3]
MCLength == [c \in Contents |-> CASE c = urgent -> 100 [] c = plain -> 214
                                  [] c = long -> 215 [] c = longer -> 428]

\* Economics: blocks that come early, on time and late, and clocks that go back.
MCTimes == {-5, 0, 10, 100}

\* The rewards of this instance are whole, as ServiceProofs asks of them.
ASSUME RewardsAreWhole == WholeRewards

\* Directories that list new relays, break off, list nothing, or mark a bootstrap node down.
Entry(id, uptime, region, age) == [id |-> id, uptime |-> uptime, region |-> region, age |-> age]
MCBootstrap == <<[id |-> rb, uptime |-> 9, region |-> "EU"]>>
MCListings == {<<>>, <<Entry(rx, 9, "US", 0), Entry(ry, 9, "EU", 0)>>,
               <<Entry(ry, 10, "US", 1), BadEntry>>, <<Entry(rb, 7, "EU", 0)>>}
-----------------------------------------------------------------------------
VARIABLE part    \* whose behaviour it is

allVars == <<relayVars, dnsVars, idVars, faucetVars, storageVars, loraVars, ecoVars, scriptVars,
             wireVars, dirVars, part>>

\* A step of part p: the variables of the others stay as they are.
Rest(p) ==
    /\ part = p /\ UNCHANGED part
    /\ p # "relay" => UNCHANGED relayVars
    /\ p # "dns" => UNCHANGED dnsVars
    /\ p # "identity" => UNCHANGED idVars
    /\ p # "faucet" => UNCHANGED faucetVars
    /\ p # "storage" => UNCHANGED storageVars
    /\ p # "lora" => UNCHANGED loraVars
    /\ p # "economics" => UNCHANGED ecoVars
    /\ p # "script" => UNCHANGED scriptVars
    /\ p # "wire" => UNCHANGED wireVars
    /\ p # "directory" => UNCHANGED dirVars

ServicesInit ==
    /\ part \in {"relay", "dns", "identity", "faucet", "storage", "lora", "economics", "script", "wire",
                "directory"}
    /\ WireInit /\ (part # "wire" => wireKind = "Transaction" /\ "long" \notin Range(made))
    /\ LoraInit /\ (part # "lora" => simulation)
    /\ IF part = "script" THEN TRUE ELSE program = Bare(<<>>)
    /\ ScriptInit
    /\ RelayInit /\ DnsInit /\ IdentityInit /\ FaucetInit /\ StorageInit /\ EcoInit
    /\ DirectoryInit

ServicesNext ==
    \/ Rest("relay") /\ RelayNext
    \/ Rest("dns") /\ DnsNext /\ LateQueries
    \/ Rest("identity") /\ IdentityNext /\ LateCounts
    \/ Rest("faucet") /\ FaucetNext
    \/ Rest("storage") /\ StorageNext
    \/ Rest("lora") /\ LoraNext
    \/ Rest("economics") /\ EcoNext
    \/ Rest("script") /\ ScriptNext
    \/ Rest("wire") /\ WireNext
    \/ Rest("directory") /\ DirectoryNext

\* LoraFairness (RelayFairness is in MCThreads).
ServicesFairness ==
    WF_allVars(Rest("lora") /\ BroadcastNext) /\ WF_allVars(Rest("lora") /\ ReceivePacket)

ServicesSpec == ServicesInit /\ [][ServicesNext]_allVars /\ ServicesFairness
=============================================================================
