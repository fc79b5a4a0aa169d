----------------------------- MODULE DnsRegistry -----------------------------
(***************************************************************************)
(* DNSRegistry and DNSResolver (border/dns) behind the routes of           *)
(* BorderDNSNode.  The routes are plain functions, so every request has a  *)
(* thread of its own, and nothing is locked.  A request checks, looks a    *)
(* second time whether the name is there (registry.py:86), changes the     *)
(* dictionaries, appends its record, copies the records, reads the owners  *)
(* and opens the file, which empties it, and writes the copy: each is a    *)
(* step, and other requests come in between.  Records are Python objects   *)
(* which the cache of the resolver shares with the registry: a transfer    *)
(* rewrites the owner of a cached record too.  A list is the set of its    *)
(* records, in the order in which they were made.  A name is given by its  *)
(* spelling; Normal adds the suffix ".border" where it is missing.  The    *)
(* sum of the fees, which only the statistics show, is left out.           *)
(***************************************************************************)
EXTENDS Integers, FiniteSets, FiniteSetsExt, Sequences

CONSTANTS
    DnsNames, DnsOwners, DnsThreads,
    Normal,           \* Normal[n]: the spelling with the suffix
    DnsAsks,          \* the requests that clients send
    QueryTypes,       \* the record types that are asked for; "any" stands for None
    RegistrationFee, TransferFee,
    CnameDepth,       \* MAX_CNAME_DEPTH
    MaxRequests,      \* bound: requests that pass their checks
    Nobody,           \* no owner, nothing cached
    TornFile          \* a file that json.loads refuses

\* RecordType; TXT and SRV records are resolved as DID records are.
RecordType == {"address", "did", "cname"}

ASSUME DnsAssumption ==
    /\ Normal \in [DnsNames -> DnsNames] /\ \A n \in DnsNames : Normal[Normal[n]] = Normal[n]
    /\ DnsAsks \subseteq [op : {"register", "add", "transfer"}, name : DnsNames, owner : DnsOwners,
                          signer : DnsOwners, type : RecordType, target : DnsNames, to : DnsOwners]
    /\ QueryTypes \subseteq RecordType \cup {"any"}
    /\ RegistrationFee \in Nat /\ TransferFee \in Nat /\ CnameDepth \in Nat
    /\ MaxRequests \in Nat /\ Nobody \notin DnsOwners \cup DnsNames

DnsRecord == [type : RecordType, value : DnsOwners \cup DnsNames, owner : DnsOwners]

VARIABLES
    dnsObj,      \* the DNSRecord objects, by the order in which they were made
    dnsExpired,  \* those whose time to live, counted from their creation, is over
    dnsEntries,  \* the names in _records
    dnsRecords,  \* _records: the objects of every name; {} when it has no entry
    dnsOwners,   \* _owners
    dnsSaved,    \* the file at persist_path
    dnsCache,    \* _cache of the resolver: the fresh answers, by name and type
    dnsCall,     \* dnsCall[t]: the request of thread t, after its checks
    requests,    \* how many requests have passed their checks
    dnsUp,       \* the node runs: it does not start with a torn file
    dnsRaced     \* history: the request that ended last changed something while another did

dnsVars == <<dnsObj, dnsEntries, dnsRecords, dnsOwners, dnsSaved, dnsExpired, dnsCache, dnsCall, requests,
             dnsUp, dnsRaced>>
memory == <<dnsObj, dnsEntries, dnsRecords, dnsOwners>>
answers == <<dnsExpired, dnsCache, requests, dnsUp>>

\* A thread without a request
DnsIdle == [at |-> "idle"]

Keys == {Normal[n] : n \in DnsNames} \X QueryTypes

DnsInit ==
    /\ dnsObj = <<>> /\ dnsEntries = {} /\ dnsExpired = {}
    /\ dnsRecords = [n \in DnsNames |-> {}]
    /\ dnsOwners = [n \in DnsNames |-> Nobody]
    /\ dnsSaved = [entries |-> {}, records |-> dnsRecords, objs |-> <<>>, owners |-> dnsOwners]
    /\ dnsCache = [k \in Keys |-> Nobody]
    /\ dnsCall = [t \in DnsThreads |-> DnsIdle]
    /\ requests = 0 /\ dnsUp = TRUE /\ dnsRaced = FALSE

\* What a request writes into the file.
Memory == [entries |-> dnsEntries, records |-> dnsRecords, objs |-> dnsObj, owners |-> dnsOwners]

Known(n) == dnsOwners[n] # Nobody

\* Thread t has begun to change the registry and has not written the file.
Changing(t) == dnsCall[t].at \in {"listed", "set", "changed", "open"}

(* ------------------------------ registration ----------------------------- *)

\* DNSRecord.create: the owner registers an own address or DID, or an alias.
Create(type, owner, target) ==
    [type |-> type, owner |-> owner,
     value |-> IF type = "cname" THEN target ELSE owner]

\* _verify_owner_sig: the key has to be that of the address which the request names.
VerifyOwnerSig(signer, address) == signer = address

\* The checks of register, for a client that pays the fee or nothing.
CheckRegister(ask, paid) ==
    /\ ask.op = "register"
    /\ ~Known(ask.name) \/ dnsOwners[ask.name] = ask.owner
    /\ paid >= RegistrationFee \/ Known(ask.name)
    /\ VerifyOwnerSig(ask.signer, ask.owner)

\* The checks of add_record, which costs nothing.
CheckAdd(ask, paid) ==
    /\ ask.op = "add"
    /\ Known(ask.name) /\ dnsOwners[ask.name] = ask.owner
    /\ VerifyOwnerSig(ask.signer, ask.owner)

\* The checks of transfer.
CheckTransfer(ask, paid) ==
    /\ ask.op = "transfer"
    /\ Known(ask.name) /\ dnsOwners[ask.name] = ask.owner
    /\ paid >= TransferFee
    /\ VerifyOwnerSig(ask.signer, ask.owner)

\* REGISTRATION_FEE_BC and TRANSFER_FEE_BC
Fee(op) == CASE op = "register" -> RegistrationFee [] op = "transfer" -> TransferFee [] op = "add" -> 0

CheckRequest(t) ==
    /\ dnsCall[t] = DnsIdle /\ requests < MaxRequests /\ requests' = requests + 1
    /\ \E ask \in DnsAsks : \E paid \in {0, Fee(ask.op)} :
        /\ CheckRegister(ask, paid) \/ CheckAdd(ask, paid) \/ CheckTransfer(ask, paid)
        /\ dnsCall' = [dnsCall EXCEPT ![t] =
               [op |-> ask.op, name |-> ask.name, to |-> ask.to, at |-> "checked",
                record |-> Create(ask.type, ask.owner, ask.target), new |-> FALSE, kept |-> {},
                alone |-> TRUE]]
    /\ UNCHANGED <<memory, dnsExpired, dnsCache, dnsUp, dnsSaved, dnsRaced>>

OfType(ids, type) == {i \in ids : dnsObj[i].type = type}

\* Thread t, which is at a step, goes on; one that begins to change the registry while another
\* is about it makes neither of them alone.
At(t, step) == dnsUp /\ dnsCall[t].at = step
Goes(t, from, to) == At(t, from) /\ dnsCall' = [dnsCall EXCEPT ![t].at = to]
Begins(t, call) ==
    dnsCall' = [u \in DnsThreads |->
        IF u = t THEN [call EXCEPT !.alone = \A v \in DnsThreads \ {t} : ~Changing(v)]
        ELSE IF Changing(u) THEN [dnsCall[u] EXCEPT !.alone = FALSE] ELSE dnsCall[u]]

\* A request that has changed all that it changes, and saves it.
Saves(alone) == [at |-> "changed", alone |-> alone]

\* register looks whether the name is new, and which of its records stay if it is not.
TestName(t) ==
    LET c == dnsCall[t] IN
    /\ At(t, "checked") /\ c.op = "register"
    /\ dnsCall' = [dnsCall EXCEPT ![t] =
           [c EXCEPT !.at = "tested", !.new = c.name \notin dnsEntries,
                     !.kept = dnsRecords[c.name] \ OfType(dnsRecords[c.name], c.record.type)]]
    /\ UNCHANGED <<memory, answers, dnsSaved, dnsRaced>>

\* register sets the list of the name to what it made of it, whatever happened since it looked.
SetList(t) ==
    LET c == dnsCall[t] IN
    /\ At(t, "tested") /\ Begins(t, [c EXCEPT !.at = "listed"])
    /\ dnsEntries' = dnsEntries \cup {c.name}
    /\ dnsRecords' = [dnsRecords EXCEPT ![c.name] = IF c.new THEN {} ELSE c.kept]
    /\ UNCHANGED <<dnsObj, dnsOwners, answers, dnsSaved, dnsRaced>>

\* Mutant: the owner is set whether or not the name was new.
TakeName(c) == dnsOwners' = [dnsOwners EXCEPT ![c.name] = c.record.owner]

\* A name that was new gets the owner.
RegisterName(c) ==
    IF c.new THEN dnsOwners' = [dnsOwners EXCEPT ![c.name] = c.record.owner] ELSE UNCHANGED dnsOwners
SetNewOwner(t) ==
    /\ Goes(t, "listed", "set") /\ RegisterName(dnsCall[t])
    /\ UNCHANGED <<dnsObj, dnsEntries, dnsRecords, answers, dnsSaved, dnsRaced>>

\* The record goes to the end of the list.
AppendRecord(c) ==
    /\ dnsObj' = Append(dnsObj, c.record)
    /\ dnsRecords' = [dnsRecords EXCEPT ![c.name] = @ \cup {Len(dnsObj) + 1}]
    /\ UNCHANGED <<dnsEntries, dnsOwners>>

\* register and add_record append; a name without an entry has no list, and add_record raises.
RegisterAppends(t) ==
    /\ At(t, "set") /\ dnsCall[t].op = "register" /\ AppendRecord(dnsCall[t])
    /\ dnsCall' = [dnsCall EXCEPT ![t] = Saves(dnsCall[t].alone)]
    /\ UNCHANGED <<answers, dnsSaved, dnsRaced>>
AddRecord(t) ==
    /\ At(t, "checked") /\ dnsCall[t].op = "add" /\ dnsCall[t].name \in dnsEntries
    /\ AppendRecord(dnsCall[t]) /\ Begins(t, Saves(TRUE))
    /\ UNCHANGED <<answers, dnsSaved, dnsRaced>>
AddFails(t) ==
    /\ At(t, "checked") /\ dnsCall[t].op = "add" /\ dnsCall[t].name \notin dnsEntries
    /\ dnsCall' = [dnsCall EXCEPT ![t] = DnsIdle]
    /\ UNCHANGED <<memory, answers, dnsSaved, dnsRaced>>

\* transfer sets the owner, and then that of every record of the name, in place.
SetOwner(t) ==
    LET c == dnsCall[t] IN
    /\ At(t, "checked") /\ c.op = "transfer" /\ Begins(t, [c EXCEPT !.at = "set"])
    /\ dnsOwners' = [dnsOwners EXCEPT ![c.name] = c.to]
    /\ UNCHANGED <<dnsObj, dnsEntries, dnsRecords, answers, dnsSaved, dnsRaced>>
MoveRecords(t) ==
    LET c == dnsCall[t] IN
    /\ At(t, "set") /\ c.op = "transfer"
    /\ dnsCall' = [dnsCall EXCEPT ![t] = Saves(c.alone)]
    /\ dnsObj' = [i \in DOMAIN dnsObj |->
                    IF i \in dnsRecords[c.name] THEN [dnsObj[i] EXCEPT !.owner = c.to] ELSE dnsObj[i]]
    /\ UNCHANGED <<dnsEntries, dnsRecords, dnsOwners, answers, dnsSaved, dnsRaced>>

\* _save: the records are copied, the owners are read and the file is opened, which empties
\* it; then the text is written.  Of two that write at a time the older copy may be written
\* last, or the file may be neither text; and a copy that another request runs into may mix
\* what was before and after: nothing below is said of the file of a request that had company.
OpenFile(t) ==
    /\ At(t, "changed")
    /\ dnsCall' = [dnsCall EXCEPT ![t] = [at |-> "open", alone |-> dnsCall[t].alone, copy |-> Memory]]
    /\ dnsSaved' = TornFile
    /\ UNCHANGED <<memory, answers, dnsRaced>>
WriteFile(t) ==
    /\ At(t, "open")
    /\ dnsSaved' \in {dnsCall[t].copy} \cup (IF dnsCall[t].alone THEN {} ELSE {TornFile})
    /\ dnsCall' = [dnsCall EXCEPT ![t] = DnsIdle]
    /\ dnsRaced' = ~dnsCall[t].alone
    /\ UNCHANGED <<memory, answers>>

\* A dictionary that another request extends breaks off the copy of this one.
SaveBreaks(t) ==
    /\ At(t, "changed") /\ ~dnsCall[t].alone
    /\ dnsCall' = [dnsCall EXCEPT ![t] = DnsIdle]
    /\ dnsRaced' = TRUE
    /\ UNCHANGED <<memory, answers, dnsSaved>>

Request(t) ==
    \/ CheckRequest(t) \/ TestName(t) \/ SetList(t) \/ SetNewOwner(t) \/ RegisterAppends(t)
    \/ AddRecord(t) \/ AddFails(t) \/ SetOwner(t) \/ MoveRecords(t) \/ OpenFile(t) \/ WriteFile(t) \/ SaveBreaks(t)

(* ------------------------------- resolution ------------------------------ *)

\* DNSRegistry.resolve
Resolve(n, type) ==
    LET live == dnsRecords[Normal[n]] \ dnsExpired
    IN  IF type = "any" THEN live ELSE OfType(live, type)

\* The value of the first of the records that were found
FirstValue(found) == dnsObj[Min(found)].value

\* DNSRegistry.resolve_address: an address record, or else the address of a DID.
RegistryAddress(n) ==
    LET addresses == Resolve(n, "address")
        dids == Resolve(n, "did")
    IN  IF addresses # {} THEN FirstValue(addresses)
        ELSE IF dids # {} THEN FirstValue(dids) ELSE Nobody

\* Mutant: the last level of the chain of aliases is not looked at.
FollowAliasesShort(type) ==
    LET follow[left \in 0..CnameDepth + 1] ==
            [n \in DnsNames |->
                LET found == Resolve(n, type)
                    alias == Resolve(n, "cname")
                IN  IF left <= 1 THEN {}
                    ELSE IF found # {} \/ type = "cname" \/ alias = {} THEN found
                    ELSE follow[left - 1][FirstValue(alias)]]
    IN  follow

\* _resolve_recursive for every name, with left = MAX_CNAME_DEPTH + 1 - depth.
FollowAliases(type) ==
    LET follow[left \in 0..CnameDepth + 1] ==
            [n \in DnsNames |->
                LET found == Resolve(n, type)
                    alias == Resolve(n, "cname")
                IN  IF left = 0 THEN {}
                    ELSE IF found # {} \/ type = "cname" \/ alias = {} THEN found
                    ELSE follow[left - 1][FirstValue(alias)]]
    IN  follow

ResolveRecursive(n, type) == FollowAliases(type)[CnameDepth + 1][Normal[n]]

\* CacheEntry.is_fresh: an entry that is too old counts as none.
IsFresh(k) == dnsCache[k] # Nobody

\* What DNSResolver.resolve returns.
ResolverAnswer(n, type) ==
    LET k == <<Normal[n], type>>
    IN  IF IsFresh(k) THEN dnsCache[k] ELSE ResolveRecursive(n, type)

\* DNSResolver.resolve: an answer that is not cached, or too old, is cached.
LookUp(n, type) ==
    LET k == <<Normal[n], type>> IN
    /\ ~IsFresh(k)
    /\ dnsCache' = [dnsCache EXCEPT ![k] = ResolveRecursive(n, type)]
    /\ UNCHANGED <<memory, dnsSaved, dnsExpired, dnsCall, requests, dnsUp, dnsRaced>>

\* DNSResolver.resolve_address: the registry is asked before the cache.
ResolverAddress(n) ==
    LET found == ResolverAnswer(n, "address")
    IN  IF RegistryAddress(n) # Nobody THEN RegistryAddress(n)
        ELSE IF found # {} THEN FirstValue(found) ELSE Nobody

\* flush_cache, for one name or for all.
FlushCache(names) ==
    /\ dnsCache' = [k \in Keys |-> IF \E n \in names : Normal[n] = k[1] THEN Nobody ELSE dnsCache[k]]
    /\ dnsCache' # dnsCache
    /\ UNCHANGED <<memory, dnsSaved, dnsExpired, dnsCall, requests, dnsUp, dnsRaced>>

(* ------------------------------ time, restart ---------------------------- *)

\* CACHE_TTL seconds have passed since k was cached.
CacheAge(k) ==
    /\ IsFresh(k)
    /\ dnsCache' = [dnsCache EXCEPT ![k] = Nobody]
    /\ UNCHANGED <<memory, dnsSaved, dnsExpired, dnsCall, requests, dnsUp, dnsRaced>>

\* is_expired turns true for a record.
RecordExpires(i) ==
    /\ i \notin dnsExpired /\ dnsExpired' = dnsExpired \cup {i}
    /\ UNCHANGED <<memory, dnsSaved, dnsCache, dnsCall, requests, dnsUp, dnsRaced>>

\* The node stops, requests and cache are gone, and _load reads the file; a record keeps its
\* creation time and time to live (DNSRecord.from_dict).
RestartDns ==
    /\ dnsSaved # TornFile
    /\ dnsObj' = dnsSaved.objs /\ dnsEntries' = dnsSaved.entries
    /\ dnsRecords' = dnsSaved.records /\ dnsOwners' = dnsSaved.owners
    /\ dnsExpired' = dnsExpired \cap DOMAIN dnsSaved.objs
    /\ dnsCache' = [k \in Keys |-> Nobody]
    /\ dnsCall' = [t \in DnsThreads |-> DnsIdle]
    /\ dnsRaced' = FALSE
    /\ UNCHANGED <<dnsSaved, requests, dnsUp>>

\* The node stops while the file is torn, and does not start again.
StopForGood ==
    /\ dnsSaved = TornFile /\ dnsUp' = FALSE
    /\ dnsCall' = [t \in DnsThreads |-> DnsIdle]
    /\ UNCHANGED <<memory, dnsSaved, dnsExpired, dnsCache, requests, dnsRaced>>

DnsNext ==
    /\ dnsUp
    /\ \/ \E t \in DnsThreads : Request(t)
       \/ \E n \in DnsNames, type \in QueryTypes : LookUp(n, type)
       \/ \E names \in {DnsNames} \cup {{n} : n \in DnsNames} : FlushCache(names)
       \/ \E k \in Keys : CacheAge(k)
       \/ \E i \in DOMAIN dnsObj : RecordExpires(i)
       \/ RestartDns \/ StopForGood

DnsSpec == DnsInit /\ [][DnsNext]_dnsVars

(* ------------------------------- properties ------------------------------ *)

\* Records and owners keep their types, a cached answer consists of records that exist, and
\* what has records has an entry (_records, _owners, _cache).
DnsTypeOK ==
    /\ dnsObj \in Seq(DnsRecord) /\ dnsExpired \subseteq DOMAIN dnsObj
    /\ dnsEntries \subseteq DnsNames /\ dnsRecords \in [DnsNames -> SUBSET DOMAIN dnsObj]
    /\ dnsOwners \in [DnsNames -> DnsOwners \cup {Nobody}]
    /\ requests \in 0..MaxRequests /\ dnsUp \in BOOLEAN /\ dnsRaced \in BOOLEAN
    /\ \A k \in Keys : dnsCache[k] # Nobody => dnsCache[k] \subseteq DOMAIN dnsObj
    /\ \A n \in DnsNames : dnsRecords[n] # {} => n \in dnsEntries

\* An owner changes by a transfer, by a registration that found the name free when it looked,
\* or because the node restarted with a file that a request had not written yet or that
\* requests wrote at the same time: never by a registration that saw the name, and never by a
\* restart after requests that came one at a time (registry.py:75, 86-88, 136).
OwnerChangesByTransfer ==
    [][\A n \in DnsNames :
        Known(n) /\ dnsOwners'[n] # dnsOwners[n] =>
            \/ \E t \in DnsThreads :
                  /\ dnsCall'[t] # dnsCall[t]
                  /\ \/ At(t, "checked") /\ dnsCall[t].op = "transfer"
                     \/ At(t, "listed") /\ dnsCall[t].new
                  /\ dnsCall[t].name = n
            \/ RestartDns /\ (dnsRaced \/ \E t \in DnsThreads : Changing(t))]_dnsVars

\* The reference for aliases: the names that n leads to in i steps.
Alias(n) == LET found == Resolve(n, "cname") IN IF found = {} THEN Nobody ELSE Normal[FirstValue(found)]
AliasChains(i) == {c \in [0..i -> DnsNames] : \A j \in 1..i : Alias(c[j - 1]) = c[j]}

\* A name resolves exactly if a chain of at most MAX_CNAME_DEPTH aliases leads
\* to a name with an address record, and to the records of the first such
\* name: loops of aliases end in an empty answer (dns/resolver.py:54-71).
AliasesResolve ==
    \A n \in DnsNames :
        LET ends == {c \in UNION {AliasChains(i) : i \in 0..CnameDepth} :
                        c[0] = Normal[n] /\ \A i \in DOMAIN c :
                            (Resolve(c[i], "address") # {}) <=> (i = Cardinality(DOMAIN c) - 1)}
            found == ResolveRecursive(n, "address")
        IN  IF ends = {} THEN found = {}
            ELSE \E c \in ends : found = Resolve(c[Cardinality(DOMAIN c) - 1], "address")

\* While no request is changing the registry, a restart would change no answer, unless the
\* last request that ended had company: the file of one that came alone is whole and says
\* what the memory says (registry.py:215-234).
RestartKeepsAnswers ==
    dnsUp /\ ~dnsRaced /\ (\A t \in DnsThreads : ~Changing(t)) =>
        dnsSaved = Memory

\* The dictionaries, the file and the answers agree, whichever steps of requests interleave.
DnsConsistent == DnsTypeOK /\ AliasesResolve /\ RestartKeepsAnswers
=============================================================================
