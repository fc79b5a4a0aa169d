------------------------------ MODULE Identity ------------------------------
(***************************************************************************)
(* IdentityRegistry and ReputationEngine (border/identity) of one BorderID *)
(* node: DID documents with an optional handle, the index from handles to  *)
(* DIDs, the claims about a DID, and a score computed from claims, proofs  *)
(* and penalties.  The routes are plain functions, so every request has a  *)
(* thread of its own, and nothing is locked: a request checks, changes one *)
(* dictionary after the other, copies them, opens the file, which empties  *)
(* it, and writes the copy, and others come in between.  The dictionary    *)
(* holds the BorderDID objects themselves: resolve hands out the object,   *)
(* the route adds a service to it, and update then finds it in its place.  *)
(* Nothing in the repository gives an object another handle.  The counts   *)
(* of proofs and penalties are held in memory only.                        *)
(***************************************************************************)
EXTENDS Integers, FiniteSets, SequencesExt

CONSTANTS
    Dids, Handles,
    Claims,          \* the claims that are made
    ClaimOf,         \* ClaimOf[c]: issuer, subject, type, value and time of issue of claim c
    IdThreads,
    IdAsks,          \* the requests that clients send
    WeightProof, WeightStake, WeightPeer, WeightPenalty,
    MaxIdRequests, MaxCounted,   \* bounds: requests that pass their checks; proofs and penalties in all
    NoHandle         \* a document without a handle, a handle without an entry, no document,
                     \* a file that json.loads refuses

\* ClaimType; uptime is read as stake is, and the other types do not enter the score.
ClaimType == {"stake", "peer_trust", "region"}

ASSUME IdentityAssumption ==
    /\ ClaimOf \in [Claims -> [issuer : Dids, subject : Dids, type : ClaimType, value : Nat, issued : Nat]]
    /\ IdAsks \subseteq [op : {"register"}, did : Dids, handle : Handles \cup {NoHandle}]
                   \cup [op : {"service"}, did : Dids] \cup [op : {"claim"}, claim : Claims]
    /\ {WeightProof, WeightStake, WeightPeer, WeightPenalty} \subseteq Nat
    /\ {MaxIdRequests, MaxCounted} \subseteq Nat
    /\ NoHandle \notin Dids /\ NoHandle \notin Handles

VARIABLES
    idObj,       \* the BorderDID objects, in the order in which they were made
    didOrder,    \* the keys of _dids in the order in which they were added
    didDoc,      \* _dids: the object of a DID; 0 when it has none
    handleIdx,   \* _handle
    didClaims,   \* _claims
    idSaved,     \* the file at persist_path
    idCall,      \* idCall[t]: the request of thread t, after its checks
    idRequests,  \* how many requests have passed their checks
    idUp,        \* the node runs: it does not start with a torn file
    idRaced,     \* history: the request that ended last changed something while another did
    replaced,    \* history: the DIDs that were registered a second time
    claimsOver,  \* the claims whose expires_at has passed
    proofCount,  \* _proof_counts
    penalties    \* _penalties

idMemory == <<idObj, didOrder, didDoc, handleIdx, didClaims, replaced>>
counts == <<proofCount, penalties>>
idVars == <<idMemory, idSaved, idCall, idRequests, idUp, idRaced, claimsOver, counts>>

\* A thread without a request
IdIdle == [at |-> "idle"]

IdentityInit ==
    /\ idObj = <<>> /\ didOrder = <<>>
    /\ didDoc = [d \in Dids |-> 0]
    /\ handleIdx = [h \in Handles |-> NoHandle]
    /\ didClaims = [d \in Dids |-> <<>>]
    /\ idSaved = [order |-> <<>>, docs |-> [d \in Dids |-> NoHandle], claims |-> didClaims]
    /\ idCall = [t \in IdThreads |-> IdIdle]
    /\ idRequests = 0 /\ idUp = TRUE /\ idRaced = FALSE /\ replaced = {}
    /\ claimsOver = {}
    /\ proofCount = [d \in Dids |-> 0]
    /\ penalties = [d \in Dids |-> 0]

Registered(d) == didDoc[d] # 0
Doc(d) == IF Registered(d) THEN idObj[didDoc[d]] ELSE NoHandle

\* What a request writes into the file.
Kept == [order |-> didOrder, docs |-> [d \in Dids |-> Doc(d)], claims |-> didClaims]

\* Thread t has begun to change the registry and has not written the file.
Alters(t) == idCall[t].at \notin {"idle", "checked"}

\* Thread t is at a step; one that begins to change the registry while another is about it
\* makes neither of them alone.
Stands(t, step) == idUp /\ idCall[t].at = step
Enters(t, call) ==
    idCall' = [u \in IdThreads |->
        IF u = t THEN [call EXCEPT !.alone = \A v \in IdThreads \ {t} : ~Alters(v)]
        ELSE IF Alters(u) THEN [idCall[u] EXCEPT !.alone = FALSE] ELSE idCall[u]]

\* A request that has changed all that it changes, and saves it.
Keeps(alone) == [at |-> "changed", alone |-> alone]

(* ------------------------------- documents ------------------------------- *)

\* The checks of register: a DID that is not there, and a handle that is not taken.
CheckDid(ask) ==
    /\ ask.op = "register"
    /\ ~Registered(ask.did)
    /\ ask.handle \in {NoHandle} \cup {h \in Handles : handleIdx[h] = NoHandle}

\* The route of a service resolves the object.
CheckService(ask) == ask.op = "service" /\ Registered(ask.did)

\* The checks of add_claim.
CheckClaim(ask) ==
    /\ ask.op = "claim"
    /\ Registered(ClaimOf[ask.claim].subject) /\ ask.claim \notin claimsOver

\* The request after its checks: the document that it brings, the object that it resolved.
Accepted(ask) ==
    CASE ask.op = "register" -> [at |-> "checked", alone |-> TRUE, op |-> "register", did |-> ask.did,
                                 handle |-> ask.handle]
      [] ask.op = "service" -> [at |-> "checked", alone |-> TRUE, op |-> "service", did |-> ask.did,
                                obj |-> didDoc[ask.did]]
      [] ask.op = "claim" -> [at |-> "checked", alone |-> TRUE, op |-> "claim", claim |-> ask.claim]

CheckCall(t) ==
    /\ idUp /\ idCall[t] = IdIdle /\ idRequests < MaxIdRequests
    /\ idRequests' = idRequests + 1
    /\ \E ask \in IdAsks :
        /\ CheckDid(ask) \/ CheckService(ask) \/ CheckClaim(ask)
        /\ idCall' = [idCall EXCEPT ![t] = Accepted(ask)]
    /\ UNCHANGED <<idMemory, idSaved, idUp, idRaced, claimsOver, counts>>

\* What the requests leave alone while they change the registry
aside == <<idSaved, idRequests, idUp, idRaced, claimsOver, counts>>

\* register puts the document into _dids, ...
PutDocument(t) ==
    LET c == idCall[t] IN
    /\ Stands(t, "checked") /\ c.op = "register" /\ Enters(t, [c EXCEPT !.at = "put"])
    /\ idObj' = Append(idObj, [handle |-> c.handle, services |-> 0])
    /\ didOrder' = IF Registered(c.did) THEN didOrder ELSE Append(didOrder, c.did)
    /\ didDoc' = [didDoc EXCEPT ![c.did] = Len(idObj) + 1]
    /\ replaced' = IF Registered(c.did) THEN replaced \cup {c.did} ELSE replaced
    /\ UNCHANGED <<handleIdx, didClaims, aside>>

\* ... then its handle into _handle, ...
PutHandle(t) ==
    LET c == idCall[t] IN
    /\ Stands(t, "put") /\ idCall' = [idCall EXCEPT ![t].at = "named"]
    /\ handleIdx' = IF c.handle = NoHandle THEN handleIdx ELSE [handleIdx EXCEPT ![c.handle] = c.did]
    /\ UNCHANGED <<idObj, didOrder, didDoc, didClaims, replaced, aside>>

\* ... and no claims: those that came since the document was there are dropped.
PutClaims(t) ==
    LET c == idCall[t] IN
    /\ Stands(t, "named") /\ idCall' = [idCall EXCEPT ![t] = Keeps(c.alone)]
    /\ didClaims' = [didClaims EXCEPT ![c.did] = <<>>]
    /\ UNCHANGED <<idObj, didOrder, didDoc, handleIdx, replaced, aside>>

\* BorderDID.add_service, for the object that the route resolved
AddService(t) ==
    LET c == idCall[t] IN
    /\ Stands(t, "checked") /\ c.op = "service" /\ Enters(t, [c EXCEPT !.at = "added"])
    /\ idObj' = [idObj EXCEPT ![c.obj].services = @ + 1]
    /\ UNCHANGED <<didOrder, didDoc, handleIdx, didClaims, replaced, aside>>

\* The index after update with an object of DID d whose handle is h; old is the handle of the
\* object that was there, the same one unless the DID was registered a second time.
IndexAfterUpdate(d, old, h) ==
    [x \in Handles |-> IF x = h THEN d ELSE IF x = old THEN NoHandle ELSE handleIdx[x]]

\* update: the index, and then the object goes back to its place.
UpdateIndex(t) ==
    LET c == idCall[t] IN
    /\ Stands(t, "added") /\ idCall' = [idCall EXCEPT ![t].at = "indexed"]
    /\ handleIdx' = IndexAfterUpdate(c.did, Doc(c.did).handle, idObj[c.obj].handle)
    /\ UNCHANGED <<idObj, didOrder, didDoc, didClaims, replaced, aside>>
UpdateDid(t) ==
    LET c == idCall[t] IN
    /\ Stands(t, "indexed") /\ idCall' = [idCall EXCEPT ![t] = Keeps(c.alone)]
    /\ didDoc' = [didDoc EXCEPT ![c.did] = c.obj]
    /\ UNCHANGED <<idObj, didOrder, handleIdx, didClaims, replaced, aside>>

\* IdentityRegistry.resolve, for a handle
ResolveHandle(h) == handleIdx[h]

(* --------------------------------- claims -------------------------------- *)

\* add_claim; a request that is sent again is appended again.
AddClaim(t) ==
    LET c == idCall[t]
        d == ClaimOf[c.claim].subject
    IN  /\ Stands(t, "checked") /\ c.op = "claim" /\ Enters(t, Keeps(TRUE))
        /\ didClaims' = [didClaims EXCEPT ![d] = Append(@, c.claim)]
        /\ UNCHANGED <<idObj, didOrder, didDoc, handleIdx, replaced, aside>>

\* is_expired turns true for a claim.
ClaimExpires(c) ==
    /\ c \notin claimsOver
    /\ claimsOver' = claimsOver \cup {c}
    /\ UNCHANGED <<idMemory, idSaved, idCall, idRequests, idUp, idRaced, counts>>

\* get_claims: where in _claims[d] the live claims of a type are.
GetClaims(d, type) ==
    {i \in DOMAIN didClaims[d] : didClaims[d][i] \notin claimsOver /\ ClaimOf[didClaims[d][i]].type = type}

(* --------------------------------- score --------------------------------- *)

\* How many proofs and penalties were counted, a bound.
Counted == SumFunctionOnSet([d \in Dids |-> proofCount[d] + penalties[d]], Dids)

\* record_bandwidth_proof, record_compute_proof, record_storage_proof
RecordProof(d) ==
    /\ Counted < MaxCounted
    /\ proofCount' = [proofCount EXCEPT ![d] = @ + 1]
    /\ UNCHANGED <<idMemory, idSaved, idCall, idRequests, idUp, idRaced, claimsOver, penalties>>

\* record_penalty
RecordPenalty(d) ==
    /\ Counted < MaxCounted
    /\ penalties' = [penalties EXCEPT ![d] = @ + 1]
    /\ UNCHANGED <<idMemory, idSaved, idCall, idRequests, idUp, idRaced, claimsOver, proofCount>>

\* Mutant: the claim that arrived last counts.
LatestClaimValueArrived(d, at) == IF at = {} THEN 0 ELSE ClaimOf[didClaims[d][Max(at)]].value

\* _latest_claim_value: max takes the first of the claims that were issued last.
LatestClaimValue(d, at) ==
    LET issued(i) == ClaimOf[didClaims[d][i]].issued
        latest == {i \in at : \A j \in at : issued(j) <= issued(i)}
    IN  IF at = {} THEN 0 ELSE ClaimOf[didClaims[d][Min(latest)]].value

\* The issuers that vouch, each counted once.
UniquePeers(d, at) == Cardinality({ClaimOf[didClaims[d][i]].issuer : i \in at})

\* ReputationEngine.score
Score(d) ==
    IF ~Registered(d) THEN 0
    ELSE Max({0, proofCount[d] * WeightProof
                 + LatestClaimValue(d, GetClaims(d, "stake")) * WeightStake
                 + UniquePeers(d, GetClaims(d, "peer_trust")) * WeightPeer
                 - penalties[d] * WeightPenalty})

(* ----------------------------- file, restart ----------------------------- *)

\* _save: the dictionaries are copied and the file is opened, which empties it; then the text
\* is written.  Of two that write at a time the older copy may be written last, or the file
\* may be neither text; and a copy that another request runs into may mix what was before and
\* after, or break off: nothing below is said of the file of a request that had company.
OpenIds(t) ==
    /\ Stands(t, "changed")
    /\ idCall' = [idCall EXCEPT ![t] = [at |-> "open", alone |-> idCall[t].alone, copy |-> Kept]]
    /\ idSaved' = NoHandle
    /\ UNCHANGED <<idMemory, idRequests, idUp, idRaced, claimsOver, counts>>
WriteIds(t) ==
    /\ Stands(t, "open") /\ idCall' = [idCall EXCEPT ![t] = IdIdle]
    /\ idSaved' \in {idCall[t].copy} \cup (IF idCall[t].alone THEN {} ELSE {NoHandle})
    /\ idRaced' = ~idCall[t].alone
    /\ UNCHANGED <<idMemory, idRequests, idUp, claimsOver, counts>>
SaveFails(t) ==
    /\ Stands(t, "changed") /\ ~idCall[t].alone
    /\ idCall' = [idCall EXCEPT ![t] = IdIdle]
    /\ idRaced' = TRUE
    /\ UNCHANGED <<idMemory, idSaved, idRequests, idUp, claimsOver, counts>>

\* _load goes through the documents in order, so the last one with a handle has it.
RebuiltIndex(s) ==
    [h \in Handles |->
        LET holders == {i \in DOMAIN s.order : s.docs[s.order[i]].handle = h}
        IN  IF holders = {} THEN NoHandle ELSE s.order[Max(holders)]]

\* The node is started again: requests and what the engine counted are gone.
RestartIdentity ==
    /\ idSaved # NoHandle
    /\ idObj' = [i \in DOMAIN idSaved.order |-> idSaved.docs[idSaved.order[i]]]
    /\ didOrder' = idSaved.order
    /\ didDoc' = [d \in Dids |-> IF d \notin Range(idSaved.order) THEN 0
                                ELSE CHOOSE i \in DOMAIN idSaved.order : idSaved.order[i] = d]
    /\ didClaims' = idSaved.claims
    /\ handleIdx' = RebuiltIndex(idSaved)
    /\ replaced' = {} /\ idRaced' = FALSE
    /\ idCall' = [t \in IdThreads |-> IdIdle]
    /\ proofCount' = [d \in Dids |-> 0]
    /\ penalties' = [d \in Dids |-> 0]
    /\ UNCHANGED <<idSaved, idRequests, idUp, claimsOver>>

\* The node stops while the file is torn, and does not start again.
StopIdentity ==
    /\ idSaved = NoHandle /\ idUp' = FALSE
    /\ idCall' = [t \in IdThreads |-> IdIdle]
    /\ UNCHANGED <<idMemory, idSaved, idRequests, idRaced, claimsOver, counts>>

IdCall(t) ==
    \/ CheckCall(t) \/ PutDocument(t) \/ PutHandle(t) \/ PutClaims(t) \/ AddService(t)
    \/ UpdateIndex(t) \/ UpdateDid(t) \/ AddClaim(t) \/ OpenIds(t) \/ WriteIds(t) \/ SaveFails(t)

IdentityNext ==
    /\ idUp
    /\ \/ \E t \in IdThreads : IdCall(t)
       \/ \E c \in Claims : ClaimExpires(c)
       \/ \E d \in Dids : RecordProof(d) \/ RecordPenalty(d)
       \/ RestartIdentity \/ StopIdentity

IdentitySpec == IdentityInit /\ [][IdentityNext]_idVars

(* ------------------------------- properties ------------------------------ *)

\* Documents and claims keep their types and belong to registered DIDs.
IdentityTypeOK ==
    /\ IsInjective(didOrder) /\ didDoc \in [Dids -> 0..Len(idObj)]
    /\ Range(didOrder) = {d \in Dids : Registered(d)}
    /\ idObj \in Seq([handle : Handles \cup {NoHandle}, services : Nat])
    /\ handleIdx \in [Handles -> Dids \cup {NoHandle}]
    /\ \A d \in Dids : \A c \in Range(didClaims[d]) : ClaimOf[c].subject = d
    /\ \A d \in Dids : didClaims[d] # <<>> => Registered(d)

\* A handle resolves to a document, and that bears it unless two requests registered its DID
\* at the same time, whichever steps of registrations and updates interleave: neither update,
\* which never finds another handle at the object it compares with, nor a restart leaves a
\* handle behind (identity/registry.py:43-51, 60-75, 160-172).
HandleResolves ==
    \A h \in Handles : LET d == ResolveHandle(h) IN
        d # NoHandle => Registered(d) /\ (Doc(d).handle = h \/ d \in replaced)

\* The score depends on which claims there are, not on the order in which they
\* arrived or how often each was sent: the stake is that of a live claim issued
\* last, and who vouches twice counts once (identity/reputation.py:131-141, 176-182).
ScoreIgnoresArrival ==
    \A d \in Range(didOrder) :
        LET live(type) == {c \in Range(didClaims[d]) : c \notin claimsOver /\ ClaimOf[c].type = type}
            latest == {c \in live("stake") : \A e \in live("stake") : ClaimOf[e].issued <= ClaimOf[c].issued}
            rest == proofCount[d] * WeightProof - penalties[d] * WeightPenalty
                    + Cardinality({ClaimOf[c].issuer : c \in live("peer_trust")}) * WeightPeer
        IN  \E stake \in IF latest = {} THEN {0} ELSE {ClaimOf[c].value : c \in latest} :
                Score(d) = Max({0, rest + stake * WeightStake})

\* While no request is changing the registry, a restart would change no document and no claim
\* unless the last request that ended had company: the file of one that came alone is whole
\* and says what the memory says; and if no two documents bear one handle and no DID was
\* registered twice, every handle would resolve as before.  The counts of proofs and
\* penalties, and with them the scores, are lost (identity/registry.py:150-172).
RestartKeepsIdentity ==
    idUp /\ ~idRaced /\ (\A t \in IdThreads : ~Alters(t)) =>
        /\ idSaved = Kept
        /\ replaced = {} /\ (\A d, e \in Range(didOrder) : d # e /\ Doc(d).handle # NoHandle =>
                                Doc(d).handle # Doc(e).handle)
           => RebuiltIndex(Kept) = handleIdx

\* Index, documents, file and scores agree, whichever steps of requests interleave.
IdentityConsistent == IdentityTypeOK /\ HandleResolves /\ RestartKeepsIdentity /\ ScoreIgnoresArrival
=============================================================================
