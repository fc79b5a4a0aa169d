------------------------------- MODULE Storage -------------------------------
(***************************************************************************)
(* BorderStorageNode, StorageClient, chunks and proofs (border/storage).   *)
(* A client cuts a file into chunks, encrypts each under a fresh key and   *)
(* posts it to up to Replication nodes under the hash of its plaintext; a  *)
(* node writes the chunk to its disk and then its index.  A ciphertext is  *)
(* represented by its key: the upload and the position it was made for.    *)
(* Nodes may crash between two writes or inside one, answers may be lost,  *)
(* and chunks may be deleted.  A crash inside the write of index.json      *)
(* leaves a file that json.loads refuses: the node does not start again,   *)
(* and what it has acknowledged is lost to the clients.  The handlers of a *)
(* node run on one event loop and do not await between reading and writing *)
(* its state.                                                              *)
(***************************************************************************)
EXTENDS Integers, FiniteSets, SequencesExt

CONSTANTS
    StoreNodes,      \* node_endpoints, a sequence
    Uploads,
    Plain,           \* Plain[u]: the chunk ids (hashes of the plaintexts) of upload u
    ChunkSize,       \* ChunkSize[c]: bytes of the ciphertext of c
    Replication,     \* min(replication, number of nodes)
    MaxFaults,       \* bound: crashes, lost answers and deletions
    MaxChallenges,   \* bound: challenges
    NoKey            \* no ciphertext; an index.json that is empty or torn

Chunks == UNION {Range(Plain[u]) : u \in Uploads}
StoreNode == Range(StoreNodes)
KeyOf(u, i) == <<u, i>>

ASSUME StorageAssumption ==
    /\ \A u \in Uploads : Plain[u] \in Seq(Chunks) /\ \A i \in DOMAIN Plain[u] : KeyOf(u, i) # NoKey
    /\ ChunkSize \in [Chunks -> Nat \ {0}]
    /\ Replication \in 1..Len(StoreNodes) /\ MaxFaults \in Nat /\ MaxChallenges \in Nat

VARIABLES
    snUp,        \* the nodes that answer
    snDisk,      \* snDisk[n][c]: the file of chunk c at node n
    snIndex,     \* snIndex[n]: _chunks_stored and _chunk_metadata
    snBytes,     \* snBytes[n]: _bytes_stored
    snSaved,     \* snSaved[n]: index.json
    upload,      \* upload[u]: how far the client has got, and its node_map
    removed,     \* the chunks whose file was deleted from a node and not written again
    faults,      \* how many faults there were
    challenges,  \* how many challenges there were
    proofTasks,  \* proofTasks[n]: tasks that submit a proof to the chain
    snEarned,    \* snEarned[n]: _bc_earned, in challenges
    snPaid       \* snPaid[n]: the proofs of n that the chain accepted

nodeVars == <<snUp, snDisk, snIndex, snBytes, snSaved, removed>>
proofVars == <<challenges, proofTasks, snEarned, snPaid>>
storageVars == <<nodeVars, upload, faults, proofVars>>

StorageInit ==
    /\ snUp = StoreNode
    /\ snDisk = [n \in StoreNode |-> [c \in Chunks |-> NoKey]]
    /\ snIndex = [n \in StoreNode |-> {}]
    /\ snBytes = [n \in StoreNode |-> 0]
    /\ snSaved = [n \in StoreNode |-> [chunks |-> {}, bytes |-> 0]]
    /\ upload = [u \in Uploads |-> [at |-> "new", nodes |-> <<>>, i |-> 1, j |-> 1,
                                    map |-> [c \in Range(Plain[u]) |-> <<>>]]]
    /\ removed = {} /\ faults = 0
    /\ challenges = 0
    /\ proofTasks = [n \in StoreNode |-> 0]
    /\ snEarned = [n \in StoreNode |-> 0]
    /\ snPaid = [n \in StoreNode |-> 0]

Fault == faults < MaxFaults /\ faults' = faults + 1

(* ------------------------------ a storage node --------------------------- *)

\* _save_index, after the memory has changed
SaveIndex(n) == snSaved' = [snSaved EXCEPT ![n] = [chunks |-> snIndex'[n], bytes |-> snBytes'[n]]]

\* Mutant: a chunk that is there is written again.
StoreChunkAgain(n, c, key) ==
    /\ snDisk' = [snDisk EXCEPT ![n][c] = key]
    /\ snIndex' = [snIndex EXCEPT ![n] = @ \cup {c}]
    /\ snBytes' = [snBytes EXCEPT ![n] = @ + IF c \in snIndex[n] THEN 0 ELSE ChunkSize[c]]
    /\ removed' = removed \ {<<n, c>>}
    /\ SaveIndex(n)
    /\ UNCHANGED snUp

\* Mutant: the index is not saved.
StoreChunkUnsaved(n, c, key) ==
    IF c \in snIndex[n] THEN UNCHANGED nodeVars
    ELSE /\ snDisk' = [snDisk EXCEPT ![n][c] = key]
         /\ snIndex' = [snIndex EXCEPT ![n] = @ \cup {c}]
         /\ snBytes' = [snBytes EXCEPT ![n] = @ + ChunkSize[c]]
         /\ removed' = removed \ {<<n, c>>}
         /\ UNCHANGED <<snUp, snSaved>>

\* store_chunk: a chunk id that is known is not written again, though its file may be gone.
StoreChunk(n, c, key) ==
    IF c \in snIndex[n] THEN UNCHANGED nodeVars
    ELSE /\ snDisk' = [snDisk EXCEPT ![n][c] = key]
         /\ snIndex' = [snIndex EXCEPT ![n] = @ \cup {c}]
         /\ snBytes' = [snBytes EXCEPT ![n] = @ + ChunkSize[c]]
         /\ removed' = removed \ {<<n, c>>}
         /\ SaveIndex(n)
         /\ UNCHANGED snUp

\* A crash before or inside the write of index.json, which truncates the file first.
CrashInSave(n) == snUp' = snUp \ {n} /\ snSaved' \in {snSaved, [snSaved EXCEPT ![n] = NoKey]}

\* The node crashes after it has written the file of the chunk.  (Half of a file is as good
\* as all of it: no index holds the chunk before its file was written again.)
CrashInStore(n, c, key) ==
    /\ c \notin snIndex[n]
    /\ snDisk' = [snDisk EXCEPT ![n][c] = key]
    /\ CrashInSave(n)
    /\ UNCHANGED <<snIndex, snBytes, removed>>

\* retrieve_chunk
RetrieveChunk(n, c) == IF c \in snIndex[n] THEN snDisk[n][c] ELSE NoKey

\* The bytes of a file that exists are taken off.
BytesAfterDelete(n, c) ==
    IF snDisk[n][c] # NoKey THEN Max({0, snBytes[n] - ChunkSize[c]}) ELSE snBytes[n]

\* delete_chunk
DeleteChunk(n, c) ==
    /\ n \in snUp /\ c \in snIndex[n] /\ Fault
    /\ snDisk' = [snDisk EXCEPT ![n][c] = NoKey]
    /\ snBytes' = [snBytes EXCEPT ![n] = BytesAfterDelete(n, c)]
    /\ snIndex' = [snIndex EXCEPT ![n] = @ \ {c}]
    /\ removed' = removed \cup {<<n, c>>}
    /\ SaveIndex(n)
    /\ UNCHANGED <<snUp, upload, proofVars>>

\* The node crashes after it has removed the file of the chunk.
CrashInDelete(n, c) ==
    /\ n \in snUp /\ c \in snIndex[n] /\ Fault
    /\ snDisk' = [snDisk EXCEPT ![n][c] = NoKey]
    /\ removed' = removed \cup {<<n, c>>}
    /\ CrashInSave(n)
    /\ UNCHANGED <<snIndex, snBytes, upload, proofVars>>

StopStorage(n) ==
    /\ n \in snUp /\ Fault
    /\ snUp' = snUp \ {n}
    /\ UNCHANGED <<snDisk, snIndex, snBytes, snSaved, removed, upload, proofVars>>

\* The node starts: _load_index, which raises if the file is torn; earnings and tasks were in
\* memory only.
StartStorage(n) ==
    /\ n \notin snUp /\ snSaved[n] # NoKey
    /\ snUp' = snUp \cup {n}
    /\ snIndex' = [snIndex EXCEPT ![n] = snSaved[n].chunks]
    /\ snBytes' = [snBytes EXCEPT ![n] = snSaved[n].bytes]
    /\ proofTasks' = [proofTasks EXCEPT ![n] = 0]
    /\ snEarned' = [snEarned EXCEPT ![n] = 0]
    /\ UNCHANGED <<snDisk, snSaved, removed, upload, faults, challenges, snPaid>>

(* -------------------------------- challenges ----------------------------- *)

\* POST /storage/challenge: the response is hashed from the chunk, a proof is
\* built from it and signed, and a task is started that submits it.
HandleChallenge(n, c) ==
    /\ n \in snUp /\ challenges < MaxChallenges
    /\ RetrieveChunk(n, c) # NoKey
    /\ challenges' = challenges + 1
    /\ proofTasks' = [proofTasks EXCEPT ![n] = @ + 1]
    /\ UNCHANGED <<nodeVars, upload, faults, snEarned, snPaid>>

\* _submit_proof_to_chain: accepted, accepted with its answer lost, or not received.
SubmitStorageProof(n) ==
    /\ n \in snUp /\ proofTasks[n] > 0
    /\ proofTasks' = [proofTasks EXCEPT ![n] = @ - 1]
    /\ \/ snPaid' = [snPaid EXCEPT ![n] = @ + 1] /\ snEarned' = [snEarned EXCEPT ![n] = @ + 1]
       \/ snPaid' = [snPaid EXCEPT ![n] = @ + 1] /\ UNCHANGED snEarned
       \/ UNCHANGED <<snPaid, snEarned>>

StorageProofSent(n) == SubmitStorageProof(n) /\ UNCHANGED <<nodeVars, upload, faults, challenges>>

(* -------------------------------- the client ----------------------------- *)

\* upload_bytes begins: _get_available_nodes falls back to all nodes.
BeginUpload(u) ==
    /\ upload[u].at = "new"
    /\ upload' = [upload EXCEPT ![u].at = "placing",
                                ![u].nodes = LET up == SelectSeq(StoreNodes, LAMBDA n : n \in snUp)
                                             IN  IF up = <<>> THEN StoreNodes ELSE up]
    /\ UNCHANGED <<nodeVars, faults, proofVars>>

\* The client is about to post chunk c of u to node n: it is not yet placed often enough.
Posting(u, n, c) ==
    LET p == upload[u] IN
    /\ p.at = "placing" /\ p.i <= Len(Plain[u]) /\ p.j <= Len(p.nodes)
    /\ c = Plain[u][p.i] /\ n = p.nodes[p.j]
    /\ p.j = 1 \/ Len(p.map[c]) < Replication

\* _distribute_chunk goes on to the next node; a chunk begins with no node.
Posted(u, c, placed) ==
    upload' = [upload EXCEPT ![u].j = @ + 1,
                             ![u].map[c] = (IF upload[u].j = 1 THEN <<>> ELSE @) \o placed]

\* The post failed.
PostLost(u, c) == Posted(u, c, <<>>)

PostChunk(u) ==
    \E n \in StoreNode, c \in Chunks :
        /\ Posting(u, n, c)
        /\ LET key == KeyOf(u, upload[u].i) IN
           \/ n \in snUp /\ StoreChunk(n, c, key) /\ Posted(u, c, <<n>>) /\ UNCHANGED faults
           \/ n \in snUp /\ Fault /\ StoreChunk(n, c, key) /\ PostLost(u, c)
           \/ n \in snUp /\ Fault /\ CrashInStore(n, c, key) /\ PostLost(u, c)
           \/ n \notin snUp /\ PostLost(u, c) /\ UNCHANGED <<nodeVars, faults>>
        /\ UNCHANGED proofVars

\* A chunk is placed often enough, or all nodes were asked: on to the next one.
NextChunk(u) ==
    /\ upload[u].at = "placing" /\ upload[u].i <= Len(Plain[u])
    /\ ~\E n \in StoreNode, c \in Chunks : Posting(u, n, c)
    /\ upload' = [upload EXCEPT ![u].i = @ + 1, ![u].j = 1]
    /\ UNCHANGED <<nodeVars, faults, proofVars>>

\* build_manifest; the upload counts as complete wherever its chunks are.
FinishUpload(u) ==
    /\ upload[u].at = "placing" /\ upload[u].i > Len(Plain[u])
    /\ upload' = [upload EXCEPT ![u].at = "done"]
    /\ UNCHANGED <<nodeVars, faults, proofVars>>

\* _fetch_chunk: the first node that answers.
FetchChunk(c, nodes) ==
    LET have == {j \in DOMAIN nodes : nodes[j] \in snUp /\ RetrieveChunk(nodes[j], c) # NoKey}
    IN  IF have = {} THEN NoKey ELSE RetrieveChunk(nodes[Min(have)], c)

\* download succeeds: every chunk is found and opens under the key of its entry.
Restores(u) ==
    \A i \in DOMAIN Plain[u] :
        FetchChunk(Plain[u][i], upload[u].map[Plain[u][i]]) = KeyOf(u, i)

StorageNext ==
    \/ \E u \in Uploads : BeginUpload(u) \/ PostChunk(u) \/ NextChunk(u) \/ FinishUpload(u)
    \/ \E n \in StoreNode : StopStorage(n) \/ StartStorage(n) \/ StorageProofSent(n)
    \/ \E n \in StoreNode, c \in Chunks : DeleteChunk(n, c) \/ CrashInDelete(n, c) \/ HandleChallenge(n, c)

StorageSpec == StorageInit /\ [][StorageNext]_storageVars

(* ------------------------------- properties ------------------------------ *)

\* Index, file and counters keep their types, and the bytes a node reports are
\* never less than what its index holds, whatever crashes there were
\* (storage/node.py:82-118).
StorageTypeOK ==
    /\ snUp \subseteq StoreNode
    /\ \A n \in StoreNode :
        /\ \A c \in Chunks : snDisk[n][c] = NoKey \/ snDisk[n][c] \in Uploads \X Nat
        /\ snBytes[n] >= SumFunctionOnSet(ChunkSize, snIndex[n])
    /\ \A u \in Uploads : \A c \in Range(Plain[u]) :
        /\ Range(upload[u].map[c]) \subseteq StoreNode /\ Len(upload[u].map[c]) <= Replication

\* A chunk that a node has acknowledged survives its crashes, as long as none of them tears its
\* index: unless its file was deleted and not written again (also by a deletion that a crash
\* broke off, after which the node acknowledges the chunk without a file), the file is there,
\* and the saved index holds it or is torn; then the node is down (storage/node.py:82-118, 313).
AcknowledgedSurvives ==
    \A u \in Uploads : \A c \in Range(Plain[u]) : \A n \in Range(upload[u].map[c]) :
        <<n, c>> \notin removed =>
            /\ snDisk[n][c] # NoKey
            /\ (snSaved[n] = NoKey /\ n \notin snUp) \/ c \in snSaved[n].chunks

\* The nodes from which chunk c of u can be fetched.
Holders(u, c) == {n \in Range(upload[u].map[c]) : n \in snUp /\ RetrieveChunk(n, c) # NoKey}

\* An upload that can be restored stays so while the same nodes hold its chunks:
\* neither a later upload of the same content nor a crash in the middle of one
\* replaces its ciphertexts (storage/node.py:83-84).  (A node that comes back, or
\* gets a chunk again that was deleted from it, may hold the ciphertext of another.)
LaterUploadsHarmless ==
    [][\A u \in Uploads :
        /\ upload[u].at = "done" /\ Restores(u)
        /\ \A c \in Range(Plain[u]) : Holders(u, c)' = Holders(u, c)
        => Restores(u)']_storageVars

\* What a node counts as earned was accepted by the chain (storage/node.py:168-185).
EarnedWasPaid == \A n \in StoreNode : snEarned[n] <= snPaid[n]

\* What the client says of itself (storage/client.py:12, "Can reconstruct the
\* file from any copy of the manifest"): an upload whose chunks were all placed
\* can be downloaded while its nodes are up and no file is deleted.
UploadRestores ==
    \A u \in Uploads :
        upload[u].at = "done" /\ removed = {} /\ snUp = StoreNode
        /\ (\A c \in Range(Plain[u]) : upload[u].map[c] # <<>>) => Restores(u)

\* Memory, index file and disk of a node, and what it earned, agree after crashes and
\* lost answers; an index that a crash has torn stops its node.
StorageConsistent == StorageTypeOK /\ AcknowledgedSurvives /\ EarnedWasPaid
=============================================================================
