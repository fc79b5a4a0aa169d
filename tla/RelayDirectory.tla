--------------------------- MODULE RelayDirectory ---------------------------
(***************************************************************************)
(* How a client finds relays (border/discovery.py, BorderDiscovery): the   *)
(* nodes compiled in, those of a cache file, and those that two directory  *)
(* servers list, asked one after the other.  Each discover is a task: at   *)
(* every await another task may run, and the process may be stopped.       *)
(***************************************************************************)
EXTENDS Integers, FiniteSets, SequencesExt

CONSTANTS
    RelayIds,
    Bootstrap,       \* BOOTSTRAP_NODES: a sequence of [id, uptime, region]
    Directories,     \* how many DIRECTORY_URLS there are
    Listings,        \* what a directory may list: sequences of [id, uptime, region, age] and BadEntry
    BadEntry,        \* an entry that RelayNode.from_dict refuses
    DiscoverTasks,
    Regions,         \* of the relays, and what region_preference may be
    NoRegion,        \* no preference
    MinUptime, MaxResults, MaxAge,
    DirectoryEnd,    \* bound on the clock
    DirectoryStops,  \* bound on restarts
    NoCache, Torn    \* no cache file; one that is not JSON

Relays == [id : RelayIds, uptime : Nat, region : Regions, seen : Int]
Entries == [id : RelayIds, uptime : Nat, region : Regions, age : Nat]

ASSUME DirectoryAssumption ==
    /\ Directories \in Nat \ {0} /\ MaxResults \in Nat \ {0} /\ NoRegion \in Regions
    /\ Bootstrap \in Seq([id : RelayIds, uptime : Nat, region : Regions])
    /\ \A i, j \in DOMAIN Bootstrap : Bootstrap[i].id = Bootstrap[j].id => i = j
    /\ Listings \subseteq Seq(Entries \cup {BadEntry})
    /\ {NoCache, Torn} \cap Seq(Relays) = {}

VARIABLES
    relays,          \* _nodes, in the order of the dictionary
    cacheFile,       \* the nodes at _cache_path, NoCache or Torn
    discover,        \* of each task: the directory it asks, 0 when it has returned
    dirClock, dirStops,
    learnt           \* ids of the registrations and listings taken whole since the file was torn

dirVars == <<relays, cacheFile, discover, dirClock, dirStops, learnt>>

RelayNode(e, seen) == [id |-> e.id, uptime |-> e.uptime, region |-> e.region, seen |-> seen]
Ids(nodes) == {nodes[i].id : i \in DOMAIN nodes}

\* _nodes[node.node_id] = node: a known id keeps its place.
Put(nodes, node) ==
    IF node.id \in Ids(nodes)
    THEN [i \in DOMAIN nodes |-> IF nodes[i].id = node.id THEN node ELSE nodes[i]]
    ELSE Append(nodes, node)

\* The same for each of a list in turn.
PutAll(nodes, list) ==
    LET put[i \in 0..Len(list)] == IF i = 0 THEN nodes ELSE Put(put[i - 1], list[i])
    IN  put[Len(list)]

\* The bootstrap nodes are made when the module is imported; a file that cannot be read
\* is left aside.
LoadCache(file) ==
    LET boot == [i \in DOMAIN Bootstrap |-> RelayNode(Bootstrap[i], dirClock)]
    IN  IF file \in {NoCache, Torn} THEN boot ELSE PutAll(boot, file)

DirectoryInit ==
    /\ dirClock = 0 /\ dirStops = 0 /\ learnt = {}
    /\ cacheFile = NoCache /\ relays = LoadCache(NoCache)
    /\ discover = [t \in DiscoverTasks |-> 0]

RelayFresh(node) == dirClock - node.seen < MaxAge

\* The nodes of a list that are in P, in the order of the list.
Only(nodes, P) ==
    LET only[i \in 0..Len(nodes)] == IF i = 0 THEN <<>>
                                     ELSE IF nodes[i] \in P THEN Append(only[i - 1], nodes[i])
                                     ELSE only[i - 1]
    IN  only[Len(nodes)]

Candidates(nodes) == Only(nodes, {n \in Range(nodes) : n.uptime >= MinUptime /\ RelayFresh(n)})

\* sort(key=uptime_score, reverse=True) keeps the order of equal scores: each node goes where
\* the first one with less begins.
Placed(sorted, n) ==
    InsertAt(sorted, Min({i \in DOMAIN sorted : sorted[i].uptime < n.uptime} \cup {Len(sorted) + 1}), n)

ByUptime(nodes) ==
    LET sorted[i \in 0..Len(nodes)] == IF i = 0 THEN <<>> ELSE Placed(sorted[i - 1], nodes[i])
    IN  sorted[Len(nodes)]

\* The preferred ones first; without a preference every node is among the others.
Preferred(nodes, region) ==
    Only(nodes, {n \in Range(nodes) : n.region = region}) \o Only(nodes, {n \in Range(nodes) : n.region # region})

\* What discover returns once the directories were asked.
Ranked(nodes, region) ==
    LET all == ByUptime(Preferred(Candidates(nodes), region))
    IN  SubSeq(all, 1, Min({Len(all), MaxResults}))
-----------------------------------------------------------------------------
Discover(t) ==
    /\ discover[t] = 0
    /\ discover' = [discover EXCEPT ![t] = 1]
    /\ UNCHANGED <<relays, cacheFile, dirClock, dirStops, learnt>>

\* The end of discover: it returns Ranked of the nodes there are now, for nothing is
\* awaited in between.
Answered(t) == discover' = [discover EXCEPT ![t] = 0]

\* Mutant: a listing is kept in memory only.
SaveCacheNot(nodes) == UNCHANGED cacheFile

SaveCache(nodes) == cacheFile' = nodes

\* The list of a directory is read up to its first bad entry.
Listed(list) ==
    LET bad == {i \in DOMAIN list : list[i] = BadEntry}
    IN  IF bad = {} THEN list ELSE SubSeq(list, 1, (CHOOSE i \in bad : \A j \in bad : i <= j) - 1)

Refreshed(list) ==
    PutAll(relays, [i \in DOMAIN Listed(list) |-> RelayNode(Listed(list)[i], dirClock - Listed(list)[i].age)])

\* A whole list is saved and ends the search.
RefreshWhole(t, list) ==
    /\ discover[t] # 0 /\ BadEntry \notin Range(list)
    /\ relays' = Refreshed(list) /\ SaveCache(relays')
    /\ learnt' = learnt \cup {list[i].id : i \in DOMAIN list}
    /\ Answered(t)
    /\ UNCHANGED <<dirClock, dirStops>>

\* The exception is caught: the next directory, or an answer from what there is.
NextDirectory(t) ==
    IF discover[t] < Directories THEN discover' = [discover EXCEPT ![t] = @ + 1] ELSE Answered(t)

\* A list with a bad entry: what came before it stays in memory and is not saved.
RefreshPartly(t, list) ==
    /\ discover[t] # 0 /\ BadEntry \in Range(list)
    /\ relays' = Refreshed(list) /\ NextDirectory(t)
    /\ UNCHANGED <<cacheFile, dirClock, dirStops, learnt>>

\* A directory that is blocked, times out or answers with another status than 200.
DirectoryFails(t) ==
    /\ discover[t] # 0
    /\ UNCHANGED relays /\ NextDirectory(t)
    /\ UNCHANGED <<cacheFile, dirClock, dirStops, learnt>>

DirectoryStep(t) ==
    \/ \E list \in Listings : RefreshWhole(t, list) \/ RefreshPartly(t, list)
    \/ DirectoryFails(t)

\* register_node; the node was made just now.
RegisterNode(e) ==
    /\ relays' = Put(relays, RelayNode(e, dirClock)) /\ SaveCache(relays')
    /\ learnt' = learnt \cup {e.id}
    /\ UNCHANGED <<discover, dirClock, dirStops>>

\* A node that answers a probe has been seen now; this is not saved.
ProbeNode(i) ==
    /\ relays' = [relays EXCEPT ![i].seen = dirClock]
    /\ UNCHANGED <<cacheFile, discover, dirClock, dirStops, learnt>>

DirectoryTick ==
    /\ dirClock < DirectoryEnd
    /\ dirClock' = dirClock + 1
    /\ UNCHANGED <<relays, cacheFile, discover, dirStops, learnt>>

\* The process ends, perhaps while it writes the file, and is started again.
RestartDirectory(torn) ==
    /\ dirStops < DirectoryStops /\ dirStops' = dirStops + 1
    /\ cacheFile' = IF torn THEN Torn ELSE cacheFile
    /\ learnt' = IF torn THEN {} ELSE learnt
    /\ relays' = LoadCache(cacheFile')
    /\ discover' = [t \in DiscoverTasks |-> 0]
    /\ UNCHANGED dirClock

DirectoryNext ==
    \/ \E t \in DiscoverTasks : DirectoryStep(t) \/ Discover(t)
    \/ \E list \in Listings : \E e \in Range(list) \ {BadEntry} : RegisterNode(e)
    \/ \E i \in DOMAIN relays : ProbeNode(i)
    \/ DirectoryTick
    \/ \E torn \in BOOLEAN : RestartDirectory(torn)

DirectorySpec == DirectoryInit /\ [][DirectoryNext]_dirVars
-----------------------------------------------------------------------------
(* Properties *)

\* The types; no id is known twice and the bootstrap nodes are never lost, whatever
\* directories list under their ids.
DirectoryTypeOK ==
    /\ \A i, j \in DOMAIN relays : relays[i].id = relays[j].id => i = j
    /\ {Bootstrap[i].id : i \in DOMAIN Bootstrap} \subseteq Ids(relays) /\ Ids(relays) \subseteq RelayIds
    /\ \A i \in DOMAIN relays : relays[i].seen <= dirClock
    /\ \A t \in DiscoverTasks : discover[t] \in 0..Directories

\* A relay that was registered or came with a whole listing is known from then on, though
\* tasks overlap, listings break off in the middle and the process starts again; only a
\* stop in the middle of a write costs it (_save_cache, _load_cache).
LearntStaysKnown == learnt \subseteq Ids(relays)

\* x has more uptime than y, or as much and the region that was asked for.
Better(x, y, region) ==
    x.uptime > y.uptime \/ (x.uptime = y.uptime /\ x.region = region /\ y.region # region)

\* What a discover that returns now answers names the best candidates: none that it leaves
\* out or puts later has more uptime, and the preferred region only decides between equal
\* ones, whichever order the nodes became known in.
BestFirst ==
    \A region \in Regions :
        LET given == Ranked(relays, region)
            left == {n \in Range(relays) : n.uptime >= MinUptime /\ RelayFresh(n)} \ Range(given)
        IN  /\ left # {} => Len(given) = MaxResults
            /\ \A i \in DOMAIN given :
                  /\ \A n \in left : ~ Better(n, given[i], region)
                  /\ \A j \in DOMAIN given : i < j => ~ Better(given[j], given[i], region)

\* What is known is kept, and the best of it is answered, whichever tasks overlap.
DirectoryConsistent == DirectoryTypeOK /\ LearntStaysKnown /\ BestFirst
=============================================================================
