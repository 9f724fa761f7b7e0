-------------------------- MODULE AgentCacheProofs --------------------------
(* IndexIsBacked and PulledIsFound, for any number of installations that   *)
(* overlap, fail or are cut short by a crash.                              *)
EXTENDS AgentHandlersProofs

\* Every version a request may ask for.
Names == UNION {{r.version : r \in requests} : requests \in Workloads}

\* All blobs of all names in S are on disk.
Backed(S) == \A v \in S : Blobs(v) \subseteq blobs

\* Where a goroutine works with cache.ociStore, and where its chart has been added.
Working == {"fetch", "oras", "add", "save", "truncate", "write"}
Adding  == {"save", "truncate", "write"}

Charts == [names : SUBSET Names, store : Nat, phase : {"pull", "pulled", "load"}]

CacheTypes ==
    /\ index \in (SUBSET Names) \cup {Truncated}
    /\ stores \in Seq(SUBSET Names)
    /\ ociStore \in 0 .. Len(stores)
    /\ chart \in [Requests -> Charts]

\* A goroutine that works with a store has one, and leaves phase "pull" with its chart.
CachePlaces ==
    \A t \in Requests :
        /\ chart[t].store <= Len(stores)
        /\ pc[t] = "assign" => chart[t].store # 0
        /\ pc[t] \in Working => ociStore # 0
        /\ pc[t] \notin {"fetch", "helm"} => chart[t].phase = "pull"

\* Names have their blobs, on disk, in every store and on their way; AddReference is
\* reached with the blobs of its chart only.
CacheBacked ==
    /\ index # Truncated => Backed(index)
    /\ \A i \in DOMAIN stores : Backed(stores[i])
    /\ \A t \in Requests : Backed(chart[t].names)
    /\ \A t \in Requests : pc[t] = "add" => Blobs(Wanted(t)) \subseteq blobs

\* While there is one store, a chart that was added is in it.
CacheFound ==
    Len(stores) = 1 =>
        \A t \in Requests :
            pc[t] \in Adding \/ (pc[t] = "fetch" /\ chart[t].phase # "pull") =>
                Wanted(t) \in stores[1]

CacheInv == WebInv /\ CacheTypes /\ CachePlaces /\ CacheBacked /\ CacheFound

\* At the start there is nothing but an empty cache.
LEMMA InitCacheInv == Init => CacheInv
<1> SUFFICES ASSUME Init PROVE CacheInv
  OBVIOUS
<1>1. WebInv
  BY ApplicationAssumption DEF Init, WebInit, AppInit, WebInv, Writers
<1>2. CacheTypes
  <2>1. stores = <<>> /\ ociStore = 0 /\ index = {}
    BY DEF Init, CacheInit
  <2>2. chart \in [Requests -> Charts]
    BY DEF Init, CacheInit, NoChart, Charts
  <2>3. stores \in Seq(SUBSET Names) /\ ociStore \in 0 .. Len(stores)
    BY <2>1
  <2> QED
    BY <2>1, <2>2, <2>3 DEF CacheTypes
<1>3. CachePlaces
  <2>1. \A t \in Requests : pc[t] = "idle"
    BY DEF Init, WebInit
  <2>2. \A t \in Requests : chart[t].phase = "pull"
    BY DEF Init, CacheInit, NoChart
  <2>3. \A t \in Requests : chart[t].store = 0
    BY DEF Init, CacheInit, NoChart
  <2>4. 0 <= Len(stores)
    BY <1>2 DEF CacheTypes
  <2>5. ASSUME NEW t \in Requests PROVE chart[t].store <= Len(stores)
    BY <2>3, <2>4, Zenon
  <2> QED
    BY <2>1, <2>2, <2>5 DEF CachePlaces, Working
<1>4. CacheBacked
  BY DEF Init, CacheInit, WebInit, NoChart, CacheBacked, Backed
<1>5. CacheFound
  BY DEF Init, CacheInit, CacheFound
<1> QED
  BY <1>1, <1>2, <1>3, <1>4, <1>5 DEF CacheInv

\* A busy goroutine wants one of the names.
LEMMA WantedIsName ==
    ASSUME WebInv, NEW t \in Requests, pc[t] # "idle" PROVE Wanted(t) \in Names
  BY DEF WebInv, Names, Wanted

\* What Moved leaves alone.
LEMMA MovedFacts ==
    ASSUME WebInv, NEW t \in Requests, Moved(t)
    PROVE  /\ \A u \in Requests : u # t => pc'[u] = pc[u] /\ Wanted(u)' = Wanted(u)
           /\ pc'[t] # "idle" => Wanted(t)' = Wanted(t)
  BY DEF WebInv, Moved, Wanted

\* A step outside of the cache, to a place outside of it or to its entrance.
LEMMA OutsideCacheInv ==
    ASSUME CacheInv, WebInv', NEW t \in Requests, Moved(t), UNCHANGED cacheVars,
           pc[t] \notin {"fetch", "helm"}, pc'[t] \notin Working \cup {"assign"}
    PROVE  CacheInv'
<1> USE DEF cacheVars
<1>1. \A u \in Requests : u # t => pc'[u] = pc[u] /\ Wanted(u)' = Wanted(u)
  BY MovedFacts DEF CacheInv
<1>2. CacheTypes'
  BY DEF CacheInv, CacheTypes
<1>3. CachePlaces'
  BY <1>1 DEF CacheInv, CachePlaces
<1>4. CacheBacked'
  BY <1>1 DEF CacheInv, CacheBacked, Backed, Working
<1>5. CacheFound'
  BY <1>1 DEF CacheInv, CacheFound, Working, Adding
<1> QED
  BY <1>2, <1>3, <1>4, <1>5 DEF CacheInv

\* The goroutine leaves the cache, with an error or with its chart.
LEMMA LeavesCacheInv ==
    ASSUME CacheInv, WebInv', NEW t \in Requests, Moved(t),
           chart' = [chart EXCEPT ![t] = NoChart],
           blobs \subseteq blobs', UNCHANGED <<index, stores, ociStore>>,
           pc'[t] \notin Working \cup {"assign"}
    PROVE  CacheInv'
<1>1. \A u \in Requests : /\ u # t => pc'[u] = pc[u] /\ Wanted(u)' = Wanted(u) /\ chart'[u] = chart[u]
  BY MovedFacts DEF CacheInv, CacheTypes
<1>2. chart'[t] = NoChart
  BY DEF CacheInv, CacheTypes
<1>3. CacheTypes'
  BY DEF CacheInv, CacheTypes, Charts, NoChart
<1>4. CachePlaces'
  BY <1>1, <1>2 DEF CacheInv, CacheTypes, CachePlaces, NoChart
<1>5. CacheBacked'
  BY <1>1, <1>2 DEF CacheInv, CacheBacked, Backed, Working, NoChart
<1>6. CacheFound'
  BY <1>1 DEF CacheInv, CacheFound, Working, Adding
<1> QED
  BY <1>3, <1>4, <1>5, <1>6 DEF CacheInv

\* A goroutine moves on inside of the cache; chart and store of the others stay.
LEMMA InsideFacts ==
    ASSUME CacheInv, NEW t \in Requests, Moved(t), pc'[t] # "idle",
           NEW c \in Charts, chart' = [chart EXCEPT ![t] = c]
    PROVE  /\ \A u \in Requests : Wanted(u)' = Wanted(u)
           /\ \A u \in Requests : u # t => pc'[u] = pc[u] /\ chart'[u] = chart[u]
           /\ chart' \in [Requests -> Charts] /\ chart'[t] = c
  BY MovedFacts DEF CacheInv, CacheTypes

\* Helm.PullChart.
LEMMA PullChartCacheInv == ASSUME CacheInv, WebInv', NEW t \in Requests, PullChart(t) PROVE CacheInv'
<1>1. CASE Fails(t)
  <2>1. Moved(t) /\ pc'[t] = "idle"
    BY <1>1, GoToMoves DEF Fails, CacheInv
  <2> QED
    BY <1>1, <2>1, LeavesCacheInv DEF PullChart, Fails, diskVars, Working
<1>2. CASE GoTo(t, "init") /\ UNCHANGED chart
  <2>1. Moved(t) /\ pc'[t] = "init"
    BY <1>2, GoToMoves DEF CacheInv
  <2> QED
    BY <1>2, <2>1, OutsideCacheInv DEF PullChart, diskVars, cacheVars, Working
<1> QED
  BY <1>1, <1>2 DEF PullChart

\* Cache.init with a store.
LEMMA IsInitCacheInv == ASSUME CacheInv, WebInv', NEW t \in Requests, CacheIsInit(t) PROVE CacheInv'
<1> USE DEF CacheIsInit, cacheVars
<1>1. Moved(t) /\ pc[t] = "init" /\ pc'[t] = "fetch"
  BY GoToMoves DEF CacheInv
<1>2. \A u \in Requests : Wanted(u)' = Wanted(u) /\ (u # t => pc'[u] = pc[u])
  BY <1>1, MovedFacts DEF CacheInv
<1>3. CacheTypes'
  BY DEF CacheInv, CacheTypes
<1>4. CachePlaces'
  BY <1>1, <1>2 DEF CacheInv, CachePlaces, Working
<1>5. CacheBacked'
  BY <1>1, <1>2 DEF CacheInv, CacheBacked, Backed
<1>6. CacheFound'
  BY <1>1, <1>2 DEF CacheInv, CacheFound, CachePlaces, Adding
<1> QED
  BY <1>3, <1>4, <1>5, <1>6 DEF CacheInv

\* Cache.init without a store: a new one has the names of index.json, and no one
\* works with a store yet.
LEMMA NewStoreCacheInv == ASSUME CacheInv, WebInv', NEW t \in Requests, NewOCIStore(t) PROVE CacheInv'
<1>1. CASE index = Truncated
  <2>1. Moved(t) /\ pc'[t] = "idle"
    BY <1>1, GoToMoves DEF NewOCIStore, Fails, CacheInv
  <2> QED
    BY <1>1, <2>1, LeavesCacheInv DEF NewOCIStore, Fails, diskVars, Working
<1>2. CASE index # Truncated
  <2> DEFINE c == [chart[t] EXCEPT !.store = Len(stores) + 1]
  <2>1. Moved(t) /\ pc[t] = "init" /\ pc'[t] = "assign" /\ ociStore = 0
    BY <1>2, GoToMoves DEF NewOCIStore, CacheInv
  <2>2. /\ stores' = Append(stores, index) /\ UNCHANGED <<blobs, index, ociStore>>
        /\ chart' = [chart EXCEPT ![t] = c]
    BY <1>2 DEF NewOCIStore, diskVars, CacheInv, CacheTypes
  <2>3. c \in Charts /\ c.store = Len(stores) + 1 /\ c.phase = "pull" /\ c.names = chart[t].names
    BY <2>1 DEF CacheInv, CacheTypes, CachePlaces, Charts
  <2>4. /\ \A u \in Requests : Wanted(u)' = Wanted(u)
        /\ \A u \in Requests : u # t => pc'[u] = pc[u] /\ chart'[u] = chart[u]
        /\ chart' \in [Requests -> Charts] /\ chart'[t] = c
    BY <2>1, <2>2, <2>3, InsideFacts
  <2> HIDE DEF c
  <2>5. /\ index \in SUBSET Names /\ stores' \in Seq(SUBSET Names) /\ Len(stores') = Len(stores) + 1
        /\ \A i \in DOMAIN stores' : stores'[i] = index \/ (i \in DOMAIN stores /\ stores'[i] = stores[i])
    <3>1. index \in SUBSET Names /\ stores \in Seq(SUBSET Names)
      BY <1>2 DEF CacheInv, CacheTypes
    <3>2. stores' \in Seq(SUBSET Names) /\ Len(stores') = Len(stores) + 1
      BY <2>2, <3>1
    <3>3. DOMAIN stores = 1 .. Len(stores) /\ DOMAIN stores' = 1 .. Len(stores) + 1
      BY <3>1, <3>2
    <3>4. \A i \in 1 .. Len(stores) : stores'[i] = stores[i]
      BY <2>2, <3>1
    <3>5. stores'[Len(stores) + 1] = index
      BY <2>2, <3>1
    <3> QED
      BY <3>1, <3>2, <3>3, <3>4, <3>5
  <2>6. CacheTypes'
    BY <2>1, <2>2, <2>4, <2>5 DEF CacheInv, CacheTypes
  <2>7. CachePlaces'
    BY <2>1, <2>2, <2>3, <2>4, <2>5 DEF CacheInv, CacheTypes, CachePlaces, Working, Charts
  <2>8. CacheBacked'
    BY <1>2, <2>1, <2>2, <2>3, <2>4, <2>5 DEF CacheInv, CacheBacked, Backed
  <2>9. CacheFound'
    BY <2>1, <2>4 DEF CacheInv, CachePlaces, CacheFound, Working, Adding
  <2> QED
    BY <2>6, <2>7, <2>8, <2>9 DEF CacheInv
<1> QED
  BY <1>1, <1>2

\* The store is assigned, perhaps over another one.
LEMMA SetStoreCacheInv == ASSUME CacheInv, WebInv', NEW t \in Requests, SetStore(t) PROVE CacheInv'
<1>1. Moved(t) /\ pc[t] = "assign" /\ pc'[t] = "fetch"
  BY GoToMoves DEF SetStore, CacheInv
<1>2. \A u \in Requests : Wanted(u)' = Wanted(u) /\ (u # t => pc'[u] = pc[u])
  BY <1>1, MovedFacts DEF CacheInv
<1>3. UNCHANGED <<blobs, index, stores, chart>> /\ ociStore' = chart[t].store
  BY DEF SetStore, diskVars
<1>4. CacheTypes'
  BY <1>3 DEF CacheInv, CacheTypes, CachePlaces, Charts
<1>5. CachePlaces'
  BY <1>1, <1>2, <1>3 DEF CacheInv, CachePlaces, Working
<1>6. CacheBacked'
  BY <1>1, <1>2, <1>3 DEF CacheInv, CacheBacked, Backed
<1>7. CacheFound'
  BY <1>1, <1>2, <1>3 DEF CacheInv, CacheFound, CachePlaces, Adding
<1> QED
  BY <1>4, <1>5, <1>6, <1>7 DEF CacheInv

\* FetchReference and its callers: the chart of phase "pulled" or "load" is found.
LEMMA FetchCacheInv == ASSUME CacheInv, WebInv', NEW t \in Requests, FetchReference(t) PROVE CacheInv'
<1> USE DEF FetchReference
<1>1. pc[t] = "fetch" /\ UNCHANGED <<blobs, index, stores, ociStore>>
  BY DEF diskVars
<1>2. CASE Fails(t)
  <2>1. Moved(t) /\ pc'[t] = "idle"
    BY <1>2, GoToMoves DEF Fails, CacheInv
  <2> QED
    BY <1>1, <1>2, <2>1, LeavesCacheInv DEF Fails, Working
<1>3. CASE chart[t].phase = "pull" /\ GoTo(t, "oras") /\ UNCHANGED chart
  <2>1. Moved(t) /\ pc'[t] = "oras"
    BY <1>3, GoToMoves DEF CacheInv
  <2>2. \A u \in Requests : Wanted(u)' = Wanted(u) /\ (u # t => pc'[u] = pc[u])
    BY <2>1, MovedFacts DEF CacheInv
  <2>3. CacheTypes'
    BY <1>1, <1>3 DEF CacheInv, CacheTypes
  <2>4. CachePlaces'
    BY <1>1, <1>3, <2>1, <2>2 DEF CacheInv, CachePlaces, Working
  <2>5. CacheBacked'
    BY <1>1, <1>3, <2>1, <2>2 DEF CacheInv, CacheBacked, Backed
  <2>6. CacheFound'
    BY <1>1, <1>3, <2>1, <2>2 DEF CacheInv, CacheFound, Adding
  <2> QED
    BY <2>3, <2>4, <2>5, <2>6 DEF CacheInv
<1>4. CASE chart[t].phase = "pulled" /\ Waits /\ chart' = [chart EXCEPT ![t].phase = "load"]
  <2>1. UNCHANGED <<pc, req>>
    BY <1>4 DEF Waits, webVars
  <2>2. chart' \in [Requests -> Charts]
    BY <1>4 DEF CacheInv, CacheTypes, Charts
  <2>3. \A u \in Requests : /\ chart'[u].names = chart[u].names /\ chart'[u].store = chart[u].store
                            /\ u # t => chart'[u].phase = chart[u].phase
    BY <1>4 DEF CacheInv, CacheTypes, Charts
  <2>4. CacheTypes'
    BY <1>1, <2>2 DEF CacheInv, CacheTypes
  <2>5. CachePlaces'
    BY <1>1, <2>1, <2>3 DEF CacheInv, CachePlaces
  <2>6. CacheBacked'
    BY <1>1, <2>1, <2>3 DEF CacheInv, CacheBacked, Backed, Wanted
  <2>7. CacheFound'
    BY <1>1, <1>4, <2>1, <2>3 DEF CacheInv, CacheFound, Wanted
  <2> QED
    BY <2>4, <2>5, <2>6, <2>7 DEF CacheInv
<1>5. CASE chart[t].phase = "load" /\ GoTo(t, "helm") /\ UNCHANGED chart
  <2>1. Moved(t) /\ pc'[t] = "helm"
    BY <1>5, GoToMoves DEF CacheInv
  <2>2. \A u \in Requests : Wanted(u)' = Wanted(u) /\ (u # t => pc'[u] = pc[u])
    BY <2>1, MovedFacts DEF CacheInv
  <2>3. CacheTypes'
    BY <1>1, <1>5 DEF CacheInv, CacheTypes
  <2>4. CachePlaces'
    BY <1>1, <1>5, <2>1, <2>2 DEF CacheInv, CachePlaces, Working
  <2>5. CacheBacked'
    BY <1>1, <1>5, <2>1, <2>2 DEF CacheInv, CacheBacked, Backed
  <2>6. CacheFound'
    BY <1>1, <1>5, <2>1, <2>2 DEF CacheInv, CacheFound, Adding
  <2> QED
    BY <2>3, <2>4, <2>5, <2>6 DEF CacheInv
<1> QED
  BY <1>2, <1>3, <1>4, <1>5 DEF PullChartToCache, LoadChart

\* oras.Pull: only with all blobs on disk the goroutine goes on.
LEMMA PullCacheInv == ASSUME CacheInv, WebInv', NEW t \in Requests, Pull(t) PROVE CacheInv'
<1>1. pc[t] = "oras" /\ UNCHANGED <<index, stores, ociStore>> /\ blobs \subseteq blobs'
  BY DEF Pull
<1>2. CASE Fails(t)
  <2>1. Moved(t) /\ pc'[t] = "idle"
    BY <1>2, GoToMoves DEF Fails, CacheInv
  <2> QED
    BY <1>1, <1>2, <2>1, LeavesCacheInv DEF Fails, Working
<1>3. CASE blobs' = blobs \cup Blobs(Wanted(t)) /\ GoTo(t, "add") /\ UNCHANGED chart
  <2>1. Moved(t) /\ pc'[t] = "add"
    BY <1>3, GoToMoves DEF CacheInv
  <2>2. \A u \in Requests : Wanted(u)' = Wanted(u) /\ (u # t => pc'[u] = pc[u])
    BY <2>1, MovedFacts DEF CacheInv
  <2>3. CacheTypes'
    BY <1>1, <1>3 DEF CacheInv, CacheTypes
  <2>4. CachePlaces'
    BY <1>1, <1>3, <2>1, <2>2 DEF CacheInv, CachePlaces, Working
  <2>5. CacheBacked'
    <3>1. Blobs(Wanted(t)) \subseteq blobs'
      BY <1>3
    <3> QED
      BY <1>1, <1>3, <2>1, <2>2, <3>1 DEF CacheInv, CacheBacked, Backed
  <2>6. CacheFound'
    BY <1>1, <1>3, <2>1, <2>2 DEF CacheInv, CacheFound, Adding
  <2> QED
    BY <2>3, <2>4, <2>5, <2>6 DEF CacheInv
<1> QED
  BY <1>2, <1>3 DEF Pull

\* AddReference adds a name that has its blobs.
LEMMA AddCacheInv == ASSUME CacheInv, WebInv', NEW t \in Requests, AddReference(t) PROVE CacheInv'
<1>1. /\ Moved(t) /\ pc[t] = "add" /\ pc'[t] = "save" /\ UNCHANGED <<blobs, index, ociStore, chart>>
      /\ stores' = [stores EXCEPT ![ociStore] = @ \cup {Wanted(t)}]
  BY GoToMoves DEF AddReference, CacheInv, diskVars
<1>2. \A u \in Requests : Wanted(u)' = Wanted(u) /\ (u # t => pc'[u] = pc[u])
  BY <1>1, MovedFacts DEF CacheInv
<1>3. stores \in Seq(SUBSET Names) /\ ociStore \in 1 .. Len(stores) /\ Wanted(t) \in Names
  BY <1>1, WantedIsName DEF CacheInv, CacheTypes, CachePlaces, Working
<1>4. /\ stores' \in Seq(SUBSET Names) /\ Len(stores') = Len(stores)
      /\ DOMAIN stores' = DOMAIN stores /\ DOMAIN stores = 1 .. Len(stores)
  BY <1>1, <1>3
<1>5. /\ \A i \in DOMAIN stores : i # ociStore => stores'[i] = stores[i]
      /\ stores'[ociStore] = stores[ociStore] \cup {Wanted(t)}
  BY <1>1, <1>3
<1>6. CacheTypes'
  BY <1>1, <1>4 DEF CacheInv, CacheTypes
<1>7. CachePlaces'
  BY <1>1, <1>2, <1>4 DEF CacheInv, CachePlaces, Working
<1>8. CacheBacked'
  <2>1. Backed(stores[ociStore] \cup {Wanted(t)})
    BY <1>1, <1>3, <1>4 DEF CacheInv, CacheBacked, Backed
  <2>2. \A i \in DOMAIN stores' : Backed(stores'[i])
    BY <1>4, <1>5, <2>1 DEF CacheInv, CacheBacked, Backed
  <2> QED
    BY <1>1, <1>2, <2>2 DEF CacheInv, CacheBacked, Backed
<1>9. CacheFound'
  <2> SUFFICES ASSUME Len(stores) = 1, NEW u \in Requests,
                      pc'[u] \in Adding \/ (pc'[u] = "fetch" /\ chart[u].phase # "pull")
               PROVE  Wanted(u) \in stores'[1]
    BY <1>1, <1>2, <1>4 DEF CacheFound
  <2>1. stores'[1] = stores[1] \cup {Wanted(t)}
    BY <1>3, <1>5
  <2>2. u # t => Wanted(u) \in stores[1]
    BY <1>2 DEF CacheInv, CacheFound
  <2> QED
    BY <2>1, <2>2
<1> QED
  BY <1>6, <1>7, <1>8, <1>9 DEF CacheInv

\* SaveIndex takes the names of a store.
LEMMA SaveCacheInv == ASSUME CacheInv, WebInv', NEW t \in Requests, SaveIndex(t) PROVE CacheInv'
<1> DEFINE c == [chart[t] EXCEPT !.names = stores[ociStore]]
<1>1. /\ Moved(t) /\ pc[t] = "save" /\ pc'[t] = "truncate"
      /\ UNCHANGED <<blobs, index, stores, ociStore>> /\ chart' = [chart EXCEPT ![t] = c]
  BY GoToMoves DEF SaveIndex, CacheInv, CacheTypes, diskVars
<1>2. ociStore \in DOMAIN stores /\ stores[ociStore] \in SUBSET Names
  BY <1>1 DEF CacheInv, CacheTypes, CachePlaces, Working
<1>3. c \in Charts /\ c.names = stores[ociStore] /\ c.store = chart[t].store /\ c.phase = chart[t].phase
  BY <1>2 DEF CacheInv, CacheTypes, Charts
<1>4. /\ \A u \in Requests : Wanted(u)' = Wanted(u)
      /\ \A u \in Requests : u # t => pc'[u] = pc[u] /\ chart'[u] = chart[u]
      /\ chart' \in [Requests -> Charts] /\ chart'[t] = c
  BY <1>1, <1>3, InsideFacts
<1> HIDE DEF c
<1>5. CacheTypes'
  BY <1>1, <1>4 DEF CacheInv, CacheTypes
<1>6. CachePlaces'
  BY <1>1, <1>3, <1>4 DEF CacheInv, CachePlaces, Working
<1>7. CacheBacked'
  BY <1>1, <1>2, <1>3, <1>4 DEF CacheInv, CacheBacked, Backed
<1>8. CacheFound'
  BY <1>1, <1>4 DEF CacheInv, CacheFound, Adding
<1> QED
  BY <1>5, <1>6, <1>7, <1>8 DEF CacheInv

\* index.json is emptied ...
LEMMA TruncateCacheInv == ASSUME CacheInv, WebInv', NEW t \in Requests, TruncateIndex(t) PROVE CacheInv'
<1>1. /\ Moved(t) /\ pc[t] = "truncate" /\ pc'[t] = "write"
      /\ UNCHANGED <<blobs, stores, ociStore, chart>> /\ index' = Truncated
  BY GoToMoves DEF TruncateIndex, CacheInv
<1>2. \A u \in Requests : Wanted(u)' = Wanted(u) /\ (u # t => pc'[u] = pc[u])
  BY <1>1, MovedFacts DEF CacheInv
<1>3. CacheTypes'
  BY <1>1 DEF CacheInv, CacheTypes
<1>4. CachePlaces'
  BY <1>1, <1>2 DEF CacheInv, CachePlaces, Working
<1>5. CacheBacked'
  BY <1>1, <1>2 DEF CacheInv, CacheBacked, Backed
<1>6. CacheFound'
  BY <1>1, <1>2 DEF CacheInv, CacheFound, Adding
<1> QED
  BY <1>3, <1>4, <1>5, <1>6 DEF CacheInv

\* ... and filled with names that have their blobs.
LEMMA WriteCacheInv == ASSUME CacheInv, WebInv', NEW t \in Requests, WriteIndex(t) PROVE CacheInv'
<1>1. pc[t] = "write" /\ UNCHANGED <<blobs, stores, ociStore>>
  BY DEF WriteIndex
<1>2. CASE Fails(t) /\ UNCHANGED index
  <2>1. Moved(t) /\ pc'[t] = "idle"
    BY <1>2, GoToMoves DEF Fails, CacheInv
  <2> QED
    BY <1>1, <1>2, <2>1, LeavesCacheInv DEF Fails, Working
<1>3. CASE /\ index' = chart[t].names
           /\ chart' = [chart EXCEPT ![t].phase = "pulled", ![t].names = {}]
           /\ GoTo(t, "fetch")
  <2> DEFINE c == [chart[t] EXCEPT !.phase = "pulled", !.names = {}]
  <2>1. Moved(t) /\ pc'[t] = "fetch" /\ chart' = [chart EXCEPT ![t] = c]
    BY <1>3, GoToMoves DEF CacheInv, CacheTypes
  <2>2. c \in Charts /\ c.names = {} /\ c.store = chart[t].store
    BY DEF CacheInv, CacheTypes, Charts
  <2>3. /\ \A u \in Requests : Wanted(u)' = Wanted(u)
        /\ \A u \in Requests : u # t => pc'[u] = pc[u] /\ chart'[u] = chart[u]
        /\ chart' \in [Requests -> Charts] /\ chart'[t] = c
    BY <2>1, <2>2, InsideFacts
  <2> HIDE DEF c
  <2>4. CacheTypes'
    BY <1>1, <1>3, <2>3 DEF CacheInv, CacheTypes, Charts
  <2>5. CachePlaces'
    BY <1>1, <2>1, <2>2, <2>3 DEF CacheInv, CachePlaces, Working
  <2>6. CacheBacked'
    BY <1>1, <1>3, <2>1, <2>2, <2>3 DEF CacheInv, CacheBacked, Backed
  <2>7. CacheFound'
    BY <1>1, <2>1, <2>3 DEF CacheInv, CacheFound, Adding
  <2> QED
    BY <2>4, <2>5, <2>6, <2>7 DEF CacheInv
<1> QED
  BY <1>2, <1>3 DEF WriteIndex

\* The cache as a whole.
LEMMA StepCacheInv == ASSUME CacheInv, WebInv', NEW t \in Requests, CacheStep(t) PROVE CacheInv'
  BY PullChartCacheInv, IsInitCacheInv, NewStoreCacheInv, SetStoreCacheInv, FetchCacheInv,
     PullCacheInv, AddCacheInv, SaveCacheInv, TruncateCacheInv, WriteCacheInv DEF CacheStep

\* The litmus handlers: Install leaves the cache, the others are not in it.
LEMMA LitmusCacheInv == ASSUME CacheInv, WebInv', NEW t \in Requests, LitmusStep(t) PROVE CacheInv'
<1>1. WebInv /\ Moved(t)
  BY LitmusMoves DEF CacheInv
<1>2. CASE Install(t)
  <2>1. pc'[t] \in {"helmRuns", "idle"}
    BY <1>1, <1>2, GoToMoves DEF Install, Answered
  <2> QED
    BY <1>1, <1>2, <2>1, LeavesCacheInv DEF Install, diskVars, Working
<1>3. CASE installLitmus(t) \/ InstallEnds(t) \/ SetVersion(t) \/ uninstallLitmus(t) \/ ClearVersion(t)
  <2>1. pc[t] \notin {"fetch", "helm"} /\ UNCHANGED cacheVars
    BY <1>3 DEF installLitmus, InstallEnds, SetVersion, uninstallLitmus, ClearVersion
  <2>2. pc'[t] \in {"pull", "record", "forget", "idle"}
    BY <1>1, <1>3, GoToMoves DEF installLitmus, InstallEnds, SetVersion, uninstallLitmus,
       ClearVersion, Answered
  <2> QED
    BY <1>1, <2>1, <2>2, OutsideCacheInv DEF Working
<1>4. CASE create(t) \/ destroy(t) \/ NoSuchAction(t) \/ createEnginer(t)
  <2>1. pc[t] \notin {"fetch", "helm"} /\ UNCHANGED cacheVars
    BY <1>4 DEF create, destroy, NoSuchAction, createEnginer
  <2>2. pc'[t] \in {"experiment", "idle"}
    BY <1>1, <1>4, GoToMoves DEF create, destroy, NoSuchAction, createEnginer, Answered
  <2> QED
    BY <1>1, <2>1, <2>2, OutsideCacheInv DEF Working
<1>5. CASE prepareLitmusExperiment(t) \/ prepareLitmusRbac(t)
  <2>1. pc[t] \notin {"fetch", "helm"} /\ UNCHANGED cacheVars
    BY <1>5 DEF prepareLitmusExperiment, prepareLitmusRbac
  <2>2. pc'[t] \in {"rbac", "getRole", "idle"}
    BY <1>1, <1>5, GoToMoves DEF prepareLitmusExperiment, prepareLitmusRbac, Answered, Ensure,
       CallFails, DownloadFails
  <2> QED
    BY <1>1, <2>1, <2>2, OutsideCacheInv DEF Working
<1>6. CASE createRoleAndRoleBinding(t)
  <2>1. pc[t] \notin {"fetch", "helm"} /\ UNCHANGED cacheVars
    BY <1>6 DEF createRoleAndRoleBinding, getRole, deleteRole, createRole, createBinding
  <2>2. pc'[t] \in {"deleteRole", "createRole", "binding", "engine", "idle"}
    BY <1>1, <1>6, GoToMoves DEF createRoleAndRoleBinding, getRole, deleteRole, createRole,
       createBinding, Answered, Ensure, CallFails
  <2> QED
    BY <1>1, <2>1, <2>2, OutsideCacheInv DEF Working
<1> QED
  BY <1>2, <1>3, <1>4, <1>5, <1>6 DEF LitmusStep

\* A crash forgets the stores, and no goroutine is left.
LEMMA CrashCacheInv == ASSUME CacheInv, WebInv', Crash PROVE CacheInv'
<1> USE DEF Crash, CacheCrash, diskVars
<1>1. stores' = <<>> /\ ociStore' = 0 /\ UNCHANGED <<blobs, index>>
  OBVIOUS
<1>2. \A t \in Requests : pc'[t] = "idle" /\ chart'[t] = NoChart
  OBVIOUS
<1>3. CacheTypes'
  <2>1. chart' \in [Requests -> Charts]
    BY DEF NoChart, Charts
  <2>2. stores' \in Seq(SUBSET Names) /\ ociStore' \in 0 .. Len(stores')
    BY <1>1
  <2> QED
    BY <1>1, <2>1, <2>2 DEF CacheInv, CacheTypes
<1>4. CachePlaces'
  <2>1. Len(stores') \in Nat
    BY <1>3 DEF CacheTypes
  <2>2. \A t \in Requests : chart'[t].phase = "pull" /\ chart'[t].store = 0
    BY <1>2 DEF NoChart
  <2>3. \A t \in Requests : chart'[t].store <= Len(stores')
    BY <2>1, <2>2
  <2> QED
    BY <1>2, <2>2, <2>3 DEF CachePlaces, Working
<1>5. CacheBacked'
  <2>1. DOMAIN stores' = {}
    BY <1>1
  <2>2. \A t \in Requests : chart'[t].names = {} /\ pc'[t] # "add"
    BY <1>2 DEF NoChart
  <2>3. index' # Truncated => Backed(index)'
    BY <1>1 DEF CacheInv, CacheBacked, Backed
  <2> HIDE DEF Crash, CacheCrash
  <2> QED
    BY <2>1, <2>2, <2>3 DEF CacheBacked, Backed
<1>6. CacheFound'
  BY <1>2 DEF CacheFound, Adding
<1> QED
  BY <1>3, <1>4, <1>5, <1>6 DEF CacheInv

\* Every step keeps the invariant.
LEMMA NextCacheInv == CacheInv /\ [Next]_vars => CacheInv'
<1> SUFFICES ASSUME CacheInv, [Next]_vars PROVE CacheInv'
  OBVIOUS
<1>0. WebInv /\ WebInv'
  BY NextWebInv DEF CacheInv
<1>1. ASSUME UNCHANGED <<pc, req, cacheVars>> PROVE CacheInv'
  BY <1>0, <1>1 DEF CacheInv, CacheTypes, CachePlaces, CacheBacked, CacheFound, Backed, Wanted, cacheVars
<1>2. CASE MainStarts
  BY <1>0, <1>1, <1>2, MainMoves DEF MainStarts, webVars
<1>3. CASE Crash
  BY <1>0, <1>3, CrashCacheInv
<1>4. ASSUME NEW t \in Requests, Register(t) PROVE CacheInv'
  <2>1. UNCHANGED cacheVars
    BY <1>4 DEF Register
  <2>2. CASE UNCHANGED <<pc, req>>
    BY <1>1, <2>1, <2>2
  <2>3. ASSUME NEW r \in load, r.handler \in Handlers, pc[t] = "idle",
               pc' = [pc EXCEPT ![t] = r.handler], req' = [req EXCEPT ![t] = r]
        PROVE  CacheInv'
    <3>1. /\ pc'[t] \in Handlers
          /\ \A u \in Requests : u # t => pc'[u] = pc[u] /\ Wanted(u)' = Wanted(u)
      BY <1>0, <2>3 DEF WebInv, Wanted
    <3>2. CacheTypes'
      BY <2>1 DEF CacheInv, CacheTypes, cacheVars
    <3>3. CachePlaces'
      BY <2>1, <2>3, <3>1 DEF CacheInv, CachePlaces, cacheVars, Handlers, Working
    <3>4. CacheBacked'
      BY <2>1, <2>3, <3>1 DEF CacheInv, CacheBacked, Backed, cacheVars, Handlers
    <3>5. CacheFound'
      BY <2>1, <2>3, <3>1 DEF CacheInv, CacheFound, cacheVars, Handlers, Adding
    <3> QED
      BY <1>0, <3>2, <3>3, <3>4, <3>5 DEF CacheInv
  <2> QED
    BY <1>0, <1>4, <2>2, <2>3, HandleMoves DEF Register
<1>5. ASSUME NEW t \in Requests, Serve(t) PROVE CacheInv'
  <2>1. CASE LitmusHandlers(t)
    BY <1>0, <2>1, StepCacheInv, LitmusCacheInv DEF LitmusHandlers
  <2>2. CASE AppStep(t) /\ UNCHANGED cacheVars
    <3>1. CASE UNCHANGED <<pc, req>>
      BY <1>1, <2>2, <3>1
    <3>2. CASE pc' = [pc EXCEPT ![t] = "idle"] /\ req' = [req EXCEPT ![t] = NoRequest]
      <4>1. Moved(t) /\ pc[t] = "updateApplication" /\ pc'[t] = "idle"
        BY <1>0, <2>2, <3>2, UpdateMoves DEF Moved, WebInv
      <4> QED
        BY <1>0, <2>2, <4>1, OutsideCacheInv DEF Working
    <3> QED
      BY <1>0, <2>2, <3>1, <3>2, UpdateMoves
  <2>3. CASE Ping(t) /\ UNCHANGED cacheVars
    <3>1. Moved(t) /\ pc[t] = "ping" /\ pc'[t] = "idle"
      BY <1>0, <2>3, GoToMoves DEF Ping
    <3> QED
      BY <1>0, <2>3, <3>1, OutsideCacheInv DEF Working
  <2> QED
    BY <1>5, <2>1, <2>2, <2>3 DEF Serve
<1>6. ASSUME NEW n \in Engines, Background(n) PROVE CacheInv'
  BY <1>1, <1>6 DEF Background, Reporter, handlerResult, ReportStatus, OperatorRuns, webVars
<1>7. CASE UNCHANGED vars
  BY <1>1, <1>7 DEF vars, webVars
<1> QED
  BY <1>2, <1>3, <1>4, <1>5, <1>6, <1>7 DEF Next

\* Whatever installations overlap, fail or are cut short, index.json and the stores
\* never list a chart whose blobs are not on disk.
THEOREM IndexBacked == Spec => []IndexIsBacked
<1>1. CacheInv => IndexIsBacked
  BY DEF CacheInv, CacheBacked, Backed, IndexIsBacked
<1> QED
  BY <1>1, InitCacheInv, NextCacheInv, PTL DEF Spec

\* As long as one store was made, LoadChart finds what PullChartToCache pulled.
THEOREM PulledFound == Spec => []PulledIsFound
<1>1. CacheInv => PulledIsFound
  <2> SUFFICES ASSUME CacheInv, Len(stores) = 1, NEW t \in Requests,
                      pc[t] = "fetch", chart[t].phase # "pull"
               PROVE  Wanted(t) \in stores[ociStore]
    BY DEF PulledIsFound
  <2>1. ociStore = 1
    <3>1. ociStore # 0
      BY DEF CacheInv, CachePlaces, Working
    <3>2. ociStore \in 0 .. 1
      BY DEF CacheInv, CacheTypes
    <3> QED
      BY <3>1, <3>2
  <2> QED
    BY <2>1 DEF CacheInv, CacheFound
<1> QED
  BY <1>1, InitCacheInv, NextCacheInv, PTL DEF Spec

-----------------------------------------------------------------------------
(* The charts that are named.                                              *)

\* Where an installation is on its way with a version that installLitmus let pass.
Pulling == Working \cup {"pull", "init", "assign", "helm", "helmRuns", "record"}

\* Every chart that is named in the cache, by helm or in the options is one of Versions.
ChartNames ==
    /\ index \in (SUBSET Versions) \cup {Truncated}
    /\ \A i \in DOMAIN stores : stores[i] \subseteq Versions
    /\ \A t \in Requests : chart[t].names \subseteq Versions
    /\ version \in Versions \cup {NoVersion} /\ release \in Versions \cup {NoVersion}
    /\ \A t \in Requests : pc[t] \in Pulling => Wanted(t) \in Versions

\* With the invariant of the cache that is inductive.
NamesInv == CacheInv /\ ChartNames

\* A store that is made has the names of index.json, ...
LEMMA NewStoreNames ==
    ASSUME CacheInv, ChartNames, index # Truncated, stores' = Append(stores, index)
    PROVE  \A i \in DOMAIN stores' : stores'[i] \subseteq Versions
<1>1. index \subseteq Versions /\ index \in SUBSET Names /\ stores \in Seq(SUBSET Names)
  BY DEF ChartNames, CacheInv, CacheTypes
<1>2. \A i \in DOMAIN stores' : stores'[i] = index \/ (i \in DOMAIN stores /\ stores'[i] = stores[i])
  BY <1>1
<1> QED
  BY <1>1, <1>2 DEF ChartNames

\* ... and one that is there gets the name of a chart.
LEMMA AddedNames ==
    ASSUME CacheInv, ChartNames, NEW t \in Requests, AddReference(t)
    PROVE  \A i \in DOMAIN stores' : stores'[i] \subseteq Versions
<1>1. Wanted(t) \in Versions /\ stores \in Seq(SUBSET Names)
  BY DEF AddReference, ChartNames, CacheInv, CacheTypes, Pulling, Working
<1> QED
  BY <1>1 DEF AddReference, ChartNames

\* The steps of the cache name charts of Versions only.
LEMMA CacheStepNames ==
    ASSUME CacheInv, ChartNames, NEW t \in Requests, CacheStep(t)
    PROVE  /\ pc[t] \in Pulling
           /\ index' \in (SUBSET Versions) \cup {Truncated}
           /\ \A i \in DOMAIN stores' : stores'[i] \subseteq Versions
           /\ \A u \in Requests : chart'[u].names \subseteq Versions
<1> USE DEF diskVars, Pulling, Working
<1>0. chart \in [Requests -> Charts] /\ ociStore \in 0 .. Len(stores) /\ Len(stores) \in Nat
  BY DEF CacheInv, CacheTypes
<1>1. ASSUME /\ pc[t] \in Pulling /\ UNCHANGED <<index, stores>>
             /\ UNCHANGED chart \/ chart' = [chart EXCEPT ![t] = NoChart]
      PROVE  /\ \A i \in DOMAIN stores' : stores'[i] \subseteq Versions
             /\ \A u \in Requests : chart'[u].names \subseteq Versions
  <2>1. \A u \in Requests : chart'[u].names \in {chart[u].names, {}}
    BY <1>0, <1>1 DEF NoChart
  <2> QED
    BY <1>1, <2>1 DEF ChartNames
<1>2. CASE PullChart(t) \/ CacheIsInit(t) \/ SetStore(t) \/ Pull(t)
  <2>1. /\ pc[t] \in {"pull", "init", "assign", "oras"} /\ UNCHANGED <<index, stores>>
        /\ UNCHANGED chart \/ chart' = [chart EXCEPT ![t] = NoChart]
    BY <1>2 DEF PullChart, CacheIsInit, SetStore, Pull, Fails, cacheVars
  <2> QED
    BY <1>1, <2>1 DEF ChartNames
<1>3. CASE NewOCIStore(t)
  <2>1. pc[t] = "init" /\ UNCHANGED index
    BY <1>3 DEF NewOCIStore
  <2>2. \A i \in DOMAIN stores' : stores'[i] \subseteq Versions
    <3>1. \/ UNCHANGED stores
          \/ index # Truncated /\ stores' = Append(stores, index)
      BY <1>3 DEF NewOCIStore
    <3> QED
      BY <3>1, NewStoreNames DEF ChartNames
  <2>3. \A u \in Requests : chart'[u].names \in {chart[u].names, {}}
    BY <1>0, <1>3 DEF NewOCIStore, Fails, NoChart, Charts
  <2> QED
    BY <2>1, <2>2, <2>3 DEF ChartNames
<1>4. CASE FetchReference(t)
  <2>1. pc[t] = "fetch" /\ UNCHANGED <<index, stores>>
    BY <1>4 DEF FetchReference
  <2>2. \/ UNCHANGED chart \/ chart' = [chart EXCEPT ![t] = NoChart]
        \/ chart' = [chart EXCEPT ![t].phase = "load"]
    BY <1>4 DEF FetchReference, PullChartToCache, LoadChart, Fails
  <2>3. CASE chart' = [chart EXCEPT ![t].phase = "load"]
    <3>1. \A u \in Requests : chart'[u].names = chart[u].names
      BY <1>0, <2>3 DEF Charts
    <3> QED
      BY <2>1, <3>1 DEF ChartNames
  <2> QED
    BY <1>1, <2>1, <2>2, <2>3 DEF ChartNames
<1>5. CASE AddReference(t)
  <2>1. pc[t] = "add" /\ UNCHANGED <<index, chart>>
    BY <1>5 DEF AddReference
  <2>2. \A i \in DOMAIN stores' : stores'[i] \subseteq Versions
    BY <1>5, AddedNames
  <2> QED
    BY <2>1, <2>2 DEF ChartNames
<1>6. CASE SaveIndex(t)
  <2>1. pc[t] = "save" /\ UNCHANGED <<index, stores>> /\ ociStore \in DOMAIN stores
    BY <1>6 DEF SaveIndex, CacheInv, CacheTypes, CachePlaces
  <2>2. \A u \in Requests : chart'[u].names \in {chart[u].names, stores[ociStore]}
    BY <1>0, <1>6 DEF SaveIndex, Charts
  <2> QED
    BY <2>1, <2>2 DEF ChartNames
<1>7. CASE TruncateIndex(t)
  BY <1>7 DEF TruncateIndex, ChartNames
<1>8. CASE WriteIndex(t)
  <2>1. pc[t] = "write" /\ UNCHANGED stores /\ index' \in {index, chart[t].names}
    BY <1>8 DEF WriteIndex
  <2>2. \A u \in Requests : chart'[u].names \in {chart[u].names, {}}
    BY <1>0, <1>8 DEF WriteIndex, Fails, NoChart, Charts
  <2> QED
    BY <2>1, <2>2 DEF ChartNames
<1> QED
  BY <1>2, <1>3, <1>4, <1>5, <1>6, <1>7, <1>8 DEF CacheStep

\* Goroutine t goes on; what is named elsewhere is of Versions.
LEMMA MovedNames ==
    ASSUME NamesInv, NEW t \in Requests, Moved(t),
           pc'[t] \in Pulling => Wanted(t) \in Versions,
           index' \in (SUBSET Versions) \cup {Truncated},
           \A i \in DOMAIN stores' : stores'[i] \subseteq Versions,
           \A u \in Requests : chart'[u].names \subseteq Versions,
           version' \in Versions \cup {NoVersion}, release' \in Versions \cup {NoVersion}
    PROVE  ChartNames'
<1>1. /\ \A u \in Requests : u # t => pc'[u] = pc[u] /\ Wanted(u)' = Wanted(u)
      /\ pc'[t] # "idle" => Wanted(t)' = Wanted(t)
  BY MovedFacts DEF NamesInv, CacheInv
<1>2. ASSUME NEW u \in Requests, pc'[u] \in Pulling PROVE Wanted(u)' \in Versions
  <2>1. pc'[u] # "idle"
    BY <1>2 DEF Pulling, Working
  <2> QED
    BY <1>1, <1>2, <2>1 DEF NamesInv, ChartNames
<1> QED
  BY <1>2 DEF ChartNames
=============================================================================
