----------------------------- MODULE ChartCache -----------------------------
(***************************************************************************)
(* The chart cache of the helm registry client (pkg/helm3/registry), as    *)
(* the installation of litmus uses it: PullChartToCache and LoadChart, by  *)
(* goroutines that share one Cache without a lock.                         *)
(*                                                                         *)
(* On disk there are the blobs, and index.json with the names of the       *)
(* charts.  In memory there is the OCIStore of oras, external, with its    *)
(* copy of the names; init makes it at the first use, and two first uses   *)
(* may make one each.  A chart is named by its version; each name stands   *)
(* for one image of the registry, of the kind Kind says.                   *)
(***************************************************************************)
EXTENDS WebRequest, FiniteSets, Sequences

CONSTANTS
    Versions,   \* the charts that can be asked for
    Kind,       \* Kind[v]: what the registry has for version v
    Truncated   \* index.json after O_TRUNC: the decoder fails on it

Kinds == {"application", "library", "layers", "missing", "tagless"}

ASSUME KindAssumption == Kind \in [Versions -> Kinds]

\* The blobs of an image; the config and the content layer are alike.
Parts == {"manifest", "layer"}
Blobs(v) == {v} \X Parts

VARIABLES
    blobs,      \* the blobs on disk
    index,      \* the names in index.json, or Truncated
    stores,     \* the OCIStores made by this process: the names each of them has
    ociStore,   \* cache.ociStore, 0 standing for nil
    chart       \* chart[t]: the names goroutine t is about to write, its own store

cacheVars == <<blobs, index, stores, ociStore, chart>>
diskVars  == <<blobs, index>>

NoChart == [names |-> {}, store |-> 0, phase |-> "pull"]

CacheInit ==
    /\ blobs = {} /\ index = {}
    /\ stores = <<>> /\ ociStore = 0
    /\ chart = [t \in Requests |-> NoChart]

\* The goroutine leaves the cache with an error.
Fails(t) ==
    /\ GoTo(t, "idle")
    /\ chart' = [chart EXCEPT ![t] = NoChart]

\* The version that goroutine t installs.
Wanted(t) == req[t].version

\* Helm.PullChart: ParseReference, and PullChartToCache up to its tag.
PullChart(t) ==
    /\ pc[t] = "pull"
    /\ IF Kind[Wanted(t)] = "tagless" THEN Fails(t) ELSE GoTo(t, "init") /\ UNCHANGED chart
    /\ UNCHANGED <<diskVars, stores, ociStore>>

\* Cache.init: a store is there, or NewOCIStore has to make one from index.json.
CacheIsInit(t) ==
    /\ pc[t] = "init"
    /\ ociStore # 0
    /\ GoTo(t, "fetch")
    /\ UNCHANGED <<cacheVars>>

NewOCIStore(t) ==
    /\ pc[t] = "init"
    /\ ociStore = 0
    /\ IF index = Truncated
       THEN Fails(t) /\ UNCHANGED stores
       ELSE /\ stores' = Append(stores, index)
            /\ chart' = [chart EXCEPT ![t].store = Len(stores) + 1]
            /\ GoTo(t, "assign")
    /\ UNCHANGED <<diskVars, ociStore>>

\* ... and assigns it, over the one that another goroutine made meanwhile.
SetStore(t) ==
    /\ pc[t] = "assign"
    /\ ociStore' = chart[t].store
    /\ GoTo(t, "fetch")
    /\ UNCHANGED <<diskVars, stores, chart>>

\* FetchReference on a name that is listed: the manifest has one layer, and the
\* blobs are there.
Readable(v) == Kind[v] # "layers" /\ Blobs(v) \subseteq blobs

\* PullChartToCache on a reference it fetched, before the pull and after it.
PullChartToCache(t, exists) ==
    \/ chart[t].phase = "pull" /\ GoTo(t, "oras") /\ UNCHANGED chart
    \/ chart[t].phase = "pulled" /\ exists /\ Waits
       /\ chart' = [chart EXCEPT ![t].phase = "load"]

\* LoadChart on a reference it fetched.
LoadChart(t, exists) ==
    chart[t].phase = "load" /\ exists /\ GoTo(t, "helm") /\ UNCHANGED chart

\* FetchReference, and its caller on the result; a reference that is listed and
\* cannot be read is an error, and after the pull one that is not listed is.
FetchReference(t) ==
    LET exists == Wanted(t) \in stores[ociStore] IN
    /\ pc[t] = "fetch"
    /\ IF exists => Readable(Wanted(t))
       THEN \/ PullChartToCache(t, exists)
            \/ LoadChart(t, exists)
            \/ chart[t].phase # "pull" /\ ~exists /\ Fails(t)
       ELSE Fails(t)
    /\ UNCHANGED <<diskVars, stores, ociStore>>

\* Mutated: an error of oras.Pull is not looked at.
Pull_ErrorIgnored(t) ==
    /\ pc[t] = "oras"
    /\ \E part \in SUBSET Blobs(Wanted(t)) : blobs' = blobs \cup part
    /\ GoTo(t, "add")
    /\ UNCHANGED <<index, stores, ociStore, chart>>

\* oras.Pull, external: on success the blobs are on disk, otherwise some of them.
Pull(t) ==
    LET v == Wanted(t) IN
    /\ pc[t] = "oras"
    /\ \/ /\ Kind[v] # "missing"
          /\ blobs' = blobs \cup Blobs(v)
          /\ GoTo(t, "add") /\ UNCHANGED chart
       \/ /\ \E part \in SUBSET Blobs(v) : blobs' = blobs \cup part
          /\ Fails(t)
    /\ UNCHANGED <<index, stores, ociStore>>

\* Mutated: AddManifest writes the name to index.json only.
AddReference_FileOnly(t) ==
    /\ pc[t] = "add"
    /\ chart' = [chart EXCEPT ![t].names = stores[ociStore] \cup {Wanted(t)}]
    /\ GoTo(t, "truncate")
    /\ UNCHANGED <<diskVars, stores, ociStore>>

\* AddManifest: AddReference on the store that is there now ...
AddReference(t) ==
    /\ pc[t] = "add"
    /\ stores' = [stores EXCEPT ![ociStore] = @ \cup {Wanted(t)}]
    /\ GoTo(t, "save")
    /\ UNCHANGED <<diskVars, ociStore, chart>>

\* ... and SaveIndex, again on the store that is there now: all its names, ...
SaveIndex(t) ==
    /\ pc[t] = "save"
    /\ chart' = [chart EXCEPT ![t].names = stores[ociStore]]
    /\ GoTo(t, "truncate")
    /\ UNCHANGED <<diskVars, stores, ociStore>>

\* ... which WriteFile writes over the old file.  The decoder reads the first value
\* of a file, so of two writers that overlap the last one counts.
TruncateIndex(t) ==
    /\ pc[t] = "truncate"
    /\ index' = Truncated
    /\ GoTo(t, "write")
    /\ UNCHANGED <<blobs, stores, ociStore, chart>>

WriteIndex(t) ==
    /\ pc[t] = "write"
    /\ \/ /\ index' = chart[t].names
          /\ chart' = [chart EXCEPT ![t].phase = "pulled", ![t].names = {}]
          /\ GoTo(t, "fetch")
       \/ Fails(t) /\ UNCHANGED index
    /\ UNCHANGED <<blobs, stores, ociStore>>

CacheStep(t) ==
    \/ PullChart(t) \/ CacheIsInit(t) \/ NewOCIStore(t) \/ SetStore(t) \/ FetchReference(t)
    \/ Pull(t) \/ AddReference(t) \/ SaveIndex(t) \/ TruncateIndex(t) \/ WriteIndex(t)

\* The process ends: what is on disk stays.
CacheCrash ==
    /\ stores' = <<>> /\ ociStore' = 0
    /\ chart' = [t \in Requests |-> NoChart]
    /\ UNCHANGED diskVars

-----------------------------------------------------------------------------
(* Properties.                                                             *)

\* Blobs come before names: whatever a crash or an overlapping installation leaves
\* behind, each name in index.json, in a store or on its way to index.json has all
\* its blobs on disk (PullChartToCache calls AddManifest after oras.Pull).
IndexIsBacked ==
    LET names == UNION ({IF index = Truncated THEN {} ELSE index}
                        \cup {stores[i] : i \in DOMAIN stores}
                        \cup {chart[t].names : t \in Requests})
    IN \A v \in names : Blobs(v) \subseteq blobs

\* A chart that was pulled is found again by the LoadChart that follows, unless
\* two first uses of the cache made a store each (Cache.init takes no lock).
PulledIsFound ==
    Len(stores) = 1 =>
        \A t \in Requests :
            pc[t] = "fetch" /\ chart[t].phase # "pull" => Wanted(t) \in stores[ociStore]
=============================================================================
