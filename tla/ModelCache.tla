----------------------------- MODULE ModelCache -----------------------------
(***************************************************************************)
(* EmbeddingModelCache: loaded models of one worker process, kept in LRU   *)
(* order, with one shared load per key and a close() that cancels loads    *)
(* and releases what is retained.  asyncio runs the code between two       *)
(* awaits without interruption; each action is such a stretch.             *)
(***************************************************************************)
EXTENDS Naturals, FiniteSets, SequencesExt

CONSTANTS
    ModelKeys,       \* cache keys
    CacheCallers,    \* coroutines that call get_or_load
    MaxEntries,      \* ModelCacheConfig.max_entries
    MaxLoads,        \* bound: loads that are started
    MaxCloseErrors   \* bound: exceptions of loader.close

VARIABLES
    values,     \* _values: models in LRU order, the least recently used first
    inflight,   \* _inflight: the load task of each key
    released,   \* how often each model was handed to loader.close
    retained,   \* models close() took out of _values and has yet to close
    lifecycle,  \* "open", "gathering", "closing" or "closed"
    awaiting,   \* per caller: the key whose task it awaits
    started,    \* loads started so far
    closeErrors

cacheVars == <<values, inflight, released, retained, lifecycle, awaiting, started, closeErrors>>

Model    == [key : ModelKeys, load : 1..MaxLoads]
NoTask   == [at |-> "none", load |-> 0]
Nobody   == "nobody"
LoadsIn(models) == {models[i].load : i \in 1..Len(models)}
KeysIn(models)  == {models[i].key : i \in 1..Len(models)}
Cached   == KeysIn(values)

Init ==
    /\ values = <<>> /\ retained = <<>>
    /\ inflight = [k \in ModelKeys |-> NoTask]
    /\ released = [n \in 1..MaxLoads |-> 0]
    /\ lifecycle = "open"
    /\ awaiting = [c \in CacheCallers |-> Nobody]
    /\ started = 0 /\ closeErrors = 0

-----------------------------------------------------------------------------
Hit(c, k) ==
    /\ lifecycle = "open" /\ awaiting[c] = Nobody
    /\ \E i \in 1..Len(values) : values[i].key = k /\ values' = Append(RemoveAt(values, i), values[i])
    /\ UNCHANGED <<inflight, released, retained, lifecycle, awaiting, started, closeErrors>>

Miss(c, k) ==
    /\ lifecycle = "open" /\ awaiting[c] = Nobody /\ k \notin Cached
    /\ \/ inflight[k] # NoTask /\ UNCHANGED <<inflight, started>>
       \/ /\ inflight[k] = NoTask /\ started < MaxLoads
          /\ started' = started + 1
          /\ inflight' = [inflight EXCEPT ![k] = [at |-> "loading", load |-> started + 1]]
    /\ awaiting' = [awaiting EXCEPT ![c] = k]
    /\ UNCHANGED <<values, released, retained, lifecycle, closeErrors>>

(* The caller is cancelled; shield keeps the load for the others. *)
Leave(c) ==
    /\ awaiting[c] # Nobody
    /\ awaiting' = [awaiting EXCEPT ![c] = Nobody]
    /\ UNCHANGED <<values, inflight, released, retained, lifecycle, started, closeErrors>>

TaskTo(k, label) == inflight' = [inflight EXCEPT ![k].at = label]
Release(m)       == released' = [released EXCEPT ![m.load] = @ + 1]

(* Mutant: the new model is evicted, not the least recently used one. *)
TrimNewest(k, models) ==
    IF Len(models) > MaxEntries
    THEN values' = Tail(models) /\ Release(models[Len(models)]) /\ TaskTo(k, "evicting")
    ELSE values' = models /\ UNCHANGED released /\ TaskTo(k, "ended")

(* While the cache is too large, pop the oldest and await its close. *)
Trim(k, models) ==
    IF Len(models) > MaxEntries
    THEN values' = Tail(models) /\ Release(Head(models)) /\ TaskTo(k, "evicting")
    ELSE values' = models /\ UNCHANGED released /\ TaskTo(k, "ended")

LoadReturns(k) ==
    /\ inflight[k].at = "loading"
    /\ LET m == [key |-> k, load |-> inflight[k].load] IN
       IF lifecycle = "open"
       THEN Trim(k, Append(values, m))
       ELSE Release(m) /\ TaskTo(k, "discarding") /\ UNCHANGED values
    /\ UNCHANGED <<retained, lifecycle, awaiting, started, closeErrors>>

(* Mutant: whoever awaits the failed load is not told. *)
LoadFailsSilently(k) ==
    /\ inflight[k].at = "loading" /\ inflight' = [inflight EXCEPT ![k] = NoTask]
    /\ UNCHANGED <<values, released, retained, lifecycle, awaiting, started, closeErrors>>

(* load raises, returns None, or is cancelled by close(). *)
LoadFails(k) ==
    /\ inflight[k].at = "loading" /\ TaskTo(k, "ended")
    /\ UNCHANGED <<values, released, retained, lifecycle, awaiting, started, closeErrors>>

CloseReturns(k) ==
    /\ \/ inflight[k].at = "evicting" /\ Trim(k, values)
       \/ inflight[k].at = "discarding" /\ TaskTo(k, "ended") /\ UNCHANGED <<values, released>>
    /\ UNCHANGED <<retained, lifecycle, awaiting, started, closeErrors>>

(* Mutant: the load that is reported as failed leaves the cache. *)
CloseFailsForgets(k) ==
    /\ inflight[k].at \in {"evicting", "discarding"} /\ TaskTo(k, "ended")
    /\ \/ closeErrors < MaxCloseErrors /\ closeErrors' = closeErrors + 1
       \/ lifecycle = "gathering" /\ UNCHANGED closeErrors
    /\ values' = SelectSeq(values, LAMBDA m : m.key # k)
    /\ UNCHANGED <<released, retained, lifecycle, awaiting, started>>

(* loader.close raises or is cancelled by close(): the load is reported as *)
(* failed although its model is cached.                                    *)
CloseFails(k) ==
    /\ inflight[k].at \in {"evicting", "discarding"} /\ TaskTo(k, "ended")
    /\ \/ closeErrors < MaxCloseErrors /\ closeErrors' = closeErrors + 1
       \/ lifecycle = "gathering" /\ UNCHANGED closeErrors
    /\ UNCHANGED <<values, released, retained, lifecycle, awaiting, started>>

(* _on_load_done, and the result reaches everybody who awaits the task. *)
LoadDone(k) ==
    /\ inflight[k].at = "ended"
    /\ inflight' = [inflight EXCEPT ![k] = NoTask]
    /\ awaiting' = [c \in CacheCallers |-> IF awaiting[c] = k THEN Nobody ELSE awaiting[c]]
    /\ UNCHANGED <<values, released, retained, lifecycle, started, closeErrors>>

-----------------------------------------------------------------------------
Shutdown ==
    /\ lifecycle = "open" /\ lifecycle' = "gathering"
    /\ UNCHANGED <<values, inflight, released, retained, awaiting, started, closeErrors>>

(* Mutant: what is retained is taken before the loads have ended. *)
GatheredEarly ==
    /\ lifecycle = "gathering"
    /\ lifecycle' = "closing" /\ retained' = values /\ values' = <<>>
    /\ UNCHANGED <<inflight, released, awaiting, started, closeErrors>>

(* All tasks have ended: nobody can put a model into the cache any more. *)
Gathered ==
    /\ lifecycle = "gathering" /\ \A k \in ModelKeys : inflight[k].at \in {"none", "ended"}
    /\ lifecycle' = "closing" /\ retained' = values /\ values' = <<>>
    /\ UNCHANGED <<inflight, released, awaiting, started, closeErrors>>

(* An exception of loader.close is kept for the end; the loop goes on. *)
CloseRetained ==
    /\ lifecycle = "closing"
    /\ IF retained = <<>>
       THEN lifecycle' = "closed" /\ UNCHANGED <<released, retained>>
       ELSE Release(Head(retained)) /\ retained' = Tail(retained) /\ UNCHANGED lifecycle
    /\ UNCHANGED <<values, inflight, awaiting, started, closeErrors>>

Step(k) == LoadReturns(k) \/ LoadFails(k) \/ CloseReturns(k) \/ CloseFails(k) \/ LoadDone(k)

Next ==
    \/ \E c \in CacheCallers, k \in ModelKeys : Hit(c, k) \/ Miss(c, k)
    \/ \E c \in CacheCallers : Leave(c)
    \/ \E k \in ModelKeys : Step(k)
    \/ Shutdown \/ Gathered \/ CloseRetained

(* The loader returns or raises; asyncio runs what is ready. *)
Fairness == (\A k \in ModelKeys : WF_cacheVars(Step(k))) /\ WF_cacheVars(Gathered \/ CloseRetained)

Spec == Init /\ [][Next]_cacheVars /\ Fairness

-----------------------------------------------------------------------------
Held(n) == Cardinality({i \in 1..Len(values) : values[i].load = n})
           + Cardinality({i \in 1..Len(retained) : retained[i].load = n})

(* A model in the cache is never released, one that left it is released    *)
(* once and only once, whatever loads, failed cleanups and a shutdown      *)
(* overlap; keys are unique and the limit holds at every await.            *)
ModelsAccounted ==
    /\ \A n \in 1..MaxLoads : Held(n) + released[n] <= 1
    /\ \A i, j \in 1..Len(values) : values[i].key = values[j].key => i = j
    /\ Len(values) <= MaxEntries
    /\ lifecycle \in {"closing", "closed"} => \A k \in ModelKeys : inflight[k].at \in {"none", "ended"}
    /\ lifecycle = "closed" => values = <<>> /\ retained = <<>>

(* Once a load has put a model into the cache, the model stays until it is *)
(* released: no failed cleanup of another model and no shutdown loses it.  *)
NoModelLost ==
    [][\A n \in 1..MaxLoads : Held(n) = 1 => Held(n)' = 1 \/ released'[n] = 1]_cacheVars

(* The inductive strengthening: no load and no key occurs twice, the       *)
(* shutdown moves all models over at once, and a load that is still        *)
(* running is of a model nobody has seen and of a key that is not cached.  *)
CacheType ==
    /\ values \in Seq(Model) /\ retained \in Seq(Model)
    /\ inflight \in [ModelKeys -> [at : {"none", "loading", "evicting", "discarding", "ended"}, load : 0..MaxLoads]]
    /\ released \in [1..MaxLoads -> Nat]
    /\ lifecycle \in {"open", "gathering", "closing", "closed"}
    /\ started \in 0..MaxLoads

Distinct(models) ==
    \A i, j \in 1..Len(models) :
      models[i].load = models[j].load \/ models[i].key = models[j].key => i = j

Kept == LoadsIn(values) \cup LoadsIn(retained)

Stages ==
    IF lifecycle \in {"open", "gathering"} THEN retained = <<>>
    ELSE /\ values = <<>> /\ \A k \in ModelKeys : inflight[k].at \in {"none", "ended"}
         /\ lifecycle = "closed" => retained = <<>>

LoadsInv ==
    /\ Kept \subseteq 1..started
    /\ \A n \in 1..MaxLoads : released[n] > 0 => released[n] = 1 /\ n \in 1..started \ Kept
    /\ \A k \in ModelKeys : inflight[k].at = "loading" =>
         LET n == inflight[k].load IN
         /\ n \in 1..started \ Kept /\ released[n] = 0 /\ k \notin Cached
         /\ \A l \in ModelKeys : inflight[l].at = "loading" /\ inflight[l].load = n => l = k

CacheInv ==
    /\ CacheType /\ Stages /\ LoadsInv
    /\ Distinct(values) /\ Distinct(retained) /\ Len(values) <= MaxEntries

(* A shutdown that has begun comes to its end, and no caller waits for     *)
(* ever for a load.                                                        *)
CacheCallsEnd ==
    /\ lifecycle # "open" ~> lifecycle = "closed"
    /\ \A c \in CacheCallers : awaiting[c] # Nobody ~> awaiting[c] = Nobody
=============================================================================
