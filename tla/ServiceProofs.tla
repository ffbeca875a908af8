---------------------------- MODULE ServiceProofs ----------------------------
(***************************************************************************)
(* The services that share no state: the model cache accounts for every    *)
(* model, an upload is answered truthfully (Intake), a client has one      *)
(* quota (RateLimiter), the audit records of a page chain and a walk of    *)
(* the whole listing misses no page (WikiReview).                          *)
(***************************************************************************)
EXTENDS MCServices, FiniteSetTheorems, SequenceTheorems, TLAPS

-----------------------------------------------------------------------------
(* What the operations on the LRU sequence do to its loads and keys. *)

LEMMA AddModel ==
    ASSUME NEW s \in Seq(Cache!Model), Cache!Distinct(s), NEW m \in Cache!Model,
           m.load \notin Cache!LoadsIn(s), m.key \notin Cache!KeysIn(s)
    PROVE  /\ Append(s, m) \in Seq(Cache!Model) /\ Len(Append(s, m)) = Len(s) + 1
           /\ Cache!Distinct(Append(s, m))
           /\ Cache!LoadsIn(Append(s, m)) = Cache!LoadsIn(s) \cup {m.load}
           /\ Cache!KeysIn(Append(s, m)) = Cache!KeysIn(s) \cup {m.key}
<1> DEFINE t == Append(s, m)
<1>1. /\ t \in Seq(Cache!Model) /\ Len(t) = Len(s) + 1 /\ Len(s) \in Nat
      /\ t[Len(s) + 1] = m /\ \A i \in 1..Len(s) : t[i] = s[i]
    OBVIOUS
<1> HIDE DEF t
<1>2. 1..Len(t) = 1..Len(s) \cup {Len(s) + 1}
    BY <1>1
<1>3. Cache!LoadsIn(t) = Cache!LoadsIn(s) \cup {m.load} /\ Cache!KeysIn(t) = Cache!KeysIn(s) \cup {m.key}
    BY <1>1, <1>2 DEF Cache!LoadsIn, Cache!KeysIn
<1>4. ASSUME NEW i \in 1..Len(t), NEW j \in 1..Len(t), t[i].load = t[j].load \/ t[i].key = t[j].key
      PROVE  i = j
  <2>1. \A l \in 1..Len(s) : s[l].load # m.load /\ s[l].key # m.key
      BY DEF Cache!LoadsIn, Cache!KeysIn
  <2> QED BY <1>1, <1>2, <1>4, <2>1 DEF Cache!Distinct
<1> QED BY <1>1, <1>3, <1>4 DEF Cache!Distinct, t

LEMMA PopModel ==
    ASSUME NEW s \in Seq(Cache!Model), Cache!Distinct(s), s # <<>>
    PROVE  /\ Head(s) \in Cache!Model /\ Tail(s) \in Seq(Cache!Model) /\ Len(Tail(s)) = Len(s) - 1
           /\ Cache!Distinct(Tail(s))
           /\ Head(s).load \in Cache!LoadsIn(s)
           /\ Cache!LoadsIn(Tail(s)) = Cache!LoadsIn(s) \ {Head(s).load}
           /\ Cache!KeysIn(Tail(s)) \subseteq Cache!KeysIn(s)
<1> DEFINE t == Tail(s)
<1>1. /\ Head(s) = s[1] /\ s[1] \in Cache!Model /\ 1 \in 1..Len(s) /\ Len(s) \in Nat
      /\ t \in Seq(Cache!Model) /\ Len(t) = Len(s) - 1
      /\ \A i \in 1..Len(t) : t[i] = s[i + 1]
    OBVIOUS
<1> HIDE DEF t
<1>2. \A i \in 1..Len(t) : i + 1 \in 1..Len(s) /\ i + 1 # 1
    BY <1>1
<1>3. \A i \in 1..Len(s) : i = 1 \/ (i - 1 \in 1..Len(t) /\ (i - 1) + 1 = i)
    BY <1>1
<1>4. Cache!LoadsIn(t) \subseteq Cache!LoadsIn(s) \ {s[1].load} /\ Cache!KeysIn(t) \subseteq Cache!KeysIn(s)
    BY <1>1, <1>2 DEF Cache!LoadsIn, Cache!KeysIn, Cache!Distinct
<1>5. ASSUME NEW i \in 1..Len(s), i # 1
      PROVE  s[i].load \in Cache!LoadsIn(t)
  <2>1. i - 1 \in 1..Len(t) /\ t[i - 1] = s[i]
      BY <1>1, <1>3, <1>5
  <2> QED BY <2>1 DEF Cache!LoadsIn
<1>6. Cache!LoadsIn(s) \ {s[1].load} \subseteq Cache!LoadsIn(t)
    BY <1>5 DEF Cache!LoadsIn
<1>7. Cache!Distinct(t)
  <2>1. ASSUME NEW i \in 1..Len(t), NEW j \in 1..Len(t), t[i].load = t[j].load \/ t[i].key = t[j].key
        PROVE  i = j
    <3>1. i + 1 \in 1..Len(s) /\ j + 1 \in 1..Len(s)
        BY <1>2
    <3>2. s[i + 1].load = s[j + 1].load \/ s[i + 1].key = s[j + 1].key
        BY <1>1, <2>1
    <3>3. i + 1 = j + 1
        BY <3>1, <3>2, Zenon DEF Cache!Distinct
    <3> QED BY <3>3
  <2> QED BY <2>1 DEF Cache!Distinct
<1> QED BY <1>1, <1>4, <1>6, <1>7 DEF Cache!LoadsIn, t

LEMMA MoveModel ==
    ASSUME NEW s \in Seq(Cache!Model), Cache!Distinct(s), NEW k \in 1..Len(s),
           NEW t, t = Append(Cache!RemoveAt(s, k), s[k])
    PROVE  /\ t \in Seq(Cache!Model) /\ Len(t) = Len(s)
           /\ Cache!Distinct(t)
           /\ Cache!LoadsIn(t) = Cache!LoadsIn(s) /\ Cache!KeysIn(t) = Cache!KeysIn(s)
<1> DEFINE n == Len(s)
           before == SubSeq(s, 1, k - 1)
           after  == SubSeq(s, k + 1, n)
           rest   == before \o after
           origin == [i \in 1..n |-> IF i < k THEN i ELSE IF i < n THEN i + 1 ELSE k]
<1>1. n \in Nat /\ s[k] \in Cache!Model /\ n - 1 \in Nat /\ Len(s) = n
    OBVIOUS
<1>2. /\ before \in Seq(Cache!Model) /\ Len(before) = k - 1
      /\ \A i \in 1..k - 1 : before[i] = s[i]
    OBVIOUS
<1>3. /\ after \in Seq(Cache!Model) /\ Len(after) = n - k
      /\ \A i \in 1..n - k : after[i] = s[k + i]
    OBVIOUS
<1>4. t = Append(rest, s[k])
    BY DEF Cache!RemoveAt
<1> HIDE DEF before, after, n
<1>5. /\ rest \in Seq(Cache!Model) /\ Len(rest) = n - 1
      /\ \A i \in 1..n - 1 : rest[i] = IF i <= k - 1 THEN before[i] ELSE after[i - (k - 1)]
  <2>1. (k - 1) + (n - k) = n - 1
      BY <1>1
  <2>2. /\ rest \in Seq(Cache!Model) /\ Len(rest) = Len(before) + Len(after)
        /\ \A i \in 1..Len(before) + Len(after) :
              rest[i] = IF i <= Len(before) THEN before[i] ELSE after[i - Len(before)]
      BY <1>2, <1>3, ConcatProperties
  <2> HIDE DEF rest
  <2> QED BY <1>2, <1>3, <2>1, <2>2
<1>6. ASSUME NEW i \in 1..n - 1
      PROVE  rest[i] = s[origin[i]]
  <2>1. CASE i <= k - 1
      BY <1>1, <1>2, <1>5, <2>1
  <2>2. CASE ~(i <= k - 1)
    <3> DEFINE j == i - (k - 1)
    <3>1. j \in 1..n - k /\ k + j = i + 1 /\ origin[i] = i + 1
        BY <1>1, <2>2 DEF n
    <3>2. rest[i] = after[j]
        BY <1>5, <2>2
    <3> HIDE DEF j, origin
    <3> QED BY <1>3, <3>1, <3>2
  <2> QED BY <2>1, <2>2
<1> HIDE DEF rest
<1>7. /\ t \in Seq(Cache!Model) /\ Len(t) = n /\ t[n] = s[k]
      /\ \A i \in 1..n - 1 : t[i] = rest[i]
    BY <1>1, <1>4, <1>5
<1>8. ASSUME NEW i \in 1..n
      PROVE  t[i] = s[origin[i]] /\ origin[i] \in 1..n
  <2>1. CASE i = n
    <3>1. origin[n] = k /\ k \in 1..n
        BY <1>1 DEF n
    <3> QED BY <1>7, <2>1, <3>1
  <2>2. CASE i # n
    <3>1. i \in 1..n - 1 /\ origin[i] \in 1..n
        BY <1>1, <2>2
    <3> QED BY <1>6, <1>7, <3>1
  <2> QED BY <2>1, <2>2
<1>9. ASSUME NEW i \in 1..n, NEW j \in 1..n, origin[i] = origin[j]
      PROVE  i = j
    BY <1>1, <1>9
<1>10. ASSUME NEW i \in 1..n
       PROVE  \E j \in 1..n : origin[j] = i
  <2>1. CASE i < k
      BY <2>1
  <2>2. CASE i = k
    <3>1. n \in 1..n /\ origin[n] = k
        BY <1>1 DEF n
    <3> QED BY <2>2, <3>1
  <2>3. CASE i > k
    <3>1. i - 1 \in 1..n /\ origin[i - 1] = i
        BY <1>1, <2>3 DEF n
    <3> QED BY <3>1
  <2> QED BY <1>1, <2>1, <2>2, <2>3 DEF n
<1> HIDE DEF origin
<1>11. Cache!Distinct(t)
  <2>1. ASSUME NEW i \in 1..n, NEW j \in 1..n, t[i].load = t[j].load \/ t[i].key = t[j].key
        PROVE  i = j
    <3>1. /\ t[i] = s[origin[i]] /\ origin[i] \in 1..Len(s)
          /\ t[j] = s[origin[j]] /\ origin[j] \in 1..Len(s)
        BY <1>1, <1>8, Zenon
    <3>2. s[origin[i]].load = s[origin[j]].load \/ s[origin[i]].key = s[origin[j]].key
        BY <2>1, <3>1, Zenon
    <3>3. origin[i] = origin[j]
        BY <3>1, <3>2, Zenon DEF Cache!Distinct
    <3> QED BY <1>9, <3>3
  <2> QED BY <1>7, <2>1 DEF Cache!Distinct
<1>12. Cache!LoadsIn(t) = Cache!LoadsIn(s) /\ Cache!KeysIn(t) = Cache!KeysIn(s)
  <2>1. Cache!LoadsIn(t) \subseteq Cache!LoadsIn(s) /\ Cache!KeysIn(t) \subseteq Cache!KeysIn(s)
      BY <1>1, <1>7, <1>8 DEF Cache!LoadsIn, Cache!KeysIn
  <2>2. ASSUME NEW i \in 1..n
        PROVE  \E j \in 1..n : t[j] = s[i]
    <3>1. PICK j \in 1..n : origin[j] = i
        BY <1>10, Zenon
    <3>2. t[j] = s[origin[j]]
        BY <1>8, Zenon
    <3> QED BY <3>1, <3>2, Zenon
  <2>3. Cache!LoadsIn(s) \subseteq Cache!LoadsIn(t) /\ Cache!KeysIn(s) \subseteq Cache!KeysIn(t)
    <3>1. \A i \in 1..Len(s) : \E j \in 1..Len(t) : t[j].load = s[i].load /\ t[j].key = s[i].key
        BY <1>1, <1>7, <2>2
    <3>2. ASSUME NEW x \in Cache!LoadsIn(s)
          PROVE  x \in Cache!LoadsIn(t)
      <4>1. PICK i \in 1..Len(s) : x = s[i].load
          BY DEF Cache!LoadsIn
      <4>2. PICK j \in 1..Len(t) : t[j].load = s[i].load
          BY <3>1
      <4> QED BY <4>1, <4>2 DEF Cache!LoadsIn
    <3>3. ASSUME NEW x \in Cache!KeysIn(s)
          PROVE  x \in Cache!KeysIn(t)
      <4>1. PICK i \in 1..Len(s) : x = s[i].key
          BY DEF Cache!KeysIn
      <4>2. PICK j \in 1..Len(t) : t[j].key = s[i].key
          BY <3>1
      <4> QED BY <4>1, <4>2 DEF Cache!KeysIn
    <3> QED BY <3>2, <3>3
  <2> QED BY <2>1, <2>3
<1> QED BY <1>7, <1>11, <1>12 DEF n

(* The number of places that hold a load, in a sequence without repetition. *)
LEMMA PlacesOfLoad ==
    ASSUME NEW s \in Seq(Cache!Model), Cache!Distinct(s), NEW n
    PROVE  Cache!Cardinality({i \in 1..Len(s) : s[i].load = n}) = IF n \in Cache!LoadsIn(s) THEN 1 ELSE 0
<1> DEFINE places == {i \in 1..Len(s) : s[i].load = n}
<1>1. CASE n \in Cache!LoadsIn(s)
  <2>1. PICK i \in 1..Len(s) : s[i].load = n
      BY <1>1 DEF Cache!LoadsIn
  <2>2. places = {i}
      BY <2>1 DEF Cache!Distinct
  <2>3. Cardinality({i}) = 1
      BY FS_Singleton
  <2> HIDE DEF places
  <2>4. Cache!Cardinality(places) = 1
      BY <2>2, <2>3 DEF Cache!Cardinality, Cardinality
  <2> QED BY <1>1, <2>4 DEF places
<1>2. CASE n \notin Cache!LoadsIn(s)
  <2>1. places = {}
      BY <1>2 DEF Cache!LoadsIn
  <2> QED BY <1>2, <2>1, FS_EmptySet DEF Cache!Cardinality, Cardinality
<1> QED BY <1>1, <1>2

-----------------------------------------------------------------------------
(* A model that is kept stays kept until it is released. *)
KeptStays == \A n \in Cache!Kept : n \in Cache!Kept' \/ released'[n] = 1

TaskLabels == {"none", "loading", "evicting", "discarding", "ended"}
Tasks  == [at : TaskLabels, load : 0..MaxLoads]

LEMMA CacheInit == Cache!Init => Cache!CacheInv
<1> SUFFICES ASSUME Cache!Init PROVE Cache!CacheInv
    OBVIOUS
<1> USE DEF Cache!Init
<1>1. Len(values) = 0 /\ Len(retained) = 0 /\ 1..0 = {}
    OBVIOUS
<1>2. Cache!Kept = {} /\ Cache!Cached = {}
    BY <1>1 DEF Cache!Kept, Cache!LoadsIn, Cache!Cached, Cache!KeysIn
<1>3. Cache!CacheType
    BY CacheAssumption DEF Cache!CacheType, Cache!NoTask
<1>4. Cache!Stages
    BY DEF Cache!Stages
<1>5. Cache!LoadsInv
    BY <1>2 DEF Cache!LoadsInv, Cache!NoTask
<1>6. Cache!Distinct(values) /\ Cache!Distinct(retained) /\ Len(values) <= MaxEntries
    BY <1>1, CacheAssumption DEF Cache!Distinct
<1> QED BY <1>3, <1>4, <1>5, <1>6 DEF Cache!CacheInv

LEMMA NothingKept == Cache!LoadsIn(<<>>) = {} /\ Cache!KeysIn(<<>>) = {} /\ Cache!Distinct(<<>>)
<1>1. Len(<<>>) = 0 /\ 1..0 = {}
    OBVIOUS
<1> QED BY <1>1 DEF Cache!LoadsIn, Cache!KeysIn, Cache!Distinct

LEMMA TaskMoves ==
    ASSUME Cache!CacheType, NEW k \in ModelKeys, NEW label \in TaskLabels, Cache!TaskTo(k, label)
    PROVE  /\ inflight' \in [ModelKeys -> Tasks]
           /\ inflight'[k].at = label
           /\ \A l \in ModelKeys \ {k} : inflight'[l] = inflight[l]
<1>1. inflight \in [ModelKeys -> Tasks]
    BY DEF Cache!CacheType, Tasks, TaskLabels
<1>2. inflight[k] \in Tasks
    BY <1>1
<1>3. [inflight[k] EXCEPT !.at = label] \in Tasks /\ [inflight[k] EXCEPT !.at = label].at = label
    BY <1>2 DEF Tasks
<1>4. inflight' = [inflight EXCEPT ![k] = [inflight[k] EXCEPT !.at = label]]
    BY DEF Cache!TaskTo
<1> QED BY <1>1, <1>3, <1>4

LEMMA ModelReleased ==
    ASSUME Cache!CacheType, NEW m \in Cache!Model, Cache!Release(m)
    PROVE  /\ released' \in [1..MaxLoads -> Nat] /\ m.load \in 1..MaxLoads
           /\ released'[m.load] = released[m.load] + 1
           /\ \A n \in 1..MaxLoads \ {m.load} : released'[n] = released[n]
<1>1. m.load \in 1..MaxLoads /\ released \in [1..MaxLoads -> Nat]
    BY DEF Cache!Model, Cache!CacheType
<1> QED BY <1>1 DEF Cache!Release

(* A task that ends or goes on to close a model changes nothing else. *)
LEMMA TaskEnds ==
    ASSUME Cache!CacheInv, inflight' \in [ModelKeys -> Tasks],
           \A l \in ModelKeys : inflight'[l].at = "loading" => inflight'[l] = inflight[l],
           \A l \in ModelKeys : inflight[l].at \in {"none", "ended"} => inflight'[l].at \in {"none", "ended"},
           UNCHANGED <<values, released, retained, lifecycle, started>>
    PROVE  Cache!CacheInv' /\ KeptStays
<1>1. Cache!Kept' = Cache!Kept /\ Cache!Cached' = Cache!Cached
    BY DEF Cache!Kept, Cache!Cached
<1>2. Cache!CacheType'
    BY DEF Cache!CacheInv, Cache!CacheType, Tasks, TaskLabels
<1>3. Cache!Stages'
    BY DEF Cache!CacheInv, Cache!Stages
<1>4. Cache!LoadsInv'
    BY <1>1 DEF Cache!CacheInv, Cache!LoadsInv
<1> QED BY <1>1, <1>2, <1>3, <1>4 DEF Cache!CacheInv, KeptStays

LEMMA HitStep ==
    ASSUME Cache!CacheInv, NEW c, NEW k, Cache!Hit(c, k)
    PROVE  Cache!CacheInv' /\ KeptStays
<1>1. PICK i \in 1..Len(values) : values' = Append(Cache!RemoveAt(values, i), values[i])
    BY DEF Cache!Hit
<1>2. /\ lifecycle = "open" /\ UNCHANGED <<inflight, released, retained, lifecycle, started>>
    BY DEF Cache!Hit
<1>3. values \in Seq(Cache!Model) /\ Cache!Distinct(values)
    BY DEF Cache!CacheInv, Cache!CacheType
<1>4. /\ values' \in Seq(Cache!Model) /\ Len(values') = Len(values)
      /\ Cache!Distinct(values')
      /\ Cache!LoadsIn(values') = Cache!LoadsIn(values) /\ Cache!KeysIn(values') = Cache!KeysIn(values)
    BY <1>1, <1>3, MoveModel
<1>5. Cache!Kept' = Cache!Kept /\ Cache!Cached' = Cache!Cached
    BY <1>2, <1>4 DEF Cache!Kept, Cache!Cached, Cache!LoadsIn, Cache!KeysIn
<1>6. Cache!CacheType' /\ Cache!Stages'
    BY <1>2, <1>4 DEF Cache!CacheInv, Cache!CacheType, Cache!Stages
<1>7. Cache!LoadsInv'
    BY <1>2, <1>5 DEF Cache!CacheInv, Cache!LoadsInv
<1>8. (Cache!Distinct(values))' /\ (Cache!Distinct(retained))' /\ Len(values') <= MaxEntries
    BY <1>2, <1>4 DEF Cache!CacheInv, Cache!Distinct
<1> QED BY <1>5, <1>6, <1>7, <1>8 DEF Cache!CacheInv, KeptStays

LEMMA MissStep ==
    ASSUME Cache!CacheInv, NEW c, NEW k \in ModelKeys, Cache!Miss(c, k)
    PROVE  Cache!CacheInv' /\ KeptStays
<1>1. /\ lifecycle = "open" /\ k \notin Cache!Cached
      /\ UNCHANGED <<values, released, retained, lifecycle>>
      /\ \/ UNCHANGED <<inflight, started>>
         \/ /\ inflight[k] = Cache!NoTask /\ started < MaxLoads
            /\ started' = started + 1
            /\ inflight' = [inflight EXCEPT ![k] = [at |-> "loading", load |-> started + 1]]
    BY DEF Cache!Miss
<1>2. Cache!CacheType /\ Cache!Stages /\ Cache!LoadsInv
    BY DEF Cache!CacheInv
<1>3. Cache!Kept' = Cache!Kept /\ Cache!Cached' = Cache!Cached
    BY <1>1 DEF Cache!Kept, Cache!Cached
<1>4. KeptStays
    BY <1>3 DEF KeptStays
<1>5. CASE UNCHANGED <<inflight, started>>
  <2>1. inflight' \in [ModelKeys -> Tasks]
      BY <1>2, <1>5 DEF Cache!CacheType, Tasks, TaskLabels
  <2> QED BY <1>1, <1>5, <2>1, TaskEnds
<1>6. CASE /\ inflight[k] = Cache!NoTask /\ started < MaxLoads
           /\ started' = started + 1
           /\ inflight' = [inflight EXCEPT ![k] = [at |-> "loading", load |-> started + 1]]
  <2> DEFINE n == started + 1
             task == [at |-> "loading", load |-> n]
  <2>1. started \in 0..MaxLoads /\ n \in 1..MaxLoads /\ started' \in 0..MaxLoads
        /\ 1..started' = 1..started \cup {n} /\ n \notin 1..started
      BY <1>2, <1>6, CacheAssumption DEF Cache!CacheType
  <2>2. task \in Tasks /\ task.at = "loading" /\ task.load = n
      BY <2>1, CacheAssumption DEF Tasks, TaskLabels
  <2>3. inflight' = [inflight EXCEPT ![k] = task] /\ inflight \in [ModelKeys -> Tasks]
      BY <1>2, <1>6 DEF Cache!CacheType, Tasks, TaskLabels
  <2> HIDE DEF task, n
  <2>4. /\ inflight' \in [ModelKeys -> Tasks] /\ inflight'[k] = task
        /\ \A l \in ModelKeys \ {k} : inflight'[l] = inflight[l]
      BY <2>2, <2>3
  <2>5. Cache!CacheType' /\ Cache!Stages'
      BY <1>1, <1>2, <2>1, <2>4 DEF Cache!CacheType, Cache!Stages, Tasks, TaskLabels
  <2>6. Cache!LoadsInv'
    <3>1. Cache!Kept' \subseteq 1..started'
        BY <1>2, <1>3, <2>1 DEF Cache!LoadsInv
    <3>2. \A x \in 1..MaxLoads : released'[x] > 0 => released'[x] = 1 /\ x \in (1..started') \ Cache!Kept'
        BY <1>1, <1>2, <1>3, <2>1 DEF Cache!LoadsInv
    <3>3. n \in (1..started') \ Cache!Kept' /\ released'[n] = 0
      <4>1. n \notin Cache!Kept /\ ~(released[n] > 0) /\ released[n] \in Nat
          BY <1>2, <2>1 DEF Cache!LoadsInv, Cache!CacheType
      <4> QED BY <1>1, <1>3, <2>1, <4>1
    <3>4. ASSUME NEW l \in ModelKeys, inflight'[l].at = "loading"
          PROVE  /\ inflight'[l].load \in (1..started') \ Cache!Kept' /\ released'[inflight'[l].load] = 0
                 /\ l \notin Cache!Cached'
                 /\ \A other \in ModelKeys : inflight'[other].at = "loading" /\ inflight'[other].load = inflight'[l].load
                                               => other = l
      <4>1. \A other \in ModelKeys \ {k} : inflight'[other].at = "loading" => inflight'[other].load # n
          BY <1>2, <2>1, <2>4 DEF Cache!LoadsInv
      <4>2. CASE l = k
          BY <1>1, <1>3, <2>2, <2>4, <3>3, <4>1, <4>2
      <4>3. CASE l # k
        <5>1. inflight'[l] = inflight[l] /\ inflight'[l].load # n
            BY <2>4, <3>4, <4>1, <4>3
        <5>2. /\ inflight[l].load \in 1..started \ Cache!Kept /\ released[inflight[l].load] = 0
              /\ l \notin Cache!Cached
              /\ \A other \in ModelKeys : inflight[other].at = "loading" /\ inflight[other].load = inflight[l].load
                                            => other = l
            BY <1>2, <3>4, <5>1 DEF Cache!LoadsInv
        <5> QED BY <1>1, <1>3, <2>1, <2>2, <2>4, <5>1, <5>2
      <4> QED BY <4>2, <4>3
    <3> QED BY <3>1, <3>2, <3>4 DEF Cache!LoadsInv
  <2> QED BY <1>1, <1>4, <2>5, <2>6 DEF Cache!CacheInv, Cache!Distinct
<1> QED BY <1>1, <1>5, <1>6

(* The load of k returns a model that the open cache takes in, evicting    *)
(* the least recently used one when it is full.                            *)
LEMMA ModelTakenIn ==
    ASSUME Cache!CacheInv, NEW k \in ModelKeys, inflight[k].at = "loading", lifecycle = "open",
           Cache!Trim(k, Append(values, [key |-> k, load |-> inflight[k].load])),
           UNCHANGED <<retained, lifecycle, started>>
    PROVE  Cache!CacheInv' /\ KeptStays
<1> DEFINE n == inflight[k].load
<1>m. PICK m : m = [key |-> k, load |-> n]
    OBVIOUS
<1>g. PICK models : models = Append(values, m)
    OBVIOUS
<1>1. Cache!CacheType /\ Cache!Stages /\ Cache!LoadsInv /\ Cache!Distinct(values) /\ Len(values) <= MaxEntries
    BY DEF Cache!CacheInv
<1>2. /\ n \in 1..started \ Cache!Kept /\ released[n] = 0 /\ k \notin Cache!Cached
      /\ \A l \in ModelKeys : inflight[l].at = "loading" /\ inflight[l].load = n => l = k
    BY <1>1 DEF Cache!LoadsInv
<1>3. m \in Cache!Model /\ m.load = n /\ m.key = k /\ n \in 1..MaxLoads
    BY <1>m, <1>1, <1>2, CacheAssumption DEF Cache!Model, Cache!CacheType
<1>4. retained = <<>> /\ Cache!LoadsIn(retained) = {} /\ Cache!Kept = Cache!LoadsIn(values)
    BY <1>1, NothingKept DEF Cache!Stages, Cache!Kept
<1>5. /\ models \in Seq(Cache!Model) /\ Len(models) = Len(values) + 1
      /\ Cache!Distinct(models)
      /\ Cache!LoadsIn(models) = Cache!Kept \cup {n}
      /\ Cache!KeysIn(models) = Cache!Cached \cup {k}
    BY <1>g, <1>1, <1>2, <1>3, <1>4, AddModel DEF Cache!CacheType, Cache!Cached
<1>6. Cache!Trim(k, models)
    BY <1>m, <1>g
<1> HIDE DEF n
<1>7. ASSUME NEW label \in {"evicting", "ended"}, Cache!TaskTo(k, label),
             values' \in Seq(Cache!Model), Len(values') <= MaxEntries, (Cache!Distinct(values))',
             released' \in [1..MaxLoads -> Nat],
             (Cache!LoadsIn(values))' \subseteq Cache!Kept \cup {n},
             (Cache!KeysIn(values))' \subseteq Cache!Cached \cup {k},
             \A x \in 1..MaxLoads : \/ released'[x] = released[x] /\ (x \in Cache!Kept \cup {n} => x \in (Cache!LoadsIn(values))')
                                    \/ /\ released'[x] = 1 /\ x \in Cache!Kept \cup {n}
                                       /\ x \notin (Cache!LoadsIn(values))'
      PROVE  Cache!CacheInv' /\ KeptStays
  <2>1. /\ inflight' \in [ModelKeys -> Tasks] /\ inflight'[k].at = label
        /\ \A l \in ModelKeys \ {k} : inflight'[l] = inflight[l]
      BY <1>1, <1>7, TaskMoves DEF TaskLabels
  <2>2. Cache!Kept' = (Cache!LoadsIn(values))' /\ Cache!Cached' \subseteq Cache!Cached \cup {k}
      BY <1>4, <1>7, NothingKept DEF Cache!Kept, Cache!Cached, Cache!LoadsIn
  <2>3. Cache!CacheType' /\ Cache!Stages'
      BY <1>1, <1>4, <1>7, <2>1 DEF Cache!CacheType, Cache!Stages, Tasks, TaskLabels
  <2>4. Cache!LoadsInv'
    <3>1. Cache!Kept' \subseteq 1..started'
        BY <1>1, <1>2, <1>7, <2>2 DEF Cache!LoadsInv
    <3>2. ASSUME NEW x \in 1..MaxLoads, released'[x] > 0
          PROVE  released'[x] = 1 /\ x \in (1..started') \ Cache!Kept'
      <4>1. CASE released'[x] = released[x]
        <5>1. released[x] = 1 /\ x \in 1..started \ Cache!Kept
            BY <1>1, <3>2, <4>1 DEF Cache!LoadsInv
        <5>2. x # n
            BY <1>2, <5>1
        <5> QED BY <1>7, <2>2, <4>1, <5>1, <5>2
      <4>2. CASE released'[x] = 1 /\ x \in Cache!Kept \cup {n} /\ x \notin (Cache!LoadsIn(values))'
          BY <1>1, <1>2, <2>2, <4>2 DEF Cache!LoadsInv
      <4> QED BY <1>7, <4>1, <4>2
    <3>3. ASSUME NEW l \in ModelKeys, inflight'[l].at = "loading"
          PROVE  /\ inflight'[l].load \in (1..started') \ Cache!Kept' /\ released'[inflight'[l].load] = 0
                 /\ l \notin Cache!Cached'
                 /\ \A other \in ModelKeys : inflight'[other].at = "loading" /\ inflight'[other].load = inflight'[l].load
                                               => other = l
      <4>1. l # k /\ inflight'[l] = inflight[l]
          BY <1>7, <2>1, <3>3
      <4>2. /\ inflight[l].load \in 1..started \ Cache!Kept /\ released[inflight[l].load] = 0
            /\ l \notin Cache!Cached
            /\ \A other \in ModelKeys : inflight[other].at = "loading" /\ inflight[other].load = inflight[l].load
                                          => other = l
          BY <1>1, <3>3, <4>1 DEF Cache!LoadsInv
      <4>3. inflight[l].load # n
          BY <1>2, <3>3, <4>1
      <4>4. inflight[l].load \in 1..MaxLoads
          BY <1>1, <4>2, CacheAssumption DEF Cache!CacheType
      <4>5. released'[inflight[l].load] = 0
          BY <1>7, <4>2, <4>3, <4>4
      <4>6. \A other \in ModelKeys : inflight'[other].at = "loading" => other # k /\ inflight'[other] = inflight[other]
          BY <1>7, <2>1
      <4> QED BY <1>7, <2>2, <4>1, <4>2, <4>3, <4>5, <4>6
    <3> QED BY <3>1, <3>2, <3>3 DEF Cache!LoadsInv
  <2>5. KeptStays
    <3>1. \A x \in Cache!Kept : x \in 1..MaxLoads
        BY <1>1, CacheAssumption DEF Cache!LoadsInv, Cache!CacheType
    <3> QED BY <1>7, <2>2, <3>1 DEF KeptStays
  <2>6. (Cache!Distinct(retained))'
      BY <1>4, NothingKept DEF Cache!Distinct
  <2> QED BY <1>7, <2>3, <2>4, <2>5, <2>6 DEF Cache!CacheInv
<1>8. CASE Len(models) > MaxEntries
  <2>1. models # <<>>
      BY <1>8, CacheAssumption
  <2>2. PICK h : h = Head(models)
      OBVIOUS
  <2>3. /\ values' = Tail(models) /\ Cache!Release(h) /\ Cache!TaskTo(k, "evicting")
      BY <1>6, <1>8, <2>2 DEF Cache!Trim
  <2>4. /\ h \in Cache!Model /\ values' \in Seq(Cache!Model) /\ Len(values') = Len(models) - 1
        /\ (Cache!Distinct(values))'
        /\ h.load \in Cache!Kept \cup {n}
        /\ (Cache!LoadsIn(values))' = (Cache!Kept \cup {n}) \ {h.load}
        /\ (Cache!KeysIn(values))' \subseteq Cache!Cached \cup {k}
    <3>1. /\ h \in Cache!Model /\ Tail(models) \in Seq(Cache!Model) /\ Len(Tail(models)) = Len(models) - 1
          /\ Cache!Distinct(Tail(models))
          /\ h.load \in Cache!LoadsIn(models)
          /\ Cache!LoadsIn(Tail(models)) = Cache!LoadsIn(models) \ {h.load}
          /\ Cache!KeysIn(Tail(models)) \subseteq Cache!KeysIn(models)
        BY <1>5, <2>1, <2>2, PopModel
    <3>2. /\ (Cache!Distinct(values))' <=> Cache!Distinct(Tail(models))
          /\ (Cache!LoadsIn(values))' = Cache!LoadsIn(Tail(models))
          /\ (Cache!KeysIn(values))' = Cache!KeysIn(Tail(models))
        BY <2>3 DEF Cache!Distinct, Cache!LoadsIn, Cache!KeysIn
    <3> QED BY <1>5, <2>3, <3>1, <3>2
  <2>5. /\ released' \in [1..MaxLoads -> Nat] /\ h.load \in 1..MaxLoads
        /\ released'[h.load] = released[h.load] + 1
        /\ \A x \in 1..MaxLoads \ {h.load} : released'[x] = released[x]
      BY <1>1, <2>3, <2>4, ModelReleased
  <2>6. released[h.load] = 0
      BY <1>1, <1>2, <2>4, <2>5 DEF Cache!LoadsInv, Cache!CacheType
  <2>7. Len(values') <= MaxEntries
      BY <1>1, <1>5, <2>4, CacheAssumption DEF Cache!CacheType
  <2> QED BY <1>7, <2>3, <2>4, <2>5, <2>6, <2>7
<1>9. CASE ~(Len(models) > MaxEntries)
  <2>1. values' = models /\ UNCHANGED released /\ Cache!TaskTo(k, "ended")
      BY <1>6, <1>9 DEF Cache!Trim
  <2>2. (Cache!Distinct(values))' /\ (Cache!LoadsIn(values))' = Cache!Kept \cup {n}
        /\ (Cache!KeysIn(values))' = Cache!Cached \cup {k}
      BY <1>5, <2>1 DEF Cache!Distinct, Cache!LoadsIn, Cache!KeysIn
  <2>3. Len(values') <= MaxEntries
      BY <1>5, <1>9, <2>1, CacheAssumption
  <2> QED BY <1>1, <1>5, <1>7, <2>1, <2>2, <2>3 DEF Cache!CacheType
<1> QED BY <1>8, <1>9

(* A model that is released the moment its load returns. *)
LEMMA ModelDiscarded ==
    ASSUME Cache!CacheInv, NEW k \in ModelKeys, inflight[k].at = "loading", lifecycle # "open",
           Cache!Release([key |-> k, load |-> inflight[k].load]), Cache!TaskTo(k, "discarding"),
           UNCHANGED <<values, retained, lifecycle, started>>
    PROVE  Cache!CacheInv' /\ KeptStays
<1> DEFINE n == inflight[k].load
<1>m. PICK m : m = [key |-> k, load |-> n]
    OBVIOUS
<1>1. Cache!CacheType /\ Cache!Stages /\ Cache!LoadsInv
    BY DEF Cache!CacheInv
<1>2. /\ n \in 1..started \ Cache!Kept /\ released[n] = 0
      /\ \A l \in ModelKeys : inflight[l].at = "loading" /\ inflight[l].load = n => l = k
    BY <1>1 DEF Cache!LoadsInv
<1>3. m \in Cache!Model /\ m.load = n /\ n \in 1..MaxLoads
    BY <1>m, <1>1, <1>2, CacheAssumption DEF Cache!Model, Cache!CacheType
<1>4. Cache!Release(m)
    BY <1>m
<1> HIDE DEF n
<1>5. /\ released' \in [1..MaxLoads -> Nat] /\ released'[n] = 1
      /\ \A x \in 1..MaxLoads \ {n} : released'[x] = released[x]
    BY <1>1, <1>2, <1>3, <1>4, ModelReleased
<1>6. /\ inflight' \in [ModelKeys -> Tasks] /\ inflight'[k].at = "discarding"
      /\ \A l \in ModelKeys \ {k} : inflight'[l] = inflight[l]
    BY <1>1, TaskMoves DEF TaskLabels
<1>7. Cache!Kept' = Cache!Kept /\ Cache!Cached' = Cache!Cached
    BY DEF Cache!Kept, Cache!Cached
<1>8. Cache!CacheType'
    BY <1>1, <1>5, <1>6 DEF Cache!CacheType, Tasks, TaskLabels
<1>9. Cache!Stages'
  <2>1. lifecycle \in {"open", "gathering"}
      BY <1>1 DEF Cache!Stages
  <2> QED BY <1>1, <2>1 DEF Cache!Stages
<1>10. Cache!LoadsInv'
  <2>1. \A x \in 1..MaxLoads : released'[x] > 0 => released'[x] = 1 /\ x \in (1..started') \ Cache!Kept'
    <3>1. ASSUME NEW x \in 1..MaxLoads, released'[x] > 0
          PROVE  released'[x] = 1 /\ x \in 1..started \ Cache!Kept
      <4>1. CASE x = n
          BY <1>2, <1>5, <4>1
      <4>2. CASE x # n
          BY <1>1, <1>5, <3>1, <4>2 DEF Cache!LoadsInv
      <4> QED BY <4>1, <4>2
    <3> QED BY <1>7, <3>1
  <2>2. ASSUME NEW l \in ModelKeys, inflight'[l].at = "loading"
        PROVE  /\ inflight'[l].load \in (1..started') \ Cache!Kept' /\ released'[inflight'[l].load] = 0
               /\ l \notin Cache!Cached'
               /\ \A other \in ModelKeys : inflight'[other].at = "loading" /\ inflight'[other].load = inflight'[l].load
                                             => other = l
    <3>1. l # k /\ inflight'[l] = inflight[l]
        BY <1>6, <2>2
    <3>2. /\ inflight[l].load \in 1..started \ Cache!Kept /\ released[inflight[l].load] = 0
          /\ l \notin Cache!Cached
          /\ \A other \in ModelKeys : inflight[other].at = "loading" /\ inflight[other].load = inflight[l].load
                                        => other = l
        BY <1>1, <2>2, <3>1 DEF Cache!LoadsInv
    <3>3. inflight[l].load # n
        BY <1>2, <2>2, <3>1
    <3>4. inflight[l].load \in 1..MaxLoads
        BY <1>1, <3>2, CacheAssumption DEF Cache!CacheType
    <3>5. released'[inflight[l].load] = 0
        BY <1>5, <3>2, <3>3, <3>4
    <3>6. \A other \in ModelKeys : inflight'[other].at = "loading" => other # k /\ inflight'[other] = inflight[other]
        BY <1>6
    <3> QED BY <1>7, <3>1, <3>2, <3>5, <3>6
  <2> QED BY <1>1, <1>7, <2>1, <2>2 DEF Cache!LoadsInv
<1> QED BY <1>7, <1>8, <1>9, <1>10 DEF Cache!CacheInv, Cache!Distinct, KeptStays

LEMMA TaskStep ==
    ASSUME Cache!CacheInv, NEW k \in ModelKeys, Cache!Step(k)
    PROVE  Cache!CacheInv' /\ KeptStays
<1>1. Cache!CacheType /\ Cache!Stages /\ Cache!LoadsInv /\ Len(values) <= MaxEntries
    BY DEF Cache!CacheInv
<1>2. ASSUME inflight[k].at \in {"loading", "evicting", "discarding"}, Cache!TaskTo(k, "ended"),
             UNCHANGED <<values, released, retained, lifecycle, started>>
      PROVE  Cache!CacheInv' /\ KeptStays
  <2>1. /\ inflight' \in [ModelKeys -> Tasks] /\ inflight'[k].at = "ended"
        /\ \A l \in ModelKeys \ {k} : inflight'[l] = inflight[l]
      BY <1>1, <1>2, TaskMoves DEF TaskLabels
  <2>2. \A l \in ModelKeys : inflight'[l].at = "loading" => inflight'[l] = inflight[l]
      BY <2>1
  <2>3. \A l \in ModelKeys : inflight[l].at \in {"none", "ended"} => inflight'[l].at \in {"none", "ended"}
      BY <2>1
  <2> QED BY <1>2, <2>1, <2>2, <2>3, TaskEnds
<1>3. CASE Cache!LoadReturns(k)
  <2>1. CASE lifecycle = "open"
      BY <1>3, <2>1, ModelTakenIn DEF Cache!LoadReturns
  <2>2. CASE lifecycle # "open"
      BY <1>3, <2>2, ModelDiscarded DEF Cache!LoadReturns
  <2> QED BY <2>1, <2>2
<1>4. CASE Cache!LoadFails(k)
    BY <1>2, <1>4 DEF Cache!LoadFails
<1>5. CASE Cache!CloseReturns(k)
  <2>1. ~(Len(values) > MaxEntries)
      BY <1>1, CacheAssumption DEF Cache!CacheType
  <2> QED BY <1>2, <1>5, <2>1 DEF Cache!CloseReturns, Cache!Trim
<1>6. CASE Cache!CloseFails(k)
    BY <1>2, <1>6 DEF Cache!CloseFails
<1>7. CASE Cache!LoadDone(k)
  <2>1. /\ inflight' = [inflight EXCEPT ![k] = Cache!NoTask] /\ inflight \in [ModelKeys -> Tasks]
        /\ UNCHANGED <<values, released, retained, lifecycle, started>>
      BY <1>1, <1>7 DEF Cache!LoadDone, Cache!CacheType, Tasks, TaskLabels
  <2>2. Cache!NoTask \in Tasks /\ Cache!NoTask.at = "none"
      BY CacheAssumption DEF Cache!NoTask, Tasks, TaskLabels
  <2>3. /\ inflight' \in [ModelKeys -> Tasks] /\ inflight'[k].at = "none"
        /\ \A l \in ModelKeys \ {k} : inflight'[l] = inflight[l]
      BY <2>1, <2>2
  <2>4. \A l \in ModelKeys : inflight'[l].at = "loading" => inflight'[l] = inflight[l]
      BY <2>3
  <2>5. \A l \in ModelKeys : inflight[l].at \in {"none", "ended"} => inflight'[l].at \in {"none", "ended"}
      BY <2>3
  <2> QED BY <2>1, <2>3, <2>4, <2>5, TaskEnds
<1> QED BY <1>3, <1>4, <1>5, <1>6, <1>7 DEF Cache!Step

LEMMA ShutdownStep ==
    ASSUME Cache!CacheInv, Cache!Shutdown \/ Cache!Gathered
    PROVE  Cache!CacheInv' /\ KeptStays
<1>1. Cache!CacheType /\ Cache!Stages /\ Cache!LoadsInv /\ Cache!Distinct(values) /\ Len(values) <= MaxEntries
    BY DEF Cache!CacheInv
<1>2. CASE Cache!Shutdown
  <2>1. lifecycle = "open" /\ lifecycle' = "gathering" /\ UNCHANGED <<values, inflight, released, retained, started>>
      BY <1>2 DEF Cache!Shutdown
  <2>2. Cache!Kept' = Cache!Kept /\ Cache!Cached' = Cache!Cached
      BY <2>1 DEF Cache!Kept, Cache!Cached
  <2>3. Cache!CacheType' /\ Cache!Stages' /\ Cache!LoadsInv'
      BY <1>1, <2>1, <2>2 DEF Cache!CacheType, Cache!Stages, Cache!LoadsInv
  <2> QED BY <2>1, <2>2, <2>3 DEF Cache!CacheInv, Cache!Distinct, KeptStays
<1>3. CASE Cache!Gathered
  <2>1. /\ lifecycle = "gathering" /\ lifecycle' = "closing" /\ retained' = values /\ values' = <<>>
        /\ \A l \in ModelKeys : inflight[l].at \in {"none", "ended"}
        /\ UNCHANGED <<inflight, released, started>>
      BY <1>3 DEF Cache!Gathered
  <2>2. retained = <<>>
      BY <1>1, <2>1 DEF Cache!Stages
  <2>3. (Cache!LoadsIn(values))' = {} /\ (Cache!LoadsIn(retained))' = Cache!LoadsIn(values)
      BY <2>1, NothingKept DEF Cache!LoadsIn
  <2>4. Cache!Kept' = Cache!Kept
      BY <2>2, <2>3, NothingKept DEF Cache!Kept
  <2>5. Cache!CacheType' /\ Cache!Stages'
      BY <1>1, <2>1 DEF Cache!CacheType, Cache!Stages
  <2>6. Cache!LoadsInv'
      BY <1>1, <2>1, <2>4 DEF Cache!LoadsInv
  <2>7. (Cache!Distinct(values))' /\ (Cache!Distinct(retained))' /\ Len(values') <= MaxEntries
    <3>1. Len(values') = 0
        BY <2>1
    <3> QED BY <1>1, <2>1, <3>1, NothingKept, CacheAssumption DEF Cache!Distinct
  <2> QED BY <2>4, <2>5, <2>6, <2>7 DEF Cache!CacheInv, KeptStays
<1> QED BY <1>2, <1>3

LEMMA CloseRetainedStep ==
    ASSUME Cache!CacheInv, Cache!CloseRetained
    PROVE  Cache!CacheInv' /\ KeptStays
<1>1. Cache!CacheType /\ Cache!Stages /\ Cache!LoadsInv /\ Cache!Distinct(retained)
    BY DEF Cache!CacheInv
<1>2. lifecycle = "closing" /\ UNCHANGED <<values, inflight, started>>
    BY DEF Cache!CloseRetained
<1>3. values = <<>> /\ \A l \in ModelKeys : inflight[l].at \in {"none", "ended"}
    BY <1>1, <1>2 DEF Cache!Stages
<1>4. Cache!LoadsIn(values) = {} /\ Cache!Kept = Cache!LoadsIn(retained) /\ Cache!Kept' = (Cache!LoadsIn(retained))'
    BY <1>2, <1>3, NothingKept DEF Cache!Kept, Cache!LoadsIn
<1>5. CASE retained = <<>>
  <2>1. lifecycle' = "closed" /\ UNCHANGED <<released, retained>>
      BY <1>5 DEF Cache!CloseRetained
  <2>2. Cache!Kept' = Cache!Kept
      BY <1>4, <2>1 DEF Cache!LoadsIn
  <2>3. Cache!CacheType' /\ Cache!Stages'
      BY <1>1, <1>2, <1>3, <1>5, <2>1 DEF Cache!CacheType, Cache!Stages
  <2>4. Cache!LoadsInv'
      BY <1>1, <1>2, <1>3, <2>1, <2>2 DEF Cache!LoadsInv
  <2> QED BY <1>2, <2>1, <2>2, <2>3, <2>4 DEF Cache!CacheInv, Cache!Distinct, KeptStays
<1>6. CASE retained # <<>>
  <2>1. PICK h : h = Head(retained)
      OBVIOUS
  <2>2. Cache!Release(h) /\ retained' = Tail(retained) /\ UNCHANGED lifecycle
      BY <1>6, <2>1 DEF Cache!CloseRetained
  <2>3. /\ h \in Cache!Model /\ Tail(retained) \in Seq(Cache!Model) /\ Cache!Distinct(Tail(retained))
        /\ h.load \in Cache!LoadsIn(retained)
        /\ Cache!LoadsIn(Tail(retained)) = Cache!LoadsIn(retained) \ {h.load}
      BY <1>1, <1>6, <2>1, PopModel DEF Cache!CacheType
  <2>4. Cache!Kept' = Cache!Kept \ {h.load} /\ h.load \in Cache!Kept
    <3>1. (Cache!LoadsIn(retained))' = Cache!LoadsIn(Tail(retained))
        BY <2>2 DEF Cache!LoadsIn
    <3> QED BY <1>4, <2>3, <3>1
  <2>5. /\ released' \in [1..MaxLoads -> Nat] /\ h.load \in 1..MaxLoads
        /\ released'[h.load] = released[h.load] + 1
        /\ \A x \in 1..MaxLoads \ {h.load} : released'[x] = released[x]
      BY <1>1, <2>2, <2>3, ModelReleased
  <2>6. released[h.load] = 0
      BY <1>1, <2>4, <2>5 DEF Cache!LoadsInv, Cache!CacheType
  <2>7. Cache!CacheType' /\ Cache!Stages'
      BY <1>1, <1>2, <1>3, <2>2, <2>3, <2>5 DEF Cache!CacheType, Cache!Stages
  <2>8. Cache!LoadsInv'
    <3>1. Cache!Kept' \subseteq 1..started'
        BY <1>1, <1>2, <2>4 DEF Cache!LoadsInv
    <3>2. ASSUME NEW x \in 1..MaxLoads, released'[x] > 0
          PROVE  released'[x] = 1 /\ x \in 1..started \ Cache!Kept'
      <4>1. CASE x = h.load
          BY <1>1, <2>4, <2>5, <2>6, <4>1 DEF Cache!LoadsInv
      <4>2. CASE x # h.load
          BY <1>1, <2>4, <2>5, <3>2, <4>2 DEF Cache!LoadsInv
      <4> QED BY <4>1, <4>2
    <3> QED BY <1>2, <1>3, <3>1, <3>2 DEF Cache!LoadsInv
  <2>9. (Cache!Distinct(retained))'
      BY <2>2, <2>3 DEF Cache!Distinct
  <2>10. KeptStays
      BY <2>4, <2>5, <2>6 DEF KeptStays
  <2> QED BY <1>2, <2>7, <2>8, <2>9, <2>10 DEF Cache!CacheInv, Cache!Distinct
<1> QED BY <1>5, <1>6

LEMMA CacheStep == Cache!CacheInv /\ [Cache!Next]_Cache!cacheVars => Cache!CacheInv' /\ KeptStays
<1> SUFFICES ASSUME Cache!CacheInv, [Cache!Next]_Cache!cacheVars
             PROVE  Cache!CacheInv' /\ KeptStays
    OBVIOUS
<1>1. ASSUME UNCHANGED <<values, inflight, released, retained, lifecycle, started>>
      PROVE  Cache!CacheInv' /\ KeptStays
  <2>1. inflight' \in [ModelKeys -> Tasks]
      BY <1>1 DEF Cache!CacheInv, Cache!CacheType, Tasks, TaskLabels
  <2> QED BY <1>1, <2>1, TaskEnds
<1>2. CASE UNCHANGED Cache!cacheVars
    BY <1>1, <1>2 DEF Cache!cacheVars
<1>3. ASSUME NEW c \in CacheCallers, Cache!Leave(c)
      PROVE  Cache!CacheInv' /\ KeptStays
    BY <1>1, <1>3 DEF Cache!Leave
<1> QED BY <1>2, <1>3, HitStep, MissStep, TaskStep, ShutdownStep, CloseRetainedStep DEF Cache!Next

-----------------------------------------------------------------------------
(* How many places hold the model of a load, when the invariant holds. *)
LEMMA HeldIsKept ==
    ASSUME Cache!CacheInv, NEW n
    PROVE  Cache!Held(n) = IF n \in Cache!Kept THEN 1 ELSE 0
<1>1. /\ Cache!Cardinality({i \in 1..Len(values) : values[i].load = n})
           = IF n \in Cache!LoadsIn(values) THEN 1 ELSE 0
      /\ Cache!Cardinality({i \in 1..Len(retained) : retained[i].load = n})
           = IF n \in Cache!LoadsIn(retained) THEN 1 ELSE 0
    BY PlacesOfLoad DEF Cache!CacheInv, Cache!CacheType
<1>2. values = <<>> \/ retained = <<>>
    BY DEF Cache!CacheInv, Cache!Stages
<1>3. Cache!LoadsIn(values) = {} \/ Cache!LoadsIn(retained) = {}
    BY <1>2, NothingKept
<1> QED BY <1>1, <1>3 DEF Cache!Held, Cache!Kept

LEMMA CacheAccounts == Cache!CacheInv => ModelsAccounted
<1> SUFFICES ASSUME Cache!CacheInv PROVE ModelsAccounted
    OBVIOUS
<1>1. \A n \in 1..MaxLoads : Cache!Held(n) + released[n] <= 1
  <2> SUFFICES ASSUME NEW n \in 1..MaxLoads PROVE Cache!Held(n) + released[n] <= 1
      OBVIOUS
  <2>1. released[n] \in Nat /\ (released[n] > 0 => released[n] = 1 /\ n \notin Cache!Kept)
      BY DEF Cache!CacheInv, Cache!CacheType, Cache!LoadsInv
  <2> QED BY <2>1, HeldIsKept
<1>2. \A i, j \in 1..Len(values) : values[i].key = values[j].key => i = j
    BY DEF Cache!CacheInv, Cache!Distinct
<1>3. /\ lifecycle \in {"closing", "closed"} => \A k \in ModelKeys : inflight[k].at \in {"none", "ended"}
      /\ lifecycle = "closed" => values = <<>> /\ retained = <<>>
    BY DEF Cache!CacheInv, Cache!Stages
<1> QED BY <1>1, <1>2, <1>3 DEF ModelsAccounted, Cache!ModelsAccounted, Cache!CacheInv

(* Whatever loads, evictions, failed cleanups and a shutdown overlap, no   *)
(* cached model has been released, none is released twice, a key is cached *)
(* once, the limit holds, and a closed cache has given everything up.      *)
THEOREM CacheAccountsForModels == Cache!Spec => []ModelsAccounted
BY CacheInit, CacheStep, CacheAccounts, PTL DEF Cache!Spec

(* A step leaves a cached model cached, or releases it. *)
LEMMA HeldIsAccounted ==
    Cache!CacheInv /\ [Cache!Next]_Cache!cacheVars
        => [\A n \in 1..MaxLoads : Cache!Held(n) = 1 => (Cache!Held(n))' = 1 \/ released'[n] = 1]_Cache!cacheVars
<1> SUFFICES ASSUME Cache!CacheInv, [Cache!Next]_Cache!cacheVars, NEW n \in 1..MaxLoads, Cache!Held(n) = 1
             PROVE  (Cache!Held(n))' = 1 \/ released'[n] = 1
    OBVIOUS
<1>1. Cache!CacheInv' /\ KeptStays
    BY CacheStep
<1>2. n \in Cache!Kept
    BY HeldIsKept
<1>3. CASE n \in Cache!Kept'
  <2>1. (Cache!Held(n) = IF n \in Cache!Kept THEN 1 ELSE 0)'
      BY <1>1, HeldIsKept, PTL
  <2> QED BY <1>3, <2>1
<1> QED BY <1>1, <1>2, <1>3 DEF KeptStays

(* A model that is cached stays cached until it is released. *)
THEOREM CacheLosesNoModel == Cache!Spec => NoModelLost
<1>1. Cache!Spec => []Cache!CacheInv
    BY CacheInit, CacheStep, PTL DEF Cache!Spec
<1> QED BY <1>1, HeldIsAccounted, PTL DEF Cache!Spec, NoModelLost, Cache!NoModelLost

-----------------------------------------------------------------------------
(* Uploads. *)

(* The extractor of the source type decodes the content of a valid file. *)
LEMMA ValidIsDecodable ==
    ASSUME NEW file \in Upload!Files, Upload!Valid(file)
    PROVE  /\ file.content \in Upload!Decodable(Upload!Details[file.ext].source)
           /\ file.content # Upload!NoObject
           /\ Upload!Details[file.ext].source # Upload!NoRows
<1>1. CASE file.ext = ".pdf"
    BY <1>1 DEF Upload!Files, Upload!Extensions, Upload!FileContents, Upload!Valid, Upload!Details,
                Upload!Sniffed, Upload!Decodable, Upload!NoObject, Upload!NoRows
<1>2. CASE file.ext = ".docx"
    BY <1>2 DEF Upload!Files, Upload!Extensions, Upload!FileContents, Upload!Valid, Upload!Details,
                Upload!Sniffed, Upload!Decodable, Upload!NoObject, Upload!NoRows
<1>3. CASE file.ext \in {".md", ".txt"}
    BY <1>3 DEF Upload!Files, Upload!Extensions, Upload!FileContents, Upload!Valid, Upload!Details,
                Upload!Sniffed, Upload!Decodable, Upload!NoObject, Upload!NoRows
<1>4. file.ext \in {".pdf", ".docx", ".md", ".txt"}
    BY DEF Upload!Files, Upload!Extensions, Upload!Valid, Upload!Details
<1> QED BY <1>1, <1>2, <1>3, <1>4

LEMMA UploadInit == Upload!Init => Upload!UploadInv
BY DEF Upload!Init, Upload!UploadInv, Upload!UploadType, Upload!StepInv, Upload!UploadHonest

(* An error answer changes nothing but the request, the audit and the faults. *)
LEMMA Answered ==
    ASSUME NEW status \in Upload!Statuses, Upload!FailWith(status)
    PROVE  /\ upload' = [pc |-> "answered", status |-> status]
           /\ faults \subseteq faults'
BY DEF Upload!FailWith, Upload!Fault

(* A refused request that left nothing unexplained has an honest answer. *)
LEMMA Refused ==
    ASSUME Upload!UploadInv, NEW status \in Upload!Statuses \ {"accepted"}, Upload!FailWith(status),
           UNCHANGED <<object, rows>>,
           object # Upload!NoObject => faults \cap {"put late", "cleanup", "crash"} # {},
           rows # Upload!NoRows => faults \cap {"commit late", "crash"} # {}
    PROVE  Upload!UploadInv'
<1>1. upload' = [pc |-> "answered", status |-> status] /\ faults \subseteq faults'
    BY Answered
<1>2. Upload!UploadType'
    BY <1>1 DEF Upload!UploadType
<1>3. Upload!StepInv'
    BY <1>1 DEF Upload!StepInv
<1>4. Upload!UploadHonest'
    BY <1>1 DEF Upload!UploadHonest, Upload!UploadInv
<1> QED BY <1>2, <1>3, <1>4 DEF Upload!UploadInv

LEMMA UploadStep == Upload!UploadInv /\ [Upload!Next]_Upload!intakeVars => Upload!UploadInv'
<1> SUFFICES ASSUME Upload!UploadInv, [Upload!Next]_Upload!intakeVars
             PROVE  Upload!UploadInv'
    OBVIOUS
<1> USE DEF Upload!UploadInv
<1>1. ASSUME NEW file \in Upload!Files, Upload!Receive(file)
      PROVE  Upload!UploadInv'
  <2>1. CASE Upload!Valid(file)
    <3>1. upload' = [pc |-> "put", file |-> file] /\ upload.pc = "start" /\ UNCHANGED <<object, rows, faults>>
        BY <1>1, <2>1 DEF Upload!Receive
    <3>2. Upload!UploadType'
        BY <2>1, <3>1 DEF Upload!UploadType, Upload!Underway
    <3>3. Upload!StepInv' /\ Upload!UploadHonest'
        BY <3>1 DEF Upload!StepInv, Upload!UploadHonest
    <3> QED BY <3>2, <3>3
  <2>2. CASE ~Upload!Valid(file)
      BY <1>1, <2>2, Refused DEF Upload!Receive, Upload!StepInv, Upload!Statuses
  <2> QED BY <2>1, <2>2
<1>2. CASE Upload!Forbid
    BY <1>2, Refused DEF Upload!Forbid, Upload!StepInv, Upload!Statuses
<1>3. CASE Upload!PutFailed
    BY <1>3, Refused DEF Upload!PutFailed, Upload!StepInv, Upload!Statuses
<1>4. CASE Upload!Cleaned
    BY <1>4, Refused DEF Upload!Cleaned, Upload!StepInv, Upload!Statuses
<1>5. CASE Upload!Accept
  <2>1. upload \in Upload!Underway /\ upload.pc = "committed"
      BY <1>5 DEF Upload!Accept, Upload!UploadType
  <2>2. upload.file \in Upload!Files /\ Upload!Valid(upload.file)
      BY <2>1 DEF Upload!Underway
  <2>3. rows # Upload!NoRows /\ object \in Upload!Decodable(rows) /\ object # Upload!NoObject
      BY <2>1, <2>2, ValidIsDecodable DEF Upload!StepInv, Upload!Uploaded
  <2>4. upload' = [pc |-> "answered", status |-> "accepted"] /\ UNCHANGED <<object, rows, faults>>
      BY <1>5 DEF Upload!Accept
  <2>5. Upload!UploadType'
      BY <2>4 DEF Upload!UploadType, Upload!Statuses
  <2>6. Upload!StepInv' /\ Upload!UploadHonest'
      BY <2>3, <2>4 DEF Upload!StepInv, Upload!UploadHonest
  <2> QED BY <2>5, <2>6
<1>6. CASE Upload!Crash
  <2>1. upload' = [pc |-> "answered", status |-> "none"] /\ UNCHANGED <<object, rows>>
        /\ faults' = faults \cup {"crash"}
      BY <1>6 DEF Upload!Crash, Upload!Fault
  <2>2. Upload!UploadType'
      BY <2>1 DEF Upload!UploadType, Upload!Statuses
  <2>3. Upload!StepInv' /\ Upload!UploadHonest'
      BY <2>1 DEF Upload!StepInv, Upload!UploadHonest
  <2> QED BY <2>2, <2>3
<1>7. CASE Upload!PutObject \/ Upload!PutFails \/ Upload!StageRows \/ Upload!Commit \/ Upload!Cleanup
  <2> DEFINE file == upload.file
  <2>1. upload.pc \in {"put", "create", "commit", "cleanup"}
      BY <1>7 DEF Upload!PutObject, Upload!PutFails, Upload!StageRows, Upload!Commit, Upload!Cleanup
  <2>2. upload \in Upload!Underway
      BY <2>1 DEF Upload!UploadType
  <2>3. /\ file.content # Upload!NoObject
        /\ Upload!Details[file.ext].source # Upload!NoRows
    <3>1. file \in Upload!Files /\ Upload!Valid(file)
        BY <2>2 DEF Upload!Underway
    <3> QED BY <3>1, ValidIsDecodable
  <2> HIDE DEF file
  <2>4. ASSUME NEW label \in {"put failed", "create", "commit", "committed", "cleanup", "cleaned"},
               upload' = [upload EXCEPT !.pc = label]
        PROVE  Upload!UploadType' /\ upload'.pc = label /\ upload'.file = file
    <3>1. upload' \in Upload!Underway /\ upload'.pc = label /\ upload'.file = file
        BY <2>2, <2>4 DEF Upload!Underway, file
    <3> QED BY <3>1 DEF Upload!UploadType
  <2> USE DEF Upload!Goto, Upload!Fault, Upload!StepInv, Upload!UploadHonest, Upload!Uploaded, file
  <2>5. CASE Upload!PutObject
      BY <2>3, <2>4, <2>5 DEF Upload!PutObject
  <2>6. CASE Upload!PutFails
      BY <2>3, <2>4, <2>6 DEF Upload!PutFails
  <2>7. CASE Upload!StageRows
      BY <2>3, <2>4, <2>7 DEF Upload!StageRows
  <2>8. CASE Upload!Commit
      BY <2>3, <2>4, <2>8 DEF Upload!Commit
  <2>9. CASE Upload!Cleanup
      BY <2>3, <2>4, <2>9 DEF Upload!Cleanup
  <2> QED BY <1>7, <2>5, <2>6, <2>7, <2>8, <2>9
<1>8. CASE UNCHANGED Upload!intakeVars
    BY <1>8 DEF Upload!intakeVars, Upload!UploadType, Upload!StepInv, Upload!UploadHonest, Upload!Uploaded
<1> QED BY <1>1, <1>2, <1>3, <1>4, <1>5, <1>6, <1>7, <1>8 DEF Upload!Next

(* Every answer of an upload is true: an accepted file has its rows and an *)
(* object that the extractor of its type decodes, a refused one has left   *)
(* nothing, but for the faults named, and rows lack their object only      *)
(* after a COMMIT that was answered wrongly; for any number of faults.     *)
THEOREM UploadIsHonest == Upload!Spec => []UploadHonest
<1>1. Upload!UploadInv => UploadHonest
    BY DEF Upload!UploadInv, UploadHonest
<1> QED BY <1>1, UploadInit, UploadStep, PTL DEF Upload!Spec

-----------------------------------------------------------------------------
(* The quota of a client. *)

(* Positions have a last one. *)
LEMMA LastOf ==
    ASSUME NEW S, NEW n \in S, S \subseteq Nat, \A i \in S : i <= n
    PROVE  Limiter!Max(S) = n
<1> DEFINE Greatest(x) == x \in S /\ \A y \in S : x >= y
<1>1. Greatest(n)
    OBVIOUS
<1>2. \A x : Greatest(x) => x = n
    OBVIOUS
<1>3. Limiter!Max(S) = CHOOSE x : Greatest(x)
    BY DEF Limiter!Max
<1>4. Greatest(CHOOSE x : Greatest(x))
    BY <1>1
<1> QED BY <1>2, <1>3, <1>4

(* Whatever the client claims in the header and however many trusted      *)
(* proxies its request comes through, a header that can be read names it.  *)
LEMMA IdentityIsClient ==
    ASSUME NEW p \in Peers, NEW claimed \in Seq(Peers \cup Proxies \cup {Limiter!Malformed}),
           NEW proxies \in Seq(Proxies),
           LET path == Limiter!Path(p, claimed, proxies)
           IN  proxies = <<>> \/ Limiter!Forwarded(path.hops) # <<>>
    PROVE  LET path == Limiter!Path(p, claimed, proxies)
           IN  Limiter!Identity(path.direct, path.hops) = p
<1> DEFINE path == Limiter!Path(p, claimed, proxies)
           hops == claimed \o <<p>> \o Limiter!Front(proxies)
           n    == Len(claimed) + 1
<1>1. CASE proxies = <<>>
    BY <1>1, LimiterAssumption DEF Limiter!Path, Limiter!Identity
<1>2. CASE proxies # <<>>
  <2>1. path = [direct |-> proxies[Len(proxies)], hops |-> hops] /\ Limiter!Forwarded(hops) = hops
      BY <1>2 DEF Limiter!Path, Limiter!Last, Limiter!Forwarded
  <2>2. Len(proxies) \in Nat \ {0} /\ proxies[Len(proxies)] \in Proxies
      BY <1>2
  <2>3. Limiter!Front(proxies) \in Seq(Proxies)
      BY <2>2 DEF Limiter!Front
  <2>4. /\ Len(hops) = n + Len(Limiter!Front(proxies)) /\ hops[n] = p
        /\ \A i \in 1..Len(hops) : i > n => hops[i] \in Proxies
      BY <2>3
  <2>5. n \in Limiter!Outside(hops) /\ Limiter!Outside(hops) \subseteq Nat
        /\ \A i \in Limiter!Outside(hops) : i <= n
      BY <2>3, <2>4, LimiterAssumption DEF Limiter!Outside
  <2>6. Limiter!Max(Limiter!Outside(hops)) = n
      BY <2>5, LastOf
  <2>7. Limiter!Identity(proxies[Len(proxies)], hops) = hops[n]
      BY <2>1, <2>2, <2>5, <2>6 DEF Limiter!Identity
  <2> QED BY <2>1, <2>4, <2>7
<1> QED BY <1>1, <1>2

LEMMA LimiterInit == Limiter!Init => Limiter!LimiterInv
BY LimiterAssumption DEF Limiter!Init, Limiter!NoKey, Limiter!LimiterInv, Limiter!QuotaPerClient

(* Another count never falls below the quota a client has used. *)
LEMMA CountGrows ==
    ASSUME Limiter!LimiterInv, NEW a \in Peers \cup Proxies
    PROVE  /\ Limiter!Count(a).count \in Nat
           /\ counter[a].count <= Limit => Limiter!Count(a).count = counter[a].count + 1
           /\ counter[a].count > Limit => Limiter!Count(a).count = Limit + 1
BY LimiterAssumption DEF Limiter!LimiterInv, Limiter!Count

(* The sequences of the routes and claims are sequences. *)
LEMMA PathsAreSequences ==
    ASSUME NEW claimed \in Limiter!Claims, NEW proxies \in Limiter!Routes
    PROVE  claimed \in Seq(Peers \cup Proxies \cup {Limiter!Malformed}) /\ proxies \in Seq(Proxies)
<1> DEFINE All == Peers \cup Proxies \cup {Limiter!Malformed}
<1>1. claimed = <<>> \/ \E a \in All : claimed = <<a>>
    BY DEF Limiter!Claims
<1>2. proxies = <<>> \/ (\E a \in Proxies : proxies = <<a>>) \/ \E a, b \in Proxies : proxies = <<a, b>>
    BY DEF Limiter!Routes
<1>3. <<>> \in Seq(All) /\ \A a \in All : <<a>> \in Seq(All)
    OBVIOUS
<1>4. <<>> \in Seq(Proxies) /\ \A a, b \in Proxies : <<a>> \in Seq(Proxies) /\ <<a, b>> \in Seq(Proxies)
    OBVIOUS
<1> HIDE DEF All
<1>5. claimed \in Seq(All)
    BY <1>1, <1>3, Zenon
<1>6. proxies \in Seq(Proxies)
    BY <1>2, <1>4, Zenon
<1> QED BY <1>5, <1>6 DEF All

LEMMA RequestStep ==
    ASSUME Limiter!LimiterInv, NEW p \in Peers, NEW claimed \in Limiter!Claims, NEW proxies \in Limiter!Routes,
           Limiter!Request(p, claimed, proxies)
    PROVE  Limiter!LimiterInv'
<1> USE DEF Limiter!LimiterInv, Limiter!QuotaPerClient
<1> DEFINE path     == Limiter!Path(p, claimed, proxies)
           who      == Limiter!Identity(path.direct, path.hops)
           readable == proxies = <<>> \/ Limiter!Forwarded(path.hops) # <<>>
<1>1. readable => who = p
    BY IdentityIsClient, PathsAreSequences
<1>2. /\ counter' = [counter EXCEPT ![who] = Limiter!Count(who)]
      /\ \/ /\ Limiter!Count(who).count <= Limit
            /\ admitted' = [admitted EXCEPT ![p] = IF readable THEN @ + 1 ELSE @]
         \/ UNCHANGED admitted
    BY DEF Limiter!Request
<1> HIDE DEF who, readable, path
<1>3. counter' \in [Peers \cup Proxies -> [count : Nat, ttl : Nat]]
  <2>1. ASSUME who \in Peers \cup Proxies
        PROVE  Limiter!Count(who) \in [count : Nat, ttl : Nat]
    <3>1. Limiter!Count(who).count \in Nat /\ Limiter!Count(who).ttl \in Nat
        BY <2>1, CountGrows, LimiterAssumption DEF Limiter!LimiterInv, Limiter!Count
    <3> QED BY <3>1 DEF Limiter!Count
  <2> QED BY <1>2, <2>1
<1>4. admitted' \in [Peers -> Nat]
    BY <1>2
<1>5. ASSUME NEW q \in Peers
      PROVE  admitted'[q] <= Limit /\ admitted'[q] <= counter'[q].count
  <2>1. CASE who = q
    <3>1. counter'[q].count = Limiter!Count(q).count
        BY <1>2, <2>1
    <3>2. admitted'[q] = admitted[q] \/ (admitted'[q] = admitted[q] + 1 /\ Limiter!Count(q).count <= Limit)
        BY <1>2, <2>1
    <3> QED BY <3>1, <3>2, CountGrows, LimiterAssumption
  <2>2. CASE who # q
    <3>1. counter'[q] = counter[q] /\ admitted'[q] = admitted[q]
        BY <1>1, <1>2, <2>2
    <3> QED BY <3>1
  <2> QED BY <2>1, <2>2
<1> QED BY <1>3, <1>4, <1>5

LEMMA SecondStep == ASSUME Limiter!LimiterInv, Limiter!Second PROVE Limiter!LimiterInv'
<1> USE DEF Limiter!LimiterInv, Limiter!QuotaPerClient, Limiter!Second, Limiter!NoKey
<1>1. DOMAIN counter = Peers \cup Proxies
    OBVIOUS
<1>2. ASSUME NEW a \in Peers \cup Proxies
      PROVE  /\ counter'[a] \in [count : Nat, ttl : Nat]
             /\ counter[a].ttl <= 1 \/ counter'[a].count = counter[a].count
    BY <1>1
<1>3. counter' \in [Peers \cup Proxies -> [count : Nat, ttl : Nat]]
    BY <1>1, <1>2
<1>4. admitted' \in [Peers -> Nat]
    OBVIOUS
<1>5. ASSUME NEW p \in Peers
      PROVE  admitted'[p] <= Limit /\ admitted'[p] <= counter'[p].count
    BY <1>2, LimiterAssumption
<1> QED BY <1>3, <1>4, <1>5

LEMMA LimiterStep == Limiter!LimiterInv /\ [Limiter!Next]_(Limiter!limiterVars) => Limiter!LimiterInv'
<1>1. ASSUME Limiter!LimiterInv, UNCHANGED Limiter!limiterVars
      PROVE  Limiter!LimiterInv'
    BY <1>1 DEF Limiter!limiterVars, Limiter!LimiterInv, Limiter!QuotaPerClient
<1> QED BY <1>1, RequestStep, SecondStep DEF Limiter!Next

(* Whatever a client claims to be and through however many trusted proxies *)
(* its requests come, those of one window that can be read share one quota.*)
THEOREM OneQuota == Limiter!Spec => []QuotaPerClient
<1>1. Limiter!LimiterInv => QuotaPerClient
    BY DEF Limiter!LimiterInv, QuotaPerClient
<1> QED BY LimiterInit, LimiterStep, <1>1, PTL DEF Limiter!Spec

-----------------------------------------------------------------------------
(* Reviews.  An inserted element moves the ones before it up by one at most. *)
LEMMA InsertKeeps ==
    ASSUME NEW S, NEW s \in Seq(S), NEW e \in S, NEW k \in 1..Len(s) + 1
    PROVE  /\ Review!InsertAt(s, k, e) \in Seq(S)
           /\ Len(Review!InsertAt(s, k, e)) = Len(s) + 1
           /\ \A i \in 1..Len(s) : Review!InsertAt(s, k, e)[i] = s[i] \/ Review!InsertAt(s, k, e)[i + 1] = s[i]
<1> DEFINE before == SubSeq(s, 1, k - 1)
           after  == SubSeq(s, k, Len(s))
           both   == before \o <<e>>
<1>1. /\ before \in Seq(S) /\ Len(before) = k - 1
      /\ \A i \in 1..k - 1 : before[i] = s[i]
    OBVIOUS
<1>2. /\ after \in Seq(S) /\ Len(after) = Len(s) - k + 1
      /\ \A i \in 1..Len(s) - k + 1 : after[i] = s[k + i - 1]
    OBVIOUS
<1>3. Review!InsertAt(s, k, e) = both \o after
    BY DEF Review!InsertAt
<1> HIDE DEF before, after
<1>4. /\ both \in Seq(S) /\ Len(both) = k
      /\ \A i \in 1..k - 1 : both[i] = before[i]
  <2>1. <<e>> \in Seq(S) /\ Len(<<e>>) = 1
      OBVIOUS
  <2> QED BY <1>1, <2>1, ConcatProperties
<1> HIDE DEF both
<1>5. /\ both \o after \in Seq(S) /\ Len(both \o after) = Len(s) + 1
      /\ \A i \in 1..Len(s) + 1 : (both \o after)[i] = IF i <= k THEN both[i] ELSE after[i - k]
  <2>1. k + (Len(s) - k + 1) = Len(s) + 1 /\ Len(s) \in Nat
      OBVIOUS
  <2> QED BY <1>2, <1>4, <2>1, ConcatProperties
<1>6. ASSUME NEW i \in 1..Len(s)
      PROVE  (both \o after)[i] = s[i] \/ (both \o after)[i + 1] = s[i]
  <2>1. CASE i <= k - 1
    <3>1. (both \o after)[i] = both[i] /\ both[i] = before[i] /\ before[i] = s[i]
        BY <1>1, <1>4, <1>5, <2>1
    <3> QED BY <3>1
  <2>2. CASE i >= k
    <3> DEFINE j == i + 1 - k
    <3>1. j \in 1..Len(s) - k + 1 /\ k + j - 1 = i /\ i + 1 - k = j /\ ~(i + 1 <= k) /\ i + 1 \in 1..Len(s) + 1
        BY <2>2
    <3> HIDE DEF j
    <3>2. (both \o after)[i + 1] = after[j]
        BY <1>5, <3>1
    <3>3. after[j] = s[i]
        BY <1>2, <3>1
    <3> QED BY <3>2, <3>3
  <2>3. i <= k - 1 \/ i >= k
      OBVIOUS
  <2> HIDE DEF both, after
  <2> QED BY <2>1, <2>2, <2>3, Zenon
<1>7. /\ both \o after \in Seq(S) /\ Len(both \o after) = Len(s) + 1
      /\ \A i \in 1..Len(s) : (both \o after)[i] = s[i] \/ (both \o after)[i + 1] = s[i]
    BY <1>5, <1>6
<1> HIDE DEF both, after
<1> QED BY <1>3, <1>7, Zenon

(* A window holds the rows behind its offset. *)
LEMMA WindowRows ==
    ASSUME NEW S, NEW s \in Seq(S), NEW offset \in 0..Len(s), NEW size \in Nat,
           NEW part, part = SubSeq(s, offset + 1, Review!Min({Len(s), offset + size}))
    PROVE  /\ Len(part) = IF Len(s) <= offset + size THEN Len(s) - offset ELSE size
           /\ \A i \in 1..Len(part) : part[i] = s[offset + i]
<1> DEFINE last == IF Len(s) <= offset + size THEN Len(s) ELSE offset + size
<1>1. Review!Min({Len(s), offset + size}) = last
    BY DEF Review!Min
<1>2. last \in offset..Len(s) /\ offset \in Nat
    OBVIOUS
<1>3. last - offset = IF Len(s) <= offset + size THEN Len(s) - offset ELSE size
    OBVIOUS
<1> HIDE DEF last
<1>4. /\ SubSeq(s, offset + 1, last) \in Seq(S)
      /\ Len(SubSeq(s, offset + 1, last)) = last - offset
      /\ \A i \in 1..last - offset : SubSeq(s, offset + 1, last)[i] = s[offset + i]
    BY <1>2
<1> QED BY <1>1, <1>3, <1>4

-----------------------------------------------------------------------------
LEMMA ReviewInit == Review!Init => Review!ReviewInv
<1> SUFFICES ASSUME Review!Init PROVE Review!ReviewInv
    OBVIOUS
<1> USE DEF Review!Init
<1>1. Review!ReviewType
    BY DEF Review!ReviewType
<1>2. Review!RowLocks
    BY DEF Review!RowLocks, Review!Unserved
<1>3. Review!ReviewHistoryChains
  <2>1. Len(audit_log) = 0 /\ 1..Len(audit_log) = {}
      OBVIOUS
  <2> QED BY <2>1 DEF Review!ReviewHistoryChains
<1>4. Review!WalkInv
    BY DEF Review!WalkInv, Review!WalkMissesNothing
<1> QED BY <1>1, <1>2, <1>3, <1>4 DEF Review!ReviewInv

(* The history of a page depends on the audit records up to a point only. *)
LEMMA HistoryKept ==
    ASSUME Review!ReviewType, NEW a \in Review!Change, audit_log' = Append(audit_log, a),
           NEW n \in 0..Len(audit_log), NEW p, NEW status
    PROVE  (Review!StatusAfter(n, p, status))' <=> Review!StatusAfter(n, p, status)
<1>1. audit_log \in Seq(Review!Change)
    BY DEF Review!ReviewType
<1>2. \A j \in 1..n : audit_log'[j] = audit_log[j]
    BY <1>1
<1> QED BY <1>2 DEF Review!StatusAfter

(* Adding a record of another page leaves a page's last status, adding one *)
(* of the page itself makes it the record's.                               *)
LEMMA HistoryGrows ==
    ASSUME Review!ReviewType, NEW a \in Review!Change, audit_log' = Append(audit_log, a), NEW p
    PROVE  /\ Len(audit_log') = Len(audit_log) + 1
           /\ a.page = p => (Review!StatusAfter(Len(audit_log), p, a.to))'
           /\ \A status : a.page # p /\ Review!StatusAfter(Len(audit_log), p, status)
                            => (Review!StatusAfter(Len(audit_log), p, status))'
<1> DEFINE n == Len(audit_log)
<1>1. n \in Nat /\ Len(audit_log') = n + 1 /\ audit_log'[n + 1] = a
      /\ \A j \in 1..n : audit_log'[j] = audit_log[j]
    BY DEF Review!ReviewType
<1>2. ASSUME a.page = p
      PROVE  (Review!StatusAfter(Len(audit_log), p, a.to))'
    <2>1. n + 1 \in 1..n + 1 /\ n + 1 + 1..n + 1 = {}
        BY <1>1
    <2> QED BY <1>1, <1>2, <2>1 DEF Review!StatusAfter
<1>3. ASSUME NEW status, a.page # p, Review!StatusAfter(Len(audit_log), p, status)
      PROVE  (Review!StatusAfter(Len(audit_log), p, status))'
  <2>1. CASE (\A j \in 1..n : audit_log[j].page # p) /\ status = Review!DRAFT
    <3>1. \A j \in 1..n + 1 : audit_log'[j].page # p
        BY <1>1, <1>3, <2>1
    <3> QED BY <1>1, <2>1, <3>1 DEF Review!StatusAfter
  <2>2. ASSUME NEW i \in 1..n, audit_log[i].page = p, status = audit_log[i].to,
               \A j \in i + 1..n : audit_log[j].page # p
        PROVE  (Review!StatusAfter(Len(audit_log), p, status))'
    <3>1. \A j \in i + 1..n + 1 : audit_log'[j].page # p
        BY <1>1, <1>3, <2>2
    <3>2. i \in 1..n + 1 /\ audit_log'[i] = audit_log[i]
        BY <1>1
    <3> QED BY <1>1, <2>2, <3>1, <3>2 DEF Review!StatusAfter
  <2> QED BY <1>3, <2>1, <2>2 DEF Review!StatusAfter
<1> QED BY <1>1, <1>2, <1>3

-----------------------------------------------------------------------------
(* What no action of a reviewer or of the generation touches. *)
LEMMA WalkKept ==
    ASSUME Review!WalkInv, UNCHANGED <<listing, walk>>
    PROVE  Review!WalkInv'
BY DEF Review!WalkInv, Review!WalkMissesNothing

LEMMA HistoryUnchanged ==
    ASSUME Review!ReviewHistoryChains, UNCHANGED <<review_status, audit_log>>
    PROVE  Review!ReviewHistoryChains'
BY DEF Review!ReviewHistoryChains, Review!StatusAfter

(* An update that is open holds the row at the status it was compared with. *)
LEMMA Committing ==
    ASSUME Review!ReviewType, Review!RowLocks, NEW r \in Reviewers, request[r].pc = "commit"
    PROVE  /\ request[r] \in Review!Served
           /\ request[r].page \in Pages /\ request[r].from \in Review!ReviewStatus
           /\ writer[request[r].page] = r /\ review_status[request[r].page] = request[r].from
           /\ <<request[r].from, request[r].to>> \in Review!Allowed
<1>1. request[r] \in Review!Served
    BY DEF Review!ReviewType, Review!Unserved
<1>2. request[r] # Review!Unserved
    BY DEF Review!Unserved
<1>3. request[r].page \in Pages /\ request[r].from \in Review!ReviewStatus
    BY <1>1 DEF Review!Served
<1> QED BY <1>1, <1>2, <1>3 DEF Review!RowLocks

LEMMA GenerateStep ==
    ASSUME Review!ReviewInv, NEW p \in Pages, NEW i, Review!Generate(p, i)
    PROVE  Review!ReviewInv'
<1>1. /\ review_status[p] = Review!NoPage /\ i \in 1..Len(listing) + 1
      /\ listing' = Review!InsertAt(listing, i, p)
      /\ review_status' = [review_status EXCEPT ![p] = Review!DRAFT]
      /\ UNCHANGED <<audit_log, writer, request, reviews, walk>>
    BY DEF Review!Generate
<1>2. Review!ReviewType /\ Review!RowLocks /\ Review!ReviewHistoryChains /\ Review!WalkInv
    BY DEF Review!ReviewInv
<1>3. /\ listing \in Seq(Pages) /\ listing' \in Seq(Pages) /\ Len(listing') = Len(listing) + 1
      /\ \A k \in 1..Len(listing) : listing'[k] = listing[k] \/ listing'[k + 1] = listing[k]
  <2>1. listing \in Seq(Pages)
      BY <1>2 DEF Review!ReviewType
  <2> QED BY <1>1, <2>1, InsertKeeps, Zenon
<1>4. /\ review_status' \in [Pages -> Review!ReviewStatus \cup {Review!NoPage}]
      /\ review_status'[p] = Review!DRAFT /\ Review!DRAFT # Review!NoPage
      /\ \A other \in Pages \ {p} : review_status'[other] = review_status[other]
    BY <1>1, <1>2 DEF Review!ReviewType, Review!ReviewStatus, Review!DRAFT, Review!NoPage
<1>5. Review!ReviewType'
    BY <1>1, <1>2, <1>3, <1>4 DEF Review!ReviewType
<1>6. Review!RowLocks'
  <2>1. ASSUME NEW r \in Reviewers, request[r].pc = "commit"
        PROVE  request[r].page \in Pages \ {p}
    <3>1. /\ request[r].page \in Pages /\ request[r].from \in Review!ReviewStatus
          /\ review_status[request[r].page] = request[r].from
        BY <1>2, <2>1, Committing
    <3> QED BY <1>1, <3>1 DEF Review!ReviewStatus, Review!NoPage,
                              Review!DRAFT, Review!NEEDS_REVIEW, Review!APPROVED
  <2> QED BY <1>1, <1>2, <1>4, <2>1 DEF Review!RowLocks
<1>7. Review!ReviewHistoryChains'
  <2>1. \A k \in 1..Len(audit_log) : audit_log[k].page # p
      BY <1>1, <1>2 DEF Review!ReviewHistoryChains
  <2>2. Review!StatusAfter(Len(audit_log), p, Review!DRAFT)
      BY <2>1 DEF Review!StatusAfter
  <2>3. \A n, other, status : (Review!StatusAfter(n, other, status))' <=> Review!StatusAfter(n, other, status)
      BY <1>1 DEF Review!StatusAfter
  <2> QED BY <1>1, <1>2, <1>4, <2>2, <2>3 DEF Review!ReviewHistoryChains
<1>8. Review!WalkInv'
  <2>1. CASE walk.pc = "walking" /\ walk.filter = Review!AllStatuses
    <3>1. walk.offset \in 0..Len(listing')
        BY <1>2, <1>3, <2>1 DEF Review!WalkInv
    <3>2. ASSUME NEW q \in walk.present \ walk.seen
          PROVE  \E k \in 1..Len(listing') : k > walk.offset /\ listing'[k] = q
      <4>1. PICK k \in 1..Len(listing) : k > walk.offset /\ listing[k] = q
          BY <1>2, <2>1, <3>2 DEF Review!WalkInv
      <4>2. k \in 1..Len(listing') /\ k + 1 \in 1..Len(listing') /\ k + 1 > walk.offset
          BY <1>3, <3>1, <4>1
      <4> QED BY <1>3, <4>1, <4>2
    <3> QED BY <1>1, <1>2, <2>1, <3>1, <3>2 DEF Review!WalkInv, Review!WalkMissesNothing
  <2>2. CASE ~(walk.pc = "walking" /\ walk.filter = Review!AllStatuses)
      BY <1>1, <1>2, <2>2 DEF Review!WalkInv, Review!WalkMissesNothing
  <2> QED BY <2>1, <2>2
<1> QED BY <1>5, <1>6, <1>7, <1>8 DEF Review!ReviewInv

LEMMA ReadStep ==
    ASSUME Review!ReviewInv, NEW r \in Reviewers, NEW p \in Pages, NEW target \in Review!ReviewStatus,
           Review!Read(r, p, target)
    PROVE  Review!ReviewInv'
<1> DEFINE asked == [pc |-> "update", page |-> p, from |-> review_status[p], to |-> target]
<1>1. /\ UNCHANGED <<review_status, listing, audit_log, writer, walk>>
      /\ \/ request' = request
         \/ request' = [request EXCEPT ![r] = asked] /\ <<review_status[p], target>> \in Review!Allowed
    BY DEF Review!Read
<1>2. Review!ReviewType /\ Review!RowLocks /\ Review!ReviewHistoryChains /\ Review!WalkInv
    BY DEF Review!ReviewInv
<1>3. Review!ReviewHistoryChains' /\ Review!WalkInv'
    BY <1>1, <1>2, HistoryUnchanged, WalkKept
<1>4. CASE request' = request
    BY <1>1, <1>2, <1>3, <1>4 DEF Review!ReviewInv, Review!ReviewType, Review!RowLocks
<1>5. CASE request' = [request EXCEPT ![r] = asked] /\ <<review_status[p], target>> \in Review!Allowed
  <2>1. review_status[p] \in Review!ReviewStatus
      BY <1>5 DEF Review!Allowed, Review!ReviewStatus
  <2>2. asked \in Review!Served /\ asked.pc = "update" /\ asked.from = review_status[p] /\ asked.to = target
      BY <2>1 DEF Review!Served
  <2> HIDE DEF asked
  <2>3. Review!ReviewType'
      BY <1>1, <1>2, <1>5, <2>2 DEF Review!ReviewType
  <2>4. Review!RowLocks'
    <3>1. request'[r] = asked /\ \A other \in Reviewers \ {r} : request'[other] = request[other]
        BY <1>2, <1>5 DEF Review!ReviewType
    <3> QED BY <1>1, <1>2, <1>5, <2>2, <3>1 DEF Review!RowLocks
  <2> QED BY <1>3, <2>3, <2>4 DEF Review!ReviewInv
<1> QED BY <1>1, <1>4, <1>5

LEMMA CompareAndSetStep ==
    ASSUME Review!ReviewInv, NEW r \in Reviewers, Review!CompareAndSet(r)
    PROVE  Review!ReviewInv'
<1> DEFINE q == request[r]
<1>1. /\ q.pc = "update" /\ writer[q.page] = Review!NoWriter
      /\ UNCHANGED <<review_status, listing, audit_log, reviews, walk>>
      /\ \/ /\ review_status[q.page] = q.from
            /\ writer' = [writer EXCEPT ![q.page] = r]
            /\ request' = [request EXCEPT ![r].pc = "commit"]
         \/ /\ request' = [request EXCEPT ![r] = Review!Unserved]
            /\ UNCHANGED writer
    BY DEF Review!CompareAndSet
<1>2. Review!ReviewType /\ Review!RowLocks /\ Review!ReviewHistoryChains /\ Review!WalkInv
    BY DEF Review!ReviewInv
<1>3. Review!ReviewHistoryChains' /\ Review!WalkInv'
    BY <1>1, <1>2, HistoryUnchanged, WalkKept
<1>4. q \in Review!Served
    BY <1>1, <1>2 DEF Review!ReviewType, Review!Unserved
<1>5. CASE /\ request' = [request EXCEPT ![r] = Review!Unserved] /\ UNCHANGED writer
  <2>1. Review!ReviewType'
      BY <1>1, <1>2, <1>5 DEF Review!ReviewType
  <2>2. request'[r] = Review!Unserved /\ \A other \in Reviewers \ {r} : request'[other] = request[other]
      BY <1>2, <1>5 DEF Review!ReviewType
  <2>3. Review!RowLocks'
      BY <1>1, <1>2, <1>5, <2>2 DEF Review!RowLocks, Review!Unserved
  <2> QED BY <1>3, <2>1, <2>3 DEF Review!ReviewInv
<1>6. CASE /\ review_status[q.page] = q.from
           /\ writer' = [writer EXCEPT ![q.page] = r]
           /\ request' = [request EXCEPT ![r].pc = "commit"]
  <2> DEFINE q2 == [q EXCEPT !.pc = "commit"]
  <2>1. q2 \in Review!Served /\ q2.pc = "commit" /\ q2.page = q.page /\ q2.from = q.from /\ q2.to = q.to
      BY <1>4 DEF Review!Served
  <2>2. request' = [request EXCEPT ![r] = q2]
      BY <1>6
  <2>3. q.page \in Pages
      BY <1>4 DEF Review!Served
  <2>4. q # Review!Unserved
      BY <1>1 DEF Review!Unserved
  <2> HIDE DEF q2
  <2>5. Review!ReviewType'
      BY <1>1, <1>2, <1>6, <2>1, <2>2, <2>3 DEF Review!ReviewType
  <2>6. /\ request'[r] = q2 /\ \A other \in Reviewers \ {r} : request'[other] = request[other]
        /\ writer'[q.page] = r /\ \A page \in Pages \ {q.page} : writer'[page] = writer[page]
      BY <1>2, <1>6, <2>2, <2>3 DEF Review!ReviewType
  <2>7. ASSUME NEW other \in Reviewers \ {r}, request[other].pc = "commit"
        PROVE  request[other].page \in Pages \ {q.page}
    <3>1. request[other].page \in Pages /\ writer[request[other].page] = other
        BY <1>2, <2>7, Committing
    <3> QED BY <1>1, <3>1, ReviewAssumption
  <2>8. Review!RowLocks'
      BY <1>1, <1>2, <1>6, <2>1, <2>4, <2>6, <2>7 DEF Review!RowLocks
  <2> QED BY <1>3, <2>5, <2>8 DEF Review!ReviewInv
<1> QED BY <1>1, <1>5, <1>6

(* The transaction of a reviewer ends: it lets go of its row, and nobody   *)
(* else holds it.                                                          *)
LEMMA RowReleased ==
    ASSUME Review!ReviewType, Review!RowLocks, NEW r \in Reviewers, request[r].pc = "commit",
           Review!EndTransaction(r)
    PROVE  /\ writer' \in [Pages -> Reviewers \cup {Review!NoWriter}]
           /\ request' \in [Reviewers -> {Review!Unserved} \cup Review!Served]
           /\ request'[r] = Review!Unserved
           /\ \A other \in Reviewers \ {r} : request'[other] = request[other]
           /\ \A page \in Pages \ {request[r].page} : writer'[page] = writer[page]
           /\ \A other \in Reviewers \ {r} : request[other].pc = "commit" => request[other].page # request[r].page
<1>1. /\ writer' = [writer EXCEPT ![request[r].page] = Review!NoWriter]
      /\ request' = [request EXCEPT ![r] = Review!Unserved]
    BY DEF Review!EndTransaction
<1>2. /\ writer \in [Pages -> Reviewers \cup {Review!NoWriter}]
      /\ request \in [Reviewers -> {Review!Unserved} \cup Review!Served]
    BY DEF Review!ReviewType
<1>3. ASSUME NEW other \in Reviewers \ {r}, request[other].pc = "commit"
      PROVE  request[other].page # request[r].page
    BY <1>3, Committing
<1> QED BY <1>1, <1>2, <1>3

LEMMA AuditFailsStep ==
    ASSUME Review!ReviewInv, NEW r \in Reviewers, Review!AuditFails(r)
    PROVE  Review!ReviewInv'
<1>1. /\ request[r].pc = "commit" /\ Review!EndTransaction(r)
      /\ UNCHANGED <<review_status, listing, audit_log, walk>>
    BY DEF Review!AuditFails, Review!EndTransaction
<1>2. Review!ReviewType /\ Review!RowLocks /\ Review!ReviewHistoryChains /\ Review!WalkInv
    BY DEF Review!ReviewInv
<1>3. Review!ReviewHistoryChains' /\ Review!WalkInv'
    BY <1>1, <1>2, HistoryUnchanged, WalkKept
<1>4. Review!ReviewType'
    BY <1>1, <1>2, RowReleased DEF Review!ReviewType
<1>5. Review!RowLocks'
  <2>1. ASSUME NEW other \in Reviewers \ {r}
        PROVE  /\ request'[other] = request[other]
               /\ request[other].pc = "commit" =>
                    /\ writer'[request[other].page] = other
                    /\ review_status[request[other].page] = request[other].from
    <3>1. request'[other] = request[other]
          /\ (request[other].pc = "commit" => request[other].page # request[r].page)
          /\ \A page \in Pages \ {request[r].page} : writer'[page] = writer[page]
        BY <1>1, <1>2, RowReleased
    <3>2. request[other].pc = "commit" =>
            /\ request[other].page \in Pages /\ writer[request[other].page] = other
            /\ review_status[request[other].page] = request[other].from
        BY <1>2, Committing
    <3> QED BY <3>1, <3>2
  <2>2. request'[r] = Review!Unserved
      BY <1>1, <1>2, RowReleased
  <2> QED BY <1>1, <1>2, <2>1, <2>2 DEF Review!RowLocks, Review!Unserved
<1> QED BY <1>3, <1>4, <1>5 DEF Review!ReviewInv

LEMMA CommitReviewStep ==
    ASSUME Review!ReviewInv, NEW r \in Reviewers, Review!CommitReview(r)
    PROVE  Review!ReviewInv'
<1> DEFINE q == request[r]
<1>a. PICK a : a = [page |-> q.page, from |-> q.from, to |-> q.to]
    OBVIOUS
<1>1. /\ request[r].pc = "commit" /\ Review!EndTransaction(r)
      /\ review_status' = [review_status EXCEPT ![q.page] = q.to]
      /\ audit_log' = Append(audit_log, a)
      /\ UNCHANGED <<listing, walk>>
    BY <1>a DEF Review!CommitReview, Review!EndTransaction
<1>2. Review!ReviewType /\ Review!RowLocks /\ Review!ReviewHistoryChains /\ Review!WalkInv
    BY DEF Review!ReviewInv
<1>3. Review!WalkInv'
    BY <1>1, <1>2, WalkKept
<1>4. /\ q \in Review!Served /\ q.page \in Pages
      /\ review_status[q.page] = q.from /\ q.from \in Review!ReviewStatus
      /\ <<q.from, q.to>> \in Review!Allowed
    BY <1>1, <1>2, Committing
<1>5. a \in Review!Change /\ a.page = q.page /\ a.from = q.from /\ a.to = q.to /\ q.to \in Review!ReviewStatus
    BY <1>a, <1>4 DEF Review!Served, Review!Change
<1>6. /\ review_status' \in [Pages -> Review!ReviewStatus \cup {Review!NoPage}]
      /\ review_status'[q.page] = q.to
      /\ \A page \in Pages \ {q.page} : review_status'[page] = review_status[page]
    BY <1>1, <1>2, <1>4, <1>5 DEF Review!ReviewType
<1>7. Review!ReviewType'
  <2>1. audit_log' \in Seq(Review!Change)
      BY <1>1, <1>2, <1>5 DEF Review!ReviewType
  <2> QED BY <1>1, <1>2, <1>6, <2>1, RowReleased DEF Review!ReviewType
<1>8. Review!RowLocks'
  <2>1. ASSUME NEW other \in Reviewers \ {r}
        PROVE  /\ request'[other] = request[other]
               /\ request[other].pc = "commit" =>
                    /\ writer'[request[other].page] = other
                    /\ review_status'[request[other].page] = request[other].from
    <3>1. request'[other] = request[other]
          /\ (request[other].pc = "commit" => request[other].page # q.page)
          /\ \A page \in Pages \ {q.page} : writer'[page] = writer[page]
        BY <1>1, <1>2, RowReleased
    <3>2. request[other].pc = "commit" =>
            /\ request[other].page \in Pages /\ writer[request[other].page] = other
            /\ review_status[request[other].page] = request[other].from
        BY <1>2, Committing
    <3> QED BY <1>6, <3>1, <3>2
  <2>2. request'[r] = Review!Unserved
      BY <1>1, <1>2, RowReleased
  <2> QED BY <1>1, <1>2, <2>1, <2>2 DEF Review!RowLocks, Review!Unserved
<1>9. Review!ReviewHistoryChains'
  <2> DEFINE n == Len(audit_log)
  <2>1. /\ n \in Nat /\ Len(audit_log') = n + 1 /\ audit_log'[n + 1] = a
        /\ \A i \in 1..n : audit_log'[i] = audit_log[i]
    <3>1. audit_log \in Seq(Review!Change)
        BY <1>2 DEF Review!ReviewType
    <3> QED BY <1>1, <1>5, <3>1
  <2>2. ASSUME NEW k \in 0..n, NEW p, NEW status
        PROVE  (Review!StatusAfter(k, p, status))' <=> Review!StatusAfter(k, p, status)
      BY <1>1, <1>2, <1>5, HistoryKept
  <2>3. Review!StatusAfter(n, q.page, q.from)
      BY <1>2, <1>4 DEF Review!ReviewHistoryChains, Review!ReviewStatus, Review!NoPage,
                        Review!DRAFT, Review!NEEDS_REVIEW, Review!APPROVED
  <2>4. ASSUME NEW i \in 1..n + 1
        PROVE  /\ <<audit_log'[i].from, audit_log'[i].to>> \in Review!Allowed
               /\ (Review!StatusAfter(i - 1, audit_log[i].page, audit_log[i].from))'
    <3>1. CASE i = n + 1
      <4>1. i - 1 = n /\ n \in 0..n
          BY <2>1, <3>1
      <4> QED BY <1>4, <1>5, <2>1, <2>2, <2>3, <3>1, <4>1
    <3>2. CASE i \in 1..n
      <4>1. i - 1 \in 0..n /\ audit_log'[i] = audit_log[i]
          BY <2>1, <3>2
      <4>2. /\ <<audit_log[i].from, audit_log[i].to>> \in Review!Allowed
            /\ Review!StatusAfter(i - 1, audit_log[i].page, audit_log[i].from)
          BY <1>2, <3>2 DEF Review!ReviewHistoryChains
      <4> QED BY <2>2, <4>1, <4>2
    <3> QED BY <2>1, <3>1, <3>2
  <2>5. ASSUME NEW p \in Pages
        PROVE  IF review_status'[p] = Review!NoPage
               THEN \A i \in 1..n + 1 : audit_log'[i].page # p
               ELSE (Review!StatusAfter(Len(audit_log), p, review_status[p]))'
    <3>1. CASE p = q.page
      <4>1. (Review!StatusAfter(Len(audit_log), p, a.to))'
          BY <1>1, <1>2, <1>5, <3>1, HistoryGrows
      <4>2. review_status'[p] = a.to /\ a.to # Review!NoPage
          BY <1>5, <1>6, <3>1 DEF Review!ReviewStatus, Review!NoPage,
                                  Review!DRAFT, Review!NEEDS_REVIEW, Review!APPROVED
      <4>3. (Review!StatusAfter(Len(audit_log), p, review_status[p]))'
          BY <4>1, <4>2
      <4> QED BY <4>2, <4>3
    <3>2. CASE p # q.page
      <4>1. review_status'[p] = review_status[p] /\ a.page # p
          BY <1>5, <1>6, <3>2
      <4>2. CASE review_status[p] = Review!NoPage
        <5>1. \A i \in 1..n : audit_log[i].page # p
            BY <1>2, <4>2 DEF Review!ReviewHistoryChains
        <5> QED BY <2>1, <4>1, <4>2, <5>1
      <4>3. CASE review_status[p] # Review!NoPage
        <5>1. Review!StatusAfter(Len(audit_log), p, review_status[p])
            BY <1>2, <4>3 DEF Review!ReviewHistoryChains
        <5>2. \A status : Review!StatusAfter(Len(audit_log), p, status)
                            => (Review!StatusAfter(Len(audit_log), p, status))'
            BY <1>1, <1>2, <1>5, <4>1, HistoryGrows
        <5> QED BY <4>1, <4>3, <5>1, <5>2 DEF Review!StatusAfter
      <4> QED BY <4>2, <4>3
    <3> QED BY <3>1, <3>2
  <2> HIDE DEF n
  <2> QED BY <2>1, <2>4, <2>5 DEF Review!ReviewHistoryChains
<1> QED BY <1>3, <1>7, <1>8, <1>9 DEF Review!ReviewInv

-----------------------------------------------------------------------------
LEMMA StartWalkStep ==
    ASSUME Review!ReviewInv, NEW filter \in Review!ReviewStatus \cup {Review!AllStatuses},
           Review!StartWalk(filter)
    PROVE  Review!ReviewInv'
<1>1. /\ walk' = [pc |-> "walking", filter |-> filter, offset |-> 0, seen |-> {},
                  present |-> Review!ToSet(Review!Matching(filter))]
      /\ UNCHANGED <<review_status, listing, audit_log, writer, request>>
    BY DEF Review!StartWalk
<1>2. Review!ReviewType /\ Review!RowLocks /\ Review!ReviewHistoryChains
    BY DEF Review!ReviewInv
<1>3. Review!ReviewHistoryChains'
    BY <1>1, <1>2, HistoryUnchanged
<1>4. Review!WalkInv'
  <2>1. Len(listing) \in Nat
      BY <1>2 DEF Review!ReviewType
  <2>2. filter = Review!AllStatuses =>
          \A p \in Review!ToSet(Review!Matching(filter)) :
            \E i \in 1..Len(listing) : i > 0 /\ listing[i] = p
      BY <2>1 DEF Review!Matching, Review!ToSet
  <2> QED BY <1>1, <2>1, <2>2 DEF Review!WalkInv, Review!WalkMissesNothing
<1> QED BY <1>1, <1>2, <1>3, <1>4 DEF Review!ReviewInv, Review!ReviewType, Review!RowLocks

LEMMA ListWindowStep ==
    ASSUME Review!ReviewInv, Review!ListWindow
    PROVE  Review!ReviewInv'
<1> DEFINE shown == Review!Selected(walk.filter, walk.offset)
<1>1. /\ walk.pc = "walking"
      /\ walk' = [pc      |-> IF Len(shown) > PageLimit THEN "walking" ELSE "done",
                  filter  |-> walk.filter,
                  offset  |-> walk.offset + PageLimit,
                  seen    |-> walk.seen \cup {shown[i] : i \in 1..Review!Min({PageLimit, Len(shown)})},
                  present |-> walk.present]
      /\ UNCHANGED <<review_status, listing, audit_log, writer, request>>
    BY DEF Review!ListWindow
<1>2. Review!ReviewType /\ Review!RowLocks /\ Review!ReviewHistoryChains /\ Review!WalkInv
    BY DEF Review!ReviewInv
<1>3. Review!ReviewHistoryChains'
    BY <1>1, <1>2, HistoryUnchanged
<1>4. walk'.pc \in {"walking", "done"} /\ walk'.filter = walk.filter
    BY <1>1
<1>5. Review!WalkInv'
  <2>1. CASE walk.filter # Review!AllStatuses
      BY <1>1, <1>4, <2>1 DEF Review!WalkInv, Review!WalkMissesNothing
  <2>2. CASE walk.filter = Review!AllStatuses
    <3> DEFINE offset == walk.offset
    <3>1. /\ listing \in Seq(Pages) /\ offset \in 0..Len(listing)
          /\ \A p \in walk.present \ walk.seen : \E i \in 1..Len(listing) : i > offset /\ listing[i] = p
        BY <1>1, <1>2, <2>2 DEF Review!ReviewType, Review!WalkInv
    <3>2. PageLimit \in Nat /\ PageLimit >= 1 /\ PageLimit + 1 \in Nat /\ Len(listing) \in Nat
        BY <3>1, ReviewAssumption
    <3>3. shown = SubSeq(listing, offset + 1, Review!Min({Len(listing), offset + (PageLimit + 1)}))
      <4>1. offset + PageLimit + 1 = offset + (PageLimit + 1)
          BY <3>1, <3>2
      <4> QED BY <2>2, <4>1 DEF Review!Selected, Review!Matching
    <3> HIDE DEF shown, offset
    <3>4. /\ Len(shown) = IF Len(listing) <= offset + (PageLimit + 1) THEN Len(listing) - offset ELSE PageLimit + 1
          /\ \A i \in 1..Len(shown) : shown[i] = listing[offset + i]
      <4> DEFINE size == PageLimit + 1
      <4>1. size \in Nat
          BY <3>2
      <4> HIDE DEF size
      <4>2. /\ Len(shown) = IF Len(listing) <= offset + size THEN Len(listing) - offset ELSE size
            /\ \A i \in 1..Len(shown) : shown[i] = listing[offset + i]
        <5>1. shown = SubSeq(listing, offset + 1, Review!Min({Len(listing), offset + size}))
            BY <3>3 DEF size
        <5>2. \A from \in 0..Len(listing), some \in Nat : \A part :
                part = SubSeq(listing, from + 1, Review!Min({Len(listing), from + some})) =>
                  /\ Len(part) = IF Len(listing) <= from + some THEN Len(listing) - from ELSE some
                  /\ \A i \in 1..Len(part) : part[i] = listing[from + i]
            BY <3>1, WindowRows
        <5>3. offset \in 0..Len(listing)
            BY <3>1
        <5> QED BY <4>1, <5>1, <5>2, <5>3, Zenon
      <4> QED BY <4>2 DEF size
    <3>5. Len(shown) \in Nat
        BY <3>1, <3>2, <3>4
    <3>6. Review!Min({PageLimit, Len(shown)}) = IF Len(shown) > PageLimit THEN PageLimit ELSE Len(shown)
        BY <3>2, <3>5 DEF Review!Min
    <3>7. ASSUME NEW p \in walk'.present \ walk'.seen
          PROVE  Len(shown) > PageLimit /\ \E i \in 1..Len(listing) : i > offset + PageLimit /\ listing[i] = p
      <4>1. p \in walk.present \ walk.seen
            /\ p \notin {shown[i] : i \in 1..Review!Min({PageLimit, Len(shown)})}
          BY <1>1, <3>7
      <4>2. PICK i \in 1..Len(listing) : i > offset /\ listing[i] = p
          BY <3>1, <4>1
      <4>3. i - offset \notin 1..Review!Min({PageLimit, Len(shown)})
        <5>1. ASSUME i - offset \in 1..Review!Min({PageLimit, Len(shown)})
              PROVE  FALSE
          <6>1. i - offset \in 1..Len(shown) /\ offset + (i - offset) = i
              BY <3>1, <3>2, <3>5, <3>6, <5>1
          <6>2. shown[i - offset] = p
              BY <3>4, <4>2, <6>1
          <6> QED BY <4>1, <5>1, <6>2
        <5> QED BY <5>1
      <4>4. i - offset > PageLimit /\ Len(shown) > PageLimit
          BY <3>1, <3>2, <3>4, <3>5, <3>6, <4>2, <4>3
      <4> QED BY <3>1, <3>2, <4>2, <4>4
    <3>8. Len(shown) > PageLimit => offset + PageLimit \in 0..Len(listing)
        BY <3>1, <3>2, <3>4
    <3>9. walk'.offset = offset + PageLimit /\ listing' = listing
          /\ walk'.pc = IF Len(shown) > PageLimit THEN "walking" ELSE "done"
        BY <1>1 DEF offset
    <3>10. Review!WalkMissesNothing'
        BY <3>7, <3>9 DEF Review!WalkMissesNothing
    <3> QED BY <1>4, <3>7, <3>8, <3>9, <3>10 DEF Review!WalkInv
  <2> QED BY <2>1, <2>2
<1> QED BY <1>1, <1>2, <1>3, <1>5 DEF Review!ReviewInv, Review!ReviewType, Review!RowLocks

LEMMA ReviewStep == Review!ReviewInv /\ [Review!Next]_Review!reviewVars => Review!ReviewInv'
<1> SUFFICES ASSUME Review!ReviewInv, [Review!Next]_Review!reviewVars
             PROVE  Review!ReviewInv'
    OBVIOUS
<1>1. CASE UNCHANGED Review!reviewVars
    BY <1>1, HistoryUnchanged, WalkKept
       DEF Review!reviewVars, Review!ReviewInv, Review!ReviewType, Review!RowLocks
<1>2. CASE Review!Next
    BY <1>2, GenerateStep, ReadStep, CompareAndSetStep, CommitReviewStep, AuditFailsStep,
       StartWalkStep, ListWindowStep DEF Review!Next
<1> QED BY <1>1, <1>2

(* However reviews of a page overlap, lose their compare-and-set or fail   *)
(* with their audit, the committed audit records chain from the draft to   *)
(* the status that the page has.                                           *)
THEOREM ReviewsChain == Review!Spec => []ReviewHistoryChains
<1>1. Review!ReviewInv => ReviewHistoryChains
    BY DEF Review!ReviewInv, ReviewHistoryChains
<1> QED BY ReviewInit, ReviewStep, <1>1, PTL DEF Review!Spec

(* Whatever is generated and reviewed between two windows, a client that   *)
(* lists to the end has seen every page that was there when it began.      *)
THEOREM WalkIsComplete == Review!Spec => []WalkMissesNothing
<1>1. Review!ReviewInv => WalkMissesNothing
    BY DEF Review!ReviewInv, Review!WalkInv, WalkMissesNothing
<1> QED BY ReviewInit, ReviewStep, <1>1, PTL DEF Review!Spec
=============================================================================
