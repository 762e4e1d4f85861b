------------------------ MODULE EpisodeResourceProofs ------------------------
(***************************************************************************)
(* Theorems about EpisodeResource, for all providers, packages and         *)
(* episodes, and all bounds.                                               *)
(***************************************************************************)
EXTENDS EpisodeResource, FiniteSetTheorems, SequenceTheorems, TLAPS

PageType ==
    /\ query \in Episodes \union {None} /\ loading \in BOOLEAN
    /\ selected \subseteq Providers
    /\ status \in [Providers -> Statuses]
    /\ results \in [Providers -> SUBSET Handles]
    /\ DOMAIN owner \subseteq Handles /\ owner \in [DOMAIN owner -> Providers]
    /\ pending \in Nat /\ playing \in Handles \union {None}
    /\ opened \in Handles \union {None}

SearchEntries == [life : 0..SearchLife, handles : SUBSET Handles]
PlayableEntries == [life : Nat, resolved : BOOLEAN]

CacheType(c) ==
    /\ c = [searches |-> c.searches, playables |-> c.playables]
    /\ DOMAIN c.searches \subseteq Keys
    /\ c.searches \in [DOMAIN c.searches -> SearchEntries]
    /\ DOMAIN c.playables \subseteq Handles
    /\ c.playables \in [DOMAIN c.playables -> PlayableEntries]

TasksType ==
    /\ ready \in Seq(Tasks) /\ loads \subseteq LoadTasks
    /\ caller \in [Plugins -> SearchTasks \union ResolveTasks \union {None}]
    /\ cancelled \in [Plugins -> BOOLEAN]

\* Every handle in use is one search's, and the page's if it has the search.
CacheOK(c) ==
    /\ CacheType(c)
    /\ \A h \in DOMAIN c.playables :
          \E k \in DOMAIN c.searches : h \in c.searches[k].handles
    /\ \A k, l \in DOMAIN c.searches :
          c.searches[k].handles \intersect c.searches[l].handles # {} => k = l

LoadingOnes == {p \in Providers : status[p] = "loading"}

\* A page that has no query shows nothing, and one that plays searches nothing.
PageOK ==
    /\ loading => query = None
    /\ query = None => DOMAIN owner = {} /\ pending = 0 /\ playing = None
    /\ pending = Cardinality(LoadingOnes)
    /\ playing # None => pending = 0
    /\ \A p \in Providers, h \in Handles :
          h \in results[p] <=> h \in DOMAIN owner /\ owner[h] = p
    /\ \A p \in LoadingOnes : results[p] = {}

\* What the coroutine of a search or a call has removed stays removed until it
\* stores its own.
CallsOK ==
    \A pl \in Plugins : caller[pl] # None =>
        /\ PluginOf[caller[pl].provider] = pl
        /\ caller[pl].kind = "search" => Key(caller[pl]) \notin DOMAIN cache.searches

\* The page waits for one coroutine at most to load, one to play and one to
\* search each provider.
SameRole(t, u) ==
    t.kind = u.kind /\ (t.kind = "search" => t.provider = u.provider)

Waiting ==
    {ready[i] : i \in 1..Len(ready)}
      \union ({caller[pl] : pl \in Plugins} \ {None}) \union loads

Awaited(t) ==
    /\ t.kind = "load" => loading
    /\ t.kind = "search" => t.episode = query /\ status[t.provider] = "loading"
    /\ t.kind = "resolve" => /\ playing = t.handle /\ t.handle \in DOMAIN owner
                             /\ owner[t.handle] = t.provider

AwaitedOK == \A t \in Waiting : t.current => Awaited(t)

\* Coroutines begin in order: those left behind before those spawned since.
OrderOK ==
    /\ \A i, j \in 1..Len(ready) : i < j /\ ready[i].current => ready[j].current
    /\ (\E pl \in Plugins : caller[pl] # None /\ caller[pl].current)
       => \A i \in 1..Len(ready) : ready[i].current
    /\ (\E i \in 1..Len(ready) : ~ready[i].current) => DOMAIN owner = {}

RolesOK ==
    /\ \A i, j \in 1..Len(ready) :
          ready[i].current /\ ready[j].current /\ SameRole(ready[i], ready[j]) => i = j
    /\ \A i \in 1..Len(ready), pl \in Plugins :
          ~(/\ caller[pl] # None /\ ready[i].current /\ caller[pl].current
            /\ SameRole(ready[i], caller[pl]))
    /\ \A i \in 1..Len(ready), t \in loads :
          ~(ready[i].current /\ t.current /\ ready[i].kind = "load")
    /\ \A t, u \in loads : t.current /\ u.current => t = u

IInv ==
    /\ PageType /\ TasksType /\ PageOK /\ CacheOK(cache)
    /\ CallsOK /\ OrderOK /\ RolesOK /\ AwaitedOK /\ ShownIsCached

-----------------------------------------------------------------------------
\* The cache.  Each of its functions leaves a cache in which every handle in
\* use is one search's.
LEMMA CacheMade ==
    ASSUME NEW S, NEW P,
           DOMAIN S \subseteq Keys, S \in [DOMAIN S -> SearchEntries],
           DOMAIN P \subseteq Handles, P \in [DOMAIN P -> PlayableEntries],
           \A h \in DOMAIN P : \E k \in DOMAIN S : h \in S[k].handles,
           \A k, l \in DOMAIN S : S[k].handles \intersect S[l].handles # {} => k = l
    PROVE  CacheOK([searches |-> S, playables |-> P])
BY DEF CacheOK, CacheType

LEMMA RemovedOK ==
    ASSUME NEW c, CacheOK(c), NEW key
    PROVE  /\ CacheOK(Removed(c, key))
           /\ DOMAIN Removed(c, key).searches = DOMAIN c.searches \ {key}
           /\ \A k \in DOMAIN c.searches \ {key} :
                 Removed(c, key).searches[k] = c.searches[k]
           /\ \A h \in DOMAIN c.playables, k \in DOMAIN c.searches \ {key} :
                 h \in c.searches[k].handles => h \in DOMAIN Removed(c, key).playables
<1>1. CASE key \notin DOMAIN c.searches
  BY <1>1 DEF Removed
<1>2. CASE key \in DOMAIN c.searches
  <2> DEFINE S == Restrict(c.searches, DOMAIN c.searches \ {key})
             P == Restrict(c.playables, DOMAIN c.playables \ c.searches[key].handles)
  <2>1. Removed(c, key) = [searches |-> S, playables |-> P]
    BY <1>2 DEF Removed
  <2>2. /\ DOMAIN S = DOMAIN c.searches \ {key}
        /\ \A k \in DOMAIN S : S[k] = c.searches[k]
        /\ S \in [DOMAIN S -> SearchEntries]
        /\ DOMAIN P = DOMAIN c.playables \ c.searches[key].handles
        /\ \A h \in DOMAIN P : P[h] = c.playables[h]
        /\ P \in [DOMAIN P -> PlayableEntries]
    BY DEF Restrict, CacheOK, CacheType
  <2>3. DOMAIN S \subseteq Keys /\ DOMAIN P \subseteq Handles
    BY <2>2 DEF CacheOK, CacheType
  <2> HIDE DEF S, P
  <2>4. /\ \A h \in DOMAIN P : \E k \in DOMAIN S : h \in S[k].handles
        /\ \A k, l \in DOMAIN S : S[k].handles \intersect S[l].handles # {} => k = l
    BY <1>2, <2>2 DEF CacheOK
  <2>5. CacheOK(Removed(c, key))
    BY <2>1, <2>2, <2>3, <2>4, CacheMade
  <2>6. ASSUME NEW h \in DOMAIN c.playables, NEW k \in DOMAIN c.searches \ {key},
               h \in c.searches[k].handles
        PROVE  h \in DOMAIN P
    <3>1. h \notin c.searches[key].handles
      BY <1>2, <2>6 DEF CacheOK
    <3> QED BY <2>2, <2>6, <3>1
  <2> QED BY <2>1, <2>2, <2>5, <2>6
<1> QED BY <1>1, <1>2

LEMMA StoredOK ==
    ASSUME NEW c, CacheOK(c), NEW key \in Keys, key \notin DOMAIN c.searches,
           NEW hs \in SUBSET Handles, NEW new \in [hs -> PlayableEntries],
           \A k \in DOMAIN c.searches : c.searches[k].handles \intersect hs = {}
    PROVE  LET d == Stored(c, key, new) IN
           /\ CacheOK(d)
           /\ DOMAIN d.searches = DOMAIN c.searches \union {key}
           /\ d.searches[key].handles = hs
           /\ \A k \in DOMAIN c.searches : d.searches[k] = c.searches[k]
           /\ DOMAIN d.playables = hs \union DOMAIN c.playables
<1> DEFINE entry == [life |-> SearchLife, handles |-> hs]
           S == Inserted([k \in {key} |-> entry], c.searches)
           P == Inserted(new, c.playables)
<1>1. Stored(c, key, new) = [searches |-> S, playables |-> P]
  BY DEF Stored, Removed
<1>2. entry \in SearchEntries /\ entry.handles = hs
  BY LifeAssumption DEF SearchEntries
<1> HIDE DEF entry
<1>3. /\ DOMAIN S = DOMAIN c.searches \union {key}
      /\ S[key] = entry
      /\ \A k \in DOMAIN c.searches : S[k] = c.searches[k]
      /\ S \in [DOMAIN S -> SearchEntries]
  BY <1>2 DEF Inserted, CacheOK, CacheType
<1>4. /\ DOMAIN P = hs \union DOMAIN c.playables
      /\ P \in [DOMAIN P -> PlayableEntries]
  BY DEF Inserted, CacheOK, CacheType
<1>5. DOMAIN S \subseteq Keys /\ DOMAIN P \subseteq Handles
  BY <1>3, <1>4 DEF CacheOK, CacheType
<1> HIDE DEF S, P
<1>6. \A h \in DOMAIN P : \E k \in DOMAIN S : h \in S[k].handles
  BY <1>2, <1>3, <1>4 DEF CacheOK
<1>7. \A k, l \in DOMAIN S : S[k].handles \intersect S[l].handles # {} => k = l
  BY <1>2, <1>3 DEF CacheOK
<1>8. CacheOK([searches |-> S, playables |-> P])
  BY <1>3, <1>4, <1>5, <1>6, <1>7, CacheMade
<1> QED BY <1>1, <1>2, <1>3, <1>4, <1>8

\* These leave the searches with their handles.
SameSearches(c, d) ==
    /\ DOMAIN d.searches = DOMAIN c.searches
    /\ \A k \in DOMAIN c.searches : d.searches[k].handles = c.searches[k].handles

LEMMA DroppedOK ==
    ASSUME NEW c, CacheOK(c), NEW h
    PROVE  LET d == Dropped(c, h) IN
           /\ CacheOK(d) /\ SameSearches(c, d)
           /\ DOMAIN d.playables = DOMAIN c.playables \ {h}
<1> DEFINE P == Restrict(c.playables, DOMAIN c.playables \ {h})
<1>1. Dropped(c, h) = [searches |-> c.searches, playables |-> P]
  BY DEF Dropped, CacheOK, CacheType
<1>2. DOMAIN P = DOMAIN c.playables \ {h} /\ P \in [DOMAIN P -> PlayableEntries]
  BY DEF Restrict, CacheOK, CacheType
<1> HIDE DEF P
<1>3. CacheOK([searches |-> c.searches, playables |-> P])
  BY <1>2, CacheMade DEF CacheOK, CacheType
<1> QED BY <1>1, <1>2, <1>3 DEF SameSearches

LEMMA ReplacedOK ==
    ASSUME NEW c, CacheOK(c), NEW h \in DOMAIN c.playables, NEW life \in Nat
    PROVE  LET d == Replaced(c, h, life) IN
           /\ CacheOK(d) /\ SameSearches(c, d)
           /\ DOMAIN d.playables = DOMAIN c.playables
<1> DEFINE Q == [c.playables EXCEPT ![h].life = life]
           P == [Q EXCEPT ![h].resolved = TRUE]
<1>1. Replaced(c, h, life) = [searches |-> c.searches, playables |-> P]
  <2>1. c = [searches |-> c.searches, playables |-> c.playables]
    BY DEF CacheOK, CacheType
  <2>2. Replaced(c, h, life) = [c EXCEPT !.playables = P]
    BY <2>1, Zenon DEF Replaced
  <2> QED BY <2>1, <2>2
<1>2. DOMAIN P = DOMAIN c.playables /\ P \in [DOMAIN P -> PlayableEntries]
  <2>1. DOMAIN Q = DOMAIN c.playables /\ Q \in [DOMAIN Q -> PlayableEntries]
    BY DEF CacheOK, CacheType, PlayableEntries
  <2> HIDE DEF Q
  <2> QED BY <2>1 DEF PlayableEntries
<1> HIDE DEF P
<1>3. CacheOK([searches |-> c.searches, playables |-> P])
  BY <1>2, CacheMade DEF CacheOK, CacheType
<1> QED BY <1>1, <1>2, <1>3 DEF SameSearches

LEMMA TickOK ==
    ASSUME CacheOK(cache), Tick
    PROVE  /\ CacheOK(cache') /\ SameSearches(cache, cache')
           /\ DOMAIN cache'.playables = DOMAIN cache.playables
<1> DEFINE S == [k \in DOMAIN cache.searches |-> [cache.searches[k] EXCEPT !.life = Aged(@)]]
           P == [h \in DOMAIN cache.playables |-> [cache.playables[h] EXCEPT !.life = Aged(@)]]
<1>1. cache' = [searches |-> S, playables |-> P]
  BY DEF Tick
<1>2. /\ DOMAIN S = DOMAIN cache.searches /\ S \in [DOMAIN S -> SearchEntries]
      /\ \A k \in DOMAIN S : S[k].handles = cache.searches[k].handles
  BY LifeAssumption DEF CacheOK, CacheType, SearchEntries, Aged
<1>3. DOMAIN P = DOMAIN cache.playables /\ P \in [DOMAIN P -> PlayableEntries]
  BY DEF CacheOK, CacheType, PlayableEntries, Aged
<1> HIDE DEF S, P
<1>4. CacheOK([searches |-> S, playables |-> P])
  <2>1. /\ \A h \in DOMAIN P : \E k \in DOMAIN S : h \in S[k].handles
        /\ \A k, l \in DOMAIN S : S[k].handles \intersect S[l].handles # {} => k = l
    BY <1>2, <1>3 DEF CacheOK
  <2>2. DOMAIN S \subseteq Keys /\ DOMAIN P \subseteq Handles
    BY <1>2, <1>3 DEF CacheOK, CacheType
  <2> QED BY <1>2, <1>3, <2>1, <2>2, CacheMade
<1> QED BY <1>1, <1>2, <1>3, <1>4 DEF SameSearches

-----------------------------------------------------------------------------
\* The coroutines.  Each lemma says what a move of one of them, t, leaves to be
\* shown of the others.
MovesInv == TasksType /\ CallsOK /\ OrderOK /\ RolesOK

LEMMA TaskFacts ==
    ASSUME NEW t \in Tasks
    PROVE  /\ t # None /\ t.kind \in {"load", "search", "resolve"} /\ t.current \in BOOLEAN
           /\ t.kind = "load" => t \in LoadTasks
           /\ t.kind = "search" => t \in SearchTasks /\ t.provider \in Providers
                                   /\ t.episode \in Episodes
           /\ t.kind = "resolve" => t \in ResolveTasks /\ t.provider \in Providers
                                    /\ t.handle \in Handles
BY NoneAssumption DEF Tasks, LoadTasks, SearchTasks, ResolveTasks

LEMMA WaitingTasks == ASSUME TasksType PROVE Waiting \subseteq Tasks
<1>1. \A i \in 1..Len(ready) : ready[i] \in Tasks
  BY DEF TasksType
<1> QED BY <1>1 DEF Waiting, TasksType, Tasks

\* Which others are still awaited, and in what order, once t is on its way.
Apart(t) == \A u \in Waiting : t.current /\ u.current => ~SameRole(t, u)
InOrder ==
    /\ \A i, j \in 1..Len(ready) : i < j /\ ready[i].current => ready[j].current
    /\ (\E pl \in Plugins : caller[pl] # None /\ caller[pl].current)
       => \A i \in 1..Len(ready) : ready[i].current

LEMMA Begun ==
    ASSUME MovesInv, ready # <<>>, ready' = Tail(ready)
    PROVE  LET t == Head(ready) IN
           /\ t \in Waiting /\ t \in Tasks
           /\ ready' \in Seq(Tasks) /\ Len(ready') = Len(ready) - 1
           /\ \A i \in 1..Len(ready') : i + 1 \in 1..Len(ready) /\ ready'[i] = ready[i + 1]
           /\ t.current => \A i \in 1..Len(ready) : ready[i].current
           /\ ~t.current => DOMAIN owner = {}
           /\ \A i \in 1..Len(ready') : t.current => ~SameRole(t, ready'[i])
<1> DEFINE t == Head(ready)
<1>1. /\ ready \in Seq(Tasks) /\ 1 \in 1..Len(ready) /\ t = ready[1]
      /\ Len(ready) \in Nat
  BY DEF MovesInv, TasksType
<1>2. /\ ready' \in Seq(Tasks) /\ Len(ready') = Len(ready) - 1
      /\ \A i \in 1..Len(ready') : i + 1 \in 1..Len(ready) /\ ready'[i] = ready[i + 1]
  BY <1>1
<1>3. \A i \in 1..Len(ready) : ready[i] \in Tasks
  BY <1>1
<1> HIDE DEF t
<1>4. t \in Waiting /\ t \in Tasks
  BY <1>1, <1>3 DEF Waiting
<1>5. t.current => \A i \in 1..Len(ready) : ready[i].current
  BY <1>1, <1>3 DEF MovesInv, OrderOK
<1>6. ~t.current => DOMAIN owner = {}
  BY <1>1 DEF MovesInv, OrderOK
<1>7. ASSUME NEW i \in 1..Len(ready'), t.current PROVE ~SameRole(t, ready'[i])
  <2>1. i + 1 \in 1..Len(ready) /\ ready'[i] = ready[i + 1] /\ i + 1 # 1
    BY <1>2
  <2>2. ready[i + 1].current
    BY <1>5, <1>7, <2>1
  <2> QED BY <1>1, <1>7, <2>1, <2>2 DEF MovesInv, RolesOK
<1> QED BY <1>2, <1>4, <1>5, <1>6, <1>7 DEF t

LEMMA BegunAndGone ==
    ASSUME MovesInv, ready # <<>>, ready' = Tail(ready), UNCHANGED <<loads, caller, cancelled>>,
           NEW t, t = Head(ready)
    PROVE  TasksType' /\ InOrder' /\ RolesOK' /\ Waiting' \subseteq Waiting /\ Apart(t)'
<1>1. /\ t \in Waiting /\ t \in Tasks
      /\ ready' \in Seq(Tasks) /\ Len(ready') = Len(ready) - 1
      /\ \A i \in 1..Len(ready') : i + 1 \in 1..Len(ready) /\ ready'[i] = ready[i + 1]
      /\ t.current => \A i \in 1..Len(ready) : ready[i].current
      /\ \A i \in 1..Len(ready') : t.current => ~SameRole(t, ready'[i])
      /\ Len(ready) \in Nat /\ Len(ready') \in Nat /\ 1 \in 1..Len(ready) /\ t = ready[1]
  BY Begun DEF MovesInv, TasksType
<1>2. TasksType'
  BY <1>1 DEF MovesInv, TasksType
<1>3. InOrder'
  BY <1>1 DEF MovesInv, OrderOK, InOrder
<1>4. RolesOK'
  <2>1. ASSUME NEW i \in 1..Len(ready'), NEW j \in 1..Len(ready'),
               ready'[i].current, ready'[j].current, SameRole(ready'[i], ready'[j])
        PROVE  i = j
    <3>1. i + 1 = j + 1
      BY <1>1, <2>1 DEF MovesInv, RolesOK
    <3> QED BY <3>1
  <2> QED BY <1>1, <2>1 DEF MovesInv, RolesOK
<1>5. Waiting' \subseteq Waiting
  BY <1>1 DEF Waiting
<1>6. Apart(t)'
  <2>1. ASSUME NEW u \in Waiting', t.current, u.current, SameRole(t, u) PROVE FALSE
    <3>1. CASE \E i \in 1..Len(ready') : u = ready'[i]
      BY <1>1, <2>1, <3>1
    <3>2. CASE \E pl \in Plugins : caller[pl] # None /\ u = caller[pl]
      BY <1>1, <2>1, <3>2 DEF MovesInv, RolesOK
    <3>3. CASE u \in loads
      BY <1>1, <2>1, <3>3 DEF MovesInv, RolesOK, SameRole, TasksType, LoadTasks
    <3> QED BY <2>1, <3>1, <3>2, <3>3 DEF Waiting
  <2> QED BY <2>1 DEF Apart
<1> QED BY <1>2, <1>3, <1>4, <1>5, <1>6

LEMMA BegunAndLoading ==
    ASSUME MovesInv, ready # <<>>, ready' = Tail(ready), UNCHANGED <<caller, cancelled>>,
           Head(ready).kind = "load", loads' = loads \union {Head(ready)}
    PROVE  TasksType' /\ InOrder' /\ RolesOK' /\ Waiting' \subseteq Waiting
<1> DEFINE t == Head(ready)
<1>1. /\ t \in Waiting /\ t \in Tasks
      /\ ready' \in Seq(Tasks) /\ Len(ready') = Len(ready) - 1
      /\ \A i \in 1..Len(ready') : i + 1 \in 1..Len(ready) /\ ready'[i] = ready[i + 1]
      /\ t.current => \A i \in 1..Len(ready) : ready[i].current
      /\ \A i \in 1..Len(ready') : t.current => ~SameRole(t, ready'[i])
      /\ Len(ready) \in Nat /\ Len(ready') \in Nat /\ 1 \in 1..Len(ready) /\ t = ready[1]
  BY Begun DEF MovesInv, TasksType
<1>2. t.kind = "load" /\ loads' = loads \union {t} /\ t \in LoadTasks
  BY <1>1, TaskFacts
<1> HIDE DEF t
<1>3. TasksType'
  BY <1>1, <1>2 DEF MovesInv, TasksType
<1>4. InOrder'
  BY <1>1 DEF MovesInv, OrderOK, InOrder
<1>5. RolesOK'
  <2>1. ASSUME NEW i \in 1..Len(ready'), NEW j \in 1..Len(ready'),
               ready'[i].current, ready'[j].current, SameRole(ready'[i], ready'[j])
        PROVE  i = j
    <3>1. i + 1 = j + 1
      BY <1>1, <2>1 DEF MovesInv, RolesOK
    <3> QED BY <3>1
  <2>2. \A u \in loads : ~(t.current /\ u.current)
    BY <1>1, <1>2 DEF MovesInv, RolesOK
  <2>3. \A i \in 1..Len(ready') : t.current => ready'[i].kind # "load"
    BY <1>1, <1>2 DEF SameRole
  <2> QED BY <1>1, <1>2, <2>1, <2>2, <2>3 DEF MovesInv, RolesOK
<1>6. Waiting' \subseteq Waiting
  BY <1>1, <1>2 DEF Waiting
<1> QED BY <1>3, <1>4, <1>5, <1>6

LEMMA BegunAndCalling ==
    ASSUME MovesInv, ready # <<>>, ready' = Tail(ready), UNCHANGED loads,
           Head(ready).kind # "load", Calls(Head(ready))
    PROVE  TasksType' /\ InOrder' /\ RolesOK' /\ Waiting' \subseteq Waiting
<1> DEFINE t == Head(ready)
<1>1. /\ t \in Waiting /\ t \in Tasks
      /\ ready' \in Seq(Tasks) /\ Len(ready') = Len(ready) - 1
      /\ \A i \in 1..Len(ready') : i + 1 \in 1..Len(ready) /\ ready'[i] = ready[i + 1]
      /\ t.current => \A i \in 1..Len(ready) : ready[i].current
      /\ \A i \in 1..Len(ready') : t.current => ~SameRole(t, ready'[i])
      /\ Len(ready) \in Nat /\ Len(ready') \in Nat /\ 1 \in 1..Len(ready) /\ t = ready[1]
  BY Begun DEF MovesInv, TasksType
<1>2. /\ t \in SearchTasks \union ResolveTasks /\ t # None
      /\ PluginOf[t.provider] \in Plugins
      /\ cancelled' = cancelled
      /\ caller' = [caller EXCEPT ![PluginOf[t.provider]] = t]
  BY <1>1, TaskFacts, PluginAssumption DEF Calls
<1> HIDE DEF t
<1>3. TasksType'
  BY <1>1, <1>2 DEF MovesInv, TasksType
<1>a. /\ caller'[PluginOf[t.provider]] = t
      /\ \A pl \in Plugins \ {PluginOf[t.provider]} : caller'[pl] = caller[pl]
  BY <1>2 DEF MovesInv, TasksType
<1>4. InOrder'
  BY <1>1, <1>a DEF MovesInv, OrderOK, InOrder
<1>5. RolesOK'
  <2>1. ASSUME NEW i \in 1..Len(ready'), NEW j \in 1..Len(ready'),
               ready'[i].current, ready'[j].current, SameRole(ready'[i], ready'[j])
        PROVE  i = j
    <3>1. i + 1 = j + 1
      BY <1>1, <2>1 DEF MovesInv, RolesOK
    <3> QED BY <3>1
  <2>2. \A i \in 1..Len(ready'), pl \in Plugins :
            ~(/\ caller'[pl] # None /\ ready'[i].current /\ caller'[pl].current
              /\ SameRole(ready'[i], caller'[pl]))
    BY <1>1, <1>a DEF MovesInv, RolesOK, SameRole
  <2> QED BY <1>1, <2>1, <2>2 DEF MovesInv, RolesOK
<1>6. Waiting' \subseteq Waiting
  BY <1>1, <1>a DEF Waiting
<1> QED BY <1>3, <1>4, <1>5, <1>6

\* Two calls of the same role are of the same plugin.
LEMMA Returned ==
    ASSUME MovesInv, AwaitedOK, NEW pl \in Plugins, Returns(pl),
           NEW t, t = caller[pl]
    PROVE  /\ t \in Waiting /\ t \in SearchTasks \union ResolveTasks
           /\ TasksType' /\ InOrder' /\ RolesOK' /\ Waiting' \subseteq Waiting /\ Apart(t)'
           /\ t.current => \A i \in 1..Len(ready) : ready[i].current
<1>1. /\ t # None /\ t \in SearchTasks \union ResolveTasks /\ t \in Waiting
      /\ UNCHANGED <<ready, loads>>
      /\ caller'[pl] = None /\ \A q \in Plugins \ {pl} : caller'[q] = caller[q]
  BY DEF Returns, MovesInv, TasksType, Waiting
<1>2. TasksType'
  BY <1>1 DEF Returns, MovesInv, TasksType
<1>3. InOrder' /\ RolesOK' /\ Waiting' \subseteq Waiting
  BY <1>1 DEF MovesInv, OrderOK, InOrder, RolesOK, Waiting
<1>4. ASSUME NEW u \in Waiting', t.current, u.current, SameRole(t, u) PROVE FALSE
  <2>1. CASE \E i \in 1..Len(ready) : u = ready[i]
    BY <1>1, <1>4, <2>1 DEF MovesInv, RolesOK, SameRole
  <2>2. CASE u \in loads
    BY <1>1, <1>4, <2>2 DEF SameRole, MovesInv, TasksType, LoadTasks, SearchTasks, ResolveTasks
  <2>3. ASSUME NEW q \in Plugins \ {pl}, u = caller[q], u # None PROVE FALSE
    <3>1. PluginOf[u.provider] = q /\ PluginOf[t.provider] = pl /\ u \in Waiting
      BY <1>1, <2>3 DEF MovesInv, CallsOK, Waiting
    <3>2. Awaited(t) /\ Awaited(u)
      BY <1>1, <1>4, <3>1 DEF AwaitedOK
    <3>3. t.kind = u.kind /\ t.kind \in {"search", "resolve"}
      BY <1>1, <1>4 DEF SameRole, SearchTasks, ResolveTasks
    <3>4. t.provider = u.provider
      BY <1>4, <3>2, <3>3 DEF SameRole, Awaited
    <3> QED BY <2>3, <3>1, <3>4
  <2> QED BY <1>1, <1>4, <2>1, <2>2, <2>3 DEF Waiting
<1>5. t.current => \A i \in 1..Len(ready) : ready[i].current
  BY <1>1 DEF MovesInv, OrderOK
<1> QED BY <1>1, <1>2, <1>3, <1>4, <1>5 DEF Apart

-----------------------------------------------------------------------------
\* The page.  What an answer to the coroutine t makes of it.
LEMMA LoadingCount ==
    ASSUME PageType, PageOK
    PROVE  /\ IsFiniteSet(LoadingOnes)
           /\ pending = 0 <=> LoadingOnes = {}
<1>1. IsFiniteSet(LoadingOnes)
  BY PluginAssumption, FS_Subset DEF LoadingOnes
<1> QED BY <1>1, FS_EmptySet DEF PageOK

\* An answer to t does no harm to the others the page waits for.
Spares(t) == \A u \in Tasks : u.current /\ Awaited(u) /\ ~SameRole(t, u) => Awaited(u)'

LEMMA SearchAnswer ==
    ASSUME PageType, PageOK, NEW t \in SearchTasks, t.current, Awaited(t),
           NEW ok, NEW hs \in SUBSET Handles, hs \intersect DOMAIN owner = {},
           SearchAnswered(t, ok, hs)
    PROVE  /\ PageType' /\ PageOK' /\ Spares(t)
           /\ DOMAIN owner' = hs \union DOMAIN owner
           /\ \A h \in hs : owner'[h] = t.provider
           /\ \A h \in DOMAIN owner : owner'[h] = owner[h]
           /\ t.episode = query /\ query' = query /\ opened' = opened
           /\ \A h \in DOMAIN owner : owner[h] # t.provider
<1> DEFINE p == t.provider
<1>1. /\ p \in Providers /\ t.kind = "search" /\ t.episode = query /\ query # None
      /\ p \in LoadingOnes
  BY NoneAssumption DEF SearchTasks, Awaited, LoadingOnes
<1>2. pending \in Nat \ {0} /\ playing = None /\ ~loading
  BY <1>1, LoadingCount DEF PageType, PageOK
<1>3. /\ pending' = pending - 1
      /\ status' = [status EXCEPT ![p] = IF ~ok THEN "error" ELSE IF hs = {} THEN "empty" ELSE "ready"]
      /\ results' = [results EXCEPT ![p] = hs]
      /\ owner' = Inserted([h \in hs |-> p], owner)
      /\ UNCHANGED <<query, loading, selected, playing, opened>>
  BY <1>2 DEF SearchAnswered, ProviderAnswered
<1> HIDE DEF p
<1>4. /\ DOMAIN owner' = hs \union DOMAIN owner
      /\ \A h \in hs : owner'[h] = p
      /\ \A h \in DOMAIN owner : owner'[h] = owner[h]
      /\ owner' \in [DOMAIN owner' -> Providers]
  BY <1>1, <1>3 DEF Inserted, PageType
<1>5. \A h \in DOMAIN owner : owner[h] # p
  BY <1>1 DEF PageOK, PageType
<1>6. /\ status' \in [Providers -> Statuses] /\ status'[p] \in {"error", "empty", "ready"}
      /\ \A q \in Providers \ {p} : status'[q] = status[q]
  BY <1>1, <1>3 DEF PageType, Statuses
<1>7. /\ results' \in [Providers -> SUBSET Handles] /\ results'[p] = hs
      /\ \A q \in Providers \ {p} : results'[q] = results[q]
  BY <1>1, <1>3 DEF PageType
<1>8. PageType'
  BY <1>2, <1>3, <1>4, <1>6, <1>7 DEF PageType
<1>9. LoadingOnes' = LoadingOnes \ {p}
  BY <1>1, <1>6 DEF LoadingOnes
<1>10. pending' = Cardinality(LoadingOnes')
  BY <1>1, <1>2, <1>3, <1>9, LoadingCount, FS_RemoveElement DEF PageOK
<1>11. \A q \in Providers, h \in Handles :
          h \in results'[q] <=> h \in DOMAIN owner' /\ owner'[h] = q
  BY <1>1, <1>4, <1>5, <1>7 DEF PageOK
<1>12. PageOK'
  BY <1>1, <1>2, <1>3, <1>7, <1>9, <1>10, <1>11 DEF PageOK
<1>13. Spares(t)
  <2> SUFFICES ASSUME NEW u \in Tasks, u.current, Awaited(u), ~SameRole(t, u)
               PROVE  Awaited(u)'
    BY DEF Spares
  <2>1. u.kind = "search" /\ u.provider \in Providers \ {p}
    BY <1>1, <1>2, TaskFacts, NoneAssumption DEF Awaited, SameRole, p
  <2> QED BY <1>3, <1>6, <2>1 DEF Awaited
<1> QED BY <1>1, <1>3, <1>4, <1>5, <1>8, <1>12, <1>13 DEF p

LEMMA ResolveAnswer ==
    ASSUME PageType, PageOK, NEW t \in ResolveTasks, t.current, Awaited(t),
           NEW answer, ResolveAnswered(t, answer)
    PROVE  /\ PageType' /\ PageOK' /\ Spares(t)
           /\ DOMAIN owner' \subseteq DOMAIN owner
           /\ \A h \in DOMAIN owner' : owner'[h] = owner[h]
           /\ answer = "expired" => t.handle \notin DOMAIN owner'
           /\ query' = query /\ opened' \in {opened, t.handle}
           /\ playing = t.handle /\ t.handle \in DOMAIN owner
<1> DEFINE p == t.provider
<1>1. /\ p \in Providers /\ t.kind = "resolve" /\ t.handle \in Handles
      /\ playing = t.handle /\ t.handle \in DOMAIN owner /\ owner[t.handle] = p
      /\ playing # None
  BY NoneAssumption DEF ResolveTasks, Awaited
<1>2. pending = 0 /\ LoadingOnes = {} /\ query # None
  BY <1>1, LoadingCount DEF PageOK
<1>3. /\ playing' = None /\ opened' \in {opened, t.handle}
      /\ UNCHANGED <<query, loading, selected, pending>>
      /\ IF answer = "expired" THEN DropResults(p) ELSE UNCHANGED <<status, results, owner>>
  BY <1>1 DEF ResolveAnswered, PlayAnswered
<1>4. Spares(t)
  <2> SUFFICES ASSUME NEW u \in Tasks, u.current, Awaited(u), ~SameRole(t, u)
               PROVE  Awaited(u)'
    BY DEF Spares
  <2>1. u.kind = "load"
    BY <1>1, <1>2, TaskFacts DEF Awaited, SameRole, LoadingOnes
  <2> QED BY <1>3, <2>1 DEF Awaited
<1> HIDE DEF p
<1>5. CASE answer = "expired"
  <2>1. /\ status' = [status EXCEPT ![p] = "error"]
        /\ results' = [results EXCEPT ![p] = {}]
        /\ owner' = Restrict(owner, DOMAIN owner \ results[p])
    BY <1>3, <1>5 DEF DropResults
  <2>2. /\ DOMAIN owner' = DOMAIN owner \ results[p]
        /\ \A h \in DOMAIN owner' : owner'[h] = owner[h]
        /\ owner' \in [DOMAIN owner' -> Providers]
    BY <2>1 DEF Restrict, PageType
  <2>3. /\ status' \in [Providers -> Statuses] /\ status'[p] = "error"
        /\ \A q \in Providers \ {p} : status'[q] = status[q]
    BY <1>1, <2>1 DEF PageType, Statuses
  <2>4. /\ results' \in [Providers -> SUBSET Handles] /\ results'[p] = {}
        /\ \A q \in Providers \ {p} : results'[q] = results[q]
    BY <1>1, <2>1 DEF PageType
  <2>5. PageType'
    BY <1>1, <1>3, <2>2, <2>3, <2>4 DEF PageType
  <2>6. LoadingOnes' = {}
    BY <1>2, <2>3 DEF LoadingOnes
  <2>7. \A q \in Providers, h \in Handles :
            h \in results'[q] <=> h \in DOMAIN owner' /\ owner'[h] = q
    BY <1>1, <2>2, <2>4 DEF PageOK
  <2>8. PageOK'
    BY <1>2, <1>3, <2>6, <2>7, FS_EmptySet DEF PageOK
  <2>9. t.handle \in results[p]
    BY <1>1 DEF PageOK
  <2> QED BY <1>1, <1>3, <1>4, <2>2, <2>5, <2>8, <2>9
<1>6. CASE answer # "expired"
  <2>1. UNCHANGED <<status, results, owner>>
    BY <1>3, <1>6
  <2>2. PageType' /\ PageOK'
    BY <1>1, <1>3, <2>1 DEF PageType, PageOK, LoadingOnes
  <2> QED BY <1>1, <1>3, <1>4, <1>6, <2>1, <2>2
<1> QED BY <1>5, <1>6

LEMMA LoadAnswer ==
    ASSUME PageType, PageOK, NEW t \in LoadTasks, t.current, Awaited(t), LoadAnswered(t)
    PROVE  PageType' /\ PageOK' /\ Spares(t) /\ DOMAIN owner' = {} /\ opened' = opened
<1>1. loading /\ t.kind = "load" /\ t.episode \in Episodes
  BY DEF LoadTasks, Awaited
<1>2. query = None /\ DOMAIN owner = {} /\ pending = 0 /\ playing = None /\ LoadingOnes = {}
  BY <1>1, LoadingCount DEF PageOK
<1>3. /\ loading' = FALSE /\ query' \in Episodes \union {None}
      /\ UNCHANGED <<selected, status, results, owner, pending, playing, opened>>
  BY <1>1 DEF LoadAnswered
<1>4. PageType' /\ PageOK'
  BY <1>2, <1>3 DEF PageType, PageOK, LoadingOnes
<1>5. Spares(t)
  BY <1>1, <1>2, <1>3, TaskFacts, NoneAssumption DEF Spares, Awaited, SameRole, LoadingOnes
<1> QED BY <1>2, <1>3, <1>4, <1>5

\* A coroutine moves on and the page does not know.
LEMMA PageKept ==
    ASSUME IInv, UNCHANGED page, Waiting' \subseteq Waiting, InOrder',
           \A i \in 1..Len(ready') : \E j \in 1..Len(ready) : ready'[i] = ready[j]
    PROVE  PageType' /\ PageOK' /\ OrderOK' /\ AwaitedOK'
<1>1. PageType' /\ PageOK'
  BY DEF IInv, page, PageType, PageOK, LoadingOnes
<1>2. OrderOK'
  BY DEF IInv, page, OrderOK, InOrder
<1>3. AwaitedOK'
  BY DEF IInv, page, AwaitedOK, Awaited
<1> QED BY <1>1, <1>2, <1>3

\* After a coroutine has moved on and the page knows of it, everybody else the
\* page waits for is still on its way.
LEMMA AfterAnswer ==
    ASSUME IInv, NEW t \in Waiting,
           Waiting' \subseteq Waiting, InOrder', Apart(t)',
           \A i \in 1..Len(ready') : \E j \in 1..Len(ready) : ready'[i] = ready[j],
           t.current => \A i \in 1..Len(ready) : ready[i].current,
           \/ UNCHANGED page
           \/ t.current /\ PageType' /\ PageOK' /\ Spares(t)
    PROVE  PageType' /\ PageOK' /\ OrderOK' /\ AwaitedOK'
<1>1. Waiting \subseteq Tasks
  BY WaitingTasks DEF IInv
<1>2. CASE UNCHANGED page
  BY <1>2, PageKept
<1>3. CASE t.current /\ PageType' /\ PageOK' /\ Spares(t)
  <2>1. OrderOK'
    BY <1>3 DEF OrderOK, InOrder
  <2>2. ASSUME NEW u \in Waiting', u.current PROVE Awaited(u)'
    <3>1. u \in Tasks /\ Awaited(u) /\ ~SameRole(t, u)
      BY <1>1, <1>3, <2>2 DEF IInv, AwaitedOK, Apart
    <3> QED BY <1>3, <2>2, <3>1 DEF Spares
  <2>3. AwaitedOK'
    BY <2>2 DEF AwaitedOK
  <2> QED BY <1>3, <2>1, <2>3
<1> QED BY <1>2, <1>3

-----------------------------------------------------------------------------
\* What the user does.
LEMMA StaleTask ==
    /\ Stale(None) = None
    /\ \A t \in LoadTasks : Stale(t) \in LoadTasks /\ ~Stale(t).current
    /\ \A t \in SearchTasks : /\ Stale(t) \in SearchTasks /\ ~Stale(t).current
                              /\ Key(Stale(t)) = Key(t) /\ Stale(t).provider = t.provider
    /\ \A t \in ResolveTasks : /\ Stale(t) \in ResolveTasks /\ ~Stale(t).current
                               /\ Stale(t).provider = t.provider
<1>1. \A t \in Tasks : t # None
  BY NoneAssumption
<1> QED BY <1>1 DEF Stale, Key, Tasks, LoadTasks, SearchTasks, ResolveTasks

LEMMA NewContextMoves ==
    ASSUME TasksType, CallsOK, NEW new,
           new = <<>> \/ \E e \in Episodes : new = <<Load(e)>>,
           NewContext(new), cancelled' \in [Plugins -> BOOLEAN], UNCHANGED cache,
           DOMAIN owner' = {}
    PROVE  /\ TasksType' /\ CallsOK' /\ OrderOK' /\ RolesOK'
           /\ \A u \in Waiting' : u.current => u.kind = "load" /\ new # <<>>
<1> DEFINE old == [i \in DOMAIN ready |-> Stale(ready[i])]
           n == Len(ready)
<1>1. n \in Nat /\ DOMAIN ready = 1..n /\ \A i \in 1..n : ready[i] \in Tasks
  BY DEF TasksType
<1>2. \A i \in 1..n : Stale(ready[i]) \in Tasks /\ ~Stale(ready[i]).current
  BY <1>1, StaleTask DEF Tasks
<1>3. old \in Seq(Tasks) /\ Len(old) = n /\ \A i \in 1..n : ~old[i].current
  BY <1>1, <1>2
<1>4. /\ new \in Seq(LoadTasks) /\ new \in Seq(Tasks) /\ Len(new) \in {0, 1}
      /\ Len(new) = 1 => new # <<>> /\ new[1].current /\ new[1].kind = "load"
  <2>1. \A e \in Episodes : Load(e) \in LoadTasks /\ Load(e).current /\ Load(e).kind = "load"
    BY DEF Load, LoadTasks
  <2> HIDE DEF Load
  <2>2. CASE new = <<>>
    BY <2>2
  <2>3. ASSUME NEW e \in Episodes, new = <<Load(e)>>
        PROVE  /\ new \in Seq(LoadTasks) /\ Len(new) = 1 /\ new # <<>>
               /\ new[1].current /\ new[1].kind = "load"
    BY <2>1, <2>3
  <2>4. LoadTasks \subseteq Tasks
    BY DEF Tasks
  <2> QED BY <2>2, <2>3, <2>4
<1>5. ready' = old \o new
  BY DEF NewContext
<1> HIDE DEF old, n
<1>6. /\ ready' \in Seq(Tasks) /\ Len(ready') = n + Len(new)
      /\ \A i \in 1..n : ~ready'[i].current
      /\ Len(new) = 1 => ready'[n + 1].current /\ ready'[n + 1].kind = "load"
      /\ \A i \in 1..Len(ready') : i \in 1..n \/ (i = n + 1 /\ Len(new) = 1)
  BY <1>1, <1>3, <1>4, <1>5
<1>7. /\ loads' \subseteq LoadTasks /\ \A u \in loads' : ~u.current
  BY StaleTask DEF NewContext, TasksType
<1>8. /\ caller' \in [Plugins -> SearchTasks \union ResolveTasks \union {None}]
      /\ \A pl \in Plugins : caller'[pl] # None =>
            /\ caller[pl] # None /\ ~caller'[pl].current
            /\ caller'[pl].provider = caller[pl].provider
            /\ caller'[pl].kind = "search" =>
                  caller[pl].kind = "search" /\ Key(caller'[pl]) = Key(caller[pl])
  <2>1. \A pl \in Plugins : caller'[pl] = Stale(caller[pl])
    BY DEF NewContext
  <2>2. ASSUME NEW pl \in Plugins
        PROVE  /\ caller'[pl] \in SearchTasks \union ResolveTasks \union {None}
               /\ caller'[pl] # None =>
                    /\ caller[pl] # None /\ ~caller'[pl].current
                    /\ caller'[pl].provider = caller[pl].provider
                    /\ caller'[pl].kind = "search" =>
                          caller[pl].kind = "search" /\ Key(caller'[pl]) = Key(caller[pl])
    <3>1. CASE caller[pl] = None
      BY <2>1, <3>1, StaleTask
    <3>2. CASE caller[pl] \in SearchTasks
      BY <2>1, <3>2, StaleTask, NoneAssumption DEF SearchTasks, Tasks
    <3>3. CASE caller[pl] \in ResolveTasks
      BY <2>1, <3>3, StaleTask, NoneAssumption DEF ResolveTasks, Tasks
    <3> QED BY <3>1, <3>2, <3>3 DEF TasksType
  <2>3. caller' = [pl \in Plugins |-> Stale(caller[pl])]
    BY DEF NewContext
  <2> QED BY <2>2, <2>3
<1>9. TasksType'
  BY <1>6, <1>7, <1>8 DEF TasksType
<1>10. CallsOK'
  BY <1>8 DEF CallsOK
<1>11. OrderOK'
  BY <1>1, <1>6, <1>8 DEF OrderOK
<1>12. RolesOK'
  BY <1>1, <1>6, <1>7, <1>8 DEF RolesOK
<1>13. \A u \in Waiting' : u.current => u.kind = "load" /\ new # <<>>
  BY <1>4, <1>6, <1>7, <1>8 DEF Waiting
<1> QED BY <1>9, <1>10, <1>11, <1>12, <1>13

LEMMA LeavesTheEpisode ==
    ASSUME IInv, (\E e \in Episodes : OpenEpisode(e)) \/ Clear
    PROVE  IInv'
<1>1. PICK new : /\ new = <<>> \/ \E e \in Episodes : new = <<Load(e)>>
                 /\ NewContext(new) /\ loading' = (new # <<>>)
  <2>1. ASSUME NEW e \in Episodes, OpenEpisode(e) PROVE <<Load(e)>> # <<>> /\ loading'
    BY <2>1 DEF OpenEpisode
  <2>2. \A e \in Episodes : OpenEpisode(e) => NewContext(<<Load(e)>>)
    BY DEF OpenEpisode
  <2>3. Clear => NewContext(<<>>) /\ ~loading'
    BY DEF Clear
  <2>4. loading' \in BOOLEAN
    BY DEF OpenEpisode, Clear
  <2> QED BY <2>1, <2>2, <2>3, <2>4
<1>2. /\ CancelActive /\ ResetResults /\ query' = None
      /\ pending' = 0 /\ playing' = None /\ opened' = None
      /\ UNCHANGED <<selected, cache>>
  BY DEF OpenEpisode, Clear
<1>3. /\ status' = [p \in Providers |-> "idle"]
      /\ results' = [p \in Providers |-> {}]
      /\ DOMAIN owner' = {} /\ owner' \in [DOMAIN owner' -> Providers]
  BY <1>2 DEF ResetResults
<1>4. PageType'
  BY <1>1, <1>2, <1>3 DEF IInv, PageType, Statuses
<1>5. PageOK'
  <2>1. LoadingOnes' = {}
    BY <1>3 DEF LoadingOnes
  <2> QED BY <1>1, <1>2, <1>3, <2>1, FS_EmptySet DEF PageOK
<1>6. cancelled' \in [Plugins -> BOOLEAN]
  BY <1>2 DEF CancelActive, IInv, TasksType
<1>7. /\ TasksType' /\ CallsOK' /\ OrderOK' /\ RolesOK'
      /\ \A u \in Waiting' : u.current => u.kind = "load" /\ new # <<>>
  BY <1>1, <1>2, <1>3, <1>6, NewContextMoves DEF IInv
<1>8. AwaitedOK'
  BY <1>1, <1>7 DEF AwaitedOK, Awaited
<1>9. ShownIsCached' /\ CacheOK(cache)'
  BY <1>2, <1>3 DEF ShownIsCached, IInv
<1> QED BY <1>4, <1>5, <1>7, <1>8, <1>9 DEF IInv

\* A page that is not busy waits for nobody.
LEMMA NobodyAwaited ==
    ASSUME IInv, ~Busy
    PROVE  /\ \A u \in Waiting : ~u.current
           /\ ~loading /\ pending = 0 /\ LoadingOnes = {} /\ playing = None
<1>1. ~loading /\ pending = 0 /\ playing = None
  BY DEF Busy, IInv, PageType
<1>2. LoadingOnes = {}
  BY <1>1, LoadingCount DEF IInv
<1>3. \A u \in Waiting : ~u.current
  <2> SUFFICES ASSUME NEW u \in Waiting, u.current PROVE FALSE
    OBVIOUS
  <2>1. u \in Tasks /\ Awaited(u)
    BY WaitingTasks DEF IInv, AwaitedOK
  <2> QED BY <1>1, <1>2, <2>1, TaskFacts, NoneAssumption DEF Awaited, LoadingOnes
<1> QED BY <1>1, <1>2, <1>3

\* Appends coroutines that are current and have no role in common.
LEMMA Spawned ==
    ASSUME IInv, ~Busy, NEW new \in Seq(Tasks),
           \A i \in 1..Len(new) : new[i].current,
           \A i, j \in 1..Len(new) : SameRole(new[i], new[j]) => i = j,
           (\E i \in 1..Len(ready) : ~ready[i].current) => DOMAIN owner' = {},
           ready' = ready \o new, UNCHANGED <<loads, caller, cancelled>>
    PROVE  /\ TasksType' /\ OrderOK' /\ RolesOK'
           /\ \A u \in Waiting' : u.current => \E i \in 1..Len(new) : u = new[i]
<1> DEFINE n == Len(ready)
<1>1. n \in Nat /\ Len(new) \in Nat /\ ready \in Seq(Tasks)
  BY DEF IInv, TasksType
<1>2. /\ ready' \in Seq(Tasks) /\ Len(ready') = n + Len(new)
      /\ \A i \in 1..n : ready'[i] = ready[i]
      /\ \A i \in 1..Len(ready') : i \notin 1..n =>
            i - n \in 1..Len(new) /\ ready'[i] = new[i - n]
  BY <1>1
<1>3. /\ \A i \in 1..n : ~ready[i].current
      /\ \A pl \in Plugins : caller[pl] # None => ~caller[pl].current
      /\ \A u \in loads : ~u.current
  BY NobodyAwaited DEF Waiting
<1> HIDE DEF n
<1>4. TasksType'
  BY <1>2 DEF IInv, TasksType
<1>5. OrderOK'
  <2>1. \A i \in 1..Len(ready') : ready'[i].current <=> i \notin 1..n
    BY <1>2, <1>3
  <2> QED BY <1>1, <1>2, <1>3, <2>1 DEF OrderOK, n
<1>6. RolesOK'
  <2>1. ASSUME NEW i \in 1..Len(ready'), NEW j \in 1..Len(ready'),
               ready'[i].current, ready'[j].current, SameRole(ready'[i], ready'[j])
        PROVE  i = j
    <3>1. i \notin 1..n /\ j \notin 1..n
      BY <1>2, <1>3, <2>1
    <3>2. i - n = j - n
      BY <1>2, <2>1, <3>1
    <3> QED BY <1>1, <3>2
  <2> QED BY <1>3, <2>1 DEF RolesOK, IInv
<1>7. \A u \in Waiting' : u.current => \E i \in 1..Len(new) : u = new[i]
  BY <1>2, <1>3 DEF Waiting
<1> QED BY <1>4, <1>5, <1>6, <1>7

LEMMA SearchesSelected == ASSUME IInv, SearchSelected PROVE IInv'
<1>1. PICK f \in Orders(selected) :
         ready' = ready \o [i \in DOMAIN f |-> Search(f[i], query)]
  BY DEF SearchSelected
<1>2. /\ query \in Episodes /\ ~Busy /\ selected \subseteq Providers
      /\ owner' = <<>> /\ pending' = Cardinality(selected)
      /\ results' = [p \in Providers |-> {}]
      /\ status' = [p \in Providers |-> IF p \in selected THEN "loading" ELSE "idle"]
      /\ opened' = None
      /\ UNCHANGED <<query, loading, selected, playing, cache, loads, caller, cancelled>>
  BY DEF SearchSelected, IInv, PageType
<1>3. ~loading /\ playing = None
  BY <1>2, NobodyAwaited
<1>4. IsFiniteSet(selected)
  BY <1>2, PluginAssumption, FS_Subset
<1> DEFINE n == Cardinality(selected)
           new == [i \in DOMAIN f |-> Search(f[i], query)]
<1>5. n \in Nat /\ f \in [1..n -> selected] /\ Range(f) = selected
  BY <1>4, FS_CardinalityType DEF Orders
<1>6. \A i, j \in 1..n : f[i] = f[j] => i = j
  <2>1. f \in Surjection(1..n, selected)
    BY <1>5 DEF Surjection, Range
  <2>2. IsFiniteSet(1..n) /\ Cardinality(1..n) = n
    BY <1>5, FS_Interval
  <2>3. f \in Injection(1..n, selected)
    BY <1>5, <2>1, <2>2, FS_SurjSameCardinalityImpliesInj
  <2> QED BY <2>3 DEF Injection, IsInjective
<1>7. \A i \in 1..n : /\ Search(f[i], query) \in SearchTasks
                      /\ Search(f[i], query).current /\ Search(f[i], query).kind = "search"
                      /\ Search(f[i], query).provider = f[i]
                      /\ Search(f[i], query).episode = query
  BY <1>2, <1>5 DEF Search, SearchTasks
<1>8. /\ new \in Seq(Tasks) /\ Len(new) = n
      /\ \A i \in 1..n : /\ new[i].current /\ new[i].kind = "search" /\ new[i].provider = f[i]
                         /\ new[i].episode = query /\ f[i] \in selected
  BY <1>5, <1>7 DEF Tasks
<1> HIDE DEF new
<1>9. \A i, j \in 1..Len(new) : SameRole(new[i], new[j]) => i = j
  BY <1>6, <1>8 DEF SameRole
<1>10. DOMAIN owner' = {} /\ owner' \in [DOMAIN owner' -> Providers]
  BY <1>2
<1>11. /\ TasksType' /\ OrderOK' /\ RolesOK'
       /\ \A u \in Waiting' : u.current => \E i \in 1..Len(new) : u = new[i]
  BY <1>1, <1>2, <1>8, <1>9, <1>10, Spawned DEF new
<1>12. status' \in [Providers -> Statuses] /\ LoadingOnes' = selected
  BY <1>2 DEF Statuses, LoadingOnes
<1>13. PageType'
  BY <1>2, <1>5, <1>10, <1>12 DEF IInv, PageType
<1>14. PageOK'
  BY <1>2, <1>3, <1>10, <1>12, NoneAssumption DEF PageOK
<1>15. AwaitedOK'
  BY <1>2, <1>8, <1>11 DEF AwaitedOK, Awaited
<1>16. CacheOK(cache)' /\ CallsOK' /\ ShownIsCached'
  BY <1>2, <1>10 DEF IInv, CallsOK, ShownIsCached
<1> QED BY <1>11, <1>13, <1>14, <1>15, <1>16 DEF IInv

LEMMA PlaysOnline == ASSUME IInv, NEW h \in DOMAIN owner, PlayOnline(h) PROVE IInv'
<1> DEFINE t == Resolve(owner[h], h)
           new == <<t>>
<1>1. /\ ~Busy /\ h \in Handles /\ owner[h] \in Providers /\ query # None
      /\ playing' = h /\ ready' = Append(ready, t) /\ opened' = None
      /\ UNCHANGED <<query, loading, selected, status, results, owner, pending,
                     cache, loads, caller, cancelled>>
  BY DEF PlayOnline, IInv, PageType, PageOK
<1>2. t \in ResolveTasks /\ t.current /\ t.handle = h /\ t.provider = owner[h]
      /\ t.kind = "resolve"
  BY <1>1 DEF Resolve, ResolveTasks
<1> HIDE DEF t
<1>3. new \in Seq(Tasks) /\ Len(new) = 1 /\ new[1] = t /\ ready' = ready \o new
  BY <1>1, <1>2, SMTT(20) DEF Tasks, IInv, TasksType
<1> HIDE DEF new
<1>4. \A i \in 1..Len(ready) : ready[i].current
  BY DEF IInv, OrderOK
<1>5. /\ TasksType' /\ OrderOK' /\ RolesOK'
      /\ \A u \in Waiting' : u.current => u = t
  <2>1. \A i \in 1..Len(new) : i = 1 /\ new[i] = t
    BY <1>3
  <2>2. /\ \A i \in 1..Len(new) : new[i].current
        /\ \A i, j \in 1..Len(new) : SameRole(new[i], new[j]) => i = j
    BY <1>2, <2>1
  <2>3. /\ TasksType' /\ OrderOK' /\ RolesOK'
        /\ \A u \in Waiting' : u.current => \E i \in 1..Len(new) : u = new[i]
    BY <1>1, <1>3, <1>4, <2>2, Spawned
  <2> QED BY <2>1, <2>3
<1>6. ~loading /\ pending = 0
  BY <1>1, NobodyAwaited
<1>7. PageType' /\ PageOK'
  BY <1>1, <1>6 DEF IInv, PageType, PageOK, LoadingOnes
<1>8. AwaitedOK'
  BY <1>1, <1>2, <1>5 DEF AwaitedOK, Awaited
<1>9. CacheOK(cache)' /\ CallsOK' /\ ShownIsCached'
  BY <1>1 DEF IInv, CallsOK, ShownIsCached, FoundFor
<1> QED BY <1>5, <1>7, <1>8, <1>9 DEF IInv

-----------------------------------------------------------------------------
\* An answer, with what the service has done to the cache.
Moves(t) ==
    /\ t \in Waiting
    /\ TasksType' /\ InOrder' /\ RolesOK' /\ Waiting' \subseteq Waiting /\ Apart(t)'
    /\ \A i \in 1..Len(ready') : \E j \in 1..Len(ready) : ready'[i] = ready[j]
    /\ t.current => \A i \in 1..Len(ready) : ready[i].current

LEMMA SearchDone ==
    ASSUME IInv, NEW t \in SearchTasks, (Moves(t)), NEW ok, NEW hs \in SUBSET Handles,
           SearchAnswered(t, ok, hs),
           CacheOK(cache'), CallsOK', hs \intersect DOMAIN owner = {},
           \A k \in DOMAIN cache.searches \ {Key(t)} :
              /\ k \in DOMAIN cache'.searches
              /\ cache'.searches[k].handles = cache.searches[k].handles
              /\ \A h \in cache.searches[k].handles :
                    h \in DOMAIN cache.playables => h \in DOMAIN cache'.playables,
           hs # {} => /\ Key(t) \in DOMAIN cache'.searches
                      /\ hs \subseteq cache'.searches[Key(t)].handles
                      /\ hs \subseteq DOMAIN cache'.playables,
           t.current \/ DOMAIN owner = {} \/ Key(t) \notin DOMAIN cache.searches
    PROVE  IInv' /\ opened' = opened
<1>1. CASE ~t.current
  <2>1. UNCHANGED page
    BY <1>1 DEF SearchAnswered
  <2>2. PageType' /\ PageOK' /\ OrderOK' /\ AwaitedOK'
    BY <2>1, AfterAnswer DEF Moves
  <2>3. ShownIsCached'
    BY <1>1, <2>1 DEF IInv, ShownIsCached, FoundFor, page
  <2> QED BY <2>1, <2>2, <2>3 DEF IInv, page, Moves
<1>2. CASE t.current
  <2>1. Awaited(t)
    BY <1>2 DEF IInv, AwaitedOK, Moves
  <2>2. /\ PageType' /\ PageOK' /\ Spares(t)
        /\ DOMAIN owner' = hs \union DOMAIN owner
        /\ \A h \in hs : owner'[h] = t.provider
        /\ \A h \in DOMAIN owner : owner'[h] = owner[h]
        /\ t.episode = query /\ query' = query /\ opened' = opened
        /\ \A h \in DOMAIN owner : owner[h] # t.provider
    BY <1>2, <2>1, SearchAnswer DEF IInv
  <2>3. OrderOK' /\ AwaitedOK'
    BY <1>2, <2>2, AfterAnswer DEF Moves
  <2>4. ASSUME NEW h \in DOMAIN owner'
        PROVE  /\ <<owner'[h], query'>> \in DOMAIN cache'.searches
               /\ h \in cache'.searches[<<owner'[h], query'>>].handles
               /\ h \in DOMAIN cache'.playables
    <3>1. CASE h \in hs
      BY <2>2, <3>1 DEF Key
    <3>2. CASE h \in DOMAIN owner
      <4>1. <<owner[h], query>> # Key(t) /\ owner'[h] = owner[h]
        BY <2>2, <3>2 DEF Key
      <4>2. FoundFor(h, owner[h], query) /\ h \in DOMAIN cache.playables
        BY <3>2 DEF IInv, ShownIsCached
      <4> QED BY <2>2, <4>1, <4>2 DEF FoundFor
    <3> QED BY <2>2, <3>1, <3>2
  <2>5. ShownIsCached'
    BY <2>4 DEF ShownIsCached, FoundFor
  <2> QED BY <2>2, <2>3, <2>5 DEF IInv, Moves
<1> QED BY <1>1, <1>2

\* What is opened has been found for the episode on the page.
Opens ==
    opened' \notin {opened, None} =>
        \E p \in Providers : query # None /\ FoundFor(opened', p, query)

LEMMA ResolveDone ==
    ASSUME IInv, NEW t \in ResolveTasks, (Moves(t)), NEW answer, ResolveAnswered(t, answer),
           CacheOK(cache'), CallsOK', SameSearches(cache, cache'),
           DOMAIN cache.playables \ {t.handle} \subseteq DOMAIN cache'.playables,
           \/ DOMAIN cache.playables \subseteq DOMAIN cache'.playables
           \/ IF t.current THEN answer = "expired" ELSE DOMAIN owner = {}
    PROVE  IInv' /\ Opens
<1>1. CASE ~t.current
  <2>1. UNCHANGED page
    BY <1>1 DEF ResolveAnswered
  <2>2. PageType' /\ PageOK' /\ OrderOK' /\ AwaitedOK'
    BY <2>1, AfterAnswer DEF Moves
  <2>3. ShownIsCached'
    BY <1>1, <2>1 DEF IInv, ShownIsCached, FoundFor, page, SameSearches
  <2> QED BY <2>1, <2>2, <2>3 DEF IInv, page, Moves, Opens
<1>2. CASE t.current
  <2>1. Awaited(t)
    BY <1>2 DEF IInv, AwaitedOK, Moves
  <2>2. /\ PageType' /\ PageOK' /\ Spares(t)
        /\ DOMAIN owner' \subseteq DOMAIN owner
        /\ \A h \in DOMAIN owner' : owner'[h] = owner[h]
        /\ answer = "expired" => t.handle \notin DOMAIN owner'
        /\ query' = query /\ opened' \in {opened, t.handle}
        /\ playing = t.handle /\ t.handle \in DOMAIN owner
    BY <1>2, <2>1, ResolveAnswer DEF IInv
  <2>3. OrderOK' /\ AwaitedOK'
    BY <1>2, <2>2, AfterAnswer DEF Moves
  <2>4. ShownIsCached'
    BY <1>2, <2>2 DEF IInv, ShownIsCached, FoundFor, SameSearches
  <2>5. Opens
    <3>1. FoundFor(t.handle, owner[t.handle], query) /\ owner[t.handle] \in Providers
          /\ query # None
      BY <2>2 DEF IInv, ShownIsCached, PageType, PageOK
    <3> QED BY <2>2, <3>1 DEF Opens
  <2> QED BY <2>2, <2>3, <2>4, <2>5 DEF IInv, Moves
<1> QED BY <1>1, <1>2

-----------------------------------------------------------------------------
\* A search that removes what the cache has for its key removes nothing shown.
LEMMA NotShown ==
    ASSUME IInv, NEW t \in SearchTasks, t \in Waiting, t.current \/ DOMAIN owner = {}
    PROVE  \A h \in DOMAIN owner : <<owner[h], query>> # Key(t)
<1>1. CASE t.current
  <2>1. t.provider \in LoadingOnes
    BY <1>1 DEF IInv, AwaitedOK, Awaited, LoadingOnes, SearchTasks
  <2>2. \A h \in DOMAIN owner : owner[h] # t.provider
    BY <2>1 DEF IInv, PageOK, PageType, LoadingOnes
  <2> QED BY <2>2 DEF Key
<1> QED BY <1>1

LEMMA KeysOfTasks == \A t \in SearchTasks : Key(t) \in Keys
BY DEF Key, Keys, SearchTasks

\* Calls go on, and keys they have removed are not stored by others.
LEMMA CallsKept ==
    ASSUME CallsOK, DOMAIN cache'.searches \subseteq DOMAIN cache.searches,
           \A pl \in Plugins : caller'[pl] \in {caller[pl], None}
    PROVE  CallsOK'
BY DEF CallsOK

LEMMA BeginInv == ASSUME IInv, Begin PROVE IInv' /\ Opens
<1>1. PICK t : t = Head(ready)
  OBVIOUS
<1>2. MovesInv /\ ready # <<>> /\ ready' = Tail(ready)
  BY DEF Begin, IInv, MovesInv
<1>3. /\ t \in Waiting /\ t \in Tasks
      /\ t.current => \A i \in 1..Len(ready) : ready[i].current
      /\ ~t.current => DOMAIN owner = {}
      /\ \A i \in 1..Len(ready') : \E j \in 1..Len(ready) : ready'[i] = ready[j]
  BY <1>1, <1>2, Begun
<1>4. ASSUME UNCHANGED <<loads, caller, cancelled>> PROVE Moves(t)
  BY <1>1, <1>2, <1>3, <1>4, BegunAndGone DEF Moves
<1>5. CASE BeginLoad(t)
  <2>1. TasksType' /\ InOrder' /\ RolesOK' /\ Waiting' \subseteq Waiting
    BY <1>1, <1>2, <1>5, BegunAndLoading DEF BeginLoad
  <2>2. PageType' /\ PageOK' /\ OrderOK' /\ AwaitedOK'
    BY <1>3, <1>5, <2>1, PageKept DEF BeginLoad
  <2> QED BY <1>5, <2>1, <2>2
          DEF BeginLoad, IInv, CallsOK, ShownIsCached, FoundFor, page, Opens
<1>6. CASE SearchCached(t)
  <2> DEFINE hs == cache.searches[Key(t)].handles
  <2>1. /\ t \in SearchTasks /\ Key(t) \in DOMAIN cache.searches
        /\ hs \subseteq DOMAIN cache.playables /\ UNCHANGED <<cache, loads, caller, cancelled>>
        /\ SearchAnswered(t, TRUE, hs)
    BY <1>3, <1>6, TaskFacts DEF SearchCached, Found
  <2>2. hs \in SUBSET Handles
    BY <2>1 DEF IInv, CacheOK, CacheType, SearchEntries
  <2>3. hs \intersect DOMAIN owner = {}
    <3>1. \A h \in DOMAIN owner : <<owner[h], query>> # Key(t)
      BY <1>3, <2>1, NotShown
    <3> QED BY <2>1, <3>1 DEF IInv, ShownIsCached, FoundFor, CacheOK
  <2> HIDE DEF hs
  <2>4. CallsOK' /\ CacheOK(cache')
    BY <2>1 DEF IInv, CallsOK
  <2>5. hs # {} => /\ Key(t) \in DOMAIN cache'.searches
                   /\ hs \subseteq cache'.searches[Key(t)].handles
                   /\ hs \subseteq DOMAIN cache'.playables
    BY <2>1 DEF hs
  <2>6. IInv' /\ opened' = opened
    BY <1>3, <1>4, <2>1, <2>2, <2>3, <2>4, <2>5, SearchDone
  <2> QED BY <2>6 DEF Opens
<1>7. ASSUME t \in SearchTasks, cache' = Removed(cache, Key(t))
      PROVE  /\ CacheOK(cache') /\ DOMAIN cache'.searches \subseteq DOMAIN cache.searches
             /\ Key(t) \notin DOMAIN cache'.searches
             /\ \A k \in DOMAIN cache.searches \ {Key(t)} :
                   /\ k \in DOMAIN cache'.searches
                   /\ cache'.searches[k].handles = cache.searches[k].handles
                   /\ \A h \in cache.searches[k].handles :
                         h \in DOMAIN cache.playables => h \in DOMAIN cache'.playables
  BY <1>7, RemovedOK DEF IInv
<1>8. CASE SearchRefused(t)
  <2>1. /\ t \in SearchTasks /\ cache' = Removed(cache, Key(t))
        /\ UNCHANGED <<loads, caller, cancelled>> /\ SearchAnswered(t, FALSE, {})
    BY <1>3, <1>8, TaskFacts DEF SearchRefused
  <2>2. CallsOK'
    BY <1>7, <2>1, CallsKept DEF IInv
  <2>3. IInv' /\ opened' = opened
    BY <1>3, <1>4, <1>7, <2>1, <2>2, SearchDone
  <2> QED BY <2>3 DEF Opens
<1>9. CASE SearchCalls(t)
  <2>1. /\ t \in SearchTasks /\ t.kind = "search" /\ cache' = Removed(cache, Key(t))
        /\ Calls(t) /\ UNCHANGED page /\ UNCHANGED loads /\ t.provider \in Providers
    BY <1>3, <1>9, TaskFacts DEF SearchCalls
  <2>2. TasksType' /\ InOrder' /\ RolesOK' /\ Waiting' \subseteq Waiting
    BY <1>1, <1>2, <2>1, BegunAndCalling
  <2>3. PageType' /\ PageOK' /\ OrderOK' /\ AwaitedOK'
    BY <1>3, <2>1, <2>2, PageKept
  <2>4. CallsOK'
    <3>1. /\ caller'[PluginOf[t.provider]] = t
          /\ \A pl \in Plugins \ {PluginOf[t.provider]} : caller'[pl] = caller[pl]
      BY <2>1, PluginAssumption DEF Calls, IInv, TasksType
    <3> QED BY <1>7, <2>1, <3>1 DEF IInv, CallsOK
  <2>5. ShownIsCached'
    <3>1. \A h \in DOMAIN owner : <<owner[h], query>> # Key(t)
      BY <1>3, <2>1, NotShown
    <3> QED BY <1>7, <2>1, <3>1 DEF IInv, ShownIsCached, FoundFor, page
  <2> QED BY <1>7, <2>1, <2>2, <2>3, <2>4, <2>5 DEF IInv, page, Opens
<1>10. CASE ResolveUnusable(t)
  <2>1. /\ t \in ResolveTasks /\ cache' = Dropped(cache, t.handle)
        /\ UNCHANGED <<loads, caller, cancelled>> /\ ResolveAnswered(t, "expired")
    BY <1>3, <1>10, TaskFacts DEF ResolveUnusable
  <2>2. /\ CacheOK(cache') /\ SameSearches(cache, cache')
        /\ DOMAIN cache'.playables = DOMAIN cache.playables \ {t.handle}
    BY <2>1, DroppedOK DEF IInv
  <2>3. CallsOK'
    BY <2>1, <2>2, CallsKept DEF IInv, SameSearches
  <2> QED BY <1>3, <1>4, <2>1, <2>2, <2>3, ResolveDone
<1>11. CASE ResolveKnown(t)
  <2>1. PICK answer : ResolveAnswered(t, answer)
    BY <1>11 DEF ResolveKnown
  <2>2. t \in ResolveTasks /\ UNCHANGED <<cache, loads, caller, cancelled>>
    BY <1>3, <1>11, TaskFacts DEF ResolveKnown
  <2>3. CacheOK(cache') /\ SameSearches(cache, cache') /\ CallsOK'
    BY <2>2 DEF IInv, SameSearches, CallsOK
  <2> QED BY <1>4, <2>1, <2>2, <2>3, ResolveDone
<1>12. CASE ResolveCalls(t)
  <2>1. /\ t \in ResolveTasks /\ t.kind = "resolve" /\ UNCHANGED cache
        /\ Calls(t) /\ UNCHANGED page /\ UNCHANGED loads /\ t.provider \in Providers
    BY <1>3, <1>12, TaskFacts DEF ResolveCalls
  <2>2. TasksType' /\ InOrder' /\ RolesOK' /\ Waiting' \subseteq Waiting
    BY <1>1, <1>2, <2>1, BegunAndCalling
  <2>3. PageType' /\ PageOK' /\ OrderOK' /\ AwaitedOK'
    BY <1>3, <2>1, <2>2, PageKept
  <2>4. CallsOK'
    <3>1. /\ caller'[PluginOf[t.provider]] = t
          /\ \A pl \in Plugins \ {PluginOf[t.provider]} : caller'[pl] = caller[pl]
      BY <2>1, PluginAssumption DEF Calls, IInv, TasksType
    <3> QED BY <2>1, <3>1 DEF IInv, CallsOK
  <2> QED BY <2>1, <2>2, <2>3, <2>4 DEF IInv, page, Opens, ShownIsCached, FoundFor
<1> QED BY <1>1, <1>5, <1>6, <1>8, <1>9, <1>10, <1>11, <1>12 DEF Begin

LEMMA ReturnsInv ==
    ASSUME IInv, NEW pl \in Plugins, PluginReturns(pl)
    PROVE  IInv' /\ Opens
<1>1. PICK t : t = caller[pl]
  OBVIOUS
<1>2. MovesInv /\ AwaitedOK /\ Returns(pl)
  BY DEF PluginReturns, CallFails, SearchReturns, ResolveReturns, IInv, MovesInv
<1>3. Moves(t) /\ t \in SearchTasks \union ResolveTasks
  BY <1>1, <1>2, Returned DEF Moves, Returns
<1>4. /\ t # None /\ ready' = ready /\ caller'[pl] = None
      /\ \A q \in Plugins \ {pl} : caller'[q] = caller[q]
  BY <1>1, <1>2 DEF Returns, IInv, TasksType
<1>5. /\ t.kind = "search" => t \in SearchTasks /\ Key(t) \notin DOMAIN cache.searches
      /\ t.kind = "resolve" => t \in ResolveTasks
      /\ PluginOf[t.provider] = pl
  BY <1>1, <1>3, <1>4 DEF IInv, CallsOK, SearchTasks, ResolveTasks
<1>6. ASSUME DOMAIN cache'.searches \subseteq DOMAIN cache.searches PROVE CallsOK'
  BY <1>4, <1>6, CallsKept DEF IInv
<1>7. CASE CallFails(pl)
  <2>1. UNCHANGED cache
    BY <1>7 DEF CallFails
  <2>2. CacheOK(cache') /\ CallsOK' /\ SameSearches(cache, cache')
    BY <1>6, <2>1 DEF IInv, SameSearches
  <2>3. CASE t.kind = "search" /\ SearchAnswered(t, FALSE, {})
    <3>1. IInv' /\ opened' = opened
      BY <1>3, <1>5, <2>1, <2>2, <2>3, SearchDone
    <3> QED BY <3>1 DEF Opens
  <2>4. ASSUME t.kind = "resolve", NEW answer, ResolveAnswered(t, answer)
        PROVE  IInv' /\ Opens
    BY <1>3, <1>5, <2>1, <2>2, <2>4, ResolveDone
  <2> QED BY <1>1, <1>7, <2>3, <2>4 DEF CallFails
<1>8. CASE SearchReturns(pl)
  <2>1. PICK hs \in UNION {NewHandles(n) : n \in 0..MaxResults} :
           /\ \E new \in [hs -> [life : 1..SearchLife, resolved : BOOLEAN]] :
                 cache' = Stored(cache, Key(t), new)
           /\ SearchAnswered(t, TRUE, hs)
    BY <1>1, <1>8 DEF SearchReturns
  <2>2. PICK new \in [hs -> PlayableEntries] : cache' = Stored(cache, Key(t), new)
    BY <2>1, LifeAssumption DEF PlayableEntries
  <2>3. t \in SearchTasks /\ Key(t) \in Keys /\ Key(t) \notin DOMAIN cache.searches
    BY <1>1, <1>5, <1>8, KeysOfTasks DEF SearchReturns
  <2>4. /\ hs \in SUBSET Handles /\ hs \intersect DOMAIN owner = {}
        /\ \A k \in DOMAIN cache.searches : cache.searches[k].handles \intersect hs = {}
    BY DEF NewHandles, Known
  <2>5. /\ CacheOK(cache')
        /\ DOMAIN cache'.searches = DOMAIN cache.searches \union {Key(t)}
        /\ cache'.searches[Key(t)].handles = hs
        /\ \A k \in DOMAIN cache.searches : cache'.searches[k] = cache.searches[k]
        /\ DOMAIN cache'.playables = hs \union DOMAIN cache.playables
    <3>1. PICK key : key = Key(t)
      OBVIOUS
    <3>2. CacheOK(cache) /\ key \in Keys /\ key \notin DOMAIN cache.searches
      BY <2>3, <3>1 DEF IInv
    <3>3. LET d == Stored(cache, key, new) IN
          /\ CacheOK(d)
          /\ DOMAIN d.searches = DOMAIN cache.searches \union {key}
          /\ d.searches[key].handles = hs
          /\ \A k \in DOMAIN cache.searches : d.searches[k] = cache.searches[k]
          /\ DOMAIN d.playables = hs \union DOMAIN cache.playables
      BY <2>4, <3>2, StoredOK
    <3> QED BY <2>2, <3>1, <3>3
  <2>6. CallsOK'
    <3>1. ASSUME NEW q \in Plugins, caller'[q] # None
          PROVE  /\ PluginOf[caller'[q].provider] = q
                 /\ caller'[q].kind = "search" => Key(caller'[q]) \notin DOMAIN cache'.searches
      <4>1. q # pl /\ caller'[q] = caller[q]
        BY <1>4, <3>1
      <4>2. PluginOf[caller[q].provider] = q
        BY <3>1, <4>1 DEF IInv, CallsOK
      <4>3. caller[q].kind = "search" => Key(caller[q]) # Key(t)
        BY <1>5, <4>1, <4>2 DEF Key
      <4> QED BY <2>5, <3>1, <4>1, <4>2, <4>3 DEF IInv, CallsOK
    <3> QED BY <3>1 DEF CallsOK
  <2>7. IInv' /\ opened' = opened
    BY <1>3, <2>1, <2>3, <2>4, <2>5, <2>6, SearchDone
  <2> QED BY <2>7 DEF Opens
<1>9. CASE ResolveReturns(pl)
  <2>1. t.kind = "resolve" /\ t \in ResolveTasks
    BY <1>1, <1>5, <1>9 DEF ResolveReturns
  <2>2. CASE t.handle \in DOMAIN cache.playables
    <3>1. PICK life \in 1..ResolvedLife : cache' = Replaced(cache, t.handle, life)
      BY <1>1, <1>9, <2>2 DEF ResolveReturns
    <3>2. /\ CacheOK(cache') /\ SameSearches(cache, cache')
          /\ DOMAIN cache'.playables = DOMAIN cache.playables
      BY <2>2, <3>1, ReplacedOK, LifeAssumption DEF IInv
    <3>3. CallsOK' /\ ResolveAnswered(t, "value")
      BY <1>1, <1>6, <1>9, <2>2, <3>2 DEF ResolveReturns, SameSearches
    <3> QED BY <1>3, <2>1, <3>2, <3>3, ResolveDone
  <2>3. CASE t.handle \notin DOMAIN cache.playables
    <3>1. UNCHANGED cache /\ ResolveAnswered(t, "expired")
      BY <1>1, <1>9, <2>3 DEF ResolveReturns
    <3>2. CacheOK(cache') /\ CallsOK' /\ SameSearches(cache, cache')
      BY <1>6, <3>1 DEF IInv, SameSearches
    <3> QED BY <1>3, <2>1, <3>1, <3>2, ResolveDone
  <2> QED BY <2>2, <2>3
<1> QED BY <1>7, <1>8, <1>9 DEF PluginReturns

LEMMA NextInv == IInv /\ [Next]_vars => IInv' /\ Opens
<1> SUFFICES ASSUME IInv, [Next]_vars PROVE IInv' /\ Opens
  OBVIOUS
<1>1. CASE UNCHANGED vars
  <2>1. UNCHANGED page /\ UNCHANGED cache /\ UNCHANGED tasks /\ UNCHANGED cancelled
    BY <1>1 DEF vars
  <2>2. Waiting' = Waiting /\ InOrder'
    BY <2>1 DEF Waiting, InOrder, tasks, IInv, OrderOK
  <2>3. PageType' /\ PageOK' /\ OrderOK' /\ AwaitedOK'
    BY <2>1, <2>2, PageKept DEF tasks
  <2> QED BY <2>1, <2>3
          DEF IInv, page, tasks, TasksType, CallsOK, RolesOK, ShownIsCached, FoundFor, Opens
<1>2. CASE (\E e \in Episodes : OpenEpisode(e)) \/ Clear
  <2>1. opened' = None
    BY <1>2 DEF OpenEpisode, Clear
  <2> QED BY <1>2, <2>1, LeavesTheEpisode DEF Opens
<1>3. ASSUME NEW p \in Providers, SetProviderSelected(p) PROVE IInv' /\ Opens
  <2>1. /\ selected' \subseteq Providers
        /\ UNCHANGED <<query, loading, status, results, owner, pending, playing, opened,
                       cache, tasks, cancelled>>
    BY <1>3 DEF SetProviderSelected, IInv, PageType
  <2>2. PageType' /\ PageOK' /\ AwaitedOK' /\ ShownIsCached'
    BY <2>1 DEF IInv, PageType, PageOK, LoadingOnes, AwaitedOK, Awaited, Waiting, tasks,
       ShownIsCached, FoundFor
  <2>3. TasksType' /\ CallsOK' /\ OrderOK' /\ RolesOK'
    BY <2>1 DEF IInv, TasksType, CallsOK, OrderOK, RolesOK, tasks
  <2> QED BY <2>1, <2>2, <2>3 DEF IInv, Opens
<1>4. CASE SearchSelected
  <2>1. opened' = None
    BY <1>4 DEF SearchSelected
  <2> QED BY <1>4, <2>1, SearchesSelected DEF Opens
<1>5. ASSUME NEW h \in DOMAIN owner, PlayOnline(h) PROVE IInv' /\ Opens
  <2>1. opened' = None
    BY <1>5 DEF PlayOnline
  <2> QED BY <1>5, <2>1, PlaysOnline DEF Opens
<1>6. CASE Tick
  <2>1. /\ CacheOK(cache') /\ SameSearches(cache, cache')
        /\ DOMAIN cache'.playables = DOMAIN cache.playables
    BY <1>6, TickOK DEF IInv
  <2>2. UNCHANGED page /\ UNCHANGED tasks /\ UNCHANGED cancelled
    BY <1>6 DEF Tick
  <2>3. Waiting' = Waiting /\ InOrder'
    BY <2>2 DEF Waiting, InOrder, tasks, IInv, OrderOK
  <2>4. PageType' /\ PageOK' /\ OrderOK' /\ AwaitedOK'
    BY <2>2, <2>3, PageKept DEF tasks
  <2>5. CallsOK'
    BY <2>1, <2>2 DEF IInv, CallsOK, SameSearches, tasks
  <2>6. ShownIsCached'
    BY <2>1, <2>2 DEF IInv, ShownIsCached, FoundFor, SameSearches, page
  <2> QED BY <2>1, <2>2, <2>4, <2>5, <2>6 DEF IInv, tasks, TasksType, RolesOK, page, Opens
<1>7. ASSUME NEW t \in loads, CatalogReturns(t) PROVE IInv' /\ Opens
  <2>1. /\ t \in LoadTasks /\ t \in Waiting /\ loads' = loads \ {t} /\ LoadAnswered(t)
        /\ t.kind = "load" /\ t.current \in BOOLEAN
        /\ UNCHANGED <<cache, ready, caller, cancelled>>
    BY <1>7 DEF CatalogReturns, IInv, TasksType, Waiting, LoadTasks
  <2>2. TasksType' /\ InOrder' /\ RolesOK' /\ Waiting' \subseteq Waiting /\ CallsOK'
    BY <2>1 DEF IInv, TasksType, OrderOK, InOrder, RolesOK, Waiting, CallsOK
  <2>3. CASE ~t.current
    <3>1. UNCHANGED page
      BY <2>1, <2>3 DEF LoadAnswered, page
    <3>2. PageType' /\ PageOK' /\ OrderOK' /\ AwaitedOK'
      BY <2>1, <2>2, <3>1, PageKept
    <3> QED BY <2>1, <2>2, <3>1, <3>2 DEF IInv, page, ShownIsCached, FoundFor, Opens
  <2>4. CASE t.current
    <3>1. PageType' /\ PageOK' /\ Spares(t) /\ DOMAIN owner' = {} /\ opened' = opened
      BY <2>1, <2>4, LoadAnswer DEF IInv, AwaitedOK
    <3>2. OrderOK'
      BY <2>2, <3>1 DEF OrderOK, InOrder
    <3>3. ASSUME NEW u \in Waiting', u.current PROVE u \in Tasks /\ Awaited(u) /\ ~SameRole(t, u)
      <4>1. u \in Waiting /\ u \in Tasks
        BY <2>2, WaitingTasks DEF IInv
      <4>2. ~SameRole(t, u)
        <5>1. CASE \E i \in 1..Len(ready) : u = ready[i]
          BY <2>1, <2>4, <3>3, <5>1 DEF IInv, RolesOK, SameRole
        <5>2. CASE u \in loads /\ u # t
          BY <2>1, <2>4, <3>3, <5>2 DEF IInv, RolesOK
        <5>3. CASE \E pl \in Plugins : caller[pl] # None /\ u = caller[pl]
          BY <2>1, <5>3 DEF IInv, TasksType, SearchTasks, ResolveTasks, SameRole
        <5> QED BY <2>1, <5>1, <5>2, <5>3 DEF Waiting
      <4> QED BY <3>3, <4>1, <4>2 DEF IInv, AwaitedOK
    <3>4. AwaitedOK'
      BY <3>1, <3>3 DEF AwaitedOK, Spares
    <3> QED BY <2>1, <2>2, <3>1, <3>2, <3>4 DEF IInv, ShownIsCached, Opens
  <2> QED BY <2>1, <2>3, <2>4
<1> QED BY <1>1, <1>2, <1>3, <1>4, <1>5, <1>6, <1>7, BeginInv, ReturnsInv DEF Next, User

LEMMA InitInv == Init => IInv
<1> SUFFICES ASSUME Init PROVE IInv
  OBVIOUS
<1>1. /\ DOMAIN owner = {} /\ owner \in [DOMAIN owner -> Providers]
      /\ cache.searches = <<>> /\ cache.playables = <<>> /\ LoadingOnes = {}
      /\ ready = <<>> /\ loads = {} /\ \A pl \in Plugins : caller[pl] = None
  BY DEF Init, EmptyCache, LoadingOnes
<1>2. PageType
  BY <1>1 DEF Init, PageType, Statuses
<1>3. PageOK
  BY <1>1, FS_EmptySet DEF Init, PageOK
<1>4. CacheOK(cache)
  <2>1. \A h \in DOMAIN cache.playables : FALSE
    BY <1>1
  <2>2. \A k \in DOMAIN cache.searches : FALSE
    BY <1>1
  <2>3. /\ cache.searches \in [DOMAIN cache.searches -> SearchEntries]
        /\ cache.playables \in [DOMAIN cache.playables -> PlayableEntries]
        /\ cache = [searches |-> cache.searches, playables |-> cache.playables]
    BY <1>1 DEF Init, EmptyCache
  <2> QED BY <2>1, <2>2, <2>3 DEF CacheOK, CacheType
<1>5. TasksType
  BY <1>1 DEF Init, TasksType
<1>6. CallsOK /\ OrderOK /\ RolesOK /\ AwaitedOK
  BY <1>1 DEF CallsOK, OrderOK, RolesOK, AwaitedOK, Waiting
<1>7. ShownIsCached
  BY <1>1 DEF ShownIsCached
<1> QED BY <1>2, <1>3, <1>4, <1>5, <1>6, <1>7 DEF IInv

LEMMA InvHolds == Spec => []IInv
BY InitInv, NextInv, PTL DEF Spec

\* A handle the user can click is not unknown to the cache, whatever expires,
\* is searched again or arrives late: its search is still the one of the
\* episode shown (episode_resources_view_model.cpp:302-309, cache.cpp:75-112).
THEOREM ShownStaysCached == Spec => []ShownIsCached
<1>1. IInv => ShownIsCached
  BY DEF IInv
<1> QED BY InvHolds, <1>1, PTL

\* Each handle in the cache is led to by one search and one only, so that what
\* removes a search removes all of it (cache.cpp:37-73, 157-166).
THEOREM EachHandleHasItsSearch == Spec => []NoOrphans
<1>1. ASSUME IInv PROVE NoOrphans
  <2> SUFFICES ASSUME NEW h \in DOMAIN cache.playables
               PROVE  Cardinality({k \in DOMAIN cache.searches :
                                      h \in cache.searches[k].handles}) = 1
    BY DEF NoOrphans
  <2>1. PICK k \in DOMAIN cache.searches : h \in cache.searches[k].handles
    BY <1>1 DEF IInv, CacheOK
  <2>2. {l \in DOMAIN cache.searches : h \in cache.searches[l].handles} = {k}
    BY <1>1, <2>1 DEF IInv, CacheOK
  <2> QED BY <2>2, FS_Singleton
<1> QED BY InvHolds, <1>1, PTL

\* Whatever is opened was found for the episode on the page: an answer for an
\* episode or a search the user has left opens nothing
\* (episode_resources_view_model.cpp:318-323, 364).
THEOREM OpensTheShown == Spec => OpensWhatIsShown
<1>1. IInv /\ [Next]_vars =>
         [opened' \notin {opened, None} =>
             \E p \in Providers : query # None /\ FoundFor(opened', p, query)]_vars
  BY NextInv DEF Opens
<1> QED BY InvHolds, <1>1, PTL DEF Spec, OpensWhatIsShown
=============================================================================
