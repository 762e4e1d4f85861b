--------------------------- MODULE EpisodeResource ---------------------------
(***************************************************************************)
(* Online resources of an episode: the page (EpisodeResourcesViewModel),   *)
(* the service between it and the providers (EpisodeResourceService), and  *)
(* the cache of what the providers found (OnlinePlayableCache).            *)
(*                                                                         *)
(* Everything runs on the GUI thread.  The page spawns a coroutine per     *)
(* operation; coroutines begin in the order in which they were spawned and *)
(* give way while they wait for the catalog or for a provider.  A provider *)
(* is what EpisodeProvider says: its plugin runs one call at a time, for   *)
(* all the providers of the package, refuses a second one, and does not    *)
(* return the value of a call that was cancelled.                          *)
(*                                                                         *)
(* A coroutine holds the generation of the page it was spawned in; here it *)
(* is "current" until a generation it compares changes.  An expiry time is *)
(* the time that is left, which runs out with every Tick.                  *)
(***************************************************************************)
EXTENDS Naturals, FiniteSetsExt, Functions, Sequences

CONSTANTS
    Providers, Plugins, PluginOf,  \* providers, and the package each is from
    Episodes,
    MaxHandles,     \* bound: handles are reused when nobody knows them
    MaxResults,     \* bound: results of one search
    SearchLife,     \* how long a search stays in the cache (5 minutes)
    ResolvedLife,   \* bound: how long a resolved URL may be used
    MaxReady,       \* bound: coroutines spawned and not begun
    MaxLoads,       \* bound: coroutines that wait for the catalog
    None

ASSUME PluginAssumption ==
    PluginOf \in [Providers -> Plugins] /\ IsFiniteSet(Providers)

ASSUME LifeAssumption == SearchLife \in Nat \ {0} /\ ResolvedLife \in Nat \ {0}

Handles == 1..MaxHandles

\* What a coroutine does, and whether the page still waits for it.
LoadTasks == [kind : {"load"}, episode : Episodes, current : BOOLEAN]
SearchTasks ==
    [kind : {"search"}, provider : Providers, episode : Episodes,
     current : BOOLEAN]
ResolveTasks ==
    [kind : {"resolve"}, provider : Providers, handle : Handles,
     current : BOOLEAN]
Tasks == LoadTasks \union SearchTasks \union ResolveTasks

ASSUME NoneAssumption ==
    None \notin Episodes /\ None \notin Handles /\ None \notin Tasks

VARIABLES
    query, loading,           \* mQuery (its episode), mEpisodeLoading
    selected, status,         \* of mProviders
    results, owner,           \* per provider; mCurrentHandles, mHandleProviders
    pending, playing,         \* mPendingSearches, mPlayingHandle
    opened,                   \* what the user's last operation opened
    cache,                    \* mSearches and mPlayables
    ready,                    \* coroutines that were spawned
    loads,                    \* those that wait for the catalog
    caller, cancelled         \* per plugin: who it runs for, and whether that
                              \* call was cancelled

page == <<query, loading, selected, status, results, owner, pending, playing,
          opened>>
tasks == <<ready, loads, caller>>
vars == <<page, cache, tasks, cancelled>>

Busy == loading \/ pending > 0 \/ playing # None

-----------------------------------------------------------------------------
\* Coroutines.

Load(e) == [kind |-> "load", episode |-> e, current |-> TRUE]
Search(p, e) ==
    [kind |-> "search", provider |-> p, episode |-> e, current |-> TRUE]
Resolve(p, h) ==
    [kind |-> "resolve", provider |-> p, handle |-> h, current |-> TRUE]

Stale(t) == IF t = None THEN None ELSE [t EXCEPT !.current = FALSE]

\* Both generations advance: nothing spawned before is current.
NewContext(spawned) ==
    /\ ready' = [i \in DOMAIN ready |-> Stale(ready[i])] \o spawned
    /\ loads' = {Stale(t) : t \in loads}
    /\ caller' = [pl \in Plugins |-> Stale(caller[pl])]

-----------------------------------------------------------------------------
\* The cache: what its member functions leave behind.

\* A hash into which another is inserted.
Inserted(new, f) ==
    [x \in DOMAIN new \union DOMAIN f |->
        IF x \in DOMAIN new THEN new[x] ELSE f[x]]

EmptyCache == [searches |-> <<>>, playables |-> <<>>]

\* A bug: the playables stay behind.
Removed_Playables(c, key) ==
    [c EXCEPT !.searches = Restrict(@, DOMAIN @ \ {key})]

Removed(c, key) ==
    IF key \in DOMAIN c.searches
    THEN [searches |-> Restrict(c.searches, DOMAIN c.searches \ {key}),
          playables |-> Restrict(c.playables,
                             DOMAIN c.playables \ c.searches[key].handles)]
    ELSE c

\* find(): a search that still is whole; any other is removed.
Found(c, key) ==
    /\ key \in DOMAIN c.searches
    /\ c.searches[key].life > 0
    /\ \A h \in c.searches[key].handles :
          h \in DOMAIN c.playables /\ c.playables[h].life > 0

Stored(c, key, new) ==
    LET r == Removed(c, key) IN
    [searches |-> Inserted([k \in {key} |-> [life |-> SearchLife,
                                             handles |-> DOMAIN new]],
                           r.searches),
     playables |-> Inserted(new, r.playables)]

Usable(c, h) == h \in DOMAIN c.playables /\ c.playables[h].life > 0

\* resolve() of a handle that cannot be used.
Dropped(c, h) ==
    [c EXCEPT !.playables = Restrict(@, DOMAIN @ \ {h})]

Replaced(c, h, life) ==
    [c EXCEPT !.playables[h].life = life, !.playables[h].resolved = TRUE]

Aged(life) == IF life = 0 THEN 0 ELSE life - 1

Tick ==
    /\ cache' = [searches |-> [k \in DOMAIN cache.searches |->
                                 [cache.searches[k] EXCEPT !.life = Aged(@)]],
                 playables |-> [h \in DOMAIN cache.playables |->
                                 [cache.playables[h] EXCEPT !.life = Aged(@)]]]
    /\ UNCHANGED <<page, tasks, cancelled>>

\* A UUID is new; a handle nobody holds any more is as good.
Known ==
    DOMAIN cache.playables \union DOMAIN owner \union {playing, opened}
      \union UNION {cache.searches[k].handles : k \in DOMAIN cache.searches}
      \union {t.handle : t \in {u \in Range(ready) \union Range(caller) :
                                  u # None /\ u.kind = "resolve"}}

NewHandles(n) ==
    {hs \in SUBSET (Handles \ Known) :
        /\ Cardinality(hs) = n
        /\ \A h \in hs, g \in (Handles \ Known) \ hs : h < g}

-----------------------------------------------------------------------------
\* The page.

Init ==
    /\ query = None /\ loading = FALSE
    /\ selected = Providers
    /\ status = [p \in Providers |-> "idle"]
    /\ results = [p \in Providers |-> {}]
    /\ owner = <<>>
    /\ pending = 0 /\ playing = None /\ opened = None
    /\ cache = EmptyCache
    /\ ready = <<>> /\ loads = {}
    /\ caller = [pl \in Plugins |-> None]
    /\ cancelled = [pl \in Plugins |-> FALSE]

Active ==
    {p \in Providers : status[p] = "loading"}
      \union (IF playing \in DOMAIN owner THEN {owner[playing]} ELSE {})

CancelActive ==
    cancelled' = [pl \in Plugins |->
                    \/ cancelled[pl]
                    \/ caller[pl] # None /\ \E p \in Active : PluginOf[p] = pl]

ResetResults ==
    /\ status' = [p \in Providers |-> "idle"]
    /\ results' = [p \in Providers |-> {}]
    /\ owner' = <<>>

OpenEpisode(e) ==
    /\ Len(ready) < MaxReady /\ Cardinality(loads) < MaxLoads
    /\ CancelActive
    /\ NewContext(<<Load(e)>>)
    /\ query' = None /\ loading' = TRUE
    /\ pending' = 0 /\ playing' = None
    /\ ResetResults
    /\ opened' = None
    /\ UNCHANGED <<selected, cache>>

Clear ==
    /\ CancelActive
    /\ NewContext(<<>>)
    /\ query' = None /\ loading' = FALSE
    /\ pending' = 0 /\ playing' = None
    /\ ResetResults
    /\ opened' = None
    /\ UNCHANGED <<selected, cache>>

SetProviderSelected(p) ==
    /\ ~Busy
    /\ selected' = IF p \in selected THEN selected \ {p} ELSE selected \union {p}
    /\ UNCHANGED <<query, loading, status, results, owner, pending, playing,
                   opened, cache, tasks, cancelled>>

\* The coroutines of a search begin in the order of the providers; all orders.
Orders(S) == {f \in [1..Cardinality(S) -> S] : Range(f) = S}

SearchSelected ==
    /\ query # None /\ ~Busy /\ selected # {}
    /\ Len(ready) + Cardinality(selected) <= MaxReady
    /\ \E f \in Orders(selected) :
          ready' = ready \o [i \in DOMAIN f |-> Search(f[i], query)]
    /\ owner' = <<>>
    /\ pending' = Cardinality(selected)
    /\ results' = [p \in Providers |-> {}]
    /\ status' = [p \in Providers |->
                    IF p \in selected THEN "loading" ELSE "idle"]
    /\ opened' = None
    /\ UNCHANGED <<query, loading, selected, playing, cache, loads, caller,
                   cancelled>>

PlayOnline(h) ==
    /\ ~Busy /\ h \in DOMAIN owner /\ Len(ready) < MaxReady
    /\ playing' = h
    /\ ready' = Append(ready, Resolve(owner[h], h))
    /\ opened' = None
    /\ UNCHANGED <<query, loading, selected, status, results, owner, pending,
                   cache, loads, caller, cancelled>>

-----------------------------------------------------------------------------
\* What the coroutines of the page do with an answer.

LoadAnswered(t) ==
    /\ IF t.current
       THEN /\ loading' = FALSE
            /\ query' \in {t.episode, None}    \* None: it could not be read
       ELSE UNCHANGED <<query, loading>>
    /\ UNCHANGED <<selected, status, results, owner, pending, playing, opened>>

\* searchProvider(), after the search has failed, or has found hs.
ProviderAnswered(t, ok, hs) ==
    /\ status' = [status EXCEPT ![t.provider] =
                    IF ~ok THEN "error"
                    ELSE IF hs = {} THEN "empty" ELSE "ready"]
    /\ results' = [results EXCEPT ![t.provider] = hs]
    /\ owner' = Inserted([h \in hs |-> t.provider], owner)
    /\ UNCHANGED <<query, loading, selected, playing, opened>>

\* A bug: a failure is not counted.
SearchAnswered_CountsResults(t, ok, hs) ==
    IF ~t.current THEN UNCHANGED page ELSE
    /\ pending' = IF pending > 0 /\ ok THEN pending - 1 ELSE pending
    /\ ProviderAnswered(t, ok, hs)

SearchAnswered(t, ok, hs) ==
    IF ~t.current THEN UNCHANGED page ELSE
    /\ pending' = IF pending > 0 THEN pending - 1 ELSE 0
    /\ ProviderAnswered(t, ok, hs)

\* What resolveAndPlay() does with the provider whose result has expired.
\* A bug: its results stay on the page.
DropResults_Not(p) == UNCHANGED <<status, results, owner>>

DropResults(p) ==
    /\ status' = [status EXCEPT ![p] = "error"]
    /\ results' = [results EXCEPT ![p] = {}]
    /\ owner' = Restrict(owner, DOMAIN owner \ results[p])

\* By how the resolve ended.  A value is opened, unless its URL cannot be
\* played or the player does not take it.
PlayAnswered(t, answer) ==
    /\ opened' \in IF answer = "value" THEN {t.handle, opened} ELSE {opened}
    /\ IF answer = "expired" THEN DropResults(t.provider)
                             ELSE UNCHANGED <<status, results, owner>>
    /\ UNCHANGED <<query, loading, selected, pending>>

\* Broken: the generation is not compared.
ResolveAnswered_Late(t, answer) == playing' = None /\ PlayAnswered(t, answer)

ResolveAnswered(t, answer) ==
    IF ~t.current \/ t.handle # playing THEN UNCHANGED page ELSE
    /\ playing' = None
    /\ PlayAnswered(t, answer)

-----------------------------------------------------------------------------
\* The service: up to the provider's answer, and after it.

Key(t) == <<t.provider, t.episode>>

Calls(t) ==
    /\ caller' = [caller EXCEPT ![PluginOf[t.provider]] = t]
    /\ UNCHANGED cancelled

Idle(t) == caller[PluginOf[t.provider]] = None

BeginLoad(t) ==
    /\ t.kind = "load"
    /\ loads' = loads \union {t}
    /\ UNCHANGED <<page, cache, caller, cancelled>>

SearchCached(t) ==
    /\ t.kind = "search" /\ Found(cache, Key(t))
    /\ SearchAnswered(t, TRUE, cache.searches[Key(t)].handles)
    /\ UNCHANGED <<cache, loads, caller, cancelled>>

SearchRefused(t) ==
    /\ t.kind = "search" /\ ~Found(cache, Key(t)) /\ ~Idle(t)
    /\ cache' = Removed(cache, Key(t))
    /\ SearchAnswered(t, FALSE, {})
    /\ UNCHANGED <<loads, caller, cancelled>>

SearchCalls(t) ==
    /\ t.kind = "search" /\ ~Found(cache, Key(t)) /\ Idle(t)
    /\ cache' = Removed(cache, Key(t))
    /\ Calls(t)
    /\ UNCHANGED <<page, loads>>

ResolveUnusable(t) ==
    /\ t.kind = "resolve" /\ ~Usable(cache, t.handle)
    /\ cache' = Dropped(cache, t.handle)
    /\ ResolveAnswered(t, "expired")
    /\ UNCHANGED <<loads, caller, cancelled>>

ResolveKnown(t) ==
    /\ t.kind = "resolve" /\ Usable(cache, t.handle)
    /\ \/ cache.playables[t.handle].resolved /\ ResolveAnswered(t, "value")
       \/ /\ ~cache.playables[t.handle].resolved /\ ~Idle(t)
          /\ ResolveAnswered(t, "error")
    /\ UNCHANGED <<cache, loads, caller, cancelled>>

ResolveCalls(t) ==
    /\ t.kind = "resolve" /\ Usable(cache, t.handle)
    /\ ~cache.playables[t.handle].resolved /\ Idle(t)
    /\ Calls(t)
    /\ UNCHANGED <<page, cache, loads>>

Begin ==
    /\ ready # <<>>
    /\ ready' = Tail(ready)
    /\ LET t == Head(ready) IN
         \/ BeginLoad(t)
         \/ SearchCached(t) \/ SearchRefused(t) \/ SearchCalls(t)
         \/ ResolveUnusable(t) \/ ResolveKnown(t) \/ ResolveCalls(t)

CatalogReturns(t) ==
    /\ loads' = loads \ {t}
    /\ LoadAnswered(t)
    /\ UNCHANGED <<cache, ready, caller, cancelled>>

\* Answers of a plugin.  After an error the cache is as it was.
Returns(pl) ==
    /\ caller[pl] # None
    /\ caller' = [caller EXCEPT ![pl] = None]
    /\ cancelled' = [cancelled EXCEPT ![pl] = FALSE]
    /\ UNCHANGED <<ready, loads>>

CallFails(pl) ==
    /\ Returns(pl)
    /\ LET t == caller[pl] IN
         \/ t.kind = "search" /\ SearchAnswered(t, FALSE, {})
         \/ /\ t.kind = "resolve"
            /\ \E answer \in IF cancelled[pl] THEN {"error"}
                                              ELSE {"error", "expired"} :
                  ResolveAnswered(t, answer)
    /\ UNCHANGED cache

SearchReturns(pl) ==
    /\ Returns(pl) /\ ~cancelled[pl]
    /\ LET t == caller[pl] IN
         /\ t.kind = "search"
         /\ \E n \in 0..MaxResults : \E hs \in NewHandles(n) :
              /\ \E new \in [hs -> [life : 1..SearchLife, resolved : BOOLEAN]] :
                    cache' = Stored(cache, Key(t), new)
              /\ SearchAnswered(t, TRUE, hs)

ResolveReturns(pl) ==
    /\ Returns(pl) /\ ~cancelled[pl]
    /\ LET t == caller[pl] IN
         /\ t.kind = "resolve"
         /\ IF t.handle \in DOMAIN cache.playables
            THEN /\ \E life \in 1..ResolvedLife :
                       cache' = Replaced(cache, t.handle, life)
                 /\ ResolveAnswered(t, "value")
            ELSE /\ ResolveAnswered(t, "expired")
                 /\ UNCHANGED cache

-----------------------------------------------------------------------------
User ==
    \/ \E e \in Episodes : OpenEpisode(e)
    \/ Clear
    \/ \E p \in Providers : SetProviderSelected(p)
    \/ SearchSelected
    \/ \E h \in DOMAIN owner : PlayOnline(h)

PluginReturns(pl) == CallFails(pl) \/ SearchReturns(pl) \/ ResolveReturns(pl)

Next ==
    \/ User \/ Begin \/ Tick
    \/ \E t \in loads : CatalogReturns(t)
    \/ \E pl \in Plugins : PluginReturns(pl)

\* The thread goes on, the catalog answers, and a call of a provider returns
\* (EpisodeProvider!Spec, which PluginRuntime implements).
Fairness ==
    /\ WF_vars(Begin)
    /\ WF_vars(\E t \in loads : CatalogReturns(t))
    /\ \A pl \in Plugins : WF_vars(PluginReturns(pl))

Spec == Init /\ [][Next]_vars /\ Fairness

-----------------------------------------------------------------------------
Statuses == {"idle", "loading", "empty", "error", "ready"}
Keys == Providers \X Episodes

TypeOK ==
    /\ query \in Episodes \union {None} /\ loading \in BOOLEAN
    /\ selected \subseteq Providers
    /\ status \in [Providers -> Statuses]
    /\ results \in [Providers -> SUBSET Handles]
    /\ DOMAIN owner = UNION Range(results)
    /\ \A h \in DOMAIN owner : h \in results[owner[h]]
    /\ pending \in 0..Cardinality(Providers)
    /\ playing \in DOMAIN owner \union {None}
    /\ opened \in Handles \union {None}
    /\ DOMAIN cache.searches \subseteq Keys
    /\ \A k \in DOMAIN cache.searches :
          cache.searches[k] \in [life : 0..SearchLife, handles : SUBSET Handles]
    /\ DOMAIN cache.playables \subseteq Handles
    /\ \A h \in DOMAIN cache.playables :
          cache.playables[h] \in [life : Nat, resolved : BOOLEAN]
    /\ \A t \in loads : t.kind = "load"
    /\ \A pl \in Plugins : caller[pl] = None \/ caller[pl].kind # "load"
    /\ cancelled \in [Plugins -> BOOLEAN]

\* The page counts down to the end of a search while answers to older searches
\* arrive, are refused, or come from the cache at once: it waits for exactly
\* the providers it shows as loading, each of which has a coroutine of its own.
CurrentSearches ==
    {t \in Range(ready) \union Range(caller) :
        t # None /\ t.kind = "search" /\ t.current}

PendingIsLoading ==
    LET Loading == {p \in Providers : status[p] = "loading"} IN
    /\ pending = Cardinality(Loading)
    /\ {t.provider : t \in CurrentSearches} = Loading
    /\ \A t \in CurrentSearches : t.episode = query

\* A result on the page is one the cache still holds, found for the episode
\* that the page shows: whatever expires, is searched again or arrives late, a
\* handle that the user can click is not an unknown one.
FoundFor(h, p, e) ==
    /\ <<p, e>> \in DOMAIN cache.searches
    /\ h \in cache.searches[<<p, e>>].handles

ShownIsCached ==
    \A h \in DOMAIN owner :
       FoundFor(h, owner[h], query) /\ h \in DOMAIN cache.playables

\* The cache keeps nothing that no search leads to, which only clear() could
\* remove, and no handle belongs to two searches.
NoOrphans ==
    \A h \in DOMAIN cache.playables :
       Cardinality({k \in DOMAIN cache.searches :
                      h \in cache.searches[k].handles}) = 1

\* The player opens what was found for the episode on the page, although the
\* user may have left the episode or searched again since the click.
OpensWhatIsShown ==
    [][opened' \notin {opened, None} =>
         \E p \in Providers : query # None /\ FoundFor(opened', p, query)]_vars

\* docs/online_source/online_source_design.md:399 promises that a failed search
\* does not cover old results that are still valid: what is still valid leaves
\* the cache only when a search has returned.
LiveResultsKept ==
    [][\A h \in DOMAIN cache.playables :
          cache.playables[h].life > 0 /\ h \notin DOMAIN cache'.playables =>
             \E pl \in Plugins : SearchReturns(pl)]_vars

\* A search and a play come to an end, or the user leaves them: no answer is
\* lost between the coroutine, the cache and a provider that refuses.
RequestsEnd ==
    /\ pending > 0 ~> pending = 0
    /\ playing # None ~> playing = None
=============================================================================
