---------------------------- MODULE PluginPackages ----------------------------
(***************************************************************************)
(* How plugin packages become providers when the application starts        *)
(* (gui/application.cpp, runShell), and the runtime of one of them after   *)
(* that.  The package that is built in comes first, then the directories   *)
(* of the plugin directory in the order of their names.  What a package    *)
(* holds is read once: a manifest, the default configuration with the      *)
(* user's own merged over it, and the script that registers providers.     *)
(*                                                                         *)
(* All this runs on one thread before the event loop, so no call of a      *)
(* plugin overlaps with it.  PluginRuntime is the runtime of whichever     *)
(* registered plugin has NMirrors mirrors, of them Enabled, and the limit  *)
(* MaxRequests.  Texts are abstracted: a host is the sequence of its       *)
(* labels from the last one, a file is its state and what it says.         *)
(***************************************************************************)
EXTENDS PluginRuntime, Integers, SequencesExt

CONSTANTS
    Starts,          \* what a start can find: settings, packages, user files
    UnsafePath,      \* a path that leaves the package
    LocalHosts,      \* hosts that no origin may name
    LongKeys,        \* provider keys of more than 160 characters
    PackagesLimit    \* 256

ASSUME PackagesAssumption == PackagesLimit \in Nat \ {0}

VARIABLES
    disk,        \* the start: settings, builtin, directory, overrides
    stage,       \* "builtin", "scan", "entries", "register" or "serving"
    visited,     \* directories looked at
    pluginIds,   \* ids that a further package must not have
    scanned,     \* places of the packages loaded by the scan
    issues,      \* places of the packages skipped; 0: too many packages
    registry,    \* mProviders: keys, with the place of their package
    loadedIds    \* loadedPluginIds

startVars == <<disk, stage, visited, pluginIds, scanned, issues, registry,
               loadedIds>>

-----------------------------------------------------------------------------
(* Reading a package.                                                      *)

\* readPackageFile() and parseJsonObject(): the file is inside the package, not
\* too large, readable and well formed.
Readable(package, path) ==
    path # UnsafePath /\ package.files[path].state = "ok"

Content(package, path) == package.files[path].content

Manifest(package) == Content(package, "manifest.json")

ValidOrigin(origin) ==
    origin.scheme = "https" /\ origin.bare
    /\ origin.host # <<>> /\ origin.host \notin LocalHosts

\* A wildcard stands for the hosts below it, and not for the host itself.
Allows(origin, url) ==
    /\ url.scheme = origin.scheme /\ url.port = origin.port
    /\ IF origin.subdomains THEN IsStrictPrefix(origin.host, url.host)
                            ELSE url.host = origin.host

AllowsNetwork(manifest, url) == \E o \in Range(manifest.network) : Allows(o, url)

ManifestLoads(package) ==
    /\ Readable(package, "manifest.json")
    /\ Manifest(package).supported
    /\ UnsafePath \notin {Manifest(package).entry, Manifest(package).configSchema,
                          Manifest(package).configDefaults}
    /\ \A origins \in {Manifest(package).network, Manifest(package).media} :
           origins # <<>> /\ \A o \in Range(origins) : ValidOrigin(o)

-----------------------------------------------------------------------------
(* The configuration.                                                      *)

\* A value of the user's replaces that of the package; only objects are merged
\* further, and none of the values below is one.
Merged(base, overrides) ==
    [key \in DOMAIN base \cup DOMAIN overrides |->
        IF key \in DOMAIN overrides THEN overrides[key] ELSE base[key]]

\* A user file that is not there is as good as an empty one.
Values(package, override) ==
    LET defaults == Content(package, Manifest(package).configDefaults)
    IN IF override.state = "missing" THEN defaults
       ELSE Merged(defaults, override.content)

Limits ==
    [requestTimeoutMs |-> [fallback |-> 10000, least |-> 1000, most |-> 60000],
     minimumRequestIntervalMs |-> [fallback |-> 750, least |-> 250, most |-> 10000],
     maximumRequestsPerOperation |-> [fallback |-> 12, least |-> 1, most |-> 32],
     maximumResponseBytes |->
        [fallback |-> 4194304, least |-> 65536, most |-> 8388608]]

BoundedInteger(values, key) ==
    IF key \in DOMAIN values THEN values[key] ELSE Limits[key].fallback

\* Bug: the mirror with the lowest priority comes first.
Ranked_Ascending(mirrors) ==
    SortSeq(mirrors, LAMBDA a, b : a.priority < b.priority)

\* std::ranges::stable_sort by descending priority: each mirror at the place that
\* the number of those up to it says.
Ranked(mirrors) ==
    LET upTo(i) == {j \in DOMAIN mirrors :
                      \/ mirrors[j].priority > mirrors[i].priority
                      \/ mirrors[j].priority = mirrors[i].priority /\ j <= i}
    IN [n \in DOMAIN mirrors |->
          mirrors[CHOOSE i \in DOMAIN mirrors : Cardinality(upTo(i)) = n]]

ConfigurationLoads(package, override) ==
    LET values == Values(package, override)
    IN /\ Readable(package, Manifest(package).configSchema)
       /\ Readable(package, Manifest(package).configDefaults)
       /\ override.state \in {"missing", "ok"}
       /\ "mirrors" \in DOMAIN values
       /\ \A m \in Range(values.mirrors) :
              /\ m.named /\ m.url.bare
              /\ AllowsNetwork(Manifest(package), m.url)
       /\ \E m \in Range(values.mirrors) : m.enabled
       /\ \A key \in DOMAIN Limits :
              BoundedInteger(values, key) \in Limits[key].least..Limits[key].most

\* initialize(): the script runs, and every provider that it registers has an
\* id of its own, a name and its two functions.
ScriptLoads(package) ==
    /\ Readable(package, Manifest(package).entry)
    /\ LET script == Content(package, Manifest(package).entry)
       IN /\ script.runs
          /\ script.providers # <<>> /\ IsInjective(script.providers)
          /\ \A p \in Range(script.providers) : p \notin script.unusable

-----------------------------------------------------------------------------
(* Places: 0 is the package that is built in, the others are directories.  *)

Package(place) == IF place = 0 THEN disk.builtin ELSE disk.directory[place]
Id(place) == Manifest(Package(place)).id
Override(place) == disk.overrides[Id(place)]

\* loadEpisodeProviderPlugin().
Loads(place) ==
    /\ ManifestLoads(Package(place))
    /\ ConfigurationLoads(Package(place), Override(place))
    /\ ScriptLoads(Package(place))

\* What the parts of a package that loads hold are lists and numbers.
IsList(s) == s \in Seq(Range(s))
ASSUME StartsAssumption ==
    \A start \in Starts :
        /\ start.settings.max_packages \in Int
        /\ IsList(start.directory)
        /\ \A package \in {start.builtin} \cup Range(start.directory) :
             ManifestLoads(package) =>
               LET manifest == Manifest(package)
                   override == start.overrides[manifest.id]
                   mirrors == Values(package, override).mirrors
               IN /\ ConfigurationLoads(package, override) =>
                       IsList(mirrors) /\ \A m \in Range(mirrors) : m.priority \in Int
                  /\ ScriptLoads(package) => IsList(Content(package, manifest.entry).providers)

\* The keys that the providers of a package have, pluginId.providerId.
Keys(place) ==
    LET providers == Content(Package(place), Manifest(Package(place)).entry).providers
    IN [i \in DOMAIN providers |-> <<Id(place), providers[i]>>]

\* Bug: providers are added one by one until one is refused.
Register_OneByOne(place) ==
    LET fits == SelectSeq(Keys(place), LAMBDA key : key \notin LongKeys)
    IN /\ registry' = registry \o [i \in DOMAIN fits |-> [key |-> fits[i], place |-> place]]
       /\ loadedIds' = loadedIds \cup {Id(place)}

\* registerProviders(): all providers of a package, or none of them.
Register(place) ==
    LET keys == Keys(place)
        registered == {entry.key : entry \in Range(registry)}
    IN IF /\ IsInjective(keys)
          /\ Range(keys) \cap (LongKeys \cup registered) = {}
       THEN /\ registry' = registry \o
                   [i \in DOMAIN keys |-> [key |-> keys[i], place |-> place]]
            /\ loadedIds' = loadedIds \cup {Id(place)}
       ELSE UNCHANGED <<registry, loadedIds>>

-----------------------------------------------------------------------------
(* The start.                                                              *)

\* What one start finds does not change while the application runs.
StartInit ==
    /\ disk \in Starts
    /\ stage = "builtin" /\ visited = 0
    /\ pluginIds = {} /\ loadedIds = {}
    /\ scanned = <<>> /\ issues = <<>> /\ registry = <<>>
    /\ Init

\* The package that is built in is read and registered first.
LoadBuiltin ==
    /\ stage = "builtin"
    /\ stage' = "scan"
    /\ IF disk.settings.enabled /\ disk.settings.load_builtin /\ Loads(0)
       THEN Register(0) ELSE UNCHANGED <<registry, loadedIds>>
    /\ UNCHANGED <<disk, visited, pluginIds, scanned, issues>>

\* The ids of what is registered are excluded from the scan.
BeginScan ==
    /\ stage = "scan" /\ disk.settings.enabled /\ disk.settings.scan_on_startup
    /\ stage' = "entries"
    /\ pluginIds' = loadedIds
    /\ UNCHANGED <<disk, visited, scanned, issues, registry, loadedIds>>

\* No scan is wanted, or the directory cannot be made.
NoScan ==
    /\ stage = "scan"
    /\ stage' = "serving"
    /\ UNCHANGED <<disk, visited, pluginIds, scanned, issues, registry, loadedIds>>

\* std::clamp(maximumPackages, 1, 256), and no more than there are.
Limit ==
    LET most == disk.settings.max_packages
    IN IF most < 1 THEN 1 ELSE IF most > PackagesLimit THEN PackagesLimit ELSE most
Entries == IF Len(disk.directory) < Limit THEN Len(disk.directory) ELSE Limit

\* A directory that is not a link, can be resolved, and holds a package whose
\* plugin is not there already.
Admitted(place) ==
    LET package == Package(place)
    IN /\ ~package.linked \/ disk.settings.allow_symlinks
       /\ package.resolves
       /\ ManifestLoads(package)
       /\ Id(place) \notin pluginIds

\* One turn of the loop of scanEpisodeProviderPlugins() which skips an entry.
SkipEntry ==
    LET place == visited + 1
    IN /\ stage = "entries" /\ visited < Entries
       /\ ~(Admitted(place) /\ Loads(place))
       /\ visited' = place
       /\ issues' = Append(issues, place)
       /\ UNCHANGED <<disk, stage, pluginIds, scanned, registry, loadedIds>>

\* One turn of the loop which loads a package.
LoadEntry ==
    LET place == visited + 1
    IN /\ stage = "entries" /\ visited < Entries
       /\ Admitted(place) /\ Loads(place)
       /\ visited' = place
       /\ pluginIds' = pluginIds \cup {Id(place)}
       /\ scanned' = Append(scanned, place)
       /\ UNCHANGED <<disk, stage, issues, registry, loadedIds>>

\* The directory is at its end, or holds more packages than are looked at.
EndScan ==
    /\ stage = "entries" /\ visited = Entries
    /\ stage' = "register"
    /\ issues' = IF Len(disk.directory) > Limit THEN Append(issues, 0) ELSE issues
    /\ UNCHANGED <<disk, visited, pluginIds, scanned, registry, loadedIds>>

\* What the scan has loaded is registered in the same order.
RegisterNext ==
    /\ stage = "register" /\ scanned # <<>>
    /\ Register(Head(scanned))
    /\ scanned' = Tail(scanned)
    /\ UNCHANGED <<disk, stage, visited, pluginIds, issues>>

EndStart ==
    /\ stage = "register" /\ scanned = <<>>
    /\ stage' = "serving"
    /\ UNCHANGED <<disk, visited, pluginIds, scanned, issues, registry, loadedIds>>

StartUp ==
    \/ LoadBuiltin \/ BeginScan \/ NoScan \/ SkipEntry \/ LoadEntry \/ EndScan
    \/ RegisterNext \/ EndStart

-----------------------------------------------------------------------------
(* Once the pages are there, they call the plugins that are registered.    *)

Mirrors(place) == Ranked(Values(Package(place), Override(place)).mirrors)

\* This plugin's runtime is the one that PluginRuntime models.
RunsAt(place) ==
    /\ Len(Mirrors(place)) = NMirrors
    /\ Enabled = {i \in 1..NMirrors : Mirrors(place)[i].enabled}
    /\ MaxRequests = BoundedInteger(Values(Package(place), Override(place)),
                                    "maximumRequestsPerOperation")

Serving ==
    stage = "serving" /\ \E entry \in Range(registry) : RunsAt(entry.place)

StartNext ==
    \/ StartUp /\ UNCHANGED vars
    \/ Serving /\ Next /\ UNCHANGED startVars

StartSpec ==
    /\ StartInit /\ [][StartNext]_<<startVars, vars>>
    /\ WF_<<startVars, vars>>(Serving /\ Runs /\ UNCHANGED startVars)
    /\ WF_<<startVars, vars>>(Serving /\ Wake /\ UNCHANGED startVars)
    /\ WF_<<startVars, vars>>(Serving /\ Replied /\ UNCHANGED startVars)

-----------------------------------------------------------------------------
(* Properties.                                                             *)

\* What a start offers follows from the packages alone: of each plugin id, the
\* package that is built in if it is registered, else the first directory that
\* loads, all of its providers or, when one of their keys is too long, none; a
\* package that does not load does not stand in the way of another one; and
\* every directory that was looked at and not loaded is reported once
\* (gui/application.cpp:262-334, plugin_runtime.cpp:771-845).  Of one case it
\* says nothing: the package that is built in is wanted and not offered, and the
\* directory has packages of its id.  The code then loads the first of them that
\* is sound, and plugin_runtime.md:69-70 says that none runs.
BuiltinOffered ==
    /\ disk.settings.enabled /\ disk.settings.load_builtin /\ Loads(0)
    /\ Range(Keys(0)) \cap LongKeys = {}
Looked == 1..visited
Sound(place) ==
    /\ Package(place).resolves
    /\ ~Package(place).linked \/ disk.settings.allow_symlinks
    /\ Loads(place)
First(place) ==
    /\ Sound(place)
    /\ ~(BuiltinOffered /\ Id(place) = Id(0))
    /\ \A other \in Looked :
           other < place /\ Sound(other) => Id(other) # Id(place)
OfferedPlaces ==
    {place \in Looked : First(place) /\ Range(Keys(place)) \cap LongKeys = {}}
    \cup (IF BuiltinOffered THEN {0} ELSE {})
\* The providers of each of the places, side by side and in the order in which
\* its script registers them; the places in their order.
Lists(list, places) ==
    /\ {entry.place : entry \in Range(list)} = places
    /\ \A i, j \in DOMAIN list : i < j => list[i].place <= list[j].place
    /\ \A place \in places : \E n \in 0..Len(list) :
           /\ {i \in DOMAIN list : list[i].place = place} = (n + 1)..(n + Len(Keys(place)))
           /\ \A i \in DOMAIN Keys(place) : list[n + i].key = Keys(place)[i]
Disputed(place) ==
    /\ disk.settings.load_builtin /\ ~BuiltinOffered
    /\ ManifestLoads(Package(place)) /\ Id(place) = Id(0)
FirstOfEachId ==
    stage = "serving" =>
        /\ \E open \in SUBSET {place \in Looked : Disputed(place)} :
             Lists(registry, {place \in OfferedPlaces : ~Disputed(place)} \cup open)
        /\ \A place \in Looked : ~Disputed(place) =>
             Cardinality({i \in DOMAIN issues : issues[i] = place})
                 = IF First(place) THEN 0 ELSE 1

\* Whatever a user's configuration says, an operation asks only mirrors that
\* are enabled and that the package's own manifest permits, and no mirror
\* before those of a higher priority (plugin_manifest.cpp:300-333,
\* plugin_runtime.cpp:268-274).
AsksPermittedMirrors ==
    [][\A entry \in Range(registry) :
         at = "next" /\ at' = "begin" /\ RunsAt(entry.place) =>
           LET mirrors == Mirrors(entry.place)
           IN /\ mirrors[mirror'].enabled
              /\ AllowsNetwork(Manifest(Package(entry.place)), mirrors[mirror'].url)
              /\ \A i \in 1..NMirrors :
                   /\ mirrors[i].enabled /\ pin = 0
                   /\ mirrors[i].priority > mirrors[mirror'].priority
                   => i <= mirror]_vars
=============================================================================
