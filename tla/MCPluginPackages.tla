--------------------------- MODULE MCPluginPackages ---------------------------
(***************************************************************************)
(* An instance of PluginPackages for TLC: every directory of up to three   *)
(* of seven packages, with two plugin ids, under each of a few settings    *)
(* and user files; and, in one more directory, the package whose runtime   *)
(* PluginRuntime models, with three mirrors of which one is disabled.      *)
(***************************************************************************)
EXTENDS PluginPackages

CONSTANTS Outside

MCEnabled == {1, 3}
MCLocalHosts == {<<"localhost">>}
MCLongKeys == {<<"own", "long">>, <<"yhdmmm", "long">>}

Site == <<"com", "site">>
Origin(host, below) ==
    [scheme |-> "https", host |-> host, port |-> 443, bare |-> TRUE,
     subdomains |-> below]
Mirror(host, on, rank) ==
    [named |-> TRUE, enabled |-> on, priority |-> rank,
     url |-> [scheme |-> "https", host |-> host, port |-> 443, bare |-> TRUE]]
Www(label) == Append(Site, label)

Text(content) == [state |-> "ok", content |-> content]
NoFile == [state |-> "missing", content |-> <<>>]
Broken == [state |-> "malformed", content |-> <<>>]

ManifestOf(id) ==
    [supported |-> TRUE, id |-> id, entry |-> "index.js",
     configSchema |-> "schema", configDefaults |-> "defaults",
     network |-> <<Origin(Site, FALSE), Origin(Site, TRUE)>>,
     media |-> <<Origin(<<"net", "cdn">>, TRUE)>>]
Script(providers) == [runs |-> TRUE, providers |-> providers, unusable |-> {"nameless"}]

PackageOf(id, providers) ==
    [linked |-> FALSE, resolves |-> TRUE,
     files |-> [path \in {"manifest.json", "schema", "defaults", "index.js"} |->
        CASE path = "manifest.json" -> Text(ManifestOf(id))
          [] path = "schema" -> Text(<<>>)
          [] path = "defaults" -> Text([mirrors |-> <<Mirror(Site, TRUE, 1)>>])
          [] path = "index.js" -> Text(Script(providers))]]

With(package, path, file) == [package EXCEPT !.files[path] = file]
WithManifest(package, manifest) == With(package, "manifest.json", Text(manifest))

Builtin == PackageOf("yhdmmm", <<"yhdmmm">>)
Own     == PackageOf("own", <<"first", "second">>)
Packages ==
    {Own, PackageOf("yhdmmm", <<"copy">>), PackageOf("own", <<"short", "long">>),
     [Own EXCEPT !.linked = TRUE], PackageOf("own", <<"twice", "twice">>),
     With(Own, "defaults",
          Text([mirrors |-> <<Mirror(Site, TRUE, 1), Mirror(<<"com", "other">>, TRUE, 2)>>])),
     WithManifest(Own, [ManifestOf("own") EXCEPT !.configSchema = Outside])}

\* Found once each, in a directory of their own.
Others ==
    {[Own EXCEPT !.resolves = FALSE], With(Own, "manifest.json", Broken),
     With(Own, "schema", NoFile), With(Own, "index.js", Broken),
     With(Own, "defaults", Text([requestTimeoutMs |-> 1000])),
     With(Own, "defaults", Text([mirrors |-> <<Mirror(Www("a"), FALSE, 1)>>])),
     WithManifest(Own, [ManifestOf("own") EXCEPT !.media = <<>>]),
     WithManifest(Own, [ManifestOf("own") EXCEPT
                            !.network = <<Origin(<<"localhost">>, FALSE)>>]),
     PackageOf("own", <<"nameless">>), PackageOf("own", <<>>)}

Three == <<Mirror(Www("b"), FALSE, 2), Mirror(Www("a"), TRUE, 1), Mirror(Site, TRUE, 3)>>
Modelled == With(Own, "defaults", Text([mirrors |-> Three, maximumRequestsPerOperation |-> 2]))

Directories ==
    UNION {[1..n -> Packages] : n \in 0..3}
    \cup {<<package>> : package \in Others}

Setting(on, builtin, scan, most, links) ==
    [enabled |-> on, load_builtin |-> builtin, scan_on_startup |-> scan,
     max_packages |-> most, allow_symlinks |-> links]
Usual == Setting(TRUE, TRUE, TRUE, 64, FALSE)
Settings ==
    {Usual, Setting(TRUE, FALSE, TRUE, 2, TRUE),
     Setting(TRUE, TRUE, TRUE, 0, FALSE)}
Off == {Setting(FALSE, TRUE, TRUE, 64, FALSE), Setting(TRUE, TRUE, FALSE, 64, FALSE)}

Users(own, yhdmmm) == [id \in {"own", "yhdmmm"} |-> IF id = "own" THEN own ELSE yhdmmm]
Unchanged == Users(NoFile, NoFile)
UserFiles ==
    {Unchanged,
     Users(NoFile, Text([mirrors |-> <<Mirror(Www("c"), TRUE, 1)>>])),
     Users(NoFile, Text([mirrors |-> <<Mirror(<<"com", "other">>, TRUE, 1)>>])),
     Users(Text([maximumRequestsPerOperation |-> 33]), NoFile)}

Start(settings, builtin, directory, overrides) ==
    [settings |-> settings, builtin |-> builtin, directory |-> directory,
     overrides |-> overrides]
MCStarts ==
    {Start(s, Builtin, d, o) : s \in Settings, d \in Directories, o \in UserFiles}
    \cup {Start(s, Builtin, <<Own>>, Unchanged) : s \in Off}
    \cup {Start(s, PackageOf("yhdmmm", <<"long">>), <<PackageOf("yhdmmm", <<"copy">>)>>,
                Unchanged) : s \in Settings}
    \cup {Start(Usual, Builtin, <<Modelled>>, Unchanged),
          Start(Usual, Builtin, <<Own>>,
                Users(Text([mirrors |-> Three, maximumRequestsPerOperation |-> 2]), NoFile))}
=============================================================================
