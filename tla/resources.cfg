SPECIFICATION Spec
CONSTANTS
    p1 = p1
    p2 = p2
    g = g
    e1 = e1
    None = None
    Providers <- MCProviders
    Plugins <- MCPlugins
    PluginOf <- MCPluginOf
    Episodes <- OneEpisode
    MaxHandles = 2
    MaxResults = 2
    SearchLife = 2
    ResolvedLife = 1
    MaxReady = 2
    MaxLoads = 1
INVARIANT ShownIsCached
INVARIANT NoOrphans
PROPERTY OpensWhatIsShown
PROPERTY RequestsEnd
