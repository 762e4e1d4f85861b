SPECIFICATION Spec
CONSTANTS
    p1 = p1
    p2 = p2
    g = g
    e1 = e1
    None = None
    Providers <- OneProvider
    Plugins <- MCPlugins
    PluginOf <- OnePluginOf
    Episodes <- OneEpisode
    MaxHandles = 4
    MaxResults = 2
    SearchLife = 2
    ResolvedLife = 2
    MaxReady = 2
    MaxLoads = 2
PROPERTY LiveResultsKept
