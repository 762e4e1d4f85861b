-------------------------- MODULE MCEpisodeResource --------------------------
(***************************************************************************)
(* Instances of EpisodeResource for TLC: two providers of one package, or  *)
(* one of them alone.                                                      *)
(***************************************************************************)
EXTENDS EpisodeResource

CONSTANTS p1, p2, g, e1

MCProviders == {p1, p2}
MCPlugins == {g}
MCPluginOf == [p \in MCProviders |-> g]

OneProvider == {p1}
OnePluginOf == [p \in OneProvider |-> g]
OneEpisode == {e1}
=============================================================================
