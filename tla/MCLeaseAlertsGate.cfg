CONSTANTS
  Bots = {"old", "new"}
  Migrators = {"migration"}
  Build <- MCBuild
  Nobody = "nobody"
  Ghost = "ghost"
  MaxFaults = 2
  AlertChanges = 6
  Horizon = 5
SPECIFICATION PartsSpec
INVARIANTS LeaseIsRespected
PROPERTIES LeaseIsGivenUp EpisodeIsTold EveryRequestEnds
