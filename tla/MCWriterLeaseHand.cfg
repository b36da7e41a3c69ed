CONSTANTS
  Bots = {"old", "new"}
  Migrators = {"migration"}
  Build <- MCBuild
  Nobody = "nobody"
  Ghost = "ghost"
  MaxFaults = 0
  AlertChanges = 0
  Horizon = 0
SPECIFICATION PartsSpec
INVARIANT HandsOverAfterWriting
