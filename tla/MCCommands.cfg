SPECIFICATION FairSpec
CONSTANTS
  Buffer = 1
  MaxDeltas = 2
  MaxHookDepth = 1
  NotFiring = NotFiring
  HookLists <- MCHookLists
  ModelLists <- MCModelLists
  MaxExchanges = 2
  ModelIds = {"deepseek", "claude"}
  Usable = {"deepseek"}
  AppleSilicon = TRUE
  Environments <- MCEnvironments
  YamlFiles <- MCYamlFiles
  Modes = {"local"}
  NoFile = NoFile
  Garbled = Garbled
  p1 = p1
  p2 = p2
  p3 = p3
  Starters = {p1, p2, p3}
  IdOf <- MCIdOf
  Races <- MCRaces
  Additions <- MCAdditions
  WatchBuf = 1
  Nobody = Nobody
  Torn = Torn
  TermSizes <- MCTermSizes
  MaxEntries = 2
  MaxHookEvents = 2
  Loads = {1, 2}
  MaxPings = 2
  PipeRoom = 1
INVARIANTS HooksGateModel OutputIsTheAnswer AllModelsCount HistoryIsTheDialogue DemoIsHonest
INVARIANTS RegistryKeeps RendersInBounds AdviceIsHonoured ConfiguredIsUsed
PROPERTIES CommandEnds RegistryIsSeen
CHECK_DEADLOCK FALSE
