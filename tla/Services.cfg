SPECIFICATION ServicesSpec
CONSTANTS
  Clients = {"page"}
  Buffer = 2
  MaxFrames = 5
  Items = {1}
  Dir <- MCDir
  Publishers = {"p1", "p2"}
  Convs = {1, 2}
  Stored = {1}
  Streams = {"s1", "s2"}
  MaxCalls = 2
  NoConv = 0
  NoStream = "none"
  Savers = {"s1", "s2"}
  MaxSaves = 3
  Caught = {1, 2}
  Domain <- MCDomain
  Names <- MCNames
  Tokens = {"t"}
  MaxAsked = 2
  PageItems = {1, 2}
  NoItem = 0
  MaxRows = 2
  MaxPageCalls = 3
INVARIANTS
  ServicesTypeOK
  PagesAreServed
  PageIsTold
  OneReplyPerTurn
  PageIsOfOne
  SettingsSurviveRestart
  ListsAreRight
PROPERTIES
  LoneSaveAddsNoKey
  NothingLasts
  NothingIsUndone
