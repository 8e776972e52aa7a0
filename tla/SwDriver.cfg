SPECIFICATION FairSpec
CONSTANTS
  Hashes = {h1, h2}
  Clients = {c1}
  Drains = {idle1}
  Messages = {msg1}
  Boot = Boot
  None = None
  Bounds <- MCBounds
INVARIANTS TypeOK VersionsKnown DiskMatchesMemory PinsRecoverable
PROPERTIES FetchAnswered NavCheckRuns
CHECK_DEADLOCK FALSE
