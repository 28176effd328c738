\* Two processes, or one and the child that it forks.
CONSTANTS
  p1 = p1
  p2 = p2
  a = a
  b = b
  v1 = v1
  v2 = v2
  Procs = {p1, p2}
  Objects = {a, b}
  Versions = {v1, v2}
  Worlds <- MCWorlds
  Startup <- MCStartup
  Late = {a}
  Stamp <- MCStamp
  NFunctions <- MCNFunctions
  MaxFunctions = 2
  BlockSize = 3
  MaxCount = 1
  Nobody = Nobody
SPECIFICATION FairSpec
INVARIANTS TypeOK Conserved FilesReadable SkippedForAReason
PROPERTIES ForeignFilesKept DumpsEnd
CHECK_DEADLOCK FALSE
