CONSTANTS
  root = root
  keysDir = keysDir
  packsDir = packsDir
  Config = config
  KeyName = master
  Pack = pack
  Name = {config, master, pack}
  Dir = {root, keysDir, packsDir}
  Root = root
  DirOf <- InDirs
  Durable = {}
  Stamp = stamp
  Key = {k1, k2, k3}
  Value = {stamp, k1, k2, k3}
  Process = {w1, w2}
  NoBlob = NoBlob
  Torn = Torn
SPECIFICATION RepoSpec
SYMMETRY Symmetry
INVARIANTS KeyNeedsConfig DataReadable
