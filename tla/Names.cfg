SPECIFICATION Spec
CONSTANTS
  NULL = NULL
  Pending = Pending
  Refused = Refused
  Slash = "/"
  Dot = "."
  Nul = "nul"
  Others = {"a", "ctl", "del"}
  Del = "del"
  Control = {"ctl"}
  MaxLen = 6
  Dirs <- TwoDirs
  Prefix <- SomePrefix
INVARIANTS
  InPlace
  NormalForm
  OpenedBelowDirs
  ParseMeaning
