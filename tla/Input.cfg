\* Every part may come to rest where its bounds are reached.
SPECIFICATION InputSpec
CONSTANTS
  Spellings <- Registered
  Letters = {"c"}
  MaxDraft = 1
  MaxCommand = 3
  MaxGeneration = 2
INVARIANTS
  EditorSound
  InputReachesItsSession
  HelpIsFresh
  WholeTextShown
  PointerHitsShown
  ShellSeesItsSize
  MapSound
CHECK_DEADLOCK FALSE
