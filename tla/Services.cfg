\* The parts may come to rest where their bounds are reached.
SPECIFICATION ServicesSpec
CONSTANTS
  Loaders = {l1, l2}
  Frames = {"a", "b", "c"}
  Selectable = {"a", "b"}
  Placeable = {"a"}
  Layouts <- Arrangements
  ZOrder <- BackToFront
  Points = {0, 1}
  Modifiers = {"plain", "shift"}
  MaxTimeouts = 2
INVARIANTS
  LayoutSound
  PictureExact
  SettingsSound
  FramesWhole
  Delivered
PROPERTIES
  ClicksCounted
  Canonical
CHECK_DEADLOCK FALSE
