SPECIFICATION ScreenSpec
CONSTANTS
  kScreenCommandDepth = 3
  Sizes = {1, 2}
  MaxStarts = 2
  MaxFaults = 0
  MaxResizes = 0
  MaxCopies = 0
PROPERTIES GeometryArrives
\* The application may come to rest, terminated.
CHECK_DEADLOCK FALSE
