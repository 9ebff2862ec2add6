SPECIFICATION Spec
CONSTANTS
  Segments <- TwoSegments
  Clients = {c1, c2}
  Speakers = {s1, s2}
  First = s1
  Fillers = {2}
  Keep = 50
  MaxCalls = 5
SYMMETRY Symmetric
CHECK_DEADLOCK FALSE
PROPERTIES
  EditsSurvive
