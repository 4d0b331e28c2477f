\* The deletion of a source whose event is in conflict.
CONSTANTS
  s1 = s1
  s2 = s2
  d1 = d1
  d2 = d2
  east = east
  west = west
  Sources = {s1, s2}
  NumEvents = 2
  NumEpisodes = 1
  MaxRevisions = 3
  Dates = {d1, d2}
  Zones = {east, west}
  Times <- TwoDays
SPECIFICATION Spec
SYMMETRY SourceSymmetry
INVARIANT DeletedEventIsHidden
CHECK_DEADLOCK FALSE
