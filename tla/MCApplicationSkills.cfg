SPECIFICATION Spec
CONSTANTS
  e1 = e1
  e2 = e2
  p1 = p1
  p2 = p2
  theme1 = theme1
  theme2 = theme2
  one = one
  two = two
  three = three
  None = None
  Executions = {e1, e2}
  Pages = {p1, p2}
  Themes = {theme1, theme2}
  Contents = {one, two, three}
  FirstContent = one
  MinSamples = 1
  MaxVersion = 2
  MaxTasks = 5
  MaxCrashes = 1
SYMMETRY Symmetry
CHECK_DEADLOCK FALSE
INVARIANTS Consistent ServedIsQualified
