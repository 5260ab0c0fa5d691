CONSTANTS
  b1 = b1
  t1 = t1
  n1 = n1
  n2 = n2
  Browsers = {b1}
  Tabs = {t1}
  BrowserOf <- OneTab
  Nodes = {n1, n2}
  None = None
  Keep = Keep
SPECIFICATION Spec
SYMMETRY NodeSymmetry
INVARIANTS
  TypeOK
  LocalSessionKept
  LocalPanelSeesLocal
  AwayMeansStashed
  HomeMeansLocal
