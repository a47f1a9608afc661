CONSTANTS
  s2 = s2
  s1 = s1
  d1 = d1
  e1 = e1
  a1 = a1
  MaxMenus = 3
  MaxOrder = 1
  Existing = {1, 2}
  Adders = {a1}
  Editors = {e1}
  Removers = {d1}
  Sorters = {s1, s2}
  Keep = Keep
  Category <- TwoCategories
SPECIFICATION Spec
PROPERTIES AloneIsExact DeletedStays
INVARIANTS NoCircularWait GroupsInOrder
CHECK_DEADLOCK FALSE
