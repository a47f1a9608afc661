CONSTANTS
  a1 = a1
  a2 = a2
  MaxMenus = 2
  MaxOrder = 1
  Existing = {}
  Adders = {a1, a2}
  Editors = {}
  Removers = {}
  Sorters = {}
  Keep = Keep
  Category <- TwoCategories
SPECIFICATION Spec
INVARIANTS CategoriesByName
CHECK_DEADLOCK FALSE
