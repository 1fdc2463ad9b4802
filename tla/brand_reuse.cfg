CONSTANTS
  Tenants = {t1}
  Schedules = {p1, p2}
  MaxBrands = 3
  MaxChannels = 2
  ReuseIds = TRUE
  Forms = {f1, f2}
  MaxForms = 1
  Jobs = {j1}
SPECIFICATION ConfigurationSpec
INVARIANTS
  DeletedBrandIsReplaced
CHECK_DEADLOCK FALSE
