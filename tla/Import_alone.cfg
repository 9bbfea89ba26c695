SPECIFICATION ImportSpec
CONSTANTS
  acme = acme
  c1 = c1
  c2 = c2
  lamp = lamp
  desk = desk
  color = color
  None = None
  Worker = Worker
  Files <- VariedFiles
  Operators = {op1}
  Admins = {a1}
  Categories = {c1, c2}
  MaxRows = 4
  MaxTasks = 1
  MaxWaiting = 2
  AtOnce = 1
  MaxPrunes = 1
INVARIANTS CatalogueRefs LoadedExactly 
PROPERTIES ProcessedIsOffered
