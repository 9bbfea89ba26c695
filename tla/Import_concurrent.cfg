SPECIFICATION ImportSpec
CONSTANTS
  acme = acme
  c1 = c1
  c2 = c2
  lamp = lamp
  desk = desk
  color = color
  None = None
  Worker = Worker
  Files <- OverlappingFiles
  Operators = {op1, op2}
  Admins = {a1}
  Categories = {c1, c2}
  MaxRows = 2
  MaxTasks = 1
  MaxWaiting = 1
  AtOnce = 2
  MaxPrunes = 0
INVARIANTS ImportTypeOK CatalogueRefs UniqueOffer
PROPERTIES ImplementsAssortment
SYMMETRY Symmetry
