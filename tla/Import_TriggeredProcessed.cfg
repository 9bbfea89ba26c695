SPECIFICATION CalmSpec
CONSTANTS
  acme = acme
  c1 = c1
  c2 = c2
  lamp = lamp
  desk = desk
  color = color
  None = None
  Worker = Worker
  Files <- OneFile
  Operators = {}
  Admins = {a1}
  Categories = {c1, c2}
  MaxRows = 2
  MaxTasks = 1
  MaxWaiting = 1
  AtOnce = 1
  MaxPrunes = 0
PROPERTIES TriggeredProcessed
CHECK_DEADLOCK FALSE
