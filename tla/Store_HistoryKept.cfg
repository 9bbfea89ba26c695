SPECIFICATION StoreSpec
CONSTANTS
  p1 = p1
  p2 = p2
  None = None
  Users = {u1}
  Infos = {p1, p2}
  Threads = {t1}
  Catalogue <- OneSold
  Asks <- One
  MaxOrders = 1
  MaxItems = 1
  MaxContacts = 1
  Edits <- Cancel
  Quantities <- One
  Prices <- One
PROPERTIES HistoryKept
