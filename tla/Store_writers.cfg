SPECIFICATION StoreSpec
CONSTANTS
  p1 = p1
  p2 = p2
  None = None
  Users = {u1, u2}
  Infos = {p1, p2}
  Threads = {t1, t2}
  Catalogue <- OneSold
  Asks <- One
  MaxOrders = 1
  MaxItems = 2
  MaxContacts = 1
  Edits <- Cancel
  Quantities <- One
  Prices <- One
SYMMETRY Symmetry
INVARIANTS StoreTypeOK References 
PROPERTIES RevivedEmpty 
