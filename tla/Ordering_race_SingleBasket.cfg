SPECIFICATION Spec
CONSTANTS
  p1 = p1
  p2 = p2
  None = None
  Users = {u1}
  Infos = {p1, p2}
  Threads = {t1, t2}
  Catalogue <- OneProduct
  Asks <- FewAsks
  MaxOrders = 2
  MaxItems = 2
  MaxContacts = 2
INVARIANTS SingleBasket
