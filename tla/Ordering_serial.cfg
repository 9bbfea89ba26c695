SPECIFICATION SerialSpec
CONSTANTS
  p1 = p1
  p2 = p2
  None = None
  Users = {u1, u2}
  Infos = {p1, p2}
  Threads = {t1, t2}
  Catalogue <- ThreePieces
  Asks <- FewAsks
  MaxOrders = 2
  MaxItems = 2
  MaxContacts = 1
SYMMETRY Symmetry
PROPERTIES ImplementsCart
