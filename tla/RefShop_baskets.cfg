SPECIFICATION RefShopSpec
CONSTANTS
  None = None
  lamp = lamp
  desk = desk
  sofa = sofa
  Buyers = {u1, u2}
  Partners = {u2}
  Files <- PriceLists
  Asked <- Quantities
  Threads = {t1, t2}
  MaxOrders = 2
  MaxItems = 1
  MaxContacts = 1
  MaxInfos = 2
SYMMETRY Symmetry
INVARIANTS RefShopTypeOK  OneBasket OneList
PROPERTIES LinesSettled OffersAsListed
CHECK_DEADLOCK FALSE
