SPECIFICATION CheckoutSpec
CONSTANTS
  p1 = p1
  None = None
  Users = {u1}
  Infos = {p1}
  Threads = {t1}
  Catalogue <- OneSold
  Asks <- One
  MaxOrders = 2
  MaxItems = 1
  MaxContacts = 1
  Edits <- Cancel
  Quantities <- One
  Prices <- One
  Prefetch = 2
  MaxCrashes = 1
INVARIANTS  MailedOnce
 

CHECK_DEADLOCK FALSE
