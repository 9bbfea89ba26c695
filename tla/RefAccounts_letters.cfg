SPECIFICATION RefAccountsSpec
CONSTANTS
  None = None
  Emails = {e1, e2}
  NewEmails = {e1}
  Passwords = {w1}
  Threads = {t1, t2}
  MaxUsers = 2
  MaxKeys = 2
SYMMETRY Symmetry
INVARIANTS RefAccountsTypeOK  NoLockout BarredStaysOut
PROPERTIES RegisteredReady
CHECK_DEADLOCK FALSE
