SPECIFICATION AccountsSpec
CONSTANTS
  None = None
  e1 = e1
  e2 = e2
  Emails <- TwoEmails
  Threads = {t1, t2}
  MaxUsers = 3
  Messages <- Letters
  Prefetch = 2
  MaxCrashes = 1
INVARIANTS AccountsTypeOK   OneTokenPerAccount
  
