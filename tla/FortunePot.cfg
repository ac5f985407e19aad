SPECIFICATION Spec
CONSTANTS
  MAX_COOKIE_LEN = 4
  MaxLen = 4
  Prefix = 1
  Callers = {r1, r2}
INVARIANTS
  TypeOK
  CookiesWhole
  NothingLeft
CHECK_DEADLOCK FALSE
