\* One connection is enough: its reader and pinger close it at once.
SPECIFICATION Spec
CONSTANTS
  Conns = {c1}
  Sessions = {s}
INVARIANT CloseIsIdempotent
CHECK_DEADLOCK FALSE
