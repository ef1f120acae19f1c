SPECIFICATION FairSpec
CONSTANTS
  Senders = {s1, s2}
  Receivers = {r1, r2, r3}
  Nobody = Nobody
  BACKLOG = 2
PROPERTIES
  ServesOne
  LineEndsWithSender
  GoneIsNoticed
CHECK_DEADLOCK FALSE
