CONSTANTS
  Senders = {s1, s2}
  Receivers = {r1}
  Message = {m1, m2}
  NoMessage = NoMessage
  Unlocked = Unlocked
  Capacity = 2
SPECIFICATION MailBoxFairSpec
INVARIANTS MailBoxTypeOK
PROPERTIES ImplementsChannel CallersServed
