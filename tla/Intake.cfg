SPECIFICATION FairSpec
CONSTANTS
  t1 = t1
  t2 = t2
  Intakes = {1, 2}
  Thread = {t1, t2}
  Abandoned = {2}
  Ttl = 3
  Delays <- MCDelays
  MaxReminders = 2
  Limit = 1
  Horizon = 3
  MaxEdits = 1
  MaxFaults = 1
INVARIANTS
  TypeOK
  ForwardedOnce
  ShownAsForwarded
  RemindersBounded
PROPERTIES
  RemindersServed
