CONSTANTS
  q1 = q1  q2 = q2  q3 = q3
  Questions = {q1, q2, q3}
  Limit = 1
  MaxHour = 2
  MaxRetries = 1
SPECIFICATION FairSpec
INVARIANTS HourlyCap ChargesAreFair KeysExpire
PROPERTIES ImplementsQuota EveryQuestionEnds
CHECK_DEADLOCK FALSE
