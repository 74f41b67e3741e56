SPECIFICATION Spec
PROPERTIES
  WaiterServed
  HandoversEnd
  KeyRenewed
  CallsReturn
  EveryRemoteTried
  NoEventStays
CHECK_DEADLOCK FALSE
