SPECIFICATION Spec
PROPERTIES
  LocksGetOn NtReceived DemosEnd DeadReplaced
