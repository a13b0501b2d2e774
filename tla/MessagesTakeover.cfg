SPECIFICATION Spec
CONSTANTS
  Senders = {1, 2}
  Receivers = {1}
  MaxFrag = 3
  MaxMsg = 2
  MaxOpen = 4
INVARIANT MsgNoSplice
