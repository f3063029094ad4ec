CONSTANTS
  MaxBoots = 3
  MaxInbox = 3
  MaxLosses = 2
  Interrupts = {TRUE}
  Busy = {FALSE}
SPECIFICATION Spec
INVARIANT OffAndBackOn
