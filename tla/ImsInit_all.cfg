CONSTANTS
  MaxBoots = 3
  MaxInbox = 3
  MaxLosses = 2
  Interrupts = {TRUE, FALSE}
  Busy = {TRUE, FALSE}
SPECIFICATION Spec
INVARIANTS ChoiceRestored OneTogglePerService
PROPERTY TogglesAreDone
