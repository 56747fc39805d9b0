SPECIFICATION HelpersSpec
CONSTANTS
  Addresses = {1, 2, 3, 4}
  Sizes = {1, 2}
  Types = {"holding", "input"}
  MaxRegisters = 3
  MaxSpan = 4
  Initial = 2
  Multiplier = 3
  Maximum = 20
  Interval = 2
  MaxDelays = 4
  MaxTime = 5
INVARIANTS
  GroupsAreReadableAndMaximal
  AllowedIffIntervalOver
CHECK_DEADLOCK FALSE
