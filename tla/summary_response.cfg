CONSTANTS
  Slots = {1, 2}
  NoSlot = NoSlot
  Builders = {b1}
SPECIFICATION Spec
INVARIANTS ResponseIsOneReport
