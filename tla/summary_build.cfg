CONSTANTS
  Slots = {1, 2}
  NoSlot = NoSlot
  Builders = {b1, b2}
SYMMETRY Interchangeable
SPECIFICATION Spec
INVARIANTS TypeOK SummaryConsistent
PROPERTIES SummaryGrows
