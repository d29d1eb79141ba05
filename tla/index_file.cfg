\* Keys whose lengths fit, machines of one order, writes that are complete.
SPECIFICATION Spec
CONSTANTS
  Base = 2
  KeyWidth = 2
  OffsetWidth = 2
  LengthWidth = 2
  Keys <- MCKeys
  Places <- MCPlaces
  Travels = FALSE
  Short = FALSE
  MaxFile = 32
INVARIANTS ITypeOK FileSpellsIndex
PROPERTIES HeldByCalls
CHECK_DEADLOCK FALSE
