SPECIFICATION Spec
CONSTANTS
  Fields = {"x", "y", "z"}
  Size = 2
  Veterans = {"f1"}
  Joiners = {"f2"}
  MaxFields = 6
INVARIANTS DecodesExactly DecoderMirrorsEncoder EvictsLeastFrequent
CHECK_DEADLOCK FALSE
