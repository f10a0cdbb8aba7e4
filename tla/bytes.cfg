\* Two messages in either format over a connection that may end anywhere; and a
\* buffer of five bytes with payloads up to one that is too large for it.
SPECIFICATION BytesSpec
CONSTANTS
  Base = 4
  IntBytes = 2
  IdBytes = 1
  Names <- MCNames
  Ids = {1, 3}
  Payloads <- MCPayloads
  MaxMessages = 2
  BufferSize = 5
  Threshold = 2
  Sizes = {1, 2, 3, 6}
  MaxWrites = 5
INVARIANTS TypeOK RecentIntact GuardedIntact WireTypeOK FramingExact
PROPERTIES EveryMessageRead EndIsSeen
CHECK_DEADLOCK FALSE
