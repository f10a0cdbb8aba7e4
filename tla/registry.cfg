\* Two client threads, one topic they share and two that one of them owns.
SPECIFICATION FairSpec
CONSTANTS
  None = None
  c1 = c1
  c2 = c2
  chatter = chatter
  broken = broken
  Clients = {c1, c2}
  Topics = {chatter, broken}
  Failing = {broken}
  Tables <- MCTables
  Registers <- MCRegisters
  MaxEntities = 4
INVARIANTS TypeOK OwnedOnce OwnerPublishes DeadIsReplaced
PROPERTIES EntryRecovers
CHECK_DEADLOCK FALSE
