SPECIFICATION ProgramSpec
CONSTANTS
  Texts <- MCTexts
  WaitGarbage = {0, 8000, 9000}
  Programs <- MCPrograms
  Channels = {0, 1, 17}
  Devices = {1, 21}
  StateGarbage <- MCGarbage
  Commands <- MCCommands
  MaxCommands = 1
  PowerUp = PowerUp
INVARIANTS
  TypeOK
  OnSchedule
  OperandFits
  ServedSoon
  OutputsFollow
  LengthsAgree
CHECK_DEADLOCK FALSE
