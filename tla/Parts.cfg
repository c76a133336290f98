SPECIFICATION PartsSpec
CONSTANTS
  t1 = t1
  t2 = t2
  t3 = t3
  t4 = t4
  NoTask = NoTask
  NULL = NULL
  TickMod = 2
  Task <- Tasks
  TaskPriority <- Priorities
  Configs <- AllConfigs
  MaxDepth = 3
  Masked = TRUE
  Client = {t1, t2}
  MEMORYPOOL_SIZE = 100
  PoolAddr = 4
  BYTE_ALIGNMENT = 8
  STRUCT_SIZE = 8
  MainSize = 5
  Sizes = {1, 8, 12}
  DEBOUNCE_TICKS = 3
  LONG_PRESSED_TICKS = 9
  DOUBLE_PRESSED_TICKS = 6
  ByteBits = 8
  Byte <- MCByte
  DeviceAddr <- MCAddr
  Transfers <- MCTransfers
  Letter = {"a", "b"}
  INPUT_BUFFER_SIZE = 5
  COMMAND_LIST_SIZE = 3
  COMMAND_MAX_ARGS = 2
  Builtin <- MCBuiltin
  Names <- MCNames
  Reload = 5
  CyclesPerUs = 3
  Word = 36
  Us = {0, 1, 4, 7, 10}
  MaxTurns = 2
  MaxElapsed = 40
  Thread = {t1, t2}
  Value = {"v", "w"}
INVARIANTS AtomicInv MaskedExclusion  MemoryInv KeyInv I2cInv ConsoleInv DelayInv PortInv
PROPERTIES FailsOnlyWhenFull EventsReported TransferEnds ContextKept
