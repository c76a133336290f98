SPECIFICATION ObjectsSpec
CONSTANTS
  t1 = t1
  t2 = t2
  t3 = t3
  m1 = m1
  m2 = m2
  idle = idle
  NoTask = NoTask
  NoMsg = NoMsg
  TickMod = 4
  SizeMod = 4
  Task = {t1, t2, t3, idle}
  Created <- Tasks
  Uses <- HandlerSending
  buffer_size = 2
  Msg = {m1, m2}
  Sender = {t1, t2}
  Receiver = {t2, t3}
PROPERTY IsFifo
