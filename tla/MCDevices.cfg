CONSTANTS
  Thread = {"main0", "worker0", "main1", "worker1", "other"}
  m0 = m0
  m1 = m1
  plain = plain
  Machine = {m0, m1}
  Box <- BoxDef
  List <- ListDef
  Lock <- LockDef
  Condition <- ListDef
  None = None
  Setup <- SetupDef
  MaxItems = 3
  EOF = 255
  Q = 113
  Inputs <- InputsDef
  Timers <- RandomYield
  Devices <- DiskDef
  Pollers <- ConsoleDef
  TimerTicks = 3
  SystemTick = 2
  UserTick = 1
  Latencies <- Delays
  NumThreads = 2
  MaxTicks = 14
  Caller = {t1, t2, t3}
  Sector = {s1}
  d1 = d1
  Data = {d1, d2}
  Nobody = Nobody
SPECIFICATION DevicesSpec
INVARIANTS
  FirstInFirstOut
  EveryItemHasTaker
  MailExact
  OneSendAtATime
  EchoExact
  OneInterruptPerRequest
PROPERTIES
  MailTestEnds
  PromptDelivery
  HaltsWhenDone
  ImplementsAtomicDisk
  RequestReturns
