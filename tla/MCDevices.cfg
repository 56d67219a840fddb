SPECIFICATION MCSpec
CONSTANTS
  Thread = {t1, t2}
  Nobody = Nobody
  Sector = {0, 1, 3}
  SectorsPerTrack = 2
  SeekTime = 2
  RotationTime = 2
  MaxCalls = 2
  MaxIdle = 3
  User = {"r", "s", "p", "n"}
  NoUser = NoUser
  Jobs <- BusyJobs
  Typed <- Keys
  AtEnd = "open"
  LineMax = 2
  Least <- LeastByte
  Host = {0, 1}
  Mailer = {n1, n2, n3}
  NoMailer = NoMailer
  HostOf <- Hosts
  numBoxes = 2
  Setups <- NetworkSetups
  n1 = n1
  n2 = n2
  n3 = n3
INVARIANTS
  RequestsServed
  DataUnderHead
  CharactersReadOnce
  PrintedInOrder
  MailIsKept
PROPERTY DeviceCallsReturn
CHECK_DEADLOCK FALSE
