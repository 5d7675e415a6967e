\* Two items, one of them with mail, the daemon and a command, two messages for an item, one fault.
\* The instance stops when every item is merged, cleaned and has had its messages.
SPECIFICATION Spec
CONSTANTS
  a = a
  b = b
  daemon = daemon
  command = command
  Items = {a, b}
  Procs = {daemon, command}
  Daemon = daemon
  Partitions = 3
  MaxMessages = 2
  Outages = {"validate"}
  MaxFaults = 1
  Mailed = {a}
CHECK_DEADLOCK FALSE
INVARIANTS
  LocksRight
  
PROPERTIES
  MailRight
  WaitingIsServed
