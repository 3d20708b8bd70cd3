\* Every call but "start a WAITING thread", two events and the fault trap.
SPECIFICATION Spec
CONSTANTS
  q1 = q1
  q2 = q2
  Threads = {idle, a, b}
  Idle = idle
  NoThread = NoThread
  Queues = {q1}
  Capacity <- CapOne
  Messages = {x}
  Priorities = {0, 1, 2}
  Events = {"prenmi", "fault"}
  Calls = {"recv", "send", "yield", "create", "stop", "destroy", "setpri", "bind"}
SYMMETRY ThreadSymmetry
INVARIANTS TypeOK OnOneList StatesAgree WaitersAgree Sorted HighestRuns
PROPERTIES YieldIsRoundRobin
CHECK_DEADLOCK FALSE
