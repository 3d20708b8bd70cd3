\* osStartThread of a thread that is blocked on a queue.
SPECIFICATION Spec
CONSTANTS
  q1 = q1
  q2 = q2
  Threads = {idle, a, b}
  Idle = idle
  NoThread = NoThread
  Queues = {q1}
  Capacity <- CapOne
  Messages = {x}
  Priorities = {0, 1, 2}
  Events = {}
  Calls = {"recv", "create", "WAITING"}
SYMMETRY ThreadSymmetry
INVARIANT OnOneList
