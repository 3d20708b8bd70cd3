\* A thread woken for a message is destroyed before it takes it.
SPECIFICATION Spec
CONSTANTS
  q1 = q1
  q2 = q2
  Threads = {idle, a, b, c}
  Idle = idle
  NoThread = NoThread
  Queues = {q1}
  Capacity <- CapOne
  Messages = {x}
  Priorities = {0, 1, 2}
  Events = {}
  Calls = {"recv", "send", "create", "destroy"}
SYMMETRY ThreadSymmetry
INVARIANT NoLostMessageWakeup
