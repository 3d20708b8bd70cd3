\* Threads that only exchange messages, two interrupts that post some, and the reset.
SPECIFICATION Spec
CONSTANTS
  q1 = q1
  q2 = q2
  Threads = {idle, a, b, c}
  Idle = idle
  NoThread = NoThread
  Queues = {q1}
  Capacity <- CapOne
  Messages = {x}
  Priorities = {0, 1, 2}
  Events = {"sp", "prenmi", "cpu_break"}
  Calls = {"recv", "send", "jam", "create", "bind"}
SYMMETRY ThreadSymmetry
INVARIANTS NoLostMessageWakeup NoLostSlotWakeup
PROPERTIES InterruptPreemption PreNmiNotice
CHECK_DEADLOCK FALSE
