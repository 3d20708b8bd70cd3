\* Two timers, one-shot and periodic, a counter of four: early timers.
SPECIFICATION Spec
CONSTANTS
  Timers = {t1, t2}
  Countdowns = {0, 2}
  Intervals = {0, 1}
  W = 4
  MaxLag = 1
  MaxArm = 1
  EventSlots = 1
PROPERTY NeverEarly
