\* Three tasks, so that one can be overtaken while another is polled, and
\* sleeps of zero and one tick.
CONSTANTS
  Task = {t1, t2, t3}
  NoTask = NoTask
  MaxSleep = 1
SPECIFICATION ExecutorSpec
INVARIANTS
  NeverPanics
  TasksConserved
PROPERTIES
  NoOvertaking
  EveryTaskPolled
  SleepersWake
