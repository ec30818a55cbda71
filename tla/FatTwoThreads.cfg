\* Two threads that make any calls, on every kind of chip.
CONSTANTS
  Thread = {t1, t2}
  Cpu <- MCCpu
  Func <- MCFunc
  Threshold <- MCThreshold
  Order <- MCOrder
  Defines <- MCDefines
  MaxRuns = 2
SPECIFICATION Spec
INVARIANTS TypeOK RightChoice FlagMeansReady NoSecondRun
PROPERTIES WrittenOnce CallsReturn
