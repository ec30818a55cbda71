\* The BMI2 bit of the chips after Haswell.
CONSTANTS
  Thread = {t1}
  Cpu <- MCCpu
  Func <- MCFunc
  Threshold <- MCThreshold
  Order <- MCOrder
  Defines <- MCDefines
  MaxRuns = 2
SPECIFICATION Spec
INVARIANTS Bmi2Used
