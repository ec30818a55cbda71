\* A change by the developer, gn gen and ninja at any time around it.
CONSTANTS
  Func <- MCFunc
  Optional <- MCOptional
  Tune <- MCTune
  Path <- MCPath
  Parents <- MCParents
  AsmFile <- MCAsmFile
  Template <- MCTemplate
  Includes <- MCIncludes
  Symbols <- MCSymbols
  CFile <- MCCFile
  CSymbols <- MCCSymbols
  SecOps <- MCSecOps
  Work <- MCWork
  MaxMoves = 1
SPECIFICATION Spec
CHECK_DEADLOCK FALSE
INVARIANT EditsReassembled
