\* Three changes by the developer, gn gen and ninja at any time between them.
CONSTANTS
  Func <- MCFunc
  Optional <- MCOptional
  Tune <- MCTune
  Path <- MCPath
  Parents <- MCParents
  AsmFile <- MCAsmFile
  Template <- MCTemplate
  Includes <- MCIncludes
  Symbols <- MCSymbols
  CFile <- MCCFile
  CSymbols <- MCCSymbols
  SecOps <- MCSecOps
  Work <- MCWork
  MaxMoves = 3
SPECIFICATION Spec
CHECK_DEADLOCK FALSE
INVARIANTS Complete Current
