SPECIFICATION Spec
CONSTANTS
  Bodies <- MCScripts
  Names <- MCNames
  Builtins <- MCBuiltins
  NameOrder <- MCNameOrder
  MangledNames <- MCMangledNames
INVARIANTS
  UsesMeanDeclarations
  ObfuscationKeepsMeaning
CHECK_DEADLOCK FALSE
