SPECIFICATION ScriptSpec
CONSTANTS
  Variables <- ScriptVariables
  Functions <- ScriptFunctions
  Globals <- ScriptGlobals
  Leaves <- MCLeaves
  Companions <- MCCompanions
  Callees <- MCCallees
  Declarables <- MCDeclarables
  Prelude <- MCPrelude
  Library <- MCLibrary
  EntryCall <- MCEntryCall
  MaxNodes = 1
  Scripts <- MCSources
  Options <- MCOptions
INVARIANTS
  SugarIsGone
  MonoKeepsMeaning
  LsoKeepsMeaning
  RulesOfGlobals
  GlobalsStartAsWritten
PROPERTIES
  NoEcho
CHECK_DEADLOCK FALSE
