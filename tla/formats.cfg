\* Writer and reader of one machine, maps without doubles, schemas that
\* allow no undefined keys and are not used again, options in the form their flag
\* takes, and memory that is zero.
SPECIFICATION Spec
CONSTANTS
  Lines <- MCLines
  Scripts <- MCScripts
  Documents <- MCDocuments
  Values <- MCLeaves
  Schemas <- MCStrict
  Depth = 3
  Doubles = FALSE
  Writer = TRUE
  Reader = TRUE
  Reused = FALSE
  Token <- MCTokens
  Numerals <- MCNumerals
  Settings <- MCOptions
  Memory <- MCNone
INVARIANTS LinesAreCommands ScriptsComeBack OptionsAsGiven
PROPERTIES MapsComeBack SchemaDecides
