\* parse() over the three input families of MCParser
CONSTANTS
  Files <- MCFiles
  Names <- MCNames
  NoFile = NoFile
SPECIFICATION Spec
INVARIANT LineDirectiveNamesFile
