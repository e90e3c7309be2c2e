CONSTANTS
  Characters <- MCCharacters
  Texts <- MCTexts
  MaxLength = 5
  SizeMax = 63
  WideAlt = FALSE
SPECIFICATION Spec
INVARIANTS
  PositionsAgree
  GameFollows
PROPERTY EditorSpec
