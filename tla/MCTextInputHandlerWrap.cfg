CONSTANTS
  Characters <- MCCharacters
  Texts <- MCTexts
  MaxLength = 5
  SizeMax = 63
  WideAlt = TRUE
SPECIFICATION Spec
INVARIANT DeleteStartInText
