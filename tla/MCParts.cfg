SPECIFICATION PartsSpec
CONSTANTS
  BitsPerByte = 2
  BytesPerWord = 2
  WordCount = 2
  Parts <- AllParts
INVARIANTS LabelsAreOfBits LoadedIsSaved CachedIsOfKey ProofsShowTheValue FourQIsTheGroup
PROPERTIES KeepsBits
CHECK_DEADLOCK FALSE
