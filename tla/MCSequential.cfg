SPECIFICATION SequentialSpec
CONSTANTS
  None = None
  NumBytes = 2
  Chars <- AllChars
  DigitOf <- Digits
  HexChars <- LowerCase
  Printed <- SomeHashes
  Foreign <- SomeStrings
  Bytes = {0, 1, 2, 3, 4, 5, 9}
  NUL = 0
  Semicolon = 9
  NameOf <- CompressionNames
  Paths <- TwoPaths
  Contents <- SomeContents
  Missing = Missing
  Short = Short
  Configs <- SomeConfigs
  MaxBuilds = 2
  EmbedFaults = {"zstd", "io", "kill"}
  Slots = {s1, s2, s3}
  Blocks = {b1, b2}
  MaxSize = 2
  Nobody = Nobody
INVARIANTS
  SequentialTypeOK
  RoundTrip
  FilesComeBack
  OneOwner
  ReleasedAsMade
PROPERTIES
  HashFollowsContents
