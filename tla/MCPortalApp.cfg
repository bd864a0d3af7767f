CONSTANTS
  Names <- MCNames
  Noise <- MCNoise
  VM_USERNAME_CAP = 3
  MaxEdits = 1
  WordBits = 8
  DecoyLength = 16
  Argv <- MCArgv
  Url <- MCUrl
  Answer <- MCAnswer
  Host <- MCHost
  Port = 31337
  ServerKey <- MCServerKey
  PortBase = 65536
  IntMax = 1048575
  Image <- MCImage
SPECIFICATION MCSpec
INVARIANTS
  NormalizersAgree
  LicenseOpens
  OnlyItsOwn
  DecodersAgree
  VerdictByInputs
  PatchesShow
  PreflightIsPlain
CHECK_DEADLOCK FALSE
