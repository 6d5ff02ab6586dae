CONSTANTS
  TypeOf <- Types
  Specs <- CallSpecs
  Calls <- PreparedCalls
  Seeding <- Seed
  Decoding <- Decode
  AnswersTo <- SomeAnswer
  Restores <- SameInput
  Says <- Means
  Encodes <- IsEncoding
SPECIFICATION Spec
INVARIANTS
  PreparedTypeOK
  InputsComeBack
  AnswersAreRead
  RefusalsAreJustified
CHECK_DEADLOCK FALSE
