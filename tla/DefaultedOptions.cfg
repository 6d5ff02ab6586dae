CONSTANTS
  TypeOf <- Types
  Specs <- DefaultedSpecs
  Calls <- PreparedCalls
  Seeding <- Seed
  Decoding <- Decode
  AnswersTo <- SomeAnswer
  Restores <- SameInput
  Says <- Means
  Encodes <- IsEncoding
SPECIFICATION Spec
INVARIANT OptionsAreRefusedOnlyOutsideFields
CHECK_DEADLOCK FALSE
