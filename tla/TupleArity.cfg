CONSTANTS
  TypeOf <- Types
  Specs <- TupleSpecs
  Calls <- PreparedCalls
  Seeding <- Seed
  Decoding <- Decode
  AnswersTo <- SomeAnswer
  Restores <- SameInput
  Says <- Means
  Encodes <- IsEncoding
SPECIFICATION Spec
INVARIANT ArityErrorsCountItems
CHECK_DEADLOCK FALSE
