\* Answers overtaken by up to two later requests, losses, damage and noise.
CONSTANTS
  MaxAge = 2
  MaxInput = 2
SPECIFICATION Spec
INVARIANTS
  InStep
PROPERTY OutputReopened
