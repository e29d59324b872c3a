CONSTANT Messages <- MCMessages
SPECIFICATION Spec
INVARIANT DigestMatchesTests
INVARIANT PaddedAsFips
CHECK_DEADLOCK FALSE
