CONSTANTS
  Messages <- SomeMessages
  MaxMessages = 2
SPECIFICATION Spec
INVARIANTS KnownDigests BlocksAgree DigestsAgree DeadlinesAgree
CHECK_DEADLOCK FALSE
