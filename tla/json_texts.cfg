\* Printed values, whole or torn off, with comments, tails or stray symbols,
\* and texts of a few symbols; reading ends a behaviour.
CONSTANTS
  Docs <- MCDocs
  Dump <- Printed
  Tails <- MCTails
  Comments <- MCComments
  Strays <- MCStrays
  Written <- MCWritten
SPECIFICATION Spec
INVARIANTS ReadsBack TornTextFails StaysInText ParsersAgree
CHECK_DEADLOCK FALSE
