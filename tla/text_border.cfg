\* Texts of all sizes of characters, whole, torn off or with a byte replaced;
\* reading ends a behaviour.
CONSTANTS
  Texts <- MCTexts
  Damage <- MCDamage
SPECIFICATION Spec
INVARIANTS TypeOK Transcoded TornContained DamageContained
CHECK_DEADLOCK FALSE
