SPECIFICATION Spec
CONSTANTS
  Registry <- MCRegistry
  Smells <- MCSmells
  CheckOf <- MCCheckOf
  IdentityOf <- MCIdentityOf
  EvidenceOf <- MCEvidenceOf
  Receivers = {"T", "U"}
  SettingsSet <- MCSettings
  Sources <- MCSources
  NewLines <- MCNewLines
  MaxEdits = 1
INVARIANTS TypeOK OmissionsExplained DirectivesHonoured CollisionsAreDuplicates
PROPERTIES SameSourceSameReport OnlyCollidersRenamed
