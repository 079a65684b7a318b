SPECIFICATION FairSpec
CONSTANT
  Paths = {"a", "b"}
INVARIANTS TypeOK ProfileSurvives
PROPERTIES BeginRestoresProfile CalibrationIsSaved
