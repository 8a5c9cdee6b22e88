SPECIFICATION Spec
SYMMETRY RunSymmetry
CONSTANTS
  Runs = {r1, r2}
  NoRun = NoRun
  Keep = 1
  MaxDay = 3
INVARIANTS BackupTypeOK ArchivesWhole RetentionBounded
PROPERTY PruneKeepsNewest
