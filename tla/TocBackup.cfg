SPECIFICATION Spec
INVARIANTS
  BackupIsUsed
