CONSTANTS
  Targets <- MCTargets
  Issues <- MCIssues
  Unplaced = {"nowhere"}
  Baselines <- MCBaselines
  Limits <- MCLimits
  MaxIssues = 3
SPECIFICATION Spec
INVARIANTS CountsReconcile DeltaIsDifference CleanMeansClean
CHECK_DEADLOCK FALSE
