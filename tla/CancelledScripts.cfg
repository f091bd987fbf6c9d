SPECIFICATION Spec
CHECK_DEADLOCK FALSE
CONSTANTS
  Kinds = {"yaml_field_present", "script"}
  MaxChecks = 2
  MaxRuns = 1
PROPERTY CancelledScriptsAreEnded
