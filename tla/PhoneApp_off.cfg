\* One activity, clicks in quick succession.
SPECIFICATION Spec
CONSTANTS
  MaxActivities = 1
  MaxSources = 2
  MaxJobs = 2
  MaxImages = 1
INVARIANT CameraOffWhenInactive
CHECK_DEADLOCK FALSE
