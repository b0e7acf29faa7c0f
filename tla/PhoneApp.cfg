\* Three activities, three camera sources, four clicks on "Start Server",
\* three images.
SPECIFICATION FairSpec
CONSTANTS
  MaxActivities = 3
  MaxSources = 3
  MaxJobs = 4
  MaxImages = 3
INVARIANTS TypeOK ConvertsAlone OnHasCamera StatsEnd
PROPERTIES NoPictureWhileOff StartedCameraBinds
CHECK_DEADLOCK FALSE
