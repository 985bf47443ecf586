\* The adapter with the settings of app/config.py.
CONSTANTS
  Threshold = 5
  Cooldown = 60
  MaxRetries = 2
SPECIFICATION FairSpec
INVARIANTS
  BurstsAreBounded
  LinksAreBounded
PROPERTY
  ServiceResumes
