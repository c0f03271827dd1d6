SPECIFICATION FairSpec
CONSTANTS
  Requests = {q1, q2, q3}
  Slugs = {s1, s2}
  Claims = {c1}
  NoRequest = NoRequest
  NoSlug = NoSlug
  MaxVersions = 3
INVARIANTS
  TypeOK
  VersionsGapless
  VersionStillNext
  CitedWasReviewed
PROPERTIES
  SubmissionEnds
CHECK_DEADLOCK FALSE
