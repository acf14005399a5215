SPECIFICATION FairSpec
CONSTANTS
  Conflict = {c1, c2}
  MaxFaults = 2
  None = None
CHECK_DEADLOCK FALSE
INVARIANTS
  TypeOK
  ListMatchesRecords
  CommentTellsRecord
  ListingIsJust
PROPERTY
  WebhooksEnd
