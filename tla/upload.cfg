SPECIFICATION FairSpec
CONSTANTS
  Uploads = {u1}
  Requests = {r1}
  Cleaners = {"sweeper"}
  MountSource = mount
  NoSource = nosource
  NoUpload = noupload
  MayFail = TRUE
  MaxInode = 1
  MaxGen = 3
  MaxAge = 3
CHECK_DEADLOCK FALSE
INVARIANTS PublishedIsStored SuccessIsPublished RetryStaysAnswerable
PROPERTIES RowOutlivesReservation Optimistic StaleUploadReclaimed
