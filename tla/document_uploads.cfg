SPECIFICATION FairUploadSpec
CONSTANTS
 MaxPhoto = 2
 FlushCall = {c1, c2}
 NoCall = NoCall
 AddLimit = 1
 NudgeLimit = 1
 Watched = {1}
 LastMonth = 1
 MaxFaults = 1
INVARIANTS UploadTypeOK RowHasBytes
PROPERTIES EveryPhotoArrives FiledStaysFiledInItsMonth KeepsPhotos
CHECK_DEADLOCK FALSE
