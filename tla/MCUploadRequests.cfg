SPECIFICATION Spec
CONSTANTS
  Null = Null
  Old = Old
  photo = photo
  notes = notes
  typed = typed
  ListLimit = 1
  MaxKey = 65536
  FieldLimit = 65537
  MaxTitle = 512
  MaxMessage = 4096
  KeyBytes <- MCKeyBytes
  Hour = 4
  DefaultHours = 1
  GuestHours = 2
  AdminHours = 3
  Files = {photo, notes}
  NameBytes <- MCNameBytes
  TextFile = typed
  MinBlob = 16
  MaxUpload = 100
  MaxEdits = 2
  MaxUploads = 1
  MaxNow = 9
INVARIANTS
  ListingsFollowTheRule
  StoredAsAllowed
  OwnFormRefusals
  PreviewsUploaded
CHECK_DEADLOCK FALSE
