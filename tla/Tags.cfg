SPECIFICATION Spec
CONSTANTS
  BufferSize = 5
  MaxBytes = 16
  MaxTags = 3
INVARIANTS
  TypeOK
  TagsFollowPictures
