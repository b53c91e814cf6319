\* Two requests, two uploads and two calls that read a row: two Destroys of one
\* item, a Destroy against the thumbnail of an upload, a Download against either.
CONSTANTS
  Requests = {r1, r2}
  MaxUploads = 2
  MaxReads = 2
SPECIFICATION Spec
INVARIANTS LiveRowsResolve NoOrphans UniqueNumbers DestroyedOnce
PROPERTY HoldOutlastsDestroy
SYMMETRY Symmetry
