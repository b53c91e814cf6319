\* Two requests and two items: two uploads, or an upload and a new version, and
\* one of an update, a destroy and a failed step, against the export.
CONSTANTS
  Requests = {r1, r2}
  MaxItems = 2
  MaxExtras = 1
SPECIFICATION Spec
INVARIANTS LogCoversItems MarkedWholeIsWhole
SYMMETRY Symmetry
