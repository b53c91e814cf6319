\* Two requests and three items: a new version of an item against another, of it
\* or of the version just uploaded; two of an update, a destroy and a failed step
\* against any of these.
CONSTANTS
  Requests = {r1, r2}
  MaxItems = 3
  MaxExtras = 2
SPECIFICATION RecordsSpec
INVARIANTS FamiliesStayWhole IndexKeepsUp
SYMMETRY Symmetry
