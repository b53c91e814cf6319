\* Two case handlers, one of them with a stale status, beside one request that
\* uploads an item and destroys it.
CONSTANTS
  Handlers = {h1, h2}
  MaxCalls = 4
  Requests = {r1}
  MaxUploads = 1
  MaxReads = 1
SPECIFICATION SystemSpec
INVARIANT NoPhantomEvents
PROPERTIES VaultPromises NeverReopened ArchiveSettles
\* The calls are bounded; handlers and requests without work stop.
CHECK_DEADLOCK FALSE
SYMMETRY Symmetry
