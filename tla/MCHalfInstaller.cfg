SPECIFICATION Spec
CONSTANTS
  Versions <- MCVersions
  Installed = 0
  Nightly <- MCNightly
  Downloads = {d1, d2}
  Checkers = {poller, request}
  Poller = poller
  Chunks = 1
  None = None
INVARIANT PromotedIsWhole
