SPECIFICATION Spec
CONSTANTS
  feed = feed
  Feeds = {feed}
  Configs <- Hanging
INVARIANTS
  ErrorsAreTheCallers
