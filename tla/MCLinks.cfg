\* Wrappers around wrappers, a cache of hosts over its whole life.
SPECIFICATION MCSpec
CONSTANTS
  Host = {"news", "social", "local"}
  Private = {"local"}
  MaxLayers = 2
  Limit = 3
  Post <- Posts
  Web <- WebPages
  NeverTrusted = {"social"}
  TTL = 1
  Texts <- ShortTexts
  Offsets <- SmallOffsets
  Pieces <- MessagePieces
  Words <- ShortWords
  TextLimit = 5
  CaptionLimit = 3
  MaxPieces = 3
  Contents <- ElementContents
  PageHost <- Host3
  RequestTimeout = 3
  MaxRedirects = 1
  MaxTime = 4
  MaxAddresses = 3
INVARIANTS TypeOK DestinationIsClean FetchesAreBounded NothingHalfRewritten ReplacementWins DeletionIsProven PreviewIsNotBypassed TrustIsEarned
INVARIANTS RewritingIsExact ContentIsRead MentionIsExact UsefulAsDocumented FetchIsBounded
PROPERTIES EveryMessageDecided
CHECK_DEADLOCK FALSE
