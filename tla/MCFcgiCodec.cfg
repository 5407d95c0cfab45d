CONSTANTS
  kCheapPrepend = 2
  kInitialSize = 4
  Base = 16
  Radix = 4
  Equals = 10
  Ampersand = 11
  Percent = 12
  Plus = 13
  Space = 14
  Upper = {5}
  FCGI_MAX_LENGTH = 8
  Align = 8
  QUERY_STRING <- MCQueryString
  CONTENT_TYPE <- MCContentType
  Standard <- MCStandard
  QueryForms <- MCQueryForms
  PostForms <- MCPostForms
  PageLength = {0, 1, 7, 8, 9, 16, 17}
  Piece = {5, 32}
SPECIFICATION FcgiSpec
INVARIANTS AskedAsTyped NothingGivenUp BuffersHold PageIsWhole
VIEW MCView
