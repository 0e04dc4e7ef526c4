CONSTANTS
  p1 = p1
  p2 = p2
  p3 = p3
  id = id
  None = None
  Posts <- MCPosts
  Ids <- MCIds
SPECIFICATION FairSpec
INVARIANTS
  TypeOK
  OwnAnswer
  StayersAreAnswered
PROPERTIES
  PostsEnd
CHECK_DEADLOCK FALSE
