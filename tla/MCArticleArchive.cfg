CONSTANTS
    Workers = {"sync", "refresh", "backfill"}
    MaxCount = 2
    MaxAsset = 2
    MaxFetch = 3
    MaxRedirects = 1
    MaxVer = 3
    MaxJobs = 2
    Kind <- MCKind
    Pages <- MCPages
    Lists <- MCLists
    Responses <- MCResponses
SPECIFICATION Spec
INVARIANTS
  ArticleInv
  AnswersJudged
PROPERTIES
  ObservationsMerge
  NeverDowngraded
  VisibleMeansPublished
