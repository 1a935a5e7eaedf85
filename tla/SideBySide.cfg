\* Two accounts, three threads of each kind, two faults; four posts with three
\* scores; a phone number with two sessions that three failures lock.
SPECIFICATION SideSpec
CONSTANTS
  a1 = a1
  a2 = a2
  q1 = q1
  q2 = q2
  q3 = q3
  Actors <- MCAccounts
  Requests <- MCRequests
  Likers <- MCAccounts
  Toggles <- MCRequests
  Nobody = Nobody
  MaxLikeFaults = 2
  FeedPosts <- MCFeedPosts
  MaxScore = 3
  PageSize = 2
  FailureLimit = 3
  Tokens <- MCTokens
INVARIANTS DivergenceIsExplained CounterDriftsOnlyByFaults FeedPagesMissNothing RefusalsAreContained
