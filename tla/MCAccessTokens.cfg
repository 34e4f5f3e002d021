SPECIFICATION FairSpec
CONSTANTS
  c1 = c1
  c2 = c2
  Callers = {c1, c2}
  Urls <- MCUrls
  NoUrl = NoUrl
  Resolve <- MCResolve
  Answers <- MCAnswers
  Unreadable = Unreadable
  Naive = Naive
  Lifetimes = {Unreadable, 1, Naive}
  DefaultTtl = 2
  RefreshBuffer = 1
  FailureCap = 2
  Attempts = 2
  Nobody = Nobody
  MaxNow = 1
  MaxCalls = 3
CHECK_DEADLOCK FALSE
INVARIANT TypeOK
INVARIANT MintOnlyWhenSpent
INVARIANT FailureNewerThanToken
INVARIANT FailuresBounded
INVARIANT ReasonIsOwn
INVARIANT RefreshTakesEffect
PROPERTY GoodTokenKept
PROPERTY CallsEnd
