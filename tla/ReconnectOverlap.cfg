SPECIFICATION FairSpec
CONSTANTS
  c1 = c1  c2 = c2  c3 = c3
  Call = {c1, c2, c3}
INVARIANT TypeOK
INVARIANT AlwaysAnotherTry
INVARIANT DialogWhileAway
PROPERTY Rejoins
PROPERTY ReloadOnlyWhenOvertaken
