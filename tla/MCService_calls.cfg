SPECIFICATION ServiceSpec
CONSTANTS
  Calls = {"work", "watch"}
  Asked <- MCAsked
  Tokens <- MCTokens
  ScopesOf <- MCScopesOf
  AllowedOf <- MCAllowedOf
  DryTokens = {"sender"}
  DryRun = FALSE
  Configured <- MCConfigured
  Idents = {"a", "b", "s", "x", "y", "ghost"}
  Logins <- MCLogins
  WithImap = {"a", "b"}
  WithSmtp = {"a", "s"}
  Everywhere = Everywhere
  None = None
  Letters <- MCLetters
  Wanted <- MCWanted
  MaxCopies = 4
  Addresses = {"x", "y", "list", "me", "sales", "help"}
  Subjects = {"s", "t"}
  Identities <- MCIdentities
  Patterns = {"*@"}
  Covers <- MCCovers
  Default = "me"
  Login = "me"
  MaxReferences = 2
  MaxThreadIds = 3
  MaxHits = 2
  MaxScan = 2
  PerThread = 1
  NoOne = "nobody"
CHECK_DEADLOCK FALSE
INVARIANTS WellTyped Authorised AuditTellsAll HiddenLooksMissing SurfacesAgree
INVARIANTS ReachesPeople AnswersAreSeen GroupsAreConversations ThreadWithinGroup
