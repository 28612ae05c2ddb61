SPECIFICATION Spec
CONSTANTS
  MaxCalls = 4
  MaxInputs <- MCMaxInputs
  MaxReads = 2
  Views <- MCViews
  Dids = {"s", "t", "u", "x"}
  Role <- MCRole
  Templates <- MCTemplates
  FirstType = "enrollment"
  Users = {"ann", "bob", "joe"}
  CredsOf <- MCCredsOf
  Irrevocable = {"c2"}
  Unknown = {"joe"}
  Known <- MCKnown
  MyDid = "s"
  MyPages <- MCMyPages
  MyStart <- MCMyStart
  Credentials = {"v1", "v2"}
  CheckKeys = {"signature", "did_active", "not_revoked"}
  Filters <- MCFilters
  Listed <- MCListed
  NewNames = {"bob"}
  HolderDid <- MCHolderDid
  NameFilter <- MCNameFilter
INVARIANTS
  
  LetThroughIsNotRefused
  CredentialsListIsTrue
  PillsAreTrue
  BadgeIsTheRegistrysWord
  VerifierSaysWhatHolds
  ListIsOfItsFilter
  PanelIsTrue
  NoSpinnerForEver
CHECK_DEADLOCK FALSE
