SPECIFICATION Spec
CONSTANTS
  Contacts <- MCContacts
  Patch <- MCPatch
  Friction <- MCFriction
  Whole = 4
  Applied <- MCApplied
  Decks <- MCDecks
  ForceTol = 2
  MomentTol = 0
  ComplianceDen = 12
  Rounds = 3
  NoResponse = NoResponse
INVARIANTS
  TypeOK
  ComplianceIsTheLatestSecant
  ContactsStandWhereTheDeckIs
  LoadIsConserved
  SlidingAgreesWithInterfaces
PROPERTIES
  BalancedSharesNeedNoCouple
