\* Every path of up to 254 routers, from each of the usual initial TTLs, and two
\* vendors for a prefix of the database, one that is not in it and one that is
\* never looked up, each typed in one of 54 notations.  The model stops at the
\* last router, which discards the packet, and at the second vendor.
SPECIFICATION RulesSpec
CONSTANTS
  Addresses <- MCAddresses
  AddedOUIs = {"apple", "local", "group"}
  NewVendors <- MCNewVendors
  MaxAdditions = 2
  TypedTTLs <- MCTypedTTLs
INVARIANTS EstimateRightWhenClose FindingsTrueWhenClose LocalIsPrivate EnteredIsFound ProgramsAgree
CHECK_DEADLOCK FALSE
