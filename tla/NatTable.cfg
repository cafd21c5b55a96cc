SPECIFICATION TableSpec
CONSTANTS
  r1 = r1
  r2 = r2
  r3 = r3
  r4 = r4
  r5 = r5
  Rule <- RuleSet
  NoRule = NoRule
  TableEntries = 4
  ExpnEntries = 3
  DstHash <- Dsts
  SrcHash <- Srcs
  AddFaults = FALSE
INVARIANTS FoundAsAdded TableConsistent
PROPERTY ImplementsNatMap
