CONSTANTS
  parser = parser
  merger = merger
  Stages = {parser, merger}
  Mergers = {merger}
  MaxTicks <- MCTicks
  MaxReports <- MCReports
SPECIFICATION FairSpec
INVARIANTS
  TypeOK
  NothingUnprinted
  NoCallbackOutlivesStage
  OneLateReport
  NoTickCountedTwice
  LastLineIsLast
PROPERTIES
  ConsoleEnds
