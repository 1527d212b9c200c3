\* Reports typeset in three ways and changed up to twice, then decided on.
SPECIFICATION EngineSpec
CONSTANTS
  Anker = Anker
  Nil = Nil
  Absent = Absent
  Schema <- FourMetrics
  Plain <- ThreeLayouts
  MaxEdits = 2
  MaxPrior = 3
  Reports <- SomeReports
  Rows <- SomeRows
  Opinions <- SomeOpinions
  Valuations <- SomeValuations
INVARIANTS
  TriggeredByPolicy
  OnlyOpinionsOpenGates
  OfferedIsAccepted
  PromotedIsStated
  GenerationsAgree
