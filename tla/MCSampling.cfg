SPECIFICATION FairSpec
CONSTANTS
  SEC_TO_MSEC = 1000
  NSEC_TO_MSEC = 1000000
  Items = 2
  Slots = 5
  MinPeriod = 1000
  MaxPeriod = 2000
  Bound = 100
  Builds <- SomeBuilds
  Spans <- SomeSpans
  Grain = 25
  Enqueued <- SomeEnqueued
  MaxTxns = 2
INVARIANTS
  TypeOK
  UsedIsInBounds
  SampleIsExact
PROPERTIES
  ColdIsRelaxed
  OverloadForgotten
