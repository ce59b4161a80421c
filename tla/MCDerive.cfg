SPECIFICATION MCSpec
CONSTANTS
  Null = Null
  NoValue = NoValue
  Bits = 2
  PtrWidth = 4
  Space = 16
  Page = 1
  SlotLen <- MCSlotLen
  SlotNum <- MCSlotNum
  Trials <- MCTrials
INVARIANTS
  Mirrors
  RunsAdmitted
  OverlapExact
  SlotsApart
