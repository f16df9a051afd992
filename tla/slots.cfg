SPECIFICATION FairSlotSpec
CONSTANTS
  Pods = {p1, p2, p3}
  NoPod = NoPod
  Slots = 3
  MaxSlotFaults = 2
INVARIANT SlotTypeOK
INVARIANT OneSlotPerPod
PROPERTY EveryPodParticipates
