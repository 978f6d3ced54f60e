SPECIFICATION LiveSpec
CONSTANTS
  w1 = w1
  w2 = w2
  w3 = w3
  Words <- ThreeWords
  Chips = {chip, other}
  DevTypes = {dt}
  Memories = {0, 1, 2}
  Unset = Unset
  Configs <- SmallConfigs
  Chip = chip
  DevType = dt
  MaxBoots = 2
  MaxFailures = 1
INVARIANTS TypeOK ChoiceIsPreferred AdvertisedIsCleared
PROPERTIES PatchLeavesOneSku OneSkuAdvertised LabelFollowsChoice
CHECK_DEADLOCK FALSE
