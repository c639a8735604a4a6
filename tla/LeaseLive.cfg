SPECIFICATION FairSpec
CONSTANTS
  Wsl1 = Wsl1
  Wsl2 = Wsl2
  Clusters = {c1}
  Faults = {"apiError"}
  None = None
PROPERTIES FenceTakesHold PromotionTakesEffect
