CONSTANTS
  MaxCards = 4
  Slots = {1, 2}
  MaxKey = 2
  MaxPlans = 2
  Texts = {"old", "new"}
  Take = 2
  FreeCards = 1
  ProCards = 2
  Scenes <- MCScenes
  Users = {"root", "deputy", "clerk"}
  Desks = {1, 2}
  Founders <- MCFounders
SPECIFICATION Spec
INVARIANTS CardsAgree AdministrationHolds
PROPERTY TextsKept
CHECK_DEADLOCK FALSE
