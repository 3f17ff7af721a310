SPECIFICATION Spec
CONSTANTS
  FourOf = {"scout", "soldier"}
  TwoOf = {"medic"}
  Medic = "medic"
  MaxSkill = 1
CHECK_DEADLOCK FALSE
INVARIANTS
  LineupIsFound
  FriendsStayTogether
  NoExchangeHelps
