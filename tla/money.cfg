SPECIFICATION Spec
CONSTANTS
  None = None
  MaxScale = 3 BonusScale = 2 MaxLength = 6
  Ids = {1, 2, 3}
  Opening <- MCOpening
  Texts <- MCTexts
  Bonuses <- MCBonuses
INVARIANTS TypeOK Exact RowsReadBack BonusRoundsDown
