\* One subscriber whose bank wants a charge confirmed.
CONSTANTS
    Desks = {d1}
    Staff = {}
    Amounts = {50, 60}
    PromotionPercent = 10
    CodePercent = 20
    MaxPlanEdits = 0
    MaxSaleErrors = 0
SPECIFICATION SaleSpec
CHECK_DEADLOCK FALSE
PROPERTIES
    PendingIsTold
