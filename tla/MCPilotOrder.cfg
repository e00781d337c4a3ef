\* Room for every request of two models.
CHECK_DEADLOCK FALSE
CONSTANTS
    m1 = m1
    m2 = m2
    Order <- TwoModels
    Ceilings = {8}
SPECIFICATION Spec
PROPERTIES SpendsAfterAllValid
