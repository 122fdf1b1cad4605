SPECIFICATION Spec
CONSTANTS
    Restaurants = {roma}
    Tasks = {t1, t2}
    NoRestaurant = NoRestaurant
    NoUpload = NoUpload
    Uploads <- Menus
    DishNames = {"pizza"}
    MaxStrays = 3
    MaxFailures = 1
INVARIANT TypeOK
INVARIANT SettingsRowsBounded
INVARIANT StepToldIfAlone
INVARIANT AuditGapsBounded
INVARIANT GuidedWizardLeadsThrough
INVARIANT StrandedBounded
SYMMETRY Symmetry
CHECK_DEADLOCK FALSE
