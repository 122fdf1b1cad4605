SPECIFICATION FairSpec
CONSTANTS
    roma = roma
    roma2 = roma2
    bistro = bistro
    NoRestaurant = NoRestaurant
    Shared = Shared
    Restaurants = {roma, roma2, bistro}
    Tasks = {t1, t2, t3}
    SlugOf <- Slugs
    EmailOf <- Emails
    Definitions <- Roles3
    MaxFailures = 2
INVARIANT TypeOK
INVARIANT TenantIsComplete
PROPERTY StartEnds
CHECK_DEADLOCK FALSE
