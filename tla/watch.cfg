CONSTANTS
    Applications <- MCApplications
    Buffer = 2
    EmitsInitially = TRUE
    MaxWrites = 3
SPECIFICATION FairSpec
PROPERTIES SettlesOnNewest NeverBack
CHECK_DEADLOCK FALSE
