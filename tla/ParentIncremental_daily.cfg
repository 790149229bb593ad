SPECIFICATION FairSpec
CONSTANTS
    Parents = {1, 2}
    Children = {1, 2, 3}
    ParentOf <- TwoAndOne
    Configurations <- ThreeConfigurations
    InitialChildren <- SomeTables
    HalfYear = 1
    MaxVersion = 2
    Lookback = 1
    MaxDay = 2
    MaxChanges = 2
    MaxFaults = 1
INVARIANTS NeverConflicts
PROPERTIES NothingTakenAway StaleRowsGo ChildrenArrive
