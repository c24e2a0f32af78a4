SPECIFICATION Spec

CONSTANTS
    NoHost = NoHost
    NoLocation = NoLocation
    NoTemplate = NoTemplate
    NotSet = NotSet
    Flags <- MCFlags
    Ons <- MCOns
    Bases <- MCBases
    Locations <- MCLocations
    Templates <- MCTemplates

INVARIANTS
    
    WholeLocation
