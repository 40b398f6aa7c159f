SPECIFICATION Spec
CONSTANTS
    Links = {main, clone}
    Main = main
    Names = {shop, blog}
    Options <- MCOptions
    UrlUsers = {"app"}
    Users = {"clerk"}
    MaxSeeds = 2
    MaxServers = 2
    MaxTags = 1
    MaxOptions = 2
    MaxSets = 2
    NULL = NULL
SYMMETRY MCSymmetry
INVARIANTS
    TypeOK
    ServersAgree
    ClientKeepsPreference
PROPERTY
    CredentialsStay
