\* The areas of master data, one at a time, and the delivery of the packages.
SPECIFICATION Spec
CONSTANTS
    Restaurant = {"here", "there"}
    Place = "here"
    Commands <- MCCommands
    Overlap = 2
    Hall = {"hall"}
    Section = {"s1", "s2"}
    Table = {"t1", "t2"}
    Point = {"p1", "p2"}
    FirstSection = "s1"
    FirstTable = "t1"
    Role = {"cook", "owner"}
    Employee = {"ann", "bob"}
    Pin = {"1111", "2222"}
    Item = {"soup", "flour", "milk", "stew"}
    Folder = {"folder"}
    Tag = {"tag"}
    Group = {"group"}
    Option = {"option"}
    Binding = {"binding"}
    Policy = {"policy"}
    MenuItem = {"m1"}
    Category = {"category"}
    Parameter = {"parameter"}
    Kinds = {"dish"}
    Tickets <- MCTickets
    Amount <- MCAmount
    FirstItems <- MCFirstItems
    Version = {"v1", "v2", "v3"}
    FirstVersions <- MCFirstVersions
    Review = {"dish", "name", "change", "stop"}
    Asks <- MCAsks
    Portion <- MCPortion
    Manager = {"mia", "max"}
    CommandId = {"c1"}
    Streams <- MCStreams
    Refers <- MCRefers
    Unlicensed = {"floor"}
    MaxPackages = 2
    Handler = {"h1", "h2"}
    MaxFaults = 1
    Printer = {"printer"}
    Template = {"a", "b", "c"}
    Document = {"bill", "ticket"}
    Lists <- MCLists
    Talks <- MCTalks
INVARIANTS
    PackagesAreValid
    ApprovedReviewsAreApplied
    CheckpointTellsTheRows
    DocumentsHaveTheirTemplate
    MessagesAreTaken
PROPERTIES
    NobodyIsLeftOut
    ImplementsMasterCopy
    PackagesArrive
\* Managers may stop giving commands.
CHECK_DEADLOCK FALSE
