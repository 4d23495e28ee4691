CONSTANTS
    Emails = {e1}
    Organizations = {o1}
    Browsers = {b1, b2}
    Requests = {r1, r2}
    b1 = b1
    b2 = b2
    r1 = r1
    r2 = r2
    MaxUsers = 2
    MaxConversations = 1
    NoEmail = NoEmail
    NoOrganization = NoOrganization
    NoBrowser = NoBrowser
SPECIFICATION SpecOfEach
PROPERTIES DeletedAreRefused OwnersAreTold SessionsStayTheirOwn NothingForTheDeleted
SYMMETRY Symmetry
