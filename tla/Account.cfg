SPECIFICATION Spec
CONSTANTS
    ann = ann
    bob = bob
    Account = {ann, bob}
    NoUser = NoUser
    NoEmail = NoEmail
    Blank = Blank
    NoDocument = NoDocument
    NoService = NoService
    Admins <- MCAdmins
    MaxRequests = 2
    MaxDownloads = 2
INVARIANTS
    TypeOK
    AccountShown
    OwnProfile
PROPERTIES
    AdminsOnly
