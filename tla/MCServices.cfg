SPECIFICATION Spec
CONSTANTS
    b1 = b1  ann = ann  bob = bob  staff = staff  guest = guest
    wiki = wiki  files = files  target = target  under = under  lookalike = lookalike  other = other
    Browsers = {b1}
    Users = {ann, bob}
    Roles = {staff, guest}
    Hosts = {wiki, files, target, under, lookalike, other}
    Within <- MCWithin
    Under <- MCUnder
    Files <- MCFiles
    MaxBuilds = 2
    None = None
INVARIANTS TypeOK ListedIffGranted GrantedIsCurrent RedirectReturns
