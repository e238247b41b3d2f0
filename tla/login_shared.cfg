\* Two registrations and a login; requests end, so the system may stop.
CONSTANTS
    r1 = r1
    r2 = r2
    shop = shop
    mill = mill
    ann = ann
    bob = bob
    None = None
    Registrations = {r1, r2}
    Logins = {l1}
    Refreshes = {}
    Logouts = {}
    Calls = {}
    BusinessEmails = {shop, mill}
    OwnerEmails = {ann}
    AccessSeconds = 2
    RefreshSeconds = 1
    MaxSeconds = 3
SPECIFICATION Spec
INVARIANTS LoginsAnswered
CHECK_DEADLOCK FALSE
