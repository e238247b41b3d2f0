\* Two registrations, a login, a refresh, a logout and a call; requests end,
\* so the system may stop.
CONSTANTS
    r1 = r1
    r2 = r2
    shop = shop
    mill = mill
    ann = ann
    bob = bob
    None = None
    Registrations = {r1, r2}
    Logins = {l1}
    Refreshes = {f1}
    Logouts = {x1}
    Calls = {c1}
    BusinessEmails = {shop, mill}
    OwnerEmails = {ann, bob}
    AccessSeconds = 2
    RefreshSeconds = 1
    MaxSeconds = 3
SPECIFICATION Spec
SYMMETRY Symmetry
INVARIANTS TypeOK BusinessEmailsUnique TokensBelongToUsers Inductive
PROPERTIES RevokedRefused
CHECK_DEADLOCK FALSE
