CONSTANTS
    Workers = {w1, w2, cron}
    Cron = cron
    Overlaps = {TRUE, FALSE}

    Users = {u1, u2}
    Emails = {mail}
    MaxCodes = 3

    Logs = {l1, l2}
    Members = {m1}
    Rooms = {r1}
    MaxHours = 1
    Cap = 1
    LastHour = 3

    Payments = {pay1, pay2}
    Guests = {pay2}
    MaxNumber = 3

    Spots = {spot}
    Drivers = {d1, d2}

    Plans = {plan1, plan2}
    Prices = {1, 2}
    Customers = {c1, c2}
    MaxRecords = 2

    Visits = {visit1, visit2}

    Readers = {reader1}
    MaxTokens = 3

    Contacts = {contact1}
    MaxActivities = 3
SPECIFICATION BackendSpec
INVARIANTS
    BackendTypeOK AccountsKept DeskKept RecordsKept
PROPERTIES
    StaleLogsClose
CHECK_DEADLOCK FALSE
