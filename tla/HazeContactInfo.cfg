SPECIFICATION OneAtATime
CONSTANTS
    alice = alice
    nick = nick
    icon = icon
    c1 = c1
    c2 = c2
    k1 = k1
    None = None
    Contacts = {alice}
    MaxPlaces = 2
    Aliases = {nick}
    Icons = {icon}
    Statuses = {"available", "offline"}
    Conns = {c1, c2}
    Handles = {alice}
    Clients = {k1}
    MaxClasses = 1
    MaxNamed = 2
    MaxMails = 3
INVARIANTS
    TypeOK
    ContactsAreFollowed
    CapsAreDeclared
    MailsAreAnnounced
\* The process may have aborted or crashed.
CHECK_DEADLOCK FALSE
