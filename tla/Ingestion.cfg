SPECIFICATION FairSpec
CONSTANTS
    opening = opening
    second = second
    desk = desk
    third = third
    Mails <- MCMails
    DeskMails = {desk}
    InReplyTo <- MCInReplyTo
    References <- MCReferences
    Calls = {c1, c2}
    MaxCrashes = 2
INVARIANTS
    JoinsBestRelative
PROPERTIES
    KeepsCorrespondence
    PostedIsReceived
CHECK_DEADLOCK FALSE
