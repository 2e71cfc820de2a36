SPECIFICATION ReadersSpec
CHECK_DEADLOCK FALSE
CONSTANTS
    key = key
    pin = pin
    outer = outer
    inner = inner
    none = none
    Secrets = {key, pin}
    Bytes <- MCBytes
    Texts <- MCTexts
    Containers = {outer, inner}
    Skipped = {none}
    Requests <- MCRequests
    MaxScanChars = 25
    Command <- Open1
    Lines <- MCLines
    Argvs <- MCArgvs
    FindArgvs <- MCFindArgvs
    Words <- MCWords
    Urls <- MCUrls
    Entries <- MCEntries
    Labels = {"docs", "evil", "p"}
    Numbers = {"7"}
    Addresses = {"address"}
    Ports <- MCPorts
    PlainPorts = {"443", "8443", "0"}
    DefaultPort = 443
INVARIANTS
    SecretStopped
    LineIsWords
    ArgvIsRead
    UrlIsKept
PROPERTIES
    ScanEnds
