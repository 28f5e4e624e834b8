CONSTANTS
    ARP_TABLE_SIZE = 3
    ARP_MAXAGE = 2
    ARP_MAXPENDING = 1
    Lan <- MCLan
    MyMac = "me"
    DNS_TABLE_SIZE = 2
    DNS_MAX_SERVERS = 2
    DNS_MAX_RETRIES = 2
    DefaultDns = "d0"
    SeqnoSpace = 2
    SameStart <- MCSameStart
    TimerSpan = 65536
    SelectTries = 1
    RebindTries = 1
    REBOOT_TRIES = 2
    FirstHost = "router"
    Scenarios <- MCScenarios
    RouterIp = "router"
    RouterMac = "routermac"
    RouterMac2 = "routermac2"
    RivalMac = "rivalmac"
    Pool <- MCPool
    Pool2 <- MCPool2
    Remote <- MCRemote
    AddrOf <- MCAddrOf
    Ttl = 1
    MaxMinutes = 4
SPECIFICATION FairSpec
INVARIANTS OneOwner KeptAddressIsLeased SentWhereClaimed LookupsOwn CallbackTargetsLive
PROPERTIES LookupsReturn AddressAgain
CHECK_DEADLOCK FALSE
