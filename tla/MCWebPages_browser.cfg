SPECIFICATION PagesSpec
CONSTANTS
    alice = alice
    bob = bob
    carol = carol
    MaxCalls = 2
    MaxAccounts = 2
    Priority = {0, 10}
    NoRow = NoRow
    StartPools <- SomePools
    MaxAccountActs = 3
    MaxKeys = 2
    NoKey = NoKey
    MaxKeyActs = 5
    Field = {"days", "balancing"}
    Value = {7, 30}
    Default <- SevenDefault
    MaxPolicyActs = 5
    Me = 1
    MaxUsers = 2
    UserName = {alice, bob, carol}
    NoUser = NoUser
    StartUsers <- SomeUsers
    MaxUserActs = 6
    Login = {alice, bob}
    Admin = {alice}
    Nobody = Nobody
    MaxSessionActs = 7
INVARIANTS
    PagesTypeOK
    AccountFlagsMatchCalls
    SettledListCurrent
    UneditedFieldsInForce
    OwnRowKept
    SettledUserIsCookies
    SubmissionsReported
PROPERTIES
    AccountsNeverInvented
    KeyStaysUntilClosed
CHECK_DEADLOCK FALSE
