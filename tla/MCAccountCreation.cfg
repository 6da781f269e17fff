SPECIFICATION ASpec
CONSTANTS
    Named = {wpName}
    Unnamed = {wpRemember}
    MaxUsers = 2
    MaxPages = 2
    MaxNow = 3
    NONE = NONE
    Module = {totp, webauthn}
    EMAIL = EMAIL
INVARIANTS
    OneTokenPerUser
    TimesAgree
    ConversionToldOnce
PROPERTY LoginStepsLogged
CHECK_DEADLOCK FALSE
