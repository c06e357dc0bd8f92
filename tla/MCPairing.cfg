SPECIFICATION FairSpec
CONSTANTS
  d1 = d1
  d2 = d2
  Doors = {d1, d2}
  MaxAttempts = 3
INVARIANTS TypeOK CredentialsEarned SdkSecretLasts OnePhonePerAttempt
PROPERTIES DevicesKept PairingEnds
