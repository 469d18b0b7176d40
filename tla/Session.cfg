SPECIFICATION FairSpec
CONSTANTS
  None = None
  Service = service
  Console = {c1}
  Client = {service}
  Secret = {k1, k2}
  prod = prod
  production = production
  Account <- Environments
  Canonical = prod
  Aliases <- prodAliases
INVARIANTS CredentialIsKept ListedHadSecret
PROPERTIES OnlyOverlapsLoseSecrets AccessInTheEnd
