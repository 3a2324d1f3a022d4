SPECIFICATION Spec
CONSTANTS
  Ips = {proxy, client}
  Trusted = {proxy}
  NoIp = NoIp
  Mailboxes = {mbox}
  Burst = 2
  Window = 10
  Second = 2
  Free = Free
  MaxNow = 11
INVARIANTS
  RateLimitTypeOK
  AdmissionsBounded
  CleanupOnlyTightens
  RetryAfterNearlySuffices
