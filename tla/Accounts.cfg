\* Logins, second factors, suspension and member creation on two processes;
\* the attempt limit of one process.
SPECIFICATION SpecBoth
CONSTANTS
  Admin = Admin
  Users = {Admin, member}
  Servers = {s1, s2}
  Requests = {r1, r2}
  None = None
  Pending = 1
  Lifetime = 2
  RecoveryCodes = {c1}
  MaxTime = 2
  MaxSecrets = 2
  MaxSessions = 2
  Keys = {k1, k2, k3}
  MaxAttempts = 2
  Capacity = 2
  Window = 2
  MaxClock = 4
SYMMETRY Symmetry
INVARIANTS
  CodesOnce
  SessionsMatchFactor
  NoSessionOfSuspended
  SlotNotLeaked
  AttemptsBounded
  QuietKeysAdmitted
