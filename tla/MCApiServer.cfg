SPECIFICATION ApiSpec
CONSTANTS
  a1 = a1  a2 = a2  p1 = p1  i1 = i1  q1 = q1  c1 = c1  n1 = n1  n2 = n2  s1 = s1
  Applicants = {a1, a2}
  Phones = {p1}
  Addresses = {i1}
  Unknown = unknown
  Malformed = malformed
  IpLimit = 1
  Checks = {q1}
  Codes = {c1}
  NoCode = nocode
  MaxFaults = 1
  Names = {n1, n2}
  Hash <- MCHash
  Settings = {s1}
  Attempts = 2
  MaxClock = 2
  MaxRequests = 3
CHECK_DEADLOCK FALSE
INVARIANTS ApiTypeOK OneRowPerPhone CountersExpire RunsHadUsableCode ListedLoads PromisesKept
PROPERTIES CountersClear
