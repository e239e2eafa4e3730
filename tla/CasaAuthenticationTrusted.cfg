SPECIFICATION Spec
CONSTANTS
 s1 = s1
 s2 = s2
 p1 = p1
 laptop = laptop
 phone = phone
 here = here
 there = there
 None = None
 Session <- MCSession
 Person <- MCPerson
 Device <- MCDevice
 MobileDevice <- MCMobileDevice
 City <- MCCity
 Loads <- MCLoads
 Logins <- MCLogins
 Trusted <- MCTrusted
 Configurations <- MCConfigurations
 MaxTries = 2
CHECK_DEADLOCK FALSE
INVARIANT
 TrustedIfPassed
