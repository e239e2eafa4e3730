SPECIFICATION Spec
CONSTANTS
 s1 = s1
 s2 = s2
 s3 = s3
 p1 = p1
 p2 = p2
 None = None
 Session <- MCSession
 Person <- MCPerson
 Scripts = {"twilio_sms"}
 Logins <- MCLogins
 Special <- MCSpecial
 MaxTries = 2
 MaxInvalidLogins = 2
 LookAhead = 1
 MaxFactor = 3
CHECK_DEADLOCK FALSE
INVARIANT CodeReachesItsPerson
