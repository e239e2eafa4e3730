---------------------------- MODULE CasaPlugins ----------------------------
(***************************************************************************)
(* The modules casa-external_* that the script of Casa calls for each      *)
(* method of a second factor.  They are the person authentication scripts  *)
(* of the same names, changed for Casa: step 1 is called by Casa, also for *)
(* a person who has come through a password already.  Who has no device of *)
(* a method still enrolls one, with four of them.                          *)
(*                                                                         *)
(* The configuration is a record: policy, the policy of the second factor; *)
(* mobile, the methods that a mobile browser can use; grouped, the methods *)
(* that are for the members of a group.                                    *)
(* self.authenticators are the methods whose module is loaded.             *)
(*                                                                         *)
(* What a call of a module comes to is a record: what it returned (ok),    *)
(* the working parameters it set (work), what it changed in the session    *)
(* (changes) and in the entry (entry).                                     *)
(***************************************************************************)
EXTENDS AuthenticationSession, FiniteSetsExt

Methods == {"twilio_sms", "smpp", "stytch", "otp", "super_gluu",
            "u2f", "fido2", "duo"}
Texting == {"twilio_sms", "smpp"}

Entry(s) == person[session[s].who]

Outcome(ok, work, changes, entry) ==
    [ok |-> ok, work |-> work, changes |-> changes, entry |-> entry]
Just(ok) == Outcome(ok, <<>>, <<>>, <<>>)
Failure == Outcome(FALSE, <<>>, Fault, <<>>)

(* hasEnrollments.  The text messages need a mobile number. *)
hasEnrollments(m, e) ==
    IF m \in Texting \cup {"stytch"} THEN e.mobiles > 0 ELSE m \in e.enrolled

(* isUserMemberOfGroup: who is not in the group of a method has one step.  *)
Exempt(e, m) == m \in conf.grouped /\ ~e.member

-----------------------------------------------------------------------------
(* init.  The properties of a script: given, those it has, and bad, those  *)
(* of them whose value, or the file or the server it names, cannot be      *)
(* used.  A module that returns False or raises an exception is not        *)
(* loaded.  What is read later without a check is taken to be given.       *)
Usable(c, names) == names \subseteq c.given \ c.bad

loadOtpConfiguration(c) == Usable(c, {"otp_conf_file"})
OtpInit(c) == Usable(c, {"otp_type", "issuer"}) /\ loadOtpConfiguration(c)

(* smpp: a value that is missing, or is not one of the names of its type,  *)
(* leaves the default, if there is one; a number that is none is an        *)
(* exception, also for a property that is optional.                        *)
get_and_parse_smpp_config(c, attribute, convert) ==
    CASE attribute \notin c.given -> "default"
      [] attribute \in c.bad -> IF convert THEN "exception" ELSE "default"
      [] OTHER -> "value"

SmppInit(c) ==
    /\ get_and_parse_smpp_config(c, "smpp_server", FALSE) = "value"
    /\ get_and_parse_smpp_config(c, "smpp_port", TRUE) = "value"
    /\ get_and_parse_smpp_config(c, "priority_flag", TRUE) # "exception"

(* The properties of a group, and of the group whose logins are reported.  *)
Audited(m, c) ==
    /\ "audit_group" \in c.given => "audit_group_email" \in c.given
    /\ m \in conf.grouped \/ "audit_group" \in c.given => "audit_attribute" \in c.given

DuoInit(c) == Usable(c, {"duo_creds_file"}) /\ Audited("duo", c)

(* Without a secret, or a service for them, there are no notifications.    *)
SuperGluuInit(c) ==
    /\ Usable(c, {"authentication_mode", "AS_CLIENT_ID"})
    /\ Audited("super_gluu", c)
    /\ {"AS_CLIENT_SECRET", "AS_ENDPOINT", "AS_SSA"} \subseteq c.given

StytchInit(c) ==
    {"SMS_ENDPOINT", "AUTH_ENDPOINT", "ENROLL_ENDPOINT", "DELETE_USER_ENDPOINT",
     "PROJECT_ID", "SECRET"} \subseteq c.given

(* The server is asked twenty times for its metadata. *)
U2fInit(c) == Usable(c, {"u2f_server_uri"})
Fido2Init(c) == "fido2_server_uri" \in c.given
TwilioInit(c) == TRUE

Initialized(m, c) ==
    CASE m = "otp" -> OtpInit(c)
      [] m = "smpp" -> SmppInit(c)
      [] m = "duo" -> DuoInit(c)
      [] m = "super_gluu" -> SuperGluuInit(c)
      [] m = "stytch" -> StytchInit(c)
      [] m = "u2f" -> U2fInit(c)
      [] m = "fido2" -> Fido2Init(c)
      [] m = "twilio_sms" -> TwilioInit(c)

-----------------------------------------------------------------------------
(* authenticate(1), once there is an authenticated user.                   *)

Sent(code) == [got |-> code]

(* smpp says whether the message was sent; twilio_sms never does.          *)
sendMessage(m, code, noted) ==
    {Outcome(TRUE, noted, Sent(code), <<>>),
     Outcome(m = "twilio_sms", noted, Fault, <<>>)}

(* twilio_sms and smpp: to one number the message goes at once; of several *)
(* the person is to choose.                                                *)
TextFirst(s, m) ==
    LET code == session[s].tries + 1
        noted == [randCode |-> code]
    IN  CASE Entry(s).mobiles = 0 -> {Just(FALSE)}
          [] Entry(s).mobiles = 1 -> sendMessage(m, code, noted)
          [] OTHER ->
                {Outcome(TRUE, [numbers |-> "several"] ++ noted, <<>>, <<>>)}

(* stytch: the service makes the code.  A number it does not know yet is   *)
(* added, which sends a message; that failing is no failure of the step.   *)
(* A person whose number is not the one that was added is turned away.     *)
sendPasscodeSMSToUser(code) ==
    {Outcome(TRUE, [phone_id |-> code], Sent(code), <<>>),
     Outcome(FALSE, [phone_id |-> code], Fault, <<>>)}

addUser(code) ==
    {Outcome(TRUE, [phone_id |-> code], Sent(code), [stytched |-> "this"]),
     Outcome(TRUE, <<>>, Fault, <<>>)}

StytchFirst(s) ==
    LET code == session[s].tries + 1
    IN  CASE Entry(s).mobiles = 0 \/ Entry(s).stytched = "other" -> {Just(FALSE)}
          [] Entry(s).mobiles > 0 /\ Entry(s).stytched = "this" ->
                sendPasscodeSMSToUser(code)
          [] Entry(s).mobiles > 0 /\ Entry(s).stytched = "none" -> addUser(code)

OtpFirst(s) ==
    IF hasEnrollments("otp", Entry(s))
    THEN {Outcome(TRUE, [otp_auth_method |-> "authenticate"], <<>>, <<>>)}
    ELSE {Just(FALSE)}

(* What the person asks for that is not on the page is noted in passed.    *)
Unoffered(s) == Passing(s, "unoffered")

(* super_gluu in the two-step mode: who is not in the group is done.  The  *)
(* button to enroll is on the login page of oxAuth, not on Casa's.         *)
SuperGluuFirst(s) ==
    LET counted == IF "super_gluu" \in conf.grouped
                   THEN [super_gluu_count_login_steps |->
                            IF Entry(s).member THEN 2 ELSE 1]
                   ELSE <<>>
        method(m) == IF Exempt(Entry(s), "super_gluu") THEN <<>>
                     ELSE [super_gluu_auth_method |-> m]
    IN  {Outcome(TRUE, counted ++ method("enroll"), Unoffered(s), <<>>),
         Outcome(TRUE, counted ++ method(IF hasEnrollments("super_gluu", Entry(s))
                                         THEN "authenticate" ELSE "enroll"),
                 <<>>, <<>>)}

First(s, m) ==
    CASE m \in Texting -> TextFirst(s, m)
      [] m = "stytch" -> StytchFirst(s)
      [] m = "otp" -> OtpFirst(s)
      [] m = "super_gluu" -> SuperGluuFirst(s)
      [] m \in {"u2f", "fido2", "duo"} -> {Just(TRUE)}

-----------------------------------------------------------------------------
(* prepareForStep(2) and (3), once there is an authenticated user.         *)
validateSessionId(s) == Attr(s, "otp_auth_method") # None

OtpPrepared(s) == {Just(session[s].step = 2 /\ validateSessionId(s))}

(* Super Gluu keeps a request that is there.  Casa does not call the       *)
(* getNextStep that would mark it as timed out.                            *)
SuperGluuPrepared(s) ==
    LET method == Attr(s, "super_gluu_auth_method")
    IN  IF session[s].step # 2 THEN {Just(FALSE)}
        ELSE IF Attr(s, "super_gluu_request") # None THEN {Just(TRUE)}
        ELSE IF method = None THEN {Just(FALSE)}
        ELSE {Outcome(TRUE, [super_gluu_request |-> method,
                             super_gluu_auth_method |-> method], <<>>, <<>>)}

DuoPrepared(s) == {Just(session[s].step = 2)}

(* u2f and fido2 start a request with their service, which may fail: to    *)
(* use a device, or to register one when there is none.  u2f also shows a  *)
(* page without a request when the service does not know the device.       *)
DevicePrepared(s, m) ==
    {Failure} \cup
    IF hasEnrollments(m, Entry(s))
    THEN {Outcome(TRUE, [request |-> "authenticate"], <<>>, <<>>)} \cup
         {Just(TRUE) : none \in {"u2f"} \cap {m}}
    ELSE {Outcome(TRUE, [request |-> "enroll"], <<>>, <<>>)}

Prepared(s, m) ==
    CASE m \in Texting \cup {"stytch"} -> {Just(TRUE)}
      [] m = "otp" -> OtpPrepared(s)
      [] m = "super_gluu" -> SuperGluuPrepared(s)
      [] m = "duo" -> DuoPrepared(s)
      [] m \in {"u2f", "fido2"} -> DevicePrepared(s, m)

-----------------------------------------------------------------------------
(* authenticate(2) and (3), with what the person can do at the page.       *)
Factor(s) == Outcome(TRUE, <<>>, Passing(s, "second"), <<>>)
Enrolled(s, devices) ==
    Outcome(TRUE, <<>>, Passing(s, "enrolled"),
            [enrolled |-> Entry(s).enrolled \cup devices])

(* The page of several numbers asks for one, and the message goes there;   *)
(* the page of the code compares.  Neither looks at the number of steps.   *)
TextChosen(s, m) ==
    {Failure} \cup sendMessage(m, Attr(s, "randCode"), <<>>)
TextCompared(s) ==
    {Failure} \cup
    {IF code = Attr(s, "randCode") THEN Factor(s) ELSE Just(FALSE) :
        code \in {session[s].got} \ {None}}
TextSecond(s, m) ==
    IF session[s].step = 2 /\ Attr(s, "numbers") # None
    THEN TextChosen(s, m) ELSE TextCompared(s)

(* The service compares the code, and may not answer.                      *)
verifyPasscode(s) ==
    {IF code = Attr(s, "phone_id") THEN Factor(s) ELSE Just(FALSE) :
        code \in {session[s].got} \ {None}}
StytchSecond(s) ==
    {Failure} \cup
    IF session[s].step = 2 /\ Attr(s, "phone_id") # None
    THEN verifyPasscode(s) ELSE {}

findEnrollments(e) == e.enrolled \cap {"otp"}
OtpSecond(s) ==
    {Failure} \cup
    {Factor(s) : key \in IF session[s].step = 2 /\ validateSessionId(s)
                         THEN findEnrollments(Entry(s)) ELSE {}}

(* What a request to use a device or to register one comes to. *)
Used(s, request, m) ==
    CASE request = "authenticate" -> {Failure, Factor(s)}
      [] request = "enroll" -> {Failure, Enrolled(s, {m})}
      [] request = None -> {Failure}

(* The phone approves or enrolls, or the page times out or is cancelled.   *)
SuperGluuSecond(s) ==
    IF session[s].step = 2
    THEN Used(s, Attr(s, "super_gluu_request"), "super_gluu") ELSE {Failure}

(* The page of Duo enrolls who has no device there; the entry is not told. *)
DuoSecond(s) ==
    {Failure} \cup
    IF session[s].step # 2 THEN {}
    ELSE IF hasEnrollments("duo", Entry(s)) THEN {Factor(s)} ELSE {Enrolled(s, {})}

DeviceSecond(s, m) == Used(s, OnPage(s, "request"), m)

Second(s, m) ==
    CASE m \in Texting -> TextSecond(s, m)
      [] m = "stytch" -> StytchSecond(s)
      [] m = "otp" -> OtpSecond(s)
      [] m = "super_gluu" -> SuperGluuSecond(s)
      [] m = "duo" -> DuoSecond(s)
      [] m \in {"u2f", "fido2"} -> DeviceSecond(s, m)

-----------------------------------------------------------------------------
(* getExtraParametersForStep and getCountAuthenticationSteps.              *)
TextExtraWithoutCode == {"numbers"}
TextExtra == {"randCode", "numbers"}
StytchExtra == {"phone_id"}
OtpExtra == {"otp_auth_method", "otp_count_login_steps"}
SuperGluuExtra == [step \in {2} |-> {"super_gluu_auth_method",
                                     "super_gluu_request"}]

Extra(m, step) ==
    CASE m \in Texting -> TextExtra
      [] m = "stytch" -> StytchExtra
      [] m = "otp" -> OtpExtra
      [] m = "super_gluu" /\ step = 2 -> SuperGluuExtra[2]
      [] OTHER -> {}

OrTwo(v) == IF v # None THEN v ELSE 2

TextCount(work) == IF Value(work, "numbers") # None THEN 3 ELSE 2
OtpCount(work) == OrTwo(Value(work, "otp_count_login_steps"))
SuperGluuCount(work) == OrTwo(Value(work, "super_gluu_count_login_steps"))
DuoCount(e) == IF Exempt(e, "duo") THEN 1 ELSE 2

Count(e, m, work) ==
    CASE m \in Texting -> TextCount(work)
      [] m = "otp" -> OtpCount(work)
      [] m = "super_gluu" -> SuperGluuCount(work)
      [] m = "duo" -> DuoCount(e)
      [] OTHER -> 2
=============================================================================
