------------------------ MODULE PersonAuthentication ------------------------
(***************************************************************************)
(* The server that calls the person authentication scripts: it prepares    *)
(* and shows the page of a step, hands what the person answers to          *)
(* authenticate, and goes on to the step the script names or the next one, *)
(* until the script's count of steps is reached.  Several people log in at *)
(* the same time with the same script.                                     *)
(*                                                                         *)
(* The server is not part of this repository: what it does with the        *)
(* answers of the scripts is modelled from what the scripts rely on.       *)
(***************************************************************************)
EXTENDS PassportScripts

CONSTANTS
    Scripts,      \* the scripts considered
    Logins,       \* who is at each login, in the cases considered of each script
    Special       \* the logins whose authorization request may be special

ASSUME LoginsAssumption ==
    /\ Scripts \subseteq DOMAIN Logins
    /\ \A x \in Scripts : \A at \in Logins[x] :
          DOMAIN at \subseteq Session /\ Range(at) \subseteq Person
    /\ Person # {}
    /\ Special \subseteq Session

(* The configuration attributes each script looks for; a name with a value *)
(* stands for one of several settings of an attribute.                     *)
SuperGluuAttributes == {"authentication_mode", "AS_CLIENT_ID",
                        "AS_CLIENT_SECRET", "AS_ENDPOINT", "AS_SSA"}
PassportAttributes ==
    {{"key_store_file", "key_store_password"} \cup settings :
        settings \in SUBSET {"requestForEmail", "emailLinkingSafe"}}
Attributes ==
    [basic      |-> {{}},
     basic_lock |-> {{}},
     yubicloud  |-> {{"yubicloud_uri", "yubicloud_api_key", "yubicloud_id"}},
     u2f        |-> {{"u2f_server_uri", "u2f_application_id"}},
     fido2      |-> {{"fido2_server_uri"}},
     duo        |-> {{"duo_creds_file", "duo_host"},
                     {"duo_creds_file", "duo_host", "duo_group",
                      "audit_attribute"}},
     uaf        |-> {{"uaf_server_uri"}},
     thumb_sign_in |-> {{"ts_host", "ts_apiKey", "ts_apiSecret"}},
     twilio_sms |-> {{"twilio_sid", "twilio_token", "from_number"}},
     smpp       |-> {{"smpp_server", "smpp_port"}},
     otp        |-> {{"otp_type", "issuer", "otp_conf_file"},
                     {"otp_type", "issuer", "otp_conf_file", "hotp"}},
     super_gluu |-> {SuperGluuAttributes \cup settings : settings \in
                       {{"super_gluu_group", "audit_attribute"},
                        {"credentials_file", "gluu"},
                        {"credentials_file", "gluu", "AS_CLIENT_ID="},
                        {"credentials_file", "native"},
                        {"credentials_file", "sns"},
                        {"one_step"}}},
     cert       |-> {{"chain_cert_file_path", "map_user_cert",
                      "map_user_cert=true", "ocsp", "crl"},
                     {"chain_cert_file_path", "map_user_cert",
                      "credentials_file"},
                     {"chain_cert_file_path", "map_user_cert",
                      "credentials_file", "recaptcha", "generic"}},
     passport_social |-> PassportAttributes,
     passport_saml   |-> PassportAttributes]

ASSUME ScriptsAssumption == Scripts \subseteq DOMAIN Attributes

(* The attributes that every setting of the script has. *)
Required == {a \in UNION Attributes[script] :
                \A c \in Attributes[script] : a \in c}

(* init: a script that refuses its configuration serves no login. *)
Initialized ==
    CASE script = "yubicloud"  -> YubicloudInit
      [] script = "u2f"        -> U2fInit
      [] script = "fido2"      -> Fido2Init
      [] script = "duo"        -> DuoInit
      [] script = "uaf"        -> UafInit
      [] script = "thumb_sign_in" -> ThumbSignInInit
      [] script = "twilio_sms" -> TwilioInit
      [] script = "smpp"       -> SmppInit
      [] script = "otp"        -> OtpInit
      [] script = "super_gluu" -> SuperGluuInit
      [] script = "cert"       -> CertInit
      [] script \in {"passport_social", "passport_saml"} -> PassportInit
      [] OTHER                 -> TRUE

-----------------------------------------------------------------------------
(* The methods of the script of this run. *)
prepareForStep(s) ==
    \/ /\ script \in {"basic", "basic_lock", "yubicloud"}
       /\ PlainFirstPage(s, {})
    \/ script = "u2f" /\ U2fPrepare(s)
    \/ script = "fido2" /\ Fido2Prepare(s)
    \/ script = "duo" /\ DuoPrepare(s)
    \/ script = "uaf" /\ UafPrepare(s)
    \/ script = "thumb_sign_in" /\ ThumbSignInPrepare(s)
    \/ script \in {"twilio_sms", "smpp"} /\ SmsPrepare(s)
    \/ script = "otp" /\ OtpPrepare(s)
    \/ script = "super_gluu" /\ (SuperGluuPrepare1(s) \/ SuperGluuPrepare2(s))
    \/ script = "cert" /\ CertPrepare(s)
    \/ script = "passport_social" /\ PassportPrepare(s)
    \/ script = "passport_saml" /\ SamlPrepare(s)

authenticate(s) ==
    \/ script \in {"basic", "u2f"} /\ BasicAuthenticate(s)
    \/ script = "basic_lock" /\ LockAuthenticate(s)
    \/ script = "yubicloud" /\ YubicloudAuthenticate(s)
    \/ script = "fido2" /\ Fido2Password(s)
    \/ script = "duo" /\ DuoPassword(s)
    \/ script = "uaf" /\ (UafPassword(s) \/ UafAuthenticate(s))
    \/ script \in {"u2f", "fido2", "duo"} /\ DeviceAuthenticate(s)
    \/ /\ script = "thumb_sign_in"
       /\ ThumbSignInPassword(s) \/ ThumbSignInScan(s) \/ ThumbSignInRegister(s)
    \/ script = "twilio_sms" /\ TwilioAuthenticate1(s)
    \/ script = "smpp" /\ SmppAuthenticate1(s)
    \/ script \in {"twilio_sms", "smpp"} /\ SmsAuthenticate2(s)
    \/ script = "otp" /\ (OtpPassword(s) \/ OtpScan(s) \/ OtpSearch(s))
    \/ /\ script = "super_gluu"
       /\ \/ SuperGluuOneStep(s) \/ SuperGluuPassword(s)
          \/ SuperGluuSecond(s) \/ SuperGluuTimeOut(s)
    \/ script = "cert" /\ (CertBegin(s) \/ CertJudge(s) \/ CertMap(s))
    \/ script = "passport_social" /\ PassportAuthenticate(s)
    \/ script = "passport_saml" /\ SamlAuthenticate(s)

(* The rest of a method that lets other logins in between. *)
goOn(s) ==
    \/ script = "basic_lock" /\ (ResetInvalidLogins(s) \/ CountInvalidLogin(s))
    \/ script = "otp" /\ OtpReplace(s)
    \/ script = "fido2" /\ (Fido2Lock(s) \/ Fido2Load(s))

(* getNextStep (0 where the code says -1: no other step than the next),    *)
(* getCountAuthenticationSteps and getExtraParametersForStep.              *)
getNextStep(s, work) ==
    CASE script = "otp" -> OtpNext(s, work)
      [] script = "super_gluu" -> SuperGluuNext(s, work)
      [] script \in {"passport_social", "passport_saml"} -> PassportNext(s, work)
      [] OTHER -> 0

getCountAuthenticationSteps(work) ==
    CASE script \in {"basic", "basic_lock", "yubicloud"} -> 1
      [] script = "duo" -> DuoCount(work)
      [] script = "otp" -> OtpCount(work)
      [] script = "thumb_sign_in" -> ThumbSignInCount(work)
      [] script = "super_gluu" -> SuperGluuCount(work)
      [] script = "cert" -> CertCount(work)
      [] script \in {"passport_social", "passport_saml"} -> PassportCount(work)
      [] OTHER -> 2

getExtraParametersForStep(step) ==
    CASE script = "fido2" -> Fido2Extra
      [] script = "duo" /\ step = 2 -> DuoExtra[2]
      [] script = "uaf" -> UafExtra
      [] script \in {"twilio_sms", "smpp"} /\ step = 2 -> SmsExtra[2]
      [] script = "otp" -> OtpExtra
      [] script = "super_gluu" -> SuperGluuExtra[step]
      [] script = "cert" -> CertExtra
      [] script \in {"passport_social", "passport_saml"} -> PassportExtra[step]
      [] OTHER -> {}

-----------------------------------------------------------------------------
(* The person, the server, and the specification. *)

Devices == {"device"}

(* The entries there can be when the logins begin.  Only what the script   *)
(* of the run looks at varies.                                             *)
Passported == IF script \in {"passport_social", "passport_saml"}
              THEN BOOLEAN ELSE {FALSE}
Requests ==
    CASE script = "passport_social" ->
            {<<>>, [skipPassportProfileUpdate |-> TRUE]}
      [] script = "passport_saml" ->
            {[state |-> "text"], [state |-> "profile"], <<>>,
             [state |-> "text", skipPassportProfileUpdate |-> TRUE]}
      [] OTHER -> {<<>>}
PlainRequest == IF script = "passport_saml" THEN [state |-> "text"] ELSE <<>>
Entries ==
    [status : IF script = "basic_lock" THEN {"active", None} ELSE {"active"},
     failures : {0}, lock : {"none"}, wrong : {0},
     uids : CASE script \in {"u2f", "fido2", "uaf", "thumb_sign_in",
                             "yubicloud", "super_gluu", "cert"}
                  -> {{}, Devices}
              [] script = "passport_social" -> {{}, {"passport"}}
              [] script = "passport_saml" -> {{}, {"passport"}, {"saml"}}
              [] script = "otp" -> {{}, {[key |-> "key", factor |-> 1]}}
              [] OTHER -> {{}},
     app : {<<>>}, cached : {FALSE}, taken : {{}},
     groups : {{}} \cup {{g} : g \in conf \cap {"duo_group", "super_gluu_group"}},
     endpoint : {FALSE},
     account : Passported, mail : Passported,
     verified : IF script \in {"twilio_sms", "smpp"} THEN BOOLEAN ELSE {FALSE},
     phone : IF script \in {"twilio_sms", "smpp"}
             THEN {{"mobile"}, {"mobile", "employeeNumber"}} ELSE {{}}]

(* Who has a key in the entry has it in an application too. *)
Sensible == {e \in Entries : script \in {"passport_social", "passport_saml"}
                => /\ e.account \/ (e.uids = {} /\ ~e.mail)}
Holding(e) ==
    IF script = "otp" /\ e.uids # {} THEN [app |-> Single("key", 1)] ++ e ELSE e

(* Two logins by Passport share nothing but the script object when they    *)
(* are of different people: only the entry of the one whose request may be *)
(* special varies then, and the other has no account yet.  Who does not    *)
(* log in has any entry, which nothing looks at.                           *)
Varied(at) == IF script \in {"passport_social", "passport_saml"}
              THEN {at[s] : s \in Special \cap DOMAIN at} ELSE Range(at)
New == CHOOSE e \in Sensible : e.uids = {} /\ ~e.account

(* A login that the case considered has no use for ends before its first   *)
(* page.                                                                   *)
GivenUp == [stage |-> "refused"] ++ Fault
              ++ NewSession(CHOOSE p \in Person : TRUE, <<>>)

Init ==
    /\ script \in Scripts
    /\ \E c \in Attributes[script] :
          conf \in {c} \cup {c \ {a} : a \in Required}
    /\ Initialized
    /\ \E client \in ScanClient :
          self = [mobile_number |-> None, metadata |-> None, holder |-> None,
                  skipProfileUpdate |-> FALSE, scanClient |-> client]
    /\ \E at \in Logins[script] :
       /\ \E r \in [Special -> Requests] :
             session = [s \in Session |->
                IF s \notin DOMAIN at THEN GivenUp
                ELSE NewSession(at[s], IF s \in Special THEN r[s] ELSE PlainRequest)]
       /\ \E e \in [Varied(at) -> Sensible] :
             person = [p \in Person |-> IF p \in Varied(at) THEN Holding(e[p])
                                       ELSE New]

Proceed(s) ==
    LET work == session[s].work
    IN  Forward(s, Repeated(work), getNextStep(s, work),
                getCountAuthenticationSteps(work),
                [step \in Nat |-> getExtraParametersForStep(step)])

Step(s) == prepareForStep(s) \/ authenticate(s) \/ goOn(s) \/ Proceed(s)

Next == \/ \E s \in Session : Step(s)
        \/ \E p \in Person : LockAges(p)
        \/ script = "otp" /\ \E p \in Person : OtpPress(p)
        \/ script = "super_gluu" /\ \E s \in Session : Approve(s)

(* A request that has arrived is worked on until it is answered: nothing   *)
(* is assumed of the person at the page, or of the approving phone.        *)
Arrived(s) == session[s].stage \in {"prepare", "working", "answered"}
Serve(s) == Arrived(s) /\ (prepareForStep(s) \/ goOn(s) \/ Proceed(s))

Spec == Init /\ [][Next]_state /\ \A s \in Session : WF_state(Serve(s))

-----------------------------------------------------------------------------
(* Properties. *)

(* What the five variables hold.  The count of invalid logins never        *)
(* exceeds its maximum (CountInvalidLogin).                                *)
TypeOK ==
    /\ script \in Scripts
    /\ conf \subseteq UNION Attributes[script]
    /\ self \in [mobile_number : Person \cup {None}, metadata : {"loaded", None},
                 holder : Session \cup {None}, skipProfileUpdate : BOOLEAN,
                 scanClient : BOOLEAN]
    /\ \A s \in Session :
          /\ session[s].who \in Person
          /\ session[s].user \in {None, session[s].who}
          /\ session[s].stage \in Stages
          /\ session[s].step \in 1..3
          /\ session[s].tries \in 0..(MaxTries - 1)
          /\ session[s].reply \in BOOLEAN /\ session[s].fault \in BOOLEAN
    /\ \A p \in Person :
          /\ person[p].failures \in 0..MaxInvalidLogins
          /\ person[p].status \in {"active", "inactive", None}
          /\ person[p].lock \in {"none", "locked", "old", "unlocked"}

(* What a person has to come through under this configuration.             *)
Demanded(s) ==
    CASE script \in {"basic", "basic_lock"} -> {"password"}
      [] script \in {"yubicloud", "thumb_sign_in"} -> {"device"}
      [] script \in {"u2f", "fido2", "uaf"} -> {"password", "device"}
      [] script = "duo" ->
            IF "duo_group" \in conf /\ ~InDuoGroup(s) THEN {"password"}
            ELSE {"password", "device"}
      [] script \in {"twilio_sms", "smpp", "otp"} -> {"password", "code"}
      [] script = "super_gluu" ->
            (IF OneStep THEN {} ELSE {"password"}) \cup
            (IF "super_gluu_group" \in conf /\ Entry(s).groups = {} THEN {}
             ELSE {"device"})
      [] script = "cert" -> {"device"} \cup (conf \cap {"recaptcha"})
      [] script \in {"passport_social", "passport_saml"} -> {"provider"}

(* A login that ends well is the login of the person who sits there, and   *)
(* that person came through every factor the script and its configuration  *)
(* ask for: no step is skipped by what authenticate, getNextStep and       *)
(* getCountAuthenticationSteps say together, whatever failed or timed out  *)
(* on the way.                                                             *)
EveryFactorPassed ==
    \A s \in Session : session[s].stage = "done" =>
        /\ session[s].user = session[s].who
        /\ Demanded(s) \subseteq session[s].passed

(* What breaks a login by itself: the exception in the second step of      *)
(* UafExternalAuthenticator, the registration of a new phone in the        *)
(* one-step mode of SuperGluuExternalAuthenticator, the number that        *)
(* twilio2FA keeps, a request without state in SamlPassportAuthenticator.  *)
BrokenByScript(s) ==
    \/ script = "uaf" /\ session[s].step = 2
    \/ script = "super_gluu" /\ OneStep /\ ~Registered(s)
    \/ script = "twilio_sms" /\ Attr(s, "mobile_number") # session[s].who
    \/ script = "passport_saml" /\ NoState(s)

(* What another login of the same person can do to one: a code that it has *)
(* had taken moves the entry past the codes before it, or is the one in    *)
(* oxOTPCache; and wrong passwords typed there lock the account.           *)
CodeTaken(s) == script = "otp" /\ \E t \in Entry(s).taken : t # s
AccountLocked(s) == script = "basic_lock" /\ Entry(s).wrong >= MaxInvalidLogins

(* A login is turned away only when something went wrong with it: the      *)
(* person made a mistake, cancelled or let a page expire, a service        *)
(* failed, or the configuration is incomplete; by one of the four faults   *)
(* above; or by one of the two things that another login can do to it.  In *)
(* all other scripts and steps what two logins share (the script object,   *)
(* an entry, a moving factor) costs neither of them its success.           *)
RefusedForAKnownReason ==
    \A s \in Session : session[s].stage = "refused" =>
        session[s].fault \/ BrokenByScript(s) \/ CodeTaken(s) \/ AccountLocked(s)

(* The keys in an entry are ones the person's application makes codes      *)
(* from, and the entry never expects a later code than the application     *)
(* will make: otherwise the person is locked out for good.  Codes come in  *)
(* any order, and of two logins that found the same moving factor the      *)
(* later writes over, or beside, what the earlier wrote.                   *)
EnrolledKeysAreHeld ==
    script = "otp" =>
        \A p \in Person : \A e \in person[p].uids :
            /\ e.key \in DOMAIN person[p].app
            /\ e.factor <= person[p].app[e.key]

(* Nobody is locked out by fewer wrong passwords than the configured       *)
(* maximum, also when two logins count at the same time.                   *)
LockNeedsFailures ==
    \A p \in Person :
        person[p].status = "inactive" => person[p].wrong >= MaxInvalidLogins

(* The lock of the metadata is left held by who found them loaded by       *)
(* another: a third login, which had come to the lock by then, waits.      *)
LeftAtTheLock(s) ==
    /\ Loading(s, "lock") /\ self.holder # None /\ self.metadata # None
    /\ \E t \in Session \ {s, self.holder} : session[t].step = 2

(* A request is answered: with a page, or the end of the login, whatever   *)
(* the logins that are served at the same time do.  The one exception is a *)
(* request that waits at a lock nobody will open, and there is one only    *)
(* when three first logins by FIDO2 come together.                         *)
EveryRequestAnswered ==
    \A s \in Session : Arrived(s)
        ~> session[s].stage \in {"page", "done", "refused"} \/ LeftAtTheLock(s)

(* twilio2FA:112 "Get the Person's number and generate a code": the code   *)
(* goes to the person who logs in.                                         *)
CodeReachesItsPerson ==
    script \in {"twilio_sms", "smpp"} =>
        \A s \in Session :
            At(s, "page", 2) => session[s].got = Attr(s, "code")

=============================================================================
