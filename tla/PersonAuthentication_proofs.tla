--------------------- MODULE PersonAuthentication_proofs ---------------------
(***************************************************************************)
(* The safety properties of the person authentication scripts, for every   *)
(* number of logins and of people, every script and every configuration.   *)
(*                                                                         *)
(* A script leaves what it has found out for its next method in the        *)
(* session, in the working parameters of a request, in its own object and  *)
(* in the entry of the person, and its answer to the last request is only  *)
(* as good as what it finds there.  So the invariant says, script by       *)
(* script, what each such note is worth: the part of LoginInv for a script *)
(* is what its methods may rely on when they are called, and the entries   *)
(* are such that the steps of one login take nothing from another (Kept    *)
(* and NotTaken).  A step lemma per method shows that it keeps the part of  *)
(* its script; LoginKept does the other logins, and OneForAll puts the two *)
(* together.                                                               *)
(***************************************************************************)
EXTENDS PersonAuthentication, AuthenticationSession_proofs

\* The fields of an entry (Entries).
EntryFields == {"status", "failures", "lock", "wrong", "uids", "app", "cached",
                "taken", "groups", "endpoint", "account", "mail", "verified", "phone"}

\* Every entry has these fields.
People == /\ DOMAIN person = Person
          /\ \A p \in Person : DOMAIN person[p] = EntryFields

\* authenticate has answered, and how; what the end of a login asks for.
Well(s)  == session[s].stage = "answered" /\ session[s].reply
Badly(s) == session[s].stage = "answered" /\ ~session[s].reply
Through(s) == /\ session[s].user = session[s].who
              /\ Demanded(s) \subseteq session[s].passed
\* What a login may be refused for.
Reason(s) == \/ session[s].fault \/ BrokenByScript(s)
             \/ CodeTaken(s) \/ AccountLocked(s)

\* What the fields of a login hold.
LoginType(s) ==
    /\ session[s].who \in Person
    /\ session[s].user \in {None, session[s].who}
    /\ session[s].stage \in Stages
    /\ session[s].step \in 1..3
    /\ session[s].tries \in 0..(MaxTries - 1)
    /\ session[s].reply \in BOOLEAN /\ session[s].fault \in BOOLEAN

\* What the fields of an entry hold.
EntryType(p) ==
    /\ person[p].failures \in 0..MaxInvalidLogins
    /\ person[p].status \in {"active", "inactive", None}
    /\ person[p].lock \in {"none", "locked", "old", "unlocked"}

\* The script object, and what a setting of a script implies of it.
Object ==
    /\ script \in Scripts
    /\ conf \subseteq UNION Attributes[script]
    /\ self \in [mobile_number : Person \cup {None}, metadata : {"loaded", None},
                 holder : Session \cup {None}, skipProfileUpdate : BOOLEAN,
                 scanClient : BOOLEAN]
    /\ script = "cert" /\ "recaptcha" \in conf => "credentials_file" \in conf
    /\ script = "super_gluu" => "duo_group" \notin conf
    /\ script = "duo" => "super_gluu_group" \notin conf

\* The invalid logins that an entry counts are ones that happened; who is
\* locked out had as many as it takes.
EntryCounts(p) ==
    /\ person[p].wrong \in Nat
    /\ person[p].failures <= person[p].wrong
    /\ person[p].status = "inactive" => person[p].wrong >= MaxInvalidLogins
    /\ person[p].groups \in {{}, {"duo_group"}, {"super_gluu_group"}}
    /\ person[p].groups \subseteq conf

\* A login ends with all that is demanded, or for a reason.
Ends(s) ==
    /\ session[s].stage = "done" => Through(s)
    /\ session[s].stage = "refused" \/ Badly(s) => Reason(s)
    /\ session[s].stage = "working" => script \in {"basic_lock", "fido2", "otp"}
    /\ session[s].stage = "prepare" => session[s].work = <<>>

\* A login that is going to be counted: what it read of the count is less than the
\* wrong passwords there have been, or these are enough for a lock.
Counting(s) ==
    /\ session[s].fault \/ Entry(s).wrong >= MaxInvalidLogins
    /\ session[s].work.failures \in 0..MaxInvalidLogins
    /\ \/ session[s].work.failures + 1 <= Entry(s).wrong
       \/ Entry(s).wrong >= MaxInvalidLogins

\* The scripts of one step.
OneStepLogin(s) ==
    script \in {"basic", "basic_lock", "yubicloud"} =>
        /\ session[s].step = 1
        /\ Well(s) => Through(s)
        /\ script = "basic_lock" /\ session[s].stage = "working" =>
              IF session[s].work.accepted THEN Through(s) ELSE Counting(s)

\* The scripts that begin with a password.
PasswordFirst(s) ==
    \/ script \in {"u2f", "fido2", "duo", "uaf", "twilio_sms", "smpp", "otp"}
    \/ script = "super_gluu" /\ ~OneStep
    => \/ session[s].step = 1 /\ ~Well(s)
       \/ session[s].user = session[s].who /\ "password" \in session[s].passed

\* ... and go on with a device.
DeviceSecond(s) ==
    /\ script \in {"u2f", "fido2", "duo"} =>
          /\ session[s].step \in {1, 2}
          /\ Well(s) /\ session[s].step # 1 => "device" \in session[s].passed
    /\ script = "duo" =>
          \A m \in {session[s].work, session[s].attrs} :
             "duo_count_login_steps" \in DOMAIN m =>
                /\ "duo_group" \in conf
                /\ m.duo_count_login_steps = IF InDuoGroup(s) THEN 2 ELSE 1
    /\ script = "uaf" => /\ session[s].step \in {1, 2}
                         /\ session[s].step # 1 => ~Well(s)

\* ThumbSignIn: the flow is never kept, and the scanned or registered device ends
\* the login of who scanned it.
ThumbSignInLogin(s) ==
    script = "thumb_sign_in" =>
        /\ Attr(s, "userLoginFlow") = None
        /\ Well(s) /\ (\/ session[s].step = 3
                       \/ OnPage(s, "userLoginFlow") = "ThumbSignIn_Authentication")
           => Through(s)

\* ... or with a code that was sent.
CodeSecond(s) ==
    /\ script \in {"twilio_sms", "smpp"} =>
          /\ session[s].step \in {1, 2}
          /\ Well(s) /\ session[s].step # 1 => "code" \in session[s].passed
    /\ script = "twilio_sms" /\ (session[s].step # 1 \/ Well(s)) =>
          /\ "code" \in DOMAIN session[s].work =>
                session[s].work.code = Attr(s, "code")
          /\ Attr(s, "mobile_number") = session[s].who =>
                session[s].got = Attr(s, "code") /\ Attr(s, "code") # None
    /\ script = "smpp" =>
          /\ session[s].step # 1 =>
                session[s].got = Attr(s, "code") /\ Attr(s, "code") # None
          /\ Well(s) => session[s].got = OnPage(s, "code") /\ OnPage(s, "code") # None

\* ... or with one that an application makes.  An enrollment takes three steps.
OtpNotes(s, m) ==
    /\ Value(m, "otp_auth_method") = "enroll" <=> "otp_count_login_steps" \in DOMAIN m
    /\ "otp_count_login_steps" \in DOMAIN m => m.otp_count_login_steps = 3
    /\ Value(m, "retry_current_step") = TRUE => session[s].fault

\* The login makes a new key, and what keys of its own there are.
Enrolling(s) == \/ Attr(s, "otp_auth_method") = "enroll"
                \/ OnPage(s, "otp_auth_method") = "enroll"

\* OTP: the method, the key on the page and the key in the application agree.
OtpLogin(s) ==
    script = "otp" =>
        /\ OtpNotes(s, session[s].work) /\ OtpNotes(s, session[s].attrs)
        /\ session[s].step = 1 =>
              /\ OnPage(s, "retry_current_step") = None
              /\ \A n \in OtpExtra : n \notin DOMAIN session[s].attrs
        /\ session[s].step # 1 /\ "otp_auth_method" \in DOMAIN session[s].work =>
              session[s].work.otp_auth_method = Attr(s, "otp_auth_method")
        /\ Well(s) /\ session[s].step # 1 =>
              \/ "code" \in session[s].passed
              \/ session[s].step = 2 /\ OnPage(s, "otp_auth_method") = "enroll"
        /\ At(s, "page", 2) /\ Enrolling(s) =>
              OnPage(s, "otp_secret_key") = Attr(s, "otp_secret_key")
        /\ Well(s) /\ session[s].step = 2 /\ Enrolling(s)
                   /\ OnPage(s, "retry_current_step") # TRUE =>
              /\ OnPage(s, "otp_secret_key") = Attr(s, "otp_secret_key")
              /\ Attr(s, "otp_secret_key") \in DOMAIN Entry(s).app
        /\ session[s].step = 3 =>
              /\ Attr(s, "otp_auth_method") = "enroll"
              /\ Attr(s, "otp_secret_key") \in DOMAIN Entry(s).app
              /\ "otp_secret_key" \in DOMAIN session[s].work =>
                    session[s].work.otp_secret_key = Attr(s, "otp_secret_key")

\* ... and a code of the login was not taken unless that ended it, or it has met a
\* fault; the code that was found right and is yet to be written was made by the
\* application.
Ending(s) ==
    Well(s) /\ session[s].step # 1
        /\ ~(session[s].step = 2 /\ OnPage(s, "otp_auth_method") = "enroll")

OtpTyped(s) ==
    script = "otp" =>
        /\ s \in Entry(s).taken =>
              \/ session[s].fault \/ Ending(s)
              \/ session[s].stage \in {"done", "refused"}
        /\ session[s].stage = "working" =>
              /\ session[s].step # 1
              /\ session[s].step = 2 => Attr(s, "otp_auth_method") # "enroll"
              /\ session[s].work.key \in DOMAIN Entry(s).app
              /\ Hotp => /\ session[s].work.code \in Nat
                         /\ session[s].work.code < Entry(s).app[session[s].work.key]

\* The keys of an entry are held, and not ahead of the application; and it is as it
\* was at first until a code was taken.
KeysOf(e) ==
    /\ \A k \in DOMAIN e.app : e.app[k] \in Nat \ {0}
    /\ \A u \in e.uids :
          /\ u.key \in DOMAIN e.app
          /\ u.factor \in Nat
          /\ u.factor <= e.app[u.key]
    /\ e.cached \/ (\E u \in e.uids : u.factor > 1) => e.taken # {}

OtpKeys(p) == script = "otp" => KeysOf(person[p])

\* Super Gluu after a password: who goes on to step 2 has a method, and the
\* device of a login that was approved is registered.
Methods == {"enroll", "authenticate"}
SuperGluuTwoStep(s) ==
    script = "super_gluu" /\ ~OneStep =>
        /\ session[s].step \in {1, 2}
        /\ Attr(s, "super_gluu_count_login_steps") = None
        /\ Attr(s, "retry_current_step") = None
        /\ OnPage(s, "super_gluu_count_login_steps") # None =>
              /\ "super_gluu_group" \in conf
              /\ OnPage(s, "super_gluu_count_login_steps") =
                    IF isUserMemberOfGroup(s) THEN 2 ELSE 1
        /\ OnPage(s, "retry_current_step") = TRUE => session[s].fault
        /\ Well(s) /\ session[s].step # 1 => "device" \in session[s].passed
        /\ Well(s) /\ session[s].step = 1 =>
              \/ OnPage(s, "super_gluu_auth_method") \in Methods
              \/ OnPage(s, "super_gluu_count_login_steps") = 1
        /\ session[s].step # 1 => Attr(s, "super_gluu_auth_method") \in Methods
        /\ \A m \in {session[s].work, session[s].attrs} :
              "super_gluu_auth_method" \in DOMAIN m =>
                  m.super_gluu_auth_method \in Methods
        /\ \/ Attr(s, "super_gluu_auth_method") = "authenticate"
           \/ OnPage(s, "super_gluu_auth_method") = "authenticate"
           \/ Attr(s, "session_custom_state") = "approved"
           => Registered(s)
        /\ session[s].step = 1 => Attr(s, "super_gluu_request") = None

\* Super Gluu as the only step: a new phone is never registered.
SuperGluuOnly(s) ==
    script = "super_gluu" /\ OneStep =>
        /\ session[s].step \in {1, 2}
        /\ Attr(s, "super_gluu_count_login_steps") = None
        /\ Attr(s, "retry_current_step") = None
        /\ OnPage(s, "super_gluu_count_login_steps") \in {None, 1}
        /\ OnPage(s, "retry_current_step") = TRUE => session[s].fault
        /\ session[s].step # 1 \/ Well(s) => "device" \in session[s].passed
        /\ Well(s) => session[s].step = 1
        /\ session[s].user # None =>
              \/ session[s].stage = "done"
              \/ /\ Well(s)
                 /\ OnPage(s, "super_gluu_count_login_steps") = 1
                 /\ OnPage(s, "retry_current_step") = FALSE
        /\ OnPage(s, "super_gluu_count_login_steps") = 1
              => session[s].user = session[s].who
        /\ session[s].step # 1 \/ (Well(s) /\ session[s].user = None)
              => Attr(s, "enroll") = TRUE
        /\ Attr(s, "session_custom_state") = "approved" \/ Attr(s, "enroll") # None
              => Attr(s, "enroll") = ~Registered(s)

\* The certificate: what a count of two steps, or a certificate that waits for
\* step 3, says of what has been passed.
CertLogin(s) ==
    script = "cert" =>
        /\ (session[s].step # 1 \/ Well(s)) /\ initRecaptcha =>
              "recaptcha" \in session[s].passed
        /\ Attr(s, "cert_count_login_steps") = None
        /\ Well(s) /\ OnPage(s, "cert_count_login_steps") # None =>
              /\ session[s].step # 1
              /\ session[s].user = session[s].who
              /\ "device" \in session[s].passed
        /\ \/ Attr(s, "cert_user_external_uid") # None
           \/ OnPage(s, "cert_user_external_uid") # None
           => "device" \in session[s].passed
        /\ Well(s) /\ session[s].step = 3 =>
              /\ session[s].user = session[s].who
              /\ "device" \in session[s].passed

\* The provider: the login of step 1 is done, waits for an address, or goes to
\* the provider that was chosen, for which a try is left.
PassportLogin(s) ==
    script \in {"passport_social", "passport_saml"} =>
        /\ session[s].step \in {1, 2}
        /\ Well(s) =>
              \/ Through(s)
              \/ session[s].step = 1 /\ \/ OnPage(s, "passport_user_profile") # None
                                        \/ OnPage(s, "selectedProvider") # None
        /\ session[s].stage = "answered" /\ session[s].step = 1
              /\ OnPage(s, "selectedProvider") # None
              => session[s].tries + 1 < MaxTries
        /\ At(s, "page", 1) => Attr(s, "selectedProvider") = None

\* What holds of each login; each part is empty but for its own script.
LoginInv(s) ==
    /\ LoginType(s) /\ Ends(s)
    /\ OneStepLogin(s) /\ PasswordFirst(s) /\ DeviceSecond(s) /\ ThumbSignInLogin(s)
    /\ CodeSecond(s) /\ OtpLogin(s) /\ OtpTyped(s)
    /\ SuperGluuTwoStep(s) /\ SuperGluuOnly(s) /\ CertLogin(s) /\ PassportLogin(s)


\* What the logins of everybody share.
EntriesInv ==
    /\ Object /\ People
    /\ \A p \in Person : EntryType(p) /\ EntryCounts(p) /\ OtpKeys(p)

\* The inductive invariant: what all logins share, and what holds of each.
IInv == EntriesInv /\ Shape /\ \A s \in Session : LoginInv(s)

\* What no step takes from an entry, whoever it is of: the other logins of the
\* person rely on it.
Kept ==
    /\ script' = script /\ conf' = conf
    /\ \A p \in Person :
          /\ person'[p].groups = person[p].groups
          /\ person'[p].wrong \in Nat /\ person'[p].wrong >= person[p].wrong
          /\ person[p].uids # {} => person'[p].uids # {}
          /\ script = "super_gluu" /\ OneStep => person'[p].uids = person[p].uids
          /\ DOMAIN person[p].app \subseteq DOMAIN person'[p].app
          /\ \A k \in DOMAIN person[p].app : \A n \in Nat :
                n < person[p].app[k] => n < person'[p].app[k]
          /\ person[p].taken \subseteq person'[p].taken

\* No code of this login is taken that was not before.
NotTaken(t) ==
    \A p \in Person : t \in person'[p].taken => t \in person[p].taken

\* None is none of the values that the scripts and the server write.
LEMMA NoneIsNothing ==
    /\ \A x \in Person \cup Session : x # None
    /\ \A n \in Nat : n # None
    /\ TRUE # None /\ FALSE # None /\ 1 # None /\ 2 # None /\ 3 # None
    /\ "enroll" # None /\ "authenticate" # None /\ "approved" # None
    /\ "cert" # None /\ "profile" # None /\ "provider" # None /\ "inactive" # None
<1>1. /\ \A x \in Person \cup Session : x # None
      /\ \A n \in Nat : n # None
      /\ \A x \in Texts : x # None
  BY SessionAssumption
<1>2. TRUE # None /\ FALSE # None
  BY SessionAssumption
<1>3. 1 # None /\ 2 # None /\ 3 # None
  BY <1>1
<1>4. QED
  BY <1>1, <1>2, <1>3 DEF Texts

\* The scripts there are.
LEMMA KindOfScript ==
    ASSUME Object
    PROVE  script \in {"basic", "basic_lock", "yubicloud", "u2f", "fido2", "duo",
                       "uaf", "thumb_sign_in", "twilio_sms", "smpp", "otp",
                       "super_gluu", "cert", "passport_social", "passport_saml"}
BY ScriptsAssumption DEF Object, Attributes

\* A login that a step leaves alone, when the entries keep what they have.
LEMMA LoginKept ==
    ASSUME IInv, NEW t \in Session, session'[t] = session[t], Kept, NotTaken(t)
    PROVE  LoginInv(t)'
<1> USE DEF IInv, EntriesInv, LoginInv, Kept, Entry
<1> DEFINE who == session[t].who
<1>1. who \in Person /\ LoginType(t)'
  BY DEF LoginType
<1>2. /\ \A n : Attr(t, n)' = Attr(t, n) /\ OnPage(t, n)' = OnPage(t, n)
      /\ OneStep' = OneStep /\ (Registered(t) => Registered(t)')
      /\ script = "super_gluu" /\ OneStep => Registered(t)' = Registered(t)
      /\ Entry(t)'.groups = Entry(t).groups
  BY <1>1 DEF Attr, OnPage, OneStep, Registered
<1>3. Through(t)' = Through(t)
  BY <1>2 DEF Through, Demanded, InDuoGroup
<1>4. Reason(t) => Reason(t)'
  <2>1. BrokenByScript(t)' = BrokenByScript(t)
    BY <1>2 DEF BrokenByScript, NoState
  <2>2. CodeTaken(t) => CodeTaken(t)'
    BY <1>1 DEF CodeTaken
  <2>3. AccountLocked(t) => AccountLocked(t)'
    BY <1>1, MaxInvalidLoginsAssumption DEF AccountLocked, EntryCounts
  <2>4. QED
    BY <2>1, <2>2, <2>3 DEF Reason
<1>5. Well(t)' = Well(t) /\ Badly(t)' = Badly(t)
  BY DEF Well, Badly
<1>6. Ends(t)'
  BY <1>3, <1>4, <1>5 DEF Ends
<1>7. OneStepLogin(t)'
  <2>1. Counting(t) => Counting(t)'
    BY <1>1, MaxInvalidLoginsAssumption DEF Counting, EntryCounts
  <2>2. QED
    BY <1>1, <1>3, <1>5, <2>1 DEF OneStepLogin
<1>8. PasswordFirst(t)'
  BY <1>2, <1>5 DEF PasswordFirst
<1>9. DeviceSecond(t)'
  BY <1>2, <1>5 DEF DeviceSecond, InDuoGroup
<1>10. ThumbSignInLogin(t)'
  BY <1>2, <1>3, <1>5 DEF ThumbSignInLogin
<1>11. CodeSecond(t)'
  BY <1>2, <1>5 DEF CodeSecond
<1>12. OtpLogin(t)'
  <2>1. DOMAIN Entry(t).app \subseteq DOMAIN Entry(t)'.app
    BY <1>1
  <2>2. Enrolling(t)' = Enrolling(t)
    BY <1>2 DEF Enrolling
  <2>3. /\ OtpNotes(t, session[t].work)' = OtpNotes(t, session[t].work)
        /\ OtpNotes(t, session[t].attrs)' = OtpNotes(t, session[t].attrs)
    BY DEF OtpNotes
  <2> SUFFICES ASSUME script' = "otp" PROVE OtpLogin(t)'
    BY DEF OtpLogin
  <2>4. script = "otp" /\ OtpLogin(t) /\ At(t, "page", 2)' = At(t, "page", 2)
    BY DEF At
  <2> HIDE DEF IInv, EntriesInv, LoginInv, Kept, Entry
  <2>5. /\ OtpNotes(t, session[t].work)' /\ OtpNotes(t, session[t].attrs)'
        /\ session'[t].step = 1 =>
              /\ OnPage(t, "retry_current_step")' = None
              /\ \A n \in OtpExtra : n \notin DOMAIN session'[t].attrs
        /\ session'[t].step # 1 /\ "otp_auth_method" \in DOMAIN session'[t].work =>
              session'[t].work.otp_auth_method = Attr(t, "otp_auth_method")'
        /\ Well(t)' /\ session'[t].step # 1 =>
              \/ "code" \in session'[t].passed
              \/ session'[t].step = 2 /\ OnPage(t, "otp_auth_method")' = "enroll"
    BY <1>2, <1>5, <2>3, <2>4 DEF OtpLogin
  <2>7. /\ At(t, "page", 2)' /\ Enrolling(t)' =>
              OnPage(t, "otp_secret_key")' = Attr(t, "otp_secret_key")'
        /\ Well(t)' /\ session'[t].step = 2 /\ Enrolling(t)'
                    /\ OnPage(t, "retry_current_step")' # TRUE =>
              /\ OnPage(t, "otp_secret_key")' = Attr(t, "otp_secret_key")'
              /\ Attr(t, "otp_secret_key")' \in DOMAIN Entry(t)'.app
    BY <1>2, <1>5, <2>1, <2>2, <2>3, <2>4 DEF OtpLogin
  <2>8. session'[t].step = 3 =>
              /\ Attr(t, "otp_auth_method")' = "enroll"
              /\ Attr(t, "otp_secret_key")' \in DOMAIN Entry(t)'.app
              /\ "otp_secret_key" \in DOMAIN session'[t].work =>
                    session'[t].work.otp_secret_key = Attr(t, "otp_secret_key")'
    BY <1>2, <2>1, <2>3, <2>4 DEF OtpLogin
  <2>9. QED
    BY <2>5, <2>7, <2>8 DEF OtpLogin
<1>18. OtpTyped(t)'
  <2>1. Ending(t)' = Ending(t) /\ Hotp' = Hotp
    BY <1>2, <1>5 DEF Ending, Hotp
  <2>2. t \in Entry(t)'.taken => t \in Entry(t).taken
    BY <1>1 DEF NotTaken
  <2>3. \A k \in DOMAIN Entry(t).app : /\ k \in DOMAIN Entry(t)'.app
           /\ \A n \in Nat : n < Entry(t).app[k] => n < Entry(t)'.app[k]
    BY <1>1
  <2>4. OtpTyped(t)
    OBVIOUS
  <2> HIDE DEF IInv, EntriesInv, LoginInv, Kept, Entry
  <2>5. script' = script
    BY DEF Kept
  <2>6. QED
    BY <1>2, <2>1, <2>2, <2>3, <2>4, <2>5 DEF OtpTyped
<1>13. SuperGluuTwoStep(t)'
  BY <1>2, <1>5 DEF SuperGluuTwoStep, isUserMemberOfGroup
<1>14. SuperGluuOnly(t)'
  BY <1>2, <1>5 DEF SuperGluuOnly
<1>15. CertLogin(t)'
  BY <1>2, <1>5 DEF CertLogin, initRecaptcha
<1>16. PassportLogin(t)'
  BY <1>2, <1>3, <1>5 DEF PassportLogin, At
<1>17. QED
  BY <1>1, <1>6, <1>7, <1>8, <1>9, <1>10, <1>11, <1>12, <1>13, <1>14, <1>15, <1>16,
     <1>18

\* A step that changes no entry, and leaves the object of its type.
LEMMA EntriesAlone ==
    ASSUME EntriesInv, UNCHANGED <<script, conf, person>>,
           self' = self \/ Object'
    PROVE  EntriesInv' /\ Kept /\ \A t \in Session : NotTaken(t)
BY DEF EntriesInv, Kept, NotTaken, Object, People, EntryType, EntryCounts, OtpKeys

\* The fields of an entry that no script but the one that locks it writes.
Guarded == {"status", "failures", "lock", "wrong", "groups", "taken"}

\* An entry is changed in other fields than those.
LEMMA EntryChanged ==
    ASSUME EntriesInv, UNCHANGED <<script, conf>>, self' = self \/ Object',
           script # "otp",
           NEW p \in Person, NEW e, person' = [person EXCEPT ![p] = e],
           DOMAIN e = EntryFields, \A f \in Guarded : e[f] = person[p][f],
           e.app = person[p].app,
           \/ e.uids = person[p].uids
           \/ e.uids # {} /\ ~(script = "super_gluu" /\ OneStep)
    PROVE  EntriesInv' /\ Kept /\ \A t \in Session : NotTaken(t)
<1>1. /\ \A q \in Person \ {p} : person'[q] = person[q]
      /\ person'[p] = e /\ DOMAIN person' = Person
  BY DEF EntriesInv, People
<1>2. Object' /\ People'
  BY <1>1 DEF EntriesInv, Object, People
<1>3. ASSUME NEW q \in Person PROVE EntryType(q)' /\ EntryCounts(q)' /\ OtpKeys(q)'
  BY <1>1 DEF EntriesInv, EntryType, EntryCounts, OtpKeys, Guarded
<1>4. Kept
  BY <1>1 DEF Kept, EntriesInv, EntryCounts, Guarded
<1>5. QED
  BY <1>1, <1>2, <1>3, <1>4 DEF EntriesInv, NotTaken, Guarded

\* ... as a script does it with SetEntry.
LEMMA EntrySet ==
    ASSUME EntriesInv, NEW s \in Session, LoginType(s), script # "otp",
           NEW c, SetEntry(s, c), DOMAIN c \subseteq {"uids", "endpoint"},
           "uids" \in DOMAIN c => c.uids # {} /\ ~(script = "super_gluu" /\ OneStep)
    PROVE  EntriesInv' /\ Kept /\ \A t \in Session : NotTaken(t)
<1> DEFINE who == session[s].who
           e == c ++ person[who]
<1>1. who \in Person /\ person' = [person EXCEPT ![who] = e]
  BY DEF LoginType, SetEntry
<1>2. /\ DOMAIN e = EntryFields
      /\ \A f \in Guarded \cup {"app"} : e[f] = person[who][f]
      /\ "uids" \in DOMAIN c => e.uids = c.uids
      /\ "uids" \notin DOMAIN c => e.uids = person[who].uids
  BY <1>1 DEF ++, EntriesInv, People, EntryFields, Guarded
<1>3. script' = script /\ conf' = conf /\ self' = self
  BY DEF SetEntry
<1>4. /\ e.app = person[who].app /\ \A f \in Guarded : e[f] = person[who][f]
      /\ \/ e.uids = person[who].uids
         \/ e.uids # {} /\ ~(script = "super_gluu" /\ OneStep)
  BY <1>2
<1> HIDE DEF e, who
<1>5. QED
  BY <1>1, <1>2, <1>3, <1>4, EntryChanged

\* A device is registered.
LEMMA DeviceRegistered ==
    ASSUME EntriesInv, NEW s \in Session, LoginType(s), script # "otp",
           ~(script = "super_gluu" /\ OneStep), RegisterDevice(s)
    PROVE  /\ EntriesInv' /\ Kept /\ \A t \in Session : NotTaken(t)
           /\ session'[s].who = session[s].who => Registered(s)'
<1>1. EntriesInv' /\ Kept /\ \A t \in Session : NotTaken(t)
  BY EntrySet DEF RegisterDevice
<1>3. session[s].who \in Person /\ person'[session[s].who] = [uids |-> {"device"}]
          ++ person[session[s].who]
  BY DEF RegisterDevice, SetEntry, LoginType, EntriesInv, People
<1>4. QED
  BY <1>1, <1>3 DEF Registered, Entry, ++

\* The parts of LoginInv that are about the script of the run.
LEMMA LoginOfScript ==
    ASSUME Object', NEW s, LoginType(s)', Ends(s)'
    PROVE  /\ OneStepLogin(s)' /\ script' \in {"basic", "basic_lock", "yubicloud"}
                => LoginInv(s)'
           /\ PasswordFirst(s)' /\ DeviceSecond(s)'
                /\ script' \in {"u2f", "fido2", "duo", "uaf"} => LoginInv(s)'
           /\ ThumbSignInLogin(s)' /\ script' = "thumb_sign_in" => LoginInv(s)'
           /\ PasswordFirst(s)' /\ CodeSecond(s)'
                /\ script' \in {"twilio_sms", "smpp"} => LoginInv(s)'
           /\ PasswordFirst(s)' /\ OtpLogin(s)' /\ OtpTyped(s)' /\ script' = "otp"
                => LoginInv(s)'
           /\ PasswordFirst(s)' /\ SuperGluuTwoStep(s)' /\ SuperGluuOnly(s)'
                /\ script' = "super_gluu" => LoginInv(s)'
           /\ CertLogin(s)' /\ script' = "cert" => LoginInv(s)'
           /\ PassportLogin(s)' /\ script' \in {"passport_social", "passport_saml"}
                => LoginInv(s)'
BY DEF LoginInv, OneStepLogin, PasswordFirst, DeviceSecond, ThumbSignInLogin,
       CodeSecond, OtpLogin, OtpTyped, SuperGluuTwoStep, SuperGluuOnly, CertLogin,
       PassportLogin

\* A step of one login that keeps what the others rely on.
StepInv(s) == EntriesInv' /\ Shape' /\ LoginInv(s)' /\ Kept /\ Others(s)
              /\ \A t \in Session \ {s} : NotTaken(t)

-----------------------------------------------------------------------------
\* A reply to the page, of a person who is nobody else.
LEMMA ReplyType ==
    ASSUME NEW s \in Session, LoginType(s), NEW changes, NEW reply \in BOOLEAN,
           Replied(s, changes, reply), session'[s].user \in {None, session[s].who},
           session'[s].fault \in BOOLEAN
    PROVE  LoginType(s)'
BY DEF LoginType, Replied, Same, Stages

\* A page leaves a login of its type.
LEMMA ShownType ==
    ASSUME NEW s \in Session, LoginType(s), NEW names, NEW values,
           Shown(s, names, values)
    PROVE  LoginType(s)'
BY DEF LoginType, Shown, Same, Stages, Fields

\* What a page does not change.
LEMMA ShownSame ==
    ASSUME NEW s \in Session, NEW names, NEW values, Shown(s, names, values)
    PROVE  /\ session'[s].who = session[s].who /\ session'[s].user = session[s].user
           /\ session'[s].step = session[s].step /\ session'[s].tries = session[s].tries
           /\ session'[s].passed = session[s].passed
           /\ session'[s].fault = session[s].fault /\ session'[s].got = session[s].got
           /\ session'[s].reply = session[s].reply
           /\ session'[s].stage = "page" /\ ~Well(s)' /\ ~Badly(s)'
           /\ session'[s].work = values ++ session[s].attrs
BY DEF Shown, Same, Fields, Well, Badly

\* The fields of a fault.
LEMMA FaultFields == DOMAIN Fault = {"fault"} /\ Fault.fault = TRUE
BY DEF Fault

\* ... and of a password that was right.
LEMMA LoggedInFields ==
    ASSUME NEW s
    PROVE  /\ DOMAIN LoggedIn(s) = {"user", "passed"}
           /\ LoggedIn(s).user = session[s].who
           /\ LoggedIn(s).passed = session[s].passed \cup {"password"}
BY DEF LoggedIn, Passing, ++


\* A step that leaves the entries to the others.
Entrusted(s) == EntriesInv' /\ Kept /\ \A t \in Session \ {s} : NotTaken(t)

\* Every reason to refuse a login stays one when only its fields change that
\* are none of the session's.
LEMMA ReasonStays ==
    ASSUME EntriesInv, NEW s, Kept, LoginType(s), session'[s].who = session[s].who,
           session'[s].step = session[s].step,
           Attr(s, "mobile_number")' = Attr(s, "mobile_number"),
           Attr(s, "state")' = Attr(s, "state"),
           session[s].fault => session'[s].fault, Reason(s)
    PROVE  Reason(s)'
<1>1. BrokenByScript(s) => BrokenByScript(s)'
  BY DEF BrokenByScript, Kept, OneStep, Registered, Entry, NoState, LoginType
<1>2. CodeTaken(s) => CodeTaken(s)'
  BY DEF CodeTaken, Kept, Entry, LoginType
<1>3. AccountLocked(s) => AccountLocked(s)'
  <2>1. /\ script' = script /\ Entry(s)'.wrong \in Nat
        /\ Entry(s)'.wrong >= Entry(s).wrong /\ Entry(s).wrong \in Nat
    BY DEF Kept, Entry, LoginType, EntryCounts, EntriesInv
  <2>2. QED
    BY <2>1, MaxInvalidLoginsAssumption DEF AccountLocked
<1>4. QED
  BY <1>1, <1>2, <1>3 DEF Reason


\* Names that the scripts show or keep, and that count no factor.
Told == {"request", "uaf_obb_start_response", "platformAuthenticatorAvailable",
         "cert_x509", "at"}
\* A request or a session that says the same to the scripts.
Like(new, old) ==
    \A n : n \notin Told =>
        /\ n \in DOMAIN new <=> n \in DOMAIN old
        /\ n \in DOMAIN old => new[n] = old[n]

\* A step of a login that passes nothing, and notes nothing but what is told.
Quiet(s) ==
    /\ Same(s, {"who", "user", "step", "passed", "got"})
    /\ session[s].fault => session'[s].fault
    /\ Like(session'[s].attrs, session[s].attrs)
    /\ \/ session'[s].work = <<>> \/ Like(session'[s].work, session[s].attrs)
       \/ script = "fido2"
    /\ session[s].stage \notin {"done", "refused"} /\ ~Well(s) /\ ~Well(s)'
    /\ session'[s].stage \in {"prepare", "page", "answered", "refused"}
          \/ script = "fido2"
    /\ session'[s].stage = "answered" =>
          session[s].stage = "page" \/ script \in {"basic_lock", "fido2", "otp"}
    /\ session'[s].stage = "page" =>
          /\ script = "otp" /\ session[s].step = 2 =>
                Attr(s, "otp_auth_method") # "enroll"
          /\ script \in {"passport_social", "passport_saml"} => session[s].step # 1

\* Such a step keeps the invariant, whatever the script.
LEMMA QuietStep ==
    ASSUME IInv, NEW s \in Session, Quiet(s), Entrusted(s), NotTaken(s),
           LoginType(s)', Ends(s)', Shape', Others(s)
    PROVE  StepInv(s)
<1>1. /\ session'[s].user = session[s].user /\ session'[s].who = session[s].who
      /\ session'[s].step = session[s].step /\ session'[s].passed = session[s].passed
      /\ session'[s].got = session[s].got
      /\ session[s].fault => session'[s].fault
      /\ ~Well(s)' /\ ~Well(s) /\ session[s].stage # "done"
  BY DEF Quiet, Same
<1>2. /\ LoginType(s) /\ script' = script /\ conf' = conf /\ Object' /\ LoginInv(s)
  BY DEF Entrusted, EntriesInv, Kept, IInv, LoginInv
<1>3. ASSUME NEW n, n \notin Told, script # "fido2"
      PROVE  /\ Attr(s, n)' = Attr(s, n)
             /\ OnPage(s, n)' = Attr(s, n) \/ OnPage(s, n)' = None
             /\ n \in DOMAIN session'[s].attrs <=> n \in DOMAIN session[s].attrs
             /\ n \in DOMAIN session'[s].attrs
                   => session'[s].attrs[n] = session[s].attrs[n]
             /\ n \in DOMAIN session'[s].work => session'[s].work[n] = Attr(s, n)
             /\ n \in DOMAIN session'[s].work => n \in DOMAIN session[s].attrs
             /\ n \in DOMAIN session[s].attrs => session[s].attrs[n] = Attr(s, n)
  BY <1>3 DEF Attr, OnPage, Value, Quiet, Like
<1>4. /\ session[s].who \in Person /\ Kept
      /\ OneStep' = OneStep
      /\ Entry(s)'.groups = Entry(s).groups
      /\ Registered(s) => Registered(s)'
      /\ script = "super_gluu" /\ OneStep => Registered(s)' = Registered(s)
  BY <1>1, <1>2 DEF IInv, Entrusted, Kept, LoginType, OneStep, Registered, Entry
<1>5. OneStepLogin(s)'
  BY <1>1, <1>2, <1>4 DEF LoginInv, OneStepLogin, Quiet
<1>6. PasswordFirst(s)'
  BY <1>1, <1>2, <1>4 DEF LoginInv, PasswordFirst
<1>7. DeviceSecond(s)'
  <2>1. "duo_count_login_steps" \notin Told
    BY DEF Told
  <2>2. QED
    BY <1>1, <1>2, <1>3, <1>4, <2>1 DEF LoginInv, DeviceSecond, InDuoGroup
<1>8. ThumbSignInLogin(s)'
  BY <1>1, <1>2, <1>3, <1>4 DEF LoginInv, ThumbSignInLogin, Told
<1>9. CodeSecond(s)'
  <2>1. "code" \notin Told /\ "mobile_number" \notin Told
    BY DEF Told
  <2>2. QED
    BY <1>1, <1>2, <1>3, <1>4, <2>1 DEF LoginInv, CodeSecond
<1>10. OtpLogin(s)'
  <2>1. {"otp_auth_method", "otp_count_login_steps", "otp_secret_key",
         "retry_current_step"} \cap Told = {}
    BY DEF Told
  <2>2. CASE script = "otp"
    <3>1. OtpNotes(s, session[s].attrs)'
      BY <1>1, <1>2, <1>3, <2>1, <2>2 DEF LoginInv, OtpLogin, OtpNotes, Attr
    <3>2. OtpNotes(s, session[s].work)'
      <4>1. CASE session'[s].work = <<>>
        <5>1. DOMAIN session'[s].work = {}
          BY <4>1
        <5>2. QED
          BY <5>1, NoneIsNothing DEF OtpNotes, Value
      <4>2. CASE Like(session'[s].work, session[s].attrs)
        BY <4>2, <1>1, <1>2, <1>3, <2>1, <2>2
           DEF LoginInv, OtpLogin, OtpNotes, Value, Like
      <4>3. QED
        BY <2>2, <4>1, <4>2 DEF Quiet
    <3>3. Enrolling(s)' => Enrolling(s) /\ Attr(s, "otp_auth_method") = "enroll"
      BY <1>3, <2>1, <2>2, NoneIsNothing DEF Enrolling
    <3>4. DOMAIN Entry(s).app \subseteq DOMAIN Entry(s)'.app
      BY <1>1, <1>4, <2>2 DEF Kept, Entry
    <3>6. ~(At(s, "page", 2)' /\ Enrolling(s)')
      BY <1>1, <2>2, <3>3 DEF At, Quiet
    <3>7. OtpLogin(s)
      BY <1>2 DEF LoginInv
    <3>8. session[s].step = 1 =>
             /\ OnPage(s, "retry_current_step")' = None
             /\ \A n \in OtpExtra : n \notin DOMAIN session'[s].attrs
      BY <1>1, <1>3, <2>1, <2>2, <3>7 DEF OtpLogin, OtpExtra, Attr, Value
    <3>9. "otp_auth_method" \in DOMAIN session'[s].work =>
             session'[s].work.otp_auth_method = Attr(s, "otp_auth_method")'
      BY <1>3, <2>1, <2>2
    <3>10. /\ Attr(s, "otp_auth_method")' = Attr(s, "otp_auth_method")
           /\ Attr(s, "otp_secret_key")' = Attr(s, "otp_secret_key")
           /\ "otp_secret_key" \in DOMAIN session'[s].work =>
                 session'[s].work.otp_secret_key = Attr(s, "otp_secret_key")
      BY <1>3, <2>1, <2>2
    <3>11. QED
      BY <1>1, <1>2, <2>2, <3>1, <3>2, <3>3, <3>4, <3>6, <3>7, <3>8, <3>9, <3>10
         DEF OtpLogin
  <2>3. QED
    BY <2>2, <1>2 DEF OtpLogin
<1>16. OtpTyped(s)'
  <2>1. OtpTyped(s)
    BY <1>2 DEF LoginInv
  <2>2. s \in Entry(s)'.taken => s \in Entry(s).taken
    BY <1>1, <1>4 DEF NotTaken, Entry
  <2>3. script = "otp" => session'[s].stage # "working"
    BY DEF Quiet
  <2>4. session[s].stage # "refused"
    BY DEF Quiet
  <2>5. QED
    BY <1>1, <1>2, <2>1, <2>2, <2>3, <2>4 DEF OtpTyped, Ending
<1>11. SuperGluuTwoStep(s)'
  <2>1. {"super_gluu_count_login_steps", "super_gluu_auth_method", "super_gluu_request",
         "retry_current_step", "session_custom_state", "enroll"} \cap Told = {}
    BY DEF Told
  <2>2. SUFFICES ASSUME script = "super_gluu", ~OneStep PROVE SuperGluuTwoStep(s)'
    BY <1>2, <1>4 DEF SuperGluuTwoStep
  <2>3. SuperGluuTwoStep(s) /\ isUserMemberOfGroup(s)' = isUserMemberOfGroup(s)
    BY <1>1, <1>2, <1>4 DEF LoginInv, isUserMemberOfGroup
  <2>4. /\ session'[s].step \in {1, 2}
        /\ \A n \in {"super_gluu_count_login_steps", "super_gluu_auth_method",
                   "super_gluu_request", "retry_current_step",
                   "session_custom_state"} :
              Attr(s, n)' = Attr(s, n) /\ OnPage(s, n)' \in {Attr(s, n), None}
        /\ session[s].step # 1 => Attr(s, "super_gluu_auth_method") \in Methods
    BY <1>1, <1>2, <1>3, <2>1, <2>2, <2>3 DEF SuperGluuTwoStep
  <2>5. \A m \in {session'[s].work, session'[s].attrs} :
           "super_gluu_auth_method" \in DOMAIN m => m.super_gluu_auth_method \in Methods
    BY <1>3, <2>1, <2>2, <2>3 DEF SuperGluuTwoStep
  <2>6. QED
    BY <1>1, <1>2, <1>4, <2>2, <2>3, <2>4, <2>5, NoneIsNothing DEF SuperGluuTwoStep
<1>12. SuperGluuOnly(s)'
  <2>1. {"super_gluu_count_login_steps",
         "retry_current_step", "session_custom_state", "enroll"} \cap Told = {}
    BY DEF Told
  <2>2. QED
    BY <1>1, <1>2, <1>3, <1>4, <2>1, NoneIsNothing DEF LoginInv, SuperGluuOnly
<1>13. CertLogin(s)'
  <2>1. {"cert_count_login_steps", "cert_user_external_uid"} \cap Told = {}
    BY DEF Told
  <2>2. QED
    BY <1>1, <1>2, <1>3, <1>4, <2>1 DEF LoginInv, CertLogin, initRecaptcha
<1>14. PassportLogin(s)'
  <2>1. "selectedProvider" \notin Told
    BY DEF Told
  <2>2. QED
    BY <1>1, <1>2, <1>3, <1>4, <2>1 DEF LoginInv, PassportLogin, At, Quiet
<1>15. QED
  BY <1>2, <1>5, <1>6, <1>7, <1>8, <1>9, <1>10, <1>11, <1>12, <1>13, <1>14, <1>16,
     LoginOfScript, KindOfScript DEF StepInv, Entrusted, IInv, EntriesInv

\* A page is refused, with nothing noted: for a reason, now or before.
LEMMA Refused ==
    ASSUME IInv, NEW s \in Session, session[s].stage \in {"page", "working"},
           NEW c, DOMAIN c \subseteq {"fault"}, Refuse(s, c), Entrusted(s), NotTaken(s),
           "fault" \in DOMAIN c => c.fault = TRUE,
           "fault" \in DOMAIN c \/ Reason(s)
    PROVE  StepInv(s)
<1>1. Replied(s, c, FALSE)
  BY RefuseEffect DEF Changeable, IInv
<1>2. /\ Same(s, {"who", "user", "step", "tries", "passed", "got", "attrs"})
      /\ session'[s].work = session[s].attrs
      /\ session'[s].stage = "answered" /\ session'[s].reply = FALSE
      /\ session'[s].fault \in BOOLEAN /\ (session[s].fault => session'[s].fault)
      /\ "fault" \in DOMAIN c => session'[s].fault
      /\ ~Well(s)' /\ ~Well(s) /\ session[s].stage # "done"
      /\ session[s].stage = "page" \/ script \in {"basic_lock", "fido2", "otp"}
  BY <1>1 DEF Replied, Same, Well, IInv, LoginInv, LoginType, Ends
<1>3. /\ LoginType(s) /\ LoginType(s)'
  BY <1>1, <1>2, ReplyType DEF IInv, LoginInv, LoginType, Same
<1>4. Reason(s)'
  BY <1>2, <1>3, ReasonStays DEF Reason, Attr, Same, Entrusted, IInv
<1>5. Ends(s)'
  BY <1>2, <1>4 DEF Ends
<1>6. Quiet(s)
  BY <1>2 DEF Quiet, Same, Like
<1>7. QED
  BY <1>1, <1>3, <1>5, <1>6, QuietStep DEF Replied

\* There is no page to show: for a reason, now or before.
LEMMA Hidden ==
    ASSUME IInv, NEW s \in Session, session[s].stage \in {"prepare", "working"},
           NEW c, DOMAIN c \subseteq {"fault"}, Hide(s, c), Entrusted(s), NotTaken(s),
           "fault" \in DOMAIN c => c.fault = TRUE,
           "fault" \in DOMAIN c \/ Reason(s),
           session[s].stage = "prepare" \/ script = "fido2"
    PROVE  StepInv(s)
<1>1. /\ Shape' /\ Others(s) /\ Same(s, Fields \ {"stage", "fault"})
      /\ session'[s].stage = "refused"
      /\ session'[s].fault = IF "fault" \in DOMAIN c THEN c.fault ELSE session[s].fault
  BY HideEffect DEF IInv
<1>2. /\ Same(s, {"who", "user", "step", "tries", "passed", "got", "attrs", "work",
            "reply"})
      /\ session'[s].fault \in BOOLEAN /\ (session[s].fault => session'[s].fault)
      /\ "fault" \in DOMAIN c => session'[s].fault
      /\ ~Well(s)' /\ ~Well(s) /\ session[s].stage # "done"
  BY <1>1 DEF Same, Fields, Well, IInv, LoginInv, LoginType
<1>3. /\ LoginType(s) /\ LoginType(s)'
  BY <1>1, <1>2 DEF IInv, LoginInv, LoginType, Same, Stages
<1>4. Reason(s)'
  BY <1>2, <1>3, ReasonStays DEF Reason, Attr, Same, Entrusted, IInv
<1>5. Ends(s)'
  BY <1>1, <1>4 DEF Ends
<1>6. Quiet(s)
  BY <1>1, <1>2 DEF Quiet, Same, Like, IInv, LoginInv, Ends
<1>7. QED
  BY <1>1, <1>3, <1>5, <1>6, QuietStep

\* A page is shown with nothing that counts.
LEMMA Paged ==
    ASSUME IInv, NEW s \in Session, Entrusted(s), NotTaken(s),
           session[s].stage \in {"prepare", "working"},
           NEW names, NEW values, Show(s, names, values), DOMAIN values \subseteq Told,
           script \in {"passport_social", "passport_saml"} => session[s].step # 1,
           script = "otp" /\ session[s].step = 2
               => Attr(s, "otp_auth_method") # "enroll"
    PROVE  StepInv(s)
<1>1. Shown(s, names, values)
  BY ShowEffect DEF IInv
<1>2. LoginType(s)'
  BY <1>1, ShownType DEF IInv, LoginInv
<1>3. Like(session'[s].work, session[s].attrs)
  <2>1. session'[s].work = values ++ session[s].attrs
    BY <1>1 DEF Shown
  <2>2. QED
    BY <2>1 DEF Like, ++
<1>4. Like(session'[s].attrs, session[s].attrs)
  <2>1. session'[s].attrs = Restrict(values, names \cap DOMAIN values)
            ++ session[s].attrs
    BY <1>1 DEF Shown
  <2>2. QED
    BY <2>1 DEF Like, ++, Restrict
<1>5. Quiet(s)
  BY <1>1, <1>3, <1>4, ShownSame DEF Quiet, Same, Well
<1>6. Ends(s)'
  BY <1>1, ShownSame DEF Ends
<1>7. QED
  BY <1>1, <1>2, <1>5, <1>6, QuietStep DEF Shown

\* A login that ends: nothing but its stage changes.
LEMMA Closed ==
    ASSUME IInv, NEW s \in Session, Entrusted(s), NotTaken(s),
           Close(s, "done") \/ Close(s, "refused"),
           Ends(s)',
           session[s].stage = "answered",
           session'[s].stage = "refused" /\ script = "super_gluu" /\ OneStep
              => session[s].user = None
    PROVE  StepInv(s)
<1>1. /\ Shape' /\ Others(s) /\ Same(s, Fields \ {"stage"})
      /\ session'[s].stage \in {"done", "refused"}
  BY CloseEffect DEF IInv
<1>2. /\ session'[s].user = session[s].user /\ session'[s].who = session[s].who
      /\ session'[s].step = session[s].step /\ session'[s].passed = session[s].passed
      /\ session'[s].got = session[s].got /\ session'[s].fault = session[s].fault
      /\ session'[s].work = session[s].work /\ session'[s].attrs = session[s].attrs
      /\ session'[s].reply = session[s].reply /\ session'[s].tries = session[s].tries
      /\ session'[s].stage \notin {"prepare", "page", "working", "answered"}
      /\ ~Well(s)'
  BY <1>1 DEF Same, Fields, Well
<1>3. /\ LoginType(s) /\ script' = script /\ conf' = conf /\ Object' /\ LoginInv(s)
      /\ LoginType(s)'
  BY <1>1, <1>2 DEF Entrusted, EntriesInv, Kept, IInv, LoginInv, LoginType, Stages
<1>4. \A n : Attr(s, n)' = Attr(s, n) /\ OnPage(s, n)' = OnPage(s, n)
  BY <1>2 DEF Attr, OnPage
<1>5. /\ session[s].who \in Person /\ Kept
      /\ OneStep' = OneStep
      /\ Entry(s)'.groups = Entry(s).groups
      /\ Registered(s) => Registered(s)'
      /\ script = "super_gluu" /\ OneStep => Registered(s)' = Registered(s)
  BY <1>2, <1>3 DEF IInv, Entrusted, Kept, LoginType, OneStep, Registered, Entry
<1>6. OneStepLogin(s)' /\ PasswordFirst(s)'
  BY <1>2, <1>3, <1>5 DEF LoginInv, OneStepLogin, PasswordFirst
<1>7. DeviceSecond(s)' /\ ThumbSignInLogin(s)'
  BY <1>2, <1>3, <1>4, <1>5 DEF LoginInv, DeviceSecond, InDuoGroup, ThumbSignInLogin
<1>8. CodeSecond(s)'
  BY <1>2, <1>3, <1>4 DEF LoginInv, CodeSecond
<1>9. OtpLogin(s)'
  <2>1. DOMAIN Entry(s).app \subseteq DOMAIN Entry(s)'.app
    BY <1>2, <1>5 DEF Kept, Entry
  <2>2. /\ OtpNotes(s, session[s].work)' = OtpNotes(s, session[s].work)
        /\ OtpNotes(s, session[s].attrs)' = OtpNotes(s, session[s].attrs)
        /\ Enrolling(s)' = Enrolling(s)
    BY <1>2, <1>4 DEF OtpNotes, Enrolling
  <2>3. QED
    BY <1>2, <1>3, <1>4, <2>1, <2>2 DEF LoginInv, OtpLogin, At
<1>14. OtpTyped(s)'
  BY <1>1, <1>2, <1>3 DEF OtpTyped
<1>10. SuperGluuTwoStep(s)'
  BY <1>2, <1>3, <1>4, <1>5 DEF LoginInv, SuperGluuTwoStep, isUserMemberOfGroup
<1>11. SuperGluuOnly(s)'
  BY <1>1, <1>2, <1>3, <1>4, <1>5 DEF LoginInv, SuperGluuOnly
<1>12. CertLogin(s)' /\ PassportLogin(s)'
  BY <1>2, <1>3, <1>4, <1>5 DEF LoginInv, CertLogin, initRecaptcha, PassportLogin, At
<1>13. QED
  BY <1>1, <1>3, <1>6, <1>7, <1>8, <1>9, <1>10, <1>11, <1>12, <1>14,
     LoginOfScript, KindOfScript DEF StepInv, Entrusted, IInv, EntriesInv

\* The server goes on with a login.  What has to be known of the script: it
\* repeats a step for a reason; it counts no fewer steps than are demanded; and
\* what a login takes to its next step is enough there.
LEMMA Proceeds ==
    ASSUME IInv, NEW s \in Session, NEW work, NEW next, NEW count, NEW extra,
           Forward(s, work, next, count, extra),
           next # 0 /\ session[s].tries + 1 = MaxTries =>
              Reason(s) /\ (script = "super_gluu" /\ OneStep => session[s].user = None),
           next = 0 /\ Well(s) /\ session[s].step >= count => Through(s),
           next # 0 /\ session[s].tries + 1 < MaxTries
              /\ Entrusted(s) /\ NotTaken(s) /\ Gone(s, work, next, extra[next])
                    => StepInv(s),
           next = 0 /\ Well(s) /\ session[s].step < count
              /\ Entrusted(s) /\ NotTaken(s)
              /\ Gone(s, work, session[s].step + 1, extra[session[s].step + 1])
                    => StepInv(s)
    PROVE  StepInv(s)
<1>1. Entrusted(s) /\ NotTaken(s) /\ script' = script
  BY EntriesAlone DEF Forward, Alone, IInv, Entrusted
<1>2. LoginInv(s) /\ LoginType(s) /\ Ends(s) /\ Shape /\ session[s].stage = "answered"
  BY DEF IInv, LoginInv, Forward
<1>3. ASSUME Close(s, "done"), Through(s) PROVE StepInv(s)
  <2>1. session'[s].stage = "done" /\ Same(s, Fields \ {"stage"})
    BY <1>2, <1>3, CloseEffect
  <2>2. Through(s)'
    BY <1>1, <1>2, <1>3, <2>1
       DEF Through, Demanded, InDuoGroup, OneStep, Entry, Same, Fields, Entrusted,
           Kept, LoginType
  <2>3. Ends(s)'
    BY <2>1, <2>2 DEF Ends, Badly
  <2>4. QED
    BY <1>1, <1>2, <1>3, <2>1, <2>3, Closed
<1>4. ASSUME Close(s, "refused"), Reason(s),
             script = "super_gluu" /\ OneStep => session[s].user = None
      PROVE  StepInv(s)
  <2>1. session'[s].stage = "refused" /\ Same(s, Fields \ {"stage"})
    BY <1>2, <1>4, CloseEffect
  <2>2. Reason(s)'
    BY <1>1, <1>2, <1>4, <2>1, ReasonStays DEF Same, Fields, Entrusted, Attr, IInv
  <2>3. Ends(s)'
    BY <2>1, <2>2 DEF Ends
  <2>4. QED
    BY <1>1, <1>2, <1>4, <2>1, <2>3, Closed
<1>5. ASSUME Badly(s)
      PROVE  Reason(s) /\ (script = "super_gluu" /\ OneStep => session[s].user = None)
  BY <1>2, <1>5 DEF Ends, LoginInv, SuperGluuOnly, Badly, Well
<1>6. ASSUME Badly(s), session[s].tries + 1 < MaxTries,
             Become(s, [stage |-> "prepare", work |-> <<>>,
                 tries |-> session[s].tries + 1])
      PROVE  StepInv(s)
  <2>1. /\ Shape' /\ Others(s) /\ Same(s, Fields \ {"stage", "work", "tries"})
        /\ session'[s].stage = "prepare" /\ session'[s].work = <<>>
        /\ session'[s].tries = session[s].tries + 1
    BY <1>2, <1>6, AgainEffect
  <2>2. LoginType(s)'
    BY <1>2, <1>6, <2>1, SessionAssumption DEF LoginType, Same, Fields, Stages
  <2>3. Ends(s)'
    BY <2>1 DEF Ends, Badly
  <2>4. Quiet(s)
    BY <1>6, <2>1 DEF Quiet, Same, Fields, Like, Badly, Well
  <2>5. QED
    BY <1>1, <2>1, <2>2, <2>3, <2>4, QuietStep
<1>7. Well(s) \/ Badly(s)
  BY <1>2 DEF Well, Badly
<1>8. CASE next # 0
  <2>1. CASE GoTo(s, work, next, extra[next]) /\ session[s].tries + 1 < MaxTries
    BY <1>1, <1>2, <1>8, <2>1, GoToEffect
  <2>2. CASE Close(s, "refused") /\ session[s].tries + 1 = MaxTries
    BY <1>4, <1>8, <2>2
  <2>3. QED
    BY <1>8, <2>1, <2>2 DEF Forward
<1>9. CASE next = 0 /\ Well(s)
  <2>1. CASE GoTo(s, work, session[s].step + 1, extra[session[s].step + 1])
             /\ session[s].step < count
    BY <1>1, <1>2, <1>9, <2>1, GoToEffect
  <2>2. CASE Close(s, "done") /\ session[s].step >= count
    BY <1>3, <1>9, <2>2
  <2>3. QED
    BY <1>9, <2>1, <2>2 DEF Forward, Well
<1>10. CASE next = 0 /\ Badly(s)
  <2>1. CASE session[s].tries + 1 < MaxTries
             /\ Become(s, [stage |-> "prepare", work |-> <<>>,
                   tries |-> session[s].tries + 1])
    BY <1>6, <1>10, <2>1
  <2>2. CASE Close(s, "refused")
    BY <1>4, <1>5, <1>10, <2>2
  <2>3. QED
    BY <1>10, <2>1, <2>2 DEF Forward, Badly
<1>11. QED
  BY <1>7, <1>8, <1>9, <1>10

\* A step that changes nothing but sessions leaves the entries.
LEMMA AloneEntries ==
    ASSUME IInv, NEW s \in Session, Alone
    PROVE  Entrusted(s) /\ NotTaken(s)
BY EntriesAlone DEF Entrusted, Alone, IInv

\* What an answer changes, field by field.
LEMMA RepliedSame ==
    ASSUME NEW s \in Session, NEW c, NEW reply \in BOOLEAN, Replied(s, c, reply)
    PROVE  /\ session'[s].who = session[s].who /\ session'[s].step = session[s].step
           /\ session'[s].tries = session[s].tries
           /\ session'[s].stage = "answered" /\ session'[s].reply = reply
           /\ Well(s)' = reply /\ Badly(s)' = ~reply
           /\ session'[s].work = IF "work" \in DOMAIN c THEN c.work
                                 ELSE session[s].attrs
           /\ session'[s].attrs = IF "attrs" \in DOMAIN c THEN c.attrs
                                  ELSE session[s].attrs
           /\ session'[s].user = IF "user" \in DOMAIN c THEN c.user ELSE session[s].user
           /\ session'[s].passed = IF "passed" \in DOMAIN c THEN c.passed
                                   ELSE session[s].passed
           /\ session'[s].got = IF "got" \in DOMAIN c THEN c.got ELSE session[s].got
           /\ session'[s].fault = IF "fault" \in DOMAIN c THEN c.fault
                                  ELSE session[s].fault
BY DEF Replied, Same, Well, Badly

\* What a login takes to another step is of its type, and ends nothing.
LEMMA GoneType ==
    ASSUME NEW s \in Session, LoginType(s), NEW work, NEW names, NEW step \in 1..3,
           Gone(s, work, step, names),
           step > session[s].step \/ session[s].tries + 1 < MaxTries
    PROVE  /\ LoginType(s)' /\ Ends(s)' /\ ~Well(s)' /\ ~Badly(s)'
           /\ session'[s].who = session[s].who /\ session'[s].user = session[s].user
           /\ session'[s].passed = session[s].passed /\ session'[s].got = session[s].got
           /\ session'[s].fault = session[s].fault
           /\ session'[s].stage = "prepare" /\ session'[s].step = step
           /\ session'[s].work = <<>>
           /\ \A n : OnPage(s, n)' = None
<1>1. /\ session'[s].who = session[s].who /\ session'[s].user = session[s].user
      /\ session'[s].passed = session[s].passed /\ session'[s].got = session[s].got
      /\ session'[s].fault = session[s].fault /\ session'[s].reply = session[s].reply
      /\ session'[s].stage = "prepare" /\ session'[s].step = step
      /\ session'[s].work = <<>>
  BY DEF Gone, Same, Fields
<1>2. LoginType(s)'
  BY <1>1, SessionAssumption DEF LoginType, Gone, Stages
<1>3. Ends(s)' /\ ~Well(s)' /\ ~Badly(s)'
  BY <1>1 DEF Ends, Well, Badly
<1>4. \A n : OnPage(s, n)' = None
  BY <1>1, ValueNone DEF OnPage
<1>5. QED
  BY <1>1, <1>2, <1>3, <1>4

-----------------------------------------------------------------------------
\* The scripts of one step.
OneStepScripts == {"basic", "basic_lock", "yubicloud"}

\* Who answers well has passed what is demanded.
LEMMA OneStepAnswer ==
    ASSUME IInv, NEW s \in Session, script \in OneStepScripts, Entrusted(s),
           NEW c, DOMAIN c \subseteq {"user", "passed"}, Answer(s, c),
           (IF "user" \in DOMAIN c THEN c.user ELSE session[s].user) = session[s].who,
           Demanded(s) \subseteq
              IF "passed" \in DOMAIN c THEN c.passed ELSE session[s].passed
    PROVE  StepInv(s)
<1>1. Replied(s, c, TRUE)
  BY AnswerEffect DEF Changeable, IInv
<1>2. LoginType(s) /\ LoginType(s)' /\ script' = script
  <2>1. LoginType(s) /\ "fault" \notin DOMAIN c
    BY DEF IInv, LoginInv
  <2>2. session'[s].user \in {None, session[s].who} /\ session'[s].fault \in BOOLEAN
    BY <1>1, <2>1, RepliedSame DEF LoginType
  <2>3. QED
    BY <1>1, <2>1, <2>2, ReplyType DEF Entrusted, Kept
<1>3. Through(s)'
  BY <1>1, <1>2, RepliedSame DEF Through, Demanded, OneStepScripts
<1>4. Ends(s)' /\ OneStepLogin(s)'
  BY <1>1, <1>3, RepliedSame DEF Ends, OneStepLogin, IInv, LoginInv, OneStepScripts,
     Entrusted, Kept
<1>5. QED
  BY <1>1, <1>2, <1>4, LoginOfScript DEF StepInv, Replied, Entrusted, EntriesInv,
     OneStepScripts

\* authenticate of basic: the password is the whole login.
LEMMA BasicStep ==
    ASSUME IInv, NEW s \in Session, script = "basic", BasicAuthenticate(s)
    PROVE  StepInv(s)
<1>1. Entrusted(s) /\ NotTaken(s) /\ At(s, "page", 1)
  BY AloneEntries DEF BasicAuthenticate
<1>2. CASE Answer(s, LoggedIn(s))
  BY <1>1, <1>2, LoggedInFields, OneStepAnswer DEF OneStepScripts, Demanded
<1>3. CASE Refuse(s, Fault)
  BY <1>1, <1>3, FaultFields, Refused DEF At
<1>4. QED
  BY <1>2, <1>3 DEF BasicAuthenticate

\* authenticate of yubicloud: the code of the key is.
LEMMA YubicloudStep ==
    ASSUME IInv, NEW s \in Session, script = "yubicloud", YubicloudAuthenticate(s)
    PROVE  StepInv(s)
<1>1. Entrusted(s) /\ NotTaken(s) /\ At(s, "page", 1)
  BY AloneEntries DEF YubicloudAuthenticate
<1> DEFINE c == [user |-> session[s].who] ++ Passing(s, "device")
<1>2. CASE Answer(s, c)
  <2>1. /\ DOMAIN c = {"user", "passed"} /\ c.user = session[s].who
        /\ c.passed = session[s].passed \cup {"device"}
    BY DEF ++, Passing
  <2> HIDE DEF c
  <2>2. QED
    BY <1>1, <1>2, <2>1, OneStepAnswer DEF OneStepScripts, Demanded
<1>3. CASE Refuse(s, Fault)
  BY <1>1, <1>3, FaultFields, Refused DEF At
<1>4. QED
  BY <1>2, <1>3 DEF YubicloudAuthenticate

\* The first page of any script.
LEMMA FirstPage ==
    ASSUME IInv, NEW s \in Session, NEW names, PlainFirstPage(s, names), Alone,
           script \notin {"passport_social", "passport_saml"}
    PROVE  StepInv(s)
<1>1. Entrusted(s) /\ NotTaken(s) /\ At(s, "prepare", 1)
  BY AloneEntries DEF PlainFirstPage
<1>2. DOMAIN <<>> \subseteq Told
  OBVIOUS
<1>3. QED
  BY <1>1, <1>2, Paged DEF PlainFirstPage, At

\* The server ends a login of one step, or shows its page again.
LEMMA OneStepProceeds ==
    ASSUME IInv, NEW s \in Session, script \in OneStepScripts, Proceed(s)
    PROVE  StepInv(s)
<1> DEFINE work == session[s].work
           extra == [step \in Nat |-> getExtraParametersForStep(step)]
<1>1. Forward(s, Repeated(work), 0, 1, extra)
  BY DEF Proceed, getNextStep, getCountAuthenticationSteps, OneStepScripts
<1>2. Well(s) => Through(s) /\ session[s].step = 1
  BY DEF IInv, LoginInv, OneStepLogin, OneStepScripts
<1> HIDE DEF extra
<1>3. QED
  BY <1>1, <1>2, Proceeds

-----------------------------------------------------------------------------
\* basic_lock.  What it may leave in an entry.
Locking(p, e) ==
    /\ DOMAIN e = EntryFields
    /\ \A f \in EntryFields \ {"status", "failures", "lock", "wrong"} :
          e[f] = person[p][f]
    /\ e.failures \in 0..MaxInvalidLogins
    /\ e.status \in {"active", "inactive", None}
    /\ e.lock \in {"none", "locked", "old", "unlocked"}
    /\ e.wrong \in Nat /\ person[p].wrong \in Nat /\ e.wrong >= person[p].wrong
    /\ e.failures <= e.wrong
    /\ e.status = "inactive" => e.wrong >= MaxInvalidLogins

\* An entry changes as the script that locks it may change it.
LEMMA EntryLocked ==
    ASSUME EntriesInv, UNCHANGED <<script, conf, self>>, script = "basic_lock",
           NEW p \in Person, NEW e, person' = [person EXCEPT ![p] = e], Locking(p, e)
    PROVE  EntriesInv' /\ Kept /\ \A t \in Session : NotTaken(t)
<1>1. /\ \A q \in Person \ {p} : person'[q] = person[q]
      /\ person'[p] = e /\ DOMAIN person' = Person
  BY DEF EntriesInv, People
<1>2. Object' /\ People'
  BY <1>1 DEF EntriesInv, Object, People, Locking
<1>3. ASSUME NEW q \in Person PROVE EntryType(q)' /\ EntryCounts(q)' /\ OtpKeys(q)'
  BY <1>1 DEF EntriesInv, EntryType, EntryCounts, OtpKeys, Locking, EntryFields
<1>4. Kept
  BY <1>1 DEF Kept, EntriesInv, EntryCounts, Locking, EntryFields
<1>5. QED
  BY <1>1, <1>2, <1>3, <1>4 DEF EntriesInv, NotTaken, Locking, EntryFields

\* An entry is one that may be left.
LEMMA EntryLocking ==
    ASSUME EntriesInv, NEW p \in Person
    PROVE  Locking(p, person[p])
BY MaxInvalidLoginsAssumption DEF EntriesInv, People, EntryType, EntryCounts, Locking

\* ... and stays one with any of the changes of lockUser, of unLockUser and of
\* the count.
LEMMA LockingChanges ==
    ASSUME NEW p \in Person, NEW e, Locking(p, e)
    PROVE  /\ \A n \in 0..MaxInvalidLogins :
                 n <= e.wrong => Locking(p, [failures |-> n] ++ e)
           /\ Locking(p, unLockUser(e)) /\ unLockUser(e).wrong = e.wrong
           /\ e.wrong >= MaxInvalidLogins => Locking(p, lockUser(e))
           /\ Locking(p, [wrong |-> e.wrong + 1] ++ e)
<1>1. ASSUME NEW n \in 0..MaxInvalidLogins, n <= e.wrong
      PROVE  Locking(p, [failures |-> n] ++ e)
  BY <1>1 DEF Locking, ++, EntryFields
<1>2. Locking(p, unLockUser(e)) /\ unLockUser(e).wrong = e.wrong
  BY MaxInvalidLoginsAssumption DEF Locking, ++, EntryFields, unLockUser
<1>3. e.wrong >= MaxInvalidLogins => Locking(p, lockUser(e))
  BY DEF Locking, ++, EntryFields, lockUser
<1>4. Locking(p, [wrong |-> e.wrong + 1] ++ e)
  <2> DEFINE f == [wrong |-> e.wrong + 1] ++ e
  <2>1. /\ DOMAIN f = EntryFields /\ f.wrong = e.wrong + 1
        /\ \A x \in EntryFields \ {"wrong"} : f[x] = e[x]
    BY DEF Locking, ++, EntryFields
  <2> HIDE DEF f
  <2>2. /\ f.failures = e.failures /\ f.status = e.status /\ f.lock = e.lock
        /\ \A x \in EntryFields \ {"status", "failures", "lock", "wrong"} :
              f[x] = person[p][x]
    BY <2>1 DEF Locking, EntryFields
  <2>3. f.wrong \in Nat /\ f.wrong >= person[p].wrong /\ f.wrong >= e.wrong
    BY <2>1 DEF Locking
  <2>4. f.failures <= f.wrong /\ (f.status = "inactive" => f.wrong >= MaxInvalidLogins)
    BY <2>2, <2>3, MaxInvalidLoginsAssumption DEF Locking
  <2>5. Locking(p, f)
    BY <2>1, <2>2, <2>3, <2>4 DEF Locking
  <2>6. QED
    BY <2>5 DEF f
<1>5. QED
  BY <1>1, <1>2, <1>3, <1>4

\* What SetEntry leaves is what it is given over the entry.
LEMMA LockSet ==
    ASSUME IInv, NEW s \in Session, script = "basic_lock", NEW c, SetEntry(s, c),
           Locking(session[s].who, c ++ Entry(s))
    PROVE  /\ Entrusted(s) /\ NotTaken(s) /\ UNCHANGED <<script, conf, self>>
           /\ person'[session[s].who] = c ++ Entry(s)
<1> DEFINE e == c ++ Entry(s)
<1>1. session[s].who \in Person /\ DOMAIN person = Person
  BY DEF IInv, LoginInv, LoginType, EntriesInv, People
<1>2. person' = [person EXCEPT ![session[s].who] = e]
          /\ UNCHANGED <<script, conf, self>>
  BY DEF SetEntry, Entry
<1> HIDE DEF e
<1>3. Locking(session[s].who, e)
  BY DEF e
<1>4. Entrusted(s) /\ NotTaken(s)
  BY <1>1, <1>2, <1>3, EntryLocked DEF Entrusted, IInv
<1>5. QED
  BY <1>1, <1>2, <1>4 DEF e

\* authenticate of basic_lock: the password is right.
LEMMA LockAccepted ==
    ASSUME IInv, NEW s \in Session, script = "basic_lock", At(s, "page", 1), Alone,
           Become(s, [stage |-> "working"] ++ LoggedIn(s)
                        ++ Setting(s, [accepted |-> TRUE]))
    PROVE  StepInv(s)
<1> DEFINE noted == [accepted |-> TRUE]
           c == [stage |-> "working"] ++ LoggedIn(s) ++ Setting(s, noted)
<1>1. Entrusted(s) /\ NotTaken(s) /\ script' = script
  BY AloneEntries DEF Alone
<1>2. LoginType(s) /\ Shape /\ session[s].who \in Person
  BY DEF IInv, LoginInv, LoginType
<1>3. /\ DOMAIN c = {"stage", "user", "passed", "work"} /\ DOMAIN c \subseteq Fields
      /\ c.stage = "working" /\ c.work = noted ++ session[s].attrs
      /\ c.user = session[s].who
      /\ c.passed = session[s].passed \cup {"password"}
  BY LoggedInFields DEF ++, Setting, Fields
<1>4. (noted ++ session[s].attrs).accepted = TRUE
  BY DEF ++
<1>5. Become(s, c)
  OBVIOUS
<1> HIDE DEF c, noted
<1>6. /\ Shape' /\ Others(s) /\ Same(s, Fields \ DOMAIN c)
      /\ session'[s].stage = "working" /\ session'[s].user = session[s].who
      /\ session'[s].passed = session[s].passed \cup {"password"}
      /\ session'[s].work = noted ++ session[s].attrs
  BY <1>2, <1>3, <1>5, BecomeEffect
<1>7. session'[s].who = session[s].who /\ session'[s].step = 1
  BY <1>3, <1>6 DEF Same, Fields, At
<1>8. LoginType(s)'
  BY <1>2, <1>3, <1>6 DEF LoginType, Same, Fields, Stages
<1>9. Ends(s)'
  BY <1>1, <1>6 DEF Ends, Badly
<1>10. Through(s)'
  BY <1>1, <1>6, <1>7 DEF Through, Demanded
<1>11. OneStepLogin(s)'
  BY <1>4, <1>6, <1>7, <1>10 DEF OneStepLogin, Well
<1>12. QED
  BY <1>1, <1>6, <1>8, <1>9, <1>11, LoginOfScript DEF StepInv, Entrusted, EntriesInv

\* ... or wrong, or right for an entry that is locked.
LEMMA LockCounting ==
    ASSUME IInv, NEW s \in Session, script = "basic_lock", At(s, "page", 1),
           NEW right \in BOOLEAN, ~PasswordAccepted(s, right),
           Become(s, [stage |-> "working"] ++ (IF right THEN <<>> ELSE Fault)
                ++ Setting(s, [accepted |-> FALSE, right |-> right,
                               status |-> Entry(s).status,
                               failures |-> Entry(s).failures])),
           SetEntry(s, IF right THEN <<>> ELSE [wrong |-> Entry(s).wrong + 1])
    PROVE  StepInv(s)
<1> DEFINE who == session[s].who
           e == Entry(s)
           noted == [accepted |-> FALSE, right |-> right, status |-> e.status,
                     failures |-> e.failures]
           c == [stage |-> "working"] ++ (IF right THEN <<>> ELSE Fault)
                   ++ Setting(s, noted)
           d == IF right THEN <<>> ELSE [wrong |-> e.wrong + 1]
<1>1. who \in Person /\ LoginType(s) /\ LoginInv(s) /\ Shape /\ EntryCounts(who)
  BY DEF IInv, LoginInv, LoginType, EntriesInv
<1>2. Locking(who, e)
  BY <1>1, EntryLocking DEF IInv, Entry
<1>3. right => e.wrong >= MaxInvalidLogins
  BY <1>1 DEF PasswordAccepted, EntryCounts, Entry
<1>4. Locking(who, d ++ e)
      /\ (d ++ e).wrong = IF right THEN e.wrong ELSE e.wrong + 1
  <2>1. CASE right
    <3>1. /\ DOMAIN (d ++ e) = EntryFields
          /\ \A f \in EntryFields : (d ++ e)[f] = e[f]
      BY <1>2, <2>1 DEF Locking, ++
    <3>2. QED
      BY <1>2, <2>1, <3>1 DEF Locking, EntryFields
  <2>2. CASE ~right
    <3>1. (d ++ e).wrong = e.wrong + 1
      BY <2>2 DEF ++
    <3>2. QED
      BY <1>1, <1>2, <2>2, <3>1, LockingChanges
  <2>3. QED
    BY <2>1, <2>2
<1>5. /\ Entrusted(s) /\ NotTaken(s) /\ script' = script /\ person'[who] = d ++ e
  BY <1>4, LockSet
<1>6. /\ DOMAIN c = {"stage", "work"} \cup (IF right THEN {} ELSE {"fault"})
      /\ DOMAIN c \subseteq Fields
      /\ c.stage = "working" /\ c.work = noted ++ session[s].attrs
      /\ ~right => c.fault = TRUE
  <2>1. CASE right
    <3>1. (IF right THEN <<>> ELSE Fault) = <<>> /\ DOMAIN <<>> = {}
      BY <2>1
    <3> DEFINE z == Setting(s, noted)
    <3>2. DOMAIN z = {"work"} /\ z.work = noted ++ session[s].attrs
      BY DEF Setting
    <3> HIDE DEF z, noted
    <3>3. c = [stage |-> "working"] ++ <<>> ++ z
      BY <3>1 DEF z
    <3>4. QED
      BY <2>1, <3>1, <3>2, <3>3 DEF ++, Fields
  <2>2. CASE ~right
    BY <2>2 DEF ++, Fault, Setting, Fields
  <2>3. QED
    BY <2>1, <2>2
<1>7. /\ (noted ++ session[s].attrs).failures = e.failures
      /\ (noted ++ session[s].attrs).accepted = FALSE
  BY DEF ++
<1>8. Become(s, c)
  OBVIOUS
<1> HIDE DEF c, noted, d
<1>9. /\ Shape' /\ Others(s) /\ Same(s, Fields \ DOMAIN c)
      /\ session'[s].stage = "working" /\ (~right => session'[s].fault = TRUE)
      /\ session'[s].work = noted ++ session[s].attrs
  BY <1>1, <1>6, <1>8, BecomeEffect
<1>10. session'[s].who = who /\ session'[s].step = 1 /\ session'[s].fault \in BOOLEAN
  BY <1>1, <1>6, <1>9 DEF Same, Fields, At, LoginType
<1>11. LoginType(s)'
  BY <1>1, <1>6, <1>9, <1>10 DEF LoginType, Same, Fields, Stages
<1>12. Ends(s)'
  BY <1>5, <1>9 DEF Ends, Badly
<1>13. /\ Entry(s)'.wrong = IF right THEN e.wrong ELSE e.wrong + 1
       /\ session'[s].work.failures = e.failures /\ session'[s].work.accepted = FALSE
  BY <1>4, <1>5, <1>7, <1>9, <1>10 DEF Entry
<1>14. e.failures \in 0..MaxInvalidLogins /\ e.failures <= e.wrong /\ e.wrong \in Nat
  BY <1>2 DEF Locking
<1>15. Counting(s)'
  BY <1>3, <1>9, <1>13, <1>14, MaxInvalidLoginsAssumption DEF Counting
<1>16. OneStepLogin(s)'
  BY <1>9, <1>10, <1>13, <1>15 DEF OneStepLogin, Well
<1>17. QED
  BY <1>5, <1>9, <1>11, <1>12, <1>16, LoginOfScript DEF StepInv, Entrusted, EntriesInv

\* authenticate of basic_lock, up to what it writes.
LEMMA LockStep ==
    ASSUME IInv, NEW s \in Session, script = "basic_lock", LockAuthenticate(s)
    PROVE  StepInv(s)
BY LockAccepted, LockCounting DEF LockAuthenticate

\* The count is reset after a right password.
LEMMA ResetStep ==
    ASSUME IInv, NEW s \in Session, script = "basic_lock", ResetInvalidLogins(s)
    PROVE  StepInv(s)
<1> DEFINE who == session[s].who
           d == [failures |-> 0]
<1>1. At(s, "working", 1) /\ who \in Person /\ Through(s)
  BY DEF ResetInvalidLogins, IInv, LoginInv, LoginType, OneStepLogin, At
<1>2. Locking(who, Entry(s)) /\ 0 \in 0..MaxInvalidLogins /\ 0 <= Entry(s).wrong
  BY <1>1, EntryLocking, MaxInvalidLoginsAssumption DEF IInv, Entry, Locking
<1>3. Locking(who, d ++ Entry(s))
  BY <1>1, <1>2, LockingChanges
<1>4. Answer(s, <<>>) /\ SetEntry(s, d)
  BY DEF ResetInvalidLogins
<1> HIDE DEF d
<1>5. Entrusted(s)
  BY <1>3, <1>4, LockSet
<1>6. DOMAIN <<>> = {}
  OBVIOUS
<1>7. session[s].user = who /\ Demanded(s) \subseteq session[s].passed
  BY <1>1 DEF Through
<1>8. QED
  BY <1>4, <1>5, <1>6, <1>7, OneStepAnswer DEF OneStepScripts

\* Any other password is counted, whatever has been written in between.
LEMMA CountStep ==
    ASSUME IInv, NEW s \in Session, script = "basic_lock", CountInvalidLogin(s)
    PROVE  StepInv(s)
<1> DEFINE who == session[s].who
           read == session[s].work.failures
           counted == IF read < MaxInvalidLogins
                      THEN [failures |-> Counted(read)] ++ Entry(s) ELSE Entry(s)
           unlocked == unLockUser(counted)
           failed == [failures |-> 1] ++ unlocked
           full == LimitReached(Counted(read))
<1>1. /\ At(s, "working", 1) /\ who \in Person /\ Counting(s)
      /\ read \in 0..MaxInvalidLogins
      /\ read + 1 <= Entry(s).wrong \/ Entry(s).wrong >= MaxInvalidLogins
  BY DEF CountInvalidLogin, IInv, LoginInv, LoginType, OneStepLogin, At, Counting
<1>2. Locking(who, Entry(s)) /\ Entry(s).wrong \in Nat
  BY <1>1, EntryLocking DEF IInv, Entry, Locking
<1>3. Locking(who, counted) /\ counted.wrong = Entry(s).wrong
  <2>1. CASE read < MaxInvalidLogins
    <3>1. Counted(read) \in 0..MaxInvalidLogins /\ Counted(read) <= Entry(s).wrong
      BY <1>1, <1>2, <2>1, MaxInvalidLoginsAssumption DEF Counted
    <3>2. ([failures |-> Counted(read)] ++ Entry(s)).wrong = Entry(s).wrong
      BY <1>2 DEF ++, Locking, EntryFields
    <3>3. QED
      BY <1>1, <1>2, <2>1, <3>1, <3>2, LockingChanges
  <2>2. QED
    BY <1>2, <2>1
<1>4. full => counted.wrong >= MaxInvalidLogins
  BY <1>1, <1>2, <1>3, MaxInvalidLoginsAssumption DEF LimitReached, Counted
<1> HIDE DEF counted
<1>5. Locking(who, unlocked) /\ unlocked.wrong = counted.wrong
  BY <1>1, <1>3, LockingChanges
<1>6. 1 \in 0..MaxInvalidLogins /\ 1 <= unlocked.wrong
  BY <1>1, <1>2, <1>3, <1>5, MaxInvalidLoginsAssumption
<1> HIDE DEF unlocked
<1>7. Locking(who, failed) /\ failed.wrong = unlocked.wrong
  <2>1. Locking(who, failed)
    BY <1>1, <1>5, <1>6, LockingChanges
  <2>2. failed.wrong = unlocked.wrong
    BY <1>5 DEF ++, Locking, EntryFields
  <2>3. QED
    BY <2>1, <2>2
<1> HIDE DEF failed
<1>8. ASSUME NEW e, Locking(who, e), SetEntry(s, e) PROVE Entrusted(s) /\ NotTaken(s)
  <2>1. Locking(who, e ++ Entry(s))
    <3>1. /\ DOMAIN (e ++ Entry(s)) = EntryFields
          /\ \A f \in EntryFields : (e ++ Entry(s))[f] = e[f]
      BY <1>2, <1>8 DEF Locking, ++
    <3>2. QED
      BY <1>8, <3>1 DEF Locking, EntryFields
  <2>2. QED
    BY <1>8, <2>1, LockSet
<1>9. ASSUME NEW e, Locking(who, e), SetEntry(s, e), Refuse(s, <<>>) PROVE StepInv(s)
  <2>1. DOMAIN <<>> \subseteq {"fault"} /\ "fault" \notin DOMAIN <<>>
    OBVIOUS
  <2>2. Reason(s) /\ session[s].stage = "working"
    BY <1>1 DEF At, Reason, Counting, AccountLocked
  <2>3. QED
    BY <1>8, <1>9, <2>1, <2>2, Refused
<1>10. ASSUME Answer(s, LoggedIn(s)), SetEntry(s, unlocked) PROVE StepInv(s)
  BY <1>5, <1>8, <1>10, LoggedInFields, OneStepAnswer DEF OneStepScripts, Demanded
<1>11. full => Locking(who, lockUser(counted))
  BY <1>1, <1>3, <1>4, LockingChanges
<1>12. full /\ MaxInvalidLogins = 1 => Locking(who, lockUser(failed))
  BY <1>1, <1>4, <1>5, <1>7, LockingChanges
<1>13. CASE full /\ Refuse(s, <<>>) /\ SetEntry(s, lockUser(counted))
  BY <1>9, <1>11, <1>13
<1>14. CASE Answer(s, LoggedIn(s)) /\ SetEntry(s, unlocked)
  BY <1>10, <1>14
<1>15. CASE full /\ Refuse(s, <<>>)
            /\ SetEntry(s, IF MaxInvalidLogins = 1 THEN lockUser(failed) ELSE failed)
  BY <1>7, <1>9, <1>12, <1>15
<1>16. CASE Refuse(s, <<>>) /\ SetEntry(s, counted)
  BY <1>3, <1>9, <1>16
<1>17. QED
  BY <1>13, <1>14, <1>15, <1>16 DEF CountInvalidLogin, counted, unlocked, failed

\* The rest of basic_lock, and of the scripts of one step.
LEMMA OneStepStep ==
    ASSUME IInv, NEW s \in Session, script \in OneStepScripts, Step(s)
    PROVE  StepInv(s)
<1>1. CASE PlainFirstPage(s, {}) /\ Alone
  BY <1>1, FirstPage DEF OneStepScripts
<1>2. CASE script = "basic" /\ BasicAuthenticate(s)
  BY <1>2, BasicStep
<1>3. CASE /\ script = "basic_lock"
           /\ LockAuthenticate(s) \/ ResetInvalidLogins(s) \/ CountInvalidLogin(s)
  BY <1>3, LockStep, ResetStep, CountStep
<1>4. CASE script = "yubicloud" /\ YubicloudAuthenticate(s)
  BY <1>4, YubicloudStep
<1>5. CASE Proceed(s)
  BY <1>5, OneStepProceeds
<1>6. prepareForStep(s) => PlainFirstPage(s, {}) /\ Alone
  BY DEF prepareForStep, OneStepScripts, PlainFirstPage
<1>7. authenticate(s) => \/ script = "basic" /\ BasicAuthenticate(s)
                         \/ script = "basic_lock" /\ LockAuthenticate(s)
                         \/ script = "yubicloud" /\ YubicloudAuthenticate(s)
  BY DEF authenticate, OneStepScripts
<1>8. goOn(s) => /\ script = "basic_lock"
                 /\ ResetInvalidLogins(s) \/ CountInvalidLogin(s)
  BY DEF goOn, OneStepScripts
<1>9. QED
  BY <1>1, <1>2, <1>3, <1>4, <1>5, <1>6, <1>7, <1>8 DEF Step

-----------------------------------------------------------------------------
\* u2f, fido2, duo and uaf.
DeviceScriptNames == {"u2f", "fido2", "duo", "uaf"}

\* The group decides on the number of steps, as long as it lasts.
DuoNotes(s, m) ==
    script = "duo" /\ "duo_count_login_steps" \in DOMAIN m =>
        /\ "duo_group" \in conf
        /\ m.duo_count_login_steps = IF InDuoGroup(s) THEN 2 ELSE 1

\* What is asked of an answer at step 1 and at step 2.
LEMMA DeviceAnswer ==
    ASSUME IInv, NEW s \in Session, script \in DeviceScriptNames, Entrusted(s),
           session[s].stage = "page", NEW c, Answer(s, c),
           DOMAIN c \subseteq {"user", "passed", "work"}, "passed" \in DOMAIN c,
           session[s].passed \subseteq c.passed,
           "user" \in DOMAIN c => c.user = session[s].who,
           session[s].step = 1 => "user" \in DOMAIN c /\ "password" \in c.passed,
           session[s].step # 1 => script # "uaf" /\ "device" \in c.passed,
           "work" \in DOMAIN c => DuoNotes(s, c.work)
    PROVE  StepInv(s)
<1>1. Replied(s, c, TRUE)
  BY AnswerEffect DEF Changeable, IInv
<1>2. /\ session'[s].who = session[s].who /\ session'[s].step = session[s].step
      /\ session'[s].stage = "answered" /\ session'[s].reply
      /\ session'[s].passed = c.passed /\ session'[s].attrs = session[s].attrs
      /\ session'[s].work = IF "work" \in DOMAIN c THEN c.work ELSE session[s].attrs
      /\ session'[s].user \in {session[s].user, session[s].who}
      /\ session[s].step = 1 => session'[s].user = session[s].who
      /\ session'[s].fault = session[s].fault
      /\ ~Badly(s)'
  <2>1. "attrs" \notin DOMAIN c /\ "fault" \notin DOMAIN c
    OBVIOUS
  <2>2. QED
    BY <1>1, <2>1, RepliedSame
<1>3. /\ LoginInv(s) /\ LoginType(s) /\ LoginType(s)' /\ script' = script
      /\ conf' = conf
      /\ session[s].who \in Person
  BY <1>1, <1>2, ReplyType DEF IInv, LoginInv, LoginType, Entrusted, Kept
<1>4. Ends(s)'
  BY <1>2 DEF Ends
<1>5. PasswordFirst(s)'
  BY <1>2, <1>3 DEF LoginInv, PasswordFirst, DeviceScriptNames
<1>6. InDuoGroup(s)' = InDuoGroup(s)
  BY <1>2, <1>3 DEF InDuoGroup, Entry, Entrusted, Kept
<1>7. DeviceSecond(s)'
  BY <1>2, <1>3, <1>6 DEF LoginInv, DeviceSecond, DuoNotes, Well, DeviceScriptNames
<1>8. QED
  BY <1>1, <1>3, <1>4, <1>5, <1>7, LoginOfScript
     DEF StepInv, Replied, Entrusted, EntriesInv, DeviceScriptNames

\* A refusal that notes something of the browser.
LEMMA DeviceRefused ==
    ASSUME IInv, NEW s \in Session, script = "fido2", Entrusted(s),
           session[s].stage = "page", NEW c, Refuse(s, c),
           DOMAIN c = {"fault", "work"}, c.fault = TRUE
    PROVE  StepInv(s)
<1>1. Replied(s, c, FALSE)
  BY RefuseEffect DEF Changeable, IInv
<1>2. /\ session'[s].who = session[s].who /\ session'[s].step = session[s].step
      /\ session'[s].passed = session[s].passed /\ session'[s].user = session[s].user
      /\ session'[s].fault = TRUE /\ ~Well(s)' /\ session'[s].stage = "answered"
  BY <1>1, RepliedSame
<1>3. LoginType(s)' /\ LoginInv(s) /\ script' = script
  BY <1>1, <1>2, ReplyType DEF IInv, LoginInv, LoginType, Entrusted, Kept
<1>4. Ends(s)' /\ PasswordFirst(s)' /\ DeviceSecond(s)'
  BY <1>2, <1>3 DEF Ends, Reason, LoginInv, PasswordFirst, DeviceSecond
<1>5. QED
  BY <1>1, <1>3, <1>4, LoginOfScript DEF StepInv, Replied, Entrusted, EntriesInv

\* authenticate of u2f, step 1.
LEMMA U2fPassword ==
    ASSUME IInv, NEW s \in Session, script = "u2f", BasicAuthenticate(s)
    PROVE  StepInv(s)
<1>1. Entrusted(s) /\ NotTaken(s) /\ At(s, "page", 1)
  BY AloneEntries DEF BasicAuthenticate
<1>2. CASE Answer(s, LoggedIn(s))
  BY <1>1, <1>2, LoggedInFields, DeviceAnswer DEF DeviceScriptNames, At
<1>3. CASE Refuse(s, Fault)
  BY <1>1, <1>3, FaultFields, Refused DEF At
<1>4. QED
  BY <1>2, <1>3 DEF BasicAuthenticate

\* The logged-in person, and what is noted.
LEMMA LoggedInSetting ==
    ASSUME NEW s, NEW values
    PROVE  LET c == LoggedIn(s) ++ Setting(s, values)
           IN  /\ DOMAIN c = {"user", "passed", "work"}
               /\ c.user = session[s].who
               /\ c.passed = session[s].passed \cup {"password"}
               /\ c.work = values ++ session[s].attrs
BY LoggedInFields DEF Setting, ++

\* ... and of a fault with values for the next request.
LEMMA FaultSetting ==
    ASSUME NEW s, NEW values
    PROVE  LET c == Fault ++ Setting(s, values)
           IN  /\ DOMAIN c = {"fault", "work"} /\ c.fault = TRUE
               /\ c.work = values ++ session[s].attrs
BY DEF Fault, Setting, ++

\* authenticate of fido2, step 1.
LEMMA Fido2PasswordStep ==
    ASSUME IInv, NEW s \in Session, script = "fido2", Fido2Password(s)
    PROVE  StepInv(s)
<1>1. Entrusted(s) /\ At(s, "page", 1)
  BY AloneEntries DEF Fido2Password
<1>2. ASSUME NEW values, Answer(s, LoggedIn(s) ++ Setting(s, values)) PROVE StepInv(s)
  <2> DEFINE c == LoggedIn(s) ++ Setting(s, values)
  <2>1. /\ DOMAIN c = {"user", "passed", "work"} /\ c.user = session[s].who
        /\ c.passed = session[s].passed \cup {"password"}
    BY LoggedInSetting
  <2>2. Answer(s, c)
    BY <1>2
  <2> HIDE DEF c
  <2>3. QED
    BY <1>1, <2>1, <2>2, DeviceAnswer DEF DeviceScriptNames, DuoNotes, At
<1>3. ASSUME NEW values, Refuse(s, Fault ++ Setting(s, values)) PROVE StepInv(s)
  BY <1>1, <1>3, FaultSetting, DeviceRefused DEF At
<1>4. QED
  BY <1>2, <1>3 DEF Fido2Password

\* authenticate of duo, step 1: who is not in the group has no second step.
LEMMA DuoPasswordStep ==
    ASSUME IInv, NEW s \in Session, script = "duo", DuoPassword(s)
    PROVE  StepInv(s)
<1> DEFINE counted == IF "duo_group" \in conf
                      THEN [duo_count_login_steps |-> IF InDuoGroup(s) THEN 2 ELSE 1]
                      ELSE <<>>
           c == LoggedIn(s) ++ Setting(s, counted)
<1>1. Entrusted(s) /\ NotTaken(s) /\ At(s, "page", 1)
  BY AloneEntries DEF DuoPassword
<1>2. CASE Answer(s, c)
  <2>1. /\ DOMAIN c = {"user", "passed", "work"} /\ c.user = session[s].who
        /\ c.passed = session[s].passed \cup {"password"}
        /\ c.work = counted ++ session[s].attrs
    BY LoggedInSetting
  <2>2. DuoNotes(s, session[s].attrs)
    BY DEF IInv, LoginInv, DeviceSecond, DuoNotes
  <2>3. DuoNotes(s, counted ++ session[s].attrs)
    BY <2>2 DEF DuoNotes, ++
  <2> HIDE DEF c, counted
  <2>4. QED
    BY <1>1, <1>2, <2>1, <2>3, DeviceAnswer DEF DeviceScriptNames, At
<1>3. CASE Refuse(s, Fault)
  BY <1>1, <1>3, FaultFields, Refused DEF At
<1>4. QED
  BY <1>2, <1>3 DEF DuoPassword

\* authenticate of uaf, step 1.
LEMMA UafPasswordStep ==
    ASSUME IInv, NEW s \in Session, script = "uaf", UafPassword(s)
    PROVE  StepInv(s)
<1>1. Entrusted(s) /\ NotTaken(s) /\ At(s, "page", 1)
  BY AloneEntries DEF UafPassword
<1>2. ASSUME NEW values, Answer(s, LoggedIn(s) ++ Setting(s, values)) PROVE StepInv(s)
  <2> DEFINE c == LoggedIn(s) ++ Setting(s, values)
  <2>1. /\ DOMAIN c = {"user", "passed", "work"} /\ c.user = session[s].who
        /\ c.passed = session[s].passed \cup {"password"}
    BY LoggedInSetting
  <2>2. Answer(s, c)
    BY <1>2
  <2> HIDE DEF c
  <2>3. QED
    BY <1>1, <2>1, <2>2, DeviceAnswer DEF DeviceScriptNames, DuoNotes, At
<1>3. CASE Refuse(s, Fault)
  BY <1>1, <1>3, FaultFields, Refused DEF At
<1>4. QED
  BY <1>2, <1>3 DEF UafPassword

\* Page 2 of uaf: an exception.
LEMMA UafStep ==
    ASSUME IInv, NEW s \in Session, script = "uaf", UafAuthenticate(s)
    PROVE  StepInv(s)
<1>1. Entrusted(s) /\ NotTaken(s) /\ At(s, "page", 2) /\ Reason(s)
  BY AloneEntries DEF UafAuthenticate, Reason, BrokenByScript, At
<1>2. DOMAIN <<>> \subseteq {"fault"} /\ "fault" \notin DOMAIN <<>>
  OBVIOUS
<1>3. Refuse(s, <<>>) \/ Refuse(s, Fault)
  BY DEF UafAuthenticate
<1>4. CASE Refuse(s, <<>>)
  BY <1>1, <1>2, <1>4, Refused DEF At
<1>5. CASE Refuse(s, Fault)
  BY <1>1, <1>5, FaultFields, Refused DEF At
<1>6. QED
  BY <1>3, <1>4, <1>5

\* Page 2 of the others.
LEMMA DeviceStep ==
    ASSUME IInv, NEW s \in Session, script \in {"u2f", "fido2", "duo"},
        DeviceAuthenticate(s)
    PROVE  StepInv(s)
<1>1. At(s, "page", 2) /\ LoginType(s)
  BY DEF DeviceAuthenticate, IInv, LoginInv
<1>2. CASE Answer(s, Passing(s, "device")) /\ (Alone \/ RegisterDevice(s))
  <2>1. Entrusted(s)
    BY <1>1, <1>2, AloneEntries, DeviceRegistered DEF Entrusted, IInv
  <2>2. /\ DOMAIN Passing(s, "device") = {"passed"}
        /\ Passing(s, "device").passed = session[s].passed \cup {"device"}
    BY DEF Passing
  <2>3. QED
    BY <1>1, <1>2, <2>1, <2>2, DeviceAnswer DEF DeviceScriptNames, At
<1>3. CASE Refuse(s, Fault) /\ Alone
  BY <1>1, <1>3, AloneEntries, FaultFields, Refused DEF At
<1>4. QED
  BY <1>2, <1>3 DEF DeviceAuthenticate

\* The pages of u2f, duo and uaf.
LEMMA U2fPrepareStep ==
    ASSUME IInv, NEW s \in Session, script = "u2f", U2fPrepare(s)
    PROVE  StepInv(s)
<1>1. Entrusted(s) /\ NotTaken(s) /\ session[s].stage = "prepare" /\ Alone
  BY AloneEntries DEF U2fPrepare, PlainFirstPage, At
<1>2. CASE PlainFirstPage(s, {})
  BY <1>1, <1>2, FirstPage
<1>3. ASSUME NEW x, Show(s, {}, [request |-> x]) PROVE StepInv(s)
  BY <1>1, <1>3, Paged DEF Told
<1>4. CASE Hide(s, Fault)
  BY <1>1, <1>4, FaultFields, Hidden
<1>5. QED
  BY <1>2, <1>3, <1>4 DEF U2fPrepare

\* prepareForStep of duo.
LEMMA DuoPrepareStep ==
    ASSUME IInv, NEW s \in Session, script = "duo", DuoPrepare(s)
    PROVE  StepInv(s)
<1>1. Entrusted(s) /\ NotTaken(s) /\ session[s].stage = "prepare" /\ Alone
  BY AloneEntries DEF DuoPrepare, At
<1>2. ASSUME NEW names, Show(s, names, <<>>) PROVE StepInv(s)
  <2>1. DOMAIN <<>> \subseteq Told
    OBVIOUS
  <2>2. QED
    BY <1>1, <1>2, <2>1, Paged
<1>3. ASSUME NEW names, NEW x, Show(s, names, [request |-> x]) PROVE StepInv(s)
  BY <1>1, <1>3, Paged DEF Told
<1>4. CASE Hide(s, Fault)
  BY <1>1, <1>4, FaultFields, Hidden
<1>5. QED
  BY <1>2, <1>3, <1>4 DEF DuoPrepare

\* prepareForStep of uaf.
LEMMA UafPrepareStep ==
    ASSUME IInv, NEW s \in Session, script = "uaf", UafPrepare(s)
    PROVE  StepInv(s)
<1>1. Entrusted(s) /\ NotTaken(s) /\ session[s].stage = "prepare" /\ Alone
  BY AloneEntries DEF UafPrepare, PlainFirstPage, At
<1>2. CASE PlainFirstPage(s, UafExtra)
  BY <1>1, <1>2, FirstPage
<1>3. ASSUME NEW x, NEW y,
             Show(s, UafExtra, [request |-> x, uaf_obb_start_response |-> y])
      PROVE  StepInv(s)
  BY <1>1, <1>3, Paged DEF Told
<1>4. CASE Hide(s, <<>>) /\ At(s, "prepare", 2)
  <2>1. DOMAIN <<>> \subseteq {"fault"} /\ "fault" \notin DOMAIN <<>>
    OBVIOUS
  <2>2. Reason(s)
    BY <1>4 DEF Reason, BrokenByScript, At
  <2>3. QED
    BY <1>1, <1>4, <2>1, <2>2, Hidden
<1>5. CASE Hide(s, Fault)
  BY <1>1, <1>5, FaultFields, Hidden
<1>6. QED
  BY <1>2, <1>3, <1>4, <1>5 DEF UafPrepare

\* The pages of fido2, which wait for the metadata.
LEMMA Fido2RequestStep ==
    ASSUME IInv, NEW s \in Session, script = "fido2", Entrusted(s), NotTaken(s),
           session[s].stage \in {"prepare", "working"}, Fido2Request(s)
    PROVE  StepInv(s)
<1>1. ASSUME NEW x, NEW y, Show(s, Fido2Extra, [request |-> x,
                                  platformAuthenticatorAvailable |-> y])
      PROVE  StepInv(s)
  BY <1>1, Paged DEF Told
<1>2. ASSUME NEW x, Show(s, Fido2Extra, [request |-> x]) PROVE StepInv(s)
  BY <1>2, Paged DEF Told
<1>3. CASE Hide(s, Fault)
  BY <1>3, FaultFields, Hidden
<1>4. QED
  BY <1>1, <1>2, <1>3 DEF Fido2Request

\* Fido2: the metadata of the server is loaded by one login, in steps.
LEMMA LoadStep ==
    ASSUME IInv, NEW s \in Session, script = "fido2", Entrusted(s), NotTaken(s),
           session[s].stage \in {"prepare", "working"}, NEW place, Load(s, place)
    PROVE  StepInv(s)
<1> DEFINE c == [stage |-> "working"] ++ Setting(s, [at |-> place])
<1>1. DOMAIN c = {"stage", "work"} /\ DOMAIN c \subseteq Fields /\ c.stage = "working"
  BY DEF ++, Setting, Fields
<1>2. Become(s, c) /\ Shape /\ LoginType(s)
  BY DEF Load, IInv, LoginInv
<1> HIDE DEF c
<1>3. Shape' /\ Others(s) /\ Same(s, Fields \ DOMAIN c) /\ session'[s].stage = "working"
  BY <1>1, <1>2, BecomeEffect
<1>4. Same(s, {"who", "user", "step", "passed", "got", "fault", "attrs", "reply",
          "tries"})
  BY <1>1, <1>3 DEF Same, Fields
<1>5. LoginType(s)'
  BY <1>2, <1>3, <1>4 DEF LoginType, Same, Stages
<1>6. Ends(s)'
  BY <1>3 DEF Ends, Badly, Entrusted, Kept
<1>7. Quiet(s)
  BY <1>3, <1>4 DEF Quiet, Same, Like, Well
<1>8. QED
  BY <1>3, <1>5, <1>6, <1>7, QuietStep

\* prepareForStep of fido2, up to the metadata.
LEMMA Fido2PrepareStep ==
    ASSUME IInv, NEW s \in Session, script = "fido2", Fido2Prepare(s)
    PROVE  StepInv(s)
<1>1. CASE PlainFirstPage(s, Fido2Extra)
  BY <1>1, FirstPage DEF PlainFirstPage
<1>2. CASE At(s, "prepare", 2) /\ Alone /\ (Fido2Request(s) \/ Load(s, "lock"))
  BY <1>2, AloneEntries, Fido2RequestStep, LoadStep DEF At
<1>3. QED
  BY <1>1, <1>2 DEF Fido2Prepare

\* ... and the loading of the metadata.
LEMMA Fido2LoadStep ==
    ASSUME IInv, NEW s \in Session, script = "fido2", Fido2Lock(s) \/ Fido2Load(s)
    PROVE  StepInv(s)
<1>1. session[s].stage = "working" /\ UNCHANGED <<script, conf, person>>
  BY DEF Fido2Lock, Fido2Load, Loading
<1>2. \/ self' = [self EXCEPT !.holder = s]
      \/ self' = [Unlocked EXCEPT !.metadata = "loaded"]
      \/ self' = Unlocked
  BY DEF Fido2Lock, Fido2Load
<1>3. Object'
  BY <1>1, <1>2 DEF Object, IInv, EntriesInv, Unlocked
<1>4. Entrusted(s) /\ NotTaken(s)
  BY <1>1, <1>3, EntriesAlone DEF Entrusted, IInv
<1>5. Load(s, "load") \/ Fido2Request(s) \/ Hide(s, Fault)
  BY DEF Fido2Lock, Fido2Load
<1>6. QED
  BY <1>1, <1>4, <1>5, LoadStep, Fido2RequestStep, FaultFields, Hidden

\* The server after a step of a script with a device.
LEMMA DeviceProceeds ==
    ASSUME IInv, NEW s \in Session, script \in DeviceScriptNames, Proceed(s)
    PROVE  StepInv(s)
<1> DEFINE work == session[s].work
           extra == [step \in Nat |-> getExtraParametersForStep(step)]
           count == IF script = "duo" THEN DuoCount(work) ELSE 2
<1>1. Forward(s, work, 0, count, extra)
  BY DEF Proceed, getNextStep, getCountAuthenticationSteps, DeviceScriptNames, Repeated
<1>2. /\ LoginInv(s) /\ LoginType(s) /\ PasswordFirst(s) /\ DeviceSecond(s)
      /\ DuoNotes(s, work) /\ DuoNotes(s, session[s].attrs)
  BY DEF IInv, LoginInv, DeviceSecond, DuoNotes
<1>3. /\ count \in {1, 2} /\ session[s].step \in {1, 2}
      /\ count = 1 => script = "duo" /\ "duo_group" \in conf /\ ~InDuoGroup(s)
  BY <1>2, NoneIsNothing DEF DuoCount, DuoNotes, Value, DeviceSecond, DeviceScriptNames
<1> HIDE DEF count, extra
<1>4. ASSUME Well(s), session[s].step >= count PROVE Through(s)
  <2>1. /\ session[s].user = session[s].who /\ "password" \in session[s].passed
        /\ session[s].step # 1 => script # "uaf" /\ "device" \in session[s].passed
    BY <1>2, <1>4 DEF PasswordFirst, DeviceSecond, DeviceScriptNames
  <2>2. session[s].step = 1 => Demanded(s) = {"password"}
    BY <1>3, <1>4 DEF Demanded
  <2>3. Demanded(s) \subseteq {"password", "device"}
    BY DEF Demanded, DeviceScriptNames
  <2>4. QED
    BY <1>3, <2>1, <2>2, <2>3 DEF Through
<1>5. ASSUME Well(s), session[s].step < count, Entrusted(s),
             Gone(s, work, session[s].step + 1, extra[session[s].step + 1])
      PROVE  StepInv(s)
  <2>1. session[s].step + 1 = 2 /\ session[s].step = 1
    BY <1>3, <1>5
  <2> DEFINE names == extra[2]
  <2>2. Gone(s, work, 2, names)
    BY <1>5, <2>1
  <2> HIDE DEF names
  <2>3. /\ LoginType(s)' /\ Ends(s)' /\ ~Well(s)'
        /\ session'[s].who = session[s].who /\ session'[s].user = session[s].user
        /\ session'[s].passed = session[s].passed /\ session'[s].step = 2
        /\ session'[s].work = <<>>
    BY <1>2, <2>1, <2>2, GoneType
  <2>4. script' = script /\ conf' = conf /\ session[s].who \in Person
    BY <1>2, <1>5 DEF Entrusted, Kept, LoginType
  <2>5. InDuoGroup(s)' = InDuoGroup(s)
    BY <1>5, <2>3, <2>4 DEF InDuoGroup, Entry, Entrusted, Kept
  <2>6. DuoNotes(s, session[s].attrs)' /\ DuoNotes(s, session[s].work)'
    <3>1. session'[s].attrs = Restrict(work, names \cap DOMAIN work) ++ session[s].attrs
      BY <2>2 DEF Gone
    <3>2. DuoNotes(s, session'[s].attrs)
      BY <1>2, <3>1 DEF DuoNotes, ++, Restrict
    <3>3. QED
      BY <2>3, <2>4, <2>5, <3>2 DEF DuoNotes
  <2>7. PasswordFirst(s)'
    BY <1>2, <1>5, <2>3, <2>4 DEF PasswordFirst, DeviceScriptNames
  <2>8. DeviceSecond(s)'
    BY <2>3, <2>4, <2>6 DEF DeviceSecond, DuoNotes
  <2>9. QED
    BY <1>5, <2>2, <2>3, <2>4, <2>7, <2>8, LoginOfScript
       DEF StepInv, Gone, Entrusted, EntriesInv, DeviceScriptNames
<1>6. QED
  BY <1>1, <1>4, <1>5, Proceeds

\* Every step of u2f, fido2, duo and uaf.
LEMMA DeviceScriptStep ==
    ASSUME IInv, NEW s \in Session, script \in DeviceScriptNames, Step(s)
    PROVE  StepInv(s)
<1>1. prepareForStep(s) => \/ script = "u2f" /\ U2fPrepare(s)
                           \/ script = "fido2" /\ Fido2Prepare(s)
                           \/ script = "duo" /\ DuoPrepare(s)
                           \/ script = "uaf" /\ UafPrepare(s)
  BY DEF prepareForStep, DeviceScriptNames
<1>2. authenticate(s) => \/ script = "u2f" /\ BasicAuthenticate(s)
                         \/ script = "fido2" /\ Fido2Password(s)
                         \/ script = "duo" /\ DuoPassword(s)
                         \/ script = "uaf" /\ (UafPassword(s) \/ UafAuthenticate(s))
                         \/ script \in {"u2f", "fido2", "duo"} /\ DeviceAuthenticate(s)
  BY DEF authenticate, DeviceScriptNames
<1>3. goOn(s) => script = "fido2" /\ (Fido2Lock(s) \/ Fido2Load(s))
  BY DEF goOn, DeviceScriptNames
<1>4. prepareForStep(s) => StepInv(s)
  BY <1>1, U2fPrepareStep, Fido2PrepareStep, DuoPrepareStep, UafPrepareStep
<1>5. authenticate(s) => StepInv(s)
  BY <1>2, U2fPassword, Fido2PasswordStep, DuoPasswordStep, UafPasswordStep, UafStep,
     DeviceStep
<1>6. QED
  BY <1>3, <1>4, <1>5, Fido2LoadStep, DeviceProceeds DEF Step

-----------------------------------------------------------------------------
\* What is known of a login that has been answered, whatever the script.
Answered(s, c, reply) ==
    /\ session'[s].who = session[s].who /\ session'[s].step = session[s].step
    /\ session'[s].tries = session[s].tries /\ session'[s].stage = "answered"
    /\ Well(s)' = reply
    /\ session'[s].work = IF "work" \in DOMAIN c THEN c.work ELSE session[s].attrs
    /\ session'[s].attrs = IF "attrs" \in DOMAIN c THEN c.attrs ELSE session[s].attrs
    /\ session'[s].user = IF "user" \in DOMAIN c THEN session[s].who
                          ELSE session[s].user
    /\ session'[s].passed = IF "passed" \in DOMAIN c THEN c.passed
                            ELSE session[s].passed
    /\ session'[s].got = IF "got" \in DOMAIN c THEN c.got ELSE session[s].got
    /\ session'[s].fault = ("fault" \in DOMAIN c \/ session[s].fault)
    /\ LoginType(s) /\ LoginType(s)' /\ Ends(s)' /\ LoginInv(s)
    /\ script' = script /\ conf' = conf /\ Object' /\ session[s].who \in Person
    /\ LoginInv(s)' => StepInv(s)

\* The answer of a script that the server then takes.
LEMMA AnsweredStep ==
    ASSUME IInv, NEW s \in Session, Entrusted(s), NEW c, NEW reply \in BOOLEAN,
           IF reply THEN Answer(s, c) ELSE Refuse(s, c),
           DOMAIN c \subseteq Changeable,
           "user" \in DOMAIN c => c.user = session[s].who,
           "fault" \in DOMAIN c => c.fault = TRUE,
           \/ reply \/ "fault" \in DOMAIN c \/ session[s].fault
           \/ Reason(s) /\ "attrs" \notin DOMAIN c
    PROVE  Answered(s, c, reply)
<1>1. Replied(s, c, reply)
  BY AnswerEffect, RefuseEffect DEF IInv
<1>2. /\ LoginInv(s) /\ LoginType(s) /\ script' = script /\ conf' = conf /\ Object'
      /\ session[s].who \in Person /\ session[s].fault \in BOOLEAN
  BY DEF IInv, LoginInv, LoginType, Entrusted, EntriesInv, Kept
<1>3. /\ session'[s].who = session[s].who /\ session'[s].step = session[s].step
      /\ session'[s].tries = session[s].tries /\ session'[s].stage = "answered"
      /\ Well(s)' = reply /\ Badly(s)' = ~reply
      /\ session'[s].work = IF "work" \in DOMAIN c THEN c.work ELSE session[s].attrs
      /\ session'[s].attrs = IF "attrs" \in DOMAIN c THEN c.attrs ELSE session[s].attrs
      /\ session'[s].user = IF "user" \in DOMAIN c THEN session[s].who
                            ELSE session[s].user
      /\ session'[s].passed = IF "passed" \in DOMAIN c THEN c.passed
                              ELSE session[s].passed
      /\ session'[s].got = IF "got" \in DOMAIN c THEN c.got ELSE session[s].got
  BY <1>1, RepliedSame
<1>4. session'[s].fault = ("fault" \in DOMAIN c \/ session[s].fault)
  BY <1>1, <1>2, RepliedSame
<1>5. LoginType(s)'
  BY <1>1, <1>2, <1>3, <1>4, ReplyType DEF LoginType
<1>6. ~reply => Reason(s)'
  <2>1. CASE "fault" \in DOMAIN c \/ session[s].fault
    BY <1>4, <2>1 DEF Reason
  <2>2. CASE Reason(s) /\ "attrs" \notin DOMAIN c
    BY <1>2, <1>3, <1>4, <2>2, ReasonStays DEF Attr, Entrusted, IInv
  <2>3. QED
    BY <2>1, <2>2
<1>7. Ends(s)'
  BY <1>3, <1>6 DEF Ends
<1>8. LoginInv(s)' => StepInv(s)
  BY <1>1 DEF StepInv, Entrusted, Replied
<1>9. QED
  BY <1>2, <1>3, <1>4, <1>5, <1>7, <1>8 DEF Answered

\* What is known of a login that has gone to another step.
WentTo(s, work, step, names) ==
    /\ LoginType(s) /\ LoginType(s)' /\ Ends(s)' /\ LoginInv(s)
    /\ ~Well(s)' /\ ~Badly(s)'
    /\ session'[s].who = session[s].who /\ session'[s].user = session[s].user
    /\ session'[s].passed = session[s].passed /\ session'[s].got = session[s].got
    /\ session'[s].fault = session[s].fault
    /\ session'[s].stage = "prepare" /\ session'[s].step = step
    /\ session'[s].work = <<>> /\ (\A n : OnPage(s, n)' = None)
    /\ session'[s].attrs = Restrict(work, names \cap DOMAIN work) ++ session[s].attrs
    /\ \A n : Attr(s, n)' = IF n \in names /\ n \in DOMAIN work
                            THEN work[n] ELSE Attr(s, n)
    /\ script' = script /\ conf' = conf /\ Object' /\ session[s].who \in Person
    /\ LoginInv(s)' => StepInv(s)

\* The login is at the new step.
LEMMA WentToStep ==
    ASSUME IInv, NEW s \in Session, Entrusted(s), NEW work, NEW names,
        NEW step \in 1..3,
           Gone(s, work, step, names),
           step > session[s].step \/ session[s].tries + 1 < MaxTries
    PROVE  WentTo(s, work, step, names)
<1>1. /\ LoginInv(s) /\ LoginType(s) /\ script' = script /\ conf' = conf /\ Object'
      /\ session[s].who \in Person
  BY DEF IInv, LoginInv, LoginType, Entrusted, EntriesInv, Kept
<1>2. LoginInv(s)' => StepInv(s)
  BY DEF StepInv, Entrusted, Gone
<1>3. /\ LoginType(s)' /\ Ends(s)' /\ ~Well(s)' /\ ~Badly(s)'
      /\ session'[s].who = session[s].who /\ session'[s].user = session[s].user
      /\ session'[s].passed = session[s].passed /\ session'[s].got = session[s].got
      /\ session'[s].fault = session[s].fault
      /\ session'[s].stage = "prepare" /\ session'[s].step = step
      /\ session'[s].work = <<>> /\ (\A n : OnPage(s, n)' = None)
  BY <1>1, GoneType
<1>4. /\ session'[s].attrs = Restrict(work, names \cap DOMAIN work) ++ session[s].attrs
      /\ \A n : Attr(s, n)' = IF n \in names /\ n \in DOMAIN work
                              THEN work[n] ELSE Attr(s, n)
  BY DEF Gone
<1>5. QED
  BY <1>1, <1>2, <1>3, <1>4 DEF WentTo, Ends

-----------------------------------------------------------------------------
\* ThumbSignIn.
LEMMA ThumbSignInAnswer ==
    ASSUME IInv, NEW s \in Session, script = "thumb_sign_in", Entrusted(s), NEW c,
           NEW reply \in BOOLEAN, IF reply THEN Answer(s, c) ELSE Refuse(s, c),
           NEW flow, "work" \in DOMAIN c,
           c.work = [userLoginFlow |-> flow] ++ session[s].attrs,
           DOMAIN c \subseteq {"user", "passed", "fault", "work"},
           "user" \in DOMAIN c => c.user = session[s].who,
           "fault" \in DOMAIN c => c.fault = TRUE,
           reply \/ "fault" \in DOMAIN c,
           reply /\ (session[s].step = 3 \/ flow = "ThumbSignIn_Authentication")
              => "user" \in DOMAIN c /\ "passed" \in DOMAIN c /\ "device" \in c.passed
    PROVE  StepInv(s)
<1>1. DOMAIN c \subseteq Changeable /\ "attrs" \notin DOMAIN c
  BY DEF Changeable
<1>2. Answered(s, c, reply)
  BY <1>1, AnsweredStep
<1>3. OnPage(s, "userLoginFlow")' = flow /\ Attr(s, "userLoginFlow")' = None
  BY <1>1, <1>2 DEF Answered, OnPage, Attr, Value, ++, LoginInv, ThumbSignInLogin
<1>4. reply /\ (session[s].step = 3 \/ flow = "ThumbSignIn_Authentication")
          => Through(s)'
  BY <1>2 DEF Answered, Through, Demanded
<1>5. ThumbSignInLogin(s)'
  BY <1>2, <1>3, <1>4 DEF ThumbSignInLogin, Answered
<1>6. QED
  BY <1>2, <1>5, LoginOfScript DEF Answered

\* authenticate of thumb_sign_in, whose page chooses the flow.
LEMMA ThumbSignInStep ==
    ASSUME IInv, NEW s \in Session, script = "thumb_sign_in",
           ThumbSignInScan(s) \/ ThumbSignInPassword(s) \/ ThumbSignInRegister(s)
    PROVE  StepInv(s)
<1> DEFINE Flow(f) == Setting(s, [userLoginFlow |-> f])
<1>1. LoginType(s) /\ session[s].step \in 1..3
  BY DEF IInv, LoginInv, LoginType
<1>2. Entrusted(s)
  BY <1>1, AloneEntries, DeviceRegistered
     DEF ThumbSignInScan, ThumbSignInPassword, ThumbSignInRegister, Entrusted, IInv
<1>3. \A f : /\ DOMAIN Flow(f) = {"work"}
             /\ Flow(f).work = [userLoginFlow |-> f] ++ session[s].attrs
  BY DEF Setting
<1> HIDE DEF Flow
<1>4. ASSUME NEW f, Refuse(s, Fault ++ Flow(f)) PROVE StepInv(s)
  <2> DEFINE c == Fault ++ Flow(f)
  <2>1. /\ DOMAIN c = {"fault", "work"} /\ c.fault = TRUE
        /\ c.work = [userLoginFlow |-> f] ++ session[s].attrs
    BY <1>3, FaultFields DEF ++
  <2>2. Refuse(s, c)
    BY <1>4
  <2> HIDE DEF c
  <2>3. QED
    BY <1>2, <2>1, <2>2, ThumbSignInAnswer
<1>5. ASSUME NEW f, Answer(s, [user |-> session[s].who] ++ Passing(s, "device")
          ++ Flow(f))
      PROVE  StepInv(s)
  <2> DEFINE c == [user |-> session[s].who] ++ Passing(s, "device") ++ Flow(f)
  <2>1. /\ DOMAIN c = {"user", "passed", "work"} /\ c.user = session[s].who
        /\ c.passed = session[s].passed \cup {"device"}
        /\ c.work = [userLoginFlow |-> f] ++ session[s].attrs
    BY <1>3 DEF ++, Passing
  <2>2. Answer(s, c)
    BY <1>5
  <2> HIDE DEF c
  <2>3. QED
    BY <1>2, <2>1, <2>2, ThumbSignInAnswer
<1>6. ASSUME Answer(s, LoggedIn(s) ++ Flow("ThumbSignIn_Registration")),
          session[s].step = 1
      PROVE  StepInv(s)
  <2> DEFINE c == LoggedIn(s) ++ Flow("ThumbSignIn_Registration")
  <2>1. /\ DOMAIN c = {"user", "passed", "work"} /\ c.user = session[s].who
        /\ c.work = [userLoginFlow |-> "ThumbSignIn_Registration"] ++ session[s].attrs
    BY <1>3, LoggedInFields DEF ++
  <2>2. Answer(s, c)
    BY <1>6
  <2> HIDE DEF c
  <2>3. session[s].step # 3 /\ "ThumbSignIn_Registration" # "ThumbSignIn_Authentication"
    BY <1>6
  <2>4. QED
    BY <1>2, <2>1, <2>2, <2>3, ThumbSignInAnswer
<1>7. ASSUME Answer(s, Flow("ThumbSignIn_Registration")), session[s].step = 2
      PROVE  StepInv(s)
  <2> DEFINE c == Flow("ThumbSignIn_Registration")
  <2>1. /\ DOMAIN c = {"work"} /\ Answer(s, c)
        /\ c.work = [userLoginFlow |-> "ThumbSignIn_Registration"] ++ session[s].attrs
    BY <1>3, <1>7
  <2> HIDE DEF c
  <2>2. session[s].step # 3 /\ "ThumbSignIn_Registration" # "ThumbSignIn_Authentication"
    BY <1>7
  <2>3. QED
    BY <1>2, <2>1, <2>2, ThumbSignInAnswer
<1>8. CASE ThumbSignInScan(s)
  BY <1>4, <1>5, <1>8 DEF ThumbSignInScan, Flow
<1>9. CASE ThumbSignInPassword(s)
  BY <1>4, <1>6, <1>9 DEF ThumbSignInPassword, Flow, At
<1>10. CASE ThumbSignInRegister(s)
  BY <1>7, <1>10 DEF ThumbSignInRegister, Flow, At
<1>11. QED
  BY <1>8, <1>9, <1>10

\* prepareForStep of thumb_sign_in.
LEMMA ThumbSignInPrepareStep ==
    ASSUME IInv, NEW s \in Session, script = "thumb_sign_in", ThumbSignInPrepare(s)
    PROVE  StepInv(s)
<1>1. Entrusted(s) /\ NotTaken(s) /\ session[s].stage = "prepare" /\ Alone
  BY AloneEntries DEF ThumbSignInPrepare
<1>2. ASSUME NEW x, Show(s, {}, [request |-> x]) PROVE StepInv(s)
  BY <1>1, <1>2, Paged DEF Told
<1>3. CASE Hide(s, Fault)
  BY <1>1, <1>3, FaultFields, Hidden
<1>4. QED
  BY <1>2, <1>3 DEF ThumbSignInPrepare

\* The server after a step of thumb_sign_in: the count is by the flow.
LEMMA ThumbSignInProceeds ==
    ASSUME IInv, NEW s \in Session, script = "thumb_sign_in", Proceed(s)
    PROVE  StepInv(s)
<1> DEFINE work == session[s].work
           extra == [step \in Nat |-> getExtraParametersForStep(step)]
           count == ThumbSignInCount(work)
<1>1. Forward(s, work, 0, count, extra)
  BY DEF Proceed, getNextStep, getCountAuthenticationSteps, Repeated
<1>2. LoginInv(s) /\ session[s].step \in 1..3 /\ ThumbSignInLogin(s)
  BY DEF IInv, LoginInv, LoginType
<1>3. /\ count \in {1, 3}
      /\ count = 1 => OnPage(s, "userLoginFlow") = "ThumbSignIn_Authentication"
  BY DEF ThumbSignInCount, OnPage
<1>4. \A n \in Nat : extra[n] = {}
  BY DEF getExtraParametersForStep
<1> HIDE DEF count, extra
<1>5. ASSUME Well(s), session[s].step >= count PROVE Through(s)
  BY <1>2, <1>3, <1>5 DEF ThumbSignInLogin
<1>6. ASSUME Well(s), session[s].step < count, Entrusted(s),
             Gone(s, work, session[s].step + 1, extra[session[s].step + 1])
      PROVE  StepInv(s)
  <2>1. session[s].step + 1 \in 1..3 /\ session[s].step + 1 > session[s].step
    BY <1>2, <1>3, <1>6
  <2>2. WentTo(s, work, session[s].step + 1, extra[session[s].step + 1])
    BY <1>6, <2>1, WentToStep
  <2>3. extra[session[s].step + 1] = {}
    BY <1>4, <2>1
  <2>4. ThumbSignInLogin(s)'
    BY <1>2, <2>2, <2>3 DEF ThumbSignInLogin, WentTo
  <2>5. QED
    BY <2>2, <2>4, LoginOfScript DEF WentTo
<1>7. QED
  BY <1>1, <1>5, <1>6, Proceeds

\* Every step of thumb_sign_in.
LEMMA ThumbSignInScriptStep ==
    ASSUME IInv, NEW s \in Session, script = "thumb_sign_in", Step(s)
    PROVE  StepInv(s)
<1>1. prepareForStep(s) => ThumbSignInPrepare(s)
  BY DEF prepareForStep
<1>2. authenticate(s) => \/ ThumbSignInPassword(s) \/ ThumbSignInScan(s)
                         \/ ThumbSignInRegister(s)
  BY DEF authenticate
<1>3. ~goOn(s)
  BY DEF goOn
<1>4. QED
  BY <1>1, <1>2, <1>3, ThumbSignInPrepareStep, ThumbSignInStep, ThumbSignInProceeds
     DEF Step

\* The answer of a password step that sends a code.
LEMMA SentFields ==
    ASSUME NEW s, NEW number, NEW code, NEW noted, NEW kept
    PROVE  LET c == LoggedIn(s) ++ Sending(s, number, code) ++ Setting(s, noted)
                       ++ Putting(s, kept)
           IN  /\ DOMAIN c = {"user", "passed", "got", "work", "attrs"}
               /\ c.user = session[s].who
               /\ c.passed = session[s].passed \cup {"password"}
               /\ c.got = IF number = session[s].who THEN code ELSE session[s].got
               /\ c.work = noted ++ session[s].attrs
               /\ c.attrs = kept ++ session[s].attrs
<1> DEFINE a == LoggedIn(s) ++ Sending(s, number, code)
           b == a ++ Setting(s, noted)
           c == b ++ Putting(s, kept)
<1>1. /\ DOMAIN a = {"user", "passed", "got"} /\ a.user = session[s].who
      /\ a.passed = session[s].passed \cup {"password"}
      /\ a.got = IF number = session[s].who THEN code ELSE session[s].got
  BY LoggedInFields DEF Sending, ++
<1> HIDE DEF a
<1>2. /\ DOMAIN b = {"user", "passed", "got", "work"} /\ b.user = a.user
      /\ b.passed = a.passed /\ b.got = a.got /\ b.work = noted ++ session[s].attrs
  BY <1>1 DEF Setting, ++
<1> HIDE DEF b
<1>3. /\ DOMAIN c = {"user", "passed", "got", "work", "attrs"} /\ c.user = b.user
      /\ c.passed = b.passed /\ c.got = b.got /\ c.work = b.work
      /\ c.attrs = kept ++ session[s].attrs
  BY <1>2 DEF Putting, ++
<1>4. QED
  BY <1>1, <1>2, <1>3 DEF a, b

-----------------------------------------------------------------------------
\* twilio2FA and smpp2FA.
SmsScripts == {"twilio_sms", "smpp"}

\* The numbers are of people.
LEMMA Numbers ==
    ASSUME IInv, NEW s \in Session
    PROVE  /\ TwilioNumber(s) \in Person \cup {None}
           /\ SmppNumber(s) \in {session[s].who, None}
<1>1. session[s].who \in Person /\ self.mobile_number \in Person \cup {None}
  BY DEF IInv, LoginInv, LoginType, EntriesInv, Object
<1>2. QED
  BY <1>1 DEF TwilioNumber, SmppNumber, First, VerifiedNumber, PlainNumber

\* Step 1 refuses, with the person logged in or not.
LEMMA SmsRefused ==
    ASSUME IInv, NEW s \in Session, script \in SmsScripts, Entrusted(s), NotTaken(s),
           At(s, "page", 1), Refuse(s, Fault) \/ Refuse(s, LoggedIn(s) ++ Fault)
    PROVE  StepInv(s)
<1>1. CASE Refuse(s, Fault)
  BY <1>1, FaultFields, Refused DEF At
<1>2. CASE Refuse(s, LoggedIn(s) ++ Fault)
  <2> DEFINE c == LoggedIn(s) ++ Fault
  <2>1. DOMAIN c = {"user", "passed", "fault"} /\ c.user = session[s].who
            /\ c.fault = TRUE
    BY LoggedInFields, FaultFields DEF ++
  <2>2. Refuse(s, c) /\ DOMAIN c \subseteq Changeable
    BY <1>2, <2>1 DEF Changeable
  <2> HIDE DEF c
  <2>3. Answered(s, c, FALSE)
    BY <2>1, <2>2, AnsweredStep
  <2>4. session'[s].step = 1 /\ ~Well(s)'
    BY <2>3 DEF Answered, At
  <2>5. PasswordFirst(s)' /\ CodeSecond(s)'
    BY <2>4 DEF PasswordFirst, CodeSecond
  <2>6. QED
    BY <2>3, <2>5, LoginOfScript DEF Answered, SmsScripts
<1>3. QED
  BY <1>1, <1>2

\* authenticate of twilio_sms, step 1, when the code could be sent.
LEMMA TwilioSent ==
    ASSUME IInv, NEW s \in Session, script = "twilio_sms", Entrusted(s),
        At(s, "page", 1),
           NEW number, number # None,
           Answer(s, LoggedIn(s) ++ Sending(s, number, NewCode(s))
                      ++ Setting(s, [code |-> NewCode(s), mobile_number |-> number])
                      ++ Putting(s, [code |-> NewCode(s), mobile_number |-> number]))
    PROVE  StepInv(s)
<1> DEFINE code == NewCode(s)
           noted == [code |-> code, mobile_number |-> number]
           c == LoggedIn(s) ++ Sending(s, number, code) ++ Setting(s, noted)
                   ++ Putting(s, noted)
<1>1. code # None
  BY NoneIsNothing DEF NewCode, IInv, LoginInv, LoginType
<1>2. DOMAIN noted = {"code", "mobile_number"} /\ noted.code = code
         /\ noted.mobile_number = number
  OBVIOUS
<1> HIDE DEF noted, code
<1>3. /\ DOMAIN c = {"user", "passed", "got", "work", "attrs"}
      /\ c.user = session[s].who
      /\ c.passed = session[s].passed \cup {"password"}
      /\ c.got = IF number = session[s].who THEN code ELSE session[s].got
      /\ c.work = noted ++ session[s].attrs /\ c.attrs = noted ++ session[s].attrs
  BY SentFields
<1>4. Answer(s, c) /\ DOMAIN c \subseteq Changeable
  BY <1>3 DEF Changeable, noted, code
<1> HIDE DEF c
<1>5. Answered(s, c, TRUE)
  BY <1>3, <1>4, AnsweredStep
<1>6. /\ session'[s].step = 1 /\ session'[s].who = session[s].who
      /\ session'[s].user = session[s].who /\ session'[s].passed = c.passed
      /\ session'[s].got = c.got /\ session'[s].attrs = noted ++ session[s].attrs
      /\ session'[s].work = noted ++ session[s].attrs
  BY <1>3, <1>5 DEF Answered, At
<1>7. /\ Attr(s, "code")' = code /\ Attr(s, "mobile_number")' = number
      /\ (noted ++ session[s].attrs).code = code
  BY <1>2, <1>6 DEF Attr, Value, ++
<1>8. PasswordFirst(s)'
  BY <1>3, <1>6 DEF PasswordFirst
<1>9. CodeSecond(s)'
  BY <1>1, <1>3, <1>5, <1>6, <1>7 DEF CodeSecond, Answered
<1>10. QED
  BY <1>5, <1>8, <1>9, LoginOfScript DEF Answered

\* authenticate of smpp, step 1, when the code could be sent.
LEMMA SmppSent ==
    ASSUME IInv, NEW s \in Session, script = "smpp", Entrusted(s), At(s, "page", 1),
           NEW number, number = session[s].who,
           Answer(s, LoggedIn(s) ++ Sending(s, number, NewCode(s))
                      ++ Setting(s, [code |-> NewCode(s), mobile_number |-> number])
                      ++ Putting(s, [mobile_number |-> number]))
    PROVE  StepInv(s)
<1> DEFINE code == NewCode(s)
           noted == [code |-> code, mobile_number |-> number]
           kept == [mobile_number |-> number]
           c == LoggedIn(s) ++ Sending(s, number, code) ++ Setting(s, noted)
                   ++ Putting(s, kept)
<1>1. code # None
  BY NoneIsNothing DEF NewCode, IInv, LoginInv, LoginType
<1>2. DOMAIN noted = {"code", "mobile_number"} /\ noted.code = code
  OBVIOUS
<1> HIDE DEF noted, code, kept
<1>3. /\ DOMAIN c = {"user", "passed", "got", "work", "attrs"}
      /\ c.user = session[s].who
      /\ c.passed = session[s].passed \cup {"password"} /\ c.got = code
      /\ c.work = noted ++ session[s].attrs
  BY SentFields
<1>4. Answer(s, c) /\ DOMAIN c \subseteq Changeable
  BY <1>3 DEF Changeable, noted, code, kept
<1> HIDE DEF c
<1>5. Answered(s, c, TRUE)
  BY <1>3, <1>4, AnsweredStep
<1>6. /\ session'[s].step = 1 /\ session'[s].who = session[s].who
      /\ session'[s].user = session[s].who /\ session'[s].passed = c.passed
      /\ session'[s].got = code /\ session'[s].work = noted ++ session[s].attrs
  BY <1>3, <1>5 DEF Answered, At
<1>7. OnPage(s, "code")' = code
  BY <1>2, <1>6 DEF OnPage, Value, ++
<1>8. PasswordFirst(s)'
  BY <1>3, <1>6 DEF PasswordFirst
<1>9. CodeSecond(s)'
  BY <1>1, <1>5, <1>6, <1>7 DEF CodeSecond, Answered
<1>10. QED
  BY <1>5, <1>8, <1>9, LoginOfScript DEF Answered

\* authenticate of both, step 1.
LEMMA SmsPassword ==
    ASSUME IInv, NEW s \in Session,
           \/ script = "twilio_sms" /\ TwilioAuthenticate1(s)
           \/ script = "smpp" /\ SmppAuthenticate1(s)
    PROVE  StepInv(s)
<1>1. CASE script = "twilio_sms" /\ TwilioAuthenticate1(s)
  <2>1. At(s, "page", 1) /\ UNCHANGED <<script, conf, person>>
        /\ (self' = self \/ self' = [self EXCEPT !.mobile_number = TwilioNumber(s)])
    BY <1>1 DEF TwilioAuthenticate1, Alone
  <2>2. self' = self \/ Object'
    BY <2>1, Numbers DEF Object, IInv, EntriesInv
  <2>3. Entrusted(s) /\ NotTaken(s)
    BY <2>1, <2>2, EntriesAlone DEF Entrusted, IInv
  <2>4. QED
    BY <1>1, <2>1, <2>3, SmsRefused, TwilioSent DEF TwilioAuthenticate1, SmsScripts
<1>2. CASE script = "smpp" /\ SmppAuthenticate1(s)
  <2>1. At(s, "page", 1) /\ Entrusted(s) /\ NotTaken(s)
    BY <1>2, AloneEntries DEF SmppAuthenticate1
  <2>2. SmppNumber(s) # None => SmppNumber(s) = session[s].who
    BY Numbers
  <2>3. QED
    BY <1>2, <2>1, <2>2, SmsRefused, SmppSent DEF SmppAuthenticate1, SmsScripts
<1>3. QED
  BY <1>1, <1>2

\* A code that came is the one that is waited for, unless the number was not of
\* this person.
LEMMA SmsCode ==
    ASSUME IInv, NEW s \in Session, script \in SmsScripts, SmsAuthenticate2(s)
    PROVE  StepInv(s)
<1>1. /\ At(s, "page", 2) /\ Entrusted(s) /\ NotTaken(s)
      /\ LoginInv(s) /\ CodeSecond(s) /\ PasswordFirst(s)
  BY AloneEntries DEF SmsAuthenticate2, IInv, LoginInv
<1>2. \/ Attr(s, "code") # None /\ session[s].got = Attr(s, "code")
      \/ Reason(s)
  BY <1>1 DEF CodeSecond, Reason, BrokenByScript, SmsScripts, At
<1>3. CASE Answer(s, Passing(s, "code")) /\ Attr(s, "code") # None
              /\ session[s].got = Attr(s, "code")
  <2> DEFINE c == Passing(s, "code")
  <2>1. DOMAIN c = {"passed"} /\ c.passed = session[s].passed \cup {"code"}
    BY DEF Passing
  <2>2. Answer(s, c) /\ DOMAIN c \subseteq Changeable
    BY <1>3, <2>1 DEF Changeable
  <2> HIDE DEF c
  <2>3. Answered(s, c, TRUE)
    BY <1>1, <2>1, <2>2, AnsweredStep
  <2>4. /\ session'[s].step = 2 /\ session'[s].who = session[s].who
        /\ session'[s].user = session[s].user /\ session'[s].passed = c.passed
        /\ session'[s].got = session[s].got /\ session'[s].attrs = session[s].attrs
        /\ session'[s].work = session[s].attrs
    BY <1>1, <2>1, <2>3 DEF Answered, At
  <2>5. /\ \A n : Attr(s, n)' = Attr(s, n) /\ OnPage(s, n)' = Attr(s, n)
        /\ "code" \in DOMAIN session[s].attrs => session[s].attrs.code = Attr(s, "code")
    BY <2>4 DEF Attr, OnPage, Value
  <2>6. PasswordFirst(s)'
    BY <1>1, <2>1, <2>4 DEF PasswordFirst, SmsScripts, At
  <2>7. CodeSecond(s)'
    BY <1>1, <1>3, <2>1, <2>3, <2>4, <2>5 DEF CodeSecond, SmsScripts, At, Answered
  <2>8. QED
    BY <2>3, <2>6, <2>7, LoginOfScript DEF Answered, SmsScripts
<1>4. CASE Refuse(s, <<>>) /\ Reason(s)
  <2>1. DOMAIN <<>> \subseteq {"fault"} /\ "fault" \notin DOMAIN <<>>
    OBVIOUS
  <2>2. QED
    BY <1>1, <1>4, <2>1, Refused DEF At
<1>5. CASE Refuse(s, Fault)
  BY <1>1, <1>5, FaultFields, Refused DEF At
<1>6. QED
  BY <1>2, <1>3, <1>4, <1>5 DEF SmsAuthenticate2

\* prepareForStep of both.
LEMMA SmsPrepareStep ==
    ASSUME IInv, NEW s \in Session, script \in SmsScripts, SmsPrepare(s)
    PROVE  StepInv(s)
<1>1. Entrusted(s) /\ NotTaken(s) /\ Alone
  BY AloneEntries DEF SmsPrepare
<1>2. CASE PlainFirstPage(s, {})
  BY <1>1, <1>2, FirstPage DEF SmsScripts
<1>3. CASE At(s, "prepare", 2) /\ Show(s, SmsExtra[2], <<>>)
  <2>1. DOMAIN <<>> \subseteq Told
    OBVIOUS
  <2>2. QED
    BY <1>1, <1>3, <2>1, Paged DEF At, SmsScripts
<1>4. QED
  BY <1>2, <1>3 DEF SmsPrepare

\* The server after a step of them.
LEMMA SmsProceeds ==
    ASSUME IInv, NEW s \in Session, script \in SmsScripts, Proceed(s)
    PROVE  StepInv(s)
<1> DEFINE work == session[s].work
           extra == [step \in Nat |-> getExtraParametersForStep(step)]
<1>1. Forward(s, work, 0, 2, extra)
  BY DEF Proceed, getNextStep, getCountAuthenticationSteps, Repeated, SmsScripts
<1>2. LoginInv(s) /\ session[s].step \in {1, 2} /\ CodeSecond(s) /\ PasswordFirst(s)
  BY DEF IInv, LoginInv, CodeSecond, SmsScripts
<1>3. extra[2] = {"code"}
  BY DEF getExtraParametersForStep, SmsScripts, SmsExtra
<1> HIDE DEF extra
<1>4. ASSUME Well(s), session[s].step >= 2 PROVE Through(s)
  BY <1>2, <1>4 DEF CodeSecond, PasswordFirst, Through, Demanded, SmsScripts
<1>5. ASSUME Well(s), session[s].step < 2, Entrusted(s),
             Gone(s, work, session[s].step + 1, extra[session[s].step + 1])
      PROVE  StepInv(s)
  <2>1. session[s].step = 1 /\ session[s].step + 1 = 2
    BY <1>2, <1>5
  <2>2. WentTo(s, work, 2, {"code"})
    BY <1>3, <1>5, <2>1, WentToStep
  <2>3. Attr(s, "code")' = IF "code" \in DOMAIN work THEN work.code ELSE Attr(s, "code")
    BY <2>2 DEF WentTo
  <2>4. Attr(s, "mobile_number")' = Attr(s, "mobile_number")
    BY <2>2 DEF WentTo
  <2>5. PasswordFirst(s)'
    BY <1>2, <1>5, <2>2 DEF PasswordFirst, SmsScripts, WentTo
  <2>6. CodeSecond(s)'
    BY <1>2, <1>5, <2>2, <2>3, <2>4 DEF CodeSecond, SmsScripts, WentTo, OnPage, Value
  <2>7. QED
    BY <2>2, <2>5, <2>6, LoginOfScript DEF WentTo, SmsScripts
<1>6. QED
  BY <1>1, <1>4, <1>5, Proceeds

\* Every step of twilio_sms and smpp.
LEMMA SmsScriptStep ==
    ASSUME IInv, NEW s \in Session, script \in SmsScripts, Step(s)
    PROVE  StepInv(s)
<1>1. prepareForStep(s) => SmsPrepare(s)
  BY DEF prepareForStep, SmsScripts
<1>2. authenticate(s) => \/ script = "twilio_sms" /\ TwilioAuthenticate1(s)
                         \/ script = "smpp" /\ SmppAuthenticate1(s)
                         \/ SmsAuthenticate2(s)
  BY DEF authenticate, SmsScripts
<1>3. ~goOn(s)
  BY DEF goOn, SmsScripts
<1>4. QED
  BY <1>1, <1>2, <1>3, SmsPrepareStep, SmsPassword, SmsCode, SmsProceeds DEF Step

-----------------------------------------------------------------------------
\* OTP.  What may be left in an entry: keys that are held, not ahead of the
\* application, and no code taken but one of this login.
OtpLeft(s, e) ==
    /\ DOMAIN Entry(s).app \subseteq DOMAIN e.app
    /\ \A k \in DOMAIN Entry(s).app : \A n \in Nat :
          n < Entry(s).app[k] => n < e.app[k]
    /\ KeysOf(e)
    /\ Entry(s).uids # {} => e.uids # {}
    /\ Entry(s).taken \subseteq e.taken /\ e.taken \subseteq Entry(s).taken \cup {s}

\* ... and what is left then keeps what the others rely on.
LEMMA OtpEntrySet ==
    ASSUME IInv, NEW s \in Session, script = "otp", NEW c, SetEntry(s, c),
           DOMAIN c \subseteq {"app", "cached", "uids", "taken"},
           NEW e, e = c ++ Entry(s), OtpLeft(s, e)
    PROVE  Entrusted(s) /\ person'[session[s].who] = e
<1> PICK who : who = session[s].who
  OBVIOUS
<1>1. /\ who \in Person /\ Object /\ People /\ DOMAIN person[who] = EntryFields
      /\ EntryType(who) /\ EntryCounts(who) /\ Entry(s) = person[who]
  BY DEF IInv, LoginInv, LoginType, EntriesInv, People, Entry
<1>2. person' = [person EXCEPT ![who] = e] /\ UNCHANGED <<script, conf, self>>
  BY DEF SetEntry, Entry
<1>3. /\ DOMAIN e = EntryFields
      /\ \A f \in Guarded \ {"taken"} : e[f] = person[who][f]
  BY <1>1 DEF ++, EntryFields, Guarded, Entry
<1>4. /\ \A q \in Person \ {who} : person'[q] = person[q]
      /\ person'[who] = e /\ DOMAIN person' = Person
  BY <1>1, <1>2 DEF People
<1>5. Object' /\ People'
  BY <1>1, <1>2, <1>3, <1>4 DEF Object, People
<1>6. OtpKeys(who)'
  <2>1. KeysOf(person'[who])
    BY <1>4 DEF OtpLeft
  <2>2. QED
    BY <2>1 DEF OtpKeys, KeysOf
<1>7. EntryType(who)' /\ EntryCounts(who)'
  BY <1>1, <1>2, <1>3, <1>4 DEF EntryType, EntryCounts, Guarded
<1>8. ASSUME NEW q \in Person \ {who} PROVE EntryType(q)' /\ EntryCounts(q)'
          /\ OtpKeys(q)'
  BY <1>2, <1>4 DEF IInv, EntriesInv, EntryType, EntryCounts, OtpKeys, KeysOf
<1>9. EntriesInv'
  BY <1>5, <1>6, <1>7, <1>8 DEF EntriesInv
<1>10. Kept
  <2>2. ~(script = "super_gluu")
    OBVIOUS
  <2>3. /\ person'[who].groups = person[who].groups
        /\ person'[who].wrong \in Nat /\ person'[who].wrong >= person[who].wrong
        /\ person[who].uids # {} => person'[who].uids # {}
        /\ DOMAIN person[who].app \subseteq DOMAIN person'[who].app
        /\ \A k \in DOMAIN person[who].app : \A n \in Nat :
              n < person[who].app[k] => n < person'[who].app[k]
        /\ person[who].taken \subseteq person'[who].taken
    BY <1>1, <1>3, <1>4 DEF Guarded, EntryCounts, OtpLeft
  <2>4. ASSUME NEW q \in Person \ {who}
        PROVE  person'[q] = person[q] /\ person[q].wrong \in Nat
    BY <1>4 DEF IInv, EntriesInv, EntryCounts
  <2>5. QED
    BY <1>2, <2>2, <2>3, <2>4 DEF Kept
<1>11. ASSUME NEW t \in Session \ {s} PROVE NotTaken(t)
  BY <1>1, <1>4 DEF NotTaken, OtpLeft
<1>12. QED
  BY <1>4, <1>9, <1>10, <1>11 DEF Entrusted


\* What an answer of OTP notes.
OtpNoting(s, m) ==
    \/ m = session[s].attrs
    \/ /\ session[s].step # 1
       /\ \E again \in BOOLEAN :
             /\ m = [retry_current_step |-> again] ++ session[s].attrs
             /\ again => session'[s].fault
    \/ /\ session[s].step = 1
       /\ \/ m = [otp_auth_method |-> "authenticate"] ++ session[s].attrs
          \/ /\ m = [otp_auth_method |-> "enroll", otp_count_login_steps |-> 3]
                      ++ session[s].attrs
             /\ Entry(s).uids = {}

\* The notes that authenticate makes of a password that was right.
LEMMA OtpNoted ==
    ASSUME NEW s \in Session, OtpLogin(s), script = "otp", NEW m, OtpNoting(s, m),
           session'[s].attrs = session[s].attrs,
           session[s].fault => session'[s].fault
    PROVE  /\ OtpNotes(s, m)'
           /\ session[s].step = 1 => Value(m, "retry_current_step") = None
           /\ session[s].step # 1 /\ "otp_auth_method" \in DOMAIN m =>
                 m.otp_auth_method = Attr(s, "otp_auth_method")
           /\ Value(m, "otp_secret_key") = Attr(s, "otp_secret_key")
           /\ "otp_secret_key" \in DOMAIN m =>
                 m.otp_secret_key = Attr(s, "otp_secret_key")
           /\ Value(m, "otp_auth_method") = "enroll" =>
                 \/ Attr(s, "otp_auth_method") = "enroll"
                 \/ session[s].step = 1 /\ Entry(s).uids = {}
<1>1. OtpNotes(s, session[s].attrs)
  BY DEF OtpLogin
<1>2. session[s].step = 1 => \A n \in OtpExtra : n \notin DOMAIN session[s].attrs
  BY DEF OtpLogin
<1>3. CASE m = session[s].attrs
  BY <1>1, <1>2, <1>3 DEF OtpNotes, Attr, Value, OtpExtra
<1>4. CASE /\ session[s].step # 1
           /\ \E again \in BOOLEAN :
                 /\ m = [retry_current_step |-> again] ++ session[s].attrs
                 /\ again => session'[s].fault
  <2>1. PICK again \in BOOLEAN : /\ m = [retry_current_step |-> again]
                                       ++ session[s].attrs
                                 /\ again => session'[s].fault
    BY <1>4
  <2>2. /\ DOMAIN m = {"retry_current_step"} \cup DOMAIN session[s].attrs
        /\ m.retry_current_step = again
        /\ \A n \in DOMAIN session[s].attrs \ {"retry_current_step"} :
              m[n] = session[s].attrs[n]
    BY <2>1 DEF ++
  <2>3. QED
    BY <1>1, <1>4, <2>1, <2>2 DEF OtpNotes, Attr, Value
<1>5. CASE session[s].step = 1 /\ m = [otp_auth_method |-> "authenticate"]
          ++ session[s].attrs
  <2>1. /\ DOMAIN m = {"otp_auth_method"} \cup DOMAIN session[s].attrs
        /\ m.otp_auth_method = "authenticate"
        /\ \A n \in DOMAIN session[s].attrs \ {"otp_auth_method"} :
              m[n] = session[s].attrs[n]
    BY <1>5 DEF ++
  <2>2. QED
    BY <1>1, <1>2, <1>5, <2>1, NoneIsNothing DEF OtpNotes, Attr, Value, OtpExtra
<1>6. CASE /\ session[s].step = 1 /\ Entry(s).uids = {}
           /\ m = [otp_auth_method |-> "enroll", otp_count_login_steps |-> 3]
                      ++ session[s].attrs
  <2>1. /\ DOMAIN m = {"otp_auth_method", "otp_count_login_steps"}
                         \cup DOMAIN session[s].attrs
        /\ m.otp_auth_method = "enroll" /\ m.otp_count_login_steps = 3
        /\ \A n \in DOMAIN session[s].attrs \ {"otp_auth_method",
              "otp_count_login_steps"} :
              m[n] = session[s].attrs[n]
    BY <1>6 DEF ++
  <2>2. QED
    BY <1>1, <1>2, <1>6, <2>1, NoneIsNothing DEF OtpNotes, Attr, Value, OtpExtra
<1>7. QED
  BY <1>3, <1>4, <1>5, <1>6 DEF OtpNoting

\* An answer of OTP.
LEMMA OtpAnswer ==
    ASSUME IInv, NEW s \in Session, script = "otp", Entrusted(s), NEW c,
           NEW reply \in BOOLEAN, IF reply THEN Answer(s, c) ELSE Refuse(s, c),
           session[s].stage \in {"page", "working"},
           DOMAIN c \subseteq {"user", "passed", "work", "fault"},
           "user" \in DOMAIN c => c.user = session[s].who,
           "fault" \in DOMAIN c => c.fault = TRUE,
           reply \/ "fault" \in DOMAIN c \/ Reason(s),
           "passed" \in DOMAIN c => session[s].passed \subseteq c.passed,
           NEW m, m = IF "work" \in DOMAIN c THEN c.work ELSE session[s].attrs,
           OtpNoting(s, m),
           reply /\ session[s].step = 1 =>
              "user" \in DOMAIN c /\ "passed" \in DOMAIN c /\ "password" \in c.passed,
           reply /\ session[s].step # 1 =>
              \/ "passed" \in DOMAIN c /\ "code" \in c.passed
              \/ /\ session[s].step = 2
                 /\ "otp_auth_method" \in DOMAIN m
                 /\ Attr(s, "otp_auth_method") = "enroll",
           \/ NotTaken(s) \/ "fault" \in DOMAIN c
           \/ /\ reply /\ session[s].step # 1
              /\ session[s].step = 2 => Attr(s, "otp_auth_method") # "enroll",
           reply /\ session[s].step = 2 /\ Attr(s, "otp_auth_method") = "enroll"
              /\ Value(m, "retry_current_step") # TRUE
              => Attr(s, "otp_secret_key") \in DOMAIN person'[session[s].who].app
    PROVE  StepInv(s)
<1>1. DOMAIN c \subseteq Changeable /\ "attrs" \notin DOMAIN c
  BY DEF Changeable
<1>2. Answered(s, c, reply)
  BY <1>1, AnsweredStep
<1>3. /\ session'[s].work = m /\ session'[s].attrs = session[s].attrs
      /\ session'[s].step = session[s].step /\ session'[s].who = session[s].who
      /\ session'[s].stage = "answered" /\ Well(s)' = reply
      /\ session'[s].passed = IF "passed" \in DOMAIN c THEN c.passed
                              ELSE session[s].passed
      /\ session'[s].user = IF "user" \in DOMAIN c THEN session[s].who
                            ELSE session[s].user
      /\ script' = "otp" /\ session[s].who \in Person
      /\ session[s].fault => session'[s].fault
      /\ "fault" \in DOMAIN c => session'[s].fault
  BY <1>1, <1>2 DEF Answered
<1>4. OtpLogin(s) /\ OtpTyped(s) /\ PasswordFirst(s) /\ ~Well(s)
  BY DEF IInv, LoginInv, Well
<1>5. PasswordFirst(s)'
  BY <1>3, <1>4 DEF PasswordFirst
<1>6. /\ OtpNotes(s, m)'
      /\ session[s].step = 1 => Value(m, "retry_current_step") = None
      /\ session[s].step # 1 /\ "otp_auth_method" \in DOMAIN m =>
            m.otp_auth_method = Attr(s, "otp_auth_method")
      /\ Value(m, "otp_secret_key") = Attr(s, "otp_secret_key")
      /\ "otp_secret_key" \in DOMAIN m =>
            m.otp_secret_key = Attr(s, "otp_secret_key")
      /\ Value(m, "otp_auth_method") = "enroll" =>
            \/ Attr(s, "otp_auth_method") = "enroll"
            \/ session[s].step = 1 /\ Entry(s).uids = {}
  BY <1>3, <1>4, OtpNoted
<1>7. \A n : Attr(s, n)' = Attr(s, n) /\ OnPage(s, n)' = Value(m, n)
  BY <1>3 DEF Attr, OnPage
<1>8. OtpNotes(s, session[s].attrs)' /\ OtpNotes(s, session[s].work)'
  BY <1>3, <1>4, <1>6 DEF OtpLogin, OtpNotes
<1>9. /\ Entry(s)'.app = person'[session[s].who].app
      /\ DOMAIN Entry(s).app \subseteq DOMAIN Entry(s)'.app
  BY <1>3 DEF Entry, Entrusted, Kept
<1>10. OtpTyped(s)'
  <2>1. CASE NotTaken(s)
    <3>1. s \in Entry(s)'.taken => s \in Entry(s).taken
      BY <1>3, <2>1 DEF NotTaken, Entry
    <3>2. QED
      BY <1>3, <1>4, <3>1 DEF OtpTyped, Ending
  <2>2. CASE "fault" \in DOMAIN c
    BY <1>3, <2>2 DEF OtpTyped
  <2>3. CASE /\ reply /\ session[s].step # 1
             /\ session[s].step = 2 => Attr(s, "otp_auth_method") # "enroll"
    <3>1. session[s].step = 2 => OnPage(s, "otp_auth_method")' # "enroll"
      BY <1>6, <1>7, <2>3
    <3>2. Ending(s)'
      BY <1>3, <2>3, <3>1 DEF Ending
    <3>3. QED
      BY <1>3, <3>2 DEF OtpTyped
  <2>4. QED
    BY <2>1, <2>2, <2>3
<1>11. session[s].step = 2 /\ Enrolling(s)' => Attr(s, "otp_auth_method") = "enroll"
  BY <1>6, <1>7 DEF Enrolling
<1>12. session[s].step = 2 /\ "otp_auth_method" \in DOMAIN m =>
          OnPage(s, "otp_auth_method")' = Attr(s, "otp_auth_method")
  BY <1>6, <1>7 DEF Value
<1>13. session'[s].step = 1 =>
          /\ OnPage(s, "retry_current_step")' = None
          /\ \A n \in OtpExtra : n \notin DOMAIN session'[s].attrs
  BY <1>3, <1>4, <1>6, <1>7 DEF OtpLogin
<1>14. session'[s].step # 1 /\ "otp_auth_method" \in DOMAIN session'[s].work =>
          session'[s].work.otp_auth_method = Attr(s, "otp_auth_method")'
  BY <1>3, <1>6, <1>7
<1>15. Well(s)' /\ session'[s].step # 1 =>
          \/ "code" \in session'[s].passed
          \/ session'[s].step = 2 /\ OnPage(s, "otp_auth_method")' = "enroll"
  BY <1>3, <1>12
<1>16. Well(s)' /\ session'[s].step = 2 /\ Enrolling(s)'
          /\ OnPage(s, "retry_current_step")' # TRUE =>
          /\ OnPage(s, "otp_secret_key")' = Attr(s, "otp_secret_key")'
          /\ Attr(s, "otp_secret_key")' \in DOMAIN Entry(s)'.app
  <2>1. SUFFICES ASSUME Well(s)', session'[s].step = 2, Enrolling(s)',
                        OnPage(s, "retry_current_step")' # TRUE
                 PROVE  /\ OnPage(s, "otp_secret_key")' = Attr(s, "otp_secret_key")'
                        /\ Attr(s, "otp_secret_key")'
                              \in DOMAIN Entry(s)'.app
    OBVIOUS
  <2>2. /\ reply /\ session[s].step = 2 /\ Attr(s, "otp_auth_method") = "enroll"
        /\ Value(m, "retry_current_step") # TRUE
    BY <1>3, <1>7, <1>11, <2>1
  <2>3. Attr(s, "otp_secret_key") \in DOMAIN person'[session[s].who].app
    BY <2>2
  <2>4. QED
    BY <1>6, <1>7, <1>9, <2>3
<1>17. session'[s].step = 3 =>
          /\ Attr(s, "otp_auth_method")' = "enroll"
          /\ Attr(s, "otp_secret_key")' \in DOMAIN Entry(s)'.app
          /\ "otp_secret_key" \in DOMAIN session'[s].work =>
                session'[s].work.otp_secret_key = Attr(s, "otp_secret_key")'
  BY <1>3, <1>4, <1>6, <1>7, <1>9 DEF OtpLogin
<1>18. OtpLogin(s)'
  <2>1. ~At(s, "page", 2)'
    BY <1>3 DEF At
  <2>2. QED
    BY <1>8, <1>13, <1>14, <1>15, <1>16, <1>17, <2>1 DEF OtpLogin
<1>19. QED
  BY <1>2, <1>3, <1>5, <1>10, <1>18, LoginOfScript DEF Answered

\* authenticate of otp, step 1: who has a key is asked for its code.
LEMMA OtpPasswordStep ==
    ASSUME IInv, NEW s \in Session, script = "otp", OtpPassword(s)
    PROVE  StepInv(s)
<1>1. Entrusted(s) /\ NotTaken(s) /\ At(s, "page", 1)
  BY AloneEntries DEF OtpPassword
<1>2. ASSUME NEW v, Answer(s, LoggedIn(s) ++ Setting(s, v)),
             OtpNoting(s, v ++ session[s].attrs)
      PROVE  StepInv(s)
  <2> DEFINE c == LoggedIn(s) ++ Setting(s, v)
  <2>1. /\ DOMAIN c = {"user", "passed", "work"} /\ c.user = session[s].who
        /\ c.passed = session[s].passed \cup {"password"}
        /\ c.work = v ++ session[s].attrs
    BY LoggedInSetting
  <2>2. Answer(s, c)
    BY <1>2
  <2> HIDE DEF c
  <2> DEFINE m == v ++ session[s].attrs
  <2>3. OtpNoting(s, m) /\ m = c.work
    BY <1>2, <2>1
  <2> HIDE DEF m
  <2>4. session[s].step # 2 /\ session[s].step = 1
    BY <1>1 DEF At
  <2>5. QED
    BY <1>1, <2>1, <2>2, <2>3, <2>4, OtpAnswer DEF At
<1>3. CASE Refuse(s, Fault)
  BY <1>1, <1>3, FaultFields, Refused DEF At
<1>4. CASE Registered(s) /\ Answer(s, LoggedIn(s)
                              ++ Setting(s, [otp_auth_method |-> "authenticate"]))
  BY <1>1, <1>2, <1>4 DEF OtpNoting, At
<1>5. CASE ~Registered(s) /\ Answer(s, LoggedIn(s) ++ Setting(s,
                 [otp_auth_method |-> "enroll", otp_count_login_steps |-> 3]))
  BY <1>1, <1>2, <1>5 DEF OtpNoting, At, Registered
<1>6. QED
  BY <1>3, <1>4, <1>5 DEF OtpPassword

\* The page of an enrollment: the key that it shows was made for this login.
LEMMA OtpKeyShown ==
    ASSUME IInv, NEW s \in Session, script = "otp", Alone, At(s, "prepare", 2),
           Attr(s, "otp_auth_method") = "enroll",
           Show(s, OtpExtra, [otp_secret_key |-> <<s, session[s].tries>>])
    PROVE  StepInv(s)
<1> DEFINE key == <<s, session[s].tries>>
           values == [otp_secret_key |-> key]
<1>1. Entrusted(s) /\ NotTaken(s)
  BY AloneEntries
<1>2. LoginInv(s) /\ LoginType(s) /\ OtpLogin(s) /\ PasswordFirst(s)
  BY DEF IInv, LoginInv
<1>3. Shown(s, OtpExtra, values) /\ LoginType(s)'
  BY <1>2, ShowEffect, ShownType DEF IInv
<1>5. DOMAIN values = {"otp_secret_key"} /\ values.otp_secret_key = key
  OBVIOUS
<1> HIDE DEF key, values
<1>6. /\ session'[s].who = session[s].who /\ session'[s].user = session[s].user
      /\ session'[s].step = 2 /\ session'[s].passed = session[s].passed
      /\ session'[s].fault = session[s].fault /\ session'[s].stage = "page" /\ ~Well(s)'
      /\ session'[s].work = values ++ session[s].attrs
  BY <1>3, ShownSame DEF At
<1>7. session'[s].attrs = Restrict(values, OtpExtra \cap DOMAIN values)
          ++ session[s].attrs
  BY <1>3 DEF Shown
<1>8. ASSUME NEW m \in {session'[s].work, session'[s].attrs}
      PROVE  /\ DOMAIN m = {"otp_secret_key"} \cup DOMAIN session[s].attrs
             /\ m.otp_secret_key = key
             /\ \A n \in DOMAIN session[s].attrs \ {"otp_secret_key"} :
                   m[n] = session[s].attrs[n]
  BY <1>5, <1>6, <1>7 DEF ++, Restrict, OtpExtra
<1>9. ASSUME NEW m \in {session'[s].work, session'[s].attrs} PROVE OtpNotes(s, m)'
  <2>1. OtpNotes(s, session[s].attrs)
    BY <1>2 DEF OtpLogin
  <2>2. QED
    BY <1>6, <1>8, <2>1 DEF OtpNotes, Value
<1>10. /\ Attr(s, "otp_secret_key")' = key /\ OnPage(s, "otp_secret_key")' = key
       /\ Attr(s, "otp_auth_method")' = "enroll"
       /\ "otp_auth_method" \in DOMAIN session'[s].work =>
             session'[s].work.otp_auth_method = "enroll"
  BY <1>8, NoneIsNothing DEF Attr, OnPage, Value
<1>11. script' = script /\ Entry(s)' = Entry(s)
  BY <1>6 DEF Alone, Entry
<1>12. OtpTyped(s)'
  <2>1. OtpTyped(s) /\ ~Ending(s) /\ session[s].stage = "prepare"
    BY <1>2 DEF LoginInv, Ending, Well, At
  <2>2. QED
    BY <1>6, <1>11, <2>1 DEF OtpTyped
<1>13. OtpLogin(s)'
  <2>1. OtpNotes(s, session[s].work)' /\ OtpNotes(s, session[s].attrs)'
    BY <1>9 DEF OtpNotes
  <2>3. session'[s].step # 1 /\ session'[s].step # 3
    BY <1>6
  <2>4. QED
    BY <1>6, <1>10, <1>11, <2>1, <2>3 DEF OtpLogin
<1>14. PasswordFirst(s)'
  BY <1>2, <1>6, <1>11 DEF PasswordFirst, At
<1>15. Ends(s)'
  BY <1>6 DEF Ends, Badly
<1>16. QED
  BY <1>1, <1>3, <1>12, <1>13, <1>14, <1>15, <1>11, LoginOfScript
     DEF StepInv, Shown, Entrusted, EntriesInv

\* prepareForStep of otp: step 2 of an enrollment makes the key.
LEMMA OtpPrepareStep ==
    ASSUME IInv, NEW s \in Session, script = "otp", OtpPrepare(s)
    PROVE  StepInv(s)
<1>1. Entrusted(s) /\ NotTaken(s) /\ Alone
  BY AloneEntries DEF OtpPrepare
<1>2. CASE PlainFirstPage(s, OtpExtra)
  BY <1>1, <1>2, FirstPage
<1>3. ASSUME session[s].stage = "prepare", Show(s, OtpExtra, <<>>),
             session[s].step = 2 => Attr(s, "otp_auth_method") # "enroll"
      PROVE  StepInv(s)
  <2>1. DOMAIN <<>> \subseteq Told
    OBVIOUS
  <2>2. QED
    BY <1>1, <1>3, <2>1, Paged
<1>4. CASE At(s, "prepare", 2) /\ Show(s, OtpExtra,
          IF Attr(s, "otp_auth_method") = "enroll"
                    THEN [otp_secret_key |-> <<s, session[s].tries>>] ELSE <<>>)
  BY <1>1, <1>3, <1>4, OtpKeyShown DEF At
<1>5. CASE At(s, "prepare", 3) /\ Show(s, OtpExtra, <<>>)
  BY <1>1, <1>3, <1>5 DEF At
<1>6. QED
  BY <1>2, <1>4, <1>5 DEF OtpPrepare

\* What is noted of a repetition.
LEMMA OtpRetry ==
    ASSUME NEW s, NEW again \in BOOLEAN, session[s].step # 1, again => session'[s].fault
    PROVE  OtpNoting(s, [retry_current_step |-> again] ++ session[s].attrs)
BY DEF OtpNoting

\* The application has taken the key of the page.
LEMMA OtpScanned ==
    ASSUME IInv, NEW s \in Session, script = "otp", At(s, "page", 2),
           Attr(s, "otp_auth_method") = "enroll",
           Answer(s, Setting(s, [retry_current_step |-> FALSE])),
           SetEntry(s, [app |-> Entry(s).app ++ Single(OnPage(s, "otp_secret_key"), 1)])
    PROVE  StepInv(s)
<1> DEFINE key == OnPage(s, "otp_secret_key")
           app == Entry(s).app ++ Single(key, 1)
           d == [app |-> app]
           e == d ++ Entry(s)
           noted == [retry_current_step |-> FALSE]
           m == noted ++ session[s].attrs
           c == Setting(s, noted)
<1>1. /\ OtpLogin(s) /\ session[s].who \in Person /\ KeysOf(Entry(s))
      /\ DOMAIN Entry(s) = EntryFields
  BY DEF IInv, LoginInv, LoginType, EntriesInv, People, OtpKeys, KeysOf, Entry
<1>2. key = Attr(s, "otp_secret_key")
  BY <1>1 DEF OtpLogin, Enrolling, At
<1>3. /\ DOMAIN app = {key} \cup DOMAIN Entry(s).app
      /\ \A k \in DOMAIN Entry(s).app : app[k] = Entry(s).app[k]
      /\ key \notin DOMAIN Entry(s).app => app[key] = 1
  BY DEF ++, Single
<1>4. /\ DOMAIN d = {"app"} /\ e.app = app
      /\ \A f \in EntryFields \ {"app"} : e[f] = Entry(s)[f]
  BY <1>1 DEF ++
<1>14. SetEntry(s, d)
  OBVIOUS
<1> HIDE DEF key, app, d, e
<1>15. OtpLeft(s, e)
  <2>1. \A k \in DOMAIN app : app[k] \in Nat \ {0}
    BY <1>1, <1>3 DEF KeysOf
  <2>2. e.uids = Entry(s).uids /\ e.cached = Entry(s).cached /\ e.taken = Entry(s).taken
    BY <1>4 DEF EntryFields
  <2>3. KeysOf(e)
    BY <1>1, <1>3, <1>4, <2>1, <2>2 DEF KeysOf
  <2>4. QED
    BY <1>3, <1>4, <2>2, <2>3 DEF OtpLeft
<1>5. Entrusted(s) /\ NotTaken(s) /\ key \in DOMAIN person'[session[s].who].app
  <2>1. Entrusted(s) /\ person'[session[s].who] = e
    BY <1>4, <1>14, <1>15, OtpEntrySet DEF e
  <2>2. \A q \in Person \ {session[s].who} : person'[q] = person[q]
    BY <1>14, <1>1 DEF SetEntry, IInv, EntriesInv, People
  <2>3. e.taken = person[session[s].who].taken
    BY <1>4 DEF EntryFields, Entry
  <2>4. NotTaken(s)
    BY <2>1, <2>2, <2>3 DEF NotTaken
  <2>5. QED
    BY <1>3, <1>4, <2>1, <2>4
<1>6. DOMAIN c = {"work"} /\ c.work = m
  BY DEF Setting
<1>7. OtpNoting(s, m)
  <2>1. session[s].step # 1
    BY DEF At
  <2>2. QED
    BY <2>1 DEF OtpNoting
<1>8. /\ "otp_auth_method" \in DOMAIN m
  BY NoneIsNothing DEF Attr, Value, ++
<1>9. Answer(s, c)
  OBVIOUS
<1> HIDE DEF c, m
<1>10. session[s].step = 2 /\ session[s].step # 1 /\ session[s].stage = "page"
  BY DEF At
<1>11. /\ DOMAIN c \subseteq {"user", "passed", "work", "fault"}
       /\ "user" \notin DOMAIN c /\ "fault" \notin DOMAIN c /\ "passed" \notin DOMAIN c
       /\ m = IF "work" \in DOMAIN c THEN c.work ELSE session[s].attrs
  BY <1>6
<1>12. Attr(s, "otp_secret_key") \in DOMAIN person'[session[s].who].app
  BY <1>2, <1>5
<1>13. QED
  BY <1>5, <1>7, <1>8, <1>9, <1>10, <1>11, <1>12, OtpAnswer

\* authenticate of otp, step 2 of an enrollment: the key was scanned, or not.
LEMMA OtpScanStep ==
    ASSUME IInv, NEW s \in Session, script = "otp", OtpScan(s)
    PROVE  StepInv(s)
<1> DEFINE Again(b) == [retry_current_step |-> b]
           c(b) == Fault ++ Setting(s, Again(b))
<1>1. At(s, "page", 2) /\ Attr(s, "otp_auth_method") = "enroll"
  BY DEF OtpScan
<1>2. ASSUME NEW again \in BOOLEAN, NEW reply \in BOOLEAN, Alone,
             IF reply THEN Answer(s, c(again)) ELSE Refuse(s, c(again)), reply => again
      PROVE  StepInv(s)
  <2>1. Entrusted(s) /\ NotTaken(s)
    BY <1>2, AloneEntries
  <2> DEFINE d == c(again)
             m == Again(again) ++ session[s].attrs
  <2>2. DOMAIN d = {"fault", "work"} /\ d.fault = TRUE /\ d.work = m
    BY FaultSetting
  <2>3. IF reply THEN Answer(s, d) ELSE Refuse(s, d)
    BY <1>2
  <2>4. "otp_auth_method" \in DOMAIN m /\ Value(m, "retry_current_step") = again
    BY <1>1, NoneIsNothing DEF Attr, Value, ++
  <2> HIDE DEF d
  <2>5. Answered(s, d, reply)
    BY <2>1, <2>2, <2>3, AnsweredStep DEF Changeable
  <2>6. OtpNoting(s, m)
    BY <1>1, <2>2, <2>5, OtpRetry DEF At, Answered
  <2> HIDE DEF m
  <2>7. session[s].step = 2 /\ session[s].step # 1 /\ session[s].stage = "page"
    BY <1>1 DEF At
  <2>8. /\ DOMAIN d \subseteq {"user", "passed", "work", "fault"}
        /\ "user" \notin DOMAIN d /\ "fault" \in DOMAIN d /\ "passed" \notin DOMAIN d
        /\ m = IF "work" \in DOMAIN d THEN d.work ELSE session[s].attrs
    BY <2>2
  <2>9. reply => Value(m, "retry_current_step") = TRUE
    BY <1>2, <2>4
  <2>10. QED
    BY <1>1, <2>1, <2>2, <2>3, <2>4, <2>6, <2>7, <2>8, <2>9, OtpAnswer
<1>3. CASE Answer(s, c(TRUE)) /\ Alone
  BY <1>2, <1>3
<1>4. CASE Refuse(s, c(FALSE)) /\ Alone
  BY <1>2, <1>4
<1>5. CASE /\ Answer(s, Setting(s, Again(FALSE)))
           /\ SetEntry(s, [app |-> Entry(s).app
                 ++ Single(OnPage(s, "otp_secret_key"), 1)])
  BY <1>1, <1>5, OtpScanned
<1>6. QED
  BY <1>3, <1>4, <1>5 DEF OtpScan

\* What the answer to a code notes for the next step.
LEMMA OtpChanging ==
    ASSUME NEW s, NEW m, m = IF session[s].step = 2
                             THEN [retry_current_step |-> FALSE] ++ session[s].attrs
                             ELSE session[s].attrs
    PROVE  /\ OtpNoting(s, m)
           /\ DOMAIN NotAgain(s) = IF session[s].step = 2 THEN {"work"} ELSE {}
           /\ session[s].step = 2 => NotAgain(s).work = m
<1>1. OtpNoting(s, m)
  <2>1. CASE session[s].step = 2
    <3>1. session[s].step # 1
      BY <2>1
    <3>2. QED
      BY <2>1, <3>1 DEF OtpNoting
  <2>2. CASE session[s].step # 2
    BY <2>2 DEF OtpNoting
  <2>3. QED
    BY <2>1, <2>2
<1>2. QED
  BY <1>1 DEF NotAgain, Setting

\* A code is right, for an enrollment of the entry or of the session ...
LEMMA OtpWell ==
    ASSUME IInv, NEW s \in Session, script = "otp", session[s].stage = "working",
           Entrusted(s), Answer(s, Passing(s, "code") ++ NotAgain(s))
    PROVE  StepInv(s)
<1> DEFINE n == NotAgain(s)
           m == IF session[s].step = 2
                THEN [retry_current_step |-> FALSE] ++ session[s].attrs
                ELSE session[s].attrs
           ok == Passing(s, "code") ++ n
<1>1. /\ OtpNoting(s, m)
      /\ DOMAIN n = IF session[s].step = 2 THEN {"work"} ELSE {}
      /\ session[s].step = 2 => n.work = m
      /\ session[s].step # 2 => m = session[s].attrs
  BY OtpChanging
<1>2. Answer(s, ok)
  OBVIOUS
<1> HIDE DEF n, m
<1>3. /\ DOMAIN ok = {"passed"} \cup DOMAIN n
      /\ ok.passed = session[s].passed \cup {"code"}
      /\ "work" \in DOMAIN n => ok.work = n.work
  BY <1>1 DEF Passing, ++
<1> HIDE DEF ok
<1>4. /\ session[s].step # 1
      /\ session[s].step = 2 => Attr(s, "otp_auth_method") # "enroll"
  BY DEF IInv, LoginInv, OtpTyped
<1>5. /\ DOMAIN ok \subseteq {"user", "passed", "work", "fault"}
      /\ "user" \notin DOMAIN ok /\ "fault" \notin DOMAIN ok
      /\ "passed" \in DOMAIN ok /\ "code" \in ok.passed
      /\ session[s].passed \subseteq ok.passed
      /\ m = IF "work" \in DOMAIN ok THEN ok.work ELSE session[s].attrs
  BY <1>1, <1>3
<1>6. IF TRUE THEN Answer(s, ok) ELSE Refuse(s, ok)
  BY <1>2
<1>7. QED
  BY <1>1, <1>4, <1>5, <1>6, OtpAnswer

\* ... or it is refused, for a reason now or before.
LEMMA OtpBadly ==
    ASSUME IInv, NEW s \in Session, script = "otp", session[s].step # 1,
           session[s].stage \in {"page", "working"}, Entrusted(s),
           \/ Refuse(s, Fault ++ NotAgain(s))
           \/ Refuse(s, NotAgain(s)) /\ Reason(s) /\ NotTaken(s)
    PROVE  StepInv(s)
<1> DEFINE n == NotAgain(s)
           m == IF session[s].step = 2
                THEN [retry_current_step |-> FALSE] ++ session[s].attrs
                ELSE session[s].attrs
           bad == Fault ++ n
<1>1. /\ OtpNoting(s, m)
      /\ DOMAIN n = IF session[s].step = 2 THEN {"work"} ELSE {}
      /\ session[s].step = 2 => n.work = m
      /\ session[s].step # 2 => m = session[s].attrs
  BY OtpChanging
<1> HIDE DEF n, m
<1>2. /\ DOMAIN bad = {"fault"} \cup DOMAIN n /\ bad.fault = TRUE
      /\ "work" \in DOMAIN n => bad.work = n.work
  BY <1>1, FaultFields DEF ++
<1>3. Refuse(s, bad) \/ (Refuse(s, n) /\ Reason(s) /\ NotTaken(s))
  BY DEF n
<1> HIDE DEF bad
<1>4. CASE Refuse(s, bad)
  <2>1. /\ DOMAIN bad \subseteq {"user", "passed", "work", "fault"}
        /\ "user" \notin DOMAIN bad /\ "fault" \in DOMAIN bad
        /\ "passed" \notin DOMAIN bad
        /\ m = IF "work" \in DOMAIN bad THEN bad.work ELSE session[s].attrs
    BY <1>1, <1>2
  <2>2. QED
    BY <1>1, <1>2, <1>4, <2>1, OtpAnswer
<1>5. CASE Refuse(s, n) /\ Reason(s) /\ NotTaken(s)
  <2>1. /\ DOMAIN n \subseteq {"user", "passed", "work", "fault"}
        /\ "user" \notin DOMAIN n /\ "fault" \notin DOMAIN n
        /\ "passed" \notin DOMAIN n
        /\ m = IF "work" \in DOMAIN n THEN n.work ELSE session[s].attrs
    BY <1>1
  <2>2. QED
    BY <1>1, <1>5, <2>1, OtpAnswer
<1>6. QED
  BY <1>3, <1>4, <1>5

\* authenticate of otp with a code, up to what it writes.  A code that was right
\* once is refused because a code of another login was taken.
LEMMA OtpSearchStep ==
    ASSUME IInv, NEW s \in Session, script = "otp", OtpSearch(s)
    PROVE  StepInv(s)
<1>1. /\ Alone /\ Entrusted(s) /\ NotTaken(s) /\ session[s].stage = "page"
      /\ \/ session[s].step = 2 /\ Attr(s, "otp_auth_method") # "enroll"
         \/ session[s].step = 3 /\ Attr(s, "otp_auth_method") = "enroll"
  BY AloneEntries DEF OtpSearch, AtCodePage, At
<1>2. /\ LoginInv(s) /\ LoginType(s) /\ OtpLogin(s) /\ OtpTyped(s) /\ PasswordFirst(s)
      /\ KeysOf(Entry(s)) /\ session[s].who \in Person /\ Shape
  BY DEF IInv, LoginInv, LoginType, EntriesInv, OtpKeys, KeysOf, Entry
<1>3. ASSUME NEW key \in DOMAIN Entry(s).app, NEW code \in Codes(s, key),
             Hotp => Past(s, key, code),
             ~Hotp => Past(s, key, code),
             ~session[s].fault
      PROVE  CodeTaken(s)
  <2>1. Entry(s).taken # {}
    <3>1. CASE ~Hotp
      BY <1>2, <1>3, <3>1 DEF Past, KeysOf
    <3>2. CASE Hotp
      <4>1. PICK e \in Enrollments(s) : e.key = key /\ code < e.factor
        BY <1>3, <3>2 DEF Past
      <4>2. code \in Nat /\ code >= 1
        BY <1>2, <3>2 DEF Codes, KeysOf
      <4>3. Attr(s, "otp_auth_method") # "enroll"
        <5>1. SUFFICES ASSUME Attr(s, "otp_auth_method") = "enroll" PROVE FALSE
          OBVIOUS
        <5>2. e.factor = 1
          BY <4>1, <5>1 DEF Enrollments
        <5>3. QED
          BY <4>1, <4>2, <5>2
      <4>4. e \in Entry(s).uids /\ e.factor \in Nat
        BY <1>2, <4>1, <4>3 DEF Enrollments, KeysOf
      <4>5. e.factor > 1
        BY <4>1, <4>2, <4>4
      <4>6. QED
        BY <1>2, <4>4, <4>5 DEF KeysOf
    <3>3. QED
      BY <3>1, <3>2
  <2>2. s \notin Entry(s).taken
    BY <1>1, <1>2, <1>3 DEF OtpTyped, Ending, Well
  <2>3. QED
    BY <2>1, <2>2 DEF CodeTaken
<1>4. ASSUME NEW key \in DOMAIN Entry(s).app, NEW code \in Codes(s, key),
             Past(s, key, code), Refuse(s, NotAgain(s))
      PROVE  StepInv(s)
  <2>1. Reason(s)
    BY <1>3, <1>4 DEF Reason
  <2>2. QED
    BY <1>1, <1>4, <2>1, OtpBadly
<1>5. ASSUME NEW key \in DOMAIN Entry(s).app, NEW code \in Codes(s, key), NEW found,
             Become(s, [stage |-> "working"] ++ Setting(s,
                          [found |-> found, key |-> key, code |-> code]))
      PROVE  StepInv(s)
  <2> DEFINE noted == [found |-> found, key |-> key, code |-> code]
             c == [stage |-> "working"] ++ Setting(s, noted)
             m == noted ++ session[s].attrs
  <2>1. DOMAIN c = {"stage", "work"} /\ DOMAIN c \subseteq Fields /\ c.stage = "working"
        /\ c.work = m
    BY DEF ++, Setting, Fields
  <2>2. /\ DOMAIN m = {"found", "key", "code"} \cup DOMAIN session[s].attrs
        /\ m.key = key /\ m.code = code
        /\ \A n \in DOMAIN session[s].attrs \ {"found", "key", "code"} :
              m[n] = session[s].attrs[n]
    BY DEF ++
  <2>3. Become(s, c)
    BY <1>5
  <2> HIDE DEF c, m, noted
  <2>4. /\ Shape' /\ Others(s) /\ Same(s, Fields \ DOMAIN c)
        /\ session'[s].stage = "working" /\ session'[s].work = m
    BY <1>2, <2>1, <2>3, BecomeEffect
  <2>5. /\ session'[s].who = session[s].who /\ session'[s].user = session[s].user
        /\ session'[s].step = session[s].step /\ session'[s].passed = session[s].passed
        /\ session'[s].fault = session[s].fault /\ session'[s].attrs = session[s].attrs
        /\ session'[s].reply = session[s].reply /\ session'[s].tries = session[s].tries
        /\ ~Well(s)' /\ ~Badly(s)'
    BY <2>1, <2>4 DEF Same, Fields, Well, Badly
  <2>6. /\ script' = script /\ Entry(s)' = Entry(s) /\ Hotp' = Hotp
        /\ \A n : Attr(s, n)' = Attr(s, n)
        /\ \A n \in OtpExtra : OnPage(s, n)' = Attr(s, n)
                /\ (n \in DOMAIN m <=> n \in DOMAIN session[s].attrs)
                /\ (n \in DOMAIN m => m[n] = Attr(s, n))
    BY <1>1, <2>2, <2>4, <2>5
       DEF Alone, Entry, Hotp, Attr, OnPage, Value, OtpExtra
  <2>7. LoginType(s)'
    BY <1>2, <2>4, <2>5 DEF LoginType, Stages
  <2>8. Ends(s)' /\ PasswordFirst(s)'
    BY <1>1, <1>2, <2>4, <2>5, <2>6 DEF Ends, PasswordFirst
  <2>9. OtpTyped(s)'
    <3>1. Hotp => code \in Nat /\ code < Entry(s).app[key]
      BY <1>2 DEF Codes, KeysOf
    <3>2. s \in Entry(s).taken => session[s].fault
      BY <1>1, <1>2 DEF OtpTyped, Ending, Well
    <3>3. QED
      BY <1>1, <2>2, <2>4, <2>5, <2>6, <3>1, <3>2 DEF OtpTyped
  <2>10. OtpNotes(s, session[s].work)' /\ OtpNotes(s, session[s].attrs)'
    <3>1. OtpNotes(s, session[s].attrs)
      BY <1>2 DEF OtpLogin
    <3>2. OtpNotes(s, session[s].attrs)'
      BY <2>5, <3>1 DEF OtpNotes
    <3>3. {"otp_auth_method", "otp_count_login_steps", "otp_secret_key",
           "retry_current_step"} = OtpExtra
      BY DEF OtpExtra
    <3>4. OtpNotes(s, session[s].work)'
      BY <2>4, <2>5, <2>6, <3>1, <3>3, NoneIsNothing DEF OtpNotes, Value, Attr
    <3>5. QED
      BY <3>2, <3>4
  <2>11. OtpLogin(s)'
    <3>1. "otp_auth_method" \in OtpExtra /\ "otp_secret_key" \in OtpExtra
      BY DEF OtpExtra
    <3>2. ~At(s, "page", 2)' /\ session'[s].step # 1
      BY <1>1, <2>4, <2>5 DEF At
    <3>3. session[s].step = 3 =>
             /\ Attr(s, "otp_auth_method") = "enroll"
             /\ Attr(s, "otp_secret_key") \in DOMAIN Entry(s).app
      BY <1>2 DEF OtpLogin
    <3>4. QED
      BY <2>4, <2>5, <2>6, <2>10, <3>1, <3>2, <3>3 DEF OtpLogin
  <2>12. QED
    BY <1>1, <2>4, <2>6, <2>7, <2>8, <2>9, <2>11, LoginOfScript
       DEF StepInv, Entrusted, EntriesInv
<1>6. CASE Refuse(s, Fault ++ NotAgain(s))
  BY <1>1, <1>6, OtpBadly
<1>7. QED
  BY <1>4, <1>5, <1>6 DEF OtpSearch

\* What is written then, over whatever other logins have written.
LEMMA OtpReplaceStep ==
    ASSUME IInv, NEW s \in Session, script = "otp", OtpReplace(s)
    PROVE  StepInv(s)
<1> DEFINE work == session[s].work
           old == Entry(s)
           new == Advanced(work.key, work.code)
<1>1. session[s].stage = "working" /\ session[s].step # 1
  BY DEF OtpReplace, IInv, LoginInv, OtpTyped
<1>2. /\ OtpTyped(s) /\ KeysOf(old) /\ DOMAIN old = EntryFields
  BY DEF IInv, LoginInv, LoginType, EntriesInv, People, OtpKeys, KeysOf, Entry
<1>3. /\ work.key \in DOMAIN old.app /\ old.app[work.key] \in Nat \ {0}
      /\ Hotp => work.code \in Nat /\ work.code < old.app[work.key]
  BY <1>1, <1>2 DEF OtpTyped, KeysOf
<1>4. /\ new.key \in DOMAIN old.app /\ new.factor \in Nat
      /\ new.factor <= old.app[new.key]
  <2>1. new.key = work.key /\ new.factor = IF Hotp THEN work.code + 1 ELSE 1
    BY DEF Advanced
  <2> HIDE DEF new
  <2>2. QED
    BY <1>3, <2>1
<1> HIDE DEF new
<1>5. ASSUME NEW c, DOMAIN c \subseteq {"cached", "uids", "taken"}, SetEntry(s, c),
             NEW e, e = c ++ old, e.app = old.app,
             \A u \in e.uids : u \in old.uids \cup {new},
             old.uids # {} => e.uids # {},
             old.taken \subseteq e.taken, e.taken \subseteq old.taken \cup {s},
             e.taken # {} \/ (e.cached = old.cached /\ e.uids = old.uids)
      PROVE  Entrusted(s)
  <2>1. KeysOf(e)
    <3>1. \A k \in DOMAIN e.app : e.app[k] \in Nat \ {0}
      BY <1>2, <1>5 DEF KeysOf
    <3>2. \A u \in e.uids : /\ u.key \in DOMAIN e.app /\ u.factor \in Nat
                             /\ u.factor <= e.app[u.key]
      BY <1>2, <1>4, <1>5 DEF KeysOf
    <3>3. e.cached \/ (\E u \in e.uids : u.factor > 1) => e.taken # {}
      BY <1>2, <1>5 DEF KeysOf
    <3>4. QED
      BY <3>1, <3>2, <3>3 DEF KeysOf
  <2>2. OtpLeft(s, e)
    BY <1>5, <2>1 DEF OtpLeft
  <2>3. QED
    BY <1>5, <2>2, OtpEntrySet
<1>6. PICK kept \in IF Hotp THEN {FALSE} ELSE {Entry(s).cached, TRUE} :
        \/ \E e \in work.found :
              /\ Answer(s, Passing(s, "code") ++ NotAgain(s))
              /\ SetEntry(s, [cached |-> kept, uids |-> (old.uids \ {e}) \cup {new}]
                                ++ [taken |-> old.taken \cup {s}])
        \/ /\ Refuse(s, Fault ++ NotAgain(s))
           /\ SetEntry(s, IF kept THEN [cached |-> TRUE]
                                         ++ [taken |-> old.taken \cup {s}] ELSE <<>>)
  BY DEF OtpReplace, new
<1>7. ASSUME NEW u, Answer(s, Passing(s, "code") ++ NotAgain(s)),
             SetEntry(s, [cached |-> kept, uids |-> (old.uids \ {u}) \cup {new}]
                                ++ [taken |-> old.taken \cup {s}])
      PROVE  StepInv(s)
  <2> DEFINE c == [cached |-> kept, uids |-> (old.uids \ {u}) \cup {new}]
                     ++ [taken |-> old.taken \cup {s}]
             e == c ++ old
  <2>1. /\ DOMAIN c = {"cached", "uids", "taken"}
        /\ c.uids = (old.uids \ {u}) \cup {new} /\ c.taken = old.taken \cup {s}
    BY DEF ++
  <2>2. SetEntry(s, c)
    BY <1>7
  <2> HIDE DEF c
  <2>3. e.app = old.app /\ e.uids = c.uids /\ e.taken = c.taken
    BY <1>2, <2>1 DEF ++, EntryFields
  <2> HIDE DEF e, old
  <2>4. Entrusted(s)
    BY <1>5, <2>1, <2>2, <2>3 DEF e
  <2>5. QED
    BY <1>1, <1>7, <2>4, OtpWell
<1>8. ASSUME Refuse(s, Fault ++ NotAgain(s)),
             SetEntry(s, IF kept THEN [cached |-> TRUE]
                                         ++ [taken |-> old.taken \cup {s}] ELSE <<>>)
      PROVE  StepInv(s)
  <2> DEFINE c == IF kept THEN [cached |-> TRUE] ++ [taken |-> old.taken \cup {s}]
                  ELSE <<>>
             e == c ++ old
  <2>1. /\ DOMAIN c = IF kept THEN {"cached", "taken"} ELSE {}
        /\ kept => c.taken = old.taken \cup {s}
    BY DEF ++
  <2>2. SetEntry(s, c)
    BY <1>8
  <2> HIDE DEF c
  <2>3. /\ e.app = old.app /\ e.uids = old.uids
        /\ kept => e.taken = old.taken \cup {s}
        /\ ~kept => e.taken = old.taken /\ e.cached = old.cached
    BY <1>2, <2>1 DEF ++, EntryFields
  <2> HIDE DEF e, old
  <2>4. Entrusted(s)
    BY <1>5, <2>1, <2>2, <2>3 DEF e
  <2>5. QED
    BY <1>1, <1>8, <2>4, OtpBadly
<1>9. QED
  BY <1>6, <1>7, <1>8

\* The server after a step of otp: again, to the code, or to the end.
LEMMA OtpProceeds ==
    ASSUME IInv, NEW s \in Session, script = "otp", Proceed(s)
    PROVE  StepInv(s)
<1> DEFINE work == session[s].work
           extra == [step \in Nat |-> getExtraParametersForStep(step)]
           count == OtpCount(work)
           next == OtpNext(s, work)
           r == session[s].step
<1>1. Forward(s, work, next, count, extra) /\ session[s].stage = "answered"
  BY DEF Proceed, getNextStep, getCountAuthenticationSteps, Repeated, Forward
<1>2. /\ LoginInv(s) /\ LoginType(s) /\ r \in 1..3 /\ OtpLogin(s) /\ PasswordFirst(s)
      /\ OtpNotes(s, work) /\ OtpNotes(s, session[s].attrs)
  BY DEF IInv, LoginInv, LoginType, OtpLogin
<1>3. \A x \in Nat : extra[x] = OtpExtra
  BY DEF getExtraParametersForStep
<1>4. /\ count \in {2, 3}
      /\ count = 3 <=> OnPage(s, "otp_auth_method") = "enroll"
  BY <1>2, NoneIsNothing DEF OtpCount, OtpNotes, Value, OnPage
<1>5. /\ next \in {0, r}
      /\ next # 0 <=> OnPage(s, "retry_current_step") = TRUE
      /\ next # 0 => session[s].fault /\ r # 1
  <2>1. next = IF OnPage(s, "retry_current_step") = TRUE THEN r ELSE 0
    BY DEF OtpNext, OnPage
  <2>2. OnPage(s, "retry_current_step") = TRUE => session[s].fault
    BY <1>2 DEF OtpNotes, OnPage
  <2>3. OnPage(s, "retry_current_step") = TRUE => r # 1
    BY <1>2, NoneIsNothing DEF OtpLogin
  <2> HIDE DEF next
  <2>4. QED
    BY <1>2, <2>1, <2>2, <2>3
<1> HIDE DEF count, extra, next
<1>6. ASSUME Well(s), r >= count PROVE Through(s)
  <2>1. r # 1 /\ ~(r = 2 /\ OnPage(s, "otp_auth_method") = "enroll")
    BY <1>2, <1>4, <1>6
  <2>2. "code" \in session[s].passed
    BY <1>2, <1>6, <2>1 DEF OtpLogin
  <2>3. QED
    BY <1>2, <2>1, <2>2 DEF PasswordFirst, Through, Demanded
<1>7. ASSUME Entrusted(s), NotTaken(s), NEW x \in 1..3, Gone(s, work, x, extra[x]),
             \/ x = r /\ r # 1 /\ session[s].tries + 1 < MaxTries /\ next # 0
             \/ x = r + 1 /\ r < count /\ Well(s) /\ next = 0
      PROVE  StepInv(s)
  <2>1. extra[x] = OtpExtra
    BY <1>3
  <2>2. x > r \/ session[s].tries + 1 < MaxTries
    BY <1>2, <1>7
  <2>3. WentTo(s, work, x, OtpExtra)
    BY <1>7, <2>1, <2>2, WentToStep
  <2>4. /\ \A n \in OtpExtra : /\ Attr(s, n)' = IF n \in DOMAIN work THEN work[n]
                                                ELSE Attr(s, n)
                               /\ n \in DOMAIN session'[s].attrs <=>
                                     n \in DOMAIN work \cup DOMAIN session[s].attrs
                               /\ n \in DOMAIN session'[s].attrs =>
                                     session'[s].attrs[n]
                                         = IF n \in DOMAIN work THEN work[n]
                                                            ELSE session[s].attrs[n]
    <3>1. session'[s].attrs = Restrict(work, OtpExtra \cap DOMAIN work)
              ++ session[s].attrs
      BY <2>3 DEF WentTo
    <3>2. QED
      BY <2>3, <3>1 DEF WentTo, Restrict, ++
  <2>5. /\ session'[s].step = x /\ session'[s].work = <<>>
        /\ session'[s].stage = "prepare"
        /\ ~Well(s)' /\ session'[s].who = session[s].who
        /\ session'[s].fault = session[s].fault
        /\ session'[s].user = session[s].user /\ session'[s].passed = session[s].passed
        /\ \A n : OnPage(s, n)' = None
        /\ script' = "otp" /\ session[s].who \in Person
    BY <2>3 DEF WentTo
  <2>6. PasswordFirst(s)'
    BY <1>2, <1>7, <2>5 DEF PasswordFirst
  <2>7. {"otp_auth_method", "otp_count_login_steps", "otp_secret_key",
         "retry_current_step"} = OtpExtra
    BY DEF OtpExtra
  <2>8. OtpNotes(s, session[s].attrs)'
    <3>1. r # 1 /\ "otp_auth_method" \in DOMAIN work =>
             work.otp_auth_method = Attr(s, "otp_auth_method")
      BY <1>2 DEF OtpLogin
    <3>2. r = 1 => \A n \in OtpExtra : n \notin DOMAIN session[s].attrs
      BY <1>2 DEF OtpLogin
    <3>3. Value(session'[s].attrs, "otp_auth_method") = "enroll"
             <=> "otp_count_login_steps" \in DOMAIN session'[s].attrs
      BY <1>2, <2>4, <2>7, <3>1, <3>2, NoneIsNothing DEF OtpNotes, Value, Attr
    <3>4. /\ "otp_count_login_steps" \in DOMAIN session'[s].attrs =>
                session'[s].attrs.otp_count_login_steps = 3
          /\ Value(session'[s].attrs, "retry_current_step") = TRUE => session'[s].fault
      BY <1>2, <2>4, <2>5, <2>7, NoneIsNothing DEF OtpNotes, Value
    <3>5. QED
      BY <3>3, <3>4 DEF OtpNotes
  <2>9. OtpNotes(s, session[s].work)'
    <3>1. DOMAIN session'[s].work = {}
      BY <2>5
    <3>2. QED
      BY <3>1, NoneIsNothing DEF OtpNotes, Value
  <2>10. x # 1
    BY <1>2, <1>7
  <2>12. Enrolling(s)' => Enrolling(s) /\ Attr(s, "otp_auth_method")' = "enroll"
    BY <2>4, <2>5, <2>7, NoneIsNothing DEF Enrolling, OnPage, Value
  <2>13. DOMAIN Entry(s).app \subseteq DOMAIN Entry(s)'.app
    BY <1>7, <2>5 DEF Entrusted, Kept, Entry
  <2>14. OtpTyped(s)'
    <3>1. s \in Entry(s)'.taken => s \in Entry(s).taken
      BY <1>7, <2>5 DEF NotTaken, Entry
    <3>2. s \in Entry(s).taken => session[s].fault \/ Ending(s)
      BY <1>1, <1>2 DEF LoginInv, OtpTyped
    <3>3. Ending(s) => session[s].fault
      <4>1. SUFFICES ASSUME Ending(s) PROVE session[s].fault
        OBVIOUS
      <4>2. r # 1 /\ ~(r = 2 /\ OnPage(s, "otp_auth_method") = "enroll")
        BY <4>1 DEF Ending
      <4>3. ~(r < count)
        BY <1>2, <1>4, <4>2
      <4>4. x = r
        BY <1>7, <4>3
      <4>5. QED
        BY <1>5, <1>7, <4>4
    <3>4. QED
      BY <2>5, <3>1, <3>2, <3>3 DEF OtpTyped
  <2>15. x = 3 => /\ Attr(s, "otp_auth_method")' = "enroll"
                  /\ Attr(s, "otp_secret_key")' \in DOMAIN Entry(s).app
    <3>1. CASE r = 3
      BY <1>2, <2>4, <2>7, <3>1 DEF OtpLogin
    <3>2. CASE r = 2 /\ count = 3 /\ Well(s) /\ next = 0
      <4>1. Enrolling(s) /\ OnPage(s, "retry_current_step") # TRUE
        BY <1>4, <1>5, <3>2 DEF Enrolling
      <4>2. /\ OnPage(s, "otp_secret_key") = Attr(s, "otp_secret_key")
            /\ Attr(s, "otp_secret_key") \in DOMAIN Entry(s).app
        BY <1>2, <3>2, <4>1 DEF OtpLogin
      <4>3. QED
        BY <1>4, <2>4, <2>7, <3>2, <4>2, NoneIsNothing DEF OnPage, Value
    <3>3. QED
      BY <1>2, <1>4, <1>7, <3>1, <3>2
  <2>16. x = 3 => Attr(s, "otp_secret_key")' \in DOMAIN Entry(s)'.app
    BY <2>13, <2>15
  <2>17. "otp_auth_method" \notin DOMAIN session'[s].work
            /\ "otp_secret_key" \notin DOMAIN session'[s].work
    BY <2>5
  <2>18. OtpLogin(s)'
    BY <2>5, <2>8, <2>9, <2>10, <2>15, <2>16, <2>17 DEF OtpLogin, At
  <2>19. QED
    BY <2>3, <2>5, <2>6, <2>14, <2>18, LoginOfScript DEF WentTo
<1>8. QED
  <2>1. next = 0 /\ Well(s) /\ r < count => r + 1 \in 1..3
    BY <1>2, <1>4
  <2>2. next # 0 /\ session[s].tries + 1 = MaxTries => Reason(s)
    BY <1>5 DEF Reason
  <2>3. next # 0 /\ session[s].tries + 1 < MaxTries /\ Entrusted(s) /\ NotTaken(s)
           /\ Gone(s, work, next, extra[next]) => StepInv(s)
    BY <1>2, <1>5, <1>7
  <2>4. next = 0 /\ Well(s) /\ r < count /\ Entrusted(s) /\ NotTaken(s)
           /\ Gone(s, work, r + 1, extra[r + 1]) => StepInv(s)
    BY <1>7, <2>1
  <2>5. QED
    BY <1>1, <1>6, <2>2, <2>3, <2>4, Proceeds

\* Every step of otp.
LEMMA OtpScriptStep ==
    ASSUME IInv, NEW s \in Session, script = "otp", Step(s)
    PROVE  StepInv(s)
<1>1. prepareForStep(s) => OtpPrepare(s)
  BY DEF prepareForStep
<1>2. authenticate(s) => OtpPassword(s) \/ OtpScan(s) \/ OtpSearch(s)
  BY DEF authenticate
<1>3. goOn(s) => OtpReplace(s)
  BY DEF goOn
<1>4. QED
  BY <1>1, <1>2, <1>3, OtpPrepareStep, OtpPasswordStep, OtpScanStep, OtpSearchStep,
     OtpReplaceStep, OtpProceeds DEF Step

-----------------------------------------------------------------------------
\* Passport.
PassportNames == {"passport_social", "passport_saml"}

\* What it may leave in an entry.
Linked(p, e) ==
    /\ DOMAIN e = EntryFields
    /\ \A f \in Guarded \cup {"app"} : e[f] = person[p][f]
    /\ e.uids = person[p].uids \/ e.uids # {}

\* The entry as it is, or with what a profile adds to it, is such an entry.
LEMMA LinkedEntries ==
    ASSUME IInv, NEW s \in Session
    PROVE  /\ Linked(session[s].who, Entry(s))
           /\ \A e : Linked(session[s].who, e) =>
                /\ Linked(session[s].who, SamlLink(e))
                /\ \A mail, skip : Linked(session[s].who, Profiled(s, e, mail, skip))
                /\ Linked(session[s].who, [uids |-> {"passport"}] ++ e)
                /\ Linked(session[s].who, [account |-> TRUE] ++ e)
<1>1. session[s].who \in Person /\ DOMAIN Entry(s) = EntryFields
  BY DEF IInv, LoginInv, LoginType, EntriesInv, People, Entry
<1>2. Linked(session[s].who, Entry(s))
  BY <1>1 DEF Linked, Entry
<1>3. ASSUME NEW e, Linked(session[s].who, e)
      PROVE  /\ Linked(session[s].who, [uids |-> {"passport"}] ++ e)
             /\ Linked(session[s].who, [account |-> TRUE] ++ e)
  BY <1>3 DEF Linked, ++, EntryFields, Guarded
<1>4. ASSUME NEW e, Linked(session[s].who, e)
      PROVE  Linked(session[s].who, SamlLink(e))
  BY <1>3, <1>4 DEF SamlLink
<1>5. ASSUME NEW e, Linked(session[s].who, e), NEW mail, NEW skip
      PROVE  Linked(session[s].who, Profiled(s, e, mail, skip))
  BY <1>5 DEF Linked, Profiled, ++, EntryFields, Guarded
<1>6. QED
  BY <1>2, <1>3, <1>4, <1>5

\* Writing such an entry keeps what all logins share.
LEMMA LinkedEntry ==
    ASSUME EntriesInv, UNCHANGED <<script, conf>>, self' = self \/ Object',
           script \in PassportNames, NEW p \in Person, NEW e, Linked(p, e),
           person' = [person EXCEPT ![p] = e]
    PROVE  EntriesInv' /\ Kept /\ \A t \in Session : NotTaken(t)
<1>1. DOMAIN e = EntryFields /\ (\A f \in Guarded : e[f] = person[p][f])
      /\ e.app = person[p].app
  BY DEF Linked
<1>2. script # "otp" /\ script # "super_gluu"
  BY DEF PassportNames
<1>3. \/ e.uids = person[p].uids
      \/ e.uids # {} /\ ~(script = "super_gluu" /\ OneStep)
  BY <1>2 DEF Linked
<1>4. QED
  BY <1>1, <1>2, <1>3, EntryChanged

\* What Write leaves keeps what the other logins rely on.
LEMMA EntryWritten ==
    ASSUME IInv, NEW s \in Session, script \in PassportNames,
        UNCHANGED <<script, conf>>,
           self' = self \/ Object', NEW e, Linked(session[s].who, e),
           Write(s, e) \/ UNCHANGED person
    PROVE  Entrusted(s) /\ NotTaken(s)
<1>1. session[s].who \in Person /\ EntriesInv /\ script # "otp"
  BY DEF IInv, LoginInv, LoginType, PassportNames
<1>2. CASE UNCHANGED person
  BY <1>1, <1>2, EntriesAlone DEF Entrusted
<1>3. CASE Write(s, e)
  <2>1. /\ person' = [person EXCEPT ![session[s].who] = e]
        /\ EntriesInv /\ script # "otp" /\ session[s].who \in Person
    BY <1>1, <1>3 DEF Write
  <2>2. QED
    BY <2>1, LinkedEntry DEF Entrusted, PassportNames
<1>4. QED
  BY <1>2, <1>3

\* What the script object notes.
LEMMA SkipNoted ==
    ASSUME IInv, NEW s \in Session, UNCHANGED <<script, conf>>,
           self' = [self EXCEPT !.skipProfileUpdate = Skip(s)]
    PROVE  Object'
BY DEF IInv, EntriesInv, Object, Skip

\* A good answer: the login of the person, or what is still to come.
LEMMA PassportAnswered ==
    ASSUME IInv, NEW s \in Session, script \in PassportNames, Entrusted(s),
           session[s].stage = "page", NEW c, Answer(s, c),
           DOMAIN c \subseteq {"user", "passed", "work"},
           "user" \in DOMAIN c => c.user = session[s].who,
           \/ /\ "user" \in DOMAIN c /\ "passed" \in DOMAIN c /\ "provider" \in c.passed
              /\ "work" \notin DOMAIN c
           \/ /\ session[s].step = 1 /\ "work" \in DOMAIN c
              /\ c.work = [passport_user_profile |-> "profile"] ++ session[s].attrs
           \/ /\ session[s].step = 1 /\ session[s].tries + 1 < MaxTries
              /\ "work" \in DOMAIN c
              /\ c.work = [selectedProvider |-> "provider"] ++ session[s].attrs
    PROVE  StepInv(s)
<1>1. DOMAIN c \subseteq Changeable /\ "attrs" \notin DOMAIN c
          /\ "fault" \notin DOMAIN c
  BY DEF Changeable
<1>2. Answered(s, c, TRUE)
  BY <1>1, AnsweredStep
<1>3. /\ PassportLogin(s) /\ session[s].step \in {1, 2}
      /\ session[s].step = 1 => Attr(s, "selectedProvider") = None
  BY DEF IInv, LoginInv, PassportLogin, At, PassportNames
<1>4. /\ session'[s].who = session[s].who /\ session'[s].step = session[s].step
      /\ session'[s].tries = session[s].tries /\ session'[s].stage = "answered"
      /\ session'[s].work = IF "work" \in DOMAIN c THEN c.work ELSE session[s].attrs
      /\ session'[s].passed = IF "passed" \in DOMAIN c THEN c.passed
                              ELSE session[s].passed
      /\ session'[s].user = IF "user" \in DOMAIN c THEN session[s].who
                            ELSE session[s].user
      /\ script' = script
  BY <1>1, <1>2 DEF Answered
<1>5. CASE /\ "user" \in DOMAIN c /\ "passed" \in DOMAIN c /\ "provider" \in c.passed
           /\ "work" \notin DOMAIN c
  <2>1. Through(s)'
    BY <1>4, <1>5 DEF Through, Demanded, PassportNames
  <2>2. OnPage(s, "selectedProvider")' = Attr(s, "selectedProvider")
    BY <1>4, <1>5 DEF OnPage, Attr
  <2>3. PassportLogin(s)'
    BY <1>3, <1>4, <2>1, <2>2 DEF PassportLogin, At
  <2>4. QED
    BY <1>2, <1>4, <2>3, LoginOfScript DEF Answered, PassportNames
<1>6. CASE /\ session[s].step = 1 /\ "work" \in DOMAIN c
           /\ c.work = [passport_user_profile |-> "profile"] ++ session[s].attrs
  <2>1. /\ OnPage(s, "selectedProvider")' = Attr(s, "selectedProvider")
        /\ OnPage(s, "passport_user_profile")' = "profile"
    BY <1>4, <1>6 DEF OnPage, Attr, Value, ++
  <2>2. PassportLogin(s)'
    BY <1>3, <1>4, <1>6, <2>1, NoneIsNothing DEF PassportLogin, At
  <2>3. QED
    BY <1>2, <1>4, <2>2, LoginOfScript DEF Answered, PassportNames
<1>7. CASE /\ session[s].step = 1 /\ session[s].tries + 1 < MaxTries
           /\ "work" \in DOMAIN c
           /\ c.work = [selectedProvider |-> "provider"] ++ session[s].attrs
  <2>1. OnPage(s, "selectedProvider")' = "provider"
    BY <1>4, <1>7 DEF OnPage, Value, ++
  <2>2. PassportLogin(s)'
    BY <1>3, <1>4, <1>7, <2>1, NoneIsNothing DEF PassportLogin, At
  <2>3. QED
    BY <1>2, <1>4, <2>2, LoginOfScript DEF Answered, PassportNames
<1>8. QED
  BY <1>5, <1>6, <1>7

\* The fields of who comes in by a provider.
LEMMA PassportIn ==
    ASSUME IInv, NEW s \in Session, script \in PassportNames, Entrusted(s),
           session[s].stage = "page",
           Answer(s, [user |-> session[s].who] ++ Passing(s, "provider"))
    PROVE  StepInv(s)
<1> DEFINE c == [user |-> session[s].who] ++ Passing(s, "provider")
<1>1. /\ DOMAIN c = {"user", "passed"} /\ c.user = session[s].who
      /\ c.passed = session[s].passed \cup {"provider"}
  BY DEF Passing, ++
<1>2. Answer(s, c)
  OBVIOUS
<1> HIDE DEF c
<1>3. /\ DOMAIN c \subseteq {"user", "passed", "work"} /\ "work" \notin DOMAIN c
      /\ "user" \in DOMAIN c /\ "passed" \in DOMAIN c /\ "provider" \in c.passed
  BY <1>1
<1>4. QED
  BY <1>1, <1>2, <1>3, PassportAnswered

\* The profile of the provider is taken: the entry is written, an address is
\* asked for, or the login refused.
LEMMA AttemptStep ==
    ASSUME IInv, NEW s \in Session, script \in PassportNames,
           UNCHANGED <<script, conf>>, self' = self \/ Object',
           session[s].stage = "page", NEW mail, NEW skip, Attempt(s, mail, skip)
    PROVE  StepInv(s)
<1> DEFINE who == session[s].who
           e == Entry(s)
           linked == [uids |-> {"passport"}] ++ e
           in == [user |-> who] ++ Passing(s, "provider")
<1>1. /\ Linked(who, e) /\ Linked(who, Profiled(s, linked, mail, skip))
      /\ Linked(who, Profiled(s, [account |-> TRUE] ++ linked, mail, FALSE))
  BY LinkedEntries
<1>2. CASE Answer(s, in) /\ Write(s, Profiled(s, linked, mail, skip))
  BY <1>1, <1>2, EntryWritten, PassportIn
<1>3. CASE Answer(s, in) /\ Write(s, Profiled(s, [account |-> TRUE] ++ linked, mail,
          FALSE))
  BY <1>1, <1>3, EntryWritten, PassportIn
<1>4. CASE Refuse(s, Fault) /\ UNCHANGED person
  BY <1>1, <1>4, EntryWritten, FaultFields, Refused
<1>5. QED
  BY <1>2, <1>3, <1>4 DEF Attempt

\* authenticate with a profile, for the account that the profile is linked to.
LEMMA ProfileStep ==
    ASSUME IInv, NEW s \in Session, script \in PassportNames,
           NEW found, Linked(session[s].who, found), ProfileAnswer(s, found)
    PROVE  StepInv(s)
<1>1. /\ At(s, "page", 1) /\ UNCHANGED <<script, conf>> /\ Object'
  BY SkipNoted DEF ProfileAnswer
<1>2. CASE /\ Answer(s, Setting(s, [passport_user_profile |-> "profile"]))
           /\ Write(s, found)
  <2> DEFINE c == Setting(s, [passport_user_profile |-> "profile"])
  <2>1. Entrusted(s)
    BY <1>1, <1>2, EntryWritten
  <2>2. /\ DOMAIN c = {"work"} /\ Answer(s, c)
        /\ c.work = [passport_user_profile |-> "profile"] ++ session[s].attrs
    BY <1>2 DEF Setting
  <2> HIDE DEF c
  <2>3. DOMAIN c \subseteq {"user", "passed", "work"} /\ "user" \notin DOMAIN c
    BY <2>2
  <2>4. QED
    BY <1>1, <2>1, <2>2, <2>3, PassportAnswered DEF At
<1>3. ASSUME NEW given \in BOOLEAN, Attempt(s, Mail(s, given), Skip(s)) PROVE StepInv(s)
  BY <1>1, <1>3, AttemptStep DEF At
<1>4. QED
  BY <1>2, <1>3 DEF ProfileAnswer

\* authenticate with a choice of a provider.
LEMMA ProviderStep ==
    ASSUME IInv, NEW s \in Session, script \in PassportNames,
           PassportInvalid(s) \/ PassportPassword(s) \/ PassportChoice(s)
    PROVE  StepInv(s)
<1>1. At(s, "page", 1) /\ Entrusted(s) /\ NotTaken(s)
  BY AloneEntries DEF PassportInvalid, PassportPassword, PassportChoice
<1>2. CASE Refuse(s, Fault)
  BY <1>1, <1>2, FaultFields, Refused DEF At
<1>3. CASE Answer(s, [user |-> session[s].who] ++ Passing(s, "provider"))
  BY <1>1, <1>3, PassportIn DEF At
<1>4. CASE /\ session[s].tries + 1 < MaxTries
           /\ Answer(s, Setting(s, [selectedProvider |-> "provider"]))
  <2> DEFINE c == Setting(s, [selectedProvider |-> "provider"])
  <2>1. /\ DOMAIN c = {"work"} /\ Answer(s, c)
        /\ c.work = [selectedProvider |-> "provider"] ++ session[s].attrs
    BY <1>4 DEF Setting
  <2> HIDE DEF c
  <2>2. DOMAIN c \subseteq {"user", "passed", "work"} /\ "user" \notin DOMAIN c
    BY <2>1
  <2>3. QED
    BY <1>1, <1>4, <2>1, <2>2, PassportAnswered DEF At
<1>5. QED
  BY <1>2, <1>3, <1>4 DEF PassportInvalid, PassportPassword, PassportChoice

\* authenticate of step 2: the address that was missing.
LEMMA PassportMailStep ==
    ASSUME IInv, NEW s \in Session, script \in PassportNames, PassportMail(s)
    PROVE  StepInv(s)
<1>1. At(s, "page", 2) /\ UNCHANGED <<script, conf, self>>
  BY DEF PassportMail
<1>2. CASE Attempt(s, TRUE, self.skipProfileUpdate)
  BY <1>1, <1>2, AttemptStep DEF At
<1>3. CASE Refuse(s, Fault) /\ UNCHANGED person
  BY <1>1, <1>3, LinkedEntries, EntryWritten, FaultFields, Refused DEF At
<1>4. QED
  BY <1>2, <1>3 DEF PassportMail

\* The first page forgets the provider that was chosen.
LEMMA PassportPrepareStep ==
    ASSUME IInv, NEW s \in Session, script \in PassportNames, PassportPrepare(s)
    PROVE  StepInv(s)
<1>1. CASE At(s, "prepare", 2) /\ Show(s, {}, <<>>) /\ Alone
  <2>1. DOMAIN <<>> \subseteq Told /\ script # "otp"
    BY DEF PassportNames
  <2>2. session[s].step # 1 /\ session[s].stage \in {"prepare", "working"}
    BY <1>1 DEF At
  <2>3. Entrusted(s) /\ NotTaken(s)
    BY <1>1, AloneEntries
  <2>4. QED
    BY <1>1, <2>1, <2>2, <2>3, Paged
<1>2. CASE /\ At(s, "prepare", 1)
           /\ self' = [self EXCEPT !.skipProfileUpdate = Skip(s)]
           /\ Show(s, PassportExtra[1], [selectedProvider |-> None])
           /\ UNCHANGED <<script, conf, person>>
  <2>1. Entrusted(s) /\ NotTaken(s)
    BY <1>2, SkipNoted, LinkedEntries, EntryWritten
  <2> DEFINE values == [selectedProvider |-> None]
  <2>2. Shown(s, PassportExtra[1], values)
    BY <1>2, ShowEffect DEF IInv
  <2>3. DOMAIN values = {"selectedProvider"} /\ values.selectedProvider = None
    OBVIOUS
  <2>4. "selectedProvider" \in PassportExtra[1]
    BY DEF PassportExtra
  <2> HIDE DEF values
  <2>5. Attr(s, "selectedProvider")' = None
    BY <2>2, <2>3, <2>4 DEF Shown
  <2>6. /\ session'[s].step = 1 /\ session'[s].stage = "page" /\ ~Well(s)' /\ ~Badly(s)'
        /\ LoginType(s)' /\ script' = script
    BY <1>2, <2>2, ShownSame, ShownType DEF At, IInv, LoginInv
  <2>7. PassportLogin(s)'
    BY <2>5, <2>6 DEF PassportLogin
  <2>8. Ends(s)'
    BY <2>6 DEF Ends
  <2>9. QED
    BY <2>1, <2>2, <2>6, <2>7, <2>8, LoginOfScript
       DEF StepInv, Entrusted, Shown, EntriesInv, PassportNames
<1>3. QED
  BY <1>1, <1>2 DEF PassportPrepare

\* The server after a step of Passport: to the provider, to the address, or to
\* the end.
LEMMA PassportProceeds ==
    ASSUME IInv, NEW s \in Session, script \in PassportNames, Proceed(s)
    PROVE  StepInv(s)
<1> DEFINE work == session[s].work
           extra == [step \in Nat |-> getExtraParametersForStep(step)]
           count == PassportCount(work)
           next == PassportNext(s, work)
           r == session[s].step
<1>1. Forward(s, work, next, count, extra) /\ session[s].stage = "answered"
  BY DEF Proceed, getNextStep, getCountAuthenticationSteps, Repeated, Forward,
     PassportNames
<1>2. PassportLogin(s) /\ r \in {1, 2} /\ session[s].tries \in Nat
  BY DEF IInv, LoginInv, LoginType, PassportLogin, PassportNames
<1>3. /\ count \in {1, 2}
      /\ OnPage(s, "passport_user_profile") # None => count = 2
  BY DEF PassportCount, OnPage
<1>4. /\ next = 0 \/ (next = 1 /\ r = 1 /\ OnPage(s, "selectedProvider") # None)
      /\ r = 1 /\ OnPage(s, "selectedProvider") # None => next = 1
  <2>1. next = IF r = 1 /\ OnPage(s, "selectedProvider") # None THEN 1 ELSE 0
    BY DEF PassportNext, OnPage
  <2> HIDE DEF next
  <2>2. QED
    BY <2>1
<1> HIDE DEF count, next, extra
<1>5. ASSUME next # 0 PROVE session[s].tries + 1 < MaxTries
  BY <1>1, <1>2, <1>4, <1>5 DEF PassportLogin, PassportNames
<1>6. ASSUME next = 0, Well(s), r >= count PROVE Through(s)
  BY <1>2, <1>3, <1>4, <1>6 DEF PassportLogin, PassportNames
<1>7. ASSUME Entrusted(s), NEW x \in {1, 2}, Gone(s, work, x, extra[x]),
             x > r \/ session[s].tries + 1 < MaxTries
      PROVE  StepInv(s)
  <2>1. WentTo(s, work, x, extra[x])
    BY <1>7, WentToStep
  <2>2. PassportLogin(s)'
    BY <1>7, <2>1 DEF PassportLogin, WentTo, At
  <2>3. QED
    BY <2>1, <2>2, LoginOfScript DEF WentTo, PassportNames
<1>8. next # 0 /\ session[s].tries + 1 = MaxTries => FALSE
  BY <1>2, <1>5
<1>9. next # 0 /\ session[s].tries + 1 < MaxTries /\ Entrusted(s)
         /\ Gone(s, work, next, extra[next]) => StepInv(s)
  BY <1>4, <1>7
<1>10. Well(s) /\ r < count => r + 1 \in {1, 2} /\ r + 1 > r
  BY <1>2, <1>3
<1>11. Well(s) /\ r < count /\ Entrusted(s) /\ Gone(s, work, r + 1, extra[r + 1])
          => StepInv(s)
  BY <1>7, <1>10
<1>12. QED
  BY <1>1, <1>6, <1>8, <1>9, <1>11, Proceeds

\* Every step of passport_social and passport_saml.
LEMMA PassportScriptStep ==
    ASSUME IInv, NEW s \in Session, script \in PassportNames, Step(s)
    PROVE  StepInv(s)
<1>1. prepareForStep(s) => PassportPrepare(s)
  BY DEF prepareForStep, SamlPrepare, PassportNames
<1>2. authenticate(s) => \/ ProfileAnswer(s, Entry(s))
                         \/ ProfileAnswer(s, SamlLink(Entry(s)))
                         \/ PassportInvalid(s) \/ PassportPassword(s)
                         \/ PassportChoice(s)
                         \/ PassportMail(s)
                         \/ /\ script = "passport_saml" /\ At(s, "page", 1)
                            /\ NoState(s)
                            /\ Refuse(s, <<>>) /\ Alone
  BY DEF authenticate, PassportAuthenticate, PassportAnswer, SamlAuthenticate,
     PassportNames
<1>3. ~goOn(s)
  BY DEF goOn, PassportNames
<1>4. ASSUME script = "passport_saml", At(s, "page", 1), NoState(s), Refuse(s, <<>>),
          Alone
      PROVE  StepInv(s)
  <2>1. DOMAIN <<>> \subseteq {"fault"} /\ "fault" \notin DOMAIN <<>>
    OBVIOUS
  <2>2. Reason(s)
    BY <1>4 DEF Reason, BrokenByScript
  <2>3. QED
    BY <1>4, <2>1, <2>2, AloneEntries, Refused DEF At
<1>5. authenticate(s) => StepInv(s)
  BY <1>2, <1>4, LinkedEntries, ProfileStep, ProviderStep, PassportMailStep
<1>6. QED
  BY <1>1, <1>3, <1>5, PassportPrepareStep, PassportProceeds DEF Step

-----------------------------------------------------------------------------
\* The certificate.  What the login finds in the request after an answer, and
\* what it has passed by then.
CertWork(s, c) == IF "work" \in DOMAIN c THEN c.work ELSE session[s].attrs
CertPassed(s, c) == IF "passed" \in DOMAIN c THEN c.passed ELSE session[s].passed

\* An answer of any step.
LEMMA CertAnswer ==
    ASSUME IInv, NEW s \in Session, script = "cert", Entrusted(s),
           NEW c, NEW reply \in BOOLEAN, IF reply THEN Answer(s, c) ELSE Refuse(s, c),
           DOMAIN c \subseteq {"user", "passed", "fault", "work"},
           "user" \in DOMAIN c => c.user = session[s].who,
           "fault" \in DOMAIN c => c.fault = TRUE,
           reply \/ "fault" \in DOMAIN c,
           session[s].passed \subseteq CertPassed(s, c),
           session[s].step = 1 /\ reply /\ initRecaptcha
               => "recaptcha" \in CertPassed(s, c),
           reply /\ Value(CertWork(s, c), "cert_count_login_steps") # None =>
              session[s].step # 1 /\ "user" \in DOMAIN c
                  /\ "device" \in CertPassed(s, c),
           Value(CertWork(s, c), "cert_user_external_uid") # None =>
              "device" \in CertPassed(s, c),
           reply /\ session[s].step = 3 =>
              "user" \in DOMAIN c /\ "device" \in CertPassed(s, c)
    PROVE  StepInv(s)
<1>1. DOMAIN c \subseteq Changeable /\ "attrs" \notin DOMAIN c
  BY DEF Changeable
<1>2. Answered(s, c, reply)
  BY <1>1, AnsweredStep
<1>3. CertLogin(s)
  BY <1>2 DEF Answered, LoginInv
<1>4. /\ session'[s].step = session[s].step /\ session'[s].who = session[s].who
      /\ Well(s)' = reply /\ session'[s].passed = CertPassed(s, c)
      /\ session'[s].work = CertWork(s, c) /\ session'[s].attrs = session[s].attrs
      /\ "user" \in DOMAIN c => session'[s].user = session[s].who
      /\ script' = "cert" /\ initRecaptcha' = initRecaptcha
  BY <1>1, <1>2 DEF Answered, CertPassed, CertWork, initRecaptcha
<1>5. /\ \A n : OnPage(s, n)' = Value(CertWork(s, c), n)
      /\ \A n : Attr(s, n)' = Attr(s, n)
  BY <1>4 DEF OnPage, Attr
<1>6. CertLogin(s)'
  BY <1>3, <1>4, <1>5 DEF CertLogin
<1>7. QED
  BY <1>2, <1>4, <1>6, LoginOfScript DEF Answered

\* Step 1 asks for the reCAPTCHA where there is one.
LEMMA CertBeginStep ==
    ASSUME IInv, NEW s \in Session, script = "cert", CertBegin(s)
    PROVE  StepInv(s)
<1>1. Entrusted(s) /\ NotTaken(s) /\ At(s, "page", 1)
  BY AloneEntries DEF CertBegin
<1>2. CertLogin(s) /\ session[s].step = 1
  BY <1>1 DEF IInv, LoginInv, At
<1>3. ASSUME initRecaptcha, Answer(s, Passing(s, "recaptcha")) PROVE StepInv(s)
  <2> DEFINE c == Passing(s, "recaptcha")
  <2>1. DOMAIN c = {"passed"} /\ c.passed = session[s].passed \cup {"recaptcha"}
    BY DEF Passing
  <2>2. Answer(s, c)
    BY <1>3
  <2> HIDE DEF c
  <2>3. CertWork(s, c) = session[s].attrs /\ CertPassed(s, c) = c.passed
    BY <2>1 DEF CertWork, CertPassed
  <2>4. /\ Value(CertWork(s, c), "cert_count_login_steps") = None
        /\ Value(CertWork(s, c), "cert_user_external_uid") # None =>
              "device" \in CertPassed(s, c)
        /\ session[s].step # 3 /\ session[s].passed \subseteq CertPassed(s, c)
        /\ DOMAIN c \subseteq {"user", "passed", "fault", "work"}
        /\ initRecaptcha => "recaptcha" \in CertPassed(s, c)
    BY <1>2, <2>1, <2>3, <1>3 DEF CertLogin, Attr
  <2>5. QED
    BY <1>1, <1>2, <2>1, <2>2, <2>3, <2>4, CertAnswer
<1>4. ASSUME ~initRecaptcha, Answer(s, <<>>) PROVE StepInv(s)
  <2> DEFINE c == <<>>
  <2>1. DOMAIN c = {}
    OBVIOUS
  <2>2. Answer(s, c)
    BY <1>4
  <2> HIDE DEF c
  <2>3. CertWork(s, c) = session[s].attrs /\ CertPassed(s, c) = session[s].passed
    BY <2>1 DEF CertWork, CertPassed
  <2>4. /\ Value(CertWork(s, c), "cert_count_login_steps") = None
        /\ Value(CertWork(s, c), "cert_user_external_uid") # None =>
              "device" \in CertPassed(s, c)
        /\ session[s].step # 3 /\ session[s].passed \subseteq CertPassed(s, c)
        /\ DOMAIN c \subseteq {"user", "passed", "fault", "work"}
        /\ initRecaptcha => "recaptcha" \in CertPassed(s, c)
    BY <1>2, <2>1, <2>3, <1>4 DEF CertLogin, Attr
  <2>5. QED
    BY <1>1, <1>2, <1>4, <2>1, <2>2, <2>3, <2>4, CertAnswer
<1>5. CASE Refuse(s, Fault)
  BY <1>1, <1>5, FaultFields, Refused DEF At
<1>6. QED
  BY <1>3, <1>4, <1>5 DEF CertBegin

\* A page shows the certificate that came with the request, or nothing.
LEMMA CertPrepareStep ==
    ASSUME IInv, NEW s \in Session, script = "cert", CertPrepare(s)
    PROVE  StepInv(s)
<1>1. Entrusted(s) /\ NotTaken(s) /\ Alone /\ session[s].stage = "prepare"
  BY AloneEntries DEF CertPrepare, PlainFirstPage, At
<1>2. CASE PlainFirstPage(s, CertExtra)
  BY <1>1, <1>2, FirstPage
<1>3. CASE Show(s, CertExtra, [cert_x509 |-> "cert"])
  <2>1. DOMAIN [cert_x509 |-> "cert"] \subseteq Told
    BY DEF Told
  <2>2. QED
    BY <1>1, <1>3, <2>1, Paged
<1>4. CASE Show(s, CertExtra, <<>>)
  <2>1. DOMAIN <<>> \subseteq Told
    OBVIOUS
  <2>2. QED
    BY <1>1, <1>4, <2>1, Paged
<1>5. QED
  BY <1>2, <1>3, <1>4 DEF CertPrepare

\* Step 2: a certificate that is somebody's, or nobody's yet, or no valid one.
LEMMA CertJudgeStep ==
    ASSUME IInv, NEW s \in Session, script = "cert", CertJudge(s)
    PROVE  StepInv(s)
<1> DEFINE two == [cert_count_login_steps |-> 2]
           seen == [cert_selected |-> TRUE, cert_valid |-> TRUE]
           mapped == "map_user_cert=true" \in conf
<1>1. Entrusted(s) /\ NotTaken(s) /\ At(s, "page", 2)
  BY AloneEntries DEF CertJudge
<1>2. CertLogin(s) /\ session[s].step = 2
  BY <1>1 DEF IInv, LoginInv, At
<1>3. /\ Attr(s, "cert_count_login_steps") = None
      /\ Attr(s, "cert_user_external_uid") # None => "device" \in session[s].passed
  BY <1>2 DEF CertLogin
\* A fault that is noted with what was seen.
<1>4. ASSUME NEW values, NEW reply \in BOOLEAN,
             IF reply THEN Answer(s, Fault ++ Setting(s, values))
                      ELSE Refuse(s, Fault ++ Setting(s, values)),
             "cert_user_external_uid" \notin DOMAIN values,
             reply => "cert_count_login_steps" \notin DOMAIN values
      PROVE  StepInv(s)
  <2> DEFINE c == Fault ++ Setting(s, values)
  <2>1. DOMAIN c = {"fault", "work"} /\ c.fault = TRUE
            /\ c.work = values ++ session[s].attrs
    BY FaultSetting
  <2>2. IF reply THEN Answer(s, c) ELSE Refuse(s, c)
    BY <1>4
  <2> HIDE DEF c
  <2>3. CertWork(s, c) = values ++ session[s].attrs
            /\ CertPassed(s, c) = session[s].passed
    BY <2>1 DEF CertWork, CertPassed
  <2>4. /\ reply => Value(CertWork(s, c), "cert_count_login_steps") = None
        /\ Value(CertWork(s, c), "cert_user_external_uid") # None =>
              "device" \in CertPassed(s, c)
    <3>1. \A n : n \notin DOMAIN values => Value(CertWork(s, c), n) = Attr(s, n)
      BY <2>3 DEF Value, Attr, ++
    <3>2. QED
      BY <1>3, <1>4, <2>3, <3>1
  <2>5. QED
    BY <1>1, <1>2, <2>1, <2>2, <2>3, <2>4,
       DOMAIN c \subseteq {"user", "passed", "fault", "work"},
       session[s].passed \subseteq CertPassed(s, c), session[s].step \notin {1, 3},
       CertAnswer
<1>5. ASSUME Answer(s, Fault ++ Setting(s, [cert_selected |-> FALSE])) PROVE StepInv(s)
  <2> DEFINE v == [cert_selected |-> FALSE]
  <2>1. DOMAIN v = {"cert_selected"}
    OBVIOUS
  <2>2. Answer(s, Fault ++ Setting(s, v))
    BY <1>5
  <2> HIDE DEF v
  <2>3. "cert_user_external_uid" \notin DOMAIN v /\ TRUE \in BOOLEAN
            /\ FALSE \in BOOLEAN
    BY <2>1
  <2>4. QED
    BY <1>4, <2>1, <2>2, <2>3
<1>6. ASSUME Answer(s, Fault ++ Setting(s, [cert_selected |-> TRUE,
          cert_valid |-> FALSE]))
      PROVE  StepInv(s)
  <2> DEFINE v == [cert_selected |-> TRUE, cert_valid |-> FALSE]
  <2>1. DOMAIN v = {"cert_selected", "cert_valid"}
    OBVIOUS
  <2>2. Answer(s, Fault ++ Setting(s, v))
    BY <1>6
  <2> HIDE DEF v
  <2>3. "cert_user_external_uid" \notin DOMAIN v /\ TRUE \in BOOLEAN
            /\ FALSE \in BOOLEAN
    BY <2>1
  <2>4. QED
    BY <1>4, <2>1, <2>2, <2>3
<1>7. ASSUME Refuse(s, Fault ++ Setting(s, seen ++ two)) PROVE StepInv(s)
  <2> DEFINE v == seen ++ two
  <2>1. DOMAIN v = {"cert_selected", "cert_valid", "cert_count_login_steps"}
    BY DEF ++
  <2>2. Refuse(s, Fault ++ Setting(s, v))
    BY <1>7
  <2> HIDE DEF v
  <2>3. "cert_user_external_uid" \notin DOMAIN v /\ TRUE \in BOOLEAN
            /\ FALSE \in BOOLEAN
    BY <2>1
  <2>4. QED
    BY <1>4, <2>1, <2>2, <2>3
<1>8. ASSUME Answer(s, [user |-> session[s].who] ++ Passing(s, "device")
                         ++ Setting(s, seen ++ two))
      PROVE  StepInv(s)
  <2> DEFINE v == seen ++ two
             c == [user |-> session[s].who] ++ Passing(s, "device") ++ Setting(s, v)
  <2>1. /\ DOMAIN v = {"cert_selected", "cert_valid", "cert_count_login_steps"}
    BY DEF ++
  <2>2. Answer(s, c)
    BY <1>8
  <2> HIDE DEF v
  <2>3. /\ DOMAIN c = {"user", "passed", "work"} /\ c.user = session[s].who
        /\ c.passed = session[s].passed \cup {"device"}
        /\ c.work = v ++ session[s].attrs
    BY DEF ++, Passing, Setting
  <2> HIDE DEF c
  <2>4. CertWork(s, c) = c.work /\ CertPassed(s, c) = c.passed /\ "device" \in c.passed
    BY <2>3 DEF CertWork, CertPassed
  <2>5. /\ DOMAIN c \subseteq {"user", "passed", "fault", "work"} /\ "user" \in DOMAIN c
        /\ session[s].passed \subseteq CertPassed(s, c) /\ session[s].step \notin {1, 3}
    BY <1>2, <2>3, <2>4
  <2>6. QED
    BY <1>1, <1>2, <2>2, <2>3, <2>4, <2>5, CertAnswer
<1>9. ASSUME Answer(s, Passing(s, "device")
                         ++ Setting(s, seen ++ [cert_user_external_uid |-> "cert"]))
      PROVE  StepInv(s)
  <2> DEFINE v == seen ++ [cert_user_external_uid |-> "cert"]
             c == Passing(s, "device") ++ Setting(s, v)
  <2>1. DOMAIN v = {"cert_selected", "cert_valid", "cert_user_external_uid"}
    BY DEF ++
  <2>2. Answer(s, c)
    BY <1>9
  <2> HIDE DEF v
  <2>3. /\ DOMAIN c = {"passed", "work"}
        /\ c.passed = session[s].passed \cup {"device"}
        /\ c.work = v ++ session[s].attrs
    BY DEF ++, Passing, Setting
  <2> HIDE DEF c
  <2>4. CertWork(s, c) = c.work /\ CertPassed(s, c) = c.passed /\ "device" \in c.passed
    BY <2>3 DEF CertWork, CertPassed
  <2>5. Value(CertWork(s, c), "cert_count_login_steps") = None
    <3>1. \A n : n \notin DOMAIN v => Value(CertWork(s, c), n) = Attr(s, n)
      BY <2>3, <2>4 DEF Value, Attr, ++
    <3>2. QED
      BY <1>3, <2>1, <3>1
  <2>6. /\ DOMAIN c \subseteq {"user", "passed", "fault", "work"}
        /\ session[s].passed \subseteq CertPassed(s, c) /\ session[s].step \notin {1, 3}
    BY <1>2, <2>3, <2>4
  <2>7. QED
    BY <1>1, <1>2, <2>2, <2>3, <2>4, <2>5, <2>6, CertAnswer
<1>10. \/ Answer(s, Fault ++ Setting(s, [cert_selected |-> FALSE]))
       \/ Answer(s, Fault ++ Setting(s, [cert_selected |-> TRUE, cert_valid |-> FALSE]))
       \/ Answer(s, [user |-> session[s].who] ++ Passing(s, "device")
                       ++ Setting(s, seen ++ two))
       \/ Answer(s, Passing(s, "device")
                       ++ Setting(s, seen ++ [cert_user_external_uid |-> "cert"]))
       \/ Refuse(s, Fault ++ Setting(s, seen ++ two))
  BY DEF CertJudge
<1>11. QED
  BY <1>5, <1>6, <1>7, <1>8, <1>9, <1>10

\* Step 3: the certificate that waited becomes the person's.
LEMMA CertMapStep ==
    ASSUME IInv, NEW s \in Session, script = "cert", CertMap(s)
    PROVE  StepInv(s)
<1>1. At(s, "page", 3) /\ CertLogin(s) /\ LoginType(s) /\ EntriesInv
          /\ session[s].step = 3
  BY DEF CertMap, IInv, LoginInv, At
<1>2. CASE Refuse(s, Fault) /\ Alone
  BY <1>1, <1>2, FaultFields, Refused, AloneEntries DEF At
<1>3. CASE /\ Attr(s, "cert_user_external_uid") # None
           /\ Answer(s, LoggedIn(s)) /\ RegisterDevice(s)
  <2>1. Entrusted(s)
    BY <1>1, <1>3, DeviceRegistered DEF Entrusted
  <2>2. "device" \in session[s].passed /\ Attr(s, "cert_count_login_steps") = None
    BY <1>1, <1>3 DEF CertLogin
  <2> DEFINE c == LoggedIn(s)
  <2>3. /\ DOMAIN c = {"user", "passed"} /\ c.user = session[s].who
        /\ c.passed = session[s].passed \cup {"password"}
    BY LoggedInFields
  <2>4. Answer(s, c)
    BY <1>3
  <2> HIDE DEF c
  <2>5. CertWork(s, c) = session[s].attrs /\ CertPassed(s, c) = c.passed
    BY <2>3 DEF CertWork, CertPassed
  <2>6. Value(CertWork(s, c), "cert_count_login_steps") = None
    BY <2>2, <2>5 DEF Attr
  <2>7. /\ DOMAIN c \subseteq {"user", "passed", "fault", "work"} /\ "user" \in DOMAIN c
        /\ session[s].passed \subseteq CertPassed(s, c) /\ "device" \in CertPassed(s, c)
        /\ session[s].step # 1
    BY <1>1, <2>2, <2>3, <2>5
  <2>8. QED
    BY <1>1, <2>1, <2>2, <2>3, <2>4, <2>5, <2>6, <2>7, CertAnswer
<1>4. QED
  BY <1>2, <1>3 DEF CertMap

\* The server after a step of cert: the count is two when no password is asked for.
LEMMA CertProceeds ==
    ASSUME IInv, NEW s \in Session, script = "cert", Proceed(s)
    PROVE  StepInv(s)
<1> DEFINE work == session[s].work
           extra == [step \in Nat |-> getExtraParametersForStep(step)]
           count == CertCount(work)
           r == session[s].step
<1>1. Forward(s, work, 0, count, extra) /\ session[s].stage = "answered"
  BY DEF Proceed, getNextStep, getCountAuthenticationSteps, Repeated, Forward
<1>2. CertLogin(s) /\ r \in 1..3 /\ Object
  BY DEF IInv, LoginInv, LoginType, EntriesInv
<1>3. count = IF OnPage(s, "cert_count_login_steps") # None THEN 2 ELSE 3
  BY DEF CertCount, OnPage
<1>4. \A x \in Nat : extra[x] = CertExtra
  BY DEF getExtraParametersForStep
<1> HIDE DEF count, extra
<1>5. ASSUME Well(s), r >= count PROVE Through(s)
  <2>1. r # 1 /\ session[s].user = session[s].who /\ "device" \in session[s].passed
    <3>1. CASE OnPage(s, "cert_count_login_steps") # None
      BY <1>2, <1>5, <3>1 DEF CertLogin
    <3>2. CASE OnPage(s, "cert_count_login_steps") = None
      <4>1. r = 3
        BY <1>2, <1>3, <1>5, <3>2
      <4>2. QED
        BY <1>2, <1>5, <4>1 DEF CertLogin
    <3>3. QED
      BY <3>1, <3>2
  <2>2. "recaptcha" \in conf => "recaptcha" \in session[s].passed
    BY <1>2, <1>5 DEF CertLogin, Object, initRecaptcha
  <2>3. QED
    BY <2>1, <2>2 DEF Through, Demanded
<1>6. ASSUME Entrusted(s), Well(s), r < count, Gone(s, work, r + 1, extra[r + 1])
      PROVE  StepInv(s)
  <2>1. OnPage(s, "cert_count_login_steps") = None /\ r \in {1, 2}
    BY <1>2, <1>3, <1>6 DEF CertLogin
  <2>2. r + 1 \in 1..3 /\ r + 1 > r /\ r + 1 # 1 /\ extra[r + 1] = CertExtra
    BY <1>4, <2>1
  <2>3. WentTo(s, work, r + 1, CertExtra)
    BY <1>6, <2>2, WentToStep
  <2>4. /\ \A n : OnPage(s, n)' = None /\ ~Well(s)' /\ session'[s].step # 1
        /\ session'[s].passed = session[s].passed /\ session'[s].who = session[s].who
        /\ initRecaptcha' = initRecaptcha /\ script' = "cert"
        /\ \A n : Attr(s, n)' = IF n \in CertExtra /\ n \in DOMAIN work
                                THEN work[n] ELSE Attr(s, n)
    BY <2>2, <2>3 DEF WentTo, initRecaptcha
  <2>5. Attr(s, "cert_count_login_steps")' = None
    BY <1>2, <2>1, <2>4 DEF CertLogin, OnPage, Value
  <2>6. \/ Attr(s, "cert_user_external_uid")' = OnPage(s, "cert_user_external_uid")
        \/ Attr(s, "cert_user_external_uid")' = Attr(s, "cert_user_external_uid")
    BY <2>4 DEF OnPage, Value
  <2>7. CertLogin(s)'
    BY <1>2, <1>6, <2>4, <2>5, <2>6 DEF CertLogin
  <2>8. QED
    BY <2>3, <2>4, <2>7, LoginOfScript DEF WentTo
<1>7. QED
  BY <1>1, <1>5, <1>6, Proceeds

\* Every step of cert.
LEMMA CertScriptStep ==
    ASSUME IInv, NEW s \in Session, script = "cert", Step(s)
    PROVE  StepInv(s)
<1>1. prepareForStep(s) => CertPrepare(s)
  BY DEF prepareForStep
<1>2. authenticate(s) => CertBegin(s) \/ CertJudge(s) \/ CertMap(s)
  BY DEF authenticate
<1>3. ~goOn(s)
  BY DEF goOn
<1>4. QED
  BY <1>1, <1>2, <1>3, CertPrepareStep, CertBeginStep, CertJudgeStep, CertMapStep,
     CertProceeds DEF Step

-----------------------------------------------------------------------------
\* Super Gluu.  What a request may have noted in the two-step mode.
SuperGluuNoted(s, m) ==
    /\ Value(m, "super_gluu_count_login_steps") # None =>
          /\ "super_gluu_group" \in conf
          /\ Value(m, "super_gluu_count_login_steps") =
                IF isUserMemberOfGroup(s) THEN 2 ELSE 1
    /\ "super_gluu_auth_method" \in DOMAIN m => m.super_gluu_auth_method \in Methods
    /\ Value(m, "super_gluu_auth_method") = "authenticate" => Registered(s)

\* What the session keeps of the request: nothing that the server asks for.
LEMMA SuperGluuAttrs ==
    ASSUME IInv, NEW s \in Session, script = "super_gluu", ~OneStep
    PROVE  SuperGluuNoted(s, session[s].attrs)
BY DEF IInv, LoginInv, SuperGluuTwoStep, SuperGluuNoted, Attr

\* An answer of the two-step mode.
LEMMA SuperGluuAnswer ==
    ASSUME IInv, NEW s \in Session, script = "super_gluu", ~OneStep, Entrusted(s),
           NEW c, NEW reply \in BOOLEAN, IF reply THEN Answer(s, c) ELSE Refuse(s, c),
           DOMAIN c \subseteq {"user", "passed", "fault", "work"}, "work" \in DOMAIN c,
           "user" \in DOMAIN c => c.user = session[s].who,
           "fault" \in DOMAIN c => c.fault = TRUE,
           "passed" \in DOMAIN c => session[s].passed \subseteq c.passed,
           reply \/ "fault" \in DOMAIN c,
           SuperGluuNoted(s, c.work),
           Value(c.work, "retry_current_step") = TRUE => "fault" \in DOMAIN c,
           reply /\ session[s].step = 1 =>
              /\ "user" \in DOMAIN c /\ "passed" \in DOMAIN c /\ "password" \in c.passed
              /\ \/ Value(c.work, "super_gluu_auth_method") \in Methods
                 \/ Value(c.work, "super_gluu_count_login_steps") = 1,
           reply /\ session[s].step # 1 => "passed" \in DOMAIN c
               /\ "device" \in c.passed
    PROVE  StepInv(s)
<1>1. DOMAIN c \subseteq Changeable /\ "attrs" \notin DOMAIN c
  BY DEF Changeable
<1>2. Answered(s, c, reply)
  BY <1>1, AnsweredStep
<1>3. SuperGluuTwoStep(s) /\ PasswordFirst(s)
  BY <1>2 DEF Answered, LoginInv
<1>4. /\ session'[s].step = session[s].step /\ session'[s].who = session[s].who
      /\ Well(s)' = reply /\ session'[s].work = c.work
      /\ session'[s].attrs = session[s].attrs
      /\ session'[s].passed = IF "passed" \in DOMAIN c THEN c.passed
                              ELSE session[s].passed
      /\ session'[s].user = IF "user" \in DOMAIN c THEN session[s].who
                            ELSE session[s].user
      /\ session'[s].fault = ("fault" \in DOMAIN c \/ session[s].fault)
      /\ script' = "super_gluu" /\ conf' = conf /\ OneStep' = OneStep
      /\ session[s].who \in Person
  BY <1>1, <1>2 DEF Answered, OneStep
<1>5. /\ \A n : OnPage(s, n)' = Value(c.work, n)
      /\ \A n : Attr(s, n)' = Attr(s, n)
  BY <1>4 DEF OnPage, Attr
<1>6. /\ isUserMemberOfGroup(s)' = isUserMemberOfGroup(s)
      /\ Registered(s) => Registered(s)'
  BY <1>4 DEF Entrusted, Kept, isUserMemberOfGroup, Registered, Entry
<1>7. PasswordFirst(s)'
  BY <1>3, <1>4 DEF PasswordFirst
<1>8. \A m \in {c.work, session[s].attrs} :
         "super_gluu_auth_method" \in DOMAIN m => m.super_gluu_auth_method \in Methods
  BY <1>3 DEF SuperGluuTwoStep, SuperGluuNoted
<1>9. SuperGluuTwoStep(s)'
  BY <1>3, <1>4, <1>5, <1>6, <1>8 DEF SuperGluuTwoStep, SuperGluuNoted
<1>10. SuperGluuOnly(s)'
  BY <1>4 DEF SuperGluuOnly
<1>11. QED
  BY <1>2, <1>4, <1>7, <1>9, <1>10, LoginOfScript DEF Answered

\* What Retry notes.
LEMMA RetryNoted ==
    ASSUME NEW s, NEW again
    PROVE  /\ DOMAIN Retry(s, again) = {"work"}
           /\ Retry(s, again).work = [retry_current_step |-> again] ++ session[s].attrs
           /\ Value(Retry(s, again).work, "retry_current_step") = again
           /\ \A n : n # "retry_current_step" =>
                 /\ Value(Retry(s, again).work, n) = Attr(s, n)
                 /\ n \in DOMAIN Retry(s, again).work <=> n \in DOMAIN session[s].attrs
                 /\ n \in DOMAIN session[s].attrs =>
                       Retry(s, again).work[n] = session[s].attrs[n]
BY DEF Retry, Setting, Value, Attr, ++

\* A time-out, a page that failed and a wrong password are faults.
LEMMA SuperGluuFault ==
    ASSUME IInv, NEW s \in Session, script = "super_gluu", ~OneStep, Entrusted(s),
           NEW again \in BOOLEAN, Refuse(s, Fault ++ Retry(s, again))
    PROVE  StepInv(s)
<1> DEFINE c == Fault ++ Retry(s, again)
<1>1. /\ DOMAIN c = {"fault", "work"} /\ c.fault = TRUE /\ c.work = Retry(s, again).work
  <2> DEFINE r == Retry(s, again)
  <2>1. DOMAIN r = {"work"}
    BY RetryNoted
  <2> HIDE DEF r
  <2>2. /\ DOMAIN (Fault ++ r) = {"fault", "work"} /\ (Fault ++ r).fault = TRUE
        /\ (Fault ++ r).work = r.work
    BY <2>1, FaultFields DEF ++
  <2>3. QED
    BY <2>2 DEF r
<1>2. Refuse(s, c)
  OBVIOUS
<1> HIDE DEF c
<1>3. SuperGluuNoted(s, c.work)
  <2>1. SuperGluuNoted(s, session[s].attrs)
    BY SuperGluuAttrs
  <2>2. /\ \A n : n # "retry_current_step" => Value(c.work, n)
              = Value(session[s].attrs, n)
        /\ "super_gluu_auth_method" \in DOMAIN c.work =>
              /\ "super_gluu_auth_method" \in DOMAIN session[s].attrs
              /\ c.work.super_gluu_auth_method = session[s].attrs.super_gluu_auth_method
    <3>1. c.work = [retry_current_step |-> again] ++ session[s].attrs
      BY <1>1, RetryNoted
    <3>2. QED
      BY <3>1 DEF Value, ++
  <2>3. QED
    BY <2>1, <2>2 DEF SuperGluuNoted
<1>4. DOMAIN c \subseteq {"user", "passed", "fault", "work"} /\ FALSE \in BOOLEAN
  BY <1>1
<1>5. QED
  BY <1>1, <1>2, <1>3, <1>4, SuperGluuAnswer

\* The password of step 1: who is in no group where one is asked for is done,
\* everybody else has a method.
LEMMA SuperGluuPasswordStep ==
    ASSUME IInv, NEW s \in Session, script = "super_gluu", SuperGluuPassword(s)
    PROVE  StepInv(s)
<1>1. Entrusted(s) /\ NotTaken(s) /\ At(s, "page", 1) /\ ~OneStep
  BY AloneEntries DEF SuperGluuPassword
<1>2. ASSUME NEW button \in BOOLEAN
      PROVE  LET grouped == "super_gluu_group" \in conf
                 member == isUserMemberOfGroup(s)
                 counted == IF grouped
                   THEN [super_gluu_count_login_steps |-> IF member THEN 2 ELSE 1]
                   ELSE <<>>
                 method == IF grouped /\ ~member THEN <<>>
                     ELSE [super_gluu_auth_method |->
                             IF button \/ ~Registered(s) THEN "enroll"
                             ELSE "authenticate"]
             IN  Answer(s, LoggedIn(s) ++ Setting(s, counted ++ method
                                       ++ [retry_current_step |-> FALSE]))
                 => StepInv(s)
  <2> DEFINE grouped == "super_gluu_group" \in conf
             member == isUserMemberOfGroup(s)
             counted == IF grouped
                   THEN [super_gluu_count_login_steps |-> IF member THEN 2 ELSE 1]
                   ELSE <<>>
             method == IF grouped /\ ~member THEN <<>>
                     ELSE [super_gluu_auth_method |->
                             IF button \/ ~Registered(s) THEN "enroll"
                             ELSE "authenticate"]
             v == counted ++ method ++ [retry_current_step |-> FALSE]
             c == LoggedIn(s) ++ Setting(s, v)
  <2>1. SUFFICES ASSUME Answer(s, c) PROVE StepInv(s)
    OBVIOUS
  <2>2. /\ DOMAIN c = {"user", "passed", "work"} /\ c.user = session[s].who
        /\ c.passed = session[s].passed \cup {"password"}
        /\ c.work = v ++ session[s].attrs
    BY LoggedInSetting
  <2>3. /\ DOMAIN counted \subseteq {"super_gluu_count_login_steps"}
        /\ "super_gluu_count_login_steps" \in DOMAIN counted <=> grouped
        /\ grouped => counted.super_gluu_count_login_steps = IF member THEN 2 ELSE 1
    OBVIOUS
  <2>4. /\ DOMAIN method \subseteq {"super_gluu_auth_method"}
        /\ "super_gluu_auth_method" \in DOMAIN method <=> ~(grouped /\ ~member)
        /\ "super_gluu_auth_method" \in DOMAIN method =>
              /\ method.super_gluu_auth_method \in Methods
              /\ method.super_gluu_auth_method = "authenticate" => Registered(s)
    BY DEF Methods
  <2> HIDE DEF counted, method
  <2>5. /\ v.retry_current_step = FALSE /\ "retry_current_step" \in DOMAIN v
        /\ "super_gluu_count_login_steps" \in DOMAIN v <=> grouped
        /\ grouped => v.super_gluu_count_login_steps = IF member THEN 2 ELSE 1
        /\ "super_gluu_auth_method" \in DOMAIN v <=> ~(grouped /\ ~member)
        /\ "super_gluu_auth_method" \in DOMAIN v =>
              /\ v.super_gluu_auth_method \in Methods
              /\ v.super_gluu_auth_method = "authenticate" => Registered(s)
    BY <2>3, <2>4 DEF ++
  <2>6. Answer(s, c)
    BY <2>1
  <2> HIDE DEF v, c
  <2>7. /\ Value(c.work, "retry_current_step") = FALSE
        /\ Value(c.work, "super_gluu_count_login_steps") =
              IF grouped THEN IF member THEN 2 ELSE 1
                         ELSE Attr(s, "super_gluu_count_login_steps")
        /\ ~(grouped /\ ~member) => /\ "super_gluu_auth_method" \in DOMAIN c.work
                                    /\ Value(c.work, "super_gluu_auth_method")
                                          = v.super_gluu_auth_method
                                    /\ c.work.super_gluu_auth_method
                                          = v.super_gluu_auth_method
        /\ grouped /\ ~member =>
              /\ Value(c.work, "super_gluu_auth_method")
                    = Attr(s, "super_gluu_auth_method")
              /\ "super_gluu_auth_method" \in DOMAIN c.work =>
                    /\ "super_gluu_auth_method" \in DOMAIN session[s].attrs
                    /\ c.work.super_gluu_auth_method
                          = session[s].attrs.super_gluu_auth_method
    BY <2>2, <2>5 DEF ++, Value, Attr
  <2>8. SuperGluuNoted(s, session[s].attrs)
    BY <1>1, SuperGluuAttrs
  <2>9. SuperGluuNoted(s, c.work)
    BY <2>5, <2>7, <2>8 DEF SuperGluuNoted, Attr
  <2>10. \/ Value(c.work, "super_gluu_auth_method") \in Methods
         \/ Value(c.work, "super_gluu_count_login_steps") = 1
    BY <2>5, <2>7
  <2>11. /\ DOMAIN c \subseteq {"user", "passed", "fault", "work"} /\ TRUE \in BOOLEAN
         /\ "password" \in c.passed /\ session[s].passed \subseteq c.passed
         /\ Value(c.work, "retry_current_step") # TRUE /\ session[s].step = 1
    BY <1>1, <2>2, <2>7 DEF At
  <2>12. QED
    BY <1>1, <2>2, <2>6, <2>9, <2>10, <2>11, SuperGluuAnswer
<1>3. Refuse(s, Fault ++ Retry(s, FALSE)) => StepInv(s)
  BY <1>1, SuperGluuFault
<1>4. QED
  BY <1>2, <1>3 DEF SuperGluuPassword

\* The approval of step 2 is of a device that is registered.
LEMMA SuperGluuSecondStep ==
    ASSUME IInv, NEW s \in Session, script = "super_gluu", ~OneStep, SuperGluuSecond(s)
    PROVE  StepInv(s)
<1>1. /\ At(s, "page", 2) /\ session[s].step = 2 /\ session[s].stage = "page"
      /\ LoginInv(s) /\ LoginType(s)
  BY DEF SuperGluuSecond, At, IInv, LoginInv
<1>2. session[s].user # None
  <2>1. session[s].user = session[s].who /\ session[s].who \in Person
    BY <1>1 DEF LoginInv, LoginType, PasswordFirst, Well
  <2>2. QED
    BY <2>1, NoneIsNothing
<1>3. /\ DeviceStatus(s) /\ Alone
      /\ IF ValidDevice(s) THEN Answer(s, Passing(s, "device") ++ Retry(s, FALSE))
                           ELSE Refuse(s, Retry(s, FALSE))
  BY <1>2 DEF SuperGluuSecond
<1>4. ValidDevice(s)
  BY <1>1, <1>3 DEF DeviceStatus, ValidDevice, LoginInv, SuperGluuTwoStep
<1> DEFINE r == Retry(s, FALSE)
           c == Passing(s, "device") ++ r
<1>5. Answer(s, c)
  BY <1>3, <1>4
<1>6. DOMAIN r = {"work"} /\ r.work = [retry_current_step |-> FALSE] ++ session[s].attrs
  BY RetryNoted
<1> HIDE DEF r
<1>7. /\ DOMAIN c = {"passed", "work"} /\ c.passed = session[s].passed \cup {"device"}
      /\ c.work = r.work
  BY <1>6 DEF ++, Passing
<1> HIDE DEF c
<1>8. SuperGluuNoted(s, c.work) /\ Value(c.work, "retry_current_step") # TRUE
  <2>1. SuperGluuNoted(s, session[s].attrs)
    BY SuperGluuAttrs
  <2>2. /\ \A n : n # "retry_current_step" => Value(c.work, n)
              = Value(session[s].attrs, n)
        /\ "super_gluu_auth_method" \in DOMAIN c.work =>
              /\ "super_gluu_auth_method" \in DOMAIN session[s].attrs
              /\ c.work.super_gluu_auth_method = session[s].attrs.super_gluu_auth_method
        /\ Value(c.work, "retry_current_step") = FALSE
    BY <1>6, <1>7 DEF Value, ++
  <2>3. QED
    BY <2>1, <2>2 DEF SuperGluuNoted
<1>9. /\ DOMAIN c \subseteq {"user", "passed", "fault", "work"} /\ TRUE \in BOOLEAN
      /\ "device" \in c.passed /\ session[s].passed \subseteq c.passed
      /\ session[s].step # 1
  BY <1>1, <1>7
<1>10. Entrusted(s)
  BY <1>3, AloneEntries
<1>11. QED
  BY <1>5, <1>7, <1>8, <1>9, <1>10, SuperGluuAnswer

\* authenticate on a page that expired.
LEMMA SuperGluuTimeOutStep ==
    ASSUME IInv, NEW s \in Session, script = "super_gluu", ~OneStep, SuperGluuTimeOut(s)
    PROVE  StepInv(s)
<1>1. Entrusted(s)
  BY AloneEntries DEF SuperGluuTimeOut
<1>2. \E again \in BOOLEAN : Refuse(s, Fault ++ Retry(s, again))
  BY DEF SuperGluuTimeOut
<1>3. QED
  BY <1>1, <1>2, SuperGluuFault

\* The page of step 2 that makes a request, and pushes one of a known phone.
LEMMA SuperGluuRequested ==
    ASSUME IInv, NEW s \in Session, script = "super_gluu", ~OneStep, Entrusted(s),
           At(s, "prepare", 2), NEW method, method = Attr(s, "super_gluu_auth_method"),
           Show(s, SuperGluuExtra[2], [super_gluu_request |-> method,
                                       super_gluu_auth_method |-> method])
    PROVE  StepInv(s)
<1> DEFINE v == [super_gluu_request |-> method, super_gluu_auth_method |-> method]
<1>1. Shown(s, SuperGluuExtra[2], v)
  BY ShowEffect DEF IInv
<1>2. /\ DOMAIN v = {"super_gluu_request", "super_gluu_auth_method"}
      /\ v.super_gluu_auth_method = method
  OBVIOUS
<1> HIDE DEF v
<1>3. /\ LoginInv(s) /\ LoginType(s) /\ SuperGluuTwoStep(s) /\ session[s].step = 2
      /\ method \in Methods /\ Ends(s)
  BY DEF IInv, LoginInv, At, SuperGluuTwoStep
<1>4. /\ session'[s].who = session[s].who /\ session'[s].user = session[s].user
      /\ session'[s].step = 2 /\ session'[s].passed = session[s].passed
      /\ session'[s].fault = session[s].fault /\ session'[s].stage = "page"
      /\ ~Well(s)' /\ ~Badly(s)' /\ LoginType(s)' /\ session[s].who \in Person
      /\ script' = "super_gluu" /\ conf' = conf /\ OneStep' = OneStep
  BY <1>1, <1>3, ShownSame, ShownType DEF Entrusted, Kept, OneStep, LoginType
<1>5. /\ isUserMemberOfGroup(s)' = isUserMemberOfGroup(s)
      /\ Registered(s) => Registered(s)'
  BY <1>4 DEF Entrusted, Kept, isUserMemberOfGroup, Registered, Entry
<1>6. /\ session'[s].work = v ++ session[s].attrs
      /\ session'[s].attrs = Restrict(v, SuperGluuExtra[2] \cap DOMAIN v)
            ++ session[s].attrs
  BY <1>1 DEF Shown
<1>7. /\ \A n : n \notin DOMAIN v => /\ OnPage(s, n)' = Attr(s, n)
                                     /\ Attr(s, n)' = Attr(s, n)
      /\ OnPage(s, "super_gluu_auth_method")' = method
      /\ session'[s].work["super_gluu_auth_method"] = method
      /\ "super_gluu_auth_method" \in DOMAIN session'[s].attrs
            => session'[s].attrs["super_gluu_auth_method"] = method
      /\ Attr(s, "super_gluu_auth_method")' = method
  <2>1. \A n : n \notin DOMAIN v => OnPage(s, n)' = Attr(s, n)
            /\ Attr(s, n)' = Attr(s, n)
    BY <1>6 DEF OnPage, Attr, Value, ++, Restrict
  <2>2. /\ OnPage(s, "super_gluu_auth_method")' = method
        /\ session'[s].work["super_gluu_auth_method"] = method
    BY <1>2, <1>6 DEF OnPage, Value, ++
  <2>3. SuperGluuExtra[2] = {"super_gluu_auth_method", "super_gluu_request"}
    BY DEF SuperGluuExtra
  <2>4. "super_gluu_auth_method" \in DOMAIN session'[s].attrs
           /\ session'[s].attrs["super_gluu_auth_method"] = method
    BY <1>2, <1>6, <2>3 DEF ++, Restrict
  <2>5. QED
    BY <2>1, <2>2, <2>4 DEF Attr, Value
<1>8. SuperGluuTwoStep(s)'
  <2>1. \A m \in {session'[s].work, session'[s].attrs} :
           "super_gluu_auth_method" \in DOMAIN m => m.super_gluu_auth_method \in Methods
    BY <1>3, <1>7
  <2>2. /\ Attr(s, "super_gluu_count_login_steps")' = None
        /\ Attr(s, "retry_current_step")' = None
        /\ OnPage(s, "super_gluu_count_login_steps")' = None
        /\ OnPage(s, "retry_current_step")' = None
        /\ Attr(s, "session_custom_state")' = Attr(s, "session_custom_state")
    BY <1>2, <1>3, <1>7 DEF SuperGluuTwoStep
  <2>3. /\ Attr(s, "super_gluu_auth_method")' = method
        /\ OnPage(s, "super_gluu_auth_method")' = method
    BY <1>7
  <2>4. /\ \/ method = "authenticate" \/ Attr(s, "session_custom_state") = "approved"
           => Registered(s)
    BY <1>3 DEF SuperGluuTwoStep
  <2>5. /\ \/ Attr(s, "super_gluu_auth_method")' = "authenticate"
           \/ OnPage(s, "super_gluu_auth_method")' = "authenticate"
           \/ Attr(s, "session_custom_state")' = "approved"
           => Registered(s)'
    BY <1>5, <2>2, <2>3, <2>4
  <2>6. /\ session'[s].step \in {1, 2} /\ session'[s].step # 1 /\ ~Well(s)'
        /\ OnPage(s, "retry_current_step")' # TRUE
        /\ Attr(s, "super_gluu_auth_method")' \in Methods
    <3>1. session'[s].step \in {1, 2} /\ session'[s].step # 1 /\ ~Well(s)'
      BY <1>4
    <3>2. OnPage(s, "retry_current_step")' # TRUE
      BY <2>2, NoneIsNothing
    <3>3. Attr(s, "super_gluu_auth_method")' \in Methods
      BY <1>3, <2>3
    <3>4. QED
      BY <3>1, <3>2, <3>3
  <2> HIDE DEF Well
  <2>7. QED
    BY <2>1, <2>2, <2>5, <2>6 DEF SuperGluuTwoStep
<1>9. Ends(s)'
  BY <1>4 DEF Ends
<1>10. PasswordFirst(s)'
  BY <1>3, <1>4 DEF LoginInv, PasswordFirst, Well, At
<1>11. SuperGluuOnly(s)'
  BY <1>4 DEF SuperGluuOnly
<1>12. LoginInv(s)'
  BY <1>4, <1>8, <1>9, <1>10, <1>11, LoginOfScript DEF Entrusted, EntriesInv
<1>13. QED
  BY <1>1, <1>12 DEF StepInv, Entrusted, Shown

\* The notification that is sent to the phone changes no key of an entry.
LEMMA PushEntries ==
    ASSUME IInv, NEW s \in Session, script = "super_gluu", sendPushNotification(s)
    PROVE  Entrusted(s)
<1>1. SetEntry(s, [endpoint |-> TRUE]) \/ Alone
  BY DEF sendPushNotification
<1>2. CASE SetEntry(s, [endpoint |-> TRUE])
  <2> DEFINE c == [endpoint |-> TRUE]
  <2>1. DOMAIN c = {"endpoint"} /\ SetEntry(s, c)
    BY <1>2
  <2> HIDE DEF c
  <2>2. DOMAIN c \subseteq {"uids", "endpoint"} /\ "uids" \notin DOMAIN c
    BY <2>1
  <2>3. EntriesInv /\ LoginType(s) /\ script # "otp"
    BY DEF IInv, LoginInv
  <2>4. QED
    BY <2>1, <2>2, <2>3, EntrySet DEF Entrusted
<1>3. QED
  BY <1>1, <1>2, AloneEntries

\* prepareForStep of super_gluu, after a password.
LEMMA SuperGluuPrepareStep ==
    ASSUME IInv, NEW s \in Session, script = "super_gluu", ~OneStep,
           SuperGluuPrepare1(s) \/ SuperGluuPrepare2(s)
    PROVE  StepInv(s)
<1> DEFINE method == Attr(s, "super_gluu_auth_method")
           request == Attr(s, "super_gluu_request")
<1>1. DOMAIN <<>> \subseteq Told
  OBVIOUS
<1>2. CASE SuperGluuPrepare1(s)
  <2>1. Show(s, SuperGluuExtra[1], <<>>) /\ Alone /\ session[s].stage = "prepare"
    BY <1>2 DEF SuperGluuPrepare1, At
  <2>2. QED
    BY <1>1, <2>1, AloneEntries, Paged
<1>3. CASE SuperGluuPrepare2(s)
  <2>1. At(s, "prepare", 2) /\ session[s].stage = "prepare" /\ session[s].step = 2
    BY <1>3 DEF SuperGluuPrepare2, At
  <2>2. session[s].user # None /\ method # None
    <3>1. session[s].user = session[s].who /\ session[s].who \in Person
      BY <2>1 DEF IInv, LoginInv, LoginType, PasswordFirst, Well
    <3>2. method \in Methods
      BY <2>1 DEF IInv, LoginInv, SuperGluuTwoStep
    <3>3. QED
      BY <3>1, <3>2, NoneIsNothing DEF Methods
  <2>3. CASE Show(s, {}, <<>>) /\ Alone
    BY <1>1, <2>1, <2>3, AloneEntries, Paged
  <2>4. CASE /\ Show(s, SuperGluuExtra[2], [super_gluu_request |-> method,
                                            super_gluu_auth_method |-> method])
             /\ IF method = "authenticate" THEN sendPushNotification(s) ELSE Alone
    <3>1. Entrusted(s)
      BY <2>4, PushEntries, AloneEntries
    <3>2. QED
      BY <2>1, <2>4, <3>1, SuperGluuRequested
  <2>5. \/ Show(s, {}, <<>>) /\ Alone
        \/ /\ Show(s, SuperGluuExtra[2], [super_gluu_request |-> method,
                                          super_gluu_auth_method |-> method])
           /\ IF method = "authenticate" THEN sendPushNotification(s) ELSE Alone
    BY <1>3, <2>2 DEF SuperGluuPrepare2
  <2>6. QED
    BY <2>3, <2>4, <2>5
<1>4. QED
  BY <1>2, <1>3

\* The approval of the phone comes while the login is anywhere in step 2.
LEMMA ApprovalEffect ==
    ASSUME IInv, NEW s \in Session, NEW enroll,
           Become(s, Putting(s, [session_custom_state |-> "approved",
                                 enroll |-> enroll, one_step |-> OneStep]))
    PROVE  /\ Shape' /\ Others(s)
           /\ session'[s].who = session[s].who /\ session'[s].user = session[s].user
           /\ session'[s].stage = session[s].stage /\ session'[s].step = session[s].step
           /\ session'[s].work = session[s].work /\ session'[s].reply = session[s].reply
           /\ session'[s].passed = session[s].passed
           /\ session'[s].fault = session[s].fault
           /\ session'[s].tries = session[s].tries
           /\ Well(s)' = Well(s) /\ Badly(s)' = Badly(s)
           /\ \A n : OnPage(s, n)' = OnPage(s, n)
           /\ \A n : n \notin {"session_custom_state", "enroll", "one_step"} =>
                 /\ Attr(s, n)' = Attr(s, n)
                 /\ n \in DOMAIN session'[s].attrs => /\ n \in DOMAIN session[s].attrs
                                                      /\ session'[s].attrs[n]
                                                            = session[s].attrs[n]
           /\ Attr(s, "enroll")' = enroll
<1> DEFINE v == [session_custom_state |-> "approved", enroll |-> enroll,
                 one_step |-> OneStep]
           c == Putting(s, v)
<1>1. /\ DOMAIN v = {"session_custom_state", "enroll", "one_step"} /\ v.enroll = enroll
  OBVIOUS
<1> HIDE DEF v
<1>2. DOMAIN c = {"attrs"} /\ DOMAIN c \subseteq Fields
          /\ c.attrs = v ++ session[s].attrs
  BY DEF Putting, Fields
<1>3. Become(s, c)
  BY DEF v
<1> HIDE DEF c
<1>4. /\ Shape' /\ Others(s) /\ session'[s].attrs = v ++ session[s].attrs
      /\ Same(s, Fields \ {"attrs"})
  BY <1>2, <1>3, BecomeEffect DEF IInv
<1>5. /\ \A n : n \notin DOMAIN v => Attr(s, n)' = Attr(s, n)
      /\ \A n : n \notin DOMAIN v /\ n \in DOMAIN session'[s].attrs =>
            n \in DOMAIN session[s].attrs /\ session'[s].attrs[n] = session[s].attrs[n]
      /\ Attr(s, "enroll")' = enroll
  BY <1>1, <1>4 DEF Attr, Value, ++
<1>6. QED
  BY <1>1, <1>4, <1>5 DEF Same, Fields, Well, Badly, OnPage

\* An approval changes nothing that a login ends for.
LEMMA ApprovalKeeps ==
    ASSUME IInv, NEW s \in Session, script = "super_gluu", Entrusted(s), NEW enroll,
           Become(s, Putting(s, [session_custom_state |-> "approved",
                                 enroll |-> enroll, one_step |-> OneStep])),
           session[s].stage \in {"prepare", "page", "answered"}
    PROVE  /\ LoginType(s)' /\ Ends(s)' /\ PasswordFirst(s)'
           /\ script' = "super_gluu" /\ OneStep' = OneStep /\ conf' = conf
           /\ session[s].who \in Person /\ Object'
           /\ isUserMemberOfGroup(s)' = isUserMemberOfGroup(s)
           /\ Registered(s) => Registered(s)'
           /\ SuperGluuTwoStep(s)' /\ SuperGluuOnly(s)' => StepInv(s)
<1>1. LoginInv(s) /\ LoginType(s) /\ Ends(s) /\ Kept /\ EntriesInv'
  BY DEF IInv, LoginInv, Entrusted
<1>2. /\ Shape' /\ Others(s)
      /\ session'[s].who = session[s].who /\ session'[s].user = session[s].user
      /\ session'[s].stage = session[s].stage /\ session'[s].step = session[s].step
      /\ session'[s].work = session[s].work /\ session'[s].reply = session[s].reply
      /\ session'[s].passed = session[s].passed
      /\ session'[s].fault = session[s].fault /\ session'[s].tries = session[s].tries
      /\ Well(s)' = Well(s) /\ Badly(s)' = Badly(s)
      /\ Attr(s, "mobile_number")' = Attr(s, "mobile_number")
      /\ Attr(s, "state")' = Attr(s, "state")
  BY ApprovalEffect
<1>3. LoginType(s)'
  BY <1>1, <1>2 DEF LoginType
<1>4. Reason(s) => Reason(s)'
  BY <1>1, <1>2, ReasonStays DEF EntriesInv, IInv
<1>5. Ends(s)'
  BY <1>1, <1>2, <1>4 DEF Ends
<1>6. /\ script' = "super_gluu" /\ OneStep' = OneStep /\ conf' = conf
      /\ session[s].who \in Person /\ Object'
  BY <1>1 DEF Kept, OneStep, LoginType, EntriesInv
<1>7. /\ isUserMemberOfGroup(s)' = isUserMemberOfGroup(s)
      /\ Registered(s) => Registered(s)'
  BY <1>1, <1>2, <1>6 DEF Kept, isUserMemberOfGroup, Registered, Entry
<1>8. PasswordFirst(s)'
  BY <1>1, <1>2, <1>6 DEF LoginInv, PasswordFirst
<1>9. SuperGluuTwoStep(s)' /\ SuperGluuOnly(s)' => StepInv(s)
  BY <1>2, <1>3, <1>5, <1>6, <1>8, LoginOfScript DEF StepInv, Entrusted
<1>10. QED
  BY <1>3, <1>5, <1>6, <1>7, <1>8, <1>9

\* The phone approves or denies, or enrolls itself: the login after a password.
LEMMA ApproveStep ==
    ASSUME IInv, NEW s \in Session, script = "super_gluu", ~OneStep, Approve(s)
    PROVE  StepInv(s)
<1> DEFINE e == Attr(s, "super_gluu_auth_method") = "enroll"
<1>1. /\ session[s].stage \in {"prepare", "page", "answered"}
      /\ Attr(s, "super_gluu_request") # None
      /\ Become(s, Putting(s, [session_custom_state |-> "approved",
                               enroll |-> e, one_step |-> OneStep]))
      /\ IF e THEN RegisterDevice(s) ELSE Alone
  BY DEF Approve
<1>2. /\ LoginInv(s) /\ LoginType(s) /\ EntriesInv /\ SuperGluuTwoStep(s)
  BY DEF IInv, LoginInv
<1>3. Attr(s, "super_gluu_auth_method") \in Methods /\ session[s].step # 1
  BY <1>1, <1>2 DEF SuperGluuTwoStep
<1>4. session'[s].who = session[s].who
  BY <1>1, ApprovalEffect
<1>5. Entrusted(s) /\ (e => Registered(s)')
  <2>1. CASE e
    BY <1>1, <1>2, <1>4, <2>1, DeviceRegistered DEF Entrusted
  <2>2. CASE ~e
    BY <1>1, <2>2, AloneEntries
  <2>3. QED
    BY <2>1, <2>2
<1>6. ~e => Registered(s)
  BY <1>2, <1>3 DEF SuperGluuTwoStep, Methods
<1> HIDE DEF e
<1>7. /\ session'[s].user = session[s].user
      /\ session'[s].step = session[s].step
      /\ session'[s].work = session[s].work
      /\ session'[s].passed = session[s].passed
      /\ session'[s].fault = session[s].fault
      /\ Well(s)' = Well(s)
      /\ \A n : OnPage(s, n)' = OnPage(s, n)
      /\ \A n : n \notin {"session_custom_state", "enroll", "one_step"} =>
            /\ Attr(s, n)' = Attr(s, n)
            /\ n \in DOMAIN session'[s].attrs => /\ n \in DOMAIN session[s].attrs
                                                 /\ session'[s].attrs[n]
                                                       = session[s].attrs[n]
  BY <1>1, ApprovalEffect
<1>8. /\ script' = "super_gluu" /\ OneStep' = OneStep /\ conf' = conf
      /\ isUserMemberOfGroup(s)' = isUserMemberOfGroup(s)
      /\ Registered(s)'
      /\ SuperGluuTwoStep(s)' /\ SuperGluuOnly(s)' => StepInv(s)
  BY <1>1, <1>5, <1>6, ApprovalKeeps
<1>9. /\ Attr(s, "super_gluu_count_login_steps")'
            = Attr(s, "super_gluu_count_login_steps")
      /\ Attr(s, "retry_current_step")' = Attr(s, "retry_current_step")
      /\ Attr(s, "super_gluu_auth_method")' = Attr(s, "super_gluu_auth_method")
      /\ \A m \in {session'[s].work, session'[s].attrs} :
            "super_gluu_auth_method" \in DOMAIN m
                => m.super_gluu_auth_method \in Methods
  BY <1>2, <1>7 DEF SuperGluuTwoStep
<1>10. SuperGluuTwoStep(s)'
  BY <1>2, <1>3, <1>7, <1>8, <1>9 DEF SuperGluuTwoStep
<1>11. SuperGluuOnly(s)'
  BY <1>8 DEF SuperGluuOnly
<1>12. QED
  BY <1>8, <1>10, <1>11

\* What is gone to, and what a repeated step begins with.
LEMMA RepeatedWork ==
    ASSUME NEW work, script = "super_gluu"
    PROVE  /\ \A n : n # "super_gluu_request" =>
                /\ n \in DOMAIN Repeated(work) <=> n \in DOMAIN work
                /\ n \in DOMAIN work => Repeated(work)[n] = work[n]
BY DEF Repeated, ++

\* The server after a step of super_gluu that has two: the page again, step 2, or
\* the end.
LEMMA SuperGluuProceeds ==
    ASSUME IInv, NEW s \in Session, script = "super_gluu", ~OneStep, Proceed(s)
    PROVE  StepInv(s)
<1> DEFINE work == session[s].work
           extra == [step \in Nat |-> getExtraParametersForStep(step)]
           count == SuperGluuCount(work)
           next == SuperGluuNext(s, work)
           r == session[s].step
           kept == Repeated(work)
<1>1. Forward(s, kept, next, count, extra) /\ session[s].stage = "answered"
  BY DEF Proceed, getNextStep, getCountAuthenticationSteps, Forward
<1>2. /\ LoginInv(s) /\ LoginType(s) /\ SuperGluuTwoStep(s) /\ r \in {1, 2}
      /\ PasswordFirst(s) /\ EntryCounts(session[s].who) /\ Object
      /\ session[s].who \in Person
  BY DEF IInv, LoginInv, LoginType, EntriesInv, SuperGluuTwoStep
<1>3. /\ \A n : n # "super_gluu_request" =>
            /\ n \in DOMAIN kept <=> n \in DOMAIN work
            /\ n \in DOMAIN work => kept[n] = work[n]
  BY RepeatedWork
<1>4. /\ extra[1] = {"display_register_action"}
      /\ extra[2] = {"super_gluu_auth_method", "super_gluu_request"}
  BY DEF getExtraParametersForStep, SuperGluuExtra
<1>5. /\ next \in {0, r}
      /\ next # 0 => OnPage(s, "retry_current_step") = TRUE /\ session[s].fault
  <2>1. next = IF OnPage(s, "retry_current_step") = TRUE THEN r ELSE 0
    BY DEF SuperGluuNext, OnPage
  <2>2. OnPage(s, "retry_current_step") = TRUE => session[s].fault
    BY <1>2 DEF SuperGluuTwoStep
  <2> HIDE DEF next
  <2>3. QED
    BY <1>2, <2>1, <2>2
<1>6. /\ count = IF OnPage(s, "super_gluu_count_login_steps") # None
                 THEN OnPage(s, "super_gluu_count_login_steps") ELSE 2
  BY NoneIsNothing DEF SuperGluuCount, OnPage, Value
<1>7. /\ count \in {1, 2}
      /\ count = 1 => "super_gluu_group" \in conf /\ ~isUserMemberOfGroup(s)
  BY <1>2, <1>6 DEF SuperGluuTwoStep
<1> HIDE DEF extra, count, next, kept
<1>8. ASSUME Well(s), r >= count PROVE Through(s)
  <2>1. session[s].user = session[s].who /\ "password" \in session[s].passed
    BY <1>2, <1>8 DEF PasswordFirst
  <2>2. CASE r = 2
    <3>1. "device" \in session[s].passed
      BY <1>2, <1>8, <2>2 DEF SuperGluuTwoStep
    <3>2. QED
      BY <2>1, <3>1 DEF Through, Demanded
  <2>3. CASE r = 1
    <3>1. "super_gluu_group" \in conf /\ ~isUserMemberOfGroup(s)
      BY <1>7, <1>8, <2>3
    <3>2. Entry(s).groups = {}
      BY <1>2, <3>1 DEF EntryCounts, Object, isUserMemberOfGroup, Entry
    <3>3. QED
      BY <2>1, <3>1, <3>2 DEF Through, Demanded
  <2>4. QED
    BY <1>2, <2>2, <2>3
<1>9. ASSUME Entrusted(s), NEW x \in {1, 2}, Gone(s, kept, x, extra[x]),
             \/ x = r /\ session[s].tries + 1 < MaxTries
             \/ x = r + 1 /\ Well(s) /\ r < count
      PROVE  StepInv(s)
  <2>1. x \in 1..3 /\ (x > r \/ session[s].tries + 1 < MaxTries)
    BY <1>2, <1>9
  <2>2. WentTo(s, kept, x, extra[x])
    BY <1>9, <2>1, WentToStep
  <2>3. /\ session'[s].who = session[s].who /\ session'[s].user = session[s].user
        /\ session'[s].passed = session[s].passed
        /\ session'[s].fault = session[s].fault
        /\ session'[s].step = x /\ session'[s].work = <<>>
        /\ (\A n : OnPage(s, n)' = None)
        /\ session'[s].attrs = Restrict(kept, extra[x] \cap DOMAIN kept)
              ++ session[s].attrs
        /\ \A n : Attr(s, n)' = IF n \in extra[x] /\ n \in DOMAIN kept
                                THEN kept[n] ELSE Attr(s, n)
        /\ script' = "super_gluu" /\ conf' = conf /\ OneStep' = OneStep /\ ~Well(s)'
    BY <2>2 DEF WentTo, OneStep
  <2>4. /\ isUserMemberOfGroup(s)' = isUserMemberOfGroup(s)
        /\ Registered(s) => Registered(s)'
    BY <1>2, <1>9, <2>3 DEF Entrusted, Kept, isUserMemberOfGroup, Registered, Entry
  <2>5. PasswordFirst(s)'
    <3>1. r # 1 \/ Well(s) \/ x = 1
      BY <1>2, <1>9
    <3>2. QED
      BY <1>2, <2>3, <3>1 DEF PasswordFirst
  <2>6. /\ Attr(s, "super_gluu_count_login_steps")'
              = Attr(s, "super_gluu_count_login_steps")
        /\ Attr(s, "retry_current_step")' = Attr(s, "retry_current_step")
        /\ Attr(s, "session_custom_state")' = Attr(s, "session_custom_state")
        /\ x = 1 => Attr(s, "super_gluu_request")' = Attr(s, "super_gluu_request")
    BY <1>4, <2>3
  <2>7. /\ \/ /\ Attr(s, "super_gluu_auth_method")' = Attr(s, "super_gluu_auth_method")
              /\ x # 2 \/ "super_gluu_auth_method" \notin DOMAIN work
           \/ /\ x = 2 /\ "super_gluu_auth_method" \in DOMAIN work
              /\ Attr(s, "super_gluu_auth_method")' = work["super_gluu_auth_method"]
        /\ "super_gluu_auth_method" \in DOMAIN session'[s].attrs =>
              \/ /\ "super_gluu_auth_method" \in DOMAIN work
                 /\ session'[s].attrs["super_gluu_auth_method"]
                       = work["super_gluu_auth_method"]
              \/ /\ "super_gluu_auth_method" \in DOMAIN session[s].attrs
                 /\ session'[s].attrs["super_gluu_auth_method"]
                       = session[s].attrs["super_gluu_auth_method"]
    <3>1. "super_gluu_auth_method" \in DOMAIN session'[s].attrs =>
              \/ /\ "super_gluu_auth_method" \in DOMAIN kept
                 /\ session'[s].attrs["super_gluu_auth_method"]
                       = kept["super_gluu_auth_method"]
              \/ /\ "super_gluu_auth_method" \in DOMAIN session[s].attrs
                 /\ session'[s].attrs["super_gluu_auth_method"]
                       = session[s].attrs["super_gluu_auth_method"]
      BY <2>3 DEF ++, Restrict
    <3>2. /\ "super_gluu_auth_method" \in DOMAIN kept <=> "super_gluu_auth_method"
                \in DOMAIN work
          /\ "super_gluu_auth_method" \in DOMAIN work =>
                kept["super_gluu_auth_method"] = work["super_gluu_auth_method"]
      BY <1>3
    <3>3. QED
      BY <1>4, <1>9, <2>3, <3>1, <3>2
  <2>8. "super_gluu_auth_method" \in DOMAIN work =>
           /\ work["super_gluu_auth_method"] \in Methods
           /\ work["super_gluu_auth_method"] = OnPage(s, "super_gluu_auth_method")
    BY <1>2 DEF SuperGluuTwoStep, OnPage, Value
  <2>9. x # 1 => Attr(s, "super_gluu_auth_method")' \in Methods
    <3>1. CASE r = 2
      BY <1>2, <2>7, <2>8, <3>1 DEF SuperGluuTwoStep
    <3>2. CASE r = 1 /\ x = 2
      <4>1. Well(s) /\ r < count
        BY <1>9, <3>2
      <4>2. OnPage(s, "super_gluu_count_login_steps") # 1
        BY <1>6, <3>2, <4>1, NoneIsNothing
      <4>3. OnPage(s, "super_gluu_auth_method") \in Methods
        BY <1>2, <3>2, <4>1, <4>2 DEF SuperGluuTwoStep
      <4>4. "super_gluu_auth_method" \in DOMAIN work
        BY <4>3, NoneIsNothing DEF OnPage, Value, Methods
      <4>5. QED
        BY <2>7, <2>8, <3>2, <4>4
    <3>3. QED
      BY <1>2, <1>9, <3>1, <3>2
  <2>10. \A m \in {session'[s].work, session'[s].attrs} :
           "super_gluu_auth_method" \in DOMAIN m => m.super_gluu_auth_method \in Methods
    <3>1. "super_gluu_auth_method" \notin DOMAIN session'[s].work
      BY <2>3
    <3>2. "super_gluu_auth_method" \in DOMAIN session[s].attrs =>
             session[s].attrs.super_gluu_auth_method \in Methods
      BY <1>2 DEF SuperGluuTwoStep
    <3>3. QED
      BY <2>7, <2>8, <3>1, <3>2
  <2>11. \/ Attr(s, "super_gluu_auth_method")' = "authenticate"
         \/ OnPage(s, "super_gluu_auth_method")' = "authenticate"
         \/ Attr(s, "session_custom_state")' = "approved"
         => Registered(s)'
    <3>1. OnPage(s, "super_gluu_auth_method")' # "authenticate"
      BY <2>3, NoneIsNothing
    <3>2. QED
      BY <1>2, <2>4, <2>6, <2>7, <2>8, <3>1 DEF SuperGluuTwoStep
  <2>12. OnPage(s, "retry_current_step")' # TRUE
    BY <2>3, NoneIsNothing
  <2>13. x = 1 => Attr(s, "super_gluu_request")' = None
    BY <1>2, <1>9, <2>6 DEF SuperGluuTwoStep
  <2>14. SuperGluuTwoStep(s)'
    <3>1. /\ Attr(s, "super_gluu_count_login_steps")' = None
          /\ Attr(s, "retry_current_step")' = None
      BY <1>2, <2>6 DEF SuperGluuTwoStep
    <3>2. /\ session'[s].step \in {1, 2}
          /\ session'[s].step = 1 => Attr(s, "super_gluu_request")' = None
          /\ session'[s].step # 1 => Attr(s, "super_gluu_auth_method")' \in Methods
          /\ OnPage(s, "super_gluu_count_login_steps")' = None /\ ~Well(s)'
      BY <2>3, <2>9, <2>13
    <3>3. QED
      BY <2>10, <2>11, <2>12, <3>1, <3>2 DEF SuperGluuTwoStep
  <2>15. SuperGluuOnly(s)'
    BY <2>3 DEF SuperGluuOnly
  <2>16. QED
    BY <2>2, <2>3, <2>5, <2>14, <2>15, LoginOfScript DEF WentTo
<1>10. next # 0 /\ session[s].tries + 1 = MaxTries => Reason(s)
  BY <1>5 DEF Reason
<1>11. next # 0 /\ session[s].tries + 1 < MaxTries /\ Entrusted(s)
          /\ Gone(s, kept, next, extra[next]) => StepInv(s)
  BY <1>2, <1>5, <1>9
<1>12. Well(s) /\ r < count => r + 1 \in {1, 2}
  BY <1>2, <1>7
<1>13. Well(s) /\ r < count /\ Entrusted(s) /\ Gone(s, kept, r + 1, extra[r + 1])
          => StepInv(s)
  BY <1>9, <1>12
<1>14. QED
  BY <1>1, <1>8, <1>10, <1>11, <1>13, Proceeds

-----------------------------------------------------------------------------
\* Super Gluu as the only step.
OnlyStep == script = "super_gluu" /\ OneStep

\* What has been answered in this mode.
LEMMA OnlyAnswer ==
    ASSUME IInv, NEW s \in Session, OnlyStep, Entrusted(s), session[s].stage = "page",
           NEW c, NEW reply \in BOOLEAN, IF reply THEN Answer(s, c) ELSE Refuse(s, c),
           DOMAIN c \subseteq {"user", "passed", "fault", "work"}, "work" \in DOMAIN c,
           "user" \in DOMAIN c => c.user = session[s].who,
           "fault" \in DOMAIN c => c.fault = TRUE,
           "passed" \in DOMAIN c => session[s].passed \subseteq c.passed,
           reply \/ "fault" \in DOMAIN c \/ Reason(s),
           Value(c.work, "super_gluu_count_login_steps") =
              IF "user" \in DOMAIN c THEN 1 ELSE None,
           Value(c.work, "retry_current_step") = TRUE => "fault" \in DOMAIN c,
           reply => /\ session[s].step = 1
                    /\ "passed" \in DOMAIN c /\ "device" \in c.passed
                    /\ "user" \notin DOMAIN c => Attr(s, "enroll") = TRUE,
           "user" \in DOMAIN c =>
              reply /\ Value(c.work, "retry_current_step") = FALSE
    PROVE  StepInv(s)
<1>1. DOMAIN c \subseteq Changeable /\ "attrs" \notin DOMAIN c
  BY DEF Changeable
<1>2. Answered(s, c, reply)
  BY <1>1, AnsweredStep
<1>3. SuperGluuOnly(s) /\ ~Well(s) /\ session[s].stage # "done" /\ OneStep
  BY <1>2 DEF Answered, LoginInv, Well, OnlyStep
<1>4. session[s].user = None
  BY <1>3 DEF SuperGluuOnly, OnlyStep
<1>5. /\ session'[s].step = session[s].step /\ session'[s].who = session[s].who
      /\ Well(s)' = reply /\ session'[s].work = c.work
      /\ session'[s].attrs = session[s].attrs
      /\ session'[s].passed = IF "passed" \in DOMAIN c THEN c.passed
                              ELSE session[s].passed
      /\ session'[s].user = IF "user" \in DOMAIN c THEN session[s].who ELSE None
      /\ session'[s].fault = ("fault" \in DOMAIN c \/ session[s].fault)
      /\ script' = "super_gluu" /\ OneStep' = OneStep /\ session[s].who \in Person
  BY <1>1, <1>2, <1>4 DEF Answered, OneStep, OnlyStep
<1>6. /\ \A n : OnPage(s, n)' = Value(c.work, n)
      /\ \A n : Attr(s, n)' = Attr(s, n)
  BY <1>5 DEF OnPage, Attr
<1>7. Registered(s)' = Registered(s)
  BY <1>5, <1>3 DEF Entrusted, Kept, Registered, Entry, OnlyStep
<1>8. 1 # None
  BY NoneIsNothing
<1>9. SuperGluuOnly(s)'
  <2>1. /\ session'[s].step \in {1, 2}
        /\ Attr(s, "super_gluu_count_login_steps")' = None
        /\ Attr(s, "retry_current_step")' = None
        /\ OnPage(s, "super_gluu_count_login_steps")' \in {None, 1}
        /\ OnPage(s, "retry_current_step")' = TRUE => session'[s].fault
    BY <1>3, <1>5, <1>6 DEF SuperGluuOnly, OnlyStep
  <2>2. /\ session'[s].step # 1 \/ Well(s)' => "device" \in session'[s].passed
        /\ Well(s)' => session'[s].step = 1
    BY <1>3, <1>5 DEF SuperGluuOnly, OnlyStep
  <2>3. session'[s].user # None =>
              /\ Well(s)'
              /\ OnPage(s, "super_gluu_count_login_steps")' = 1
              /\ OnPage(s, "retry_current_step")' = FALSE
    BY <1>5, <1>6
  <2>4. OnPage(s, "super_gluu_count_login_steps")' = 1
            => session'[s].user = session'[s].who
    BY <1>5, <1>6, <1>8
  <2>5. session'[s].step # 1 \/ (Well(s)' /\ session'[s].user = None)
              => Attr(s, "enroll")' = TRUE
    <3>1. session[s].who # None
      BY <1>5, NoneIsNothing
    <3>2. QED
      BY <1>3, <1>5, <1>6, <3>1 DEF SuperGluuOnly, OnlyStep
  <2>6. Attr(s, "session_custom_state")' = "approved" \/ Attr(s, "enroll")' # None
              => Attr(s, "enroll")' = ~Registered(s)'
    BY <1>3, <1>6, <1>7 DEF SuperGluuOnly, OnlyStep
  <2>7. QED
    BY <2>1, <2>2, <2>3, <2>4, <2>5, <2>6 DEF SuperGluuOnly
<1>10. SuperGluuTwoStep(s)' /\ PasswordFirst(s)'
  BY <1>3, <1>5 DEF SuperGluuTwoStep, PasswordFirst
<1>11. QED
  BY <1>2, <1>5, <1>9, <1>10, LoginOfScript DEF Answered

\* A time-out, or a page that failed.
LEMMA OnlyTimeOutStep ==
    ASSUME IInv, NEW s \in Session, OnlyStep, SuperGluuTimeOut(s)
    PROVE  StepInv(s)
<1>1. PICK again \in BOOLEAN : Refuse(s, Fault ++ Retry(s, again))
  BY DEF SuperGluuTimeOut
<1>2. Entrusted(s) /\ session[s].stage = "page"
  BY AloneEntries DEF SuperGluuTimeOut
<1> DEFINE r == Retry(s, again)
           c == Fault ++ r
<1>3. DOMAIN r = {"work"} /\ r.work = [retry_current_step |-> again] ++ session[s].attrs
  BY RetryNoted
<1> HIDE DEF r
<1>4. /\ DOMAIN c = {"fault", "work"} /\ c.fault = TRUE /\ c.work = r.work
  BY <1>3, FaultFields DEF ++
<1>5. Refuse(s, c)
  BY <1>1 DEF r
<1> HIDE DEF c
<1>6. Value(c.work, "super_gluu_count_login_steps") = None
  <2>1. Attr(s, "super_gluu_count_login_steps") = None
    BY DEF IInv, LoginInv, SuperGluuOnly, OnlyStep
  <2>2. QED
    BY <1>3, <1>4, <2>1 DEF Attr, Value, ++
<1>7. DOMAIN c \subseteq {"user", "passed", "fault", "work"} /\ FALSE \in BOOLEAN
  BY <1>4
<1>8. QED
  BY <1>2, <1>4, <1>5, <1>6, <1>7, OnlyAnswer

\* The phone has approved: a known one is the person's login, a new one asks
\* for the password of step 2.
LEMMA OnlyFirstStep ==
    ASSUME IInv, NEW s \in Session, OnlyStep, SuperGluuOneStep(s)
    PROVE  StepInv(s)
<1>1. /\ At(s, "page", 1) /\ DeviceStatus(s) /\ Entrusted(s)
      /\ session[s].stage = "page" /\ session[s].step = 1
  BY AloneEntries DEF SuperGluuOneStep, At
<1>2. /\ Attr(s, "enroll") = ~Registered(s)
      /\ Attr(s, "super_gluu_count_login_steps") = None
  BY <1>1 DEF IInv, LoginInv, SuperGluuOnly, OnlyStep, DeviceStatus
<1>3. CASE ~Registered(s)
  <2> DEFINE r == Retry(s, FALSE)
             c == r ++ Passing(s, "device")
  <2>1. Attr(s, "enroll") = TRUE
    BY <1>2, <1>3
  <2>2. Answer(s, c)
    BY <2>1 DEF SuperGluuOneStep
  <2>3. DOMAIN r = {"work"} /\ r.work = [retry_current_step |-> FALSE]
            ++ session[s].attrs
    BY RetryNoted
  <2> HIDE DEF r
  <2>4. /\ DOMAIN c = {"passed", "work"} /\ c.passed = session[s].passed \cup {"device"}
        /\ c.work = r.work
    BY <2>3 DEF ++, Passing
  <2> HIDE DEF c
  <2>5. /\ Value(c.work, "super_gluu_count_login_steps") = None
        /\ Value(c.work, "retry_current_step") = FALSE
    BY <1>2, <2>3, <2>4 DEF Attr, Value, ++
  <2>6. /\ DOMAIN c \subseteq {"user", "passed", "fault", "work"} /\ TRUE \in BOOLEAN
        /\ "device" \in c.passed /\ session[s].passed \subseteq c.passed
        /\ Value(c.work, "retry_current_step") # TRUE
    BY <2>4, <2>5
  <2>7. QED
    BY <1>1, <2>1, <2>2, <2>4, <2>5, <2>6, OnlyAnswer
<1>4. CASE Registered(s)
  <2> DEFINE v == [retry_current_step |-> FALSE, super_gluu_count_login_steps |-> 1]
             c == [user |-> session[s].who] ++ Passing(s, "device") ++ Setting(s, v)
  <2>1. ~Attr(s, "enroll") /\ ValidDevice(s)
    BY <1>2, <1>4 DEF ValidDevice
  <2>2. Answer(s, c)
    BY <2>1 DEF SuperGluuOneStep
  <2>3. /\ DOMAIN v = {"retry_current_step", "super_gluu_count_login_steps"}
        /\ v.retry_current_step = FALSE /\ v.super_gluu_count_login_steps = 1
    OBVIOUS
  <2> HIDE DEF v
  <2>4. /\ DOMAIN c = {"user", "passed", "work"} /\ c.user = session[s].who
        /\ c.passed = session[s].passed \cup {"device"}
        /\ c.work = v ++ session[s].attrs
    BY DEF ++, Passing, Setting
  <2> HIDE DEF c
  <2>5. /\ Value(c.work, "super_gluu_count_login_steps") = 1
        /\ Value(c.work, "retry_current_step") = FALSE
    BY <2>3, <2>4 DEF Value, ++
  <2>6. /\ DOMAIN c \subseteq {"user", "passed", "fault", "work"} /\ TRUE \in BOOLEAN
        /\ "device" \in c.passed /\ session[s].passed \subseteq c.passed
        /\ Value(c.work, "retry_current_step") # TRUE /\ "user" \in DOMAIN c
    BY <2>4, <2>5
  <2>7. QED
    BY <1>1, <2>2, <2>4, <2>5, <2>6, OnlyAnswer
<1>5. QED
  BY <1>3, <1>4

\* The second step begins with the person that nobody is yet.
LEMMA OnlySecondStep ==
    ASSUME IInv, NEW s \in Session, OnlyStep, SuperGluuSecond(s)
    PROVE  StepInv(s)
<1>1. /\ session[s].stage = "page" /\ session[s].step = 2 /\ SuperGluuOnly(s)
  BY DEF SuperGluuSecond, At, IInv, LoginInv
<1>2. session[s].user = None
  BY <1>1 DEF SuperGluuOnly, Well, OnlyStep
<1> DEFINE c == Retry(s, FALSE)
<1>3. Refuse(s, c) /\ Entrusted(s)
  BY <1>2, AloneEntries DEF SuperGluuSecond
<1>4. DOMAIN c = {"work"} /\ c.work = [retry_current_step |-> FALSE] ++ session[s].attrs
  BY RetryNoted
<1> HIDE DEF c
<1>5. Reason(s)
  <2>1. /\ Attr(s, "enroll") = TRUE
        /\ Attr(s, "enroll") # None => Attr(s, "enroll") = ~Registered(s)
    BY <1>1 DEF SuperGluuOnly, OnlyStep
  <2>2. ~Registered(s)
    BY <2>1, NoneIsNothing
  <2>3. QED
    BY <2>2 DEF Reason, BrokenByScript, OnlyStep
<1>6. /\ Value(c.work, "super_gluu_count_login_steps") = None
      /\ Value(c.work, "retry_current_step") = FALSE
  <2>1. Attr(s, "super_gluu_count_login_steps") = None
    BY <1>1 DEF SuperGluuOnly, OnlyStep
  <2>2. QED
    BY <1>4, <2>1 DEF Attr, Value, ++
<1>7. /\ DOMAIN c \subseteq {"user", "passed", "fault", "work"} /\ FALSE \in BOOLEAN
      /\ Value(c.work, "retry_current_step") # TRUE
  BY <1>4, <1>6
<1>8. QED
  BY <1>1, <1>3, <1>4, <1>5, <1>6, <1>7, OnlyAnswer

\* The request of the only step is on its page.
LEMMA OnlyPrepareStep ==
    ASSUME IInv, NEW s \in Session, OnlyStep,
           SuperGluuPrepare1(s) \/ SuperGluuPrepare2(s)
    PROVE  StepInv(s)
<1>1. OneStep /\ script = "super_gluu" /\ Entrusted(s) /\ NotTaken(s)
         /\ session[s].stage = "prepare"
  <2>1. Alone /\ session[s].stage = "prepare"
    BY DEF SuperGluuPrepare1, SuperGluuPrepare2, At, OnlyStep
  <2>2. QED
    BY <2>1, AloneEntries DEF OnlyStep
<1>2. CASE SuperGluuPrepare2(s)
  <2>1. DOMAIN <<>> \subseteq Told
    OBVIOUS
  <2>2. CASE Show(s, {}, <<>>)
    BY <1>1, <2>1, <2>2, Paged
  <2>3. QED
    BY <1>1, <1>2, <2>2 DEF SuperGluuPrepare2
<1>3. CASE SuperGluuPrepare1(s)
  <2> DEFINE v == [super_gluu_request |-> "one_step"]
  <2>1. Shown(s, SuperGluuExtra[1], v)
    BY <1>1, <1>3, ShowEffect DEF SuperGluuPrepare1, IInv
  <2>2. DOMAIN v = {"super_gluu_request"}
    OBVIOUS
  <2> HIDE DEF v
  <2>3. LoginInv(s) /\ SuperGluuOnly(s) /\ session[s].step = 1 /\ ~Well(s)
    BY <1>1, <1>3 DEF IInv, LoginInv, SuperGluuPrepare1, At, Well
  <2>4. session[s].user = None
    BY <1>1, <2>3 DEF SuperGluuOnly
  <2>5. /\ session'[s].who = session[s].who /\ session'[s].user = None
        /\ session'[s].step = 1 /\ session'[s].stage = "page"
        /\ ~Well(s)' /\ ~Badly(s)' /\ LoginType(s)' /\ session[s].who \in Person
        /\ script' = "super_gluu" /\ OneStep'
    BY <1>1, <2>1, <2>3, <2>4, ShownSame, ShownType
       DEF Entrusted, Kept, OneStep, LoginInv, LoginType
  <2>6. Registered(s)' = Registered(s)
    BY <1>1, <2>5 DEF Entrusted, Kept, Registered, Entry
  <2>7. \A n : n # "super_gluu_request" => OnPage(s, n)' = Attr(s, n)
            /\ Attr(s, n)' = Attr(s, n)
    BY <2>1, <2>2 DEF Shown, OnPage, Attr, Value, ++
  <2>8. SuperGluuOnly(s)'
    <3>1. /\ Attr(s, "super_gluu_count_login_steps")' = None
          /\ Attr(s, "retry_current_step")' = None
          /\ OnPage(s, "super_gluu_count_login_steps")' = None
          /\ OnPage(s, "retry_current_step")' = None
          /\ Attr(s, "session_custom_state")' = Attr(s, "session_custom_state")
          /\ Attr(s, "enroll")' = Attr(s, "enroll")
      BY <1>1, <2>3, <2>7 DEF SuperGluuOnly
    <3>2. OnPage(s, "retry_current_step")' # TRUE
             /\ OnPage(s, "super_gluu_count_login_steps")' # 1
      BY <3>1, NoneIsNothing
    <3>3. QED
      BY <1>1, <2>3, <2>5, <2>6, <3>1, <3>2 DEF SuperGluuOnly
  <2>9. Ends(s)' /\ SuperGluuTwoStep(s)' /\ PasswordFirst(s)'
    BY <2>5 DEF Ends, SuperGluuTwoStep, PasswordFirst
  <2>10. QED
    BY <1>1, <2>1, <2>5, <2>8, <2>9, LoginOfScript
       DEF StepInv, Entrusted, Shown, EntriesInv
<1>4. QED
  BY <1>2, <1>3

\* The phone of a login that has no other step approves, denies or enrolls itself.
LEMMA OnlyApproveStep ==
    ASSUME IInv, NEW s \in Session, OnlyStep, Approve(s)
    PROVE  StepInv(s)
<1> DEFINE e == ~Registered(s)
<1>1. /\ OneStep /\ script = "super_gluu" /\ Entrusted(s) /\ Alone
      /\ session[s].stage \in {"prepare", "page", "answered"}
      /\ Become(s, Putting(s, [session_custom_state |-> "approved",
                               enroll |-> e, one_step |-> OneStep]))
  <2>1. Alone
    BY DEF Approve, OnlyStep
  <2>2. QED
    BY <2>1, AloneEntries DEF Approve, OnlyStep
<1>2. LoginInv(s) /\ SuperGluuOnly(s)
  BY DEF IInv, LoginInv
<1> HIDE DEF e
<1>3. /\ session'[s].who = session[s].who /\ session'[s].user = session[s].user
      /\ session'[s].stage = session[s].stage /\ session'[s].step = session[s].step
      /\ session'[s].passed = session[s].passed /\ session'[s].fault = session[s].fault
      /\ Well(s)' = Well(s) /\ (\A n : OnPage(s, n)' = OnPage(s, n))
      /\ \A n : n \notin {"session_custom_state", "enroll", "one_step"} =>
            Attr(s, n)' = Attr(s, n)
      /\ Attr(s, "enroll")' = e
  BY <1>1, ApprovalEffect
<1>4. /\ script' = "super_gluu" /\ OneStep' = OneStep /\ session[s].who \in Person
      /\ SuperGluuTwoStep(s)' /\ SuperGluuOnly(s)' => StepInv(s)
  BY <1>1, ApprovalKeeps
<1>5. Registered(s)' = Registered(s)
  BY <1>1, <1>3 DEF Alone, Registered, Entry
<1>6. session[s].step # 1 \/ (Well(s) /\ session[s].user = None) => e
  <2>1. SUFFICES ASSUME session[s].step # 1 \/ (Well(s) /\ session[s].user = None)
            PROVE e
    OBVIOUS
  <2>2. /\ Attr(s, "enroll") = TRUE
        /\ Attr(s, "enroll") # None => Attr(s, "enroll") = ~Registered(s)
    BY <1>1, <1>2, <2>1 DEF SuperGluuOnly
  <2>3. QED
    BY <2>2, NoneIsNothing DEF e
<1>7. SuperGluuOnly(s)'
  <2>1. /\ Attr(s, "super_gluu_count_login_steps")' = None
        /\ Attr(s, "retry_current_step")' = None
        /\ Attr(s, "enroll")' = ~Registered(s)'
    BY <1>1, <1>2, <1>3, <1>5 DEF SuperGluuOnly, e
  <2>2. session'[s].step # 1 \/ (Well(s)' /\ session'[s].user = None)
           => Attr(s, "enroll")' = TRUE
    BY <1>3, <1>6 DEF e
  <2>3. QED
    BY <1>1, <1>2, <1>3, <2>1, <2>2 DEF SuperGluuOnly
<1>8. SuperGluuTwoStep(s)'
  BY <1>1, <1>4 DEF SuperGluuTwoStep
<1>9. QED
  BY <1>4, <1>7, <1>8

\* The server after a step of such a login.
LEMMA OnlyProceeds ==
    ASSUME IInv, NEW s \in Session, OnlyStep, Proceed(s)
    PROVE  StepInv(s)
<1> DEFINE work == session[s].work
           extra == [step \in Nat |-> getExtraParametersForStep(step)]
           count == SuperGluuCount(work)
           next == SuperGluuNext(s, work)
           r == session[s].step
           kept == Repeated(work)
<1>1. Forward(s, kept, next, count, extra) /\ session[s].stage = "answered"
         /\ OneStep /\ script = "super_gluu"
  BY DEF Proceed, getNextStep, getCountAuthenticationSteps, Forward, OnlyStep
<1>2. LoginInv(s) /\ LoginType(s) /\ SuperGluuOnly(s) /\ r \in {1, 2}
  BY <1>1 DEF IInv, LoginInv, SuperGluuOnly
<1>3. extra[1] \subseteq {"super_gluu_auth_method", "super_gluu_request"}
         /\ extra[2] \subseteq {"super_gluu_auth_method", "super_gluu_request"}
  BY <1>1 DEF getExtraParametersForStep, SuperGluuExtra
<1>4. /\ next \in {0, r}
      /\ next # 0 => OnPage(s, "retry_current_step") = TRUE /\ session[s].fault
  <2>1. next = IF OnPage(s, "retry_current_step") = TRUE THEN r ELSE 0
    BY DEF SuperGluuNext, OnPage
  <2>2. OnPage(s, "retry_current_step") = TRUE => session[s].fault
    BY <1>1, <1>2 DEF SuperGluuOnly
  <2> HIDE DEF next
  <2>3. QED
    BY <1>2, <2>1, <2>2
<1>5. count = IF OnPage(s, "super_gluu_count_login_steps") = 1 THEN 1 ELSE 2
  <2>1. OnPage(s, "super_gluu_count_login_steps") \in {None, 1}
    BY <1>1, <1>2 DEF SuperGluuOnly
  <2>2. QED
    BY <2>1, NoneIsNothing DEF SuperGluuCount, OnPage, Value
<1> HIDE DEF extra, count, next, kept
<1>6. ASSUME Well(s), r >= count PROVE Through(s)
  <2>1. r = 1 /\ count = 1 /\ "device" \in session[s].passed
    BY <1>1, <1>2, <1>5, <1>6 DEF SuperGluuOnly
  <2>2. session[s].user = session[s].who
    BY <1>1, <1>2, <1>5, <2>1 DEF SuperGluuOnly
  <2>3. QED
    BY <1>1, <2>1, <2>2 DEF Through, Demanded
<1>7. ASSUME next # 0 \/ (Well(s) /\ r < count) PROVE session[s].user = None
  <2>1. OnPage(s, "super_gluu_count_login_steps") # 1
            \/ OnPage(s, "retry_current_step") # FALSE
    <3>1. CASE next # 0
      BY <1>4, <3>1
    <3>2. CASE Well(s) /\ r < count
      <4>1. count # 1
        BY <1>2, <3>2
      <4>2. QED
        BY <1>5, <4>1
    <3>3. QED
      BY <1>7, <3>1, <3>2
  <2>2. QED
    BY <1>1, <1>2, <2>1 DEF SuperGluuOnly
<1>8. ASSUME Entrusted(s), NEW x \in {1, 2}, Gone(s, kept, x, extra[x]),
             \/ next # 0 /\ x = r /\ session[s].tries + 1 < MaxTries
             \/ x = r + 1 /\ Well(s) /\ r < count
      PROVE  StepInv(s)
  <2>1. x \in 1..3 /\ (x > r \/ session[s].tries + 1 < MaxTries)
    BY <1>2, <1>8
  <2>2. WentTo(s, kept, x, extra[x])
    BY <1>8, <2>1, WentToStep
  <2>3. /\ session'[s].who = session[s].who /\ session'[s].user = session[s].user
        /\ session'[s].passed = session[s].passed
        /\ session'[s].fault = session[s].fault
        /\ session'[s].step = x /\ (\A n : OnPage(s, n)' = None)
        /\ \A n : Attr(s, n)' = IF n \in extra[x] /\ n \in DOMAIN kept
                                THEN kept[n] ELSE Attr(s, n)
        /\ script' = "super_gluu" /\ OneStep' /\ ~Well(s)' /\ session[s].who \in Person
    BY <1>1, <2>2 DEF WentTo, OneStep
  <2>4. Registered(s)' = Registered(s)
    BY <1>1, <1>8, <2>3 DEF Entrusted, Kept, Registered, Entry
  <2>5. /\ Attr(s, "super_gluu_count_login_steps")' = None
        /\ Attr(s, "retry_current_step")' = None
        /\ Attr(s, "session_custom_state")' = Attr(s, "session_custom_state")
        /\ Attr(s, "enroll")' = Attr(s, "enroll")
    BY <1>1, <1>2, <1>3, <2>3 DEF SuperGluuOnly
  <2>6. /\ OnPage(s, "super_gluu_count_login_steps")' = None
        /\ OnPage(s, "super_gluu_count_login_steps")' # 1
        /\ OnPage(s, "retry_current_step")' # TRUE
    BY <2>3, NoneIsNothing
  <2>7. session'[s].user = None
    BY <1>7, <1>8, <2>3
  <2>8. x # 1 => Attr(s, "enroll")' = TRUE /\ "device" \in session'[s].passed
    <3>1. x # 1 => r # 1 \/ Well(s)
      BY <1>2, <1>8
    <3>2. QED
      BY <1>1, <1>2, <2>3, <2>5, <2>7, <3>1 DEF SuperGluuOnly
  <2>9. SuperGluuOnly(s)'
    BY <1>1, <1>2, <2>3, <2>4, <2>5, <2>6, <2>7, <2>8 DEF SuperGluuOnly
  <2>10. SuperGluuTwoStep(s)' /\ PasswordFirst(s)'
    BY <2>3 DEF SuperGluuTwoStep, PasswordFirst
  <2>11. QED
    BY <2>2, <2>3, <2>9, <2>10, LoginOfScript DEF WentTo
<1>9. next # 0 /\ session[s].tries + 1 = MaxTries => Reason(s) /\ session[s].user = None
  BY <1>4, <1>7 DEF Reason
<1>10. next # 0 /\ session[s].tries + 1 < MaxTries /\ Entrusted(s)
          /\ Gone(s, kept, next, extra[next]) => StepInv(s)
  BY <1>2, <1>4, <1>8
<1>11. count \in {1, 2}
  BY <1>5
<1>12. Well(s) /\ r < count => r + 1 \in {1, 2}
  BY <1>2, <1>11
<1>13. Well(s) /\ r < count /\ Entrusted(s) /\ Gone(s, kept, r + 1, extra[r + 1])
          => StepInv(s)
  BY <1>8, <1>12
<1>14. QED
  BY <1>1, <1>6, <1>9, <1>10, <1>13, Proceeds

\* Every step of super_gluu, and of the phone.
LEMMA SuperGluuScriptStep ==
    ASSUME IInv, NEW s \in Session, script = "super_gluu", Step(s) \/ Approve(s)
    PROVE  StepInv(s)
<1>1. prepareForStep(s) => SuperGluuPrepare1(s) \/ SuperGluuPrepare2(s)
  BY DEF prepareForStep
<1>2. authenticate(s) => \/ SuperGluuOneStep(s) \/ SuperGluuPassword(s)
                         \/ SuperGluuSecond(s) \/ SuperGluuTimeOut(s)
  BY DEF authenticate
<1>3. ~goOn(s)
  BY DEF goOn
<1>4. CASE ~OneStep
  <2>1. ~SuperGluuOneStep(s)
    BY <1>4 DEF SuperGluuOneStep
  <2>2. QED
    BY <1>1, <1>2, <1>3, <1>4, <2>1, SuperGluuPrepareStep, SuperGluuPasswordStep,
       SuperGluuSecondStep, SuperGluuTimeOutStep, SuperGluuProceeds, ApproveStep
     DEF Step
<1>5. CASE OneStep
  <2>1. ~SuperGluuPassword(s) /\ OnlyStep
    BY <1>5 DEF SuperGluuPassword, OnlyStep
  <2>2. QED
    BY <1>1, <1>2, <1>3, <2>1, OnlyPrepareStep, OnlyFirstStep, OnlySecondStep,
       OnlyTimeOutStep, OnlyProceeds, OnlyApproveStep DEF Step
<1>6. QED
  BY <1>4, <1>5

-----------------------------------------------------------------------------
\* The lock in the cache ages, whoever logs in.
LEMMA LockAgesStep ==
    ASSUME IInv, NEW p \in Person, LockAges(p)
    PROVE  IInv'
<1>1. PICK lock \in {"none", "old"} : person' = [person EXCEPT ![p].lock = lock]
  BY DEF LockAges
<1>2. UNCHANGED <<script, conf, self, session>>
  BY DEF LockAges
<1>3. /\ DOMAIN person' = Person
      /\ \A q \in Person : DOMAIN person'[q] = EntryFields
      /\ \A q \in Person : \A f \in EntryFields \ {"lock"} :
            person'[q][f] = person[q][f]
      /\ \A q \in Person : person'[q].lock \in {person[q].lock, lock}
  BY <1>1 DEF IInv, EntriesInv, People
<1>4. /\ Object' /\ People'
      /\ \A q \in Person : EntryType(q)' /\ EntryCounts(q)' /\ OtpKeys(q)'
  BY <1>2, <1>3 DEF IInv, EntriesInv, Object, People, EntryType, EntryCounts, OtpKeys,
                    EntryFields, KeysOf
<1>5. Kept /\ \A t \in Session : NotTaken(t)
  BY <1>2, <1>3 DEF IInv, EntriesInv, EntryCounts, Kept, NotTaken, EntryFields
<1>6. Shape' /\ \A t \in Session : LoginInv(t)'
  BY <1>2, <1>5, LoginKept DEF IInv, Shape
<1>7. QED
  BY <1>4, <1>6 DEF IInv, EntriesInv

\* An application makes a code, whoever logs in.
LEMMA OtpPressStep ==
    ASSUME IInv, NEW p \in Person, script = "otp", OtpPress(p)
    PROVE  IInv'
<1>1. PICK key \in DOMAIN person[p].app :
         person' = [person EXCEPT ![p].app[key] = @ + 1]
  BY DEF OtpPress
<1>2. UNCHANGED <<script, conf, self, session>>
  BY DEF OtpPress
<1>3. /\ DOMAIN person' = Person
      /\ \A q \in Person : DOMAIN person'[q] = EntryFields
      /\ \A q \in Person : \A f \in EntryFields \ {"app"} :
            person'[q][f] = person[q][f]
      /\ \A q \in Person \ {p} : person'[q].app = person[q].app
      /\ person'[p].app = [person[p].app EXCEPT ![key] = @ + 1]
  BY <1>1 DEF IInv, EntriesInv, People, EntryFields
<1>4. ASSUME NEW q \in Person
      PROVE  /\ DOMAIN person'[q].app = DOMAIN person[q].app
             /\ \A k \in DOMAIN person[q].app :
                   /\ person'[q].app[k] \in Nat \ {0}
                   /\ person'[q].app[k] >= person[q].app[k]
                   /\ person[q].app[k] \in Nat \ {0}
  <2>1. \A k \in DOMAIN person[q].app : person[q].app[k] \in Nat \ {0}
    BY DEF IInv, EntriesInv, OtpKeys, KeysOf
  <2>2. QED
    BY <1>3, <2>1
<1>5. ASSUME NEW q \in Person PROVE KeysOf(person[q])'
  <2>1. /\ KeysOf(person[q]) /\ person'[q].uids = person[q].uids
        /\ person'[q].cached = person[q].cached /\ person'[q].taken = person[q].taken
    BY <1>3 DEF IInv, EntriesInv, OtpKeys, EntryFields
  <2>2. QED
    BY <1>4, <2>1 DEF KeysOf
<1>6. /\ Object' /\ People'
      /\ \A q \in Person : EntryType(q)' /\ EntryCounts(q)' /\ OtpKeys(q)'
  BY <1>2, <1>3, <1>5 DEF IInv, EntriesInv, Object, People, EntryType, EntryCounts,
                         OtpKeys, EntryFields
<1>7. \A q \in Person : \A k \in DOMAIN person[q].app : \A n \in Nat :
         n < person[q].app[k] => n < person'[q].app[k]
  BY <1>4
<1>8. Kept /\ \A t \in Session : NotTaken(t)
  BY <1>2, <1>3, <1>4, <1>7 DEF IInv, EntriesInv, EntryCounts, Kept, NotTaken, EntryFields
<1>9. Shape' /\ \A t \in Session : LoginInv(t)'
  BY <1>2, <1>8, LoginKept DEF IInv, Shape
<1>10. QED
  BY <1>6, <1>9 DEF IInv, EntriesInv

\* A step of one login is a step of them all.
LEMMA OneForAll ==
    ASSUME IInv, NEW s \in Session, StepInv(s)
    PROVE  IInv'
<1>1. ASSUME NEW t \in Session \ {s} PROVE LoginInv(t)'
  BY LoginKept DEF StepInv, Others
<1>2. QED
  BY <1>1 DEF IInv, StepInv

\* Each login goes by the one script there is.
LEMMA LoginStep ==
    ASSUME IInv, NEW s \in Session, Step(s) \/ (script = "super_gluu" /\ Approve(s))
    PROVE  StepInv(s)
<1>1. script \in OneStepScripts \cup DeviceScriptNames \cup SmsScripts
                 \cup PassportNames \cup {"thumb_sign_in", "otp", "cert", "super_gluu"}
  BY KindOfScript DEF IInv, EntriesInv, OneStepScripts, DeviceScriptNames, SmsScripts,
                      PassportNames
<1>2. CASE script = "super_gluu"
  BY <1>2, SuperGluuScriptStep
<1>3. CASE script # "super_gluu"
  BY <1>1, <1>3, OneStepStep, DeviceScriptStep, ThumbSignInScriptStep, SmsScriptStep,
     OtpScriptStep, PassportScriptStep, CertScriptStep
<1>4. QED
  BY <1>2, <1>3

\* Nothing happens.
LEMMA Stutter == IInv /\ UNCHANGED state => IInv'
<1> SUFFICES ASSUME IInv, UNCHANGED state PROVE IInv'
  OBVIOUS
<1>1. UNCHANGED <<script, conf, self, session, person>>
  BY DEF state
<1>2. EntriesInv' /\ Shape'
  BY <1>1 DEF IInv, EntriesInv, Shape, Object, People, EntryType, EntryCounts, OtpKeys
<1>3. Kept /\ \A t \in Session : NotTaken(t)
  BY <1>1 DEF IInv, EntriesInv, EntryCounts, Kept, NotTaken
<1>4. QED
  BY <1>1, <1>2, <1>3, LoginKept DEF IInv

-----------------------------------------------------------------------------
\* The script object before the first login, with one attribute missing or none.
LEMMA ObjectAtFirst == Init => Object
<1> SUFFICES ASSUME Init PROVE Object
  OBVIOUS
<1>1. PICK c \in Attributes[script] : conf \in {c} \cup {c \ {a} : a \in Required}
  BY DEF Init
<1>2. script \in Scripts /\ conf \subseteq c /\ c \subseteq UNION Attributes[script]
  BY <1>1 DEF Init
<1>3. /\ script = "super_gluu" => "duo_group" \notin c
      /\ script = "duo" => "super_gluu_group" \notin c
      /\ script = "cert" /\ "recaptcha" \in c => "credentials_file" \in c
  BY DEF Attributes, SuperGluuAttributes
<1>4. script = "cert" => "credentials_file" \notin Required
  <2> SUFFICES ASSUME script = "cert" PROVE "credentials_file" \notin Required
    OBVIOUS
  <2> DEFINE bare == {"chain_cert_file_path", "map_user_cert", "map_user_cert=true",
          "ocsp",
                      "crl"}
  <2>1. bare \in Attributes[script]
    BY DEF Attributes
  <2>2. "credentials_file" \notin bare
    OBVIOUS
  <2> HIDE DEF bare
  <2>3. QED
    BY <2>1, <2>2 DEF Required
<1>5. self \in [mobile_number : Person \cup {None}, metadata : {"loaded", None},
                holder : Session \cup {None}, skipProfileUpdate : BOOLEAN,
                scanClient : BOOLEAN]
  <2>1. PICK client \in ScanClient :
           self = [mobile_number |-> None, metadata |-> None, holder |-> None,
                   skipProfileUpdate |-> FALSE, scanClient |-> client]
    BY DEF Init
  <2>2. client \in BOOLEAN
    BY DEF ScanClient, registerScanClient
  <2>3. QED
    BY <2>1, <2>2
<1>6. QED
  BY <1>1, <1>2, <1>3, <1>4, <1>5 DEF Object

\* An entry before the first login.
Fresh(e) ==
    /\ DOMAIN e = EntryFields
    /\ e.failures = 0 /\ e.wrong = 0 /\ e.lock = "none"
    /\ ~e.cached /\ e.taken = {}
    /\ e.status \in {"active", None}
    /\ e.groups \in {{}, {"duo_group"}, {"super_gluu_group"}} /\ e.groups \subseteq conf
    /\ script = "otp" => /\ \A k \in DOMAIN e.app : e.app[k] = 1
                         /\ \A u \in e.uids : u.key \in DOMAIN e.app /\ u.factor = 1

\* The entries there can be before the first login are of this kind.
LEMMA FreshEntries ==
    ASSUME NEW e \in Entries
    PROVE  Fresh(Holding(e)) /\ (e.uids = {} => Fresh(e))
<1>1. /\ DOMAIN e = EntryFields
      /\ e.failures = 0 /\ e.wrong = 0 /\ e.lock = "none" /\ e.app = <<>>
      /\ ~e.cached /\ e.taken = {}
      /\ e.status \in {"active", None}
      /\ e.groups \in {{}} \cup {{g} :
                    g \in conf \cap {"duo_group", "super_gluu_group"}}
      /\ script = "otp" => e.uids \in {{}, {[key |-> "key", factor |-> 1]}}
  BY DEF Entries, EntryFields
<1>2. e.groups \in {{}, {"duo_group"}, {"super_gluu_group"}} /\ e.groups \subseteq conf
  BY <1>1
<1>3. e.uids = {} => Fresh(e)
  BY <1>1, <1>2 DEF Fresh
<1>4. CASE ~(script = "otp" /\ e.uids # {})
  BY <1>1, <1>2, <1>4 DEF Fresh, Holding
<1>5. CASE script = "otp" /\ e.uids # {}
  <2> DEFINE h == [app |-> Single("key", 1)] ++ e
  <2>1. /\ DOMAIN h = EntryFields /\ h.app = Single("key", 1)
        /\ \A f \in EntryFields \ {"app"} : h[f] = e[f]
    BY <1>1 DEF ++, EntryFields
  <2>2. DOMAIN h.app = {"key"} /\ h.app["key"] = 1
    BY <2>1 DEF Single
  <2>3. h = Holding(e)
    BY <1>5 DEF Holding
  <2> HIDE DEF h
  <2>4. h.uids = {[key |-> "key", factor |-> 1]}
    BY <1>1, <1>5, <2>1 DEF EntryFields
  <2>5. Fresh(h)
    BY <1>1, <1>2, <2>1, <2>2, <2>4 DEF Fresh, EntryFields
  <2>6. QED
    BY <1>5, <2>3, <2>5
<1>6. QED
  BY <1>3, <1>4, <1>5

\* There is an entry with no key and no account.
LEMMA NewIsFresh == Fresh(New)
<1> DEFINE e == [status |-> "active", failures |-> 0, lock |-> "none", wrong |-> 0,
                 uids |-> {}, app |-> <<>>, cached |-> FALSE, taken |-> {},
                 groups |-> {},
                 endpoint |-> FALSE, account |-> FALSE, mail |-> FALSE,
                 verified |-> FALSE,
                 phone |-> IF script \in {"twilio_sms", "smpp"} THEN {"mobile"} ELSE {}]
<1>1. e \in Entries
  BY DEF Entries, Passported
<1>2. e.uids = {} /\ ~e.account /\ ~e.mail
  OBVIOUS
<1>3. e \in Sensible
  BY <1>1, <1>2 DEF Sensible
<1> HIDE DEF e
<1>4. New \in Sensible /\ New.uids = {}
  BY <1>2, <1>3 DEF New
<1>5. New \in Entries
  BY <1>4 DEF Sensible
<1>6. QED
  BY <1>4, <1>5, FreshEntries

\* Every entry is fresh when the first login begins.
LEMMA EntryAtFirst ==
    ASSUME Init
    PROVE  DOMAIN person = Person /\ \A p \in Person : Fresh(person[p])
<1>1. PICK at \in Logins[script] :
         \E e \in [Varied(at) -> Sensible] :
             person = [p \in Person |-> IF p \in Varied(at) THEN Holding(e[p]) ELSE New]
  BY DEF Init
<1>2. PICK e \in [Varied(at) -> Sensible] :
         person = [p \in Person |-> IF p \in Varied(at) THEN Holding(e[p]) ELSE New]
  BY <1>1
<1>3. ASSUME NEW p \in Person PROVE Fresh(person[p])
  <2>1. CASE p \in Varied(at)
    <3>1. e[p] \in Entries
      BY <1>2, <2>1 DEF Sensible
    <3>2. QED
      BY <1>2, <2>1, <3>1, FreshEntries
  <2>2. CASE p \notin Varied(at)
    BY <1>2, <2>2, NewIsFresh
  <2>3. QED
    BY <2>1, <2>2
<1>4. QED
  BY <1>2, <1>3

\* What all logins share holds at first.
LEMMA EntriesAtFirst == Init => EntriesInv
<1> SUFFICES ASSUME Init PROVE EntriesInv
  OBVIOUS
<1>3. DOMAIN person = Person /\ \A p \in Person : Fresh(person[p])
  BY EntryAtFirst
<1>4. People
  BY <1>3 DEF People, Fresh
<1>5. \A p \in Person : EntryType(p) /\ EntryCounts(p)
  BY <1>3, MaxInvalidLoginsAssumption, NoneIsNothing DEF EntryType, EntryCounts, Fresh
<1>6. \A p \in Person : OtpKeys(p)
  <2> SUFFICES ASSUME NEW p \in Person, script = "otp" PROVE KeysOf(person[p])
    BY DEF OtpKeys
  <2>1. /\ \A k \in DOMAIN person[p].app : person[p].app[k] = 1
        /\ \A u \in person[p].uids : u.key \in DOMAIN person[p].app /\ u.factor = 1
        /\ ~person[p].cached
    BY <1>3 DEF Fresh
  <2>2. QED
    BY <2>1 DEF KeysOf
<1>7. QED
  BY <1>4, <1>5, <1>6, ObjectAtFirst DEF EntriesInv

\* A login before its first request: nothing is noted but what a request of
\* Passport carries.
LEMMA LoginsAtFirst == Init => Shape /\ \A s \in Session : LoginInv(s)
<1> SUFFICES ASSUME Init PROVE Shape /\ \A s \in Session : LoginInv(s)
  OBVIOUS
<1>0. \A p \in Person : person[p].taken = {}
  BY EntryAtFirst DEF Fresh
<1> DEFINE attrs(r, s) == IF s \in Special THEN r[s] ELSE PlainRequest
<1>1. PICK at \in Logins[script] : \E r \in [Special -> Requests] :
         session = [s \in Session |-> IF s \notin DOMAIN at THEN GivenUp
                                      ELSE NewSession(at[s], attrs(r, s))]
  BY DEF Init
<1>2. PICK r \in [Special -> Requests] :
         session = [s \in Session |-> IF s \notin DOMAIN at THEN GivenUp
                                      ELSE NewSession(at[s], attrs(r, s))]
  BY <1>1
<1>3. \E p : p \in Person /\ p = CHOOSE q \in Person : TRUE
  BY LoginsAssumption
<1>4. \A s \in DOMAIN at : at[s] \in Person
  BY LoginsAssumption, <1>1 DEF Init, Range
<1>5. ASSUME NEW s \in Session
      PROVE  \E who, c, new :
                /\ who \in Person /\ new = NewSession(who, c)
                /\ c \in Requests \cup {PlainRequest, <<>>}
                /\ \/ session[s] = new
                   \/ session[s] = [stage |-> "refused"] ++ Fault ++ new
  <2>1. CASE s \in DOMAIN at
    BY <1>2, <1>4, <2>1
  <2>2. CASE s \notin DOMAIN at
    BY <1>2, <1>3, <2>2 DEF GivenUp
  <2>3. QED
    BY <2>1, <2>2
<1> HIDE DEF attrs
<1>6. ASSUME NEW s \in Session PROVE LoginInv(s) /\ DOMAIN session[s] = Fields
  <2>1. PICK who, c, new :
           /\ who \in Person /\ new = NewSession(who, c)
           /\ c \in Requests \cup {PlainRequest, <<>>}
           /\ session[s] = new \/ session[s] = [stage |-> "refused"] ++ Fault ++ new
    BY <1>5
  <2>2. /\ script \notin {"passport_social", "passport_saml"} => c = <<>>
        /\ "selectedProvider" \notin DOMAIN c
    BY <2>1 DEF Requests, PlainRequest
  <2>3. /\ new.who = who /\ new.user = None /\ new.stage = "prepare" /\ new.step = 1
        /\ new.tries = 0 /\ new.reply = TRUE /\ new.fault = FALSE /\ new.work = <<>>
        /\ new.attrs = c
        /\ DOMAIN new = Fields
    BY <2>1, NewSessionShape DEF NewSession
  <2>15. DOMAIN session[s] = Fields
         /\ \A f \in Fields \ {"stage", "fault"} : session[s][f] = new[f]
         /\ \/ session[s].stage = "prepare" /\ session[s].fault = FALSE
            \/ session[s].stage = "refused" /\ session[s].fault = TRUE
    <3>1. CASE session[s] = new
      BY <2>3, <3>1
    <3>2. CASE session[s] = [stage |-> "refused"] ++ Fault ++ new
      BY <2>3, <3>2 DEF ++, Fault, Fields
    <3>3. QED
      BY <2>1, <3>1, <3>2
  <2>4. /\ session[s].who \in Person /\ session[s].user = None
        /\ session[s].step = 1 /\ session[s].tries = 0
        /\ session[s].reply = TRUE
        /\ session[s].work = <<>> /\ session[s].attrs = c
        /\ \/ session[s].stage = "prepare" /\ session[s].fault = FALSE
           \/ session[s].stage = "refused" /\ session[s].fault = TRUE
    BY <2>1, <2>3, <2>15 DEF Fields
  <2>5. /\ ~Well(s) /\ ~Badly(s)
        /\ \A n : OnPage(s, n) = None
        /\ script \notin {"passport_social", "passport_saml"} =>
              \A n : Attr(s, n) = None /\ n \notin DOMAIN session[s].attrs
        /\ DOMAIN session[s].work = {}
    BY <2>2, <2>4, ValueNone DEF Well, Badly, OnPage, Attr
  <2>6. LoginType(s)
    <3>1. 0 \in 0..(MaxTries - 1)
      BY SessionAssumption
    <3>2. /\ 1 \in 1..3 /\ TRUE \in BOOLEAN /\ FALSE \in BOOLEAN /\ "prepare" \in Stages
          /\ "refused" \in Stages
      BY DEF Stages
    <3>3. QED
      BY <2>4, <3>1, <3>2 DEF LoginType
  <2>7. Ends(s)
    BY <2>4, <2>5 DEF Ends, Reason
  <2>8. OneStepLogin(s) /\ PasswordFirst(s) /\ DeviceSecond(s) /\ ThumbSignInLogin(s)
    BY <2>4, <2>5 DEF OneStepLogin, PasswordFirst, DeviceSecond, ThumbSignInLogin
  <2>9. CodeSecond(s)
    BY <2>4, <2>5, NoneIsNothing DEF CodeSecond
  <2>10. OtpLogin(s)
    <3> SUFFICES ASSUME script = "otp" PROVE OtpLogin(s)
      BY DEF OtpLogin
    <3>1. ~Enrolling(s)
      BY <2>5, NoneIsNothing DEF Enrolling
    <3>2. OtpNotes(s, session[s].work) /\ OtpNotes(s, session[s].attrs)
      <4>1. /\ \A n : Value(session[s].work, n) = None
                  /\ Value(session[s].attrs, n) = None
            /\ DOMAIN session[s].work = {} /\ DOMAIN session[s].attrs = {}
        BY <2>2, <2>4, ValueNone
      <4>2. QED
        BY <4>1, NoneIsNothing DEF OtpNotes
    <3>3. QED
      BY <2>4, <2>5, <3>1, <3>2 DEF OtpLogin, At
  <2>11. SuperGluuTwoStep(s) /\ SuperGluuOnly(s)
    BY <2>4, <2>5, NoneIsNothing DEF SuperGluuTwoStep, SuperGluuOnly
  <2>12. CertLogin(s)
    BY <2>4, <2>5 DEF CertLogin
  <2>13. PassportLogin(s)
    BY <2>4, <2>5 DEF PassportLogin, At
  <2>14. OtpTyped(s)
    BY <1>0, <2>4 DEF OtpTyped, Entry
  <2>17. QED
    BY <2>6, <2>7, <2>8, <2>9, <2>10, <2>11, <2>12, <2>13, <2>14, <2>15 DEF LoginInv
<1>7. QED
  BY <1>2, <1>6 DEF Shape

-----------------------------------------------------------------------------
\* Whatever the script, the configuration, the number of logins and of people: the
\* inductive invariant of the server and its scripts.
THEOREM Invariance == Spec => []IInv
<1>1. Init => IInv
  BY EntriesAtFirst, LoginsAtFirst DEF IInv
<1>2. IInv /\ [Next]_state => IInv'
  <2> SUFFICES ASSUME IInv, [Next]_state PROVE IInv'
    OBVIOUS
  <2>1. ASSUME NEW s \in Session, Step(s) PROVE IInv'
    BY <2>1, LoginStep, OneForAll
  <2>2. ASSUME NEW p \in Person, LockAges(p) PROVE IInv'
    BY <2>2, LockAgesStep
  <2>3. ASSUME NEW s \in Session, script = "super_gluu", Approve(s) PROVE IInv'
    BY <2>3, LoginStep, OneForAll
  <2>4. ASSUME UNCHANGED state PROVE IInv'
    BY <2>4, Stutter
  <2>5. ASSUME NEW p \in Person, script = "otp", OtpPress(p) PROVE IInv'
    BY <2>5, OtpPressStep
  <2>6. QED
    BY <2>1, <2>2, <2>3, <2>4, <2>5 DEF Next
<1>3. QED
  BY <1>1, <1>2, PTL DEF Spec

\* The script object, the sessions and the entries hold what they should; the
\* count of invalid logins never exceeds its maximum (CountInvalidLogin).
THEOREM TypeCorrect == Spec => []TypeOK
<1>1. IInv => TypeOK
  BY DEF IInv, EntriesInv, LoginInv, Object, LoginType, EntryType, TypeOK
<1>2. QED
  BY <1>1, Invariance, PTL

\* A login that ends well is of the person who sits there, who came through every
\* factor that the script and its configuration ask for.
THEOREM FactorsPassed == Spec => []EveryFactorPassed
<1>1. IInv => EveryFactorPassed
  BY DEF IInv, LoginInv, Ends, Through, EveryFactorPassed
<1>2. QED
  BY <1>1, Invariance, PTL

\* A login is turned away only when something went wrong with it, by one of the four
\* faults of the scripts, or because another login of the person had a code taken or
\* the account was locked: nothing else that logins share costs one its success.
THEOREM RefusedRightly == Spec => []RefusedForAKnownReason
<1>1. IInv => RefusedForAKnownReason
  BY DEF IInv, LoginInv, Ends, Reason, RefusedForAKnownReason
<1>2. QED
  BY <1>1, Invariance, PTL

\* The entry never expects a later code of a key than the application will make, in
\* whatever order codes are typed, and whatever logins write a moving factor between
\* the search and the replacement of another.
THEOREM KeysHeld == Spec => []EnrolledKeysAreHeld
<1>1. IInv => EnrolledKeysAreHeld
  BY DEF IInv, EntriesInv, OtpKeys, KeysOf, EnrolledKeysAreHeld
<1>2. QED
  BY <1>1, Invariance, PTL

\* Nobody is locked out by fewer wrong passwords than the maximum, also when several
\* logins of one person count at the same time.
THEOREM LockEarned == Spec => []LockNeedsFailures
<1>1. IInv => LockNeedsFailures
  BY DEF IInv, EntriesInv, EntryCounts, LockNeedsFailures
<1>2. QED
  BY <1>1, Invariance, PTL
=============================================================================
