----------------------------- MODULE CodeScripts -----------------------------
(***************************************************************************)
(* The scripts whose second factor is a code: twilio2FA and smpp2FA, which *)
(* send it to the person's phone, and OtpExternalAuthenticator, for which  *)
(* an application of the person makes it from a key of the entry.          *)
(*                                                                         *)
(* A phone number is the person it reaches.  A code sent is the number of  *)
(* the try of the login it is for.                                         *)
(***************************************************************************)
EXTENDS DeviceScripts

CONSTANTS
    LookAhead,     \* lookAheadWindow of the counter-based codes
    MaxFactor      \* bound: codes an application makes from one key

ASSUME CodeAssumption == LookAhead \in Nat /\ MaxFactor \in Nat \ {0}

-----------------------------------------------------------------------------
(* twilio2FA and smpp2FA. *)
TwilioInit == {"twilio_sid", "twilio_token", "from_number"} \subseteq conf
SmppInit == {"smpp_server", "smpp_port"} \subseteq conf

VerifiedNumber(s) ==
    IF Entry(s).verified /\ "employeeNumber" \in Entry(s).phone
    THEN session[s].who ELSE None
PlainNumber(s) == IF "mobile" \in Entry(s).phone THEN session[s].who ELSE None
First(a, b) == IF a # None THEN a ELSE b

(* twilio2FA keeps the number in the script object, and looks for one in   *)
(* the entry only when the object has none.                                *)
TwilioNumber(s) ==
    First(IF Entry(s).verified THEN VerifiedNumber(s) ELSE self.mobile_number,
          PlainNumber(s))
SmppNumber(s) == First(VerifiedNumber(s), PlainNumber(s))

(* The message goes to the number: its owner gets the code. *)
Sending(s, number, code) ==
    [got |-> IF number = session[s].who THEN code ELSE session[s].got]

NewCode(s) == session[s].tries + 1

(* authenticate(1): twilio2FA writes the code into the session itself.     *)
TwilioAuthenticate1(s) ==
    /\ At(s, "page", 1)
    /\ \E right \in BOOLEAN, delivered \in BOOLEAN :
       LET number == TwilioNumber(s)
           noted == [code |-> NewCode(s), mobile_number |-> number]
       IN  \/ /\ ~PasswordAccepted(s, right)
              /\ Refuse(s, Fault) /\ Alone
           \/ /\ PasswordAccepted(s, right)
              /\ self' = [self EXCEPT !.mobile_number = number]
              /\ UNCHANGED <<script, conf, person>>
              /\ IF number # None /\ delivered
                 THEN Answer(s, LoggedIn(s) ++ Sending(s, number, NewCode(s))
                        ++ Setting(s, noted) ++ Putting(s, noted))
                 ELSE Refuse(s, LoggedIn(s) ++ Fault)

(* authenticate(1) of smpp2FA leaves the code in the parameters of step 2, *)
(* and hangs up without a number.                                          *)
SmppAuthenticate1(s) ==
    /\ At(s, "page", 1)
    /\ \E right \in BOOLEAN, delivered \in BOOLEAN :
       LET number == SmppNumber(s)
       IN  \/ /\ ~PasswordAccepted(s, right)
              /\ Refuse(s, Fault)
           \/ /\ PasswordAccepted(s, right)
              /\ IF number # None /\ delivered
                 THEN Answer(s, LoggedIn(s) ++ Sending(s, number, NewCode(s))
                        ++ Setting(s, [code |-> NewCode(s),
                                       mobile_number |-> number])
                        ++ Putting(s, [mobile_number |-> number]))
                 ELSE Refuse(s, LoggedIn(s) ++ Fault)
    /\ Alone

SmsExtra == [step \in {2} |-> {"code"}]

SmsPrepare(s) ==
    /\ \/ PlainFirstPage(s, {})
       \/ At(s, "prepare", 2) /\ Show(s, SmsExtra[2], <<>>)
    /\ Alone

(* authenticate(2): the person types the code that came, or makes a        *)
(* mistake.                                                                *)
SmsAuthenticate2(s) ==
    /\ At(s, "page", 2)
    /\ \/ /\ session[s].got # None
          /\ IF Attr(s, "code") # None /\ session[s].got = Attr(s, "code")
             THEN Answer(s, Passing(s, "code"))
             ELSE Refuse(s, <<>>)
       \/ session[s].got = None /\ Refuse(s, <<>>)
       \/ Refuse(s, Fault)
    /\ Alone

-----------------------------------------------------------------------------
(* OTP.  An enrollment is a key with the moving factor the next code is    *)
(* tried from (counter-based codes, "hotp"; the others stay at 1).  The    *)
(* person's applications are a function from the keys they hold to the     *)
(* number of the next code.                                                *)
OtpInit == {"otp_type", "issuer", "otp_conf_file"} \subseteq conf

Hotp == "hotp" \in conf

OtpExtra == {"otp_auth_method", "otp_count_login_steps", "otp_secret_key",
             "retry_current_step"}

OtpPassword(s) ==
    /\ At(s, "page", 1)
    /\ \E right \in BOOLEAN :
          IF PasswordAccepted(s, right)
          THEN Answer(s, LoggedIn(s) ++ Setting(s,
                 IF Registered(s) THEN [otp_auth_method |-> "authenticate"]
                 ELSE [otp_auth_method |-> "enroll",
                       otp_count_login_steps |-> 3]))
          ELSE Refuse(s, Fault)
    /\ Alone

ValidSession(s) == Attr(s, "otp_auth_method") \in {"enroll", "authenticate"}

(* prepareForStep(2) makes a key for who enrolls, at every time the page   *)
(* is shown.                                                               *)
OtpPrepare(s) ==
    /\ \/ PlainFirstPage(s, OtpExtra)
       \/ /\ At(s, "prepare", 2) /\ ValidSession(s)
          /\ Show(s, OtpExtra, IF Attr(s, "otp_auth_method") = "enroll"
                    THEN [otp_secret_key |-> <<s, session[s].tries>>] ELSE <<>>)
       \/ /\ At(s, "prepare", 3) /\ Attr(s, "otp_auth_method") = "enroll"
          /\ Show(s, OtpExtra, <<>>)
    /\ Alone

(* authenticate(2) of an enrollment: the person's application has the key  *)
(* of the page, or the page timed out and is to be shown again.            *)
OtpScan(s) ==
    LET key == OnPage(s, "otp_secret_key")
        retry(again) == Setting(s, [retry_current_step |-> again])
    IN  /\ At(s, "page", 2) /\ Attr(s, "otp_auth_method") = "enroll"
        /\ \/ /\ Answer(s, retry(FALSE))
              /\ SetEntry(s, [app |-> Entry(s).app ++ Single(key, 1)])
           \/ Answer(s, Fault ++ retry(TRUE)) /\ Alone
           \/ Refuse(s, Fault ++ retry(FALSE)) /\ Alone

(* What step 2 notes besides its answer: that it is not to be repeated.    *)
NotAgain(s) == IF session[s].step = 2
               THEN Setting(s, [retry_current_step |-> FALSE]) ELSE <<>>

(* The person has an application make its next code from a key it holds,   *)
(* for whichever page, or for none.  Codes that follow from the time are   *)
(* not numbered.                                                           *)
OtpPress(p) ==
    /\ Hotp
    /\ \E key \in DOMAIN person[p].app :
          /\ person[p].app[key] <= MaxFactor
          /\ person' = [person EXCEPT ![p].app[key] = @ + 1]
    /\ UNCHANGED <<script, conf, self, session>>

(* The codes there are to type: all that were made so far, in any order.   *)
Codes(s, key) == IF Hotp THEN 1..(Entry(s).app[key] - 1) ELSE {1}

AtCodePage(s) ==
    \/ At(s, "page", 2) /\ Attr(s, "otp_auth_method") = "authenticate"
    \/ At(s, "page", 3) /\ Attr(s, "otp_auth_method") = "enroll"

(* processOtpAuthentication looks for an enrollment (findEnrollments, or    *)
(* the new key of the session) of which the code is one of the next.       *)
Enrollments(s) ==
    IF Attr(s, "otp_auth_method") = "enroll"
    THEN {[key |-> Attr(s, "otp_secret_key"), factor |-> 1]}
    ELSE Entry(s).uids

Accepted(e, key, code) ==
    e.key = key /\ (Hotp => code \in e.factor .. e.factor + LookAhead)

(* A code that was right once: the entry is past it, or it is the one in   *)
(* oxOTPCache (getCachedOTP, validateTotpKey), the time not having moved   *)
(* on since.                                                               *)
Past(s, key, code) ==
    IF Hotp THEN \E e \in Enrollments(s) : e.key = key /\ code < e.factor
    ELSE Entry(s).cached /\ \E e \in Enrollments(s) : e.key = key

OtpSearch(s) ==
    /\ AtCodePage(s) /\ Alone
    /\ \/ \E key \in DOMAIN Entry(s).app : \E code \in Codes(s, key) :
          LET found == {e \in Enrollments(s) : Accepted(e, key, code)}
          IN  \/ /\ found # {}
                 /\ Become(s, [stage |-> "working"] ++ Setting(s,
                              [found |-> found, key |-> key, code |-> code]))
              \/ /\ Past(s, key, code) /\ (Hotp => found = {})
                 /\ Refuse(s, NotAgain(s))
       \/ Refuse(s, Fault ++ NotAgain(s))

(* The enrollment after that code. *)
AdvancedTwice(key, code) == [key |-> key, factor |-> code + 2]
Advanced(key, code) == [key |-> key, factor |-> IF Hotp THEN code + 1 ELSE 1]

(* ... and writes what it found: a new enrollment, or a new moving factor   *)
(* in the place of the one it found (replaceUserAttribute), whatever other *)
(* logins have written since.  Neither is sure to be written; that a code  *)
(* of the time was not written to oxOTPCache goes unnoticed.  taken is a   *)
(* record of the logins a code of which was written.                       *)
OtpReplace(s) ==
    LET work == session[s].work
        taken == [taken |-> Entry(s).taken \cup {s}]
    IN  /\ session[s].stage = "working"
        /\ \E kept \in IF Hotp THEN {FALSE} ELSE {Entry(s).cached, TRUE} :
           \/ \E e \in work.found :
                 /\ Answer(s, Passing(s, "code") ++ NotAgain(s))
                 /\ SetEntry(s, [cached |-> kept,
                       uids |-> (Entry(s).uids \ {e})
                                   \cup {Advanced(work.key, work.code)}] ++ taken)
           \/ /\ Hotp \/ Attr(s, "otp_auth_method") = "enroll"
              /\ Refuse(s, Fault ++ NotAgain(s))
              /\ SetEntry(s, IF kept THEN [cached |-> TRUE] ++ taken ELSE <<>>)

OtpNext(s, work) ==
    IF Value(work, "retry_current_step") = TRUE THEN session[s].step ELSE 0
OtpCountTwo(work) == 2
OtpCount(work) ==
    IF Value(work, "otp_count_login_steps") # None
    THEN work.otp_count_login_steps ELSE 2
=============================================================================
