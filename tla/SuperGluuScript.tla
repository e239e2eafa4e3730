--------------------------- MODULE SuperGluuScript ---------------------------
(***************************************************************************)
(* SuperGluuExternalAuthenticator: the second factor is an application on  *)
(* the person's phone, which answers a request that is on the page as a QR *)
(* code and may be pushed to it.  The application talks to the server, not *)
(* to the page: its approval appears in the session at any time after the  *)
(* request was made, also when the page has timed out meanwhile.  In the   *)
(* two-step mode it follows the password; in the one-step mode it comes    *)
(* first, and a password follows only when the phone is new.               *)
(***************************************************************************)
EXTENDS CodeScripts

OneStep == "one_step" \in conf
SnsMode == "sns" \in conf
GluuMode == "gluu" \in conf

(* init.  Without a client of the notification server one is registered,   *)
(* which may fail; without one, or without credentials, nothing is pushed. *)
SuperGluuInit ==
    /\ {"authentication_mode", "AS_CLIENT_ID", "AS_CLIENT_SECRET",
        "AS_ENDPOINT", "AS_SSA"} \subseteq conf
    /\ "audit_group" \in conf => "audit_group_email" \in conf
    /\ conf \cap {"super_gluu_group", "audit_group"} # {}
          => "audit_attribute" \in conf

(* registerScanClient: the client may be refused, or not be stored in the  *)
(* configuration of the script.                                            *)
registerScanClient == BOOLEAN
ScanClient ==
    IF "AS_CLIENT_ID=" \in conf THEN registerScanClient
    ELSE {script = "super_gluu"}

(* loadPushNotificationCreds, and what each mode looks for in that file;   *)
(* the native mode is the one of a file without another.                   *)
loadPushNotificationCreds == "credentials_file" \in conf
NativeMode == loadPushNotificationCreds /\ "native" \in conf
enabledPushNotifications ==
    /\ self.scanClient
    /\ loadPushNotificationCreds
    /\ NativeMode \/ SnsMode \/ GluuMode

SuperGluuExtra ==
    [step \in {1, 2} |->
        IF step = 2 THEN {"super_gluu_auth_method", "super_gluu_request"}
        ELSE IF OneStep THEN {"super_gluu_request"}
        ELSE {"display_register_action"}]

(* prepareForStep(1): the request of the one-step mode is made anew. *)
SuperGluuPrepare1(s) ==
    /\ At(s, "prepare", 1)
    /\ Show(s, SuperGluuExtra[1],
            IF OneStep THEN [super_gluu_request |-> "one_step"] ELSE <<>>)
    /\ Alone

(* sendPushNotification.  In the modes that need an endpoint of the phone, *)
(* one is created and kept with the device, if the phone has left a token  *)
(* to create it for.  For the SNS mode the code that creates it reads the  *)
(* platform of the Gluu mode, which is not set, and the exception is       *)
(* swallowed.                                                              *)
Pushed(s) ==
    /\ enabledPushNotifications
    /\ Registered(s)
    /\ SnsMode => Entry(s).endpoint

(* getAccessTokenJansServer: a token that is refused is False, which is    *)
(* sent to the notification server as if it were one.                      *)
getAccessTokenJansServer == {"token", "False"}
buildNotifyAuthorizationHeader == [bearer : getAccessTokenJansServer]

sendPushNotification(s) ==
    \E header \in buildNotifyAuthorizationHeader, phoneToken \in BOOLEAN :
        IF Pushed(s) /\ GluuMode /\ phoneToken /\ header.bearer = "token"
        THEN SetEntry(s, [endpoint |-> TRUE])
        ELSE Alone

(* prepareForStep(2) of the two-step mode keeps a request that is there,   *)
(* unless it is the mark of a time-out.                                    *)
SuperGluuPrepare2(s) ==
    LET method == Attr(s, "super_gluu_auth_method")
        request == Attr(s, "super_gluu_request")
    IN  /\ At(s, "prepare", 2)
        /\ \/ (OneStep \/ (session[s].user # None
                           /\ request \in {"enroll", "authenticate"}))
              /\ Show(s, {}, <<>>) /\ Alone
           \/ /\ ~OneStep /\ session[s].user # None
              /\ request \in {None, "timeout"} /\ method # None
              /\ Show(s, SuperGluuExtra[2], [super_gluu_request |-> method,
                                             super_gluu_auth_method |-> method])
              /\ IF method = "authenticate" THEN sendPushNotification(s) ELSE Alone
           \/ /\ ~OneStep
              /\ session[s].user = None \/ (request = None /\ method = None)
              /\ Hide(s, <<>>) /\ Alone

(* The application approves: the server notes the device in the session,   *)
(* and registers it when the request is to enroll; in the one-step mode a  *)
(* new phone is registered for nobody yet.                                 *)
Approve(s) ==
    LET enroll == IF OneStep THEN ~Registered(s)
                  ELSE Attr(s, "super_gluu_auth_method") = "enroll"
    IN  /\ session[s].stage \in {"prepare", "page", "answered"}
        /\ Attr(s, "super_gluu_request") # None
        /\ Attr(s, "session_custom_state") = None
        /\ Become(s, Putting(s, [session_custom_state |-> "approved",
                                 enroll |-> enroll, one_step |-> OneStep]))
        /\ IF enroll /\ ~OneStep THEN RegisterDevice(s) ELSE Alone

(* getSessionDeviceStatus and validateSessionDeviceStatus. *)
DeviceStatus(s) == /\ Attr(s, "super_gluu_request") # None
                   /\ Attr(s, "session_custom_state") = "approved"
ValidDeviceJustEnrolled(s) == Attr(s, "enroll") /\ Attr(s, "one_step")
ValidDevice(s) == \/ Attr(s, "enroll") /\ Attr(s, "one_step")
                  \/ Registered(s)

(* What the page posts: that the server has the approval, that the time is *)
(* over, or an error.  Of a time-out the step is to be repeated.           *)
Retry(s, again) == Setting(s, [retry_current_step |-> again])

SuperGluuTimeOut(s) ==
    /\ session[s].stage = "page"
    /\ session[s].step = IF OneStep THEN 1 ELSE 2
    /\ \/ Refuse(s, Fault ++ Retry(s, TRUE))
       \/ Refuse(s, Fault ++ Retry(s, FALSE))
    /\ Alone

isUserMemberOfGroup(s) == "super_gluu_group" \in Entry(s).groups

(* authenticate(1) of the one-step mode. *)
SuperGluuOneStep(s) ==
    /\ OneStep /\ At(s, "page", 1) /\ DeviceStatus(s)
    /\ IF Attr(s, "enroll") THEN Answer(s, Retry(s, FALSE) ++ Passing(s, "device"))
       ELSE IF ValidDevice(s)
       THEN Answer(s, [user |-> session[s].who] ++ Passing(s, "device")
                 ++ Setting(s, [retry_current_step |-> FALSE,
                                super_gluu_count_login_steps |-> 1]))
       ELSE Refuse(s, Retry(s, FALSE))
    /\ Alone

(* authenticate(1) of the two-step mode: the password; who is not in the   *)
(* group is done; who has no phone, or presses the button, is to enroll.   *)
SuperGluuPassword(s) ==
    /\ ~OneStep /\ At(s, "page", 1)
    /\ \E right \in BOOLEAN, button \in BOOLEAN :
       LET grouped == "super_gluu_group" \in conf
           member == isUserMemberOfGroup(s)
           counted == IF grouped
                      THEN [super_gluu_count_login_steps |-> IF member THEN 2 ELSE 1]
                      ELSE <<>>
           method == IF grouped /\ ~member THEN <<>>
                     ELSE [super_gluu_auth_method |->
                             IF button \/ ~Registered(s) THEN "enroll"
                             ELSE "authenticate"]
       IN  IF PasswordAccepted(s, right)
           THEN Answer(s, LoggedIn(s) ++ Setting(s, counted ++ method
                                       ++ [retry_current_step |-> FALSE]))
           ELSE Refuse(s, Fault ++ Retry(s, FALSE))
    /\ Alone

(* authenticate(2).  It begins with the authenticated user: in the         *)
(* one-step mode there is none yet, and the password that would attach the *)
(* new phone is not looked at.                                             *)
SuperGluuSecond(s) ==
    /\ At(s, "page", 2)
    /\ IF session[s].user = None THEN Refuse(s, Retry(s, FALSE)) /\ Alone
       ELSE IF OneStep
       THEN /\ DeviceStatus(s) /\ Attr(s, "enroll")
            /\ \E right \in BOOLEAN :
                  \/ /\ PasswordAccepted(s, right)
                     /\ Answer(s, LoggedIn(s) ++ Retry(s, FALSE))
                     /\ RegisterDevice(s)
                  \/ /\ ~PasswordAccepted(s, right)
                     /\ Refuse(s, Fault ++ Retry(s, FALSE)) /\ Alone
       ELSE /\ DeviceStatus(s)
            /\ IF ValidDevice(s)
               THEN Answer(s, Passing(s, "device") ++ Retry(s, FALSE))
               ELSE Refuse(s, Retry(s, FALSE))
            /\ Alone

(* getNextStep replaces the request when the step is to be repeated. *)
SuperGluuNext(s, work) ==
    IF Value(work, "retry_current_step") = TRUE THEN session[s].step ELSE 0
Repeated(work) ==
    IF script = "super_gluu" /\ Value(work, "retry_current_step") = TRUE
    THEN [super_gluu_request |-> "timeout"] ++ work ELSE work
SuperGluuCount(work) ==
    IF Value(work, "super_gluu_count_login_steps") # None
    THEN work.super_gluu_count_login_steps ELSE 2
=============================================================================
