---------------------------- MODULE DeviceScripts ----------------------------
(***************************************************************************)
(* The scripts whose second step is a device registered with another       *)
(* service: U2fExternalAuthenticator, Fido2ExternalAuthenticator,          *)
(* DuoExternalAuthenticator, UafExternalAuthenticator and                  *)
(* ThumbSignInExternalAuthenticator.                                       *)
(*                                                                         *)
(* The registered devices of a person are the uids of the entry; the       *)
(* services may fail at any call.                                          *)
(***************************************************************************)
EXTENDS PasswordScripts

Registered(s) == Entry(s).uids # {}

RegisterDevice(s) == SetEntry(s, [uids |-> {"device"}])

-----------------------------------------------------------------------------
(* U2F.  Without its address attribute init raises; without metadata (20   *)
(* attempts) too.                                                          *)
U2fInit == "u2f_server_uri" \in conf

(* prepareForStep(2): a login starts for who has a device, a registration  *)
(* for who has none.  The login service not knowing the devices (404)      *)
(* leaves the page without a request, and nothing to answer.               *)
U2fPrepare(s) ==
    /\ \/ PlainFirstPage(s, {})
       \/ /\ At(s, "prepare", 2) /\ session[s].user # None /\ Alone
          /\ \/ "u2f_application_id" \notin conf /\ Hide(s, Fault)
             \/ /\ "u2f_application_id" \in conf
                /\ \/ Show(s, {}, [request |-> IF Registered(s)
                                     THEN "authenticate" ELSE "enroll"])
                   \/ Registered(s) /\ Show(s, {}, [request |-> None])
                   \/ Hide(s, Fault)

(* authenticate(2), with what the page posts: the answer of the device and *)
(* the method the request was for.  An honest page cannot finish a request *)
(* that was not started.                                                   *)
DeviceAuthenticate(s) ==
    /\ At(s, "page", 2)
    /\ \E answer \in DeviceAnswers :
          \/ /\ answer = "good" /\ OnPage(s, "request") = "authenticate"
             /\ Answer(s, Passing(s, "device")) /\ Alone
          \/ /\ answer = "good" /\ OnPage(s, "request") = "enroll"
             /\ Answer(s, Passing(s, "device")) /\ RegisterDevice(s)
          \/ /\ answer # "good" \/ OnPage(s, "request") = None
             /\ Refuse(s, Fault) /\ Alone

-----------------------------------------------------------------------------
(* FIDO2.  The metadata are loaded by the first request that needs them,   *)
(* under a lock: self.metadata and self.holder, the request that holds     *)
(* metaDataLoaderLock.                                                     *)
Fido2Init == "fido2_server_uri" \in conf

Load(s, place) == Become(s, [stage |-> "working"] ++ Setting(s, [at |-> place]))
Loading(s, place) ==
    session[s].stage = "working" /\ OnPage(s, "at") = place

(* authenticate(1) notes whether the browser has a platform authenticator, *)
(* whatever the password; only the choice of a page looks at it.           *)
Fido2Password(s) ==
    /\ At(s, "page", 1)
    /\ \E right \in BOOLEAN :
          LET noted == Setting(s, [platformAuthenticatorAvailable |-> "text"])
          IN  IF PasswordAccepted(s, right) THEN Answer(s, LoggedIn(s) ++ noted)
                                            ELSE Refuse(s, Fault ++ noted)
    /\ Alone

(* prepareForStep(2), once the metadata are there: the login request tells *)
(* whether the device is the platform's, a registration takes it from the  *)
(* session.                                                                *)
Fido2Extra == {"platformAuthenticatorAvailable"}
Fido2Request(s) ==
    \/ /\ Registered(s)
       /\ Show(s, Fido2Extra, [request |-> "authenticate",
                               platformAuthenticatorAvailable |-> "text"])
    \/ /\ ~Registered(s)
       /\ Show(s, Fido2Extra, [request |-> "enroll"])
    \/ Hide(s, Fault)

Fido2Prepare(s) ==
    \/ PlainFirstPage(s, Fido2Extra)
    \/ /\ At(s, "prepare", 2) /\ session[s].user # None /\ Alone
       /\ \/ self.metadata # None /\ Fido2Request(s)
          \/ self.metadata = None /\ Load(s, "lock")

(* getMetaDataConfiguration from the lock on.  Who finds the metadata      *)
(* loaded by another returns without having come to the finally that       *)
(* unlocks.  A lock is for one thread: a request waits for the one of      *)
(* another.                                                                *)
Fido2Lock(s) ==
    /\ Loading(s, "lock") /\ self.holder = None
    /\ self' = [self EXCEPT !.holder = s]
    /\ \/ self.metadata = None /\ Load(s, "load")
       \/ self.metadata # None /\ Fido2Request(s)
    /\ UNCHANGED <<script, conf, person>>

(* The finally of the loading. *)
StillLocked == self
Unlocked == [self EXCEPT !.holder = None]

Fido2Load(s) ==
    /\ Loading(s, "load")
    /\ \/ self' = [Unlocked EXCEPT !.metadata = "loaded"] /\ Fido2Request(s)
       \/ self' = Unlocked /\ Hide(s, Fault)
    /\ UNCHANGED <<script, conf, person>>

-----------------------------------------------------------------------------
(* Duo.  duo_group makes the second step one for its members only;         *)
(* audit_group has a mail sent for its members, which changes nothing.     *)
DuoInit ==
    /\ "duo_creds_file" \in conf
    /\ "audit_group" \in conf => "audit_group_email" \in conf
    /\ conf \cap {"duo_group", "audit_group"} # {} => "audit_attribute" \in conf

InDuoGroup(s) == "duo_group" \in Entry(s).groups

(* authenticate(1): who is authenticated already is not asked again.  The  *)
(* address of the service is read first, and is nowhere required.          *)
DuoPassword(s) ==
    /\ At(s, "page", 1)
    /\ \E right \in BOOLEAN :
       LET counted == IF "duo_group" \in conf
                      THEN [duo_count_login_steps |->
                               IF InDuoGroup(s) THEN 2 ELSE 1]
                      ELSE <<>>
       IN  IF /\ "duo_host" \in conf
              /\ session[s].user # None \/ PasswordAccepted(s, right)
           THEN Answer(s, LoggedIn(s) ++ Setting(s, counted))
           ELSE Refuse(s, Fault)
    /\ Alone

DuoExtra == [step \in {2} |-> {"duo_count_login_steps"}]

DuoPrepare(s) ==
    /\ Alone
    /\ IF "duo_host" \notin conf
       THEN session[s].stage = "prepare" /\ Hide(s, Fault)
       ELSE \/ At(s, "prepare", 1) /\ Show(s, {}, <<>>)
            \/ /\ At(s, "prepare", 2) /\ session[s].user # None
               /\ Show(s, DuoExtra[2], [request |-> "authenticate"])

(* getCountAuthenticationSteps, on the parameters of the request. *)
DuoCount(work) ==
    IF Value(work, "duo_count_login_steps") # None
    THEN work.duo_count_login_steps ELSE 2

-----------------------------------------------------------------------------
(* UAF.  The method is chosen in step 1 and found again in the session.    *)
UafInit == "uaf_server_uri" \in conf

UafPassword(s) ==
    /\ At(s, "page", 1)
    /\ \E right \in BOOLEAN :
          IF PasswordAccepted(s, right)
          THEN Answer(s, LoggedIn(s) ++ Setting(s, [uaf_auth_method |->
                    IF Registered(s) THEN "authenticate" ELSE "enroll"]))
          ELSE Refuse(s, Fault)
    /\ Alone

UafExtra == {"uaf_auth_method", "uaf_obb_start_response"}

(* prepareForStep(2): the out-of-band request for that method is started.  *)
UafPrepare(s) ==
    /\ \/ PlainFirstPage(s, UafExtra)
       \/ /\ At(s, "prepare", 2) /\ session[s].user # None
          /\ \/ /\ Attr(s, "uaf_auth_method") # None
                /\ Show(s, UafExtra, [request |-> Attr(s, "uaf_auth_method"),
                              uaf_obb_start_response |-> "started"])
             \/ Attr(s, "uaf_auth_method") = None /\ Hide(s, <<>>)
             \/ Hide(s, Fault)
          /\ Alone

(* authenticate(2) asks authenticationService, a name that is not defined  *)
(* in it, for the user: it raises whatever the page answered, and the      *)
(* comparison or the registration of the device that follow do not happen. *)
UafAuthenticate(s) ==
    /\ At(s, "page", 2)
    /\ \E answer \in DeviceAnswers :
          Refuse(s, IF answer = "good" THEN <<>> ELSE Fault)
    /\ Alone

-----------------------------------------------------------------------------
(* ThumbSignIn.  Step 1 is a scan by who has registered, and then is all,  *)
(* or the password; after the password come a registration and a scan.     *)
ThumbSignInInit == {"ts_host", "ts_apiKey", "ts_apiSecret"} \subseteq conf

ThumbSignInPrepare(s) ==
    /\ session[s].stage = "prepare"
    /\ \/ /\ session[s].step \in {1, 3}
          /\ Show(s, {}, [request |-> "authenticate"])
       \/ /\ session[s].step = 2 /\ session[s].user # None
          /\ Show(s, {}, [request |-> "register"])
       \/ Hide(s, Fault)
    /\ Alone

ThumbSignInScan(s) ==
    /\ At(s, "page", 1) \/ At(s, "page", 3)
    /\ \E answer \in DeviceAnswers :
       LET flow == Setting(s, [userLoginFlow |->
                      IF session[s].step = 1 THEN "ThumbSignIn_Authentication"
                      ELSE "ThumbSignIn_RegistrationSucess"])
       IN  IF answer = "good" /\ Registered(s)
           THEN Answer(s, [user |-> session[s].who] ++ Passing(s, "device")
                            ++ flow)
           ELSE Refuse(s, Fault ++ flow)
    /\ Alone

ThumbSignInPassword(s) ==
    /\ At(s, "page", 1)
    /\ \E right \in BOOLEAN :
       LET flow == Setting(s, [userLoginFlow |-> "ThumbSignIn_Registration"])
       IN  IF PasswordAccepted(s, right) THEN Answer(s, LoggedIn(s) ++ flow)
                                         ELSE Refuse(s, Fault ++ flow)
    /\ Alone

(* The page of step 2 posts once the service has registered the device.    *)
ThumbSignInRegister(s) ==
    /\ At(s, "page", 2)
    /\ Answer(s, Setting(s, [userLoginFlow |-> "ThumbSignIn_Registration"]))
    /\ RegisterDevice(s)

ThumbSignInCountOneMore(work) ==
    IF Value(work, "userLoginFlow") = "ThumbSignIn_Authentication" THEN 1 ELSE 4
ThumbSignInCount(work) ==
    IF Value(work, "userLoginFlow") = "ThumbSignIn_Authentication" THEN 1 ELSE 3
=============================================================================
