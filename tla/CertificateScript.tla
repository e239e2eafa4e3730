-------------------------- MODULE CertificateScript --------------------------
(***************************************************************************)
(* UserCertExternalAuthenticator: a page to begin with, guarded by a       *)
(* reCAPTCHA where that is configured; the certificate of the browser,     *)
(* which is looked for when page 2 is prepared and judged when it is       *)
(* posted; and, for a valid certificate that is nobody's yet, a password,  *)
(* after which it is the person's.                                         *)
(***************************************************************************)
EXTENDS SuperGluuScript

CertInit == {"chain_cert_file_path", "map_user_cert"} \subseteq conf

(* initRecaptcha: without a file of credentials, or with one that does not *)
(* enable it, there is no reCAPTCHA.                                       *)
initRecaptcha == {"credentials_file", "recaptcha"} \subseteq conf

(* validateRecaptcha needs an answer of the person and of the service. *)
validateRecaptcha(answer, serviceUp) == serviceUp /\ answer = "good"

CertBegin(s) ==
    /\ At(s, "page", 1)
    /\ \E answer \in DeviceAnswers, serviceUp, button \in BOOLEAN :
          IF button /\ (initRecaptcha => validateRecaptcha(answer, serviceUp))
          THEN Answer(s, IF initRecaptcha THEN Passing(s, "recaptcha") ELSE <<>>)
          ELSE Refuse(s, Fault)
    /\ Alone

CertExtra == {"cert_selected", "cert_valid", "cert_x509",
              "cert_count_login_steps", "cert_user_external_uid"}

(* prepareForStep: the certificate arrives with the request, or does not.  *)
CertPrepare(s) ==
    /\ \/ PlainFirstPage(s, CertExtra)
       \/ At(s, "prepare", 2) /\ Show(s, CertExtra, [cert_x509 |-> "cert"])
       \/ At(s, "prepare", 2) /\ Show(s, CertExtra, <<>>)
       \/ At(s, "prepare", 3) /\ Show(s, CertExtra, <<>>)
    /\ Alone

(* validateCertificate: the first validator that is switched on and does   *)
(* not find the certificate valid rejects it; with none on, every one is   *)
(* accepted.                                                               *)
validator_types == {"generic", "path", "ocsp", "crl"}
validateCertificate(verdict) ==
    \A type \in validator_types \cap conf : verdict[type] = "VALID"

(* authenticate(2).  No certificate, or one that a validator rejects, goes *)
(* on to the page of step 3 that says so; one that is somebody's is that   *)
(* person's login, in two steps; one that is nobody's waits for step 3,    *)
(* or is turned away when certificates are not to be mapped.               *)
CertJudge(s) ==
    LET mapped == "map_user_cert=true" \in conf
        two == [cert_count_login_steps |-> 2]
        seen == [cert_selected |-> TRUE, cert_valid |-> TRUE]
    IN  /\ At(s, "page", 2)
        /\ \/ /\ Attr(s, "cert_x509") = None
              /\ Answer(s, Fault ++ Setting(s, [cert_selected |-> FALSE]))
           \/ /\ Attr(s, "cert_x509") # None
              /\ \E verdict \in [validator_types -> {"VALID", "REVOKED"}] :
                    ~validateCertificate(verdict)
              /\ Answer(s, Fault ++ Setting(s, [cert_selected |-> TRUE,
                                                cert_valid |-> FALSE]))
           \/ /\ Attr(s, "cert_x509") # None
              /\ \/ /\ Registered(s)
                    /\ Answer(s, [user |-> session[s].who] ++ Passing(s, "device")
                               ++ Setting(s, seen ++ two))
                 \/ /\ ~Registered(s) /\ mapped
                    /\ Answer(s, Passing(s, "device") ++ Setting(s,
                                   seen ++ [cert_user_external_uid |-> "cert"]))
                 \/ /\ ~Registered(s) /\ ~mapped
                    /\ Refuse(s, Fault ++ Setting(s, seen ++ two))
    /\ Alone

(* authenticate(3): the certificate of step 2 becomes the person's, unless *)
(* another login has mapped it meanwhile; the entry may fail to be written.*)
CertMap(s) ==
    /\ At(s, "page", 3)
    /\ \E right \in BOOLEAN, written \in BOOLEAN :
          IF Attr(s, "cert_user_external_uid") = None
          THEN Refuse(s, Fault) /\ Alone
          ELSE IF PasswordAccepted(s, right) /\ (Registered(s) \/ written)
          THEN Answer(s, LoggedIn(s)) /\ RegisterDevice(s)
          ELSE Refuse(s, Fault) /\ Alone

CertCount(work) ==
    IF Value(work, "cert_count_login_steps") # None THEN 2 ELSE 3
=============================================================================
