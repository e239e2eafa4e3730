------------------------- MODULE MCCasaAuthentication ------------------------
EXTENDS CasaAuthentication, TLC
CONSTANTS s1, s2, p1, laptop, phone, here, there
MCSession == {s1, s2}
MCPerson == {p1}
MCDevice == {laptop, phone}
MCMobileDevice == {phone}
MCCity == {here, there}
(* What the modules need, all of it good. *)
Needed(m) ==
    CASE m = "otp" -> {"otp_type", "issuer", "otp_conf_file"}
      [] m = "smpp" -> {"smpp_server", "smpp_port", "priority_flag"}
      [] m = "duo" -> {"duo_creds_file", "audit_attribute"}
      [] m = "super_gluu" -> {"authentication_mode", "audit_group", "audit_group_email",
                              "audit_attribute", "AS_CLIENT_ID", "AS_CLIENT_SECRET",
                              "AS_ENDPOINT", "AS_SSA"}
      [] m = "stytch" -> {"SMS_ENDPOINT", "AUTH_ENDPOINT", "ENROLL_ENDPOINT",
                          "DELETE_USER_ENDPOINT", "PROJECT_ID", "SECRET"}
      [] m = "u2f" -> {"u2f_server_uri"}
      [] m = "fido2" -> {"fido2_server_uri"}
      [] m = "casa" -> {"u2f_app_id", "supergluu_app_id"}
      [] OTHER -> {}
Complete(methods) ==
    [m \in methods \cup {"casa"} |-> [given |-> Needed(m), bad |-> {}]]
Lacking(methods, m, name) ==
    [Complete(methods) EXCEPT ![m].given = @ \ {name}]
Spoilt(methods, m, name) ==
    [Complete(methods) EXCEPT ![m].bad = {name}]
Pairs == {{"twilio_sms", "u2f"}, {"smpp", "super_gluu"},
          {"stytch", "otp"}, {"duo", "fido2"}}
Load(m, properties) == [mapped |-> m, enabled |-> m, properties |-> properties]
MCLoads ==
    {Load(m, Complete(m)) : m \in Pairs}
    \cup {LET m == {"twilio_sms", "u2f"} IN
               Load(m, Spoilt(m, "u2f", "u2f_server_uri")),
          LET m == {"smpp", "super_gluu"} IN
               Load(m, Spoilt(m, "smpp", "priority_flag")),
          LET m == {"smpp", "super_gluu"} IN
               Load(m, Lacking(m, "casa", "supergluu_app_id")),
          LET m == {"stytch", "otp"} IN
               [Load(m, Complete(m)) EXCEPT !.enabled = {"stytch"}],
          LET m == {"duo", "fido2"} IN
               Load(m, Lacking(m, "duo", "audit_attribute")),
          LET m == {"duo", "fido2"} IN
               Load(m, Lacking(m, "fido2", "fido2_server_uri"))}
(* A person of their own policy may have DEVICE_UNKNOWN. *)
MCConfigurations ==
    [policy : {{"LOCATION_UNKNOWN"}, Criteria, {"CUSTOM"}},
     mobile : {{"twilio_sms", "smpp", "otp", "duo"}},
     grouped : {{"duo", "super_gluu"}}]
In(d, c, n) == [who |-> p1, device |-> d, city |-> c, tries |-> n]
MCLogins == {s1 :> In(laptop, here, 0) @@ s2 :> In(laptop, here, 1),
             s1 :> In(laptop, here, 0) @@ s2 :> In(phone, there, 1)}
MCTrusted == {<<>>, phone :> {here}}
=============================================================================
