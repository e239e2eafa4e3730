------------------------ MODULE MCPersonAuthentication -----------------------
EXTENDS PersonAuthentication, TLC
CONSTANTS s1, s2, s3, p1, p2
MCSession == {s1, s2, s3}
MCPerson == {p1, p2}
MCSpecial == {s1}
MCScripts == DOMAIN Attributes
(* Two people share nothing but the script object, which most scripts leave *)
(* alone once they are loaded.  Where one of two scripts alike remembers    *)
(* something there, the other shows two logins of one person (smpp and      *)
(* Passport).  The lock of FIDO2 takes a third login.                       *)
Alike == s1 :> p1 @@ s2 :> p1
Apart == s1 :> p1 @@ s2 :> p2
Three == Alike @@ s3 :> p1
MCLogins == [x \in MCScripts |->
    CASE x = "fido2" -> {Three}
      [] x \in {"passport_saml", "twilio_sms"} -> {Apart}
      [] OTHER -> {Alike}]
=============================================================================
