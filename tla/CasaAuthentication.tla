------------------------- MODULE CasaAuthentication -------------------------
(***************************************************************************)
(* Casa.py: the person authentication script that stands before all the    *)
(* methods of a second factor.  Step 1 is the password, checked by the     *)
(* module of the method that suits the person and the browser; then the    *)
(* policy says whether the second factor is skipped, by the devices and    *)
(* places of earlier logins, which the entry keeps.  Later steps belong to *)
(* the module; at each of them the person may change to another method.    *)
(***************************************************************************)
EXTENDS CasaPlugins

CONSTANTS
    Loads,        \* the methods mapped to plugins of Casa, those whose script
                  \* is enabled, and the properties of the scripts, in the
                  \* cases considered
    Configurations, \* what the administrator may have set
    Device, City, \* where people log in: browsers, and places
    MobileDevice, \* the browsers of a telephone
    Logins,       \* who logs in where, and the tries that are used up (bound),
                  \* in the cases considered
    Trusted       \* what entries remember at first, in the cases considered

ASSUME DeviceAssumption ==
    /\ MobileDevice \subseteq Device
    /\ None \notin Device \cup City \cup Methods \cup {"other"}
    /\ \A load \in Loads : load.mapped \subseteq Methods
    /\ \A trusted \in Trusted :
          /\ DOMAIN trusted \subseteq Device
          /\ \A d \in DOMAIN trusted : trusted[d] \subseteq City
    /\ Logins \subseteq
          [Session -> [who : Person, device : Device, city : City,
                      tries : 0..(MaxTries - 1)]]

Criteria == {"LOCATION_UNKNOWN", "DEVICE_UNKNOWN"}

-----------------------------------------------------------------------------
(* The methods of a person, but for one; and which suit the browser: the   *)
(* preferred one before the others, and on a telephone without any that    *)
(* suits, any.                                                             *)
getAvailMethodsUser(e, skip) ==
    {m \in self.authenticators \ {skip} : hasEnrollments(m, e)}

getSuitableAcr(e, platform) ==
    LET onMobile == platform \in MobileDevice
        avail == getAvailMethodsUser(e, None)
        fit == IF onMobile THEN avail \cap conf.mobile ELSE avail
    IN  IF e.preferred \in fit THEN {e.preferred}
        ELSE IF fit = {} /\ onMobile THEN avail ELSE fit

-----------------------------------------------------------------------------
(* The policy of the second factor.                                        *)
Policy(e) == IF "CUSTOM" \in conf.policy THEN e.policy ELSE conf.policy

Origins(trusted, d) == IF d \in DOMAIN trusted THEN trusted[d] ELSE {}

MatchEither(trusted, criteria, d, city) ==
    \/ d \in DOMAIN trusted
    \/ \E x \in DOMAIN trusted : city \in trusted[x]

Match(trusted, criteria, d, city) ==
    IF criteria = {"LOCATION_UNKNOWN"}
    THEN \E x \in DOMAIN trusted : city \in trusted[x]
    ELSE /\ d \in DOMAIN trusted
         /\ criteria = Criteria => city \in trusted[d]

process2FAPolicy(e, criteria, d, city) ==
    [skip |-> Match(e.trusted, criteria, d, city),
     info |-> Single(d, Origins(e.trusted, d) \cup ({city} \ {None})) ++ e.trusted]

(* The place comes from a service, which may not answer.                   *)
getGeolocation(s) == {session[s].city, None}

(* What determineSkip2FA may decide for the login: without a criterion, or *)
(* without data of the browser, the second factor takes place.             *)
determineSkip2FA(s, platform) ==
    LET e == Entry(s)
        criteria == Policy(e) \cap Criteria
    IN  IF "EVERY_LOGIN" \in Policy(e) \/ criteria = {} \/ platform = None
        THEN {[skip |-> FALSE, info |-> None]}
        ELSE {process2FAPolicy(e, criteria, platform, city) :
                city \in getGeolocation(s)}

-----------------------------------------------------------------------------
(* authenticate. *)

Update(s, changes) ==
    /\ person' = [person EXCEPT ![session[s].who] = changes ++ @]
    /\ UNCHANGED <<script, conf, self>>

(* Step 1 of a person without a preferred method: the password only.       *)
PasswordOnly(s) ==
    /\ At(s, "page", 1) /\ Entry(s).preferred = None
    /\ \/ Answer(s, LoggedIn(s) ++ Setting(s, [skip2FA |-> TRUE]))
       \/ Refuse(s, Fault)
    /\ Alone

(* Step 1: the module of the suitable method asks for the password, unless *)
(* there is an authenticated user, and does what it has to before its own  *)
(* step; then the policy is looked at.                                     *)
WrongPassword(s) ==
    /\ At(s, "page", 1) /\ Entry(s).preferred # None /\ session[s].user = None
    /\ Refuse(s, Fault) /\ Alone

NoMethod(s, platform) ==
    /\ At(s, "page", 1) /\ Entry(s).preferred # None
    /\ getSuitableAcr(Entry(s), platform) = {}
    /\ Refuse(s, <<>>) /\ Alone

(* What is noted in passed besides what the module notes there. *)
Marked(s, o, marks) ==
    [passed |-> session[s].passed \cup marks \cup
                IF "passed" \in DOMAIN o.changes THEN o.changes.passed ELSE {}]
        ++ o.changes

FirstFailed(s, acr, o) ==
    /\ ~o.ok
    /\ Refuse(s, o.changes ++ LoggedIn(s)) /\ Update(s, o.entry)

FirstPassed(s, acr, o, platform) ==
    /\ o.ok
    /\ \E d \in determineSkip2FA(s, platform) :
          LET noted == IF d.info = None THEN <<>>
                       ELSE [trustedDevicesInfo |-> d.info]
              kept == IF d.skip THEN [trusted |-> d.info] ELSE <<>>
          IN  /\ Answer(s, Marked(s, o, {"password"}) ++ LoggedIn(s) ++ Setting(s,
                        [skip2FA |-> d.skip, ACR |-> acr] ++ noted ++ o.work))
              /\ Update(s, kept ++ o.entry)

FirstStep(s, platform) ==
    /\ At(s, "page", 1) /\ Entry(s).preferred # None
    /\ \E acr \in getSuitableAcr(Entry(s), platform) : \E o \in First(s, acr) :
          FirstFailed(s, acr, o) \/ FirstPassed(s, acr, o, platform)

(* Only a loaded module is called. *)
OfLoaded(acr, outcomes) ==
    IF acr \in self.authenticators THEN outcomes ELSE {Just(FALSE)}

(* A later step at whose page the person asks for another method: step 1   *)
(* of its module is simulated, and what it says is not looked at.  Whether *)
(* the page offers the method is not checked; "other" stands for all names *)
(* of which no module is loaded.                                           *)
Asked(s, alter) ==
    IF alter \in OnPage(s, "methods") THEN {} ELSE {"unoffered"}

simulateFirstStep(s, alter) ==
    /\ session[s].stage = "page" /\ session[s].step > 1
    /\ session[s].tries + 1 < MaxTries
    /\ \E o \in OfLoaded(alter, First(s, alter)) :
          /\ Answer(s, Marked(s, o, Asked(s, alter)) ++
                    Setting(s, [alternativeMethod |-> alter] ++ o.work))
          /\ Update(s, o.entry)

(* A later step: the module judges, and a success is the second factor for *)
(* the list of trusted devices.                                            *)
Remembered(s) ==
    IF Attr(s, "trustedDevicesInfo") = None THEN <<>>
    ELSE [trusted |-> Attr(s, "trustedDevicesInfo")]

(* Not in the code: where the person came through a second factor, or      *)
(* enrolled one.                                                           *)
Proved(s, o) ==
    IF "passed" \in DOMAIN o.changes
    THEN [proved |-> Entry(s).proved \cup {<<session[s].device, session[s].city>>}]
    ELSE <<>>

SecondStep(s) ==
    /\ session[s].stage = "page" /\ session[s].step > 1
    /\ \E o \in OfLoaded(Attr(s, "ACR"), Second(s, Attr(s, "ACR"))) :
          \/ /\ o.ok
             /\ Answer(s, o.changes ++ Setting(s, o.work))
             /\ Update(s, Remembered(s) ++ Proved(s, o) ++ o.entry)
          \/ /\ ~o.ok
             /\ Refuse(s, o.changes) /\ Update(s, <<>>)

authenticate(s) ==
    \/ PasswordOnly(s) \/ WrongPassword(s)
    \/ \E platform \in {session[s].device, None} :
          NoMethod(s, platform) \/ FirstStep(s, platform)
    \/ \E alter \in self.authenticators \cup {"other"} : simulateFirstStep(s, alter)
    \/ SecondStep(s)

-----------------------------------------------------------------------------
(* The other methods of the script. *)

getExtraParametersForStep(work, step) ==
    IF step > 1
    THEN {"ACR", "methods", "trustedDevicesInfo"} \cup
         IF Value(work, "ACR") \in self.authenticators
         THEN Extra(Value(work, "ACR"), step) ELSE {}
    ELSE {}

prepareForStep(s) ==
    /\ session[s].stage = "prepare" /\ Alone
    /\ \/ session[s].step = 1 /\ Show(s, {}, <<>>)
       \/ /\ session[s].step > 1
          /\ LET acr == Attr(s, "ACR")
             IN  \E o \in OfLoaded(acr, Prepared(s, acr)) :
                   \/ /\ o.ok
                      /\ Show(s, getExtraParametersForStep(session[s].attrs,
                                                           session[s].step),
                              [methods |-> getAvailMethodsUser(Entry(s), acr)]
                                 ++ o.work)
                   \/ ~o.ok /\ Hide(s, o.changes)

getCountAuthenticationSteps(s, work) ==
    IF Value(work, "skip2FA") = TRUE THEN 1
    ELSE IF Value(work, "ACR") \in self.authenticators
         THEN Count(Entry(s), Value(work, "ACR"), work) ELSE 2

(* Another method begins at step 2 again, whatever step it was chosen at.  *)
getNextStepAfter(work, step) ==
    IF Value(work, "alternativeMethod") # None THEN step + 1 ELSE 0
getNextStep(work, step) ==
    IF Value(work, "alternativeMethod") # None THEN 2 ELSE 0
Changed(work) ==
    IF Value(work, "alternativeMethod") # None
    THEN [ACR |-> work.alternativeMethod] ++ work ELSE work

Proceed(s) ==
    LET work == Changed(session[s].work)
    IN  Forward(s, work, getNextStep(work, session[s].step),
                getCountAuthenticationSteps(s, work),
                [step \in Nat |-> getExtraParametersForStep(work, step)])

-----------------------------------------------------------------------------
(* init loads the modules of the methods that are mapped to a plugin of    *)
(* Casa and whose script is enabled, but for the ones whose own init       *)
(* refuses its configuration.  Two of them get a property more, which the  *)
(* script of Casa itself must have.                                        *)
Own(m) == CASE m = "u2f" -> {"u2f_app_id"}
            [] m = "super_gluu" -> {"supergluu_app_id"}
            [] OTHER -> {}

getConfigurationAttributes(load, m) == load.properties[m]

computeMethods(load) == load.mapped \cap load.enabled

Loaded(load) ==
    {m \in computeMethods(load) :
        /\ Own(m) \subseteq load.properties["casa"].given
        /\ Initialized(m, getConfigurationAttributes(load, m))}

Initial(methods) ==
    [status : {"active"}, stytched : {"none", "this", "other"}, member : BOOLEAN,
     enrolled : SUBSET (methods \ (Texting \cup {"stytch"})),
     mobiles : 0..2, preferred : methods \cup {None},
     policy : {{"EVERY_LOGIN"}, {"DEVICE_UNKNOWN"}},
     trusted : Trusted,
     proved : {{}}]

(* A preferred method is one the person has enrolled, perhaps with a       *)
(* plugin that is not loaded any more; a trusted device has been there     *)
(* with a second factor; and what nothing will look at is left out.        *)
Sensible(e, methods) ==
    /\ e.preferred = None \/ hasEnrollments(e.preferred, e)
    /\ e.stytched # "none" => "stytch" \in methods /\ e.mobiles > 0
    /\ e.mobiles > 0 => methods \cap (Texting \cup {"stytch"}) # {}
    /\ e.member => methods \cap conf.grouped # {}
    /\ "CUSTOM" \notin conf.policy => e.policy = {"EVERY_LOGIN"}
    /\ Policy(e) \cap Criteria = {} => e.trusted = <<>>
    /\ e.preferred = None => e.enrolled = {} /\ e.mobiles = 0 /\ e.trusted = <<>>

(* A trusted device was seen in its places, or in one that was not known.  *)
Places(trusted) ==
    UNION {{<<d, c>> : c \in trusted[d] \cup {None}} : d \in DOMAIN trusted}

Init ==
    /\ script = "casa"
    /\ conf \in Configurations
    /\ \E load \in Loads :
       /\ self = [authenticators |-> Loaded(load)]
       /\ \E e \in [Person -> Initial(load.mapped)] :
             /\ \A p \in Person : Sensible(e[p], load.mapped)
             /\ person = [p \in Person |->
                             [proved |-> Places(e[p].trusted)] ++ e[p]]
    /\ \E at \in Logins :
          session = [s \in Session |-> at[s] ++ NewSession(at[s].who, <<>>)]

Next == \E s \in Session : prepareForStep(s) \/ authenticate(s) \/ Proceed(s)

Spec == Init /\ [][Next]_state

-----------------------------------------------------------------------------
(* Properties. *)

(* What the variables hold: a login has a method after step 1, at most     *)
(* three steps, and the entry knows places of this model only.             *)
TypeOK ==
    /\ self.authenticators \subseteq Methods
    /\ \A s \in Session :
          /\ session[s].stage \in Stages
          /\ session[s].step \in 1..3
          /\ session[s].tries \in 0..(MaxTries - 1)
          /\ session[s].user \in {None, session[s].who}
          /\ session[s].step > 1 => Attr(s, "ACR") \in Methods \cup {"other"}
    /\ \A p \in Person : /\ DOMAIN person[p].trusted \subseteq Device
                         /\ UNION Range(person[p].trusted) \subseteq City

(* Whether a second factor was passed before under the same circumstances, *)
(* as the policy counts them.                                              *)
Earned(s) ==
    LET e == Entry(s)
        criteria == Policy(e) \cap Criteria
    IN  /\ "EVERY_LOGIN" \notin Policy(e)
        /\ \E place \in e.proved :
              /\ "DEVICE_UNKNOWN" \in criteria => place[1] = session[s].device
              /\ "LOCATION_UNKNOWN" \in criteria => place[2] = session[s].city
        /\ criteria # {}

Acr(s) == OnPage(s, "ACR")

(* Whether the person asked for a method, or for an enrollment, that the   *)
(* page did not offer.                                                     *)
AskedForMore(s) == "unoffered" \in session[s].passed

FactorOrEarned(s) ==
    /\ "password" \in session[s].passed
    /\ \/ "second" \in session[s].passed
       \/ "enrolled" \in session[s].passed /\ AskedForMore(s)
       \/ Entry(s).preferred = None
       \/ Earned(s)
       \/ Acr(s) \in Methods /\ Exempt(Entry(s), Acr(s))

(* A login that ends well came through the password and a second factor    *)
(* that the person had, or the second factor was skipped as the policy     *)
(* allows: the person came through one before, or enrolled it, with this   *)
(* browser, in this place, or both, or prefers no method, or is not in the *)
(* group of the method.  A factor that is new, enrolled by this login, does only after  *)
(* a request for what the page did not offer: no plugin takes who has a    *)
(* device for one who has none.  For a person of one mobile number at most. *)
FactorOrEarnedSkip ==
    \A s \in Session :
        session[s].stage = "done" /\ Entry(s).mobiles < 2 => FactorOrEarned(s)

(* Casa.py:182 "Update the list of trusted devices if 2fa passed": the     *)
(* same for everybody.                                                     *)
TrustedIfPassed ==
    \A s \in Session : session[s].stage = "done" => FactorOrEarned(s)

(* A login is turned away only when something went wrong with it, or it    *)
(* asked for what the page did not offer (a method that is not loaded, or  *)
(* of which the person has nothing), except that the plugin of every       *)
(* method the person has may be missing (Casa.py has "user_methods is not  *)
(* empty when this function is called"), that Stytch may know another      *)
(* number of the person, and that Super Gluu has no page for who is not in *)
(* its group.                                                              *)
RefusedForAKnownReason ==
    \A s \in Session : session[s].stage = "refused" =>
        \/ session[s].fault
        \/ AskedForMore(s)
        \/ getAvailMethodsUser(Entry(s), None) = {}
        \/ Entry(s).stytched = "other"
        \/ /\ Attr(s, "ACR") = "super_gluu"
           /\ Exempt(Entry(s), "super_gluu")
=============================================================================
