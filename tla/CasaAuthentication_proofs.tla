---------------------- MODULE CasaAuthentication_proofs ----------------------
(***************************************************************************)
(* The safety properties of the script of Casa and its plugins, for every  *)
(* number of logins, people, browsers and places, every set of plugins,    *)
(* every policy and every properties of the plugins.                       *)
(*                                                                         *)
(* What a plugin finds out in step 1 is used by a later request, perhaps   *)
(* after another plugin was chosen; what a login writes about its browser  *)
(* in the entry is used by logins to come.  So the invariant says what the *)
(* notes of a plugin are worth while the login is with it, and what stands *)
(* behind the devices and places an entry trusts: a place where the person *)
(* came through a second factor, as far as the policy looks at it.         *)
(***************************************************************************)
EXTENDS CasaAuthentication, AuthenticationSession_proofs

-----------------------------------------------------------------------------
(* The entries. *)

EntryFields == {"status", "stytched", "member", "enrolled", "mobiles", "preferred",
                "policy", "trusted", "proved"}

\* Devices and places as an entry may trust them.
Known(trusted) == /\ DOMAIN trusted \subseteq Device
                  /\ \A d \in DOMAIN trusted : trusted[d] \subseteq City

\* Trust is earned, as far as the criteria of a policy ask for it: of the device,
\* of the place, or of the device in that place.
Vouched(criteria, trusted, proved) ==
    /\ criteria = {"DEVICE_UNKNOWN"} =>
          \A d \in DOMAIN trusted : \E place \in proved : place[1] = d
    /\ criteria = {"LOCATION_UNKNOWN"} =>
          \A d \in DOMAIN trusted : \A c \in trusted[d] :
             \E place \in proved : place[2] = c
    /\ criteria = Criteria =>
          \A d \in DOMAIN trusted : \A c \in trusted[d] :
             \E place \in proved : place[1] = d /\ place[2] = c

\* What holds of the entry of a person.
EntryInv(e) ==
    /\ DOMAIN e = EntryFields
    /\ e.mobiles \in 0..2 /\ e.stytched \in {"none", "this", "other"}
    /\ Known(e.trusted)
    /\ e.mobiles < 2 => Vouched(Policy(e) \cap Criteria, e.trusted, e.proved)

EntriesInv ==
    /\ DOMAIN person = Person /\ \A p \in Person : EntryInv(person[p])
    /\ self.authenticators \subseteq Methods

-----------------------------------------------------------------------------
(* A login. *)

Well(s)  == session[s].stage = "answered" /\ session[s].reply
Badly(s) == session[s].stage = "answered" /\ ~session[s].reply

\* The methods of a login, and whether another one was chosen in this request.
Able(s) == {m \in self.authenticators : hasEnrollments(m, Entry(s))}
Switching(s) == "alternativeMethod" \in DOMAIN session[s].work

\* What authenticate may refuse a login for, and a login may end for.
MayRefuse(s) == \/ session[s].fault
                \/ AskedForMore(s)
                \/ getAvailMethodsUser(Entry(s), None) = {}
                \/ Entry(s).stytched = "other"
Reason(s) == \/ MayRefuse(s)
             \/ Attr(s, "ACR") = "super_gluu" /\ Exempt(Entry(s), "super_gluu")

LoginType(s) ==
    /\ {"device", "city"} \subseteq DOMAIN session[s]
    /\ session[s].who \in Person
    /\ session[s].device \in Device /\ session[s].city \in City
    /\ session[s].stage \in Stages
    /\ session[s].step \in 1..3
    /\ session[s].tries \in 0..(MaxTries - 1)
    /\ session[s].user \in {None, session[s].who}
    /\ session[s].reply \in BOOLEAN

\* What the session keeps of a request.
Kept == {"ACR", "methods", "trustedDevicesInfo", "randCode", "numbers", "phone_id",
         "otp_auth_method", "super_gluu_auth_method", "super_gluu_request"}

\* The devices to be trusted are the ones of the entry and the one of this login.
Pending(s, m) ==
    "trustedDevicesInfo" \in DOMAIN m =>
        /\ Known(m.trustedDevicesInfo)
        /\ Entry(s).mobiles < 2 =>
              Vouched(Policy(Entry(s)) \cap Criteria, m.trustedDevicesInfo,
                      Entry(s).proved \cup {<<session[s].device, session[s].city>>})

\* What the plugin of a method left in step 1, in the parameters m.  A code that
\* was sent is the one that will be compared.  Who asked for what the page did not
\* offer may have got to a method without any of it.
Ready(s, acr, m) ==
    /\ acr \in Able(s)
    /\ acr \in Texting =>
          /\ "randCode" \in DOMAIN m /\ m.randCode \in Nat
          /\ "numbers" \in DOMAIN m <=> Entry(s).mobiles = 2
    /\ acr = "stytch" /\ ~MayRefuse(s) => "phone_id" \in DOMAIN m /\ m.phone_id \in Nat
    /\ acr = "otp" => Value(m, "otp_auth_method") = "authenticate"
    /\ acr = "super_gluu" /\ ~Exempt(Entry(s), "super_gluu") =>
          Value(m, "super_gluu_auth_method") \in {"authenticate", "enroll"}

Noted(s, acr, m) ==
    /\ Able(s) # {}
    /\ acr \in self.authenticators \cup {"other"}
    /\ AskedForMore(s) \/ Ready(s, acr, m)

Received(s, acr, m, step) ==
    ~MayRefuse(s) =>
        /\ acr \in Texting /\ (Entry(s).mobiles # 2 \/ step = 3) =>
              session[s].got = m.randCode
        /\ acr = "stytch" => session[s].got = m.phone_id

\* To enroll a device is for who asked for more than the page offers.
Regular(s, v) ==
    \/ v = None \/ v = "authenticate"
    \/ v = "enroll" /\ AskedForMore(s)

Params(s, m) ==
    /\ Pending(s, m)
    /\ Regular(s, Value(m, "super_gluu_auth_method"))
    /\ Regular(s, Value(m, "super_gluu_request"))
    /\ "numbers" \in DOMAIN m => m.numbers = "several" /\ Entry(s).mobiles = 2
    /\ "otp_count_login_steps" \notin DOMAIN m

\* The same values of the same names.
Alike(m, n) == DOMAIN m = DOMAIN n /\ \A x \in DOMAIN n : m[x] = n[x]

\* What the session keeps.
NotesInv(s) ==
    /\ DOMAIN session[s].attrs \subseteq Kept
    /\ Params(s, session[s].attrs)
    /\ session[s].step = 1 => DOMAIN session[s].attrs = {}
    /\ session[s].step # 1 =>
          /\ "password" \in session[s].passed
          /\ Noted(s, Attr(s, "ACR"), session[s].attrs)
          /\ ~Switching(s) /\ session[s].stage \in {"prepare", "page"} =>
                Received(s, Attr(s, "ACR"), session[s].attrs, session[s].step)
    /\ session[s].step = 3 => Attr(s, "ACR") \in Texting

\* The page of a later step offers what the person can do.
PageInv(s) ==
    /\ session[s].stage = "prepare" => session[s].work = <<>>
    /\ session[s].stage = "page" \/ Badly(s) => ~Switching(s)
    /\ session[s].stage = "page" /\ session[s].step # 1 =>
          /\ "methods" \in DOMAIN session[s].work
          /\ session[s].work.methods \subseteq Able(s)
          /\ Regular(s, OnPage(s, "request"))

\* A step went well: in step 1 the policy lets the person off, or the plugin has
\* prepared the next one; in a later step the factor is passed, or enrolled, or the
\* person is to choose a number or has chosen another method.
Through(s) == \/ "second" \in session[s].passed
              \/ "enrolled" \in session[s].passed /\ AskedForMore(s)

WellInv(s) ==
    Well(s) =>
        /\ "password" \in session[s].passed
        /\ Params(s, session[s].work)
        /\ session[s].step = 1 =>
              /\ ~Switching(s)
              /\ OnPage(s, "skip2FA") = TRUE =>
                    \/ Entry(s).preferred = None
                    \/ Entry(s).mobiles < 2 => Earned(s)
              /\ OnPage(s, "skip2FA") # TRUE =>
                    /\ Noted(s, OnPage(s, "ACR"), session[s].work)
                    /\ Received(s, OnPage(s, "ACR"), session[s].work, 2)
                    /\ OnPage(s, "super_gluu_count_login_steps") \in {None, 1, 2}
                    /\ OnPage(s, "super_gluu_count_login_steps") = 1 =>
                          Exempt(Entry(s), "super_gluu")
        /\ session[s].step # 1 /\ Switching(s) =>
              /\ session[s].tries + 1 < MaxTries
              /\ Noted(s, session[s].work.alternativeMethod, session[s].work)
              /\ Received(s, session[s].work.alternativeMethod, session[s].work, 2)
        /\ session[s].step # 1 /\ ~Switching(s) =>
              /\ Alike(session[s].work, session[s].attrs)
              /\ Entry(s).mobiles < 2 => Through(s)
              /\ session[s].step = 2 =>
                    Received(s, Attr(s, "ACR"), session[s].attrs, 3)

Ends(s) ==
    /\ Badly(s) => MayRefuse(s)
    /\ session[s].stage = "refused" => Reason(s)
    /\ session[s].stage = "done" /\ Entry(s).mobiles < 2 => FactorOrEarned(s)

LoginInv(s) ==
    LoginType(s) /\ NotesInv(s) /\ PageInv(s) /\ WellInv(s) /\ Ends(s)

IInv == EntriesInv /\ Shape /\ \A s \in Session : LoginInv(s)

\* What no step takes from an entry, whoever it is of; and who has no method does
\* not come as far as to enroll one.
Lasting ==
    /\ script' = script /\ conf' = conf /\ self' = self
    /\ \A p \in Person :
          /\ \A f \in {"member", "mobiles", "preferred", "policy"} :
                person'[p][f] = person[p][f]
          /\ person[p].enrolled \subseteq person'[p].enrolled
          /\ getAvailMethodsUser(person[p], None) = {} =>
                person'[p].enrolled = person[p].enrolled
          /\ person[p].proved \subseteq person'[p].proved
          /\ person'[p].stytched = "other" <=> person[p].stytched = "other"

\* The invariant after a step of a login.
StepInv(s) == EntriesInv' /\ Shape' /\ LoginInv(s)' /\ Lasting /\ Others(s)

\* What the notes of a login are worth outlasts a step, of this login or another.
LEMMA Lasts ==
    ASSUME EntriesInv, Lasting, NEW s, LoginType(s),
           session'[s].who = session[s].who, session'[s].device = session[s].device,
           session'[s].city = session[s].city, session[s].fault => session'[s].fault,
           session[s].passed \subseteq session'[s].passed
    PROVE  /\ Able(s) \subseteq Able(s)'
           /\ AskedForMore(s) => AskedForMore(s)'
           /\ \A v : Regular(s, v) => Regular(s, v)'
           /\ Entry(s)'.mobiles = Entry(s).mobiles
           /\ Entry(s)'.preferred = Entry(s).preferred
           /\ \A m : Exempt(Entry(s), m)' = Exempt(Entry(s), m)
           /\ Policy(Entry(s))' = Policy(Entry(s))
           /\ MayRefuse(s) => MayRefuse(s)'
           /\ Earned(s) => Earned(s)'
           /\ \A m : Pending(s, m) => Pending(s, m)'
           /\ \A m : Params(s, m) => Params(s, m)'
           /\ \A acr, m : Noted(s, acr, m) => Noted(s, acr, m)'
<1> DEFINE e == Entry(s)
           e2 == Entry(s)'
<1>1. /\ \A f \in {"member", "mobiles", "preferred", "policy"} : e2[f] = e[f]
      /\ e.enrolled \subseteq e2.enrolled
      /\ getAvailMethodsUser(e, None) = {} => e2.enrolled = e.enrolled
      /\ e.proved \subseteq e2.proved
      /\ e2.stytched = "other" <=> e.stytched = "other"
      /\ conf' = conf /\ self' = self
  BY DEF Lasting, LoginType, Entry
<1>2. /\ e2.member = e.member /\ e2.mobiles = e.mobiles
      /\ e2.preferred = e.preferred /\ e2.policy = e.policy
  BY <1>1
<1>0. /\ AskedForMore(s) => AskedForMore(s)'
      /\ \A v : Regular(s, v) => Regular(s, v)'
  BY DEF AskedForMore, Regular
<1> HIDE DEF e, e2
<1>3. Able(s) \subseteq Able(s)'
  BY <1>1, <1>2 DEF Able, hasEnrollments, e, e2
<1>4. \A m : Exempt(Entry(s), m)' = Exempt(Entry(s), m)
  BY <1>1, <1>2 DEF Exempt, e, e2
<1>5. Policy(Entry(s))' = Policy(Entry(s))
  BY <1>1, <1>2 DEF Policy, e, e2
<1>6. MayRefuse(s) => MayRefuse(s)'
  <2> DEFINE none(r) == {m \in self.authenticators \ {None} : hasEnrollments(m, r)} = {}
  <2>1. getAvailMethodsUser(e, None) = {} => none(e2)
    BY <1>2, <1>1 DEF getAvailMethodsUser, hasEnrollments
  <2>2. none(e2) => getAvailMethodsUser(Entry(s), None)' = {}
    BY <1>1 DEF getAvailMethodsUser, e2
  <2>3. QED
    BY <1>0, <1>1, <2>1, <2>2 DEF MayRefuse, e, e2
<1>7. Earned(s) => Earned(s)'
  BY <1>1, <1>5 DEF Earned, e, e2
<1>8. ASSUME NEW m, Pending(s, m) PROVE Pending(s, m)'
  <2>1. SUFFICES ASSUME "trustedDevicesInfo" \in DOMAIN m, e2.mobiles < 2
                 PROVE  Vouched(Policy(Entry(s))' \cap Criteria, m.trustedDevicesInfo,
                           e2.proved \cup {<<session'[s].device, session'[s].city>>})
    BY <1>8 DEF Pending, e2
  <2>2. Vouched(Policy(Entry(s)) \cap Criteria, m.trustedDevicesInfo,
                e.proved \cup {<<session[s].device, session[s].city>>})
    BY <1>2, <1>8, <2>1 DEF Pending, e
  <2>3. QED
    BY <1>1, <1>5, <2>2 DEF Vouched
<1>11. ASSUME NEW m, Params(s, m) PROVE Params(s, m)'
  BY <1>0, <1>2, <1>8, <1>11 DEF Params, e, e2
<1>9. ASSUME NEW acr, NEW m, Noted(s, acr, m) PROVE Noted(s, acr, m)'
  <2>1. Ready(s, acr, m) => Ready(s, acr, m)'
    BY <1>2, <1>3, <1>4, <1>6 DEF Ready, e, e2
  <2>2. QED
    BY <1>0, <1>1, <1>3, <1>9, <2>1 DEF Noted
<1>10. QED
  BY <1>0, <1>2, <1>3, <1>4, <1>5, <1>6, <1>7, <1>8, <1>9, <1>11 DEF e, e2

\* A login that a step leaves alone, when the entries keep what they have.
LEMMA LoginKept ==
    ASSUME IInv, NEW t \in Session, session'[t] = session[t], Lasting
    PROVE  LoginInv(t)'
<1>1. LoginInv(t) /\ LoginType(t)'
  BY DEF IInv, LoginInv, LoginType
<1>2. /\ Able(t) \subseteq Able(t)'
      /\ \A v : Regular(t, v) => Regular(t, v)'
      /\ Entry(t)'.mobiles = Entry(t).mobiles
      /\ Entry(t)'.preferred = Entry(t).preferred
      /\ \A m : Exempt(Entry(t), m)' = Exempt(Entry(t), m)
      /\ MayRefuse(t) => MayRefuse(t)'
      /\ Earned(t) => Earned(t)'
      /\ \A m : Pending(t, m) => Pending(t, m)'
      /\ \A m : Params(t, m) => Params(t, m)'
      /\ \A acr, m : Noted(t, acr, m) => Noted(t, acr, m)'
  BY <1>1, Lasts DEF IInv, LoginInv
<1>3. /\ \A n : Attr(t, n)' = Attr(t, n) /\ OnPage(t, n)' = OnPage(t, n)
      /\ Well(t)' = Well(t) /\ Badly(t)' = Badly(t) /\ Switching(t)' = Switching(t)
      /\ Through(t)' = Through(t) /\ AskedForMore(t)' = AskedForMore(t)
  BY DEF Attr, OnPage, Well, Badly, Switching, Through, AskedForMore
<1>4. \A acr, m, step : Received(t, acr, m, step) => Received(t, acr, m, step)'
  BY <1>2 DEF Received
<1>5. \A m : Params(t, m) => Params(t, m)'
  BY <1>2 DEF Params
<1> HIDE DEF IInv
<1>6. NotesInv(t)'
  BY <1>1, <1>2, <1>3, <1>4, <1>5 DEF LoginInv, NotesInv
<1>7. PageInv(t)'
  BY <1>1, <1>2, <1>3 DEF LoginInv, PageInv
<1>8. WellInv(t)'
  BY <1>1, <1>2, <1>3, <1>4, <1>5 DEF LoginInv, WellInv
<1>9. Ends(t)'
  <2>1. Reason(t) => Reason(t)'
    BY <1>2, <1>3 DEF Reason
  <2>2. FactorOrEarned(t) => FactorOrEarned(t)'
    BY <1>2, <1>3 DEF FactorOrEarned, Acr
  <2>3. QED
    BY <1>1, <1>2, <1>3, <2>1, <2>2 DEF LoginInv, Ends
<1>10. QED
  BY <1>1, <1>6, <1>7, <1>8, <1>9 DEF LoginInv

\* A step of one login, then, keeps the invariant.
LEMMA OneForAll ==
    ASSUME IInv, NEW s \in Session, StepInv(s)
    PROVE  IInv'
<1>1. ASSUME NEW t \in Session PROVE LoginInv(t)'
  BY LoginKept DEF StepInv, Others
<1>2. QED
  BY <1>1 DEF StepInv, IInv

\* authenticate has refused the login, and it had a reason.
LEMMA RefusedStep ==
    ASSUME IInv, NEW s \in Session, session[s].stage = "page",
           NEW c, Refuse(s, c), DOMAIN c \subseteq {"user", "passed", "fault"},
           "user" \in DOMAIN c => c.user = session[s].who,
           "passed" \in DOMAIN c => session[s].passed \subseteq c.passed,
           "fault" \in DOMAIN c => c.fault = TRUE,
           "fault" \in DOMAIN c \/ MayRefuse(s),
           Lasting, EntriesInv'
    PROVE  StepInv(s)
<1>1. Replied(s, c, FALSE)
  BY RefuseEffect DEF Changeable, IInv
<1>2. /\ session'[s].who = session[s].who /\ session'[s].step = session[s].step
      /\ session'[s].tries = session[s].tries
      /\ session'[s].attrs = session[s].attrs /\ session'[s].work = session[s].attrs
      /\ session'[s].stage = "answered" /\ session'[s].reply = FALSE
      /\ session'[s].user = session[s].who \/ session'[s].user = session[s].user
      /\ session[s].passed \subseteq session'[s].passed
      /\ session[s].fault => session'[s].fault
      /\ session'[s].fault \/ MayRefuse(s)
  BY <1>1 DEF Replied, Same
<1>3. LoginType(s) /\ NotesInv(s) /\ EntriesInv /\ Shape' /\ Others(s)
  BY <1>1 DEF IInv, LoginInv, Replied
<1>4. /\ session'[s].device = session[s].device /\ session'[s].city = session[s].city
      /\ {"device", "city"} \subseteq DOMAIN session'[s]
  BY <1>3 DEF LoginType, Others, Fields
<1>5. LoginType(s)'
  BY <1>2, <1>3, <1>4 DEF LoginType, Stages
<1>6. /\ MayRefuse(s) => MayRefuse(s)'
      /\ Entry(s)'.mobiles = Entry(s).mobiles
      /\ \A m : Pending(s, m) => Pending(s, m)'
      /\ \A m : Params(s, m) => Params(s, m)'
      /\ \A acr, m : Noted(s, acr, m) => Noted(s, acr, m)'
  BY <1>2, <1>3, <1>4, Lasts
<1>7. NotesInv(s)'
  BY <1>2, <1>3, <1>6 DEF NotesInv, Attr
<1>8. PageInv(s)' /\ WellInv(s)'
  <2>1. ~Switching(s)'
    BY <1>2, <1>3 DEF Switching, NotesInv, Kept
  <2>2. QED
    BY <1>2, <2>1 DEF PageInv, WellInv, Well
<1>9. MayRefuse(s)'
  BY <1>2, <1>6 DEF MayRefuse
<1>10. Ends(s)'
  BY <1>2, <1>9 DEF Ends
<1>11. QED
  BY <1>3, <1>5, <1>7, <1>8, <1>10 DEF StepInv, LoginInv

\* authenticate has answered: it remains to see what the answer is worth.
LEMMA AnsweredStep ==
    ASSUME IInv, NEW s \in Session, session[s].stage = "page",
           NEW c, Answer(s, c),
           DOMAIN c \subseteq {"user", "passed", "work", "got", "fault"},
           "user" \in DOMAIN c => c.user = session[s].who,
           "passed" \in DOMAIN c => session[s].passed \subseteq c.passed,
           "fault" \in DOMAIN c => c.fault = TRUE,
           Lasting, EntriesInv', WellInv(s)'
    PROVE  StepInv(s)
<1>1. Replied(s, c, TRUE)
  BY AnswerEffect DEF Changeable, IInv
<1>2. /\ session'[s].who = session[s].who /\ session'[s].step = session[s].step
      /\ session'[s].tries = session[s].tries
      /\ session'[s].attrs = session[s].attrs
      /\ session'[s].stage = "answered" /\ session'[s].reply = TRUE
      /\ session'[s].user = session[s].who \/ session'[s].user = session[s].user
      /\ session[s].passed \subseteq session'[s].passed
      /\ session[s].fault => session'[s].fault
  BY <1>1 DEF Replied, Same
<1>3. LoginType(s) /\ NotesInv(s) /\ EntriesInv /\ Shape' /\ Others(s)
  BY <1>1 DEF IInv, LoginInv, Replied
<1>4. /\ session'[s].device = session[s].device /\ session'[s].city = session[s].city
      /\ {"device", "city"} \subseteq DOMAIN session'[s]
  BY <1>3 DEF LoginType, Others, Fields
<1>5. LoginType(s)'
  BY <1>2, <1>3, <1>4 DEF LoginType, Stages
<1>6. /\ Entry(s)'.mobiles = Entry(s).mobiles
      /\ \A m : Pending(s, m) => Pending(s, m)'
      /\ \A m : Params(s, m) => Params(s, m)'
      /\ \A acr, m : Noted(s, acr, m) => Noted(s, acr, m)'
  BY <1>2, <1>3, <1>4, Lasts
<1>7. NotesInv(s)'
  BY <1>2, <1>3, <1>6 DEF NotesInv, Attr
<1>8. PageInv(s)' /\ Ends(s)'
  BY <1>2 DEF PageInv, Ends, Badly
<1>9. QED
  BY <1>3, <1>5, <1>7, <1>8 DEF StepInv, LoginInv

-----------------------------------------------------------------------------
(* What the steps do to the entries. *)

\* Nothing.
LEMMA AloneKeeps ==
    ASSUME EntriesInv, Alone
    PROVE  Lasting /\ EntriesInv'
<1>1. script' = script /\ conf' = conf /\ self' = self /\ person' = person
  BY DEF Alone
<1>2. QED
  BY <1>1 DEF Lasting, EntriesInv, EntryInv, Policy

\* An entry gets new devices to trust, a place where a factor was passed, the number
\* Stytch knows, or a device that is enrolled.
LEMMA UpdateKeeps ==
    ASSUME EntriesInv, NEW s, LoginType(s), NEW c, Update(s, c),
           DOMAIN c \subseteq {"trusted", "proved", "stytched", "enrolled"},
           "trusted" \in DOMAIN c => Known(c.trusted),
           "proved" \in DOMAIN c => Entry(s).proved \subseteq c.proved,
           "stytched" \in DOMAIN c => c.stytched = "this" /\ Entry(s).stytched = "none",
           "enrolled" \in DOMAIN c => /\ Entry(s).enrolled \subseteq c.enrolled
                                      /\ getAvailMethodsUser(Entry(s), None) # {},
           Entry(s).mobiles < 2 =>
              Vouched(Policy(Entry(s)) \cap Criteria,
                      IF "trusted" \in DOMAIN c THEN c.trusted ELSE Entry(s).trusted,
                      IF "proved" \in DOMAIN c THEN c.proved ELSE Entry(s).proved)
    PROVE  Lasting /\ EntriesInv'
<1> DEFINE who == session[s].who
           e == person[who]
           e2 == c ++ e
<1>1. /\ who \in Person /\ EntryInv(e)
      /\ person' = [person EXCEPT ![who] = e2] /\ DOMAIN person = Person
      /\ script' = script /\ conf' = conf /\ self' = self
  BY DEF Update, LoginType, EntriesInv
<1>2. /\ DOMAIN e2 = EntryFields
      /\ \A f \in EntryFields : e2[f] = IF f \in DOMAIN c THEN c[f] ELSE e[f]
  BY <1>1 DEF EntryInv, ++, EntryFields
<1> HIDE DEF e2
<1>3. /\ e2.member = e.member /\ e2.mobiles = e.mobiles
      /\ e2.preferred = e.preferred /\ e2.policy = e.policy
      /\ e2.enrolled = IF "enrolled" \in DOMAIN c THEN c.enrolled ELSE e.enrolled
      /\ e2.trusted = IF "trusted" \in DOMAIN c THEN c.trusted ELSE e.trusted
      /\ e2.proved = IF "proved" \in DOMAIN c THEN c.proved ELSE e.proved
      /\ e2.stytched = IF "stytched" \in DOMAIN c THEN c.stytched ELSE e.stytched
  BY <1>2 DEF EntryFields
<1>4. e = Entry(s)
  BY DEF Entry
<1>5. EntryInv(e2)
  BY <1>1, <1>2, <1>3, <1>4 DEF EntryInv, Policy
<1>6. /\ DOMAIN person' = Person /\ person'[who] = e2
      /\ \A p \in Person \ {who} : person'[p] = person[p]
  BY <1>1
<1>7. Lasting
  <2>1. SUFFICES ASSUME NEW p \in Person
                 PROVE  /\ \A f \in {"member", "mobiles", "preferred", "policy"} :
                              person'[p][f] = person[p][f]
                        /\ person[p].enrolled \subseteq person'[p].enrolled
                        /\ getAvailMethodsUser(person[p], None) = {} =>
                              person'[p].enrolled = person[p].enrolled
                        /\ person[p].proved \subseteq person'[p].proved
                        /\ person'[p].stytched = "other" <=> person[p].stytched = "other"
    BY <1>1 DEF Lasting
  <2>2. CASE p = who
    BY <1>3, <1>4, <1>6, <2>2
  <2>3. CASE p # who
    BY <1>6, <2>3
  <2>4. QED
    BY <2>2, <2>3
<1>8. EntriesInv'
  <2>1. \A p \in Person : EntryInv(person'[p])
    BY <1>5, <1>6 DEF EntriesInv
  <2>2. \A p \in Person : EntryInv(person[p])'
    BY <1>1, <2>1 DEF EntryInv, Policy
  <2>3. QED
    BY <1>1, <1>6, <2>2 DEF EntriesInv
<1>9. QED
  BY <1>7, <1>8

\* What the policy decides: who is let off has earned it, and the devices to be
\* trusted are vouched for once this login has come through its factor.
LEMMA Decided ==
    ASSUME EntriesInv, NEW s, LoginType(s), NEW platform \in {session[s].device, None},
           NEW d \in determineSkip2FA(s, platform)
    PROVE  /\ d.skip \in BOOLEAN
           /\ d.skip => /\ Entry(s).mobiles < 2 => Earned(s)
                        /\ Known(d.info)
                        /\ Entry(s).mobiles < 2 =>
                              Vouched(Policy(Entry(s)) \cap Criteria, d.info,
                                      Entry(s).proved)
           /\ d.info # None =>
                 /\ Known(d.info)
                 /\ Entry(s).mobiles < 2 =>
                       Vouched(Policy(Entry(s)) \cap Criteria, d.info,
                          Entry(s).proved \cup {<<session[s].device, session[s].city>>})
<1> DEFINE e == Entry(s)
           crit == Policy(e) \cap Criteria
           dev == session[s].device
           place == <<session[s].device, session[s].city>>
<1> HIDE DEF e, crit, dev, place
<1>1. /\ EntryInv(e) /\ session[s].device = dev /\ dev \in Device
      /\ session[s].city \in City /\ session[s].city # None
      /\ place[1] = dev /\ place[2] = session[s].city
  BY DeviceAssumption DEF EntriesInv, LoginType, e, Entry, dev, place
<1>2. CASE d = [skip |-> FALSE, info |-> None]
  BY <1>2
<1>3. ASSUME "EVERY_LOGIN" \notin Policy(e), crit # {},
             NEW city \in getGeolocation(s), d = process2FAPolicy(e, crit, dev, city)
      PROVE  /\ d.skip \in BOOLEAN
             /\ d.skip => /\ e.mobiles < 2 => Earned(s)
                          /\ Known(d.info)
                          /\ e.mobiles < 2 => Vouched(crit, d.info, e.proved)
             /\ Known(d.info)
             /\ e.mobiles < 2 => Vouched(crit, d.info, e.proved \cup {place})
  <2> DEFINE t == e.trusted
             i == d.info
  <2>1. /\ d.skip = Match(t, crit, dev, city)
        /\ i = Single(dev, Origins(t, dev) \cup ({city} \ {None})) ++ t
    BY <1>3 DEF process2FAPolicy
  <2>2. Known(t) /\ (e.mobiles < 2 => Vouched(crit, t, e.proved))
    BY <1>1 DEF EntryInv, crit
  <2>3. city = session[s].city \/ city = None
    BY <1>3 DEF getGeolocation
  <2> HIDE DEF t, i
  <2>4. /\ DOMAIN i = DOMAIN t \cup {dev}
        /\ \A x \in DOMAIN t \ {dev} : i[x] = t[x]
        /\ i[dev] = Origins(t, dev) \cup ({city} \ {None})
    BY <2>1 DEF Single, ++
  <2>5. Known(i)
    BY <1>1, <2>2, <2>3, <2>4 DEF Known, Origins
  <2>6. \A x \in DOMAIN t : None \notin t[x]
    BY <2>2, DeviceAssumption DEF Known
  <2>7. crit \in {{"DEVICE_UNKNOWN"}, {"LOCATION_UNKNOWN"}, Criteria}
    BY <1>3 DEF crit, Criteria
  <2>8. {"DEVICE_UNKNOWN"} # {"LOCATION_UNKNOWN"} /\ Criteria # {"DEVICE_UNKNOWN"}
           /\ Criteria # {"LOCATION_UNKNOWN"}
    BY DEF Criteria
  <2>9. Match(t, crit, dev, city) \in BOOLEAN
    BY DEF Match
  <2>10. ASSUME d.skip, e.mobiles < 2
         PROVE  Earned(s) /\ Vouched(crit, i, e.proved)
    <3>1. CASE crit = {"DEVICE_UNKNOWN"}
      <4>1. dev \in DOMAIN t
        BY <2>1, <2>8, <2>10, <3>1 DEF Match
      <4>2. \A x \in DOMAIN t : \E pl \in e.proved : pl[1] = x
        BY <2>2, <2>10, <3>1 DEF Vouched
      <4>3. Earned(s)
        BY <1>1, <1>3, <3>1, <4>1, <4>2 DEF Earned, e, crit
      <4>4. Vouched(crit, i, e.proved)
        BY <2>4, <2>8, <3>1, <4>1, <4>2 DEF Vouched
      <4>5. QED
        BY <4>3, <4>4
    <3>2. CASE crit = {"LOCATION_UNKNOWN"}
      <4>1. PICK x \in DOMAIN t : city \in t[x]
        BY <2>1, <2>10, <3>2 DEF Match
      <4>2. city = session[s].city
        BY <2>3, <2>6, <4>1
      <4>3. \A y \in DOMAIN t : \A c \in t[y] : \E pl \in e.proved : pl[2] = c
        BY <2>2, <2>10, <3>2 DEF Vouched
      <4>4. Earned(s)
        BY <1>3, <3>2, <4>1, <4>2, <4>3 DEF Earned, e, crit
      <4>5. Vouched(crit, i, e.proved)
        BY <2>4, <2>8, <3>2, <4>1, <4>3 DEF Vouched, Origins
      <4>6. QED
        BY <4>4, <4>5
    <3>3. CASE crit = Criteria
      <4>1. dev \in DOMAIN t /\ city \in t[dev]
        BY <2>1, <2>8, <2>10, <3>3 DEF Match
      <4>2. city = session[s].city
        BY <2>3, <2>6, <4>1
      <4>3. \A y \in DOMAIN t : \A c \in t[y] :
               \E pl \in e.proved : pl[1] = y /\ pl[2] = c
        BY <2>2, <2>10, <3>3 DEF Vouched
      <4>4. Earned(s)
        BY <1>1, <1>3, <3>3, <4>1, <4>2, <4>3 DEF Earned, e, crit
      <4>5. Vouched(crit, i, e.proved)
        BY <2>4, <2>8, <3>3, <4>1, <4>3 DEF Vouched, Origins
      <4>6. QED
        BY <4>4, <4>5
    <3>4. QED
      BY <2>7, <3>1, <3>2, <3>3
  <2>11. ASSUME e.mobiles < 2 PROVE Vouched(crit, i, e.proved \cup {place})
    <3>1. Vouched(crit, t, e.proved)
      BY <2>2, <2>11
    <3>2. CASE crit = {"DEVICE_UNKNOWN"}
      BY <1>1, <2>4, <2>8, <3>1, <3>2 DEF Vouched
    <3>3. CASE crit = {"LOCATION_UNKNOWN"}
      BY <1>1, <2>3, <2>4, <2>8, <3>1, <3>3 DEF Vouched, Origins
    <3>4. CASE crit = Criteria
      BY <1>1, <2>3, <2>4, <2>8, <3>1, <3>4 DEF Vouched, Origins
    <3>5. QED
      BY <2>7, <3>2, <3>3, <3>4
  <2>12. QED
    BY <2>1, <2>5, <2>9, <2>10, <2>11 DEF i
<1>4. QED
  <2>1. CASE "EVERY_LOGIN" \in Policy(e) \/ crit = {} \/ platform = None
    BY <1>2, <2>1 DEF determineSkip2FA, e, crit
  <2>2. CASE ~("EVERY_LOGIN" \in Policy(e) \/ crit = {} \/ platform = None)
    <3>1. platform = dev
      BY <1>1, <2>2
    <3>2. PICK city \in getGeolocation(s) : d = process2FAPolicy(e, crit, dev, city)
      BY <2>2, <3>1 DEF determineSkip2FA, e, crit
    <3>3. QED
      BY <1>3, <2>2, <3>2 DEF e, crit, place
  <2>3. QED
    BY <2>1, <2>2

-----------------------------------------------------------------------------
(* What the plugins do in step 1. *)

\* The parameters that step 1 of a plugin sets.
FirstNames == {"randCode", "numbers", "phone_id", "otp_auth_method",
               "super_gluu_count_login_steps", "super_gluu_auth_method"}

\* Step 1 of a plugin of which the person has a factor leaves what the plugin will
\* look for, and fails for a reason only.
FirstReady(s, acr, o) ==
    /\ ~o.ok => "fault" \in DOMAIN o.changes \/ Entry(s).stytched = "other"
    /\ acr \in Texting =>
          /\ "randCode" \in DOMAIN o.work /\ o.work.randCode \in Nat
          /\ Entry(s).mobiles = 2 => "numbers" \in DOMAIN o.work
          /\ \/ Entry(s).mobiles = 2 \/ "fault" \in DOMAIN o.changes
             \/ "got" \in DOMAIN o.changes /\ o.changes.got = o.work.randCode
    /\ acr = "stytch" =>
          \/ "fault" \in DOMAIN o.changes \/ Entry(s).stytched = "other"
          \/ /\ "phone_id" \in DOMAIN o.work /\ o.work.phone_id \in Nat
             /\ "got" \in DOMAIN o.changes /\ o.changes.got = o.work.phone_id
    /\ acr = "otp" => "otp_auth_method" \in DOMAIN o.work
                          /\ o.work.otp_auth_method = "authenticate"
    /\ acr = "super_gluu" /\ ~Exempt(Entry(s), "super_gluu") =>
          "super_gluu_auth_method" \in DOMAIN o.work

\* What step 1 of any plugin does: to enroll a device with Super Gluu is for who asks
\* for it, or has none.
FirstMade(s, acr, o) ==
    /\ o.ok \in BOOLEAN
    /\ DOMAIN o.changes \subseteq {"got", "fault", "passed"}
    /\ "fault" \in DOMAIN o.changes => o.changes.fault = TRUE
    /\ "passed" \in DOMAIN o.changes =>
          o.changes.passed = session[s].passed \cup {"unoffered"}
    /\ ~o.ok => DOMAIN o.changes \subseteq {"fault"}
    /\ DOMAIN o.work \subseteq FirstNames
    /\ "numbers" \in DOMAIN o.work => o.work.numbers = "several" /\ Entry(s).mobiles = 2
    /\ \/ o.entry = <<>>
       \/ o.entry = [stytched |-> "this"] /\ Entry(s).stytched = "none"
    /\ "super_gluu_auth_method" \in DOMAIN o.work =>
          /\ o.work.super_gluu_auth_method \in {"authenticate", "enroll"}
          /\ o.work.super_gluu_auth_method = "enroll" =>
                "passed" \in DOMAIN o.changes \/ acr \notin Able(s)
    /\ "super_gluu_count_login_steps" \in DOMAIN o.work =>
          /\ o.work.super_gluu_count_login_steps \in {1, 2}
          /\ o.work.super_gluu_count_login_steps = 1 => Exempt(Entry(s), "super_gluu")
    /\ acr \in Able(s) => FirstReady(s, acr, o)

\* What a plugin does in step 1 is of this kind, by the code of each.
LEMMA FirstOutcome ==
    ASSUME EntriesInv, NEW s, LoginType(s), NEW acr \in self.authenticators,
           NEW o \in First(s, acr)
    PROVE  FirstMade(s, acr, o)
<1> DEFINE e == Entry(s)
           code == session[s].tries + 1
<1>1. /\ acr \in Methods /\ EntryInv(e) /\ code \in Nat
      /\ acr \in Able(s) <=> hasEnrollments(acr, e)
      /\ e.mobiles \in 0..2 /\ e.stytched \in {"none", "this", "other"}
  <2>1. /\ session[s].who \in Person /\ e = person[session[s].who]
        /\ session[s].tries \in 0..(MaxTries - 1) /\ MaxTries \in Nat
    BY SessionAssumption DEF LoginType, Entry
  <2>2. code \in Nat
    BY <2>1
  <2>3. acr \in Able(s) <=> hasEnrollments(acr, e)
    BY DEF Able
  <2> HIDE DEF e, code
  <2>4. QED
    BY <2>1, <2>2, <2>3 DEF EntriesInv, EntryInv
<1> HIDE DEF e, code
<1>0. ASSUME o = Just(FALSE), acr \notin Able(s) PROVE FirstMade(s, acr, o)
  <2>1. o.ok = FALSE /\ DOMAIN o.work = {} /\ DOMAIN o.changes = {} /\ o.entry = <<>>
    BY <1>0 DEF Just, Outcome
  <2>2. QED
    BY <1>0, <2>1 DEF FirstMade
<1>2. CASE acr \in Texting
  <2>1. e.mobiles = 0 => acr \notin Able(s)
    BY <1>1, <1>2 DEF hasEnrollments
  <2>2. o \in TextFirst(s, acr) /\ acr \notin {"stytch", "otp", "super_gluu"}
    BY <1>2 DEF First, Texting
  <2>3. CASE e.mobiles = 1
    <3>1. o \in sendMessage(acr, code, [randCode |-> code])
      BY <2>2, <2>3 DEF TextFirst, e, code
    <3>2. /\ o.ok \in BOOLEAN /\ o.work = [randCode |-> code] /\ o.entry = <<>>
          /\ o.changes = Sent(code) \/ o.changes = Fault
          /\ ~o.ok => o.changes = Fault
      <4>1. \/ o = Outcome(TRUE, [randCode |-> code], Sent(code), <<>>)
            \/ o = Outcome(acr = "twilio_sms", [randCode |-> code], Fault, <<>>)
        BY <3>1 DEF sendMessage
      <4>2. CASE o = Outcome(TRUE, [randCode |-> code], Sent(code), <<>>)
        BY <4>2 DEF Outcome
      <4>3. CASE o = Outcome(acr = "twilio_sms", [randCode |-> code], Fault, <<>>)
        BY <4>3 DEF Outcome
      <4>4. QED
        BY <4>1, <4>2, <4>3
    <3>3. QED
      BY <1>1, <2>2, <2>3, <3>2 DEF FirstMade, FirstReady, FirstNames, Sent, Fault, e
  <2>4. CASE e.mobiles = 2
    <3>1. o = Outcome(TRUE, [numbers |-> "several"] ++ [randCode |-> code], <<>>, <<>>)
      BY <2>2, <2>4 DEF TextFirst, e, code
    <3>2. /\ o.ok = TRUE /\ DOMAIN o.changes = {} /\ o.entry = <<>>
          /\ DOMAIN o.work = {"numbers", "randCode"}
          /\ o.work.numbers = "several" /\ o.work.randCode = code
      BY <3>1 DEF Outcome, ++
    <3>3. QED
      BY <1>1, <2>2, <2>4, <3>2 DEF FirstMade, FirstReady, FirstNames, e
  <2>5. CASE e.mobiles = 0
    <3>1. o = Just(FALSE)
      BY <2>2, <2>5 DEF TextFirst, e, code
    <3>2. QED
      BY <1>0, <2>1, <2>5, <3>1
  <2>6. QED
    BY <1>1, <2>3, <2>4, <2>5
<1>3. CASE acr = "stytch"
  <2>1. e.mobiles = 0 => acr \notin Able(s)
    BY <1>1, <1>3 DEF hasEnrollments
  <2>0. e.mobiles # 0 => e.mobiles > 0
    BY <1>1
  <2>2. o \in StytchFirst(s) /\ acr \notin Texting
    BY <1>3 DEF First, Texting
  <2>3. CASE e.stytched = "other"
    <3>1. o = Just(FALSE)
      BY <2>2, <2>3 DEF StytchFirst, e, code
    <3>2. o.ok = FALSE /\ DOMAIN o.work = {} /\ DOMAIN o.changes = {} /\ o.entry = <<>>
      BY <3>1 DEF Just, Outcome
    <3>3. QED
      BY <1>3, <2>2, <2>3, <3>2 DEF FirstMade, FirstReady, e
  <2>4. CASE e.mobiles # 0 /\ e.stytched = "this"
    <3>1. o \in sendPasscodeSMSToUser(code)
      BY <2>0, <2>2, <2>4 DEF StytchFirst, e, code
    <3>2. /\ o.ok \in BOOLEAN /\ o.work = [phone_id |-> code] /\ o.entry = <<>>
          /\ o.changes = Sent(code) \/ o.changes = Fault
          /\ ~o.ok => o.changes = Fault
      <4>1. \/ o = Outcome(TRUE, [phone_id |-> code], Sent(code), <<>>)
            \/ o = Outcome(FALSE, [phone_id |-> code], Fault, <<>>)
        BY <3>1 DEF sendPasscodeSMSToUser
      <4>2. CASE o = Outcome(TRUE, [phone_id |-> code], Sent(code), <<>>)
        BY <4>2 DEF Outcome
      <4>3. CASE o = Outcome(FALSE, [phone_id |-> code], Fault, <<>>)
        BY <4>3 DEF Outcome
      <4>4. QED
        BY <4>1, <4>2, <4>3
    <3>3. QED
      BY <1>1, <1>3, <2>2, <3>2 DEF FirstMade, FirstReady, FirstNames, Sent, Fault
  <2>5. CASE e.mobiles # 0 /\ e.stytched = "none"
    <3>1. \/ o = Outcome(TRUE, [phone_id |-> code], Sent(code), [stytched |-> "this"])
          \/ o = Outcome(TRUE, <<>>, Fault, <<>>)
      BY <2>0, <2>2, <2>5 DEF StytchFirst, addUser, e, code
    <3>2. CASE o = Outcome(TRUE, [phone_id |-> code], Sent(code), [stytched |-> "this"])
      <4>1. /\ o.ok = TRUE /\ o.entry = [stytched |-> "this"]
            /\ DOMAIN o.work = {"phone_id"} /\ o.work.phone_id = code
            /\ DOMAIN o.changes = {"got"} /\ o.changes.got = code
        BY <3>2 DEF Outcome, Sent
      <4>2. QED
        BY <1>1, <1>3, <2>2, <2>5, <4>1 DEF FirstMade, FirstReady, FirstNames, e
    <3>3. CASE o = Outcome(TRUE, <<>>, Fault, <<>>)
      <4>1. /\ o.ok = TRUE /\ o.entry = <<>> /\ DOMAIN o.work = {}
            /\ DOMAIN o.changes = {"fault"} /\ o.changes.fault = TRUE
        BY <3>3 DEF Outcome, Fault
      <4>2. QED
        BY <1>3, <2>2, <4>1 DEF FirstMade, FirstReady
    <3>4. QED
      BY <3>1, <3>2, <3>3
  <2>6. CASE e.mobiles = 0
    <3>1. o = Just(FALSE)
      BY <2>2, <2>6 DEF StytchFirst, e, code
    <3>2. QED
      BY <1>0, <2>1, <2>6, <3>1
  <2>7. QED
    BY <1>1, <2>3, <2>4, <2>5, <2>6
<1>4. CASE acr = "otp"
  <2>1. o \in OtpFirst(s) /\ acr \notin Texting
    BY <1>4 DEF First, Texting
  <2>2. CASE hasEnrollments("otp", e)
    <3>1. o = Outcome(TRUE, [otp_auth_method |-> "authenticate"], <<>>, <<>>)
      BY <2>1, <2>2 DEF OtpFirst, e
    <3>2. /\ o.ok = TRUE /\ o.work = [otp_auth_method |-> "authenticate"]
          /\ DOMAIN o.changes = {} /\ o.entry = <<>>
      BY <3>1 DEF Outcome
    <3>3. DOMAIN o.work = {"otp_auth_method"} /\ o.work.otp_auth_method = "authenticate"
      BY <3>2
    <3>4. QED
      BY <1>4, <2>1, <3>2, <3>3 DEF FirstMade, FirstReady, FirstNames
  <2>3. CASE ~hasEnrollments("otp", e)
    <3>1. o = Just(FALSE)
      BY <2>1, <2>3 DEF OtpFirst, e
    <3>2. QED
      BY <1>0, <1>1, <1>4, <2>3, <3>1
  <2>4. QED
    BY <2>2, <2>3
<1>5. CASE acr = "super_gluu"
  <2>1. o \in SuperGluuFirst(s) /\ acr \notin Texting
    BY <1>5 DEF First, Texting
  <2> DEFINE counted == IF "super_gluu" \in conf.grouped
                        THEN [super_gluu_count_login_steps |->
                                 IF e.member THEN 2 ELSE 1]
                        ELSE <<>>
             method(v) == IF Exempt(e, "super_gluu") THEN <<>>
                          ELSE [super_gluu_auth_method |-> v]
             usual == IF hasEnrollments("super_gluu", e)
                      THEN "authenticate" ELSE "enroll"
  <2>2. PICK v, c : /\ o = Outcome(TRUE, counted ++ method(v), c, <<>>)
                    /\ \/ v = "enroll" /\ c = Unoffered(s)
                       \/ v = usual /\ c = <<>>
    BY <2>1 DEF SuperGluuFirst, e
  <2>3. /\ DOMAIN counted \subseteq {"super_gluu_count_login_steps"}
        /\ "super_gluu_count_login_steps" \in DOMAIN counted =>
              /\ counted.super_gluu_count_login_steps \in {1, 2}
              /\ counted.super_gluu_count_login_steps = 1 => Exempt(e, "super_gluu")
    BY DEF Exempt
  <2>4. /\ DOMAIN method(v) \subseteq {"super_gluu_auth_method"}
        /\ "super_gluu_auth_method" \in DOMAIN method(v) =>
              method(v).super_gluu_auth_method = v
        /\ ~Exempt(e, "super_gluu") => "super_gluu_auth_method" \in DOMAIN method(v)
    OBVIOUS
  <2>5. v \in {"authenticate", "enroll"}
    BY <2>2
  <2>6. /\ DOMAIN c \subseteq {"passed"}
        /\ "passed" \in DOMAIN c => c.passed = session[s].passed \cup {"unoffered"}
        /\ v = "enroll" => "passed" \in DOMAIN c \/ acr \notin Able(s)
    <3>1. CASE v = "enroll" /\ c = Unoffered(s)
      BY <3>1 DEF Unoffered, Passing
    <3>2. CASE v = usual /\ c = <<>>
      <4>1. DOMAIN c = {}
        BY <3>2
      <4>2. v = "enroll" => ~hasEnrollments("super_gluu", e)
        BY <3>2
      <4>3. QED
        BY <1>1, <1>5, <4>1, <4>2
    <3>3. QED
      BY <2>2, <3>1, <3>2
  <2> DEFINE meth == method(v)
  <2>7. /\ o.ok = TRUE /\ o.work = counted ++ meth
        /\ o.changes = c /\ o.entry = <<>>
    BY <2>2 DEF Outcome
  <2> HIDE DEF counted, meth, method, usual
  <2>8. /\ DOMAIN o.work = DOMAIN counted \cup DOMAIN meth
        /\ "super_gluu_count_login_steps" \in DOMAIN counted =>
              o.work.super_gluu_count_login_steps = counted.super_gluu_count_login_steps
        /\ "super_gluu_auth_method" \in DOMAIN meth => o.work.super_gluu_auth_method = v
    BY <2>3, <2>4, <2>7 DEF ++, meth
  <2>9. FirstReady(s, acr, o)
    BY <1>5, <2>1, <2>4, <2>7, <2>8 DEF FirstReady, e, meth
  <2>10. /\ DOMAIN o.work \subseteq {"super_gluu_count_login_steps",
                                      "super_gluu_auth_method"}
         /\ "super_gluu_auth_method" \in DOMAIN o.work => o.work.super_gluu_auth_method = v
         /\ "super_gluu_count_login_steps" \in DOMAIN o.work =>
               /\ o.work.super_gluu_count_login_steps \in {1, 2}
               /\ o.work.super_gluu_count_login_steps = 1 => Exempt(e, "super_gluu")
    BY <2>3, <2>4, <2>8 DEF meth
  <2>11. QED
    BY <2>5, <2>6, <2>7, <2>9, <2>10 DEF FirstMade, FirstNames, e
<1>6. CASE acr \in {"u2f", "fido2", "duo"}
  <2>1. o = Just(TRUE) /\ acr \notin Texting
    BY <1>6 DEF First, Texting
  <2>2. o.ok = TRUE /\ DOMAIN o.work = {} /\ DOMAIN o.changes = {} /\ o.entry = <<>>
    BY <2>1 DEF Just, Outcome
  <2>3. QED
    BY <1>6, <2>1, <2>2 DEF FirstMade, FirstReady
<1>7. QED
  BY <1>1, <1>2, <1>3, <1>4, <1>5, <1>6 DEF Methods, Texting

\* ... and of a method of which no module is loaded.
LEMMA LoadedOutcome ==
    ASSUME EntriesInv, NEW s, LoginType(s), NEW acr \in self.authenticators \cup {"other"},
           NEW o \in OfLoaded(acr, First(s, acr))
    PROVE  FirstMade(s, acr, o)
<1>1. CASE acr \in self.authenticators
  BY <1>1, FirstOutcome DEF OfLoaded
<1>2. CASE acr \notin self.authenticators
  <2>1. o = Just(FALSE) /\ acr \notin Able(s)
    BY <1>2 DEF OfLoaded, Able
  <2>2. o.ok = FALSE /\ DOMAIN o.work = {} /\ DOMAIN o.changes = {} /\ o.entry = <<>>
    BY <2>1 DEF Just, Outcome
  <2>3. QED
    BY <2>1, <2>2 DEF FirstMade
<1>3. QED
  BY <1>1, <1>2

\* What step 1 of a plugin noted is there after the step that called it.
LEMMA FirstNoted ==
    ASSUME EntriesInv, Lasting, NEW s, LoginType(s),
           NEW acr \in self.authenticators \cup {"other"}, NEW o,
           FirstMade(s, acr, o), Able(s) # {},
           acr \notin Able(s) => AskedForMore(s)',
           NEW m, DOMAIN o.work \subseteq DOMAIN m,
           \A n \in DOMAIN o.work : m[n] = o.work[n],
           "numbers" \in DOMAIN m => Entry(s).mobiles = 2,
           session'[s].who = session[s].who, session'[s].device = session[s].device,
           session'[s].city = session[s].city, session[s].fault => session'[s].fault,
           session[s].passed \subseteq session'[s].passed,
           "fault" \in DOMAIN o.changes => session'[s].fault,
           "got" \in DOMAIN o.changes => session'[s].got = o.changes.got
    PROVE  Noted(s, acr, m)' /\ Received(s, acr, m, 2)'
<1>1. /\ Entry(s)'.mobiles = Entry(s).mobiles
      /\ MayRefuse(s) => MayRefuse(s)'
      /\ Able(s) \subseteq Able(s)'
      /\ \A x : Exempt(Entry(s), x)' = Exempt(Entry(s), x)
      /\ self' = self
  BY Lasts DEF Lasting
<1>2. CASE AskedForMore(s)'
  BY <1>1, <1>2 DEF Noted, Received, MayRefuse
<1>3. CASE ~AskedForMore(s)'
  <2>1. acr \in Able(s) /\ FirstReady(s, acr, o)
    BY <1>3 DEF FirstMade
  <2>2. MayRefuse(s)' \/ ~("fault" \in DOMAIN o.changes \/ Entry(s).stytched = "other")
    BY <1>1 DEF MayRefuse
  <2>3. acr \in Texting => /\ "randCode" \in DOMAIN m /\ m.randCode = o.work.randCode
                           /\ m.randCode \in Nat
                           /\ "numbers" \in DOMAIN m <=> Entry(s).mobiles = 2
    BY <2>1 DEF FirstReady
  <2>4. acr = "stytch" /\ ~MayRefuse(s)' =>
           "phone_id" \in DOMAIN m /\ m.phone_id = o.work.phone_id /\ m.phone_id \in Nat
    BY <2>1, <2>2 DEF FirstReady
  <2>5. acr = "otp" => Value(m, "otp_auth_method") = "authenticate"
    BY <2>1 DEF FirstReady, Value
  <2>6. acr = "super_gluu" /\ ~Exempt(Entry(s), "super_gluu") =>
            Value(m, "super_gluu_auth_method") \in {"authenticate", "enroll"}
    BY <2>1 DEF FirstReady, FirstMade, Value
  <2>7. Noted(s, acr, m)'
    BY <1>1, <2>1, <2>3, <2>4, <2>5, <2>6 DEF Noted, Ready
  <2>8. Received(s, acr, m, 2)'
    BY <1>1, <2>1, <2>2, <2>3, <2>4 DEF Received, FirstReady
  <2>9. QED
    BY <2>7, <2>8
<1>4. QED
  BY <1>2, <1>3

-----------------------------------------------------------------------------
(* The steps of a login. *)

\* The person that logs in has an entry, and the fields of a login that a step
\* does not set stay.
LEMMA AnswerKeeps ==
    ASSUME IInv, NEW s \in Session, NEW c, NEW reply, Replied(s, c, reply),
           "fault" \in DOMAIN c => c.fault = TRUE
    PROVE  /\ LoginType(s)
           /\ session'[s].who = session[s].who /\ session'[s].step = session[s].step
           /\ session'[s].tries = session[s].tries
           /\ session'[s].device = session[s].device /\ session'[s].city = session[s].city
           /\ session'[s].stage = "answered" /\ session'[s].reply = reply
           /\ session'[s].attrs = IF "attrs" \in DOMAIN c
                                  THEN c.attrs ELSE session[s].attrs
           /\ session'[s].work = IF "work" \in DOMAIN c THEN c.work ELSE session[s].attrs
           /\ session'[s].passed = IF "passed" \in DOMAIN c THEN c.passed
                                   ELSE session[s].passed
           /\ session'[s].got = IF "got" \in DOMAIN c THEN c.got ELSE session[s].got
           /\ session'[s].fault = IF "fault" \in DOMAIN c THEN TRUE ELSE session[s].fault
<1>1. LoginType(s) /\ Others(s)
  BY DEF IInv, LoginInv, Replied
<1>2. session'[s].device = session[s].device /\ session'[s].city = session[s].city
  BY <1>1 DEF LoginType, Others, Fields
<1>3. QED
  BY <1>1, <1>2 DEF Replied, Same

\* authenticate of Casa, step 1, for who prefers no method: a password is enough.
LEMMA PasswordOnlyStep ==
    ASSUME IInv, NEW s \in Session, PasswordOnly(s)
    PROVE  StepInv(s)
<1>1. /\ session[s].stage = "page" /\ session[s].step = 1 /\ Entry(s).preferred = None
      /\ Lasting /\ EntriesInv'
  BY AloneKeeps DEF PasswordOnly, At, IInv
<1>2. CASE Refuse(s, Fault)
  <2>1. DOMAIN Fault = {"fault"} /\ Fault.fault = TRUE
    BY DEF Fault
  <2>2. QED
    BY <1>1, <1>2, <2>1, RefusedStep
<1>3. CASE Answer(s, LoggedIn(s) ++ Setting(s, [skip2FA |-> TRUE]))
  <2> DEFINE c == LoggedIn(s) ++ Setting(s, [skip2FA |-> TRUE])
  <2>1. /\ DOMAIN c = {"user", "passed", "work"} /\ c.user = session[s].who
        /\ c.passed = session[s].passed \cup {"password"}
        /\ c.work = [skip2FA |-> TRUE] ++ session[s].attrs
    BY DEF LoggedIn, Setting, Passing, ++
  <2>2. Answer(s, c)
    BY <1>3
  <2> HIDE DEF c
  <2>3. Replied(s, c, TRUE)
    BY <2>1, <2>2, AnswerEffect DEF IInv, Changeable
  <2>4. /\ LoginType(s) /\ session'[s].who = session[s].who
        /\ session'[s].device = session[s].device /\ session'[s].city = session[s].city
        /\ session'[s].step = 1 /\ session'[s].passed = c.passed
        /\ session'[s].work = c.work /\ session'[s].fault = session[s].fault
    <3>1. "fault" \notin DOMAIN c /\ "passed" \in DOMAIN c /\ "work" \in DOMAIN c
      BY <2>1
    <3>2. /\ LoginType(s) /\ session'[s].who = session[s].who
          /\ session'[s].device = session[s].device /\ session'[s].city = session[s].city
          /\ session'[s].step = session[s].step
          /\ session'[s].passed = IF "passed" \in DOMAIN c THEN c.passed
                                  ELSE session[s].passed
          /\ session'[s].work = IF "work" \in DOMAIN c THEN c.work ELSE session[s].attrs
          /\ session'[s].fault = IF "fault" \in DOMAIN c THEN TRUE ELSE session[s].fault
      BY <2>3, <3>1, AnswerKeeps
    <3>3. QED
      BY <1>1, <3>1, <3>2
  <2>5. DOMAIN session[s].attrs = {}
    BY <1>1 DEF IInv, LoginInv, NotesInv
  <2>6. DOMAIN c.work = {"skip2FA"} /\ c.work.skip2FA = TRUE
    BY <2>1, <2>5 DEF ++
  <2>7. Entry(s)'.preferred = None
    BY <1>1, <2>1, <2>4, Lasts DEF IInv
  <2>8. WellInv(s)'
    <3>1. DOMAIN session'[s].work = {"skip2FA"} /\ OnPage(s, "skip2FA")' = TRUE
      BY <2>4, <2>6 DEF OnPage, Value
    <3>2. Params(s, session[s].work)' /\ ~Switching(s)'
      BY <3>1 DEF Params, Pending, Switching, Regular, Value
    <3>3. "password" \in session'[s].passed
      BY <2>1, <2>4
    <3>4. QED
      BY <2>4, <2>7, <3>1, <3>2, <3>3 DEF WellInv
  <2>9. QED
    BY <1>1, <2>1, <2>2, <2>8, AnsweredStep
<1>4. QED
  BY <1>2, <1>3 DEF PasswordOnly

\* ... for a wrong password, and for a person of whose methods no plugin is loaded.
LEMMA WrongPasswordStep ==
    ASSUME IInv, NEW s \in Session, WrongPassword(s)
    PROVE  StepInv(s)
<1>1. session[s].stage = "page" /\ Lasting /\ EntriesInv' /\ Refuse(s, Fault)
  BY AloneKeeps DEF WrongPassword, At, IInv
<1>2. DOMAIN Fault = {"fault"} /\ Fault.fault = TRUE
  BY DEF Fault
<1>3. QED
  BY <1>1, <1>2, RefusedStep

\* The methods among which one is chosen are ones of the person, and there is none
\* only if the person has none.
LEMMA Suitable ==
    ASSUME EntriesInv, NEW s, NEW platform
    PROVE  /\ getSuitableAcr(Entry(s), platform) \subseteq Able(s)
           /\ getSuitableAcr(Entry(s), platform) = {} =>
                 getAvailMethodsUser(Entry(s), None) = {}
<1>1. None \notin self.authenticators
  BY DeviceAssumption DEF EntriesInv
<1>2. getAvailMethodsUser(Entry(s), None) = Able(s)
  BY <1>1 DEF getAvailMethodsUser, Able
<1>3. QED
  BY <1>2 DEF getSuitableAcr

\* No method suits, so the person has none: a reason to refuse.
LEMMA NoMethodStep ==
    ASSUME IInv, NEW s \in Session, NEW platform, NoMethod(s, platform)
    PROVE  StepInv(s)
<1>1. session[s].stage = "page" /\ Lasting /\ EntriesInv' /\ Refuse(s, <<>>)
  BY AloneKeeps DEF NoMethod, At, IInv
<1>2. MayRefuse(s)
  BY Suitable DEF NoMethod, MayRefuse, IInv
<1>3. DOMAIN <<>> = {}
  OBVIOUS
<1>4. QED
  BY <1>1, <1>2, <1>3, RefusedStep

\* What step 1 of a plugin writes in the entry, alone or with devices to trust.
LEMMA FirstEntry ==
    ASSUME EntriesInv, NEW s, LoginType(s), NEW acr, NEW o, FirstMade(s, acr, o),
           NEW kept, DOMAIN kept \subseteq {"trusted"},
           "trusted" \in DOMAIN kept =>
              /\ Known(kept.trusted)
              /\ Entry(s).mobiles < 2 => Vouched(Policy(Entry(s)) \cap Criteria,
                                                 kept.trusted, Entry(s).proved),
           Update(s, kept ++ o.entry)
    PROVE  Lasting /\ EntriesInv'
<1> DEFINE c == kept ++ o.entry
<1>1. DOMAIN o.entry \subseteq {"stytched"}
  BY DEF FirstMade
<1>2. /\ DOMAIN c \subseteq {"trusted", "stytched"}
      /\ "trusted" \in DOMAIN c => "trusted" \in DOMAIN kept /\ c.trusted = kept.trusted
      /\ "stytched" \in DOMAIN c =>
            "stytched" \in DOMAIN o.entry /\ c.stytched = o.entry.stytched
  BY <1>1 DEF ++
<1>3. "stytched" \in DOMAIN c => c.stytched = "this" /\ Entry(s).stytched = "none"
  BY <1>2 DEF FirstMade
<1>4. Update(s, c)
  OBVIOUS
<1> HIDE DEF c
<1>5. Entry(s).mobiles < 2 =>
         Vouched(Policy(Entry(s)) \cap Criteria, Entry(s).trusted, Entry(s).proved)
  BY DEF EntriesInv, EntryInv, LoginType, Entry
<1>6. QED
  BY <1>2, <1>3, <1>4, <1>5, UpdateKeeps

\* An update with the outcome of step 1 only.
LEMMA FirstEntryOnly ==
    ASSUME EntriesInv, NEW s, LoginType(s), NEW acr, NEW o, FirstMade(s, acr, o),
           Update(s, o.entry)
    PROVE  Lasting /\ EntriesInv'
<1>1. /\ DOMAIN o.entry \subseteq {"stytched"}
      /\ "stytched" \in DOMAIN o.entry =>
            o.entry.stytched = "this" /\ Entry(s).stytched = "none"
  BY DEF FirstMade
<1>2. Entry(s).mobiles < 2 =>
         Vouched(Policy(Entry(s)) \cap Criteria, Entry(s).trusted, Entry(s).proved)
  BY DEF EntriesInv, EntryInv, LoginType, Entry
<1>3. QED
  BY <1>1, <1>2, UpdateKeeps

\* The plugin failed in step 1: something went wrong with the login.
LEMMA FirstFailedStep ==
    ASSUME IInv, NEW s \in Session, session[s].stage = "page", NEW acr \in Able(s),
           NEW o \in First(s, acr), FirstFailed(s, acr, o)
    PROVE  StepInv(s)
<1>1. EntriesInv /\ LoginType(s) /\ FirstMade(s, acr, o)
  BY FirstOutcome DEF IInv, LoginInv, Able
<1>2. Lasting /\ EntriesInv'
  BY <1>1, FirstEntryOnly DEF FirstFailed
<1> DEFINE c == o.changes ++ LoggedIn(s)
<1>3. /\ DOMAIN c = DOMAIN o.changes \cup {"user", "passed"}
      /\ DOMAIN o.changes \subseteq {"fault"}
      /\ c.user = session[s].who /\ c.passed = session[s].passed \cup {"password"}
      /\ "fault" \in DOMAIN c => c.fault = TRUE
      /\ "fault" \in DOMAIN c \/ Entry(s).stytched = "other"
  <2>1. /\ DOMAIN o.changes \subseteq {"fault"}
        /\ "fault" \in DOMAIN o.changes => o.changes.fault = TRUE
        /\ "fault" \in DOMAIN o.changes \/ Entry(s).stytched = "other"
    BY <1>1 DEF FirstMade, FirstReady, FirstFailed
  <2>2. /\ DOMAIN LoggedIn(s) = {"user", "passed"}
        /\ LoggedIn(s).user = session[s].who
        /\ LoggedIn(s).passed = session[s].passed \cup {"password"}
    BY DEF LoggedIn, Passing, ++
  <2>3. QED
    BY <2>1, <2>2 DEF ++
<1>4. Refuse(s, c)
  BY DEF FirstFailed
<1> HIDE DEF c
<1>5. QED
  BY <1>2, <1>3, <1>4, RefusedStep DEF MayRefuse

\* Step 1 went well: the plugin is ready for step 2, or the person is let off.
LEMMA FirstPassedStep ==
    ASSUME IInv, NEW s \in Session, At(s, "page", 1),
           NEW platform \in {session[s].device, None}, NEW acr \in Able(s),
           NEW o \in First(s, acr), FirstPassed(s, acr, o, platform)
    PROVE  StepInv(s)
<1>1. EntriesInv /\ LoginType(s) /\ FirstMade(s, acr, o) /\ NotesInv(s)
      /\ session[s].stage = "page" /\ session[s].step = 1
      /\ DOMAIN session[s].attrs = {}
  BY FirstOutcome DEF IInv, LoginInv, NotesInv, At, Able
<1> DEFINE noted(d) == IF d.info = None THEN <<>> ELSE [trustedDevicesInfo |-> d.info]
           kept(d) == IF d.skip THEN [trusted |-> d.info] ELSE <<>>
           w(d) == [skip2FA |-> d.skip, ACR |-> acr] ++ noted(d) ++ o.work
<1>2. PICK d \in determineSkip2FA(s, platform) :
         /\ Answer(s, Marked(s, o, {"password"}) ++ LoggedIn(s) ++ Setting(s, w(d)))
         /\ Update(s, kept(d) ++ o.entry)
  BY DEF FirstPassed
<1>3. /\ d.skip \in BOOLEAN
      /\ d.skip => /\ Entry(s).mobiles < 2 => Earned(s)
                   /\ Known(d.info)
                   /\ Entry(s).mobiles < 2 =>
                         Vouched(Policy(Entry(s)) \cap Criteria, d.info, Entry(s).proved)
      /\ d.info # None =>
            /\ Known(d.info)
            /\ Entry(s).mobiles < 2 =>
                  Vouched(Policy(Entry(s)) \cap Criteria, d.info,
                     Entry(s).proved \cup {<<session[s].device, session[s].city>>})
  BY <1>1, Decided
<1>4. Lasting /\ EntriesInv'
  <2> DEFINE k == kept(d)
  <2>1. /\ DOMAIN k \subseteq {"trusted"}
        /\ "trusted" \in DOMAIN k => d.skip /\ k.trusted = d.info
    BY <1>3
  <2>2. Update(s, k ++ o.entry)
    BY <1>2
  <2> HIDE DEF k
  <2>3. QED
    BY <1>1, <1>3, <2>1, <2>2, FirstEntry
<1> DEFINE v == w(d)
           mark == Marked(s, o, {"password"})
           c == mark ++ LoggedIn(s) ++ Setting(s, v)
<1>5. Answer(s, c)
  BY <1>2
<1>6. /\ DOMAIN v \subseteq {"skip2FA", "ACR", "trustedDevicesInfo"} \cup DOMAIN o.work
      /\ DOMAIN o.work \subseteq DOMAIN v
      /\ {"skip2FA", "ACR"} \subseteq DOMAIN v
      /\ v.skip2FA = d.skip /\ v.ACR = acr
      /\ "trustedDevicesInfo" \in DOMAIN v =>
            d.info # None /\ v.trustedDevicesInfo = d.info
      /\ \A n \in DOMAIN o.work : v[n] = o.work[n]
  <2> DEFINE n1 == noted(d)
             a == [skip2FA |-> d.skip, ACR |-> acr]
  <2>1. /\ DOMAIN n1 \subseteq {"trustedDevicesInfo"}
        /\ "trustedDevicesInfo" \in DOMAIN n1 =>
              d.info # None /\ n1.trustedDevicesInfo = d.info
    OBVIOUS
  <2>2. DOMAIN a = {"skip2FA", "ACR"} /\ a.skip2FA = d.skip /\ a.ACR = acr
    OBVIOUS
  <2>3. v = (a ++ n1) ++ o.work
    OBVIOUS
  <2>4. DOMAIN o.work \subseteq FirstNames
    BY <1>1 DEF FirstMade
  <2> HIDE DEF v, n1, a
  <2>5. QED
    BY <2>1, <2>2, <2>3, <2>4 DEF ++, FirstNames
<1> HIDE DEF v
<1>7. /\ DOMAIN c = DOMAIN o.changes \cup {"user", "passed", "work"}
      /\ c.user = session[s].who
      /\ session[s].passed \cup {"password"} \subseteq c.passed
      /\ "passed" \in DOMAIN o.changes => "unoffered" \in c.passed
      /\ c.work = v ++ session[s].attrs
      /\ \A f \in {"got", "fault"} : /\ f \in DOMAIN c <=> f \in DOMAIN o.changes
                                    /\ f \in DOMAIN c => c[f] = o.changes[f]
  <2>1. DOMAIN o.changes \subseteq {"got", "fault", "passed"}
    BY <1>1 DEF FirstMade
  <2>2. /\ DOMAIN LoggedIn(s) = {"user", "passed"}
        /\ LoggedIn(s).user = session[s].who
    BY DEF LoggedIn, Passing, ++
  <2>3. DOMAIN Setting(s, v) = {"work"} /\ Setting(s, v).work = v ++ session[s].attrs
    BY DEF Setting
  <2>4. /\ DOMAIN mark = DOMAIN o.changes \cup {"passed"}
        /\ session[s].passed \cup {"password"} \subseteq mark.passed
        /\ "passed" \in DOMAIN o.changes => "unoffered" \in mark.passed
        /\ \A f \in DOMAIN o.changes \ {"passed"} : mark[f] = o.changes[f]
    <3>1. "passed" \in DOMAIN o.changes =>
             o.changes.passed = session[s].passed \cup {"unoffered"}
      BY <1>1 DEF FirstMade
    <3>2. QED
      BY ONLY <3>1 DEF Marked, ++
  <2> HIDE DEF mark
  <2>5. QED
    BY <2>1, <2>2, <2>3, <2>4 DEF ++
<1> HIDE DEF c, mark
<1>8. /\ DOMAIN c \subseteq {"user", "passed", "work", "got", "fault"}
      /\ "fault" \in DOMAIN c => c.fault = TRUE
  BY <1>1, <1>7 DEF FirstMade
<1>9. Replied(s, c, TRUE)
  BY <1>5, <1>8, AnswerEffect DEF IInv, Changeable
<1>10. /\ session'[s].who = session[s].who /\ session'[s].device = session[s].device
       /\ session'[s].city = session[s].city /\ session'[s].step = 1
       /\ "password" \in session'[s].passed
       /\ session[s].passed \subseteq session'[s].passed
       /\ "passed" \in DOMAIN o.changes => AskedForMore(s)'
       /\ session'[s].work = v ++ session[s].attrs
       /\ session[s].fault => session'[s].fault
       /\ "fault" \in DOMAIN o.changes => session'[s].fault
       /\ "got" \in DOMAIN o.changes => session'[s].got = o.changes.got
  <2>1. /\ session'[s].who = session[s].who /\ session'[s].device = session[s].device
        /\ session'[s].city = session[s].city /\ session'[s].step = session[s].step
        /\ session'[s].work = IF "work" \in DOMAIN c THEN c.work ELSE session[s].attrs
        /\ session'[s].passed = IF "passed" \in DOMAIN c THEN c.passed
                                ELSE session[s].passed
        /\ session'[s].got = IF "got" \in DOMAIN c THEN c.got ELSE session[s].got
        /\ session'[s].fault = IF "fault" \in DOMAIN c THEN TRUE ELSE session[s].fault
    BY <1>8, <1>9, AnswerKeeps
  <2>2. "got" \in DOMAIN o.changes => c.got = o.changes.got
    BY <1>7
  <2>3. QED
    BY <1>1, <1>7, <1>8, <2>1, <2>2 DEF AskedForMore
<1>18. PICK m : m = session'[s].work
  OBVIOUS
<1>11. DOMAIN m = DOMAIN v /\ \A n \in DOMAIN v : m[n] = v[n]
  BY <1>1, <1>10, <1>18 DEF ++
<1>12. /\ DOMAIN m \subseteq {"skip2FA", "ACR", "trustedDevicesInfo"} \cup DOMAIN o.work
       /\ {"skip2FA", "ACR"} \subseteq DOMAIN m
       /\ m.skip2FA = d.skip /\ m.ACR = acr
       /\ DOMAIN o.work \subseteq DOMAIN m /\ \A n \in DOMAIN o.work : m[n] = o.work[n]
       /\ "trustedDevicesInfo" \in DOMAIN m =>
             d.info # None /\ m.trustedDevicesInfo = d.info
  BY <1>6, <1>11
<1>13. DOMAIN o.work \subseteq FirstNames
  BY <1>1 DEF FirstMade
<1>14. "numbers" \in DOMAIN m => m.numbers = "several" /\ Entry(s).mobiles = 2
  BY <1>1, <1>12 DEF FirstMade
<1>15. Noted(s, acr, m)' /\ Received(s, acr, m, 2)'
  <2>1. \A x : /\ DOMAIN o.work \subseteq DOMAIN x
               /\ \A n \in DOMAIN o.work : x[n] = o.work[n]
               /\ "numbers" \in DOMAIN x => Entry(s).mobiles = 2
               => Noted(s, acr, x)' /\ Received(s, acr, x, 2)'
    BY <1>1, <1>4, <1>10, FirstNoted DEF Able
  <2>2. QED
    BY <1>12, <1>14, <2>1
<1>16. WellInv(s)'
  <2>1. /\ Entry(s)'.mobiles = Entry(s).mobiles /\ (Earned(s) => Earned(s)')
        /\ \A x : Exempt(Entry(s), x)' = Exempt(Entry(s), x)
        /\ \A x : Pending(s, x) => Pending(s, x)'
    BY <1>1, <1>4, <1>10, Lasts
  <2>2. Params(s, session[s].work)'
    <3>1. Pending(s, m)
      BY <1>3, <1>12 DEF Pending
    <3>2. "otp_count_login_steps" \notin DOMAIN m
      BY <1>12, <1>13 DEF FirstNames
    <3>3. Value(m, "super_gluu_request") = None
      BY <1>12, <1>13 DEF FirstNames, Value
    <3>4. Regular(s, Value(m, "super_gluu_auth_method"))'
      BY <1>1, <1>10, <1>12, <1>18 DEF FirstMade, Regular, Value
    <3>5. Regular(s, Value(m, "super_gluu_request"))'
      BY <3>3 DEF Regular
    <3>6. QED
      BY <1>14, <1>18, <2>1, <3>1, <3>2, <3>4, <3>5 DEF Params
  <2>3. ~Switching(s)'
    BY <1>12, <1>13, <1>18 DEF Switching, FirstNames
  <2>4. OnPage(s, "skip2FA")' = d.skip /\ OnPage(s, "ACR")' = acr
    BY <1>12, <1>18 DEF OnPage, Value
  <2>5. /\ OnPage(s, "super_gluu_count_login_steps")' \in {None, 1, 2}
        /\ OnPage(s, "super_gluu_count_login_steps")' = 1 =>
              Exempt(Entry(s), "super_gluu")
    <3>1. None # 1
      BY SessionAssumption
    <3>2. "super_gluu_count_login_steps" \in DOMAIN m =>
             "super_gluu_count_login_steps" \in DOMAIN o.work
      BY <1>12
    <3>3. QED
      BY <1>1, <1>12, <1>18, <3>1, <3>2 DEF FirstMade, OnPage, Value
  <2>6. Noted(s, OnPage(s, "ACR"), session[s].work)'
        /\ Received(s, OnPage(s, "ACR"), session[s].work, 2)'
    BY <1>15, <1>18, <2>4
  <2>7. QED
    BY <1>3, <1>10, <2>1, <2>2, <2>3, <2>4, <2>5, <2>6 DEF WellInv
<1>17. QED
  BY <1>1, <1>4, <1>5, <1>7, <1>8, <1>16, AnsweredStep

\* Step 1, whichever of the suitable methods is taken.
LEMMA FirstStepKeeps ==
    ASSUME IInv, NEW s \in Session, NEW platform \in {session[s].device, None},
           FirstStep(s, platform)
    PROVE  StepInv(s)
<1>1. PICK acr \in getSuitableAcr(Entry(s), platform) : \E o \in First(s, acr) :
         FirstFailed(s, acr, o) \/ FirstPassed(s, acr, o, platform)
  BY DEF FirstStep
<1>2. acr \in Able(s) /\ At(s, "page", 1) /\ session[s].stage = "page"
  BY <1>1, Suitable DEF FirstStep, IInv, At
<1>3. QED
  BY <1>1, <1>2, FirstFailedStep, FirstPassedStep

\* Another method is chosen at the page of a later step: its plugin is ready for
\* step 2, whatever it said.
LEMMA SimulateStep ==
    ASSUME IInv, NEW s \in Session, NEW alter \in self.authenticators \cup {"other"},
           simulateFirstStep(s, alter)
    PROVE  StepInv(s)
<1>1. /\ EntriesInv /\ LoginType(s) /\ NotesInv(s) /\ PageInv(s)
      /\ session[s].stage = "page" /\ session[s].step # 1
      /\ session[s].tries + 1 < MaxTries
  BY DEF IInv, LoginInv, simulateFirstStep
<1>2. alter \notin Able(s) => Asked(s, alter) = {"unoffered"}
  BY <1>1 DEF PageInv, Asked, OnPage, Value
<1> DEFINE v(o) == [alternativeMethod |-> alter] ++ o.work
           mark(o) == Marked(s, o, Asked(s, alter))
<1>3. PICK o \in OfLoaded(alter, First(s, alter)) :
         Answer(s, mark(o) ++ Setting(s, v(o))) /\ Update(s, o.entry)
  BY DEF simulateFirstStep
<1>4. FirstMade(s, alter, o)
  BY <1>1, LoadedOutcome
<1>5. Lasting /\ EntriesInv'
  BY <1>1, <1>3, <1>4, FirstEntryOnly
<1> DEFINE k == mark(o)
           c == k ++ Setting(s, v(o))
<1>6. /\ DOMAIN o.work \subseteq FirstNames
      /\ DOMAIN o.changes \subseteq {"got", "fault", "passed"}
      /\ "fault" \in DOMAIN o.changes => o.changes.fault = TRUE
  BY <1>4 DEF FirstMade
<1>7. /\ DOMAIN c = DOMAIN o.changes \cup {"passed", "work"}
      /\ c.work = v(o) ++ session[s].attrs
      /\ session[s].passed \subseteq c.passed
      /\ "passed" \in DOMAIN o.changes \/ alter \notin Able(s) => "unoffered" \in c.passed
      /\ \A f \in DOMAIN o.changes \ {"passed"} : c[f] = o.changes[f]
  <2>1. /\ DOMAIN k = DOMAIN o.changes \cup {"passed"}
        /\ session[s].passed \cup Asked(s, alter) \subseteq k.passed
        /\ "passed" \in DOMAIN o.changes => "unoffered" \in k.passed
        /\ \A f \in DOMAIN o.changes \ {"passed"} : k[f] = o.changes[f]
    <3>1. "passed" \in DOMAIN o.changes =>
             o.changes.passed = session[s].passed \cup {"unoffered"}
      BY <1>4 DEF FirstMade
    <3>2. QED
      BY ONLY <3>1 DEF Marked, ++
  <2> HIDE DEF k, v
  <2>2. DOMAIN Setting(s, v(o)) = {"work"}
        /\ Setting(s, v(o)).work = v(o) ++ session[s].attrs
    BY DEF Setting
  <2>3. QED
    BY <1>2, <1>6, <2>1, <2>2 DEF ++
<1>8. /\ DOMAIN v(o) = {"alternativeMethod"} \cup DOMAIN o.work
      /\ v(o).alternativeMethod = alter /\ \A n \in DOMAIN o.work : v(o)[n] = o.work[n]
  BY <1>6 DEF ++, FirstNames
<1>9. Answer(s, c)
  BY <1>3
<1> HIDE DEF c, v, mark, k
<1>10. /\ DOMAIN c \subseteq {"user", "passed", "work", "got", "fault"}
       /\ "user" \notin DOMAIN c /\ "attrs" \notin DOMAIN c /\ "passed" \in DOMAIN c
       /\ "fault" \in DOMAIN c => c.fault = TRUE
  BY <1>6, <1>7
<1>11. Replied(s, c, TRUE)
  BY <1>9, <1>10, AnswerEffect DEF IInv, Changeable
<1>12. /\ session'[s].who = session[s].who /\ session'[s].device = session[s].device
       /\ session'[s].city = session[s].city /\ session'[s].step = session[s].step
       /\ session'[s].tries = session[s].tries /\ session'[s].passed = c.passed
       /\ session'[s].work = c.work
       /\ session'[s].got = IF "got" \in DOMAIN c THEN c.got ELSE session[s].got
       /\ session'[s].fault = IF "fault" \in DOMAIN c THEN TRUE ELSE session[s].fault
  BY <1>7, <1>10, <1>11, AnswerKeeps
<1>13. /\ session[s].fault => session'[s].fault
       /\ session[s].passed \subseteq session'[s].passed
       /\ "passed" \in DOMAIN o.changes \/ alter \notin Able(s) => AskedForMore(s)'
       /\ "fault" \in DOMAIN o.changes => session'[s].fault
       /\ "got" \in DOMAIN o.changes => session'[s].got = o.changes.got
  BY <1>6, <1>7, <1>12 DEF AskedForMore
<1>14. PICK m : m = session'[s].work
  OBVIOUS
<1>15. /\ DOMAIN m = {"alternativeMethod"} \cup DOMAIN o.work \cup DOMAIN session[s].attrs
       /\ m.alternativeMethod = alter
       /\ \A n \in DOMAIN o.work : m[n] = o.work[n]
       /\ \A n \in DOMAIN session[s].attrs \ (DOMAIN o.work \cup {"alternativeMethod"}) :
             m[n] = session[s].attrs[n]
  BY <1>6, <1>7, <1>8, <1>12, <1>14 DEF ++, FirstNames
<1>16. /\ Params(s, session[s].attrs) /\ "password" \in session[s].passed
       /\ Able(s) # {} /\ DOMAIN session[s].attrs \subseteq Kept
  BY <1>1 DEF NotesInv, Noted
<1>17. "numbers" \in DOMAIN m => m.numbers = "several" /\ Entry(s).mobiles = 2
  BY <1>4, <1>15, <1>16 DEF FirstMade, Params
<1>18. Noted(s, alter, m)' /\ Received(s, alter, m, 2)'
  <2>1. \A x : /\ DOMAIN o.work \subseteq DOMAIN x
               /\ \A n \in DOMAIN o.work : x[n] = o.work[n]
               /\ "numbers" \in DOMAIN x => Entry(s).mobiles = 2
               => Noted(s, alter, x)' /\ Received(s, alter, x, 2)'
    BY <1>1, <1>4, <1>5, <1>12, <1>13, <1>16, FirstNoted
  <2>2. QED
    BY <1>15, <1>17, <2>1
<1>19. WellInv(s)'
  <2>1. /\ Entry(s)'.mobiles = Entry(s).mobiles
        /\ \A x : Pending(s, x) => Pending(s, x)'
        /\ \A x : Regular(s, x) => Regular(s, x)'
    BY <1>1, <1>5, <1>12, <1>13, Lasts
  <2>2. Params(s, session[s].work)'
    <3>1. "trustedDevicesInfo" \in DOMAIN m =>
             /\ "trustedDevicesInfo" \in DOMAIN session[s].attrs
             /\ m.trustedDevicesInfo = session[s].attrs.trustedDevicesInfo
      BY <1>6, <1>15 DEF FirstNames
    <3>2. Pending(s, m)
      BY <1>16, <3>1 DEF Params, Pending
    <3>3. "otp_count_login_steps" \notin DOMAIN m
      BY <1>6, <1>15, <1>16 DEF Params, FirstNames
    <3>4. Regular(s, Value(m, "super_gluu_request"))'
      <4>1. Value(m, "super_gluu_request") = Value(session[s].attrs, "super_gluu_request")
        BY <1>6, <1>15 DEF FirstNames, Value
      <4>2. QED
        BY <1>16, <2>1, <4>1 DEF Params, Regular
    <3>5. Regular(s, Value(m, "super_gluu_auth_method"))'
      <4>1. CASE "super_gluu_auth_method" \in DOMAIN o.work
        BY <1>4, <1>13, <1>15, <4>1 DEF FirstMade, Regular, Value
      <4>2. CASE "super_gluu_auth_method" \notin DOMAIN o.work
        <5>1. Value(m, "super_gluu_auth_method")
                 = Value(session[s].attrs, "super_gluu_auth_method")
          BY <1>15, <4>2 DEF Value
        <5>2. QED
          BY <1>16, <2>1, <5>1 DEF Params, Regular
      <4>3. QED
        BY <4>1, <4>2
    <3>6. QED
      BY <1>14, <1>17, <2>1, <3>2, <3>3, <3>4, <3>5 DEF Params
  <2>3. Switching(s)'
    BY <1>14, <1>15 DEF Switching
  <2>4. /\ Noted(s, session[s].work.alternativeMethod, session[s].work)'
        /\ Received(s, session[s].work.alternativeMethod, session[s].work, 2)'
    BY <1>14, <1>15, <1>18
  <2>5. QED
    BY <1>1, <1>12, <1>13, <1>16, <2>2, <2>3, <2>4 DEF WellInv
<1>20. QED
  BY <1>1, <1>5, <1>7, <1>9, <1>10, <1>19, AnsweredStep

-----------------------------------------------------------------------------
(* What the plugins do in a later step. *)

\* A plugin is content with a second factor, or has enrolled one, or it has sent a
\* code to one of several numbers; it is not for a reason.
SecondMade(s, o) ==
    /\ o.ok \in BOOLEAN /\ o.work = <<>>
    /\ \/ o.entry = <<>>
       \/ /\ DOMAIN o.entry = {"enrolled"}
          /\ Entry(s).enrolled \subseteq o.entry.enrolled
    /\ o.ok =>
          \/ /\ o.changes = Passing(s, "second")
             /\ Received(s, Attr(s, "ACR"), session[s].attrs, 3)
          \/ o.changes = Passing(s, "enrolled") /\ AskedForMore(s)
          \/ /\ Entry(s).mobiles = 2 /\ Attr(s, "ACR") \in Texting
             /\ \/ o.changes = Sent(Attr(s, "randCode"))
                \/ o.changes = Fault
    /\ ~o.ok => \/ o.changes = Fault
                \/ o.changes = <<>> /\ MayRefuse(s)

\* What a plugin does in a later step is of this kind, by the code of each.
LEMMA SecondOutcome ==
    ASSUME EntriesInv, NEW s, NotesInv(s), PageInv(s), LoginType(s),
           session[s].stage = "page", session[s].step # 1,
           NEW o \in OfLoaded(Attr(s, "ACR"), Second(s, Attr(s, "ACR")))
    PROVE  SecondMade(s, o)
<1> DEFINE acr == Attr(s, "ACR")
           m == session[s].attrs
<1>1. /\ acr \in self.authenticators \cup {"other"} /\ self.authenticators \subseteq Methods
      /\ AskedForMore(s) \/ Ready(s, acr, m)
      /\ Params(s, m)
      /\ Received(s, acr, m, session[s].step)
      /\ session[s].step \in {2, 3}
      /\ session[s].step = 3 => acr \in Texting
      /\ Regular(s, OnPage(s, "request"))
      /\ Regular(s, Attr(s, "super_gluu_request"))
  BY DEF NotesInv, PageInv, EntriesInv, Noted, LoginType, Params, Attr
<1> HIDE DEF acr, m
<1>2. ASSUME o = Failure PROVE SecondMade(s, o)
  <2>1. o.ok = FALSE /\ o.work = <<>> /\ o.changes = Fault /\ o.entry = <<>>
    BY <1>2 DEF Failure, Outcome
  <2>2. QED
    BY <2>1 DEF SecondMade
<1>3. ASSUME o = Factor(s), Received(s, acr, m, 3) PROVE SecondMade(s, o)
  <2>1. /\ o.ok = TRUE /\ o.work = <<>> /\ o.changes = Passing(s, "second")
        /\ o.entry = <<>>
    BY <1>3 DEF Factor, Outcome
  <2>2. QED
    BY <1>3, <2>1 DEF SecondMade, acr, m
<1>4. ASSUME o = Just(FALSE), MayRefuse(s) PROVE SecondMade(s, o)
  <2>1. o.ok = FALSE /\ o.work = <<>> /\ o.changes = <<>> /\ o.entry = <<>>
    BY <1>4 DEF Just, Outcome
  <2>2. QED
    BY <1>4, <2>1 DEF SecondMade
<1>5. ASSUME NEW devices, o = Enrolled(s, devices), AskedForMore(s)
      PROVE  SecondMade(s, o)
  <2>1. /\ o.ok = TRUE /\ o.work = <<>> /\ o.changes = Passing(s, "enrolled")
        /\ o.entry = [enrolled |-> Entry(s).enrolled \cup devices]
    BY <1>5 DEF Enrolled, Outcome
  <2>2. /\ DOMAIN o.entry = {"enrolled"}
        /\ Entry(s).enrolled \subseteq o.entry.enrolled
    BY <2>1
  <2>3. QED
    BY <1>5, <2>1, <2>2 DEF SecondMade
<1>6. ASSUME NEW request, NEW method, Regular(s, request), Received(s, acr, m, 3),
             o \in Used(s, request, method)
      PROVE  SecondMade(s, o)
  <2>1. None # "authenticate" /\ None # "enroll"
    BY SessionAssumption DEF Texts
  <2>2. \/ o = Failure \/ o = Factor(s)
        \/ request = "enroll" /\ o = Enrolled(s, {method})
    BY <1>6, <2>1 DEF Used, Regular
  <2>3. request = "enroll" => AskedForMore(s)
    BY <1>6, <2>1 DEF Regular
  <2>4. QED
    BY <1>2, <1>3, <1>5, <1>6, <2>2, <2>3
<1>7. AskedForMore(s) => MayRefuse(s) /\ Received(s, acr, m, 3)
  BY DEF MayRefuse, Received
<1>8. CASE acr \notin self.authenticators
  <2>1. o = Just(FALSE) /\ AskedForMore(s)
    BY <1>1, <1>8 DEF OfLoaded, Ready, Able, acr
  <2>2. QED
    BY <1>4, <1>7, <2>1
<1>9. acr \in self.authenticators => o \in Second(s, acr) /\ acr \in Methods
  BY <1>1 DEF OfLoaded, acr
<1>10. CASE acr \in self.authenticators /\ acr \in Texting
  <2>1. /\ Attr(s, "numbers") # None => Entry(s).mobiles = 2
        /\ ~AskedForMore(s) => /\ Attr(s, "randCode") = m.randCode
                               /\ Attr(s, "numbers") # None <=> Entry(s).mobiles = 2
    <3>1. "several" # None
      BY SessionAssumption DEF Texts
    <3>2. QED
      BY <1>1, <1>10, <3>1 DEF Ready, Params, Attr, Value, m
  <2>2. o \in TextSecond(s, acr) /\ acr # "stytch"
    BY <1>9, <1>10 DEF Second, Texting
  <2>3. CASE session[s].step = 2 /\ Attr(s, "numbers") # None
    <3>1. o = Failure \/ o \in sendMessage(acr, Attr(s, "randCode"), <<>>)
      BY <2>2, <2>3 DEF TextSecond, TextChosen
    <3>2. CASE o = Outcome(TRUE, <<>>, Sent(Attr(s, "randCode")), <<>>)
      BY <1>10, <2>1, <2>3, <3>2 DEF Outcome, SecondMade, acr
    <3>3. CASE o = Outcome(acr = "twilio_sms", <<>>, Fault, <<>>)
      BY <1>10, <2>1, <2>3, <3>3 DEF Outcome, SecondMade, acr
    <3>4. QED
      BY <1>2, <3>1, <3>2, <3>3 DEF sendMessage
  <2>4. CASE ~(session[s].step = 2 /\ Attr(s, "numbers") # None)
    <3>1. \/ o = Failure
          \/ session[s].got = Attr(s, "randCode") /\ o = Factor(s)
          \/ session[s].got # Attr(s, "randCode") /\ o = Just(FALSE)
      BY <2>2, <2>4 DEF TextSecond, TextCompared
    <3>2. CASE AskedForMore(s)
      BY <1>2, <1>3, <1>4, <1>7, <3>1, <3>2
    <3>3. CASE ~AskedForMore(s)
      <4>1. Entry(s).mobiles # 2 \/ session[s].step = 3
        BY <1>1, <2>1, <2>4, <3>3
      <4>2. /\ session[s].got = m.randCode => Received(s, acr, m, 3)
            /\ session[s].got # m.randCode => MayRefuse(s)
        BY <1>1, <1>10, <2>2, <4>1 DEF Received
      <4>3. QED
        BY <1>2, <1>3, <1>4, <2>1, <3>1, <3>3, <4>2
    <3>4. QED
      BY <3>2, <3>3
  <2>5. QED
    BY <2>3, <2>4
<1>11. CASE acr \in self.authenticators /\ acr = "stytch"
  <2>1. o \in StytchSecond(s) /\ acr \notin Texting
    BY <1>9, <1>11 DEF Second, Texting
  <2>2. ~MayRefuse(s) => /\ Attr(s, "phone_id") = m.phone_id
                         /\ session[s].got = m.phone_id
    BY <1>1, <1>7, <1>11 DEF Ready, Received, Attr, Value, m
  <2>3. Received(s, acr, m, 3)
    BY <2>1, <2>2 DEF Received
  <2>4. session[s].got # Attr(s, "phone_id") => MayRefuse(s)
    BY <2>2
  <2>5. o = Failure \/ o \in verifyPasscode(s)
    BY <2>1 DEF StytchSecond
  <2>6. QED
    BY <1>2, <1>3, <1>4, <2>3, <2>4, <2>5 DEF verifyPasscode
<1>12. CASE acr \in self.authenticators
            /\ acr \in {"otp", "super_gluu", "duo", "u2f", "fido2"}
  <2>1. acr \notin Texting /\ acr # "stytch"
    BY <1>12 DEF Texting
  <2>2. Received(s, acr, m, 3)
    BY <2>1 DEF Received
  <2>3. CASE acr = "otp"
    <3>1. o \in OtpSecond(s)
      BY <1>9, <1>12, <2>1, <2>3 DEF Second
    <3>2. o = Failure \/ o = Factor(s)
      BY <3>1 DEF OtpSecond
    <3>3. QED
      BY <1>2, <1>3, <2>2, <3>2
  <2>4. CASE acr = "super_gluu"
    <3>1. o \in SuperGluuSecond(s)
      BY <1>9, <1>12, <2>1, <2>4 DEF Second
    <3>2. o = Failure \/ o \in Used(s, Attr(s, "super_gluu_request"), "super_gluu")
      BY <3>1 DEF SuperGluuSecond
    <3>3. QED
      BY <1>1, <1>2, <1>6, <2>2, <3>2
  <2>5. CASE acr = "duo"
    <3>1. o \in DuoSecond(s)
      BY <1>9, <1>12, <2>1, <2>5 DEF Second
    <3>2. hasEnrollments("duo", Entry(s)) \/ AskedForMore(s)
      BY <1>1, <2>5 DEF Ready, Able
    <3>3. \/ o = Failure \/ o = Factor(s)
          \/ AskedForMore(s) /\ o = Enrolled(s, {})
      BY <3>1, <3>2 DEF DuoSecond
    <3>4. QED
      BY <1>2, <1>3, <1>5, <2>2, <3>3
  <2>6. CASE acr \in {"u2f", "fido2"}
    <3>1. o \in DeviceSecond(s, acr)
      BY <1>9, <1>12, <2>1, <2>6 DEF Second
    <3>2. QED
      BY <1>1, <1>6, <2>2, <3>1 DEF DeviceSecond
  <2>7. QED
    BY <1>12, <2>3, <2>4, <2>5, <2>6
<1>13. QED
  BY <1>8, <1>9, <1>10, <1>11, <1>12 DEF Methods, Texting

\* What a later step writes in the entry: the devices to be trusted, which the
\* place where the factor was just passed vouches for.
LEMMA SecondEntry ==
    ASSUME EntriesInv, NEW s, NotesInv(s), LoginType(s), NEW o, SecondMade(s, o), o.ok,
           session[s].step # 1, Update(s, Remembered(s) ++ Proved(s, o) ++ o.entry)
    PROVE  Lasting /\ EntriesInv'
<1> DEFINE r == Remembered(s)
           q == Proved(s, o)
           f == o.entry
           c == r ++ q ++ f
           place == <<session[s].device, session[s].city>>
           crit == Policy(Entry(s)) \cap Criteria
<1>1. /\ DOMAIN r \subseteq {"trusted"}
      /\ "trusted" \in DOMAIN r =>
            /\ "trustedDevicesInfo" \in DOMAIN session[s].attrs
            /\ r.trusted = session[s].attrs.trustedDevicesInfo
  BY DEF Remembered, Attr, Value
<1>2. /\ DOMAIN q \subseteq {"proved"}
      /\ "proved" \in DOMAIN q => q.proved = Entry(s).proved \cup {place}
      /\ Entry(s).mobiles < 2 => "proved" \in DOMAIN q
  <2>1. Entry(s).mobiles < 2 => "passed" \in DOMAIN o.changes
    BY DEF SecondMade, Passing
  <2>2. QED
    BY <2>1 DEF Proved
<1>0. /\ DOMAIN f \subseteq {"enrolled"}
      /\ "enrolled" \in DOMAIN f => Entry(s).enrolled \subseteq f.enrolled
  BY DEF SecondMade
<1>9. getAvailMethodsUser(Entry(s), None) # {}
  <2>1. Able(s) # {} /\ None \notin self.authenticators
    BY DeviceAssumption DEF NotesInv, Noted, EntriesInv
  <2>2. QED
    BY <2>1 DEF Able, getAvailMethodsUser
<1>4. Update(s, c)
  OBVIOUS
<1> HIDE DEF r, q, f
<1>3. /\ DOMAIN c = DOMAIN r \cup DOMAIN q \cup DOMAIN f
      /\ "trusted" \in DOMAIN r => c.trusted = r.trusted
      /\ "proved" \in DOMAIN q => c.proved = q.proved
      /\ "enrolled" \in DOMAIN f => c.enrolled = f.enrolled
  BY <1>0, <1>1, <1>2 DEF ++
<1> HIDE DEF c, place, crit
<1>5. /\ Entry(s).mobiles < 2 => Vouched(crit, Entry(s).trusted, Entry(s).proved)
      /\ "trusted" \in DOMAIN r =>
            /\ Known(r.trusted)
            /\ Entry(s).mobiles < 2 =>
                  Vouched(crit, r.trusted, Entry(s).proved \cup {place})
  BY <1>1 DEF EntriesInv, EntryInv, LoginType, Entry, NotesInv, Params, Pending,
              crit, place
<1>6. Entry(s).mobiles < 2 =>
         Vouched(crit, IF "trusted" \in DOMAIN c THEN c.trusted ELSE Entry(s).trusted,
                 Entry(s).proved \cup {place})
  <2>1. Entry(s).mobiles < 2 =>
           Vouched(crit, Entry(s).trusted, Entry(s).proved \cup {place})
    BY <1>5 DEF Vouched
  <2>2. QED
    BY <1>0, <1>1, <1>2, <1>3, <1>5, <2>1
<1>7. /\ DOMAIN c \subseteq {"trusted", "proved", "stytched", "enrolled"}
      /\ "stytched" \notin DOMAIN c
      /\ "enrolled" \in DOMAIN c => /\ Entry(s).enrolled \subseteq c.enrolled
                                    /\ getAvailMethodsUser(Entry(s), None) # {}
      /\ "trusted" \in DOMAIN c => Known(c.trusted)
      /\ "proved" \in DOMAIN c => Entry(s).proved \subseteq c.proved
      /\ Entry(s).mobiles < 2 =>
            "proved" \in DOMAIN c /\ c.proved = Entry(s).proved \cup {place}
  BY <1>0, <1>1, <1>2, <1>3, <1>5, <1>9
<1>8. QED
  BY <1>4, <1>6, <1>7, UpdateKeeps DEF crit

\* authenticate of Casa in a later step.
LEMMA SecondStepKeeps ==
    ASSUME IInv, NEW s \in Session, SecondStep(s)
    PROVE  StepInv(s)
<1>1. /\ EntriesInv /\ LoginType(s) /\ NotesInv(s) /\ PageInv(s)
      /\ session[s].stage = "page" /\ session[s].step # 1
  BY DEF IInv, LoginInv, SecondStep
<1>2. PICK o \in OfLoaded(Attr(s, "ACR"), Second(s, Attr(s, "ACR"))) :
         \/ /\ o.ok
            /\ Answer(s, o.changes ++ Setting(s, o.work))
            /\ Update(s, Remembered(s) ++ Proved(s, o) ++ o.entry)
         \/ /\ ~o.ok
            /\ Refuse(s, o.changes) /\ Update(s, <<>>)
  BY DEF SecondStep
<1>3. SecondMade(s, o)
  BY <1>1, SecondOutcome
<1>4. CASE ~o.ok
  <2>1. Refuse(s, o.changes) /\ Update(s, <<>>)
    BY <1>2, <1>4
  <2>2. DOMAIN <<>> = {}
    OBVIOUS
  <2>3. Lasting /\ EntriesInv'
    <3>1. Entry(s).mobiles < 2 =>
             Vouched(Policy(Entry(s)) \cap Criteria, Entry(s).trusted, Entry(s).proved)
      BY <1>1 DEF EntriesInv, EntryInv, LoginType, Entry
    <3>2. QED
      BY <1>1, <2>1, <2>2, <3>1, UpdateKeeps
  <2>4. /\ DOMAIN o.changes \subseteq {"fault"}
        /\ "fault" \in DOMAIN o.changes => o.changes.fault = TRUE
        /\ "fault" \in DOMAIN o.changes \/ MayRefuse(s)
    BY <1>3, <1>4, <2>2 DEF SecondMade, Fault
  <2>5. QED
    BY <1>1, <2>1, <2>3, <2>4, RefusedStep
<1>5. CASE o.ok
  <2>1. Lasting /\ EntriesInv'
    BY <1>1, <1>2, <1>3, <1>5, SecondEntry
  <2> DEFINE c == o.changes ++ Setting(s, o.work)
  <2>2. o.work = <<>>
    BY <1>3 DEF SecondMade
  <2>3. Alike(<<>> ++ session[s].attrs, session[s].attrs)
    BY DEF ++, Alike
  <2>4. DOMAIN Setting(s, o.work) = {"work"}
        /\ Alike(Setting(s, o.work).work, session[s].attrs)
    BY <2>2, <2>3 DEF Setting
  <2>5. \/ /\ DOMAIN o.changes = {"passed"}
           /\ o.changes.passed = session[s].passed \cup {"second"}
           /\ Received(s, Attr(s, "ACR"), session[s].attrs, 3)
        \/ /\ DOMAIN o.changes = {"passed"} /\ AskedForMore(s)
           /\ o.changes.passed = session[s].passed \cup {"enrolled"}
        \/ /\ Entry(s).mobiles = 2 /\ Attr(s, "ACR") \in Texting
           /\ \/ DOMAIN o.changes = {"got"} /\ o.changes.got = Attr(s, "randCode")
              \/ DOMAIN o.changes = {"fault"} /\ o.changes.fault = TRUE
    BY <1>3, <1>5 DEF SecondMade, Passing, Sent, Fault
  <2>6. /\ DOMAIN c = DOMAIN o.changes \cup {"work"} /\ Alike(c.work, session[s].attrs)
        /\ \A f \in DOMAIN o.changes : c[f] = o.changes[f]
    BY <2>4, <2>5 DEF ++
  <2>7. Answer(s, c)
    BY <1>2, <1>5
  <2> HIDE DEF c
  <2>8. /\ DOMAIN c \subseteq {"user", "passed", "work", "got", "fault"}
        /\ "user" \notin DOMAIN c /\ "work" \in DOMAIN c
        /\ "passed" \in DOMAIN c =>
              \/ c.passed = session[s].passed \cup {"second"}
              \/ c.passed = session[s].passed \cup {"enrolled"} /\ AskedForMore(s)
        /\ "fault" \in DOMAIN c => c.fault = TRUE
    BY <2>5, <2>6
  <2>9. Replied(s, c, TRUE)
    BY <2>7, <2>8, AnswerEffect DEF IInv, Changeable
  <2>10. /\ session'[s].who = session[s].who /\ session'[s].device = session[s].device
         /\ session'[s].city = session[s].city /\ session'[s].step = session[s].step
         /\ session'[s].attrs = session[s].attrs /\ session'[s].work = c.work
         /\ session'[s].passed = IF "passed" \in DOMAIN c THEN c.passed
                                 ELSE session[s].passed
         /\ session'[s].got = IF "got" \in DOMAIN c THEN c.got ELSE session[s].got
         /\ session'[s].fault = IF "fault" \in DOMAIN c THEN TRUE ELSE session[s].fault
    <3>1. "attrs" \notin DOMAIN c
      BY <2>8
    <3>2. QED
      BY <2>6, <2>8, <2>9, <3>1, AnswerKeeps
  <2>11. /\ Entry(s)'.mobiles = Entry(s).mobiles
         /\ MayRefuse(s) => MayRefuse(s)'
         /\ AskedForMore(s) => AskedForMore(s)' /\ MayRefuse(s)'
         /\ \A x : Params(s, x) => Params(s, x)'
    <3>1. session[s].passed \subseteq session'[s].passed
      BY <2>8, <2>10
    <3>2. AskedForMore(s) => MayRefuse(s)
      BY DEF MayRefuse
    <3>3. QED
      BY <1>1, <2>1, <2>10, <3>1, <3>2, Lasts
  <2>12. Params(s, session[s].work)'
    <3>1. Params(s, session[s].attrs)
      BY <1>1 DEF NotesInv
    <3>2. Pending(s, c.work)
      BY <2>6, <3>1 DEF Params, Pending, Alike
    <3>3. Params(s, c.work)
      BY <2>6, <3>1, <3>2 DEF Params, Alike, Value
    <3>4. QED
      BY <2>10, <2>11, <3>3
  <2>13. ~Switching(s)'
    BY <1>1, <2>6, <2>10 DEF Switching, NotesInv, Kept, Alike
  <2>14. Entry(s)'.mobiles < 2 => Through(s)'
    BY <2>5, <2>6, <2>8, <2>10, <2>11 DEF Through
  <2>15. "password" \in session'[s].passed
    BY <1>1, <2>8, <2>10 DEF NotesInv
  <2>16. Received(s, Attr(s, "ACR"), session[s].attrs, 3)'
    <3>1. Attr(s, "ACR")' = Attr(s, "ACR")
      BY <2>10 DEF Attr
    <3>0. CASE AskedForMore(s)
      BY <2>11, <3>0 DEF Received
    <3>2. CASE "passed" \in DOMAIN c /\ ~AskedForMore(s)
      <4>1. Received(s, Attr(s, "ACR"), session[s].attrs, 3) /\ "got" \notin DOMAIN c
        BY <2>5, <2>6, <3>2
      <4>2. QED
        BY <2>10, <2>11, <3>1, <4>1 DEF Received
    <3>3. CASE "got" \in DOMAIN c /\ ~AskedForMore(s)
      <4>1. Attr(s, "ACR") \in Texting /\ c.got = Attr(s, "randCode")
        BY <2>5, <2>6, <3>3
      <4>2. Attr(s, "randCode") = session[s].attrs.randCode
        BY <1>1, <3>3, <4>1 DEF NotesInv, Noted, Ready, Attr, Value
      <4>3. Attr(s, "ACR") # "stytch"
        BY <4>1 DEF Texting
      <4>4. QED
        BY <2>10, <3>1, <3>3, <4>1, <4>2, <4>3 DEF Received
    <3>4. CASE "fault" \in DOMAIN c
      BY <2>10, <3>4 DEF Received, MayRefuse
    <3>5. QED
      BY <2>5, <2>6, <3>0, <3>2, <3>3, <3>4
  <2>17. WellInv(s)'
    BY <1>1, <2>6, <2>10, <2>12, <2>13, <2>14, <2>15, <2>16 DEF WellInv
  <2>18. QED
    <3>1. "passed" \in DOMAIN c => session[s].passed \subseteq c.passed
      BY <2>8
    <3>2. QED
      BY <1>1, <2>1, <2>7, <2>8, <2>17, <3>1, AnsweredStep
<1>6. QED
  BY <1>4, <1>5

-----------------------------------------------------------------------------
(* prepareForStep. *)

\* The parameters that a page of a later step gets; the method that Super Gluu has
\* chosen is kept.
PageNames == {"request", "super_gluu_request", "super_gluu_auth_method"}

Requested(s, work) ==
    /\ \A n \in {"super_gluu_request", "super_gluu_auth_method"} \cap DOMAIN work :
          work[n] = Attr(s, "super_gluu_auth_method")
    /\ Regular(s, Value(work, "request"))

\* The preparation of a plugin sets these, and fails for a reason only.
PreparedMade(s, o) ==
    /\ o.ok \in BOOLEAN
    /\ DOMAIN o.work \subseteq PageNames /\ Requested(s, o.work)
    /\ ~o.ok => \/ o.changes = Fault
                \/ DOMAIN o.changes = {} /\ Reason(s)

\* What a plugin prepares is of this kind, by the code of each.
LEMMA PreparedOutcome ==
    ASSUME EntriesInv, NEW s, NotesInv(s), LoginType(s), session[s].step # 1,
           NEW o \in OfLoaded(Attr(s, "ACR"), Prepared(s, Attr(s, "ACR")))
    PROVE  PreparedMade(s, o)
<1> DEFINE acr == Attr(s, "ACR")
           m == session[s].attrs
<1>1. /\ acr \in self.authenticators \cup {"other"} /\ self.authenticators \subseteq Methods
      /\ AskedForMore(s) \/ Ready(s, acr, m)
      /\ session[s].step \in {2, 3}
      /\ session[s].step = 3 => acr \in Texting
  BY DEF NotesInv, EntriesInv, Noted, LoginType
<1>2. AskedForMore(s) => Reason(s)
  BY DEF Reason, MayRefuse
<1> HIDE DEF acr, m
<1>3. ASSUME NEW ok \in BOOLEAN, o = Just(ok), ok \/ Reason(s) PROVE PreparedMade(s, o)
  <2>1. o.ok = ok /\ DOMAIN o.work = {} /\ DOMAIN o.changes = {}
    BY <1>3 DEF Just, Outcome
  <2>2. QED
    BY <1>3, <2>1 DEF PreparedMade, Requested, Regular, Value
<1>4. ASSUME o = Failure PROVE PreparedMade(s, o)
  <2>1. o.ok = FALSE /\ DOMAIN o.work = {} /\ o.changes = Fault
    BY <1>4 DEF Failure, Outcome
  <2>2. QED
    BY <2>1 DEF PreparedMade, Requested, Regular, Value
<1>5. CASE acr \notin self.authenticators
  <2>1. o = Just(FALSE) /\ AskedForMore(s)
    BY <1>1, <1>5 DEF OfLoaded, Ready, Able, acr
  <2>2. QED
    BY <1>2, <1>3, <2>1
<1>6. acr \in self.authenticators => o \in Prepared(s, acr) /\ acr \in Methods
  BY <1>1 DEF OfLoaded, acr
<1>7. acr \notin Texting => session[s].step = 2
  BY <1>1
<1>8. CASE acr \in self.authenticators /\ acr \in Texting \cup {"stytch"}
  <2>1. acr \notin {"otp", "super_gluu", "duo", "u2f", "fido2"}
    BY <1>8 DEF Texting
  <2>2. o = Just(TRUE)
    BY <1>6, <1>8, <2>1 DEF Prepared
  <2>3. QED
    BY <1>3, <2>2
<1>9. CASE acr \in self.authenticators /\ acr = "otp"
  <2>1. session[s].step = 2 /\ acr \notin Texting \cup {"stytch"}
    BY <1>7, <1>9 DEF Texting
  <2>2. ~AskedForMore(s) => Attr(s, "otp_auth_method") = "authenticate"
    BY <1>1, <1>9 DEF Ready, Attr, m
  <2>3. "authenticate" # None
    BY SessionAssumption DEF Texts
  <2>4. o = Just(session[s].step = 2 /\ validateSessionId(s))
    BY <1>6, <1>9, <2>1 DEF Prepared, OtpPrepared
  <2>5. (session[s].step = 2 /\ validateSessionId(s)) = TRUE \/ AskedForMore(s)
    BY <2>1, <2>2, <2>3 DEF validateSessionId
  <2>6. (session[s].step = 2 /\ validateSessionId(s)) \in BOOLEAN
    OBVIOUS
  <2>7. QED
    BY <1>2, <1>3, <2>4, <2>5, <2>6
<1>10. CASE acr \in self.authenticators /\ acr = "super_gluu"
  <2>1. session[s].step = 2 /\ acr \notin Texting \cup {"stytch"} /\ acr # "otp"
    BY <1>7, <1>10 DEF Texting
  <2>2. o \in SuperGluuPrepared(s)
    BY <1>6, <1>10, <2>1 DEF Prepared
  <2> DEFINE method == Attr(s, "super_gluu_auth_method")
  <2>3. \/ o = Just(TRUE)
        \/ o = Just(FALSE) /\ method = None
        \/ o = Outcome(TRUE, [super_gluu_request |-> method,
                              super_gluu_auth_method |-> method], <<>>, <<>>)
    BY <2>1, <2>2 DEF SuperGluuPrepared
  <2>4. CASE o = Just(FALSE) /\ method = None
    <3>1. "authenticate" # None /\ "enroll" # None
      BY SessionAssumption DEF Texts
    <3>2. Exempt(Entry(s), "super_gluu") \/ AskedForMore(s)
      BY <1>1, <1>10, <2>4, <3>1 DEF Ready, Attr, m
    <3>3. Reason(s)
      BY <1>2, <1>10, <3>2 DEF Reason, acr
    <3>4. QED
      BY <1>3, <2>4, <3>3
  <2>5. CASE o = Outcome(TRUE, [super_gluu_request |-> method,
                                super_gluu_auth_method |-> method], <<>>, <<>>)
    <3>1. /\ o.ok = TRUE
          /\ DOMAIN o.work = {"super_gluu_request", "super_gluu_auth_method"}
          /\ o.work.super_gluu_auth_method = method
          /\ o.work.super_gluu_request = method
      BY <2>5 DEF Outcome
    <3>2. QED
      BY <3>1 DEF PreparedMade, PageNames, Requested, Regular, Value
  <2>6. QED
    BY <1>3, <2>3, <2>4, <2>5
<1>11. CASE acr \in self.authenticators /\ acr = "duo"
  <2>1. session[s].step = 2 /\ acr \notin Texting \cup {"stytch"}
    BY <1>7, <1>11 DEF Texting
  <2>2. o = Just(session[s].step = 2)
    BY <1>6, <1>11, <2>1 DEF Prepared, DuoPrepared
  <2>3. (session[s].step = 2) = TRUE
    BY <2>1
  <2>4. o = Just(TRUE)
    BY <2>2, <2>3
  <2>5. QED
    BY <1>3, <2>4
<1>12. CASE acr \in self.authenticators /\ acr \in {"u2f", "fido2"}
  <2>1. acr \notin Texting \cup {"stytch"} /\ acr \notin {"otp", "super_gluu", "duo"}
    BY <1>12 DEF Texting
  <2>2. o \in DevicePrepared(s, acr)
    BY <1>6, <1>12, <2>1 DEF Prepared
  <2>3. \/ o = Failure \/ o = Just(TRUE)
        \/ o = Outcome(TRUE, [request |-> "authenticate"], <<>>, <<>>)
        \/ /\ o = Outcome(TRUE, [request |-> "enroll"], <<>>, <<>>)
           /\ ~hasEnrollments(acr, Entry(s))
    BY <2>2 DEF DevicePrepared
  <2>4. ~hasEnrollments(acr, Entry(s)) => AskedForMore(s)
    BY <1>1 DEF Ready, Able
  <2>5. ASSUME NEW v, o = Outcome(TRUE, [request |-> v], <<>>, <<>>), Regular(s, v)
        PROVE  PreparedMade(s, o)
    <3>1. o.ok = TRUE /\ DOMAIN o.work = {"request"} /\ o.work.request = v
      BY <2>5 DEF Outcome
    <3>2. Regular(s, Value(o.work, "request"))
      BY <2>5, <3>1 DEF Value
    <3>3. QED
      BY <3>1, <3>2 DEF PreparedMade, PageNames, Requested
  <2>6. QED
    BY <1>3, <1>4, <2>3, <2>4, <2>5 DEF Regular
<1>13. QED
  BY <1>5, <1>6, <1>8, <1>9, <1>10, <1>11, <1>12 DEF Methods, Texting

\* What a plugin has the session keep.
LEMMA ExtraNames ==
    ASSUME NEW m, NEW step
    PROVE  /\ Extra(m, step) \subseteq {"randCode", "numbers", "phone_id",
                                        "otp_auth_method", "otp_count_login_steps",
                                        "super_gluu_auth_method", "super_gluu_request"}
           /\ m \in Texting => Extra(m, step) = {"randCode", "numbers"}
           /\ m = "stytch" => Extra(m, step) = {"phone_id"}
           /\ m = "otp" => Extra(m, step) = {"otp_auth_method", "otp_count_login_steps"}
           /\ m = "super_gluu" /\ step = 2 =>
                 Extra(m, step) = {"super_gluu_auth_method", "super_gluu_request"}
<1>1. "stytch" \notin Texting /\ "otp" \notin Texting /\ "super_gluu" \notin Texting
  BY DEF Texting
<1>2. SuperGluuExtra[2] = {"super_gluu_auth_method", "super_gluu_request"}
  BY DEF SuperGluuExtra
<1>3. m \in Texting => Extra(m, step) = {"randCode", "numbers"}
  BY <1>1 DEF Extra, TextExtra
<1>4. m = "stytch" => Extra(m, step) = {"phone_id"}
  BY <1>1 DEF Extra, StytchExtra
<1>5. m = "otp" => Extra(m, step) = {"otp_auth_method", "otp_count_login_steps"}
  BY <1>1 DEF Extra, OtpExtra
<1>6. m = "super_gluu" /\ step = 2 =>
         Extra(m, step) = {"super_gluu_auth_method", "super_gluu_request"}
  BY <1>1, <1>2 DEF Extra
<1>7. m \notin Texting /\ m # "stytch" /\ m # "otp" /\ ~(m = "super_gluu" /\ step = 2) =>
         Extra(m, step) = {}
  BY DEF Extra
<1>8. QED
  BY <1>3, <1>4, <1>5, <1>6, <1>7

\* The page of a step is shown.
LEMMA ShownStep ==
    ASSUME IInv, NEW s \in Session, session[s].stage = "prepare",
           NEW names, NEW values, Show(s, names, values), Alone,
           session[s].step = 1 => DOMAIN values = {},
           session[s].step # 1 =>
              /\ "methods" \in DOMAIN values /\ values.methods \subseteq Able(s)
              /\ DOMAIN values \subseteq PageNames \cup {"methods"}
              /\ Requested(s, values)
              /\ "request" \notin names
    PROVE  StepInv(s)
<1>1. Shown(s, names, values)
  BY ShowEffect DEF IInv
<1>2. /\ EntriesInv /\ LoginType(s) /\ NotesInv(s) /\ PageInv(s)
      /\ Lasting /\ EntriesInv' /\ Shape' /\ Others(s)
  BY <1>1, AloneKeeps DEF IInv, LoginInv, Shown
<1>3. /\ session'[s].who = session[s].who /\ session'[s].step = session[s].step
      /\ session'[s].tries = session[s].tries /\ session'[s].user = session[s].user
      /\ session'[s].reply = session[s].reply /\ session'[s].passed = session[s].passed
      /\ session'[s].fault = session[s].fault /\ session'[s].got = session[s].got
      /\ session'[s].stage = "page"
      /\ session'[s].work = values ++ session[s].attrs
      /\ session'[s].attrs =
            Restrict(values, names \cap DOMAIN values) ++ session[s].attrs
      /\ \A n : Attr(s, n)' = IF n \in names /\ n \in DOMAIN values
                              THEN values[n] ELSE Attr(s, n)
  BY <1>1 DEF Shown, Same, Fields
<1>4. /\ session'[s].device = session[s].device /\ session'[s].city = session[s].city
      /\ {"device", "city"} \subseteq DOMAIN session'[s]
  BY <1>2 DEF LoginType, Others, Fields
<1>5. LoginType(s)'
  BY <1>2, <1>3, <1>4 DEF LoginType, Stages
<1>6. /\ Able(s) \subseteq Able(s)'
      /\ \A v : Regular(s, v) => Regular(s, v)'
      /\ Entry(s)'.mobiles = Entry(s).mobiles
      /\ \A m : Exempt(Entry(s), m)' = Exempt(Entry(s), m)
      /\ MayRefuse(s) => MayRefuse(s)'
      /\ \A m : Pending(s, m) => Pending(s, m)'
      /\ \A m : Params(s, m) => Params(s, m)'
      /\ \A acr, m : Noted(s, acr, m) => Noted(s, acr, m)'
  BY <1>2, <1>3, <1>4, Lasts
<1>7. PICK a, b : a = session[s].attrs /\ b = session'[s].attrs
  OBVIOUS
<1>8. /\ DOMAIN b = (names \cap DOMAIN values) \cup DOMAIN a
      /\ \A n \in DOMAIN a \ DOMAIN values : b[n] = a[n]
  BY <1>3, <1>7 DEF Restrict, ++
<1>9. NotesInv(s)'
  <2>1. CASE session[s].step = 1
    <3>1. DOMAIN b = {}
      BY <1>2, <1>7, <1>8, <2>1 DEF NotesInv
    <3>2. Params(s, session[s].attrs)'
      BY <1>7, <3>1 DEF Params, Pending, Regular, Value
    <3>3. QED
      BY <1>3, <1>7, <2>1, <3>1, <3>2 DEF NotesInv
  <2>2. CASE session[s].step # 1
    <3>1. /\ DOMAIN b \subseteq DOMAIN a \cup {"methods", "super_gluu_request",
                                               "super_gluu_auth_method"}
          /\ DOMAIN a \subseteq DOMAIN b
          /\ \A n \in {"ACR", "trustedDevicesInfo", "randCode", "numbers", "phone_id",
                       "otp_auth_method"} :
                /\ n \in DOMAIN b <=> n \in DOMAIN a
                /\ n \in DOMAIN a => b[n] = a[n]
                /\ Value(b, n) = Value(a, n)
      BY <1>8, <2>2 DEF Value, PageNames
    <3>2. /\ Value(b, "super_gluu_auth_method") = Value(a, "super_gluu_auth_method")
          /\ \/ Value(b, "super_gluu_request") = Value(a, "super_gluu_request")
             \/ Value(b, "super_gluu_request") = Value(a, "super_gluu_auth_method")
      BY <1>3, <1>7, <2>2 DEF Attr, Requested
    <3>3. Attr(s, "ACR")' = Attr(s, "ACR")
      BY <1>7, <3>1 DEF Attr
    <3>4. Params(s, b)
      BY <1>2, <1>7, <3>1, <3>2, "otp_count_login_steps" \notin Kept
         DEF NotesInv, Params, Pending, Kept
    <3>5. Noted(s, Attr(s, "ACR"), b)
      BY <1>2, <1>7, <2>2, <3>1, <3>2 DEF NotesInv, Noted, Ready
    <3>6. Received(s, Attr(s, "ACR"), b, session[s].step)
      <4>1. Received(s, Attr(s, "ACR"), a, session[s].step) /\ Noted(s, Attr(s, "ACR"), a)
        <5>1. ~Switching(s)
          BY <1>2 DEF PageInv, Switching
        <5>2. QED
          BY <1>2, <1>7, <2>2, <5>1 DEF NotesInv
      <4>2. QED
        BY <3>1, <4>1 DEF Received, Noted, Ready, MayRefuse
    <3>7. /\ Params(s, session[s].attrs)'
          /\ Noted(s, Attr(s, "ACR"), session[s].attrs)'
          /\ Received(s, Attr(s, "ACR"), session[s].attrs, session[s].step)'
      BY <1>3, <1>6, <1>7, <3>3, <3>4, <3>5, <3>6 DEF Received
    <3>8. QED
      BY <1>2, <1>3, <1>7, <2>2, <3>1, <3>3, <3>7 DEF NotesInv, Kept
  <2>3. QED
    BY <2>1, <2>2
<1>10. PageInv(s)'
  <2>1. DOMAIN session'[s].work = DOMAIN values \cup DOMAIN a
    BY <1>3, <1>7 DEF ++
  <2>2. ~Switching(s)'
    BY <1>2, <1>7, <2>1 DEF Switching, NotesInv, Kept, PageNames
  <2>3. session[s].step # 1 => session'[s].work.methods = values.methods
    BY <1>3 DEF ++
  <2>4. session[s].step # 1 => Regular(s, OnPage(s, "request"))'
    <3>1. "request" \notin DOMAIN a
      BY <1>2, <1>7 DEF NotesInv, Kept
    <3>2. OnPage(s, "request")' = Value(values, "request")
      BY <1>3, <1>7, <3>1 DEF OnPage, Value, ++
    <3>3. QED
      BY <1>6, <3>2 DEF Requested, Regular
  <2>5. QED
    BY <1>3, <1>6, <2>1, <2>2, <2>3, <2>4 DEF PageInv
<1>11. WellInv(s)' /\ Ends(s)'
  BY <1>3 DEF WellInv, Ends, Well, Badly
<1>12. QED
  BY <1>2, <1>5, <1>9, <1>10, <1>11 DEF StepInv, LoginInv

\* ... or the plugin cannot prepare it.
LEMMA HiddenStep ==
    ASSUME IInv, NEW s \in Session, NEW c, Hide(s, c), Alone,
           DOMAIN c \subseteq {"fault"}, "fault" \in DOMAIN c => c.fault = TRUE,
           "fault" \in DOMAIN c \/ Reason(s)
    PROVE  StepInv(s)
<1>1. /\ Shape' /\ Others(s) /\ Same(s, Fields \ {"stage", "fault"})
      /\ session'[s].stage = "refused"
      /\ session'[s].fault = IF "fault" \in DOMAIN c THEN c.fault ELSE session[s].fault
  BY HideEffect DEF IInv
<1>2. EntriesInv /\ LoginType(s) /\ NotesInv(s) /\ Lasting /\ EntriesInv'
  BY AloneKeeps DEF IInv, LoginInv
<1>3. /\ session'[s].who = session[s].who /\ session'[s].step = session[s].step
      /\ session'[s].tries = session[s].tries /\ session'[s].user = session[s].user
      /\ session'[s].reply = session[s].reply /\ session'[s].passed = session[s].passed
      /\ session'[s].attrs = session[s].attrs
      /\ session[s].fault => session'[s].fault
  BY <1>1 DEF Same, Fields
<1>4. /\ session'[s].device = session[s].device /\ session'[s].city = session[s].city
      /\ {"device", "city"} \subseteq DOMAIN session'[s]
  BY <1>1, <1>2 DEF LoginType, Others, Fields
<1>5. LoginType(s)'
  BY <1>1, <1>2, <1>3, <1>4 DEF LoginType, Stages
<1>6. /\ Entry(s)'.mobiles = Entry(s).mobiles
      /\ \A m : Exempt(Entry(s), m)' = Exempt(Entry(s), m)
      /\ MayRefuse(s) => MayRefuse(s)'
      /\ \A m : Pending(s, m) => Pending(s, m)'
      /\ \A m : Params(s, m) => Params(s, m)'
      /\ \A acr, m : Noted(s, acr, m) => Noted(s, acr, m)'
  BY <1>2, <1>3, <1>4, Lasts
<1>7. NotesInv(s)'
  BY <1>1, <1>2, <1>3, <1>6 DEF NotesInv, Attr
<1>8. PageInv(s)' /\ WellInv(s)'
  BY <1>1 DEF PageInv, WellInv, Well, Badly
<1>9. Reason(s)'
  BY <1>1, <1>3, <1>6 DEF Reason, MayRefuse, Attr
<1>10. Ends(s)'
  BY <1>1, <1>9 DEF Ends, Badly
<1>11. QED
  BY <1>1, <1>2, <1>5, <1>7, <1>8, <1>10 DEF StepInv, LoginInv

\* The page of a step is shown, or the plugin refuses to.
LEMMA PrepareStep ==
    ASSUME IInv, NEW s \in Session, prepareForStep(s)
    PROVE  StepInv(s)
<1>1. /\ EntriesInv /\ LoginType(s) /\ NotesInv(s)
      /\ session[s].stage = "prepare" /\ Alone
  BY DEF IInv, LoginInv, prepareForStep
<1>2. CASE session[s].step = 1 /\ Show(s, {}, <<>>)
  <2>1. DOMAIN <<>> = {}
    OBVIOUS
  <2>2. QED
    BY <1>1, <1>2, <2>1, ShownStep
<1>3. CASE session[s].step > 1
  <2> DEFINE acr == Attr(s, "ACR")
             names == getExtraParametersForStep(session[s].attrs, session[s].step)
             values(o) == [methods |-> getAvailMethodsUser(Entry(s), acr)] ++ o.work
  <2>1. session[s].step # 1
    BY <1>3
  <2>2. PICK o \in OfLoaded(acr, Prepared(s, acr)) :
           \/ o.ok /\ Show(s, names, values(o))
           \/ ~o.ok /\ Hide(s, o.changes)
    BY <1>3, <2>1 DEF prepareForStep
  <2>3. PreparedMade(s, o)
    BY <1>1, <2>1, <2>2, PreparedOutcome
  <2>4. CASE ~o.ok
    <3>1. /\ DOMAIN o.changes \subseteq {"fault"}
          /\ "fault" \in DOMAIN o.changes => o.changes.fault = TRUE
          /\ "fault" \in DOMAIN o.changes \/ Reason(s)
      BY <2>3, <2>4 DEF PreparedMade, Fault
    <3>2. QED
      BY <1>1, <2>2, <2>4, <3>1, HiddenStep
  <2>5. CASE o.ok
    <3> DEFINE v == values(o)
    <3>1. /\ DOMAIN v = {"methods"} \cup DOMAIN o.work
          /\ v.methods = getAvailMethodsUser(Entry(s), acr)
          /\ \A n \in DOMAIN o.work : n # "methods" => v[n] = o.work[n]
      BY DEF ++
    <3>2. Show(s, names, v)
      BY <2>2, <2>5
    <3>3. "request" \notin names
      BY ExtraNames DEF getExtraParametersForStep
    <3> HIDE DEF v, names
    <3>4. v.methods \subseteq Able(s)
      BY <3>1 DEF getAvailMethodsUser, Able
    <3>5. /\ "methods" \in DOMAIN v /\ DOMAIN v \subseteq PageNames \cup {"methods"}
          /\ Requested(s, v)
      BY <2>3, <3>1 DEF PreparedMade, PageNames, Requested, Value
    <3>6. QED
      BY <1>1, <2>1, <3>2, <3>3, <3>4, <3>5, ShownStep
  <2>6. QED
    BY <2>4, <2>5
<1>4. QED
  BY <1>2, <1>3 DEF prepareForStep

-----------------------------------------------------------------------------
(* Proceed. *)

\* b is what a session of the attributes a keeps of the parameters w.
Keeping(b, w, names, a) ==
    /\ DOMAIN b = (names \cap DOMAIN w) \cup DOMAIN a
    /\ \A n \in names \cap DOMAIN w : b[n] = w[n]
    /\ \A n \in DOMAIN a \ (names \cap DOMAIN w) : b[n] = a[n]

\* What the server puts in the session is this.
LEMMA Restricted ==
    ASSUME NEW w, NEW names, NEW a
    PROVE  Keeping(Restrict(w, names \cap DOMAIN w) ++ a, w, names, a)
BY DEF Keeping, Restrict, ++

\* What a plugin noted in a request is in the session after it: the names that the
\* plugin gives in getExtraParametersForStep are the ones it will look for.
LEMMA Taken ==
    ASSUME NEW s, NEW acr, NEW w, NEW a, NEW b, NEW names,
           Noted(s, acr, w), Received(s, acr, w, 2), Params(s, w), Params(s, a),
           DOMAIN a \subseteq Kept,
           names = {"ACR", "methods", "trustedDevicesInfo"} \cup
                   IF acr \in self.authenticators THEN Extra(acr, 2) ELSE {},
           Keeping(b, w, names, a)
    PROVE  /\ Noted(s, acr, b) /\ Received(s, acr, b, 2) /\ Params(s, b)
           /\ DOMAIN b \subseteq Kept
<1> USE DEF Keeping
<1>1. /\ acr \in self.authenticators =>
            /\ acr \in Texting => {"randCode", "numbers"} \subseteq names
            /\ acr = "stytch" => "phone_id" \in names
            /\ acr = "otp" => "otp_auth_method" \in names
            /\ acr = "super_gluu" => "super_gluu_auth_method" \in names
      /\ names \subseteq Kept \cup {"otp_count_login_steps"}
  BY ExtraNames DEF Kept
<1>2. Params(s, b)
  <2>1. Pending(s, b)
    BY DEF Params, Pending
  <2>2. \A n : Value(b, n) = Value(w, n) \/ Value(b, n) = Value(a, n)
    BY DEF Value
  <2>3. /\ Regular(s, Value(b, "super_gluu_auth_method"))
        /\ Regular(s, Value(b, "super_gluu_request"))
    BY <2>2 DEF Params
  <2>4. QED
    BY <2>1, <2>3 DEF Params
<1>3. DOMAIN b \subseteq Kept
  BY <1>1 DEF Params
<1>4. CASE AskedForMore(s)
  BY <1>2, <1>3, <1>4 DEF Noted, Received, MayRefuse
<1>5. CASE ~AskedForMore(s)
  <2>1. Ready(s, acr, w) /\ acr \in self.authenticators
    BY <1>5 DEF Noted, Ready, Able
  <2>2. acr \in Texting => /\ "randCode" \in DOMAIN b /\ b.randCode = w.randCode
                           /\ "numbers" \in DOMAIN b <=> Entry(s).mobiles = 2
    BY <1>1, <2>1 DEF Ready, Params
  <2>3. acr = "stytch" /\ ~MayRefuse(s) =>
           "phone_id" \in DOMAIN b /\ b.phone_id = w.phone_id
    BY <1>1, <2>1 DEF Ready
  <2>4. "authenticate" # None /\ "enroll" # None
    BY SessionAssumption DEF Texts
  <2>5. acr = "otp" => Value(b, "otp_auth_method") = "authenticate"
    BY <1>1, <2>1, <2>4 DEF Ready, Value
  <2>6. acr = "super_gluu" /\ ~Exempt(Entry(s), "super_gluu") =>
           Value(b, "super_gluu_auth_method") \in {"authenticate", "enroll"}
    BY <1>1, <2>1, <2>4 DEF Ready, Value
  <2>7. Ready(s, acr, b)
    BY <2>1, <2>2, <2>3, <2>5, <2>6 DEF Ready
  <2>8. Noted(s, acr, b)
    BY <2>7 DEF Noted
  <2>9. Received(s, acr, b, 2)
    BY <2>2, <2>3 DEF Received
  <2>10. QED
    BY <1>2, <1>3, <2>8, <2>9
<1>6. QED
  BY <1>4, <1>5

\* The login goes to a step: the next one, or step 2 again.
LEMMA GoneStep ==
    ASSUME IInv, NEW s \in Session, NEW w, NEW step \in {2, 3}, NEW names,
           GoTo(s, w, step, names), Alone,
           step <= session[s].step => session[s].tries + 1 < MaxTries,
           "password" \in session[s].passed,
           NEW b, b = Restrict(w, names \cap DOMAIN w) ++ session[s].attrs,
           Params(s, b), Noted(s, Value(b, "ACR"), b),
           Received(s, Value(b, "ACR"), b, step), DOMAIN b \subseteq Kept,
           step = 3 => Value(b, "ACR") \in Texting
    PROVE  StepInv(s)
<1>1. Gone(s, w, step, names)
  BY GoToEffect DEF IInv
<1>2. /\ EntriesInv /\ LoginType(s) /\ Lasting /\ EntriesInv' /\ Shape' /\ Others(s)
  BY <1>1, AloneKeeps DEF IInv, LoginInv, Gone
<1>3. /\ session'[s].who = session[s].who /\ session'[s].user = session[s].user
      /\ session'[s].reply = session[s].reply /\ session'[s].passed = session[s].passed
      /\ session'[s].fault = session[s].fault /\ session'[s].got = session[s].got
      /\ session'[s].stage = "prepare" /\ session'[s].step = step
      /\ session'[s].work = <<>> /\ session'[s].attrs = b
      /\ session'[s].tries = IF step <= session[s].step THEN session[s].tries + 1
                                                        ELSE session[s].tries
  BY <1>1 DEF Gone, Same, Fields
<1>4. /\ session'[s].device = session[s].device /\ session'[s].city = session[s].city
      /\ {"device", "city"} \subseteq DOMAIN session'[s]
  BY <1>2 DEF LoginType, Others, Fields
<1>5. LoginType(s)'
  <2>1. session'[s].tries \in 0..(MaxTries - 1)
    BY <1>2, <1>3, SessionAssumption DEF LoginType
  <2>2. QED
    BY <1>2, <1>3, <1>4, <2>1 DEF LoginType, Stages
<1>6. /\ Entry(s)'.mobiles = Entry(s).mobiles
      /\ MayRefuse(s) => MayRefuse(s)'
      /\ \A m : Pending(s, m) => Pending(s, m)'
      /\ \A m : Params(s, m) => Params(s, m)'
      /\ \A acr, m : Noted(s, acr, m) => Noted(s, acr, m)'
  BY <1>2, <1>3, <1>4, Lasts
<1>7. NotesInv(s)'
  <2>1. Attr(s, "ACR")' = Value(b, "ACR")
    BY <1>3 DEF Attr
  <2>2. Params(s, session[s].attrs)'
    BY <1>3, <1>6 DEF Params
  <2>3. Noted(s, Attr(s, "ACR"), session[s].attrs)'
    BY <1>3, <1>6, <2>1
  <2>4. Received(s, Attr(s, "ACR"), session[s].attrs, session[s].step)'
    BY <1>3, <1>6, <2>1 DEF Received
  <2>5. DOMAIN session'[s].attrs \subseteq Kept
    BY <1>3
  <2>6. "password" \in session'[s].passed
    BY <1>3
  <2>7. session'[s].step = step
    BY <1>3
  <2>8. session'[s].step # 1 /\ (session'[s].step = 3 => Attr(s, "ACR")' \in Texting)
    BY <2>1, <2>7
  <2>9. QED
    BY <2>2, <2>3, <2>4, <2>5, <2>6, <2>8 DEF NotesInv
<1>8. PageInv(s)' /\ WellInv(s)' /\ Ends(s)'
  BY <1>3 DEF PageInv, WellInv, Ends, Well, Badly
<1>9. QED
  BY <1>2, <1>5, <1>7, <1>8 DEF StepInv, LoginInv

\* The login ends.
LEMMA ClosedStep ==
    ASSUME IInv, NEW s \in Session, NEW stage \in {"done", "refused"},
           Close(s, stage), Alone,
           stage = "refused" => Reason(s),
           stage = "done" /\ Entry(s).mobiles < 2 => FactorOrEarned(s)
    PROVE  StepInv(s)
<1>1. /\ Shape' /\ Others(s) /\ Same(s, Fields \ {"stage"}) /\ session'[s].stage = stage
  BY CloseEffect DEF IInv
<1>2. EntriesInv /\ LoginType(s) /\ NotesInv(s) /\ Lasting /\ EntriesInv'
  BY AloneKeeps DEF IInv, LoginInv
<1>3. /\ session'[s].who = session[s].who /\ session'[s].step = session[s].step
      /\ session'[s].tries = session[s].tries /\ session'[s].user = session[s].user
      /\ session'[s].reply = session[s].reply /\ session'[s].passed = session[s].passed
      /\ session'[s].attrs = session[s].attrs /\ session'[s].work = session[s].work
      /\ session'[s].fault = session[s].fault
  BY <1>1 DEF Same, Fields
<1>4. /\ session'[s].device = session[s].device /\ session'[s].city = session[s].city
      /\ {"device", "city"} \subseteq DOMAIN session'[s]
  BY <1>1, <1>2 DEF LoginType, Others, Fields
<1>5. LoginType(s)'
  BY <1>1, <1>2, <1>3, <1>4 DEF LoginType, Stages
<1>6. /\ Entry(s)'.mobiles = Entry(s).mobiles
      /\ Entry(s)'.preferred = Entry(s).preferred
      /\ \A m : Exempt(Entry(s), m)' = Exempt(Entry(s), m)
      /\ MayRefuse(s) => MayRefuse(s)'
      /\ Earned(s) => Earned(s)'
      /\ \A m : Pending(s, m) => Pending(s, m)'
      /\ \A m : Params(s, m) => Params(s, m)'
      /\ \A acr, m : Noted(s, acr, m) => Noted(s, acr, m)'
  BY <1>2, <1>3, <1>4, Lasts
<1>7. NotesInv(s)'
  BY <1>1, <1>2, <1>3, <1>6 DEF NotesInv, Attr
<1>8. PageInv(s)' /\ WellInv(s)'
  BY <1>1 DEF PageInv, WellInv, Well, Badly
<1>9. Ends(s)'
  <2>1. Reason(s) => Reason(s)'
    BY <1>3, <1>6 DEF Reason, Attr
  <2>2. FactorOrEarned(s) => FactorOrEarned(s)'
    BY <1>3, <1>6 DEF FactorOrEarned, Acr, OnPage, AskedForMore
  <2>3. QED
    BY <1>1, <1>6, <2>1, <2>2 DEF Ends, Badly
<1>10. QED
  BY <1>1, <1>2, <1>5, <1>7, <1>8, <1>9 DEF StepInv, LoginInv

\* The page is shown once more.
LEMMA AgainStep ==
    ASSUME IInv, NEW s \in Session, session[s].tries + 1 < MaxTries, Alone,
           Become(s, [stage |-> "prepare", work |-> <<>>,
                      tries |-> session[s].tries + 1]),
           Badly(s)
    PROVE  StepInv(s)
<1>1. /\ Shape' /\ Others(s) /\ Same(s, Fields \ {"stage", "work", "tries"})
      /\ session'[s].stage = "prepare" /\ session'[s].work = <<>>
      /\ session'[s].tries = session[s].tries + 1
  BY AgainEffect DEF IInv
<1>2. /\ EntriesInv /\ LoginType(s) /\ NotesInv(s) /\ Lasting /\ EntriesInv'
      /\ MayRefuse(s)
  BY AloneKeeps DEF IInv, LoginInv, Ends
<1>3. /\ session'[s].who = session[s].who /\ session'[s].step = session[s].step
      /\ session'[s].user = session[s].user
      /\ session'[s].reply = session[s].reply /\ session'[s].passed = session[s].passed
      /\ session'[s].attrs = session[s].attrs /\ session'[s].fault = session[s].fault
  BY <1>1 DEF Same, Fields
<1>4. /\ session'[s].device = session[s].device /\ session'[s].city = session[s].city
      /\ {"device", "city"} \subseteq DOMAIN session'[s]
  BY <1>1, <1>2 DEF LoginType, Others, Fields
<1>5. LoginType(s)'
  <2>1. session'[s].tries \in 0..(MaxTries - 1)
    BY <1>1, <1>2, SessionAssumption DEF LoginType
  <2>2. QED
    BY <1>1, <1>2, <1>3, <1>4, <2>1 DEF LoginType, Stages
<1>6. /\ Entry(s)'.mobiles = Entry(s).mobiles
      /\ MayRefuse(s)'
      /\ \A m : Pending(s, m) => Pending(s, m)'
      /\ \A m : Params(s, m) => Params(s, m)'
      /\ \A acr, m : Noted(s, acr, m) => Noted(s, acr, m)'
  BY <1>2, <1>3, <1>4, Lasts
<1>7. NotesInv(s)'
  <2>1. \A acr, m, step : Received(s, acr, m, step)'
    BY <1>6 DEF Received
  <2>2. QED
    BY <1>2, <1>3, <1>6, <2>1 DEF NotesInv, Attr
<1>8. PageInv(s)' /\ WellInv(s)' /\ Ends(s)'
  BY <1>1 DEF PageInv, WellInv, Ends, Well, Badly
<1>9. QED
  BY <1>1, <1>2, <1>5, <1>7, <1>8 DEF StepInv, LoginInv

\* What is equal name by name is worth the same.
LEMMA AlikeIsWorth ==
    ASSUME NEW m, NEW n, Alike(m, n)
    PROVE  /\ \A x : Value(m, x) = Value(n, x)
           /\ \A e, acr : Count(e, acr, m) = Count(e, acr, n)
           /\ \A s : Params(s, n) => Params(s, m)
           /\ \A s, acr : Noted(s, acr, n) => Noted(s, acr, m)
           /\ \A s, acr, step : Noted(s, acr, n) /\ Received(s, acr, n, step) =>
                                   Received(s, acr, m, step)
<1>1. DOMAIN m = DOMAIN n /\ \A x \in DOMAIN n : m[x] = n[x]
  BY DEF Alike
<1>2. \A x : Value(m, x) = Value(n, x)
  BY <1>1 DEF Value
<1>3. \A e, acr : Count(e, acr, m) = Count(e, acr, n)
  BY <1>2 DEF Count, TextCount, OtpCount, SuperGluuCount
<1>4. \A s : Params(s, n) => Params(s, m)
  BY <1>1, <1>2 DEF Params, Pending
<1>5. \A s, acr : Noted(s, acr, n) => Noted(s, acr, m)
  BY <1>1, <1>2 DEF Noted, Ready
<1>6. \A s, acr, step : Noted(s, acr, n) /\ Received(s, acr, n, step) =>
                           Received(s, acr, m, step)
  BY <1>1 DEF Noted, Ready, Received, MayRefuse
<1>7. QED
  BY <1>2, <1>3, <1>4, <1>5, <1>6

\* The steps of a plugin: one for who is not in its group, three for who has more
\* than one number to choose from.
LEMMA Counted ==
    ASSUME NEW s, NEW acr, NEW w, Params(s, w), acr \in Methods,
           Value(w, "super_gluu_count_login_steps") \in {None, 1, 2},
           Value(w, "super_gluu_count_login_steps") = 1 => Exempt(Entry(s), "super_gluu")
    PROVE  /\ Count(Entry(s), acr, w) \in 1..3
           /\ Count(Entry(s), acr, w) = 1 => Exempt(Entry(s), acr)
           /\ Count(Entry(s), acr, w) = 3 => acr \in Texting
<1> DEFINE n == Count(Entry(s), acr, w)
<1>1. CASE acr \in Texting
  <2>1. n = TextCount(w)
    <3>1. acr # "otp" /\ acr # "super_gluu" /\ acr # "duo"
      BY <1>1 DEF Texting
    <3>2. QED
      BY <1>1, <3>1 DEF Count
  <2>2. QED
    BY <1>1, <2>1 DEF TextCount
<1>2. CASE acr = "otp"
  <2>1. Value(w, "otp_count_login_steps") = None
    BY DEF Params, Value
  <2>2. n = OtpCount(w)
    BY <1>2 DEF Count, Texting
  <2>3. n = 2
    BY <2>1, <2>2 DEF OtpCount, OrTwo
  <2>4. QED
    BY <2>3
<1>3. CASE acr = "super_gluu"
  <2>1. n = SuperGluuCount(w)
    BY <1>3 DEF Count, Texting
  <2>2. n \in {1, 2} /\ (n = 1 => Exempt(Entry(s), "super_gluu"))
    BY <2>1 DEF SuperGluuCount, OrTwo
  <2>3. QED
    BY <1>3, <2>2
<1>4. CASE acr = "duo"
  <2>1. n = DuoCount(Entry(s))
    BY <1>4 DEF Count, Texting
  <2>2. QED
    BY <1>4, <2>1 DEF DuoCount
<1>5. CASE acr \notin Texting \cup {"otp", "super_gluu", "duo"}
  <2>1. n = 2
    BY <1>5 DEF Count
  <2>2. QED
    BY <2>1
<1>6. QED
  BY <1>1, <1>2, <1>3, <1>4, <1>5

\* ... and two for a method of which no module is loaded.
LEMMA StepsCounted ==
    ASSUME EntriesInv, NEW s, NEW acr, NEW w, Params(s, w), acr = Value(w, "ACR"),
           Value(w, "skip2FA") # TRUE,
           Value(w, "super_gluu_count_login_steps") \in {None, 1, 2},
           Value(w, "super_gluu_count_login_steps") = 1 => Exempt(Entry(s), "super_gluu")
    PROVE  /\ getCountAuthenticationSteps(s, w) \in 1..3
           /\ getCountAuthenticationSteps(s, w) = 1 =>
                 acr \in Methods /\ Exempt(Entry(s), acr)
           /\ getCountAuthenticationSteps(s, w) = 3 => acr \in Texting
<1> DEFINE n == getCountAuthenticationSteps(s, w)
<1>1. CASE acr \in self.authenticators
  <2>1. n = Count(Entry(s), acr, w)
    BY <1>1 DEF getCountAuthenticationSteps
  <2>2. acr \in Methods
    BY <1>1 DEF EntriesInv
  <2> HIDE DEF n
  <2>3. QED
    BY <2>1, <2>2, Counted DEF n
<1>2. CASE acr \notin self.authenticators
  <2>1. n = 2
    BY <1>2 DEF getCountAuthenticationSteps
  <2> HIDE DEF n
  <2>2. QED
    BY <2>1 DEF n
<1>3. QED
  BY <1>1, <1>2

\* Without another method, Proceed goes by the parameters of the request.
LEMMA Straight ==
    ASSUME NEW s, ~Switching(s), Proceed(s), session[s].step \in 1..3
    PROVE  LET w == session[s].work
               n == getCountAuthenticationSteps(s, w)
               next == session[s].step + 1
           IN  /\ session[s].stage = "answered" /\ Alone
               /\ \/ /\ Well(s) /\ session[s].step < n
                     /\ GoTo(s, w, next, getExtraParametersForStep(w, next))
                  \/ Well(s) /\ session[s].step >= n /\ Close(s, "done")
                  \/ /\ Badly(s) /\ session[s].tries + 1 < MaxTries
                     /\ Become(s, [stage |-> "prepare", work |-> <<>>,
                                   tries |-> session[s].tries + 1])
                  \/ Badly(s) /\ Close(s, "refused")
<1> DEFINE w == session[s].work
           n == getCountAuthenticationSteps(s, w)
           extra == [step \in Nat |-> getExtraParametersForStep(w, step)]
<1>1. Value(w, "alternativeMethod") = None
  BY DEF Switching, Value
<1>2. Changed(w) = w /\ getNextStep(w, session[s].step) = 0
  BY <1>1 DEF Changed, getNextStep
<1>3. Forward(s, w, 0, n, extra)
  BY <1>2 DEF Proceed
<1>4. extra[session[s].step + 1] = getExtraParametersForStep(w, session[s].step + 1)
  BY session[s].step + 1 \in Nat
<1> HIDE DEF extra, n
<1>5. QED
  BY <1>3, <1>4 DEF Forward, Well, Badly, n

\* A login that was refused is shown the page again, or ends.
LEMMA BadlyProceeds ==
    ASSUME IInv, NEW s \in Session, Badly(s), Proceed(s)
    PROVE  StepInv(s)
<1>1. LoginType(s) /\ PageInv(s) /\ MayRefuse(s)
  BY DEF IInv, LoginInv, Ends
<1>2. ~Switching(s) /\ session[s].step \in 1..3
  BY <1>1 DEF PageInv, LoginType
<1>3. ~Well(s)
  BY DEF Badly, Well
<1>4. Alone /\ \/ /\ session[s].tries + 1 < MaxTries
                  /\ Become(s, [stage |-> "prepare", work |-> <<>>,
                                tries |-> session[s].tries + 1])
               \/ Close(s, "refused")
  BY <1>2, <1>3, Straight
<1>5. CASE Close(s, "refused")
  <2>1. Reason(s)
    BY <1>1 DEF Reason
  <2>2. QED
    BY <1>4, <1>5, <2>1, ClosedStep
<1>6. CASE /\ session[s].tries + 1 < MaxTries
           /\ Become(s, [stage |-> "prepare", work |-> <<>>,
                         tries |-> session[s].tries + 1])
  BY <1>4, <1>6, AgainStep
<1>7. QED
  BY <1>4, <1>5, <1>6

\* The first step went well: the login ends if it may be skipped or has no other step,
\* or goes to the second step with what the plugin noted.
LEMMA FirstProceeds ==
    ASSUME IInv, NEW s \in Session, Well(s), session[s].step = 1, Proceed(s)
    PROVE  StepInv(s)
<1> DEFINE w == session[s].work
           acr == OnPage(s, "ACR")
           n == getCountAuthenticationSteps(s, w)
           names == getExtraParametersForStep(w, 2)
<1>1. EntriesInv /\ LoginType(s) /\ NotesInv(s) /\ WellInv(s)
  BY DEF IInv, LoginInv
<1>2. ~Switching(s) /\ ~Badly(s) /\ "password" \in session[s].passed /\ Params(s, w)
      /\ DOMAIN session[s].attrs = {} /\ Params(s, session[s].attrs)
  BY <1>1 DEF WellInv, NotesInv, Well, Badly
<1>3. Alone /\ \/ 1 < n /\ GoTo(s, w, 2, names)
               \/ 1 >= n /\ Close(s, "done")
  <2> DEFINE next == session[s].step + 1
  <2>1. /\ Alone
        /\ \/ /\ session[s].step < n
              /\ GoTo(s, w, next, getExtraParametersForStep(w, next))
           \/ session[s].step >= n /\ Close(s, "done")
    BY <1>2, session[s].step \in 1..3, Straight
  <2>2. next = 2
    OBVIOUS
  <2> HIDE DEF next, n
  <2>3. QED
    BY <2>1, <2>2
<1>4. CASE OnPage(s, "skip2FA") = TRUE
  <2>1. n = 1
    BY <1>4 DEF getCountAuthenticationSteps, OnPage
  <2>2. Close(s, "done")
    BY <1>3, <2>1
  <2>3. Entry(s).mobiles < 2 => FactorOrEarned(s)
    BY <1>1, <1>2, <1>4 DEF WellInv, FactorOrEarned
  <2>4. QED
    BY <1>3, <2>2, <2>3, ClosedStep
<1>5. CASE OnPage(s, "skip2FA") # TRUE
  <2>1. /\ Noted(s, acr, w) /\ Received(s, acr, w, 2)
        /\ Value(w, "super_gluu_count_login_steps") \in {None, 1, 2}
        /\ Value(w, "super_gluu_count_login_steps") = 1 => Exempt(Entry(s), "super_gluu")
    BY <1>1, <1>5 DEF WellInv, OnPage
  <2>2. acr # None
    BY <1>1, <2>1, DeviceAssumption DEF Noted, EntriesInv
  <2>3. acr = Value(w, "ACR") /\ Value(w, "skip2FA") # TRUE
    BY <1>5 DEF OnPage
  <2>4. n \in 1..3 /\ (n = 1 => acr \in Methods /\ Exempt(Entry(s), acr))
    BY <1>1, <1>2, <2>1, <2>3, StepsCounted
  <2> HIDE DEF n
  <2>5. CASE 1 >= n /\ Close(s, "done")
    <3>1. acr \in Methods /\ Exempt(Entry(s), acr)
      BY <2>4, <2>5
    <3>2. FactorOrEarned(s)
      BY <1>2, <3>1 DEF FactorOrEarned, Acr
    <3>3. QED
      BY <1>3, <2>5, <3>2, ClosedStep
  <2>6. CASE GoTo(s, w, 2, names)
    <3> DEFINE a == session[s].attrs
               b == Restrict(w, names \cap DOMAIN w) ++ a
    <3>1. names = {"ACR", "methods", "trustedDevicesInfo"} \cup
                  IF acr \in self.authenticators THEN Extra(acr, 2) ELSE {}
      BY DEF getExtraParametersForStep, OnPage
    <3>2. "ACR" \in DOMAIN w /\ w.ACR = acr
      BY <2>2 DEF OnPage, Value
    <3>3. Keeping(b, w, names, a)
      BY Restricted
    <3> HIDE DEF b, names
    <3>4. Value(b, "ACR") = acr
      BY <3>1, <3>2, <3>3 DEF Value, Keeping
    <3>5. DOMAIN a \subseteq Kept
      BY <1>2
    <3>6. /\ Noted(s, acr, b) /\ Received(s, acr, b, 2) /\ Params(s, b)
          /\ DOMAIN b \subseteq Kept
      BY <1>2, <2>1, <3>1, <3>3, <3>5, Taken
    <3>7. ~(2 <= session[s].step)
      OBVIOUS
    <3>8. b = Restrict(w, names \cap DOMAIN w) ++ session[s].attrs
      BY DEF b
    <3>9. QED
      BY <1>2, <1>3, <2>6, <3>4, <3>6, <3>7, <3>8, GoneStep
  <2>7. QED
    BY <1>3, <2>5, <2>6
<1>6. QED
  BY <1>4, <1>5

\* A later step went well: the login ends with its second factor, or a person of two
\* numbers has chosen one and goes to the third step.
LEMMA LaterProceeds ==
    ASSUME IInv, NEW s \in Session, Well(s), session[s].step # 1, ~Switching(s),
           Proceed(s)
    PROVE  StepInv(s)
<1> DEFINE w == session[s].work
           a == session[s].attrs
           acr == Attr(s, "ACR")
           n == getCountAuthenticationSteps(s, w)
           next == session[s].step + 1
           names == getExtraParametersForStep(w, next)
<1>1. EntriesInv /\ LoginType(s) /\ NotesInv(s) /\ WellInv(s)
  BY DEF IInv, LoginInv
<1>2. /\ "password" \in session[s].passed /\ Params(s, a) /\ DOMAIN a \subseteq Kept
      /\ Noted(s, acr, a) /\ Alike(w, a) /\ session[s].step \in 2..3
      /\ Entry(s).mobiles < 2 => Through(s)
      /\ session[s].step = 2 => Received(s, acr, a, 3)
  BY <1>1 DEF WellInv, NotesInv, LoginType
<1>3. /\ \A x : Value(w, x) = Value(a, x)
      /\ Params(s, w)
  BY <1>2, AlikeIsWorth
<1>4. /\ Value(w, "skip2FA") = None
      /\ Value(w, "super_gluu_count_login_steps") = None
      /\ Value(w, "ACR") = acr
  BY <1>2, <1>3 DEF Kept, Value, Attr
<1>5. Value(w, "skip2FA") # TRUE /\ Value(w, "super_gluu_count_login_steps") # 1
  <2>1. /\ TRUE \in BOOLEAN
        /\ 1 \in Nat
    OBVIOUS
  <2>2. None \notin BOOLEAN /\ None \notin Nat
    BY SessionAssumption
  <2>3. None # TRUE /\ None # 1
    BY <2>1, <2>2
  <2>4. QED
    BY <1>4, <2>3
<1>7. n \in 1..3 /\ (n = 3 => acr \in Texting)
  BY <1>1, <1>3, <1>4, <1>5, StepsCounted
<1>8. session[s].step \in 1..3 /\ ~Badly(s)
  BY <1>2 DEF Well, Badly
<1>9. Alone /\ \/ session[s].step < n /\ GoTo(s, w, next, names)
               \/ Close(s, "done")
  BY <1>8, Straight
<1> HIDE DEF n
<1>10. CASE Close(s, "done")
  <2>1. Entry(s).mobiles < 2 => FactorOrEarned(s)
    BY <1>2 DEF FactorOrEarned, Through
  <2>2. QED
    BY <1>9, <1>10, <2>1, ClosedStep
<1>11. CASE session[s].step < n /\ GoTo(s, w, next, names)
  <2> DEFINE b == Restrict(w, names \cap DOMAIN w) ++ a
  <2>1. session[s].step = 2 /\ next = 3 /\ acr \in Texting
    BY <1>2, <1>7, <1>11
  <2>2. GoTo(s, w, 3, names)
    BY <1>11, <2>1
  <2>3. Keeping(b, w, names, a)
    BY Restricted
  <2>4. b = Restrict(w, names \cap DOMAIN w) ++ session[s].attrs
    OBVIOUS
  <2> HIDE DEF b, names, next
  <2>5. Alike(b, a)
    BY <1>2, <2>3 DEF Alike, Keeping
  <2>6. /\ Value(b, "ACR") = acr /\ Params(s, b) /\ Noted(s, acr, b)
        /\ Received(s, acr, b, 3) /\ DOMAIN b \subseteq Kept
    <3>1. Value(b, "ACR") = acr
      BY <2>5, AlikeIsWorth DEF Attr
    <3>2. Params(s, b) /\ Noted(s, acr, b)
      BY <1>2, <2>5, AlikeIsWorth
    <3>3. Received(s, acr, b, 3)
      BY <1>2, <2>1, <2>5, AlikeIsWorth
    <3>4. DOMAIN b \subseteq Kept
      BY <1>2, <2>5 DEF Alike
    <3>5. QED
      BY <3>1, <3>2, <3>3, <3>4
  <2>7. ~(3 <= session[s].step)
    BY <2>1
  <2>8. QED
    BY <1>2, <1>9, <2>1, <2>2, <2>4, <2>6, <2>7, GoneStep
<1>12. QED
  BY <1>9, <1>10, <1>11

\* Another method was chosen: the login goes to its second step, with what the plugin
\* of that method noted.
LEMMA SwitchProceeds ==
    ASSUME IInv, NEW s \in Session, Well(s), session[s].step # 1, Switching(s), Proceed(s)
    PROVE  StepInv(s)
<1> DEFINE w == session[s].work
           a == session[s].attrs
           alter == w.alternativeMethod
           w2 == Changed(w)
           names == getExtraParametersForStep(w2, 2)
           b == Restrict(w2, names \cap DOMAIN w2) ++ a
           extra == [step \in Nat |-> getExtraParametersForStep(w2, step)]
<1>1. EntriesInv /\ LoginType(s) /\ NotesInv(s) /\ WellInv(s)
  BY DEF IInv, LoginInv
<1>2. /\ "password" \in session[s].passed /\ Params(s, w)
      /\ Params(s, a) /\ DOMAIN a \subseteq Kept
      /\ session[s].tries + 1 < MaxTries
      /\ Noted(s, alter, w) /\ Received(s, alter, w, 2)
  BY <1>1 DEF WellInv, NotesInv
<1>3. alter \in Methods \cup {"other"}
  BY <1>1, <1>2 DEF Noted, EntriesInv
<1>4. "alternativeMethod" \in DOMAIN w /\ Value(w, "alternativeMethod") = alter
      /\ alter # None
  BY <1>3, DeviceAssumption DEF Switching, Value
<1>5. w2 = [ACR |-> alter] ++ w
  BY <1>4 DEF Changed
<1>6. /\ DOMAIN w2 = {"ACR"} \cup DOMAIN w /\ w2.ACR = alter
      /\ \A x \in DOMAIN w \ {"ACR"} : w2[x] = w[x]
  <2>1. DOMAIN [ACR |-> alter] = {"ACR"} /\ [ACR |-> alter].ACR = alter
    OBVIOUS
  <2>2. QED
    BY <1>5, <2>1 DEF ++
<1>7. Alone /\ GoTo(s, w2, 2, names)
  <2>1. Forward(s, w2, 2, getCountAuthenticationSteps(s, w2), extra)
    <3>1. getNextStep(w2, session[s].step) = 2
      <4>1. Value(w2, "alternativeMethod") = alter
        BY <1>4, <1>6 DEF Value
      <4>2. QED
        BY <1>4, <4>1 DEF getNextStep
    <3>2. QED
      BY <3>1 DEF Proceed
  <2>2. extra[2] = names
    OBVIOUS
  <2>3. session[s].tries + 1 # MaxTries
    BY <1>1, <1>2, SessionAssumption DEF LoginType
  <2> HIDE DEF extra, names, w2
  <2>4. QED
    BY <2>1, <2>2, <2>3 DEF Forward
<1>8. names = {"ACR", "methods", "trustedDevicesInfo"} \cup
              IF alter \in self.authenticators THEN Extra(alter, 2) ELSE {}
  BY <1>6 DEF getExtraParametersForStep, Value
<1>9. Keeping(b, w2, names, a)
  BY Restricted
<1>10. b = Restrict(w2, names \cap DOMAIN w2) ++ session[s].attrs
  OBVIOUS
<1> HIDE DEF b, names, w2
<1>11. Params(s, w2) /\ Noted(s, alter, w2) /\ Received(s, alter, w2, 2)
  <2>1. Params(s, w2)
    BY <1>2, <1>6 DEF Params, Pending, Value
  <2>2. Noted(s, alter, w2)
    BY <1>2, <1>6 DEF Noted, Ready, Value
  <2>3. Received(s, alter, w2, 2)
    BY <1>2, <1>6 DEF Received, Noted, Ready, MayRefuse
  <2>4. QED
    BY <2>1, <2>2, <2>3
<1>12. Value(b, "ACR") = alter
  BY <1>6, <1>8, <1>9 DEF Value, Keeping
<1>13. /\ Noted(s, alter, b) /\ Received(s, alter, b, 2) /\ Params(s, b)
       /\ DOMAIN b \subseteq Kept
  BY <1>2, <1>8, <1>9, <1>11, Taken
<1>14. /\ Noted(s, Value(b, "ACR"), b) /\ Received(s, Value(b, "ACR"), b, 2)
       /\ 2 <= session[s].step => session[s].tries + 1 < MaxTries
       /\ 2 = 3 => Value(b, "ACR") \in Texting
  BY <1>2, <1>12, <1>13
<1>15. QED
  BY <1>2, <1>7, <1>10, <1>13, <1>14, GoneStep

\* However authenticate answered.
LEMMA ProceedStep ==
    ASSUME IInv, NEW s \in Session, Proceed(s)
    PROVE  StepInv(s)
<1>1. session[s].stage = "answered" /\ session[s].reply \in BOOLEAN
  BY DEF Proceed, Forward, IInv, LoginInv, LoginType
<1>2. Well(s) \/ Badly(s)
  BY <1>1 DEF Well, Badly
<1>3. QED
  BY <1>2, BadlyProceeds, FirstProceeds, LaterProceeds, SwitchProceeds

-----------------------------------------------------------------------------
\* A step of the server, whichever method of the script it calls.
LEMMA LoginStep ==
    ASSUME IInv, NEW s \in Session, prepareForStep(s) \/ authenticate(s) \/ Proceed(s)
    PROVE  StepInv(s)
<1>1. CASE authenticate(s)
  <2>1. ASSUME NEW platform \in {session[s].device, None},
               NoMethod(s, platform) \/ FirstStep(s, platform)
        PROVE  StepInv(s)
    BY <2>1, NoMethodStep, FirstStepKeeps
  <2>2. QED
    BY <1>1, <2>1, PasswordOnlyStep, WrongPasswordStep, SimulateStep, SecondStepKeeps
       DEF authenticate
<1>2. QED
  BY <1>1, PrepareStep, ProceedStep

\* Nothing happens.
LEMMA Stutter == IInv /\ UNCHANGED state => IInv'
<1> SUFFICES ASSUME IInv, UNCHANGED state PROVE IInv'
  OBVIOUS
<1>1. Alone /\ UNCHANGED session
  BY DEF state, Alone
<1>2. Lasting /\ EntriesInv'
  BY <1>1, AloneKeeps DEF IInv
<1>3. Shape'
  BY <1>1 DEF IInv, Shape
<1>4. QED
  BY <1>1, <1>2, <1>3, LoginKept DEF IInv

-----------------------------------------------------------------------------
\* A device that was seen in its places, and in one that was not known, is vouched for.
LEMMA PlacesVouch ==
    ASSUME NEW criteria, NEW trusted PROVE Vouched(criteria, trusted, Places(trusted))
<1>1. ASSUME NEW d \in DOMAIN trusted, NEW c \in trusted[d] \cup {None}
      PROVE  <<d, c>> \in Places(trusted)
  BY DEF Places
<1>2. \A d \in DOMAIN trusted : \E place \in Places(trusted) : place[1] = d
  <2> TAKE d \in DOMAIN trusted
  <2>1. <<d, None>> \in Places(trusted)
    BY <1>1
  <2>2. <<d, None>>[1] = d
    OBVIOUS
  <2>3. QED
    BY <2>1, <2>2
<1>3. \A d \in DOMAIN trusted : \A c \in trusted[d] :
         \E place \in Places(trusted) : place[1] = d /\ place[2] = c
  <2> TAKE d \in DOMAIN trusted
  <2> TAKE c \in trusted[d]
  <2>1. <<d, c>> \in Places(trusted)
    BY <1>1
  <2>2. <<d, c>>[1] = d /\ <<d, c>>[2] = c
    OBVIOUS
  <2>3. QED
    BY <2>1, <2>2
<1>4. QED
  BY <1>2, <1>3 DEF Vouched

\* What all logins share holds at first: an entry trusts only what it was given to.
LEMMA EntriesAtFirst == Init => EntriesInv
<1> SUFFICES ASSUME Init PROVE EntriesInv
  OBVIOUS
<1>1. PICK load \in Loads :
         /\ self = [authenticators |-> Loaded(load)]
         /\ \E e \in [Person -> Initial(load.mapped)] :
               person = [p \in Person |-> [proved |-> Places(e[p].trusted)] ++ e[p]]
  BY DEF Init
<1>2. PICK e \in [Person -> Initial(load.mapped)] :
         person = [p \in Person |-> [proved |-> Places(e[p].trusted)] ++ e[p]]
  BY <1>1
<1>3. self.authenticators \subseteq Methods
  BY <1>1, DeviceAssumption DEF Loaded, computeMethods
<1>4. ASSUME NEW p \in Person PROVE EntryInv(person[p])
  <2> DEFINE f == e[p]
             g == [proved |-> Places(f.trusted)] ++ f
  <2>1. f \in Initial(load.mapped)
    BY <1>2
  <2>2. /\ DOMAIN f = EntryFields /\ f.mobiles \in 0..2
        /\ f.stytched \in {"none", "this", "other"} /\ f.trusted \in Trusted
    BY <2>1 DEF Initial, EntryFields
  <2>3. person[p] = g
    BY <1>2
  <2> HIDE DEF f
  <2>4. /\ DOMAIN g = EntryFields /\ g.mobiles = f.mobiles /\ g.stytched = f.stytched
        /\ g.trusted = f.trusted /\ g.proved = Places(f.trusted)
    <3>1. DOMAIN [proved |-> Places(f.trusted)] = {"proved"}
      OBVIOUS
    <3>2. QED
      BY <2>2, <3>1 DEF ++, EntryFields
  <2> HIDE DEF g
  <2>5. Known(g.trusted)
    BY <2>2, <2>4, DeviceAssumption DEF Known
  <2>6. Vouched(Policy(g) \cap Criteria, g.trusted, g.proved)
    BY <2>4, PlacesVouch
  <2>7. EntryInv(g)
    BY <2>2, <2>4, <2>5, <2>6 DEF EntryInv
  <2>8. QED
    BY <2>3, <2>7
<1>5. DOMAIN person = Person
  BY <1>2
<1>6. QED
  BY <1>3, <1>4, <1>5 DEF EntriesInv

\* A login before its first request has nothing but its browser and place.
LEMMA LoginsAtFirst == Init => Shape /\ \A s \in Session : LoginInv(s)
<1> SUFFICES ASSUME Init PROVE Shape /\ \A s \in Session : LoginInv(s)
  OBVIOUS
<1>1. PICK at \in Logins :
         session = [s \in Session |-> at[s] ++ NewSession(at[s].who, <<>>)]
  BY DEF Init
<1>2. ASSUME NEW s \in Session
      PROVE  Fields \subseteq DOMAIN session[s] /\ LoginInv(s)
  <2> DEFINE r == at[s]
             new == NewSession(r.who, <<>>)
  <2>1. /\ DOMAIN r = {"who", "device", "city", "tries"}
        /\ r.who \in Person /\ r.device \in Device /\ r.city \in City
        /\ r.tries \in 0..(MaxTries - 1)
    <3>1. at \in [Session -> [who : Person, device : Device, city : City,
                              tries : 0..(MaxTries - 1)]]
      BY <1>1, DeviceAssumption
    <3>2. r \in [who : Person, device : Device, city : City, tries : 0..(MaxTries - 1)]
      BY <3>1
    <3> HIDE DEF r
    <3>3. QED
      BY <3>2
  <2>2. /\ DOMAIN new = Fields /\ new.attrs = <<>> /\ new.work = <<>> /\ new.user = None
        /\ new.stage = "prepare" /\ new.step = 1 /\ new.reply = TRUE
        /\ new.fault = FALSE
    BY DEF NewSession, Fields
  <2>3. session[s] = r ++ new
    BY <1>1
  <2> HIDE DEF r, new
  <2>4. /\ DOMAIN session[s] = Fields \cup {"device", "city"}
        /\ session[s].who = r.who /\ session[s].device = r.device
        /\ session[s].city = r.city /\ session[s].tries = r.tries
        /\ session[s].attrs = <<>> /\ session[s].work = <<>> /\ session[s].user = None
        /\ session[s].stage = "prepare" /\ session[s].step = 1
        /\ session[s].reply = TRUE /\ session[s].fault = FALSE
    BY <2>1, <2>2, <2>3 DEF ++, Fields
  <2>5. LoginType(s)
    <3>1. "prepare" \in Stages /\ 1 \in 1..3 /\ TRUE \in BOOLEAN
      BY DEF Stages
    <3>2. {"device", "city"} \subseteq DOMAIN session[s]
      BY <2>4
    <3>3. QED
      BY <2>1, <2>4, <3>1, <3>2 DEF LoginType
  <2>6. DOMAIN session[s].attrs = {}
    BY <2>4
  <2>7. NotesInv(s)
    <3>1. Params(s, session[s].attrs)
      BY <2>6 DEF Params, Pending, Regular, Value
    <3>2. QED
      BY <2>4, <2>6, <3>1 DEF NotesInv
  <2>8. PageInv(s) /\ WellInv(s) /\ Ends(s)
    BY <2>4 DEF PageInv, WellInv, Ends, Well, Badly
  <2>9. QED
    BY <2>4, <2>5, <2>7, <2>8 DEF LoginInv
<1>3. DOMAIN session = Session
  BY <1>1
<1>4. QED
  BY <1>2, <1>3 DEF Shape

-----------------------------------------------------------------------------
\* Whatever the plugins that are mapped, their properties, the policy, the entries and
\* the number of logins: the inductive invariant of the script of Casa.
THEOREM Invariance == Spec => []IInv
<1>1. Init => IInv
  BY EntriesAtFirst, LoginsAtFirst DEF IInv
<1>2. IInv /\ [Next]_state => IInv'
  <2> SUFFICES ASSUME IInv, [Next]_state PROVE IInv'
    OBVIOUS
  <2>1. ASSUME NEW s \in Session, prepareForStep(s) \/ authenticate(s) \/ Proceed(s)
        PROVE  IInv'
    BY <2>1, LoginStep, OneForAll
  <2>2. ASSUME UNCHANGED state PROVE IInv'
    BY <2>2, Stutter
  <2>3. QED
    BY <2>1, <2>2 DEF Next
<1>3. QED
  BY <1>1, <1>2, PTL DEF Spec

\* A login has a method after step 1 and at most three steps, also after it has
\* changed to another method, and the entry knows places of this model only.
THEOREM TypeCorrect == Spec => []TypeOK
<1>1. IInv => TypeOK
  <2> SUFFICES ASSUME IInv PROVE TypeOK
    OBVIOUS
  <2>1. self.authenticators \subseteq Methods
    BY DEF IInv, EntriesInv
  <2>2. ASSUME NEW s \in Session
        PROVE  /\ session[s].stage \in Stages
               /\ session[s].step \in 1..3
               /\ session[s].tries \in 0..(MaxTries - 1)
               /\ session[s].user \in {None, session[s].who}
               /\ session[s].step > 1 => Attr(s, "ACR") \in Methods \cup {"other"}
    <3>1. LoginType(s) /\ NotesInv(s)
      BY DEF IInv, LoginInv
    <3>2. session[s].step > 1 => session[s].step # 1
      BY <3>1 DEF LoginType
    <3>3. QED
      BY <2>1, <3>1, <3>2 DEF LoginType, NotesInv, Noted
  <2>3. ASSUME NEW p \in Person
        PROVE  /\ DOMAIN person[p].trusted \subseteq Device
               /\ UNION Range(person[p].trusted) \subseteq City
    <3>1. Known(person[p].trusted)
      BY DEF IInv, EntriesInv, EntryInv
    <3>2. QED
      BY <3>1 DEF Known, Range
  <2>4. QED
    BY <2>1, <2>2, <2>3 DEF TypeOK
<1>2. QED
  BY <1>1, Invariance, PTL

\* A login that ends well came through the password and a second factor the person
\* had, or the policy let it off for a factor that was passed before with this browser
\* or in this place: however many logins of a person write the trusted devices of the
\* entry at once, and whatever methods are asked for on the way.  A factor that was
\* enrolled by the login itself does for who asked for what the page did not offer,
\* and for nobody else.
THEOREM FactorEarned == Spec => []FactorOrEarnedSkip
<1>1. IInv => FactorOrEarnedSkip
  BY DEF IInv, LoginInv, Ends, FactorOrEarnedSkip
<1>2. QED
  BY <1>1, Invariance, PTL

\* A login is turned away only when something went wrong with it, it asked for what
\* the page did not offer, or for one of the three reasons that the plugins have:
\* never because of what a plugin left, or did not leave, for the requests that follow.
THEOREM RefusedRightly == Spec => []RefusedForAKnownReason
<1>1. IInv => RefusedForAKnownReason
  BY DEF IInv, LoginInv, Ends, Reason, MayRefuse, RefusedForAKnownReason
<1>2. QED
  BY <1>1, Invariance, PTL
=============================================================================
