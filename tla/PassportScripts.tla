--------------------------- MODULE PassportScripts ---------------------------
(***************************************************************************)
(* PassportExternalAuthenticator and SamlPassportAuthenticator: a provider *)
(* elsewhere vouches for the person with a signed profile, and the scripts *)
(* find, link, update or add the person's entry.  A page asks for the mail *)
(* address when the profile has none and the provider's settings want one. *)
(*                                                                         *)
(* Of an entry the scripts look at: account, whether there is one; uids,   *)
(* its link to the provider; mail, whether it has an address.  Of the      *)
(* profile that they write into it only the address is looked at again.    *)
(***************************************************************************)
EXTENDS CertificateScript

PassportInit == {"key_store_file", "key_store_password"} \subseteq conf

PassportExtra ==
    [step \in {1, 2} |-> IF step = 1 THEN {"selectedProvider"}
                                     ELSE {"passport_user_profile"}]

Skip(s) == Attr(s, "skipPassportProfileUpdate") # None

(* prepareForStep(1) notes in the script object whether this login wants   *)
(* the profile left alone, and leaves for the provider if one was chosen.  *)
PassportPrepare(s) ==
    \/ /\ At(s, "prepare", 1)
       /\ self' = [self EXCEPT !.skipProfileUpdate = Skip(s)]
       /\ Show(s, PassportExtra[1], [selectedProvider |-> None])
       /\ UNCHANGED <<script, conf, person>>
    \/ At(s, "prepare", 2) /\ Show(s, {}, <<>>) /\ Alone

(* updateUser and addUser. *)
Profiled(s, e, mail, skip) ==
    [mail |-> e.mail \/ (mail /\ ~skip)] ++ e

(* attemptAuthentication, with or without an address, when the script      *)
(* object says skip.  An address that is already another account's is not  *)
(* considered: a person has one account, which the address leads to.       *)
Write(s, e) == person' = [person EXCEPT ![session[s].who] = e]

(* Whether the address leads to an account, and what is to be done with    *)
(* the entry: it is updated, added, or, when neither, access is denied.    *)
byMail(e, mail) == mail /\ e.account /\ e.mail
doUpdate(e, mail) ==
    e.uids # {} \/ (byMail(e, mail) /\ "emailLinkingSafe" \in conf)
doAdd(e, mail) == e.uids = {} /\ ~byMail(e, mail)

Attempt(s, mail, skip) ==
    LET e == Entry(s)
        linked == [uids |-> {"passport"}] ++ e
        in == [user |-> session[s].who] ++ Passing(s, "provider")
    IN  \/ /\ doUpdate(e, mail)
           /\ Answer(s, in)
           /\ Write(s, Profiled(s, linked, mail, skip))
        \/ /\ doAdd(e, mail)
           /\ Answer(s, in)
           /\ Write(s, Profiled(s, [account |-> TRUE] ++ linked, mail, FALSE))
        \/ Refuse(s, Fault) /\ UNCHANGED person

(* The address is asked for when neither the profile nor the linked entry  *)
(* has one; given says that the profile has one.                           *)
EntryMail(s) == Entry(s).uids # {} /\ Entry(s).mail
AsksForMail(s, given) ==
    ~given /\ "requestForEmail" \in conf /\ ~EntryMail(s)
Mail(s, given) == given \/ ("requestForEmail" \in conf /\ EntryMail(s))

(* authenticate(1): the provider's answer, which has to be signed and not  *)
(* too old; a password of this server; or the choice of a provider.  found *)
(* is the entry as the search for its link leaves it.                      *)
ProfileAnswer(s, found) ==
    /\ At(s, "page", 1)
    /\ self' = [self EXCEPT !.skipProfileUpdate = Skip(s)]
    /\ UNCHANGED <<script, conf>>
    /\ \E given \in BOOLEAN :
       \/ /\ AsksForMail(s, given)
          /\ Answer(s, Setting(s, [passport_user_profile |-> "profile"]))
          /\ Write(s, found)
       \/ /\ ~AsksForMail(s, given)
          /\ Attempt(s, Mail(s, given), Skip(s))

PassportAnswer(s) == ProfileAnswer(s, Entry(s))

PassportInvalid(s) == At(s, "page", 1) /\ Refuse(s, Fault) /\ Alone

PassportPassword(s) ==
    /\ At(s, "page", 1)
    /\ Entry(s).account
    /\ \E right \in BOOLEAN :
          IF PasswordAccepted(s, right)
          THEN Answer(s, [user |-> session[s].who] ++ Passing(s, "provider"))
          ELSE Refuse(s, Fault)
    /\ Alone

PassportChoice(s) ==
    /\ At(s, "page", 1) /\ session[s].tries + 1 < MaxTries
    /\ Answer(s, Setting(s, [selectedProvider |-> "provider"]))
    /\ Alone

(* authenticate(2): the address the person types completes the profile.    *)
(* What the script object says of updates was left by the last login that  *)
(* began or answered.                                                      *)
PassportMail(s) ==
    /\ At(s, "page", 2)
    /\ Attr(s, "passport_user_profile") # None
    /\ \/ Attempt(s, TRUE, self.skipProfileUpdate)
       \/ Refuse(s, Fault) /\ UNCHANGED person
    /\ UNCHANGED <<script, conf, self>>

PassportNext(s, work) ==
    IF session[s].step = 1 /\ Value(work, "selectedProvider") # None THEN 1 ELSE 0
PassportCount(work) ==
    IF Value(work, "passport_user_profile") # None THEN 2 ELSE 1

PassportAuthenticate(s) ==
    \/ PassportAnswer(s) \/ PassportInvalid(s)
    \/ PassportPassword(s) \/ PassportChoice(s) \/ PassportMail(s)

-----------------------------------------------------------------------------
(* What SamlPassportAuthenticator adds.  The state parameter of the        *)
(* authorization request may carry the provider's profile itself (a login  *)
(* that the provider began): then nothing is asked of the person.  It is   *)
(* looked at in every step, and taken for a string.                        *)
Inbound(s) == Attr(s, "state") = "profile"
NoState(s) == Attr(s, "state") = None

SamlPrepare(s) == PassportPrepare(s)

(* getUserByExternalUid rewrites a link of the old form.                   *)
SamlLink(e) == IF e.uids = {"saml"} THEN [uids |-> {"passport"}] ++ e ELSE e

SamlAuthenticate(s) ==
    \/ At(s, "page", 1) /\ NoState(s) /\ Refuse(s, <<>>) /\ Alone
    \/ /\ ~NoState(s)
       /\ ProfileAnswer(s, SamlLink(Entry(s))) \/ PassportInvalid(s)
    \/ /\ ~NoState(s) /\ ~Inbound(s)
       /\ PassportPassword(s) \/ PassportChoice(s)
    \/ PassportMail(s)
=============================================================================
