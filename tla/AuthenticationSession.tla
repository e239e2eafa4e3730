------------------------ MODULE AuthenticationSession ------------------------
(***************************************************************************)
(* What the person authentication scripts under static/ share: the state a *)
(* script sees while the server calls it, and the forms its answers take.  *)
(*                                                                         *)
(* A script is one object for every login (self).  For each login the      *)
(* server keeps a session.  Each call of the script works on the working   *)
(* parameters of one request (work); of these, only the ones the script    *)
(* names in getExtraParametersForStep are put in the session (attrs) and   *)
(* found again by the next request.  Some scripts write session attributes *)
(* directly.  The entry of a person outlives the session.                  *)
(*                                                                         *)
(* Every module of a family of scripts extends this one and defines, for   *)
(* each script, what its methods do; module PersonAuthentication is the    *)
(* server that calls them.                                                 *)
(***************************************************************************)
EXTENDS Naturals, FiniteSets, Functions

CONSTANTS
    Session,      \* the logins that go on at the same time
    Person,       \* the people who log in
    None,         \* a value that is not there (None of Python)
    MaxTries      \* bound: pages a person answers in one login

(* The texts that a script leaves for a later request, and looks for there, *)
(* or looks for as the status of an entry.                                 *)
Texts == {"enroll", "authenticate", "register", "timeout", "one_step", "started",
          "approved", "cert", "profile", "provider", "text", "inactive", "several"}

ASSUME SessionAssumption ==
    /\ None \notin Session \cup Person \cup Texts \cup Nat \cup BOOLEAN
    /\ MaxTries \in Nat \ {0}

VARIABLES
    script,       \* the script that serves the logins
    conf,         \* its configuration attributes
    self,         \* the attributes of the script object
    session,      \* the logins
    person        \* the entries of the people, and what they hold

state == <<script, conf, self, session, person>>

Stages == {"prepare", "working", "page", "answered", "done", "refused"}

(* A record or map with new fields, or new values of fields it has; and    *)
(* the map of one name.                                                    *)
new ++ old == [x \in DOMAIN new \cup DOMAIN old |->
                 IF x \in DOMAIN new THEN new[x] ELSE old[x]]
Single(name, value) == [x \in {name} |-> value]

(* A login before its first request: who sits there, and what the          *)
(* authorization request left in the session.                              *)
(* user is the person the server takes the login to be; passed are the     *)
(* checks that person came through; fault says that the login met          *)
(* something that is a reason to refuse it: a mistake, a cancelled or      *)
(* expired page, a service that failed, a configuration left incomplete.   *)
NewSession(p, attrs) ==
    [who |-> p, user |-> None, stage |-> "prepare", step |-> 1,
     work |-> <<>>,
     attrs |-> attrs,
     reply |-> TRUE, passed |-> {},
     fault |-> FALSE, tries |-> 0, got |-> None]

(* What a request finds of that name in the session, as a working          *)
(* parameter or as a session attribute, and what the page in front of the  *)
(* person was given.                                                       *)
Value(map, name) == IF name \in DOMAIN map THEN map[name] ELSE None
Attr(s, name) == Value(session[s].attrs, name)
OnPage(s, name) == Value(session[s].work, name)

At(s, stage, step) == session[s].stage = stage /\ session[s].step = step

Become(s, changes) == session' = [session EXCEPT ![s] = changes ++ @]

Setting(s, values) == [work |-> values ++ session[s].attrs]
Putting(s, values) == [attrs |-> values ++ session[s].attrs]
Passing(s, check) == [passed |-> session[s].passed \cup {check}]
Fault == [fault |-> TRUE]

(* The answers of authenticate: True, False, or an exception, which the    *)
(* server takes for False.  What else changes is a record of the fields of *)
(* the session that get new values.                                        *)
Answer(s, changes) ==
    Become(s, changes ++ [stage |-> "answered", reply |-> TRUE,
                          work |-> session[s].attrs])
Refuse(s, changes) ==
    Become(s, changes ++ [stage |-> "answered", reply |-> FALSE,
                          work |-> session[s].attrs])

(* The answers of prepareForStep: the page is shown with the values the    *)
(* script set, of which the named ones stay in the session; or there is no *)
(* page to show.                                                           *)
Show(s, names, values) ==
    Become(s, [stage |-> "page", work |-> values ++ session[s].attrs,
               attrs |-> Restrict(values, names \cap DOMAIN values)
                             ++ session[s].attrs])
Hide(s, changes) == Become(s, changes ++ [stage |-> "refused"])

Alone == UNCHANGED <<script, conf, self, person>>

(* The server takes the answer of authenticate: it goes to the step the    *)
(* script names (next, 0 for none), shows a page once more, goes to the    *)
(* next step, or ends the login.  Of the working parameters the ones that  *)
(* the script names for the new step are kept.                             *)
GoTo(s, work, step, names) ==
    LET r == session[s]
    IN  Become(s, [stage |-> "prepare", step |-> step, work |-> <<>>,
                   tries |-> IF step <= r.step THEN r.tries + 1 ELSE r.tries,
                   attrs |-> Restrict(work, names \cap DOMAIN work) ++ r.attrs])

Close(s, stage) == Become(s, [stage |-> stage])

Forward(s, work, next, count, extra) ==
    LET r == session[s]
    IN  /\ r.stage = "answered"
        /\ Alone
        /\ \/ /\ next # 0 /\ r.tries + 1 < MaxTries
              /\ GoTo(s, work, next, extra[next])
           \/ /\ next = 0 /\ r.reply /\ r.step < count
              /\ GoTo(s, work, r.step + 1, extra[r.step + 1])
           \/ /\ next = 0 /\ r.reply /\ r.step >= count
              /\ Close(s, "done")
           \/ /\ next = 0 /\ ~r.reply /\ r.tries + 1 < MaxTries
              /\ Become(s, [stage |-> "prepare", work |-> <<>>,
                            tries |-> r.tries + 1])
           \/ /\ (next # 0 \/ ~r.reply) /\ r.tries + 1 = MaxTries
              /\ Close(s, "refused")

-----------------------------------------------------------------------------
(* The person at the page.  authenticationService.authenticate(name,       *)
(* password) succeeds for the right password of an active entry, and makes *)
(* the person the authenticated user; typing the password of someone else  *)
(* is not considered.                                                      *)
PasswordAccepted(s, right) ==
    right /\ person[session[s].who].status # "inactive"

LoggedIn(s) == [user |-> session[s].who] ++ Passing(s, "password")

(* getFirstValue of a request parameter that comes from the person's       *)
(* device: a good answer, a bad one, or none because the page expired.     *)
DeviceAnswers == {"good", "bad", "missing"}
=============================================================================
