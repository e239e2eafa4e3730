--------------------- MODULE AuthenticationSession_proofs ---------------------
(***************************************************************************)
(* What the forms of a script's answer do to the session, as facts about   *)
(* its fields: the lemmas that every proof about a script begins with.     *)
(***************************************************************************)
EXTENDS AuthenticationSession, TLAPS

\* The fields of a login (NewSession); there may be more.
Fields == {"who", "user", "stage", "step", "work", "attrs", "reply", "passed",
           "fault", "tries", "got"}

\* Every login has these fields.
Shape == /\ DOMAIN session = Session
         /\ \A s \in Session : Fields \subseteq DOMAIN session[s]

\* The logins that a step of one leaves alone, and what else this one has.
Others(s) == /\ \A t \in Session \ {s} : session'[t] = session[t]
             /\ \A f \in DOMAIN session[s] \ Fields :
                   f \in DOMAIN session'[s] /\ session'[s][f] = session[s][f]

\* The fields that a step of the login leaves alone.
Same(s, fields) == \A f \in fields : session'[s][f] = session[s][f]

\* What a login is at first is a record of these fields.
LEMMA NewSessionShape ==
    ASSUME NEW p, NEW attrs
    PROVE  /\ DOMAIN NewSession(p, attrs) = Fields
           /\ NewSession(p, attrs).who = p
           /\ NewSession(p, attrs).attrs = attrs
           /\ NewSession(p, attrs).work = <<>>
           /\ NewSession(p, attrs).user = None
           /\ NewSession(p, attrs).stage = "prepare"
           /\ NewSession(p, attrs).step = 1
           /\ NewSession(p, attrs).reply = TRUE
           /\ NewSession(p, attrs).fault = FALSE
           /\ NewSession(p, attrs).tries = 0
           /\ NewSession(p, attrs).got = None
BY DEF NewSession, Fields

\* A name is found among the new values first.
LEMMA ValueOver ==
    ASSUME NEW new, NEW old, NEW n
    PROVE  /\ DOMAIN (new ++ old) = DOMAIN new \cup DOMAIN old
           /\ n \in DOMAIN new => (new ++ old)[n] = new[n]
           /\ n \in DOMAIN new => Value(new ++ old, n) = new[n]
           /\ n \notin DOMAIN new => Value(new ++ old, n) = Value(old, n)
BY DEF ++, Value

\* Of the values of a request the session keeps the ones that are named.
LEMMA ValueKept ==
    ASSUME NEW values, NEW names, NEW old, NEW n
    PROVE  LET kept == Restrict(values, names \cap DOMAIN values) ++ old
           IN  Value(kept, n) = IF n \in names /\ n \in DOMAIN values
                                THEN values[n] ELSE Value(old, n)
BY DEF ++, Value, Restrict

\* Nothing is found in an empty map.
LEMMA ValueNone == ASSUME NEW n PROVE Value(<<>>, n) = None
BY DEF Value

\* The named fields of one login change, and nothing else of the sessions.
LEMMA BecomeEffect ==
    ASSUME Shape, NEW s \in Session, NEW changes, DOMAIN changes \subseteq Fields,
           Become(s, changes)
    PROVE  /\ Shape' /\ Others(s)
           /\ \A f \in DOMAIN changes : session'[s][f] = changes[f]
           /\ Same(s, Fields \ DOMAIN changes)
BY DEF Shape, Become, Others, Same, ++

\* What authenticate answers with: the step and the person stay, the fields
\* that the answer names have its values, and the rest of the request is lost.
Replied(s, changes, reply) ==
    /\ Shape' /\ Others(s)
    /\ Same(s, {"who", "step", "tries"})
    /\ session'[s].stage = "answered" /\ session'[s].reply = reply
    /\ session'[s].work = IF "work" \in DOMAIN changes
                          THEN changes.work ELSE session[s].attrs
    /\ \A f \in {"user", "attrs", "passed", "got", "fault"} :
          session'[s][f] = IF f \in DOMAIN changes THEN changes[f] ELSE session[s][f]

\* The fields that an answer of authenticate may change.
Changeable == {"user", "passed", "work", "attrs", "got", "fault"}

\* What True does: the fields that the answer names, a fresh request, a reply.
LEMMA AnswerEffect ==
    ASSUME Shape, NEW s \in Session, NEW changes,
           DOMAIN changes \subseteq Changeable, Answer(s, changes)
    PROVE  Replied(s, changes, TRUE)
<1> DEFINE c == changes ++ [stage |-> "answered", reply |-> TRUE,
                            work |-> session[s].attrs]
<1>1. /\ DOMAIN c = DOMAIN changes \cup {"stage", "reply", "work"}
      /\ DOMAIN c \subseteq Fields
      /\ c.stage = "answered" /\ c.reply = TRUE
      /\ c.work = IF "work" \in DOMAIN changes THEN changes.work ELSE session[s].attrs
      /\ \A f \in DOMAIN changes : c[f] = changes[f]
  BY DEF ++, Fields, Changeable
<1>2. Become(s, c)
  BY DEF Answer
<1> HIDE DEF c
<1>3. QED
  BY <1>1, <1>2, BecomeEffect DEF Fields, Replied, Changeable, Same

\* What False, or an exception, does.
LEMMA RefuseEffect ==
    ASSUME Shape, NEW s \in Session, NEW changes,
           DOMAIN changes \subseteq Changeable, Refuse(s, changes)
    PROVE  Replied(s, changes, FALSE)
<1> DEFINE c == changes ++ [stage |-> "answered", reply |-> FALSE,
                            work |-> session[s].attrs]
<1>1. /\ DOMAIN c = DOMAIN changes \cup {"stage", "reply", "work"}
      /\ DOMAIN c \subseteq Fields
      /\ c.stage = "answered" /\ c.reply = FALSE
      /\ c.work = IF "work" \in DOMAIN changes THEN changes.work ELSE session[s].attrs
      /\ \A f \in DOMAIN changes : c[f] = changes[f]
  BY DEF ++, Fields, Changeable
<1>2. Become(s, c)
  BY DEF Refuse
<1> HIDE DEF c
<1>3. QED
  BY <1>1, <1>2, BecomeEffect DEF Fields, Replied, Changeable, Same

\* The page is shown with the values; of those the named ones are kept.
Shown(s, names, values) ==
    /\ Shape' /\ Others(s)
    /\ Same(s, Fields \ {"stage", "work", "attrs"})
    /\ session'[s].stage = "page"
    /\ session'[s].work = values ++ session[s].attrs
    /\ session'[s].attrs = Restrict(values, names \cap DOMAIN values) ++ session[s].attrs
    /\ \A n : Attr(s, n)' = IF n \in names /\ n \in DOMAIN values
                            THEN values[n] ELSE Attr(s, n)

\* What a page that is shown does, as Shown says it.
LEMMA ShowEffect ==
    ASSUME Shape, NEW s \in Session, NEW names, NEW values, Show(s, names, values)
    PROVE  Shown(s, names, values)
<1> DEFINE kept == Restrict(values, names \cap DOMAIN values) ++ session[s].attrs
           c == [stage |-> "page", work |-> values ++ session[s].attrs, attrs |-> kept]
<1>1. DOMAIN c = {"stage", "work", "attrs"} /\ DOMAIN c \subseteq Fields
  BY DEF Fields
<1>2. Become(s, c)
  BY DEF Show
<1>3. /\ c.stage = "page" /\ c.work = values ++ session[s].attrs /\ c.attrs = kept
  OBVIOUS
<1>4. \A n : Value(kept, n) = IF n \in names /\ n \in DOMAIN values
                              THEN values[n] ELSE Attr(s, n)
  BY ValueKept DEF Attr
<1> HIDE DEF c
<1>5. /\ Shape' /\ Others(s) /\ Same(s, Fields \ {"stage", "work", "attrs"})
      /\ session'[s].stage = "page" /\ session'[s].work = values ++ session[s].attrs
      /\ session'[s].attrs = kept
  BY <1>1, <1>2, <1>3, BecomeEffect DEF Same
<1>6. QED
  BY <1>4, <1>5 DEF Shown, Attr

\* A page that cannot be shown ends the login.
LEMMA HideEffect ==
    ASSUME Shape, NEW s \in Session, NEW changes, DOMAIN changes \subseteq {"fault"},
           Hide(s, changes)
    PROVE  /\ Shape' /\ Others(s) /\ Same(s, Fields \ {"stage", "fault"})
           /\ session'[s].stage = "refused"
           /\ session'[s].fault = IF "fault" \in DOMAIN changes
                                  THEN changes.fault ELSE session[s].fault
<1> DEFINE c == changes ++ [stage |-> "refused"]
<1>1. /\ DOMAIN c = DOMAIN changes \cup {"stage"} /\ DOMAIN c \subseteq Fields
      /\ c.stage = "refused"
      /\ \A f \in DOMAIN changes : c[f] = changes[f]
  BY DEF ++, Fields
<1>2. Become(s, c)
  BY DEF Hide
<1> HIDE DEF c
<1>3. QED
  BY <1>1, <1>2, BecomeEffect DEF Fields, Same

\* The login goes to a step: of the request the named values are kept.
Gone(s, work, step, names) ==
    /\ Shape' /\ Others(s)
    /\ Same(s, Fields \ {"stage", "step", "work", "tries", "attrs"})
    /\ session'[s].stage = "prepare" /\ session'[s].step = step
    /\ session'[s].work = <<>>
    /\ session'[s].tries = IF step <= session[s].step THEN session[s].tries + 1
                                                      ELSE session[s].tries
    /\ session'[s].attrs = Restrict(work, names \cap DOMAIN work) ++ session[s].attrs
    /\ \A n : Attr(s, n)' = IF n \in names /\ n \in DOMAIN work
                            THEN work[n] ELSE Attr(s, n)

\* What going to a step does: the page starts anew, and of the request only the
\* named values are kept.
LEMMA GoToEffect ==
    ASSUME Shape, NEW s \in Session, NEW work, NEW step, NEW names,
           GoTo(s, work, step, names)
    PROVE  Gone(s, work, step, names)
<1> DEFINE kept == Restrict(work, names \cap DOMAIN work) ++ session[s].attrs
           tries == IF step <= session[s].step THEN session[s].tries + 1
                                               ELSE session[s].tries
           c == [stage |-> "prepare", step |-> step, work |-> <<>>,
                 tries |-> tries, attrs |-> kept]
<1>1. DOMAIN c = {"stage", "step", "work", "tries", "attrs"} /\ DOMAIN c \subseteq Fields
  BY DEF Fields
<1>2. Become(s, c)
  BY DEF GoTo
<1>3. /\ c.stage = "prepare" /\ c.step = step /\ c.work = <<>> /\ c.tries = tries
      /\ c.attrs = kept
  OBVIOUS
<1>4. \A n : Value(kept, n) = IF n \in names /\ n \in DOMAIN work
                              THEN work[n] ELSE Attr(s, n)
  BY ValueKept DEF Attr
<1> HIDE DEF c
<1>5. /\ Shape' /\ Others(s)
      /\ Same(s, Fields \ {"stage", "step", "work", "tries", "attrs"})
      /\ session'[s].stage = "prepare" /\ session'[s].step = step
      /\ session'[s].work = <<>> /\ session'[s].tries = tries
      /\ session'[s].attrs = kept
  BY <1>1, <1>2, <1>3, BecomeEffect DEF Same
<1>6. QED
  BY <1>4, <1>5 DEF Gone, Attr

\* The login ends, and nothing else of it changes.
LEMMA CloseEffect ==
    ASSUME Shape, NEW s \in Session, NEW stage, Close(s, stage)
    PROVE  /\ Shape' /\ Others(s) /\ Same(s, Fields \ {"stage"})
           /\ session'[s].stage = stage
<1> DEFINE c == [stage |-> stage]
<1>1. DOMAIN c = {"stage"} /\ DOMAIN c \subseteq Fields /\ c.stage = stage
  BY DEF Fields
<1>2. Become(s, c)
  BY DEF Close
<1> HIDE DEF c
<1>3. QED
  BY <1>1, <1>2, BecomeEffect

\* A page is shown once more.
LEMMA AgainEffect ==
    ASSUME Shape, NEW s \in Session, NEW tries,
           Become(s, [stage |-> "prepare", work |-> <<>>, tries |-> tries])
    PROVE  /\ Shape' /\ Others(s) /\ Same(s, Fields \ {"stage", "work", "tries"})
           /\ session'[s].stage = "prepare" /\ session'[s].work = <<>>
           /\ session'[s].tries = tries
<1> DEFINE c == [stage |-> "prepare", work |-> <<>>, tries |-> tries]
<1>1. /\ DOMAIN c = {"stage", "work", "tries"} /\ DOMAIN c \subseteq Fields
      /\ c.stage = "prepare" /\ c.work = <<>> /\ c.tries = tries
  BY DEF Fields
<1>2. Become(s, c)
  OBVIOUS
<1> HIDE DEF c
<1>3. QED
  BY <1>1, <1>2, BecomeEffect DEF Same
=============================================================================
