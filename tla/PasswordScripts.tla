--------------------------- MODULE PasswordScripts ---------------------------
(***************************************************************************)
(* The scripts of one step: BasicExternalAuthenticator, its variant that   *)
(* locks the account after some wrong passwords, and                       *)
(* YubicloudExternalAuthenticator.                                         *)
(***************************************************************************)
EXTENDS AuthenticationSession

CONSTANT MaxInvalidLogins      \* maximum_invalid_login_attemps

ASSUME MaxInvalidLoginsAssumption == MaxInvalidLogins \in Nat \ {0}

(* prepareForStep of a script whose first page needs nothing. *)
PlainFirstPage(s, names) == At(s, "prepare", 1) /\ Show(s, names, <<>>) /\ Alone

(* authenticate(1) of the scripts that begin with a plain password check.  *)
BasicAuthenticate(s) ==
    /\ At(s, "page", 1)
    /\ \E right \in BOOLEAN :
          IF PasswordAccepted(s, right) THEN Answer(s, LoggedIn(s))
                                        ELSE Refuse(s, Fault)
    /\ Alone

-----------------------------------------------------------------------------
(* BasicLockAccountExternalAuthenticator.  Every attribute is optional, so *)
(* its init always succeeds.  The entry has gluuStatus (status) and        *)
(* oxCountInvalidLogin (failures); the cache has lock_user_<name> (lock).  *)
(* wrong is a record of how many wrong passwords there have been.          *)

Entry(s) == person[session[s].who]
SetEntry(s, changes) ==
    /\ person' = [person EXCEPT ![session[s].who] = changes ++ @]
    /\ UNCHANGED <<script, conf, self>>

(* lockUser and unLockUser, as what they change of an entry: an entry that *)
(* is inactive already is left alone.                                      *)
lockUser(e) ==
    IF e.status = "inactive" THEN e
    ELSE [status |-> "inactive", lock |-> "locked"] ++ e
unLockUser(e) == [status |-> "active", lock |-> "unlocked", failures |-> 0] ++ e

(* The password is checked; if it is wrong, or right for an inactive entry, *)
(* the count and the status are read.  Only a wrong one is a fault.        *)
LockAuthenticate(s) ==
    /\ At(s, "page", 1)
    /\ \/ /\ PasswordAccepted(s, TRUE)
          /\ Become(s, [stage |-> "working"] ++ LoggedIn(s)
                        ++ Setting(s, [accepted |-> TRUE]))
          /\ Alone
       \/ \E right \in BOOLEAN :
          /\ ~PasswordAccepted(s, right)
          /\ Become(s, [stage |-> "working"] ++ (IF right THEN <<>> ELSE Fault)
                ++ Setting(s, [accepted |-> FALSE, right |-> right,
                               status |-> Entry(s).status,
                               failures |-> Entry(s).failures]))
          /\ SetEntry(s, IF right THEN <<>> ELSE [wrong |-> Entry(s).wrong + 1])

(* A right password then resets the count, which may have been written, and *)
(* the entry locked, in between.                                           *)
ResetInvalidLogins(s) ==
    /\ At(s, "working", 1) /\ session[s].work.accepted
    /\ Answer(s, <<>>) /\ SetEntry(s, [failures |-> 0])

(* The cache entry of a lock is gone, or is older than the expiration.     *)
LockExpired(e) == e.lock \in {"none", "old"}

(* The count after one more invalid login, and whether it locks.           *)
Counted(read) == IF read < MaxInvalidLogins THEN read + 1 ELSE read
LimitReachedEarly(count) == count >= MaxInvalidLogins - 1
LimitReached(count) == count >= MaxInvalidLogins

(* Any other is counted, and locks or unlocks, whatever another login of   *)
(* the same person has written in between.                                 *)
CountInvalidLogin(s) ==
    LET read == session[s].work.failures
        counted == IF read < MaxInvalidLogins
                   THEN [failures |-> Counted(read)] ++ Entry(s) ELSE Entry(s)
        full == LimitReached(Counted(read))
        unlocked == unLockUser(counted)
        failed == [failures |-> 1] ++ unlocked
    IN  /\ At(s, "working", 1) /\ ~session[s].work.accepted
        /\ \/ /\ full /\ session[s].work.status # "inactive"
              /\ Refuse(s, <<>>) /\ SetEntry(s, lockUser(counted))
           \/ /\ full /\ session[s].work.status = "inactive"
              /\ LockExpired(counted)
              /\ \/ /\ session[s].work.right
                    /\ Answer(s, LoggedIn(s)) /\ SetEntry(s, unlocked)
                 \/ /\ ~session[s].work.right
                    /\ Refuse(s, <<>>)
                    /\ SetEntry(s, IF MaxInvalidLogins = 1
                                   THEN lockUser(failed) ELSE failed)
           \/ /\ ~full \/ /\ session[s].work.status = "inactive"
                          /\ ~LockExpired(counted)
              /\ Refuse(s, <<>>) /\ SetEntry(s, counted)

(* Time passes: the cache entry gets older than the expiration, then goes. *)
LockAges(p) ==
    /\ \/ /\ person[p].lock = "locked"
          /\ person' = [person EXCEPT ![p].lock = "old"]
       \/ /\ person[p].lock \in {"old", "unlocked"}
          /\ person' = [person EXCEPT ![p].lock = "none"]
    /\ UNCHANGED <<script, conf, self, session>>

-----------------------------------------------------------------------------
(* YubicloudExternalAuthenticator: the password is the one-time code of    *)
(* the person's key, which the service of Yubico checks.                   *)
YubicloudInit ==
    {"yubicloud_uri", "yubicloud_api_key", "yubicloud_id"} \subseteq conf

YubicloudAuthenticate(s) ==
    /\ At(s, "page", 1)
    /\ \E answer \in DeviceAnswers, serviceUp \in BOOLEAN :
          IF answer = "good" /\ Entry(s).uids # {} /\ serviceUp
          THEN Answer(s, [user |-> session[s].who] ++ Passing(s, "device"))
          ELSE Refuse(s, Fault)
    /\ Alone
=============================================================================
