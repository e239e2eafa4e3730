------------------------ MODULE DirectoryStore_proofs ------------------------
(***************************************************************************)
(* Proofs of the safety of DirectoryStore, for every choice of databases    *)
(* and any number of runs and failures.                                    *)
(*                                                                         *)
(* First what has to be known of the sequences of calls of the installers,  *)
(* in any order the jobs of a run may bring about, and of the lists of      *)
(* clients the calls are about.  Then the invariant:                        *)
(*                                                                         *)
(* IInv says two things of the calls still to come: that they are in an     *)
(* order in which nothing is named before it is in the directory (Ordered), *)
(* and that a first installation does not make up the scopes of SCIM twice  *)
(* (ScopesOnce); and of the identifiers the program knows, that they agree  *)
(* with those in the directory (Agreement).                                *)
(*                                                                         *)
(* At last the lists of the policies, and what a run leaves when it comes   *)
(* to its end.  Beyond IInv two invariants are needed: on what is halfway   *)
(* over LDAP (Halfway), and on what the services of a run have and what is  *)
(* still to come (Served).                                                  *)
(***************************************************************************)
EXTENDS DirectoryStore, SequenceTheorems, WellFoundedInduction, TLAPS

Services == {"scim", "passport"}
RefVars  == ClientVars \cup ResourceVars

CallRecords ==
    [do : {"files", "configure", "scopes", "import", "settings", "service", "script", "casa",
           "load", "allow"},
     on : Services \cup Names \cup Scripts \cup {"testdata"},
     client : ClientVars \cup {"none"}]

-----------------------------------------------------------------------------
(* The order of the calls of a run.                                        *)

ImportedBefore(q, i, v) == \E j \in 1..(i - 1) : q[j].do = "import" /\ q[j].on = v

CheckedBefore(q, i, v) ==
    \E j \in 1..(i - 1) : q[j].do = "configure" /\ v \in IdsOf(q[j].on)

FilesBefore(q, i) == \E j \in 1..(i - 1) : q[j].do = "files" /\ q[j].on = "scim"

\* What a call names is of the kind it takes.
Sorted(c) ==
    /\ c.do \in {"files", "configure", "service", "settings"} => c.on \in Services
    /\ c.do = "scopes" => c.on = "scim_scopes"
    /\ c.do = "import" => c.on \in Names
    /\ c.do = "script" => c.on \in Scripts
    /\ c.do = "casa" => c.on = CasaScript
    /\ c.do = "allow" => c.on \in UmaPolicies /\ c.client \in ClientVars

\* An identifier is known (C) or checked before its entry is imported, and its
\* entry is there (K) or imported before it is named.
Ready(q, i, C, K) ==
    /\ Sorted(q[i])
    /\ q[i].do = "import" /\ q[i].on \in RefVars =>
          q[i].on \in C \/ CheckedBefore(q, i, q[i].on)
    /\ q[i].do = "settings" =>
          \A v \in SettingsOf(q[i].on) : v \in K \/ ImportedBefore(q, i, v)
    /\ q[i].do = "allow" =>
          q[i].client \in K \/ ImportedBefore(q, i, q[i].client)

Ordered(q, C, K) == \A i \in 1..Len(q) : Ready(q, i, C, K)

LoadLast(q) == \A i \in 1..Len(q) : q[i].do = "load" => i = Len(q)
NoLoad(q)   == \A i \in 1..Len(q) : q[i].do # "load"

\* The scopes are made up while there are none, also by the test data, which
\* install SCIM when its files are not there.
Scopeless(q, none, i) == none /\ ~ImportedBefore(q, i, "scim_scopes")

ScopesOnce(q, none, files) ==
    \A i \in 1..Len(q) :
        /\ q[i].do = "scopes" => Scopeless(q, none, i)
        /\ q[i].do = "load" => files \/ FilesBefore(q, i) \/ Scopeless(q, none, i)

-----------------------------------------------------------------------------
(* The sequences of calls.                                                 *)

\* The calls of SCIM are in order, make up the scopes once, and leave the
\* files of SCIM behind.
LEMMA ScimOrder ==
    /\ ScimCalls \in Seq(CallRecords)
    /\ Ordered(ScimCalls, {}, {})
    /\ NoLoad(ScimCalls)
    /\ ScopesOnce(ScimCalls, TRUE, FALSE)
    /\ FilesBefore(ScimCalls, Len(ScimCalls) + 1)
<1> DEFINE q == ScimCalls
           Is(i, do, on) == q[i].do = do /\ q[i].on = on
<1>1. q \in Seq(CallRecords)
  BY DEF ScimCalls, Call, Allow, CallRecords, Services, Names, IdVars, ClientVars, ResourceVars,
       Scripts, UmaPolicies
<1>2. /\ Len(q) = 12
      /\ Is(1, "files", "scim") /\ Is(2, "configure", "scim") /\ Is(3, "scopes", "scim_scopes")
      /\ Is(4, "import", "scim_resource_oxid") /\ Is(5, "import", "scim_rs_client_id")
      /\ Is(6, "import", "scim_rp_client_id") /\ Is(7, "import", "scim_scopes")
      /\ Is(8, "settings", "scim")
      /\ Is(9, "allow", "2DAF-F9A5") /\ q[9].client = "scim_rp_client_id"
      /\ Is(10, "allow", "2DAF-F995") /\ q[10].client = "scim_rp_client_id"
      /\ Is(11, "script", "2DAF-F9A5") /\ Is(12, "service", "scim")
  BY DEF ScimCalls, Call, Allow
<1> HIDE DEF q
<1>3. \A i \in 1..Len(q) : \/ i = 1 \/ i = 2 \/ i = 3 \/ i = 4 \/ i = 5 \/ i = 6
                          \/ i = 7 \/ i = 8 \/ i = 9 \/ i = 10 \/ i = 11 \/ i = 12
  BY <1>2
<1>4. ASSUME NEW i \in 1..Len(q) PROVE Sorted(q[i])
  BY <1>2, <1>3 DEF Sorted, Services, Names, IdVars, ClientVars, ResourceVars,
     Scripts, UmaPolicies
<1>5. /\ CheckedBefore(q, 4, "scim_resource_oxid") /\ CheckedBefore(q, 5, "scim_rs_client_id")
      /\ CheckedBefore(q, 6, "scim_rp_client_id")
  BY <1>2 DEF CheckedBefore, IdsOf
<1>6. /\ ImportedBefore(q, 8, "scim_resource_oxid") /\ ImportedBefore(q, 8, "scim_rs_client_id")
      /\ ImportedBefore(q, 9, "scim_rp_client_id") /\ ImportedBefore(q, 10, "scim_rp_client_id")
  BY <1>2 DEF ImportedBefore
<1>7. ASSUME NEW i \in 1..Len(q) PROVE Ready(q, i, {}, {})
  BY <1>2, <1>3, <1>4, <1>5, <1>6 DEF Ready, SettingsOf, RefVars, ClientVars, ResourceVars
<1>8. NoLoad(q)
  BY <1>2, <1>3 DEF NoLoad
<1>9. ScopesOnce(q, TRUE, FALSE)
  BY <1>2, <1>3 DEF ScopesOnce, Scopeless, ImportedBefore
<1>10. FilesBefore(q, Len(q) + 1)
  BY <1>2 DEF FilesBefore
<1> QED
  BY <1>1, <1>7, <1>8, <1>9, <1>10 DEF q, Ordered

\* The calls of Passport are in order, and do not touch the scopes.
LEMMA PassportOrder ==
    /\ PassportCalls \in Seq(CallRecords)
    /\ Ordered(PassportCalls, {}, {})
    /\ NoLoad(PassportCalls)
    /\ ScopesOnce(PassportCalls, FALSE, FALSE)
    /\ ~ImportedBefore(PassportCalls, Len(PassportCalls) + 1, "scim_scopes")
<1> DEFINE q == PassportCalls
           Is(i, do, on) == q[i].do = do /\ q[i].on = on
<1>1. q \in Seq(CallRecords)
  BY DEF PassportCalls, Call, Allow, CallRecords, Services, Names, IdVars, ClientVars, ResourceVars,
       Scripts, UmaPolicies, PassportScripts
<1>2. /\ Len(q) = 16
      /\ Is(1, "files", "passport") /\ Is(2, "configure", "passport")
      /\ Is(3, "import", "D40C-1CA4") /\ Is(4, "import", "2FDB-CF02")
      /\ Is(5, "import", "passport_resource_id") /\ Is(6, "import", "passport_rp_ii_client_id")
      /\ Is(7, "import", "passport_rs_client_id") /\ Is(8, "import", "passport_rp_client_id")
      /\ Is(9, "service", "passport")
      /\ Is(10, "script", "2FDB-CF02") /\ Is(11, "script", "D40C-1CA4")
      /\ Is(12, "script", "2DAF-F9A5")
      /\ Is(13, "settings", "passport") /\ Is(14, "service", "passport")
      /\ Is(15, "allow", "2DAF-F9A5") /\ q[15].client = "passport_rp_client_id"
      /\ Is(16, "allow", "2DAF-F995") /\ q[16].client = "passport_rp_client_id"
  BY DEF PassportCalls, Call, Allow
<1> HIDE DEF q
<1>3. \A i \in 1..Len(q) : \/ i = 1 \/ i = 2 \/ i = 3 \/ i = 4 \/ i = 5 \/ i = 6 \/ i = 7 \/ i = 8
                          \/ i = 9 \/ i = 10 \/ i = 11 \/ i = 12 \/ i = 13 \/ i = 14 \/ i = 15
                          \/ i = 16
  BY <1>2
<1>4. ASSUME NEW i \in 1..Len(q) PROVE Sorted(q[i])
  BY <1>2, <1>3 DEF Sorted, Services, Names, IdVars, ClientVars, ResourceVars,
     Scripts, UmaPolicies, PassportScripts
<1>5. /\ CheckedBefore(q, 5, "passport_resource_id")
      /\ CheckedBefore(q, 6, "passport_rp_ii_client_id")
      /\ CheckedBefore(q, 7, "passport_rs_client_id")
      /\ CheckedBefore(q, 8, "passport_rp_client_id")
  BY <1>2 DEF CheckedBefore, IdsOf
<1>6. /\ ImportedBefore(q, 13, "passport_resource_id")
      /\ ImportedBefore(q, 13, "passport_rs_client_id")
      /\ ImportedBefore(q, 15, "passport_rp_client_id")
      /\ ImportedBefore(q, 16, "passport_rp_client_id")
  BY <1>2 DEF ImportedBefore
<1>7. ASSUME NEW i \in 1..Len(q) PROVE Ready(q, i, {}, {})
  BY <1>2, <1>3, <1>4, <1>5, <1>6 DEF Ready, SettingsOf, RefVars, ClientVars, ResourceVars
<1>8. NoLoad(q)
  BY <1>2, <1>3 DEF NoLoad
<1>9. ScopesOnce(q, FALSE, FALSE)
  BY <1>2, <1>3 DEF ScopesOnce
<1>10. ~ImportedBefore(q, Len(q) + 1, "scim_scopes")
  BY <1>2, <1>3 DEF ImportedBefore
<1> QED
  BY <1>1, <1>7, <1>8, <1>9, <1>10 DEF q, Ordered

\* Those of the test data are single calls.
LEMMA TestDataOrder ==
    ASSUME NEW passport \in BOOLEAN
    PROVE  /\ TestDataCalls(passport) \in Seq(CallRecords)
           /\ Ordered(TestDataCalls(passport), {}, {})
           /\ NoLoad(TestDataCalls(passport))
           /\ ScopesOnce(TestDataCalls(passport), FALSE, FALSE)
<1> DEFINE q == TestDataCalls(passport)
           first == <<Call("configure", "passport")>>
           rest == <<Call("script", "2DAF-F995"), Call("casa", CasaScript)>>
           Kept(c) == \/ c.do = "configure" /\ c.on = "passport"
                      \/ c.do = "script" /\ c.on = "2DAF-F995"
                      \/ c.do = "casa" /\ c.on = CasaScript
<1>1. /\ first \in Seq(CallRecords) /\ Len(first) = 1 /\ Kept(first[1])
      /\ rest \in Seq(CallRecords) /\ Len(rest) = 2 /\ Kept(rest[1]) /\ Kept(rest[2])
  BY DEF Call, CallRecords, Scripts, UmaPolicies, Services
<1>2. q = (IF passport THEN <<>> ELSE first) \o rest
  BY DEF TestDataCalls
<1> HIDE DEF q, first, rest, Kept
<1>3. q \in Seq(CallRecords) /\ \A i \in 1..Len(q) : Kept(q[i])
  <2>1. CASE passport
    <3>1. q = rest
      BY <1>1, <1>2, <2>1, ConcatEmptySeq
    <3>2. \A i \in 1..2 : i = 1 \/ i = 2
      OBVIOUS
    <3> QED
      BY <1>1, <3>1, <3>2
  <2>2. CASE ~passport
    <3>1. q = first \o rest
      BY <1>2, <2>2
    <3>2. /\ q \in Seq(CallRecords) /\ Len(q) = 3
          /\ q[1] = first[1] /\ q[1 + 1] = rest[1] /\ q[1 + 2] = rest[2]
      BY <1>1, <3>1, ConcatProperties
    <3>3. \A i \in 1..3 : i = 1 \/ i = 2 \/ i = 3
      OBVIOUS
    <3> QED
      BY <1>1, <3>2, <3>3
  <2> QED
    BY <2>1, <2>2
<1>4. \A i \in 1..Len(q) : Ready(q, i, {}, {})
  BY <1>3 DEF Kept, Ready, Sorted, Scripts, UmaPolicies, Services
<1>5. NoLoad(q) /\ ScopesOnce(q, FALSE, FALSE)
  BY <1>3 DEF Kept, NoLoad, ScopesOnce
<1> QED
  BY <1>3, <1>4, <1>5 DEF q, Ordered

\* So is the call that loads them.
LEMMA LoadCallOrder ==
    /\ <<Call("load", "testdata")>> \in Seq(CallRecords)
    /\ Ordered(<<Call("load", "testdata")>>, {}, {})
    /\ LoadLast(<<Call("load", "testdata")>>)
    /\ ScopesOnce(<<Call("load", "testdata")>>, TRUE, FALSE)
<1> DEFINE p == <<Call("load", "testdata")>>
<1>1. p \in Seq(CallRecords) /\ Len(p) = 1 /\ p[1].do = "load" /\ p[1].on = "testdata"
  BY DEF Call, CallRecords
<1> HIDE DEF p
<1>2. \A i \in 1..Len(p) : i = 1
  BY <1>1
<1>3. \A i \in 1..Len(p) : Ready(p, i, {}, {})
  BY <1>1, <1>2 DEF Ready, Sorted
<1>4. LoadLast(p) /\ ScopesOnce(p, TRUE, FALSE)
  BY <1>1, <1>2 DEF LoadLast, ScopesOnce, Scopeless, ImportedBefore
<1> QED
  BY <1>1, <1>3, <1>4 DEF p, Ordered

\* The order of a sequence followed by another.
LEMMA Concat ==
    ASSUME NEW p \in Seq(CallRecords), NEW q \in Seq(CallRecords), NEW C, NEW K,
           Ordered(p, C, K), Ordered(q, C, K), NoLoad(p), LoadLast(q)
    PROVE  /\ p \o q \in Seq(CallRecords)
           /\ Ordered(p \o q, C, K)
           /\ LoadLast(p \o q)
           /\ NoLoad(q) => NoLoad(p \o q)
<1> DEFINE r == p \o q
<1>1. /\ r \in Seq(CallRecords) /\ Len(r) = Len(p) + Len(q)
      /\ \A i \in 1..Len(p) : r[i] = p[i]
      /\ \A i \in 1..Len(q) : r[Len(p) + i] = q[i]
      /\ Len(p) \in Nat /\ Len(q) \in Nat
  OBVIOUS
<1> HIDE DEF r
<1>2. ASSUME NEW i \in 1..Len(p) PROVE Ready(r, i, C, K) /\ r[i].do # "load"
  <2>1. Ready(p, i, C, K) /\ p[i].do # "load" /\ r[i] = p[i]
    BY <1>1 DEF Ordered, NoLoad
  <2>2. \A j \in 1..(i - 1) : j \in 1..Len(p) /\ r[j] = p[j]
    BY <1>1
  <2>3. \A v : /\ ImportedBefore(p, i, v) => ImportedBefore(r, i, v)
               /\ CheckedBefore(p, i, v) => CheckedBefore(r, i, v)
    BY <2>2 DEF ImportedBefore, CheckedBefore
  <2> QED
    BY <2>1, <2>3 DEF Ready
<1>3. ASSUME NEW i \in 1..Len(r), i > Len(p)
      PROVE  /\ Ready(r, i, C, K)
             /\ r[i].do = "load" => i = Len(r) /\ ~NoLoad(q)
  <2> DEFINE k == i - Len(p)
  <2>1. /\ k \in 1..Len(q) /\ i = Len(p) + k /\ r[i] = q[k] /\ Ready(q, k, C, K)
        /\ \A j \in 1..(k - 1) : r[Len(p) + j] = q[j] /\ Len(p) + j \in 1..(i - 1)
    BY <1>1, <1>3 DEF Ordered
  <2>2. /\ \A v : ImportedBefore(q, k, v) => ImportedBefore(r, i, v)
        /\ \A v : CheckedBefore(q, k, v) => CheckedBefore(r, i, v)
    BY <2>1 DEF ImportedBefore, CheckedBefore
  <2>3. r[i].do = "load" => i = Len(r) /\ ~NoLoad(q)
    BY <1>1, <2>1 DEF LoadLast, NoLoad
  <2> QED
    BY <2>1, <2>2, <2>3 DEF Ready
<1>4. \A i \in 1..Len(r) : i \in 1..Len(p) \/ i > Len(p)
  BY <1>1
<1> QED
  BY <1>1, <1>2, <1>3, <1>4 DEF r, Ordered, LoadLast, NoLoad

\* The second sequence may rely on what the first leaves.
LEMMA ScopesConcat ==
    ASSUME NEW p \in Seq(CallRecords), NEW q \in Seq(CallRecords),
           NEW none \in BOOLEAN, NEW files \in BOOLEAN,
           NEW none2 \in BOOLEAN, NEW files2 \in BOOLEAN,
           ScopesOnce(p, none, files), ScopesOnce(q, none2, files2),
           none2 => Scopeless(p, none, Len(p) + 1),
           files2 => files \/ FilesBefore(p, Len(p) + 1)
    PROVE  ScopesOnce(p \o q, none, files)
<1> DEFINE r == p \o q
<1>1. /\ r \in Seq(CallRecords) /\ Len(r) = Len(p) + Len(q)
      /\ \A i \in 1..Len(p) : r[i] = p[i]
      /\ \A i \in 1..Len(q) : r[Len(p) + i] = q[i]
      /\ Len(p) \in Nat /\ Len(q) \in Nat
  OBVIOUS
<1> HIDE DEF r
<1> DEFINE Good(i) == /\ r[i].do = "scopes" => Scopeless(r, none, i)
                      /\ r[i].do = "load" => files \/ FilesBefore(r, i) \/ Scopeless(r, none, i)
<1>2. ASSUME NEW i \in 1..Len(p) PROVE Good(i)
  <2>1. /\ p[i].do = "scopes" => Scopeless(p, none, i)
        /\ p[i].do = "load" => files \/ FilesBefore(p, i) \/ Scopeless(p, none, i)
    BY DEF ScopesOnce
  <2>2. \A j \in 1..(i - 1) : j \in 1..Len(p) /\ r[j] = p[j]
    BY <1>1
  <2>3. /\ FilesBefore(p, i) => FilesBefore(r, i)
        /\ ImportedBefore(r, i, "scim_scopes") => ImportedBefore(p, i, "scim_scopes")
    BY <2>2 DEF FilesBefore, ImportedBefore
  <2> QED
    BY <1>1, <2>1, <2>3 DEF Scopeless
<1>3. ASSUME NEW i \in 1..Len(r), i > Len(p) PROVE Good(i)
  <2> DEFINE k == i - Len(p)
  <2>1. k \in 1..Len(q) /\ i = Len(p) + k /\ r[i] = q[k]
    BY <1>1, <1>3
  <2>2. \A j \in 1..(k - 1) : r[Len(p) + j] = q[j] /\ Len(p) + j \in 1..(i - 1)
    BY <1>1, <1>3
  <2>3. \A j \in 1..((Len(p) + 1) - 1) : r[j] = p[j] /\ j \in 1..(i - 1)
    BY <1>1, <1>3
  <2>4. ASSUME NEW j \in 1..(i - 1), j \notin 1..((Len(p) + 1) - 1)
        PROVE  j - Len(p) \in 1..(k - 1) /\ r[j] = q[j - Len(p)]
    <3> DEFINE m == j - Len(p)
    <3>1. m \in 1..(k - 1) /\ m \in 1..Len(q) /\ j = Len(p) + m
      BY <1>1, <2>1, <2>4
    <3> HIDE DEF m
    <3>2. r[Len(p) + m] = q[m]
      BY <1>1, <3>1
    <3> QED
      BY <3>1, <3>2 DEF m
  <2>5. /\ q[k].do = "scopes" => Scopeless(q, none2, k)
        /\ q[k].do = "load" => files2 \/ FilesBefore(q, k) \/ Scopeless(q, none2, k)
    BY <2>1 DEF ScopesOnce
  <2>6. /\ FilesBefore(p, Len(p) + 1) => FilesBefore(r, i)
        /\ FilesBefore(q, k) => FilesBefore(r, i)
    BY <2>2, <2>3 DEF FilesBefore
  <2>7. ImportedBefore(r, i, "scim_scopes") =>
          ImportedBefore(p, Len(p) + 1, "scim_scopes") \/ ImportedBefore(q, k, "scim_scopes")
    BY <2>3, <2>4 DEF ImportedBefore
  <2>8. Scopeless(q, none2, k) => Scopeless(r, none, i)
    BY <2>7 DEF Scopeless
  <2> QED
    BY <2>1, <2>5, <2>6, <2>8
<1>4. \A i \in 1..Len(r) : i \in 1..Len(p) \/ i > Len(p)
  BY <1>1
<1> QED
  BY <1>2, <1>3, <1>4 DEF r, ScopesOnce

\* Knowing more does not disturb the order.
LEMMA MoreKnown ==
    ASSUME NEW q, NEW C, NEW K, NEW C2, NEW K2, C \subseteq C2, K \subseteq K2, Ordered(q, C, K)
    PROVE  Ordered(q, C2, K2)
BY DEF Ordered, Ready

\* The calls that remain after the first, when what that did is known.
LEMMA AfterHead ==
    ASSUME NEW q \in Seq(CallRecords), q # <<>>, NEW C, NEW K, NEW C2, NEW K2,
           Ordered(q, C, K), LoadLast(q), C \subseteq C2, K \subseteq K2,
           Head(q).do = "configure" => IdsOf(Head(q).on) \subseteq C2,
           Head(q).do = "import" /\ Head(q).on \in RefVars => Head(q).on \in K2
    PROVE  Tail(q) \in Seq(CallRecords) /\ Ordered(Tail(q), C2, K2) /\ LoadLast(Tail(q))
<1> DEFINE r == Tail(q)
<1>1. /\ r \in Seq(CallRecords) /\ Len(r) = Len(q) - 1 /\ Len(q) \in Nat /\ Len(q) > 0
      /\ Head(q) = q[1]
      /\ \A i \in 1..Len(r) : r[i] = q[i + 1]
  OBVIOUS
<1> HIDE DEF r
<1>2. ASSUME NEW i \in 1..Len(r) PROVE Ready(r, i, C2, K2)
  <2>1. i + 1 \in 1..Len(q) /\ r[i] = q[i + 1] /\ i \in Nat
    BY <1>1
  <2>2. Ready(q, i + 1, C, K)
    BY <2>1 DEF Ordered
  <2>3. \A j \in 1..((i + 1) - 1) : j = 1 \/ (j - 1 \in 1..(i - 1) /\ r[j - 1] = q[j])
    BY <1>1
  <2>4. \A v : CheckedBefore(q, i + 1, v) => CheckedBefore(r, i, v) \/ v \in C2
    BY <1>1, <2>3 DEF CheckedBefore
  <2>5. \A v \in RefVars : ImportedBefore(q, i + 1, v) => ImportedBefore(r, i, v) \/ v \in K2
    BY <1>1, <2>3 DEF ImportedBefore
  <2>6. \A s \in Services : SettingsOf(s) \subseteq RefVars
    BY DEF Services, SettingsOf, RefVars, ClientVars, ResourceVars
  <2> QED
    BY <2>1, <2>2, <2>4, <2>5, <2>6 DEF Ready, Sorted, RefVars
<1>3. LoadLast(r)
  BY <1>1 DEF LoadLast
<1> QED
  BY <1>1, <1>2, <1>3 DEF r, Ordered

\* The same of the scopes.
LEMMA ScopesAfterHead ==
    ASSUME NEW q \in Seq(CallRecords), q # <<>>, NEW none, NEW files, NEW none2, NEW files2,
           ScopesOnce(q, none, files),
           none /\ ~(Head(q).do = "import" /\ Head(q).on = "scim_scopes") => none2,
           files \/ (Head(q).do = "files" /\ Head(q).on = "scim") => files2
    PROVE  ScopesOnce(Tail(q), none2, files2)
<1> DEFINE r == Tail(q)
<1>1. /\ r \in Seq(CallRecords) /\ Len(r) = Len(q) - 1 /\ Len(q) \in Nat /\ Len(q) > 0
      /\ Head(q) = q[1]
      /\ \A i \in 1..Len(r) : r[i] = q[i + 1]
  OBVIOUS
<1> HIDE DEF r
<1> SUFFICES ASSUME NEW i \in 1..Len(r)
             PROVE  /\ r[i].do = "scopes" => Scopeless(r, none2, i)
                    /\ r[i].do = "load" =>
                          files2 \/ FilesBefore(r, i) \/ Scopeless(r, none2, i)
  BY DEF r, ScopesOnce
<1>2. i + 1 \in 1..Len(q) /\ r[i] = q[i + 1] /\ i \in Nat
  BY <1>1
<1>3. \A j \in 1..((i + 1) - 1) : j = 1 \/ (j - 1 \in 1..(i - 1) /\ r[j - 1] = q[j])
  BY <1>1
<1>4. /\ 1 \in 1..((i + 1) - 1)
      /\ \A j \in 1..(i - 1) : j + 1 \in 1..((i + 1) - 1) /\ r[j] = q[j + 1]
  BY <1>1
<1>5. FilesBefore(q, i + 1) => FilesBefore(r, i) \/ files2
  BY <1>1, <1>3 DEF FilesBefore
<1>6. Scopeless(q, none, i + 1) => Scopeless(r, none2, i)
  BY <1>1, <1>4 DEF Scopeless, ImportedBefore
<1> QED
  BY <1>2, <1>5, <1>6 DEF ScopesOnce

\* Fewer scopes and more files in the directory do not disturb it either.
LEMMA MoreScopes ==
    ASSUME NEW q, NEW none \in BOOLEAN, NEW files \in BOOLEAN,
           NEW none2 \in BOOLEAN, NEW files2 \in BOOLEAN,
           none => none2, files => files2, ScopesOnce(q, none, files)
    PROVE  ScopesOnce(q, none2, files2)
BY DEF ScopesOnce, Scopeless

\* The calls of any run are in order, and make up the scopes once on a machine
\* that has none.
LEMMA RunOrder ==
    ASSUME NEW jobs
    PROVE  /\ CallsOf(jobs) \in Seq(CallRecords)
           /\ Ordered(CallsOf(jobs), {}, {})
           /\ LoadLast(CallsOf(jobs))
           /\ ScopesOnce(CallsOf(jobs), TRUE, FALSE)
<1> DEFINE S == IF "scim" \in jobs THEN ScimCalls ELSE <<>>
           P == IF "passport" \in jobs THEN PassportCalls ELSE <<>>
           L == IF "testdata" \in jobs THEN <<Call("load", "testdata")>> ELSE <<>>
           SP == S \o P
<1>0. /\ <<>> \in Seq(CallRecords) /\ Len(<<>>) = 0 /\ 1..0 = {}
      /\ Ordered(<<>>, {}, {}) /\ NoLoad(<<>>) /\ LoadLast(<<>>)
      /\ \A none, files \in BOOLEAN : ScopesOnce(<<>>, none, files)
      /\ ~ImportedBefore(<<>>, Len(<<>>) + 1, "scim_scopes")
  BY DEF Ordered, NoLoad, LoadLast, ScopesOnce, ImportedBefore
<1>1. /\ S \in Seq(CallRecords) /\ Ordered(S, {}, {}) /\ NoLoad(S)
      /\ ScopesOnce(S, TRUE, FALSE)
      /\ FilesBefore(S, Len(S) + 1) \/ S = <<>>
  BY <1>0, ScimOrder
<1>2. /\ P \in Seq(CallRecords) /\ Ordered(P, {}, {}) /\ NoLoad(P)
      /\ ScopesOnce(P, FALSE, FALSE)
      /\ ~ImportedBefore(P, Len(P) + 1, "scim_scopes")
  BY <1>0, PassportOrder
<1>3. /\ L \in Seq(CallRecords) /\ Ordered(L, {}, {}) /\ LoadLast(L)
      /\ ScopesOnce(L, TRUE, FALSE)
  BY <1>0, LoadCallOrder
<1>4. CallsOf(jobs) = SP \o L
  BY DEF CallsOf
<1> HIDE DEF S, P, L
<1>5. LoadLast(P)
  BY <1>2 DEF NoLoad, LoadLast
<1>6. SP \in Seq(CallRecords) /\ Ordered(SP, {}, {}) /\ NoLoad(SP)
  BY <1>1, <1>2, <1>5, Concat
<1>7. ScopesOnce(SP, TRUE, FALSE)
  BY <1>1, <1>2, ScopesConcat
<1>8. FilesBefore(SP, Len(SP) + 1) \/ Scopeless(SP, TRUE, Len(SP) + 1)
  <2>1. CASE S = <<>>
    BY <1>2, <2>1 DEF Scopeless
  <2>2. CASE FilesBefore(S, Len(S) + 1)
    <3>1. PICK j \in 1..((Len(S) + 1) - 1) : S[j].do = "files" /\ S[j].on = "scim"
      BY <2>2 DEF FilesBefore
    <3>2. SP[j] = S[j] /\ j \in 1..((Len(SP) + 1) - 1)
      BY <1>1, <1>2, <3>1
    <3> QED
      BY <3>1, <3>2 DEF FilesBefore
  <2> QED
    BY <1>1, <2>1, <2>2
<1> HIDE DEF SP
<1>9. ScopesOnce(SP \o L, TRUE, FALSE)
  <2>1. CASE FilesBefore(SP, Len(SP) + 1)
    <3>1. ScopesOnce(L, TRUE, TRUE)
      BY <1>3, MoreScopes
    <3>2. \A i \in 1..Len(L) : L[i].do # "scopes"
      <4>1. CASE L = <<>>
        BY <4>1
      <4>2. CASE L = <<Call("load", "testdata")>>
        <5>1. Len(L) = 1 /\ L[1].do = "load"
          BY <4>2 DEF Call
        <5> QED
          BY <5>1
      <4> QED
        BY <4>1, <4>2 DEF L
    <3>3. ScopesOnce(L, FALSE, TRUE)
      BY <3>1, <3>2 DEF ScopesOnce
    <3> QED
      BY <1>3, <1>6, <1>7, <2>1, <3>3, ScopesConcat
  <2>2. CASE Scopeless(SP, TRUE, Len(SP) + 1)
    BY <1>3, <1>6, <1>7, <2>2, ScopesConcat
  <2> QED
    BY <1>8, <2>1, <2>2
<1>10. Ordered(SP \o L, {}, {}) /\ SP \o L \in Seq(CallRecords) /\ LoadLast(SP \o L)
  BY <1>3, <1>6, Concat
<1> QED
  BY <1>4, <1>9, <1>10

\* The test data come last; before them SCIM, when its files are not there.
LEMMA LoadOrder ==
    ASSUME NEW q \in Seq(CallRecords), q # <<>>, LoadLast(q), Head(q).do = "load",
           NEW present \in BOOLEAN, NEW passport \in BOOLEAN
    PROVE  LET r == (IF present THEN <<>> ELSE ScimCalls)
                    \o TestDataCalls(passport) \o Tail(q)
           IN /\ r \in Seq(CallRecords) /\ Ordered(r, {}, {}) /\ LoadLast(r)
              /\ ScopesOnce(r, ~present, FALSE)
<1> DEFINE r == (IF present THEN <<>> ELSE ScimCalls) \o TestDataCalls(passport)
<1>1. Tail(q) = <<>>
  <2>1. Len(q) \in Nat /\ Len(q) > 0 /\ Head(q) = q[1]
    OBVIOUS
  <2>2. 1 \in 1..Len(q)
    BY <2>1
  <2>3. Len(q) = 1
    BY <2>1, <2>2 DEF LoadLast
  <2>4. Tail(q) \in Seq(CallRecords) /\ Len(Tail(q)) = 0
    BY <2>3
  <2> QED
    BY <2>4, EmptySeq
<1>2. r \in Seq(CallRecords) /\ Ordered(r, {}, {}) /\ NoLoad(r)
  <2>1. LoadLast(TestDataCalls(passport))
    BY TestDataOrder DEF NoLoad, LoadLast
  <2>2. CASE present
    <3>1. r = TestDataCalls(passport)
      BY <2>2, TestDataOrder, ConcatEmptySeq
    <3> QED
      BY <3>1, TestDataOrder
  <2>3. CASE ~present
    BY <2>1, <2>3, ScimOrder, TestDataOrder, Concat
  <2> QED
    BY <2>2, <2>3
<1>3. ScopesOnce(r, ~present, FALSE)
  <2>1. CASE present
    <3>1. r = TestDataCalls(passport)
      BY <2>1, TestDataOrder, ConcatEmptySeq
    <3> QED
      BY <2>1, <3>1, TestDataOrder DEF r
  <2>2. CASE ~present
    <3>1. ScopesOnce(ScimCalls \o TestDataCalls(passport), TRUE, FALSE)
      BY ScimOrder, TestDataOrder, ScopesConcat
    <3> QED
      BY <2>2, <3>1, MoreScopes DEF r
  <2> QED
    BY <2>1, <2>2
<1>4. r \o Tail(q) = r
  BY <1>1, <1>2, ConcatEmptySeq
<1>5. LoadLast(r)
  BY <1>2 DEF NoLoad, LoadLast
<1> QED
  BY <1>2, <1>3, <1>4, <1>5

-----------------------------------------------------------------------------
(* What is among the calls.                                                 *)

\* The call is in the sequence.
Has(q, do, on, client) ==
    \E i \in 1..Len(q) : q[i].do = do /\ q[i].on = on /\ q[i].client = client

RpVar(job) == IF job = "scim" THEN "scim_rp_client_id" ELSE "passport_rp_client_id"

\* The calls in a sequence followed by another.
LEMMA HasConcat ==
    ASSUME NEW p \in Seq(CallRecords), NEW q \in Seq(CallRecords), NEW do, NEW on, NEW client
    PROVE  /\ Has(p, do, on, client) => Has(p \o q, do, on, client)
           /\ Has(q, do, on, client) => Has(p \o q, do, on, client)
<1> DEFINE r == p \o q
<1>1. /\ Len(p) \in Nat /\ Len(q) \in Nat /\ Len(r) = Len(p) + Len(q)
      /\ \A i \in 1..Len(p) : r[i] = p[i] /\ i \in 1..Len(r)
      /\ \A i \in 1..Len(q) : r[Len(p) + i] = q[i] /\ Len(p) + i \in 1..Len(r)
  OBVIOUS
<1> HIDE DEF r
<1>2. /\ Has(p, do, on, client) => Has(r, do, on, client)
      /\ Has(q, do, on, client) => Has(r, do, on, client)
  BY <1>1 DEF Has
<1> QED
  BY <1>2 DEF r

\* The calls in what remains of a sequence.
LEMMA HasTail ==
    ASSUME NEW q \in Seq(CallRecords), q # <<>>, NEW do, NEW on, NEW client,
           Has(q, do, on, client)
    PROVE  \/ Has(Tail(q), do, on, client)
           \/ Head(q).do = do /\ Head(q).on = on /\ Head(q).client = client
<1> DEFINE r == Tail(q)
<1>1. /\ Len(r) = Len(q) - 1 /\ Len(q) \in Nat /\ Len(q) > 0 /\ Head(q) = q[1]
      /\ \A i \in 1..Len(r) : r[i] = q[i + 1]
  OBVIOUS
<1> HIDE DEF r
<1>2. PICK i \in 1..Len(q) : q[i].do = do /\ q[i].on = on /\ q[i].client = client
  BY DEF Has
<1>3. CASE i = 1
  BY <1>1, <1>2, <1>3
<1>4. CASE i # 1
  <2>1. i - 1 \in 1..Len(r) /\ (i - 1) + 1 = i
    BY <1>1, <1>4
  <2>2. r[i - 1] = q[i]
    BY <1>1, <2>1
  <2>3. Has(r, do, on, client)
    BY <1>2, <2>1, <2>2 DEF Has
  <2> QED
    BY <2>3 DEF r
<1> QED
  BY <1>3, <1>4

\* The calls of a service, as they are in a run that installs it.
ServiceCalls(q, job) ==
    /\ Has(q, "service", job, "none")
    /\ Has(q, "script", "2DAF-F9A5", "none")
    /\ Has(q, "settings", job, "none")
    /\ \A s \in UmaPolicies : Has(q, "allow", s, RpVar(job))

\* A run that installs a service makes all of its calls.
LEMMA RunServes ==
    ASSUME NEW jobs, NEW job \in jobs \cap Services
    PROVE  ServiceCalls(CallsOf(jobs), job)
<1> DEFINE S == IF "scim" \in jobs THEN ScimCalls ELSE <<>>
           P == IF "passport" \in jobs THEN PassportCalls ELSE <<>>
           L == IF "testdata" \in jobs THEN <<Call("load", "testdata")>> ELSE <<>>
           SP == S \o P
<1>1. S \in Seq(CallRecords) /\ P \in Seq(CallRecords) /\ L \in Seq(CallRecords)
  BY ScimOrder, PassportOrder, LoadCallOrder, EmptySeq
<1>2. CallsOf(jobs) = SP \o L
  BY DEF CallsOf
<1>3. ServiceCalls(ScimCalls, "scim")
  <2> DEFINE q == ScimCalls
  <2>1. /\ Len(q) = 12
        /\ q[12].do = "service" /\ q[12].on = "scim" /\ q[12].client = "none"
        /\ q[11].do = "script" /\ q[11].on = "2DAF-F9A5" /\ q[11].client = "none"
        /\ q[8].do = "settings" /\ q[8].on = "scim" /\ q[8].client = "none"
        /\ q[9].do = "allow" /\ q[9].on = "2DAF-F9A5" /\ q[9].client = "scim_rp_client_id"
        /\ q[10].do = "allow" /\ q[10].on = "2DAF-F995" /\ q[10].client = "scim_rp_client_id"
    BY DEF ScimCalls, Call, Allow
  <2> HIDE DEF q
  <2>2. Has(q, "service", "scim", "none") /\ Has(q, "script", "2DAF-F9A5", "none")
    BY <2>1 DEF Has
  <2>3. Has(q, "settings", "scim", "none")
    BY <2>1 DEF Has
  <2>4. /\ Has(q, "allow", "2DAF-F9A5", "scim_rp_client_id")
        /\ Has(q, "allow", "2DAF-F995", "scim_rp_client_id")
    BY <2>1 DEF Has
  <2>5. ServiceCalls(q, "scim")
    BY <2>2, <2>3, <2>4 DEF ServiceCalls, RpVar, UmaPolicies
  <2> QED
    BY <2>5 DEF q
<1>4. ServiceCalls(PassportCalls, "passport")
  <2> DEFINE q == PassportCalls
  <2>1. /\ Len(q) = 16
        /\ q[14].do = "service" /\ q[14].on = "passport" /\ q[14].client = "none"
        /\ q[12].do = "script" /\ q[12].on = "2DAF-F9A5" /\ q[12].client = "none"
        /\ q[13].do = "settings" /\ q[13].on = "passport" /\ q[13].client = "none"
        /\ q[15].do = "allow" /\ q[15].on = "2DAF-F9A5" /\ q[15].client = "passport_rp_client_id"
        /\ q[16].do = "allow" /\ q[16].on = "2DAF-F995" /\ q[16].client = "passport_rp_client_id"
    BY DEF PassportCalls, Call, Allow
  <2> HIDE DEF q
  <2>2. Has(q, "service", "passport", "none") /\ Has(q, "script", "2DAF-F9A5", "none")
    BY <2>1 DEF Has
  <2>3. Has(q, "settings", "passport", "none")
    BY <2>1 DEF Has
  <2>4. /\ Has(q, "allow", "2DAF-F9A5", "passport_rp_client_id")
        /\ Has(q, "allow", "2DAF-F995", "passport_rp_client_id")
    BY <2>1 DEF Has
  <2>5. ServiceCalls(q, "passport")
    BY <2>2, <2>3, <2>4 DEF ServiceCalls, RpVar, UmaPolicies
  <2> QED
    BY <2>5 DEF q
<1>5. ServiceCalls(S, job) \/ ServiceCalls(P, job)
  BY <1>3, <1>4 DEF Services
<1> HIDE DEF S, P, L
<1>6. ServiceCalls(SP, job)
  BY <1>1, <1>5, HasConcat DEF ServiceCalls
<1>7. SP \in Seq(CallRecords)
  BY <1>1
<1> HIDE DEF SP
<1>8. ServiceCalls(SP \o L, job)
  BY <1>1, <1>6, <1>7, HasConcat DEF ServiceCalls
<1> QED
  BY <1>2, <1>8

-----------------------------------------------------------------------------
(* The lists of clients.                                                   *)

\* The first of some positions is one of them.
LEMMA FirstIsIn ==
    ASSUME NEW I \in SUBSET Nat, I # {}
    PROVE  FirstOf(I) \in I
<1>1. \E i \in I : \A j \in I : ~(<<j, i>> \in OpToRel(<, Nat))
  BY NatLessThanWellFounded, WFMin
<1>2. \A i, j \in Nat : ~(<<j, i>> \in OpToRel(<, Nat)) => i <= j
  BY DEF OpToRel
<1>3. \E i \in I : \A j \in I : i <= j
  BY <1>1, <1>2
<1> QED
  BY <1>3 DEF FirstOf

\* A list stays one of sound values when a client is put into one of them.
LEMMA ListWith ==
    ASSUME NEW S, NEW list \in Seq(S), NEW c, NEW i, \A v \in S : v \cup {c} \in S
    PROVE  WithClient(list, i, c) \in Seq(S) /\ (list # <<>> => WithClient(list, i, c) # <<>>)
<1> DEFINE new == WithClient(list, i, c)
<1>0. list \in [1..Len(list) -> S]
  BY LenProperties
<1>1. new = [j \in 1..Len(list) |-> IF j = i THEN list[j] \cup {c} ELSE list[j]]
  BY <1>0 DEF WithClient
<1>2. \A j \in 1..Len(list) : list[j] \in S
  OBVIOUS
<1>3. new \in [1..Len(list) -> S] /\ Len(list) \in Nat
  BY <1>1, <1>2
<1> HIDE DEF new
<1>4. new \in Seq(S)
  BY <1>3, SeqDef
<1>5. Len(new) = Len(list)
  BY <1>3, <1>4, LenProperties
<1>6. list # <<>> => new # <<>>
  BY <1>5, EmptySeq
<1> QED
  BY <1>4, <1>6 DEF new

\* A list stays one of sound values when one of them is taken out.
LEMMA ListWithout ==
    ASSUME NEW S, NEW list \in Seq(S), NEW i \in DOMAIN list
    PROVE  Without(list, i) \in Seq(S)
<1>1. /\ Len(list) \in Nat /\ i \in 1..Len(list) /\ i - 1 \in Int /\ i + 1 \in Int
      /\ \A j \in 1..Len(list) : list[j] \in S
  OBVIOUS
<1>2. SubSeq(list, 1, i - 1) \in Seq(S)
  BY <1>1, SubSeqProperties
<1>3. SubSeq(list, i + 1, Len(list)) \in Seq(S)
  BY <1>1, SubSeqProperties
<1> QED
  BY <1>2, <1>3 DEF Without

\* The clients in all the values of a list.
AllIn(list) == UNION {list[i] : i \in DOMAIN list}

\* What is in a list when a client is put into one of its values.
LEMMA AllInWith ==
    ASSUME NEW S, NEW list \in Seq(S), NEW c, NEW i
    PROVE  /\ AllIn(list) \subseteq AllIn(WithClient(list, i, c))
           /\ i \in DOMAIN list => c \in AllIn(WithClient(list, i, c))
<1> DEFINE new == WithClient(list, i, c)
<1>1. list \in [1..Len(list) -> S]
  BY LenProperties
<1>2. new = [j \in 1..Len(list) |-> IF j = i THEN list[j] \cup {c} ELSE list[j]]
  BY <1>1 DEF WithClient
<1> HIDE DEF new
<1>3. /\ DOMAIN new = DOMAIN list
      /\ \A j \in DOMAIN list : list[j] \subseteq new[j] /\ (j = i => c \in new[j])
  BY <1>1, <1>2
<1>4. AllIn(list) \subseteq AllIn(new) /\ (i \in DOMAIN list => c \in AllIn(new))
  BY <1>3 DEF AllIn
<1> QED
  BY <1>4 DEF new

\* What is in a list without one of its values, and in that value.
LEMMA AllInWithout ==
    ASSUME NEW S, NEW list \in Seq(S), NEW i \in DOMAIN list
    PROVE  AllIn(list) \subseteq AllIn(Without(list, i)) \cup list[i]
<1> DEFINE p == SubSeq(list, 1, i - 1)
           q == SubSeq(list, i + 1, Len(list))
           new == Without(list, i)
<1>1. /\ Len(list) \in Nat /\ i \in 1..Len(list) /\ i - 1 \in Int /\ i + 1 \in Int
      /\ \A j \in 1..Len(list) : list[j] \in S
      /\ DOMAIN list = 1..Len(list)
  BY LenProperties
<1>2. /\ p \in Seq(S) /\ Len(p) = i - 1
      /\ \A j \in 1..(i - 1) : p[j] = list[j]
  <2>1. /\ p \in Seq(S) /\ Len(p) = IF 1 <= i - 1 THEN (i - 1) - 1 + 1 ELSE 0
        /\ \A j \in 1..((i - 1) - 1 + 1) : p[j] = list[1 + j - 1]
    BY <1>1, SubSeqProperties
  <2> HIDE DEF p
  <2> QED
    BY <1>1, <2>1
<1>3. /\ q \in Seq(S) /\ Len(q) = Len(list) - i
      /\ \A j \in 1..(Len(list) - i) : q[j] = list[i + j]
  <2>1. /\ q \in Seq(S)
        /\ Len(q) = IF i + 1 <= Len(list) THEN Len(list) - (i + 1) + 1 ELSE 0
        /\ \A j \in 1..(Len(list) - (i + 1) + 1) : q[j] = list[(i + 1) + j - 1]
    BY <1>1, SubSeqProperties
  <2> HIDE DEF q
  <2>2. /\ Len(list) - (i + 1) + 1 = Len(list) - i
        /\ \A j \in 1..(Len(list) - i) : (i + 1) + j - 1 = i + j
    BY <1>1
  <2>3. \A j \in 1..(Len(list) - i) : q[j] = list[i + j]
    BY <2>1, <2>2
  <2> QED
    BY <1>1, <2>1, <2>3
<1>4. new = p \o q
  BY DEF Without
<1> HIDE DEF p, q, new
<1>5. /\ new \in Seq(S) /\ Len(new) = (i - 1) + (Len(list) - i)
      /\ \A j \in 1..(i - 1) : new[j] = p[j]
      /\ \A j \in 1..(Len(list) - i) : new[(i - 1) + j] = q[j]
  <2> DEFINE r == p \o q
  <2>1. /\ r \in Seq(S) /\ Len(r) = Len(p) + Len(q)
        /\ \A j \in 1..Len(p) : r[j] = p[j]
        /\ \A j \in 1..Len(q) : r[Len(p) + j] = q[j]
    <3>1. p \in Seq(S) /\ q \in Seq(S)
      BY <1>2, <1>3
    <3> QED
      BY <3>1
  <2>2. new = r
    BY <1>4
  <2> HIDE DEF r
  <2> QED
    BY <1>2, <1>3, <2>1, <2>2
<1> DEFINE last == (i - 1) + (Len(list) - i)
<1>6. DOMAIN new = 1..last /\ last = Len(list) - 1
  BY <1>1, <1>5, LenProperties
<1> HIDE DEF last
<1>7. ASSUME NEW j \in 1..Len(list), j # i PROVE \E k \in DOMAIN new : new[k] = list[j]
  <2>1. CASE j < i
    <3>1. j \in 1..(i - 1) /\ j \in 1..last
      BY <1>1, <1>6, <2>1
    <3> QED
      BY <1>2, <1>5, <1>6, <3>1
  <2>2. CASE j > i
    <3> DEFINE m == j - i
    <3>1. m \in 1..(Len(list) - i) /\ i + m = j /\ (i - 1) + m \in 1..last
      BY <1>1, <1>6, <2>2
    <3> HIDE DEF m
    <3>2. q[m] = list[j] /\ new[(i - 1) + m] = q[m]
      BY <1>3, <1>5, <3>1
    <3> QED
      BY <1>6, <3>1, <3>2
  <2> QED
    BY <1>1, <1>7, <2>1, <2>2
<1>8. AllIn(list) \subseteq AllIn(new) \cup list[i]
  BY <1>1, <1>7 DEF AllIn
<1> QED
  BY <1>8 DEF new

\* What is in a list with one value more.
LEMMA AllInAppend ==
    ASSUME NEW S, NEW list \in Seq(S), NEW e \in S
    PROVE  AllIn(list) \subseteq AllIn(Append(list, e)) /\ e \subseteq AllIn(Append(list, e))
<1> DEFINE new == Append(list, e)
<1>1. /\ Len(list) \in Nat /\ DOMAIN list = 1..Len(list)
      /\ new \in Seq(S) /\ Len(new) = Len(list) + 1
      /\ \A j \in 1..Len(list) : new[j] = list[j]
      /\ new[Len(list) + 1] = e
  BY AppendProperties, LenProperties
<1> HIDE DEF new
<1>2. DOMAIN new = 1..(Len(list) + 1)
  BY <1>1, LenProperties
<1>3. AllIn(list) \subseteq AllIn(new) /\ e \subseteq AllIn(new)
  BY <1>1, <1>2 DEF AllIn
<1> QED
  BY <1>3 DEF new


-----------------------------------------------------------------------------
(* The invariant.                                                          *)

\* The identifiers the program knows, and those of them with their entry there.
Known   == {v \in RefVars : Config[v] # 0}
Entered == {v \in RefVars : Config[v] # 0 /\ Config[v] \in entries[v]}

\* The sets of clients that have their entries.
SoundSets == {S \in SUBSET Clients : \A c \in S : c.id \in entries[c.name]}

\* The policies, and a value that is being changed, name clients that are there.
SoundLists ==
    /\ allowed \in [UmaPolicies -> Seq(SoundSets)]
    /\ removed \in Seq(SoundSets)

Calls ==
    /\ todo \in Seq(CallRecords)
    /\ Ordered(todo, Known, Entered)
    /\ LoadLast(todo)
    /\ ~installed_instance =>
          ScopesOnce(todo, entries["scim_scopes"] = {}, "scim" \in warFiles)

\* The kinds of entries there is one of at most.
Single == ClientVars \cup
          (IF backend = "couchbase" THEN {"scim_resource_oxid", "scim_scopes"} ELSE {})

\* An identifier the program knows is the one in the directory, if any; that of
\* Passport's resource is known as soon as there is an entry, and that of SCIM's
\* is the one oxTrust has.
Agreement ==
    pc = "running" =>
        /\ \A v \in Single : Config[v] # 0 => entries[v] \subseteq {Config[v]}
        /\ Config["passport_resource_id"] = 0 => entries["passport_resource_id"] = {}
        /\ oxTrustConf["scim_resource_oxid"] # 0 =>
              Config["scim_resource_oxid"] = oxTrustConf["scim_resource_oxid"]

Untouched ==
    runs = 0 => /\ pc = "off"
                /\ \A n \in Names : entries[n] = {}
                /\ \A v \in SettingVars : oxTrustConf[v] = 0

\* No entry has 0 for its identifier but those of the scripts.
MadeUp == \A v \in IdVars : entries[v] \subseteq Ids

IInv ==
    /\ TypeOK
    /\ SoundLists
    /\ Calls
    /\ MadeUp
    /\ OneEntryEach
    /\ Agreement
    /\ Untouched
    /\ ReferencesExist

-----------------------------------------------------------------------------
(* What the invariant says of one state.                                   *)

\* The identifiers are those of clients and resources, and of the scopes.
LEMMA KindsOfIds ==
    /\ IdVars = RefVars \cup {"scim_scopes"} /\ "scim_scopes" \notin RefVars
    /\ IdVars \subseteq Names /\ RefVars = ClientVars \cup SettingVars
    /\ Single \subseteq IdVars /\ ClientVars \subseteq Single
    /\ \A job \in Services : IdsOf(job) \subseteq RefVars /\ SettingsOf(job) \subseteq SettingVars
BY DEF IdVars, RefVars, ClientVars, ResourceVars, Names, SettingVars, SettingsOf, IdsOf, Services,
   Single

\* OneEntryEach in terms of Single.
LEMMA OneOfSingle == OneEntryEach <=> \A v \in Single : \A a, b \in entries[v] : a = b
BY DEF OneEntryEach, Single

\* A search finds the one entry there is, or nothing.
LEMMA FoundOne ==
    ASSUME OneEntryEach, MadeUp, NEW v \in Single, NEW newest
    PROVE  \/ entries[v] = {} /\ Found(v, newest) = 0
           \/ Found(v, newest) \in Ids /\ entries[v] = {Found(v, newest)}
<1>1. InReach(v) /\ entries[v] \subseteq Ids
  BY KindsOfIds DEF Single, InReach, MadeUp
<1>2. CASE entries[v] = {}
  BY <1>1, <1>2 DEF Found
<1>3. CASE entries[v] # {}
  <2>1. PICK a \in entries[v] : TRUE
    BY <1>3
  <2>2. entries[v] = {a} /\ a \in Ids
    BY <1>1, <2>1, OneOfSingle
  <2>3. a \in Nat /\ a >= a /\ a <= a
    BY <2>2, BoundsAssumption DEF Ids
  <2>4. Found(v, newest) =
          CHOOSE e \in {a} : \A b \in {a} : IF newest THEN e >= b ELSE e <= b
    BY <1>1, <2>2 DEF Found
  <2>5. Found(v, newest) = a
    BY <2>3, <2>4
  <2> QED
    BY <2>2, <2>5
<1> QED
  BY <1>2, <1>3

\* Of what there may be several of, nothing is found.
LEMMA FoundNone ==
    ASSUME NEW v \in IdVars \ Single, v = "passport_resource_id" => entries[v] = {}, NEW newest
    PROVE  Found(v, newest) = 0
BY DEF Found, InReach, Single, IdVars, ResourceVars

\* The first of the calls still to come can be made.
LEMMA HeadReady ==
    ASSUME Calls, todo # <<>>
    PROVE  /\ Sorted(Head(todo))
           /\ AtCall("import") /\ On \in RefVars => On \in Known
           /\ AtCall("settings") => SettingsOf(On) \subseteq Entered
           /\ AtCall("allow") => Head(todo).client \in Entered
           /\ AtCall("scopes") /\ ~installed_instance => entries["scim_scopes"] = {}
<1>1. 1 \in 1..Len(todo) /\ Head(todo) = todo[1] /\ todo \in Seq(CallRecords)
  BY DEF Calls
<1>2. Ready(todo, 1, Known, Entered)
  BY <1>1 DEF Calls, Ordered
<1>3. \A v : ~ImportedBefore(todo, 1, v) /\ ~CheckedBefore(todo, 1, v)
  BY DEF ImportedBefore, CheckedBefore
<1>4. AtCall("scopes") /\ ~installed_instance => entries["scim_scopes"] = {}
  BY <1>1 DEF Calls, ScopesOnce, Scopeless, AtCall
<1> QED
  BY <1>1, <1>2, <1>3, <1>4 DEF Ready, AtCall, On

\* A sound list names clients that are there.
LEMMA ListsMean ==
    ASSUME SoundLists
    PROVE  \A s \in UmaPolicies : \A i \in DOMAIN allowed[s] :
               /\ allowed[s][i] \subseteq Clients
               /\ \A c \in allowed[s][i] : c.id \in entries[c.name]
<1> SUFFICES ASSUME NEW s \in UmaPolicies, NEW i \in DOMAIN allowed[s]
             PROVE  allowed[s][i] \in SoundSets
  BY DEF SoundSets
<1>1. allowed[s] \in Seq(SoundSets)
  BY DEF SoundLists
<1> QED
  BY <1>1

-----------------------------------------------------------------------------
(* What a step preserves.                                                  *)

\* Entries are never deleted, so that sound lists stay sound.
LEMMA SoundStays ==
    ASSUME SoundLists, \A n \in Names : entries[n] \subseteq entries'[n]
    PROVE  /\ SoundSets \subseteq SoundSets'
           /\ allowed \in [UmaPolicies -> Seq(SoundSets')]
           /\ removed \in Seq(SoundSets')
<1>1. SoundSets \subseteq SoundSets'
  <2>1. ClientVars \subseteq Names /\ \A c \in Clients : c.name \in ClientVars
    BY KindsOfIds DEF Clients, RefVars
  <2> QED
    BY <2>1 DEF SoundSets
<1>2. \A s \in UmaPolicies : allowed[s] \in Seq(SoundSets')
  BY <1>1, SeqMonotonic DEF SoundLists
<1>3. removed \in Seq(SoundSets')
  BY <1>1, SeqMonotonic DEF SoundLists
<1> QED
  BY <1>1, <1>2, <1>3 DEF SoundLists

\* The calls that remain when one has been made.
LEMMA CallMade ==
    ASSUME Calls, todo # <<>>, todo' = Tail(todo),
           installed_instance' = installed_instance,
           Known \subseteq Known', Entered \subseteq Entered', warFiles \subseteq warFiles',
           Head(todo).do = "configure" => IdsOf(On) \subseteq Known',
           Head(todo).do = "import" /\ On \in RefVars => On \in Entered',
           Head(todo).do = "files" /\ On = "scim" => "scim" \in warFiles',
           entries["scim_scopes"] = {} /\ ~(Head(todo).do = "import" /\ On = "scim_scopes") =>
               entries'["scim_scopes"] = {}
    PROVE  Calls'
<1>1. /\ todo' \in Seq(CallRecords) /\ Ordered(todo', Known', Entered') /\ LoadLast(todo')
  BY AfterHead DEF Calls, On
<1>2. ~installed_instance =>
          ScopesOnce(todo', entries'["scim_scopes"] = {}, "scim" \in warFiles')
  BY ScopesAfterHead DEF Calls, On
<1> QED
  BY <1>1, <1>2 DEF Calls

\* Calls that change neither identifiers nor lists.
QuietCall ==
    InstallFiles \/ ImportNothing \/ EnableService \/ EnableScript \/ DisableCasaScript

\* They preserve the invariant.
LEMMA QuietStep ==
    ASSUME IInv, QuietCall
    PROVE  IInv'
<1>1. /\ pc = "running" /\ todo # <<>> /\ todo' = Tail(todo)
      /\ UNCHANGED <<backend, installCasa, pc, installed_instance, picked, runs, failures>>
      /\ UNCHANGED <<entries, edited, oxTrustConf, allowed, Config, removed>>
  BY DEF QuietCall, InstallFiles, ImportNothing, EnableService, EnableScript, DisableCasaScript,
     AtCall, Goes, runVars, directoryVars
<1>2. /\ Sorted(Head(todo))
      /\ Calls /\ TypeOK
  BY <1>1, HeadReady DEF IInv
<1>3. /\ warFiles' \subseteq Jobs /\ warFiles \subseteq warFiles'
      /\ Head(todo).do = "files" /\ On = "scim" => "scim" \in warFiles'
      /\ Head(todo).do = "configure" => FALSE
      /\ Head(todo).do = "import" => On = "scim_scopes"
      /\ serviceOn' \subseteq Jobs /\ scriptOn' \subseteq Scripts
  BY <1>2 DEF QuietCall, InstallFiles, ImportNothing, EnableService, EnableScript,
     DisableCasaScript, AtCall, directoryVars, NothingToImport, Sorted, TypeOK, On, Services, Jobs,
     Scripts
<1>4. TypeOK'
  BY <1>1, <1>2, <1>3 DEF TypeOK
<1>5. Calls'
  <2>1. Known' = Known /\ Entered' = Entered
    BY <1>1 DEF Known, Entered
  <2> QED
    BY <1>1, <1>2, <1>3, <2>1, CallMade, KindsOfIds
<1>6. /\ SoundLists' /\ MadeUp' /\ OneEntryEach' /\ Agreement' /\ Untouched' /\ ReferencesExist'
  BY <1>1 DEF IInv, SoundLists, SoundSets, MadeUp, OneEntryEach, Agreement, Single, Untouched,
     ReferencesExist
<1> QED
  BY <1>4, <1>5, <1>6 DEF IInv

\* The settings: what they name is there.
LEMMA SettingsStep ==
    ASSUME IInv, SetOxTrustConf
    PROVE  IInv'
<1>1. /\ pc = "running" /\ todo # <<>> /\ todo' = Tail(todo) /\ AtCall("settings")
      /\ UNCHANGED <<backend, installCasa, pc, installed_instance, picked, runs, failures>>
      /\ UNCHANGED <<entries, edited, allowed, scriptOn, serviceOn, warFiles, Config, removed>>
      /\ oxTrustConf' = [v \in SettingVars |->
                            IF v \in SettingsOf(On) THEN Config[v] ELSE oxTrustConf[v]]
  BY DEF SetOxTrustConf, AtCall, Goes, runVars
<1>2. /\ SettingsOf(On) \subseteq Entered /\ Calls /\ TypeOK
  BY <1>1, HeadReady DEF IInv
<1>3. oxTrustConf' \in [SettingVars -> {0} \cup Ids]
  BY <1>1, <1>2, KindsOfIds DEF TypeOK
<1>4. TypeOK'
  BY <1>1, <1>2, <1>3 DEF TypeOK
<1>5. Calls'
  <2>1. Known' = Known /\ Entered' = Entered
    BY <1>1 DEF Known, Entered
  <2> QED
    BY <1>1, <1>2, <2>1, CallMade DEF AtCall
<1>6. SoundLists' /\ MadeUp' /\ OneEntryEach'
  BY <1>1 DEF IInv, SoundLists, SoundSets, MadeUp, OneEntryEach
<1>7. Agreement'
  BY <1>1, KindsOfIds DEF IInv, Agreement, Single, SettingVars, SettingsOf
<1>8. Untouched'
  BY <1>1 DEF IInv, Untouched
<1>9. ReferencesExist'
  <2>1. \A v \in SettingVars : oxTrustConf'[v] # 0 => oxTrustConf'[v] \in entries'[v]
    BY <1>1, <1>2 DEF IInv, ReferencesExist, Entered
  <2> QED
    BY <1>1, <2>1 DEF IInv, ReferencesExist
<1> QED
  BY <1>4, <1>5, <1>6, <1>7, <1>8, <1>9 DEF IInv

\* check_clients keeps what the program knows, and otherwise takes the entry
\* there is.
LEMMA CheckedIs ==
    ASSUME IInv, pc = "running", NEW v \in RefVars, NEW newest
    PROVE  /\ Config[v] # 0 => Checked(Config, v, runs, newest) = Config[v]
           /\ Checked(Config, v, runs, newest) \in Ids
           /\ v \in Single => entries[v] \subseteq {Checked(Config, v, runs, newest)}
<1>1. runs \in Ids /\ Config[v] \in {0} \cup Ids /\ 0 \notin Ids
  BY BoundsAssumption, KindsOfIds DEF IInv, TypeOK, Untouched, Ids
<1>2. v \in Single => \/ entries[v] = {} /\ Found(v, newest) = 0
                      \/ Found(v, newest) \in Ids /\ entries[v] = {Found(v, newest)}
  BY FoundOne DEF IInv
<1>3. v \notin Single /\ Config[v] = 0 => Found(v, newest) = 0
  BY FoundNone, KindsOfIds DEF IInv, Agreement
<1>4. v \in Single /\ Config[v] # 0 => entries[v] \subseteq {Config[v]}
  BY DEF IInv, Agreement
<1> QED
  BY <1>1, <1>2, <1>3, <1>4 DEF Checked

\* generate_configuration preserves the invariant: what it takes or makes up agrees
\* with the directory.
LEMMA ConfigureStep ==
    ASSUME IInv, GenerateConfiguration
    PROVE  IInv'
<1>1. /\ pc = "running" /\ todo # <<>> /\ todo' = Tail(todo) /\ Head(todo).do = "configure"
      /\ UNCHANGED <<backend, installCasa, pc, installed_instance, picked, runs, failures>>
      /\ UNCHANGED <<entries, edited, oxTrustConf, allowed, scriptOn, serviceOn, warFiles, removed>>
  BY DEF GenerateConfiguration, AtCall, Goes, runVars, directoryVars
<1>2. PICK newest \in BOOLEAN :
          Config' = [v \in IdVars |-> IF v \in IdsOf(On) THEN Checked(Config, v, runs, newest)
                                                         ELSE Config[v]]
  BY DEF GenerateConfiguration
<1>3. /\ IdsOf(On) \subseteq RefVars /\ Calls /\ TypeOK /\ "scim_scopes" \notin IdsOf(On)
  BY <1>1, HeadReady, KindsOfIds DEF IInv, Sorted, On
<1>4. ASSUME NEW v \in RefVars
      PROVE  /\ Config[v] # 0 => Config'[v] = Config[v]
             /\ v \in IdsOf(On) => Config'[v] \in Ids /\ Config'[v] # 0
             /\ v \in Single /\ Config'[v] # 0 => entries[v] \subseteq {Config'[v]}
  <2>1. v \in IdVars /\ 0 \notin Ids
    BY KindsOfIds, BoundsAssumption DEF Ids
  <2>2. v \in Single /\ Config[v] # 0 => entries[v] \subseteq {Config[v]}
    BY <1>1 DEF IInv, Agreement
  <2> QED
    BY <1>1, <1>2, <2>1, <2>2, CheckedIs
<1>5. Config' \in [IdVars -> {0} \cup Ids]
  BY <1>2, <1>3, <1>4 DEF TypeOK
<1>6. TypeOK'
  BY <1>1, <1>3, <1>5 DEF TypeOK
<1>7. Calls'
  <2>1. Known \subseteq Known' /\ Entered \subseteq Entered' /\ IdsOf(On) \subseteq Known'
    BY <1>1, <1>3, <1>4 DEF Known, Entered
  <2> QED
    BY <1>1, <1>3, <2>1, CallMade
<1>8. SoundLists' /\ MadeUp' /\ OneEntryEach' /\ Untouched' /\ ReferencesExist'
  BY <1>1 DEF IInv, SoundLists, SoundSets, MadeUp, OneEntryEach, Untouched, ReferencesExist
<1>9. Agreement'
  <2>1. Config'["scim_scopes"] = Config["scim_scopes"]
    BY <1>2, <1>3, KindsOfIds
  <2>2. \A v \in Single : Config'[v] # 0 => entries[v] \subseteq {Config'[v]}
    BY <1>1, <1>4, <2>1, KindsOfIds DEF IInv, Agreement
  <2>3. Config'["passport_resource_id"] = 0 => entries["passport_resource_id"] = {}
    BY <1>1, <1>4 DEF IInv, Agreement, RefVars, ResourceVars
  <2>4. oxTrustConf["scim_resource_oxid"] # 0 =>
          Config'["scim_resource_oxid"] = oxTrustConf["scim_resource_oxid"]
    BY <1>1, <1>4 DEF IInv, Agreement, RefVars, ResourceVars
  <2> QED
    BY <1>1, <2>2, <2>3, <2>4 DEF Agreement, Single
<1> QED
  BY <1>6, <1>7, <1>8, <1>9 DEF IInv

\* Scopes are made up when there are none.
LEMMA ScopesStep ==
    ASSUME IInv, ScimScopes
    PROVE  IInv'
<1>1. /\ pc = "running" /\ todo # <<>> /\ todo' = Tail(todo) /\ AtCall("scopes")
      /\ UNCHANGED <<backend, installCasa, pc, installed_instance, picked, runs, failures>>
      /\ UNCHANGED <<entries, edited, oxTrustConf, allowed, scriptOn, serviceOn, warFiles, removed>>
      /\ Config' = [Config EXCEPT ![On] =
                       IF installed_instance /\ Found(On, TRUE) # 0 THEN 0 ELSE runs]
  BY DEF ScimScopes, AtCall, Goes, runVars, directoryVars
<1>2. /\ On = "scim_scopes" /\ Calls /\ TypeOK
      /\ ~installed_instance => entries["scim_scopes"] = {}
      /\ runs \in Ids /\ "scim_scopes" \in IdVars
  BY <1>1, HeadReady, KindsOfIds, BoundsAssumption
     DEF IInv, Sorted, On, AtCall, TypeOK, Untouched, Ids
<1>3. /\ \A v \in RefVars : Config'[v] = Config[v]
      /\ Config' \in [IdVars -> {0} \cup Ids]
      /\ Config'["scim_scopes"] =
            IF installed_instance /\ Found("scim_scopes", TRUE) # 0 THEN 0 ELSE runs
  BY <1>1, <1>2, KindsOfIds DEF TypeOK
<1>4. TypeOK'
  BY <1>1, <1>2, <1>3 DEF TypeOK
<1>5. Calls'
  <2>1. Known' = Known /\ Entered' = Entered
    BY <1>1, <1>3 DEF Known, Entered
  <2> QED
    BY <1>1, <1>2, <2>1, CallMade DEF AtCall
<1>6. SoundLists' /\ MadeUp' /\ OneEntryEach' /\ Untouched' /\ ReferencesExist'
  BY <1>1 DEF IInv, SoundLists, SoundSets, MadeUp, OneEntryEach, Untouched, ReferencesExist
<1>7. Agreement'
  <2>1. "scim_scopes" \in Single /\ Config'["scim_scopes"] # 0 => entries["scim_scopes"] = {}
    <3> SUFFICES ASSUME "scim_scopes" \in Single, Config'["scim_scopes"] # 0
                 PROVE  entries["scim_scopes"] = {}
      OBVIOUS
    <3>1. \/ entries["scim_scopes"] = {} /\ Found("scim_scopes", TRUE) = 0
          \/ Found("scim_scopes", TRUE) \in Ids
      BY FoundOne DEF IInv
    <3>2. 0 \notin Ids
      BY BoundsAssumption DEF Ids
    <3> QED
      BY <1>2, <1>3, <3>1, <3>2
  <2>2. \A v \in Single : Config'[v] # 0 => entries[v] \subseteq {Config'[v]}
    BY <1>1, <1>3, <2>1, KindsOfIds DEF IInv, Agreement
  <2> QED
    BY <1>1, <1>3, <2>2, KindsOfIds DEF IInv, Agreement, Single, RefVars, ResourceVars
<1> QED
  BY <1>4, <1>5, <1>6, <1>7 DEF IInv

\* The test data bring further calls.
LEMMA LoadStep ==
    ASSUME IInv, LoadTestData
    PROVE  IInv'
<1> DEFINE present == "scim" \in warFiles
           passport == "passport" \in warFiles
<1>1. /\ pc = "running" /\ todo # <<>> /\ Head(todo).do = "load"
      /\ todo' = (IF present THEN <<>> ELSE ScimCalls) \o TestDataCalls(passport) \o Tail(todo)
      /\ UNCHANGED <<backend, installCasa, pc, installed_instance, picked, runs, failures>>
      /\ UNCHANGED <<entries, edited, oxTrustConf, allowed, scriptOn, serviceOn, warFiles,
                     Config, removed>>
  BY DEF LoadTestData, AtCall, runVars, directoryVars
<1>2. todo \in Seq(CallRecords) /\ LoadLast(todo) /\ TypeOK
  BY DEF IInv, Calls
<1>3. /\ todo' \in Seq(CallRecords) /\ Ordered(todo', {}, {}) /\ LoadLast(todo')
      /\ ScopesOnce(todo', ~present, FALSE)
  <2>1. present \in BOOLEAN /\ passport \in BOOLEAN
    OBVIOUS
  <2> HIDE DEF present, passport
  <2> QED
    BY <1>1, <1>2, <2>1, LoadOrder
<1>4. Calls'
  <2>1. ~installed_instance /\ ~present => entries["scim_scopes"] = {}
    <3>1. /\ 1 \in 1..Len(todo) /\ Head(todo) = todo[1]
          /\ ~FilesBefore(todo, 1)
      BY <1>1, <1>2 DEF FilesBefore
    <3> QED
      BY <1>1, <3>1 DEF IInv, Calls, ScopesOnce, Scopeless
  <2>2. ~installed_instance => ScopesOnce(todo', entries["scim_scopes"] = {}, present)
    BY <1>3, <2>1 DEF ScopesOnce, Scopeless
  <2>3. Ordered(todo', Known', Entered')
    BY <1>3, MoreKnown
  <2> QED
    BY <1>1, <1>3, <2>2, <2>3 DEF Calls
<1>5. TypeOK'
  BY <1>1, <1>2 DEF TypeOK
<1>6. /\ SoundLists' /\ MadeUp' /\ OneEntryEach' /\ Agreement' /\ Untouched' /\ ReferencesExist'
  BY <1>1 DEF IInv, SoundLists, SoundSets, MadeUp, OneEntryEach, Agreement, Single, Untouched,
     ReferencesExist
<1> QED
  BY <1>4, <1>5, <1>6 DEF IInv

\* Imports: the entry is the one the program knows.
ImportCall == AddEntryLdap \/ AddEntrySql \/ AddEntrySpanner \/ UpsertEntry

\* What an import does in any of the databases.
LEMMA ImportEffect ==
    ASSUME IInv, ImportCall
    PROVE  /\ pc = "running" /\ todo # <<>> /\ todo' = Tail(todo) /\ AtCall("import")
           /\ ~NothingToImport
           /\ UNCHANGED <<backend, installCasa, pc, installed_instance, picked, runs, failures>>
           /\ UNCHANGED <<oxTrustConf, allowed, serviceOn, warFiles, Config, removed>>
           /\ entries' = [entries EXCEPT ![On] = @ \cup {ImportedId}]
           /\ edited' = edited \/ edited' = [edited EXCEPT ![On] = @ \ {ImportedId}]
           /\ scriptOn' = scriptOn \/ scriptOn' = scriptOn \cup ({On} \cap Scripts)
BY DEF ImportCall, AddEntryLdap, AddEntrySql, AddEntrySpanner, UpsertEntry, AddIfAbsent, AtImport,
   AtCall, Imported, Goes, runVars

\* An import preserves the invariant: the entry it adds is the one there is, if any.
LEMMA ImportStep ==
    ASSUME IInv, ImportCall
    PROVE  IInv'
<1>1. /\ pc = "running" /\ todo # <<>> /\ todo' = Tail(todo) /\ AtCall("import")
      /\ ~NothingToImport
      /\ UNCHANGED <<backend, installCasa, pc, installed_instance, picked, runs, failures>>
      /\ UNCHANGED <<oxTrustConf, allowed, serviceOn, warFiles, Config, removed>>
      /\ entries' = [entries EXCEPT ![On] = @ \cup {ImportedId}]
      /\ edited' = edited \/ edited' = [edited EXCEPT ![On] = @ \ {ImportedId}]
      /\ scriptOn' = scriptOn \/ scriptOn' = scriptOn \cup ({On} \cap Scripts)
  BY ImportEffect
<1>2. /\ On \in Names /\ (On \in RefVars => On \in Known) /\ Calls /\ TypeOK
  BY <1>1, HeadReady DEF IInv, AtCall, Sorted, On
<1>3. /\ On \in IdVars => ImportedId = Config[On] /\ Config[On] # 0 /\ ImportedId \in Ids
      /\ ImportedId \in 0..MaxRuns
  <2>1. On \in IdVars => Config[On] # 0 /\ Config[On] \in {0} \cup Ids
    BY <1>1, <1>2, KindsOfIds DEF NothingToImport, Known, TypeOK
  <2> QED
    BY <2>1, BoundsAssumption DEF ImportedId, Ids
<1>4. /\ \A n \in Names : entries'[n] = IF n = On THEN entries[n] \cup {ImportedId} ELSE entries[n]
      /\ entries' \in [Names -> SUBSET (0..MaxRuns)]
      /\ \A n \in Names : entries[n] \subseteq entries'[n]
  BY <1>1, <1>2, <1>3 DEF TypeOK
<1>5. TypeOK'
  <2>1. /\ edited' \in [Names -> SUBSET (0..MaxRuns)]
        /\ \A n \in Names : edited'[n] \subseteq edited[n]
    BY <1>1, <1>2 DEF TypeOK
  <2>2. \A n \in Names : edited'[n] \subseteq entries'[n]
    BY <1>2, <1>4, <2>1 DEF TypeOK
  <2>3. scriptOn' \subseteq Scripts
    BY <1>1, <1>2 DEF TypeOK
  <2> QED
    BY <1>1, <1>2, <1>4, <2>1, <2>2, <2>3 DEF TypeOK
<1>6. Calls'
  <2>1. Known' = Known /\ Entered \subseteq Entered'
    BY <1>1, <1>4, KindsOfIds DEF Known, Entered
  <2>2. On \in RefVars => On \in Entered'
    BY <1>1, <1>2, <1>3, <1>4, KindsOfIds DEF Entered
  <2>3. On # "scim_scopes" => entries'["scim_scopes"] = entries["scim_scopes"]
    BY <1>4, KindsOfIds
  <2> QED
    BY <1>1, <1>2, <2>1, <2>2, <2>3, CallMade DEF AtCall
<1>7. SoundLists'
  BY <1>1, <1>4, SoundStays DEF IInv, SoundLists
<1>8. MadeUp'
  BY <1>3, <1>4, KindsOfIds DEF IInv, MadeUp, Ids
<1>9. \A v \in Single : Config[v] # 0 => entries'[v] \subseteq {Config[v]}
  BY <1>1, <1>3, <1>4, KindsOfIds DEF IInv, Agreement
<1>10. OneEntryEach'
  <2>1. \A v \in Single : \A a, b \in entries'[v] : a = b
    BY <1>2, <1>3, <1>4, <1>9, KindsOfIds, OneOfSingle DEF IInv
  <2> QED
    BY <1>1, <2>1 DEF OneEntryEach, Single
<1>11. Agreement'
  <2>1. Config["passport_resource_id"] = 0 => entries'["passport_resource_id"] = {}
    BY <1>1, <1>3, <1>4 DEF IInv, Agreement, Names, IdVars, ResourceVars
  <2> QED
    BY <1>1, <1>9, <2>1 DEF IInv, Agreement, Single
<1>12. Untouched'
  BY <1>1 DEF IInv, Untouched
<1>13. ReferencesExist'
  <2>1. \A v \in SettingVars : oxTrustConf'[v] # 0 => oxTrustConf'[v] \in entries'[v]
    BY <1>1, <1>4, KindsOfIds DEF IInv, ReferencesExist
  <2>2. \A s \in UmaPolicies : \A i \in DOMAIN allowed'[s] : \A c \in allowed'[s][i] :
            c.id \in entries'[c.name]
    <3>1. \A c \in Clients : c.name \in Names
      BY KindsOfIds DEF Clients
    <3> QED
      BY <1>1, <1>4, <3>1, ListsMean DEF IInv
  <2> QED
    BY <2>1, <2>2 DEF ReferencesExist
<1> QED
  BY <1>5, <1>6, <1>7, <1>8, <1>10, <1>11, <1>12, <1>13 DEF IInv

\* A run begins with what it finds.
LEMMA StartStep ==
    ASSUME IInv, StartFresh \/ StartOnInstalled
    PROVE  IInv'
<1>1. PICK jobs \in SUBSET Jobs, installed \in BOOLEAN, newest \in BOOLEAN :
          /\ BeginRun(jobs, installed, IF installed THEN Collect(newest, runs + 1) ELSE Nothing)
          /\ ~installed => runs = 0
  <2>1. CASE StartFresh
    BY <2>1 DEF StartFresh
  <2>2. CASE StartOnInstalled
    BY <2>2 DEF StartOnInstalled
  <2> QED
    BY <2>1, <2>2
<1> DEFINE cfg == IF installed THEN Collect(newest, runs + 1) ELSE Nothing
<1>2. /\ pc = "off" /\ pc' = "running" /\ runs' = runs + 1 /\ runs < MaxRuns
      /\ installed_instance' = installed /\ picked' = jobs /\ todo' = CallsOf(jobs)
      /\ Config' = cfg /\ removed = <<>> /\ TypeOK
      /\ UNCHANGED <<backend, installCasa, warFiles, removed, failures>>
      /\ UNCHANGED <<entries, edited, oxTrustConf, allowed, scriptOn, serviceOn>>
  BY <1>1 DEF BeginRun, directoryVars, IInv, TypeOK, programVars
<1>3. runs \in Nat /\ runs + 1 \in Ids /\ 0 \notin Ids
  BY <1>2, BoundsAssumption DEF TypeOK, Ids
<1>4. ASSUME NEW v \in ClientVars
      PROVE  /\ Checked(Nothing, v, runs + 1, newest) \in Ids
             /\ entries[v] \subseteq {Checked(Nothing, v, runs + 1, newest)}
  <2>1. \/ entries[v] = {} /\ Found(v, newest) = 0
        \/ Found(v, newest) \in Ids /\ entries[v] = {Found(v, newest)}
    BY FoundOne, KindsOfIds DEF IInv
  <2>2. Nothing[v] = 0
    BY KindsOfIds DEF Nothing
  <2> QED
    BY <1>3, <2>1, <2>2 DEF Checked
<1>5. ASSUME NEW v \in SettingVars, v \in Single
      PROVE  oxTrustConf[v] # 0 => entries[v] \subseteq {oxTrustConf[v]}
  BY <1>5, OneOfSingle DEF IInv, ReferencesExist
<1>6. cfg \in [IdVars -> {0} \cup Ids]
  <2>1. CASE ~installed
    BY <2>1 DEF Nothing
  <2>2. CASE installed
    <3>1. \A v \in SettingsOf("scim") : oxTrustConf[v] \in {0} \cup Ids
      BY <1>2, KindsOfIds DEF TypeOK, Services
    <3> QED
      BY <1>3, <1>4, <2>2, <3>1 DEF Collect, IdVars, ResourceVars, SettingsOf
  <2> QED
    BY <2>1, <2>2
<1>7. TypeOK'
  BY <1>2, <1>3, <1>6 DEF TypeOK, Ids
<1>8. Calls'
  <2>1. /\ todo' \in Seq(CallRecords) /\ Ordered(todo', {}, {}) /\ LoadLast(todo')
        /\ ScopesOnce(todo', TRUE, FALSE)
    BY <1>2, RunOrder
  <2>2. Ordered(todo', Known', Entered')
    BY <2>1, MoreKnown
  <2>3. ~installed => entries["scim_scopes"] = {}
    BY <1>1, KindsOfIds DEF IInv, Untouched
  <2>4. ~installed_instance' =>
            ScopesOnce(todo', entries'["scim_scopes"] = {}, "scim" \in warFiles')
    BY <1>2, <2>1, <2>3 DEF ScopesOnce, Scopeless
  <2> QED
    BY <2>1, <2>2, <2>4 DEF Calls
<1>9. SoundLists' /\ MadeUp' /\ OneEntryEach' /\ ReferencesExist'
  BY <1>2 DEF IInv, SoundLists, SoundSets, MadeUp, OneEntryEach, ReferencesExist
<1>10. Agreement'
  <2>1. CASE installed
    <3>1. /\ \A v \in SettingsOf("scim") : cfg[v] = oxTrustConf[v]
          /\ \A v \in ClientVars \ SettingsOf("scim") :
                cfg[v] = Checked(Nothing, v, runs + 1, newest)
          /\ cfg["passport_resource_id"] = runs + 1 /\ cfg["scim_scopes"] = 0
      BY <1>1, <2>1 DEF Collect, IdVars, ResourceVars, SettingsOf, ClientVars
    <3>2. ASSUME NEW v \in Single, cfg[v] # 0 PROVE entries[v] \subseteq {cfg[v]}
      <4>1. CASE v \in SettingsOf("scim")
        BY <1>5, <3>1, <3>2, <4>1, KindsOfIds DEF Services
      <4>2. CASE v \in ClientVars \ SettingsOf("scim")
        BY <1>4, <3>1, <4>2
      <4> QED
        BY <3>1, <3>2, <4>1, <4>2 DEF Single, SettingsOf
    <3> QED
      BY <1>2, <1>3, <3>1, <3>2 DEF Agreement, Single, SettingsOf
  <2>2. CASE ~installed
    <3>1. /\ \A v \in IdVars : cfg[v] = 0 /\ entries[v] = {}
          /\ oxTrustConf["scim_resource_oxid"] = 0
      BY <1>1, <2>2, KindsOfIds DEF Nothing, IInv, Untouched, SettingVars, SettingsOf
    <3> QED
      BY <1>2, <3>1, KindsOfIds DEF Agreement, Single, IdVars, ResourceVars
  <2> QED
    BY <2>1, <2>2
<1>11. Untouched'
  BY <1>2, <1>3 DEF Untouched
<1> QED
  BY <1>7, <1>8, <1>9, <1>10, <1>11 DEF IInv

\* A run ends, also in the middle, with all it knows forgotten.
LEMMA EndStep ==
    ASSUME IInv, EndRun \/ Fail
    PROVE  IInv'
<1>1. /\ pc = "running" /\ pc' = "off" /\ installed_instance' = FALSE /\ picked' = {}
      /\ todo' = <<>> /\ Config' = Nothing /\ removed' = <<>> /\ failures' \in 0..MaxFailures
      /\ UNCHANGED <<backend, installCasa, warFiles, runs>>
      /\ UNCHANGED <<entries, edited, oxTrustConf, allowed, scriptOn, serviceOn>>
  BY BoundsAssumption DEF EndRun, Fail, Finished, ProgramEnds, directoryVars, IInv, TypeOK
<1>2. TypeOK'
  <2>1. Nothing \in [IdVars -> {0} \cup Ids] /\ Len(<<>>) <= 1
    BY DEF Nothing
  <2> QED
    BY <1>1, <2>1 DEF IInv, TypeOK, programVars
<1>3. SoundLists'
  BY <1>1, EmptySeq DEF IInv, SoundLists, SoundSets
<1>4. Calls'
  <2>1. todo' \in Seq(CallRecords) /\ Len(todo') = 0
    BY <1>1, EmptySeq
  <2> QED
    BY <2>1 DEF Calls, Ordered, LoadLast, ScopesOnce
<1>5. MadeUp' /\ OneEntryEach' /\ Agreement' /\ Untouched' /\ ReferencesExist'
  BY <1>1 DEF IInv, MadeUp, OneEntryEach, Agreement, Untouched, ReferencesExist
<1> QED
  BY <1>2, <1>3, <1>4, <1>5 DEF IInv

\* So do the changes of the administrator.
LEMMA AdminStep ==
    ASSUME IInv, AdminEdits
    PROVE  IInv'
<1>1. /\ edited' = entries
      /\ UNCHANGED <<backend, installCasa, warFiles, pc, runs, failures>>
      /\ UNCHANGED <<entries, oxTrustConf, allowed, scriptOn, serviceOn>>
      /\ UNCHANGED <<installed_instance, picked, todo, Config, removed>>
  BY DEF AdminEdits, programVars
<1>2. TypeOK'
  BY <1>1 DEF IInv, TypeOK, programVars
<1>3. Calls'
  <2>1. Known' = Known /\ Entered' = Entered
    BY <1>1 DEF Known, Entered
  <2> QED
    BY <1>1, <2>1 DEF IInv, Calls
<1>4. SoundLists' /\ MadeUp' /\ OneEntryEach' /\ Agreement' /\ Untouched' /\ ReferencesExist'
  BY <1>1 DEF IInv, SoundLists, SoundSets, MadeUp, OneEntryEach, Agreement, Single, Untouched,
     ReferencesExist
<1> QED
  BY <1>2, <1>3, <1>4 DEF IInv

\* Clients are put into the lists of the policies, one call or two for each.
AllowCall ==
    \/ DeleteAllowedLdap \/ AddAllowedLdap \/ AllowedLdapDone
    \/ AllowSql \/ AllowSpanner \/ AllowCouchbase

\* The client that is put in has its entry.
LEMMA NewClientSound ==
    ASSUME IInv, AtCall("allow")
    PROVE  /\ On \in UmaPolicies
           /\ {NewClient} \in SoundSets
           /\ \A S \in SoundSets : S \cup {NewClient} \in SoundSets
<1>1. /\ On \in UmaPolicies /\ Head(todo).client \in ClientVars /\ Head(todo).client \in Entered
  BY HeadReady DEF IInv, AtCall, Sorted, On
<1>2. /\ NewClient \in Clients /\ NewClient.id \in entries[NewClient.name]
  <2>1. /\ Config[Head(todo).client] \in Ids
        /\ Config[Head(todo).client] \in entries[Head(todo).client]
    BY <1>1, KindsOfIds DEF Entered, IInv, TypeOK
  <2> QED
    BY <1>1, <2>1 DEF NewClient, Clients
<1> QED
  BY <1>1, <1>2 DEF SoundSets

\* What a call of add_client2script does in any of the databases.
LEMMA AllowEffect ==
    ASSUME IInv, AllowCall
    PROVE  /\ allowed' \in [UmaPolicies -> Seq(SoundSets)]
           /\ removed' \in Seq(SoundSets) /\ Len(removed') <= 1
           /\ todo' = todo \/ todo' = Tail(todo)
           /\ AtCall("allow")
           /\ UNCHANGED <<backend, installCasa, pc, installed_instance, picked, runs, failures>>
           /\ UNCHANGED <<entries, edited, oxTrustConf, scriptOn, serviceOn, warFiles, Config>>
<1>1. AtCall("allow")
  BY DEF AllowCall, DeleteAllowedLdap, AddAllowedLdap, AllowedLdapDone, AllowSql, AllowSpanner,
     AllowCouchbase
<1>2. /\ On \in UmaPolicies /\ {NewClient} \in SoundSets
      /\ \A S \in SoundSets : S \cup {NewClient} \in SoundSets
  BY <1>1, NewClientSound
<1>3. /\ allowed \in [UmaPolicies -> Seq(SoundSets)] /\ allowed[On] \in Seq(SoundSets)
      /\ removed \in Seq(SoundSets) /\ Len(removed) <= 1
  BY <1>2 DEF IInv, SoundLists, TypeOK
<1>4. \A i : WithClient(allowed[On], i, NewClient) \in Seq(SoundSets)
  BY <1>2, <1>3, ListWith
<1>5. Append(allowed[On], {NewClient}) \in Seq(SoundSets) /\ <<{NewClient}>> \in Seq(SoundSets)
  BY <1>2, <1>3
<1>6. ASSUME NEW list \in Seq(SoundSets), AllowIn(list)
      PROVE  /\ allowed' \in [UmaPolicies -> Seq(SoundSets)]
             /\ removed' \in Seq(SoundSets) /\ Len(removed') <= 1 /\ todo' = Tail(todo)
             /\ UNCHANGED <<backend, installCasa, pc, installed_instance, picked, runs, failures>>
             /\ UNCHANGED <<entries, edited, oxTrustConf, scriptOn, serviceOn, warFiles, Config>>
  BY <1>3, <1>6 DEF AllowIn, Goes, runVars
<1>7. CASE DeleteAllowedLdap
  <2> DEFINE i == FirstOf(Lacking(allowed[On], NewClient))
  <2>1. i \in DOMAIN allowed[On]
    <3>1. /\ Lacking(allowed[On], NewClient) \in SUBSET Nat
          /\ Lacking(allowed[On], NewClient) \subseteq DOMAIN allowed[On]
      BY <1>3 DEF Lacking
    <3>2. Lacking(allowed[On], NewClient) # {}
      BY <1>7 DEF DeleteAllowedLdap
    <3> QED
      BY <3>1, <3>2, FirstIsIn
  <2>2. /\ removed' = <<allowed[On][i]>> /\ allowed' = [allowed EXCEPT ![On] = Without(@, i)]
        /\ todo' = todo
        /\ UNCHANGED <<backend, installCasa, pc, installed_instance, picked, runs, failures>>
        /\ UNCHANGED <<entries, edited, oxTrustConf, scriptOn, serviceOn, warFiles, Config>>
    BY <1>7 DEF DeleteAllowedLdap, runVars
  <2> HIDE DEF i
  <2>3. Without(allowed[On], i) \in Seq(SoundSets) /\ allowed[On][i] \in SoundSets
    BY <1>3, <2>1, ListWithout
  <2>4. removed' \in Seq(SoundSets) /\ Len(removed') <= 1
    BY <2>2, <2>3
  <2> QED
    BY <1>1, <1>2, <1>3, <2>2, <2>3, <2>4
<1>8. CASE AddAllowedLdap
  <2>1. /\ removed' = <<>> /\ todo' = todo /\ removed # <<>>
        /\ allowed' = [allowed EXCEPT ![On] = Append(@, removed[1] \cup {NewClient})]
        /\ UNCHANGED <<backend, installCasa, pc, installed_instance, picked, runs, failures>>
        /\ UNCHANGED <<entries, edited, oxTrustConf, scriptOn, serviceOn, warFiles, Config>>
    BY <1>8 DEF AddAllowedLdap, runVars
  <2>2. removed[1] \in SoundSets
    BY <1>3, <2>1
  <2>3. Append(allowed[On], removed[1] \cup {NewClient}) \in Seq(SoundSets)
    <3>1. removed[1] \cup {NewClient} \in SoundSets
      BY <1>2, <2>2
    <3> QED
      BY <1>3, <3>1, AppendProperties
  <2>4. removed' \in Seq(SoundSets) /\ Len(removed') <= 1
    BY <2>1
  <2> QED
    BY <1>1, <1>2, <1>3, <2>1, <2>3, <2>4
<1>9. CASE AllowedLdapDone
  BY <1>1, <1>3, <1>6, <1>9 DEF AllowedLdapDone
<1>10. CASE AllowSql
  BY <1>1, <1>4, <1>5, <1>6, <1>10 DEF AllowSql
<1>11. CASE AllowSpanner
  BY <1>1, <1>4, <1>5, <1>6, <1>11 DEF AllowSpanner
<1>12. CASE AllowCouchbase
  BY <1>1, <1>3, <1>4, <1>6, <1>12 DEF AllowCouchbase
<1> QED
  BY <1>7, <1>8, <1>9, <1>10, <1>11, <1>12 DEF AllowCall

\* A call of add_client2script preserves the invariant.
LEMMA AllowStep ==
    ASSUME IInv, AllowCall
    PROVE  IInv'
<1>1. /\ allowed' \in [UmaPolicies -> Seq(SoundSets)]
      /\ removed' \in Seq(SoundSets) /\ Len(removed') <= 1
      /\ todo' = todo \/ todo' = Tail(todo)
      /\ AtCall("allow")
      /\ UNCHANGED <<backend, installCasa, pc, installed_instance, picked, runs, failures>>
      /\ UNCHANGED <<entries, edited, oxTrustConf, scriptOn, serviceOn, warFiles, Config>>
  BY AllowEffect
<1>2. SoundSets' = SoundSets
  BY <1>1 DEF SoundSets
<1>3. SoundLists'
  BY <1>1, <1>2 DEF SoundLists
<1>4. \A s \in UmaPolicies : \A i \in DOMAIN allowed'[s] :
          /\ allowed'[s][i] \subseteq Clients
          /\ \A c \in allowed'[s][i] : c.id \in entries[c.name]
  <2> SUFFICES ASSUME NEW s \in UmaPolicies, NEW i \in DOMAIN allowed'[s]
               PROVE  allowed'[s][i] \in SoundSets
    BY DEF SoundSets
  <2>1. allowed'[s] \in Seq(SoundSets)
    BY <1>1
  <2> QED
    BY <2>1
<1>5. TypeOK'
  BY <1>1, <1>4 DEF IInv, TypeOK, AtCall
<1>6. Calls'
  <2>1. Known' = Known /\ Entered' = Entered
    BY <1>1 DEF Known, Entered
  <2>2. CASE todo' = todo
    BY <1>1, <2>1, <2>2 DEF IInv, Calls
  <2>3. CASE todo' = Tail(todo)
    BY <1>1, <2>1, <2>3, CallMade DEF IInv, AtCall
  <2> QED
    BY <1>1, <2>2, <2>3
<1>7. MadeUp' /\ OneEntryEach' /\ Agreement' /\ Untouched'
  BY <1>1 DEF IInv, MadeUp, OneEntryEach, Agreement, Single, Untouched
<1>8. ReferencesExist'
  BY <1>1, <1>4 DEF IInv, ReferencesExist
<1> QED
  BY <1>3, <1>5, <1>6, <1>7, <1>8 DEF IInv

-----------------------------------------------------------------------------
(* The theorems.                                                           *)

\* A new directory, before any run.
LEMMA InitInv == Init => IInv
<1> SUFFICES ASSUME Init PROVE IInv
  OBVIOUS
<1>1. /\ Nothing \in [IdVars -> {0} \cup Ids] /\ Len(<<>>) = 0 /\ <<>> \in Seq(SoundSets)
      /\ <<>> \in Seq(CallRecords)
  BY EmptySeq DEF Nothing
<1>2. {} \in SoundSets
  BY DEF SoundSets
<1>3. SoundLists
  BY <1>1, <1>2 DEF Init, SoundLists
<1>4. TypeOK
  <2>1. \A s \in UmaPolicies : \A i \in DOMAIN allowed[s] : allowed[s][i] \subseteq Clients
    BY <1>3, ListsMean
  <2>2. programVars = <<FALSE, {}, <<>>, Nothing, <<>>>>
    BY DEF Init, programVars
  <2>3. scriptOn \subseteq Scripts
    BY DEF Init, Scripts
  <2> QED
    BY <1>1, <2>1, <2>2, <2>3, BoundsAssumption, BackendsAssumption DEF Init, TypeOK
<1>5. Calls
  BY <1>1 DEF Init, Calls, Ordered, LoadLast, ScopesOnce
<1>6. /\ \A n \in Names : entries[n] = {}
      /\ \A v \in SettingVars : oxTrustConf[v] = 0
      /\ pc = "off"
  BY DEF Init
<1>7. MadeUp /\ Agreement /\ Untouched
  BY <1>6, KindsOfIds DEF MadeUp, Agreement, Untouched
<1>8. OneEntryEach
  BY <1>6, KindsOfIds, OneOfSingle
<1>9. ReferencesExist
  BY <1>3, <1>6, ListsMean DEF ReferencesExist
<1> QED
  BY <1>3, <1>4, <1>5, <1>7, <1>8, <1>9 DEF IInv

\* Every step preserves the invariant.
LEMMA StepInv == IInv /\ [Next]_vars => IInv'
<1> SUFFICES ASSUME IInv, [Next]_vars PROVE IInv'
  OBVIOUS
<1>1. CASE StartFresh \/ StartOnInstalled
  BY <1>1, StartStep
<1>2. CASE QuietCall
  BY <1>2, QuietStep
<1>3. CASE GenerateConfiguration
  BY <1>3, ConfigureStep
<1>4. CASE ScimScopes
  BY <1>4, ScopesStep
<1>5. CASE ImportCall
  BY <1>5, ImportStep
<1>6. CASE SetOxTrustConf
  BY <1>6, SettingsStep
<1>7. CASE LoadTestData
  BY <1>7, LoadStep
<1>8. CASE AllowCall
  BY <1>8, AllowStep
<1>9. CASE EndRun \/ Fail
  BY <1>9, EndStep
<1>10. CASE AdminEdits
  BY <1>10, AdminStep
<1>11. CASE UNCHANGED vars
  <2>1. /\ UNCHANGED <<backend, installCasa, entries, edited, oxTrustConf, allowed, scriptOn>>
        /\ UNCHANGED <<serviceOn, warFiles, pc, installed_instance, picked, todo, Config, removed>>
        /\ UNCHANGED <<runs, failures>>
    BY <1>11 DEF vars, directoryVars, programVars
  <2>2. Known' = Known /\ Entered' = Entered /\ SoundSets' = SoundSets
    BY <2>1 DEF Known, Entered, SoundSets
  <2>3. TypeOK'
    BY <2>1 DEF IInv, TypeOK, programVars
  <2>4. Calls' /\ SoundLists'
    BY <2>1, <2>2 DEF IInv, Calls, SoundLists
  <2>5. MadeUp' /\ OneEntryEach' /\ Agreement' /\ Untouched' /\ ReferencesExist'
    BY <2>1 DEF IInv, MadeUp, OneEntryEach, Agreement, Single, Untouched, ReferencesExist
  <2> QED
    BY <2>3, <2>4, <2>5 DEF IInv
<1> QED
  BY <1>1, <1>2, <1>3, <1>4, <1>5, <1>6, <1>7, <1>8, <1>9, <1>10, <1>11
     DEF Next, QuietCall, ImportCall, AllowCall

\* The invariant holds in every state of every behaviour.
THEOREM Invariance == Spec => []IInv
BY InitInv, StepInv, PTL DEF Spec

\* Every variable keeps the values the code gives it.
THEOREM TypeCorrect == Spec => []TypeOK
<1>1. IInv => TypeOK
  BY DEF IInv
<1> QED
  BY <1>1, Invariance, PTL

\* check_clients: no service ever has two clients for the same purpose, however
\* often it is installed and wherever a run fails.
THEOREM OneClientEach == Spec => []OneEntryEach
<1>1. IInv => OneEntryEach
  BY DEF IInv
<1> QED
  BY <1>1, Invariance, PTL

\* Whatever oxTrust or a policy refers to is in the directory, also after a run
\* that failed.
THEOREM NothingDangles == Spec => []ReferencesExist
<1>1. IInv => ReferencesExist
  BY DEF IInv
<1> QED
  BY <1>1, Invariance, PTL

\* A step writes the settings of oxTrust in SetOxTrustConf only, and there with
\* the identifiers it has: the client is the one in the directory, and the
\* resource of SCIM the one the run has read from oxTrust.
LEMMA SettingsKept ==
    ASSUME IInv, [Next]_vars, NEW v \in SettingVars \ {"passport_resource_id"},
           oxTrustConf[v] # 0
    PROVE  oxTrustConf'[v] = oxTrustConf[v]
<1>1. CASE SetOxTrustConf
  <2>1. /\ pc = "running" /\ AtCall("settings") /\ todo # <<>>
        /\ oxTrustConf' = [w \in SettingVars |->
                              IF w \in SettingsOf(On) THEN Config[w] ELSE oxTrustConf[w]]
    BY <1>1 DEF SetOxTrustConf, AtCall
  <2>2. SettingsOf(On) \subseteq Entered
    BY <2>1, HeadReady DEF IInv
  <2>3. CASE v \in ClientVars
    <3>1. v \in SettingsOf(On) => Config[v] \in entries[v]
      BY <2>2 DEF Entered
    <3>2. oxTrustConf[v] \in entries[v] /\ v \in Single
      BY <2>3, KindsOfIds DEF IInv, ReferencesExist
    <3> QED
      BY <2>1, <3>1, <3>2, OneOfSingle DEF IInv
  <2>4. CASE v = "scim_resource_oxid"
    BY <2>1, <2>4 DEF IInv, Agreement
  <2> QED
    BY <2>3, <2>4 DEF SettingVars, SettingsOf, ClientVars
<1>2. CASE QuietCall
  BY <1>2 DEF QuietCall, InstallFiles, ImportNothing, EnableService, EnableScript,
     DisableCasaScript, directoryVars
<1>3. CASE StartFresh \/ StartOnInstalled
  BY <1>3 DEF StartFresh, StartOnInstalled, BeginRun, directoryVars
<1>4. CASE GenerateConfiguration \/ ScimScopes \/ LoadTestData
  BY <1>4 DEF GenerateConfiguration, ScimScopes, LoadTestData, directoryVars
<1>5. CASE ImportCall
  BY <1>5, ImportEffect
<1>6. CASE AllowCall
  BY <1>6, AllowEffect
<1>7. CASE EndRun \/ Fail \/ AdminEdits
  BY <1>7 DEF EndRun, Fail, ProgramEnds, AdminEdits, directoryVars
<1>8. CASE UNCHANGED vars
  BY <1>8 DEF vars, directoryVars
<1> QED
  BY <1>1, <1>2, <1>3, <1>4, <1>5, <1>6, <1>7, <1>8 DEF Next, QuietCall, ImportCall, AllowCall

\* The identifiers oxTrust has been configured with are never replaced by a
\* repeated installation, except that of the resource of Passport.
THEOREM IdsStable == Spec => ConfiguredIdsStable
<1>1. IInv /\ [Next]_vars =>
        [\A v \in SettingVars \ {"passport_resource_id"} :
            oxTrustConf[v] # 0 => oxTrustConf'[v] = oxTrustConf[v]]_vars
  BY SettingsKept
<1> QED
  BY <1>1, Invariance, PTL DEF Spec, ConfiguredIdsStable

\* Only Couchbase overwrites what the administrator has changed.
LEMMA EditsKept ==
    ASSUME IInv, [Next]_vars, backend # "couchbase", NEW n \in Names
    PROVE  edited[n] \subseteq edited'[n]
<1>1. CASE ImportCall
  <2>1. ~UpsertEntry
    BY DEF UpsertEntry, AtImport
  <2> QED
    BY <1>1, <2>1 DEF ImportCall, AddEntryLdap, AddEntrySql, AddEntrySpanner, AddIfAbsent
<1>2. CASE AdminEdits
  BY <1>2 DEF AdminEdits, IInv, TypeOK
<1>3. CASE SetOxTrustConf
  BY <1>3 DEF SetOxTrustConf
<1>4. CASE QuietCall
  BY <1>4 DEF QuietCall, InstallFiles, ImportNothing, EnableService, EnableScript,
     DisableCasaScript, directoryVars
<1>5. CASE StartFresh \/ StartOnInstalled
  BY <1>5 DEF StartFresh, StartOnInstalled, BeginRun, directoryVars
<1>6. CASE GenerateConfiguration \/ ScimScopes \/ LoadTestData
  BY <1>6 DEF GenerateConfiguration, ScimScopes, LoadTestData, directoryVars
<1>7. CASE AllowCall
  BY <1>7, AllowEffect
<1>8. CASE EndRun \/ Fail
  BY <1>8 DEF EndRun, Fail, ProgramEnds, directoryVars
<1>9. CASE UNCHANGED vars
  BY <1>9 DEF vars, directoryVars
<1> QED
  BY <1>1, <1>2, <1>3, <1>4, <1>5, <1>6, <1>7, <1>8, <1>9
     DEF Next, QuietCall, ImportCall, AllowCall

\* Importing the entries of a service again leaves them as the administrator has
\* changed them, except in Couchbase.
THEOREM EditsSurvive == Spec => AdminChangesKept
<1>1. IInv /\ [Next]_vars =>
        [backend # "couchbase" => \A n \in Names : edited[n] \subseteq edited'[n]]_vars
  BY EditsKept
<1> QED
  BY <1>1, Invariance, PTL DEF Spec, AdminChangesKept

-----------------------------------------------------------------------------
(* The lists of the policies, and what a run leaves.                       *)


\* A value is taken out only where the same call puts it in again, and only over
\* LDAP a property can get lost.
Halfway ==
    /\ removed # <<>> => AtCall("allow") /\ backend = "ldap"
    /\ backend # "ldap" => \A s \in UmaPolicies : allowed[s] # <<>>

\* A step that is no call of add_client2script leaves the lists; a value that is
\* taken out is lost only where the run ends.
LEMMA OtherEffect ==
    ASSUME IInv, Halfway, [Next]_vars, ~AllowCall
    PROVE  /\ backend' = backend /\ allowed' = allowed
           /\ UNCHANGED vars \/ (removed' = <<>> /\ (removed = <<>> \/ pc' = "off"))
<1>1. \A do : do # "allow" /\ AtCall(do) => removed = <<>>
  BY DEF Halfway, AtCall
<1>2. pc = "off" => removed = <<>>
  BY DEF Halfway, AtCall
<1>3. CASE QuietCall
  BY <1>1, <1>3 DEF QuietCall, InstallFiles, ImportNothing, EnableService, EnableScript,
     DisableCasaScript, directoryVars, runVars
<1>4. CASE StartFresh \/ StartOnInstalled
  BY <1>2, <1>4 DEF StartFresh, StartOnInstalled, BeginRun, directoryVars
<1>5. CASE GenerateConfiguration \/ ScimScopes \/ LoadTestData
  BY <1>1, <1>5 DEF GenerateConfiguration, ScimScopes, LoadTestData, directoryVars, runVars
<1>6. CASE ImportCall
  BY <1>1, <1>6, ImportEffect
<1>7. CASE SetOxTrustConf
  BY <1>1, <1>7 DEF SetOxTrustConf, runVars
<1>8. CASE EndRun \/ Fail
  BY <1>8 DEF EndRun, Fail, ProgramEnds, directoryVars
<1>9. CASE AdminEdits
  BY <1>2, <1>9 DEF AdminEdits, programVars
<1>10. CASE UNCHANGED vars
  BY <1>10 DEF vars, directoryVars
<1> QED
  BY <1>3, <1>4, <1>5, <1>6, <1>7, <1>8, <1>9, <1>10
     DEF Next, QuietCall, ImportCall, AllowCall

\* What each of the calls of add_client2script does to the list it is for.
LEMMA ListAfter ==
    ASSUME IInv, Halfway, AllowCall
    PROVE  /\ On \in UmaPolicies
           /\ \A s \in UmaPolicies : s # On => allowed'[s] = allowed[s]
           /\ AllIn(allowed[On]) \subseteq
                 AllIn(allowed'[On]) \cup (IF removed' # <<>> THEN removed'[1] ELSE {})
           /\ removed # <<>> => removed[1] \subseteq AllIn(allowed'[On]) /\ removed' = <<>>
           /\ removed' # <<>> => todo' = todo /\ backend = "ldap" /\ allowed[On] # <<>>
           /\ backend # "ldap" => allowed'[On] # <<>>
           /\ \/ todo' = todo /\ backend = "ldap"
              \/ /\ todo' = Tail(todo) /\ removed' = <<>>
                 /\ NewClient \in AllIn(allowed'[On]) \/ (backend = "ldap" /\ allowed'[On] = <<>>)
<1>1. AtCall("allow")
  BY AllowEffect
<1>2. /\ On \in UmaPolicies /\ {NewClient} \in SoundSets
      /\ \A S \in SoundSets : S \cup {NewClient} \in SoundSets
  BY <1>1, NewClientSound
<1> DEFINE list == allowed[On]
           lacking == Lacking(list, NewClient)
<1>3. /\ allowed \in [UmaPolicies -> Seq(SoundSets)] /\ list \in Seq(SoundSets)
      /\ removed \in Seq(SoundSets) /\ (backend # "ldap" => list # <<>> /\ removed = <<>>)
  BY <1>2 DEF IInv, SoundLists, Halfway
<1>4. lacking # {} => FirstOf(lacking) \in DOMAIN list
  <2>1. lacking \in SUBSET Nat /\ lacking \subseteq DOMAIN list
    BY <1>3 DEF Lacking
  <2> QED
    BY <2>1, FirstIsIn
<1>5. lacking = {} /\ list # <<>> => NewClient \in AllIn(list)
  <2>1. list # <<>> => 1 \in DOMAIN list
    BY <1>3, LenProperties, EmptySeq
  <2> QED
    BY <2>1 DEF Lacking, AllIn
<1>6. ASSUME NEW i \in DOMAIN list, list # <<>>
      PROVE  /\ AllIn(list) \subseteq AllIn(WithClient(list, i, NewClient))
             /\ NewClient \in AllIn(WithClient(list, i, NewClient))
             /\ WithClient(list, i, NewClient) # <<>>
  <2> HIDE DEF list
  <2>1. /\ AllIn(list) \subseteq AllIn(WithClient(list, i, NewClient))
        /\ NewClient \in AllIn(WithClient(list, i, NewClient))
    BY <1>3, AllInWith
  <2>2. WithClient(list, i, NewClient) # <<>>
    BY <1>2, <1>3, <1>6, ListWith
  <2> QED
    BY <2>1, <2>2
<1>7. /\ AllIn(list) \subseteq AllIn(Append(list, {NewClient}))
      /\ NewClient \in AllIn(Append(list, {NewClient})) /\ Append(list, {NewClient}) # <<>>
  <2>1. Append(list, {NewClient}) # <<>>
    BY <1>2, <1>3, AppendProperties
  <2>2. /\ AllIn(list) \subseteq AllIn(Append(list, {NewClient}))
        /\ {NewClient} \subseteq AllIn(Append(list, {NewClient}))
    <3> HIDE DEF list
    <3> QED
      BY <1>2, <1>3, AllInAppend
  <2> QED
    BY <2>1, <2>2
<1> HIDE DEF list, lacking
<1>8. ASSUME NEW new, AllowIn(new)
      PROVE  /\ allowed'[On] = new /\ removed' = removed /\ todo' = Tail(todo)
             /\ \A s \in UmaPolicies : s # On => allowed'[s] = allowed[s]
  BY <1>2, <1>3, <1>8 DEF AllowIn, Goes
<1>9. CASE DeleteAllowedLdap
  <2> DEFINE i == FirstOf(lacking)
  <2>1. /\ lacking # {} /\ backend = "ldap" /\ removed = <<>> /\ todo' = todo
        /\ removed' = <<list[i]>> /\ allowed' = [allowed EXCEPT ![On] = Without(list, i)]
    BY <1>9 DEF DeleteAllowedLdap, list, lacking
  <2>2. i \in DOMAIN list
    BY <1>4, <2>1
  <2> HIDE DEF i
  <2>3. AllIn(list) \subseteq AllIn(Without(list, i)) \cup list[i] /\ list # <<>>
    BY <1>3, <2>2, AllInWithout
  <2>4. removed' # <<>> /\ removed'[1] = list[i]
    BY <2>1
  <2> QED
    BY <1>2, <1>3, <2>1, <2>3, <2>4 DEF list
<1>10. CASE AddAllowedLdap
  <2> DEFINE e == removed[1] \cup {NewClient}
  <2>1. /\ backend = "ldap" /\ removed # <<>> /\ removed' = <<>> /\ todo' = todo
        /\ allowed' = [allowed EXCEPT ![On] = Append(list, e)]
    BY <1>10 DEF AddAllowedLdap, list
  <2>2. e \in SoundSets
    BY <1>2, <1>3, <2>1
  <2> HIDE DEF e
  <2>3. AllIn(list) \subseteq AllIn(Append(list, e)) /\ e \subseteq AllIn(Append(list, e))
    BY <1>3, <2>2, AllInAppend
  <2>4. removed[1] \subseteq e
    BY DEF e
  <2> QED
    BY <1>2, <1>3, <2>1, <2>3, <2>4 DEF list
<1>11. CASE AllowedLdapDone
  <2>1. AllowIn(list) /\ removed = <<>> /\ lacking = {} /\ backend = "ldap"
    BY <1>11 DEF AllowedLdapDone, list, lacking
  <2> QED
    BY <1>2, <1>5, <1>8, <2>1 DEF list
<1>12. ASSUME NEW new, AllowIn(new), backend # "ldap", new # <<>>,
              AllIn(list) \subseteq AllIn(new), NewClient \in AllIn(new)
       PROVE  /\ removed = <<>> /\ removed' = <<>> /\ todo' = Tail(todo)
              /\ AllIn(list) \subseteq AllIn(allowed'[On]) /\ NewClient \in AllIn(allowed'[On])
              /\ allowed'[On] # <<>>
              /\ \A s \in UmaPolicies : s # On => allowed'[s] = allowed[s]
  BY <1>3, <1>8, <1>12
<1>13. CASE AllowSql
  <2> DEFINE new == IF lacking # {} THEN WithClient(list, FirstOf(lacking), NewClient)
                                    ELSE Append(list, {NewClient})
  <2>1. backend # "ldap" /\ AllowIn(new)
    BY <1>13 DEF AllowSql, list, lacking, SQL
  <2>2. new # <<>> /\ AllIn(list) \subseteq AllIn(new) /\ NewClient \in AllIn(new)
    <3>1. CASE lacking # {}
      <4>1. new = WithClient(list, FirstOf(lacking), NewClient)
        BY <3>1
      <4> HIDE DEF new
      <4> QED
        BY <1>3, <1>4, <1>6, <2>1, <3>1, <4>1
    <3>2. CASE lacking = {}
      BY <1>7, <3>2
    <3> QED
      BY <3>1, <3>2
  <2> HIDE DEF new
  <2> QED
    BY <1>2, <1>12, <2>1, <2>2 DEF list
<1>14. CASE AllowSpanner
  <2> DEFINE new == WithClient(list, 1, NewClient)
  <2>1. backend # "ldap" /\ list # <<>> /\ AllowIn(new)
    BY <1>3, <1>14 DEF AllowSpanner, list
  <2>2. 1 \in DOMAIN list
    BY <1>3, <2>1, LenProperties, EmptySeq
  <2>3. new # <<>> /\ AllIn(list) \subseteq AllIn(new) /\ NewClient \in AllIn(new)
    BY <1>6, <2>1, <2>2
  <2> HIDE DEF new
  <2> QED
    BY <1>2, <1>12, <2>1, <2>3 DEF list
<1>15. CASE AllowCouchbase
  <2> DEFINE new == IF lacking # {} THEN WithClient(list, FirstOf(lacking), NewClient) ELSE list
  <2>1. backend # "ldap" /\ AllowIn(new)
    BY <1>15 DEF AllowCouchbase, list, lacking
  <2>2. new # <<>> /\ AllIn(list) \subseteq AllIn(new) /\ NewClient \in AllIn(new)
    <3>1. CASE lacking # {}
      <4>1. new = WithClient(list, FirstOf(lacking), NewClient)
        BY <3>1
      <4> HIDE DEF new
      <4> QED
        BY <1>3, <1>4, <1>6, <2>1, <3>1, <4>1
    <3>2. CASE lacking = {}
      BY <1>3, <1>5, <2>1, <3>2
    <3> QED
      BY <3>1, <3>2
  <2> HIDE DEF new
  <2> QED
    BY <1>2, <1>12, <2>1, <2>2 DEF list
<1> QED
  BY <1>9, <1>10, <1>11, <1>13, <1>14, <1>15 DEF AllowCall

\* Every step preserves it.
LEMMA HalfwayStep ==
    ASSUME IInv, Halfway, [Next]_vars
    PROVE  Halfway'
<1>1. CASE AllowCall
  <2>1. /\ AtCall("allow") /\ pc' = pc /\ backend' = backend
        /\ On \in UmaPolicies /\ allowed \in [UmaPolicies -> Seq(SoundSets)]
    BY <1>1, AllowEffect, ListAfter DEF IInv, SoundLists
  <2>2. removed' # <<>> => AtCall("allow")' /\ backend' = "ldap"
    BY <1>1, <2>1, ListAfter DEF AtCall
  <2>3. backend' # "ldap" => \A s \in UmaPolicies : allowed'[s] # <<>>
    BY <1>1, <2>1, ListAfter DEF Halfway
  <2> QED
    BY <2>2, <2>3 DEF Halfway
<1>2. CASE ~AllowCall
  <2>1. CASE UNCHANGED vars
    BY <2>1 DEF vars, directoryVars, programVars, Halfway, AtCall
  <2>2. CASE removed' = <<>>
    BY <1>2, <2>2, OtherEffect DEF Halfway
  <2> QED
    BY <1>2, <2>1, <2>2, OtherEffect
<1> QED
  BY <1>1, <1>2

\* A step that does not interrupt takes no client from a policy.
LEMMA AllowedGrows ==
    ASSUME IInv, Halfway, [Next]_vars, ~Interrupted, NEW s \in UmaPolicies
    PROVE  AllowedBy(s) \subseteq AllowedBy(s)'
<1>1. /\ AllowedBy(s) = AllIn(allowed[s]) \cup
            (IF AtCall("allow") /\ On = s /\ removed # <<>> THEN removed[1] ELSE {})
      /\ AllowedBy(s)' = AllIn(allowed'[s]) \cup
            (IF AtCall("allow")' /\ On' = s /\ removed' # <<>> THEN removed'[1] ELSE {})
  <2>1. AllowedBy(s) = AllIn(allowed[s]) \cup
            (IF AtCall("allow") /\ On = s /\ removed # <<>> THEN removed[1] ELSE {})
    BY Zenon DEF AllowedBy, AllIn
  <2>2. AllowedBy(s)' = AllIn(allowed'[s]) \cup
            (IF AtCall("allow")' /\ On' = s /\ removed' # <<>> THEN removed'[1] ELSE {})
    BY Zenon DEF AllowedBy, AllIn
  <2> QED
    BY <2>1, <2>2
<1>2. CASE AllowCall
  <2>1. AtCall("allow") /\ pc' = pc
    BY <1>2, AllowEffect
  <2>2. CASE s # On
    BY <1>1, <1>2, <2>2, ListAfter
  <2>3. CASE s = On /\ removed' = <<>>
    <3>1. AllIn(allowed[s]) \subseteq AllIn(allowed'[s])
      BY <1>2, <2>3, ListAfter
    <3>2. removed # <<>> => removed[1] \subseteq AllIn(allowed'[s])
      BY <1>2, <2>3, ListAfter
    <3> QED
      BY <1>1, <3>1, <3>2
  <2>4. CASE s = On /\ removed' # <<>>
    <3>1. AtCall("allow")' /\ On' = s /\ removed = <<>>
      BY <1>2, <2>1, <2>4, ListAfter DEF AtCall, On
    <3>2. AllIn(allowed[s]) \subseteq AllIn(allowed'[s]) \cup removed'[1]
      BY <1>2, <2>4, ListAfter
    <3> QED
      BY <1>1, <2>4, <3>1, <3>2
  <2> QED
    BY <2>2, <2>3, <2>4
<1>3. CASE ~AllowCall
  <2>1. CASE UNCHANGED vars
    BY <2>1 DEF vars, directoryVars, programVars, AllowedBy, AtCall, On
  <2>2. CASE removed' = <<>> /\ (removed = <<>> \/ pc' = "off")
    <3>1. removed = <<>> /\ allowed' = allowed
      BY <1>3, <2>2, OtherEffect DEF Interrupted
    <3> QED
      BY <1>1, <3>1
  <2> QED
    BY <1>3, <2>1, <2>2, OtherEffect
<1> QED
  BY <1>2, <1>3

\* Over all runs, a value is taken out only where it is put in again.
THEOREM HalfwayInvariance == Spec => [](IInv /\ Halfway)
<1>1. Init => Halfway
  BY DEF Init, Halfway
<1>2. IInv /\ Halfway /\ [Next]_vars => (IInv /\ Halfway)'
  BY StepInv, HalfwayStep
<1> QED
  BY <1>1, <1>2, InitInv, PTL DEF Spec

\* add_client2script keeps the clients of the other services, except when it is
\* interrupted between the two calls over LDAP.
THEOREM ClientsKept == Spec => AllowedKept
<1>1. IInv /\ Halfway /\ [Next]_vars =>
        [~Interrupted => \A s \in UmaPolicies : AllowedBy(s) \subseteq AllowedBy(s)']_vars
  BY AllowedGrows
<1> QED
  BY <1>1, HalfwayInvariance, PTL DEF Spec, AllowedKept

-----------------------------------------------------------------------------
(* What a run leaves when it is over.                                      *)

\* A policy allows a client, or has lost its property, which no call of this run
\* is going to write.
Allows(s, c) == c \in AllowedBy(s) \/ (PropertyLost(s) /\ (removed = <<>> \/ On # s))

SettingsWritten(job) ==
    \A v \in SettingsOf(job) : oxTrustConf[v] = Config[v] /\ Config[v] # 0

\* What a service of this run needs has been done or is still to come.
ServedJob(job) ==
    /\ Has(todo, "service", job, "none") \/ job \in serviceOn
    /\ Has(todo, "script", "2DAF-F9A5", "none") \/ "2DAF-F9A5" \in scriptOn
    /\ Has(todo, "settings", job, "none") \/ SettingsWritten(job)
    /\ \A s \in UmaPolicies :
          \/ Has(todo, "allow", s, RpVar(job))
          \/ Config[RpVar(job)] # 0 /\ Allows(s, RpClient(job))

Served == pc = "running" => \A job \in picked \cap Services : ServedJob(job)

\* What a policy allows in a run it goes on to allow.
LEMMA AllowsStay ==
    ASSUME IInv, Halfway, [Next]_vars, pc' = "running", NEW s \in UmaPolicies, NEW c, Allows(s, c)
    PROVE  Allows(s, c)'
<1>1. CASE c \in AllowedBy(s)
  BY <1>1, AllowedGrows DEF Allows, Interrupted
<1>2. CASE PropertyLost(s) /\ (removed = <<>> \/ On # s)
  <2>1. backend = "ldap" /\ allowed[s] = <<>>
    BY <1>2 DEF PropertyLost
  <2>2. CASE AllowCall
    <3>1. backend' = backend /\ AtCall("allow")
      BY <2>2, AllowEffect
    <3>2. CASE s # On
      <4>1. allowed'[s] = allowed[s]
        BY <2>2, <3>2, ListAfter
      <4>2. removed' # <<>> => On' # s
        BY <2>2, <3>2, ListAfter DEF On
      <4> QED
        BY <2>1, <3>1, <4>1, <4>2 DEF Allows, PropertyLost
    <3>3. CASE s = On
      <4>1. removed = <<>> /\ Lacking(allowed[On], NewClient) = {}
        BY <1>2, <2>1, <3>3 DEF Lacking
      <4>2. ~DeleteAllowedLdap /\ ~AddAllowedLdap /\ ~AllowSql /\ ~AllowSpanner /\ ~AllowCouchbase
        BY <2>1, <4>1 DEF DeleteAllowedLdap, AddAllowedLdap, AllowSql, AllowSpanner, AllowCouchbase,
           SQL
      <4>3. AllowIn(allowed[On])
        BY <2>2, <4>2 DEF AllowCall, AllowedLdapDone
      <4>4. allowed'[s] = allowed[s] /\ removed' = removed
        BY <3>3, <4>3 DEF AllowIn, IInv, SoundLists
      <4> QED
        BY <2>1, <3>1, <4>1, <4>4 DEF Allows, PropertyLost
    <3> QED
      BY <3>2, <3>3
  <2>3. CASE ~AllowCall
    <3>1. CASE UNCHANGED vars
      BY <1>2, <3>1 DEF vars, directoryVars, programVars, Allows, PropertyLost, On
    <3>2. CASE removed' = <<>>
      BY <2>1, <2>3, <3>2, OtherEffect DEF Allows, PropertyLost
    <3> QED
      BY <2>3, <3>1, <3>2, OtherEffect
  <2> QED
    BY <2>2, <2>3
<1> QED
  BY <1>1, <1>2 DEF Allows

\* What the steps of a run do to what Served is about, and what becomes of the
\* calls.
LEMMA Effect ==
    ASSUME IInv, Halfway, Next, pc = "running", pc' = "running"
    PROVE  /\ picked' = picked /\ todo # <<>>
           /\ \A v \in RefVars : Config[v] # 0 => Config'[v] = Config[v]
           /\ serviceOn \subseteq serviceOn'
           /\ "2DAF-F9A5" \in scriptOn => "2DAF-F9A5" \in scriptOn'
           /\ \A v \in SettingVars :
                 oxTrustConf[v] = Config[v] /\ Config[v] # 0 => oxTrustConf'[v] = Config[v]
           /\ \/ AtCall("load")
              \/ todo' = todo
              \/ /\ todo' = Tail(todo)
                 /\ AtCall("service") => On \in serviceOn'
                 /\ AtCall("script") => On \in scriptOn'
                 /\ AtCall("settings") => \A v \in SettingsOf(On) :
                       oxTrustConf'[v] = Config[v] /\ Config[v] # 0 /\ Config'[v] = Config[v]
                 /\ AtCall("allow") => \A s \in UmaPolicies, c \in Clients :
                       s = On /\ c = NewClient => Allows(s, c)'
<1>1. ~StartFresh /\ ~StartOnInstalled /\ ~EndRun /\ ~Fail /\ ~AdminEdits
  BY DEF StartFresh, StartOnInstalled, BeginRun, EndRun, Fail, ProgramEnds, AdminEdits
<1>2. CASE QuietCall
  <2>1. /\ todo # <<>> /\ todo' = Tail(todo)
        /\ AtCall("service") => On \in serviceOn'
        /\ UNCHANGED <<picked, Config, oxTrustConf>> /\ serviceOn \subseteq serviceOn'
        /\ ~AtCall("settings") /\ ~AtCall("allow")
    BY <1>2 DEF QuietCall, InstallFiles, ImportNothing, EnableService, EnableScript,
       DisableCasaScript, AtCall, Goes, runVars, directoryVars
  <2>2. /\ "2DAF-F9A5" \in scriptOn => "2DAF-F9A5" \in scriptOn'
        /\ AtCall("script") => On \in scriptOn'
    <3>1. AtCall("casa") => On = CasaScript
      BY <2>1, HeadReady DEF IInv, AtCall, Sorted, On
    <3> QED
      BY <1>2, <3>1 DEF QuietCall, InstallFiles, ImportNothing, EnableService, EnableScript,
         DisableCasaScript, AtCall, directoryVars, CasaScript
  <2> QED
    BY <2>1, <2>2
<1>3. CASE GenerateConfiguration
  <2>1. PICK newest \in BOOLEAN :
          Config' = [v \in IdVars |-> IF v \in IdsOf(On) THEN Checked(Config, v, runs, newest)
                                                         ELSE Config[v]]
    BY <1>3 DEF GenerateConfiguration
  <2>2. \A v \in RefVars : Config[v] # 0 => Config'[v] = Config[v]
    BY <2>1, CheckedIs, KindsOfIds
  <2> QED
    BY <1>3, <2>2 DEF GenerateConfiguration, AtCall, Goes, runVars, directoryVars
<1>4. CASE ScimScopes
  <2>1. On = "scim_scopes"
    BY <1>4, HeadReady DEF ScimScopes, IInv, AtCall, Sorted, On
  <2>2. \A v \in RefVars : Config'[v] = Config[v]
    BY <1>4, <2>1, KindsOfIds DEF ScimScopes, IInv, TypeOK
  <2> QED
    BY <1>4, <2>2 DEF ScimScopes, AtCall, Goes, runVars, directoryVars
<1>5. CASE ImportCall
  BY <1>5, ImportEffect DEF AtCall
<1>6. CASE SetOxTrustConf
  <2>1. SettingsOf(On) \subseteq Entered /\ On \in Services
    BY <1>6, HeadReady DEF SetOxTrustConf, IInv, AtCall, Sorted, On
  <2>2. /\ oxTrustConf' = [v \in SettingVars |->
                              IF v \in SettingsOf(On) THEN Config[v] ELSE oxTrustConf[v]]
        /\ Config' = Config
    BY <1>6 DEF SetOxTrustConf
  <2>3. \A v \in SettingsOf(On) : oxTrustConf'[v] = Config[v] /\ Config[v] # 0
    BY <2>1, <2>2, KindsOfIds DEF Entered
  <2> QED
    BY <1>6, <2>2, <2>3 DEF SetOxTrustConf, AtCall, Goes, runVars
<1>7. CASE LoadTestData
  BY <1>7 DEF LoadTestData, AtCall, runVars, directoryVars
<1>8. CASE AllowCall
  <2>1. /\ AtCall("allow") /\ todo # <<>>
        /\ UNCHANGED <<picked, oxTrustConf, scriptOn, serviceOn, Config, backend>>
    BY <1>8, AllowEffect DEF AtCall
  <2>2. ASSUME todo' # todo, NEW s \in UmaPolicies, NEW c \in Clients, s = On, c = NewClient
        PROVE  Allows(s, c)'
    <3>1. /\ removed' = <<>>
          /\ c \in AllIn(allowed'[s]) \/ (backend = "ldap" /\ allowed'[s] = <<>>)
      BY <1>8, <2>2, ListAfter
    <3>2. CASE c \in AllIn(allowed'[s])
      BY <3>2 DEF Allows, AllowedBy, AllIn
    <3>3. CASE backend = "ldap" /\ allowed'[s] = <<>>
      BY <2>1, <3>1, <3>3 DEF Allows, PropertyLost
    <3> QED
      BY <3>1, <3>2, <3>3
  <2>3. todo' = todo \/ todo' = Tail(todo)
    BY <1>8, AllowEffect
  <2> QED
    BY <2>1, <2>2, <2>3 DEF AtCall
<1> QED
  BY <1>1, <1>2, <1>3, <1>4, <1>5, <1>6, <1>7, <1>8 DEF Next, QuietCall, ImportCall, AllowCall

\* Every step preserves what services have or are still to get.
LEMMA ServedStep ==
    ASSUME IInv, Halfway, Served, [Next]_vars
    PROVE  Served'
<1> SUFFICES ASSUME pc' = "running", NEW job \in picked' \cap Services
             PROVE  ServedJob(job)'
  BY DEF Served
<1>1. CASE UNCHANGED vars
  <2>1. UNCHANGED <<backend, allowed, oxTrustConf, scriptOn, serviceOn, pc, picked, todo, Config,
                    removed>>
    BY <1>1 DEF vars, directoryVars, programVars
  <2>2. /\ \A s \in UmaPolicies : AllowedBy(s)' = AllowedBy(s)
        /\ RpClient(job)' = RpClient(job)
    BY <2>1 DEF AllowedBy, RpClient, AtCall, On
  <2>3. ServedJob(job)
    BY <2>1 DEF Served
  <2> QED
    BY <2>1, <2>2, <2>3 DEF ServedJob, SettingsWritten, Allows, PropertyLost, On
<1>2. CASE Next /\ pc = "off"
  <2>1. StartFresh \/ StartOnInstalled
    BY <1>2 DEF Next, InstallFiles, GenerateConfiguration, ScimScopes, AddEntryLdap, AddEntrySql,
       AddEntrySpanner, UpsertEntry, AtImport, ImportNothing, SetOxTrustConf, EnableService,
       EnableScript, DisableCasaScript, LoadTestData, DeleteAllowedLdap, AddAllowedLdap,
       AllowedLdapDone, AllowSql, AllowSpanner, AllowCouchbase, EndRun, Fail, Finished, AdminEdits,
       AtCall
  <2>2. todo' = CallsOf(picked')
    BY <2>1 DEF StartFresh, StartOnInstalled, BeginRun
  <2>3. ServiceCalls(todo', job)
    BY <2>2, RunServes
  <2> QED
    BY <2>3 DEF ServiceCalls, ServedJob
<1>3. CASE Next /\ pc # "off"
  <2>1. pc = "running"
    BY <1>3 DEF IInv, TypeOK
  <2>2. /\ picked' = picked /\ todo # <<>>
        /\ \A v \in RefVars : Config[v] # 0 => Config'[v] = Config[v]
        /\ serviceOn \subseteq serviceOn'
        /\ "2DAF-F9A5" \in scriptOn => "2DAF-F9A5" \in scriptOn'
        /\ \A v \in SettingVars :
              oxTrustConf[v] = Config[v] /\ Config[v] # 0 => oxTrustConf'[v] = Config[v]
        /\ todo \in Seq(CallRecords)
    BY <1>3, <2>1, Effect DEF IInv, Calls
  <2>3. /\ ServedJob(job) /\ job \in Services /\ SettingsOf(job) \subseteq SettingVars
        /\ SettingVars \subseteq RefVars /\ RpVar(job) \in RefVars
    BY <2>1, <2>2, KindsOfIds DEF Served, RpVar, RefVars, ClientVars
  <2>4. SettingsWritten(job) => SettingsWritten(job)'
    BY <2>2, <2>3 DEF SettingsWritten
  <2>5. ASSUME NEW s \in UmaPolicies, Config[RpVar(job)] # 0, Allows(s, RpClient(job))
        PROVE  Config'[RpVar(job)] # 0 /\ Allows(s, RpClient(job))'
    <3> DEFINE c == [name |-> RpVar(job), id |-> Config[RpVar(job)]]
    <3>1. Config'[RpVar(job)] = Config[RpVar(job)]
      BY <2>2, <2>3, <2>5
    <3>2. RpClient(job) = c /\ RpClient(job)' = c
      BY <3>1 DEF RpClient, RpVar
    <3>3. PICK d : d = c
      OBVIOUS
    <3>4. Allows(s, d) => Allows(s, d)'
      BY <1>3, AllowsStay
    <3>5. Allows(s, RpClient(job))'
      BY <2>5, <3>2, <3>3, <3>4 DEF Allows
    <3> QED
      BY <2>5, <3>1, <3>5
  <2>6. CASE AtCall("load")
    <3>1. Head(todo) = todo[1] /\ Len(todo) = 1
      <4>1. Len(todo) \in Nat /\ Len(todo) > 0 /\ Head(todo) = todo[1]
        BY <2>2
      <4>2. 1 \in 1..Len(todo)
        BY <4>1
      <4>3. Len(todo) = 1
        BY <2>6, <4>1, <4>2 DEF AtCall, IInv, Calls, LoadLast
      <4> QED
        BY <4>1, <4>3
    <3>2. \A do, on, client : do # "load" => ~Has(todo, do, on, client)
      BY <2>6, <3>1 DEF Has, AtCall
    <3> QED
      BY <2>2, <2>3, <2>4, <2>5, <3>2 DEF ServedJob
  <2>7. CASE todo' = todo
    BY <2>2, <2>3, <2>4, <2>5, <2>7 DEF ServedJob
  <2>8. CASE /\ todo' = Tail(todo)
             /\ AtCall("service") => On \in serviceOn'
             /\ AtCall("script") => On \in scriptOn'
             /\ AtCall("settings") => \A v \in SettingsOf(On) :
                   oxTrustConf'[v] = Config[v] /\ Config[v] # 0 /\ Config'[v] = Config[v]
             /\ AtCall("allow") => \A s \in UmaPolicies, c \in Clients :
                   s = On /\ c = NewClient => Allows(s, c)'
    <3>1. Has(todo', "service", job, "none") \/ job \in serviceOn'
      BY <2>1, <2>2, <2>3, <2>8, HasTail DEF ServedJob, AtCall, On
    <3>2. Has(todo', "script", "2DAF-F9A5", "none") \/ "2DAF-F9A5" \in scriptOn'
      BY <2>1, <2>2, <2>3, <2>8, HasTail DEF ServedJob, AtCall, On
    <3>3. Has(todo', "settings", job, "none") \/ SettingsWritten(job)'
      <4>1. AtCall("settings") /\ On = job => SettingsWritten(job)'
        BY <2>8 DEF SettingsWritten
      <4> QED
        BY <2>1, <2>2, <2>3, <2>4, <2>8, <4>1, HasTail DEF ServedJob, AtCall, On
    <3>4. ASSUME NEW s \in UmaPolicies, ~Has(todo', "allow", s, RpVar(job))
          PROVE  Config'[RpVar(job)] # 0 /\ Allows(s, RpClient(job))'
      <4>1. CASE Config[RpVar(job)] # 0 /\ Allows(s, RpClient(job))
        BY <2>5, <4>1
      <4>2. CASE Has(todo, "allow", s, RpVar(job))
        <5>1. /\ AtCall("allow") /\ On = s /\ Head(todo).client = RpVar(job)
          BY <2>1, <2>2, <2>8, <3>4, <4>2, HasTail DEF AtCall, On
        <5>2. RpVar(job) \in Entered
          BY <2>2, <5>1, HeadReady DEF IInv
        <5>3. Config[RpVar(job)] # 0 /\ Config'[RpVar(job)] = Config[RpVar(job)]
          BY <2>2, <5>2 DEF Entered
        <5>4. PICK c : c = NewClient
          OBVIOUS
        <5>5. c \in Clients
          BY <5>1, <5>4, NewClientSound DEF SoundSets
        <5>6. Allows(s, c)'
          BY <2>8, <5>1, <5>4, <5>5
        <5>7. RpClient(job)' = c
          BY <5>1, <5>3, <5>4 DEF RpClient, RpVar, NewClient
        <5> QED
          BY <5>3, <5>6, <5>7 DEF Allows
      <4> QED
        BY <2>3, <4>1, <4>2 DEF ServedJob
    <3> QED
      BY <3>1, <3>2, <3>3, <3>4 DEF ServedJob
  <2> QED
    BY <1>3, <2>1, <2>6, <2>7, <2>8, Effect
<1> QED
  BY <1>1, <1>2, <1>3

\* Over all runs, what a service of the run needs has been done or is still to come.
THEOREM ServedInvariance == Spec => [](IInv /\ Halfway /\ Served)
<1>1. Init => Halfway /\ Served
  BY DEF Init, Halfway, Served
<1>2. IInv /\ Halfway /\ Served /\ [Next]_vars => (IInv /\ Halfway /\ Served)'
  BY StepInv, HalfwayStep, ServedStep
<1> QED
  BY <1>1, <1>2, InitInv, PTL DEF Spec

\* When a run comes to its end, the services it installed can be used, whatever
\* earlier runs that failed have left.
THEOREM UsableAtTheEnd == Spec => []InstalledIsUsable
<1>1. IInv /\ Halfway /\ Served => InstalledIsUsable
  <2> SUFFICES ASSUME IInv, Halfway, Served, Finished, NEW job \in picked \ {"testdata"}
               PROVE  /\ job \in serviceOn
                      /\ "2DAF-F9A5" \in scriptOn
                      /\ \A v \in SettingsOf(job) : oxTrustConf[v] = Config[v] /\ Config[v] # 0
                      /\ \A s \in UmaPolicies : RpClient(job) \in AllowedBy(s) \/ PropertyLost(s)
    BY DEF InstalledIsUsable
  <2>1. job \in Services /\ ServedJob(job)
    BY DEF Finished, Served, IInv, TypeOK, Jobs, Services
  <2>2. \A do, on, client : ~Has(todo, do, on, client)
    BY EmptySeq DEF Finished, Has
  <2> QED
    BY <2>1, <2>2 DEF ServedJob, SettingsWritten, Allows
<1> QED
  BY <1>1, ServedInvariance, PTL
=============================================================================
