------------------------- MODULE InstallScreens_proofs -------------------------
(***************************************************************************)
(* Proofs about the two screens of the installation: the table of the      *)
(* console (ShowProgress) and the last form of the wizard                  *)
(* (InstallStepsForm, as the instance Form), for every list of installers, *)
(* every set of runs and every pace the worker may have.                   *)
(***************************************************************************)
EXTENDS ShowProgress, SequenceTheorems, WellFoundedInduction, TLAPS

-----------------------------------------------------------------------------
(* The list before the start.                                              *)

\* A set of numbers that is not empty has a least one.
LEMMA LeastNumber ==
    ASSUME NEW T \in SUBSET Nat, T # {}
    PROVE  \E i \in T : \A j \in T : i <= j
<1>1. \E i \in T : \A j \in T : ~(<<j, i>> \in OpToRel(<, Nat))
  BY NatLessThanWellFounded, WFMin
<1>2. \A i, j \in Nat : ~(<<j, i>> \in OpToRel(<, Nat)) => i <= j
  BY DEF OpToRel
<1> QED
  BY <1>1, <1>2

\* A set of numbers with 0 and the successor of each of them has them all.
LEMMA AllNumbers ==
    ASSUME NEW G, 0 \in G, \A n \in Nat : n \in G => n + 1 \in G
    PROVE  Nat \subseteq G
<1> DEFINE Bad == Nat \ G
<1> SUFFICES ASSUME Bad # {}  PROVE FALSE
  OBVIOUS
<1>1. PICK i \in Bad : \A j \in Bad : i <= j
  <2>1. Bad \in SUBSET Nat
    OBVIOUS
  <2> HIDE DEF Bad
  <2> QED
    BY <2>1, LeastNumber
<1>2. i \in Nat /\ i # 0
  BY <1>1
<1>3. i - 1 \in Nat /\ i - 1 \in G
  BY <1>1, <1>2
<1>4. (i - 1) + 1 \in G
  BY <1>3
<1> QED
  BY <1>1, <1>2, <1>4

\* What before_start keeps of the first n installers, for each n up to last.
Kept(k, w, last) ==
    k = [n \in 0..last |->
            IF n = 0 THEN <<>>
            ELSE IF Registered[n].name \in w \cup {PostSetup}
            THEN Append(k[n - 1], Registered[n])
            ELSE k[n - 1]]

\* There is such a function.
LEMMA KeptExists ==
    ASSUME NEW w, NEW last \in Nat
    PROVE  \E k : Kept(k, w, last)
<1> DEFINE G == {n \in Nat : \E k : Kept(k, w, n)}
<1>1. 0 \in G
  <2> DEFINE k == [n \in 0..0 |-> <<>>]
  <2>1. Kept(k, w, 0)
    BY DEF Kept
  <2> QED
    BY <2>1
<1>2. ASSUME NEW n \in Nat, n \in G  PROVE n + 1 \in G
  <2>1. PICK h : Kept(h, w, n)
    BY <1>2
  <2> DEFINE k == [m \in 0..(n + 1) |->
                      IF m = 0 THEN <<>>
                      ELSE IF Registered[m].name \in w \cup {PostSetup}
                      THEN Append(h[m - 1], Registered[m])
                      ELSE h[m - 1]]
  <2>2. \A m \in 0..n : k[m] = h[m]
    <3>1. \A m \in 0..n :
              h[m] = IF m = 0 THEN <<>>
                     ELSE IF Registered[m].name \in w \cup {PostSetup}
                     THEN Append(h[m - 1], Registered[m])
                     ELSE h[m - 1]
      BY <2>1, Zenon DEF Kept
    <3> QED
      BY <3>1
  <2>3. \A m \in 0..(n + 1) : m # 0 => m - 1 \in 0..n
    OBVIOUS
  <2>4. Kept(k, w, n + 1)
    BY <2>2, <2>3 DEF Kept
  <2> QED
    BY <2>4
<1>3. Nat \subseteq G
  <2> HIDE DEF G
  <2> QED
    BY <1>1, <1>2, AllNumbers
<1> QED
  BY <1>3

\* The list has the installers the run wants and post-setup, each once, and
\* nothing else.
LEMMA ListBefore ==
    ASSUME NEW w
    PROVE  /\ BeforeStart(w) \in Seq([name : Names, kind : Kinds])
           /\ \A i \in DOMAIN Registered : Registered[i].name \in w \cup {PostSetup} =>
                  \E m \in DOMAIN BeforeStart(w) : BeforeStart(w)[m] = Registered[i]
           /\ \A m1, m2 \in DOMAIN BeforeStart(w) :
                  BeforeStart(w)[m1].name = BeforeStart(w)[m2].name => m1 = m2
<1> DEFINE N == Len(Registered)
           k == CHOOSE f : Kept(f, w, N)
           Entries == [name : Names, kind : Kinds]
           Good(n) ==
               /\ k[n] \in Seq(Entries)
               /\ \A i \in 1..n : Registered[i].name \in w \cup {PostSetup} =>
                      \E m \in DOMAIN k[n] : k[n][m] = Registered[i]
               /\ \A m \in DOMAIN k[n] : \E i \in 1..n : k[n][m] = Registered[i]
               /\ \A m1, m2 \in DOMAIN k[n] : k[n][m1].name = k[n][m2].name => m1 = m2
           G == {n \in Nat : n <= N => Good(n)}
<1>1. N \in Nat /\ DOMAIN Registered = 1..N /\ \A i \in 1..N : Registered[i] \in Entries
  <2>1. Registered \in Seq([name : STRING, kind : Kinds])
    BY RegisteredAssumption
  <2>2. N \in Nat /\ DOMAIN Registered = 1..N
    BY <2>1, LenProperties
  <2>3. \A i \in 1..N : Registered[i] \in [name : STRING, kind : Kinds]
    BY <2>1, ElementOfSeq
  <2> QED
    BY <2>2, <2>3 DEF Names
<1>2. Kept(k, w, N)
  BY <1>1, KeptExists
<1>3. BeforeStart(w) = k[N]
  BY DEF BeforeStart, Kept
<1> HIDE DEF k
<1>4. /\ k[0] = <<>>
      /\ \A n \in 1..N : k[n] = IF Registered[n].name \in w \cup {PostSetup}
                                THEN Append(k[n - 1], Registered[n]) ELSE k[n - 1]
  <2>1. \A n \in 0..N :
            k[n] = IF n = 0 THEN <<>>
                   ELSE IF Registered[n].name \in w \cup {PostSetup}
                   THEN Append(k[n - 1], Registered[n])
                   ELSE k[n - 1]
    BY <1>2, Zenon DEF Kept
  <2> QED
    BY <1>1, <2>1
<1>5. 0 \in G
  <2>1. k[0] \in Seq(Entries) /\ DOMAIN k[0] = {}
    BY <1>4, EmptySeq, LenProperties
  <2> QED
    BY <2>1
<1>6. ASSUME NEW n \in Nat, n \in G  PROVE n + 1 \in G
  <2> SUFFICES ASSUME n + 1 <= N  PROVE Good(n + 1)
    OBVIOUS
  <2>1. Good(n) /\ n + 1 \in 1..N
    BY <1>1, <1>6
  <2>2. CASE Registered[n + 1].name \in w \cup {PostSetup}
    <3> DEFINE e == Registered[n + 1]
    <3>1. k[n + 1] = Append(k[n], e) /\ e \in Entries
      <4>1. (n + 1) - 1 = n
        OBVIOUS
      <4> QED
        BY <1>1, <1>4, <2>1, <2>2, <4>1
    <3>2. /\ k[n + 1] \in Seq(Entries)
          /\ Len(k[n]) \in Nat /\ DOMAIN k[n] = 1..Len(k[n])
          /\ DOMAIN k[n + 1] = 1..(Len(k[n]) + 1)
          /\ \A m \in 1..Len(k[n]) : k[n + 1][m] = k[n][m]
          /\ k[n + 1][Len(k[n]) + 1] = e
      BY <2>1, <3>1, AppendProperties, LenProperties
    <3>3. \A m \in DOMAIN k[n] : k[n][m].name # e.name
      <4> SUFFICES ASSUME NEW m \in DOMAIN k[n], k[n][m].name = e.name  PROVE FALSE
        OBVIOUS
      <4>1. PICK i \in 1..n : k[n][m] = Registered[i]
        BY <2>1
      <4>2. i \in DOMAIN Registered /\ n + 1 \in DOMAIN Registered /\ i # n + 1
        BY <1>1, <2>1
      <4> QED
        BY <4>1, <4>2, NamesAssumption
    <3>4. \A i \in 1..(n + 1) : Registered[i].name \in w \cup {PostSetup} =>
              \E m \in DOMAIN k[n + 1] : k[n + 1][m] = Registered[i]
      <4> SUFFICES ASSUME NEW i \in 1..(n + 1), Registered[i].name \in w \cup {PostSetup}
                   PROVE  \E m \in DOMAIN k[n + 1] : k[n + 1][m] = Registered[i]
        OBVIOUS
      <4>1. CASE i = n + 1
        <5>1. Len(k[n]) + 1 \in DOMAIN k[n + 1]
          BY <3>2
        <5>2. k[n + 1][Len(k[n]) + 1] = Registered[i]
          BY <3>2, <4>1
        <5> QED
          BY <5>1, <5>2
      <4>2. CASE i # n + 1
        <5>1. i \in 1..n
          BY <4>2
        <5>2. PICK m \in DOMAIN k[n] : k[n][m] = Registered[i]
          BY <2>1, <5>1
        <5>3. m \in 1..Len(k[n]) /\ Len(k[n]) \in Nat
          BY <3>2
        <5>4. k[n + 1][m] = Registered[i]
          BY <3>2, <5>2, <5>3
        <5>5. m \in 1..(Len(k[n]) + 1)
          BY <5>3
        <5> QED
          BY <3>2, <5>4, <5>5
      <4> QED
        BY <4>1, <4>2
    <3>5. ASSUME NEW m \in DOMAIN k[n + 1]
          PROVE  \E i \in 1..(n + 1) : k[n + 1][m] = Registered[i]
      <4>1. CASE m = Len(k[n]) + 1
        BY <3>2, <4>1
      <4>2. CASE m # Len(k[n]) + 1
        <5>1. m \in DOMAIN k[n] /\ k[n + 1][m] = k[n][m]
          BY <3>2, <4>2
        <5>2. PICK i \in 1..n : k[n][m] = Registered[i]
          BY <2>1, <5>1
        <5> QED
          BY <5>1, <5>2
      <4> QED
        BY <4>1, <4>2
    <3>6. ASSUME NEW m1 \in DOMAIN k[n + 1], NEW m2 \in DOMAIN k[n + 1],
                 k[n + 1][m1].name = k[n + 1][m2].name
          PROVE  m1 = m2
      <4>1. ASSUME NEW m \in DOMAIN k[n + 1]
            PROVE  \/ m = Len(k[n]) + 1 /\ k[n + 1][m] = e
                   \/ m \in DOMAIN k[n] /\ k[n + 1][m] = k[n][m]
        BY <3>2
      <4>2. CASE m1 \in DOMAIN k[n] /\ m2 \in DOMAIN k[n]
        BY <2>1, <3>2, <3>6, <4>2
      <4> QED
        BY <3>3, <3>6, <4>1, <4>2
    <3> QED
      BY <3>2, <3>4, <3>5, <3>6
  <2>3. CASE Registered[n + 1].name \notin w \cup {PostSetup}
    <3>1. k[n + 1] = k[n]
      BY <1>4, <2>1, <2>3
    <3> QED
      BY <2>1, <2>3, <3>1
  <2> QED
    BY <2>2, <2>3
<1>7. N \in G
  <2> HIDE DEF G
  <2> QED
    BY <1>1, <1>5, <1>6, AllNumbers
<1> QED
  BY <1>1, <1>3, <1>7
-----------------------------------------------------------------------------
(* The inductive invariant, in parts.                                      *)

Drawing  == display = "drawing"
Starting == pc \in Names \cup {"starting"}
RowNames == {services[k].name : k \in DOMAIN services}

\* The table has a row for everything it has read, among those it counts, and
\* its spinner leaves the rows only for COMPLETED.
Rows ==
    /\ Drawing => \A k \in DOMAIN services :
                     \E j \in 1..number_of_services : services[j].name = services[k].name
    /\ last_completed < number_of_services
    /\ current_service < number_of_services \/ pc = "completed"
    /\ display = "finished" => pc = "completed"
    /\ data \in RowNames \cup {""} \/ (data = COMPLETED /\ pc = "completed")

\* What is still to be read: names, and COMPLETED at the end only.  When the
\* first pause is over the table has read what was sent before.
Messages ==
    /\ \A k \in DOMAIN queue : \/ queue[k] \in Names \cup ScriptNames
                               \/ queue[k] = COMPLETED /\ pc = "completed"
    /\ pc = "saved" /\ Drawing => Len(queue) <= asleep
    /\ Starting /\ Drawing => \A k \in DOMAIN queue : queue[k] = PostSetup

\* Of the messages since the last registration, the table has read and listed
\* all but those in the queue.
Late ==
    pc = "script" /\ Drawing =>
        \A j \in 1..(step - 1) :
            (\A k \in j..(step - 1) : script[k].op = "progress") =>
                \/ script[j].name \in RowNames
                \/ /\ step - j <= Len(queue)
                   /\ queue[Len(queue) + j + 1 - step] = script[j].name

\* The list of services: those of the run are on it, and each only once.
Listed ==
    /\ PostSetup \in RowNames
    /\ \A i \in DOMAIN Registered : Registered[i].name \in wanted =>
           \E k \in DOMAIN services : services[k] = Registered[i]
    /\ \A k, l \in DOMAIN services :
           services[k].kind = "SERVICE" /\ services[l].kind = "SERVICE"
               /\ services[k].name = services[l].name => k = l
    /\ \A k \in DOMAIN services : services[k].kind = "SERVICE" =>
           services[k].name \in Names

\* The iterator has passed n.
Passed(n) == \E k \in 1..index : Restartable(services[k]) /\ services[k].name = n

\* What has been restarted is what the iterator has passed.
Restarts ==
    /\ pc \in {"script", "saved"} => \A n \in Names : restarts[n] = 0
    /\ Starting => \A n \in Names : restarts[n] = IF Passed(n) /\ pc # n THEN 1 ELSE 0
    /\ pc \in Names => /\ index \in DOMAIN services
                       /\ Restartable(services[index]) /\ services[index].name = pc
    /\ \A n \in Names : restarts[n] <= 1
    /\ RestartedOnce

IInv == TypeOK /\ Rows /\ Messages /\ Late /\ Listed /\ Restarts

-----------------------------------------------------------------------------
(* The list while it grows.                                                *)

Entries == [name : Names \cup ScriptNames, kind : Kinds]

\* What the type of the list says of it.
LEMMA ListShape ==
    ASSUME TypeOK
    PROVE  /\ services \in Seq(Entries) /\ Len(services) \in Nat
           /\ DOMAIN services = 1..Len(services)
           /\ \A k \in 1..Len(services) : services[k] \in Entries
           /\ queue \in Seq(Names \cup ScriptNames \cup {COMPLETED, ERROR})
           /\ Len(queue) \in Nat /\ DOMAIN queue = 1..Len(queue)
           /\ number_of_services \in 1..Len(services)
           /\ last_completed \in 0..(Len(services) - 1)
<1>1. /\ services \in Seq(Entries)
      /\ queue \in Seq(Names \cup ScriptNames \cup {COMPLETED, ERROR})
  BY DEF TypeOK, WorkerTypeOK, Entries
<1>2. \A k \in 1..Len(services) : services[k] \in Entries
  BY <1>1, ElementOfSeq
<1> QED
  BY <1>1, <1>2, LenProperties DEF TypeOK

\* The new list has the entries of the old one, each at one place, and else
\* only entries that are no services.
Grows(at) ==
    /\ \A k \in DOMAIN services : /\ at[k] \in DOMAIN services'
                                  /\ services'[at[k]] = services[k]
    /\ \A k \in DOMAIN services' : \/ services'[k].kind = "APPLICATION"
                                   \/ \E l \in DOMAIN services : k = at[l]

\* What was listed stays listed.
LEMMA ListedStays ==
    ASSUME Listed, wanted' = wanted, NEW at, Grows(at)
    PROVE  Listed' /\ RowNames \subseteq RowNames'
<1>1. RowNames \subseteq RowNames'
  BY DEF Grows, RowNames
<1>2. \A i \in DOMAIN Registered : Registered[i].name \in wanted' =>
          \E k \in DOMAIN services' : services'[k] = Registered[i]
  BY DEF Grows, Listed
<1>3. \A k, l \in DOMAIN services' :
          services'[k].kind = "SERVICE" /\ services'[l].kind = "SERVICE"
              /\ services'[k].name = services'[l].name => k = l
  <2> SUFFICES ASSUME NEW k \in DOMAIN services', NEW l \in DOMAIN services',
                      services'[k].kind = "SERVICE", services'[l].kind = "SERVICE",
                      services'[k].name = services'[l].name
               PROVE  k = l
    OBVIOUS
  <2>1. PICK i \in DOMAIN services : k = at[i]
    BY DEF Grows
  <2>2. PICK j \in DOMAIN services : l = at[j]
    BY DEF Grows
  <2>3. services[i] = services'[k] /\ services[j] = services'[l]
    BY <2>1, <2>2 DEF Grows
  <2>4. i = j
    BY <2>3 DEF Listed
  <2> QED
    BY <2>1, <2>2, <2>4
<1>4. \A k \in DOMAIN services' :
          services'[k].kind = "SERVICE" => services'[k].name \in Names
  BY DEF Grows, Listed
<1>5. PostSetup \in RowNames'
  BY <1>1 DEF Listed
<1> QED
  BY <1>1, <1>2, <1>3, <1>4, <1>5 DEF Listed

\* A row inserted below the first i.
LEMMA Inserted ==
    ASSUME NEW s \in Seq(Entries), NEW i \in 0..Len(s), NEW e \in Entries
    PROVE  /\ InsertAt(s, i, e) \in Seq(Entries)
           /\ Len(InsertAt(s, i, e)) = Len(s) + 1
           /\ \A k \in 1..i : InsertAt(s, i, e)[k] = s[k]
           /\ InsertAt(s, i, e)[i + 1] = e
           /\ \A k \in (i + 1)..Len(s) : InsertAt(s, i, e)[k + 1] = s[k]
<1> DEFINE before == SubSeq(s, 1, i)
           after == SubSeq(s, i + 1, Len(s))
<1>1. Len(s) \in Nat /\ \A k \in 1..Len(s) : s[k] \in Entries
  BY LenProperties, ElementOfSeq
<1>2. /\ before \in Seq(Entries) /\ Len(before) = i
      /\ \A k \in 1..i : before[k] = s[k]
  BY <1>1, SubSeqProperties
<1>3. /\ after \in Seq(Entries) /\ Len(after) = Len(s) - i
      /\ \A k \in 1..(Len(s) - i) : after[k] = s[k + i]
  <2>1. /\ after \in Seq(Entries)
        /\ Len(after) = IF i + 1 <= Len(s) THEN Len(s) - (i + 1) + 1 ELSE 0
        /\ \A k \in 1..(Len(s) - (i + 1) + 1) : after[k] = s[(i + 1) + k - 1]
    BY <1>1, SubSeqProperties
  <2>2. Len(after) = Len(s) - i
    BY <1>1, <2>1
  <2>3. ASSUME NEW k \in 1..(Len(s) - i)  PROVE after[k] = s[k + i]
    <3>1. k \in 1..(Len(s) - (i + 1) + 1) /\ (i + 1) + k - 1 = k + i
      BY <1>1
    <3>2. after[k] = s[(i + 1) + k - 1]
      BY <2>1, <3>1
    <3> QED
      BY <3>1, <3>2
  <2> HIDE DEF after
  <2> QED
    BY <2>1, <2>2, <2>3
<1>4. /\ <<e>> \in Seq(Entries) /\ Len(<<e>>) = 1 /\ <<e>>[1] = e
  OBVIOUS
<1> HIDE DEF before, after
<1> DEFINE start == before \o <<e>>
<1>5. /\ start \in Seq(Entries) /\ Len(start) = i + 1
      /\ \A k \in 1..i : start[k] = s[k]
      /\ start[i + 1] = e
  <2>1. /\ start \in Seq(Entries) /\ Len(start) = Len(before) + 1
        /\ \A k \in 1..(Len(before) + 1) :
              start[k] = IF k <= Len(before) THEN before[k] ELSE <<e>>[k - Len(before)]
    BY <1>2, <1>4, ConcatProperties
  <2>2. (i + 1) - i = 1
    BY <1>1
  <2> QED
    BY <1>1, <1>2, <1>4, <2>1, <2>2
<1> HIDE DEF start
<1>6. /\ start \o after \in Seq(Entries)
      /\ Len(start \o after) = Len(s) + 1
      /\ \A k \in 1..(Len(s) + 1) :
            (start \o after)[k] = IF k <= i + 1 THEN start[k] ELSE after[k - (i + 1)]
  <2>1. Len(start) + Len(after) = Len(s) + 1
    BY <1>1, <1>3, <1>5
  <2> QED
    BY <1>3, <1>5, <2>1, ConcatProperties
<1>7. InsertAt(s, i, e) = start \o after
  BY DEF InsertAt, start, before, after
<1>8. \A k \in (i + 1)..Len(s) : (start \o after)[k + 1] = s[k]
  <2> SUFFICES ASSUME NEW k \in (i + 1)..Len(s)  PROVE (start \o after)[k + 1] = s[k]
    OBVIOUS
  <2>1. k + 1 \in 1..(Len(s) + 1) /\ ~(k + 1 <= i + 1) /\ (k + 1) - (i + 1) = k - i
    BY <1>1
  <2>2. k - i \in 1..(Len(s) - i) /\ (k - i) + i = k
    BY <1>1
  <2> QED
    BY <1>3, <1>6, <2>1, <2>2
<1>9. \A k \in 1..(i + 1) : (start \o after)[k] = start[k]
  BY <1>1, <1>6
<1> QED
  BY <1>1, <1>5, <1>6, <1>7, <1>8, <1>9

-----------------------------------------------------------------------------
(* One look of the table.                                                  *)

\* What a look at the message m makes of the table: nothing, the spinner on a
\* row it counts, the spinner off the rows, or a row more.
Stays == services' = services /\ number_of_services' = number_of_services
Still == Stays /\ current_service' = current_service /\ last_completed' = last_completed
Moved == /\ Stays
         /\ current_service' \in 0..(number_of_services - 1)
         /\ last_completed' = current_service'
Done  == Stays /\ current_service' = 99 /\ last_completed' = last_completed
NewRow(m) ==
    /\ current_service' = current_service /\ last_completed' = last_completed
    /\ number_of_services' = number_of_services + 1
    /\ services' \in Seq(Entries) /\ Len(services') = Len(services) + 1
    /\ \A k \in 1..(last_completed + 1) : services'[k] = services[k]
    /\ services'[last_completed + 2] = Entry(m, "APPLICATION")
    /\ \A k \in (last_completed + 2)..Len(services) : services'[k + 1] = services[k]

\* What the table may look at.
Words == Names \cup ScriptNames \cup {COMPLETED, ""}

\* A look is one of these.
LEMMA Looks ==
    ASSUME TypeOK, Rows, Drawing, NEW m \in Words, Look(m)
    PROVE  \/ m = "" /\ Still
           \/ m \in RowNames /\ Moved
           \/ m = COMPLETED /\ Done
           \/ m \in (Names \cup ScriptNames) \ RowNames /\ NewRow(m)
<1> DEFINE N == Len(services)
<1>1. /\ services \in Seq(Entries)
      /\ DOMAIN services = 1..N
      /\ \A k \in 1..N : services[k] \in Entries
  BY ListShape
<1>0. N \in Nat /\ number_of_services \in 1..N /\ last_completed \in 0..(N - 1)
  BY ListShape
<1>r. \A n : RowsOf(n) = {i \in 0..(N - 1) : services[i + 1].name = n}
  BY DEF RowsOf
<1> HIDE DEF N
<1>2. m \in RowNames <=> RowsOf(m) # {}
  <2>1. \A k \in 1..N : k - 1 \in 0..(N - 1) /\ (k - 1) + 1 = k
    BY <1>0
  <2>2. \A k \in 0..(N - 1) : k + 1 \in 1..N
    BY <1>0
  <2> QED
    BY <1>1, <1>r, <2>1, <2>2 DEF RowNames
<1>3. "" \notin RowNames /\ COMPLETED \notin RowNames /\ COMPLETED # ""
  <2>1. RowNames \subseteq Names \cup ScriptNames
    BY <1>1 DEF RowNames, Entries
  <2> QED
    BY <2>1, NamesAssumption DEF COMPLETED
<1>4. CASE m = ""
  BY <1>4 DEF Look, Still, Stays
<1>5. CASE m \in RowNames
  <2>1. /\ current_service' = FirstRowOf(m) /\ last_completed' = FirstRowOf(m)
        /\ Stays
    BY <1>2, <1>3, <1>5 DEF Look, Stays
  <2>2. RowsOf(m) \in SUBSET Nat /\ RowsOf(m) # {}
    BY <1>0, <1>2, <1>5, <1>r
  <2>3. /\ FirstRowOf(m) \in RowsOf(m)
        /\ \A j \in RowsOf(m) : FirstRowOf(m) <= j
    <3>1. \E i \in RowsOf(m) : \A j \in RowsOf(m) : i <= j
      BY <2>2, LeastNumber
    <3> QED
      BY <3>1 DEF FirstRowOf
  <2>4. PICK k \in DOMAIN services : services[k].name = m
    BY <1>5 DEF RowNames
  <2>5. PICK j \in 1..number_of_services : services[j].name = m
    BY <2>4 DEF Rows
  <2>6. j - 1 \in RowsOf(m)
    <3>1. j - 1 \in 0..(N - 1) /\ (j - 1) + 1 = j
      BY <1>0, <2>5
    <3> QED
      BY <1>r, <2>5, <3>1
  <2>7. FirstRowOf(m) \in 0..(number_of_services - 1)
    <3>1. FirstRowOf(m) \in Nat /\ FirstRowOf(m) <= j - 1
      BY <2>2, <2>3, <2>6
    <3> HIDE DEF FirstRowOf
    <3> QED
      BY <1>0, <2>5, <3>1
  <2> QED
    BY <1>5, <2>1, <2>7 DEF Moved
<1>6. CASE m = COMPLETED
  BY <1>2, <1>3, <1>6 DEF Look, Done, Stays
<1>7. CASE m \in (Names \cup ScriptNames) \ RowNames
  <2>1. m # "" /\ m # COMPLETED
    BY <1>7, NamesAssumption
  <2>2. /\ services' = InsertAt(services, last_completed + 1, Entry(m, "APPLICATION"))
        /\ number_of_services' = number_of_services + 1
        /\ current_service' = current_service /\ last_completed' = last_completed
    BY <1>2, <1>7, <2>1 DEF Look
  <2>3. Entry(m, "APPLICATION") \in Entries
    BY <1>7 DEF Entry, Entries, Kinds
  <2> DEFINE i == last_completed + 1
             e == Entry(m, "APPLICATION")
  <2>4. i \in 0..N /\ i + 1 = last_completed + 2
    BY <1>0
  <2>5. /\ services' \in Seq(Entries) /\ Len(services') = Len(services) + 1
        /\ \A k \in 1..i : services'[k] = services[k]
        /\ services'[i + 1] = e
        /\ \A k \in (i + 1)..Len(services) : services'[k + 1] = services[k]
    <3>1. i \in 0..Len(services) /\ e \in Entries /\ services \in Seq(Entries)
      BY <1>1, <2>3, <2>4 DEF N
    <3> HIDE DEF i, e
    <3>i. \A t \in Seq(Entries) : \A n \in 0..Len(t) : \A a \in Entries :
             /\ InsertAt(t, n, a) \in Seq(Entries)
             /\ Len(InsertAt(t, n, a)) = Len(t) + 1
             /\ \A k \in 1..n : InsertAt(t, n, a)[k] = t[k]
             /\ InsertAt(t, n, a)[n + 1] = a
             /\ \A k \in (n + 1)..Len(t) : InsertAt(t, n, a)[k + 1] = t[k]
      BY Inserted, Zenon
    <3>2. /\ InsertAt(services, i, e) \in Seq(Entries)
          /\ Len(InsertAt(services, i, e)) = Len(services) + 1
          /\ \A k \in 1..i : InsertAt(services, i, e)[k] = services[k]
          /\ InsertAt(services, i, e)[i + 1] = e
          /\ \A k \in (i + 1)..Len(services) :
                 InsertAt(services, i, e)[k + 1] = services[k]
      BY <3>1, <3>i, Zenon
    <3>3. services' = InsertAt(services, i, e)
      BY <2>2 DEF i, e
    <3> QED
      BY <3>2, <3>3
  <2>6. NewRow(m)
    BY <2>2, <2>4, <2>5 DEF NewRow
  <2> QED
    BY <1>7, <2>6
<1> QED
  BY <1>4, <1>5, <1>6, <1>7 DEF Words

\* Where the rows go when one is inserted.
Shifted == [k \in DOMAIN services |-> IF k <= last_completed + 1 THEN k ELSE k + 1]

\* With a row more, every row has its place, and the new one is no service.
LEMMA RowsMove ==
    ASSUME TypeOK, Rows, NEW m \in Names \cup ScriptNames, NewRow(m)
    PROVE  /\ Grows(Shifted) /\ DOMAIN services' = 1..(Len(services) + 1)
           /\ \A k \in DOMAIN services' : k = last_completed + 2 \/
                  \E l \in DOMAIN services : k = Shifted[l]
           /\ \A k \in 1..number_of_services : Shifted[k] \in 1..(number_of_services + 1)
           /\ last_completed + 2 \in 1..(number_of_services + 1)
           /\ services'[last_completed + 2].name = m
           /\ m \in RowNames'
<1>1. /\ services \in Seq(Entries) /\ Len(services) \in Nat
      /\ DOMAIN services = 1..Len(services)
      /\ number_of_services \in 1..Len(services)
      /\ last_completed \in 0..(Len(services) - 1)
  BY ListShape
<1>2. last_completed < number_of_services
  BY DEF Rows
<1>3. DOMAIN services' = 1..(Len(services) + 1)
  <2>1. services' \in Seq(Entries) /\ Len(services') = Len(services) + 1
    BY DEF NewRow
  <2> QED
    BY <2>1, LenProperties
<1>4. \A k \in DOMAIN services' : k = last_completed + 2 \/
          \E l \in DOMAIN services : k = Shifted[l]
  <2> SUFFICES ASSUME NEW k \in 1..(Len(services) + 1), k # last_completed + 2
               PROVE  \E l \in DOMAIN services : k = Shifted[l]
    BY <1>3
  <2>1. CASE k <= last_completed + 1
    BY <1>1, <2>1 DEF Shifted
  <2>2. CASE ~(k <= last_completed + 1)
    <3>1. k - 1 \in DOMAIN services /\ ~(k - 1 <= last_completed + 1) /\ (k - 1) + 1 = k
      BY <1>1, <2>2
    <3> QED
      BY <3>1 DEF Shifted
  <2> QED
    BY <2>1, <2>2
<1>5. \A k \in DOMAIN services : /\ Shifted[k] \in DOMAIN services'
                                 /\ services'[Shifted[k]] = services[k]
  <2> SUFFICES ASSUME NEW k \in 1..Len(services)
               PROVE  /\ Shifted[k] \in DOMAIN services'
                      /\ services'[Shifted[k]] = services[k]
    BY <1>1
  <2>1. CASE k <= last_completed + 1
    BY <1>1, <1>3, <2>1 DEF Shifted, NewRow
  <2>2. CASE ~(k <= last_completed + 1)
    <3>1. k \in (last_completed + 2)..Len(services)
      BY <1>1, <2>2
    <3> QED
      BY <1>1, <1>3, <2>2, <3>1 DEF Shifted, NewRow
  <2> QED
    BY <2>1, <2>2
<1>6. services'[last_completed + 2] = Entry(m, "APPLICATION")
  BY DEF NewRow
<1>7. Grows(Shifted)
  BY <1>4, <1>5, <1>6 DEF Grows, Entry
<1>8. \A k \in 1..number_of_services : Shifted[k] \in 1..(number_of_services + 1)
  BY <1>1 DEF Shifted
<1>9. last_completed + 2 \in 1..(number_of_services + 1)
  BY <1>1, <1>2
<1>10. services'[last_completed + 2].name = m /\ last_completed + 2 \in DOMAIN services'
  BY <1>1, <1>3, <1>6 DEF Entry
<1> QED
  BY <1>3, <1>4, <1>7, <1>8, <1>9, <1>10 DEF RowNames

\* What is in the queue.
Sent == Names \cup ScriptNames \cup {COMPLETED, ERROR}

\* The message a look reads is a word it knows; the rest of the queue moves up.
LEMMA Reads ==
    ASSUME TypeOK, Messages, NEW m, m = IF queue = <<>> THEN data ELSE Head(queue),
           queue' = IF queue = <<>> THEN <<>> ELSE Tail(queue)
    PROVE  /\ m \in Words
           /\ \/ Len(queue) = 0 /\ m = data
              \/ Len(queue) > 0 /\ m = queue[1]
           /\ queue' \in Seq(Sent) /\ Len(queue') \in Nat
           /\ DOMAIN queue' = 1..Len(queue')
           /\ Len(queue') = IF Len(queue) = 0 THEN 0 ELSE Len(queue) - 1
           /\ \A k \in 1..Len(queue') : /\ k + 1 \in 1..Len(queue)
                                        /\ queue'[k] = queue[k + 1]
<1>1. /\ queue \in Seq(Sent) /\ Len(queue) \in Nat /\ DOMAIN queue = 1..Len(queue)
  BY ListShape DEF Sent
<1>2. data \in Words
  BY DEF TypeOK, Words
<1>3. CASE queue = <<>>
  <2>1. Len(queue) = 0 /\ m = data /\ queue' = queue
    BY <1>3
  <2> QED
    BY <1>1, <1>2, <2>1
<1>4. CASE queue # <<>>
  <2>1. Len(queue) > 0 /\ m = queue[1]
    BY <1>1, <1>4, EmptySeq, HeadTailProperties
  <2>2. /\ queue' \in Seq(Sent) /\ Len(queue') = Len(queue) - 1
        /\ \A k \in 1..(Len(queue) - 1) : queue'[k] = queue[k + 1]
    BY <1>1, <1>4, HeadTailProperties
  <2>3. 1 \in DOMAIN queue
    BY <1>1, <2>1
  <2>4. m \in Words
    <3>1. m \in Names \cup ScriptNames \/ m = COMPLETED
      BY <2>1, <2>3 DEF Messages
    <3> QED
      BY <3>1 DEF Words
  <2>5. Len(queue') \in Nat /\ DOMAIN queue' = 1..Len(queue')
    BY <2>2, LenProperties
  <2> QED
    BY <1>1, <2>1, <2>2, <2>4, <2>5
<1> QED
  BY <1>3, <1>4

\* COMPLETED is no row, and nothing is named "".
LEMMA RowNamesShape ==
    ASSUME TypeOK
    PROVE  /\ RowNames \subseteq Names \cup ScriptNames
           /\ "" \notin RowNames /\ COMPLETED \notin RowNames /\ COMPLETED # ""
<1>1. RowNames \subseteq Names \cup ScriptNames
  BY ListShape DEF RowNames, Entries
<1> QED
  BY <1>1, NamesAssumption DEF COMPLETED

\* The steps of a run are named as its script says.
LEMMA ScriptShape ==
    ASSUME WorkerTypeOK
    PROVE  /\ script \in Seq([op : {"progress", "register"}, name : ScriptNames])
           /\ Len(script) \in Nat /\ DOMAIN script = 1..Len(script)
<1> DEFINE Steps == [op : {"progress", "register"}, name : STRING]
           Named == [op : {"progress", "register"}, name : ScriptNames]
<1>1. PICK r \in Runs : script = r.script
  BY DEF WorkerTypeOK
<1>2. script \in Seq(Steps)
  BY <1>1, RunsAssumption
<1>3. Len(script) \in Nat /\ DOMAIN script = 1..Len(script)
      /\ script = [i \in 1..Len(script) |-> script[i]]
  BY <1>2, LenProperties
<1>4. \A i \in DOMAIN script : script[i] \in Steps
  BY <1>2, <1>3, ElementOfSeq
<1>5. \A i \in DOMAIN script : script[i].name \in ScriptNames
  BY <1>1 DEF ScriptNames
<1>6. \A i \in DOMAIN script : script[i] \in Named
  BY <1>4, <1>5
<1> HIDE DEF Named
<1>7. script \in [1..Len(script) -> Named]
  BY <1>3, <1>6
<1>8. script \in Seq(Named)
  BY <1>3, <1>7, SeqDef
<1> QED
  BY <1>3, <1>8 DEF Named

\* The numbers of the worker and of the table.
LEMMA Numbers ==
    ASSUME TypeOK
    PROVE  /\ asleep \in 0..Pauses /\ asleep \in Nat
           /\ index \in 0..Len(services) /\ index \in Nat
           /\ step \in 1..(Len(script) + 1) /\ step \in Nat
           /\ current_service \in Nat
           /\ script \in Seq([op : {"progress", "register"}, name : ScriptNames])
<1>1. /\ asleep \in 0..Pauses
      /\ index \in 0..Len(services)
      /\ step \in 1..(Len(script) + 1)
      /\ current_service \in 0..(Len(services) - 1) \cup {99}
      /\ WorkerTypeOK
  BY DEF TypeOK, WorkerTypeOK
<1>2. Len(services) \in Nat
  BY ListShape
<1>3. /\ script \in Seq([op : {"progress", "register"}, name : ScriptNames])
      /\ Len(script) \in Nat
  BY <1>1, ScriptShape
<1>4. asleep \in Nat
  BY <1>1, PausesAssumption
<1>5. index \in Nat /\ current_service \in Nat
  BY <1>1, <1>2
<1>6. step \in Nat
  BY <1>1, <1>3
<1> QED
  BY <1>1, <1>3, <1>4, <1>5, <1>6

\* One turn of the table keeps the invariant.
LEMMA TickKeeps ==
    ASSUME IInv, Tick
    PROVE  IInv'
<1> DEFINE m == IF queue = <<>> THEN data ELSE Head(queue)
<1>1. /\ TypeOK /\ Rows /\ Messages /\ Late /\ Listed /\ Restarts
      /\ Drawing /\ process = "alive"
      /\ data' = m /\ Look(m)
      /\ queue' = IF queue = <<>> THEN <<>> ELSE Tail(queue)
      /\ display' = IF current_service' < number_of_services'
                    THEN "drawing" ELSE "finished"
      /\ tableDone' = (current_service' >= Len(services'))
      /\ asleep' = IF asleep = 0 THEN 0 ELSE asleep - 1
      /\ UNCHANGED <<wanted, script, pc, step, index, restarts, process>>
  BY DEF IInv, Tick, Drawing
<1>2. /\ m \in Words
      /\ \/ Len(queue) = 0 /\ m = data
         \/ Len(queue) > 0 /\ m = queue[1]
      /\ queue' \in Seq(Sent) /\ Len(queue') \in Nat
      /\ DOMAIN queue' = 1..Len(queue')
      /\ Len(queue') = IF Len(queue) = 0 THEN 0 ELSE Len(queue) - 1
      /\ \A k \in 1..Len(queue') : k + 1 \in 1..Len(queue) /\ queue'[k] = queue[k + 1]
  BY <1>1, Reads
<1> HIDE DEF m
<1>3. \/ m = "" /\ Still
      \/ m \in RowNames /\ Moved
      \/ m = COMPLETED /\ Done
      \/ m \in (Names \cup ScriptNames) \ RowNames /\ NewRow(m)
  BY <1>1, <1>2, Looks
<1>4. /\ Len(services) \in Nat /\ DOMAIN services = 1..Len(services)
      /\ number_of_services \in 1..Len(services)
      /\ last_completed \in 0..(Len(services) - 1)
      /\ Len(queue) \in Nat /\ DOMAIN queue = 1..Len(queue)
  BY <1>1, ListShape
<1>5. /\ RowNames \subseteq Names \cup ScriptNames
      /\ "" \notin RowNames /\ COMPLETED \notin RowNames /\ COMPLETED # ""
      /\ COMPLETED \notin Names \cup ScriptNames
  BY <1>1, RowNamesShape, NamesAssumption
<1>6. m = COMPLETED => pc = "completed"
  <2>1. CASE Len(queue) = 0 /\ m = data
    BY <1>1, <1>5, <2>1 DEF Rows
  <2>2. CASE Len(queue) > 0 /\ m = queue[1]
    <3>1. 1 \in DOMAIN queue
      BY <1>4, <2>2
    <3> QED
      BY <1>1, <1>5, <2>2, <3>1 DEF Messages
  <2> QED
    BY <1>2, <2>1, <2>2
\* Either the rows stay, or one more is drawn.
<1>7. \/ /\ Stays /\ m \in RowNames \cup {"", COMPLETED}
         /\ \/ current_service' = current_service /\ last_completed' = last_completed
            \/ /\ current_service' \in 0..(number_of_services - 1)
               /\ last_completed' = current_service'
            \/ /\ current_service' = 99 /\ last_completed' = last_completed
               /\ pc = "completed"
      \/ NewRow(m) /\ m \in (Names \cup ScriptNames) \ RowNames
  BY <1>3, <1>6 DEF Still, Moved, Done
<1>n. /\ Len(services) \in Nat
      /\ number_of_services \in 1..Len(services)
      /\ last_completed \in 0..(Len(services) - 1)
  BY <1>4
<1>s. \/ /\ Len(services') = Len(services) /\ number_of_services' = number_of_services
         /\ \/ current_service' = current_service /\ last_completed' = last_completed
            \/ /\ current_service' \in 0..(number_of_services - 1)
               /\ last_completed' = current_service'
            \/ /\ current_service' = 99 /\ last_completed' = last_completed
               /\ pc = "completed"
      \/ /\ Len(services') = Len(services) + 1
         /\ number_of_services' = number_of_services + 1
         /\ current_service' = current_service /\ last_completed' = last_completed
  BY <1>7 DEF Stays, NewRow
<1>8. /\ RowNames \subseteq RowNames' /\ Listed'
      /\ m \in Names \cup ScriptNames => m \in RowNames'
      /\ services' \in Seq(Entries) /\ Len(services') \in Nat
      /\ Len(services') >= Len(services)
  <2>1. CASE Stays /\ m \in RowNames \cup {"", COMPLETED}
    <3>1. services' = services
      BY <2>1 DEF Stays
    <3>2. RowNames' = RowNames
      BY <3>1 DEF RowNames
    <3>3. Listed'
      BY <1>1, <3>1, <3>2 DEF Listed
    <3>4. m \in Names \cup ScriptNames => m \in RowNames
      BY <1>5, <2>1, NamesAssumption
    <3>5. services \in Seq(Entries)
      BY <1>1, ListShape
    <3> QED
      BY <1>4, <3>1, <3>2, <3>3, <3>4, <3>5
  <2>2. CASE NewRow(m) /\ m \in (Names \cup ScriptNames) \ RowNames
    <3>1. Grows(Shifted) /\ m \in RowNames'
      BY <1>1, <2>2, RowsMove
    <3>2. Listed' /\ RowNames \subseteq RowNames'
      BY <1>1, <3>1, ListedStays
    <3>3. services' \in Seq(Entries) /\ Len(services') = Len(services) + 1
      BY <2>2 DEF NewRow
    <3> QED
      BY <1>4, <3>1, <3>2, <3>3
  <2> QED
    BY <1>7, <2>1, <2>2
<1>9. TypeOK'
  <2>1. WorkerTypeOK'
    <3>1. asleep' \in 0..Pauses
      <4>1. asleep \in 0..Pauses /\ asleep' = IF asleep = 0 THEN 0 ELSE asleep - 1
        BY <1>1, Numbers
      <4> QED
        BY <4>1, PausesAssumption
    <3>2. index' \in 0..Len(services')
      <4>1. index \in 0..Len(services) /\ index' = index
        BY <1>1, Numbers
      <4>2. Len(services') \in Nat /\ Len(services') >= Len(services)
        BY <1>8
      <4> QED
        BY <1>4, <4>1, <4>2
    <3>3. /\ \E r \in Runs : wanted' = r.wanted /\ script' = r.script
          /\ pc' \in Names \cup {"script", "saved", "starting", "completed", "raised",
                 "exited"}
          /\ step' \in 1..(Len(script') + 1)
          /\ restarts' \in [Names -> Nat]
      BY <1>1 DEF TypeOK, WorkerTypeOK
    <3> QED
      BY <1>2, <1>8, <3>1, <3>2, <3>3 DEF WorkerTypeOK, Entries, Sent
  <2>2. /\ current_service' \in 0..(Len(services') - 1) \cup {99}
        /\ last_completed' \in 0..(Len(services') - 1)
        /\ number_of_services' \in 1..Len(services')
    <3>1. current_service \in 0..(Len(services) - 1) \cup {99}
      BY <1>1 DEF TypeOK
    <3> QED
      BY <1>n, <1>s, <3>1
  <2>3. display' \in {"drawing", "finished", "timed out"}
    BY <1>1
  <2>4. tableDone' \in BOOLEAN
    BY <1>1
  <2> QED
    BY <1>1, <1>2, <2>1, <2>2, <2>3, <2>4 DEF TypeOK, Words
<1>10. Rows'
  <2>1. \A k \in DOMAIN services' :
            \E j \in 1..number_of_services' : services'[j].name = services'[k].name
    <3>1. CASE Stays
      BY <1>1, <3>1 DEF Stays, Rows
    <3>2. CASE NewRow(m) /\ m \in (Names \cup ScriptNames) \ RowNames
      <4>1. /\ Grows(Shifted)
            /\ \A k \in DOMAIN services' : k = last_completed + 2 \/
                   \E l \in DOMAIN services : k = Shifted[l]
            /\ \A k \in 1..number_of_services : Shifted[k] \in 1..(number_of_services + 1)
            /\ last_completed + 2 \in 1..(number_of_services + 1)
        BY <1>1, <3>2, RowsMove
      <4>2. number_of_services' = number_of_services + 1
        BY <3>2 DEF NewRow
      <4> SUFFICES ASSUME NEW k \in DOMAIN services'
                   PROVE  \E j \in 1..number_of_services' :
                              services'[j].name = services'[k].name
        OBVIOUS
      <4>3. CASE k = last_completed + 2
        BY <4>1, <4>2, <4>3
      <4>4. ASSUME NEW l \in DOMAIN services, k = Shifted[l]
            PROVE  \E j \in 1..number_of_services' :
                       services'[j].name = services'[k].name
        <5>1. PICK j \in 1..number_of_services : services[j].name = services[l].name
          BY <1>1 DEF Rows
        <5>2. j \in DOMAIN services
          BY <1>4
        <5>3. services'[Shifted[j]] = services[j] /\ services'[k] = services[l]
          BY <4>1, <4>4, <5>2 DEF Grows
        <5> QED
          BY <4>1, <4>2, <5>1, <5>3
      <4> QED
        BY <4>1, <4>3, <4>4
    <3> QED
      BY <1>7, <3>1, <3>2
  <2>2. last_completed' < number_of_services'
    <3>1. last_completed < number_of_services
      BY <1>1 DEF Rows
    <3> QED
      BY <1>n, <1>s, <3>1
  <2>3. current_service' < number_of_services' \/ pc' = "completed"
    <3>1. current_service < number_of_services \/ pc = "completed"
      BY <1>1 DEF Rows
    <3>2. current_service \in Nat /\ pc' = pc
      BY <1>1, Numbers
    <3> QED
      BY <1>n, <1>s, <3>1, <3>2
  <2>4. data' \in RowNames' \cup {""} \/ (data' = COMPLETED /\ pc' = "completed")
    BY <1>1, <1>2, <1>6, <1>8 DEF Words
  <2>5. display' = "finished" => pc' = "completed"
    BY <1>1, <2>3
  <2> QED
    BY <2>1, <2>2, <2>3, <2>4, <2>5 DEF Rows
<1>11. Messages'
  <2>1. \A k \in DOMAIN queue' : \E l \in DOMAIN queue : queue'[k] = queue[l]
    BY <1>2, <1>4
  <2>2. pc' = "saved" /\ Drawing' => Len(queue') <= asleep'
    <3>1. asleep \in Nat
      BY <1>1, Numbers
    <3>2. pc = "saved" => Len(queue) <= asleep
      BY <1>1 DEF Messages
    <3> QED
      BY <1>1, <1>2, <1>4, <3>1, <3>2
  <2>3. /\ pc' = pc /\ (Starting' <=> Starting)
        /\ \A k \in DOMAIN queue : \/ queue[k] \in Names \cup ScriptNames
                                   \/ queue[k] = COMPLETED /\ pc = "completed"
        /\ Starting => \A k \in DOMAIN queue : queue[k] = PostSetup
    BY <1>1 DEF Messages, Starting
  <2> QED
    BY <2>1, <2>2, <2>3 DEF Messages
<1>12. Late'
  <2> SUFFICES ASSUME pc' = "script", NEW j \in 1..(step - 1),
                      \A k \in j..(step - 1) : script[k].op = "progress"
               PROVE  \/ script[j].name \in RowNames'
                      \/ /\ step - j <= Len(queue')
                         /\ queue'[Len(queue') + j + 1 - step] = script[j].name
    BY <1>1 DEF Late
  <2>1. CASE script[j].name \in RowNames
    BY <1>8, <2>1
  <2>2. CASE /\ step - j <= Len(queue)
             /\ queue[Len(queue) + j + 1 - step] = script[j].name
    <3>1. step \in Nat /\ j \in Nat /\ step - j >= 1
      <4>1. step \in Nat
        BY <1>1, Numbers
      <4> QED
        BY <4>1
    <3>2. Len(queue) > 0 /\ Len(queue') = Len(queue) - 1 /\ m = queue[1]
      <4>1. Len(queue) \in Nat /\ step - j <= Len(queue)
        BY <1>4, <2>2
      <4>2. Len(queue) > 0 /\ Len(queue) # 0
        BY <3>1, <4>1
      <4> QED
        BY <1>2, <4>2
    <3>3. CASE step - j = Len(queue)
      <4>1. Len(queue) + j + 1 - step = 1 /\ 1 \in DOMAIN queue
        BY <1>4, <3>1, <3>2, <3>3
      <4>2. m = script[j].name
        BY <2>2, <3>2, <4>1
      <4>3. m \in Names \cup ScriptNames
        <5>1. pc # "completed"
          BY <1>1
        <5> QED
          BY <1>1, <3>2, <4>1, <5>1 DEF Messages
      <4> QED
        BY <1>8, <4>2, <4>3
    <3>4. CASE step - j # Len(queue)
      <4> DEFINE p == Len(queue') + j + 1 - step
      <4>1. step - j <= Len(queue') /\ p \in 1..Len(queue')
            /\ p + 1 = Len(queue) + j + 1 - step
        <5>1. step - j <= Len(queue) /\ Len(queue) \in Nat
              /\ Len(queue') = Len(queue) - 1
          BY <1>4, <2>2, <3>2
        <5> QED
          BY <3>1, <3>4, <5>1
      <4>2. queue'[p] = queue[p + 1]
        <5> HIDE DEF p
        <5> QED
          BY <1>2, <4>1
      <4> QED
        BY <2>2, <4>1, <4>2
    <3> QED
      BY <3>3, <3>4
  <2> QED
    BY <1>1, <2>1, <2>2 DEF Late
<1>13. Restarts'
  <2>1. CASE Starting
    <3>1. m \in RowNames \cup {""}
      <4>1. pc # "completed"
        BY <2>1, NamesAssumption DEF Starting
      <4>2. CASE Len(queue) = 0 /\ m = data
        BY <1>1, <4>1, <4>2 DEF Rows
      <4>3. CASE Len(queue) > 0 /\ m = queue[1]
        <5>1. 1 \in DOMAIN queue
          BY <1>4, <4>3
        <5>2. m = PostSetup
          BY <1>1, <2>1, <4>3, <5>1 DEF Messages
        <5> QED
          BY <1>1, <5>2 DEF Listed
      <4> QED
        BY <1>2, <4>2, <4>3
    <3>2. services' = services
      BY <1>5, <1>7, <3>1, NamesAssumption DEF Stays
    <3>3. \A n : Passed(n)' <=> Passed(n)
      BY <1>1, <3>2 DEF Passed, Restartable
    <3>4. /\ Starting' /\ RestartedOnce'
      BY <1>1, <2>1 DEF Starting, Restarts, RestartedOnce, Restartable
    <3> QED
      BY <1>1, <3>2, <3>3, <3>4 DEF Restarts, Starting, Restartable
  <2>2. CASE ~Starting
    <3>1. ~Starting' /\ pc' \notin Names
      BY <1>1, <2>2 DEF Starting
    <3>2. RestartedOnce'
      BY <1>1 DEF Restarts, RestartedOnce, Restartable
    <3> QED
      BY <1>1, <3>1, <3>2 DEF Restarts
  <2> QED
    BY <2>1, <2>2
<1> QED
  BY <1>8, <1>9, <1>10, <1>11, <1>12, <1>13 DEF IInv

-----------------------------------------------------------------------------
(* The steps of the worker.                                                *)

Places == Names \cup {"script", "saved", "starting", "completed", "raised", "exited"}

\* The table while the worker takes a step.
Calm == process = "alive" /\ Paced /\ UNCHANGED <<displayVars, process>>

\* What the types say of the worker.
LEMMA Types ==
    ASSUME TypeOK
    PROVE  /\ services \in Seq(Entries) /\ Len(services) \in Nat
           /\ queue \in Seq(Sent) /\ pc \in Places
           /\ step \in 1..(Len(script) + 1) /\ index \in 0..Len(services)
           /\ asleep \in 0..Pauses /\ restarts \in [Names -> Nat]
           /\ process \in {"alive", "ended"}
<1>1. services \in Seq(Entries) /\ Len(services) \in Nat /\ queue \in Seq(Sent)
  BY ListShape DEF Sent
<1>2. /\ step \in 1..(Len(script) + 1) /\ index \in 0..Len(services)
      /\ asleep \in 0..Pauses
  BY Numbers
<1>3. pc \in Places /\ restarts \in [Names -> Nat] /\ process \in {"alive", "ended"}
  BY DEF TypeOK, WorkerTypeOK, Places
<1> QED
  BY <1>1, <1>2, <1>3

\* What a step has to keep of the types.
LEMMA TypesKept ==
    ASSUME TypeOK, UNCHANGED <<wanted, script, displayVars>>,
           process' \in {"alive", "ended"},
           services' \in Seq(Entries), Len(services') >= Len(services),
           queue' \in Seq(Sent), pc' \in Places,
           step' \in 1..(Len(script) + 1), index' \in 0..Len(services'),
           asleep' \in 0..Pauses, restarts' \in [Names -> Nat]
    PROVE  TypeOK'
<1>1. WorkerTypeOK'
  BY DEF TypeOK, WorkerTypeOK, Entries, Sent, Places
<1>2. /\ current_service' \in 0..(Len(services') - 1) \cup {99}
      /\ last_completed' \in 0..(Len(services') - 1)
      /\ number_of_services' \in 1..Len(services')
  <2>1. Len(services) \in Nat /\ Len(services') \in Nat /\ Len(services') >= Len(services)
    BY ListShape, LenProperties
  <2>2. /\ current_service \in 0..(Len(services) - 1) \cup {99}
        /\ last_completed \in 0..(Len(services) - 1)
        /\ number_of_services \in 1..Len(services)
        /\ current_service' = current_service /\ last_completed' = last_completed
        /\ number_of_services' = number_of_services
    BY DEF TypeOK, displayVars
  <2> QED
    BY <2>1, <2>2
<1> QED
  BY <1>1, <1>2 DEF TypeOK, displayVars

\* As long as nobody touches the list, the table and the list stay right.
LEMMA SameList ==
    ASSUME Rows, Listed, UNCHANGED <<wanted, services, displayVars>>,
           pc = "completed" => pc' = "completed"
    PROVE  Rows' /\ Listed' /\ RowNames' = RowNames
<1>1. RowNames' = RowNames
  BY DEF RowNames
<1> QED
  BY <1>1 DEF Rows, Listed, Drawing, displayVars

\* The types of the worker are among those of the console.
LEMMA OfWorker == TypeOK => WorkerTypeOK
BY DEF TypeOK

\* What has been sent follows what was in the queue.
LEMMA OneMore ==
    ASSUME WorkerTypeOK, NEW m \in Sent, queue' = Append(queue, m)
    PROVE  /\ queue' \in Seq(Sent) /\ DOMAIN queue' = 1..(Len(queue) + 1)
           /\ Len(queue) \in Nat /\ Len(queue') = Len(queue) + 1
           /\ \A k \in 1..Len(queue) : queue'[k] = queue[k]
           /\ queue'[Len(queue) + 1] = m
           /\ \A k \in DOMAIN queue' :
                  queue'[k] = m \/ (k \in DOMAIN queue /\ queue'[k] = queue[k])
<1>1. queue \in Seq(Sent) /\ Len(queue) \in Nat /\ DOMAIN queue = 1..Len(queue)
  <2>1. queue \in Seq(Sent)
    BY DEF WorkerTypeOK, Sent
  <2> QED
    BY <2>1, LenProperties
<1>2. /\ queue' \in Seq(Sent) /\ DOMAIN queue' = 1..(Len(queue) + 1)
      /\ Len(queue') = Len(queue) + 1
      /\ \A k \in 1..Len(queue) : queue'[k] = queue[k]
      /\ queue'[Len(queue) + 1] = m
  BY <1>1, AppendProperties, LenProperties
<1>3. \A k \in 1..(Len(queue) + 1) : k = Len(queue) + 1 \/ k \in 1..Len(queue)
  BY <1>1
<1>4. \A k \in DOMAIN queue' :
          queue'[k] = m \/ (k \in DOMAIN queue /\ queue'[k] = queue[k])
  <2> SUFFICES ASSUME NEW k \in DOMAIN queue'
               PROVE  queue'[k] = m \/ (k \in DOMAIN queue /\ queue'[k] = queue[k])
    OBVIOUS
  <2>1. k = Len(queue) + 1 \/ k \in 1..Len(queue)
    BY <1>2, <1>3
  <2>2. CASE k = Len(queue) + 1
    BY <1>2, <2>2
  <2>3. CASE k \in 1..Len(queue)
    BY <1>1, <1>2, <2>3
  <2> QED
    BY <2>1, <2>2, <2>3
<1> QED
  BY <1>1, <1>2, <1>4

\* Each name the worker can send belongs in the queue.
LEMMA MaySend == PostSetup \in Sent /\ COMPLETED \in Sent /\ ScriptNames \subseteq Sent
BY RegisteredAssumption DEF Sent

\* The worker is at one place at a time.
LEMMA PlaceNames ==
    /\ \A n \in Names : /\ n # "script" /\ n # "saved" /\ n # "starting"
                        /\ n # "completed" /\ n # "raised" /\ n # "exited"
    /\ pc \in {"script", "saved", "completed", "raised", "exited"} =>
           ~Starting /\ pc \notin Names
BY NamesAssumption DEF Starting

\* A message of the script keeps the invariant.
LEMMA ShowStepKeeps ==
    ASSUME IInv, Calm, ShowStep
    PROVE  IInv'
<1>1. /\ TypeOK /\ Rows /\ Messages /\ Late /\ Listed /\ Restarts
      /\ process = "alive" /\ UNCHANGED <<displayVars, process>>
      /\ pc = "script" /\ step \in DOMAIN script /\ script[step].op = "progress"
      /\ queue' = Append(queue, script[step].name) /\ step' = step + 1
      /\ UNCHANGED <<wanted, script, services, pc, index, asleep, restarts>>
  BY DEF IInv, Calm, ShowStep, Send
<1>2. /\ step \in Nat /\ Len(script) \in Nat /\ step \in 1..Len(script)
      /\ script[step].name \in ScriptNames
  <2>1. /\ script \in Seq([op : {"progress", "register"}, name : ScriptNames])
        /\ step \in Nat
    BY <1>1, Numbers
  <2>2. Len(script) \in Nat /\ DOMAIN script = 1..Len(script)
    BY <2>1, LenProperties
  <2>3. script[step] \in [op : {"progress", "register"}, name : ScriptNames]
    BY <1>1, <2>1, <2>2, ElementOfSeq
  <2> QED
    BY <1>1, <2>1, <2>2, <2>3
<1>3. /\ queue' \in Seq(Sent) /\ Len(queue) \in Nat /\ Len(queue') = Len(queue) + 1
      /\ \A k \in 1..Len(queue) : queue'[k] = queue[k]
      /\ queue'[Len(queue) + 1] = script[step].name
      /\ \A k \in DOMAIN queue' : \/ queue'[k] = script[step].name
                                  \/ k \in DOMAIN queue /\ queue'[k] = queue[k]
  BY <1>1, <1>2, OneMore, OfWorker, MaySend
<1>4. TypeOK'
  <2>1. /\ services \in Seq(Entries) /\ Len(services) \in Nat
        /\ pc \in Places /\ index \in 0..Len(services) /\ asleep \in 0..Pauses
        /\ restarts \in [Names -> Nat] /\ process \in {"alive", "ended"}
    BY <1>1, Types
  <2>2. step' \in 1..(Len(script) + 1)
    BY <1>1, <1>2
  <2>3. Len(services') >= Len(services)
    BY <1>1, <2>1
  <2> QED
    BY <1>1, <1>3, <2>1, <2>2, <2>3, TypesKept
<1>5. Rows' /\ Listed' /\ RowNames' = RowNames
  BY <1>1, SameList
<1>6. Messages'
  BY <1>1, <1>2, <1>3, PlaceNames DEF Messages, Starting
<1>7. Late'
  <2>0. step' - 1 = step /\ script' = script
    BY <1>1, <1>2
  <2> SUFFICES ASSUME Drawing', NEW j \in 1..step,
                      \A k \in j..step : script[k].op = "progress"
               PROVE  \/ script[j].name \in RowNames'
                      \/ /\ step' - j <= Len(queue')
                         /\ queue'[Len(queue') + j + 1 - step'] = script[j].name
    BY <2>0 DEF Late
  <2>1. CASE j = step
    <3>1. step' - j <= Len(queue') /\ Len(queue') + j + 1 - step' = Len(queue) + 1
      BY <1>1, <1>2, <1>3, <2>1
    <3> QED
      BY <1>3, <2>1, <3>1
  <2>2. CASE j # step
    <3>1. j \in 1..(step - 1) /\ \A k \in j..(step - 1) : k \in j..step
      BY <1>2, <2>2
    <3>2. Drawing
      BY <1>1 DEF Drawing, displayVars
    <3>3. \/ script[j].name \in RowNames
          \/ /\ step - j <= Len(queue)
             /\ queue[Len(queue) + j + 1 - step] = script[j].name
      BY <1>1, <3>1, <3>2 DEF Late
    <3>4. ASSUME step - j <= Len(queue)
          PROVE  /\ step' - j <= Len(queue')
                 /\ Len(queue') + j + 1 - step' = Len(queue) + j + 1 - step
                 /\ Len(queue) + j + 1 - step \in 1..Len(queue)
      <4>1. /\ step \in Nat /\ Len(queue) \in Nat /\ j \in 1..(step - 1)
            /\ step' = step + 1 /\ Len(queue') = Len(queue) + 1
        BY <1>1, <1>2, <1>3, <3>1
      <4> QED
        BY <3>4, <4>1
    <3> QED
      BY <1>3, <1>5, <3>3, <3>4
  <2> QED
    BY <2>1, <2>2
<1>8. Restarts'
  BY <1>1, PlaceNames DEF Restarts, Starting, RestartedOnce, Restartable
<1> QED
  BY <1>4, <1>5, <1>6, <1>7, <1>8 DEF IInv

\* When the installer of Gluu registers itself the table has a row of its name.
LEMMA RegisterLateKeeps ==
    ASSUME IInv, Calm, RegisterLate
    PROVE  IInv'
<1> DEFINE n == script[step].name
           e == Entry(n, "APPLICATION")
<1>1. /\ TypeOK /\ Rows /\ Messages /\ Late /\ Listed /\ Restarts
      /\ process = "alive" /\ UNCHANGED <<displayVars, process>> /\ Paced
      /\ pc = "script" /\ step \in DOMAIN script /\ script[step].op = "register"
      /\ services' = Append(services, e) /\ step' = step + 1
      /\ UNCHANGED <<wanted, script, queue, pc, index, asleep, restarts>>
  BY DEF IInv, Calm, RegisterLate
<1>2. /\ step \in Nat /\ Len(script) \in Nat /\ step \in 1..Len(script)
      /\ n \in ScriptNames
  <2>1. /\ script \in Seq([op : {"progress", "register"}, name : ScriptNames])
        /\ step \in Nat
    BY <1>1, Numbers
  <2>2. Len(script) \in Nat /\ DOMAIN script = 1..Len(script)
    BY <2>1, LenProperties
  <2>3. script[step] \in [op : {"progress", "register"}, name : ScriptNames]
    BY <1>1, <2>1, <2>2, ElementOfSeq
  <2> QED
    BY <1>1, <2>1, <2>2, <2>3
<1>3. /\ services \in Seq(Entries) /\ Len(services) \in Nat
      /\ DOMAIN services = 1..Len(services)
  BY <1>1, ListShape
<1>4. /\ services' \in Seq(Entries) /\ Len(services') = Len(services) + 1
      /\ DOMAIN services' = 1..(Len(services) + 1)
      /\ \A k \in 1..Len(services) : services'[k] = services[k]
      /\ services'[Len(services) + 1] = e
  <2>1. e \in Entries
    BY <1>2 DEF Entry, Entries, Kinds
  <2> HIDE DEF e
  <2> QED
    BY <1>1, <1>3, <2>1, AppendProperties, LenProperties
<1>5. /\ e.kind = "APPLICATION" /\ e.name = n
  BY DEF Entry
<1> HIDE DEF n, e
<1>6. TypeOK'
  <2>1. index \in 0..Len(services) /\ asleep' \in 0..Pauses /\ index' = index
    BY <1>1, Numbers
  <2>2. index' \in 0..Len(services') /\ Len(services') >= Len(services)
    BY <1>3, <1>4, <2>1
  <2>3. pc' \in Places /\ restarts' \in [Names -> Nat] /\ process' \in {"alive", "ended"}
    BY <1>1 DEF TypeOK, WorkerTypeOK, Places
  <2>4. step' \in 1..(Len(script) + 1)
    BY <1>1, <1>2
  <2>5. queue' \in Seq(Sent)
    BY <1>1, ListShape DEF Sent
  <2> QED
    BY <1>1, <1>4, <2>1, <2>2, <2>3, <2>4, <2>5, TypesKept
<1>7. Listed' /\ RowNames \subseteq RowNames'
  <2> DEFINE at == [k \in DOMAIN services |-> k]
  <2>1. \A k \in 1..(Len(services) + 1) : k = Len(services) + 1 \/ k \in 1..Len(services)
    BY <1>3
  <2>2. \A k \in 1..Len(services) : k \in 1..(Len(services) + 1)
    BY <1>3
  <2>3. Grows(at)
    BY <1>3, <1>4, <1>5, <2>1, <2>2 DEF Grows
  <2> HIDE DEF at
  <2> QED
    BY <1>1, <2>3, ListedStays
<1>8. Drawing => n \in RowNames
  <2> SUFFICES ASSUME Drawing  PROVE n \in RowNames
    OBVIOUS
  <2>1. PICK r \in Runs : script = r.script
    BY <1>1 DEF TypeOK, WorkerTypeOK
  <2>2. PICK j \in DOMAIN script :
            /\ j + MaxBacklog <= step /\ script[j].name = n
            /\ \A k \in j..(step - 1) : script[k].op = "progress"
    BY <1>1, <2>1, LateAssumption DEF n
  <2>3. /\ MaxBacklog \in Nat /\ MaxBacklog >= 1 /\ Len(queue) \in Nat
        /\ Len(queue) < MaxBacklog
    BY <1>1, ListShape, PaceAssumption, PausesAssumption DEF Paced, Drawing
  <2>4. script \in Seq([op : {"progress", "register"}, name : ScriptNames])
    BY <1>1, Numbers
  <2>5. j \in 1..Len(script)
    BY <2>4, LenProperties
  <2>6. j \in 1..(step - 1) /\ ~(step - j <= Len(queue))
    BY <1>2, <2>2, <2>3, <2>5
  <2> QED
    BY <1>1, <2>2, <2>6 DEF Late
<1>9. Rows'
  <2>1. ASSUME Drawing', NEW k \in DOMAIN services'
        PROVE  \E j \in 1..number_of_services' : services'[j].name = services'[k].name
    <3>1. Drawing /\ number_of_services' = number_of_services
      BY <1>1, <2>1 DEF Drawing, displayVars
    <3>2. PICK l \in DOMAIN services : services[l].name = services'[k].name
      <4>1. CASE k = Len(services) + 1
        BY <1>4, <1>5, <1>8, <3>1, <4>1 DEF RowNames
      <4>2. CASE k # Len(services) + 1
        <5>1. k \in 1..Len(services)
          BY <1>3, <1>4, <4>2
        <5> QED
          BY <1>3, <1>4, <5>1
      <4> QED
        BY <4>1, <4>2
    <3>3. PICK j \in 1..number_of_services : services[j].name = services[l].name
      BY <1>1, <3>1 DEF Rows
    <3>4. j \in 1..Len(services)
      <4>1. number_of_services \in 1..Len(services)
        BY <1>1, ListShape
      <4> QED
        BY <1>3, <4>1
    <3> QED
      BY <1>4, <3>1, <3>2, <3>3, <3>4
  <2> QED
    BY <1>1, <1>7, <2>1 DEF Rows, displayVars
<1>10. Messages'
  BY <1>1, PlaceNames DEF Messages, Starting
<1>11. Late'
  <2>1. ASSUME NEW j \in 1..step, \A k \in j..step : script[k].op = "progress"
        PROVE  FALSE
    <3>1. step \in j..step
      BY <1>2
    <3> QED
      BY <1>1, <2>1, <3>1
  <2>2. (step + 1) - 1 = step
    BY <1>2
  <2> QED
    BY <1>1, <2>1, <2>2 DEF Late
<1>12. Restarts'
  BY <1>1, PlaceNames DEF Restarts, Starting, RestartedOnce, Restartable
<1> QED
  BY <1>6, <1>7, <1>9, <1>10, <1>11, <1>12 DEF IInv

\* The types when a step leaves the list alone.
LEMMA TypesKeptByStep ==
    ASSUME TypeOK, UNCHANGED <<wanted, script, services, step, displayVars>>,
           process' \in {"alive", "ended"}, queue' \in Seq(Sent), pc' \in Places,
           index' \in 0..Len(services), asleep' \in 0..Pauses,
           restarts' \in [Names -> Nat]
    PROVE  TypeOK'
<1>1. /\ services \in Seq(Entries) /\ Len(services) \in Nat
      /\ step \in 1..(Len(script) + 1)
  BY Types
<1>2. services' = services /\ step' = step /\ Len(services') >= Len(services)
  BY <1>1
<1> QED
  BY <1>1, <1>2, TypesKept

\* The pause after post-setup is long enough for the table to catch up.
LEMMA SavePropertiesKeeps ==
    ASSUME IInv, Calm, SaveProperties
    PROVE  IInv'
<1>1. /\ TypeOK /\ Rows /\ Messages /\ Late /\ Listed /\ Restarts
      /\ process = "alive" /\ UNCHANGED <<displayVars, process>> /\ Paced
      /\ pc = "script" /\ pc' = "saved"
      /\ queue' = Append(queue, PostSetup) /\ asleep' = Pauses
      /\ UNCHANGED <<wanted, script, services, step, index, restarts>>
  BY DEF IInv, Calm, SaveProperties, Send, Pause
<1>2. /\ queue' \in Seq(Sent) /\ Len(queue) \in Nat /\ Len(queue') = Len(queue) + 1
      /\ \A k \in DOMAIN queue' : \/ queue'[k] = PostSetup
                                  \/ k \in DOMAIN queue /\ queue'[k] = queue[k]
  BY <1>1, OneMore, OfWorker, MaySend
<1>3. TypeOK'
  <2>1. asleep' \in 0..Pauses
    BY <1>1, PausesAssumption
  <2>2. pc' \in Places
    BY <1>1 DEF Places
  <2> QED
    BY <1>1, <1>2, <2>1, <2>2, Types, TypesKeptByStep
<1>4. Rows' /\ Listed' /\ RowNames' = RowNames
  BY <1>1, SameList
<1>5. Messages'
  <2>1. ASSUME Drawing'  PROVE Len(queue') <= asleep'
    <3>1. Len(queue) < MaxBacklog
      BY <1>1, <2>1 DEF Paced, Drawing, displayVars
    <3>2. Pauses \in Nat /\ MaxBacklog \in 1..Pauses
      BY PaceAssumption, PausesAssumption
    <3>3. Len(queue') = Len(queue) + 1 /\ asleep' = Pauses /\ Len(queue) \in Nat
      BY <1>1, <1>2
    <3> QED
      BY <3>1, <3>2, <3>3
  <2>2. \A k \in DOMAIN queue' : queue'[k] \in Names \cup ScriptNames
    <3>1. pc # "completed" /\ PostSetup \in Names
      BY <1>1, RegisteredAssumption
    <3> QED
      BY <1>1, <1>2, <3>1 DEF Messages
  <2>3. ~Starting'
    BY <1>1, NamesAssumption DEF Starting
  <2> QED
    BY <2>1, <2>2, <2>3 DEF Messages
<1>6. Late'
  BY <1>1 DEF Late
<1>7. Restarts'
  <2>1. ~Starting' /\ pc' \notin Names /\ pc' # "completed"
    BY <1>1, NamesAssumption DEF Starting
  <2>2. \A n \in Names : restarts'[n] = 0
    BY <1>1 DEF Restarts
  <2>3. /\ \A n \in Names : restarts'[n] <= 1
        /\ RestartedOnce'
    BY <1>1, <2>1 DEF Restarts, RestartedOnce
  <2> QED
    BY <2>1, <2>2, <2>3 DEF Restarts
<1> QED
  BY <1>3, <1>4, <1>5, <1>6, <1>7 DEF IInv

\* The walk begins with nothing restarted and nothing left to read.
LEMMA PostInstallTasksKeeps ==
    ASSUME IInv, Calm, PostInstallTasks
    PROVE  IInv'
<1>1. /\ TypeOK /\ Rows /\ Messages /\ Late /\ Listed /\ Restarts
      /\ process = "alive" /\ UNCHANGED <<displayVars, process>>
      /\ pc = "saved" /\ asleep = 0 /\ pc' = "starting" /\ index' = 0
      /\ UNCHANGED <<wanted, script, services, queue, step, asleep, restarts>>
  BY DEF IInv, Calm, PostInstallTasks
<1>2. TypeOK'
  <2>1. pc' \in Places
    BY <1>1 DEF Places
  <2>2. Len(services) \in Nat /\ index' \in 0..Len(services)
    BY <1>1, Types
  <2> QED
    BY <1>1, <2>1, <2>2, Types, TypesKeptByStep
<1>3. Rows' /\ Listed' /\ RowNames' = RowNames
  BY <1>1, SameList
<1>4. Messages'
  <2>1. ASSUME Drawing'  PROVE DOMAIN queue' = {}
    <3>1. Len(queue) <= 0
      BY <1>1, <2>1 DEF Messages, Drawing, displayVars
    <3>2. Len(queue) \in Nat /\ DOMAIN queue = 1..Len(queue)
      BY <1>1, ListShape
    <3> QED
      BY <1>1, <3>1, <3>2
  <2> QED
    BY <1>1, <2>1 DEF Messages
<1>5. Late'
  BY <1>1 DEF Late
<1>6. Restarts'
  <2>1. \A n \in Names : ~Passed(n)'
    BY <1>1 DEF Passed
  <2>2. \A n \in Names : restarts'[n] = 0
    BY <1>1 DEF Restarts
  <2>3. pc' \notin Names /\ pc' # "completed"
    BY <1>1, NamesAssumption
  <2>4. RestartedOnce' /\ \A n \in Names : restarts'[n] <= 1
    BY <1>1, <2>3 DEF Restarts, RestartedOnce
  <2> QED
    BY <1>1, <2>1, <2>2, <2>3, <2>4 DEF Restarts
<1> QED
  BY <1>2, <1>3, <1>4, <1>5, <1>6 DEF IInv

\* What the iterator has passed when it moves on by one.
LEMMA OneFurther ==
    ASSUME TypeOK, index < Len(services), index' = index + 1, services' = services
    PROVE  /\ index + 1 \in DOMAIN services /\ index' \in 0..Len(services)
           /\ index' \in DOMAIN services /\ index' \in 1..index'
           /\ \A k \in 1..index : k \in DOMAIN services /\ k # index + 1
           /\ \A n : Passed(n)' <=> \/ Passed(n)
                                    \/ Restartable(services[index + 1])
                                       /\ services[index + 1].name = n
<1>1. /\ index \in Nat /\ Len(services) \in Nat /\ DOMAIN services = 1..Len(services)
  BY ListShape, Numbers
<1>2. \A k \in 1..(index + 1) : k \in 1..index \/ k = index + 1
  BY <1>1
<1>3. \A k \in 1..index : k \in 1..(index + 1) /\ k \in DOMAIN services /\ k # index + 1
  BY <1>1
<1>4. /\ index + 1 \in 1..(index + 1) /\ index + 1 \in DOMAIN services
      /\ index + 1 \in 0..Len(services)
  BY <1>1
<1>5. \A n : Passed(n)' <=>
          \E k \in 1..(index + 1) : Restartable(services[k]) /\ services[k].name = n
  BY DEF Passed, Restartable
<1>6. \A n : Passed(n)' <=> \/ Passed(n)
                            \/ /\ Restartable(services[index + 1])
                               /\ services[index + 1].name = n
  BY <1>2, <1>3, <1>4, <1>5 DEF Passed
<1> QED
  BY <1>3, <1>4, <1>6

\* An entry that is no service, or an excluded one, changes nothing.
LEMMA PassOverKeeps ==
    ASSUME IInv, Calm, PassOver
    PROVE  IInv'
<1>1. /\ TypeOK /\ Rows /\ Messages /\ Late /\ Listed /\ Restarts
      /\ process = "alive" /\ UNCHANGED <<displayVars, process>>
      /\ pc = "starting" /\ index < Len(services) /\ ~Restartable(services[index + 1])
      /\ index' = index + 1
      /\ UNCHANGED <<wanted, script, services, queue, pc, step, asleep, restarts>>
  BY DEF IInv, Calm, PassOver
<1>2. /\ index' \in 0..Len(services)
      /\ \A n : Passed(n)' <=> Passed(n)
  BY <1>1, OneFurther
<1>3. TypeOK'
  BY <1>1, <1>2, Types, TypesKeptByStep
<1>4. Rows' /\ Listed' /\ RowNames' = RowNames
  BY <1>1, SameList
<1>5. Messages'
  BY <1>1 DEF Messages, Drawing, displayVars, Starting
<1>6. Late'
  BY <1>1 DEF Late
<1>7. Restarts'
  <2>1. pc \notin Names /\ pc # "completed"
    BY <1>1, NamesAssumption
  <2>2. RestartedOnce'
    BY <1>1, <2>1 DEF Restarts, RestartedOnce
  <2> QED
    BY <1>1, <1>2, <2>1, <2>2 DEF Restarts, Starting
<1> QED
  BY <1>3, <1>4, <1>5, <1>6, <1>7 DEF IInv

\* The service the iterator comes to has not been restarted.
LEMMA AnnounceStartKeeps ==
    ASSUME IInv, Calm, AnnounceStart
    PROVE  IInv'
<1> DEFINE s == services[index + 1]
<1>1. /\ TypeOK /\ Rows /\ Messages /\ Late /\ Listed /\ Restarts
      /\ process = "alive" /\ UNCHANGED <<displayVars, process>>
      /\ pc = "starting" /\ index < Len(services) /\ Restartable(s)
      /\ queue' = Append(queue, PostSetup) /\ asleep' = Pauses
      /\ pc' = s.name /\ index' = index + 1
      /\ UNCHANGED <<wanted, script, services, step, restarts>>
  BY DEF IInv, Calm, AnnounceStart, Send, Pause
<1>2. /\ index + 1 \in DOMAIN services /\ index' \in 0..Len(services)
      /\ index' \in DOMAIN services
      /\ \A k \in 1..index : k \in DOMAIN services /\ k # index + 1
  BY <1>1, OneFurther
<1>p. \A n : Passed(n)' <=> (Passed(n) \/ s.name = n)
  BY <1>1, OneFurther
<1>3. s.kind = "SERVICE" /\ s.name \in Names
  BY <1>1, <1>2 DEF Restartable, Listed
<1>4. ~Passed(s.name)
  <2> SUFFICES ASSUME NEW k \in 1..index, Restartable(services[k]),
                      services[k].name = s.name
               PROVE  FALSE
    BY DEF Passed
  <2> QED
    BY <1>1, <1>2, <1>3 DEF Restartable, Listed
<1> HIDE DEF s
<1>5. /\ queue' \in Seq(Sent)
      /\ \A k \in DOMAIN queue' : \/ queue'[k] = PostSetup
                                  \/ k \in DOMAIN queue /\ queue'[k] = queue[k]
  BY <1>1, OneMore, OfWorker, MaySend
<1>6. TypeOK'
  <2>1. asleep' \in 0..Pauses
    BY <1>1, PausesAssumption
  <2>2. pc' \in Places
    BY <1>1, <1>3 DEF Places
  <2> QED
    BY <1>1, <1>2, <1>5, <2>1, <2>2, Types, TypesKeptByStep
<1>7. Rows' /\ Listed' /\ RowNames' = RowNames
  BY <1>1, SameList
<1>8. /\ pc # "completed" /\ pc' # "completed" /\ pc' # "saved" /\ pc' # "script"
      /\ Starting /\ Starting' /\ pc \notin Names /\ PostSetup \in Names
  BY <1>1, <1>3, NamesAssumption, RegisteredAssumption DEF Starting
<1>9. Messages'
  <2>1. Drawing' <=> Drawing
    BY <1>1 DEF Drawing, displayVars
  <2> QED
    BY <1>1, <1>5, <1>8, <2>1 DEF Messages
<1>10. Late'
  BY <1>8 DEF Late
<1>11. Restarts'
  <2>1. \A n \in Names : restarts[n] = IF Passed(n) THEN 1 ELSE 0
    BY <1>1, <1>8 DEF Restarts
  <2>2. \A n \in Names : restarts'[n] = IF Passed(n)' /\ pc' # n THEN 1 ELSE 0
    <3>1. CASE s.name \in Names /\ pc' = s.name
      BY <1>1, <1>4, <1>p, <2>1, <3>1
    <3> QED
      BY <1>1, <1>3, <3>1
  <2>3. /\ index' \in DOMAIN services' /\ Restartable(services[index + 1])
        /\ services[index + 1].name = pc'
    BY <1>1, <1>2 DEF s
  <2>4. RestartedOnce' /\ \A n \in Names : restarts'[n] <= 1
    BY <1>1, <1>8 DEF Restarts, RestartedOnce
  <2> QED
    BY <1>1, <1>8, <2>2, <2>3, <2>4 DEF Restarts, Restartable
<1> QED
  BY <1>6, <1>7, <1>9, <1>10, <1>11 DEF IInv

\* The restart is the first of that service.
LEMMA StopAndStartKeeps ==
    ASSUME IInv, Calm, StopAndStart
    PROVE  IInv'
<1>1. /\ TypeOK /\ Rows /\ Messages /\ Late /\ Listed /\ Restarts
      /\ process = "alive" /\ UNCHANGED <<displayVars, process>>
      /\ pc \in Names /\ asleep = 0
      /\ restarts' = [restarts EXCEPT ![pc] = @ + 1] /\ pc' = "starting"
      /\ UNCHANGED <<wanted, script, services, queue, step, index, asleep>>
  BY DEF IInv, Calm, StopAndStart
<1>2. restarts \in [Names -> Nat]
  BY <1>1, Types
<1>3. \A n \in Names : restarts'[n] = IF n = pc THEN restarts[n] + 1 ELSE restarts[n]
  BY <1>1, <1>2
<1>4. TypeOK'
  <2>1. restarts' \in [Names -> Nat] /\ pc' \in Places
    BY <1>1, <1>2 DEF Places
  <2> QED
    BY <1>1, <2>1, Types, TypesKeptByStep
<1>5. /\ pc # "completed" /\ Starting /\ Starting' /\ pc' \notin Names /\ pc # "script"
      /\ pc # "saved"
  BY <1>1, NamesAssumption DEF Starting
<1>6. Rows' /\ Listed' /\ RowNames' = RowNames
  BY <1>1, <1>5, SameList
<1>7. Messages'
  BY <1>1, <1>5 DEF Messages, Drawing, displayVars
<1>8. Late'
  BY <1>1 DEF Late
<1>9. Restarts'
  <2>1. \A n : Passed(n)' <=> Passed(n)
    BY <1>1 DEF Passed, Restartable
  <2>2. Passed(pc)
    <3>1. /\ index \in DOMAIN services /\ Restartable(services[index])
          /\ services[index].name = pc
      BY <1>1 DEF Restarts
    <3>2. index \in 1..index
      <4>1. DOMAIN services = 1..Len(services)
        BY <1>1, ListShape
      <4> QED
        BY <3>1, <4>1, <1>1, Numbers
    <3> QED
      BY <3>1, <3>2 DEF Passed
  <2>3. \A n \in Names : restarts[n] = IF Passed(n) /\ pc # n THEN 1 ELSE 0
    BY <1>1, <1>5 DEF Restarts
  <2>4. \A n \in Names : restarts'[n] = IF Passed(n)' THEN 1 ELSE 0
    <3>1. restarts[pc] + 1 = 1
      BY <1>1, <2>3
    <3> QED
      BY <1>3, <2>1, <2>2, <2>3, <3>1
  <2>5. \A n \in Names : restarts'[n] <= 1
    BY <2>4
  <2>6. \A i \in DOMAIN Registered : Registered[i].name \in Names
    BY DEF Names
  <2>7. RestartedOnce'
    BY <1>1, <2>5, <2>6 DEF RestartedOnce
  <2> QED
    BY <1>1, <1>5, <2>4, <2>5, <2>7 DEF Restarts
<1> QED
  BY <1>4, <1>6, <1>7, <1>8, <1>9 DEF IInv

\* At the end of the list every service of the run has been passed.
LEMMA CompleteKeeps ==
    ASSUME IInv, Calm, Complete
    PROVE  IInv'
<1>1. /\ TypeOK /\ Rows /\ Messages /\ Late /\ Listed /\ Restarts
      /\ process = "alive" /\ UNCHANGED <<displayVars, process>>
      /\ pc = "starting" /\ index = Len(services) /\ pc' = "completed"
      /\ queue' = Append(queue, COMPLETED) /\ asleep' = Pauses
      /\ UNCHANGED <<wanted, script, services, step, index, restarts>>
  BY DEF IInv, Calm, Complete, Send, Pause
<1>2. /\ queue' \in Seq(Sent)
      /\ \A k \in DOMAIN queue' : \/ queue'[k] = COMPLETED
                                  \/ k \in DOMAIN queue /\ queue'[k] = queue[k]
  BY <1>1, OneMore, OfWorker, MaySend
<1>3. TypeOK'
  <2>1. asleep' \in 0..Pauses
    BY <1>1, PausesAssumption
  <2>2. pc' \in Places
    BY <1>1 DEF Places
  <2> QED
    BY <1>1, <1>2, <2>1, <2>2, Types, TypesKeptByStep
<1>4. Rows' /\ Listed' /\ RowNames' = RowNames
  BY <1>1, SameList
<1>5. ~Starting' /\ pc' \notin Names
  BY <1>1, NamesAssumption DEF Starting
<1>6. Messages'
  BY <1>1, <1>2, <1>5 DEF Messages
<1>7. Late'
  BY <1>1 DEF Late
<1>8. Restarts'
  <2>1. \A n \in Names : Passed(n) => restarts[n] = 1
    <3>1. \A n \in Names : pc # n
      BY <1>1, NamesAssumption
    <3> QED
      BY <1>1, <3>1 DEF Restarts, Starting
  <2>2. ASSUME NEW i \in DOMAIN Registered, Restartable(Registered[i]),
               Registered[i].name \in wanted
        PROVE  restarts[Registered[i].name] = 1
    <3>1. PICK k \in DOMAIN services : services[k] = Registered[i]
      BY <1>1, <2>2 DEF Listed
    <3>2. k \in 1..index
      BY <1>1, ListShape
    <3>3. Passed(Registered[i].name) /\ Registered[i].name \in Names
      BY <2>2, <3>1, <3>2 DEF Passed, Names
    <3> QED
      BY <2>1, <3>3
  <2>3. RestartedOnce'
    BY <1>1, <2>2 DEF Restarts, RestartedOnce, Restartable
  <2> QED
    BY <1>1, <1>5, <2>3 DEF Restarts
<1> QED
  BY <1>3, <1>4, <1>6, <1>7, <1>8 DEF IInv

\* A failure ends the installation where it is, and the list with it.
LEMMA WorkerFailsKeeps ==
    ASSUME IInv, WorkerFails
    PROVE  IInv'
<1>1. /\ TypeOK /\ Rows /\ Messages /\ Late /\ Listed /\ Restarts
      /\ process = "alive" /\ UNCHANGED <<displayVars, process>>
      /\ pc # "completed" /\ pc' \in {"raised", "exited"}
      /\ UNCHANGED <<wanted, script, services, queue, step, index, restarts, asleep>>
  BY PaceAssumption DEF IInv, WorkerFails, Fail, Raise, SysExit, Working
<1>2. TypeOK'
  <2>1. pc' \in Places
    BY <1>1 DEF Places
  <2> QED
    BY <1>1, <2>1, Types, TypesKeptByStep
<1>3. Rows' /\ Listed' /\ RowNames' = RowNames
  BY <1>1, SameList
<1>4. /\ ~Starting' /\ pc' \notin Names /\ pc' # "completed" /\ pc' # "script"
      /\ pc' # "saved"
  BY <1>1, NamesAssumption DEF Starting
<1>5. Messages'
  BY <1>1, <1>4 DEF Messages
<1>6. Late'
  BY <1>4 DEF Late
<1>7. Restarts'
  BY <1>1, <1>4 DEF Restarts, RestartedOnce
<1> QED
  BY <1>2, <1>3, <1>5, <1>6, <1>7 DEF IInv

\* Where neither the worker nor its list changes and the table is at most
\* stopped, all of it stays.
LEMMA AtRest ==
    ASSUME IInv,
           UNCHANGED <<wanted, script, services, queue, pc, step, index, restarts, data,
                       current_service, last_completed, number_of_services, tableDone>>,
           process' \in {"alive", "ended"}, asleep' \in 0..Pauses,
           display' = "drawing" => display = "drawing" /\ asleep' = asleep,
           display' \in {display, "timed out"}
    PROVE  IInv'
<1>1. TypeOK /\ Rows /\ Messages /\ Late /\ Listed /\ Restarts
  BY DEF IInv
<1>2. /\ RowNames' = RowNames /\ (Starting' <=> Starting) /\ (Drawing' => Drawing)
      /\ \A n : Passed(n)' <=> Passed(n)
  BY DEF RowNames, Starting, Drawing, Passed, Restartable
<1>3. TypeOK'
  <2>1. WorkerTypeOK'
    <3>1. WorkerTypeOK
      BY <1>1 DEF TypeOK
    <3> QED
      BY <3>1 DEF WorkerTypeOK
  <2>2. display' \in {"drawing", "finished", "timed out"}
    BY <1>1 DEF TypeOK
  <2> QED
    BY <1>1, <2>1, <2>2 DEF TypeOK
<1>4. Rows'
  BY <1>1, <1>2 DEF Rows
<1>5. Messages'
  BY <1>1, <1>2 DEF Messages, Drawing
<1>6. Late'
  BY <1>1, <1>2 DEF Late
<1>7. Listed'
  BY <1>1, <1>2 DEF Listed
<1>8. Restarts'
  BY <1>1, <1>2 DEF Restarts, RestartedOnce, Restartable
<1> QED
  BY <1>3, <1>4, <1>5, <1>6, <1>7, <1>8 DEF IInv

\* The table starts with a row for post-setup and for what the run installs.
LEMMA Begins ==
    ASSUME Init
    PROVE  IInv
<1> DEFINE N == Len(services)
<1>1. /\ \E r \in Runs : wanted = r.wanted /\ script = r.script
      /\ services = BeforeStart(wanted) /\ queue = <<>>
      /\ pc = "script" /\ step = 1 /\ index = 0 /\ asleep = 0
      /\ restarts = [n \in Names |-> 0]
      /\ display = "drawing" /\ data = "" /\ current_service = 0 /\ last_completed = 0
      /\ number_of_services = N /\ tableDone = FALSE /\ process = "alive"
  BY DEF Init, WorkerInit
<1>c. /\ step = 1 /\ index = 0 /\ asleep = 0 /\ current_service = 0 /\ last_completed = 0
      /\ number_of_services = N
  BY <1>1
<1>2. /\ services \in Seq([name : Names, kind : Kinds])
      /\ \A i \in DOMAIN Registered : Registered[i].name \in wanted \cup {PostSetup} =>
             \E m \in DOMAIN services : services[m] = Registered[i]
      /\ \A m1, m2 \in DOMAIN services : services[m1].name = services[m2].name => m1 = m2
  <2>1. services = BeforeStart(wanted)
    BY <1>1
  <2> QED
    BY <2>1, ListBefore
<1>3. /\ N \in Nat /\ DOMAIN services = 1..N
      /\ \A k \in 1..N : services[k].name \in Names
  <2>1. N \in Nat /\ DOMAIN services = 1..N
    BY <1>2, LenProperties
  <2>2. \A k \in 1..N : services[k] \in [name : Names, kind : Kinds]
    BY <1>2, ElementOfSeq
  <2> QED
    BY <2>1, <2>2
<1>4. PostSetup \in RowNames
  <2>1. PICK i \in DOMAIN Registered : Registered[i].name = PostSetup
    BY RegisteredAssumption DEF Names
  <2> QED
    BY <1>2, <2>1 DEF RowNames
<1> HIDE DEF N
<1>5. N >= 1
  BY <1>3, <1>4 DEF RowNames
<1>6. services \in Seq(Entries)
  <2>1. [name : Names, kind : Kinds] \subseteq Entries
    BY DEF Entries
  <2> QED
    BY <1>2, <2>1, SeqMonotonic
<1>7. TypeOK
  <2>1. WorkerTypeOK
    <3>1. step \in 1..(Len(script) + 1)
      <4>1. PICK r \in Runs : script = r.script
        BY <1>1
      <4>2. Len(script) \in Nat
        BY <4>1, RunsAssumption, LenProperties
      <4> QED
        BY <1>c, <4>2
    <3>2. index \in 0..Len(services) /\ asleep \in 0..Pauses
      <4>1. N \in Nat /\ Len(services) = N
        BY <1>3 DEF N
      <4> QED
        BY <1>c, <4>1, PausesAssumption
    <3>3. queue \in Seq(Names \cup ScriptNames \cup {COMPLETED, ERROR})
      BY <1>1, EmptySeq
    <3>4. restarts \in [Names -> Nat]
      BY <1>1
    <3>5. pc \in Names \cup {"script", "saved", "starting", "completed", "raised",
              "exited"}
      BY <1>1
    <3> QED
      BY <1>1, <1>6, <3>1, <3>2, <3>3, <3>4, <3>5 DEF WorkerTypeOK, Entries
  <2>2. /\ current_service \in 0..(N - 1) \cup {99} /\ last_completed \in 0..(N - 1)
        /\ number_of_services \in 1..N
    <3>1. N \in Nat
      BY <1>3
    <3> QED
      BY <1>c, <1>5, <3>1
  <2>3. data \in Names \cup ScriptNames \cup {COMPLETED, ""}
    BY <1>1
  <2> QED
    BY <1>1, <2>1, <2>2, <2>3 DEF TypeOK, N
<1>8. Rows
  <2>1. last_completed < number_of_services /\ current_service < number_of_services
    <3>1. N \in Nat
      BY <1>3
    <3> QED
      BY <1>c, <1>5, <3>1
  <2> QED
    BY <1>1, <1>3, <2>1 DEF Rows
<1>9. Messages
  <2>0. queue = <<>> /\ pc = "script"
    BY <1>1
  <2>1. DOMAIN queue = {}
    BY <2>0
  <2>2. ~Starting
    BY <2>0, NamesAssumption DEF Starting
  <2> QED
    BY <1>1, <2>1, <2>2 DEF Messages
<1>10. Late
  <2>1. 1..(step - 1) = {}
    BY <1>c
  <2> QED
    BY <2>1 DEF Late
<1>11. Listed
  BY <1>2, <1>3, <1>4 DEF Listed
<1>12. Restarts
  <2>1. \A n \in Names : restarts[n] = 0
    BY <1>1
  <2>2. ~Starting /\ pc \notin Names /\ pc # "completed"
    BY <1>1, NamesAssumption DEF Starting
  <2>3. \A i \in DOMAIN Registered : Registered[i].name \in Names
    BY DEF Names
  <2>4. RestartedOnce
    <3>1. ASSUME NEW i \in DOMAIN Registered
          PROVE  restarts[Registered[i].name] <= 1
      BY <2>1, <2>3
    <3> QED
      BY <2>2, <3>1, Zenon DEF RestartedOnce
  <2> QED
    BY <2>1, <2>2, <2>4 DEF Restarts
<1> QED
  BY <1>7, <1>8, <1>9, <1>10, <1>11, <1>12 DEF IInv

\* Every step keeps the invariant.
LEMMA StepKeeps ==
    ASSUME IInv, [Next]_vars
    PROVE  IInv'
<1>1. CASE Worker
  <2>1. Calm /\ Proceed
    BY <1>1 DEF Worker, Calm
  <2> QED
    BY <2>1, ShowStepKeeps, RegisterLateKeeps, SavePropertiesKeeps, PostInstallTasksKeeps,
       PassOverKeeps, AnnounceStartKeeps, StopAndStartKeeps, CompleteKeeps DEF Proceed
<1>2. CASE WorkerFails
  BY <1>2, WorkerFailsKeeps
<1>3. CASE Leave
  <2>1. asleep \in 0..Pauses
    BY Types DEF IInv
  <2> QED
    BY <1>3, <2>1, AtRest DEF Leave, workerVars, displayVars
<1>4. CASE Tick
  BY <1>4, TickKeeps
<1>5. CASE TimePasses
  <2>1. asleep \in 0..Pauses /\ process \in {"alive", "ended"}
    BY Types DEF IInv
  <2>2. asleep - 1 \in 0..Pauses
    BY <1>5, <2>1, PausesAssumption DEF TimePasses
  <2> QED
    BY <1>5, <2>1, <2>2, AtRest DEF TimePasses, displayVars
<1>6. CASE TimeOut
  <2>1. asleep \in 0..Pauses /\ process \in {"alive", "ended"}
    BY Types DEF IInv
  <2> QED
    BY <1>6, <2>1, AtRest DEF TimeOut, workerVars
<1>7. CASE UNCHANGED vars
  <2>1. asleep \in 0..Pauses /\ process \in {"alive", "ended"}
    BY Types DEF IInv
  <2> QED
    BY <1>7, <2>1, AtRest DEF vars, workerVars, displayVars
<1> QED
  BY <1>1, <1>2, <1>3, <1>4, <1>5, <1>6, <1>7 DEF Next

-----------------------------------------------------------------------------
(* Theorems.                                                               *)

\* The table has a row for all it has read, its messages come in the order the
\* worker sent them, the list loses nothing, and what was restarted is what
\* the iterator has passed.
THEOREM Invariance == Spec => []IInv
<1>1. Init => IInv
  BY Begins
<1>2. IInv /\ [Next]_vars => IInv'
  BY StepKeeps
<1> QED
  BY <1>1, <1>2, PTL DEF Spec

\* Every variable keeps its type, and the spinner and the counters of the
\* table stay within the list although two threads change it.
THEOREM TypeCorrect == Spec => []TypeOK
<1>1. IInv => TypeOK
  BY DEF IInv
<1> QED
  BY <1>1, Invariance, PTL

\* No service is restarted twice, and a complete installation has restarted
\* each service it wanted.
THEOREM NoneTwiceNoneMissed == Spec => []RestartedOnce
<1>1. IInv => RestartedOnce
  BY DEF IInv, Restarts
<1> QED
  BY <1>1, Invariance, PTL

-----------------------------------------------------------------------------
(* The console implements what the user is promised.                       *)

\* What the table has said.
Said == IF display = "finished" THEN "Completed" ELSE "none"

\* The installation is running as long as the worker has not come to an end.
LEMMA Outcomes ==
    /\ pc = "completed" => Outcome = "completed"
    /\ pc \in {"raised", "exited"} => Outcome = "failed"
    /\ pc \notin {"completed", "raised", "exited"} => Outcome = "running"
BY DEF Outcome

\* A step of the worker ends the installation or leaves it running; the table
\* says nothing by it.
LEMMA WorkerReports ==
    ASSUME IInv, Worker
    PROVE  Outcome = "running" /\ Outcome' \in {"running", "completed"} /\ Said' = Said
<1>1. Said' = Said
  BY DEF Worker, displayVars, Said
<1>2. /\ pc \notin {"completed", "raised", "exited"}
      /\ pc' \notin {"raised", "exited"}
  <2>1. CASE ShowStep \/ RegisterLate \/ SaveProperties \/ PostInstallTasks \/ PassOver
             \/ Complete
    BY <2>1 DEF ShowStep, RegisterLate, SaveProperties, PostInstallTasks, PassOver,
       Complete
  <2>2. CASE AnnounceStart
    <3>1. /\ TypeOK /\ Listed /\ pc = "starting" /\ index < Len(services)
          /\ Restartable(services[index + 1]) /\ pc' = services[index + 1].name
      BY <2>2 DEF IInv, AnnounceStart
    <3>2. index + 1 \in DOMAIN services
      <4>1. index \in Nat /\ Len(services) \in Nat /\ DOMAIN services = 1..Len(services)
        BY <3>1, Numbers, ListShape
      <4> QED
        BY <3>1, <4>1
    <3>3. pc' \in Names
      BY <3>1, <3>2 DEF Listed, Restartable
    <3> QED
      BY <3>1, <3>3, NamesAssumption
  <2>3. CASE StopAndStart
    BY <2>3, NamesAssumption DEF StopAndStart
  <2> QED
    BY <2>1, <2>2, <2>3 DEF Worker, Proceed
<1>3. Outcome = "running"
  BY <1>2, Outcomes
<1>4. Outcome' \in {"running", "completed"}
  BY <1>2 DEF Outcome
<1> QED
  BY <1>1, <1>3, <1>4

\* The installation is reported complete only after it is, and its end is the
\* last thing that happens to it.
THEOREM TruthfulReport == Spec => ImplementsReport
<1>1. Init => Report!Init
  <2> SUFFICES ASSUME Init  PROVE Report!Init
    OBVIOUS
  <2>1. pc = "script" /\ display = "drawing"
    BY DEF Init, WorkerInit
  <2>2. Outcome = "running"
    BY <2>1 DEF Outcome
  <2> QED
    BY <2>1, <2>2 DEF Report!Init
<1>2. ASSUME IInv, IInv', [Next]_vars
      PROVE  [Report!Next]_<<Outcome, Said>>
  <2>1. CASE Worker
    <3>1. Outcome = "running" /\ Outcome' \in {"running", "completed"} /\ Said' = Said
      BY <1>2, <2>1, WorkerReports
    <3> QED
      BY <3>1 DEF Report!Next, Report!Finish, Said
  <2>2. CASE WorkerFails
    <3>1. /\ pc \notin {"completed", "raised", "exited"} /\ pc' \in {"raised", "exited"}
          /\ Said' = Said
      BY <2>2 DEF WorkerFails, Fail, Raise, SysExit, Working, displayVars, Said
    <3>2. Outcome = "running"
      BY <3>1, Outcomes
    <3>3. Outcome' = "failed"
      BY <3>1 DEF Outcome
    <3> QED
      BY <3>1, <3>2, <3>3 DEF Report!Next, Report!Finish, Said
  <2>3. CASE Tick
    <3>1. /\ pc' = pc /\ display = "drawing" /\ display' \in {"drawing", "finished"}
          /\ display' = "finished" => pc' = "completed"
      BY <1>2, <2>3 DEF Tick, IInv, Rows
    <3>2. Outcome' = Outcome
      BY <3>1 DEF Outcome
    <3>3. CASE display' = "drawing"
      BY <3>1, <3>2, <3>3 DEF Said
    <3>4. CASE display' = "finished"
      <4>1. Outcome = "completed"
        BY <3>1, <3>4, Outcomes
      <4> QED
        BY <3>1, <3>2, <3>4, <4>1 DEF Report!Next, Report!ReportCompleted, Said
    <3> QED
      BY <3>1, <3>3, <3>4
  <2>4. CASE Leave \/ TimePasses \/ TimeOut \/ UNCHANGED vars
    <3>1. /\ pc' = pc
          /\ \/ display' = display
             \/ display = "drawing" /\ display' = "timed out"
      BY <2>4 DEF Leave, TimePasses, TimeOut, vars, workerVars, displayVars
    <3>2. Outcome' = Outcome
      BY <3>1 DEF Outcome
    <3>3. Said' = Said
      BY <3>1 DEF Said
    <3> QED
      BY <3>2, <3>3
  <2> QED
    BY <1>2, <2>1, <2>2, <2>3, <2>4 DEF Next
<1>3. (Report!Init /\ [][Report!Next]_<<Outcome, Said>>) => ImplementsReport
  BY DEF ImplementsReport, Report!Spec, Said
<1> QED
  BY <1>1, <1>2, <1>3, Invariance, PTL DEF Spec

-----------------------------------------------------------------------------
(* The last form of the wizard.  It has the worker and the variables of the *)
(* worker; the queue is emptied by the main thread.                        *)

CONSTANT Visits
VARIABLES form, shown

Form == INSTANCE InstallStepsForm WITH GSA <- TRUE

\* The words and the steps of the worker are the same on both screens.
LEMMA SameWords ==
    /\ Form!Names = Names /\ Form!ScriptNames = ScriptNames /\ Form!Kinds = Kinds
    /\ Form!COMPLETED = COMPLETED /\ Form!ERROR = ERROR /\ Form!PostSetup = PostSetup
    /\ Form!Outcome = Outcome
BY DEF Form!Names, Names, Form!ScriptNames, ScriptNames, Form!Kinds, Kinds,
       Form!COMPLETED, COMPLETED, Form!ERROR, ERROR, Form!PostSetup, PostSetup,
       Form!Outcome, Outcome

\* The worker begins in the same way.
LEMMA SameStart == Form!WorkerInit <=> WorkerInit
<1>1. Form!BeforeStart(wanted) = BeforeStart(wanted)
  BY SameWords DEF Form!BeforeStart, BeforeStart
<1> QED
  BY <1>1, SameWords DEF Form!WorkerInit, WorkerInit

\* The types of the worker are the same.
LEMMA SameTypes == Form!WorkerTypeOK <=> WorkerTypeOK
BY SameWords DEF Form!WorkerTypeOK, WorkerTypeOK

\* The steps of the worker are the same.
LEMMA SameSteps == Form!Proceed <=> Proceed
<1>1. /\ Form!ShowStep <=> ShowStep
      /\ Form!RegisterLate <=> RegisterLate
      /\ Form!SaveProperties <=> SaveProperties
      /\ Form!PostInstallTasks <=> PostInstallTasks
      /\ Form!StopAndStart <=> StopAndStart
      /\ Form!Complete <=> Complete
  BY SameWords DEF Form!ShowStep, ShowStep, Form!RegisterLate, RegisterLate, Form!Entry,
     Entry, Form!SaveProperties, SaveProperties, Form!PostInstallTasks, PostInstallTasks,
     Form!StopAndStart, StopAndStart, Form!Complete, Complete, Form!Send, Send,
     Form!Pause, Pause
<1>2. /\ Form!PassOver <=> PassOver
      /\ Form!AnnounceStart <=> AnnounceStart
  <2>1. \A s : Form!Restartable(s) <=> Restartable(s)
    BY DEF Form!Restartable, Restartable, Form!Excluded, Excluded
  <2> QED
    BY <2>1, SameWords DEF Form!PassOver, PassOver, Form!AnnounceStart, AnnounceStart,
       Form!Send, Send, Form!Pause, Pause
<1> QED
  BY <1>1, <1>2 DEF Form!Proceed, Proceed

\* Every service on the list is one that registered itself.
ServicesNamed == \A k \in DOMAIN services : services[k].kind = "SERVICE" =>
                                                services[k].name \in Names

\* The end of the installation is announced only when it has come.
Announced == \A k \in DOMAIN queue : /\ queue[k] = COMPLETED => pc = "completed"
                                     /\ queue[k] = ERROR => pc = "raised"

\* What the form relies on.
FormInv == Form!TypeOK /\ ServicesNamed /\ Announced

\* What the types say of the worker.
LEMMA WorkerShape ==
    ASSUME WorkerTypeOK
    PROVE  /\ services \in Seq(Entries) /\ Len(services) \in Nat
           /\ DOMAIN services = 1..Len(services)
           /\ \A k \in DOMAIN services : services[k] \in Entries
           /\ queue \in Seq(Sent) /\ Len(queue) \in Nat /\ DOMAIN queue = 1..Len(queue)
           /\ pc \in Places /\ restarts \in [Names -> Nat]
           /\ step \in 1..(Len(script) + 1) /\ step \in Nat
           /\ index \in 0..Len(services) /\ index \in Nat
           /\ asleep \in 0..Pauses
<1>1. /\ services \in Seq(Entries) /\ queue \in Seq(Sent)
      /\ pc \in Places /\ restarts \in [Names -> Nat]
      /\ step \in 1..(Len(script) + 1) /\ index \in 0..Len(services)
      /\ asleep \in 0..Pauses
  BY DEF WorkerTypeOK, Entries, Sent, Places
<1>2. /\ Len(services) \in Nat /\ DOMAIN services = 1..Len(services)
      /\ Len(queue) \in Nat /\ DOMAIN queue = 1..Len(queue)
  BY <1>1, LenProperties
<1>3. \A k \in 1..Len(services) : services[k] \in Entries
  BY <1>1, ElementOfSeq
<1>4. Len(script) \in Nat
  BY ScriptShape
<1>5. step \in Nat
  BY <1>1, <1>4
<1>6. index \in Nat
  BY <1>1, <1>2
<1> QED
  BY <1>1, <1>2, <1>3, <1>5, <1>6

\* What a step that leaves the list alone has to keep.
LEMMA WorkerTypesKept ==
    ASSUME WorkerTypeOK, ServicesNamed, UNCHANGED <<wanted, script, services>>,
           queue' \in Seq(Sent), pc' \in Places, step' \in 1..(Len(script) + 1),
           index' \in 0..Len(services), asleep' \in 0..Pauses,
           restarts' \in [Names -> Nat]
    PROVE  WorkerTypeOK' /\ ServicesNamed'
<1>1. services \in Seq(Entries)
  BY WorkerShape
<1> QED
  BY <1>1 DEF WorkerTypeOK, ServicesNamed, Entries, Sent, Places

\* A step of the worker keeps its types, and announces the end only with it.
LEMMA ProceedKeeps ==
    ASSUME WorkerTypeOK, ServicesNamed, Announced, Proceed
    PROVE  /\ WorkerTypeOK' /\ ServicesNamed' /\ Announced'
           /\ pc \notin {"completed", "raised", "exited"}
           /\ pc' \notin {"raised", "exited"}
<1>1. /\ services \in Seq(Entries) /\ Len(services) \in Nat
      /\ DOMAIN services = 1..Len(services)
      /\ queue \in Seq(Sent) /\ pc \in Places /\ restarts \in [Names -> Nat]
      /\ step \in 1..(Len(script) + 1) /\ index \in 0..Len(services)
      /\ asleep \in 0..Pauses
  BY WorkerShape
<1>2. Pauses \in 0..Pauses /\ PostSetup \in Names /\ Names \subseteq Sent
  BY PausesAssumption, RegisteredAssumption DEF Sent
<1>3. /\ \A n \in Names : /\ n # "completed" /\ n # "raised" /\ n # "exited"
      /\ \A n \in Names \cup ScriptNames : n # COMPLETED /\ n # ERROR
      /\ COMPLETED # ERROR
  BY NamesAssumption DEF COMPLETED, ERROR
<1>4. ASSUME step \in DOMAIN script
      PROVE  /\ step + 1 \in 1..(Len(script) + 1)
             /\ script[step].name \in ScriptNames /\ script[step].name \in Sent
  <2>1. /\ script \in Seq([op : {"progress", "register"}, name : ScriptNames])
        /\ Len(script) \in Nat /\ DOMAIN script = 1..Len(script)
    BY ScriptShape
  <2>2. script[step] \in [op : {"progress", "register"}, name : ScriptNames]
    BY <1>4, <2>1, ElementOfSeq
  <2>3. step + 1 \in 1..(Len(script) + 1)
    BY <1>4, <2>1
  <2> QED
    BY <2>2, <2>3 DEF Sent
<1>5. CASE ShowStep
  <2>1. queue' \in Seq(Sent) /\ \A k \in DOMAIN queue' :
            queue'[k] = script[step].name \/ (k \in DOMAIN queue /\ queue'[k] = queue[k])
    BY <1>4, <1>5, OneMore DEF ShowStep, Send
  <2>2. WorkerTypeOK' /\ ServicesNamed'
    BY <1>1, <1>4, <1>5, <2>1, WorkerTypesKept DEF ShowStep
  <2>3. Announced'
    BY <1>3, <1>4, <1>5, <2>1 DEF ShowStep, Announced
  <2> QED
    BY <1>5, <2>2, <2>3 DEF ShowStep
<1>6. CASE RegisterLate
  <2> DEFINE e == Entry(script[step].name, "APPLICATION")
  <2>1. e \in Entries /\ e.kind = "APPLICATION"
    BY <1>4, <1>6 DEF RegisterLate, Entry, Entries, Kinds
  <2>2. services' = Append(services, e)
    BY <1>6 DEF RegisterLate
  <2> HIDE DEF e
  <2>3. /\ services' \in Seq(Entries) /\ Len(services') = Len(services) + 1
        /\ DOMAIN services' = 1..(Len(services) + 1)
        /\ \A k \in 1..Len(services) : services'[k] = services[k]
        /\ services'[Len(services) + 1] = e
    BY <1>1, <2>1, <2>2, AppendProperties, LenProperties
  <2>4. \A k \in 1..(Len(services) + 1) : k = Len(services) + 1 \/ k \in 1..Len(services)
    BY <1>1
  <2>5. ServicesNamed'
    BY <1>1, <2>1, <2>3, <2>4 DEF ServicesNamed
  <2>6. index' \in 0..Len(services')
    <3>1. index' = index
      BY <1>6 DEF RegisterLate
    <3> QED
      BY <1>1, <2>3, <3>1
  <2>7. WorkerTypeOK'
    <3>1. step' \in 1..(Len(script') + 1)
      BY <1>4, <1>6 DEF RegisterLate
    <3>2. /\ \E r \in Runs : wanted' = r.wanted /\ script' = r.script
          /\ queue' \in Seq(Sent) /\ pc' \in Places
          /\ asleep' \in 0..Pauses /\ restarts' \in [Names -> Nat]
      BY <1>1, <1>6 DEF RegisterLate, WorkerTypeOK
    <3> QED
      BY <2>3, <2>6, <3>1, <3>2 DEF WorkerTypeOK, Entries, Sent, Places
  <2>8. Announced'
    BY <1>6 DEF RegisterLate, Announced
  <2> QED
    BY <1>6, <2>5, <2>7, <2>8 DEF RegisterLate
<1>7. CASE SaveProperties
  <2>1. queue' \in Seq(Sent) /\ \A k \in DOMAIN queue' :
            queue'[k] = PostSetup \/ (k \in DOMAIN queue /\ queue'[k] = queue[k])
    BY <1>2, <1>7, OneMore DEF SaveProperties, Send
  <2>2. pc' \in Places
    BY <1>7 DEF SaveProperties, Places
  <2>3. WorkerTypeOK' /\ ServicesNamed'
    BY <1>1, <1>2, <1>7, <2>1, <2>2, WorkerTypesKept DEF SaveProperties, Pause
  <2>4. Announced'
    BY <1>2, <1>3, <1>7, <2>1 DEF SaveProperties, Announced
  <2> QED
    BY <1>7, <2>3, <2>4 DEF SaveProperties
<1>8. CASE PostInstallTasks
  <2>1. pc' \in Places /\ index' \in 0..Len(services)
    BY <1>1, <1>8 DEF PostInstallTasks, Places
  <2>2. WorkerTypeOK' /\ ServicesNamed'
    BY <1>1, <1>8, <2>1, WorkerTypesKept DEF PostInstallTasks
  <2>3. Announced'
    BY <1>8 DEF PostInstallTasks, Announced
  <2> QED
    BY <1>8, <2>2, <2>3 DEF PostInstallTasks
<1>9. ASSUME index < Len(services)
      PROVE  index + 1 \in DOMAIN services /\ index + 1 \in 0..Len(services)
  BY <1>1, <1>9
<1>10. CASE PassOver
  <2>1. WorkerTypeOK' /\ ServicesNamed'
    BY <1>1, <1>9, <1>10, WorkerTypesKept DEF PassOver
  <2>2. Announced'
    BY <1>10 DEF PassOver, Announced
  <2> QED
    BY <1>10, <2>1, <2>2 DEF PassOver
<1>11. CASE AnnounceStart
  <2>1. queue' \in Seq(Sent) /\ \A k \in DOMAIN queue' :
            queue'[k] = PostSetup \/ (k \in DOMAIN queue /\ queue'[k] = queue[k])
    BY <1>2, <1>11, OneMore DEF AnnounceStart, Send
  <2>2. pc' \in Names
    BY <1>9, <1>11 DEF AnnounceStart, Restartable, ServicesNamed
  <2>3. WorkerTypeOK' /\ ServicesNamed'
    <3>1. pc' \in Places
      BY <2>2 DEF Places
    <3> QED
      BY <1>1, <1>2, <1>9, <1>11, <2>1, <3>1, WorkerTypesKept DEF AnnounceStart, Pause
  <2>4. pc \notin {"completed", "raised", "exited"}
    BY <1>11 DEF AnnounceStart
  <2>5. Announced'
    BY <1>2, <1>3, <2>1, <2>4 DEF Announced
  <2> QED
    BY <1>3, <2>2, <2>3, <2>4, <2>5
<1>12. CASE StopAndStart
  <2>1. pc' \in Places /\ restarts' \in [Names -> Nat]
    BY <1>1, <1>12 DEF StopAndStart, Places
  <2>2. WorkerTypeOK' /\ ServicesNamed'
    BY <1>1, <1>12, <2>1, WorkerTypesKept DEF StopAndStart
  <2>3. Announced'
    BY <1>3, <1>12 DEF StopAndStart, Announced
  <2> QED
    BY <1>3, <1>12, <2>2, <2>3 DEF StopAndStart
<1>13. CASE Complete
  <2>1. queue' \in Seq(Sent) /\ \A k \in DOMAIN queue' :
            queue'[k] = COMPLETED \/ (k \in DOMAIN queue /\ queue'[k] = queue[k])
    BY <1>13, OneMore, MaySend DEF Complete, Send
  <2>2. pc' \in Places
    BY <1>13 DEF Complete, Places
  <2>3. WorkerTypeOK' /\ ServicesNamed'
    BY <1>1, <1>2, <1>13, <2>1, <2>2, WorkerTypesKept DEF Complete, Pause
  <2>4. Announced'
    BY <1>3, <1>13, <2>1 DEF Complete, Announced
  <2> QED
    BY <1>13, <2>3, <2>4 DEF Complete
<1> QED
  BY <1>5, <1>6, <1>7, <1>8, <1>10, <1>11, <1>12, <1>13 DEF Proceed

\* A failure is announced by the handler, or by nobody.
LEMMA FailKeeps ==
    ASSUME WorkerTypeOK, ServicesNamed, Announced, Form!Fail
    PROVE  /\ WorkerTypeOK' /\ ServicesNamed' /\ Announced'
           /\ pc \notin {"completed", "raised", "exited"} /\ pc' \in {"raised", "exited"}
<1>1. /\ pc \notin {"completed", "raised", "exited"}
      /\ \/ pc' = "raised" /\ queue' = Append(queue, ERROR)
         \/ pc' = "exited" /\ queue' = queue
      /\ UNCHANGED <<wanted, script, services, step, index, asleep, restarts>>
  BY SameWords DEF Form!Fail, Form!Raise, Form!SysExit, Form!Working, Form!Send
<1>2. /\ queue' \in Seq(Sent)
      /\ \A k \in DOMAIN queue' : \/ queue'[k] = ERROR /\ pc' = "raised"
                                  \/ k \in DOMAIN queue /\ queue'[k] = queue[k]
  <2>1. CASE pc' = "raised" /\ queue' = Append(queue, ERROR)
    <3>1. ERROR \in Sent
      BY DEF Sent
    <3> QED
      BY <2>1, <3>1, OneMore
  <2>2. CASE queue' = queue
    BY <2>2, WorkerShape
  <2> QED
    BY <1>1, <2>1, <2>2
<1>3. WorkerTypeOK' /\ ServicesNamed'
  <2>1. pc' \in Places
    BY <1>1 DEF Places
  <2> QED
    BY <1>1, <1>2, <2>1, WorkerShape, WorkerTypesKept
<1>4. Announced'
  <2>1. COMPLETED # ERROR
    BY DEF COMPLETED, ERROR
  <2> QED
    BY <1>1, <1>2, <2>1 DEF Announced
<1> QED
  BY <1>1, <1>3, <1>4

\* The form begins with what the presses of Next have left in the queue.
LEMMA FormBegins ==
    ASSUME Form!FormAssumption, Form!Init
    PROVE  FormInv
<1>1. /\ WorkerInit /\ form = "polling" /\ shown = "none" /\ process = "alive"
  BY SameStart DEF Form!Init
<1>2. /\ \E r \in Runs : wanted = r.wanted /\ script = r.script
      /\ services = BeforeStart(wanted)
      /\ pc = "script" /\ step = 1 /\ index = 0 /\ asleep = 0
      /\ restarts = [n \in Names |-> 0]
  BY <1>1 DEF WorkerInit
<1>3. services \in Seq([name : Names, kind : Kinds])
  BY <1>2, ListBefore
<1>4. PICK n \in 0..Visits : queue = [i \in 1..n |-> "gluu"]
  BY DEF Form!Init
<1>5. Visits \in Nat /\ "gluu" \in ScriptNames
  BY SameWords DEF Form!FormAssumption
<1>6. /\ queue \in Seq(Names \cup ScriptNames \cup {COMPLETED, ERROR})
      /\ \A k \in DOMAIN queue : queue[k] \in ScriptNames
  <2> DEFINE S == Names \cup ScriptNames \cup {COMPLETED, ERROR}
  <2>1. "gluu" \in S
    BY <1>5
  <2> HIDE DEF S
  <2>2. queue \in [1..n -> S] /\ n \in Nat
    BY <1>4, <1>5, <2>1
  <2>3. queue \in Seq(S)
    BY <2>2, SeqDef
  <2>4. \A k \in DOMAIN queue : queue[k] \in ScriptNames
    BY <1>4, <1>5
  <2> QED
    BY <2>3, <2>4 DEF S
<1>7. /\ Len(services) \in Nat /\ DOMAIN services = 1..Len(services)
      /\ \A k \in DOMAIN services : services[k].name \in Names
  <2>1. Len(services) \in Nat /\ DOMAIN services = 1..Len(services)
    BY <1>3, LenProperties
  <2>2. \A k \in 1..Len(services) : services[k] \in [name : Names, kind : Kinds]
    BY <1>3, ElementOfSeq
  <2> QED
    BY <2>1, <2>2
<1>8. WorkerTypeOK
  <2>1. services \in Seq([name : Names \cup ScriptNames, kind : Kinds])
    <3>1. [name : Names, kind : Kinds] \subseteq [name : Names \cup ScriptNames,
                                                    kind : Kinds]
      OBVIOUS
    <3> QED
      BY <1>3, <3>1, SeqMonotonic
  <2>2. step \in 1..(Len(script) + 1)
    <3>1. PICK r \in Runs : script = r.script
      BY <1>2
    <3>2. Len(script) \in Nat
      BY <3>1, RunsAssumption, LenProperties
    <3> QED
      BY <1>2, <3>2
  <2>3. index \in 0..Len(services) /\ asleep \in 0..Pauses
    BY <1>2, <1>7, PausesAssumption
  <2>4. /\ pc \in Names \cup {"script", "saved", "starting", "completed", "raised",
               "exited"}
        /\ restarts \in [Names -> Nat]
    BY <1>2
  <2> QED
    BY <1>2, <1>6, <2>1, <2>2, <2>3, <2>4 DEF WorkerTypeOK
<1>9. Announced
  BY <1>6, NamesAssumption DEF Announced
<1>10. Form!TypeOK
  BY <1>1, <1>8, SameTypes DEF Form!TypeOK
<1> QED
  BY <1>7, <1>9, <1>10 DEF FormInv, ServicesNamed

\* The dialog of a message.
LEMMA Dialogs ==
    ASSUME NEW m
    PROVE  /\ Form!DialogOf(m) \in {"none", "Completed", "ERROR"}
           /\ Form!DialogOf(m) = "Completed" => m = COMPLETED
           /\ Form!DialogOf(m) = "ERROR" => m = ERROR
BY SameWords DEF Form!DialogOf

\* One turn of the form reads the head of the queue.
LEMMA PollKeeps ==
    ASSUME FormInv, Form!Poll
    PROVE  /\ FormInv' /\ shown = "none" /\ pc' = pc
           /\ shown' = "Completed" => pc = "completed"
           /\ shown' = "ERROR" => pc = "raised"
<1>1. /\ WorkerTypeOK /\ ServicesNamed /\ Announced
      /\ form = "polling" /\ queue # <<>> /\ queue' = Tail(queue)
      /\ shown' = Form!DialogOf(Head(queue))
      /\ form' = IF shown' = "none" THEN "polling" ELSE "closed"
      /\ UNCHANGED <<wanted, script, services, pc, step, index, asleep, restarts,
             process>>
      /\ process \in {"alive", "ended"}
      /\ shown \in {"none", "Completed", "ERROR"}
      /\ shown # "none" => form = "closed"
  BY SameTypes DEF FormInv, Form!TypeOK, Form!Poll
<1>2. /\ queue \in Seq(Sent) /\ Len(queue) \in Nat /\ DOMAIN queue = 1..Len(queue)
  BY <1>1, WorkerShape
<1>3. /\ Head(queue) = queue[1] /\ 1 \in DOMAIN queue
      /\ queue' \in Seq(Sent) /\ Len(queue') = Len(queue) - 1
      /\ \A k \in 1..(Len(queue) - 1) : queue'[k] = queue[k + 1]
  <2>1. Len(queue) # 0
    BY <1>1, <1>2, EmptySeq
  <2>2. 1 \in DOMAIN queue
    BY <1>2, <2>1
  <2> QED
    BY <1>1, <1>2, <2>2, HeadTailProperties
<1>4. \A k \in DOMAIN queue' : \E l \in DOMAIN queue : queue'[k] = queue[l]
  <2>1. DOMAIN queue' = 1..(Len(queue) - 1)
    BY <1>3, LenProperties
  <2>2. \A k \in 1..(Len(queue) - 1) : k + 1 \in DOMAIN queue
    BY <1>2
  <2> QED
    BY <1>3, <2>1, <2>2
<1>5. WorkerTypeOK' /\ ServicesNamed'
  BY <1>1, <1>3, WorkerShape, WorkerTypesKept
<1>6. Announced'
  BY <1>1, <1>4 DEF Announced
<1>7. /\ shown' \in {"none", "Completed", "ERROR"}
      /\ shown' = "Completed" => pc = "completed"
      /\ shown' = "ERROR" => pc = "raised"
  BY <1>1, <1>3, Dialogs DEF Announced
<1>8. Form!TypeOK'
  <2>1. Form!WorkerTypeOK'
    BY <1>5 DEF Form!WorkerTypeOK, WorkerTypeOK, Form!Names, Names, Form!ScriptNames,
       ScriptNames, Form!Kinds, Kinds, Form!COMPLETED, COMPLETED, Form!ERROR, ERROR
  <2> QED
    BY <1>1, <1>7, <2>1 DEF Form!TypeOK
<1> QED
  BY <1>1, <1>5, <1>6, <1>7, <1>8 DEF FormInv

\* Every step of the wizard keeps what the form relies on.
LEMMA FormStepKeeps ==
    ASSUME FormInv, [Form!Next]_(Form!vars)
    PROVE  FormInv'
<1>1. /\ Form!WorkerTypeOK /\ WorkerTypeOK /\ ServicesNamed /\ Announced
      /\ form \in {"polling", "closed"} /\ shown \in {"none", "Completed", "ERROR"}
      /\ process \in {"alive", "ended"}
      /\ shown # "none" => form = "closed"
  BY SameTypes DEF FormInv, Form!TypeOK
<1>2. SUFFICES \/ FormInv'
               \/ /\ WorkerTypeOK' /\ ServicesNamed' /\ Announced'
                  /\ form' \in {"polling", "closed"} /\ shown' = shown
                  /\ process' \in {"alive", "ended"}
                  /\ form = "closed" => form' = "closed"
  <2>1. WorkerTypeOK' => Form!WorkerTypeOK'
    BY DEF Form!WorkerTypeOK, WorkerTypeOK, Form!Names, Names, Form!ScriptNames,
       ScriptNames, Form!Kinds, Kinds, Form!COMPLETED, COMPLETED, Form!ERROR, ERROR
  <2> QED
    BY <1>1, <2>1 DEF FormInv, Form!TypeOK
<1>3. CASE Form!Worker
  BY <1>1, <1>3, SameSteps, ProceedKeeps DEF Form!Worker, Form!formVars
<1>4. CASE Form!WorkerFails
  BY <1>1, <1>4, FailKeeps DEF Form!WorkerFails, Form!formVars
<1>5. CASE Form!Clock
  <2>1. /\ asleep' = asleep - 1 /\ asleep > 0
        /\ UNCHANGED <<wanted, script, services, queue, pc, step, index, restarts>>
        /\ UNCHANGED <<form, shown, process>>
    BY <1>5 DEF Form!Clock, Form!formVars
  <2>2. asleep' \in 0..Pauses
    BY <1>1, <2>1, WorkerShape, PausesAssumption
  <2>3. WorkerTypeOK' /\ ServicesNamed'
    BY <1>1, <2>1, <2>2, WorkerShape, WorkerTypesKept
  <2>4. Announced'
    BY <1>1, <2>1 DEF Announced
  <2> QED
    BY <1>1, <2>1, <2>3, <2>4
<1>6. CASE Form!Poll
  BY <1>6, PollKeeps
<1>7. CASE Form!Quit \/ Form!Leave \/ UNCHANGED Form!vars
  <2>1. /\ UNCHANGED <<wanted, script, services, queue, pc, step, index, restarts,
               asleep>>
        /\ shown' = shown /\ form' \in {form, "closed"} /\ process' \in {process, "ended"}
    BY <1>7 DEF Form!Quit, Form!Leave, Form!vars, Form!workerVars, Form!formVars
  <2>2. WorkerTypeOK' /\ ServicesNamed' /\ Announced'
    BY <1>1, <2>1, WorkerShape, WorkerTypesKept DEF Announced
  <2> QED
    BY <1>1, <2>1, <2>2
<1> QED
  BY <1>3, <1>4, <1>5, <1>6, <1>7 DEF Form!Next

\* The variables of the form keep their types, and a dialog is the last thing
\* it shows.
THEOREM FormTypeCorrect ==
    ASSUME Form!FormAssumption
    PROVE  Form!Spec => []Form!TypeOK
<1>1. Form!Init => FormInv
  BY FormBegins
<1>2. FormInv /\ [Form!Next]_(Form!vars) => FormInv'
  BY FormStepKeeps
<1>3. FormInv => Form!TypeOK
  BY DEF FormInv
<1> QED
  BY <1>1, <1>2, <1>3, PTL DEF Form!Spec

\* The dialog comes once, after the end of the installation, and says how it
\* ended.
THEOREM TruthfulDialog ==
    ASSUME Form!FormAssumption
    PROVE  Form!Spec => Form!ImplementsReport
<1>1. Form!Init => FormInv
  BY FormBegins
<1>2. FormInv /\ [Form!Next]_(Form!vars) => FormInv'
  BY FormStepKeeps
<1>3. Form!Init => Form!Report!Init
  <2> SUFFICES ASSUME Form!Init  PROVE Form!Report!Init
    OBVIOUS
  <2>1. pc = "script" /\ shown = "none"
    BY SameStart DEF Form!Init, WorkerInit
  <2> QED
    BY <2>1 DEF Form!Report!Init, Form!Outcome
<1>4. ASSUME FormInv, [Form!Next]_(Form!vars)
      PROVE  [Form!Report!Next]_<<Form!Outcome, shown>>
  <2>0. /\ Form!Outcome = Outcome
        /\ WorkerTypeOK /\ ServicesNamed /\ Announced
    BY <1>4, SameWords, SameTypes DEF FormInv, Form!TypeOK
  <2>1. CASE Form!Worker
    <3>1. /\ pc \notin {"completed", "raised", "exited"}
          /\ pc' \notin {"raised", "exited"} /\ shown' = shown
      BY <2>0, <2>1, SameSteps, ProceedKeeps DEF Form!Worker, Form!formVars
    <3>2. Form!Outcome = "running" /\ Form!Outcome' \in {"running", "completed"}
      BY <3>1 DEF Form!Outcome
    <3> QED
      BY <3>1, <3>2 DEF Form!Report!Next, Form!Report!Finish
  <2>2. CASE Form!WorkerFails
    <3>1. /\ pc \notin {"completed", "raised", "exited"}
          /\ pc' \in {"raised", "exited"} /\ shown' = shown
      BY <2>0, <2>2, FailKeeps DEF Form!WorkerFails, Form!formVars
    <3>2. Form!Outcome = "running" /\ Form!Outcome' = "failed"
      BY <3>1 DEF Form!Outcome
    <3> QED
      BY <3>1, <3>2 DEF Form!Report!Next, Form!Report!Finish
  <2>3. CASE Form!Poll
    <3>1. /\ shown = "none" /\ pc' = pc
          /\ shown' = "Completed" => pc = "completed"
          /\ shown' = "ERROR" => pc = "raised"
          /\ shown' \in {"none", "Completed", "ERROR"}
      BY <1>4, <2>3, PollKeeps DEF FormInv, Form!TypeOK
    <3>2. Form!Outcome' = Form!Outcome
      BY <3>1 DEF Form!Outcome
    <3>3. CASE shown' = "Completed"
      <4>1. Form!Outcome = "completed"
        BY <3>1, <3>3 DEF Form!Outcome
      <4> QED
        BY <3>1, <3>2, <3>3, <4>1 DEF Form!Report!Next, Form!Report!ReportCompleted
    <3>4. CASE shown' = "ERROR"
      <4>1. Form!Outcome = "failed"
        BY <3>1, <3>4 DEF Form!Outcome
      <4> QED
        BY <3>1, <3>2, <3>4, <4>1 DEF Form!Report!Next, Form!Report!ReportError
    <3> QED
      BY <3>1, <3>2, <3>3, <3>4
  <2>4. CASE Form!Clock \/ Form!Quit \/ Form!Leave \/ UNCHANGED Form!vars
    <3>1. pc' = pc /\ shown' = shown
      BY <2>4 DEF Form!Clock, Form!Quit, Form!Leave, Form!vars, Form!workerVars,
         Form!formVars
    <3>2. Form!Outcome' = Form!Outcome
      BY <3>1 DEF Form!Outcome
    <3> QED
      BY <3>1, <3>2
  <2> QED
    BY <1>4, <2>1, <2>2, <2>3, <2>4 DEF Form!Next
<1>5. Form!Report!Init /\ [][Form!Report!Next]_<<Form!Outcome, shown>>
          => Form!ImplementsReport
  BY DEF Form!ImplementsReport, Form!Report!Spec
<1> QED
  BY <1>1, <1>2, <1>3, <1>4, <1>5, PTL DEF Form!Spec
=============================================================================
