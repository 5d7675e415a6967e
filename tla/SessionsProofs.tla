---------------------------- MODULE SessionsProofs ----------------------------
(***************************************************************************)
(* For any number of items, helpers and sessions, in the layouts of cmux   *)
(* and tmux: one implementer at a time, and within the daemon's reach.     *)
(*                                                                         *)
(* A reference that is a number stands for one session for ever; one that  *)
(* is built from the item's ID stands for whatever bears that name, of     *)
(* which there is at most one.  The invariant is of two kinds accordingly. *)
(* With numbers a restart has to find the implementer again from what was  *)
(* saved: either the saved number is its number, or it was launched since, *)
(* and then no helper is there to be taken for it.                         *)
(***************************************************************************)
EXTENDS Sessions, SequenceTheorems, FiniteSetTheorems, TLAPS

\* cmux and tmux; no item's ID is part of another's; the daemon is killed once at most.
Distinct ==
  /\ "headless" \notin Places
  /\ \A i, j \in Items : <<j, i>> \in Contains => j = i
  /\ MaxCrashes <= 1

Main(i) == refs[i]["implementer"]
MainSaved(i) == saved[i]["implementer"]

\* Sessions have one name for an item.
NamesRight(i) ==
  /\ \A m, n \in Of(i) : m = n
  /\ Main(i) = 0 => Implementers(i) = {}

\* Sessions have numbers.
NumbersRight(i) == \A n \in Implementers(i) : Main(i) = n

\* Before the first crash every session has its reference, and what was saved is still so, or is
\* of an implementer launched since, when no helper may be launched.
Recorded(i) ==
  /\ \A n \in Of(i) : refs[i][started[n].role] = n
  /\ MainSaved(i) \in running => Main(i) = MainSaved(i)
  /\ Main(i) \in running /\ Main(i) # MainSaved(i) => HelperFree(i)

\* No number has been given that is still to come.
Given == \A i \in Items, r \in Roles : refs[i][r] <= Len(started) /\ saved[i][r] <= Len(started)

SInv ==
  /\ SessionsTypeOK
  /\ Numbered => Given
  /\ \A i \in Items : ~Numbered => NamesRight(i)
  /\ \A i \in Items : Numbered => NumbersRight(i)
  /\ \A i \in Items : Numbered /\ crashes = 0 => Recorded(i)

\* Where the sessions are.
LEMMA Where ==
  ASSUME SessionsTypeOK, Distinct
  PROVE  /\ place # "headless" /\ Listed = running
         /\ ~Numbered => place = "windows"
<1>1. place \in {"cmux", "dashboard", "windows"}
  BY SessionsAssumption DEF SessionsTypeOK, Distinct, Places, Resolved, Backend, Detected
<1>. QED
  BY <1>1 DEF Listed, Numbered

\* What a session was started as.
LEMMA Entry ==
  ASSUME SessionsTypeOK, NEW n \in DOMAIN started
  PROVE  started[n].item \in Items /\ started[n].role \in Roles
<1>1. started \in Seq([item : Items, role : Roles]) /\ n \in 1 .. Len(started)
  BY DEF SessionsTypeOK
<1>2. started[n] \in [item : Items, role : Roles]
  BY <1>1, ElementOfSeq
<1>. QED
  BY <1>2

\* The invariant says what the properties say.
LEMMA SessionsFollow ==
  ASSUME SInv, Distinct
  PROVE  OneImplementer /\ ImplementerReached
<1>1. ASSUME NEW i \in Items, NEW n \in Implementers(i)
      PROVE  Implementers(i) = {n} /\ n \in Target(i, Main(i)) /\ Main(i) # 0
  <2>1. n \in running /\ n \in Of(i) /\ n # 0
    BY <1>1 DEF Implementers, Of, SInv, SessionsTypeOK
  <2>2. CASE Numbered
    BY <1>1, <2>1, <2>2 DEF SInv, NumbersRight, Target
  <2>3. CASE ~Numbered
    BY <1>1, <2>1, <2>3, Where DEF SInv, NamesRight, Target, Implementers, Numbered
  <2>. QED
    BY <2>2, <2>3
<1>2. ASSUME NEW i \in Items
      PROVE  Cardinality(Implementers(i)) <= 1
  <2>1. CASE Implementers(i) = {}
    BY <2>1, FS_EmptySet
  <2>2. ASSUME NEW n \in Implementers(i)
        PROVE  Cardinality(Implementers(i)) <= 1
    BY <1>1, <2>2, FS_Singleton
  <2>. QED
    BY <2>1, <2>2
<1>3. ASSUME NEW i \in Items, NEW n \in 1 .. MaxSessions, n \in running, n \in Implementers(i)
      PROVE  n \in Target(i, refs[i]["implementer"]) /\ Alive(i)
  <2>1. n \in Target(i, Main(i)) /\ Main(i) # 0 /\ n \in Of(i)
    BY <1>1, <1>3 DEF Implementers
  <2>. QED
    BY <1>3, <2>1, Where DEF SInv, Main, Alive
<1>. QED
  BY <1>2, <1>3 DEF OneImplementer, ImplementerReached

\* Sessions that end, whoever ends them, take nothing from the others.
LEMMA EndingKeeps ==
  ASSUME SInv, running' \subseteq running, UNCHANGED <<place, started, refs, saved, crashes>>,
         pidFile' \in [Items -> {0} \cup DOMAIN started]
  PROVE  SInv'
<1>1. SessionsTypeOK' /\ (Numbered' <=> Numbered) /\ Given' = Given
  BY DEF SInv, SessionsTypeOK, Numbered, Given
<1>2. ASSUME NEW i \in Items
      PROVE  /\ Of(i)' \subseteq Of(i) /\ Implementers(i)' \subseteq Implementers(i)
             /\ Main(i)' = Main(i) /\ MainSaved(i)' = MainSaved(i) /\ HelperFree(i)' = HelperFree(i)
  BY DEF Of, Implementers, Main, MainSaved, HelperFree
<1>. QED
  BY <1>1, <1>2 DEF SInv, NamesRight, NumbersRight, Recorded

\* At the start there is none.
LEMMA SessionsInit == Init => SInv
<1>. SUFFICES ASSUME Init
              PROVE  SInv
  OBVIOUS
<1>1. place \in Places
  BY DEF Init, Places
<1>2. started \in Seq([item : Items, role : Roles]) /\ Len(started) = 0 /\ running = {}
  BY DEF Init
<1>3. /\ refs \in [Items -> [Roles -> Refs]] /\ saved \in [Items -> [Roles -> Refs]]
      /\ \A i \in Items, r \in Roles : refs[i][r] = 0 /\ saved[i][r] = 0
  BY SessionsAssumption DEF Init, None, Refs, Named
<1>4. SessionsTypeOK
  BY <1>1, <1>2, <1>3, SessionsAssumption DEF SessionsTypeOK, Init
<1>5. \A i \in Items : Of(i) = {} /\ Implementers(i) = {}
  BY <1>2 DEF Of, Implementers
<1>. QED
  BY <1>2, <1>3, <1>4, <1>5 DEF SInv, NamesRight, NumbersRight, Recorded, Given, Roles, Main, MainSaved

\* What is started is behind all that was.
LEMMA StartedFacts ==
  ASSUME SessionsTypeOK, NEW i \in Items, NEW role \in Roles,
         started' = Append(started, [item |-> i, role |-> role])
  PROVE  /\ started' \in Seq([item : Items, role : Roles])
         /\ Len(started) \in Nat /\ Len(started') = Len(started) + 1
         /\ DOMAIN started = 1 .. Len(started) /\ DOMAIN started' = 1 .. (Len(started) + 1)
         /\ \A n \in 1 .. Len(started) : started'[n] = started[n]
         /\ started'[Len(started) + 1].item = i /\ started'[Len(started) + 1].role = role
         /\ running \subseteq 1 .. Len(started) /\ Len(started) + 1 \notin running
<1>1. [item |-> i, role |-> role] \in [item : Items, role : Roles]
  OBVIOUS
<1>2. started \in Seq([item : Items, role : Roles]) /\ running \subseteq DOMAIN started
  BY DEF SessionsTypeOK
<1>3. /\ started' \in Seq([item : Items, role : Roles])
      /\ Len(started) \in Nat /\ Len(started') = Len(started) + 1
      /\ DOMAIN started = 1 .. Len(started)
      /\ \A n \in 1 .. Len(started) : started'[n] = started[n]
      /\ started'[Len(started) + 1] = [item |-> i, role |-> role]
  BY <1>1, <1>2, AppendProperties
<1>. QED
  BY <1>2, <1>3

\* A launch gives the item one session more, after it has closed what bears its name.
LEMMA LaunchKeeps ==
  ASSUME SInv, Distinct, NEW i \in Items, NEW role \in Roles, Launch(i, role)
  PROVE  SInv'
<1>. DEFINE n == Len(started) + 1
<1>1. /\ MayLaunch(i, role) /\ n <= MaxSessions
      /\ started' = Append(started, [item |-> i, role |-> role])
      /\ running' = (running \ Replaced(i)) \cup {n}
      /\ pidFile' = PidWritten(i, n)
      /\ refs' = [refs EXCEPT ![i][role] = RefOf(n)]
      /\ UNCHANGED <<place, saved, crashes>>
  BY DEF Launch
<1>2. /\ started' \in Seq([item : Items, role : Roles])
      /\ Len(started) \in Nat /\ Len(started') = n
      /\ DOMAIN started = 1 .. Len(started) /\ DOMAIN started' = 1 .. n
      /\ \A m \in 1 .. Len(started) : started'[m] = started[m]
      /\ started'[n].item = i /\ started'[n].role = role
      /\ running \subseteq 1 .. Len(started) /\ n \notin running
  BY <1>1, StartedFacts DEF SInv
<1>. HIDE DEF n
<1>3. n \in Nat /\ n # 0 /\ n \in 1 .. n /\ n <= MaxSessions /\ RefOf(n) \in Refs
  BY <1>1, <1>2, SessionsAssumption DEF n, RefOf, Refs, Named
<1>4. /\ refs' \in [Items -> [Roles -> Refs]]
      /\ \A j \in Items, r \in Roles :
           refs'[j][r] = IF j = i /\ r = role THEN RefOf(n) ELSE refs[j][r]
  BY <1>1, <1>3 DEF SInv, SessionsTypeOK
<1>5. SessionsTypeOK'
  <2>1. pidFile' \in [Items -> {0} \cup DOMAIN started']
    BY <1>1, <1>2, <1>3 DEF PidWritten, SInv, SessionsTypeOK, n
  <2>2. running' \subseteq DOMAIN started'
    BY <1>1, <1>2, <1>3 DEF n
  <2>. QED
    BY <1>1, <1>2, <1>3, <1>4, <2>1, <2>2 DEF SInv, SessionsTypeOK, Places
<1>6. \A j \in Items : /\ Of(j)' \subseteq Of(j) \cup (IF j = i THEN {n} ELSE {})
                       /\ \A m \in Of(j) : m \in 1 .. Len(started) /\ m # n
  BY <1>1, <1>2 DEF Of
<1>7. \A j \in Items : \A m \in Of(j) : started'[m] = started[m]
  BY <1>2, <1>6
<1>8. Numbered' <=> Numbered
  BY <1>1 DEF Numbered
<1>9. "implementer" \in Roles /\ (role = "implementer" \/ role \in Helpers)
  BY DEF Roles
<1>10. Numbered' => Given'
  BY <1>1, <1>2, <1>3, <1>4, <1>8 DEF SInv, Given, SessionsTypeOK, RefOf, Refs, Named, n
<1>11. ASSUME NEW j \in Items, ~Numbered
       PROVE  NamesRight(j)'
  <2>1. place = "windows" /\ Of(i)' \subseteq {n}
    BY <1>1, <1>2, <1>11, Where DEF SInv, Of, Replaced, WindowReplaced
  <2>2. CASE j = i
    <3>1. Main(i)' = 0 => role # "implementer"
      BY <1>1, <1>4, <1>9, <1>11, SessionsAssumption DEF Main, RefOf, Named
    <3>. QED
      BY <1>2, <2>1, <2>2, <3>1 DEF NamesRight, Implementers
  <2>3. CASE j # i
    <3>1. Main(j)' = Main(j)
      BY <1>4, <1>9, <2>3 DEF Main
    <3>. QED
      BY <1>6, <1>7, <1>11, <2>3, <3>1 DEF SInv, NamesRight, Implementers
  <2>. QED
    BY <2>2, <2>3
<1>12. ASSUME Numbered PROVE RefOf(n) = n
  BY <1>12 DEF RefOf
<1>13. ASSUME NEW j \in Items, Numbered
       PROVE  NumbersRight(j)'
  <2>. SUFFICES ASSUME NEW m \in Of(j)', started'[m].role = "implementer"
                PROVE  Main(j)' = m
    BY DEF NumbersRight, Implementers
  <2>1. CASE m = n
    BY <1>4, <1>6, <1>9, <1>12, <1>13, <2>1, <1>2 DEF Main, Of
  <2>2. CASE m # n
    <3>1. m \in Of(j) /\ started[m].role = "implementer" /\ Main(j) = m /\ m # 0
      BY <1>6, <1>7, <1>13, <2>2 DEF SInv, NumbersRight, Implementers
    <3>2. ~(j = i /\ role = "implementer")
      BY <1>1, <3>1 DEF MayLaunch, Main
    <3>. QED
      BY <1>4, <1>9, <3>1, <3>2 DEF Main
  <2>. QED
    BY <2>1, <2>2
<1>14. ASSUME NEW j \in Items, Numbered, crashes = 0
       PROVE  Recorded(j)'
  <2>1. Recorded(j) /\ NumbersRight(j)
    BY <1>14 DEF SInv
  <2>2. /\ MainSaved(j)' = MainSaved(j)
        /\ j # i \/ role # "implementer" => Main(j)' = Main(j)
        /\ j = i /\ role = "implementer" => Main(j)' = n /\ Main(j) = 0 /\ HelperFree(i)
    BY <1>1, <1>4, <1>9, <1>12, <1>14 DEF Main, MainSaved, MayLaunch
  <2>3. ASSUME NEW m \in Of(j)'
        PROVE  refs'[j][started'[m].role] = m
    <3>1. CASE m = n
      BY <1>2, <1>4, <1>6, <1>12, <1>14, <2>3, <3>1
    <3>2. CASE m # n
      <4>1. m \in Of(j) /\ refs[j][started[m].role] = m /\ m # 0 /\ started'[m] = started[m]
        BY <1>6, <1>7, <2>1, <2>3, <3>2 DEF Recorded
      <4>2. started[m].role \in Roles
        <5>1. m \in DOMAIN started
          BY <1>2, <1>6, <4>1
        <5>. QED
          BY <5>1, Entry DEF SInv
      <4>3. ~(j = i /\ started[m].role = role)
        BY <1>1, <4>1 DEF MayLaunch
      <4>. QED
        BY <1>4, <4>1, <4>2, <4>3
    <3>. QED
      BY <3>1, <3>2
  <2>4. MainSaved(j) \in Nat /\ MainSaved(j) # n /\ (MainSaved(j) \in running' => MainSaved(j) \in running)
    <3>1. MainSaved(j) <= Len(started) /\ MainSaved(j) \in Nat
      BY <1>9, <1>14, SessionsAssumption DEF SInv, Given, MainSaved, SessionsTypeOK, Refs, Named
    <3>. QED
      BY <1>1, <1>2, <3>1 DEF n
  <2>5. MainSaved(j)' \in running' => Main(j)' = MainSaved(j)'
    BY <1>2, <2>1, <2>2, <2>4 DEF Recorded
  <2>6. ASSUME Main(j)' \in running', Main(j)' # MainSaved(j)'
        PROVE  HelperFree(j)'
    <3>1. CASE j = i
      <4>1. role = "implementer" /\ HelperFree(i)
        BY <1>1, <1>9, <2>2, <2>6, <3>1 DEF MayLaunch, Main, MainSaved
      <4>2. \A r \in Helpers : r \in Roles /\ r # role
        BY <4>1, SessionsAssumption DEF Roles
      <4>. QED
        BY <1>4, <3>1, <4>1, <4>2 DEF HelperFree
    <3>2. CASE j # i
      <4>1. Main(j) \in Nat /\ Main(j) # n /\ Main(j) \in running
        <5>1. Main(j) <= Len(started) /\ Main(j) \in Nat
          BY <1>9, <1>14, SessionsAssumption DEF SInv, Given, Main, SessionsTypeOK, Refs, Named
        <5>. QED
          BY <1>1, <1>2, <2>2, <2>6, <3>2, <5>1 DEF n
      <4>2. HelperFree(j)
        BY <2>1, <2>2, <2>6, <3>2, <4>1 DEF Recorded
      <4>3. \A r \in Helpers : refs'[j][r] = refs[j][r]
        BY <1>4, <3>2 DEF Roles
      <4>. QED
        BY <4>2, <4>3 DEF HelperFree
    <3>. QED
      BY <3>1, <3>2
  <2>. QED
    BY <2>3, <2>5, <2>6 DEF Recorded
<1>. QED
  BY <1>1, <1>5, <1>8, <1>10, <1>11, <1>13, <1>14 DEF SInv

\* What a close by reference leaves running, and its .pid file.
LEMMA CloseFacts ==
  ASSUME SessionsTypeOK, NEW i \in Items, NEW ref, Close(i, ref)
  PROVE  /\ running' \subseteq running /\ Target(i, ref) \cap running' = {}
         /\ pidFile' \in [Items -> {0} \cup DOMAIN started]
BY DEF Close, PidRemoved, SessionsTypeOK

\* A reference that is dropped with what it names.
LEMMA DropKeeps ==
  ASSUME SInv, Distinct, NEW i \in Items, NEW role \in Roles,
         Close(i, refs[i][role]), refs' = [refs EXCEPT ![i][role] = 0],
         UNCHANGED <<place, started, saved, crashes>>
  PROVE  SInv'
<1>1. /\ running' \subseteq running /\ Target(i, refs[i][role]) \cap running' = {}
      /\ pidFile' \in [Items -> {0} \cup DOMAIN started]
  BY CloseFacts DEF SInv
<1>2. /\ refs' \in [Items -> [Roles -> Refs]]
      /\ \A j \in Items, r \in Roles : refs'[j][r] = IF j = i /\ r = role THEN 0 ELSE refs[j][r]
  BY SessionsAssumption DEF SInv, SessionsTypeOK, Refs, Named
<1>3. SessionsTypeOK' /\ (Numbered' <=> Numbered)
  BY <1>1, <1>2 DEF SInv, SessionsTypeOK, Numbered, Places
<1>4. "implementer" \in Roles /\ Len(started) \in Nat
  BY DEF Roles, SInv, SessionsTypeOK
<1>5. Numbered' => Given'
  BY <1>2, <1>3, <1>4 DEF SInv, Given
<1>6. \A j \in Items : /\ Of(j)' \subseteq Of(j) /\ Implementers(j)' \subseteq Implementers(j)
                       /\ MainSaved(j)' = MainSaved(j) /\ (Main(j)' = 0 \/ Main(j)' = Main(j))
                       /\ ~(j = i /\ role = "implementer") => Main(j)' = Main(j)
                       /\ HelperFree(j) => HelperFree(j)'
  BY <1>1, <1>2, <1>4 DEF Of, Implementers, MainSaved, Main, HelperFree, Roles
<1>7. 0 \notin running
  BY DEF SInv, SessionsTypeOK
<1>8. Numbered => refs[i][role] \notin running'
  BY <1>1, <1>7 DEF Target
<1>9. ~Numbered => Of(i)' = {} \/ refs[i][role] = 0
  BY <1>1, Where DEF SInv, Target, Of
<1>10. ASSUME NEW j \in Items, ~Numbered
       PROVE  NamesRight(j)'
  <2>1. NamesRight(j) /\ Implementers(i)' \subseteq Of(i)'
    BY <1>10 DEF SInv, NamesRight, Implementers
  <2>2. \A m, n \in Of(j)' : m = n
    BY <1>6, <2>1 DEF NamesRight
  <2>3. ASSUME Main(j)' = 0
        PROVE  Implementers(j)' = {}
    <3>1. CASE Main(j) = 0
      BY <1>6, <2>1, <3>1 DEF NamesRight
    <3>2. CASE Main(j) # 0
      <4>1. j = i /\ refs[i][role] # 0
        BY <1>6, <2>3, <3>2 DEF Main
      <4>. QED
        BY <1>9, <1>10, <2>1, <4>1
    <3>. QED
      BY <3>1, <3>2
  <2>. QED
    BY <2>2, <2>3 DEF NamesRight
<1>11. ASSUME NEW j \in Items, Numbered
       PROVE  NumbersRight(j)'
  <2>. SUFFICES ASSUME NEW m \in Implementers(j)'
                PROVE  Main(j)' = m
    BY DEF NumbersRight
  <2>1. Main(j) = m /\ m \in running'
    BY <1>6, <1>11 DEF SInv, NumbersRight, Implementers, Of
  <2>2. ~(j = i /\ role = "implementer")
    BY <1>8, <1>11, <2>1 DEF Main
  <2>. QED
    BY <1>6, <2>1, <2>2
<1>12. ASSUME NEW j \in Items, Numbered, crashes = 0
       PROVE  Recorded(j)'
  <2>1. Recorded(j)
    BY <1>12 DEF SInv
  <2>2. ASSUME NEW m \in Of(j)'
        PROVE  refs'[j][started'[m].role] = m
    <3>1. /\ m \in running' /\ m \in running /\ refs[j][started[m].role] = m
          /\ started[m].role \in Roles
      <4>1. m \in Of(j) /\ m \in running' /\ m \in DOMAIN started
        BY <1>1, <1>6, <2>2 DEF SInv, SessionsTypeOK, Of
      <4>2. started[m].role \in Roles
        BY <4>1, Entry DEF SInv
      <4>. QED
        BY <1>1, <2>1, <4>1, <4>2 DEF Recorded
    <3>2. ~(j = i /\ started[m].role = role)
      BY <1>8, <1>12, <3>1
    <3>. QED
      BY <1>2, <3>1, <3>2
  <2>3. MainSaved(j)' \in running' => Main(j)' = MainSaved(j)'
    <3>. SUFFICES ASSUME MainSaved(j) \in running'
                  PROVE  Main(j)' = MainSaved(j)
      BY <1>6
    <3>1. Main(j) = MainSaved(j)
      BY <1>1, <2>1 DEF Recorded
    <3>2. ~(j = i /\ role = "implementer")
      BY <1>8, <1>12, <3>1 DEF Main
    <3>. QED
      BY <1>6, <3>1, <3>2
  <2>4. Main(j)' \in running' /\ Main(j)' # MainSaved(j)' => HelperFree(j)'
    BY <1>1, <1>6, <1>7, <2>1 DEF Recorded
  <2>. QED
    BY <2>2, <2>3, <2>4 DEF Recorded
<1>. QED
  BY <1>3, <1>5, <1>10, <1>11, <1>12 DEF SInv

\* A launch that fails has closed what bears the name; a retry, a clean, a merge and a command
\* close by reference, by listing or by ID.
LEMMA ClosingKeeps ==
  ASSUME SInv, Distinct,
         \/ Exit
         \/ \E i \in Items, role \in Roles : LaunchFails(i, role)
         \/ \E i \in Items, role \in Helpers : Dismiss(i, role)
         \/ \E i \in Items : \/ Retry(i) \/ WorkspaceClose(i)
                             \/ CloseByCommand(i) \/ CloseAllByCommand(i)
  PROVE  SInv'
<1>1. "implementer" \in Roles /\ Helpers \subseteq Roles /\ SessionsTypeOK
  BY DEF Roles, SInv
<1>2. CASE Exit
  BY <1>1, <1>2, EndingKeeps DEF Exit, SessionsTypeOK
<1>3. ASSUME NEW i \in Items, NEW role \in Roles, LaunchFails(i, role)
      PROVE  SInv'
  BY <1>1, <1>3, EndingKeeps DEF LaunchFails, SessionsTypeOK
<1>4. ASSUME NEW i \in Items, NEW role \in Helpers, Dismiss(i, role)
      PROVE  SInv'
  BY <1>1, <1>4, DropKeeps DEF Dismiss
<1>5. ASSUME NEW i \in Items, Retry(i)
      PROVE  SInv'
  BY <1>1, <1>5, DropKeeps DEF Retry
<1>6. ASSUME NEW i \in Items, WorkspaceClose(i)
      PROVE  SInv'
  <2>1. /\ Close(i, refs[i]["implementer"]) /\ UNCHANGED <<place, started, saved, crashes>>
        /\ refs' = [refs EXCEPT ![i]["implementer"] = 0] \/ refs' = refs
    BY <1>6 DEF WorkspaceClose
  <2>2. CASE refs' = refs
    BY <1>1, <2>1, <2>2, CloseFacts, EndingKeeps
  <2>. QED
    BY <1>1, <2>1, <2>2, DropKeeps
<1>7. ASSUME NEW i \in Items, CloseByCommand(i)
      PROVE  SInv'
  <2>1. PICK n \in Listed : Close(started[n].item, RefOf(n))
    BY <1>7 DEF CloseByCommand
  <2>2. started[n].item \in Items
    <3>1. n \in DOMAIN started
      BY <1>1, <2>1, Where DEF SessionsTypeOK
    <3>. QED
      BY <1>1, <3>1, Entry
  <2>3. running' \subseteq running /\ pidFile' \in [Items -> {0} \cup DOMAIN started]
    BY <1>1, <2>1, <2>2, CloseFacts
  <2>. QED
    BY <1>7, <2>3, EndingKeeps DEF CloseByCommand
<1>8. ASSUME NEW i \in Items, CloseAllByCommand(i)
      PROVE  SInv'
  <2>1. running' \subseteq running /\ pidFile' \in [Items -> {0} \cup DOMAIN started]
    BY <1>1, <1>8 DEF CloseAllByCommand, SessionsTypeOK
  <2>. QED
    BY <1>8, <2>1, EndingKeeps DEF CloseAllByCommand
<1>. QED
  BY <1>2, <1>3, <1>4, <1>5, <1>6, <1>7, <1>8

\* What a restart finds of an item whose implementer runs, and of one whose session has a name.
LEMMA Recovered ==
  ASSUME SInv, Distinct, crashes = 0, NEW i \in Items
  PROVE  /\ Numbered => \A n \in Implementers(i) : Recoverable(i) = {n}
         /\ ~Numbered => (Recoverable(i) = {} => Of(i) = {})
         /\ Recoverable(i) \subseteq running
<1>1. SessionsTypeOK /\ Listed = running /\ running \subseteq DOMAIN started
  BY Where DEF SInv, SessionsTypeOK
<1>2. \A n \in running : started[n].item \in Items
  BY <1>1, Entry
<1>3. {n \in running : <<started[n].item, i>> \in Contains} = Of(i)
  BY <1>2, SessionsAssumption DEF Of, Distinct
<1>. DEFINE kept == {n \in running :
                       MainSaved(i) = RefOf(n) /\ (Numbered \/ started[n].item = i)}
<1>4. Recoverable(i) = IF kept # {} THEN kept ELSE Of(i)
  BY <1>1, <1>3 DEF Recoverable, MainSaved
<1>5. ASSUME Numbered, NEW n \in Implementers(i)
      PROVE  Recoverable(i) = {n}
  <2>1. Main(i) = n /\ n \in running /\ n \in Of(i)
    BY <1>5 DEF SInv, NumbersRight, Implementers, Of
  <2>2. kept = {m \in running : MainSaved(i) = m}
    BY <1>5 DEF RefOf
  <2>3. CASE MainSaved(i) = n
    <3>1. kept = {n}
      BY <2>1, <2>2, <2>3
    <3>. QED
      BY <1>4, <3>1
  <2>4. CASE MainSaved(i) # n
    <3>1. Recorded(i)
      BY <1>5 DEF SInv
    <3>2. MainSaved(i) \notin running /\ HelperFree(i)
      BY <2>1, <2>4, <3>1 DEF Recorded
    <3>3. kept = {}
      BY <2>2, <3>2
    <3>4. ASSUME NEW m \in Of(i)
          PROVE  m = n
      <4>1. /\ m \in running /\ refs[i][started[m].role] = m /\ started[m].role \in Roles
            /\ m # 0
        <5>1. m \in running /\ m \in DOMAIN started
          BY <1>1, <3>4 DEF Of
        <5>2. m \in 1 .. Len(started) /\ Len(started) \in Nat
          BY <1>1, <5>1 DEF SessionsTypeOK
        <5>3. refs[i][started[m].role] = m
          BY <3>1, <3>4 DEF Recorded
        <5>4. started[m].role \in Roles
          BY <1>1, <5>1, Entry
        <5>. QED
          BY <5>1, <5>2, <5>3, <5>4
      <4>2. started[m].role = "implementer"
        BY <3>2, <4>1 DEF HelperFree, Roles
      <4>. QED
        BY <2>1, <4>1, <4>2 DEF Main
    <3>. QED
      BY <1>4, <2>1, <3>3, <3>4
  <2>. QED
    BY <2>3, <2>4
<1>6. ASSUME Recoverable(i) = {}
      PROVE  Of(i) = {}
  BY <1>4, <1>6
<1>7. Recoverable(i) \subseteq running
  BY <1>4 DEF Of
<1>. QED
  BY <1>5, <1>6, <1>7

\* Killed and started again, the daemon reaches what it reached.
LEMMA RestartKeeps ==
  ASSUME SInv, Distinct, Restart
  PROVE  SInv'
<1>1. /\ crashes = 0 /\ crashes' = 1 /\ crashes' \in 0 .. MaxCrashes
      /\ UNCHANGED <<place, started, running, saved>>
  BY SessionsAssumption DEF Restart, Distinct, SInv, SessionsTypeOK
<1>2. PICK found \in [Items -> Refs] :
        /\ \A i \in Items : IF Recoverable(i) = {} THEN found[i] = 0
                            ELSE \E n \in Recoverable(i) : found[i] = RefOf(n)
        /\ refs' = [i \in Items |-> [saved[i] EXCEPT !["implementer"] = found[i]]]
  BY DEF Restart
<1>3. SessionsTypeOK /\ "implementer" \in Roles
  BY DEF SInv, Roles
<1>4. /\ refs' \in [Items -> [Roles -> Refs]]
      /\ \A i \in Items, r \in Roles :
           refs'[i][r] = IF r = "implementer" THEN found[i] ELSE saved[i][r]
  BY <1>2, <1>3 DEF SessionsTypeOK
<1>5. SessionsTypeOK'
  <2>1. pidFile' \in [Items -> {0} \cup DOMAIN started]
    BY <1>3 DEF Restart, PidsSwept, SessionsTypeOK
  <2>. QED
    BY <1>1, <1>3, <1>4, <2>1 DEF SessionsTypeOK, Places
<1>6. \A i \in Items : Main(i)' = found[i] /\ Of(i)' = Of(i) /\ Implementers(i)' = Implementers(i)
  BY <1>1, <1>3, <1>4 DEF Main, Of, Implementers
<1>7. Numbered' <=> Numbered
  BY <1>1 DEF Numbered
<1>8. \A i \in Items : Recoverable(i) \subseteq running
  BY <1>1, Recovered
<1>9. running \subseteq 1 .. Len(started) /\ Len(started) \in Nat
  BY <1>3 DEF SessionsTypeOK
<1>10. ASSUME Numbered
       PROVE  Given'
  <2>1. \A i \in Items : found[i] <= Len(started)
    <3>. SUFFICES ASSUME NEW i \in Items
                  PROVE  found[i] <= Len(started)
      OBVIOUS
    <3>1. CASE Recoverable(i) = {}
      BY <1>2, <1>9, <3>1
    <3>2. CASE Recoverable(i) # {}
      <4>1. PICK n \in Recoverable(i) : found[i] = RefOf(n)
        BY <1>2, <3>2
      <4>2. found[i] = n /\ n \in 1 .. Len(started)
        BY <1>8, <1>9, <1>10, <4>1 DEF RefOf
      <4>. QED
        BY <1>9, <4>2
    <3>. QED
      BY <3>1, <3>2
  <2>. QED
    BY <1>1, <1>4, <1>10, <2>1 DEF SInv, Given
<1>11. ASSUME NEW i \in Items, ~Numbered
       PROVE  NamesRight(i)'
  <2>1. Named # 0
    BY SessionsAssumption DEF Named
  <2>2. found[i] = 0 => Of(i) = {}
    BY <1>1, <1>2, <1>11, <2>1, Recovered DEF RefOf
  <2>. QED
    BY <1>6, <1>11, <2>2 DEF SInv, NamesRight, Implementers
<1>12. ASSUME NEW i \in Items, Numbered
       PROVE  NumbersRight(i)'
  <2>1. \A n \in Implementers(i) : found[i] = n
    BY <1>1, <1>2, <1>12, Recovered DEF RefOf
  <2>. QED
    BY <1>6, <2>1 DEF NumbersRight
<1>. QED
  BY <1>1, <1>5, <1>7, <1>10, <1>11, <1>12 DEF SInv

\* A save makes what is held what was saved.
LEMMA CycleKeeps ==
  ASSUME SInv, Cycle
  PROVE  SInv'
<1>1. saved' = refs /\ UNCHANGED <<place, started, running, refs, crashes>>
  BY DEF Cycle
<1>2. SessionsTypeOK'
  <2>1. pidFile' \in [Items -> {0} \cup DOMAIN started]
    BY DEF Cycle, PidsSwept, SInv, SessionsTypeOK
  <2>. QED
    BY <1>1, <2>1 DEF SInv, SessionsTypeOK, Places
<1>3. (Numbered' <=> Numbered) /\ (Given => Given')
  BY <1>1 DEF Numbered, Given
<1>4. ASSUME NEW i \in Items
      PROVE  /\ Of(i)' = Of(i) /\ Implementers(i)' = Implementers(i)
             /\ Main(i)' = Main(i) /\ MainSaved(i)' = Main(i)
  BY <1>1 DEF Of, Implementers, Main, MainSaved
<1>. QED
  BY <1>1, <1>2, <1>3, <1>4 DEF SInv, NamesRight, NumbersRight, Recorded

\* Every step keeps the invariant.
LEMMA SessionsStep ==
  ASSUME SInv, Distinct, [Next]_vars
  PROVE  SInv'
<1>1. ASSUME NEW i \in Items, LaunchImplementer(i)
      PROVE  SInv'
  BY <1>1, LaunchKeeps DEF LaunchImplementer, Roles
<1>2. ASSUME NEW i \in Items, NEW role \in Helpers, LaunchHelper(i, role)
      PROVE  SInv'
  BY <1>2, LaunchKeeps DEF LaunchHelper, Roles
<1>3. CASE UNCHANGED vars
  BY <1>3, EndingKeeps DEF vars, SInv, SessionsTypeOK
<1>. QED
  BY <1>1, <1>2, <1>3, ClosingKeeps, RestartKeeps, CycleKeeps DEF Next

\* Under cmux and tmux, with IDs none of which is part of another and with one crash at most, an
\* item never has two implementers: whatever a retry, a relaunch or a restart leaves behind is
\* closed or found before the next is started (executeRetry, launchSingleItem,
\* recoverWorkspaceRef).
THEOREM OneImplementerEver == Distinct => (Spec => []OneImplementer)
<1>. SUFFICES ASSUME Distinct
              PROVE  Spec => []OneImplementer
  OBVIOUS
<1>1. SInv /\ [Next]_vars => SInv'
  BY SessionsStep
<1>2. SInv => OneImplementer
  BY SessionsFollow
<1>. QED
  BY <1>1, <1>2, SessionsInit, PTL DEF Spec

\* And the daemon's reference names it, and it is listed, so that it is not taken for dead
\* (isWorkerAliveWithCache) and a close by reference closes it.
THEOREM ImplementerInReach == Distinct => (Spec => []ImplementerReached)
<1>. SUFFICES ASSUME Distinct
              PROVE  Spec => []ImplementerReached
  OBVIOUS
<1>1. SInv /\ [Next]_vars => SInv'
  BY SessionsStep
<1>2. SInv => ImplementerReached
  BY SessionsFollow
<1>. QED
  BY <1>1, <1>2, SessionsInit, PTL DEF Spec
=============================================================================
