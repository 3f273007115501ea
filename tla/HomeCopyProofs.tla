---------------------------- MODULE HomeCopyProofs ----------------------------
(***************************************************************************)
(* Theorems about the copy of the home directories for any parts, versions *)
(* and number of reboots, and their proofs.                                *)
(*                                                                         *)
(* Three invariants carry them: PhaseInv (who waits for whom: what is on   *)
(* the bus, what the service does and which script runs say in which phase *)
(* the clients are), CopyInv (how far the copy and the restoration are)    *)
(* and DataInv (where the data is, and when the card may be restored).     *)
(***************************************************************************)
EXTENDS HomeCopy, SequenceTheorems, TLAPS

\* The failures that lose data: the service or its client goes on although the copy
\* is not over, the removal of the configuration is lost, or the copy is forgotten
\* with the configuration in place.
LosesCopy == {"inotify", "freed_proxy", "lost_call", "token", "interrupted"}

-----------------------------------------------------------------------------
(* The invariants *)

\* The calls that may be on their way together.
NoCall == <<>>

CopyCalls == <<"setCopyDevice", "copyHome">>

CopyCall == <<"copyHome">>

UnsetCall == <<"unsetCopyDevice">>

UnsetAndRestore == <<"unsetCopyDevice", "restoreHome">>

RestoreCall == <<"restoreHome">>

Copies == unit = "copy" /\ page = "copying"

Restores == unit = "restore" /\ restoration = "restoring"

\* The user can work.
Free == page = "idle" /\ restoration = "off" /\ session = "up"

\* The user has given everything up, and what he is shown is about the encryption.
GivenUp == promised = NoParts /\ ~Free /\ page # "copying"

CopyRuns == script["copy"].at # "off"

RestoreRuns == script["restore"].at # "off"

ClientInv ==
    /\ page # "idle" => session = "up" /\ restoration = "off" /\ ~encrypted
    /\ restoration # "off" => session = "up"

CallsInv ==
    /\ calls \in {NoCall, CopyCalls, CopyCall, UnsetCall, UnsetAndRestore, RestoreCall}
    /\ calls \in {CopyCalls, CopyCall} => page = "copying"
    /\ calls = UnsetCall => Free \/ (GivenUp /\ restoration \in {"off", "starting"})
    /\ calls \in {UnsetAndRestore, RestoreCall} => restoration = "restoring"
    /\ calls = UnsetAndRestore => promised = NoParts
    /\ calls # NoCall => ~copying /\ signal = "none" /\ ~CopyRuns /\ ~RestoreRuns

ServiceInv ==
    /\ copying <=> awaiting # "none"
    /\ copying => (Copies \/ Restores) /\ signal = "none"
    /\ signal # "none" => page = "copying" \/ restoration = "restoring"
    /\ signal # "none" => ~CopyRuns

ScriptInv ==
    /\ CopyRuns => page = "copying"
    /\ RestoreRuns => restoration \in {"restoring", "rebooting"}
    /\ (CopyRuns \/ RestoreRuns) /\ copying => awaiting \in {"started", "marker"}

PhaseInv == ClientInv /\ CallsInv /\ ServiceInv /\ ScriptInv

HomeFull == \A p \in Part : home[p] >= promised[p]

CardFull == \A p \in Part : card[p] >= promised[p]

\* Nothing on the card is older than what the user may expect.
CardGood == \A p \in Part : card[p] # 0 => card[p] >= promised[p]

\* What the script has copied, may still restore, and has restored.
Copied == \A p \in Part \ script["copy"].left : card[p] >= promised[p]

Restorable == \A p \in script["restore"].left : card[p] >= promised[p]

Restored == \A p \in Part \ script["restore"].left : home[p] >= promised[p]

\* How far the scripts are, and what a result says.
CopyInv ==
    /\ copying /\ Copies /\ (awaiting = "StartUnit" \/ CopyRuns)
        => marker = "1" /\ ~watch
    /\ copying /\ Copies /\ awaiting \in {"started", "marker"} /\ marker = "0"
        => conf /\ CardFull
    /\ page = "copying" /\ signal = "success" => conf /\ CardFull
    /\ script["copy"].at = "cp" => conf
    /\ script["copy"].at = "cp" /\ script["copy"].ok => Copied
    /\ script["copy"].at = "report" /\ script["copy"].ok => conf /\ CardFull
    /\ script["restore"].at = "cp" => Restorable
    /\ script["restore"].at = "cp" /\ script["restore"].ok => Restored
    /\ script["restore"].at = "rm" => HomeFull

DataInv ==
    /\ NothingLost
    /\ ~encrypted => HomeFull
    /\ page = "encrypting" => CardFull
    /\ conf => CardGood \/ page = "copying" \/ (Free /\ calls = UnsetCall)
    /\ conf => ~Free \/ calls = UnsetCall

KeptInv == PhaseInv /\ CopyInv /\ DataInv

-----------------------------------------------------------------------------
(* Types *)

ScriptState == [at : Place, left : SUBSET Part, ok : BOOLEAN]

\* The script of u goes on at a place.
LEMMA ScriptAt ==
    ASSUME script \in [Unit -> ScriptState], NEW u \in Unit, NEW state \in ScriptState,
           script' = [script EXCEPT ![u] = state]
    PROVE  /\ script' \in [Unit -> ScriptState] /\ script'[u] = state
           /\ \A v \in Unit : v # u => script'[v] = script[v]
  OBVIOUS

LEMMA States ==
    ASSUME NEW at \in Place, NEW left \in SUBSET Part, NEW ok \in BOOLEAN
    PROVE  /\ [at |-> at, left |-> left, ok |-> ok] \in ScriptState
           /\ Idle \in ScriptState /\ Idle.at = "off"
  BY DEF ScriptState, Idle, Place

LEMMA Numbers == /\ 0 \in Version /\ 1 \in Version /\ Version \subseteq Nat
                 /\ NoParts \in [Part -> Version]
                 /\ \A p \in Part : NoParts[p] = 0
<1>1. 0 \in Version /\ 1 \in Version /\ Version \subseteq Nat
  BY VersionAssumption DEF Version
<1> QED
  BY <1>1 DEF NoParts

\* The types of the service and the bus, of the scripts, and of the rest.
ServiceOK ==
    /\ process \in {"off", "up", "ending"}
    /\ copying \in BOOLEAN
    /\ awaiting \in {"none", "bus", "systemd", "subscribe", "StartUnit",
                     "started", "refused", "marker"}
    /\ unit \in Unit \cup {"none"}
    /\ watch \in BOOLEAN
    /\ signal \in {"none", "success", "failure"}
    /\ marker \in {"none", "0", "1"}

DataOK ==
    /\ conf \in BOOLEAN
    /\ home \in [Part -> Version] /\ card \in [Part -> Version]
    /\ promised \in [Part -> Version]
    /\ encrypted \in BOOLEAN

ClientOK ==
    /\ session \in {"up", "finishing"}
    /\ page \in {"idle", "copying", "encrypting"}
    /\ restoration \in {"off", "starting", "restoring", "rebooting"}
    /\ reboots \in 0 .. MaxReboots
    /\ killed \in BOOLEAN

ScriptOK == script \in [Unit -> ScriptState]

CallsOK == calls \in Seq(Call)

LEMMA TypeParts ==
    CopyTypeOK <=> ServiceOK /\ DataOK /\ ClientOK /\ ScriptOK /\ CallsOK
  BY DEF CopyTypeOK, ServiceOK, DataOK, ClientOK, ScriptOK, CallsOK, ScriptState

LEMMA TypePartsNext ==
    CopyTypeOK' <=> ServiceOK' /\ DataOK' /\ ClientOK' /\ ScriptOK' /\ CallsOK'
  BY DEF CopyTypeOK, ServiceOK, DataOK, ClientOK, ScriptOK, CallsOK, ScriptState

LEMMA Same ==
    /\ UNCHANGED <<service_vars, signal, marker>> /\ ServiceOK => ServiceOK'
    /\ UNCHANGED <<conf, home, card, promised, encrypted>> /\ DataOK => DataOK'
    /\ UNCHANGED <<session, page, restoration, reboots, killed>> /\ ClientOK => ClientOK'
    /\ UNCHANGED script /\ ScriptOK => ScriptOK'
    /\ UNCHANGED calls /\ CallsOK => CallsOK'
  BY DEF ServiceOK, DataOK, ClientOK, ScriptOK, CallsOK, service_vars

\* The callbacks of the service, and what happens to it.
LEMMA ServiceType ==
    ASSUME CopyTypeOK,
           \/ got_bus \/ got_systemd_manager \/ got_subscription
           \/ started_copy_service \/ wait_for_copy \/ Activate \/ Exits
           \/ quit_if_idle \/ Killed
    PROVE  CopyTypeOK'
<1> USE TypeParts, TypePartsNext, Same
<1>1. ServiceOK /\ DataOK /\ ClientOK /\ ScriptOK /\ CallsOK
  OBVIOUS
<1>2. ASSUME NEW next \in {"systemd", "subscribe", "marker"}, Continues(next)
      PROVE  CopyTypeOK'
  <2>1. ServiceOK'
    BY <1>1, <1>2 DEF Continues, bus_vars, script_vars, ServiceOK
  <2> QED
    BY <1>1, <1>2, <2>1 DEF Continues, bus_vars, script_vars, device_vars, client_vars
<1>3. ASSUME NEW fault, ExitsWithError(fault) PROVE CopyTypeOK'
  <2>1. ServiceOK'
    BY <1>1, <1>3 DEF ExitsWithError, EndsWith, script_vars, ServiceOK
  <2> QED
    BY <1>1, <1>3, <2>1
      DEF ExitsWithError, EndsWith, script_vars, device_vars, client_vars
<1>4. CASE WatchAndStart
  <2>1. ServiceOK'
    BY <1>1, <1>4 DEF WatchAndStart, bus_vars, ServiceOK
  <2> QED
    BY <1>1, <1>4, <2>1 DEF WatchAndStart, bus_vars, device_vars, client_vars
<1>5. CASE WatchFails
  <2>1. ServiceOK'
    BY <1>1, <1>5 DEF WatchFails, ServiceOK
  <2>2. ScriptOK'
    <3>1. \/ UNCHANGED script
          \/ script' = [script EXCEPT ![unit] = [script[unit] EXCEPT !.at = "start"]]
      BY <1>5 DEF WatchFails
    <3>2. ASSUME NEW u \in Unit,
                 script' = [script EXCEPT ![u] = [script[u] EXCEPT !.at = "start"]]
          PROVE  ScriptOK'
      <4>1. [script[u] EXCEPT !.at = "start"] \in ScriptState
        BY <1>1 DEF ScriptOK, ScriptState, Place
      <4> QED
        BY <1>1, <3>2, <4>1, ScriptAt DEF ScriptOK
    <3>3. ASSUME unit \notin Unit,
                 script' = [script EXCEPT ![unit] = [script[unit] EXCEPT !.at = "start"]]
          PROVE  ScriptOK'
      BY <1>1, <3>3 DEF ScriptOK
    <3> QED
      BY <1>1, <3>1, <3>2, <3>3
  <2> QED
    BY <1>1, <1>5, <2>1, <2>2 DEF WatchFails, device_vars, client_vars
<1>6. CASE wait_for_copy
  <2>1. ServiceOK'
    BY <1>1, <1>6 DEF wait_for_copy, EndsWith, script_vars, ServiceOK
  <2> QED
    BY <1>1, <1>6, <2>1
      DEF wait_for_copy, EndsWith, script_vars, device_vars, client_vars
<1>7. CASE Activate \/ quit_if_idle
  <2>1. ServiceOK'
    BY <1>1, <1>7 DEF Activate, quit_if_idle, bus_vars, script_vars, ServiceOK
  <2> QED
    BY <1>1, <1>7, <2>1
      DEF Activate, quit_if_idle, bus_vars, script_vars, device_vars, client_vars
<1>8. CASE Exits
  <2>1. ServiceOK'
    BY <1>1, <1>8 DEF Exits, script_vars, ServiceOK
  <2>2. CallsOK'
    <3>1. <<>> \in Seq(Call)
      OBVIOUS
    <3> QED
      BY <1>1, <1>8, <3>1 DEF Exits, CallsOK
  <2> QED
    BY <1>1, <1>8, <2>1, <2>2 DEF Exits, script_vars, device_vars, client_vars
<1>9. CASE Killed
  <2>1. ServiceOK'
    BY <1>1, <1>9 DEF Killed, bus_vars, script_vars, ServiceOK
  <2>2. ClientOK'
    BY <1>1, <1>9 DEF Killed, device_vars, ClientOK
  <2> QED
    BY <1>1, <1>9, <2>1, <2>2 DEF Killed, bus_vars, script_vars, device_vars
<1> QED
  BY <1>2, <1>3, <1>4, <1>5, <1>6, <1>7, <1>8, <1>9
    DEF got_bus, got_systemd_manager, got_subscription, started_copy_service

LEMMA CallLists ==
    /\ <<"setCopyDevice", "copyHome">> \in Seq(Call)
    /\ <<"unsetCopyDevice">> \in Seq(Call)
    /\ <<"restoreHome">> \in Seq(Call)
    /\ <<>> \in Seq(Call)
<1>1. /\ "setCopyDevice" \in Call /\ "copyHome" \in Call
      /\ "unsetCopyDevice" \in Call /\ "restoreHome" \in Call
  BY DEF Call
<1> HIDE DEF Call
<1> QED
  BY <1>1

\* A call is dispatched.
LEMMA CallType ==
    ASSUME CopyTypeOK, handle_method_call PROVE CopyTypeOK'
<1> USE TypeParts, TypePartsNext, Same
<1>1. ServiceOK /\ DataOK /\ ClientOK /\ ScriptOK /\ CallsOK
  OBVIOUS
<1>2. CallsOK'
  BY <1>1, HeadTailProperties DEF handle_method_call, CallsOK
<1>3. ServiceOK'
  BY <1>1 DEF handle_method_call, copy, script_vars, ServiceOK, Unit
<1>4. DataOK'
  <2>1. conf' \in BOOLEAN
    BY <1>1 DEF handle_method_call, set_copy_location, DataOK
  <2> QED
    BY <1>1, <2>1 DEF handle_method_call, DataOK, client_vars
<1> QED
  BY <1>1, <1>2, <1>3, <1>4 DEF handle_method_call, script_vars, client_vars

\* The scripts and systemd.
LEMMA Goes ==
    ASSUME ScriptOK, NEW u \in Unit, NEW place \in Place, NEW left \in SUBSET Part,
           NEW ok \in BOOLEAN, GoesTo(u, place, left, ok)
    PROVE  /\ ScriptOK'
           /\ script'[u] = [at |-> place, left |-> left, ok |-> ok]
           /\ \A v \in Unit : v # u => script'[v] = script[v]
  BY ScriptAt, States DEF GoesTo, ScriptOK

LEMMA Stops ==
    ASSUME ScriptOK, NEW u \in Unit, script' = [script EXCEPT ![u] = Idle]
    PROVE  /\ ScriptOK'
           /\ script'[u] = Idle
           /\ \A v \in Unit : v # u => script'[v] = script[v]
  BY ScriptAt, States DEF ScriptOK, Place

LEMMA Starts ==
    ASSUME ScriptOK, NEW u \in Unit, script' = [script EXCEPT ![u].at = "start"]
    PROVE  /\ ScriptOK'
           /\ script'[u].at = "start"
           /\ \A v \in Unit : v # u => script'[v] = script[v]
<1>1. [script[u] EXCEPT !.at = "start"] \in ScriptState
  BY DEF ScriptOK, ScriptState, Place
<1>2. script' = [script EXCEPT ![u] = [script[u] EXCEPT !.at = "start"]]
  OBVIOUS
<1>3. [script[u] EXCEPT !.at = "start"].at = "start"
  BY DEF ScriptOK, ScriptState
<1> QED
  BY <1>1, <1>2, <1>3, ScriptAt DEF ScriptOK

LEMMA ScriptParts ==
    ASSUME ScriptOK, NEW u \in Unit
    PROVE  script[u].at \in Place /\ script[u].left \in SUBSET Part /\ script[u].ok \in BOOLEAN
  BY DEF ScriptOK, ScriptState

LEMMA ReportType ==
    ASSUME ServiceOK, NEW ok \in BOOLEAN, Reports(ok),
           UNCHANGED <<process, copying, awaiting, unit, signal>>
    PROVE  ServiceOK'
  BY DEF ServiceOK, Reports

\* One part is copied, or is not, and the copy is to go on at next.
CopiesPart(p, ok, next) ==
    /\ GoesTo("copy", next, script["copy"].left \ {p}, ok)
    /\ next = "report" <=> script["copy"].left \ {p} = {}
    /\ ok => script["copy"].ok
    /\ \/ card' = [card EXCEPT ![p] = home[p]]
       \/ card' = card /\ ~ok

LEMMA CopyPartSteps ==
    ASSUME ScriptOK, CopyPart
    PROVE  \E p \in script["copy"].left, ok \in BOOLEAN, next \in {"cp", "report"} :
               CopiesPart(p, ok, next)
<1>1. PICK p \in script["copy"].left :
         LET left == script["copy"].left \ {p}
             next == IF left = {} THEN "report" ELSE "cp"
         IN  \/ /\ card' = [card EXCEPT ![p] = home[p]]
                /\ GoesTo("copy", next, left, script["copy"].ok)
             \/ /\ "cp" \in Fault /\ UNCHANGED card
                /\ GoesTo("copy", next, left, FALSE)
  BY DEF CopyPart
<1> DEFINE next == IF script["copy"].left \ {p} = {} THEN "report" ELSE "cp"
<1>2. next \in {"cp", "report"} /\ (next = "report" <=> script["copy"].left \ {p} = {})
  OBVIOUS
<1>3. script["copy"].ok \in BOOLEAN
  BY ScriptParts DEF Unit
<1>4. CopiesPart(p, script["copy"].ok, next) \/ CopiesPart(p, FALSE, next)
  BY <1>1, <1>2 DEF CopiesPart
<1> HIDE DEF next
<1> QED
  BY <1>2, <1>3, <1>4

\* One part is restored, or is not, and the restoration is to go on at next.
RestoresPart(p, ok, next) ==
    /\ GoesTo("restore", next, script["restore"].left \ {p}, ok)
    /\ next = "cp" <=> script["restore"].left \ {p} # {}
    /\ next = "rm" => ok
    /\ ok => script["restore"].ok
    /\ \/ home' = [home EXCEPT ![p] = card[p]]
       \/ home' = home /\ ~ok

LEMMA RestorePartSteps ==
    ASSUME ScriptOK, RestorePart
    PROVE  \E p \in script["restore"].left, ok \in BOOLEAN, next \in {"cp", "rm", "tidy"} :
               RestoresPart(p, ok, next)
<1>1. PICK p \in script["restore"].left :
         LET left == script["restore"].left \ {p}
             Continue(ok) == GoesTo("restore",
                                    IF left # {} THEN "cp"
                                    ELSE IF ok THEN "rm" ELSE "tidy", left, ok)
         IN  \/ /\ home' = [home EXCEPT ![p] = card[p]]
                /\ Continue(script["restore"].ok)
             \/ "cp" \in Fault /\ UNCHANGED home /\ Continue(FALSE)
  BY DEF RestorePart
<1> DEFINE next(ok) == IF script["restore"].left \ {p} # {} THEN "cp"
                       ELSE IF ok THEN "rm" ELSE "tidy"
<1>2. ASSUME NEW ok \in BOOLEAN
      PROVE  /\ next(ok) \in {"cp", "rm", "tidy"}
             /\ next(ok) = "cp" <=> script["restore"].left \ {p} # {}
             /\ next(ok) = "rm" => ok
  OBVIOUS
<1>3. script["restore"].ok \in BOOLEAN
  BY ScriptParts DEF Unit
<1>4. \/ RestoresPart(p, script["restore"].ok, next(script["restore"].ok))
      \/ RestoresPart(p, FALSE, next(FALSE))
  BY <1>1, <1>2, <1>3 DEF RestoresPart
<1> HIDE DEF next
<1> QED
  BY <1>2, <1>3, <1>4

LEMMA CopyScriptType ==
    ASSUME CopyTypeOK, StartUnit \/ CopyStarts \/ CopyPart \/ CopyReports
    PROVE  CopyTypeOK'
<1> USE TypeParts, TypePartsNext, Same
<1>1. ServiceOK /\ DataOK /\ ClientOK /\ ScriptOK /\ CallsOK
  OBVIOUS
<1>u. "copy" \in Unit /\ "restore" \in Unit
  BY DEF Unit
<1>p. /\ "start" \in Place /\ "cp" \in Place /\ "report" \in Place /\ "tidy" \in Place
      /\ "rm" \in Place /\ "restart" \in Place
  BY DEF Place
<1>2. CASE StartUnit
  <2>1. ServiceOK'
    BY <1>1, <1>2 DEF StartUnit, bus_vars, ServiceOK
  <2>2. ScriptOK'
    <3>1. CASE unit \in Unit
      BY <1>1, <1>2, <3>1, Starts DEF StartUnit
    <3>2. CASE unit \notin Unit
      BY <1>1, <1>2, <3>2 DEF StartUnit, ScriptOK
    <3> QED
      BY <3>1, <3>2
  <2> QED
    BY <1>1, <1>2, <2>1, <2>2 DEF StartUnit, bus_vars, device_vars, client_vars
<1>3. CASE CopyStarts
  <2>1. ScriptOK'
    BY <1>1, <1>u, <1>p, <1>3, Goes DEF CopyStarts
  <2>2. card' \in [Part -> Version]
    BY <1>1, <1>3, Numbers DEF CopyStarts, DataOK
  <2>3. DataOK'
    BY <1>1, <1>3, <2>2 DEF CopyStarts, DataOK, client_vars
  <2> QED
    BY <1>1, <1>3, <2>1, <2>3 DEF CopyStarts, bus_vars, client_vars
<1>4. CASE CopyPart
  <2>1. PICK p \in script["copy"].left, ok \in BOOLEAN, next \in {"cp", "report"} :
               CopiesPart(p, ok, next)
    BY <1>1, <1>4, CopyPartSteps
  <2>2. p \in Part /\ script["copy"].left \ {p} \in SUBSET Part /\ next \in Place
    BY <1>1, <1>u, <1>p, ScriptParts
  <2>3. ScriptOK'
    BY <1>1, <1>u, <2>1, <2>2, Goes DEF CopiesPart
  <2>4. card' \in [Part -> Version]
    BY <1>1, <2>1, <2>2 DEF DataOK, CopiesPart
  <2>5. DataOK'
    BY <1>1, <1>4, <2>4 DEF CopyPart, DataOK, client_vars
  <2> QED
    BY <1>1, <1>4, <2>3, <2>5 DEF CopyPart, bus_vars, client_vars
<1>5. CASE CopyReports
  <2>1. ServiceOK'
    BY <1>1, <1>u, <1>5, ScriptParts, ReportType DEF CopyReports, bus_vars
  <2>2. ScriptOK'
    BY <1>1, <1>u, <1>5, Stops DEF CopyReports
  <2> QED
    BY <1>1, <1>5, <2>1, <2>2 DEF CopyReports, bus_vars, device_vars, client_vars
<1> QED
  BY <1>2, <1>3, <1>4, <1>5

LEMMA RestoreScriptType ==
    ASSUME CopyTypeOK,
           \/ RestoreStarts \/ RestorePart \/ RestoreRemoves \/ RestoreReports
           \/ RestoreTidies
    PROVE  CopyTypeOK'
<1> USE TypeParts, TypePartsNext, Same
<1>1. ServiceOK /\ DataOK /\ ClientOK /\ ScriptOK /\ CallsOK
  OBVIOUS
<1>u. "copy" \in Unit /\ "restore" \in Unit
  BY DEF Unit
<1>p. /\ "start" \in Place /\ "cp" \in Place /\ "report" \in Place /\ "tidy" \in Place
      /\ "rm" \in Place /\ "restart" \in Place
  BY DEF Place
<1>s. /\ script["restore"].left \in SUBSET Part /\ script["restore"].ok \in BOOLEAN
      /\ {} \in SUBSET Part
  BY <1>1, <1>u, ScriptParts
<1>2. CASE RestoreStarts
  <2>1. ScriptOK'
    BY <1>1, <1>u, <1>p, <1>s, <1>2, Goes DEF RestoreStarts
  <2> QED
    BY <1>1, <1>2, <2>1 DEF RestoreStarts, bus_vars, device_vars, client_vars
<1>3. CASE RestorePart
  <2>1. PICK p \in script["restore"].left, ok \in BOOLEAN, next \in {"cp", "rm", "tidy"} :
               RestoresPart(p, ok, next)
    BY <1>1, <1>3, RestorePartSteps
  <2>2. p \in Part /\ script["restore"].left \ {p} \in SUBSET Part /\ next \in Place
    BY <1>s, <1>p
  <2>3. ScriptOK'
    <3>1. GoesTo("restore", next, script["restore"].left \ {p}, ok) /\ ok \in BOOLEAN
      BY <2>1 DEF RestoresPart
    <3> QED
      BY <1>1, <1>u, <2>2, <3>1, Goes
  <2>4. home' \in [Part -> Version]
    BY <1>1, <2>1, <2>2 DEF DataOK, RestoresPart
  <2>5. DataOK'
    BY <1>1, <1>3, <2>4 DEF RestorePart, DataOK, client_vars
  <2> QED
    BY <1>1, <1>3, <2>3, <2>5 DEF RestorePart, bus_vars, client_vars
<1>4. CASE RestoreRemoves
  <2>1. ScriptOK'
    BY <1>1, <1>u, <1>p, <1>s, <1>4, Goes DEF RestoreRemoves
  <2>2. DataOK'
    BY <1>1, <1>4, Numbers DEF RestoreRemoves, DataOK, client_vars
  <2> QED
    BY <1>1, <1>4, <2>1, <2>2 DEF RestoreRemoves, bus_vars, client_vars
<1>5. CASE RestoreReports
  <2>1. ServiceOK'
    BY <1>1, <1>s, <1>5, ReportType DEF RestoreReports, bus_vars
  <2>2. ScriptOK'
    BY <1>1, <1>u, <1>p, <1>s, <1>5, Goes DEF RestoreReports
  <2> QED
    BY <1>1, <1>5, <2>1, <2>2 DEF RestoreReports, bus_vars, device_vars, client_vars
<1>6. CASE RestoreTidies
  <2>1. ScriptOK'
    BY <1>1, <1>u, <1>p, <1>s, <1>6, Goes DEF RestoreTidies
  <2>2. DataOK'
    BY <1>1, <1>6 DEF RestoreTidies, DataOK, client_vars
  <2> QED
    BY <1>1, <1>6, <2>1, <2>2 DEF RestoreTidies, bus_vars, client_vars
<1> QED
  BY <1>2, <1>3, <1>4, <1>5, <1>6

\* A new session, a killed script and the end of the restoration.
LEMMA SessionType ==
    ASSUME CopyTypeOK,
           \/ RestoreRestartsSession \/ Reboot \/ EncryptionFinishes
           \/ \E u \in Unit : ScriptKilled(u)
    PROVE  CopyTypeOK'
<1> USE TypeParts, TypePartsNext, Same
<1>1. ServiceOK /\ DataOK /\ ClientOK /\ ScriptOK /\ CallsOK
  OBVIOUS
<1>u. "copy" \in Unit /\ "restore" \in Unit
  BY DEF Unit
<1>2. CASE RestoreRestartsSession
  <2>1. ServiceOK'
    BY <1>1, <1>2 DEF RestoreRestartsSession, SessionStarts, service_vars, ServiceOK
  <2>2. ClientOK'
    BY <1>1, <1>2 DEF RestoreRestartsSession, SessionStarts, ClientOK
  <2>3. ScriptOK'
    BY <1>1, <1>u, <1>2, Stops DEF RestoreRestartsSession
  <2> QED
    BY <1>1, <1>2, <2>1, <2>2, <2>3 DEF RestoreRestartsSession
<1>3. CASE Reboot
  <2>1. ServiceOK'
    BY <1>1, <1>3 DEF Reboot, SessionStarts, ServiceOK
  <2>2. ClientOK'
    <3>1. reboots' \in 0 .. MaxReboots
      BY <1>1, <1>3, RebootAssumption DEF Reboot, ClientOK
    <3> QED
      BY <1>1, <1>3, <3>1 DEF Reboot, SessionStarts, ClientOK
  <2>3. ScriptOK'
    BY <1>3, States DEF Reboot, ScriptOK, Place
  <2>4. CallsOK'
    BY <1>3, CallLists DEF Reboot, CallsOK
  <2> QED
    BY <1>1, <1>3, <2>1, <2>2, <2>3, <2>4 DEF Reboot
<1>4. CASE EncryptionFinishes
  <2>1. ServiceOK'
    BY <1>1, <1>4 DEF EncryptionFinishes, SessionStarts, service_vars, script_vars, ServiceOK
  <2>2. ClientOK'
    BY <1>1, <1>4 DEF EncryptionFinishes, SessionStarts, ClientOK
  <2>3. home' \in [Part -> Version] /\ card' \in [Part -> Version]
    BY <1>1, <1>4, Numbers, LocalAssumption DEF EncryptionFinishes, DataOK
  <2>4. DataOK'
    BY <1>1, <1>4, <2>3 DEF EncryptionFinishes, DataOK
  <2> QED
    BY <1>1, <1>4, <2>1, <2>2, <2>4 DEF EncryptionFinishes, script_vars
<1>5. ASSUME NEW u \in Unit, ScriptKilled(u) PROVE CopyTypeOK'
  <2>1. ClientOK'
    BY <1>1, <1>5 DEF ScriptKilled, device_vars, ClientOK
  <2>2. ScriptOK'
    BY <1>1, <1>5, Stops DEF ScriptKilled
  <2> QED
    BY <1>1, <1>5, <2>1, <2>2 DEF ScriptKilled, bus_vars, device_vars
<1> QED
  BY <1>2, <1>3, <1>4, <1>5

\* The clients.
LEMMA ClientType ==
    ASSUME CopyTypeOK,
           \/ \E p \in Part : UserEdits(p)
           \/ PageCopies \/ PageDoesNotCopy \/ PageCopied \/ Encryption
           \/ RestorationStarts \/ RestorationEnds
    PROVE  CopyTypeOK'
<1> USE TypeParts, TypePartsNext, Same
<1>1. ServiceOK /\ DataOK /\ ClientOK /\ ScriptOK /\ CallsOK
  OBVIOUS
<1>2. ASSUME NEW p \in Part, UserEdits(p) PROVE CopyTypeOK'
  <2>1. home[p] + 1 \in Version
    BY <1>1, <1>2, VersionAssumption DEF UserEdits, DataOK, Version
  <2>2. home' \in [Part -> Version] /\ home'[p] \in Version
    BY <1>1, <1>2, <2>1 DEF UserEdits, DataOK
  <2>3. promised' \in [Part -> Version]
    BY <1>1, <1>2, <2>2 DEF UserEdits, DataOK
  <2>4. DataOK'
    BY <1>1, <1>2, <2>2, <2>3 DEF UserEdits, DataOK
  <2> QED
    BY <1>1, <1>2, <2>4 DEF UserEdits, bus_vars, script_vars
<1>3. ASSUME NEW list \in Seq(Call), Calls(list) PROVE CallsOK'
  BY <1>1, <1>3, ConcatProperties DEF Calls, CallsOK
<1>4. CASE PageCopies
  <2>1. ClientOK' /\ CallsOK'
    BY <1>1, <1>3, <1>4, CallLists DEF PageCopies, device_vars, ClientOK
  <2> QED
    BY <1>1, <1>4, <2>1 DEF PageCopies, device_vars, script_vars
<1>5. CASE PageDoesNotCopy
  <2>1. ClientOK' /\ CallsOK'
    BY <1>1, <1>3, <1>5, CallLists DEF PageDoesNotCopy, device_vars, ClientOK
  <2>2. DataOK'
    BY <1>1, <1>5, Numbers DEF PageDoesNotCopy, device_vars, DataOK
  <2> QED
    BY <1>1, <1>5, <2>1, <2>2 DEF PageDoesNotCopy, script_vars
<1>6. CASE PageCopied
  <2>1. ClientOK' /\ CallsOK'
    BY <1>1, <1>3, <1>6, CallLists DEF PageCopied, device_vars, ClientOK, CallsOK
  <2>2. ServiceOK'
    BY <1>1, <1>6 DEF PageCopied, service_vars, script_vars, ServiceOK
  <2> QED
    BY <1>1, <1>6, <2>1, <2>2 DEF PageCopied, device_vars, script_vars
<1>7. CASE Encryption
  <2>1. ClientOK'
    BY <1>1, <1>7 DEF Encryption, ClientOK
  <2>2. home' \in [Part -> Version] /\ encrypted' \in BOOLEAN
    BY <1>1, <1>7, Numbers DEF Encryption, DataOK
  <2>3. DataOK'
    BY <1>1, <1>7, <2>2 DEF Encryption, DataOK
  <2> QED
    BY <1>1, <1>7, <2>1, <2>3 DEF Encryption, bus_vars, script_vars
<1>8. CASE RestorationStarts
  <2>1. ClientOK' /\ CallsOK'
    BY <1>1, <1>3, <1>8, CallLists DEF RestorationStarts, device_vars, ClientOK
  <2> QED
    BY <1>1, <1>8, <2>1 DEF RestorationStarts, device_vars, script_vars
<1>9. CASE RestorationEnds
  <2>1. ClientOK'
    BY <1>1, <1>9 DEF RestorationEnds, device_vars, ClientOK
  <2>2. ServiceOK'
    BY <1>1, <1>9 DEF RestorationEnds, service_vars, script_vars, ServiceOK
  <2> QED
    BY <1>1, <1>9, <2>1, <2>2 DEF RestorationEnds, device_vars, script_vars
<1> QED
  BY <1>2, <1>4, <1>5, <1>6, <1>7, <1>8, <1>9

LEMMA TypeInit == Init => CopyTypeOK
<1> SUFFICES ASSUME Init PROVE CopyTypeOK
  OBVIOUS
<1>1. ServiceOK
  BY DEF Init, ServiceOK
<1>4. ClientOK
  <2>1. reboots \in 0 .. MaxReboots
    BY RebootAssumption DEF Init
  <2> QED
    BY <2>1 DEF Init, ClientOK
<1>2. DataOK
  BY Numbers DEF Init, DataOK
<1>3. ScriptOK /\ CallsOK
  BY States, CallLists DEF Init, ScriptOK, CallsOK, Place
<1> QED
  BY <1>1, <1>2, <1>3, <1>4, TypeParts

LEMMA TypeStep == CopyTypeOK /\ [Next]_vars => CopyTypeOK'
<1> SUFFICES ASSUME CopyTypeOK, [Next]_vars PROVE CopyTypeOK'
  OBVIOUS
<1>1. CASE UNCHANGED vars
  BY <1>1, Same, TypeParts, TypePartsNext
    DEF vars, service_vars, bus_vars, script_vars, device_vars, client_vars
<1>2. CASE Next
  BY <1>2, ServiceType, CallType, CopyScriptType, RestoreScriptType, SessionType,
     ClientType
    DEF Next, Service, Scripts, Clients
<1> QED
  BY <1>1, <1>2

\* The state of the copy, the restoration and the device is the one declared.
THEOREM CopyTyped == Spec => []CopyTypeOK
  BY TypeInit, TypeStep, PTL DEF Spec

-----------------------------------------------------------------------------
(* What the invariants say in terms of the lists and the data *)

LEMMA SameList ==
    ASSUME NEW s \in Seq(Call), NEW t \in Seq(Call), Len(s) = Len(t),
           \A i \in 1 .. Len(s) : s[i] = t[i]
    PROVE  s = t
  BY SeqEqual

LEMMA ListTypes ==
    /\ NoCall \in Seq(Call) /\ Len(NoCall) = 0
    /\ CopyCalls \in Seq(Call) /\ Len(CopyCalls) = 2
    /\ CopyCalls[1] = "setCopyDevice" /\ CopyCalls[2] = "copyHome"
    /\ CopyCall \in Seq(Call) /\ Len(CopyCall) = 1 /\ CopyCall[1] = "copyHome"
    /\ UnsetCall \in Seq(Call) /\ Len(UnsetCall) = 1 /\ UnsetCall[1] = "unsetCopyDevice"
    /\ UnsetAndRestore \in Seq(Call) /\ Len(UnsetAndRestore) = 2
    /\ UnsetAndRestore[1] = "unsetCopyDevice" /\ UnsetAndRestore[2] = "restoreHome"
    /\ RestoreCall \in Seq(Call) /\ Len(RestoreCall) = 1 /\ RestoreCall[1] = "restoreHome"
<1>1. /\ "setCopyDevice" \in Call /\ "copyHome" \in Call
      /\ "unsetCopyDevice" \in Call /\ "restoreHome" \in Call
  BY DEF Call
<1> HIDE DEF Call
<1>2. /\ NoCall \in Seq(Call) /\ CopyCalls \in Seq(Call) /\ CopyCall \in Seq(Call)
      /\ UnsetCall \in Seq(Call) /\ UnsetAndRestore \in Seq(Call)
      /\ RestoreCall \in Seq(Call)
  BY <1>1 DEF NoCall, CopyCalls, CopyCall, UnsetCall, UnsetAndRestore, RestoreCall
<1> QED
  BY <1>2 DEF NoCall, CopyCalls, CopyCall, UnsetCall, UnsetAndRestore, RestoreCall

\* The lists are not the same.
LEMMA ListsDiffer ==
    /\ NoCall # CopyCalls /\ NoCall # CopyCall /\ NoCall # UnsetCall
    /\ NoCall # UnsetAndRestore /\ NoCall # RestoreCall
    /\ CopyCalls # CopyCall /\ CopyCalls # UnsetCall /\ CopyCalls # UnsetAndRestore
    /\ CopyCalls # RestoreCall /\ CopyCall # UnsetCall /\ CopyCall # UnsetAndRestore
    /\ CopyCall # RestoreCall /\ UnsetCall # UnsetAndRestore
    /\ UnsetCall # RestoreCall /\ UnsetAndRestore # RestoreCall
<1>1. /\ CopyCalls # UnsetAndRestore /\ CopyCall # UnsetCall /\ CopyCall # RestoreCall
      /\ UnsetCall # RestoreCall
  BY ListTypes
<1>2. /\ NoCall # CopyCalls /\ NoCall # CopyCall /\ NoCall # UnsetCall
      /\ NoCall # UnsetAndRestore /\ NoCall # RestoreCall
  <2>1. 0 # 1 /\ 0 # 2
    OBVIOUS
  <2> QED
    BY <2>1, ListTypes, Zenon
<1>3. /\ CopyCalls # CopyCall /\ CopyCalls # UnsetCall /\ CopyCalls # RestoreCall
      /\ CopyCall # UnsetAndRestore /\ UnsetCall # UnsetAndRestore
      /\ UnsetAndRestore # RestoreCall
  <2>1. 1 # 2
    OBVIOUS
  <2> QED
    BY <2>1, ListTypes, Zenon
<1> QED
  BY <1>1, <1>2, <1>3

\* What is left when the first call is dispatched, and what comes of a new call.
LEMMA ListsChange ==
    /\ Head(CopyCalls) = "setCopyDevice" /\ Tail(CopyCalls) = CopyCall
    /\ Head(CopyCall) = "copyHome" /\ Tail(CopyCall) = NoCall
    /\ Head(UnsetCall) = "unsetCopyDevice" /\ Tail(UnsetCall) = NoCall
    /\ Head(UnsetAndRestore) = "unsetCopyDevice" /\ Tail(UnsetAndRestore) = RestoreCall
    /\ Head(RestoreCall) = "restoreHome" /\ Tail(RestoreCall) = NoCall
    /\ NoCall \o CopyCalls = CopyCalls /\ NoCall \o UnsetCall = UnsetCall
    /\ NoCall \o RestoreCall = RestoreCall /\ UnsetCall \o RestoreCall = UnsetAndRestore
<1>1. ASSUME NEW s \in Seq(Call), NEW t \in Seq(Call), Len(s) = Len(t) + 1,
             \A i \in 1 .. Len(t) : t[i] = s[i + 1]
      PROVE  Tail(s) = t
  <2>1. /\ s # <<>> /\ Tail(s) \in Seq(Call) /\ Len(Tail(s)) = Len(t)
        /\ \A i \in 1 .. Len(Tail(s)) : Tail(s)[i] = s[i + 1]
    BY <1>1, HeadTailProperties, EmptySeq
  <2> QED
    BY <1>1, <2>1, SameList
<1>2. ASSUME NEW s \in Seq(Call) PROVE NoCall \o s = s
  BY ConcatEmptySeq DEF NoCall
<1>3. UnsetCall \o RestoreCall = UnsetAndRestore
  <2>1. /\ UnsetCall \o RestoreCall \in Seq(Call) /\ Len(UnsetCall \o RestoreCall) = 2
        /\ (UnsetCall \o RestoreCall)[1] = "unsetCopyDevice"
        /\ (UnsetCall \o RestoreCall)[2] = "restoreHome"
    BY ListTypes, ConcatProperties
  <2>2. \A i \in 1 .. 2 : (UnsetCall \o RestoreCall)[i] = UnsetAndRestore[i]
    BY <2>1, ListTypes
  <2> QED
    BY <2>1, <2>2, ListTypes, SameList
<1>4. /\ Head(CopyCalls) = "setCopyDevice" /\ Head(CopyCall) = "copyHome"
      /\ Head(UnsetCall) = "unsetCopyDevice" /\ Head(UnsetAndRestore) = "unsetCopyDevice"
      /\ Head(RestoreCall) = "restoreHome"
  BY ListTypes
<1>5. Tail(CopyCalls) = CopyCall /\ Tail(UnsetAndRestore) = RestoreCall
  <2>1. ASSUME NEW s \in Seq(Call), NEW t \in Seq(Call), Len(s) = 2, Len(t) = 1,
               t[1] = s[2]
        PROVE  Tail(s) = t
    <3>1. \A i \in 1 .. Len(t) : i = 1
      BY <2>1
    <3>2. \A i \in 1 .. Len(t) : t[i] = s[i + 1]
      BY <2>1, <3>1
    <3>3. Len(s) = Len(t) + 1
      BY <2>1
    <3> QED
      BY <1>1, <3>2, <3>3
  <2> QED
    BY <2>1, ListTypes
<1>6. Tail(CopyCall) = NoCall /\ Tail(UnsetCall) = NoCall /\ Tail(RestoreCall) = NoCall
  <2>1. ASSUME NEW s \in Seq(Call), Len(s) = 1 PROVE Tail(s) = NoCall
    <3>1. Len(s) = Len(NoCall) + 1 /\ 1 .. Len(NoCall) = {}
      BY <2>1, ListTypes
    <3>2. \A i \in 1 .. Len(NoCall) : NoCall[i] = s[i + 1]
      BY <3>1, Zenon
    <3> QED
      BY <1>1, <3>1, <3>2, ListTypes
  <2> QED
    BY <2>1, ListTypes
<1> QED
  BY <1>2, <1>3, <1>4, <1>5, <1>6, ListTypes

LEMMA Removing ==
    \E i \in DOMAIN UnsetCall : UnsetCall[i] = "unsetCopyDevice"
  BY ListTypes

LEMMA Spared ==
    ASSUME LosesCopy \cap Fault = {}
    PROVE  /\ "inotify" \notin Fault /\ "freed_proxy" \notin Fault
           /\ "lost_call" \notin Fault /\ "token" \notin Fault
           /\ "interrupted" \notin Fault
  BY DEF LosesCopy

\* What does not change with the data.
LEMMA SameData ==
    /\ UNCHANGED <<home, promised>> => (HomeFull' <=> HomeFull)
    /\ UNCHANGED <<card, promised>> => (CardFull' <=> CardFull) /\ (CardGood' <=> CardGood)
    /\ UNCHANGED <<home, card, promised>> => (NothingLost' <=> NothingLost)
  BY DEF HomeFull, CardFull, CardGood, NothingLost

LEMMA SameScript ==
    /\ UNCHANGED <<card, promised>> /\ script'["copy"] = script["copy"] /\ Copied => Copied'
    /\ UNCHANGED <<card, promised>> /\ script'["restore"] = script["restore"] /\ Restorable
        => Restorable'
    /\ UNCHANGED <<home, promised>> /\ script'["restore"] = script["restore"] /\ Restored
        => Restored'
  BY DEF Copied, Restorable, Restored

\* The data stays where it is, and so do the scripts.
LEMMA SameDataInv ==
    ASSUME UNCHANGED <<conf, home, card, promised, encrypted>>,
           UNCHANGED <<page, restoration, session, calls>>, DataInv
    PROVE  DataInv'
  BY SameData DEF DataInv, Free

LEMMA SameScriptInv ==
    ASSUME UNCHANGED <<script, conf, home, card, promised>>, CopyInv,
           /\ copying' /\ Copies' /\ (awaiting' = "StartUnit" \/ CopyRuns')
               => marker' = "1" /\ ~watch'
           /\ copying' /\ Copies' /\ awaiting' \in {"started", "marker"} /\ marker' = "0"
               => conf' /\ CardFull'
           /\ page' = "copying" /\ signal' = "success" => conf' /\ CardFull'
    PROVE  CopyInv'
  BY SameData, SameScript DEF CopyInv

-----------------------------------------------------------------------------
(* The callbacks of the service *)

\* Who waits when the service is copying: it was called by a client that still
\* waits for the answer, and has no call on its way.
LEMMA WhileCopying ==
    ASSUME KeptInv, copying
    PROVE  /\ calls = NoCall /\ signal = "none"
           /\ page = "copying" \/ restoration = "restoring"
           /\ page = "copying" => Copies
           /\ CopyRuns => Copies
           /\ awaiting \notin {"started", "marker"} => ~CopyRuns /\ ~RestoreRuns
<1>1. PhaseInv
  BY DEF KeptInv
<1>2. calls = NoCall /\ signal = "none" /\ (Copies \/ Restores)
  BY <1>1 DEF PhaseInv, CallsInv, ServiceInv
<1>3. (page = "copying" => restoration = "off") /\ (CopyRuns => page = "copying")
  BY <1>1 DEF PhaseInv, ClientInv, ScriptInv
<1>4. awaiting \notin {"started", "marker"} => ~CopyRuns /\ ~RestoreRuns
  BY <1>1 DEF PhaseInv, ScriptInv
<1> QED
  BY <1>2, <1>3, <1>4 DEF Copies, Restores

\* The service goes on to the next call of its own.
LEMMA KeptContinues ==
    ASSUME KeptInv, copying,
           \/ got_bus /\ Continues("systemd")
           \/ got_systemd_manager /\ Continues("subscribe")
           \/ started_copy_service /\ Continues("marker")
    PROVE  KeptInv'
<1>1. PhaseInv /\ CopyInv /\ DataInv
  BY DEF KeptInv
<1>2. PICK next \in {"systemd", "subscribe", "marker"} : Continues(next)
  OBVIOUS
<1>3. /\ UNCHANGED <<process, copying, unit, watch, calls, signal, script, marker>>
      /\ UNCHANGED <<conf, home, card, encrypted, session>>
      /\ UNCHANGED <<page, restoration, promised, reboots, killed>>
      /\ awaiting' = next
  BY <1>2 DEF Continues, bus_vars, script_vars, device_vars, client_vars
<1>4. IF next = "marker" THEN awaiting = "started" ELSE awaiting \in {"bus", "systemd"}
  BY <1>2, <1>3 DEF got_bus, got_systemd_manager, started_copy_service, Returns,
     Continues, ExitsWithError, EndsWith
<1>5. PhaseInv'
  BY <1>1, <1>3, <1>4, WhileCopying
    DEF PhaseInv, ClientInv, CallsInv, ServiceInv, ScriptInv, Copies, Restores, Free,
        GivenUp, CopyRuns, RestoreRuns
<1>6. CopyInv'
  BY <1>1, <1>3, <1>4, WhileCopying, SameScriptInv, SameData
    DEF CopyInv, Copies, CopyRuns
<1>7. DataInv'
  BY <1>1, <1>3, SameDataInv
<1> QED
  BY <1>5, <1>6, <1>7 DEF KeptInv

\* The result is signalled, and a success is one.
LEMMA KeptEnds ==
    ASSUME KeptInv, copying, ~CopyRuns, NEW result \in {"success", "failure"},
           result = "success" /\ page = "copying" => conf /\ CardFull,
           copying' = FALSE, awaiting' = "none", signal' = result,
           UNCHANGED <<unit, calls, script, device_vars, client_vars>>
    PROVE  KeptInv'
<1>1. PhaseInv /\ CopyInv /\ DataInv
  BY DEF KeptInv
<1>2. /\ UNCHANGED <<conf, home, card, encrypted, session>>
      /\ UNCHANGED <<page, restoration, promised, reboots, killed>>
  BY DEF device_vars, client_vars
<1>3. PhaseInv'
  BY <1>1, <1>2, WhileCopying
    DEF PhaseInv, ClientInv, CallsInv, ServiceInv, ScriptInv, Copies, Restores, Free,
        GivenUp, CopyRuns, RestoreRuns
<1>4. CopyInv'
  BY <1>1, <1>2, SameScriptInv, SameData DEF CopyInv
<1>5. DataInv'
  BY <1>1, <1>2, SameDataInv
<1> QED
  BY <1>3, <1>4, <1>5 DEF KeptInv

LEMMA KeptCallbacks ==
    ASSUME KeptInv, LosesCopy \cap Fault = {},
           \/ got_bus \/ got_systemd_manager \/ got_subscription
           \/ started_copy_service \/ wait_for_copy
    PROVE  KeptInv'
<1>1. PhaseInv /\ CopyInv /\ DataInv
  BY DEF KeptInv
<1>2. copying
  BY <1>1 DEF PhaseInv, ServiceInv, got_bus, got_systemd_manager, got_subscription,
     started_copy_service, wait_for_copy, Returns
<1>3. ASSUME NEW fault, ExitsWithError(fault), awaiting \notin {"started", "marker"}
      PROVE  KeptInv'
  BY <1>2, <1>3, WhileCopying, KeptEnds DEF ExitsWithError, EndsWith, script_vars
<1>4. CASE got_subscription /\ WatchAndStart
  <2>1. /\ UNCHANGED <<process, copying, unit, calls, signal, script>>
        /\ UNCHANGED <<conf, home, card, encrypted, session>>
        /\ UNCHANGED <<page, restoration, promised, reboots, killed>>
        /\ awaiting = "subscribe" /\ awaiting' = "StartUnit"
        /\ marker' = "1" /\ watch' = FALSE
    BY <1>4 DEF got_subscription, Returns, WatchAndStart, bus_vars, device_vars,
       client_vars
  <2>2. PhaseInv'
    BY <1>1, <1>2, <2>1, WhileCopying
      DEF PhaseInv, ClientInv, CallsInv, ServiceInv, ScriptInv, Copies, Restores, Free,
          GivenUp, CopyRuns, RestoreRuns
  <2>3. CopyInv'
    BY <1>1, <2>1, SameScriptInv, SameData DEF CopyInv
  <2>4. DataInv'
    BY <1>1, <2>1, SameDataInv
  <2> QED
    BY <2>2, <2>3, <2>4 DEF KeptInv
<1>5. CASE got_subscription /\ WatchFails
  BY <1>2, <1>5, WhileCopying, KeptEnds, Spared
    DEF got_subscription, Returns, WatchFails
<1>6. CASE wait_for_copy
  <2>1. ~CopyRuns
    BY <1>1, <1>2, <1>6, WhileCopying, Spared DEF wait_for_copy, CopyInv
  <2>2. PICK result \in {"success", "failure"} :
             EndsWith(result) /\ (result = "success" => marker = "0")
    BY <1>6 DEF wait_for_copy
  <2>3. result = "success" /\ page = "copying" => conf /\ CardFull
    BY <1>1, <1>2, <1>6, <2>2, WhileCopying DEF wait_for_copy, Returns, CopyInv
  <2> QED
    BY <1>2, <1>6, <2>1, <2>2, <2>3, KeptEnds DEF wait_for_copy, EndsWith, script_vars
<1>7. CASE got_bus
  BY <1>2, <1>3, <1>7, KeptContinues DEF got_bus, Returns
<1>8. CASE got_systemd_manager
  BY <1>2, <1>3, <1>8, KeptContinues DEF got_systemd_manager, Returns
<1>9. CASE started_copy_service
  BY <1>2, <1>3, <1>9, KeptContinues DEF started_copy_service, Returns
<1>10. CASE got_subscription
  BY <1>3, <1>4, <1>5, <1>10 DEF got_subscription, Returns
<1> QED
  BY <1>6, <1>7, <1>8, <1>9, <1>10

\* The life of the process.
LEMMA KeptProcess ==
    ASSUME KeptInv, LosesCopy \cap Fault = {},
           Activate \/ quit_if_idle \/ Exits \/ Killed
    PROVE  KeptInv'
<1>1. PhaseInv /\ CopyInv /\ DataInv
  BY DEF KeptInv
<1>2. /\ UNCHANGED <<calls, signal, script, marker>>
      /\ UNCHANGED <<conf, home, card, encrypted, session>>
      /\ UNCHANGED <<page, restoration, promised, reboots>>
  BY Spared DEF Activate, quit_if_idle, Exits, Killed, bus_vars, script_vars,
     device_vars, client_vars
<1>3. \/ copying' = FALSE /\ awaiting' = "none"
      \/ UNCHANGED <<copying, awaiting, unit, watch>>
  BY DEF Activate, quit_if_idle, Exits, Killed
<1>4. PhaseInv'
  BY <1>1, <1>2, <1>3
    DEF PhaseInv, ClientInv, CallsInv, ServiceInv, ScriptInv, Copies, Restores, Free,
        GivenUp, CopyRuns, RestoreRuns
<1>5. CopyInv'
  <2>1. CASE copying' = FALSE
    BY <1>1, <1>2, <2>1, SameScriptInv, SameData DEF CopyInv
  <2>2. CASE UNCHANGED <<copying, awaiting, unit, watch>>
    <3>1. Copies' <=> Copies
      BY <1>2, <2>2 DEF Copies
    <3>2. /\ (HomeFull' <=> HomeFull) /\ (CardFull' <=> CardFull)
          /\ (Copied => Copied') /\ (Restorable => Restorable') /\ (Restored => Restored')
      BY <1>2, SameData, SameScript
    <3>3. UNCHANGED <<copying, awaiting, watch, marker, signal, script, page, conf>>
      BY <1>2, <2>2
    <3> QED
      BY <1>1, <3>1, <3>2, <3>3 DEF CopyInv, CopyRuns
  <2> QED
    BY <1>3, <2>1, <2>2
<1>6. DataInv'
  BY <1>1, <1>2, SameDataInv
<1> QED
  BY <1>4, <1>5, <1>6 DEF KeptInv

\* A call is dispatched: no other is being answered.
LEMMA KeptCall ==
    ASSUME CopyTypeOK, KeptInv, handle_method_call PROVE KeptInv'
<1>1. PhaseInv /\ CopyInv /\ DataInv
  BY DEF KeptInv
<1>2. /\ ~copying /\ calls # NoCall /\ calls' = Tail(calls)
      /\ signal = "none" /\ ~CopyRuns /\ ~RestoreRuns
  BY <1>1 DEF handle_method_call, NoCall, PhaseInv, CallsInv
<1>3. /\ UNCHANGED <<process, watch, signal, script, marker, home, card, encrypted, session>>
      /\ UNCHANGED <<page, restoration, promised, reboots, killed>>
  BY DEF handle_method_call, script_vars, client_vars
<1>4. ASSUME /\ calls' \in {NoCall, CopyCall, RestoreCall}
             /\ calls' = CopyCall => page = "copying"
             /\ calls' = RestoreCall => restoration = "restoring"
             /\ calls' # NoCall => ~copying',
             \/ UNCHANGED <<copying, awaiting, unit>>
             \/ /\ copying' /\ awaiting' = "bus" /\ calls' = NoCall
                /\ \/ unit' = "copy" /\ page = "copying"
                   \/ unit' = "restore" /\ restoration = "restoring",
             conf' => page = "copying" \/ (conf /\ calls # UnsetCall)
      PROVE  KeptInv'
  <2>1. PhaseInv'
    BY <1>1, <1>2, <1>3, <1>4, ListsDiffer
      DEF PhaseInv, ClientInv, CallsInv, ServiceInv, ScriptInv, Copies, Restores, Free,
          GivenUp, CopyRuns, RestoreRuns
  <2>2. CopyInv'
    BY <1>1, <1>2, <1>3, <1>4, SameScript, SameData DEF CopyInv, Copies, CopyRuns, RestoreRuns
  <2>3. DataInv'
    BY <1>1, <1>2, <1>3, <1>4, SameData DEF DataInv, Free
  <2> QED
    BY <2>1, <2>2, <2>3 DEF KeptInv
<1>5. CASE calls = CopyCalls
  <2>1. Head(calls) = "setCopyDevice" /\ calls' = CopyCall /\ page = "copying"
    BY <1>1, <1>2, <1>5, ListsChange DEF PhaseInv, CallsInv
  <2>2. UNCHANGED <<copying, awaiting, unit>>
    BY <1>2, <2>1 DEF handle_method_call
  <2> QED
    BY <1>2, <1>4, <2>1, <2>2, ListsDiffer
<1>6. CASE calls = CopyCall
  <2>1. Head(calls) = "copyHome" /\ calls' = NoCall /\ page = "copying"
    BY <1>1, <1>2, <1>6, ListsChange DEF PhaseInv, CallsInv
  <2>2. copying' /\ awaiting' = "bus" /\ unit' = "copy"
    BY <1>2, <2>1 DEF handle_method_call, copy
  <2> QED
    BY <1>4, <2>1, <2>2, ListsDiffer
<1>7. CASE calls \in {UnsetCall, UnsetAndRestore}
  <2>1. Head(calls) = "unsetCopyDevice" /\ calls' \in {NoCall, RestoreCall}
    BY <1>2, <1>7, ListsChange
  <2>2. calls' = RestoreCall => restoration = "restoring"
    BY <1>1, <1>2, <1>7, ListsChange, ListsDiffer DEF PhaseInv, CallsInv
  <2>3. UNCHANGED <<copying, awaiting, unit>> /\ ~conf'
    BY <1>2, <2>1 DEF handle_method_call, set_copy_location
  <2> QED
    BY <1>2, <1>4, <2>1, <2>2, <2>3, ListsDiffer
<1>8. CASE calls = RestoreCall
  <2>1. Head(calls) = "restoreHome" /\ calls' = NoCall /\ restoration = "restoring"
    BY <1>1, <1>2, <1>8, ListsChange DEF PhaseInv, CallsInv
  <2>2. copying' /\ awaiting' = "bus" /\ unit' = "restore" /\ UNCHANGED conf
    BY <1>2, <2>1 DEF handle_method_call, copy
  <2> QED
    BY <1>4, <1>8, <2>1, <2>2, ListsDiffer
<1> QED
  BY <1>1, <1>2, <1>5, <1>6, <1>7, <1>8 DEF PhaseInv, CallsInv

-----------------------------------------------------------------------------
(* systemd and the scripts *)

\* A copy runs: the page waits for it, nothing is encrypted yet, and the service
\* has seen no end of it.
LEMMA WhileCopyRuns ==
    ASSUME KeptInv, CopyRuns
    PROVE  /\ page = "copying" /\ restoration = "off" /\ session = "up"
           /\ calls = NoCall /\ signal = "none" /\ ~RestoreRuns /\ ~Free
           /\ HomeFull
           /\ copying => /\ Copies /\ awaiting \in {"started", "marker"}
                         /\ marker = "1" /\ ~watch
<1>1. PhaseInv /\ CopyInv /\ DataInv
  BY DEF KeptInv
<1>2. page = "copying" /\ restoration = "off" /\ session = "up" /\ ~encrypted
  BY <1>1 DEF PhaseInv, ScriptInv, ClientInv
<1>3. calls = NoCall /\ signal = "none" /\ ~RestoreRuns
  BY <1>1, <1>2 DEF PhaseInv, CallsInv, ServiceInv, ScriptInv
<1>4. HomeFull /\ ~Free
  BY <1>1, <1>2 DEF DataInv, Free
<1>5. ASSUME copying PROVE Copies /\ awaiting \in {"started", "marker"} /\ marker = "1" /\ ~watch
  BY <1>1, <1>5, WhileCopying DEF PhaseInv, ScriptInv, CopyInv
<1> QED
  BY <1>2, <1>3, <1>4, <1>5

\* The copy goes on, at most the card changes.
LEMMA KeptCopyRuns ==
    ASSUME KeptInv, CopyRuns,
           UNCHANGED <<copying, awaiting, unit, calls, signal, conf, home, promised,
                       encrypted, session, page, restoration>>,
           script'["restore"] = script["restore"],
           copying /\ (awaiting = "StartUnit" \/ CopyRuns') => marker' = "1" /\ ~watch',
           copying /\ marker' = "0" => conf /\ CardFull',
           script'["copy"].at = "cp" => conf,
           script'["copy"].at = "cp" /\ script'["copy"].ok => Copied',
           script'["copy"].at = "report" /\ script'["copy"].ok => conf /\ CardFull'
    PROVE  KeptInv'
<1>1. PhaseInv /\ CopyInv /\ DataInv
  BY DEF KeptInv
<1>2. (RestoreRuns' <=> RestoreRuns) /\ (Copies' <=> Copies) /\ (Free' <=> Free)
  BY DEF RestoreRuns, Copies, Free
<1>3. PhaseInv'
  <2>1. ClientInv'
    BY <1>1 DEF PhaseInv, ClientInv
  <2>2. CallsInv'
    BY <1>1, WhileCopyRuns, ListsDiffer DEF PhaseInv, CallsInv
  <2>3. ServiceInv'
    BY <1>1, <1>2, WhileCopyRuns DEF PhaseInv, ServiceInv, Restores
  <2>4. ScriptInv'
    BY <1>1, <1>2, WhileCopyRuns DEF PhaseInv, ScriptInv
  <2> QED
    BY <2>1, <2>2, <2>3, <2>4 DEF PhaseInv
<1>4. CopyInv'
  <2>1. script'["restore"].at = "off" /\ signal' = "none"
    BY <1>2, WhileCopyRuns DEF RestoreRuns
  <2> QED
    BY <1>2, <2>1, WhileCopyRuns DEF CopyInv
<1>5. DataInv'
  <2>1. HomeFull' /\ NothingLost'
    <3>1. HomeFull'
      BY WhileCopyRuns, SameData
    <3> QED
      BY <3>1 DEF HomeFull, NothingLost
  <2> QED
    BY <1>1, <1>2, <2>1, WhileCopyRuns DEF DataInv
<1> QED
  BY <1>3, <1>4, <1>5 DEF KeptInv

LEMMA KeptCopyScript ==
    ASSUME CopyTypeOK, KeptInv, CopyStarts \/ CopyPart \/ CopyReports
    PROVE  KeptInv'
<1>1. ScriptOK /\ ServiceOK /\ DataOK /\ CopyInv
  BY TypeParts DEF KeptInv
<1>u. "copy" \in Unit /\ "restore" \in Unit /\ "copy" # "restore"
  BY DEF Unit
<1>p. /\ "start" \in Place /\ "cp" \in Place /\ "report" \in Place
      /\ {} \in SUBSET Part
  BY DEF Place
<1>2. CopyRuns
  BY DEF CopyStarts, CopyPart, CopyReports, CopyRuns
<1>3. UNCHANGED <<copying, awaiting, unit, calls, signal, conf, home, promised,
                  encrypted, session, page, restoration>>
  BY DEF CopyStarts, CopyPart, CopyReports, service_vars, bus_vars, device_vars,
     client_vars
<1>4. CASE CopyStarts
  <2>1. UNCHANGED <<watch, marker>>
    BY <1>4 DEF CopyStarts, service_vars
  <2>2. CASE conf /\ GoesTo("copy", "cp", Part, TRUE)
    <3>1. /\ script'["restore"] = script["restore"]
          /\ script'["copy"] = [at |-> "cp", left |-> Part, ok |-> TRUE]
      BY <1>1, <1>u, <1>p, <2>2, Goes
    <3>2. script'["copy"].at = "cp" /\ script'["copy"].left = Part /\ Copied'
      BY <3>1 DEF Copied
    <3> QED
      BY <1>2, <1>3, <2>1, <2>2, <3>1, <3>2, WhileCopyRuns, KeptCopyRuns
  <2>3. CASE GoesTo("copy", "report", {}, FALSE)
    <3>1. /\ script'["restore"] = script["restore"]
          /\ script'["copy"] = [at |-> "report", left |-> {}, ok |-> FALSE]
      BY <1>1, <1>u, <1>p, <2>3, Goes
    <3>2. script'["copy"].at = "report" /\ ~script'["copy"].ok
      BY <3>1
    <3> QED
      BY <1>2, <1>3, <2>1, <3>1, <3>2, WhileCopyRuns, KeptCopyRuns
  <2> QED
    BY <1>4, <2>2, <2>3 DEF CopyStarts
<1>5. CASE CopyPart
  <2>1. UNCHANGED <<watch, marker>> /\ conf
    BY <1>1, <1>5 DEF CopyPart, service_vars, CopyInv
  <2>2. PICK p \in script["copy"].left, ok \in BOOLEAN, next \in {"cp", "report"} :
               CopiesPart(p, ok, next)
    BY <1>1, <1>5, CopyPartSteps
  <2>3. p \in Part /\ script["copy"].left \ {p} \in SUBSET Part /\ next \in Place
    BY <1>1, <1>u, <1>p, ScriptParts
  <2>4. /\ script'["restore"] = script["restore"]
        /\ script'["copy"] = [at |-> next, left |-> script["copy"].left \ {p}, ok |-> ok]
    BY <1>1, <1>u, <2>2, <2>3, Goes DEF CopiesPart
  <2>5. /\ script'["copy"].at = next /\ script'["copy"].ok = ok
        /\ script'["copy"].left = script["copy"].left \ {p}
    BY <2>4
  <2>6. ASSUME ok PROVE Copied'
    <3>1. Copied
      BY <1>1, <1>5, <2>2, <2>6 DEF CopiesPart, CopyPart, CopyInv
    <3>2. card' = [card EXCEPT ![p] = home[p]] /\ promised' = promised /\ card \in [Part -> Version]
      BY <1>1, <1>3, <2>2, <2>6 DEF CopiesPart, DataOK
    <3>3. home[p] >= promised[p]
      BY <1>2, <2>3, WhileCopyRuns DEF HomeFull
    <3>4. ASSUME NEW q \in Part \ script'["copy"].left PROVE card'[q] >= promised[q]
      <4>1. CASE q = p
        BY <2>3, <3>2, <3>3, <4>1
      <4>2. CASE q # p
        <5>1. q \in Part \ script["copy"].left /\ card'[q] = card[q]
          BY <2>5, <3>2, <3>4, <4>2
        <5> QED
          BY <3>1, <5>1 DEF Copied
      <4> QED
        BY <4>1, <4>2
    <3> QED
      BY <3>2, <3>4 DEF Copied
  <2>7. ASSUME ok, next = "report" PROVE CardFull'
    <3>1. script'["copy"].left = {}
      BY <2>2, <2>5, <2>7 DEF CopiesPart
    <3> QED
      BY <2>6, <2>7, <3>1 DEF Copied, CardFull
  <2> QED
    BY <1>2, <1>3, <2>1, <2>4, <2>5, <2>6, <2>7, WhileCopyRuns, KeptCopyRuns
<1>6. CASE CopyReports
  <2>1. /\ script'["restore"] = script["restore"] /\ script'["copy"].at = "off"
    BY <1>1, <1>u, <1>6, Stops, States DEF CopyReports, Place
  <2>2. card' = card /\ script["copy"].at = "report"
        /\ (script["copy"].ok <=> marker' = "0")
    BY <1>6 DEF CopyReports, Reports, device_vars
  <2>3. script["copy"].ok => conf /\ CardFull'
    BY <1>1, <1>3, <2>2, SameData DEF CopyInv
  <2> QED
    BY <1>2, <1>3, <2>1, <2>2, <2>3, WhileCopyRuns, KeptCopyRuns DEF CopyRuns
<1> QED
  BY <1>4, <1>5, <1>6

\* systemd starts the script that the service wants to run.
LEMMA KeptStartUnit ==
    ASSUME CopyTypeOK, KeptInv, StartUnit PROVE KeptInv'
<1>1. PhaseInv /\ CopyInv /\ DataInv /\ ScriptOK /\ ServiceOK
  BY TypeParts DEF KeptInv
<1>2. copying /\ awaiting = "StartUnit" /\ ~CopyRuns /\ ~RestoreRuns
  BY <1>1, WhileCopying DEF StartUnit, Returns, PhaseInv, ServiceInv
<1>3. /\ UNCHANGED <<copying, unit, watch, calls, signal, marker, conf, home, card>>
      /\ UNCHANGED <<promised, encrypted, session, page, restoration>>
  BY DEF StartUnit, bus_vars, device_vars, client_vars
<1>4. \/ awaiting' = "started" /\ script' = [script EXCEPT ![unit].at = "start"]
      \/ awaiting' \in {"started", "refused"} /\ UNCHANGED script
  BY DEF StartUnit
<1>5. Copies \/ Restores
  BY <1>1, <1>2 DEF PhaseInv, ServiceInv
<1>6. (Copies' <=> Copies) /\ (Restores' <=> Restores) /\ (Free' <=> Free) /\ (GivenUp' <=> GivenUp)
  BY <1>3 DEF Copies, Restores, Free, GivenUp
<1>7. /\ script'["copy"].at \in {"off", "start"} /\ script'["restore"].at \in {"off", "start"}
      /\ CopyRuns' => Copies /\ awaiting' = "started"
      /\ RestoreRuns' => Restores /\ awaiting' = "started"
  <2>1. CASE UNCHANGED script
    BY <1>2, <2>1 DEF CopyRuns, RestoreRuns
  <2>2. CASE awaiting' = "started" /\ script' = [script EXCEPT ![unit].at = "start"]
    <3>1. CASE Copies
      <4>1. script'["copy"].at = "start" /\ script'["restore"] = script["restore"]
        BY <1>1, <2>2, <3>1, Starts DEF Copies, Unit
      <4> QED
        BY <1>2, <2>2, <3>1, <4>1 DEF RestoreRuns
    <3>2. CASE Restores
      <4>1. script'["restore"].at = "start" /\ script'["copy"] = script["copy"]
        BY <1>1, <2>2, <3>2, Starts DEF Restores, Unit
      <4> QED
        BY <1>2, <2>2, <3>2, <4>1 DEF CopyRuns
    <3> QED
      BY <1>5, <3>1, <3>2
  <2> QED
    BY <1>4, <2>1, <2>2
<1>8. PhaseInv'
  <2>1. ClientInv'
    BY <1>1, <1>3 DEF PhaseInv, ClientInv
  <2>2. CallsInv'
    BY <1>2, <1>3, WhileCopying, ListsDiffer DEF CallsInv
  <2>3. ServiceInv'
    <3>1. copying' /\ awaiting' # "none" /\ signal' = "none"
      BY <1>2, <1>3, <1>4, WhileCopying
    <3> QED
      BY <1>5, <1>6, <3>1 DEF ServiceInv
  <2>4. ScriptInv'
    BY <1>3, <1>7 DEF ScriptInv, Copies, Restores
  <2> QED
    BY <2>1, <2>2, <2>3, <2>4 DEF PhaseInv
<1>9. CopyInv'
  <2>1. Copies => marker = "1" /\ ~watch
    BY <1>1, <1>2 DEF CopyInv
  <2>2. signal' = "none"
    BY <1>2, <1>3, WhileCopying
  <2> QED
    BY <1>3, <1>6, <1>7, <2>1, <2>2 DEF CopyInv
<1>10. DataInv'
  BY <1>1, <1>3, SameDataInv
<1> QED
  BY <1>8, <1>9, <1>10 DEF KeptInv

\* A restoration runs: no page is shown but its own, and the card may be restored.
LEMMA WhileRestoreRuns ==
    ASSUME KeptInv, RestoreRuns
    PROVE  /\ page = "idle" /\ restoration \in {"restoring", "rebooting"} /\ session = "up"
           /\ calls = NoCall /\ ~CopyRuns /\ ~Copies /\ ~Free
           /\ conf => CardGood
           /\ copying => awaiting \in {"started", "marker"}
<1>1. PhaseInv /\ CopyInv /\ DataInv
  BY DEF KeptInv
<1>2. restoration \in {"restoring", "rebooting"} /\ restoration # "off"
  BY <1>1 DEF PhaseInv, ScriptInv
<1>3. page = "idle" /\ session = "up"
  BY <1>1, <1>2 DEF PhaseInv, ClientInv
<1>4. calls = NoCall /\ ~CopyRuns /\ ~Copies /\ ~Free
  BY <1>1, <1>2, <1>3 DEF PhaseInv, CallsInv, ScriptInv, Copies, Free
<1>5. conf => CardGood
  BY <1>1, <1>3, <1>4 DEF DataInv
<1>6. copying => awaiting \in {"started", "marker"}
  BY <1>1 DEF PhaseInv, ScriptInv
<1> QED
  BY <1>2, <1>3, <1>4, <1>5, <1>6

\* The restoration goes on, on what it has found on the card.
LEMMA KeptRestoreRuns ==
    ASSUME KeptInv, RestoreRuns,
           UNCHANGED <<copying, awaiting, unit, calls, signal, promised, encrypted,
                       session, page, restoration>>,
           script'["copy"] = script["copy"],
           conf' => conf /\ CardGood', NothingLost', HomeFull => HomeFull',
           script'["restore"].at = "cp" => Restorable',
           script'["restore"].at = "cp" /\ script'["restore"].ok => Restored',
           script'["restore"].at = "rm" => HomeFull'
    PROVE  KeptInv'
<1>1. PhaseInv /\ CopyInv /\ DataInv
  BY DEF KeptInv
<1>2. (CopyRuns' <=> CopyRuns) /\ (Copies' <=> Copies) /\ (Restores' <=> Restores)
      /\ (Free' <=> Free)
  BY DEF CopyRuns, Copies, Restores, Free
<1>3. PhaseInv'
  <2>1. ClientInv'
    BY <1>1 DEF PhaseInv, ClientInv
  <2>2. CallsInv'
    BY WhileRestoreRuns, ListsDiffer DEF CallsInv
  <2>3. ServiceInv'
    BY <1>1, <1>2 DEF PhaseInv, ServiceInv
  <2>4. ScriptInv'
    BY <1>2, WhileRestoreRuns DEF ScriptInv
  <2> QED
    BY <2>1, <2>2, <2>3, <2>4 DEF PhaseInv
<1>4. CopyInv'
  <2>1. script'["copy"].at = "off" /\ ~Copies' /\ page' # "copying"
    BY <1>2, WhileRestoreRuns DEF CopyRuns
  <2> QED
    BY <2>1 DEF CopyInv
<1>5. DataInv'
  <2>1. page' = "idle" /\ ~Free'
    BY <1>2, WhileRestoreRuns
  <2>2. ~encrypted' => HomeFull'
    BY <1>1 DEF DataInv
  <2> QED
    BY <2>1, <2>2 DEF DataInv
<1> QED
  BY <1>3, <1>4, <1>5 DEF KeptInv

LEMMA KeptRestoreScript ==
    ASSUME CopyTypeOK, KeptInv,
           \/ RestoreStarts \/ RestorePart \/ RestoreRemoves \/ RestoreReports
           \/ RestoreTidies
    PROVE  KeptInv'
<1>1. ScriptOK /\ ServiceOK /\ DataOK /\ CopyInv /\ NothingLost
  BY TypeParts DEF KeptInv, DataInv
<1>u. "copy" \in Unit /\ "restore" \in Unit /\ "copy" # "restore"
  BY DEF Unit
<1>p. /\ "cp" \in Place /\ "report" \in Place /\ "tidy" \in Place /\ "restart" \in Place
      /\ "rm" \in Place /\ {} \in SUBSET Part
  BY DEF Place
<1>s. script["restore"].left \in SUBSET Part /\ script["restore"].ok \in BOOLEAN
  BY <1>1, <1>u, ScriptParts
<1>2. RestoreRuns
  BY DEF RestoreStarts, RestorePart, RestoreRemoves, RestoreReports, RestoreTidies,
     RestoreRuns
<1>3. UNCHANGED <<copying, awaiting, unit, calls, signal, promised, encrypted,
                  session, page, restoration>>
  BY DEF RestoreStarts, RestorePart, RestoreRemoves, RestoreReports, RestoreTidies,
     service_vars, bus_vars, device_vars, client_vars
<1>4. ASSUME UNCHANGED <<home, card>>, conf' => conf,
             NEW place \in Place \ {"cp", "rm"}, NEW ok \in BOOLEAN,
             GoesTo("restore", place, {}, ok)
      PROVE  KeptInv'
  <2>1. /\ script'["copy"] = script["copy"]
        /\ script'["restore"] = [at |-> place, left |-> {}, ok |-> ok]
    BY <1>1, <1>u, <1>p, <1>4, Goes
  <2>2. script'["restore"].at \notin {"cp", "rm"}
    BY <1>4, <2>1
  <2>3. (HomeFull' <=> HomeFull) /\ (CardGood' <=> CardGood) /\ (NothingLost' <=> NothingLost)
    BY <1>3, <1>4, SameData
  <2> QED
    BY <1>1, <1>2, <1>3, <1>4, <2>1, <2>2, <2>3, WhileRestoreRuns, KeptRestoreRuns
<1>5. CASE RestoreStarts
  <2>1. UNCHANGED <<home, card, conf>>
    BY <1>5 DEF RestoreStarts, device_vars
  <2>2. CASE GoesTo("restore", "tidy", {}, FALSE)
    BY <1>4, <1>p, <2>1, <2>2
  <2>3. CASE conf /\ GoesTo("restore", "cp", {p \in Part : card[p] # 0}, TRUE)
    <3>1. /\ script'["copy"] = script["copy"]
          /\ script'["restore"] = [at |-> "cp", left |-> {p \in Part : card[p] # 0}, ok |-> TRUE]
      <4>1. {p \in Part : card[p] # 0} \in SUBSET Part
        OBVIOUS
      <4>2. ScriptOK /\ GoesTo("restore", "cp", {p \in Part : card[p] # 0}, TRUE)
        BY <1>1, <2>3
      <4> QED
        BY <1>u, <1>p, <4>1, <4>2, Goes
    <3>2. /\ script'["restore"].at = "cp"
          /\ script'["restore"].left = {p \in Part : card[p] # 0}
      BY <3>1
    <3>3. CardGood /\ (HomeFull' <=> HomeFull) /\ (CardGood' <=> CardGood) /\ NothingLost'
      BY <1>1, <1>2, <1>3, <2>1, <2>3, WhileRestoreRuns, SameData
    <3>4. Restorable'
      BY <1>3, <2>1, <3>2, <3>3 DEF Restorable, CardGood
    <3>5. Restored'
      <4>1. ASSUME NEW p \in Part \ script'["restore"].left PROVE home[p] >= promised[p]
        <5>1. card[p] = 0
          BY <3>2, <4>1
        <5>2. home[p] \in Nat /\ promised[p] \in Nat
          BY <1>1, <4>1, Numbers DEF DataOK
        <5> QED
          BY <1>1, <5>1, <5>2, <4>1 DEF NothingLost
      <4> QED
        BY <1>3, <2>1, <4>1 DEF Restored
    <3> QED
      BY <1>2, <1>3, <2>1, <3>1, <3>2, <3>3, <3>4, <3>5, KeptRestoreRuns
  <2> QED
    BY <1>5, <2>2, <2>3 DEF RestoreStarts
<1>6. CASE RestorePart
  <2>1. UNCHANGED <<card, conf>> /\ Restorable
    BY <1>1, <1>6 DEF RestorePart, CopyInv
  <2>2. PICK p \in script["restore"].left, ok \in BOOLEAN, next \in {"cp", "rm", "tidy"} :
               RestoresPart(p, ok, next)
    BY <1>1, <1>6, RestorePartSteps
  <2>3. p \in Part /\ script["restore"].left \ {p} \in SUBSET Part /\ next \in Place
    BY <1>s, <1>p
  <2>4. /\ script'["copy"] = script["copy"]
        /\ script'["restore"] = [at |-> next, left |-> script["restore"].left \ {p}, ok |-> ok]
    BY <1>1, <1>u, <2>2, <2>3, Goes DEF RestoresPart
  <2>5. /\ script'["restore"].at = next /\ script'["restore"].ok = ok
        /\ script'["restore"].left = script["restore"].left \ {p}
    BY <2>4
  <2>6. card[p] >= promised[p]
    BY <2>1 DEF Restorable
  <2>7. \A q \in Part : home'[q] = home[q] \/ home'[q] >= promised[q]
    BY <1>1, <2>2, <2>3, <2>6 DEF RestoresPart, DataOK
  <2>8. NothingLost' /\ (HomeFull => HomeFull') /\ (CardGood' <=> CardGood)
    <3>1. CardGood' <=> CardGood
      BY <1>3, <2>1, SameData
    <3>2. NothingLost' /\ (HomeFull => HomeFull')
      BY <1>1, <1>3, <2>1, <2>7 DEF NothingLost, HomeFull
    <3> QED
      BY <3>1, <3>2
  <2>9. Restorable'
    BY <1>3, <2>1, <2>5 DEF Restorable
  <2>10. ASSUME ok PROVE Restored'
    <3>1. Restored
      BY <1>1, <1>6, <2>2, <2>10 DEF RestoresPart, RestorePart, CopyInv
    <3>2. home' = [home EXCEPT ![p] = card[p]] /\ home \in [Part -> Version]
      BY <1>1, <2>2, <2>10 DEF RestoresPart, DataOK
    <3>3. ASSUME NEW q \in Part \ script'["restore"].left PROVE home'[q] >= promised[q]
      <4>1. CASE q = p
        BY <2>3, <2>6, <3>2, <4>1
      <4>2. CASE q # p
        <5>1. q \in Part \ script["restore"].left
          BY <2>5, <3>3, <4>2
        <5> QED
          BY <2>7, <3>1, <5>1 DEF Restored
      <4> QED
        BY <4>1, <4>2
    <3> QED
      BY <1>3, <3>3 DEF Restored
  <2>11. ASSUME next = "rm" PROVE HomeFull'
    <3>1. ok /\ script'["restore"].left = {}
      BY <2>2, <2>5, <2>11 DEF RestoresPart
    <3> QED
      BY <2>10, <3>1 DEF Restored, HomeFull
  <2> QED
    BY <1>2, <1>3, <2>1, <2>4, <2>5, <2>8, <2>9, <2>10, <2>11, WhileRestoreRuns,
       KeptRestoreRuns
<1>7. CASE RestoreRemoves
  <2>1. UNCHANGED <<home, conf>> /\ card' = NoParts /\ HomeFull
    BY <1>1, <1>7 DEF RestoreRemoves, CopyInv
  <2>2. /\ script'["copy"] = script["copy"]
        /\ script'["restore"] = [at |-> "report", left |-> {}, ok |-> TRUE]
    BY <1>1, <1>u, <1>p, <1>7, Goes DEF RestoreRemoves
  <2>3. script'["restore"].at = "report"
    BY <2>2
  <2>4. HomeFull'
    BY <1>3, <2>1, SameData
  <2>5. NothingLost' /\ CardGood'
    BY <2>1, <2>4, Numbers DEF NothingLost, HomeFull, CardGood
  <2> QED
    BY <1>2, <1>3, <2>1, <2>2, <2>3, <2>4, <2>5, KeptRestoreRuns
<1>8. CASE RestoreReports
  BY <1>4, <1>p, <1>s, <1>8 DEF RestoreReports, device_vars
<1>9. CASE RestoreTidies
  BY <1>4, <1>p, <1>s, <1>9 DEF RestoreTidies
<1> QED
  BY <1>5, <1>6, <1>7, <1>8, <1>9

LEMMA KeptScriptKilled ==
    ASSUME CopyTypeOK, KeptInv, NEW u \in Unit, ScriptKilled(u)
    PROVE  KeptInv'
<1>1. ScriptOK /\ PhaseInv /\ CopyInv /\ DataInv
  BY TypeParts DEF KeptInv
<1>2. /\ UNCHANGED <<copying, awaiting, unit, watch, calls, signal, marker, conf, home, card>>
      /\ UNCHANGED <<promised, encrypted, session, page, restoration>>
  BY DEF ScriptKilled, service_vars, bus_vars, device_vars
<1>3. /\ script'[u].at = "off"
      /\ \A v \in Unit : v # u => script'[v] = script[v]
  <2>1. script' = [script EXCEPT ![u] = Idle]
    BY DEF ScriptKilled
  <2>2. script'[u] = Idle /\ \A v \in Unit : v # u => script'[v] = script[v]
    BY <1>1, <2>1, Stops
  <2> QED
    BY <2>2 DEF Idle
<1>4. /\ script'["copy"].at = "off" \/ script'["copy"] = script["copy"]
      /\ script'["restore"].at = "off" \/ script'["restore"] = script["restore"]
  BY <1>3 DEF Unit
<1>5. (CopyRuns' => CopyRuns) /\ (RestoreRuns' => RestoreRuns)
  BY <1>4 DEF CopyRuns, RestoreRuns
<1>6. (Copies' <=> Copies) /\ (Restores' <=> Restores) /\ (Free' <=> Free) /\ (GivenUp' <=> GivenUp)
  BY <1>2 DEF Copies, Restores, Free, GivenUp
<1>7. PhaseInv'
  <2>1. ClientInv'
    BY <1>1, <1>2 DEF PhaseInv, ClientInv
  <2>2. CallsInv'
    BY <1>1, <1>2, <1>5, <1>6 DEF PhaseInv, CallsInv
  <2>3. ServiceInv'
    BY <1>1, <1>2, <1>5, <1>6 DEF PhaseInv, ServiceInv
  <2>4. ScriptInv'
    BY <1>1, <1>2, <1>5 DEF PhaseInv, ScriptInv
  <2> QED
    BY <2>1, <2>2, <2>3, <2>4 DEF PhaseInv
<1>8. CopyInv'
  <2>1. (HomeFull' <=> HomeFull) /\ (CardFull' <=> CardFull)
    BY <1>2, SameData
  <2>2. /\ script'["copy"] = script["copy"] /\ Copied => Copied'
        /\ script'["restore"] = script["restore"] /\ Restorable => Restorable'
        /\ script'["restore"] = script["restore"] /\ Restored => Restored'
    BY <1>2, SameScript
  <2> QED
    BY <1>1, <1>2, <1>4, <1>5, <1>6, <2>1, <2>2 DEF CopyInv
<1>9. DataInv'
  BY <1>1, <1>2, SameDataInv
<1> QED
  BY <1>7, <1>8, <1>9 DEF KeptInv

-----------------------------------------------------------------------------
(* The clients *)

\* Neither page is shown: nothing is on its way to them and nothing runs for them.
LEMMA WhileIdle ==
    ASSUME KeptInv, page # "copying", restoration \in {"off", "starting"}
    PROVE  /\ ~copying /\ signal = "none" /\ ~CopyRuns /\ ~RestoreRuns
           /\ calls \in {NoCall, UnsetCall} /\ awaiting = "none"
<1>1. PhaseInv
  BY DEF KeptInv
<1>2. ~copying /\ signal = "none" /\ awaiting = "none"
  BY <1>1 DEF PhaseInv, ServiceInv, Copies, Restores
<1>3. ~CopyRuns /\ ~RestoreRuns
  BY <1>1 DEF PhaseInv, ScriptInv
<1>4. calls \in {NoCall, UnsetCall}
  BY <1>1 DEF PhaseInv, CallsInv
<1> QED
  BY <1>2, <1>3, <1>4

\* It stays so, or a client begins to wait.
LEMMA KeptIdle ==
    ASSUME ~copying', awaiting' = "none", signal' = "none", ~CopyRuns', ~RestoreRuns',
           ClientInv', CallsInv', DataInv'
    PROVE  KeptInv'
<1>1. ServiceInv' /\ ScriptInv'
  BY DEF ServiceInv, ScriptInv
<1>2. CopyInv'
  BY DEF CopyInv, CopyRuns, RestoreRuns
<1> QED
  BY <1>1, <1>2 DEF KeptInv, PhaseInv

LEMMA KeptEdits ==
    ASSUME CopyTypeOK, KeptInv, NEW p \in Part, UserEdits(p)
    PROVE  KeptInv'
<1>1. PhaseInv /\ DataInv /\ DataOK
  BY TypeParts DEF KeptInv
<1>2. Free /\ ~copying /\ signal = "none" /\ ~CopyRuns /\ ~RestoreRuns /\ awaiting = "none"
  BY WhileIdle DEF UserEdits, Free
<1>3. /\ UNCHANGED <<copying, awaiting, signal, script, calls, conf, card>>
      /\ UNCHANGED <<encrypted, session, page, restoration>> /\ calls = NoCall
  BY DEF UserEdits, service_vars, bus_vars, script_vars, NoCall
<1>4. ~conf
  BY <1>1, <1>2, <1>3, ListsDiffer DEF DataInv
<1>5. /\ home \in [Part -> Version] /\ promised \in [Part -> Version]
      /\ home' = [home EXCEPT ![p] = home[p] + 1]
      /\ promised' = [promised EXCEPT ![p] = home'[p]]
  BY <1>1 DEF UserEdits, DataOK
<1>6. ASSUME NEW q \in Part
      PROVE  \/ q = p /\ home'[q] >= promised'[q]
             \/ home'[q] = home[q] /\ promised'[q] = promised[q]
  <2>1. CASE q = p
    <3>1. promised'[q] = home'[q]
      BY <1>5, <2>1
    <3>2. home'[q] \in Nat
      BY ClientType, Numbers DEF CopyTypeOK
    <3> QED
      BY <2>1, <3>1, <3>2
  <2>2. CASE q # p
    BY <1>5, <2>2
  <2> QED
    BY <2>1, <2>2
<1>7. NothingLost' /\ (HomeFull => HomeFull')
  BY <1>1, <1>3, <1>6 DEF DataInv, NothingLost, HomeFull
<1>8. DataInv'
  BY <1>1, <1>2, <1>3, <1>4, <1>7 DEF DataInv, Free
<1>9. ClientInv' /\ CallsInv'
  BY <1>1, <1>3, ListsDiffer DEF PhaseInv, ClientInv, CallsInv
<1> QED
  BY <1>2, <1>3, <1>8, <1>9, KeptIdle DEF CopyRuns, RestoreRuns

\* The settings page begins, with a copy or without.
LEMMA KeptPageBegins ==
    ASSUME CopyTypeOK, KeptInv, PageCopies \/ PageDoesNotCopy
    PROVE  KeptInv'
<1>1. PhaseInv /\ DataInv /\ DataOK
  BY TypeParts DEF KeptInv
<1>2. Free /\ ~encrypted /\ calls = NoCall
  BY DEF PageCopies, PageDoesNotCopy, Offered, Free, NoCall
<1>3. ~copying /\ signal = "none" /\ ~CopyRuns /\ ~RestoreRuns /\ awaiting = "none"
  BY <1>2, WhileIdle DEF Free
<1>4. UNCHANGED <<copying, awaiting, signal, script, conf, home, card, encrypted,
                  session, restoration>>
  BY DEF PageCopies, PageDoesNotCopy, service_vars, script_vars, device_vars
<1>5. ~CopyRuns' /\ ~RestoreRuns'
  BY <1>3, <1>4 DEF CopyRuns, RestoreRuns
<1>6. CASE PageCopies
  <2>1. page' = "copying" /\ calls' = CopyCalls /\ promised' = promised
    BY <1>2, <1>6, ListsChange DEF PageCopies, Calls, CopyCalls
  <2>2. ClientInv'
    BY <1>1, <1>2, <1>4, <2>1 DEF PhaseInv, ClientInv, Free
  <2>3. CallsInv'
    BY <1>3, <1>4, <1>5, <2>1, ListsDiffer DEF CallsInv
  <2>4. DataInv'
    BY <1>1, <1>4, <2>1, SameData DEF DataInv, Free
  <2> QED
    BY <1>3, <1>4, <1>5, <2>2, <2>3, <2>4, KeptIdle
<1>7. CASE PageDoesNotCopy
  <2>1. page' = "encrypting" /\ calls' = UnsetCall /\ promised' = NoParts
    BY <1>2, <1>7, ListsChange DEF PageDoesNotCopy, Calls, UnsetCall
  <2>2. ClientInv'
    BY <1>1, <1>2, <1>4, <2>1 DEF PhaseInv, ClientInv, Free
  <2>3. CallsInv'
    <3>1. GivenUp' /\ restoration' = "off"
      BY <1>2, <1>4, <2>1 DEF GivenUp, Free
    <3> QED
      BY <1>3, <1>4, <1>5, <2>1, <3>1, ListsDiffer DEF CallsInv
  <2>4. \A p \in Part : home'[p] >= promised'[p] /\ card'[p] >= promised'[p]
    <3>1. ASSUME NEW p \in Part PROVE home[p] >= 0 /\ card[p] >= 0
      <4>1. home[p] \in Version /\ card[p] \in Version
        BY <1>1, <3>1 DEF DataOK
      <4>2. home[p] \in Nat /\ card[p] \in Nat
        BY <4>1, Numbers
      <4> QED
        BY <4>2
    <3>2. \A p \in Part : promised'[p] = 0
      BY <2>1, Numbers
    <3> QED
      BY <1>4, <3>1, <3>2
  <2>5. NothingLost' /\ HomeFull' /\ CardFull' /\ CardGood'
    BY <2>4 DEF NothingLost, HomeFull, CardFull, CardGood
  <2>6. DataInv'
    BY <2>1, <2>5 DEF DataInv, Free
  <2> QED
    BY <1>3, <1>4, <1>5, <2>2, <2>3, <2>6, KeptIdle
<1> QED
  BY <1>6, <1>7

\* A result has come: the client that gets it has no call on its way.
LEMMA WhenSignalled ==
    ASSUME KeptInv, signal # "none"
    PROVE  calls = NoCall /\ ~copying /\ awaiting = "none" /\ ~CopyRuns
<1>1. PhaseInv
  BY DEF KeptInv
<1> QED
  BY <1>1 DEF PhaseInv, CallsInv, ServiceInv

LEMMA KeptPageCopied ==
    ASSUME CopyTypeOK, KeptInv, LosesCopy \cap Fault = {}, PageCopied
    PROVE  KeptInv'
<1>1. PhaseInv /\ CopyInv /\ DataInv
  BY DEF KeptInv
<1>2. /\ page = "copying" /\ signal # "none" /\ signal' = "none"
      /\ UNCHANGED <<copying, awaiting, script, conf, home, card, promised>>
      /\ UNCHANGED <<encrypted, session, restoration>>
  BY DEF PageCopied, service_vars, script_vars, device_vars
<1>3. calls = NoCall /\ ~copying /\ awaiting = "none" /\ ~CopyRuns
  BY <1>2, WhenSignalled
<1>4. session = "up" /\ restoration = "off" /\ ~RestoreRuns /\ ~encrypted
  BY <1>1, <1>2 DEF PhaseInv, ClientInv, ScriptInv
<1>5. ~CopyRuns' /\ ~RestoreRuns' /\ ~copying' /\ awaiting' = "none"
  BY <1>2, <1>3, <1>4 DEF CopyRuns, RestoreRuns
<1>6. (CardFull' <=> CardFull) /\ (CardGood' <=> CardGood) /\ (HomeFull' <=> HomeFull)
      /\ (NothingLost' <=> NothingLost)
  BY <1>2, SameData
<1>7. CASE signal = "success" /\ page' = "encrypting" /\ UNCHANGED calls
  <2>1. CardFull /\ CardGood
    BY <1>1, <1>2, <1>7 DEF CopyInv, CardFull, CardGood
  <2>2. ClientInv' /\ CallsInv'
    BY <1>2, <1>3, <1>4, <1>7, ListsDiffer DEF ClientInv, CallsInv
  <2>3. DataInv'
    BY <1>1, <1>2, <1>6, <1>7, <2>1 DEF DataInv, Free
  <2> QED
    BY <1>2, <1>5, <2>2, <2>3, KeptIdle
<1>8. CASE page' = "idle" /\ Calls(<<"unsetCopyDevice">>)
  <2>1. calls' = UnsetCall
    BY <1>3, <1>8, ListsChange DEF Calls, UnsetCall
  <2>2. Free'
    BY <1>2, <1>4, <1>8 DEF Free
  <2>3. ClientInv'
    BY <1>2, <1>4, <1>8 DEF ClientInv
  <2>4. CallsInv'
    BY <1>2, <1>5, <2>1, <2>2, ListsDiffer DEF CallsInv
  <2>5. DataInv'
    BY <1>1, <1>2, <1>6, <1>8, <2>1, <2>2 DEF DataInv
  <2> QED
    BY <1>2, <1>5, <2>3, <2>4, <2>5, KeptIdle
<1> QED
  BY <1>7, <1>8, Spared DEF PageCopied

\* The page of the restoration asks for it.
LEMMA KeptRestorationStarts ==
    ASSUME KeptInv, RestorationStarts PROVE KeptInv'
<1>1. PhaseInv /\ DataInv
  BY DEF KeptInv
<1>2. restoration = "starting" /\ page = "idle" /\ session = "up"
  BY <1>1 DEF RestorationStarts, PhaseInv, ClientInv
<1>3. /\ ~copying /\ signal = "none" /\ ~CopyRuns /\ ~RestoreRuns
      /\ calls \in {NoCall, UnsetCall} /\ awaiting = "none"
  BY <1>2, WhileIdle
<1>4. /\ UNCHANGED <<copying, awaiting, signal, script, conf, home, card, promised>>
      /\ UNCHANGED <<encrypted, session, page>> /\ restoration' = "restoring"
  BY DEF RestorationStarts, service_vars, script_vars, device_vars
<1>5. ~Free /\ ~Free'
  BY <1>2, <1>4 DEF Free
<1>6. \/ calls = NoCall /\ calls' = RestoreCall
      \/ calls = UnsetCall /\ calls' = UnsetAndRestore /\ promised = NoParts
  <2>1. calls' = calls \o RestoreCall
    BY DEF RestorationStarts, Calls, RestoreCall
  <2>2. calls = UnsetCall => promised = NoParts
    BY <1>1, <1>5 DEF PhaseInv, CallsInv, GivenUp
  <2> QED
    BY <1>3, <2>1, <2>2, ListsChange
<1>7. ~CopyRuns' /\ ~RestoreRuns' /\ ~copying' /\ awaiting' = "none" /\ signal' = "none"
  BY <1>3, <1>4 DEF CopyRuns, RestoreRuns
<1>8. ClientInv'
  BY <1>2, <1>4 DEF ClientInv
<1>9. CallsInv'
  BY <1>4, <1>6, <1>7, ListsDiffer DEF CallsInv
<1>10. DataInv'
  BY <1>1, <1>4, <1>5, <1>2, SameData DEF DataInv
<1> QED
  BY <1>7, <1>8, <1>9, <1>10, KeptIdle

LEMMA KeptRestorationEnds ==
    ASSUME KeptInv, RestorationEnds PROVE KeptInv'
<1>1. PhaseInv /\ CopyInv /\ DataInv
  BY DEF KeptInv
<1>2. /\ restoration = "restoring" /\ signal # "none" /\ signal' = "none"
      /\ UNCHANGED <<copying, awaiting, unit, watch, script, marker, conf, home, card, promised>>
      /\ UNCHANGED <<encrypted, session, page, calls>> /\ restoration' = "rebooting"
  BY DEF RestorationEnds, service_vars, script_vars, device_vars
<1>3. calls = NoCall /\ ~copying /\ awaiting = "none" /\ ~CopyRuns
  BY <1>2, WhenSignalled
<1>4. page = "idle" /\ session = "up"
  BY <1>1, <1>2 DEF PhaseInv, ClientInv
<1>5. PhaseInv'
  <2>1. ~CopyRuns' /\ ~copying'
    BY <1>2, <1>3 DEF CopyRuns
  <2>2. ClientInv' /\ CallsInv'
    BY <1>2, <1>3, <1>4, ListsDiffer DEF ClientInv, CallsInv
  <2>3. ServiceInv' /\ ScriptInv'
    BY <1>2, <1>3, <2>1 DEF ServiceInv, ScriptInv
  <2> QED
    BY <2>2, <2>3 DEF PhaseInv
<1>6. CopyInv'
  BY <1>1, <1>2, <1>3, <1>4, SameData, SameScript DEF CopyInv
<1>7. DataInv'
  <2>1. ~Free /\ ~Free'
    BY <1>2 DEF Free
  <2> QED
    BY <1>1, <1>2, <1>4, <2>1, SameData DEF DataInv
<1> QED
  BY <1>5, <1>6, <1>7 DEF KeptInv

-----------------------------------------------------------------------------
(* The device *)

LEMMA KeptEncryption ==
    ASSUME CopyTypeOK, KeptInv, Encryption PROVE KeptInv'
<1>1. PhaseInv /\ DataInv /\ DataOK
  BY TypeParts DEF KeptInv
<1>2. page = "encrypting" /\ restoration = "off" /\ session = "up"
  BY <1>1 DEF Encryption, PhaseInv, ClientInv
<1>3. /\ ~copying /\ signal = "none" /\ ~CopyRuns /\ ~RestoreRuns
      /\ calls \in {NoCall, UnsetCall} /\ awaiting = "none"
  BY <1>2, WhileIdle
<1>4. /\ UNCHANGED <<copying, awaiting, calls, signal, script, conf, card, promised>>
      /\ UNCHANGED restoration /\ page' = "idle" /\ session' = "finishing"
      /\ \/ encrypted' /\ home' = NoParts
         \/ UNCHANGED <<encrypted, home>>
  BY DEF Encryption, service_vars, bus_vars, script_vars
<1>5. ~Free /\ ~Free' /\ ~CopyRuns' /\ ~RestoreRuns'
  BY <1>2, <1>3, <1>4 DEF Free, CopyRuns, RestoreRuns
<1>6. ClientInv'
  BY <1>2, <1>4 DEF ClientInv
<1>7. CallsInv'
  <2>1. calls = UnsetCall => promised = NoParts
    BY <1>1, <1>5 DEF PhaseInv, CallsInv, GivenUp
  <2>2. calls' = UnsetCall => GivenUp'
    BY <1>4, <1>5, <2>1 DEF GivenUp
  <2> QED
    BY <1>2, <1>3, <1>4, <1>5, <2>2, ListsDiffer DEF CallsInv
<1>8. DataInv'
  <2>1. CardFull' /\ (CardGood' <=> CardGood)
    BY <1>1, <1>2, <1>4, SameData DEF DataInv
  <2>2. NothingLost'
    BY <2>1 DEF CardFull, NothingLost
  <2>3. ~encrypted' => HomeFull'
    BY <1>1, <1>4, SameData DEF DataInv
  <2> QED
    BY <1>1, <1>2, <1>4, <1>5, <2>1, <2>2, <2>3 DEF DataInv
<1> QED
  BY <1>3, <1>4, <1>5, <1>6, <1>7, <1>8, KeptIdle

LEMMA KeptEncryptionFinishes ==
    ASSUME CopyTypeOK, KeptInv, EncryptionFinishes PROVE KeptInv'
<1>1. PhaseInv /\ DataInv /\ DataOK
  BY TypeParts DEF KeptInv
<1>2. page = "idle" /\ restoration = "off" /\ session = "finishing"
  <2>1. session = "finishing"
    BY DEF EncryptionFinishes
  <2> QED
    BY <1>1, <2>1, TypeParts DEF PhaseInv, ClientInv, ClientOK
<1>3. /\ ~copying /\ signal = "none" /\ ~CopyRuns /\ ~RestoreRuns
      /\ calls \in {NoCall, UnsetCall} /\ awaiting = "none"
  BY <1>2, WhileIdle
<1>4. /\ UNCHANGED <<copying, awaiting, calls, script, conf, promised, encrypted>>
      /\ page' = "idle" /\ session' = "up" /\ signal' = "none"
      /\ restoration' = IF conf THEN "starting" ELSE "off"
  BY DEF EncryptionFinishes, SessionStarts, service_vars, script_vars
<1>5. ~Free /\ ~CopyRuns' /\ ~RestoreRuns' /\ (conf => ~Free')
  BY <1>2, <1>3, <1>4 DEF Free, CopyRuns, RestoreRuns
<1>6. ClientInv'
  BY <1>4 DEF ClientInv
<1>7. CallsInv'
  <2>1. calls = UnsetCall => promised = NoParts
    BY <1>1, <1>5 DEF PhaseInv, CallsInv, GivenUp
  <2>2. calls' = UnsetCall => Free' \/ (GivenUp' /\ restoration' \in {"off", "starting"})
    BY <1>4, <1>5, <2>1 DEF GivenUp, Free
  <2> QED
    BY <1>3, <1>4, <1>5, <2>2, ListsDiffer DEF CallsInv
<1>8. conf => CardGood
  BY <1>1, <1>2, <1>5 DEF DataInv
<1>9. NothingLost' /\ (~encrypted => HomeFull') /\ (conf => CardGood')
  <2>1. CASE UNCHANGED <<home, card>>
    BY <1>1, <1>4, <1>8, <2>1, SameData DEF DataInv
  <2>2. CASE /\ encrypted /\ conf /\ card[local] # 0
             /\ home' = [home EXCEPT ![local] = card[local]]
             /\ card' = [card EXCEPT ![local] = 0]
    <3>1. home \in [Part -> Version] /\ card \in [Part -> Version] /\ local \in Part
      BY <1>1, LocalAssumption DEF DataOK
    <3>2. card[local] >= promised[local]
      BY <1>8, <2>2, <3>1 DEF CardGood
    <3>3. \A p \in Part : \/ p = local /\ home'[p] >= promised[p] /\ card'[p] = 0
                          \/ home'[p] = home[p] /\ card'[p] = card[p]
      BY <2>2, <3>1, <3>2
    <3> QED
      BY <1>1, <1>4, <1>8, <2>2, <3>3 DEF DataInv, NothingLost, CardGood
  <2> QED
    BY <2>1, <2>2 DEF EncryptionFinishes
<1>10. DataInv'
  BY <1>1, <1>2, <1>4, <1>5, <1>9 DEF DataInv
<1> QED
  BY <1>3, <1>4, <1>5, <1>6, <1>7, <1>10, KeptIdle

LEMMA KeptRestarts ==
    ASSUME CopyTypeOK, KeptInv, RestoreRestartsSession PROVE KeptInv'
<1>1. PhaseInv /\ CopyInv /\ DataInv /\ ScriptOK
  BY TypeParts DEF KeptInv
<1>2. RestoreRuns /\ ~copying
  BY DEF RestoreRestartsSession, RestoreRuns
<1>3. page = "idle" /\ session = "up" /\ ~Free /\ calls = NoCall /\ ~CopyRuns
      /\ (conf => CardGood)
  BY <1>2, WhileRestoreRuns
<1>4. /\ UNCHANGED <<copying, awaiting, calls, conf, home, card, promised, encrypted>>
      /\ page' = "idle" /\ session' = "up" /\ signal' = "none"
      /\ restoration' = IF conf THEN "starting" ELSE "off"
  BY <1>3 DEF RestoreRestartsSession, SessionStarts, service_vars
<1>5. ~CopyRuns' /\ ~RestoreRuns'
  BY <1>1, <1>3, Stops DEF RestoreRestartsSession, Unit, Idle, CopyRuns, RestoreRuns
<1>6. ClientInv'
  BY <1>4 DEF ClientInv
<1>7. CallsInv'
  BY <1>3, <1>4, ListsDiffer DEF CallsInv
<1>8. DataInv'
  <2>1. conf => ~Free'
    BY <1>4 DEF Free
  <2> QED
    BY <1>1, <1>3, <1>4, <2>1, SameData DEF DataInv
<1>9. ~copying' /\ awaiting' = "none"
  BY <1>1, <1>2, <1>4 DEF PhaseInv, ServiceInv
<1> QED
  BY <1>4, <1>5, <1>6, <1>7, <1>8, <1>9, KeptIdle

LEMMA KeptReboot ==
    ASSUME KeptInv, LosesCopy \cap Fault = {}, Reboot PROVE KeptInv'
<1>1. PhaseInv /\ DataInv
  BY DEF KeptInv
<1>2. page # "copying" /\ calls # UnsetCall
  BY Spared, Removing DEF Reboot, CopyUnfinished
<1>3. /\ UNCHANGED <<conf, home, card, promised, encrypted>>
      /\ page' = "idle" /\ session' = "up" /\ signal' = "none"
      /\ restoration' = IF conf THEN "starting" ELSE "off"
      /\ ~copying' /\ awaiting' = "none" /\ calls' = NoCall
  BY DEF Reboot, SessionStarts, NoCall
<1>4. ~CopyRuns' /\ ~RestoreRuns'
  <2>1. script'["copy"] = Idle /\ script'["restore"] = Idle
    BY DEF Reboot, Unit
  <2> QED
    BY <2>1 DEF CopyRuns, RestoreRuns, Idle
<1>5. ClientInv' /\ CallsInv'
  BY <1>3, ListsDiffer DEF ClientInv, CallsInv
<1>6. DataInv'
  <2>1. conf => ~Free'
    BY <1>3 DEF Free
  <2> QED
    BY <1>1, <1>2, <1>3, <2>1, SameData DEF DataInv
<1> QED
  BY <1>3, <1>4, <1>5, <1>6, KeptIdle

-----------------------------------------------------------------------------
(* Nothing is lost *)

LEMMA KeptInit == Init => KeptInv
<1> SUFFICES ASSUME Init PROVE KeptInv
  OBVIOUS
<1>1. /\ page = "idle" /\ restoration = "off" /\ session = "up" /\ signal = "none"
      /\ ~copying /\ awaiting = "none" /\ ~conf /\ calls = NoCall
      /\ script["copy"].at = "off" /\ script["restore"].at = "off"
  BY DEF Init, NoCall, Unit, Idle
<1>2. ClientInv /\ CallsInv
  BY <1>1, ListsDiffer DEF ClientInv, CallsInv
<1>3. ServiceInv /\ ScriptInv
  BY <1>1 DEF ServiceInv, ScriptInv, CopyRuns, RestoreRuns
<1>4. CopyInv
  BY <1>1 DEF CopyInv, CopyRuns
<1>5. HomeFull
  BY DEF Init, HomeFull
<1>6. NothingLost
  BY <1>5 DEF HomeFull, NothingLost
<1>7. DataInv
  BY <1>1, <1>5, <1>6 DEF DataInv
<1> QED
  BY <1>2, <1>3, <1>4, <1>7 DEF KeptInv, PhaseInv

LEMMA KeptStep ==
    ASSUME CopyTypeOK, KeptInv, LosesCopy \cap Fault = {}, [Next]_vars
    PROVE  KeptInv'
<1>1. CASE UNCHANGED vars
  <2>1. /\ UNCHANGED <<copying, awaiting, unit, watch, calls, signal, script, marker>>
        /\ UNCHANGED <<conf, home, card, encrypted, session>>
        /\ UNCHANGED <<page, restoration, promised>>
    BY <1>1 DEF vars, service_vars, bus_vars, script_vars, device_vars, client_vars
  <2> QED
    BY <2>1 DEF KeptInv, PhaseInv, ClientInv, CallsInv, ServiceInv, ScriptInv, CopyInv,
       DataInv, NothingLost, HomeFull, CardFull, CardGood, Copied, Restorable, Restored,
       Copies, Restores, Free, GivenUp, CopyRuns, RestoreRuns
<1>2. CASE Next
  BY <1>2, KeptCallbacks, KeptProcess, KeptCall, KeptStartUnit, KeptCopyScript,
     KeptRestoreScript, KeptScriptKilled, KeptEdits, KeptPageBegins, KeptPageCopied,
     KeptRestorationStarts, KeptRestorationEnds, KeptEncryption,
     KeptEncryptionFinishes, KeptRestarts, KeptReboot
    DEF Next, Service, Scripts, Clients
<1> QED
  BY <1>1, <1>2

\* What the user may expect to find is on /home or on the card through any copy,
\* encryption, restoration and reboot, whatever fails, as long as nothing lets the
\* service or its client go on before a copy is over (homecopy.c wait_for_copy,
\* home-encryption-copy.sh, home-restore.sh, home-encryption-finish.sh).
THEOREM NothingIsLost ==
    ASSUME LosesCopy \cap Fault = {} PROVE Spec => []NothingLost
<1>1. KeptInv => NothingLost
  BY DEF KeptInv, DataInv
<1>2. CopyTypeOK /\ KeptInv /\ [Next]_vars => KeptInv'
  BY KeptStep
<1> QED
  BY <1>1, <1>2, KeptInit, TypeInit, TypeStep, PTL DEF Spec

\* The settings page encrypts after a copy only when all that the user may expect
\* is on the card and the configuration names it (encryption.qml, CopyService.qml),
\* under the same assumption.
THEOREM EncryptsCompleteCopies ==
    ASSUME LosesCopy \cap Fault = {} PROVE Spec => EncryptsOnlyCompleteCopy
<1>1. ASSUME CopyTypeOK, KeptInv, [Next]_vars
      PROVE  [page = "copying" /\ page' = "encrypting"
               => conf /\ \A p \in Part : card[p] >= promised[p]]_vars
  <2>1. ASSUME page = "copying", page' = "encrypting", Next
        PROVE  conf /\ \A p \in Part : card[p] >= promised[p]
    <3>1. PageCopied
      BY <2>1 DEF Next, Service, Scripts, Clients, got_bus, got_systemd_manager,
         got_subscription, started_copy_service, wait_for_copy, Continues, WatchAndStart,
         WatchFails, ExitsWithError, handle_method_call, Activate, Exits, quit_if_idle,
         Killed, StartUnit, CopyStarts, CopyPart, CopyReports, RestoreStarts, RestorePart,
         RestoreRemoves, RestoreReports, RestoreTidies, RestoreRestartsSession,
         SessionStarts, ScriptKilled, UserEdits, PageCopies, PageDoesNotCopy, Offered,
         Encryption, EncryptionFinishes, Reboot, RestorationStarts, RestorationEnds,
         client_vars
    <3>2. signal = "success"
      BY <2>1, <3>1 DEF PageCopied
    <3>3. conf /\ CardFull
      BY <1>1, <2>1, <3>2 DEF KeptInv, CopyInv
    <3> QED
      BY <3>3 DEF CardFull
  <2> QED
    BY <1>1, <2>1
<1>2. CopyTypeOK /\ KeptInv /\ [Next]_vars => KeptInv'
  BY KeptStep
<1> QED
  BY <1>1, <1>2, KeptInit, TypeInit, TypeStep, PTL DEF Spec, EncryptsOnlyCompleteCopy
=============================================================================
