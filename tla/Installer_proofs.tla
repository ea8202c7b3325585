--------------------------- MODULE Installer_proofs ----------------------------
(***************************************************************************)
(* Install and remove keep the service and its event source together, for  *)
(* any number of tools, commands and failing calls.                        *)
(***************************************************************************)
EXTENDS Installer, TLAPS

\* Between the calls of a command that needs a handle to the service, and only
\* then, the tool has one.
Installing == {"subkey", "values", "close", "rollback"}
Removing == {"delete", "rmkey"}

\* A handle keeps a service in the database, and a service marked for deletion
\* is there only as long as somebody has a handle.
HandleInv ==
  /\ \A p \in Tools : p \in holders <=> pc[p] \in Installing \cup Removing
  /\ holders # {} => service # "none"
  /\ service = "deleting" => holders # {}
  /\ \A p \in Tools : pc[p] = "rmkey" => service = "deleting"

\* A tool that may go on to create the service has found a file.
ImageInv ==
  /\ \A p \in Tools : \/ pc[p] = "create"
                      \/ pc[p] \in {"connect", "open"} /\ job[p] = "install"
                      => exe[p] = "file"
  /\ InstalledRunsFile

\* One tool at a time is between creating the service and the end of its
\* install: the others cannot create one while it has a handle.
OneInstalls ==
  \A p, q \in Tools : pc[p] \in Installing /\ pc[q] \in Installing => p = q

\* A valid key handle belongs to the tool that installs.  Unless a remove is
\* on its way that tool has one, so it ends with a complete key.
KeyInv ==
  /\ source = NoKey => sk = {}
  /\ \A p \in sk : pc[p] \in {"values", "close", "rollback"}
  /\ \A p \in Tools : p \in sk /\ pc[p] = "values" => source < AllValues
  /\ \A p \in Tools : service = "installed" /\ pc[p] = "values" => p \in sk
  /\ \A p \in Tools : service = "installed" /\ pc[p] = "close" => source = AllValues

\* Without a fault, a key that is not complete is being completed.
PartialInv ==
  source \in 0 .. AllValues - 1 /\ faults = 0 /\ kills = 0 =>
    \E p \in sk : pc[p] = "values"

\* An installed service has its complete key, or there is a tool that will
\* provide it or undo the installation.  The undoing fails only with a
\* second fault, or when the key was complete anyway.
CompleteInv ==
  service = "installed" /\ faults <= 1 /\ kills = 0 =>
    /\ source = AllValues \/ \E p \in Tools : pc[p] \in {"subkey", "values", "rollback"}
    /\ faults = 0 => \A p \in Tools : pc[p] = "rollback" => source = AllValues

\* Commands that run one after the other: what the service and the key are at
\* each call of the only one.
Both == service = "installed" /\ source = AllValues
Neither == service = "none" /\ source = NoKey

SerialInv ==
  ~overlap /\ faults = 0 /\ kills = 0 =>
    /\ \A p, q \in Tools : pc[p] # "idle" /\ pc[q] # "idle" => p = q
    /\ Quiescent => Both \/ Neither
    /\ \A p \in Tools :
         /\ pc[p] \in {"exePath", "connect", "open"} => Both \/ Neither
         /\ pc[p] = "create" => Neither
         /\ pc[p] = "subkey" => service = "installed" /\ source = NoKey
         /\ pc[p] = "values" => service = "installed"
         /\ pc[p] \in {"close", "delete"} => Both
         /\ pc[p] # "rollback"
         /\ pc[p] = "rmkey" => source = AllValues

IInv == /\ TypeOK /\ HandleInv /\ ImageInv /\ OneInstalls /\ KeyInv
        /\ PartialInv /\ CompleteInv /\ SerialInv

-------------------------------------------------------------------------------
\* The steps of tool p.
StepOf(p) ==
  \/ Begin(p) \/ Kill(p) \/ ExePath(p) \/ Connect(p) \/ OpenService(p) \/ CreateService(p)
  \/ CreateSubKey(p) \/ SetValue(p) \/ Installed(p) \/ Rollback(p)
  \/ Delete(p) \/ RemoveKey(p)

\* A step is a tool's, or changes nothing.
LEMMA NextIsStepOf == [Next]_instVars => UNCHANGED instVars \/ \E p \in Tools : StepOf(p)
BY DEF Next, StepOf

\* Faults, kills and overlaps are never forgotten.
LEMMA Counts ==
  ASSUME TypeOK, [Next]_instVars
  PROVE  /\ runs' = runs \/ (runs < MaxRuns /\ runs' = runs + 1)
         /\ faults' = faults \/ (faults < MaxFaults /\ faults' = faults + 1)
         /\ kills' = kills \/ kills' = kills + 1
         /\ overlap => overlap'
<1> USE DEF Next, instVars, Begin, Kill, ExePath, Connect, OpenService, CreateService,
            CreateSubKey, SetValue, Installed, Rollback, Delete, RemoveKey, Return, ReturnWith
<1>1. runs' = runs \/ (runs < MaxRuns /\ runs' = runs + 1)
  OBVIOUS
<1>2. faults' = faults \/ (faults < MaxFaults /\ faults' = faults + 1)
  BY DEF Fault, NoFault
<1>3. kills' = kills \/ kills' = kills + 1
  OBVIOUS
<1>4. overlap => overlap'
  OBVIOUS
<1>. QED BY <1>1, <1>2, <1>3, <1>4

\* A tool's step leaves alone what is another's, except that the removal of
\* the key makes the other's handle to it invalid.
LEMMA Others ==
  ASSUME TypeOK, NEW p \in Tools, NEW q \in Tools, q # p, StepOf(p)
  PROVE  /\ pc'[q] = pc[q] /\ job'[q] = job[q] /\ exe'[q] = exe[q]
         /\ q \in holders' <=> q \in holders
         /\ q \in sk' => q \in sk
         /\ q \in sk => q \in sk' \/ (pc[p] = "rmkey" /\ source' = NoKey)
<1> USE DEF StepOf, Begin, Kill, ExePath, Connect, OpenService, CreateService,
            CreateSubKey, SetValue, Installed, Rollback, Delete, RemoveKey, Return, ReturnWith
<1>a. /\ pc = [x \in Tools |-> pc[x]] /\ job = [x \in Tools |-> job[x]]
      /\ exe = [x \in Tools |-> exe[x]]
  BY DEF TypeOK
<1>1. pc'[q] = pc[q]
  BY <1>a DEF Goto
<1>2. job'[q] = job[q]
  BY <1>a
<1>3. exe'[q] = exe[q]
  BY <1>a
<1>4. q \in holders' <=> q \in holders
  OBVIOUS
<1>5. /\ q \in sk' => q \in sk
      /\ q \in sk => q \in sk' \/ (pc[p] = "rmkey" /\ source' = NoKey)
  OBVIOUS
<1>. QED BY <1>1, <1>2, <1>3, <1>4, <1>5

\* Every step keeps the types.
LEMMA TypingStep == TypeOK /\ KeyInv /\ [Next]_instVars => TypeOK'
<1> SUFFICES ASSUME TypeOK, KeyInv, [Next]_instVars PROVE TypeOK'
  OBVIOUS
<1>. DEFINE Labels == {"idle", "exePath", "connect", "open", "create", "subkey", "values",
                       "close", "rollback", "delete", "rmkey"}
<1>1. (runs \in 0 .. MaxRuns /\ faults \in 0 .. MaxFaults /\ kills \in Nat)'
  <2>1. /\ MaxRuns \in Nat /\ MaxFaults \in Nat /\ kills \in Nat
        /\ runs \in 0 .. MaxRuns /\ faults \in 0 .. MaxFaults
    BY InstallerAssumption DEF TypeOK
  <2>. QED BY <2>1, Counts
<1> USE DEF Next, instVars, Begin, Kill, ExePath, Connect, OpenService, CreateService,
            CreateSubKey, SetValue, Installed, Rollback, Delete, RemoveKey, Return, ReturnWith
<1>2. (overlap \in BOOLEAN)'
  <2>1. overlap' = overlap \/ \E p \in Tools : overlap' = (overlap \/ \E q \in Tools : pc[q] # "idle")
    OBVIOUS
  <2>. QED BY <2>1 DEF TypeOK
<1>3. (pc \in [Tools -> Labels])'
  <2>1. UNCHANGED pc \/ \E p \in Tools, l \in Labels : Goto(p, l)
    OBVIOUS
  <2>. QED BY <2>1 DEF Goto, TypeOK
<1>4. (job \in [Tools -> {"install", "remove"}])'
  BY DEF TypeOK
<1>5. (exe \in [Tools -> Entries])'
  <2>1. ASSUME NEW p \in Tools, ExePath(p), exe' # exe
        PROVE  \E e \in Entries : exe' = [exe EXCEPT ![p] = e]
    <3>1. PICK e, x \in Entries \ {""}, hasExt \in BOOLEAN :
            exe' = [exe EXCEPT ![p] = exePath(e, x, hasExt).path]
      BY <2>1
    <3>2. exePath(e, x, hasExt).path \in Entries
      BY DEF exePath, exePathWith, Entries
    <3>. QED BY <3>1, <3>2
  <2>2. UNCHANGED exe \/ \E p \in Tools, e \in Entries : exe' = [exe EXCEPT ![p] = e]
    BY <2>1
  <2>. QED BY <2>2 DEF TypeOK
<1>6. (image \in Entries)'
  <2>1. UNCHANGED image \/ \E p \in Tools : image' = exe[p]
    OBVIOUS
  <2>. QED BY <2>1 DEF TypeOK
<1>7. (holders \subseteq Tools /\ sk \subseteq Tools)'
  <2>1. UNCHANGED holders \/ \E p \in Tools : holders' = holders \cup {p} \/ holders' = holders \ {p}
    OBVIOUS
  <2>2. UNCHANGED sk \/ sk' = {} \/ \E p \in Tools : sk' = sk \cup {p} \/ sk' = sk \ {p}
    OBVIOUS
  <2>. QED BY <2>1, <2>2 DEF TypeOK
<1>8. (service \in {"none", "installed", "deleting"})'
  <2>1. service' \in {service, "none", "installed", "deleting"}
    OBVIOUS
  <2>. QED BY <2>1 DEF TypeOK
<1>9. (source \in NoKey .. AllValues)'
  <2>1. \/ UNCHANGED source \/ source' = 0 \/ source' = NoKey
        \/ \E p \in Tools : p \in sk /\ pc[p] = "values" /\ source' = source + 1
    OBVIOUS
  <2>2. /\ source \in NoKey .. AllValues
        /\ \A p \in Tools : p \in sk /\ pc[p] = "values" => source < AllValues
    BY DEF TypeOK, KeyInv
  <2>. HIDE DEF Next
  <2>. QED BY <2>1, <2>2 DEF NoKey, AllValues
<1> HIDE DEF Next, instVars
<1>. QED BY <1>1, <1>2, <1>3, <1>4, <1>5, <1>6, <1>7, <1>8, <1>9 DEF TypeOK

\* Every step keeps handles and service in agreement.
LEMMA HandleStep == TypeOK /\ HandleInv /\ [Next]_instVars => HandleInv'
<1> SUFFICES ASSUME TypeOK, HandleInv, [Next]_instVars PROVE HandleInv'
  OBVIOUS
<1>1. CASE UNCHANGED instVars
  BY <1>1 DEF instVars, HandleInv
<1>2. ASSUME NEW p \in Tools, StepOf(p) PROVE HandleInv'
  <2>a. /\ pc = [x \in Tools |-> pc[x]] /\ holders \subseteq Tools
        /\ service \in {"none", "installed", "deleting"}
    BY DEF TypeOK
  <2>. USE <1>2 DEF StepOf, Begin, Kill, ExePath, Connect, OpenService, CreateService,
           CreateSubKey, SetValue, Installed, Rollback, Delete, RemoveKey, Return, ReturnWith
  <2>1. p \in holders' <=> pc'[p] \in Installing \cup Removing
    BY <2>a DEF HandleInv, Goto, Installing, Removing
  <2>2. holders' # {} => service' # "none"
    BY <2>a DEF HandleInv, Installing
  <2>3. service' = "deleting" => holders' # {}
    BY <2>a DEF HandleInv, Installing, Removing
  <2>4. \A q \in Tools : pc'[q] = "rmkey" => service' = "deleting"
    <3>1. pc'[p] = "rmkey" => service' = "deleting"
      BY <2>a DEF HandleInv, Goto
    <3>2. ASSUME NEW q \in Tools, q # p, pc[q] = "rmkey" PROVE service' = "deleting"
      BY <2>a, <3>2 DEF HandleInv, Installing, Removing
    <3>. QED BY <3>1, <3>2, Others
  <2>5. \A q \in Tools : q \in holders' <=> pc'[q] \in Installing \cup Removing
    BY <2>1, Others DEF HandleInv
  <2>. QED BY <2>2, <2>3, <2>4, <2>5 DEF HandleInv
<1>. QED BY <1>1, <1>2, NextIsStepOf

\* Only what exePath has found to be a file gets into the database.
LEMMA ImageStep == TypeOK /\ HandleInv /\ ImageInv /\ [Next]_instVars => ImageInv'
<1>. DEFINE C(p) == \/ pc[p] = "create"
                    \/ pc[p] \in {"connect", "open"} /\ job[p] = "install"
                    => exe[p] = "file"
<1> SUFFICES ASSUME TypeOK, HandleInv, ImageInv, [Next]_instVars PROVE ImageInv'
  OBVIOUS
<1>1. CASE UNCHANGED instVars
  BY <1>1 DEF instVars, ImageInv, InstalledRunsFile
<1>2. ASSUME NEW p \in Tools, StepOf(p) PROVE ImageInv'
  <2>a. /\ pc = [x \in Tools |-> pc[x]] /\ job = [x \in Tools |-> job[x]]
        /\ exe = [x \in Tools |-> exe[x]] /\ \A q \in Tools : C(q)
    BY DEF TypeOK, ImageInv
  <2>1. ASSUME ExePath(p) PROVE C(p)'
    <3>1. \/ pc'[p] = "idle"
          \/ \E e, x \in Entries \ {""}, hasExt \in BOOLEAN :
               /\ exePath(e, x, hasExt).err = "nil"
               /\ exe'[p] = exePath(e, x, hasExt).path
      BY <2>a, <2>1 DEF ExePath, Return, ReturnWith, Goto
    <3>2. \A e, x \in Entries \ {""}, hasExt \in BOOLEAN :
            exePath(e, x, hasExt).err = "nil" => exePath(e, x, hasExt).path = "file"
      BY DEF exePath, exePathWith, StatErr, Entries
    <3>. QED BY <3>1, <3>2
  <2>2. ASSUME ~ExePath(p) PROVE C(p)'
    BY <1>2, <2>a, <2>2
       DEF StepOf, Begin, Kill, Connect, OpenService, CreateService, CreateSubKey, SetValue,
           Installed, Rollback, Delete, RemoveKey, Return, ReturnWith, Goto
  <2>3. \A q \in Tools : C(q)'
    BY <1>2, <2>a, <2>1, <2>2, Others
  <2>4. \/ UNCHANGED image /\ (service' # "none" => service # "none")
        \/ image' = exe[p] /\ pc[p] = "create"
        \/ UNCHANGED image /\ pc[p] = "rollback"
    BY <1>2 DEF StepOf, Begin, Kill, ExePath, Connect, OpenService, CreateService,
           CreateSubKey, SetValue, Installed, Rollback, Delete, RemoveKey, Return, ReturnWith
  <2>5. pc[p] = "rollback" => service # "none"
    BY DEF HandleInv, Installing
  <2>. QED BY <2>a, <2>3, <2>4, <2>5 DEF ImageInv, InstalledRunsFile
<1>. QED BY <1>1, <1>2, NextIsStepOf

\* A tool begins to install only when no service is there, and then nobody
\* else has a handle.
LEMMA OneInstallsStep ==
  TypeOK /\ HandleInv /\ OneInstalls /\ [Next]_instVars => OneInstalls'
<1> SUFFICES ASSUME TypeOK, HandleInv, OneInstalls, [Next]_instVars PROVE OneInstalls'
  OBVIOUS
<1>1. CASE UNCHANGED instVars
  BY <1>1 DEF instVars, OneInstalls
<1>2. ASSUME NEW p \in Tools, StepOf(p) PROVE OneInstalls'
  <2>a. pc = [x \in Tools |-> pc[x]]
    BY DEF TypeOK
  <2>1. pc'[p] \in Installing => pc[p] \in Installing \/ (pc[p] = "create" /\ service = "none")
    BY <1>2, <2>a DEF StepOf, Begin, Kill, ExePath, Connect, OpenService, CreateService,
           CreateSubKey, SetValue, Installed, Rollback, Delete, RemoveKey, Return, ReturnWith, Goto, Installing
  <2>2. service = "none" => \A q \in Tools : pc[q] \notin Installing
    BY DEF HandleInv
  <2>. QED BY <1>2, <2>1, <2>2, Others DEF OneInstalls
<1>. QED BY <1>1, <1>2, NextIsStepOf

\* How a step of p may change the key and p's handle to it.
LEMMA KeyChanges ==
  ASSUME TypeOK, NEW p \in Tools, StepOf(p)
  PROVE  \/ /\ UNCHANGED source /\ (p \in sk' => p \in sk)
            /\ pc'[p] \notin {"values", "close"}
         \/ pc[p] = "rmkey" /\ source' = NoKey /\ sk' = {}
         \/ /\ pc[p] = "subkey" /\ source = NoKey /\ source' = 0
            /\ p \in sk' /\ pc'[p] = "values"
         \/ /\ pc[p] = "values" /\ p \in sk /\ p \in sk' /\ source' = source + 1
            /\ pc'[p] = IF LastValue THEN "close" ELSE "values"
<1>a. pc = [x \in Tools |-> pc[x]]
  BY DEF TypeOK
<1>. QED
  BY <1>a DEF StepOf, Begin, Kill, ExePath, Connect, OpenService, CreateService,
           CreateSubKey, SetValue, Installed, Rollback, Delete, RemoveKey, Return, ReturnWith, Goto

\* How a step of p may change the service.
LEMMA ServiceChanges ==
  ASSUME NEW p \in Tools, StepOf(p)
  PROVE  service' = "installed" =>
           service = "installed" \/ (pc[p] = "create" /\ service = "none")
BY DEF StepOf, Begin, Kill, ExePath, Connect, OpenService, CreateService,
           CreateSubKey, SetValue, Installed, Rollback, Delete, RemoveKey, Return, ReturnWith

\* A key is written by one tool, and taken away only from a service that is
\* marked for deletion.
LEMMA KeyStep ==
  TypeOK /\ HandleInv /\ OneInstalls /\ KeyInv /\ [Next]_instVars => KeyInv'
<1> SUFFICES ASSUME TypeOK, HandleInv, OneInstalls, KeyInv, [Next]_instVars PROVE KeyInv'
  OBVIOUS
<1>1. CASE UNCHANGED instVars
  BY <1>1 DEF instVars, KeyInv
<1>2. ASSUME NEW p \in Tools, StepOf(p) PROVE KeyInv'
  <2>a. /\ pc = [x \in Tools |-> pc[x]] /\ sk \subseteq Tools /\ source \in NoKey .. AllValues
        /\ sk' \subseteq Tools
    BY TypingStep DEF TypeOK
  <2>b. \A q \in Tools : q # p /\ pc'[q] \in Installing => pc[p] \notin Installing
    BY <1>2, Others DEF OneInstalls
  <2>c. pc[p] = "rmkey" => service' # "installed"
    BY <1>2, ServiceChanges DEF HandleInv
  <2>d. \A q \in Tools : q # p /\ pc[q] \in Installing => service # "none"
    BY DEF HandleInv
  <2>1. source' = NoKey => sk' = {}
    <3>1. source' = NoKey /\ source = NoKey => sk' = {}
      BY <1>2, <2>a, KeyChanges, Others DEF KeyInv, NoKey
    <3>. QED BY <1>2, <2>a, <3>1, KeyChanges DEF KeyInv, NoKey, AllValues
  <2>2. p \in sk' => pc'[p] \in {"values", "close", "rollback"}
    BY <1>2, <2>a DEF KeyInv, StepOf, Begin, Kill, ExePath, Connect, OpenService, CreateService,
           CreateSubKey, SetValue, Installed, Rollback, Delete, RemoveKey, Return, ReturnWith, Goto
  <2>3. \A q \in sk' : pc'[q] \in {"values", "close", "rollback"}
    BY <1>2, <2>a, <2>2, Others DEF KeyInv
  <2>4. ASSUME NEW q \in Tools, q \in sk', pc'[q] = "values" PROVE source' < AllValues
    <3>1. CASE q = p
      BY <1>2, <2>a, <2>4, <3>1, KeyChanges DEF KeyInv, LastValue, NoKey, AllValues
    <3>2. CASE q # p
      <4>1. pc[q] = "values" /\ q \in sk /\ pc[p] \notin Installing
        BY <1>2, <2>b, <2>4, <3>2, Others DEF Installing
      <4>. QED BY <1>2, <4>1, KeyChanges DEF KeyInv, Installing, NoKey, AllValues
    <3>. QED BY <3>1, <3>2
  <2>5. ASSUME NEW q \in Tools, service' = "installed", pc'[q] = "values" PROVE q \in sk'
    <3>1. CASE q = p
      BY <1>2, <2>c, <2>5, <3>1, KeyChanges
    <3>2. CASE q # p
      <4>1. pc[q] = "values" /\ service = "installed"
        BY <1>2, <2>d, <2>5, <3>2, Others, ServiceChanges DEF Installing
      <4>. QED BY <1>2, <2>c, <2>5, <3>2, <4>1, Others DEF KeyInv
    <3>. QED BY <3>1, <3>2
  <2>6. ASSUME NEW q \in Tools, service' = "installed", pc'[q] = "close"
        PROVE  source' = AllValues
    <3>1. CASE q = p
      BY <1>2, <2>c, <2>6, <3>1, KeyChanges DEF LastValue
    <3>2. CASE q # p
      <4>1. pc[q] = "close" /\ service = "installed" /\ pc[p] \notin Installing
        BY <1>2, <2>b, <2>d, <2>6, <3>2, Others, ServiceChanges DEF Installing
      <4>. QED BY <1>2, <2>c, <2>6, <4>1, KeyChanges DEF KeyInv, Installing
    <3>. QED BY <3>1, <3>2
  <2>. QED BY <2>1, <2>3, <2>4, <2>5, <2>6 DEF KeyInv
<1>. QED BY <1>1, <1>2, NextIsStepOf

\* Who leaves a key that is not complete has met a fault, was killed, or finds
\* that the key is gone.
LEMMA PartialStep ==
  TypeOK /\ KeyInv /\ PartialInv /\ [Next]_instVars => PartialInv'
<1> SUFFICES ASSUME TypeOK, KeyInv, PartialInv, [Next]_instVars,
                    source' \in 0 .. AllValues - 1, faults' = 0, kills' = 0
             PROVE  \E p \in sk' : pc'[p] = "values"
  BY DEF PartialInv
<1>a. /\ faults = 0 /\ kills = 0 /\ UNCHANGED <<faults, kills>>
  <2>1. faults \in Nat /\ kills \in Nat
    BY InstallerAssumption DEF TypeOK
  <2>. QED BY <2>1, Counts
<1>1. CASE UNCHANGED instVars
  BY <1>a, <1>1 DEF instVars, PartialInv
<1>2. ASSUME NEW p \in Tools, StepOf(p) PROVE \E q \in sk' : pc'[q] = "values"
  <2>1. CASE UNCHANGED source
    <3>1. PICK q \in sk : pc[q] = "values"
      BY <1>a, <2>1 DEF PartialInv
    <3>2. q # p
      <4>. SUFFICES ASSUME q = p PROVE FALSE
        OBVIOUS
      <4>1. Kill(p) \/ SetValue(p)
        BY <1>2, <3>1 DEF StepOf, Begin, ExePath, Connect, OpenService, CreateService,
           CreateSubKey, Installed, Rollback, Delete, RemoveKey
      <4>2. source \in Int /\ faults \in Nat /\ kills \in Nat
        BY InstallerAssumption DEF TypeOK, NoKey, AllValues
      <4>. QED BY <1>a, <2>1, <3>1, <4>1, <4>2 DEF Kill, SetValue, Fault
    <3>3. q \in Tools
      BY <3>1 DEF TypeOK
    <3>. QED BY <1>2, <3>1, <3>2, <3>3, Others DEF NoKey
  <2>2. CASE source' # source
    BY <1>2, <2>2, KeyChanges DEF LastValue, NoKey, AllValues
  <2>. QED BY <2>1, <2>2
<1>. QED BY <1>1, <1>2, NextIsStepOf

\* A complete key stays while the service is installed.
LEMMA KeyStays ==
  ASSUME TypeOK, HandleInv, KeyInv, NEW p \in Tools, StepOf(p),
         service = "installed", source = AllValues
  PROVE  source' = AllValues
BY KeyChanges DEF HandleInv, KeyInv, NoKey, AllValues

\* The install that is not through yet goes on, ends with the whole key, or
\* undoes itself.
LEMMA CompleteStep ==
  TypeOK /\ HandleInv /\ OneInstalls /\ KeyInv /\ PartialInv /\ CompleteInv /\ [Next]_instVars
    => CompleteInv'
<1> SUFFICES ASSUME TypeOK, HandleInv, OneInstalls, KeyInv, PartialInv, CompleteInv,
                    [Next]_instVars, service' = "installed", faults' <= 1, kills' = 0
             PROVE  /\ \/ source' = AllValues
                       \/ \E p \in Tools : pc'[p] \in {"subkey", "values", "rollback"}
                    /\ faults' = 0 =>
                         \A p \in Tools : pc'[p] = "rollback" => source' = AllValues
  BY DEF CompleteInv
<1>a. /\ faults \in Nat /\ faults <= 1 /\ kills \in Nat /\ kills = 0
      /\ faults' = faults \/ (faults = 0 /\ faults' = 1)
  <2>1. faults \in Nat /\ kills \in Nat
    BY InstallerAssumption DEF TypeOK
  <2>. QED BY <2>1, Counts
<1>b. pc = [x \in Tools |-> pc[x]]
  BY DEF TypeOK
<1>c. \A p \in Tools : ~Kill(p)
  BY <1>a DEF Kill
<1>1. CASE UNCHANGED instVars
  BY <1>a, <1>1 DEF instVars, CompleteInv
<1>2. ASSUME NEW p \in Tools, StepOf(p), service # "installed"
      PROVE  pc'[p] = "subkey" /\ \A q \in Tools : pc'[q] # "rollback"
  <2>1. pc[p] = "create" /\ service = "none"
    BY <1>2, ServiceChanges
  <2>2. pc'[p] = "subkey"
    BY <1>2, <1>b, <2>1
       DEF StepOf, Begin, Kill, ExePath, Connect, OpenService, CreateService, CreateSubKey,
           SetValue, Installed, Rollback, Delete, RemoveKey, Return, ReturnWith, Goto
  <2>. QED BY <1>2, <2>1, <2>2, Others DEF HandleInv, Installing
<1>3. ASSUME NEW p \in Tools, StepOf(p), service = "installed"
      PROVE  \/ source' = AllValues
             \/ \E q \in Tools : pc'[q] \in {"subkey", "values", "rollback"}
  <2>1. CASE source = AllValues
    BY <1>3, <2>1, KeyStays
  <2>2. CASE source # AllValues
    <3>1. PICK w \in Tools : pc[w] \in {"subkey", "values", "rollback"}
      BY <1>a, <1>3, <2>2 DEF CompleteInv
    <3>2. CASE w # p
      BY <1>3, <3>1, <3>2, Others
    <3>3. CASE w = p
      <4>1. CreateSubKey(p) \/ SetValue(p) \/ Rollback(p)
        BY <1>c, <1>3, <3>1, <3>3
           DEF StepOf, Begin, ExePath, Connect, OpenService, CreateService,
               Installed, Delete, RemoveKey
      <4>2. CASE CreateSubKey(p)
        BY <1>b, <4>2 DEF CreateSubKey, Goto
      <4>3. CASE SetValue(p)
        BY <1>b, <4>3 DEF SetValue, Goto, LastValue
      <4>4. CASE Rollback(p)
        <5>1. pc[p] = "rollback" /\ faults' = faults + 1
          BY <4>4 DEF Rollback, ReturnWith, Fault
        <5>. QED BY <1>a, <1>3, <2>2, <5>1 DEF CompleteInv
      <4>. QED BY <4>1, <4>2, <4>3, <4>4
    <3>. QED BY <3>2, <3>3
  <2>. QED BY <2>1, <2>2
<1>4. ASSUME NEW p \in Tools, StepOf(p), service = "installed", faults' = 0,
             NEW q \in Tools, pc'[q] = "rollback"
      PROVE  source' = AllValues
  <2>1. CASE q # p
    <3>1. pc[q] = "rollback"
      BY <1>4, <2>1, Others
    <3>. QED BY <1>a, <1>4, <3>1, KeyStays DEF CompleteInv
  <2>2. CASE q = p
    <3>1. \/ pc[p] = "subkey" /\ source # NoKey /\ UNCHANGED source
          \/ pc[p] = "values" /\ p \notin sk
      <4>1. CreateSubKey(p) \/ SetValue(p)
        BY <1>b, <1>c, <1>4, <2>2
           DEF StepOf, Begin, ExePath, Connect, OpenService, CreateService, Installed,
               Rollback, Delete, RemoveKey, Return, ReturnWith, Goto
      <4>2. ~Fault
        BY <1>a, <1>4 DEF Fault
      <4>. QED BY <1>b, <1>4, <2>2, <4>1, <4>2 DEF CreateSubKey, SetValue, LastValue, Goto
    <3>2. pc[p] = "subkey" /\ source # NoKey
      BY <1>4, <3>1 DEF KeyInv
    <3>3. ~\E w \in sk : pc[w] = "values"
      BY <3>2 DEF OneInstalls, Installing, TypeOK
    <3>4. source = AllValues
      BY <1>a, <1>4, <3>2, <3>3 DEF PartialInv, TypeOK, NoKey, AllValues
    <3>. QED BY <1>4, <3>4, KeyStays
  <2>. QED BY <2>1, <2>2
<1>. QED BY <1>1, <1>2, <1>3, <1>4, NextIsStepOf

\* Commands one after the other go through the calls of one command at a time.
LEMMA SerialStep ==
  TypeOK /\ HandleInv /\ KeyInv /\ SerialInv /\ [Next]_instVars => SerialInv'
<1>. DEFINE At(p) == /\ pc[p] \in {"exePath", "connect", "open"} => Both \/ Neither
                     /\ pc[p] = "create" => Neither
                     /\ pc[p] = "subkey" => service = "installed" /\ source = NoKey
                     /\ pc[p] = "values" => service = "installed"
                     /\ pc[p] \in {"close", "delete"} => Both
                     /\ pc[p] # "rollback"
                     /\ pc[p] = "rmkey" => source = AllValues
<1> SUFFICES ASSUME TypeOK, HandleInv, KeyInv, SerialInv, [Next]_instVars,
                    ~overlap', faults' = 0, kills' = 0
             PROVE  /\ \A p, q \in Tools : pc'[p] # "idle" /\ pc'[q] # "idle" => p = q
                    /\ Quiescent' => (Both \/ Neither)'
                    /\ \A p \in Tools : At(p)'
  BY DEF SerialInv
<1>a. /\ faults = 0 /\ kills = 0 /\ ~overlap
      /\ UNCHANGED <<faults, kills>>
  <2>1. faults \in Nat /\ kills \in Nat
    BY InstallerAssumption DEF TypeOK
  <2>. QED BY <2>1, Counts
<1>b. /\ \A p, q \in Tools : pc[p] # "idle" /\ pc[q] # "idle" => p = q
      /\ Quiescent => Both \/ Neither
      /\ \A p \in Tools : At(p)
  BY <1>a DEF SerialInv
<1>c. pc = [x \in Tools |-> pc[x]] /\ holders \subseteq Tools
  BY DEF TypeOK
<1>1. CASE UNCHANGED instVars
  BY <1>b, <1>1 DEF instVars, Both, Neither, Quiescent
<1>2. ASSUME NEW p \in Tools, StepOf(p)
      PROVE  /\ \A q \in Tools : q # p => pc'[q] = "idle"
             /\ At(p)'
             /\ pc'[p] = "idle" => (Both \/ Neither)'
  <2>1. \A q \in Tools : q # p => pc[q] = "idle"
    <3>1. CASE Begin(p)
      BY <1>a, <3>1 DEF Begin
    <3>2. CASE pc[p] # "idle"
      BY <1>b, <3>2
    <3>. QED
      BY <1>2, <3>1, <3>2
         DEF StepOf, Kill, ExePath, Connect, OpenService, CreateService, CreateSubKey,
             SetValue, Installed, Rollback, Delete, RemoveKey
  <2>2. holders \subseteq {p}
    BY <1>c, <2>1 DEF HandleInv, Installing, Removing
  <2>3. At(p)' /\ (pc'[p] = "idle" => (Both \/ Neither)')
    <3>a. ASSUME Both \/ Neither, Return(p) PROVE (Both \/ Neither)'
      BY <3>a DEF Both, Neither, Return, ReturnWith
    <3>1. CASE Begin(p)
      <4>1. Both \/ Neither
        BY <1>b, <2>1, <3>1 DEF Begin, Quiescent
      <4>2. UNCHANGED <<service, source>> /\ pc'[p] \in {"exePath", "connect"}
        BY <1>c, <3>1 DEF Begin, Goto
      <4>. QED BY <4>1, <4>2 DEF Both, Neither
    <3>2. CASE Kill(p)
      BY <1>a, <3>2 DEF Kill
    <3>3. CASE ExePath(p)
      <4>1. Both \/ Neither
        BY <1>b, <3>3 DEF ExePath
      <4>2. \/ UNCHANGED <<service, source>> /\ pc'[p] = "connect"
            \/ Return(p)
        BY <1>c, <3>3 DEF ExePath, Goto
      <4>. QED BY <1>c, <3>a, <4>1, <4>2 DEF Both, Neither, Return, ReturnWith, Goto
    <3>4. CASE Connect(p)
      BY <1>a, <1>b, <1>c, <3>4 DEF Connect, Goto, Fault, Both, Neither
    <3>5. CASE OpenService(p)
      <4>1. (Both \/ Neither) /\ pc'[p] \in {"idle", "delete", "create"}
        BY <1>b, <1>c, <3>5 DEF OpenService, Goto, Return, ReturnWith
      <4>2. CASE Return(p)
        BY <1>c, <3>a, <4>1, <4>2 DEF Return, ReturnWith, Goto
      <4>3. CASE ~Return(p)
        BY <1>a, <1>c, <3>5, <4>1, <4>3 DEF OpenService, Goto, Fault, Both, Neither
      <4>. QED BY <4>2, <4>3
    <3>6. CASE CreateService(p)
      BY <1>a, <1>b, <1>c, <3>6 DEF CreateService, Goto, Fault, Both, Neither
    <3>7. CASE CreateSubKey(p)
      BY <1>a, <1>b, <1>c, <3>7 DEF CreateSubKey, Goto, Fault, Both, Neither
    <3>8. CASE SetValue(p)
      <4>1. p \in sk /\ service = "installed" /\ UNCHANGED service
        BY <1>b, <3>8 DEF SetValue, KeyInv
      <4>. QED BY <1>a, <1>c, <3>8, <4>1 DEF SetValue, Goto, Fault, LastValue, Both, Neither
    <3>9. CASE Installed(p)
      BY <1>b, <1>c, <3>a, <3>9 DEF Installed, Return, ReturnWith, Goto
    <3>10. CASE Rollback(p)
      BY <1>b, <3>10 DEF Rollback
    <3>11. CASE Delete(p)
      BY <1>a, <1>b, <1>c, <3>11 DEF Delete, Goto, Fault, Both, Neither
    <3>12. CASE RemoveKey(p)
      <4>1. service = "deleting" /\ source = AllValues
        BY <1>b, <3>12 DEF RemoveKey, HandleInv
      <4>. QED
        BY <1>a, <1>c, <2>2, <3>12, <4>1
           DEF RemoveKey, ReturnWith, Goto, Fault, Both, Neither, NoKey, AllValues
    <3>. QED
      BY <1>2, <3>1, <3>2, <3>3, <3>4, <3>5, <3>6, <3>7, <3>8, <3>9, <3>10, <3>11, <3>12
         DEF StepOf
  <2>. QED BY <1>2, <2>1, <2>3, Others
<1>3. ASSUME NEW p \in Tools, StepOf(p)
      PROVE  /\ \A x, y \in Tools : pc'[x] # "idle" /\ pc'[y] # "idle" => x = y
             /\ Quiescent' => (Both \/ Neither)'
             /\ \A x \in Tools : At(x)'
  BY <1>2, <1>3 DEF Quiescent
<1>. QED BY <1>1, <1>3, NextIsStepOf

\* The inductive invariant holds in every reachable state.
THEOREM Invariance == Spec => []IInv
<1>1. Init => IInv
  <2> SUFFICES ASSUME Init PROVE IInv
    OBVIOUS
  <2>1. TypeOK
    <3>0. runs = 0 /\ faults = 0 /\ kills = 0 /\ source = NoKey /\ overlap \in BOOLEAN
      BY Zenon DEF Init
    <3>1. /\ runs \in 0 .. MaxRuns /\ faults \in 0 .. MaxFaults /\ kills \in Nat
          /\ source \in NoKey .. AllValues
      BY <3>0, InstallerAssumption DEF NoKey, AllValues
    <3>2. /\ exe \in [Tools -> Entries] /\ image \in Entries
          /\ job \in [Tools -> {"install", "remove"}]
      BY DEF Init, Entries
    <3>. QED BY <3>0, <3>1, <3>2 DEF Init, TypeOK
  <2>2. HandleInv /\ ImageInv /\ OneInstalls
    BY DEF Init, HandleInv, ImageInv, OneInstalls, InstalledRunsFile, Installing, Removing
  <2>3. KeyInv /\ PartialInv /\ CompleteInv
    <3>1. source = NoKey /\ sk = {} /\ service = "none"
      BY Zenon DEF Init
    <3>2. source \notin 0 .. AllValues - 1
      BY <3>1 DEF NoKey
    <3>. QED BY <3>1, <3>2 DEF KeyInv, PartialInv, CompleteInv
  <2>4. SerialInv
    <3>1. \A p \in Tools : pc[p] = "idle"
      BY DEF Init
    <3>2. Neither
      BY DEF Init, Neither
    <3>. QED BY <3>1, <3>2 DEF SerialInv
  <2>. QED BY <2>1, <2>2, <2>3, <2>4 DEF IInv
<1>2. IInv /\ [Next]_instVars => IInv'
  BY TypingStep, HandleStep, ImageStep, OneInstallsStep, KeyStep, PartialStep, CompleteStep,
     SerialStep
     DEF IInv
<1>. QED BY <1>1, <1>2, PTL DEF Spec

\* The database, the registry and the tools are always in a state that the
\* code knows; the key never gets a fourth value.
THEOREM TypeCorrect == Spec => []TypeOK
<1>1. IInv => TypeOK
  BY DEF IInv
<1>. QED BY <1>1, Invariance, PTL

\* With at most one failing call and no tool killed, an installed service has
\* its complete event source when all commands are through, however installs
\* and removes overlapped.
THEOREM InstallIsComplete == Spec => []InstalledMeansComplete
<1>1. IInv => InstalledMeansComplete
  BY DEF IInv, CompleteInv, InstalledMeansComplete, Quiescent
<1>. QED BY <1>1, Invariance, PTL

\* What Windows would launch was a file when exePath looked, whichever tool
\* created the service.
THEOREM ServiceIsFile == Spec => []InstalledRunsFile
<1>1. IInv => InstalledRunsFile
  BY DEF IInv, ImageInv
<1>. QED BY <1>1, Invariance, PTL

\* Concurrent commands alone never leave a key with only some of its values.
THEOREM KeyIsWhole == Spec => []PartialKeyOnlyAfterFault
<1>1. IInv => PartialKeyOnlyAfterFault
  <2>. SUFFICES ASSUME IInv, Quiescent, source \in 0 .. AllValues - 1, faults = 0, kills = 0
                PROVE  FALSE
    BY InstallerAssumption DEF PartialKeyOnlyAfterFault, IInv, TypeOK
  <2>. QED BY DEF IInv, TypeOK, PartialInv, Quiescent
<1>. QED BY <1>1, Invariance, PTL

\* Commands one after the other leave the service and its event source, or
\* neither.
THEOREM InstallAndRemoveMatch == Spec => []BothOrNeither
<1>1. IInv => BothOrNeither
  BY DEF IInv, SerialInv, BothOrNeither, Both, Neither
<1>. QED BY <1>1, Invariance, PTL
===============================================================================
