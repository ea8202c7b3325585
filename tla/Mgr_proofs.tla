------------------------------ MODULE Mgr_proofs -------------------------------
(***************************************************************************)
(* Deletion completes, Config reads what is there and UpdateConfig changes *)
(* what was edited, for every set of programs and settings, every length   *)
(* of a string and buffer, and any number of operations and failing calls. *)
(***************************************************************************)
EXTENDS Mgr, TLAPS

\* Somebody holds a handle to a service that is marked for deletion: without
\* one, Windows would have removed it with the last.
HandleLeft == db = "deleting" => s \cup h # {}

\* Every operation on a service leaves a marked one with a handle, or removes
\* it.
LEMMA HandleLeftStep == HandleLeft /\ [Next]_mgrVars => HandleLeft'
<1> SUFFICES ASSUME HandleLeft, [Next]_mgrVars PROVE HandleLeft'
  OBVIOUS
<1> USE DEF HandleLeft
<1>1. CASE UNCHANGED mgrVars
  BY <1>1 DEF mgrVars
<1>2. ASSUME NEW c \in Clients, NEW conf \in Configs, CreateService(c, conf)
      PROVE  HandleLeft'
  BY <1>2 DEF CreateService
<1>3. ASSUME NEW c \in Clients, CreateDescribe(c) PROVE HandleLeft'
  BY <1>3 DEF CreateDescribe
<1>4. ASSUME NEW c \in Clients, OpenService(c) PROVE HandleLeft'
  BY <1>4 DEF OpenService
<1>5. ASSUME NEW c \in Clients, Delete(c) PROVE HandleLeft'
  BY <1>5 DEF Delete
<1>6. ASSUME NEW c \in Clients, Close(c) PROVE HandleLeft'
  BY <1>6 DEF Close, CloseHandle, Closed
<1>7. ASSUME NEW c \in Clients, Kill(c) PROVE HandleLeft'
  <2>1. db' = Closed((s \cup h) \ {c}) /\ s' \cup h' = (s \cup h) \ {c}
    BY <1>7 DEF Kill
  <2>. QED BY <2>1 DEF Closed
<1>8. ASSUME NEW c \in Clients,
             ConfigBegin(c) \/ QueryConfig(c) \/ QueryDescription(c)
      PROVE  HandleLeft'
  BY <1>8 DEF ConfigBegin, QueryConfig, QueryDescription
<1>9. ASSUME NEW c \in Clients, NEW e \in Edits, UpdateBegin(c, e[1], e[2])
      PROVE  HandleLeft'
  BY <1>9 DEF UpdateBegin
<1>10. ASSUME NEW c \in Clients, ChangeServiceConfig(c) \/ UpdateDescription(c)
       PROVE  HandleLeft'
  BY <1>10 DEF ChangeServiceConfig, UpdateDescription
<1>. QED
  BY <1>1, <1>2, <1>3, <1>4, <1>5, <1>6, <1>7, <1>8, <1>9, <1>10 DEF Next

\* Only a CreateService that failed at its description (mgr.go:94) can keep a
\* deleted service in the database when every Service has been closed.
THEOREM DeletionCompletes == Spec => []DeletedGoes
<1>1. Init => HandleLeft
  BY DEF Init, HandleLeft
<1>2. HandleLeft => DeletedGoes
  BY DEF HandleLeft, DeletedGoes
<1>. QED BY <1>1, <1>2, HandleLeftStep, PTL DEF Spec

-------------------------------------------------------------------------------
(***************************************************************************)
(* Reading and updating.  The invariant follows a client that nobody       *)
(* disturbs from its first query to the end of its update.                 *)
(***************************************************************************)

\* An operation's calls are made in the course of that operation.
PhaseInv ==
  \A c \in Clients :
    /\ pc[c] \in {"query", "requery", "queryDesc", "requeryDesc"} => op[c] = "config"
    /\ pc[c] \in {"change", "redescribe"} => op[c] = "update"
    /\ pc[c] = "describe" => op[c] = "create"

\* The Config for a database that holds conf.
Read(conf) ==
  [f \in Fields |-> CASE f = "Password" -> 0
                      [] f \in {"LoadOrderGroup", "Description"} -> toString(conf[f])
                      [] OTHER -> conf[f]]

\* Config, from its first query to what it returns.
ReadInv ==
  \A c \in Clients : calm[c] /\ op[c] = "config" =>
    /\ cfg = snap[c]
    /\ pc[c] \in {"queryDesc", "requeryDesc"} => got[c] = Settings
    /\ pc[c] = "idle" => got[c] = IF err[c] THEN Zero ELSE Read(cfg)

\* The size asked for is still the right one while nobody interferes, so an
\* undisturbed Config fails with a fault only.
BufInv ==
  \A c \in Clients : calm[c] /\ op[c] = "config" =>
    /\ pc[c] = "requery" => buf[c] = cfg.LoadOrderGroup + cfg.Dependencies
    /\ pc[c] = "requeryDesc" => buf[c] = cfg.Description
    /\ pc[c] = "idle" /\ err[c] => faults > 0

\* UpdateConfig, from the Config it is given to what it leaves.
UpdateInv ==
  \A c \in Clients : calm[c] /\ op[c] = "update" =>
    /\ got[c] = Read(snap[c])
    /\ pc[c] = "change" => cfg = snap[c]
    /\ pc[c] = "redescribe" => cfg = Changed(want[c], snap[c])
    /\ pc[c] = "idle" => IF err[c] THEN cfg \in {snap[c], Changed(want[c], snap[c])}
                         ELSE cfg = Described(want[c], Changed(want[c], snap[c]))

IInv == TypeOK /\ PhaseInv /\ ReadInv /\ BufInv /\ UpdateInv

\* What is stored or returned is a Config, and a service never gets the start
\* type zero from CreateService.
LEMMA ConfigTypes ==
  /\ Zero \in Config
  /\ \A conf \in Config : Created(conf) \in Config /\ Created(conf).StartType # 0
  /\ \A conf \in Config, f \in Fields, v \in Nat : [conf EXCEPT ![f] = v] \in Config
  /\ \A new, old \in Config :
       /\ Changed(new, old) \in Config /\ Changed(new, old).StartType = new.StartType
       /\ Described(new, old) \in Config /\ Described(new, old).StartType = old.StartType
  /\ cfg \in Config => Settings \in Config
  /\ \A n \in Nat : toString(n) \in Nat
<1> USE DEF Config, Fields, Strings, Numbers
<1>1. Zero \in Config
  BY DEF Zero
<1>2. \A conf \in Config : Created(conf) \in Config /\ Created(conf).StartType # 0
  <2>. SUFFICES ASSUME NEW conf \in Config
               PROVE  Created(conf) \in Config /\ Created(conf).StartType # 0
    OBVIOUS
  <2>1. {"ServiceType", "StartType", "ErrorControl", "Description"} \subseteq Fields
    OBVIOUS
  <2>. HIDE DEF Fields, Strings, Numbers
  <2>2. /\ Default(conf.StartType, StartManual) \in Nat \ {0}
        /\ Default(conf.ErrorControl, ErrorNormal) \in Nat
    BY <2>1 DEF Default, StartManual, ErrorNormal
  <2>. DEFINE c1 == [conf EXCEPT !["ServiceType"] = OwnProcess]
              c2 == [c1 EXCEPT !["StartType"] = Default(conf.StartType, StartManual)]
              c3 == [c2 EXCEPT !["ErrorControl"] = Default(conf.ErrorControl, ErrorNormal)]
              c4 == [c3 EXCEPT !["Description"] = 0]
  <2>3. c1 \in Config /\ c1.StartType = conf.StartType /\ c1.ErrorControl = conf.ErrorControl
    BY <2>1 DEF OwnProcess
  <2>4. c2 \in Config /\ c2.StartType # 0 /\ c2.ErrorControl = conf.ErrorControl
    BY <2>1, <2>2, <2>3
  <2>5. c4 \in Config /\ c4.StartType # 0
    BY <2>1, <2>2, <2>4
  <2>6. Created(conf) = c4
    BY <2>1, <2>3, <2>4 DEF Created
  <2>. QED BY <2>5, <2>6
<1>3. \A conf \in Config, f \in Fields, v \in Nat : [conf EXCEPT ![f] = v] \in Config
  OBVIOUS
<1>4. \A new, old \in Config :
        Changed(new, old) \in Config /\ Changed(new, old).StartType = new.StartType
  BY DEF Changed, toPtr
<1>5. \A new, old \in Config :
        Described(new, old) \in Config /\ Described(new, old).StartType = old.StartType
  BY DEF Described, toPtr
<1>6. \A n \in Nat : toString(n) \in Nat
  BY MgrAssumption DEF toString
<1>7. cfg \in Config => Settings \in Config
  BY <1>6 DEF Settings
<1>. QED BY <1>1, <1>2, <1>3, <1>4, <1>5, <1>6, <1>7

\* How a step may change each of the variables.
LEMMA Changes ==
  ASSUME [Next]_mgrVars
  PROVE  /\ ops' = ops \/ (ops < MaxOps /\ ops' = ops + 1)
         /\ faults' = faults \/ (faults < MaxFaults /\ faults' = faults + 1)
         /\ \/ UNCHANGED calm
            \/ \E c \in Clients : \/ calm' = [d \in Clients |-> d = c]
                                  \/ calm' = [d \in Clients |-> calm[d] /\ d = c]
                                  \/ calm' = [calm EXCEPT ![c] = TRUE]
                                  \/ calm' = [calm EXCEPT ![c] = @ /\ op[c] = "config"]
         /\ \/ UNCHANGED buf
            \/ \E c \in Clients :
                 \/ buf' = [buf EXCEPT ![c] = FirstBuf]
                 \/ buf' = [buf EXCEPT ![c] = cfg.Description]
                 \/ buf' = [buf EXCEPT ![c] = cfg.LoadOrderGroup + cfg.Dependencies]
         /\ \/ UNCHANGED got
            \/ \E c \in Clients :
                 \/ got' = [got EXCEPT ![c] = Zero]
                 \/ got' = [got EXCEPT ![c] = Settings]
                 \/ got' = [got EXCEPT ![c].Description = toString(cfg.Description)]
         /\ \/ UNCHANGED want
            \/ \E c \in Clients :
                 \/ \E conf \in Configs : want' = [want EXCEPT ![c] = conf]
                 \/ \E e \in Edits : want' = [want EXCEPT ![c] = [got[c] EXCEPT ![e[1]] = e[2]]]
         /\ UNCHANGED snap \/ \E c \in Clients : snap' = [snap EXCEPT ![c] = cfg]
         /\ \/ UNCHANGED cfg /\ (db' # "none" => db # "none")
            \/ \E conf \in Configs : cfg' = Created(conf)
            \/ UNCHANGED db /\ \E c \in Clients :
                 \/ cfg' = [cfg EXCEPT !.Description = want[c].Description]
                 \/ cfg' = Changed(want[c], cfg) /\ want[c].StartType # 0
                 \/ cfg' = Described(want[c], cfg)
<1> USE DEF Next, mgrVars, CreateService, CreateDescribe, OpenService, Delete, Close, Kill,
            ConfigBegin, QueryConfig, QueryDescription, UpdateBegin, ChangeServiceConfig,
            UpdateDescription
<1>1. ops' = ops \/ (ops < MaxOps /\ ops' = ops + 1)
  BY DEF Begin
<1>2. faults' = faults \/ (faults < MaxFaults /\ faults' = faults + 1)
  BY DEF Query, CallFails, Fault, NoFault
<1>3. \/ UNCHANGED calm
      \/ \E c \in Clients : \/ calm' = [d \in Clients |-> d = c]
                            \/ calm' = [d \in Clients |-> calm[d] /\ d = c]
                            \/ calm' = [calm EXCEPT ![c] = TRUE]
                            \/ calm' = [calm EXCEPT ![c] = @ /\ op[c] = "config"]
  BY DEF Store
<1>4. \/ UNCHANGED buf
      \/ \E c \in Clients : \/ buf' = [buf EXCEPT ![c] = FirstBuf]
                            \/ buf' = [buf EXCEPT ![c] = cfg.Description]
                            \/ buf' = [buf EXCEPT ![c] = cfg.LoadOrderGroup + cfg.Dependencies]
  BY DEF Query, Grown
<1>5. \/ UNCHANGED got
      \/ \E c \in Clients : \/ got' = [got EXCEPT ![c] = Zero]
                            \/ got' = [got EXCEPT ![c] = Settings]
                            \/ got' = [got EXCEPT ![c].Description = toString(cfg.Description)]
  BY DEF Query, Answer
<1>6. \/ UNCHANGED want
      \/ \E c \in Clients :
           \/ \E conf \in Configs : want' = [want EXCEPT ![c] = conf]
           \/ \E e \in Edits : want' = [want EXCEPT ![c] = [got[c] EXCEPT ![e[1]] = e[2]]]
  OBVIOUS
<1>7. UNCHANGED snap \/ \E c \in Clients : snap' = [snap EXCEPT ![c] = cfg]
  OBVIOUS
<1>8. \/ UNCHANGED cfg /\ (db' # "none" => db # "none")
      \/ \E conf \in Configs : cfg' = Created(conf)
      \/ UNCHANGED db /\ \E c \in Clients :
           \/ cfg' = [cfg EXCEPT !.Description = want[c].Description]
           \/ cfg' = Changed(want[c], cfg) /\ want[c].StartType # 0
           \/ cfg' = Described(want[c], cfg)
  BY DEF CloseHandle, Closed, Store, Refused
<1> HIDE DEF Next, mgrVars
<1>. QED BY <1>1, <1>2, <1>3, <1>4, <1>5, <1>6, <1>7, <1>8

\* Every step goes to a label of the program, and every variable that Changes
\* does not speak of keeps its type.
LEMMA LabelsStep ==
  ASSUME TypeOK, [Next]_mgrVars
  PROVE  /\ (pc \in [Clients -> {"idle", "describe", "query", "requery", "queryDesc",
                                 "requeryDesc", "change", "redescribe"}])'
         /\ (op \in [Clients -> {"none", "create", "open", "config", "update", "delete",
                                 "close"}])'
         /\ (err \in [Clients -> BOOLEAN])'
         /\ (s \subseteq Clients /\ h \subseteq Clients)'
         /\ (db \in {"none", "installed", "deleting"})'
<1>. DEFINE Labels == {"idle", "describe", "query", "requery", "queryDesc",
                       "requeryDesc", "change", "redescribe"}
            GotoAny == \E c \in Clients, l \in Labels : Goto(c, l)
<1>a. /\ op \in [Clients -> {"none", "create", "open", "config", "update", "delete", "close"}]
      /\ err \in [Clients -> BOOLEAN] /\ s \subseteq Clients /\ h \subseteq Clients
      /\ db \in {"none", "installed", "deleting"}
  BY DEF TypeOK
<1>1. (pc \in [Clients -> Labels])'
  <2>0. CASE UNCHANGED mgrVars
    BY <2>0 DEF mgrVars, TypeOK
  <2>1. ASSUME NEW c \in Clients, NEW conf \in Configs, CreateService(c, conf)
        PROVE  GotoAny
    BY <2>1 DEF CreateService, Return
  <2>2. ASSUME NEW c \in Clients,
               \/ CreateDescribe(c) \/ OpenService(c) \/ Delete(c) \/ Close(c) \/ Kill(c)
               \/ ChangeServiceConfig(c) \/ UpdateDescription(c)
        PROVE  GotoAny
    BY <2>2 DEF CreateDescribe, OpenService, Delete, Close, Kill, ChangeServiceConfig,
                UpdateDescription, Return
  <2>3. ASSUME NEW c \in Clients, ConfigBegin(c) \/ QueryConfig(c) \/ QueryDescription(c)
        PROVE  GotoAny
    BY <2>3 DEF ConfigBegin, QueryConfig, QueryDescription, Query, Return
  <2>4. ASSUME NEW c \in Clients, NEW e \in Edits, UpdateBegin(c, e[1], e[2])
        PROVE  GotoAny
    BY <2>4 DEF UpdateBegin
  <2>5. GotoAny => (pc \in [Clients -> Labels])'
    BY DEF Goto, TypeOK
  <2>. QED BY <2>0, <2>1, <2>2, <2>3, <2>4, <2>5 DEF Next
<1> USE DEF Next, mgrVars, CreateService, CreateDescribe, OpenService, Delete, Close, Kill,
            ConfigBegin, QueryConfig, QueryDescription, UpdateBegin, ChangeServiceConfig,
            UpdateDescription
<1>2. (op \in [Clients -> {"none", "create", "open", "config", "update", "delete", "close"}])'
  BY <1>a DEF Begin
<1>3. (err \in [Clients -> BOOLEAN])'
  <2>1. \/ UNCHANGED err
        \/ \E c \in Clients, b \in BOOLEAN : err' = [err EXCEPT ![c] = b]
    BY DEF Query, Return
  <2>. QED BY <1>a, <2>1
<1>4. (s \subseteq Clients /\ h \subseteq Clients)'
  <2>1. UNCHANGED s \/ \E c \in Clients : s' = s \cup {c} \/ s' = s \ {c}
    BY DEF CloseHandle
  <2>2. UNCHANGED h \/ \E c \in Clients : h' = h \cup {c} \/ h' = h \ {c}
    BY DEF CloseHandle
  <2>. HIDE DEF Next, mgrVars
  <2>. QED BY <1>a, <2>1, <2>2
<1>5. (db \in {"none", "installed", "deleting"})'
  BY <1>a DEF CloseHandle, Closed
<1> HIDE DEF Next, mgrVars
<1>. QED BY <1>1, <1>2, <1>3, <1>4, <1>5

\* Every step keeps the types.
LEMMA TypingStep == TypeOK /\ [Next]_mgrVars => TypeOK'
<1> SUFFICES ASSUME TypeOK, [Next]_mgrVars PROVE TypeOK'
  OBVIOUS
<1>1. (ops \in 0 .. MaxOps /\ faults \in 0 .. MaxFaults)'
  <2>1. /\ MaxOps \in Nat /\ MaxFaults \in Nat
        /\ ops \in 0 .. MaxOps /\ faults \in 0 .. MaxFaults
    BY MgrAssumption DEF TypeOK
  <2>2. /\ ops' = ops \/ (ops < MaxOps /\ ops' = ops + 1)
        /\ faults' = faults \/ (faults < MaxFaults /\ faults' = faults + 1)
    BY Changes
  <2>. QED BY <2>1, <2>2
<1>2. (calm \in [Clients -> BOOLEAN])'
  <2>1. calm \in [Clients -> BOOLEAN]
    BY DEF TypeOK
  <2>2. ASSUME NEW c \in Clients, NEW b \in BOOLEAN, calm' = [calm EXCEPT ![c] = b]
        PROVE  calm' \in [Clients -> BOOLEAN]
    BY <2>1, <2>2
  <2>3. ASSUME NEW c \in Clients, calm' = [d \in Clients |-> d = c]
        PROVE  calm' \in [Clients -> BOOLEAN]
    BY <2>3
  <2>4. ASSUME NEW c \in Clients, calm' = [d \in Clients |-> calm[d] /\ d = c]
        PROVE  calm' \in [Clients -> BOOLEAN]
    BY <2>4
  <2>5. \/ UNCHANGED calm
        \/ \E c \in Clients : \/ calm' = [d \in Clients |-> d = c]
                              \/ calm' = [d \in Clients |-> calm[d] /\ d = c]
                              \/ calm' = [calm EXCEPT ![c] = TRUE]
                              \/ calm' = [calm EXCEPT ![c] = @ /\ op[c] = "config"]
    BY Changes
  <2>. QED BY <2>1, <2>2, <2>3, <2>4, <2>5
<1>3. (buf \in [Clients -> Nat])'
  <2>1. /\ cfg.Description \in Nat /\ FirstBuf \in Nat
        /\ cfg.LoadOrderGroup + cfg.Dependencies \in Nat
    BY MgrAssumption DEF TypeOK, Config, Fields, Strings
  <2>2. \/ UNCHANGED buf
        \/ \E c \in Clients : \E n \in Nat : buf' = [buf EXCEPT ![c] = n]
    BY <2>1, Changes
  <2>. QED BY <2>2 DEF TypeOK
<1>4. (got \in [Clients -> Config])'
  <2>1. cfg.Description \in Nat /\ "Description" \in Fields
    BY DEF TypeOK, Config, Fields, Strings
  <2>2. /\ Zero \in Config /\ Settings \in Config
        /\ \A c \in Clients : [got[c] EXCEPT !.Description = toString(cfg.Description)] \in Config
    BY <2>1, ConfigTypes DEF TypeOK
  <2>3. \/ UNCHANGED got
        \/ \E c \in Clients : \/ got' = [got EXCEPT ![c] = Zero]
                              \/ got' = [got EXCEPT ![c] = Settings]
                              \/ got' = [got EXCEPT ![c].Description = toString(cfg.Description)]
    BY Changes
  <2>. QED BY <2>2, <2>3 DEF TypeOK
<1>5. (want \in [Clients -> Config])'
  <2>1. /\ Configs \subseteq Config
        /\ \A c \in Clients, e \in Edits : [got[c] EXCEPT ![e[1]] = e[2]] \in Config
    BY MgrAssumption, ConfigTypes DEF TypeOK
  <2>2. ASSUME NEW c \in Clients, NEW w \in Config, want' = [want EXCEPT ![c] = w]
        PROVE  want' \in [Clients -> Config]
    BY <2>2 DEF TypeOK
  <2>3. UNCHANGED want => want' \in [Clients -> Config]
    BY DEF TypeOK
  <2>. QED BY <2>1, <2>2, <2>3, Changes
<1>6. (snap \in [Clients -> Config])'
  <2>1. UNCHANGED snap \/ \E c \in Clients : snap' = [snap EXCEPT ![c] = cfg]
    BY Changes
  <2>. QED BY <2>1 DEF TypeOK
<1>7. (cfg \in Config /\ (db # "none" => cfg.StartType # 0))'
  <2>a. /\ cfg \in Config /\ (db # "none" => cfg.StartType # 0)
        /\ \A c \in Clients : want[c] \in Config
    BY DEF TypeOK
  <2>1. CASE UNCHANGED cfg /\ (db' # "none" => db # "none")
    BY <2>a, <2>1
  <2>2. ASSUME NEW conf \in Configs, cfg' = Created(conf)
        PROVE  cfg' \in Config /\ cfg'.StartType # 0
    <3>1. conf \in Config
      BY MgrAssumption
    <3>. QED BY <2>2, <3>1, ConfigTypes
  <2>3. ASSUME NEW c \in Clients, cfg' = [cfg EXCEPT !.Description = want[c].Description]
        PROVE  cfg' \in Config /\ cfg'.StartType = cfg.StartType
    BY <2>a, <2>3 DEF Config, Fields, Strings, Numbers
  <2>4. ASSUME NEW c \in Clients, cfg' = Changed(want[c], cfg)
        PROVE  cfg' \in Config /\ cfg'.StartType = want[c].StartType
    BY <2>a, <2>4, ConfigTypes
  <2>5. ASSUME NEW c \in Clients, cfg' = Described(want[c], cfg)
        PROVE  cfg' \in Config /\ cfg'.StartType = cfg.StartType
    BY <2>a, <2>5, ConfigTypes
  <2>6. \/ UNCHANGED cfg /\ (db' # "none" => db # "none")
        \/ \E conf \in Configs : cfg' = Created(conf)
        \/ UNCHANGED db /\ \E c \in Clients :
             \/ cfg' = [cfg EXCEPT !.Description = want[c].Description]
             \/ cfg' = Changed(want[c], cfg) /\ want[c].StartType # 0
             \/ cfg' = Described(want[c], cfg)
    BY Changes
  <2>. QED BY <2>a, <2>1, <2>2, <2>3, <2>4, <2>5, <2>6
<1>. QED BY <1>1, <1>2, <1>3, <1>4, <1>5, <1>6, <1>7, LabelsStep DEF TypeOK

\* The steps of client c.
StepOf(c) ==
  \/ \E conf \in Configs : CreateService(c, conf)
  \/ CreateDescribe(c) \/ OpenService(c) \/ Delete(c) \/ Close(c) \/ Kill(c)
  \/ ConfigBegin(c) \/ QueryConfig(c) \/ QueryDescription(c)
  \/ \E e \in Edits : UpdateBegin(c, e[1], e[2])
  \/ ChangeServiceConfig(c) \/ UpdateDescription(c)

\* A client's step leaves alone what is another's; it changes the settings
\* only when the other stops being calm.
LEMMA Others ==
  ASSUME TypeOK, NEW c \in Clients, NEW d \in Clients, d # c, StepOf(c)
  PROVE  /\ pc'[d] = pc[d] /\ op'[d] = op[d] /\ err'[d] = err[d] /\ buf'[d] = buf[d]
         /\ got'[d] = got[d] /\ want'[d] = want[d] /\ snap'[d] = snap[d]
         /\ calm'[d] => calm[d] /\ cfg' = cfg
<1> USE DEF StepOf, CreateService, CreateDescribe, OpenService, Delete, Close, Kill,
            ConfigBegin, QueryConfig, QueryDescription, UpdateBegin, ChangeServiceConfig,
            UpdateDescription
<1>a. /\ pc = [x \in Clients |-> pc[x]] /\ op = [x \in Clients |-> op[x]]
      /\ err = [x \in Clients |-> err[x]] /\ buf = [x \in Clients |-> buf[x]]
      /\ got = [x \in Clients |-> got[x]] /\ want = [x \in Clients |-> want[x]]
      /\ snap = [x \in Clients |-> snap[x]] /\ calm = [x \in Clients |-> calm[x]]
  BY DEF TypeOK
<1>1. pc'[d] = pc[d]
  BY <1>a DEF Query, Return, Goto
<1>2. op'[d] = op[d]
  BY <1>a DEF Begin
<1>3. err'[d] = err[d]
  BY <1>a DEF Query, Return
<1>4. buf'[d] = buf[d]
  BY <1>a DEF Query, Grown
<1>5. got'[d] = got[d]
  BY <1>a DEF Query
<1>6. want'[d] = want[d]
  BY <1>a
<1>7. snap'[d] = snap[d]
  BY <1>a
<1>8. calm'[d] => calm[d] /\ cfg' = cfg
  BY <1>a DEF Store
<1> HIDE DEF StepOf
<1>. QED BY <1>1, <1>2, <1>3, <1>4, <1>5, <1>6, <1>7, <1>8

\* A step is a client's, or changes nothing.
LEMMA NextIsStepOf == [Next]_mgrVars => UNCHANGED mgrVars \/ \E c \in Clients : StepOf(c)
  BY DEF Next, StepOf

\* An operation goes on with calls of its own.
LEMMA PhaseStep == TypeOK /\ PhaseInv /\ [Next]_mgrVars => PhaseInv'
<1>. DEFINE P(c) == /\ pc[c] \in {"query", "requery", "queryDesc", "requeryDesc"}
                         => op[c] = "config"
                    /\ pc[c] \in {"change", "redescribe"} => op[c] = "update"
                    /\ pc[c] = "describe" => op[c] = "create"
<1> SUFFICES ASSUME TypeOK, \A c \in Clients : P(c), [Next]_mgrVars, NEW d \in Clients
             PROVE  P(d)'
  BY DEF PhaseInv
<1>1. CASE UNCHANGED mgrVars
  BY <1>1 DEF mgrVars
<1>2. ASSUME NEW c \in Clients, d # c, StepOf(c) PROVE P(d)'
  BY <1>2, Others
<1>3. ASSUME StepOf(d) PROVE P(d)'
  <2>a. pc = [x \in Clients |-> pc[x]] /\ op = [x \in Clients |-> op[x]]
    BY DEF TypeOK
  <2>1. CASE \E conf \in Configs : CreateService(d, conf)
    BY <2>a, <2>1 DEF CreateService, Begin, Return, Goto
  <2>2. CASE CreateDescribe(d) \/ OpenService(d) \/ Delete(d) \/ Close(d) \/ Kill(d)
    BY <2>a, <2>2 DEF CreateDescribe, OpenService, Delete, Close, Kill, Return, Goto
  <2>3. CASE ConfigBegin(d)
    BY <2>a, <2>3 DEF ConfigBegin, Begin, Goto
  <2>4. CASE QueryConfig(d) \/ QueryDescription(d)
    BY <2>a, <2>4 DEF QueryConfig, QueryDescription, Query, Return, Goto
  <2>5. CASE \E e \in Edits : UpdateBegin(d, e[1], e[2])
    BY <2>a, <2>5 DEF UpdateBegin, Begin, Goto
  <2>6. CASE ChangeServiceConfig(d) \/ UpdateDescription(d)
    BY <2>a, <2>6 DEF ChangeServiceConfig, UpdateDescription, Return, Goto
  <2>. QED BY <1>3, <2>1, <2>2, <2>3, <2>4, <2>5, <2>6 DEF StepOf
<1>. QED BY <1>1, <1>2, <1>3, NextIsStepOf

\* The two halves that Config reads make up the whole.
LEMMA TwoHalves ==
  ASSUME cfg \in Config
  PROVE  [Settings EXCEPT !.Description = toString(cfg.Description)] = Read(cfg)
<1>. DEFINE lhs == [Settings EXCEPT !.Description = toString(cfg.Description)]
<1>1. lhs = [f \in Fields |-> lhs[f]] /\ Read(cfg) = [f \in Fields |-> Read(cfg)[f]]
  BY DEF Settings, Read, Config
<1>2. ASSUME NEW f \in Fields PROVE lhs[f] = Read(cfg)[f]
  BY DEF Settings, Read, Config, Fields, Strings, Numbers
<1>. QED BY <1>1, <1>2

\* While nobody interferes, each call of Config reads the settings of its
\* first.
LEMMA ReadStep == TypeOK /\ PhaseInv /\ ReadInv /\ [Next]_mgrVars => ReadInv'
<1>. DEFINE R(c) == calm[c] /\ op[c] = "config" =>
                      /\ cfg = snap[c]
                      /\ pc[c] \in {"queryDesc", "requeryDesc"} => got[c] = Settings
                      /\ pc[c] = "idle" => got[c] = IF err[c] THEN Zero ELSE Read(cfg)
<1> SUFFICES ASSUME TypeOK, PhaseInv, \A c \in Clients : R(c), [Next]_mgrVars,
                    NEW d \in Clients
             PROVE  R(d)'
  BY DEF ReadInv
<1>1. CASE UNCHANGED mgrVars
  BY <1>1 DEF mgrVars, Settings, Read
<1>2. ASSUME NEW c \in Clients, d # c, StepOf(c) PROVE R(d)'
  <2>1. cfg' = cfg => Settings' = Settings
    BY DEF Settings
  <2>. QED BY <1>2, <2>1, Others
<1>3. ASSUME StepOf(d) PROVE R(d)'
  <2>a. /\ pc = [x \in Clients |-> pc[x]] /\ op = [x \in Clients |-> op[x]]
        /\ err = [x \in Clients |-> err[x]] /\ got = [x \in Clients |-> got[x]]
        /\ snap = [x \in Clients |-> snap[x]] /\ cfg \in Config
    BY DEF TypeOK
  <2>1. CASE \/ \E conf \in Configs : CreateService(d, conf)
             \/ OpenService(d) \/ Delete(d) \/ Close(d) \/ Kill(d)
             \/ \E e \in Edits : UpdateBegin(d, e[1], e[2])
    <3>1. op'[d] # "config"
      BY <2>a, <2>1 DEF CreateService, OpenService, Delete, Close, Kill, UpdateBegin, Begin
    <3>. QED BY <3>1
  <2>2. CASE CreateDescribe(d) \/ ChangeServiceConfig(d) \/ UpdateDescription(d)
    <3>1. op[d] # "config" /\ UNCHANGED op
      BY <2>2 DEF PhaseInv, CreateDescribe, ChangeServiceConfig, UpdateDescription
    <3>. QED BY <3>1
  <2>3. CASE ConfigBegin(d)
    BY <2>a, <2>3 DEF ConfigBegin, Goto
  <2>4. CASE QueryConfig(d)
    <3>1. /\ UNCHANGED <<cfg, op, snap, calm>> /\ op[d] = "config"
          /\ Settings' = Settings
      BY <2>4 DEF PhaseInv, QueryConfig, Query, Settings
    <3>2. \/ pc'[d] = "requery"
          \/ pc'[d] = "idle" /\ err'[d] = TRUE /\ got'[d] = Zero
          \/ pc'[d] = "queryDesc" /\ got'[d] = Settings
      BY <2>a, <2>4 DEF QueryConfig, Query, Answer, Return, Goto
    <3>. QED BY <3>1, <3>2
  <2>5. CASE QueryDescription(d)
    <3>1. /\ UNCHANGED <<cfg, op, snap, calm>> /\ op[d] = "config"
          /\ pc[d] \in {"queryDesc", "requeryDesc"} /\ Settings' = Settings
      BY <2>5 DEF PhaseInv, QueryDescription, Query, Settings
    <3>2. \/ pc'[d] = "requeryDesc" /\ got'[d] = got[d]
          \/ pc'[d] = "idle" /\ err'[d] = TRUE /\ got'[d] = Zero
          \/ /\ pc'[d] = "idle" /\ err'[d] = FALSE
             /\ got'[d] = [got[d] EXCEPT !.Description = toString(cfg.Description)]
      BY <2>a, <2>5 DEF QueryDescription, Query, Return, Goto
    <3>. QED BY <2>a, <3>1, <3>2, TwoHalves
  <2>. QED BY <1>3, <2>1, <2>2, <2>3, <2>4, <2>5 DEF StepOf
<1>. QED BY <1>1, <1>2, <1>3, NextIsStepOf

\* While nobody interferes, the size that a query asks for is enough for the
\* next one.
LEMMA BufStep == TypeOK /\ PhaseInv /\ BufInv /\ [Next]_mgrVars => BufInv'
<1>. DEFINE B(c) == calm[c] /\ op[c] = "config" =>
                      /\ pc[c] = "requery" => buf[c] = cfg.LoadOrderGroup + cfg.Dependencies
                      /\ pc[c] = "requeryDesc" => buf[c] = cfg.Description
                      /\ pc[c] = "idle" /\ err[c] => faults > 0
<1> SUFFICES ASSUME TypeOK, PhaseInv, \A c \in Clients : B(c), [Next]_mgrVars,
                    NEW d \in Clients
             PROVE  B(d)'
  BY DEF BufInv
<1>a. faults \in Nat /\ (faults > 0 => faults' > 0) /\ (faults' = faults + 1 => faults' > 0)
  <2>1. faults \in 0 .. MaxFaults /\ MaxFaults \in Nat
    BY MgrAssumption DEF TypeOK
  <2>2. faults' = faults \/ faults' = faults + 1
    BY Changes
  <2>. QED BY <2>1, <2>2
<1>1. CASE UNCHANGED mgrVars
  BY <1>1 DEF mgrVars
<1>2. ASSUME NEW c \in Clients, d # c, StepOf(c) PROVE B(d)'
  BY <1>a, <1>2, Others
<1>3. ASSUME StepOf(d) PROVE B(d)'
  <2>a. /\ pc = [x \in Clients |-> pc[x]] /\ op = [x \in Clients |-> op[x]]
        /\ err = [x \in Clients |-> err[x]] /\ buf = [x \in Clients |-> buf[x]]
        /\ buf[d] \in Nat
    BY DEF TypeOK
  <2>b. cfg.LoadOrderGroup + cfg.Dependencies \in Nat /\ cfg.Description \in Nat
    BY DEF TypeOK, Config, Fields, Strings
  <2>1. CASE \/ \E conf \in Configs : CreateService(d, conf)
             \/ OpenService(d) \/ Delete(d) \/ Close(d) \/ Kill(d)
             \/ \E e \in Edits : UpdateBegin(d, e[1], e[2])
    <3>1. op'[d] # "config"
      BY <2>a, <2>1 DEF CreateService, OpenService, Delete, Close, Kill, UpdateBegin, Begin
    <3>. QED BY <3>1
  <2>2. CASE CreateDescribe(d) \/ ChangeServiceConfig(d) \/ UpdateDescription(d)
    <3>1. op[d] # "config" /\ UNCHANGED op
      BY <2>2 DEF PhaseInv, CreateDescribe, ChangeServiceConfig, UpdateDescription
    <3>. QED BY <3>1
  <2>3. CASE ConfigBegin(d)
    BY <2>a, <2>3 DEF ConfigBegin, Goto
  <2>4. CASE QueryConfig(d)
    <3>. DEFINE need == cfg.LoadOrderGroup + cfg.Dependencies
    <3>1. UNCHANGED <<cfg, op, calm>> /\ op[d] = "config"
      BY <2>4 DEF PhaseInv, QueryConfig, Query
    <3>2. \/ pc'[d] = "requery" /\ buf'[d] = need
          \/ /\ pc'[d] = "idle"
             /\ (pc[d] = "requery" /\ need > buf[d]) \/ faults' = faults + 1
          \/ pc'[d] = "queryDesc"
      BY <2>a, <2>b, <2>4 DEF QueryConfig, Query, Return, Goto, Grown, CallFails, Fault
    <3>. QED BY <1>a, <2>a, <2>b, <3>1, <3>2
  <2>5. CASE QueryDescription(d)
    <3>1. UNCHANGED <<cfg, op, calm>> /\ op[d] = "config"
      BY <2>5 DEF PhaseInv, QueryDescription, Query
    <3>2. \/ pc'[d] = "requeryDesc" /\ buf'[d] = cfg.Description
          \/ /\ pc'[d] = "idle"
             /\ (pc[d] = "requeryDesc" /\ cfg.Description > buf[d]) \/ faults' = faults + 1
          \/ pc'[d] = "idle" /\ err'[d] = FALSE
      BY <2>a, <2>b, <2>5 DEF QueryDescription, Query, Return, Goto, Grown, CallFails, Fault
    <3>. QED BY <1>a, <2>a, <2>b, <3>1, <3>2
  <2>. QED BY <1>3, <2>1, <2>2, <2>3, <2>4, <2>5 DEF StepOf
<1>. QED BY <1>1, <1>2, <1>3, NextIsStepOf

\* While nobody interferes, UpdateConfig starts from the settings that Config
\* read, and each of its calls from what the one before left.
LEMMA UpdateStep == TypeOK /\ PhaseInv /\ ReadInv /\ UpdateInv /\ [Next]_mgrVars => UpdateInv'
<1>. DEFINE U(c) ==
       calm[c] /\ op[c] = "update" =>
         /\ got[c] = Read(snap[c])
         /\ pc[c] = "change" => cfg = snap[c]
         /\ pc[c] = "redescribe" => cfg = Changed(want[c], snap[c])
         /\ pc[c] = "idle" => IF err[c] THEN cfg \in {snap[c], Changed(want[c], snap[c])}
                              ELSE cfg = Described(want[c], Changed(want[c], snap[c]))
<1> SUFFICES ASSUME TypeOK, PhaseInv, ReadInv, \A c \in Clients : U(c), [Next]_mgrVars,
                    NEW d \in Clients
             PROVE  U(d)'
  BY DEF UpdateInv
<1>1. CASE UNCHANGED mgrVars
  BY <1>1 DEF mgrVars
<1>2. ASSUME NEW c \in Clients, d # c, StepOf(c) PROVE U(d)'
  BY <1>2, Others
<1>3. ASSUME StepOf(d) PROVE U(d)'
  <2>a. /\ pc = [x \in Clients |-> pc[x]] /\ op = [x \in Clients |-> op[x]]
        /\ err = [x \in Clients |-> err[x]] /\ calm = [x \in Clients |-> calm[x]]
    BY DEF TypeOK
  <2>1. CASE \/ \E conf \in Configs : CreateService(d, conf)
             \/ OpenService(d) \/ Delete(d) \/ Close(d) \/ Kill(d) \/ ConfigBegin(d)
    <3>1. op'[d] # "update"
      BY <2>a, <2>1 DEF CreateService, OpenService, Delete, Close, Kill, ConfigBegin, Begin
    <3>. QED BY <3>1
  <2>2. CASE CreateDescribe(d) \/ QueryConfig(d) \/ QueryDescription(d)
    <3>1. op[d] # "update" /\ UNCHANGED op
      BY <2>2 DEF PhaseInv, CreateDescribe, QueryConfig, QueryDescription, Query
    <3>. QED BY <3>1
  <2>3. CASE \E e \in Edits : UpdateBegin(d, e[1], e[2])
    <3>1. /\ UNCHANGED <<cfg, got, snap>> /\ pc'[d] = "change" /\ pc[d] = "idle"
          /\ got[d] # Zero
      BY <2>a, <2>3 DEF UpdateBegin, Begin, Goto
    <3>2. calm'[d] => calm[d] /\ op[d] = "config"
      BY <2>a, <2>3 DEF UpdateBegin
    <3>3. calm[d] /\ op[d] = "config" => got[d] = Read(snap[d]) /\ cfg = snap[d]
      BY <3>1 DEF ReadInv
    <3>. QED BY <3>1, <3>2, <3>3
  <2>4. CASE ChangeServiceConfig(d)
    <3>1. /\ UNCHANGED <<op, got, want, snap>> /\ op[d] = "update" /\ pc[d] = "change"
          /\ calm'[d] => calm[d]
      BY <2>a, <2>4 DEF PhaseInv, ChangeServiceConfig, Store
    <3>2. \/ pc'[d] = "redescribe" /\ cfg' = Changed(want[d], cfg)
          \/ pc'[d] = "idle" /\ err'[d] = TRUE /\ cfg' = cfg
      BY <2>a, <2>4 DEF ChangeServiceConfig, Store, Return, Goto
    <3>. QED BY <3>1, <3>2
  <2>5. CASE UpdateDescription(d)
    <3>1. /\ UNCHANGED <<op, got, want, snap>> /\ op[d] = "update" /\ pc[d] = "redescribe"
          /\ calm'[d] => calm[d]
      BY <2>a, <2>5 DEF PhaseInv, UpdateDescription, Store
    <3>2. \/ pc'[d] = "idle" /\ err'[d] = FALSE /\ cfg' = Described(want[d], cfg)
          \/ pc'[d] = "idle" /\ err'[d] = TRUE /\ cfg' = cfg
      BY <2>a, <2>5 DEF UpdateDescription, Store, Return, Goto
    <3>. QED BY <3>1, <3>2
  <2>. QED BY <1>3, <2>1, <2>2, <2>3, <2>4, <2>5 DEF StepOf
<1>. QED BY <1>1, <1>2, <1>3, NextIsStepOf

\* The inductive invariant holds in every reachable state.
THEOREM Invariance == Spec => []IInv
<1>1. Init => IInv
  <2>. SUFFICES ASSUME Init PROVE IInv
    OBVIOUS
  <2>1. MaxOps \in Nat /\ MaxFaults \in Nat
    BY MgrAssumption
  <2>2. TypeOK
    BY <2>1, ConfigTypes DEF Init, TypeOK
  <2>. QED BY <2>2 DEF Init, IInv, PhaseInv, ReadInv, BufInv, UpdateInv
<1>2. IInv /\ [Next]_mgrVars => IInv'
  BY TypingStep, PhaseStep, ReadStep, BufStep, UpdateStep DEF IInv
<1>. QED BY <1>1, <1>2, PTL DEF Spec

\* The settings, operations and handles are always what mgr's types allow, and
\* an installed service never has start type zero.
THEOREM Typing == Spec => []TypeOK
<1>1. IInv => TypeOK
  BY DEF IInv
<1>. QED BY <1>1, Invariance, PTL

\* A Config that nobody disturbs returns the settings in the database, up to
\* the length toString can hold, whatever buffers its queries needed.
THEOREM ConfigReadsDatabase == Spec => []ConfigAccurate
<1>1. IInv => ConfigAccurate
  <2>. SUFFICES ASSUME IInv, NEW c \in Clients, Ended(c, "config", FALSE)
                PROVE  /\ \A f \in Fields \ {"Password"} :
                            got[c][f] = cfg[f] \/ (got[c][f] < cfg[f] /\ ~Fits(cfg))
                       /\ got[c].Password = 0
    BY DEF ConfigAccurate
  <2>1. got[c] = Read(cfg)
    BY DEF IInv, ReadInv, Ended
  <2>2. cfg \in Config /\ StringCap \in Nat
    BY MgrAssumption DEF IInv, TypeOK
  <2>3. got[c].Password = 0
    BY <2>1 DEF Read, Fields, Strings
  <2>4. ASSUME NEW f \in Fields \ {"Password"}
        PROVE  got[c][f] = cfg[f] \/ (got[c][f] < cfg[f] /\ ~Fits(cfg))
    BY <2>1, <2>2 DEF Read, toString, Fits, Config, Fields, Strings, Numbers
  <2>. QED BY <2>3, <2>4
<1>. QED BY <1>1, Invariance, PTL

\* An undisturbed Config fails only with a call that Windows refuses: the
\* buffer of the second query has the size the first one asked for.
THEOREM ConfigFailsWithFault == Spec => []ConfigFailsOnlyIfDisturbed
<1>1. IInv => ConfigFailsOnlyIfDisturbed
  BY DEF IInv, BufInv, ConfigFailsOnlyIfDisturbed, Ended
<1>. QED BY <1>1, Invariance, PTL

\* Reading, editing one setting and writing back changes that setting only,
\* although an empty string means "unchanged" and the password was not read.
THEOREM EditIsLocal == Spec => []EditKeepsTheRest
<1>1. IInv => EditKeepsTheRest
  <2>. SUFFICES ASSUME IInv, NEW c \in Clients, Ended(c, "update", FALSE), Fits(snap[c]),
                       NEW f \in Fields
                PROVE  cfg[f] = IF want[c][f] # got[c][f] /\ (f \in Strings => want[c][f] # 0)
                                THEN want[c][f] ELSE snap[c][f]
    BY DEF EditKeepsTheRest
  <2>1. /\ got[c] = Read(snap[c])
        /\ cfg = Described(want[c], Changed(want[c], snap[c]))
    BY DEF IInv, UpdateInv, Ended
  <2>2. snap[c] \in Config /\ want[c] \in Config /\ StringCap \in Nat
    BY MgrAssumption DEF IInv, TypeOK
  <2>3. got[c][f] = IF f = "Password" THEN 0 ELSE snap[c][f]
    BY <2>1, <2>2 DEF Read, toString, Fits, Config, Fields, Strings, Numbers
  <2>4. cfg[f] = IF f \in Numbers THEN want[c][f] ELSE toPtr(want[c][f], snap[c][f])
    BY <2>1, <2>2 DEF Described, Changed, Config, Fields, Strings, Numbers
  <2>. QED BY <2>3, <2>4 DEF toPtr, Fields, Strings, Numbers
<1>. QED BY <1>1, Invariance, PTL

\* An UpdateConfig that fails has written nothing, or all but the description.
THEOREM FailureIsPrefix == Spec => []FailedUpdateIsPrefix
<1>1. IInv => FailedUpdateIsPrefix
  BY DEF IInv, UpdateInv, FailedUpdateIsPrefix, Ended
<1>. QED BY <1>1, Invariance, PTL
===============================================================================
