---------------------------------- MODULE Mgr ----------------------------------
(***************************************************************************)
(* Package mgr: several programs create, open, read, change, delete and    *)
(* close one service.  Config and UpdateConfig are each a sequence of      *)
(* Windows calls on a database that others change in between, and any call *)
(* may fail.  The database is Windows' (external): a NULL string leaves a  *)
(* setting alone, and a service that is deleted goes with its last handle. *)
(*                                                                         *)
(* A string or list is represented by its length, 0 being the empty one.   *)
(* LoadOrderGroup also stands for BinaryPathName, ServiceStartName and     *)
(* DisplayName, which are passed in the same way.  TagId is left out: it   *)
(* is read and never written.                                              *)
(***************************************************************************)
EXTENDS Integers

CONSTANTS
  Clients,
  Configs,     \* the settings a service may be created with
  Edits,       \* pairs of a setting and the value a client gives it
  FirstBuf,    \* length for which the first buffer (1024 bytes) is enough
  StringCap,   \* the longest string toString can hold (4096 in the code)
  MaxOps,      \* bound: operations begun
  MaxFaults    \* bound: calls that fail without a reason visible here

Strings == {"LoadOrderGroup", "Dependencies", "Password", "Description"}
Numbers == {"ServiceType", "StartType", "ErrorControl"}
Fields == Strings \cup Numbers
Config == [Fields -> Nat]

ASSUME MgrAssumption ==
  /\ Configs \subseteq Config
  /\ \A e \in Edits : e[1] \in Fields /\ e[2] \in Nat
  /\ FirstBuf \in Nat /\ StringCap \in Nat /\ MaxOps \in Nat /\ MaxFaults \in Nat

StartManual == 3
ErrorNormal == 1
OwnProcess == 16

VARIABLES
  db,            \* "none", "installed", "deleting"
  cfg,           \* the settings the database holds
  pc, op, err,   \* per client: where it is, its last operation, did it fail
  s, h,          \* clients with a Service, clients with a handle that
                 \* CreateService has not handed over (and may never)
  buf, got,      \* size of the buffer, the Config read
  want,          \* the Config passed to CreateService or UpdateConfig
  snap, calm,    \* history: cfg when the client began to read, and whether
                 \* nobody else has changed it since
  ops, faults

mgrVars == <<db, cfg, pc, op, err, s, h, buf, got, want, snap, calm, ops, faults>>

Zero == [f \in Fields |-> 0]

TypeOK ==
  /\ db \in {"none", "installed", "deleting"} /\ cfg \in Config
  /\ db # "none" => cfg.StartType # 0
  /\ pc \in [Clients -> {"idle", "describe", "query", "requery", "queryDesc",
                         "requeryDesc", "change", "redescribe"}]
  /\ op \in [Clients -> {"none", "create", "open", "config", "update", "delete", "close"}]
  /\ err \in [Clients -> BOOLEAN] /\ calm \in [Clients -> BOOLEAN]
  /\ s \subseteq Clients /\ h \subseteq Clients
  /\ buf \in [Clients -> Nat] /\ got \in [Clients -> Config]
  /\ want \in [Clients -> Config] /\ snap \in [Clients -> Config]
  /\ ops \in 0 .. MaxOps /\ faults \in 0 .. MaxFaults

Init ==
  /\ db = "none" /\ cfg = Zero /\ s = {} /\ h = {}
  /\ pc = [c \in Clients |-> "idle"] /\ op = [c \in Clients |-> "none"]
  /\ err = [c \in Clients |-> FALSE] /\ calm = [c \in Clients |-> FALSE]
  /\ buf = [c \in Clients |-> 0] /\ got = [c \in Clients |-> Zero]
  /\ want = [c \in Clients |-> Zero] /\ snap = [c \in Clients |-> Zero]
  /\ ops = 0 /\ faults = 0

Goto(c, l) == pc' = [pc EXCEPT ![c] = l]
Begin(c, o) ==
  /\ pc[c] = "idle" /\ ops < MaxOps
  /\ ops' = ops + 1 /\ op' = [op EXCEPT ![c] = o]
Return(c, failed) == Goto(c, "idle") /\ err' = [err EXCEPT ![c] = failed]
Fault == faults < MaxFaults /\ faults' = faults + 1
NoFault == UNCHANGED faults

\* A call that fails if it must, and may fail in any case.
CallFails(must) == IF must THEN NoFault ELSE Fault

\* The database holds new; only client c knows what the change is.
Store(c, new) ==
  /\ cfg' = new
  /\ calm' = [d \in Clients |-> calm[d] /\ d = c]

\* A deleted service goes with its last handle.
Closed(left) == IF db = "deleting" /\ left = {} THEN "none" ELSE db

-------------------------------------------------------------------------------
(***************************************************************************)
(* CreateService, OpenService, Delete, Close.                              *)
(***************************************************************************)

\* Seeded defect: an empty string is passed on as such.
toPtr_Empty(new, old) == new

\* toPtr and toStringBlock turn an empty string or list into a NULL pointer,
\* which leaves the old value alone.
toPtr(new, old) == IF new = 0 THEN old ELSE new

\* Zero stands for a setting that was left out; it is also ErrorIgnore, which
\* therefore cannot be asked for.
Default(n, d) == IF n = 0 THEN d ELSE n

\* What the database holds for a service that is created with c.
Created(c) ==
  [c EXCEPT !.ServiceType = OwnProcess, !.StartType = Default(@, StartManual),
            !.ErrorControl = Default(@, ErrorNormal), !.Description = 0]

\* The call that creates; a Description takes another one.
CreateService(c, conf) ==
  /\ c \notin s /\ Begin(c, "create")
  /\ want' = [want EXCEPT ![c] = conf]
  /\ \/ /\ db = "none" /\ db' = "installed" /\ cfg' = Created(conf) /\ NoFault
        /\ calm' = [d \in Clients |-> d = c]
        /\ IF conf.Description # 0
           THEN Goto(c, "describe") /\ h' = h \cup {c} /\ UNCHANGED <<s, err>>
           ELSE Return(c, FALSE) /\ s' = s \cup {c} /\ UNCHANGED h
     \/ /\ CallFails(db # "none") /\ Return(c, TRUE)
        /\ UNCHANGED <<db, cfg, calm, s, h>>
  /\ UNCHANGED <<buf, got, snap>>

\* updateDescription in CreateService: when it fails, the service is there and
\* its handle is in nobody's hands.
CreateDescribe(c) ==
  /\ pc[c] = "describe"
  /\ \/ /\ db # "deleting" /\ Store(c, [cfg EXCEPT !.Description = want[c].Description])
        /\ Return(c, FALSE) /\ s' = s \cup {c} /\ h' = h \ {c} /\ NoFault
     \/ CallFails(db = "deleting") /\ Return(c, TRUE) /\ UNCHANGED <<cfg, calm, s, h>>
  /\ UNCHANGED <<db, op, buf, got, want, snap, ops>>

OpenService(c) ==
  /\ c \notin s /\ Begin(c, "open")
  /\ \/ db # "none" /\ s' = s \cup {c} /\ Return(c, FALSE) /\ NoFault
     \/ CallFails(db = "none") /\ Return(c, TRUE) /\ UNCHANGED s
  /\ UNCHANGED <<db, cfg, h, buf, got, want, snap, calm>>

Delete(c) ==
  /\ c \in s /\ Begin(c, "delete")
  /\ \/ db = "installed" /\ db' = "deleting" /\ Return(c, FALSE) /\ NoFault
     \/ CallFails(db = "deleting") /\ Return(c, TRUE) /\ UNCHANGED db
  /\ UNCHANGED <<cfg, s, h, buf, got, want, snap, calm>>

\* Seeded defect: the handle is not closed.
CloseHandle_Not(c) == s' = s \ {c} /\ UNCHANGED <<db, h>>

CloseHandle(c) == s' = s \ {c} /\ db' = Closed((s \ {c}) \cup h) /\ UNCHANGED h

Close(c) ==
  /\ c \in s /\ Begin(c, "close") /\ CloseHandle(c)
  /\ Return(c, FALSE)
  /\ UNCHANGED <<cfg, buf, got, want, snap, calm, faults>>

\* The client's process ends, possibly between two calls of an operation, and
\* Windows closes its handles.
Kill(c) ==
  /\ Goto(c, "idle") /\ op' = [op EXCEPT ![c] = "none"]
  /\ got' = [got EXCEPT ![c] = Zero]
  /\ s' = s \ {c} /\ h' = h \ {c} /\ db' = Closed((s \cup h) \ {c})
  /\ UNCHANGED <<cfg, err, buf, want, snap, calm, ops, faults>>

-------------------------------------------------------------------------------
(***************************************************************************)
(* Config: QueryServiceConfig and QueryServiceConfig2, each with a buffer  *)
(* of fixed size first and, if that is too small, one of the size asked    *)
(* for.  Somebody may have made the answer longer in the meantime.         *)
(***************************************************************************)

ConfigBegin(c) ==
  /\ c \in s /\ Begin(c, "config") /\ Goto(c, "query")
  /\ buf' = [buf EXCEPT ![c] = FirstBuf]
  /\ snap' = [snap EXCEPT ![c] = cfg] /\ calm' = [calm EXCEPT ![c] = TRUE]
  /\ UNCHANGED <<db, cfg, err, s, h, got, want, faults>>

\* Seeded defect: the second call is told the size of the first buffer.
Grown_Not(c, need) == UNCHANGED buf

Grown(c, need) == buf' = [buf EXCEPT ![c] = need]

\* One call for an answer of length need that fails: the call at label first is
\* tried again at label retry if its buffer was too small; any other error, and
\* every error of the second call, is Config's.
Query(c, need, first, retry) ==
  \/ /\ pc[c] = first /\ need > buf[c]
     /\ Goto(c, retry) /\ Grown(c, need) /\ NoFault /\ UNCHANGED <<err, got>>
  \/ /\ pc[c] \in {first, retry}
     /\ CallFails(pc[c] = retry /\ need > buf[c])
     /\ Return(c, TRUE) /\ got' = [got EXCEPT ![c] = Zero] /\ UNCHANGED buf

\* A longer string is cut.
toString(n) == IF n > StringCap THEN StringCap ELSE n

\* What Windows writes into the buffer, as Config takes it from there; the
\* password is not part of it.
Settings == [cfg EXCEPT !.Password = 0, !.Description = 0, !.LoadOrderGroup = toString(@)]

\* Seeded defect: p still points to the first buffer, which holds nothing.
Answer_FirstBuffer(c) == IF pc[c] = "requery" THEN Zero ELSE Settings

Answer(c) == Settings

QueryConfig(c) ==
  /\ LET need == cfg.LoadOrderGroup + cfg.Dependencies
     IN \/ Query(c, need, "query", "requery")
        \/ /\ pc[c] \in {"query", "requery"} /\ need <= buf[c]
           /\ got' = [got EXCEPT ![c] = Answer(c)]
           /\ Goto(c, "queryDesc") /\ buf' = [buf EXCEPT ![c] = FirstBuf]
           /\ NoFault /\ UNCHANGED err
  /\ UNCHANGED <<db, cfg, op, s, h, want, snap, calm, ops>>

QueryDescription(c) ==
  /\ \/ Query(c, cfg.Description, "queryDesc", "requeryDesc")
     \/ /\ pc[c] \in {"queryDesc", "requeryDesc"} /\ cfg.Description <= buf[c]
        /\ got' = [got EXCEPT ![c].Description = toString(cfg.Description)]
        /\ Return(c, FALSE) /\ NoFault /\ UNCHANGED buf
  /\ UNCHANGED <<db, cfg, op, s, h, want, snap, calm, ops>>

-------------------------------------------------------------------------------
(***************************************************************************)
(* UpdateConfig of what Config returned, with one setting edited.          *)
(***************************************************************************)

UpdateBegin(c, f, v) ==
  /\ c \in s /\ got[c] # Zero /\ Begin(c, "update")
  /\ want' = [want EXCEPT ![c] = [got[c] EXCEPT ![f] = v]]
  /\ calm' = [calm EXCEPT ![c] = @ /\ op[c] = "config"]
  /\ Goto(c, "change")
  /\ UNCHANGED <<db, cfg, err, s, h, buf, got, snap, faults>>

\* The settings of old after a change to new: strings through toPtr, numbers
\* as they are, the description not at all.
Changed(new, old) ==
  [f \in Fields |-> CASE f = "Description" -> old[f]
                      [] f \in Numbers     -> new[f]
                      [] OTHER             -> toPtr(new[f], old[f])]

Described(new, old) == [old EXCEPT !.Description = toPtr(new.Description, @)]

\* A change of a service that is going, or to a start type that is none.
Refused(c) == db = "deleting" \/ want[c].StartType = 0

\* Seeded defect: the description is changed first.
ChangeServiceConfig_DescriptionFirst(c) ==
  /\ pc[c] = "change"
  /\ \/ db # "deleting" /\ Store(c, Described(want[c], cfg))
        /\ Goto(c, "redescribe") /\ NoFault /\ UNCHANGED err
     \/ CallFails(Refused(c)) /\ Return(c, TRUE) /\ UNCHANGED <<cfg, calm>>
  /\ UNCHANGED <<db, op, s, h, buf, got, want, snap, ops>>

ChangeServiceConfig(c) ==
  /\ pc[c] = "change"
  /\ \/ ~Refused(c) /\ Store(c, Changed(want[c], cfg))
        /\ Goto(c, "redescribe") /\ NoFault /\ UNCHANGED err
     \/ CallFails(Refused(c)) /\ Return(c, TRUE) /\ UNCHANGED <<cfg, calm>>
  /\ UNCHANGED <<db, op, s, h, buf, got, want, snap, ops>>

UpdateDescription(c) ==
  /\ pc[c] = "redescribe"
  /\ \/ db # "deleting" /\ Store(c, Described(want[c], cfg)) /\ Return(c, FALSE) /\ NoFault
     \/ CallFails(db = "deleting") /\ Return(c, TRUE) /\ UNCHANGED <<cfg, calm>>
  /\ UNCHANGED <<db, op, s, h, buf, got, want, snap, ops>>

Next ==
  \E c \in Clients :
    \/ \E conf \in Configs : CreateService(c, conf)
    \/ CreateDescribe(c) \/ OpenService(c) \/ Delete(c) \/ Close(c) \/ Kill(c)
    \/ ConfigBegin(c) \/ QueryConfig(c) \/ QueryDescription(c)
    \/ \E e \in Edits : UpdateBegin(c, e[1], e[2])
    \/ ChangeServiceConfig(c) \/ UpdateDescription(c)

Spec == Init /\ [][Next]_mgrVars

-------------------------------------------------------------------------------
\* Client c's operation o has just ended, and nobody has interfered since it
\* began to read, or created the service.
Ended(c, o, failed) == pc[c] = "idle" /\ op[c] = o /\ err[c] = failed /\ calm[c]

\* No string of conf is longer than toString can hold.
Fits(conf) == conf.LoadOrderGroup <= StringCap /\ conf.Description <= StringCap

\* Config returns what the database holds, up to the length of a string and
\* the password, although it asks twice: the two halves can only disagree when
\* somebody changed the service in between.
ConfigAccurate ==
  \A c \in Clients : Ended(c, "config", FALSE) =>
    /\ \A f \in Fields \ {"Password"} : got[c][f] = cfg[f] \/ (got[c][f] < cfg[f] /\ ~Fits(cfg))
    /\ got[c].Password = 0

\* Reading the settings, editing one and writing them back changes that one
\* and nothing else, the password included, which Config does not return.  Two
\* edits do otherwise: a string that is emptied keeps its old value, since an
\* empty string is written as NULL; and a service with a string longer than
\* toString reads (4096 units) is left out, since its beginning is written back.
EditKeepsTheRest ==
  \A c \in Clients : Ended(c, "update", FALSE) /\ Fits(snap[c]) =>
    \A f \in Fields :
      cfg[f] = IF want[c][f] # got[c][f] /\ (f \in Strings => want[c][f] # 0)
               THEN want[c][f] ELSE snap[c][f]

\* An UpdateConfig that returns an error has changed nothing, or all but the
\* description; never the description alone.
FailedUpdateIsPrefix ==
  \A c \in Clients : Ended(c, "update", TRUE) =>
    cfg \in {snap[c], Changed(want[c], snap[c])}

\* Whatever the size of the answers, Config fails only with a call that
\* Windows refuses, or when somebody has made an answer longer between the
\* call that asks for the size and the one that uses it.
ConfigFailsOnlyIfDisturbed ==
  \A c \in Clients : Ended(c, "config", TRUE) => faults > 0

\* A service that was deleted is gone when every client has closed its
\* Service, unless a CreateService failed at its description and kept the
\* handle to itself.
DeletedGoes == db = "deleting" /\ s = {} => h # {}
===============================================================================
