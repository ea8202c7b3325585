------------------------------- MODULE Installer -------------------------------
(***************************************************************************)
(* The install and remove commands of the example program: installService  *)
(* and removeService with the parts of packages mgr, eventlog and registry *)
(* they call.  Several instances of the tool may run at once, any call may *)
(* fail, and a tool may be killed between two calls.                       *)
(*                                                                         *)
(* The service database and the registry are Windows' (external).  A       *)
(* service that is deleted stays, marked, until the last handle to it is   *)
(* closed; a key that is deleted invalidates the handles to it.  The       *)
(* service itself is not running.  Handles other than those to the service *)
(* and to the source's key are left out: nothing depends on them.          *)
(***************************************************************************)
EXTENDS Integers

CONSTANTS
  Tools,       \* instances of the tool
  MaxRuns,     \* bound: commands started
  MaxFaults    \* bound: calls that fail without a reason visible here

ASSUME InstallerAssumption == MaxRuns \in Nat /\ MaxFaults \in Nat

VARIABLES
  service,   \* "none", "installed", "deleting"
  exe,       \* per tool: what exePath found
  image,     \* what the installed service's binary path names
  source,    \* the event source's key: NoKey, or how many values it holds
  pc, job,   \* per tool: where it is, and in which command
  holders,   \* tools with a handle s to the service
  sk,        \* tools with a valid handle sk to the source's key
  runs, faults, kills,
  overlap    \* history: commands of two tools have overlapped

instVars == <<service, exe, image, source, pc, job, holders, sk, runs, faults, kills,
              overlap>>

NoKey == -1
AllValues == 3     \* CustomSource, EventMessageFile, TypesSupported

\* What a path names; "" is the empty path, which exePath returns with an error.
Entries == {"file", "directory", "nothing", ""}

TypeOK ==
  /\ service \in {"none", "installed", "deleting"}
  /\ exe \in [Tools -> Entries] /\ image \in Entries
  /\ source \in NoKey .. AllValues
  /\ pc \in [Tools -> {"idle", "exePath", "connect", "open", "create", "subkey", "values",
                       "close", "rollback", "delete", "rmkey"}]
  /\ job \in [Tools -> {"install", "remove"}]
  /\ holders \subseteq Tools /\ sk \subseteq Tools
  /\ runs \in 0 .. MaxRuns /\ faults \in 0 .. MaxFaults /\ kills \in Nat
  /\ overlap \in BOOLEAN

Init ==
  /\ service = "none" /\ source = NoKey
  /\ exe = [p \in Tools |-> ""] /\ image = ""
  /\ pc = [p \in Tools |-> "idle"] /\ job = [p \in Tools |-> "install"]
  /\ holders = {} /\ sk = {}
  /\ runs = 0 /\ faults = 0 /\ kills = 0 /\ overlap = FALSE

Goto(p, l) == pc' = [pc EXCEPT ![p] = l]
Fault == faults < MaxFaults /\ faults' = faults + 1
NoFault == UNCHANGED faults

Begin(p) ==
  /\ pc[p] = "idle" /\ runs < MaxRuns /\ runs' = runs + 1
  /\ \/ job' = [job EXCEPT ![p] = "install"] /\ Goto(p, "exePath")
     \/ job' = [job EXCEPT ![p] = "remove"] /\ Goto(p, "connect")
  /\ overlap' = (overlap \/ \E q \in Tools : pc[q] # "idle")
  /\ UNCHANGED <<service, exe, image, source, holders, sk, faults, kills>>

\* A command returns, or its process ends: the deferred calls, or Windows,
\* close the handles.  A service in state st that is marked for deletion goes
\* when the last handle to it does.
ReturnWith(p, st) ==
  /\ Goto(p, "idle")
  /\ holders' = holders \ {p}
  /\ service' = IF st = "deleting" /\ holders \subseteq {p} THEN "none" ELSE st
  /\ UNCHANGED <<job, runs, exe, image>>

Return(p) == ReturnWith(p, service) /\ sk' = sk \ {p} /\ UNCHANGED source

Kill(p) == pc[p] # "idle" /\ kills' = kills + 1 /\ Return(p) /\ NoFault /\ UNCHANGED overlap

\* err after os.Stat of a path that names e and the test for a directory.
StatErr(e) ==
  CASE e = "file" -> "nil" [] e = "directory" -> "is directory" [] OTHER -> "no such file"

\* What exePath returns, err being its outer variable after the first test: the
\* program's own path, which names p, or if that has no extension the path with
\* ".exe" added, which names x.  The inner block has an err of its own.
exePathWith(p, x, hasExt, err) ==
  IF StatErr(p) = "nil" THEN [path |-> p, err |-> "nil"]
  ELSE IF ~hasExt /\ StatErr(x) = "nil" THEN [path |-> x, err |-> "nil"]
  ELSE [path |-> "", err |-> err]

\* Seeded defect: err is not set when the path names a directory.
exePath_DirNoError(p, x, hasExt) ==
  exePathWith(p, x, hasExt, IF p = "directory" THEN "nil" ELSE StatErr(p))

\* A path that filepath.Abs fails on is like one that names nothing.
exePath(p, x, hasExt) == exePathWith(p, x, hasExt, StatErr(p))

\* installService gives up on an error, and otherwise uses the path.
ExePath(p) ==
  /\ pc[p] = "exePath"
  /\ \E e, x \in Entries \ {""}, hasExt \in BOOLEAN :
       LET found == exePath(e, x, hasExt)
       IN IF found.err # "nil" THEN Return(p)
          ELSE /\ exe' = [exe EXCEPT ![p] = found.path] /\ Goto(p, "connect")
               /\ UNCHANGED <<service, image, source, job, holders, sk, runs>>
  /\ NoFault /\ UNCHANGED <<kills, overlap>>

\* mgr.Connect.
Connect(p) ==
  /\ pc[p] = "connect"
  /\ \/ Goto(p, "open") /\ NoFault
        /\ UNCHANGED <<service, exe, image, source, job, holders, sk, runs>>
     \/ Return(p) /\ Fault
  /\ UNCHANGED <<kills, overlap>>

\* OpenService.  For an install any failure means "go ahead".
OpenService(p) ==
  /\ pc[p] = "open"
  /\ \/ /\ service # "none" /\ job[p] = "install"
        /\ Return(p) /\ NoFault
     \/ /\ service # "none" /\ job[p] = "remove"
        /\ Goto(p, "delete") /\ holders' = holders \cup {p} /\ NoFault
        /\ UNCHANGED <<service, exe, image, source, job, sk, runs>>
     \/ /\ IF service = "none" THEN NoFault ELSE Fault
        /\ IF job[p] = "install"
           THEN /\ Goto(p, "create")
                /\ UNCHANGED <<service, exe, image, source, job, holders, sk, runs>>
           ELSE Return(p)
  /\ UNCHANGED <<kills, overlap>>

\* mgr.CreateService; the example's Config has no Description.
CreateService(p) ==
  /\ pc[p] = "create"
  /\ \/ /\ service = "none"
        /\ service' = "installed" /\ holders' = holders \cup {p} /\ Goto(p, "subkey")
        /\ image' = exe[p] /\ NoFault /\ UNCHANGED <<exe, source, job, sk, runs>>
     \/ service # "none" /\ Return(p) /\ NoFault
     \/ service = "none" /\ Return(p) /\ Fault
  /\ UNCHANGED <<kills, overlap>>

\* eventlog.Install: OpenKey and CreateSubKey; a key that exists is an error.
CreateSubKey(p) ==
  /\ pc[p] = "subkey"
  /\ \/ /\ source = NoKey
        /\ source' = 0 /\ sk' = sk \cup {p} /\ Goto(p, "values") /\ NoFault
     \/ /\ IF source = NoKey THEN Fault ELSE NoFault
        /\ Goto(p, "rollback") /\ UNCHANGED <<source, sk>>
  /\ UNCHANGED <<service, exe, image, job, holders, runs, kills, overlap>>

\* Seeded defect: the last value is forgotten.
LastValue_SkipLast == source + 2 = AllValues

\* Seeded defect: one value too many is set.
LastValue_OneMore == source = AllValues

LastValue == source + 1 = AllValues

\* eventlog.Install: the three values, one call each.  A call fails when a
\* remove has deleted the key meanwhile.
SetValue(p) ==
  /\ pc[p] = "values"
  /\ \/ /\ p \in sk /\ source' = source + 1
        /\ IF LastValue THEN Goto(p, "close") ELSE UNCHANGED pc
        /\ NoFault
     \/ /\ IF p \in sk THEN Fault ELSE NoFault
        /\ Goto(p, "rollback") /\ UNCHANGED source
  /\ UNCHANGED <<service, exe, image, job, holders, sk, runs, kills, overlap>>

\* eventlog.Install and installService return nil.
Installed(p) == pc[p] = "close" /\ Return(p) /\ NoFault /\ UNCHANGED <<kills, overlap>>

\* Seeded defect: the service is not deleted when the event source fails.
Rollback_None(p) == pc[p] = "rollback" /\ Return(p) /\ NoFault /\ UNCHANGED <<kills, overlap>>

\* installService after a failed event source: s.Delete(), whose error is
\* ignored.  It fails when another tool has marked the service already.
Rollback(p) ==
  /\ pc[p] = "rollback"
  /\ \/ ReturnWith(p, "deleting") /\ NoFault /\ sk' = sk \ {p} /\ UNCHANGED source
     \/ service = "installed" /\ Return(p) /\ Fault
  /\ UNCHANGED <<kills, overlap>>

\* removeService: s.Delete().
Delete(p) ==
  /\ pc[p] = "delete"
  /\ \/ /\ service = "installed" /\ service' = "deleting"
        /\ Goto(p, "rmkey") /\ NoFault
        /\ UNCHANGED <<exe, image, source, job, holders, sk, runs>>
     \/ service = "deleting" /\ Return(p) /\ NoFault
     \/ service = "installed" /\ Return(p) /\ Fault
  /\ UNCHANGED <<kills, overlap>>

\* Seeded defect: eventlog.Remove is not called.
RemoveKey_Forgotten(p) == pc[p] = "rmkey" /\ Return(p) /\ NoFault /\ UNCHANGED <<kills, overlap>>

\* eventlog.Remove, and the command returns either way.
RemoveKey(p) ==
  /\ pc[p] = "rmkey" /\ ReturnWith(p, service)
  /\ \/ source # NoKey /\ source' = NoKey /\ sk' = {} /\ NoFault
     \/ source = NoKey /\ NoFault /\ UNCHANGED <<source, sk>>
     \/ source # NoKey /\ Fault /\ UNCHANGED <<source, sk>>
  /\ UNCHANGED <<kills, overlap>>

Next ==
  \E p \in Tools :
    \/ Begin(p) \/ Kill(p) \/ ExePath(p) \/ Connect(p) \/ OpenService(p) \/ CreateService(p)
    \/ CreateSubKey(p) \/ SetValue(p) \/ Installed(p) \/ Rollback(p)
    \/ Delete(p) \/ RemoveKey(p)

Spec == Init /\ [][Next]_instVars

-------------------------------------------------------------------------------
Quiescent == \A p \in Tools : pc[p] = "idle"

\* installService undoes what it did: when all commands are through, an
\* installed service has its complete event source, even if one call failed
\* somewhere and installs and removes ran at the same time.
InstalledMeansComplete ==
  Quiescent /\ service = "installed" /\ faults <= 1 /\ kills = 0 => source = AllValues

\* The path that Windows will launch named a file when it was looked up: never a
\* directory, never the empty path of an error that was overlooked, whichever
\* of the tools created the service.
InstalledRunsFile == service # "none" => image = "file"

\* A key with only some of its values, which neither a later install nor a
\* later remove can repair, is never the result of concurrent commands alone.
PartialKeyOnlyAfterFault ==
  Quiescent /\ source \in 0 .. AllValues - 1 => faults > 0 \/ kills > 0

\* Commands that run one after the other and without a failure leave both the
\* service and its event source, or neither.
BothOrNeither ==
  Quiescent /\ ~overlap /\ faults = 0 /\ kills = 0 =>
    \/ service = "installed" /\ source = AllValues
    \/ service = "none" /\ source = NoKey
===============================================================================
