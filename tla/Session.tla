-------------------------------- MODULE Session --------------------------------
(***************************************************************************)
(* How the example program finds out what it is: IsAnInteractiveSession of *)
(* package svc scans the groups of the process token, and main runs the    *)
(* service or obeys the command line accordingly.  Any Windows call may    *)
(* fail.  The token is Windows' (external); groups other than Interactive  *)
(* and Service are all alike.                                              *)
(***************************************************************************)
EXTENDS Integers, Sequences, SequencesExt

CONSTANTS
  MaxGroups,   \* bound: groups in a token
  FirstFit     \* groups for which getInfo's first buffer (50 bytes) is enough

ASSUME SessionAssumption == MaxGroups \in Nat /\ FirstFit \in Nat

Groups == {"Interactive", "Service", "Other"}
ToolCommands == {"debug", "install", "remove", "start", "stop", "pause", "continue"}
Args == ToolCommands \cup {"absent", "invalid"}

\* What has to be given back: the two SIDs and the token handle.
Resources == {"interSid", "serviceSid", "t"}

VARIABLES
  token,    \* the groups of the process token
  arg,      \* os.Args[1]
  pc,
  held,     \* what is allocated or open
  defers,   \* the deferred FreeSid and Close calls, the last one first to run
  b,        \* getInfo's buffer: groups it has room for, groups written to it
  n,        \* the size that GetTokenInformation asked for
  k,        \* the group being compared
  answer,   \* "none", "yes", "no" or "error"
  role      \* what main does

sessVars == <<token, arg, pc, held, defers, b, n, k, answer, role>>

\* make([]byte, ...): a buffer is zeroed, so it holds no group.
Make(room) == [room |-> room, groups |-> <<>>]

TypeOK ==
  /\ token \in Seq(Groups) /\ arg \in Args
  /\ pc \in {"interSid", "serviceSid", "t", "info", "again", "scan", "return", "main", "done"}
  /\ held \subseteq Resources /\ defers \in Seq(Resources)
  /\ b \in [room : Nat, groups : Seq(Groups)] /\ n \in Nat /\ k \in Nat
  /\ answer \in {"none", "yes", "no", "error"}
  /\ role \in ToolCommands \cup {"none", "service", "usage", "fatal"}

Init ==
  /\ token \in SeqOf(Groups, MaxGroups) /\ arg \in Args
  /\ pc = "interSid" /\ held = {} /\ defers = <<>>
  /\ b = Make(FirstFit) /\ n = 0 /\ k = 1
  /\ answer = "none" /\ role = "none"

\* return: the deferred calls run next.
Answer(a) == answer' = a /\ pc' = "return"

\* The call that gives r, and the defer that follows it.
AcquireThen(r, next, ds) ==
  /\ pc = r
  /\ \/ held' = held \cup {r} /\ defers' = ds /\ pc' = next /\ UNCHANGED answer
     \/ Answer("error") /\ UNCHANGED <<held, defers>>
  /\ UNCHANGED <<token, arg, b, n, k, role>>

\* Seeded defect: the second FreeSid is not deferred.
Acquire_DeferForgotten(r, next) ==
  AcquireThen(r, next, IF r = "serviceSid" THEN defers ELSE <<r>> \o defers)

\* allocSid for Interactive, then for Service, then OpenCurrentProcessToken.
Acquire(r, next) == AcquireThen(r, next, <<r>> \o defers)

\* getInfo's call of GetTokenInformation with buf.  When the groups do not fit,
\* n is the size they need and getInfo may retry; when they do, it returns the
\* pointer to ret.
GetTokenInformation(buf, retry, ret) ==
  /\ \/ b' = buf /\ Answer("error") /\ UNCHANGED n
     \/ IF Len(token) <= buf.room
        THEN b' = ret /\ pc' = "scan" /\ UNCHANGED <<n, answer>>
        ELSE /\ b' = buf /\ n' = Len(token)
             /\ IF retry THEN pc' = "again" /\ UNCHANGED answer ELSE Answer("error")
  /\ UNCHANGED <<token, arg, held, defers, k, role>>

Filled(buf) == [buf EXCEPT !.groups = token]

\* getInfo's first call.
GetInfo == pc = "info" /\ GetTokenInformation(b, TRUE, Filled(b))

\* Seeded defect: b := make(...) in the inner block, so that the second buffer
\* is filled and the first one, never written to, is returned.
GetInfoAgain_Shadowed == pc = "again" /\ GetTokenInformation(Make(n), FALSE, b)

\* The second, with a new buffer of the size asked for.
GetInfoAgain == pc = "again" /\ GetTokenInformation(Make(n), FALSE, Filled(Make(n)))

\* The two comparisons with a group.
Verdict(g) == CASE g = "Interactive" -> "yes" [] g = "Service" -> "no" [] OTHER -> "none"

\* The loop over the GroupCount groups behind the pointer that getInfo returned.
Scan ==
  /\ pc = "scan"
  /\ IF k > Len(b.groups) THEN Answer("no") /\ UNCHANGED k
     ELSE IF Verdict(b.groups[k]) # "none"
     THEN Answer(Verdict(b.groups[k])) /\ UNCHANGED k
     ELSE k' = k + 1 /\ UNCHANGED <<answer, pc>>
  /\ UNCHANGED <<token, arg, held, defers, b, n, role>>

\* One deferred call, or the return once all of them have run.
RunDefer ==
  /\ pc = "return"
  /\ IF defers = <<>> THEN pc' = "main" /\ UNCHANGED <<held, defers>>
     ELSE held' = held \ {Head(defers)} /\ defers' = Tail(defers) /\ UNCHANGED pc
  /\ UNCHANGED <<token, arg, b, n, k, answer, role>>

\* main: the service, or one of the commands.
Main ==
  /\ pc = "main" /\ pc' = "done"
  /\ role' = IF answer = "error" THEN "fatal"
             ELSE IF answer = "no" THEN "service"
             ELSE IF arg \in ToolCommands THEN arg
             ELSE "usage"
  /\ UNCHANGED <<token, arg, held, defers, b, n, k, answer>>

Next ==
  \/ Acquire("interSid", "serviceSid") \/ Acquire("serviceSid", "t") \/ Acquire("t", "info")
  \/ GetInfo \/ GetInfoAgain \/ Scan \/ RunDefer \/ Main

Spec == Init /\ [][Next]_sessVars

-------------------------------------------------------------------------------
Member(g) == \E i \in DOMAIN token : token[i] = g

\* What main does agrees with "membership in the Interactive group", in whatever
\* place of a token of whatever size, through both buffers of getInfo: a tool is
\* a member, a service is none, and the program gives up only when a call
\* failed.  Of a token with the Service group as well the documentation's
\* sentence decides only half: a tool is still a member, but the code also
\* answers no where Service comes before Interactive.
RoleFollowsToken ==
  pc = "done" =>
    CASE role = "fatal"   -> answer = "error"
      [] role = "service" -> ~Member("Interactive") \/ Member("Service")
      [] OTHER            -> Member("Interactive")

\* However the question ends, by an answer or at any of its five calls, both
\* SIDs are freed and the token is closed.
NothingLeaked == pc \in {"main", "done"} => held = {}
===============================================================================
