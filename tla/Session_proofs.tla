---------------------------- MODULE Session_proofs -----------------------------
(***************************************************************************)
(* The program's role follows from its token and nothing leaks, for tokens *)
(* and buffers of every size and for every failing call.                   *)
(***************************************************************************)
EXTENDS Session, TLAPS

\* Whatever is held has its deferred call registered, and nothing is held once
\* they have run.
DeferInv ==
  /\ \A r \in held : \E i \in 1 .. Len(defers) : defers[i] = r
  /\ NothingLeaked

\* What is scanned is the token's groups, and all groups before the one that is
\* compared next have been compared and are neither of the two.
ScanInv ==
  /\ pc = "scan" => b.groups = token
  /\ k \in 1 .. Len(token) + 1
  /\ \A j \in 1 .. k - 1 : token[j] = "Other"

\* What a negative answer says of the token.
NotMember == ~Member("Interactive") \/ Member("Service")

\* An answer, once there is one, is the token's or an error, and main obeys it.
AnswerInv ==
  /\ pc \in {"return", "main", "done"} => answer # "none"
  /\ answer = "yes" => Member("Interactive")
  /\ answer = "no" => NotMember
  /\ pc = "done" => /\ answer = "error" => role = "fatal"
                    /\ answer = "yes" => role \in ToolCommands \cup {"usage"}
                    /\ answer = "no" => role = "service"

IInv == TypeOK /\ DeferInv /\ ScanInv /\ AnswerInv

\* The token and the command line do not change.
LEMMA SameToken == [Next]_sessVars => UNCHANGED <<token, arg>>
BY DEF Next, sessVars, Acquire, AcquireThen, GetInfo, GetInfoAgain, GetTokenInformation, Scan,
       RunDefer, Main

\* Every step keeps the types.
LEMMA TypingStep == TypeOK /\ [Next]_sessVars => TypeOK'
<1> SUFFICES ASSUME TypeOK, [Next]_sessVars PROVE TypeOK'
  OBVIOUS
<1> USE DEF TypeOK
<1>1. CASE UNCHANGED sessVars
  BY <1>1 DEF sessVars
<1>2. ASSUME NEW r \in Resources, NEW next \in {"serviceSid", "t", "info"}, Acquire(r, next)
      PROVE  TypeOK'
  <2>1. <<r>> \o defers \in Seq(Resources)
    OBVIOUS
  <2>. QED BY <1>2, <2>1 DEF Acquire, AcquireThen, Answer
<1>3. CASE GetInfo \/ GetInfoAgain
  <2>1. Len(token) \in Nat
    OBVIOUS
  <2>2. Make(n) \in [room : Nat, groups : Seq(Groups)]
    BY DEF Make
  <2>3. \A buf \in [room : Nat, groups : Seq(Groups)] :
           Filled(buf) \in [room : Nat, groups : Seq(Groups)]
    BY DEF Filled
  <2>4. b' \in [room : Nat, groups : Seq(Groups)]
    BY <1>3, <2>2, <2>3 DEF GetInfo, GetInfoAgain, GetTokenInformation
  <2>. QED BY <1>3, <2>1, <2>4 DEF GetInfo, GetInfoAgain, GetTokenInformation, Answer
<1>4. CASE Scan
  BY <1>4 DEF Scan, Answer, Verdict
<1>5. CASE RunDefer
  <2>1. defers # <<>> => Tail(defers) \in Seq(Resources)
    OBVIOUS
  <2>. QED BY <1>5, <2>1 DEF RunDefer
<1>6. CASE Main
  BY <1>6 DEF Main, Args
<1>. QED BY <1>1, <1>2, <1>3, <1>4, <1>5, <1>6 DEF Next, Resources

\* Acquiring registers the deferred call, and one that has run is not needed any
\* more.
LEMMA DeferStep == TypeOK /\ DeferInv /\ [Next]_sessVars => DeferInv'
<1> SUFFICES ASSUME TypeOK, DeferInv, [Next]_sessVars PROVE DeferInv'
  OBVIOUS
<1> USE DEF DeferInv, NothingLeaked
<1>1. CASE UNCHANGED sessVars
  BY <1>1 DEF sessVars
<1>2. ASSUME NEW r \in Resources, NEW next \in {"serviceSid", "t", "info"}, Acquire(r, next)
      PROVE  DeferInv'
  <2>1. CASE UNCHANGED <<held, defers>>
    BY <1>2, <2>1 DEF Acquire, AcquireThen, Answer
  <2>2. CASE held' = held \cup {r} /\ defers' = <<r>> \o defers
    <3>1. /\ Len(defers') = Len(defers) + 1 /\ defers'[1] = r
          /\ \A i \in 1 .. Len(defers) : defers'[i + 1] = defers[i]
      BY <2>2 DEF TypeOK
    <3>2. Len(defers) \in Nat
      BY DEF TypeOK
    <3>3. ASSUME NEW x \in held' PROVE \E i \in 1 .. Len(defers') : defers'[i] = x
      <4>1. CASE x = r
        BY <3>1, <3>2, <4>1
      <4>2. CASE x \in held
        <5>1. PICK i \in 1 .. Len(defers) : defers[i] = x
          BY <4>2
        <5>2. i + 1 \in 1 .. Len(defers') /\ defers'[i + 1] = x
          BY <3>1, <3>2, <5>1
        <5>. QED BY <5>2
      <4>. QED BY <2>2, <3>3, <4>1, <4>2
    <3>4. pc' \notin {"main", "done"}
      BY <1>2 DEF Acquire, AcquireThen, Answer
    <3>. QED BY <3>3, <3>4
  <2>. QED BY <1>2, <2>1, <2>2 DEF Acquire, AcquireThen
<1>3. CASE GetInfo \/ GetInfoAgain
  BY <1>3 DEF GetInfo, GetInfoAgain, GetTokenInformation, Answer
<1>4. CASE Scan
  BY <1>4 DEF Scan, Answer
<1>5. CASE RunDefer
  <2>1. CASE defers = <<>>
    <3>1. held = {}
      BY <2>1
    <3>. QED BY <1>5, <2>1, <3>1 DEF RunDefer
  <2>2. CASE defers # <<>>
    <3>a. defers \in Seq(Resources) /\ defers' = Tail(defers)
      BY <1>5, <2>2 DEF RunDefer, TypeOK
    <3>b. Len(defers) \in Nat /\ Len(Tail(defers)) = Len(defers) - 1 /\ Head(defers) = defers[1]
      BY <2>2, <3>a
    <3>c. \A i \in 1 .. Len(defers) - 1 : Tail(defers)[i] = defers[i + 1]
      BY <2>2, <3>a
    <3>1. /\ Len(defers) \in Nat /\ Len(defers') = Len(defers) - 1
          /\ \A i \in 1 .. Len(defers) - 1 : defers'[i] = defers[i + 1]
          /\ Head(defers) = defers[1]
      BY <3>a, <3>b, <3>c
    <3>2. ASSUME NEW x \in held' PROVE \E i \in 1 .. Len(defers') : defers'[i] = x
      <4>1. x \in held /\ x # defers[1]
        BY <1>5, <2>2, <3>1, <3>2 DEF RunDefer
      <4>2. PICK i \in 1 .. Len(defers) : defers[i] = x
        BY <4>1
      <4>3. i - 1 \in 1 .. Len(defers') /\ defers'[i - 1] = x
        BY <3>1, <4>1, <4>2
      <4>. QED BY <4>3
    <3>. QED BY <1>5, <2>2, <3>2 DEF RunDefer
  <2>. QED BY <2>1, <2>2
<1>6. CASE Main
  BY <1>6 DEF Main
<1>. QED BY <1>1, <1>2, <1>3, <1>4, <1>5, <1>6 DEF Next, Resources

\* getInfo hands on a buffer only when the token's groups are in it, and the
\* scan goes on past a group only if it is neither of the two.
LEMMA ScanStep == TypeOK /\ ScanInv /\ [Next]_sessVars => ScanInv'
<1> SUFFICES ASSUME TypeOK, ScanInv, [Next]_sessVars PROVE ScanInv'
  OBVIOUS
<1>1. CASE GetInfo \/ GetInfoAgain
  <2>1. \A buf \in [room : Nat, groups : Seq(Groups)] : Filled(buf).groups = token
    BY DEF Filled
  <2>2. Make(n) \in [room : Nat, groups : Seq(Groups)]
    BY DEF Make, TypeOK
  <2>3. pc' = "scan" => b'.groups = token
    BY <1>1, <2>1, <2>2 DEF GetInfo, GetInfoAgain, GetTokenInformation, Answer, TypeOK
  <2>. QED BY <1>1, <2>3, SameToken DEF GetInfo, GetInfoAgain, GetTokenInformation, ScanInv
<1>2. CASE Scan /\ k' # k
  <2>1. k \in 1 .. Len(token) /\ k' = k + 1 /\ Verdict(token[k]) = "none" /\ b' = b
    BY <1>2 DEF Scan, ScanInv
  <2>2. token[k] = "Other"
    BY <2>1 DEF Verdict, TypeOK, Groups
  <2>3. Len(token) \in Nat /\ k + 1 \in 1 .. Len(token) + 1
    BY <2>1 DEF TypeOK
  <2>4. \A j \in 1 .. k : token[j] = "Other"
    BY <2>1, <2>2 DEF ScanInv
  <2>. QED BY <1>2, <2>1, <2>3, <2>4, SameToken DEF ScanInv, Scan
<1>3. CASE UNCHANGED <<k, b>> /\ (pc' = "scan" => pc = "scan")
  BY <1>3, SameToken DEF ScanInv
<1>4. CASE UNCHANGED sessVars
  BY <1>4 DEF sessVars, ScanInv
<1>. QED
  BY <1>1, <1>2, <1>3, <1>4 DEF Next, Acquire, AcquireThen, Answer, Scan, RunDefer, Main

\* The answer given at the first group of the two, or at the end, is the
\* token's.
LEMMA AnswerStep == TypeOK /\ ScanInv /\ AnswerInv /\ [Next]_sessVars => AnswerInv'
<1> SUFFICES ASSUME TypeOK, ScanInv, AnswerInv, [Next]_sessVars PROVE AnswerInv'
  OBVIOUS
<1>a. Member("Interactive")' = Member("Interactive") /\ NotMember' = NotMember
  BY SameToken DEF Member, NotMember
<1>1. CASE UNCHANGED sessVars
  BY <1>a, <1>1 DEF sessVars, AnswerInv
<1>2. ASSUME NEW r, NEW next \in {"serviceSid", "t", "info"}, Acquire(r, next)
      PROVE  AnswerInv'
  BY <1>a, <1>2 DEF Acquire, AcquireThen, Answer, AnswerInv
<1>3. CASE GetInfo \/ GetInfoAgain
  BY <1>a, <1>3 DEF GetInfo, GetInfoAgain, GetTokenInformation, Answer, AnswerInv
<1>4. CASE Scan
  <2>a. /\ k \in Nat /\ Len(token) \in Nat /\ DOMAIN token = 1 .. Len(token)
        /\ b.groups = token
    BY <1>4 DEF TypeOK, ScanInv, Scan
  <2>1. CASE k > Len(token)
    <3>1. \A i \in DOMAIN token : token[i] = "Other"
      BY <2>a, <2>1 DEF ScanInv
    <3>2. NotMember
      BY <3>1 DEF NotMember, Member
    <3>. QED BY <1>a, <1>4, <2>a, <2>1, <3>2 DEF Scan, Answer, AnswerInv
  <2>2. CASE k <= Len(token) /\ token[k] = "Interactive"
    <3>1. Member("Interactive")
      BY <2>a, <2>2 DEF Member, ScanInv
    <3>. QED BY <1>a, <1>4, <2>a, <2>2, <3>1 DEF Scan, Answer, Verdict, AnswerInv
  <2>3. CASE k <= Len(token) /\ token[k] = "Service"
    <3>1. NotMember
      BY <2>a, <2>3 DEF Member, NotMember, ScanInv
    <3>. QED BY <1>a, <1>4, <2>a, <2>3, <3>1 DEF Scan, Answer, Verdict, AnswerInv
  <2>4. CASE k <= Len(token) /\ token[k] = "Other"
    BY <1>a, <1>4, <2>a, <2>4 DEF Scan, Verdict, AnswerInv
  <2>. QED BY <2>a, <2>1, <2>2, <2>3, <2>4 DEF TypeOK, Groups, ScanInv
<1>5. CASE RunDefer
  BY <1>a, <1>5 DEF RunDefer, AnswerInv
<1>6. CASE Main
  BY <1>a, <1>6 DEF Main, AnswerInv
<1>. QED BY <1>1, <1>2, <1>3, <1>4, <1>5, <1>6 DEF Next

\* The inductive invariant holds in every reachable state.
LEMMA Invariance == Spec => []IInv
<1>1. Init => IInv
  <2> SUFFICES ASSUME Init PROVE IInv
    OBVIOUS
  <2>1. token \in Seq(Groups)
    <3>1. PICK m \in 0 .. MaxGroups : token \in [1 .. m -> Groups]
      BY DEF Init, SeqOf
    <3>. QED BY <3>1, SessionAssumption
  <2>2. TypeOK
    <3>1. n \in Nat /\ k \in Nat /\ defers \in Seq(Resources)
      BY DEF Init
    <3>2. b \in [room : Nat, groups : Seq(Groups)]
      BY SessionAssumption DEF Init, Make
    <3>. QED BY <2>1, <3>1, <3>2 DEF Init, TypeOK
  <2>3. ScanInv
    BY <2>1 DEF Init, ScanInv
  <2>. QED BY <2>2, <2>3 DEF Init, IInv, DeferInv, NothingLeaked, AnswerInv
<1>2. IInv /\ [Next]_sessVars => IInv'
  BY TypingStep, DeferStep, ScanStep, AnswerStep DEF IInv
<1>. QED BY <1>1, <1>2, PTL DEF Spec

\* What main does agrees with the token's membership in Interactive, for tokens
\* of every length and first buffers of every size; a failed call makes the
\* program give up.
THEOREM RoleIsTokens == Spec => []RoleFollowsToken
<1>1. IInv => RoleFollowsToken
  BY DEF IInv, TypeOK, AnswerInv, RoleFollowsToken, NotMember, ToolCommands
<1>. QED BY <1>1, Invariance, PTL

\* SIDs and token are released on every way out.
THEOREM NoLeak == Spec => []NothingLeaked
<1>1. IInv => NothingLeaked
  BY DEF IInv, DeferInv
<1>. QED BY <1>1, Invariance, PTL
===============================================================================
