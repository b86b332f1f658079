------------------------- MODULE AgentRuntimeProofs -------------------------
(***************************************************************************)
(* Proofs about one agent runtime of runtime/agent_runtime.rs: when no     *)
(* request's own output contains a line "__END__", a successful execute    *)
(* returns only lines printed for the code it sent, for every set of       *)
(* requests and every bound on executes and resets.                        *)
(*                                                                         *)
(* NoCrossTalk is not inductive: it speaks of the collected output only.   *)
(* It holds because between calls the pipes hold nothing of an earlier     *)
(* request whenever stdout is still readable (a timed-out read closes the  *)
(* read end, so the late answer never arrives), and during a read the      *)
(* request, the child's pending lines, the pipe and the collected output   *)
(* are at one of the stages of answering the current request (ReadStage).  *)
(***************************************************************************)
EXTENDS AgentRuntime, SequenceTheorems, TLAPS

NoMarkers == MarkerRequests = {}

(* The stages of one read_response, from "code written" to "terminator in  *)
(* the pipe", including those where the child exited part way.             *)
ReadStage(c) ==
  LET L == OutLine(c, 1) IN
  \/ /\ inPipe = <<c>>
     /\ got = <<>> /\ outPipe = <<>> /\ childOut = <<>>
  \/ /\ inPipe = <<>>
     /\ got = <<>>
     /\ \/ outPipe = <<>> /\ childOut \in {<<>>, <<L, End>>}
        \/ outPipe = <<L>> /\ childOut \in {<<>>, <<End>>}
        \/ outPipe = <<L, End>> /\ childOut = <<>>
  \/ /\ inPipe = <<>>
     /\ got = <<L>>
     /\ \/ outPipe = <<>> /\ childOut \in {<<>>, <<End>>}
        \/ outPipe = <<End>> /\ childOut = <<>>

IInv ==
  /\ TypeOK
  /\ \A i \in DOMAIN got : got[i] = OutLine(cur, 1)
  /\ stdoutAt \in {"lost", "none"} => outPipe = <<>>
  /\ stdoutAt = "none" => child = "none"
  /\ (cpc = "reading") <=> (stdoutAt = "reader")
  /\ cpc = "reading" => cur \in Requests /\ child # "none" /\ ReadStage(cur)
  /\ cpc = "idle" /\ stdoutAt = "process" =>
       /\ outPipe = <<>>
       /\ child = "alive" => inPipe = <<>> /\ childOut = <<>>

USE DEF StdoutPlaces

(* Appending to a one-element sequence.                                   *)
LEMMA AppendOne ==
  ASSUME NEW a, NEW b
  PROVE  Append(<<a>>, b) = <<a, b>>
<1> DEFINE s == Append(<<a>>, b)
<1> DEFINE t == <<a, b>>
<1>1. s \in Seq({a, b}) /\ t \in Seq({a, b})
  OBVIOUS
<1>2. Len(s) = Len(t) /\ \A i \in 1 .. Len(s) : s[i] = t[i]
  OBVIOUS
<1> QED BY <1>1, <1>2, SeqEqual, Zenon

LEMMA InitIInv == Init => IInv
BY BoundsAssumption DEF Init, IInv, TypeOK, Results

LEMMA NextIInv ==
  ASSUME NoMarkers
  PROVE  IInv /\ [Next]_vars => IInv'
<1> SUFFICES ASSUME IInv, [Next]_vars PROVE IInv'
  OBVIOUS
<1> USE DEF IInv
<1> DEFINE L == OutLine(cur, 1)
<1>0. L # End
  BY DEF End, OutLine
<1>1. CASE \E r \in Requests : Execute(r)
  <2> PICK r \in Requests : Execute(r)
    BY <1>1
  <2>0. cpc = "idle" /\ execs' = execs + 1 /\ execs + 1 \in 0 .. MaxExecs
        /\ cur' = r /\ got' = <<>>
        /\ UNCHANGED <<child, childOut, outPipe, stdinOpen, spawns>>
    BY BoundsAssumption DEF Execute, TypeOK
  <2>1. CASE ~stdinOpen \/ child = "dead"
    <3>1. result' \in Results /\ UNCHANGED <<inPipe, stdoutAt, cpc>>
      BY <2>1 DEF Execute, Results
    <3> QED BY <2>0, <3>1, <2>1 DEF Execute, TypeOK
  <2>2. CASE stdinOpen /\ child = "alive" /\ stdoutAt = "process"
    <3>1. inPipe = <<>> /\ childOut = <<>> /\ outPipe = <<>>
      BY <2>0, <2>2
    <3>2. inPipe' = <<r>> /\ stdoutAt' = "reader" /\ cpc' = "reading"
          /\ UNCHANGED result
      BY <2>2, <3>1 DEF Execute
    <3>3. ReadStage(cur)'
      BY <2>0, <3>1, <3>2 DEF ReadStage
    <3>4. TypeOK'
      BY <2>0, <2>2, <3>2 DEF TypeOK
    <3> QED BY <2>0, <2>2, <3>1, <3>2, <3>3, <3>4
  <2>3. CASE stdinOpen /\ child = "alive" /\ stdoutAt # "process"
    <3>1. stdoutAt = "lost"
      BY <2>0, <2>3 DEF TypeOK
    <3>2. inPipe' = Append(inPipe, r) /\ result' = "no_stdout"
          /\ UNCHANGED <<stdoutAt, cpc>>
      BY <2>3 DEF Execute
    <3>3. TypeOK'
      BY <2>0, <2>3, <3>2 DEF TypeOK, Results
    <3> QED BY <2>0, <2>3, <3>1, <3>2, <3>3
  <2>4. CASE stdinOpen /\ child = "none"
    BY <2>4 DEF Execute
  <2> QED BY <2>1, <2>2, <2>3, <2>4 DEF TypeOK
<1>2. CASE ReadLine
  <2>1. cpc = "reading" /\ cur \in Requests /\ child # "none" /\ ReadStage(cur)
        /\ outPipe # <<>>
    BY <1>2 DEF ReadLine
  <2>2. CASE Head(outPipe) = End
    <3>1. inPipe = <<>> /\ got = <<L>> /\ outPipe = <<End>> /\ childOut = <<>>
      BY <1>0, <2>1, <2>2 DEF ReadStage
    <3>2. PICK k \in 1 .. Len(outPipe) :
            /\ outPipe' = SubSeq(outPipe, k + 1, Len(outPipe))
            /\ stdoutAt' = "process"
            /\ cpc' = "idle"
            /\ result' = "ok"
            /\ UNCHANGED got
      BY <1>2, <2>2 DEF ReadLine
    <3>3. outPipe' = <<>>
      BY <3>1, <3>2
    <3> QED BY <1>2, <3>1, <3>2, <3>3 DEF ReadLine, TypeOK, Results
  <2>3. CASE Head(outPipe) # End
    <3>1. /\ inPipe = <<>> /\ got = <<>>
          /\ \/ outPipe = <<L>> /\ childOut \in {<<>>, <<End>>}
             \/ outPipe = <<L, End>> /\ childOut = <<>>
      BY <1>0, <2>1, <2>3 DEF ReadStage
    <3>2. got' = <<L>> /\ outPipe' = Tail(outPipe)
          /\ UNCHANGED <<stdoutAt, cpc, result, inPipe, childOut, cur, child>>
      BY <3>1, <2>3, <1>2 DEF ReadLine
    <3>3. ReadStage(cur)'
      <4>1. CASE outPipe = <<L>>
        <5>1. outPipe' = <<>>
          BY <3>2, <4>1
        <5> QED BY <3>1, <3>2, <4>1, <5>1 DEF ReadStage
      <4>2. CASE outPipe = <<L, End>>
        <5>1. outPipe' = <<End>>
          BY <3>2, <4>2
        <5> QED BY <3>1, <3>2, <4>2, <5>1 DEF ReadStage
      <4> QED BY <3>1, <4>1, <4>2
    <3>4. L \in Lines
      BY <2>1 DEF Lines
    <3> QED BY <1>2, <2>1, <3>1, <3>2, <3>3, <3>4 DEF ReadLine, TypeOK
  <2> QED BY <2>2, <2>3
<1>3. CASE ReadEOF
  BY <1>3 DEF ReadEOF, TypeOK, Results
<1>4. CASE Timeout
  BY <1>4 DEF Timeout, TypeOK, Results
<1>5. CASE Reset
  <2>1. cpc = "idle" /\ spawns' = spawns + 1 /\ spawns + 1 \in 0 .. MaxSpawns
        /\ inPipe' = <<>> /\ childOut' = <<>> /\ outPipe' = <<>>
        /\ UNCHANGED <<cpc, cur, got, execs>>
    BY <1>5, BoundsAssumption DEF Reset, Shutdown, TypeOK
  <2>2. \/ child' = "alive" /\ stdinOpen' = TRUE /\ stdoutAt' = "process"
           /\ result' = "reset_ok"
        \/ child' = "none" /\ stdinOpen' = FALSE /\ stdoutAt' = "none"
           /\ result' = "spawn_failed"
    BY <1>5 DEF Reset, SpawnChild
  <2>3. result' \in Results
    BY <2>2 DEF Results
  <2>5. /\ child' \in {"alive", "dead", "none"}
        /\ stdinOpen' \in BOOLEAN
        /\ stdoutAt' \in StdoutPlaces
    <3>1. CASE child' = "alive" /\ stdinOpen' = TRUE /\ stdoutAt' = "process"
      BY <3>1
    <3>2. CASE child' = "none" /\ stdinOpen' = FALSE /\ stdoutAt' = "none"
      BY <3>2
    <3> QED BY <2>2, <3>1, <3>2
  <2>6. TypeOK'
    BY <2>1, <2>3, <2>5 DEF TypeOK
  <2>4. stdoutAt' # "reader" /\ outPipe' = <<>>
    BY <2>1, <2>2
  <2> QED BY <2>1, <2>2, <2>4, <2>6
<1>6. CASE ChildRead
  <2>0. inPipe # <<>> /\ childOut = <<>> /\ child = "alive"
        /\ childOut' = ResponseOf(Head(inPipe)) /\ inPipe' = Tail(inPipe)
        /\ UNCHANGED <<child, outPipe, stdinOpen, stdoutAt, cpc, cur, got,
                       result, execs, spawns>>
    BY <1>6 DEF ChildRead
  <2>1. CASE cpc = "reading"
    <3>1. inPipe = <<cur>> /\ cur \in Requests /\ outPipe = <<>> /\ got = <<>>
      BY <2>0, <2>1 DEF ReadStage
    <3>2. childOut' = <<L, End>> /\ inPipe' = <<>>
      BY <2>0, <3>1 DEF ResponseOf, NoMarkers
    <3>3. ReadStage(cur)'
      BY <2>0, <3>1, <3>2 DEF ReadStage
    <3>4. L \in Lines
      BY <3>1 DEF Lines
    <3>5. TypeOK'
      <4>1. End \in Lines
        BY DEF Lines
      <4>2. <<L, End>> \in Seq(Lines) /\ <<>> \in Seq(Requests)
        BY <3>4, <4>1
      <4> QED BY <2>0, <3>2, <4>2, Zenon DEF TypeOK
    <3> QED BY <2>0, <2>1, <3>1, <3>2, <3>3, <3>5
  <2>2. CASE cpc # "reading"
    <3>1. stdoutAt = "lost"
      BY <2>0, <2>2 DEF TypeOK
    <3>2. ResponseOf(Head(inPipe)) \in Seq(Lines)
      <4>1. Head(inPipe) \in Requests
        BY <2>0 DEF TypeOK
      <4>2. ResponseOf(Head(inPipe)) = <<OutLine(Head(inPipe), 1), End>>
        BY DEF ResponseOf, NoMarkers
      <4>3. OutLine(Head(inPipe), 1) \in Lines /\ End \in Lines
        BY <4>1 DEF Lines
      <4>4. <<OutLine(Head(inPipe), 1), End>> \in Seq(Lines)
        BY <4>3
      <4> QED BY <4>2, <4>4, Zenon
    <3> QED BY <2>0, <2>2, <3>1, <3>2 DEF TypeOK
  <2> QED BY <2>1, <2>2
<1>7. CASE ChildPrint
  <2>0. child = "alive" /\ childOut # <<>> /\ childOut' = Tail(childOut)
        /\ UNCHANGED <<child, inPipe, stdinOpen, stdoutAt, cpc, cur, got,
                       result, execs, spawns>>
    BY <1>7 DEF ChildPrint
  <2>1. CASE stdoutAt = "lost"
    BY <2>0, <2>1, <1>7 DEF ChildPrint, TypeOK
  <2>2. CASE stdoutAt # "lost"
    <3>1. cpc = "reading" /\ cur \in Requests /\ ReadStage(cur)
          /\ outPipe' = Append(outPipe, Head(childOut))
      BY <2>0, <2>2, <1>7 DEF ChildPrint, TypeOK
    <3>2. \/ got = <<>> /\ outPipe = <<>> /\ childOut = <<L, End>>
          \/ got = <<>> /\ outPipe = <<L>> /\ childOut = <<End>>
          \/ got = <<L>> /\ outPipe = <<>> /\ childOut = <<End>>
      BY <2>0, <3>1 DEF ReadStage
    <3>3. inPipe = <<>>
      BY <2>0, <3>1 DEF ReadStage
    <3>4. ReadStage(cur)'
      <4>1. CASE got = <<>> /\ outPipe = <<>> /\ childOut = <<L, End>>
        <5>1. outPipe' = <<L>> /\ childOut' = <<End>>
          BY <2>0, <3>1, <4>1
        <5> QED BY <2>0, <3>3, <4>1, <5>1 DEF ReadStage
      <4>2. CASE got = <<>> /\ outPipe = <<L>> /\ childOut = <<End>>
        <5>1. outPipe' = Append(<<L>>, End) /\ childOut' = <<>>
          BY <2>0, <3>1, <4>2
        <5>2. Append(<<L>>, End) = <<L, End>>
          BY AppendOne
        <5> QED BY <2>0, <3>3, <4>2, <5>1, <5>2 DEF ReadStage
      <4>3. CASE got = <<L>> /\ outPipe = <<>> /\ childOut = <<End>>
        <5>1. outPipe' = <<End>> /\ childOut' = <<>>
          BY <2>0, <3>1, <4>3
        <5> QED BY <2>0, <3>3, <4>3, <5>1 DEF ReadStage
      <4> QED BY <3>2, <4>1, <4>2, <4>3
    <3>5. L \in Lines
      BY <3>1 DEF Lines
    <3> QED BY <2>0, <3>1, <3>2, <3>4, <3>5 DEF TypeOK
  <2> QED BY <2>1, <2>2
<1>8. CASE ChildExit
  <2>0. child = "alive" /\ child' = "dead" /\ childOut' = <<>>
        /\ UNCHANGED <<inPipe, outPipe, stdinOpen, stdoutAt, cpc, cur, got,
                       result, execs, spawns>>
    BY <1>8 DEF ChildExit
  <2>1. CASE cpc = "reading"
    <3>1. ReadStage(cur)'
      BY <2>0, <2>1 DEF ReadStage
    <3> QED BY <2>0, <3>1, <2>1 DEF TypeOK
  <2>2. CASE cpc # "reading"
    BY <2>0, <2>2 DEF TypeOK
  <2> QED BY <2>1, <2>2
<1>9. CASE UNCHANGED vars
  BY <1>9 DEF vars, TypeOK, ReadStage
<1> QED BY <1>1, <1>2, <1>3, <1>4, <1>5, <1>6, <1>7, <1>8, <1>9 DEF Next

(* Spec 4.8, for a child whose answers never contain the terminator: a     *)
(* successful execute returns only lines printed for the code it sent,     *)
(* across timeouts (whose late answers never reach a later read), child    *)
(* exits part way through an answer, and resets that fail to respawn.      *)
THEOREM NoCrossTalkHolds == NoMarkers => (Spec => []NoCrossTalk)
<1> SUFFICES ASSUME NoMarkers PROVE Spec => []NoCrossTalk
  OBVIOUS
<1>1. IInv => NoCrossTalk
  BY DEF IInv, NoCrossTalk, OutLine
<1>2. IInv /\ [Next]_vars => IInv'
  BY NextIInv
<1> QED BY <1>1, <1>2, InitIInv, PTL DEF Spec

=============================================================================
