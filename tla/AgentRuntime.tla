---------------------------- MODULE AgentRuntime ----------------------------
(***************************************************************************)
(* One agent runtime of runtime/agent_runtime.rs and the interpreter child *)
(* it owns, talking over the stdin/stdout pipes.                           *)
(*                                                                         *)
(* The caller (execute, reset; they take &mut self, so they never overlap) *)
(* and the child run concurrently.  execute writes the code and the        *)
(* "__END__" marker, takes the child's stdout out of the Child and reads   *)
(* lines until a line "__END__" or EOF, under a timeout; only the normal   *)
(* end of the read loop puts stdout back.                                  *)
(*                                                                         *)
(* The child program is not in the repository; it is modelled from spec   *)
(* 4.8: it reads one request, prints its response lines and a "__END__"   *)
(* line.  A request in MarkerRequests is code whose own output contains a  *)
(* line "__END__".  The child may also exit at any point (the code calls  *)
(* exit, or crashes).                                                      *)
(***************************************************************************)
EXTENDS Naturals, Sequences

CONSTANTS
  Requests,        \* the code strings callers execute
  MarkerRequests,  \* requests whose output contains a line "__END__"
  MaxExecs,        \* model bound on execute calls
  MaxSpawns        \* model bound on reset calls

ASSUME RequestsAssumption == MarkerRequests \subseteq Requests
ASSUME BoundsAssumption == MaxExecs \in Nat /\ MaxSpawns \in Nat

(* A line on the child's stdout: part p of the output of request r, or    *)
(* the terminator line.                                                    *)
End == [req |-> "none", part |-> 0]
OutLine(r, p) == [req |-> r, part |-> p]
Lines == {OutLine(r, p) : r \in Requests, p \in {1, 2}} \cup {End}

(* What the child prints for a request (spec 4.8).                         *)
ResponseOf(r) ==
  IF r \in MarkerRequests THEN <<OutLine(r, 1), End, OutLine(r, 2), End>>
  ELSE <<OutLine(r, 1), End>>

(* Where the child's stdout handle is.                                     *)
StdoutPlaces == {"process", "reader", "lost", "none"}

VARIABLES
  child,      \* "alive", "dead" (exited, not reaped) or "none"
  inPipe,     \* requests written to stdin, not yet read by the child
  childOut,   \* lines the child still has to print for its request
  outPipe,    \* lines printed by the child, not yet read by the runtime
  stdinOpen,  \* the runtime holds the ChildStdin
  stdoutAt,   \* Child.stdout is in the Child, taken by the reader, or lost
  cpc,        \* the caller: "idle" or "reading"
  cur,        \* the request of the execute in progress or last completed
  got,        \* the output the read loop has collected
  result,     \* the outcome of the last execute or reset
  execs,      \* execute calls so far
  spawns      \* reset calls so far

vars == <<child, inPipe, childOut, outPipe, stdinOpen, stdoutAt, cpc, cur, got,
          result, execs, spawns>>

Results == {"none", "ok", "timeout", "io_error", "no_stdin", "no_stdout",
            "reset_ok", "spawn_failed"}

TypeOK ==
  /\ child \in {"alive", "dead", "none"}
  /\ inPipe \in Seq(Requests)
  /\ childOut \in Seq(Lines)
  /\ outPipe \in Seq(Lines)
  /\ stdinOpen \in BOOLEAN
  /\ stdoutAt \in StdoutPlaces
  /\ cpc \in {"idle", "reading"}
  /\ cur \in Requests \cup {"none"}
  /\ got \in Seq(Lines)
  /\ result \in Results
  /\ execs \in 0 .. MaxExecs
  /\ spawns \in 0 .. MaxSpawns

(* AgentRuntime::new and spawn: a fresh child with piped stdio, its stdin  *)
(* taken by the runtime.                                                   *)
Init ==
  /\ child = "alive"
  /\ inPipe = <<>>
  /\ childOut = <<>>
  /\ outPipe = <<>>
  /\ stdinOpen = TRUE
  /\ stdoutAt = "process"
  /\ cpc = "idle"
  /\ cur = "none"
  /\ got = <<>>
  /\ result = "none"
  /\ execs = 0
  /\ spawns = 0

-----------------------------------------------------------------------------
(* The caller                                                              *)

(* execute(code): write code and marker to stdin (fails with no stdin, or *)
(* EPIPE once the child has exited), then read_response takes stdout out   *)
(* of the Child (fails if an earlier read lost it).  spawn stores process  *)
(* and stdin together and shutdown clears both, so with stdin present the  *)
(* process is always there.                                                *)
Execute(r) ==
  /\ cpc = "idle"
  /\ execs < MaxExecs
  /\ execs' = execs + 1
  /\ cur' = r
  /\ got' = <<>>
  /\ \/ /\ ~stdinOpen \/ child = "dead"
        /\ result' = IF stdinOpen THEN "io_error" ELSE "no_stdin"
        /\ UNCHANGED <<inPipe, stdoutAt, cpc>>
     \/ /\ stdinOpen /\ child = "alive"
        /\ inPipe' = Append(inPipe, r)
        /\ IF stdoutAt = "process"
           THEN /\ stdoutAt' = "reader"
                /\ cpc' = "reading"
                /\ UNCHANGED result
           ELSE /\ result' = "no_stdout"
                /\ UNCHANGED <<stdoutAt, cpc>>
  /\ UNCHANGED <<child, childOut, outPipe, stdinOpen, spawns>>

(* read_response: read_line returns a line.  A "__END__" line ends the    *)
(* loop; stdout goes back into the Child and whatever the BufReader had    *)
(* already buffered past the terminator is dropped with it.                *)
ReadLine ==
  /\ cpc = "reading"
  /\ outPipe # <<>>
  /\ IF Head(outPipe) = End
     THEN \E k \in 1 .. Len(outPipe) :
            /\ outPipe' = SubSeq(outPipe, k + 1, Len(outPipe))
            /\ stdoutAt' = "process"
            /\ cpc' = "idle"
            /\ result' = "ok"
            /\ UNCHANGED got
     ELSE /\ outPipe' = Tail(outPipe)
          /\ got' = Append(got, Head(outPipe))
          /\ UNCHANGED <<stdoutAt, cpc, result>>
  /\ UNCHANGED <<child, inPipe, childOut, stdinOpen, cur, execs, spawns>>

(* read_response: read_line returns 0 bytes, the child has exited and     *)
(* printed everything: the partial output is returned as Ok.              *)
ReadEOF ==
  /\ cpc = "reading"
  /\ outPipe = <<>>
  /\ child = "dead"
  /\ childOut = <<>>
  /\ stdoutAt' = "process"
  /\ cpc' = "idle"
  /\ result' = "ok"
  /\ UNCHANGED <<child, inPipe, childOut, outPipe, stdinOpen, cur, got,
                 execs, spawns>>

(* Mutant: a timeout puts stdout back into the Child.                     *)
TimeoutRestore ==
  /\ cpc = "reading"
  /\ stdoutAt' = "process"
  /\ cpc' = "idle"
  /\ result' = "timeout"
  /\ UNCHANGED <<child, inPipe, childOut, outPipe, stdinOpen, cur, got,
                 execs, spawns>>

(* tokio::time::timeout elapses (or read_line fails): the read_response   *)
(* future is dropped with the reader, and stdout with it; the pipe's read  *)
(* end is closed.                                                          *)
Timeout ==
  /\ cpc = "reading"
  /\ stdoutAt' = "lost"
  /\ outPipe' = <<>>
  /\ cpc' = "idle"
  /\ \E err \in {"timeout", "io_error"} : result' = err
  /\ UNCHANGED <<child, inPipe, childOut, stdinOpen, cur, got, execs, spawns>>

(* shutdown(): take the process out of the Mutex, kill it and wait for it *)
(* (kill() already reaps it; the wait is bounded by 5 s), then drop stdin. *)
(* The child's pipes go with it: what it had not read or printed, and what *)
(* the runtime had not read, is gone.  Every error is only logged.         *)
Shutdown ==
  /\ inPipe' = <<>>
  /\ childOut' = <<>>
  /\ outPipe' = <<>>

(* spawn(): ProcessManager::spawn finds the interpreter (the path cached   *)
(* by the first, successful, spawn of AgentRuntime::new) and starts it     *)
(* with piped stdio; apply_limits only logs cgroup errors; stdin is taken  *)
(* and process and stdin are stored.  Command::spawn fails (executable     *)
(* gone, fork or pipe error), and then nothing is stored: shutdown had     *)
(* left process and stdin None.                                            *)
SpawnChild ==
  \/ /\ child' = "alive"
     /\ stdinOpen' = TRUE
     /\ stdoutAt' = "process"
     /\ result' = "reset_ok"
  \/ /\ child' = "none"
     /\ stdinOpen' = FALSE
     /\ stdoutAt' = "none"
     /\ result' = "spawn_failed"

(* reset(): shutdown() then spawn(), under &mut self.                      *)
Reset ==
  /\ cpc = "idle"
  /\ spawns < MaxSpawns
  /\ spawns' = spawns + 1
  /\ Shutdown
  /\ SpawnChild
  /\ UNCHANGED <<cpc, cur, got, execs>>

-----------------------------------------------------------------------------
(* The child (spec 4.8)                                                    *)

(* The child reads the next request and computes its response.            *)
ChildRead ==
  /\ child = "alive"
  /\ childOut = <<>>
  /\ inPipe # <<>>
  /\ childOut' = ResponseOf(Head(inPipe))
  /\ inPipe' = Tail(inPipe)
  /\ UNCHANGED <<child, outPipe, stdinOpen, stdoutAt, cpc, cur, got, result,
                 execs, spawns>>

(* The child prints one line; with the read end closed the write fails    *)
(* and the line is gone.                                                   *)
ChildPrint ==
  /\ child = "alive"
  /\ childOut # <<>>
  /\ childOut' = Tail(childOut)
  /\ outPipe' = IF stdoutAt = "lost" THEN outPipe
                ELSE Append(outPipe, Head(childOut))
  /\ UNCHANGED <<child, inPipe, stdinOpen, stdoutAt, cpc, cur, got, result,
                 execs, spawns>>

(* The child exits (the code calls exit, or the interpreter dies); what it *)
(* had not printed is lost.                                                *)
ChildExit ==
  /\ child = "alive"
  /\ child' = "dead"
  /\ childOut' = <<>>
  /\ UNCHANGED <<inPipe, outPipe, stdinOpen, stdoutAt, cpc, cur, got, result,
                 execs, spawns>>

Next ==
  \/ \E r \in Requests : Execute(r)
  \/ ReadLine
  \/ ReadEOF
  \/ Timeout
  \/ Reset
  \/ ChildRead
  \/ ChildPrint
  \/ ChildExit

Spec == Init /\ [][Next]_vars

-----------------------------------------------------------------------------
(* Properties                                                              *)

(* Spec 4.8: execute returns the response to the code it sent.  Every     *)
(* line of a successful execute's output was printed for that very        *)
(* request, never a left-over of an earlier one (a late answer to a timed  *)
(* out request, or output past an in-band terminator).                     *)
NoCrossTalk ==
  cpc = "idle" /\ result = "ok" /\ cur # "none" =>
    \A i \in DOMAIN got : got[i].req = cur

(* health_check() returns true while the process is Some and not reaped.  *)
(* The pool keeps such an agent, so a runtime reported healthy between     *)
(* calls must still be able to read its child's answers: stdout is back in *)
(* the Child.                                                              *)
Healthy == child # "none"

HealthyMeansReadable ==
  cpc = "idle" /\ Healthy => stdoutAt = "process"

=============================================================================
