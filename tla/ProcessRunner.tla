---------------------------- MODULE ProcessRunner ----------------------------
(***************************************************************************)
(* One call of run_process: the process of an external tool is started in  *)
(* a process group of its own, its output is captured by two reader        *)
(* threads within a limit, and the call gives up at a deadline.  The two   *)
(* adapters differ: "ohmnivore" (src/simulation/runner.rs) has no standard *)
(* input, drains the readers before it reports a failure and gives them a  *)
(* second chance after it has killed the group; "apgar"                    *)
(* (src/routing/runner.rs) feeds its input through a writer thread.        *)
(*                                                                         *)
(* The tool is free: it may fork, leave the group, close its ends of the   *)
(* pipes, write, read or exit at any time.  The model ends with the call.  *)
(***************************************************************************)
EXTENDS Naturals, FiniteSets

CONSTANTS
  Leader,       \* the process that is started
  Descendants,  \* the processes it may fork
  Limit,        \* what is captured of a stream
  MaxSent,      \* bound: what is written to the streams
  InputSize,    \* what the writer has to write
  PipeSize,     \* what fits into the pipe of the standard input
  MaxFaults     \* bound: calls of the runner that fail

ASSUME ProcessAssumption == Leader \notin Descendants
ASSUME SizeAssumption ==
  /\ Limit \in Nat /\ MaxSent \in Nat /\ MaxFaults \in Nat
  /\ InputSize \in Nat \ {0} /\ PipeSize \in Nat \ {0}

Processes == {Leader} \cup Descendants
Streams == {"out", "err"}
Adapters == {"ohmnivore", "apgar"}

(* The failures after which the runner has killed the group ...            *)
Kills == {"overflow", "expired", "unobservable", "undrained"}
(* ... and those that leave the group as it is.                            *)
Leaves == {"unlaunched", "unreadable", "truncated", "unfed"}

VARIABLES
  adapter,
  life,      \* life[x]: what has become of process x
  member,    \* the processes of the group
  holds,     \* holds[x]: the ends of the pipes that x has open
  sent,      \* sent[s]: what has been written to stream s
  piped,     \* piped[s]: what of it is in the pipe
  taken,     \* taken[s]: what the reader of s has kept
  reader,    \* reader[s]: the state of the reader of s
  channel,   \* channel[s]: what the reader of s has sent to the runner
  overflow,  \* the flag the readers share with the runner
  writer,    \* the state of the writer and its result
  given,     \* what the writer has written
  unread,    \* what of it is in the pipe
  late,      \* the deadline has passed
  pc,        \* where the runner is
  status,    \* how the leader has ended
  fed,       \* the result the runner got from the writer
  verdict,   \* the result of the call
  recycled,  \* the identifier of the leader is that of another group
  harmed,    \* another group has been signalled
  faults

tool == <<life, member, holds, sent>>
reading == <<piped, taken, reader, channel, overflow>>
writing == <<writer, given, unread>>
call == <<pc, fed, verdict>>
vars == <<adapter, tool, reading, writing, late, call, status, recycled, harmed, faults>>

TypeOK ==
  /\ adapter \in Adapters
  /\ life \in [Processes -> {"unborn", "running", "zombie", "gone"}]
  /\ member \in SUBSET Processes
  /\ holds \in [Processes -> SUBSET (Streams \cup {"in"})]
  /\ sent \in [Streams -> 0 .. MaxSent]
  /\ piped \in [Streams -> 0 .. MaxSent]
  /\ taken \in [Streams -> 0 .. Limit]
  /\ reader \in [Streams -> {"reading", "over", "full", "ended"}]
  /\ channel \in [Streams -> {"empty", "bytes", "error"}]
  /\ overflow \in BOOLEAN
  /\ writer \in {"none", "writing", "ok", "broken"}
  /\ given \in 0 .. InputSize
  /\ unread \in 0 .. PipeSize
  /\ late \in BOOLEAN
  /\ pc \in {"launch", "check", "wait", "input", "out", "out again", "err", "err again",
            "final", "done"}
  /\ status \in {"unknown", "ok", "bad"}
  /\ fed \in {"unknown", "ok", "broken"}
  /\ verdict \in {"pending", "captured"} \cup Kills \cup Leaves
  /\ recycled \in BOOLEAN /\ harmed \in BOOLEAN
  /\ faults \in 0 .. MaxFaults

Init ==
  /\ adapter \in Adapters
  /\ life = [x \in Processes |-> "unborn"]
  /\ member = {}
  /\ holds = [x \in Processes |-> {}]
  /\ sent = [s \in Streams |-> 0] /\ piped = sent /\ taken = sent
  /\ reader = [s \in Streams |-> "reading"]
  /\ channel = [s \in Streams |-> "empty"]
  /\ overflow = FALSE
  /\ writer = IF adapter = "apgar" THEN "writing" ELSE "none"
  /\ given = 0 /\ unread = 0
  /\ late = FALSE
  /\ pc = "launch" /\ status = "unknown" /\ fed = "unknown" /\ verdict = "pending"
  /\ recycled = FALSE /\ harmed = FALSE /\ faults = 0

-----------------------------------------------------------------------------
(* The tool.                                                               *)

Running(x) == life[x] = "running" /\ pc # "done"
Held(e) == \E x \in Processes : e \in holds[x]

Fork(x, d) ==
  /\ Running(x) /\ life[d] = "unborn"
  /\ life' = [life EXCEPT ![d] = "running"]
  /\ member' = IF x \in member THEN member \cup {d} ELSE member
  /\ holds' = [holds EXCEPT ![d] = holds[x]]
  /\ UNCHANGED <<adapter, sent, reading, writing, late, call, status, recycled, harmed, faults>>

LeaveGroup(x) ==
  /\ Running(x) /\ x \in member \ {Leader}
  /\ member' = member \ {x}
  /\ UNCHANGED <<adapter, life, holds, sent, reading, writing, late, call, status,
                 recycled, harmed, faults>>

CloseEnd(x, e) ==
  /\ Running(x) /\ e \in holds[x]
  /\ holds' = [holds EXCEPT ![x] = @ \ {e}]
  /\ UNCHANGED <<adapter, life, member, sent, reading, writing, late, call, status,
                 recycled, harmed, faults>>

Produce(x, s) ==
  /\ Running(x) /\ s \in holds[x] /\ reader[s] # "ended"
  /\ sent["out"] + sent["err"] < MaxSent
  /\ sent' = [sent EXCEPT ![s] = @ + 1]
  /\ piped' = [piped EXCEPT ![s] = @ + 1]
  /\ UNCHANGED <<adapter, life, member, holds, taken, reader, channel, overflow, writing,
                 late, call, status, recycled, harmed, faults>>

Consume(x) ==
  /\ Running(x) /\ "in" \in holds[x] /\ unread > 0
  /\ unread' = unread - 1
  /\ UNCHANGED <<adapter, tool, reading, writer, given, late, call, status, recycled, harmed, faults>>

(* A leader that exits, or is killed by its limits, waits to be reaped.    *)
Exit(x) ==
  /\ Running(x)
  /\ holds' = [holds EXCEPT ![x] = {}]
  /\ IF x = Leader
     THEN /\ status' \in {"ok", "bad"}
          /\ life' = [life EXCEPT ![x] = "zombie"]
          /\ UNCHANGED member
     ELSE /\ life' = [life EXCEPT ![x] = "gone"]
          /\ member' = member \ {x}
          /\ UNCHANGED status
  /\ UNCHANGED <<adapter, sent, reading, writing, late, call, recycled, harmed, faults>>

(* The system hands out the identifier of a group that has no process.     *)
Recycle ==
  /\ pc # "done" /\ life[Leader] = "gone" /\ member = {} /\ ~recycled
  /\ recycled' = TRUE
  /\ UNCHANGED <<adapter, tool, reading, writing, late, call, status, harmed, faults>>

Tool ==
  \/ \E x \in Processes :
       \/ \E d \in Descendants : Fork(x, d)
       \/ \E s \in Streams : Produce(x, s)
       \/ \E e \in Streams \cup {"in"} : CloseEnd(x, e)
       \/ LeaveGroup(x)
       \/ Consume(x)
       \/ Exit(x)
  \/ Recycle

-----------------------------------------------------------------------------
(* The threads.                                                            *)

Working == pc \notin {"launch", "done"}
Charge == faults < MaxFaults /\ faults' = faults + 1

Fits(s, k) == taken[s] + k <= Limit

(* A read returns some of what is in the pipe.  What would go beyond the   *)
(* limit is dropped with the flag raised before the rest is sent.          *)
ReadSome(s) ==
  /\ Working /\ reader[s] = "reading"
  /\ \E k \in 1 .. piped[s] :
       /\ piped' = [piped EXCEPT ![s] = @ - k]
       /\ IF Fits(s, k)
          THEN taken' = [taken EXCEPT ![s] = @ + k] /\ UNCHANGED reader
          ELSE reader' = [reader EXCEPT ![s] = "over"] /\ UNCHANGED taken
  /\ UNCHANGED <<adapter, tool, channel, overflow, writing, late, call, status,
                 recycled, harmed, faults>>

RaiseFlag(s) ==
  /\ Working /\ reader[s] = "over"
  /\ overflow' = TRUE
  /\ reader' = [reader EXCEPT ![s] = "full"]
  /\ UNCHANGED <<adapter, tool, piped, taken, channel, writing, late, call, status,
                 recycled, harmed, faults>>

Drained(s) == reader[s] = "reading" /\ piped[s] = 0 /\ ~Held(s)

Finished(s) == reader[s] = "full" \/ Drained(s)

SendBytes(s) ==
  /\ Working /\ channel[s] = "empty" /\ Finished(s)
  /\ channel' = [channel EXCEPT ![s] = "bytes"]
  /\ reader' = [reader EXCEPT ![s] = "ended"]
  /\ UNCHANGED <<adapter, tool, piped, taken, overflow, writing, late, call, status,
                 recycled, harmed, faults>>

(* A read fails: the error is sent, or the sender is dropped.              *)
ReadFails(s) ==
  /\ Working /\ reader[s] = "reading" /\ Charge
  /\ channel' = [channel EXCEPT ![s] = "error"]
  /\ reader' = [reader EXCEPT ![s] = "ended"]
  /\ UNCHANGED <<adapter, tool, piped, taken, overflow, writing, late, call, status,
                 recycled, harmed>>

WriteSome ==
  /\ Working /\ writer = "writing" /\ Held("in")
  /\ \E k \in 1 .. PipeSize - unread :
       /\ given + k <= InputSize
       /\ given' = given + k /\ unread' = unread + k
       /\ writer' = IF given + k = InputSize THEN "ok" ELSE "writing"
  /\ UNCHANGED <<adapter, tool, reading, late, call, status, recycled, harmed, faults>>

(* Nobody can read the input any more.                                     *)
WriteBreaks ==
  /\ Working /\ writer = "writing" /\ ~Held("in")
  /\ writer' = "broken"
  /\ UNCHANGED <<adapter, tool, reading, given, unread, late, call, status,
                 recycled, harmed, faults>>

Threads ==
  \/ \E s \in Streams : ReadSome(s) \/ RaiseFlag(s) \/ SendBytes(s) \/ ReadFails(s)
  \/ WriteSome
  \/ WriteBreaks

Expire ==
  /\ Working /\ ~late /\ late' = TRUE
  /\ UNCHANGED <<adapter, tool, reading, writing, call, status, recycled, harmed, faults>>

-----------------------------------------------------------------------------
(* The runner.                                                             *)

Ends == IF adapter = "apgar" THEN Streams \cup {"in"} ELSE Streams

Launch ==
  /\ pc = "launch" /\ pc' = "check"
  /\ life' = [life EXCEPT ![Leader] = "running"]
  /\ member' = {Leader}
  /\ holds' = [holds EXCEPT ![Leader] = Ends]
  /\ UNCHANGED <<adapter, sent, reading, writing, late, fed, verdict, status,
                 recycled, harmed, faults>>

LaunchFails ==
  /\ pc = "launch" /\ Charge
  /\ pc' = "done" /\ verdict' = "unlaunched"
  /\ UNCHANGED <<adapter, tool, reading, writing, late, fed, status, recycled, harmed>>

(* A mutant: only the leader is killed.                                    *)
VictimsLeaderOnly == {Leader} \cap {x \in Processes : life[x] # "unborn"}

(* Every process of the group is killed, and the leader wherever it is; it *)
(* is reaped, if it was not before.  A group that has got the identifier   *)
(* in the meantime is killed as well.                                      *)
Victims == {x \in Processes : life[x] \in {"running", "zombie"} /\ x \in member \cup {Leader}}

Terminate ==
  /\ life' = [x \in Processes |-> IF x \in Victims THEN "gone" ELSE life[x]]
  /\ holds' = [x \in Processes |-> IF x \in Victims THEN {} ELSE holds[x]]
  /\ member' = member \ Victims
  /\ harmed' = (harmed \/ recycled)
  /\ UNCHANGED <<sent, status, recycled>>

Untouched == UNCHANGED <<tool, status, recycled, harmed>>

(* The call is given up.  The simulation adapter receives from both readers*)
(* before it returns, whatever they have.                                  *)
GiveUp(reason) ==
  /\ Terminate
  /\ verdict' = reason
  /\ pc' = IF adapter = "ohmnivore" THEN "out" ELSE "done"
  /\ UNCHANGED fed

Return(result) == pc' = "done" /\ verdict' = result /\ UNCHANGED fed

CheckOverflow ==
  /\ pc = "check"
  /\ \/ overflow /\ GiveUp("overflow")
     \/ ~overflow /\ pc' = "wait" /\ UNCHANGED <<fed, verdict>> /\ Untouched
  /\ UNCHANGED <<adapter, reading, writing, late, faults>>

(* try_wait: the leader has ended and is reaped, ...                       *)
Reap ==
  /\ pc = "wait" /\ life[Leader] = "zombie"
  /\ life' = [life EXCEPT ![Leader] = "gone"]
  /\ member' = member \ {Leader}
  /\ pc' = IF adapter = "apgar" THEN "input" ELSE "out"
  /\ UNCHANGED <<adapter, holds, sent, reading, writing, late, fed, verdict, status,
                 recycled, harmed, faults>>

(* ... has not, before or after the deadline, ...                          *)
StillRunning ==
  /\ pc = "wait" /\ life[Leader] = "running"
  /\ \/ late /\ GiveUp("expired")
     \/ ~late /\ pc' = "check" /\ UNCHANGED <<fed, verdict>> /\ Untouched
  /\ UNCHANGED <<adapter, reading, writing, late, faults>>

(* ... or cannot be observed.                                              *)
WaitFails ==
  /\ pc = "wait" /\ Charge /\ GiveUp("unobservable")
  /\ UNCHANGED <<adapter, reading, writing, late>>

(* The result of the writer, or none within a second, is kept for later.   *)
ReceiveWriter ==
  /\ pc = "input" /\ pc' = "out"
  /\ fed' = IF writer = "ok" THEN "ok" ELSE "broken"
  /\ UNCHANGED <<adapter, tool, reading, writing, late, verdict, status,
                 recycled, harmed, faults>>

Again(s) == IF s = "out" THEN "out again" ELSE "err again"

After(s) ==
  CASE s = "out" -> "err"
    [] s = "err" /\ verdict = "pending" -> "final"
    [] OTHER -> "done"

Proceed(s) == pc' = After(s) /\ UNCHANGED <<fed, verdict>>

(* When the call has been given up, what is received does not matter.      *)
Refuse(s, reason) == IF verdict = "pending" THEN Return(reason) ELSE Proceed(s)

Receive(s) ==
  /\ pc \in {s, Again(s)} /\ channel[s] # "empty"
  /\ IF channel[s] = "bytes" THEN Proceed(s)
     ELSE Refuse(s, IF pc = s THEN "unreadable" ELSE "undrained")
  /\ UNCHANGED <<adapter, tool, reading, writing, late, status, recycled, harmed, faults>>

(* Nothing is received in time: the pipe may still be held.                *)
ReceiveTimesOut(s) ==
  /\ pc = s /\ channel[s] = "empty"
  /\ Terminate
  /\ IF adapter = "ohmnivore" THEN pc' = Again(s) /\ UNCHANGED <<fed, verdict>>
     ELSE Return("undrained")
  /\ UNCHANGED <<adapter, reading, writing, late, faults>>

(* A mutant: the second receive waits until there is something.            *)
ReceiveAgainBlocks(s) ==
  /\ pc = Again(s) /\ channel[s] # "empty"
  /\ Refuse(s, "undrained")
  /\ UNCHANGED <<adapter, tool, reading, writing, late, status, recycled, harmed, faults>>

ReceiveAgainTimesOut(s) ==
  /\ pc = Again(s) /\ channel[s] = "empty"
  /\ Refuse(s, "undrained")
  /\ UNCHANGED <<adapter, tool, reading, writing, late, status, recycled, harmed, faults>>

(* A mutant: the flag is not looked at again.                              *)
JudgeOnce ==
  /\ pc = "final"
  /\ Return(IF adapter = "apgar" /\ status = "ok" /\ fed # "ok" THEN "unfed" ELSE "captured")
  /\ UNCHANGED <<adapter, tool, reading, writing, late, status, recycled, harmed, faults>>

(* A reader may have gone over the limit after the flag was last seen.     *)
Judge ==
  /\ pc = "final"
  /\ Return(IF overflow THEN "truncated"
            ELSE IF adapter = "apgar" /\ status = "ok" /\ fed # "ok" THEN "unfed"
            ELSE "captured")
  /\ UNCHANGED <<adapter, tool, reading, writing, late, status, recycled, harmed, faults>>

Runner ==
  \/ Launch \/ LaunchFails
  \/ CheckOverflow \/ Reap \/ StillRunning \/ WaitFails
  \/ ReceiveWriter
  \/ \E s \in Streams : Receive(s) \/ ReceiveTimesOut(s) \/ ReceiveAgainTimesOut(s)
  \/ Judge

Next == Tool \/ Threads \/ Expire \/ Runner

Spec == Init /\ [][Next]_vars

(* Time passes and the runner is scheduled; nothing is asked of the tool,  *)
(* and nothing of the threads.                                             *)
FairSpec == Spec /\ WF_vars(Expire) /\ WF_vars(Runner)

-----------------------------------------------------------------------------
(* Properties.                                                             *)

(* A capture that is returned is everything that was written to the        *)
(* streams, within the limit, and can no longer grow; a tool that          *)
(* reports success has been given its whole input.                         *)
CaptureIsWhole ==
  verdict = "captured" =>
    /\ \A s \in Streams : taken[s] = sent[s] /\ ~Held(s)
    /\ status # "unknown"
    /\ adapter = "apgar" /\ status = "ok" => given = InputSize

(* When the call returns, the leader is not left as a zombie, and when it  *)
(* gives up, no process of the group is left: neither one that was forked  *)
(* while the runner was about to kill it nor one that keeps the pipes open.*)
(* Another group is signalled only when the leader was reaped before.      *)
NothingIsLeft ==
  /\ pc = "done" => /\ life[Leader] \in {"unborn", "gone"}
                    /\ verdict \in Kills => member = {}
  /\ harmed => life[Leader] = "gone"

(* The call returns, whatever the tool does and whether or not the threads *)
(* go on: every wait has a deadline.                                       *)
Terminates == (pc # "done") ~> (pc = "done")

=============================================================================
