-------------------------- MODULE ProcessRunnerProofs --------------------------
(***************************************************************************)
(* Theorems about ProcessRunner, for every set of descendants, every limit,*)
(* every size of the input and of the pipe, and every number of failures.  *)
(***************************************************************************)
EXTENDS ProcessRunner, TLAPS

(* TypeOK in parts.                                                        *)
ToolType ==
  /\ adapter \in Adapters
  /\ life \in [Processes -> {"unborn", "running", "zombie", "gone"}]
  /\ member \in SUBSET Processes
  /\ holds \in [Processes -> SUBSET (Streams \cup {"in"})]

StreamType ==
  /\ sent \in [Streams -> 0 .. MaxSent]
  /\ piped \in [Streams -> 0 .. MaxSent]
  /\ taken \in [Streams -> 0 .. Limit]
  /\ reader \in [Streams -> {"reading", "over", "full", "ended"}]
  /\ channel \in [Streams -> {"empty", "bytes", "error"}]
  /\ overflow \in BOOLEAN

CountType ==
  /\ writer \in {"none", "writing", "ok", "broken"}
  /\ given \in 0 .. InputSize
  /\ unread \in 0 .. PipeSize
  /\ faults \in 0 .. MaxFaults

CallType ==
  /\ pc \in {"launch", "check", "wait", "input", "out", "out again", "err", "err again",
            "final", "done"}
  /\ status \in {"unknown", "ok", "bad"}
  /\ fed \in {"unknown", "ok", "broken"}
  /\ late \in BOOLEAN
  /\ verdict \in {"pending", "captured"} \cup Kills \cup Leaves
  /\ recycled \in BOOLEAN /\ harmed \in BOOLEAN

TypeInv == ToolType /\ StreamType /\ CountType /\ CallType

(* The runner has stopped waiting for the leader and receives.             *)
Receiving == {"input", "out", "out again", "err", "err again", "final"}

(* What was written is in the pipe or taken while the reader reads; the    *)
(* bytes a reader has sent are all there are, and nobody can write more,   *)
(* unless the flag is up.                                                  *)
FlowAt(s) ==
  /\ piped[s] <= sent[s]
  /\ reader[s] = "reading" => taken[s] + piped[s] = sent[s]
  /\ reader[s] = "full" => overflow
  /\ channel[s] = "empty" <=> reader[s] # "ended"
  /\ channel[s] = "bytes" /\ ~overflow => taken[s] = sent[s] /\ ~Held(s)
  /\ pc = "launch" => reader[s] = "reading"

FlowInv == sent["out"] + sent["err"] <= MaxSent /\ \A s \in Streams : FlowAt(s)

(* Only processes that can still be killed are in the group; it is empty   *)
(* once it was killed, and nobody can join it then.                        *)
GroupInv ==
  /\ \A x \in member : life[x] \in {"running", "zombie"}
  /\ pc = "launch" => \A x \in Processes : life[x] = "unborn"
  /\ Working => life[Leader] # "unborn"
  /\ pc \in Receiving => life[Leader] = "gone"
  /\ pc = "done" => life[Leader] \in {"unborn", "gone"}
  /\ pc \in {"out again", "err again"} \/ verdict \in Kills => member = {}
  /\ recycled \/ harmed => life[Leader] = "gone"

(* What the runner knows at each place.                                    *)
ControlInv ==
  /\ life[Leader] = "zombie" => status # "unknown"
  /\ verdict = "pending" /\ pc \in Receiving => status # "unknown"
  /\ verdict = "pending" /\ pc \in {"err", "err again", "final"} => channel["out"] = "bytes"
  /\ pc = "final" => verdict = "pending" /\ channel["err"] = "bytes"
  /\ verdict # "pending" =>
       pc = "done" \/ (verdict \in Kills /\ pc \in {"out", "out again", "err", "err again"})
  /\ writer = "ok" => given = InputSize
  /\ fed = "ok" => writer = "ok"

Inv == TypeInv /\ FlowInv /\ GroupInv /\ ControlInv /\ CaptureIsWhole

-----------------------------------------------------------------------------
LEMMA TypeParts == TypeOK <=> TypeInv
  BY DEF TypeOK, TypeInv, ToolType, StreamType, CountType, CallType

LEMMA Kinds ==
  /\ Kills \cap Leaves = {} /\ "pending" \notin Kills /\ "captured" \notin Kills
  /\ "undrained" \in Kills /\ "unlaunched" \notin Kills /\ "unreadable" \notin Kills
  /\ "truncated" \notin Kills /\ "unfed" \notin Kills
  /\ Leader \in Processes /\ Descendants \subseteq Processes
  BY DEF Kills, Leaves, Processes

LEMMA StreamNames ==
  \A s \in Streams :
    \/ s = "out" /\ Again(s) = "out again" /\ After(s) = "err"
    \/ s = "err" /\ Again(s) = "err again"
         /\ After(s) = IF verdict = "pending" THEN "final" ELSE "done"
  BY DEF Streams, Again, After

LEMMA InitInv == Init => Inv
<1> SUFFICES ASSUME Init PROVE Inv OBVIOUS
<1>1. ToolType /\ CallType
  BY DEF Init, ToolType, CallType, Processes, Streams, Adapters
<1>2a. StreamType
  <2>1. 0 \in 0 .. MaxSent /\ 0 \in 0 .. Limit BY SizeAssumption
  <2> QED BY <2>1 DEF Init, StreamType
<1>2. CountType BY SizeAssumption DEF Init, CountType
<1>3. FlowInv BY SizeAssumption DEF Init, FlowInv, FlowAt, Streams, Held
<1>4. GroupInv /\ ControlInv /\ CaptureIsWhole
  BY Kinds, SizeAssumption
     DEF Init, GroupInv, ControlInv, CaptureIsWhole, Working, Receiving, Kills
<1> QED BY <1>1, <1>2, <1>2a, <1>3, <1>4 DEF Inv, TypeInv

(* Terminate leaves nobody in the group and no living leader, and opens    *)
(* nothing.                                                                *)
LEMMA Killed ==
  ASSUME TypeInv, GroupInv, Terminate, pc # "launch", pc # "done"
  PROVE  /\ member' = {}
         /\ life'[Leader] = "gone"
         /\ \A s \in Streams : ~Held(s) => ~Held(s)'
<1> USE DEF TypeInv, ToolType, CallType, GroupInv, Working, Terminate, Victims
<1>1. member' = {} OBVIOUS
<1>2. life'[Leader] = "gone"
  <2>1. life[Leader] \in {"running", "zombie", "gone"} BY Kinds
  <2> QED BY <2>1, Kinds
<1>3. \A x \in Processes : holds'[x] \subseteq holds[x] OBVIOUS
<1> QED BY <1>1, <1>2, <1>3 DEF Held

LEMMA ToolTypeNext == TypeInv /\ FlowInv /\ [Next]_vars => ToolType'
<1> SUFFICES ASSUME TypeInv, FlowInv, [Next]_vars PROVE ToolType' OBVIOUS
<1> USE DEF TypeInv, ToolType
<1>1. ASSUME NEW x \in Processes, NEW d \in Descendants, Fork(x, d)
     PROVE  ToolType'
  BY <1>1, Kinds DEF Fork
<1>2. ASSUME NEW x \in Processes, LeaveGroup(x)
     PROVE  ToolType'
  BY <1>2 DEF LeaveGroup
<1>3. ASSUME NEW x \in Processes, NEW e \in Streams \cup {"in"}, CloseEnd(x, e)
     PROVE  ToolType'
  BY <1>3 DEF CloseEnd
<1>4. ASSUME NEW x \in Processes, NEW s \in Streams, Produce(x, s)
     PROVE  ToolType'
  BY <1>4 DEF Produce
<1>5. ASSUME NEW x \in Processes, Exit(x)
     PROVE  ToolType'
  BY <1>5 DEF Exit
<1>6. CASE Launch
  BY <1>6, Kinds DEF Launch, Ends
<1>7. CASE CheckOverflow
  BY <1>7 DEF CheckOverflow, GiveUp, tool, Terminate, Victims, Untouched
<1>8. CASE Reap
  BY <1>8 DEF Reap
<1>9. CASE StillRunning
  BY <1>9 DEF StillRunning, GiveUp, tool, Terminate, Victims, Untouched
<1>10. CASE WaitFails
  BY <1>10 DEF WaitFails, GiveUp, Terminate, Victims, Untouched
<1>11. ASSUME NEW s \in Streams, ReceiveTimesOut(s)
     PROVE  ToolType'
  BY <1>11 DEF ReceiveTimesOut, Terminate, Victims, Untouched
<1>12. CASE UNCHANGED <<adapter, life, member, holds>>
  BY <1>12
<1> QED
  BY <1>1, <1>2, <1>3, <1>4, <1>5, <1>6, <1>7, <1>8, <1>9, <1>10, <1>11, <1>12
     DEF Next, Tool, Threads, Runner, Consume, Recycle, ReadSome, RaiseFlag,
         SendBytes, ReadFails, WriteSome, WriteBreaks, Expire, LaunchFails,
         ReceiveWriter, Receive, ReceiveAgainTimesOut, Judge, vars, tool

LEMMA StreamTypeNext == TypeInv /\ FlowInv /\ [Next]_vars => StreamType'
<1> SUFFICES ASSUME TypeInv, FlowInv, [Next]_vars PROVE StreamType' OBVIOUS
<1> USE DEF TypeInv, StreamType
<1>1. ASSUME NEW x \in Processes, NEW s \in Streams, Produce(x, s)
     PROVE  StreamType'
  <2>1. sent[s] < MaxSent /\ piped[s] < MaxSent
    BY <1>1, SizeAssumption DEF Produce, FlowInv, FlowAt, Streams
  <2> QED BY <1>1, <2>1, SizeAssumption DEF Produce
<1>2. ASSUME NEW s \in Streams, ReadSome(s)
     PROVE  StreamType'
  BY <1>2, SizeAssumption DEF ReadSome, Fits, tool
<1>3. ASSUME NEW s \in Streams, RaiseFlag(s)
     PROVE  StreamType'
  BY <1>3, SizeAssumption DEF RaiseFlag, tool
<1>4. ASSUME NEW s \in Streams, SendBytes(s)
     PROVE  StreamType'
  BY <1>4, SizeAssumption DEF SendBytes, tool
<1>5. ASSUME NEW s \in Streams, ReadFails(s)
     PROVE  StreamType'
  BY <1>5, SizeAssumption DEF ReadFails, tool
<1>6. CASE UNCHANGED <<sent, reading>>
  BY <1>6 DEF reading
<1> QED
  BY <1>1, <1>2, <1>3, <1>4, <1>5, <1>6
     DEF Next, Tool, Threads, Runner, Fork, LeaveGroup, CloseEnd, Consume, Exit,
         Recycle, WriteSome, WriteBreaks, Expire, Launch, LaunchFails,
         CheckOverflow, Reap, StillRunning, WaitFails, ReceiveWriter, Receive,
         ReceiveTimesOut, ReceiveAgainTimesOut, Judge, vars, tool, Untouched,
         GiveUp, Terminate

LEMMA CountTypeNext == TypeInv /\ FlowInv /\ [Next]_vars => CountType'
<1> SUFFICES ASSUME TypeInv, FlowInv, [Next]_vars PROVE CountType' OBVIOUS
<1> USE DEF TypeInv, CountType
<1>1. ASSUME NEW x \in Processes, Consume(x)
     PROVE  CountType'
  BY <1>1, SizeAssumption DEF Consume
<1>2. ASSUME NEW s \in Streams, ReadFails(s)
     PROVE  CountType'
  BY <1>2, SizeAssumption DEF ReadFails, Charge, writing
<1>3. CASE WriteSome
  BY <1>3, SizeAssumption DEF WriteSome
<1>4. CASE WriteBreaks
  BY <1>4, SizeAssumption DEF WriteBreaks
<1>5. CASE LaunchFails
  BY <1>5, SizeAssumption DEF LaunchFails, Charge, writing
<1>6. CASE WaitFails
  BY <1>6, SizeAssumption DEF WaitFails, Charge, writing
<1>7. CASE UNCHANGED <<writing, faults>>
  BY <1>7 DEF writing
<1> QED
  BY <1>1, <1>2, <1>3, <1>4, <1>5, <1>6, <1>7
     DEF Next, Tool, Threads, Runner, Fork, LeaveGroup, CloseEnd, Produce, Exit,
         Recycle, ReadSome, RaiseFlag, SendBytes, Expire, Launch, CheckOverflow,
         Reap, StillRunning, ReceiveWriter, Receive, ReceiveTimesOut,
         ReceiveAgainTimesOut, Judge, vars, writing

(* Where a receive leads, and what it says of the call.                    *)
LEMMA Refused ==
  ASSUME CallType, NEW s \in Streams, NEW reason \in {"unreadable", "undrained"},
         Proceed(s) \/ Refuse(s, reason)
  PROVE  /\ pc' \in {"err", "final", "done"}
         /\ verdict' \in {"pending", "captured"} \cup Kills \cup Leaves
         /\ fed' \in {"unknown", "ok", "broken"}
<1> USE DEF CallType
<1>1. After(s) \in {"err", "final", "done"} BY DEF After, Streams
<1>2. CASE Proceed(s)
  BY <1>1, <1>2 DEF Proceed
<1>3. CASE Refuse(s, reason) /\ verdict = "pending"
  BY <1>3 DEF Refuse, Return, Kills, Leaves
<1>4. CASE Refuse(s, reason) /\ verdict # "pending"
  BY <1>1, <1>4 DEF Refuse, Proceed
<1> QED BY <1>2, <1>3, <1>4

LEMMA CallTypeNext == TypeInv /\ FlowInv /\ [Next]_vars => CallType'
<1> SUFFICES ASSUME TypeInv, FlowInv, [Next]_vars PROVE CallType' OBVIOUS
<1> USE DEF TypeInv, CallType
<1>1. ASSUME NEW x \in Processes, Exit(x)
     PROVE  CallType'
  <2>1. status' \in {"unknown", "ok", "bad"} BY <1>1 DEF Exit
  <2>2. UNCHANGED <<late, pc, fed, verdict, recycled, harmed>> BY <1>1 DEF Exit, call
  <2> QED BY <2>1, <2>2
<1>2. CASE Recycle
  BY <1>2 DEF Recycle, call
<1>3. CASE Expire
  BY <1>3 DEF Expire, call
<1>4. CASE Launch
  BY <1>4 DEF Launch
<1>5. CASE LaunchFails
  BY <1>5 DEF LaunchFails, Leaves
<1>6. CASE CheckOverflow
  BY <1>6 DEF CheckOverflow, GiveUp, Terminate, Untouched, Kills
<1>7. CASE Reap
  BY <1>7 DEF Reap
<1>8. CASE StillRunning
  BY <1>8 DEF StillRunning, GiveUp, Terminate, Untouched, Kills
<1>9. CASE WaitFails
  BY <1>9 DEF WaitFails, GiveUp, Terminate, Untouched, Kills
<1>10. CASE ReceiveWriter
  BY <1>10 DEF ReceiveWriter
<1>11. ASSUME NEW s \in Streams, Receive(s)
     PROVE  CallType'
  <2>1. Proceed(s) \/ Refuse(s, "unreadable") \/ Refuse(s, "undrained") BY <1>11 DEF Receive
  <2>2. UNCHANGED <<status, late, recycled, harmed>> BY <1>11 DEF Receive
  <2> QED BY <2>1, <2>2, Refused
<1>12. ASSUME NEW s \in Streams, ReceiveTimesOut(s)
     PROVE  CallType'
  <2>1. Again(s) \in {"out again", "err again"} BY DEF Again
  <2>2. /\ fed' = fed /\ late' = late
        /\ \/ pc' = Again(s) /\ verdict' = verdict
           \/ pc' = "done" /\ verdict' = "undrained"
    BY <1>12 DEF ReceiveTimesOut, Return
  <2>3. status' \in {"unknown", "ok", "bad"} /\ recycled' \in BOOLEAN /\ harmed' \in BOOLEAN
    BY <1>12 DEF ReceiveTimesOut, Terminate
  <2> QED BY <2>1, <2>2, <2>3 DEF Kills
<1>13. ASSUME NEW s \in Streams, ReceiveAgainTimesOut(s)
     PROVE  CallType'
  <2>1. Refuse(s, "undrained") BY <1>13 DEF ReceiveAgainTimesOut
  <2>2. UNCHANGED <<status, late, recycled, harmed>> BY <1>13 DEF ReceiveAgainTimesOut
  <2> QED BY <2>1, <2>2, Refused
<1>14. CASE Judge
  BY <1>14 DEF Judge, Return, Leaves
<1>15. CASE UNCHANGED <<status, late, call, recycled, harmed>>
  BY <1>15 DEF call
<1> QED
  BY <1>1, <1>2, <1>3, <1>4, <1>5, <1>6, <1>7, <1>8, <1>9, <1>10, <1>11, <1>12, <1>13,
     <1>14, <1>15
     DEF Next, Tool, Threads, Runner, Fork, LeaveGroup, CloseEnd, Produce, Consume,
         ReadSome, RaiseFlag, SendBytes, ReadFails, WriteSome, WriteBreaks, vars,
         tool

LEMMA GroupNext == TypeInv /\ GroupInv /\ ControlInv /\ [Next]_vars => GroupInv'
<1> SUFFICES ASSUME TypeInv, GroupInv, ControlInv, [Next]_vars PROVE GroupInv' OBVIOUS
<1> USE DEF TypeInv, ToolType, CallType, GroupInv, Working, Receiving, call
<1>1. ASSUME NEW x \in Processes, NEW d \in Descendants, Fork(x, d)
     PROVE  GroupInv'
  BY <1>1, Kinds, ProcessAssumption DEF Fork, Running
<1>2. ASSUME NEW x \in Processes, LeaveGroup(x)
     PROVE  GroupInv'
  BY <1>2, Kinds, ProcessAssumption DEF LeaveGroup
<1>3. ASSUME NEW x \in Processes, NEW e \in Streams \cup {"in"}, CloseEnd(x, e)
     PROVE  GroupInv'
  BY <1>3, Kinds, ProcessAssumption DEF CloseEnd, tool
<1>4. ASSUME NEW x \in Processes, NEW s \in Streams, Produce(x, s)
     PROVE  GroupInv'
  BY <1>4, Kinds, ProcessAssumption DEF Produce, tool
<1>5. ASSUME NEW x \in Processes, Consume(x)
     PROVE  GroupInv'
  BY <1>5, Kinds, ProcessAssumption DEF Consume, tool
<1>6. ASSUME NEW x \in Processes, Exit(x)
     PROVE  GroupInv'
  BY <1>6, Kinds, ProcessAssumption DEF Exit, Running
<1>7. CASE Recycle
  BY <1>7, Kinds, ProcessAssumption DEF Recycle, tool
<1>8. ASSUME NEW s \in Streams, ReadSome(s)
     PROVE  GroupInv'
  BY <1>8, Kinds, ProcessAssumption DEF ReadSome, tool
<1>9. ASSUME NEW s \in Streams, RaiseFlag(s)
     PROVE  GroupInv'
  BY <1>9, Kinds, ProcessAssumption DEF RaiseFlag, tool
<1>10. ASSUME NEW s \in Streams, SendBytes(s)
     PROVE  GroupInv'
  BY <1>10, Kinds, ProcessAssumption DEF SendBytes, tool
<1>11. ASSUME NEW s \in Streams, ReadFails(s)
     PROVE  GroupInv'
  BY <1>11, Kinds, ProcessAssumption DEF ReadFails, tool
<1>12. CASE WriteSome
  BY <1>12, Kinds, ProcessAssumption DEF WriteSome, tool
<1>13. CASE WriteBreaks
  BY <1>13, Kinds, ProcessAssumption DEF WriteBreaks, tool
<1>14. CASE Expire
  BY <1>14, Kinds, ProcessAssumption DEF Expire, tool
<1>15. CASE Launch
  BY <1>15, Kinds, ProcessAssumption DEF Launch, ControlInv
<1>16. CASE LaunchFails
  BY <1>16, Kinds, ProcessAssumption DEF LaunchFails, tool
<1>17. CASE CheckOverflow
  <2>1. CASE GiveUp("overflow")
    BY <1>17, <2>1, Killed, Kinds DEF CheckOverflow, GiveUp
  <2>2. CASE pc' \in {"check", "wait"} /\ UNCHANGED <<fed, verdict>> /\ Untouched
    BY <1>17, <2>2 DEF CheckOverflow, Untouched, tool
  <2> QED BY <1>17, <2>1, <2>2 DEF CheckOverflow
<1>18. CASE Reap
  BY <1>18, Kinds, ProcessAssumption DEF Reap
<1>19. CASE StillRunning
  <2>1. CASE GiveUp("expired")
    BY <1>19, <2>1, Killed, Kinds DEF StillRunning, GiveUp
  <2>2. CASE pc' \in {"check", "wait"} /\ UNCHANGED <<fed, verdict>> /\ Untouched
    BY <1>19, <2>2 DEF StillRunning, Untouched, tool
  <2> QED BY <1>19, <2>1, <2>2 DEF StillRunning
<1>20. CASE WaitFails
  BY <1>20, Killed, Kinds DEF WaitFails, GiveUp, Kills
<1>21. CASE ReceiveWriter
  BY <1>21, Kinds, ProcessAssumption DEF ReceiveWriter, tool
<1>22. ASSUME NEW s \in Streams, Receive(s)
     PROVE  GroupInv'
  BY <1>22, Kinds, StreamNames DEF Receive, Proceed, Refuse, Return, tool
<1>23. ASSUME NEW s \in Streams, ReceiveTimesOut(s)
     PROVE  GroupInv'
  BY <1>23, Killed, Kinds, StreamNames DEF ReceiveTimesOut, Return
<1>24. ASSUME NEW s \in Streams, ReceiveAgainTimesOut(s)
     PROVE  GroupInv'
  BY <1>24, Kinds, StreamNames DEF ReceiveAgainTimesOut, Proceed, Refuse, Return, tool
<1>25. CASE Judge
  BY <1>25, Kinds, ProcessAssumption DEF Judge, Return, tool
<1>26. CASE UNCHANGED vars
  BY <1>26, Kinds, ProcessAssumption DEF vars, tool
<1> QED
  BY <1>1, <1>2, <1>3, <1>4, <1>5, <1>6, <1>7, <1>8, <1>9, <1>10, <1>11, <1>12, <1>13,
     <1>14, <1>15, <1>16, <1>17, <1>18, <1>19, <1>20, <1>21, <1>22, <1>23, <1>24, <1>25,
     <1>26
     DEF Next, Tool, Threads, Runner

LEMMA FlowNext == TypeInv /\ FlowInv /\ [Next]_vars => FlowInv'
<1> SUFFICES ASSUME TypeInv, FlowInv, [Next]_vars PROVE FlowInv' OBVIOUS
<1> USE DEF TypeInv, StreamType, FlowInv, FlowAt, Held, call
<1>1. ASSUME NEW x \in Processes, NEW d \in Descendants, Fork(x, d)
     PROVE  FlowInv'
  BY <1>1, SizeAssumption, Kinds DEF Fork, reading
<1>2. ASSUME NEW x \in Processes, LeaveGroup(x)
     PROVE  FlowInv'
  BY <1>2, SizeAssumption, Kinds DEF LeaveGroup, reading
<1>3. ASSUME NEW x \in Processes, NEW e \in Streams \cup {"in"}, CloseEnd(x, e)
     PROVE  FlowInv'
  BY <1>3, SizeAssumption, Kinds DEF CloseEnd, reading
<1>4. ASSUME NEW x \in Processes, NEW s \in Streams, Produce(x, s)
     PROVE  FlowInv'
  <2>1. sent'["out"] + sent'["err"] <= MaxSent BY <1>4, SizeAssumption DEF Produce, Streams
  <2> SUFFICES ASSUME NEW t \in Streams PROVE FlowAt(t)' BY <2>1
  <2>2. CASE t = s BY <1>4, <2>2 DEF Produce
  <2>3. CASE t # s BY <1>4, <2>3 DEF Produce
  <2> QED BY <2>2, <2>3
<1>5. ASSUME NEW x \in Processes, Consume(x)
     PROVE  FlowInv'
  BY <1>5, SizeAssumption, Kinds DEF Consume, tool, reading
<1>6. ASSUME NEW x \in Processes, Exit(x)
     PROVE  FlowInv'
  BY <1>6, SizeAssumption, Kinds DEF Exit, reading
<1>7. CASE Recycle
  BY <1>7, SizeAssumption, Kinds DEF Recycle, tool, reading
<1>8. ASSUME NEW s \in Streams, ReadSome(s)
     PROVE  FlowInv'
  <2> SUFFICES ASSUME NEW t \in Streams PROVE FlowAt(t)' BY <1>8 DEF ReadSome, tool
  <2>2. CASE t = s BY <1>8, <2>2 DEF ReadSome, tool, Fits, Working
  <2>3. CASE t # s BY <1>8, <2>3 DEF ReadSome, tool, Fits, Working
  <2> QED BY <2>2, <2>3
<1>9. ASSUME NEW s \in Streams, RaiseFlag(s)
     PROVE  FlowInv'
  BY <1>9, SizeAssumption, Kinds DEF RaiseFlag, tool
<1>10. ASSUME NEW s \in Streams, SendBytes(s)
     PROVE  FlowInv'
  <2> SUFFICES ASSUME NEW t \in Streams PROVE FlowAt(t)' BY <1>10 DEF SendBytes, tool
  <2>2. CASE t = s BY <1>10, <2>2 DEF SendBytes, tool, Finished, Drained, Working
  <2>3. CASE t # s BY <1>10, <2>3 DEF SendBytes, tool, Finished, Drained, Working
  <2> QED BY <2>2, <2>3
<1>11. ASSUME NEW s \in Streams, ReadFails(s)
     PROVE  FlowInv'
  <2> SUFFICES ASSUME NEW t \in Streams PROVE FlowAt(t)' BY <1>11 DEF ReadFails, tool
  <2>2. CASE t = s BY <1>11, <2>2 DEF ReadFails, tool, Working
  <2>3. CASE t # s BY <1>11, <2>3 DEF ReadFails, tool
  <2> QED BY <2>2, <2>3
<1>12. CASE WriteSome
  BY <1>12, SizeAssumption, Kinds DEF WriteSome, tool, reading
<1>13. CASE WriteBreaks
  BY <1>13, SizeAssumption, Kinds DEF WriteBreaks, tool, reading
<1>14. CASE Expire
  BY <1>14, SizeAssumption, Kinds DEF Expire, tool, reading
<1>15. CASE Launch
  BY <1>15, SizeAssumption, Kinds DEF Launch, reading
<1>16. CASE LaunchFails
  BY <1>16, SizeAssumption, Kinds DEF LaunchFails, tool, reading
<1>17. CASE CheckOverflow
  <2>1. CASE GiveUp("overflow")
    BY <1>17, <2>1, Killed, Kinds DEF CheckOverflow, GiveUp, Terminate, reading
  <2>2. CASE pc' \in {"check", "wait"} /\ UNCHANGED <<fed, verdict>> /\ Untouched
    BY <1>17, <2>2 DEF CheckOverflow, Untouched, tool, reading
  <2> QED BY <1>17, <2>1, <2>2 DEF CheckOverflow
<1>18. CASE Reap
  BY <1>18, SizeAssumption, Kinds DEF Reap, reading
<1>19. CASE StillRunning
  <2>1. CASE GiveUp("expired")
    BY <1>19, <2>1, Killed, Kinds DEF StillRunning, GiveUp, Terminate, reading
  <2>2. CASE pc' \in {"check", "wait"} /\ UNCHANGED <<fed, verdict>> /\ Untouched
    BY <1>19, <2>2 DEF StillRunning, Untouched, tool, reading
  <2> QED BY <1>19, <2>1, <2>2 DEF StillRunning
<1>20. CASE WaitFails
  BY <1>20, SizeAssumption, Kinds DEF WaitFails, GiveUp, Terminate, reading
<1>21. CASE ReceiveWriter
  BY <1>21, SizeAssumption, Kinds DEF ReceiveWriter, tool, reading
<1>22. ASSUME NEW s \in Streams, Receive(s)
     PROVE  FlowInv'
  BY <1>22, StreamNames DEF Receive, Proceed, Refuse, Return, tool, reading
<1>23. ASSUME NEW s \in Streams, ReceiveTimesOut(s)
     PROVE  FlowInv'
  BY <1>23, StreamNames DEF ReceiveTimesOut, Terminate, Return, reading
<1>24. ASSUME NEW s \in Streams, ReceiveAgainTimesOut(s)
     PROVE  FlowInv'
  BY <1>24, StreamNames DEF ReceiveAgainTimesOut, Proceed, Refuse, Return, tool, reading
<1>25. CASE Judge
  BY <1>25, SizeAssumption, Kinds DEF Judge, Return, tool, reading
<1>26. CASE UNCHANGED vars
  BY <1>26, SizeAssumption, Kinds DEF vars, tool, reading
<1> QED
  BY <1>1, <1>2, <1>3, <1>4, <1>5, <1>6, <1>7, <1>8, <1>9, <1>10, <1>11, <1>12, <1>13,
     <1>14, <1>15, <1>16, <1>17, <1>18, <1>19, <1>20, <1>21, <1>22, <1>23, <1>24, <1>25,
     <1>26
     DEF Next, Tool, Threads, Runner

LEMMA ControlNext == TypeInv /\ FlowInv /\ GroupInv /\ ControlInv /\ [Next]_vars => ControlInv'
<1> SUFFICES ASSUME TypeInv, FlowInv, GroupInv, ControlInv, [Next]_vars PROVE ControlInv' OBVIOUS
<1> USE DEF TypeInv, ToolType, StreamType, CountType, CallType, ControlInv, Receiving, call
<1>1. ASSUME NEW x \in Processes, NEW d \in Descendants, Fork(x, d)
     PROVE  ControlInv'
  BY <1>1, Kinds, ProcessAssumption DEF Fork, Running, reading, writing
<1>2. ASSUME NEW x \in Processes, LeaveGroup(x)
     PROVE  ControlInv'
  BY <1>2, Kinds, ProcessAssumption DEF LeaveGroup, reading, writing
<1>3. ASSUME NEW x \in Processes, NEW e \in Streams \cup {"in"}, CloseEnd(x, e)
     PROVE  ControlInv'
  BY <1>3, Kinds, ProcessAssumption DEF CloseEnd, reading, writing
<1>4. ASSUME NEW x \in Processes, NEW s \in Streams, Produce(x, s)
     PROVE  ControlInv'
  BY <1>4, Kinds, ProcessAssumption DEF Produce, writing
<1>5. ASSUME NEW x \in Processes, Consume(x)
     PROVE  ControlInv'
  BY <1>5, Kinds, ProcessAssumption DEF Consume, tool, reading
<1>6. ASSUME NEW x \in Processes, Exit(x)
     PROVE  ControlInv'
  BY <1>6, Kinds DEF Exit, reading, writing
<1>7. CASE Recycle
  BY <1>7, Kinds, ProcessAssumption DEF Recycle, tool, reading, writing
<1>8. ASSUME NEW s \in Streams, ReadSome(s)
     PROVE  ControlInv'
  BY <1>8, Kinds, ProcessAssumption DEF ReadSome, tool, writing
<1>9. ASSUME NEW s \in Streams, RaiseFlag(s)
     PROVE  ControlInv'
  BY <1>9, Kinds, ProcessAssumption DEF RaiseFlag, tool, writing
<1>10. ASSUME NEW s \in Streams, SendBytes(s)
     PROVE  ControlInv'
  BY <1>10, Kinds, ProcessAssumption DEF SendBytes, Streams, tool, writing
<1>11. ASSUME NEW s \in Streams, ReadFails(s)
     PROVE  ControlInv'
  BY <1>11, Kinds, ProcessAssumption DEF ReadFails, FlowInv, FlowAt, Streams, tool, writing
<1>12. CASE WriteSome
  BY <1>12, Kinds, ProcessAssumption DEF WriteSome, tool, reading
<1>13. CASE WriteBreaks
  BY <1>13, Kinds, ProcessAssumption DEF WriteBreaks, tool, reading
<1>14. CASE Expire
  BY <1>14, Kinds, ProcessAssumption DEF Expire, tool, reading, writing
<1>15. CASE Launch
  BY <1>15, Kinds, ProcessAssumption DEF Launch, GroupInv, reading, writing
<1>16. CASE LaunchFails
  BY <1>16, Kinds, ProcessAssumption DEF LaunchFails, tool, reading, writing, Leaves
<1>17. CASE CheckOverflow
  <2>1. CASE GiveUp("overflow")
    BY <1>17, <2>1, Killed, Kinds DEF CheckOverflow, GiveUp, Kills, reading, writing
  <2>2. CASE pc' \in {"check", "wait"} /\ UNCHANGED <<fed, verdict>> /\ Untouched
    BY <1>17, <2>2 DEF CheckOverflow, Untouched, tool, reading, writing
  <2> QED BY <1>17, <2>1, <2>2 DEF CheckOverflow
<1>18. CASE Reap
  BY <1>18, Kinds, ProcessAssumption DEF Reap, reading, writing
<1>19. CASE StillRunning
  <2>1. CASE GiveUp("expired")
    BY <1>19, <2>1, Killed, Kinds DEF StillRunning, GiveUp, Kills, reading, writing
  <2>2. CASE pc' \in {"check", "wait"} /\ UNCHANGED <<fed, verdict>> /\ Untouched
    BY <1>19, <2>2 DEF StillRunning, Untouched, tool, reading, writing
  <2> QED BY <1>19, <2>1, <2>2 DEF StillRunning
<1>20. CASE WaitFails
  BY <1>20, Killed, Kinds DEF WaitFails, GiveUp, Kills, reading, writing
<1>21. CASE ReceiveWriter
  BY <1>21, Kinds, ProcessAssumption DEF ReceiveWriter, tool, reading, writing
<1>22. ASSUME NEW s \in Streams, Receive(s)
     PROVE  ControlInv'
  BY <1>22, StreamNames, Kinds DEF Receive, Proceed, Refuse, Return, tool, reading, writing
<1>23. ASSUME NEW s \in Streams, ReceiveTimesOut(s)
     PROVE  ControlInv'
  BY <1>23, StreamNames, Kinds, Killed DEF ReceiveTimesOut, Return, reading, writing, Terminate
<1>24. ASSUME NEW s \in Streams, ReceiveAgainTimesOut(s)
     PROVE  ControlInv'
  BY <1>24, StreamNames, Kinds DEF ReceiveAgainTimesOut, Proceed, Refuse, Return, tool, reading, writing
<1>25. CASE Judge
  BY <1>25, Kinds, ProcessAssumption DEF Judge, Return, tool, reading, writing
<1>26. CASE UNCHANGED vars
  BY <1>26, Kinds, ProcessAssumption DEF vars, tool, reading, writing
<1> QED
  BY <1>1, <1>2, <1>3, <1>4, <1>5, <1>6, <1>7, <1>8, <1>9, <1>10, <1>11, <1>12, <1>13,
     <1>14, <1>15, <1>16, <1>17, <1>18, <1>19, <1>20, <1>21, <1>22, <1>23, <1>24, <1>25,
     <1>26
     DEF Next, Tool, Threads, Runner

(* At the end both readers have sent all there is, or the flag is up.      *)
LEMMA CaptureNext == Inv /\ [Next]_vars => CaptureIsWhole'
<1> SUFFICES ASSUME Inv, [Next]_vars, verdict' = "captured" PROVE CaptureIsWhole'
  BY DEF CaptureIsWhole
<1> USE DEF Inv
<1>1. CASE verdict = "captured"
  <2>1. pc = "done" BY <1>1, Kinds DEF ControlInv
  <2>2. ~Tool
    BY <2>1 DEF Tool, Running, Fork, LeaveGroup, CloseEnd, Produce, Consume, Exit, Recycle
  <2>3. ~Threads /\ ~Expire
    BY <2>1 DEF Threads, Working, ReadSome, RaiseFlag, SendBytes, ReadFails, WriteSome,
                WriteBreaks, Expire
  <2>4. ~Runner
    BY <2>1, StreamNames
       DEF Runner, Launch, LaunchFails, CheckOverflow, Reap, StillRunning, WaitFails,
           ReceiveWriter, Receive, ReceiveTimesOut, ReceiveAgainTimesOut, Judge
  <2>5. UNCHANGED vars BY <2>2, <2>3, <2>4 DEF Next
  <2> QED BY <1>1, <2>5 DEF CaptureIsWhole, Held, vars, tool, reading, writing
<1>2. CASE verdict # "captured"
  <2>1. Judge
    BY <1>2, Kinds DEF Next, Tool, Threads, Runner, Fork, LeaveGroup, CloseEnd, Produce,
             Consume, Exit, Recycle, ReadSome, RaiseFlag, SendBytes, ReadFails,
             WriteSome, WriteBreaks, Expire, Launch, LaunchFails, CheckOverflow,
             Reap, StillRunning, WaitFails, ReceiveWriter, Receive,
             ReceiveTimesOut, ReceiveAgainTimesOut, Judge, vars, GiveUp,
             Proceed, Refuse, Return, call
  <2>2. pc = "final" /\ ~overflow /\ (adapter = "apgar" /\ status = "ok" => fed = "ok")
    BY <1>2, <2>1 DEF Judge, Return
  <2>3. /\ channel["out"] = "bytes" /\ channel["err"] = "bytes"
        /\ status # "unknown" /\ (fed = "ok" => given = InputSize)
    BY <2>2 DEF ControlInv, Receiving
  <2>4. \A s \in Streams : taken[s] = sent[s] /\ ~Held(s)
    BY <2>2, <2>3 DEF FlowInv, FlowAt, Streams
  <2>5. UNCHANGED <<adapter, sent, taken, holds, status, given>>
    BY <2>1 DEF Judge, tool, reading, writing
  <2> QED BY <2>2, <2>3, <2>4, <2>5 DEF CaptureIsWhole, Held
<1> QED BY <1>1, <1>2

-----------------------------------------------------------------------------
LEMMA Inductive == Spec => []Inv
<1>1. Inv /\ [Next]_vars => Inv'
  BY ToolTypeNext, StreamTypeNext, CountTypeNext, CallTypeNext, FlowNext, GroupNext, ControlNext,
     CaptureNext DEF Inv, TypeInv
<1> QED BY InitInv, <1>1, PTL DEF Spec

(* Every variable has its type in every state.                             *)
THEOREM TypeCorrect == Spec => []TypeOK
<1>1. Inv => TypeOK BY TypeParts DEF Inv
<1> QED BY <1>1, Inductive, PTL

(* Whatever the tool, the threads and the deadline do: a capture that      *)
(* run_process returns is all that was written, nobody can write more, and *)
(* a tool that reports success was given its whole input.                  *)
THEOREM CaptureHolds == Spec => []CaptureIsWhole
<1>1. Inv => CaptureIsWhole BY DEF Inv
<1> QED BY <1>1, Inductive, PTL

(* When the call returns the leader was reaped, after giving up no process *)
(* of the group is left, and another group is signalled only through the   *)
(* identifier of a leader that was reaped before.                          *)
THEOREM NothingIsLeftHolds == Spec => []NothingIsLeft
<1>1. Inv => NothingIsLeft BY DEF Inv, GroupInv, NothingIsLeft
<1> QED BY <1>1, Inductive, PTL

=============================================================================
