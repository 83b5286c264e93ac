------------------------- MODULE RuntimeTraceProofs -------------------------
(* Theorems about RuntimeTrace, for any number of lanes, any ring capacity,  *)
(* byte cap, reserve and bound on the emits, with or without I/O faults.     *)
EXTENDS RuntimeTrace, SequenceTheorems, TLAPS

LEMMA Parameters ==
  /\ 0 \in Lanes /\ Drivers \in Nat /\ QueueCapacity \in Nat \ {0} /\ DrainBurst \in Nat \ {0}
  /\ ByteCap \in Nat /\ Reserve \in Nat /\ ByteCap > Reserve
BY TraceAssumption, SMT DEF TraceAssumption, Lanes

LEMMA SinkFailsType ==
  ASSUME sink \in Sinks, SinkFails
  PROVE  sink' \in Sinks
BY Zenon DEF SinkFails, Sinks

\* A sink stays a sink whatever is written to it: the byte cap is never passed.
LEMMA SinkWriteType ==
  ASSUME sink \in Sinks, NEW long \in BOOLEAN, NEW terminal \in BOOLEAN, NEW ok \in BOOLEAN,
         SinkWrite(long, terminal, ok)
  PROVE  sink' \in Sinks
<1>1. CASE UNCHANGED sink
  BY <1>1
<1>2. CASE sink' = [sink EXCEPT !.truncated = @ + 1]
  BY <1>2, SMT DEF Sinks
<1>3. CASE sink' = [sink EXCEPT !.capped = TRUE]
  BY <1>3, Zenon DEF Sinks
<1>4. CASE Fits(terminal) /\ sink' = [sink EXCEPT !.used = @ + 1]
  <2>1. sink.used \in 0..ByteCap
    BY Zenon DEF Sinks
  <2>2. sink.used + 1 \in 0..ByteCap
    BY <1>4, <2>1, Parameters, SMT DEF Fits, Allowed
  <2>3. QED
    BY <1>4, <2>2, Zenon DEF Sinks
<1>5. CASE SinkFails
  BY <1>5, SinkFailsType
<1>6. QED
  BY <1>1, <1>2, <1>3, <1>4, <1>5, Zenon DEF SinkWrite

\* The byte cap: no step writes past it.
LEMMA SinkType ==
  ASSUME sink \in Sinks, [Next]_vars
  PROVE  sink' \in Sinks
<1>1. CASE WriterHeader
  BY <1>1, SinkWriteType DEF WriterHeader
<1>2. CASE WriterPop
  <2>1. (Head(ring[cur]) \in LongEvents) \in BOOLEAN
    OBVIOUS
  <2>2. PICK ok \in BOOLEAN : SinkWrite(Head(ring[cur]) \in LongEvents, FALSE, ok)
    BY <1>2 DEF WriterPop
  <2>3. QED
    BY <2>1, <2>2, SinkWriteType
<1>3. CASE WriterPoll
  BY <1>3, SinkWriteType, SinkFailsType DEF WriterPoll
<1>4. CASE WriterTerminal
  BY <1>4, SinkWriteType DEF WriterTerminal
<1>5. CASE WriterFooterLane
  BY <1>5, SinkWriteType DEF WriterFooterLane
<1>6. CASE WriterFooter
  BY <1>6, SinkWriteType DEF WriterFooter
<1>7. CASE WriterSync
  BY <1>7, SinkFailsType DEF WriterSync, SyncError
<1>8. CASE UNCHANGED sink
  BY <1>8
<1>9. QED
  BY <1>1, <1>2, <1>3, <1>4, <1>5, <1>6, <1>7, <1>8
     DEF Next, Producer, Writer, vars, writerVars, EmitBegin, EmitReentrant, EmitPush,
         EmitRefused, NoteUnbound, WriterTop, WriterLaneDrained, WriterCheck, WriterExit,
         WriterRename, WriterUnlink, WriterReturn, WriterSend, WriterEnds, WriterDies,
         Finish, FinishReceives, FinishJoins, FinishTimesOut, DropSession

-----------------------------------------------------------------------------
(* Type correctness, one part of the state at a time. *)

LEMMA ProducersType ==
  ASSUME ProducersTypeOK, [Next]_vars
  PROVE  ProducersTypeOK'
<1> USE Parameters DEF ProducersTypeOK
<1>1. ASSUME NEW l \in Lanes, EmitBegin(l) PROVE ProducersTypeOK'
  BY <1>1, SMT DEF EmitBegin, MarkLate
<1>2. ASSUME NEW l \in Lanes, EmitReentrant(l) PROVE ProducersTypeOK'
  BY <1>2, SMT DEF EmitReentrant, MarkLate
<1>3. ASSUME NEW l \in Lanes, EmitPush(l) PROVE ProducersTypeOK'
  <2>1. PICK pc \in {"idle", "full"} : emitPc' = [emitPc EXCEPT ![l] = pc]
    BY <1>3, Zenon DEF EmitPush
  <2>2. QED
    BY <1>3, <2>1, Zenon DEF EmitPush
<1>4. ASSUME NEW l \in Lanes, EmitRefused(l) PROVE ProducersTypeOK'
  BY <1>4, SMT DEF EmitRefused
<1>5. CASE NoteUnbound
  BY <1>5, SMT DEF NoteUnbound, MarkLate, producerVars
<1>6. CASE Finish
  BY <1>6, SMT DEF Finish, producerVars
<1>7. CASE UNCHANGED <<producerVars, late>>
  BY <1>7, SMT DEF producerVars
<1>8. QED
  BY <1>1, <1>2, <1>3, <1>4, <1>5, <1>6, <1>7, Zenon
     DEF Next, Producer, Writer, vars, WriterHeader, WriterTop, WriterPop,
         WriterLaneDrained, WriterPoll, WriterCheck, WriterExit, WriterTerminal,
         WriterFooterLane, WriterFooter, WriterSync, WriterRename, WriterUnlink,
         WriterReturn, WriterSend, WriterEnds, WriterDies, FinishReceives, FinishJoins,
         FinishTimesOut, DropSession

LEMMA RingsType ==
  ASSUME ProducersTypeOK, RingsTypeOK, cur \in Lanes, [Next]_vars
  PROVE  RingsTypeOK'
<1> USE DEF RingsTypeOK
<1>1. ASSUME NEW l \in Lanes, EmitPush(l) PROVE RingsTypeOK'
  <2>1. CASE UNCHANGED ring
    BY <2>1
  <2>2. CASE HasFreeSlot(l) /\ ring' = [ring EXCEPT ![l] = Append(@, seq[l])]
    <3>1. seq[l] \in Nat /\ ring[l] \in Seq(Nat)
      BY SMT DEF ProducersTypeOK
    <3>2. Append(ring[l], seq[l]) \in Seq(Nat) /\ Len(Append(ring[l], seq[l])) <= QueueCapacity
      BY <2>2, <3>1, Parameters, SMT DEF HasFreeSlot
    <3>3. QED
      BY <2>2, <3>2, Zenon
  <2>3. QED
    BY <1>1, <2>1, <2>2 DEF EmitPush
<1>2. CASE WriterPop
  <2>1. ring' = [ring EXCEPT ![cur] = Tail(@)] /\ ring[cur] # <<>>
    BY <1>2 DEF WriterPop
  <2>2. ring[cur] \in Seq(Nat) /\ Len(ring[cur]) <= QueueCapacity
    OBVIOUS
  <2>3. Tail(ring[cur]) \in Seq(Nat) /\ Len(Tail(ring[cur])) = Len(ring[cur]) - 1
    BY <2>1, <2>2, EmptySeq, LenProperties, HeadTailProperties
  <2>4. Tail(ring[cur]) \in Seq(Nat) /\ Len(Tail(ring[cur])) <= QueueCapacity
    BY <2>2, <2>3, Parameters, SMT
  <2>5. QED
    BY <2>1, <2>4, Zenon
<1>3. CASE UNCHANGED ring
  BY <1>3
<1>4. QED
  BY <1>1, <1>2, <1>3, Zenon
     DEF Next, Producer, Writer, vars, EmitBegin, EmitReentrant, EmitRefused,
         NoteUnbound, WriterHeader, WriterTop, WriterLaneDrained, WriterPoll,
         WriterCheck, WriterExit, WriterTerminal, WriterFooterLane, WriterFooter,
         WriterSync, WriterRename, WriterUnlink, WriterReturn, WriterSend, WriterEnds,
         WriterDies, Finish, FinishReceives, FinishJoins, FinishTimesOut, DropSession

LEMMA ReportIs ==
  ASSUME verdict \in Verdicts \cup {"abandoned"}
  PROVE  /\ Report \in Reports /\ Report.timedOut = FALSE
         /\ Report.counted = (verdict # "abandoned")
BY Zenon DEF Report, Reports, Verdicts, Names

\* A failed join leaves the counts and takes the verdict and the name away.
LEMMA AfterJoinIs ==
  ASSUME NEW r \in Reports
  PROVE  /\ AfterJoin(r) \in Reports
         /\ AfterJoin(r).counted = r.counted /\ AfterJoin(r).timedOut = r.timedOut
         /\ wpc # "panicked" => AfterJoin(r) = r
         /\ wpc = "panicked" => AfterJoin(r).verdict = "incomplete" /\ AfterJoin(r).path = "open"
BY Zenon DEF AfterJoin, Reports, Verdicts, Names

\* Only a writer that has sent its report leaves one behind, finish joins only
\* with a report in hand, and what it returns then is of a writer that is gone.
ReportFromTheGone ==
  /\ completion # Nothing => wpc \in {"ends", "gone", "panicked"}
  /\ spc = "joining" => completion # Nothing
  /\ result # Nothing /\ ~result.timedOut => wpc \in {"gone", "panicked"}

LEMMA SessionType ==
  ASSUME SessionTypeOK, ReportFromTheGone, verdict \in Verdicts \cup {"abandoned"}, [Next]_vars
  PROVE  SessionTypeOK'
<1> USE DEF SessionTypeOK
<1>1. CASE WriterPoll
  BY <1>1, Zenon DEF WriterPoll
<1>2. CASE Finish
  BY <1>2, Zenon DEF Finish
<1>3. CASE FinishReceives
  BY <1>3, Zenon DEF FinishReceives
<1>4. CASE FinishJoins
  <2>1. completion \in Reports
    BY <1>4, Zenon DEF FinishJoins, ReportFromTheGone
  <2>2. AfterJoin(completion) \in Reports
    BY <2>1, AfterJoinIs
  <2>3. QED
    BY <1>4, <2>2, Zenon DEF FinishJoins
<1>5. CASE FinishTimesOut
  <2>1. TimeoutReport \in Reports
    BY Zenon DEF TimeoutReport, Reports, Verdicts, Names
  <2>2. QED
    BY <1>5, <2>1, Zenon DEF FinishTimesOut
<1>6. CASE DropSession
  BY <1>6, Zenon DEF DropSession
<1>7. CASE WriterSend
  <2>1. completion' \in {Report, Nothing} /\ UNCHANGED sessionVars
    BY <1>7, Zenon DEF WriterSend
  <2>2. QED
    BY <2>1, ReportIs, Zenon DEF sessionVars
<1>8. CASE UNCHANGED <<sessionVars, completion>>
  BY <1>8, Zenon DEF sessionVars
<1>9. QED
  BY <1>1, <1>2, <1>3, <1>4, <1>5, <1>6, <1>7, <1>8, Zenon
     DEF Next, Producer, Writer, vars, EmitBegin, EmitReentrant, EmitPush, EmitRefused,
         NoteUnbound, WriterHeader, WriterTop, WriterPop, WriterLaneDrained, WriterCheck,
         WriterExit, WriterTerminal, WriterFooterLane, WriterFooter, WriterSync,
         WriterRename, WriterUnlink, WriterReturn, WriterEnds, WriterDies

\* Only a complete or lossy verdict gets as far as a final name.
NamedVerdict ==
  /\ wpc = "sync" => verdict \in Verdicts
  /\ wpc \in {"rename", "unlink"} => verdict \in {"complete", "lossy"}

LEMMA NamedVerdictStep ==
  ASSUME NamedVerdict, [Next]_vars
  PROVE  NamedVerdict'
<1> USE DEF NamedVerdict, Goto
<1>1. CASE WriterFooter
  BY <1>1, Zenon DEF WriterFooter, Disposition, Verdicts
<1>2. CASE WriterSync
  BY <1>2, Zenon DEF WriterSync, SyncError, Verdicts
<1>3. CASE WriterRename
  BY <1>3, Zenon DEF WriterRename
<1>4. CASE UNCHANGED <<wpc, verdict>>
  BY <1>4, Zenon
<1>5. CASE wpc' \notin {"sync", "rename", "unlink"}
  BY <1>5, Zenon
<1>6. QED
  BY <1>1, <1>2, <1>3, <1>4, <1>5, Zenon
     DEF Next, Producer, Writer, vars, writerVars, EmitBegin, EmitReentrant, EmitPush,
         EmitRefused, NoteUnbound, WriterHeader, WriterTop, WriterPop, WriterLaneDrained,
         NextLane, WriterPoll, WriterCheck, WriterExit, WriterTerminal, WriterFooterLane,
         WriterUnlink, WriterReturn, WriterSend, WriterEnds, WriterDies, Finish,
         FinishReceives, FinishJoins, FinishTimesOut, DropSession

LEMMA WriterType ==
  ASSUME ProducersTypeOK, LogTypeOK, NamedVerdict, WriterTypeOK, [Next]_vars
  PROVE  WriterTypeOK'
<1> USE Parameters DEF WriterTypeOK
<1>1. CASE WriterHeader
  BY <1>1, SMT DEF WriterHeader, Goto
<1>2. CASE WriterTop
  BY <1>2, SMT DEF WriterTop, Goto
<1>3. CASE WriterPop
  BY <1>3, SMT DEF WriterPop
<1>4. CASE WriterLaneDrained
  BY <1>4, SMT DEF WriterLaneDrained, NextLane, Goto, Lanes
<1>5. CASE WriterPoll
  <2>1. wpc' \in {"check", "top"}
    BY <1>5, Zenon DEF WriterPoll, Goto
  <2>2. term' \in BOOLEAN /\ drained' \in BOOLEAN
    BY <1>5, Zenon DEF WriterPoll
  <2>3. QED
    BY <1>5, <2>1, <2>2, Zenon DEF WriterPoll
<1>6. CASE WriterCheck
  BY <1>6, SMT DEF WriterCheck, Goto, Lanes
<1>7. CASE WriterExit
  BY <1>7, SMT DEF WriterExit, Goto
<1>8. CASE WriterTerminal
  <2>1. termSeq' \in Nat
    <3>1. written[0] \in Nat /\ failedOrDiscarded[0] \in Nat /\ full[0] \in Nat
          /\ disconnected[0] \in Nat /\ reentrant[0] \in Nat
      BY Zenon DEF LogTypeOK, ProducersTypeOK
    <3>2. TerminalSequence \in Nat
      BY <3>1, SMT DEF TerminalSequence, Drops
    <3>3. termSeq' = TerminalSequence \/ termSeq' = 0
      BY <1>8, Zenon DEF WriterTerminal
    <3>4. QED
      BY <3>2, <3>3, SMT
  <2>2. QED
    BY <1>8, <2>1, Zenon DEF WriterTerminal, Goto
<1>9. CASE WriterFooterLane
  BY <1>9, SMT DEF WriterFooterLane, Goto, Lanes
<1>10. CASE WriterFooter
  BY <1>10, SMT DEF WriterFooter, Goto, Disposition, Verdicts
<1>11. CASE WriterSync
  BY <1>11, SMT DEF WriterSync, SyncError, Goto, Verdicts
<1>12. CASE WriterRename
  <2>1. wpc' \in {"report", "unlink"} /\ verdict' \in {verdict, "incomplete"}
    BY <1>12, Zenon DEF WriterRename, Goto
  <2>2. names' \in SUBSET Names
    BY <1>12, Zenon DEF NamedVerdict, WriterRename, Names
  <2>3. QED
    BY <1>12, <2>1, <2>2, Zenon DEF WriterRename, Verdicts
<1>13. CASE WriterUnlink
  BY <1>13, SMT DEF WriterUnlink, UnlinkError, Goto, Verdicts
<1>14. CASE WriterReturn
  BY <1>14, Zenon DEF WriterReturn, Goto
<1>15. CASE WriterSend
  BY <1>15, SMT DEF WriterSend, WriterEnds, Goto
<1>16. CASE WriterDies
  BY <1>16, Zenon DEF WriterDies, Goto
<1>17. CASE NoteUnbound
  BY <1>17, SMT DEF NoteUnbound, writerVars
<1>18. CASE WriterEnds
  BY <1>18, Zenon DEF WriterEnds, Goto
<1>19. CASE UNCHANGED <<writerVars, defects>>
  BY <1>19, Zenon DEF writerVars
<1>20. QED
  BY <1>1, <1>2, <1>3, <1>4, <1>5, <1>6, <1>7, <1>8, <1>9, <1>10, <1>11, <1>12, <1>13,
     <1>14, <1>15, <1>16, <1>17, <1>18, <1>19, Zenon
     DEF Next, Producer, Writer, vars, EmitBegin, EmitReentrant, EmitPush, EmitRefused,
         Finish, FinishReceives, FinishJoins, FinishTimesOut, DropSession

LEMMA LogType ==
  ASSUME ProducersTypeOK, RingsTypeOK, cur \in Lanes, LogTypeOK, [Next]_vars
  PROVE  LogTypeOK'
<1> USE DEF LogTypeOK
<1>1. CASE WriterPop
  <2>1. Head(ring[cur]) \in Nat
    <3>1. ring[cur] \in Seq(Nat) /\ ring[cur] # <<>>
      BY <1>1, Zenon DEF RingsTypeOK, WriterPop
    <3>2. QED
      BY <3>1, HeadTailProperties
  <2>2. CASE /\ written' = [written EXCEPT ![cur] = @ + 1]
             /\ disk' = [disk EXCEPT ![cur] = Append(@, Head(ring[cur]))]
             /\ UNCHANGED failedOrDiscarded
    <3>1. written[cur] + 1 \in Nat
      BY SMT
    <3>2. Append(disk[cur], Head(ring[cur])) \in Seq(Nat)
      BY <2>1, AppendProperties
    <3>3. QED
      BY <2>2, <3>1, <3>2, Zenon
  <2>3. CASE failedOrDiscarded' = CountDiscarded(cur) /\ UNCHANGED <<written, disk>>
    <3>1. failedOrDiscarded[cur] + 1 \in Nat
      BY SMT
    <3>2. QED
      BY <2>3, <3>1, Zenon DEF CountDiscarded
  <2>4. QED
    BY <1>1, <2>2, <2>3, Zenon DEF WriterPop
<1>2. CASE UNCHANGED <<written, failedOrDiscarded, disk>>
  BY <1>2, Zenon
<1>3. QED
  BY <1>1, <1>2, Zenon
     DEF Next, Producer, Writer, vars, writerVars, EmitBegin, EmitReentrant, EmitPush,
         EmitRefused, NoteUnbound, WriterHeader, WriterTop, WriterLaneDrained,
         WriterPoll, WriterCheck, WriterExit, WriterTerminal, WriterFooterLane,
         WriterFooter, WriterSync, WriterRename, WriterUnlink, WriterReturn, WriterSend,
         WriterEnds, WriterDies, Finish, FinishReceives, FinishJoins, FinishTimesOut,
         DropSession

\* What the report says of a lane are numbers, whatever the lane.
LEMMA NumbersType ==
  ASSUME ProducersTypeOK, LogTypeOK, NEW l \in Lanes
  PROVE  Numbers(l) \in [attempted : Nat, accepted : Nat, written : Nat,
                         dropped : Nat, failed : Nat]
<1>1. /\ written[l] \in Nat /\ failedOrDiscarded[l] \in Nat
      /\ full[l] \in Nat /\ disconnected[l] \in Nat /\ reentrant[l] \in Nat
  BY Zenon DEF ProducersTypeOK, LogTypeOK
<1>2. QED
  BY <1>1, SMT DEF Numbers, Drops

LEMMA FileType ==
  ASSUME ProducersTypeOK, LogTypeOK, NamedVerdict, cur \in Lanes, FileTypeOK, [Next]_vars
  PROVE  FileTypeOK'
<1> DEFINE R == [attempted : Nat, accepted : Nat, written : Nat, dropped : Nat, failed : Nat]
           T == [terminal : BOOLEAN, lanes : SUBSET Lanes,
                 footer : Verdicts \cup {"none"}, synced : BOOLEAN]
<1>1. rep \in [Lanes -> R] /\ trailer \in T
  BY DEF FileTypeOK
<1>2. rep' \in [Lanes -> R]
  <2>1. CASE WriterFooterLane
    <3>1. rep' = [rep EXCEPT ![cur] = Numbers(cur)]
      BY <2>1, Zenon DEF WriterFooterLane
    <3>2. Numbers(cur) \in R
      BY NumbersType
    <3> HIDE DEF R
    <3>3. QED
      BY <1>1, <3>1, <3>2, Zenon
  <2>2. CASE UNCHANGED rep
    BY <1>1, <2>2, Zenon
  <2>3. QED
    BY <2>1, <2>2, Zenon
       DEF Next, Producer, Writer, vars, writerVars, EmitBegin, EmitReentrant, EmitPush,
           EmitRefused, NoteUnbound, WriterHeader, WriterTop, WriterPop,
           WriterLaneDrained, WriterPoll, WriterCheck, WriterExit, WriterTerminal,
           WriterFooter, WriterSync, WriterRename, WriterUnlink, WriterReturn,
           WriterSend, WriterEnds, WriterDies, Finish, FinishReceives, FinishJoins,
           FinishTimesOut, DropSession
<1>3. trailer' \in T
  <2>1. CASE WriterTerminal
    <3>1. PICK ok \in BOOLEAN : trailer' = [trailer EXCEPT !.terminal = ok]
      BY <2>1, Zenon DEF WriterTerminal
    <3>2. QED
      BY <1>1, <3>1, Zenon
  <2>2. CASE WriterFooterLane
    <3>1. trailer' = [trailer EXCEPT !.lanes = trailer.lanes \cup {cur}] \/ UNCHANGED trailer
      BY <2>2, Zenon DEF WriterFooterLane
    <3>2. trailer.lanes \cup {cur} \in SUBSET Lanes
      BY <1>1, Zenon
    <3>3. QED
      BY <1>1, <3>1, <3>2, Zenon
  <2>3. CASE WriterFooter
    <3>1. trailer' = [trailer EXCEPT !.footer = Disposition] \/ UNCHANGED trailer
      BY <2>3, Zenon DEF WriterFooter
    <3>2. Disposition \in Verdicts \cup {"none"}
      BY Zenon DEF Disposition, Verdicts
    <3>3. QED
      BY <1>1, <3>1, <3>2, Zenon
  <2>4. CASE WriterSync
    <3>1. trailer' = [trailer EXCEPT !.synced = TRUE] \/ UNCHANGED trailer
      BY <2>4, Zenon DEF WriterSync, SyncError
    <3>2. QED
      BY <1>1, <3>1, Zenon
  <2>5. CASE UNCHANGED trailer
    BY <1>1, <2>5, Zenon
  <2>6. QED
    BY <2>1, <2>2, <2>3, <2>4, <2>5, Zenon
       DEF Next, Producer, Writer, vars, writerVars, EmitBegin, EmitReentrant, EmitPush,
           EmitRefused, NoteUnbound, WriterHeader, WriterTop, WriterPop,
           WriterLaneDrained, WriterPoll, WriterCheck, WriterExit, WriterRename,
           WriterUnlink, WriterReturn, WriterSend, WriterEnds, WriterDies, Finish,
           FinishReceives, FinishJoins, FinishTimesOut, DropSession
<1>4. QED
  BY <1>2, <1>3 DEF FileTypeOK

LEMMA InitType == Init => TypeOK /\ NamedVerdict /\ ReportFromTheGone
<1> SUFFICES ASSUME Init PROVE TypeOK /\ NamedVerdict /\ ReportFromTheGone
  OBVIOUS
<1>1. ProducersTypeOK
  BY SMT DEF Init, ProducersTypeOK
<1>2. RingsTypeOK
  BY Parameters, SMT DEF Init, RingsTypeOK
<1>3. WriterTypeOK
  <2>1. 0 \in 0..DrainBurst /\ 0 \in Nat
    BY Parameters, SMT
  <2>2. QED
    BY <2>1, Parameters, Zenon DEF Init, WriterTypeOK, Verdicts, Names
<1>4. LogTypeOK
  BY SMT DEF Init, LogTypeOK
<1>5. FileTypeOK
  BY SMT DEF Init, FileTypeOK, ZeroNumbers, EmptyTrailer
<1>6. sink \in Sinks
  BY Parameters, SMT DEF Init, Sinks
<1>7. SessionTypeOK /\ NamedVerdict /\ ReportFromTheGone
  BY Zenon DEF Init, SessionTypeOK, NamedVerdict, ReportFromTheGone
<1>8. QED
  BY <1>1, <1>2, <1>3, <1>4, <1>5, <1>6, <1>7 DEF TypeOK

LEMMA ReportStep ==
  ASSUME ReportFromTheGone, SessionTypeOK, [Next]_vars
  PROVE  ReportFromTheGone'
<1> USE DEF ReportFromTheGone
<1>1. CASE FinishReceives
  BY <1>1, Zenon DEF FinishReceives, writerVars
<1>2. CASE FinishJoins
  BY <1>2, Zenon DEF FinishJoins, WriterGone, writerVars
<1>3. CASE FinishTimesOut
  <2>1. result'.timedOut = TRUE
    BY <1>3, Zenon DEF FinishTimesOut, TimeoutReport
  <2>2. QED
    BY <1>3, <2>1, Zenon DEF FinishTimesOut, writerVars
<1>4. CASE Finish \/ DropSession
  BY <1>4, Zenon DEF Finish, DropSession, writerVars
<1>5. CASE WriterSend
  BY <1>5, Zenon DEF WriterSend, Goto, sessionVars
<1>6. CASE WriterEnds \/ WriterDies
  BY <1>6, Zenon DEF WriterEnds, WriterDies, Goto, sessionVars
<1>7. CASE wpc \notin {"ends", "gone", "panicked"} /\ UNCHANGED <<completion, result, spc>>
  BY <1>7, Zenon
<1>8. CASE UNCHANGED <<wpc, completion, result, spc>>
  BY <1>8, Zenon
<1>9. QED
  BY <1>1, <1>2, <1>3, <1>4, <1>5, <1>6, <1>7, <1>8, Zenon
     DEF Next, Producer, Writer, vars, writerVars, sessionVars, EmitBegin, EmitReentrant,
         EmitPush, EmitRefused, NoteUnbound, WriterHeader, WriterTop, WriterPop,
         WriterLaneDrained, WriterPoll, WriterCheck, WriterExit, WriterTerminal,
         WriterFooterLane, WriterFooter, WriterSync, WriterRename, WriterUnlink,
         WriterReturn

LEMMA TypeStep ==
  ASSUME TypeOK, NamedVerdict, ReportFromTheGone, [Next]_vars
  PROVE  TypeOK' /\ NamedVerdict' /\ ReportFromTheGone'
<1>1. /\ ProducersTypeOK /\ RingsTypeOK /\ WriterTypeOK /\ LogTypeOK /\ FileTypeOK
      /\ sink \in Sinks /\ SessionTypeOK /\ cur \in Lanes
      /\ verdict \in Verdicts \cup {"abandoned"}
  BY DEF TypeOK, WriterTypeOK
<1>2. QED
  BY <1>1, ProducersType, RingsType, WriterType, LogType, FileType, SinkType, SessionType,
     NamedVerdictStep, ReportStep, Zenon DEF TypeOK

\* Every reachable state is well typed; no ring exceeds its capacity and the
\* file never exceeds its byte cap, whatever the producers and the file system do.
THEOREM TypeCorrect == Spec => []TypeOK
<1>1. Spec => [](TypeOK /\ NamedVerdict /\ ReportFromTheGone)
  BY InitType, TypeStep, PTL DEF Spec
<1>2. QED
  BY <1>1, PTL
-----------------------------------------------------------------------------
(* Conservation: nothing a lane numbered is lost or doubled. *)

Waiting(l) == Len(ring[l])

LEMMA ConservationStep ==
  ASSUME TypeOK, LaneConservation, [Next]_vars
  PROVE  LaneConservation'
<1> DEFINE Conserved(l) ==
      seq[l] = written[l] + failedOrDiscarded[l] + Waiting(l)
               + full[l] + disconnected[l] + InFlight(l)
<1>1. SUFFICES ASSUME NEW l \in Lanes PROVE Conserved(l)'
  BY DEF LaneConservation, Waiting
<1>2. Conserved(l)
  BY DEF LaneConservation, Waiting
<1>3. /\ seq \in [Lanes -> Nat] /\ full \in [Lanes -> Nat] /\ disconnected \in [Lanes -> Nat]
      /\ emitPc \in [Lanes -> {"idle", "push", "full"}]
      /\ written \in [Lanes -> Nat] /\ failedOrDiscarded \in [Lanes -> Nat]
      /\ ring \in [Lanes -> Seq(Nat)] /\ cur \in Lanes
  BY Zenon DEF TypeOK, ProducersTypeOK, RingsTypeOK, WriterTypeOK, LogTypeOK
<1>4. /\ seq[l] \in Nat /\ full[l] \in Nat /\ disconnected[l] \in Nat
      /\ written[l] \in Nat /\ failedOrDiscarded[l] \in Nat
      /\ Waiting(l) \in Nat
  BY <1>3, LenProperties, Zenon DEF Waiting
<1>a. InFlight(l) = IF emitPc[l] = "idle" THEN 0 ELSE 1
  BY DEF InFlight
<1>b. InFlight(l)' = IF emitPc'[l] = "idle" THEN 0 ELSE 1
  BY DEF InFlight
<1>5. ASSUME NEW k \in Lanes, EmitBegin(k) PROVE Conserved(l)'
  <2>1. UNCHANGED <<ring, full, disconnected, written, failedOrDiscarded>>
    BY <1>5, Zenon DEF EmitBegin, writerVars
  <2>2. CASE k = l
    <3>1. seq'[l] = seq[l] + 1 /\ emitPc[l] = "idle" /\ emitPc'[l] = "push"
      BY <1>3, <1>5, <2>2, Zenon DEF EmitBegin
    <3>2. InFlight(l) = 0 /\ InFlight(l)' = 1 /\ Waiting(l)' = Waiting(l)
      BY <1>a, <1>b, <2>1, <3>1 DEF Waiting
    <3>3. QED
      BY <1>2, <1>4, <2>1, <3>1, <3>2, SMT
  <2>3. CASE k # l
    <3>1. seq'[l] = seq[l] /\ emitPc'[l] = emitPc[l]
      BY <1>3, <1>5, <2>3, Zenon DEF EmitBegin
    <3>2. QED
      BY <1>2, <2>1, <3>1, Zenon DEF InFlight, Waiting
  <2>4. QED
    BY <2>2, <2>3
<1>6. ASSUME NEW k \in Lanes, EmitPush(k) PROVE Conserved(l)'
  <2>1. UNCHANGED <<seq, full, disconnected, written, failedOrDiscarded>>
    BY <1>6, Zenon DEF EmitPush, writerVars
  <2>2. CASE k # l
    <3>1. ring'[l] = ring[l] /\ emitPc'[l] = emitPc[l]
      BY <1>3, <1>6, <2>2, Zenon DEF EmitPush
    <3>2. QED
      BY <1>2, <2>1, <3>1, Zenon DEF InFlight, Waiting
  <2>3. CASE k = l /\ ring'[l] = Append(ring[l], seq[l]) /\ emitPc'[l] = "idle" /\ emitPc[l] = "push"
    <3>1. Waiting(l)' = Waiting(l) + 1
      BY <1>3, <2>3, AppendProperties DEF Waiting
    <3>2. InFlight(l) = 1 /\ InFlight(l)' = 0
      BY <1>a, <1>b, <2>3
    <3>3. QED
      BY <1>2, <1>4, <2>1, <3>1, <3>2, SMT
  <2>4. CASE k = l /\ ring'[l] = ring[l] /\ emitPc'[l] = "full" /\ emitPc[l] = "push"
    BY <1>2, <2>1, <2>4, Zenon DEF InFlight, Waiting
  <2>5. QED
    BY <1>3, <1>6, <2>2, <2>3, <2>4, Zenon DEF EmitPush
<1>7. ASSUME NEW k \in Lanes, EmitRefused(k) PROVE Conserved(l)'
  <2>1. UNCHANGED <<seq, ring, written, failedOrDiscarded>>
    BY <1>7, Zenon DEF EmitRefused, writerVars
  <2>2. emitPc' = [emitPc EXCEPT ![k] = "idle"] /\ emitPc[k] = "full"
    BY <1>7, Zenon DEF EmitRefused
  <2>3. \/ full' = [full EXCEPT ![k] = @ + 1] /\ UNCHANGED disconnected
        \/ disconnected' = [disconnected EXCEPT ![k] = @ + 1] /\ UNCHANGED full
    BY <1>7, Zenon DEF EmitRefused
  <2>4. CASE k = l
    <3>1. \/ full'[l] = full[l] + 1 /\ disconnected'[l] = disconnected[l]
          \/ disconnected'[l] = disconnected[l] + 1 /\ full'[l] = full[l]
      BY <1>3, <2>3, <2>4, Zenon
    <3>2. emitPc[l] = "full" /\ emitPc'[l] = "idle"
      BY <1>3, <2>2, <2>4, Zenon
    <3>3. InFlight(l) = 1 /\ InFlight(l)' = 0 /\ Waiting(l)' = Waiting(l)
      BY <1>a, <1>b, <2>1, <3>2 DEF Waiting
    <3>4. QED
      BY <1>2, <1>4, <2>1, <3>1, <3>3, SMT
  <2>5. CASE k # l
    <3>1. full'[l] = full[l] /\ disconnected'[l] = disconnected[l] /\ emitPc'[l] = emitPc[l]
      BY <1>3, <2>2, <2>3, <2>5, Zenon
    <3>2. QED
      BY <1>2, <2>1, <3>1, Zenon DEF InFlight, Waiting
  <2>6. QED
    BY <2>4, <2>5
<1>8. CASE WriterPop
  <2>1. UNCHANGED <<emitPc, seq, full, disconnected>>
    BY <1>8, Zenon DEF WriterPop, producerVars
  <2>2. ring' = [ring EXCEPT ![cur] = Tail(@)] /\ ring[cur] # <<>>
    BY <1>8, Zenon DEF WriterPop
  <2>3. \/ written' = [written EXCEPT ![cur] = @ + 1] /\ UNCHANGED failedOrDiscarded
        \/ failedOrDiscarded' = [failedOrDiscarded EXCEPT ![cur] = @ + 1] /\ UNCHANGED written
    BY <1>8, Zenon DEF WriterPop, CountDiscarded
  <2>4. CASE l = cur
    <3>1. Waiting(l)' = Waiting(l) - 1
      BY <1>3, <1>4, <2>2, <2>4, HeadTailProperties, Zenon DEF Waiting
    <3>2. \/ written'[l] = written[l] + 1 /\ failedOrDiscarded'[l] = failedOrDiscarded[l]
          \/ failedOrDiscarded'[l] = failedOrDiscarded[l] + 1 /\ written'[l] = written[l]
      BY <1>3, <2>3, <2>4, Zenon
    <3>3. InFlight(l)' = InFlight(l) /\ InFlight(l) \in Nat
      BY <2>1, SMT DEF InFlight
    <3>4. QED
      BY <1>2, <1>4, <2>1, <3>1, <3>2, <3>3, SMT
  <2>5. CASE l # cur
    <3>1. ring'[l] = ring[l] /\ written'[l] = written[l]
          /\ failedOrDiscarded'[l] = failedOrDiscarded[l]
      BY <1>3, <2>2, <2>3, <2>5, Zenon
    <3>2. QED
      BY <1>2, <2>1, <3>1, Zenon DEF InFlight, Waiting
  <2>6. QED
    BY <2>4, <2>5
<1>9. CASE UNCHANGED <<emitPc, seq, ring, full, disconnected, written, failedOrDiscarded>>
  BY <1>2, <1>9, Zenon DEF InFlight, Waiting
<1>10. QED
  BY <1>5, <1>6, <1>7, <1>8, <1>9, Zenon
     DEF Next, Producer, Writer, vars, producerVars, writerVars, EmitReentrant,
         NoteUnbound, WriterHeader, WriterTop, WriterLaneDrained, WriterPoll,
         WriterCheck, WriterExit, WriterTerminal, WriterFooterLane, WriterFooter,
         WriterSync, WriterRename, WriterUnlink, WriterReturn, WriterSend, WriterEnds,
         WriterDies, Finish, FinishReceives, FinishJoins, FinishTimesOut, DropSession

\* At every instant each record a lane numbered is in exactly one place: in
\* emit, in the ring, dropped and counted, written, or discarded and counted.
THEOREM Conservation == Spec => []LaneConservation
<1>1. Init => LaneConservation
  BY SMT DEF Init, LaneConservation, InFlight
<1>2. QED
  BY <1>1, InitType, TypeStep, ConservationStep, TypeCorrect, PTL DEF Spec
-----------------------------------------------------------------------------
(* The abandon flag. *)

BeforeSecondLook == {"header", "top", "drain", "poll", "check", "exit"}

\* The directory has only the open name until the file is renamed.
OpenUntilRename ==
  wpc \in BeforeSecondLook \cup {"terminal", "footers", "footer", "sync", "rename"}
    => names = {"open"}

\* An abandoned writer that has not looked for the second time, or has given up.
GivesUp ==
  /\ abandon /\ names = {"open"}
  /\ wpc \in BeforeSecondLook \cup {"report", "send", "ends", "gone", "panicked"}

LEMMA OpenUntilRenameStep ==
  ASSUME OpenUntilRename, [Next]_vars
  PROVE  OpenUntilRename'
<1> USE DEF OpenUntilRename, BeforeSecondLook, Goto
<1>1. CASE WriterTop
  BY <1>1, Zenon DEF WriterTop
<1>2. CASE WriterLaneDrained
  BY <1>2, Zenon DEF WriterLaneDrained, NextLane
<1>3. CASE WriterPoll
  BY <1>3, Zenon DEF WriterPoll
<1>4. CASE WriterCheck
  BY <1>4, Zenon DEF WriterCheck
<1>5. CASE WriterExit
  BY <1>5, Zenon DEF WriterExit
<1>6. CASE WriterHeader \/ WriterTerminal \/ WriterFooterLane
  BY <1>6, Zenon DEF WriterHeader, WriterTerminal, WriterFooterLane
<1>7. CASE WriterFooter \/ WriterSync
  BY <1>7, Zenon DEF WriterFooter, WriterSync, SyncError
<1>8. CASE wpc' \in {"report", "unlink", "send", "ends", "gone", "panicked"}
  BY <1>8, Zenon
<1>9. CASE UNCHANGED <<wpc, names>>
  BY <1>9, Zenon
<1>10. QED
  BY <1>1, <1>2, <1>3, <1>4, <1>5, <1>6, <1>7, <1>8, <1>9, Zenon
     DEF Next, Producer, Writer, vars, writerVars, EmitBegin, EmitReentrant, EmitPush,
         EmitRefused, NoteUnbound, WriterPop, WriterRename, WriterUnlink, WriterReturn,
         WriterSend, WriterEnds, WriterDies, Finish, FinishReceives, FinishJoins,
         FinishTimesOut, DropSession

LEMMA GivesUpStep ==
  ASSUME GivesUp, [Next]_vars
  PROVE  GivesUp'
<1> USE DEF GivesUp, BeforeSecondLook, Goto
<1>1. CASE WriterHeader \/ WriterTop \/ WriterPop
  BY <1>1, Zenon DEF WriterHeader, WriterTop, WriterPop, sessionVars
<1>2. CASE WriterLaneDrained \/ WriterPoll
  BY <1>2, Zenon DEF WriterLaneDrained, NextLane, WriterPoll, sessionVars
<1>3. CASE WriterCheck
  BY <1>3, Zenon DEF WriterCheck, sessionVars
<1>4. CASE WriterExit
  BY <1>4, Zenon DEF WriterExit, WriterGivesUp, sessionVars
<1>5. CASE WriterTerminal \/ WriterFooterLane \/ WriterFooter \/ WriterSync
           \/ WriterRename \/ WriterUnlink
  BY <1>5, Zenon DEF WriterTerminal, WriterFooterLane, WriterFooter, WriterSync,
                     WriterRename, WriterUnlink
<1>6. CASE WriterReturn \/ WriterSend \/ WriterEnds \/ WriterDies
  BY <1>6, Zenon DEF WriterReturn, WriterSend, WriterEnds, WriterDies, sessionVars
<1>7. CASE Finish \/ FinishReceives \/ FinishJoins \/ FinishTimesOut \/ DropSession
  BY <1>7, Zenon DEF Finish, FinishReceives, FinishJoins, FinishTimesOut, DropSession, writerVars
<1>8. CASE UNCHANGED <<writerVars, sessionVars>>
  BY <1>8, Zenon DEF writerVars, sessionVars
<1>9. QED
  BY <1>1, <1>2, <1>3, <1>4, <1>5, <1>6, <1>7, <1>8, Zenon
     DEF Next, Producer, Writer, vars, EmitBegin, EmitReentrant, EmitPush, EmitRefused,
         NoteUnbound

\* A writer abandoned before its second look at the flag, by a timeout or by a
\* command that dropped its session, leaves the .open name for ever.
THEOREM Abandoned == Spec => AbandonedStaysOpen
<1>1. Init => OpenUntilRename
  BY Zenon DEF Init, OpenUntilRename, BeforeSecondLook
<1>2. OpenUntilRename /\ abandon /\ wpc \in BeforeSecondLook => GivesUp
  BY Zenon DEF OpenUntilRename, GivesUp
<1>3. GivesUp => names = {"open"}
  BY DEF GivesUp
<1>4. Spec => []OpenUntilRename
  BY <1>1, OpenUntilRenameStep, PTL DEF Spec
<1>5. QED
  BY <1>2, <1>3, <1>4, GivesUpStep, PTL DEF Spec, AbandonedStaysOpen, BeforeSecondLook
-----------------------------------------------------------------------------
(* The report. *)

\* A writer that has sent its report has left the file.
LEMMA GoneIsGone ==
  ASSUME wpc \in {"ends", "gone", "panicked"}, [Next]_vars
  PROVE  UNCHANGED <<disk, trailer, names>>
BY Zenon
   DEF Next, Producer, Writer, vars, writerVars, EmitBegin, EmitReentrant, EmitPush,
       EmitRefused, NoteUnbound, WriterHeader, WriterTop, WriterPop, WriterLaneDrained,
       WriterPoll, WriterCheck, WriterExit, WriterTerminal, WriterFooterLane,
       WriterFooter, WriterSync, WriterRename, WriterUnlink, WriterReturn, WriterSend,
       WriterEnds, WriterDies, Finish, FinishReceives, FinishJoins, FinishTimesOut,
       DropSession

\* Once finish has returned a report that did not time out, nothing touches the
\* file or its name: no straggling writer rewrites what the command was told.
THEOREM ReportFinal == Spec => ReportIsFinal
<1>1. Spec => [](TypeOK /\ NamedVerdict /\ ReportFromTheGone)
  BY InitType, TypeStep, PTL DEF Spec
<1>2. ReportFromTheGone /\ [Next]_vars
        => [result # Nothing /\ ~result.timedOut => UNCHANGED <<disk, trailer, names>>]_vars
  BY GoneIsGone, Zenon DEF ReportFromTheGone
<1>3. QED
  BY <1>1, <1>2, PTL DEF Spec, ReportIsFinal
-----------------------------------------------------------------------------
(* The reserve. *)

Draining == {"header", "top", "drain", "poll", "check", "exit", "terminal"}
EventBudget == ByteCap - Reserve

\* Events and heartbeats leave the reserve alone, and each line of the terminal
\* accounting takes one line of it: why AccountingFits is kept.
ReserveKept ==
  /\ wpc \in Draining => trailer.lanes = {} /\ sink.used <= EventBudget
  /\ wpc \in {"exit", "terminal"} => cur = 0
  /\ wpc = "footers" => sink.used <= EventBudget + 1 + cur
  /\ wpc = "footer" => sink.used <= EventBudget + 2 + Drivers

LEMMA UsedIsNat ==
  ASSUME NEW s \in Sinks
  PROVE  s.used \in Nat
<1>1. s.used \in 0..ByteCap
  BY Zenon DEF Sinks
<1>2. QED
  BY <1>1, SMT

LEMMA EventLine ==
  ASSUME sink \in Sinks, NEW long \in BOOLEAN, NEW ok \in BOOLEAN,
         SinkWrite(long, FALSE, ok), sink.used <= EventBudget
  PROVE  sink'.used <= EventBudget
<1>1. sink.used \in 0..ByteCap
  BY Zenon DEF Sinks
<1>2. CASE Fits(FALSE) /\ sink' = [sink EXCEPT !.used = @ + 1]
  <2>1. sink'.used = sink.used + 1
    BY <1>2, Zenon DEF Sinks
  <2>2. QED
    BY <1>1, <1>2, <2>1, Parameters, SMT DEF Fits, Allowed, EventBudget
<1>3. CASE sink'.used = sink.used
  BY <1>3
<1>4. QED
  BY <1>2, <1>3, Zenon DEF SinkWrite, SinkFails, Sinks

LEMMA FailureUsesNothing ==
  ASSUME sink \in Sinks, SinkFails
  PROVE  sink'.used = sink.used /\ sink'.failed
BY Zenon DEF SinkFails, Sinks

\* While the cap leaves room, a terminal line is written or the sink has failed.
LEMMA TerminalLine ==
  ASSUME sink \in Sinks, NEW ok \in BOOLEAN, SinkWrite(FALSE, TRUE, ok),
         sink.used + 1 <= ByteCap
  PROVE  /\ sink'.used <= sink.used + 1
         /\ sink'.failed \/ (ok /\ ~sink.failed)
<1>1. sink.used \in 0..ByteCap
  BY Zenon DEF Sinks
<1>2. Fits(TRUE)
  BY SMT DEF Fits, Allowed
<1>3. CASE sink.failed /\ UNCHANGED sink
  BY <1>1, <1>3, Parameters, SMT
<1>4. CASE ~sink.failed /\ ok /\ sink' = [sink EXCEPT !.used = @ + 1]
  <2>1. sink'.used = sink.used + 1
    BY <1>4, Zenon DEF Sinks
  <2>2. QED
    BY <1>1, <1>4, <2>1, Parameters, SMT
<1>5. CASE SinkFails
  BY <1>1, <1>5, FailureUsesNothing, Parameters, SMT
<1>6. QED
  BY <1>2, <1>3, <1>4, <1>5, Zenon DEF SinkWrite

LEMMA ReserveStep ==
  ASSUME TypeOK, ReserveKept, [Next]_vars
  PROVE  ReserveKept'
<1>1. /\ sink \in Sinks /\ cur \in Lanes /\ sink.used \in Nat
  BY UsedIsNat, Zenon DEF TypeOK, WriterTypeOK
<1>2. cur \in 0..Drivers /\ Drivers + 3 <= Reserve
  BY <1>1, TraceAssumption DEF Lanes
<1>3. EventBudget \in Nat /\ EventBudget + Reserve = ByteCap
  BY Parameters, SMT DEF EventBudget
<1> HIDE DEF EventBudget
<1> USE DEF ReserveKept, Draining, Goto
<1>4. CASE WriterHeader
  BY <1>1, <1>4, EventLine, Zenon DEF WriterHeader
<1>5. CASE WriterPop
  <2>1. PICK ok \in BOOLEAN : SinkWrite(Head(ring[cur]) \in LongEvents, FALSE, ok)
    BY <1>5, Zenon DEF WriterPop
  <2>2. (Head(ring[cur]) \in LongEvents) \in BOOLEAN
    OBVIOUS
  <2>3. sink'.used <= EventBudget
    BY <1>1, <1>5, <2>1, <2>2, EventLine, Zenon DEF WriterPop
  <2>4. QED
    BY <1>5, <2>3, Zenon DEF WriterPop
<1>6. CASE WriterPoll
  <2>1. sink'.used <= EventBudget
    BY <1>1, <1>6, EventLine, FailureUsesNothing, Zenon DEF WriterPoll
  <2>2. QED
    BY <1>6, <2>1, Zenon DEF WriterPoll
<1>7. CASE WriterTop \/ WriterCheck \/ WriterExit
  BY <1>7, Zenon DEF WriterTop, WriterCheck, WriterExit
<1>8. CASE WriterLaneDrained
  BY <1>8, Zenon DEF WriterLaneDrained, NextLane
<1>9. CASE WriterTerminal
  <2>1. PICK ok \in BOOLEAN : SinkWrite(FALSE, TRUE, ok)
    BY <1>9, Zenon DEF WriterTerminal
  <2>2. sink.used <= EventBudget /\ cur = 0 /\ wpc' = "footers" /\ cur' = cur
    BY <1>9, Zenon DEF WriterTerminal
  <2>3. sink.used + 1 <= ByteCap
    BY <1>1, <1>2, <1>3, <2>2, Parameters, SMT
  <2>4. sink'.used <= sink.used + 1
    BY <1>1, <2>1, <2>3, TerminalLine
  <2>5. sink' \in Sinks
    BY <1>1, SinkType
  <2>6. sink'.used \in Nat
    BY <2>5, UsedIsNat
  <2>7. sink'.used <= EventBudget + 1 + cur'
    BY <1>1, <1>3, <2>2, <2>4, <2>6, SMT
  <2>8. QED
    BY <2>2, <2>7, Zenon
<1>10. CASE WriterFooterLane
  <2>1. PICK ok \in BOOLEAN : SinkWrite(FALSE, TRUE, ok)
    BY <1>10, Zenon DEF WriterFooterLane
  <2>2. sink.used <= EventBudget + 1 + cur
    BY <1>10, Zenon DEF WriterFooterLane
  <2>3. sink.used + 1 <= ByteCap
    BY <1>1, <1>2, <1>3, <2>2, Parameters, SMT
  <2>4. sink'.used <= sink.used + 1
    BY <1>1, <2>1, <2>3, TerminalLine
  <2>5. sink' \in Sinks
    BY <1>1, SinkType
  <2>6. sink'.used \in Nat
    BY <2>5, UsedIsNat
  <2>7. CASE cur < Drivers /\ cur' = cur + 1 /\ wpc' = "footers"
    <3>1. sink'.used <= EventBudget + 1 + cur'
      BY <1>1, <1>2, <1>3, <2>2, <2>4, <2>6, <2>7, SMT
    <3>2. QED
      BY <2>7, <3>1, Zenon
  <2>8. CASE wpc' = "footer"
    <3>1. sink'.used <= EventBudget + 2 + Drivers
      BY <1>1, <1>2, <1>3, <2>2, <2>4, <2>6, Parameters, SMT
    <3>2. QED
      BY <2>8, <3>1, Zenon
  <2>9. QED
    BY <1>10, <2>7, <2>8, Zenon DEF WriterFooterLane
<1>11. CASE wpc' \in {"sync", "rename", "unlink", "report", "send", "ends", "gone", "panicked"}
  BY <1>11, Zenon
<1>12. CASE UNCHANGED <<wpc, sink, cur, trailer>>
  BY <1>12, Zenon
<1>13. QED
  BY <1>4, <1>5, <1>6, <1>7, <1>8, <1>9, <1>10, <1>11, <1>12, Zenon
     DEF Next, Producer, Writer, vars, writerVars, EmitBegin, EmitReentrant, EmitPush,
         EmitRefused, NoteUnbound, WriterFooter, WriterSync, SyncError, WriterRename,
         WriterUnlink, WriterReturn, WriterSend, WriterEnds, WriterDies, Finish,
         FinishReceives, FinishJoins, FinishTimesOut, DropSession

LEMMA AccountingStep ==
  ASSUME TypeOK, ReserveKept, AccountingFits, [Next]_vars
  PROVE  AccountingFits'
<1>1. /\ sink \in Sinks /\ cur \in Lanes /\ sink.used \in Nat
  BY UsedIsNat, Zenon DEF TypeOK, WriterTypeOK
<1>2. cur \in 0..Drivers /\ Drivers + 3 <= Reserve
  BY <1>1, TraceAssumption DEF Lanes
<1>3. EventBudget \in Nat /\ EventBudget + Reserve = ByteCap
  BY Parameters, SMT DEF EventBudget
<1>4. trailer \in [terminal : BOOLEAN, lanes : SUBSET Lanes,
                   footer : Verdicts \cup {"none"}, synced : BOOLEAN]
  BY Zenon DEF TypeOK, FileTypeOK
<1> HIDE DEF EventBudget
<1> USE DEF AccountingFits, Goto
<1>5. CASE WriterTerminal
  <2>1. PICK ok \in BOOLEAN : /\ SinkWrite(FALSE, TRUE, ok)
                              /\ trailer' = [trailer EXCEPT !.terminal = ok]
    BY <1>5, Zenon DEF WriterTerminal
  <2>2. sink.used <= EventBudget /\ cur = 0 /\ cur' = cur /\ trailer.lanes = {}
        /\ wpc' = "footers"
    BY <1>5, Zenon DEF WriterTerminal, ReserveKept, Draining
  <2>3. sink.used + 1 <= ByteCap
    BY <1>1, <1>2, <1>3, <2>2, Parameters, SMT
  <2>4. sink'.failed \/ ok
    BY <1>1, <2>1, <2>3, TerminalLine
  <2>5. {l \in Lanes : l < 0} = {}
    BY SMT DEF Lanes
  <2>6. trailer'.terminal = ok /\ trailer'.lanes = {}
    BY <1>4, <2>1, <2>2, Zenon
  <2>7. QED
    BY <2>2, <2>4, <2>5, <2>6, Zenon
<1>6. CASE WriterFooterLane
  <2>1. PICK ok \in BOOLEAN :
          /\ SinkWrite(FALSE, TRUE, ok)
          /\ trailer' = IF ok THEN [trailer EXCEPT !.lanes = @ \cup {cur}] ELSE trailer
    BY <1>6, Zenon DEF WriterFooterLane
  <2>2. sink.used <= EventBudget + 1 + cur /\ wpc = "footers"
    BY <1>6, Zenon DEF WriterFooterLane, ReserveKept
  <2>3. sink.used + 1 <= ByteCap
    BY <1>1, <1>2, <1>3, <2>2, Parameters, SMT
  <2>4. sink'.failed \/ (ok /\ ~sink.failed)
    BY <1>1, <2>1, <2>3, TerminalLine
  <2>5. SUFFICES ASSUME ok, ~sink.failed PROVE AccountingFits'
    BY <1>6, <2>4, Zenon DEF WriterFooterLane
  <2>6. trailer.terminal /\ trailer.lanes = {l \in Lanes : l < cur}
    BY <2>2, <2>5, Zenon
  <2>7. trailer'.terminal /\ trailer'.lanes = {l \in Lanes : l < cur} \cup {cur}
    BY <1>4, <2>1, <2>5, <2>6, Zenon
  <2>8. {l \in Lanes : l < cur} \cup {cur} = {l \in Lanes : l < cur + 1}
    BY <1>1, <1>2, SMT DEF Lanes
  <2>9. CASE cur < Drivers /\ cur' = cur + 1 /\ wpc' = "footers"
    BY <2>7, <2>8, <2>9, Zenon
  <2>10. CASE ~(cur < Drivers) /\ wpc' = "footer"
    <3>1. {l \in Lanes : l < cur + 1} = Lanes
      BY <1>2, <2>10, Parameters, SMT DEF Lanes
    <3>2. QED
      BY <2>7, <2>8, <2>10, <3>1, Zenon
  <2>11. QED
    BY <1>6, <2>2, <2>9, <2>10, Zenon DEF WriterFooterLane
<1>7. CASE WriterFooter
  <2>1. PICK ok \in BOOLEAN :
          /\ SinkWrite(FALSE, TRUE, ok)
          /\ ok => trailer' = [trailer EXCEPT !.footer = Disposition] /\ wpc' = "sync"
          /\ ~ok => wpc' = "report"
    BY <1>7, Zenon DEF WriterFooter
  <2>2. sink.used <= EventBudget + 2 + Drivers /\ wpc = "footer"
    BY <1>7, Zenon DEF WriterFooter, ReserveKept
  <2>3. sink.used + 1 <= ByteCap
    BY <1>1, <1>2, <1>3, <2>2, Parameters, SMT
  <2>4. sink'.failed \/ (ok /\ ~sink.failed)
    BY <1>1, <2>1, <2>3, TerminalLine
  <2>5. SUFFICES ASSUME ok, ~sink.failed PROVE AccountingFits'
    BY <2>1, <2>4, Zenon
  <2>6. trailer.terminal /\ trailer.lanes = Lanes
    BY <2>2, <2>5, Zenon
  <2>7. trailer'.terminal /\ trailer'.lanes = Lanes /\ trailer'.footer = Disposition
    BY <1>4, <2>1, <2>5, <2>6, Zenon
  <2>8. Disposition # "none"
    BY Zenon DEF Disposition
  <2>9. QED
    BY <2>1, <2>5, <2>7, <2>8, Zenon
<1>8. CASE WriterSync
  <2>1. CASE UNCHANGED sink /\ trailer' = [trailer EXCEPT !.synced = TRUE]
    <3>1. /\ trailer'.terminal = trailer.terminal /\ trailer'.lanes = trailer.lanes
          /\ trailer'.footer = trailer.footer
      BY <1>4, <2>1, Zenon
    <3>2. QED
      BY <1>8, <2>1, <3>1, Zenon DEF WriterSync, SyncError
  <2>2. QED
    BY <1>8, <2>1, Zenon DEF WriterSync, SyncError
<1>9. CASE wpc' \in {"header", "top", "drain", "poll", "check", "exit", "terminal",
                     "report", "send", "ends", "gone", "panicked"}
  BY <1>9, Zenon
<1>10. CASE WriterRename
  BY <1>10, Zenon DEF WriterRename
<1>11. CASE UNCHANGED <<wpc, sink, cur, trailer>>
  BY <1>11, Zenon
<1>12. CASE WriterPop
  BY <1>12, Zenon DEF WriterPop
<1>13. QED
  BY <1>5, <1>6, <1>7, <1>8, <1>9, <1>10, <1>11, <1>12, Zenon
     DEF Next, Producer, Writer, vars, writerVars, EmitBegin, EmitReentrant, EmitPush,
         EmitRefused, NoteUnbound, WriterHeader, WriterTop, WriterLaneDrained, NextLane,
         WriterPoll, WriterCheck, WriterExit, WriterUnlink, WriterReturn, WriterSend,
         WriterEnds, WriterDies, Finish, FinishReceives, FinishJoins, FinishTimesOut,
         DropSession

\* TERMINAL_RESERVE_BYTES does its work for every number of lanes and any cap:
\* a file system that did not fail has room for the whole terminal accounting.
THEOREM ReserveSuffices == Spec => []AccountingFits
<1>1. Init => ReserveKept /\ AccountingFits
  <2>1. ASSUME Init PROVE sink.used <= EventBudget
    <3>1. sink.used = 0
      BY <2>1, Zenon DEF Init
    <3>2. QED
      BY <3>1, Parameters, SMT DEF EventBudget
  <2>2. ASSUME Init PROVE wpc = "header" /\ trailer.lanes = {}
    BY <2>2, Zenon DEF Init, EmptyTrailer
  <2>3. QED
    BY <2>1, <2>2, Zenon DEF ReserveKept, AccountingFits
<1>2. TypeOK /\ ReserveKept /\ AccountingFits /\ [Next]_vars
        => ReserveKept' /\ AccountingFits'
  BY ReserveStep, AccountingStep
<1>3. QED
  BY <1>1, <1>2, TypeCorrect, PTL DEF Spec
-----------------------------------------------------------------------------
(* The order of the records.  First what appending and popping do to sequences *)
(* of numbers d (the file) and r (the ring).                                   *)

InOrder(d, r) ==
  /\ Increasing(d) /\ Increasing(r)
  /\ \A i \in 1..Len(d), j \in 1..Len(r) : d[i] < r[j]

\* A record is as far behind its number as records before it were lost, at most.
Near(d, r, losses) ==
  /\ \A i \in 1..Len(d) : i <= d[i] /\ d[i] <= i + losses
  /\ \A j \in 1..Len(r) : 1 <= r[j] /\ r[j] <= Len(d) + j + losses

\* No number of s passes n, nor reaches it while n itself is being pushed.
Below(s, n, pushing) ==
  \A i \in 1..Len(s) : s[i] <= n /\ (pushing => s[i] < n)

LEMMA Appended ==
  ASSUME NEW s \in Seq(Nat), NEW n \in Nat
  PROVE  /\ Append(s, n) \in Seq(Nat) /\ Len(s) \in Nat /\ Len(Append(s, n)) = Len(s) + 1
         /\ Append(s, n)[Len(s) + 1] = n
         /\ \A i \in 1..Len(s) : Append(s, n)[i] = s[i] /\ s[i] \in Nat
BY AppendProperties, LenProperties, ElementOfSeq

LEMMA Popped ==
  ASSUME NEW s \in Seq(Nat), s # <<>>
  PROVE  /\ Tail(s) \in Seq(Nat) /\ Len(s) \in Nat /\ Len(s) > 0
         /\ Len(Tail(s)) = Len(s) - 1
         /\ Head(s) = s[1] /\ s[1] \in Nat
         /\ \A i \in 1..Len(s) : s[i] \in Nat
         /\ \A i \in 1..Len(Tail(s)) : Tail(s)[i] = s[i + 1]
<1>1. Len(s) \in Nat \ {0}
  BY EmptySeq
<1>2. Head(s) = s[1]
  BY SMT
<1>3. \A i \in 1..Len(s) : s[i] \in Nat
  BY ElementOfSeq
<1>4. s[1] \in Nat
  BY <1>1, <1>3, SMT
<1>5. QED
  BY <1>1, <1>2, <1>3, <1>4, HeadTailProperties, SMT

LEMMA AppendBelow ==
  ASSUME NEW s \in Seq(Nat), NEW n \in Nat, NEW m \in Nat, NEW pushing \in BOOLEAN,
         Below(s, m, pushing), n <= m, pushing => n < m
  PROVE  Below(Append(s, n), m, pushing)
<1> DEFINE t == Append(s, n)
<1>1. SUFFICES ASSUME NEW i \in 1..Len(t) PROVE t[i] <= m /\ (pushing => t[i] < m)
  BY DEF Below
<1>2. CASE i \in 1..Len(s)
  BY <1>2, Appended, Zenon DEF Below
<1>3. CASE i = Len(s) + 1
  BY <1>3, Appended, Zenon
<1>4. QED
  BY <1>2, <1>3, Appended, SMT

LEMMA TailBelow ==
  ASSUME NEW s \in Seq(Nat), s # <<>>, NEW m \in Nat, NEW pushing \in BOOLEAN,
         Below(s, m, pushing)
  PROVE  Below(Tail(s), m, pushing) /\ Head(s) <= m /\ (pushing => Head(s) < m)
<1>1. \A i \in 1..Len(Tail(s)) : i + 1 \in 1..Len(s)
  BY Popped, SMT
<1>2. 1 \in 1..Len(s)
  BY Popped, SMT
<1>3. QED
  BY <1>1, <1>2, Popped, Zenon DEF Below

\* A greater number at the end keeps a sequence increasing.
LEMMA AppendIncreasing ==
  ASSUME NEW s \in Seq(Nat), Increasing(s), NEW n \in Nat,
         \A i \in 1..Len(s) : s[i] < n
  PROVE  Increasing(Append(s, n))
<1> DEFINE t == Append(s, n)
<1>1. Len(s) \in Nat /\ Len(t) = Len(s) + 1 /\ t[Len(s) + 1] = n
      /\ \A i \in 1..Len(s) : t[i] = s[i] /\ s[i] \in Nat
  BY Appended
<1> HIDE DEF t
<1>2. \A i, j \in 1..Len(t) : i < j => t[i] < t[j]
  <2>1. SUFFICES ASSUME NEW i \in 1..Len(t), NEW j \in 1..Len(t), i < j PROVE t[i] < t[j]
    OBVIOUS
  <2>2. i \in 1..Len(s) /\ t[i] = s[i]
    BY <1>1, <2>1, SMT
  <2>3. CASE j = Len(s) + 1
    BY <1>1, <2>2, <2>3
  <2>4. CASE j \in 1..Len(s)
    BY <1>1, <2>1, <2>2, <2>4 DEF Increasing
  <2>5. QED
    BY <1>1, <2>3, <2>4, SMT
<1>3. QED
  BY <1>2 DEF Increasing, t

LEMMA TailIncreasing ==
  ASSUME NEW s \in Seq(Nat), s # <<>>, Increasing(s)
  PROVE  Increasing(Tail(s)) /\ \A j \in 1..Len(Tail(s)) : Head(s) < Tail(s)[j]
<1>1. 1 \in 1..Len(s) /\ \A i \in 1..Len(Tail(s)) : i + 1 \in 1..Len(s) /\ 1 < i + 1
  BY Popped, SMT
<1>2. \A i, j \in 1..Len(Tail(s)) : i < j => i + 1 < j + 1
  BY Popped, SMT
<1>3. QED
  BY <1>1, <1>2, Popped, Zenon DEF Increasing

\* A push: the new record comes after all the others.
LEMMA PushInOrder ==
  ASSUME NEW d \in Seq(Nat), NEW r \in Seq(Nat), NEW n \in Nat, InOrder(d, r),
         Below(d, n, TRUE), Below(r, n, TRUE)
  PROVE  InOrder(d, Append(r, n))
<1>1. Increasing(Append(r, n))
  BY AppendIncreasing DEF InOrder, Below
<1>2. ASSUME NEW i \in 1..Len(d), NEW j \in 1..Len(Append(r, n))
      PROVE  d[i] < Append(r, n)[j]
  <2>1. CASE j \in 1..Len(r)
    BY <1>2, <2>1, Appended DEF InOrder
  <2>2. CASE j = Len(r) + 1
    BY <1>2, <2>2, Appended DEF Below
  <2>3. j \in 1..Len(r) \/ j = Len(r) + 1
    <3>1. Len(Append(r, n)) = Len(r) + 1 /\ Len(r) \in Nat
      BY Appended
    <3>2. QED
      BY <1>2, <3>1, SMT
  <2>4. QED
    BY <2>1, <2>2, <2>3
<1>3. QED
  BY <1>1, <1>2 DEF InOrder

\* A pop that reaches the file, and one that does not.
LEMMA PopInOrder ==
  ASSUME NEW d \in Seq(Nat), NEW r \in Seq(Nat), r # <<>>, InOrder(d, r)
  PROVE  InOrder(Append(d, Head(r)), Tail(r)) /\ InOrder(d, Tail(r))
<1> DEFINE e == Append(d, Head(r))
           t == Tail(r)
<1>1. Head(r) \in Nat /\ 1 \in 1..Len(r) /\ Head(r) = r[1]
      /\ \A j \in 1..Len(t) : t[j] = r[j + 1] /\ j + 1 \in 1..Len(r)
  BY Popped, SMT
<1>2. Increasing(t) /\ \A j \in 1..Len(t) : Head(r) < t[j]
  BY TailIncreasing DEF InOrder
<1>3. Increasing(e)
  BY <1>1, AppendIncreasing DEF InOrder
<1>4. \A i \in 1..Len(d), j \in 1..Len(t) : d[i] < t[j]
  BY <1>1, Zenon DEF InOrder
<1>5. ASSUME NEW i \in 1..Len(e), NEW j \in 1..Len(t)
      PROVE  e[i] < t[j]
  <2>1. CASE i \in 1..Len(d)
    BY <1>1, <1>4, <1>5, <2>1, Appended
  <2>2. CASE i = Len(d) + 1
    BY <1>1, <1>2, <1>5, <2>2, Appended
  <2>3. QED
    BY <1>1, <1>5, <2>1, <2>2, Appended, SMT
<1>6. QED
  BY <1>2, <1>3, <1>4, <1>5 DEF InOrder

LEMMA PushNear ==
  ASSUME NEW d \in Seq(Nat), NEW r \in Seq(Nat), NEW n \in Nat, NEW losses \in Nat,
         Near(d, r, losses), n = Len(d) + Len(r) + losses + 1
  PROVE  Near(d, Append(r, n), losses)
<1> DEFINE t == Append(r, n)
<1>1. SUFFICES ASSUME NEW j \in 1..Len(t)
               PROVE  1 <= t[j] /\ t[j] <= Len(d) + j + losses
  BY DEF Near
<1>2. CASE j \in 1..Len(r)
  BY <1>2, Appended DEF Near
<1>3. CASE j = Len(r) + 1
  <2>1. t[j] = n /\ Len(r) \in Nat /\ Len(d) \in Nat
    BY <1>3, Appended, LenProperties
  <2> HIDE DEF t
  <2>2. QED
    BY <1>3, <2>1, SMT
<1>4. QED
  BY <1>2, <1>3, Appended, SMT

LEMMA LoseNear ==
  ASSUME NEW d \in Seq(Nat), NEW r \in Seq(Nat), NEW losses \in Nat, Near(d, r, losses)
  PROVE  Near(d, r, losses + 1)
<1>1. /\ Len(d) \in Nat /\ Len(r) \in Nat
      /\ \A i \in 1..Len(d) : d[i] \in Nat
      /\ \A j \in 1..Len(r) : r[j] \in Nat
  BY LenProperties, ElementOfSeq
<1>2. ASSUME NEW i \in 1..Len(d) PROVE i <= d[i] /\ d[i] <= i + (losses + 1)
  <2>1. i <= d[i] /\ d[i] <= i + losses /\ d[i] \in Nat
    BY <1>1, <1>2 DEF Near
  <2>2. QED
    BY <1>1, <2>1, SMT
<1>3. ASSUME NEW j \in 1..Len(r) PROVE 1 <= r[j] /\ r[j] <= Len(d) + j + (losses + 1)
  <2>1. 1 <= r[j] /\ r[j] <= Len(d) + j + losses /\ r[j] \in Nat
    BY <1>1, <1>3 DEF Near
  <2>2. QED
    BY <1>1, <2>1, SMT
<1>4. QED
  BY <1>2, <1>3 DEF Near

LEMMA PopNear ==
  ASSUME NEW d \in Seq(Nat), NEW r \in Seq(Nat), NEW losses \in Nat, r # <<>>,
         InOrder(d, r), Near(d, r, losses)
  PROVE  Near(Append(d, Head(r)), Tail(r), losses) /\ Near(d, Tail(r), losses + 1)
<1> DEFINE e == Append(d, Head(r))
           t == Tail(r)
           h == r[1]
<1>1. /\ Head(r) = h /\ h \in Nat /\ 1 \in 1..Len(r) /\ Len(r) \in Nat /\ Len(d) \in Nat
      /\ \A j \in 1..Len(t) : t[j] = r[j + 1] /\ j + 1 \in 1..Len(r) /\ r[j + 1] \in Nat
  BY Popped, LenProperties, SMT
<1>2. 1 <= h /\ h <= Len(d) + 1 + losses
  BY <1>1 DEF Near
<1>3. Len(d) + 1 <= h
  <2>1. CASE Len(d) = 0
    BY <1>2, <2>1, SMT
  <2>2. CASE Len(d) \in 1..Len(d)
    <3>1. d[Len(d)] < h /\ Len(d) <= d[Len(d)] /\ d[Len(d)] \in Nat
      BY <1>1, <2>2, ElementOfSeq DEF InOrder, Near
    <3> HIDE DEF h
    <3>2. QED
      BY <1>1, <3>1, SMT
  <2>3. QED
    BY <1>1, <2>1, <2>2, SMT
<1>4. Len(e) = Len(d) + 1
  BY <1>1, Appended
<1>5. ASSUME NEW i \in 1..Len(e) PROVE i <= e[i] /\ e[i] <= i + losses
  <2>1. CASE i \in 1..Len(d)
    BY <1>1, <1>5, <2>1, Appended DEF Near
  <2>2. CASE i = Len(d) + 1
    BY <1>1, <1>2, <1>3, <1>5, <2>2, Appended
  <2>3. QED
    BY <1>1, <1>4, <1>5, <2>1, <2>2, SMT
<1>6. ASSUME NEW j \in 1..Len(t)
      PROVE  1 <= t[j] /\ t[j] <= (Len(d) + 1) + j + losses
                      /\ t[j] <= Len(d) + j + (losses + 1)
  <2>1. 1 <= t[j] /\ t[j] <= Len(d) + (j + 1) + losses /\ t[j] \in Nat
    BY <1>1, <1>6 DEF Near
  <2> HIDE DEF t
  <2>2. Len(d) + (j + 1) + losses = (Len(d) + 1) + j + losses
        /\ Len(d) + (j + 1) + losses = Len(d) + j + (losses + 1)
    BY <1>1, SMT
  <2>3. QED
    BY <2>1, <2>2
<1>7. Near(e, t, losses)
  BY <1>4, <1>5, <1>6 DEF Near
<1>8. Near(d, r, losses + 1)
  BY LoseNear
<1>9. QED
  BY <1>6, <1>7, <1>8 DEF Near

Losses(l) == failedOrDiscarded[l] + full[l] + disconnected[l]

\* The file, then the ring, then the record in emit: in the order of their
\* numbers, and no further behind them than records were lost.
Fifo ==
  \A l \in Lanes :
    /\ InOrder(disk[l], ring[l]) /\ Near(disk[l], ring[l], Losses(l))
    /\ Below(disk[l], seq[l], emitPc[l] = "push")
    /\ Below(ring[l], seq[l], emitPc[l] = "push")
    /\ written[l] = Len(disk[l])

LEMMA LaneTypes ==
  ASSUME TypeOK, NEW l \in Lanes
  PROVE  /\ seq[l] \in Nat /\ full[l] \in Nat /\ disconnected[l] \in Nat
         /\ reentrant[l] \in Nat /\ emitPc[l] \in {"idle", "push", "full"}
         /\ written[l] \in Nat /\ failedOrDiscarded[l] \in Nat
         /\ ring[l] \in Seq(Nat) /\ disk[l] \in Seq(Nat)
         /\ Losses(l) \in Nat /\ Drops(l) \in Nat
<1>1. /\ seq[l] \in Nat /\ full[l] \in Nat /\ disconnected[l] \in Nat
      /\ reentrant[l] \in Nat /\ emitPc[l] \in {"idle", "push", "full"}
      /\ written[l] \in Nat /\ failedOrDiscarded[l] \in Nat
      /\ ring[l] \in Seq(Nat) /\ disk[l] \in Seq(Nat)
  BY Zenon DEF TypeOK, ProducersTypeOK, RingsTypeOK, LogTypeOK
<1>2. Losses(l) \in Nat /\ Drops(l) \in Nat
  <2>1. /\ full[l] \in Nat /\ disconnected[l] \in Nat /\ reentrant[l] \in Nat
        /\ failedOrDiscarded[l] \in Nat
    BY <1>1
  <2>2. QED
    BY <2>1, SMT DEF Losses, Drops
<1>3. QED
  BY <1>1, <1>2

\* The steps that touch a record or its number.
LEMMA RecordSteps ==
  ASSUME [Next]_vars
  PROVE  \/ \E k \in Lanes : EmitBegin(k) \/ EmitPush(k) \/ EmitRefused(k)
         \/ WriterPop
         \/ UNCHANGED <<emitPc, seq, ring, full, disconnected, written,
                        failedOrDiscarded, disk>>
BY Zenon
   DEF Next, Producer, Writer, vars, producerVars, writerVars, EmitReentrant,
       NoteUnbound, WriterHeader, WriterTop, WriterLaneDrained, WriterPoll, WriterCheck,
       WriterExit, WriterTerminal, WriterFooterLane, WriterFooter, WriterSync,
       WriterRename, WriterUnlink, WriterReturn, WriterSend, WriterEnds, WriterDies,
       Finish, FinishReceives, FinishJoins, FinishTimesOut, DropSession

LEMMA FifoStep ==
  ASSUME TypeOK, LaneConservation, Fifo, [Next]_vars
  PROVE  Fifo'
<1> DEFINE F(l) ==
      /\ InOrder(disk[l], ring[l]) /\ Near(disk[l], ring[l], Losses(l))
      /\ Below(disk[l], seq[l], emitPc[l] = "push")
      /\ Below(ring[l], seq[l], emitPc[l] = "push")
      /\ written[l] = Len(disk[l])
<1>1. SUFFICES ASSUME NEW l \in Lanes PROVE F(l)'
  BY DEF Fifo
<1>2. F(l)
  BY DEF Fifo
<1>3. /\ seq \in [Lanes -> Nat] /\ full \in [Lanes -> Nat] /\ disconnected \in [Lanes -> Nat]
      /\ emitPc \in [Lanes -> {"idle", "push", "full"}]
      /\ written \in [Lanes -> Nat] /\ failedOrDiscarded \in [Lanes -> Nat]
      /\ ring \in [Lanes -> Seq(Nat)] /\ disk \in [Lanes -> Seq(Nat)] /\ cur \in Lanes
  BY Zenon DEF TypeOK, ProducersTypeOK, RingsTypeOK, WriterTypeOK, LogTypeOK
<1>4. /\ seq[l] \in Nat /\ full[l] \in Nat /\ disconnected[l] \in Nat
      /\ written[l] \in Nat /\ failedOrDiscarded[l] \in Nat /\ Losses(l) \in Nat
      /\ ring[l] \in Seq(Nat) /\ disk[l] \in Seq(Nat)
      /\ Len(ring[l]) \in Nat /\ Len(disk[l]) \in Nat
  BY LaneTypes, LenProperties, Zenon
<1>5. /\ seq[l] \in Nat /\ full[l] \in Nat /\ disconnected[l] \in Nat
      /\ written[l] \in Nat /\ failedOrDiscarded[l] \in Nat
      /\ Waiting(l) \in Nat
  BY <1>4 DEF Waiting
<1>6. CASE /\ emitPc'[l] = emitPc[l] /\ seq'[l] = seq[l] /\ ring'[l] = ring[l]
           /\ disk'[l] = disk[l] /\ full'[l] = full[l] /\ disconnected'[l] = disconnected[l]
           /\ written'[l] = written[l] /\ failedOrDiscarded'[l] = failedOrDiscarded[l]
  <2>1. Losses(l)' = Losses(l)
    BY <1>6 DEF Losses
  <2>2. QED
    BY <1>2, <1>6, <2>1, Zenon DEF InOrder, Increasing, Near, Below
<1>7. ASSUME NEW k \in Lanes, EmitBegin(k) PROVE F(l)'
  <2>1. UNCHANGED <<ring, disk, full, disconnected, written, failedOrDiscarded>>
    BY <1>7, Zenon DEF EmitBegin, writerVars
  <2>2. CASE k # l
    <3>1. seq'[l] = seq[l] /\ emitPc'[l] = emitPc[l]
      BY <1>3, <1>7, <2>2, Zenon DEF EmitBegin
    <3>2. QED
      BY <1>6, <2>1, <3>1
  <2>3. CASE k = l
    <3>1. seq'[l] = seq[l] + 1 /\ emitPc'[l] = "push"
      BY <1>3, <1>7, <2>3, Zenon DEF EmitBegin
    <3>2. ASSUME NEW s \in Seq(Nat), Below(s, seq[l], emitPc[l] = "push")
          PROVE  Below(s, seq[l] + 1, TRUE)
      <4>1. SUFFICES ASSUME NEW i \in 1..Len(s) PROVE s[i] < seq[l] + 1 /\ s[i] <= seq[l] + 1
        BY DEF Below
      <4>2. s[i] <= seq[l] /\ s[i] \in Nat
        BY <3>2, ElementOfSeq DEF Below
      <4>3. QED
        BY <1>4, <4>2, SMT
    <3>3. Below(disk[l], seq[l] + 1, TRUE) /\ Below(ring[l], seq[l] + 1, TRUE)
      BY <1>2, <1>4, <3>2
    <3>4. Losses(l)' = Losses(l)
      BY <2>1 DEF Losses
    <3>5. QED
      BY <1>2, <2>1, <3>1, <3>3, <3>4, Zenon DEF InOrder, Increasing, Near, Below
  <2>4. QED
    BY <2>2, <2>3
<1>8. ASSUME NEW k \in Lanes, EmitPush(k) PROVE F(l)'
  <2>1. UNCHANGED <<seq, disk, full, disconnected, written, failedOrDiscarded>>
    BY <1>8, Zenon DEF EmitPush, writerVars
  <2>2. CASE k # l
    <3>1. ring'[l] = ring[l] /\ emitPc'[l] = emitPc[l]
      BY <1>3, <1>8, <2>2, Zenon DEF EmitPush
    <3>2. QED
      BY <1>6, <2>1, <3>1
  <2>3. Losses(l)' = Losses(l)
    BY <2>1 DEF Losses
  <2>4. CASE k = l /\ ring'[l] = Append(ring[l], seq[l]) /\ emitPc'[l] = "idle" /\ emitPc[l] = "push"
    <3>1. Below(disk[l], seq[l], TRUE) /\ Below(ring[l], seq[l], TRUE)
      BY <1>2, <2>4, Zenon DEF Below
    <3>2. InOrder(disk[l], Append(ring[l], seq[l]))
      BY <1>2, <1>4, <3>1, PushInOrder
    <3>3. seq[l] = Len(disk[l]) + Len(ring[l]) + Losses(l) + 1
      <4>1. seq[l] = written[l] + failedOrDiscarded[l] + Waiting(l) + full[l] + disconnected[l] + 1
        BY <2>4 DEF LaneConservation, InFlight, Waiting
      <4>2. written[l] = Len(disk[l])
        BY <1>2
      <4>3. Losses(l) = failedOrDiscarded[l] + full[l] + disconnected[l]
        BY DEF Losses
      <4>4. seq[l] = written[l] + Waiting(l) + Losses(l) + 1
        BY <1>5, <4>1, <4>3, SMT
      <4>5. QED
        BY <4>2, <4>4 DEF Waiting
    <3>4. Near(disk[l], Append(ring[l], seq[l]), Losses(l))
      BY <1>2, <1>4, <3>3, PushNear
    <3>5. Below(disk[l], seq[l], FALSE) /\ Below(ring[l], seq[l], FALSE)
      BY <1>2, Zenon DEF Below
    <3>6. seq[l] <= seq[l]
      BY <1>4, SMT
    <3>7. Below(Append(ring[l], seq[l]), seq[l], FALSE)
      BY <1>4, <3>5, <3>6, AppendBelow
    <3>8. QED
      BY <1>2, <2>1, <2>3, <2>4, <3>2, <3>4, <3>5, <3>7, Zenon DEF InOrder, Increasing, Near, Below
  <2>5. CASE k = l /\ ring'[l] = ring[l] /\ emitPc'[l] = "full" /\ emitPc[l] = "push"
    BY <1>2, <2>1, <2>3, <2>5, Zenon DEF InOrder, Increasing, Near, Below
  <2>6. QED
    BY <1>3, <1>8, <2>2, <2>4, <2>5, Zenon DEF EmitPush
<1>9. ASSUME NEW k \in Lanes, EmitRefused(k) PROVE F(l)'
  <2>1. UNCHANGED <<seq, ring, disk, written, failedOrDiscarded>>
    BY <1>9, Zenon DEF EmitRefused, writerVars
  <2>2. emitPc' = [emitPc EXCEPT ![k] = "idle"]
    BY <1>9, Zenon DEF EmitRefused
  <2>3. \/ full' = [full EXCEPT ![k] = @ + 1] /\ UNCHANGED disconnected
        \/ disconnected' = [disconnected EXCEPT ![k] = @ + 1] /\ UNCHANGED full
    BY <1>9, Zenon DEF EmitRefused
  <2>4. CASE k = l
    <3>1. \/ full'[l] = full[l] + 1 /\ disconnected'[l] = disconnected[l]
          \/ disconnected'[l] = disconnected[l] + 1 /\ full'[l] = full[l]
      BY <1>3, <2>3, <2>4, Zenon
    <3>2. emitPc'[l] = "idle"
      BY <1>3, <2>2, <2>4, Zenon
    <3>3. Losses(l)' = Losses(l) + 1
      BY <1>5, <2>1, <3>1, SMT DEF Losses
    <3>4. Near(disk[l], ring[l], Losses(l) + 1)
      BY <1>2, <1>4, LoseNear
    <3>5. QED
      BY <1>2, <2>1, <3>2, <3>3, <3>4, Zenon DEF InOrder, Increasing, Near, Below
  <2>5. CASE k # l
    <3>1. full'[l] = full[l] /\ disconnected'[l] = disconnected[l] /\ emitPc'[l] = emitPc[l]
      BY <1>3, <2>2, <2>3, <2>5, Zenon
    <3>2. QED
      BY <1>6, <2>1, <3>1
  <2>6. QED
    BY <2>4, <2>5
<1>10. CASE WriterPop
  <2>1. UNCHANGED <<emitPc, seq, full, disconnected>>
    BY <1>10, Zenon DEF WriterPop, producerVars
  <2>2. ring' = [ring EXCEPT ![cur] = Tail(@)] /\ ring[cur] # <<>>
    BY <1>10, Zenon DEF WriterPop
  <2>3. \/ /\ written' = [written EXCEPT ![cur] = @ + 1]
           /\ disk' = [disk EXCEPT ![cur] = Append(@, Head(ring[cur]))]
           /\ UNCHANGED failedOrDiscarded
        \/ /\ failedOrDiscarded' = [failedOrDiscarded EXCEPT ![cur] = @ + 1]
           /\ UNCHANGED <<written, disk>>
    BY <1>10, Zenon DEF WriterPop, CountDiscarded
  <2>4. CASE l # cur
    <3>1. ring'[l] = ring[l] /\ written'[l] = written[l] /\ disk'[l] = disk[l]
          /\ failedOrDiscarded'[l] = failedOrDiscarded[l]
      BY <1>3, <2>2, <2>3, <2>4, Zenon
    <3>2. QED
      BY <1>6, <2>1, <3>1
  <2>5. CASE l = cur
    <3>1. ring'[l] = Tail(ring[l]) /\ ring[l] # <<>>
      BY <1>3, <2>2, <2>5, Zenon
    <3>2. \/ written'[l] = written[l] + 1 /\ disk'[l] = Append(disk[l], Head(ring[l]))
             /\ failedOrDiscarded'[l] = failedOrDiscarded[l]
          \/ failedOrDiscarded'[l] = failedOrDiscarded[l] + 1
             /\ written'[l] = written[l] /\ disk'[l] = disk[l]
      BY <1>3, <2>3, <2>5, Zenon
    <3>3. /\ InOrder(Append(disk[l], Head(ring[l])), Tail(ring[l]))
          /\ InOrder(disk[l], Tail(ring[l]))
      BY <1>2, <1>4, <3>1, PopInOrder
    <3>4. /\ Near(Append(disk[l], Head(ring[l])), Tail(ring[l]), Losses(l))
          /\ Near(disk[l], Tail(ring[l]), Losses(l) + 1)
      BY <1>2, <1>4, <3>1, PopNear
    <3>5. (emitPc[l] = "push") \in BOOLEAN /\ Head(ring[l]) \in Nat
      BY <1>4, <3>1, Popped
    <3>6. Below(Tail(ring[l]), seq[l], emitPc[l] = "push")
          /\ Head(ring[l]) <= seq[l] /\ (emitPc[l] = "push" => Head(ring[l]) < seq[l])
      BY <1>2, <1>4, <3>1, <3>5, TailBelow
    <3>7. CASE written'[l] = written[l] + 1 /\ disk'[l] = Append(disk[l], Head(ring[l]))
               /\ failedOrDiscarded'[l] = failedOrDiscarded[l]
      <4>1. Below(Append(disk[l], Head(ring[l])), seq[l], emitPc[l] = "push")
        BY <1>2, <1>4, <3>5, <3>6, AppendBelow
      <4>2. Len(Append(disk[l], Head(ring[l]))) = Len(disk[l]) + 1
        BY <1>4, <3>5, Appended
      <4>3. Losses(l)' = Losses(l)
        BY <2>1, <3>7 DEF Losses
      <4>4. QED
        BY <1>2, <2>1, <3>1, <3>3, <3>4, <3>6, <3>7, <4>1, <4>2, <4>3, Zenon
           DEF InOrder, Increasing, Near, Below
    <3>8. CASE failedOrDiscarded'[l] = failedOrDiscarded[l] + 1
               /\ written'[l] = written[l] /\ disk'[l] = disk[l]
      <4>1. Losses(l)' = Losses(l) + 1
        BY <1>5, <2>1, <3>8, SMT DEF Losses
      <4>2. QED
        BY <1>2, <2>1, <3>1, <3>3, <3>4, <3>6, <3>8, <4>1, Zenon
           DEF InOrder, Increasing, Near, Below
    <3>9. QED
      BY <3>2, <3>7, <3>8
  <2>6. QED
    BY <2>4, <2>5
<1>11. CASE UNCHANGED <<emitPc, seq, ring, full, disconnected, written, failedOrDiscarded, disk>>
  BY <1>6, <1>11
<1>12. QED
  BY <1>7, <1>8, <1>9, <1>10, <1>11, RecordSteps, Zenon

LEMMA FifoInit == Init => Fifo
<1> SUFFICES ASSUME Init, NEW l \in Lanes
    PROVE  /\ InOrder(disk[l], ring[l]) /\ Near(disk[l], ring[l], Losses(l))
           /\ Below(disk[l], seq[l], emitPc[l] = "push")
           /\ Below(ring[l], seq[l], emitPc[l] = "push")
           /\ written[l] = Len(disk[l])
  BY DEF Fifo
<1>1. disk[l] = <<>> /\ ring[l] = <<>> /\ written[l] = 0
  BY Zenon DEF Init
<1>2. QED
  BY <1>1, SMT DEF InOrder, Near, Below, Increasing
-----------------------------------------------------------------------------
(* The shutdown. *)

\* The writer never drains again once it has begun the terminal accounting.
LEMMA DrainedForGood ==
  ASSUME TypeOK, wpc \notin Draining, [Next]_vars
  PROVE  /\ wpc' \notin Draining /\ ~WriterPop
         /\ UNCHANGED <<written, failedOrDiscarded, disk, termSeq>>
         /\ trailer'.terminal = trailer.terminal
<1>1. trailer \in [terminal : BOOLEAN, lanes : SUBSET Lanes,
                   footer : Verdicts \cup {"none"}, synced : BOOLEAN]
  BY Zenon DEF TypeOK, FileTypeOK
<1>2. ~WriterPop
  BY Zenon DEF WriterPop, Draining
<1> USE DEF Draining, Goto
<1>3. CASE WriterFooterLane
  <2>1. wpc' \in {"footers", "footer"}
    BY <1>3, Zenon DEF WriterFooterLane
  <2>2. trailer'.terminal = trailer.terminal
    BY <1>1, <1>3, Zenon DEF WriterFooterLane
  <2>3. QED
    BY <1>2, <1>3, <2>1, <2>2, Zenon DEF WriterFooterLane
<1>4. CASE WriterFooter
  <2>1. trailer'.terminal = trailer.terminal
    BY <1>1, <1>4, Zenon DEF WriterFooter
  <2>2. QED
    BY <1>2, <1>4, <2>1, Zenon DEF WriterFooter
<1>5. CASE WriterSync
  <2>1. trailer'.terminal = trailer.terminal
    BY <1>1, <1>5, Zenon DEF WriterSync, SyncError
  <2>2. QED
    BY <1>2, <1>5, <2>1, Zenon DEF WriterSync, SyncError
<1>6. CASE /\ wpc' \in {"report", "unlink", "send", "ends", "gone", "panicked"}
           /\ UNCHANGED <<written, failedOrDiscarded, disk, termSeq, trailer>>
  BY <1>2, <1>6, Zenon
<1>7. CASE UNCHANGED <<wpc, written, failedOrDiscarded, disk, termSeq, trailer>>
  BY <1>2, <1>7, Zenon
<1>8. QED
  BY <1>2, <1>3, <1>4, <1>5, <1>6, <1>7, Zenon
     DEF Next, Producer, Writer, vars, writerVars, EmitBegin, EmitReentrant, EmitPush,
         EmitRefused, NoteUnbound, WriterHeader, WriterTop, WriterLaneDrained,
         WriterPoll, WriterCheck, WriterExit, WriterTerminal, WriterRename, WriterUnlink,
         WriterReturn, WriterSend, WriterEnds, WriterDies, Finish, FinishReceives,
         FinishJoins, FinishTimesOut, DropSession

\* The terminal line is numbered after every record of lane 0 in the file.
TerminalIsLast ==
  termSeq # 0 =>
    wpc \notin Draining /\ \A i \in 1..Len(disk[0]) : disk[0][i] < termSeq

LEMMA TerminalStep ==
  ASSUME TypeOK, Fifo, TerminalIsLast, [Next]_vars
  PROVE  TerminalIsLast'
<1>1. CASE WriterTerminal
  <2>1. wpc' = "footers" /\ disk' = disk /\ termSeq' \in {0, TerminalSequence}
    BY <1>1, Zenon DEF WriterTerminal, Goto
  <2>2. 0 \in Lanes
    BY Parameters
  <2>3. ASSUME NEW x \in Nat, NEW i \in 1..written[0], x <= i + Losses(0)
        PROVE  x < TerminalSequence
    <3>1. /\ full[0] \in Nat /\ disconnected[0] \in Nat /\ reentrant[0] \in Nat
          /\ written[0] \in Nat /\ failedOrDiscarded[0] \in Nat
      BY <2>2, LaneTypes
    <3>2. QED
      BY <2>3, <3>1, SMT DEF TerminalSequence, Drops, Losses
  <2>4. ASSUME NEW i \in 1..Len(disk[0]) PROVE disk[0][i] < TerminalSequence
    <3>1. disk[0][i] <= i + Losses(0) /\ written[0] = Len(disk[0])
      BY <2>2, <2>4 DEF Fifo, Near
    <3>2. disk[0][i] \in Nat /\ i \in 1..written[0]
      BY <2>2, <2>4, <3>1, LaneTypes, ElementOfSeq
    <3>3. QED
      BY <2>3, <3>1, <3>2
  <2>5. QED
    BY <2>1, <2>4, Zenon DEF TerminalIsLast, Draining
<1>2. CASE wpc \notin Draining
  BY <1>2, DrainedForGood, Zenon DEF TerminalIsLast
<1>3. CASE wpc \in Draining /\ UNCHANGED termSeq
  BY <1>3, Zenon DEF TerminalIsLast
<1>4. QED
  BY <1>1, <1>2, <1>3, Zenon
     DEF Next, Producer, Writer, vars, writerVars, EmitBegin, EmitReentrant, EmitPush,
         EmitRefused, NoteUnbound, WriterHeader, WriterTop, WriterPop, WriterLaneDrained,
         WriterPoll, WriterCheck, WriterExit, WriterFooterLane, WriterFooter, WriterSync,
         WriterRename, WriterUnlink, WriterReturn, WriterSend, WriterEnds, WriterDies,
         Finish, FinishReceives, FinishJoins, FinishTimesOut, DropSession

Finishing == {"terminal", "footers", "footer", "sync", "rename", "unlink"}

\* finish was called.
Asked == spc \in {"sent", "joining", "done"}

\* The writer only comes to an end when it was asked to, or abandoned.
ShutdownInv ==
  /\ chan \/ term => Asked
  /\ abandon => spc # "open"
  /\ wpc \in {"check"} \cup Finishing => term
  /\ wpc \in {"exit", "report", "send"} => term \/ abandon
  /\ wpc \in {"report", "send"} /\ verdict # "abandoned" => term
  /\ completion # Nothing => Asked /\ ~completion.timedOut
  /\ result # Nothing => Asked /\ (result.counted => ~result.timedOut)
  /\ names # {"open"} => Asked

LEMMA ShutdownStep ==
  ASSUME ShutdownInv, ReportFromTheGone, TypeOK, [Next]_vars
  PROVE  ShutdownInv'
<1> USE DEF ShutdownInv, Finishing, Asked, Goto
<1>1. CASE WriterHeader
  BY <1>1, Zenon DEF WriterHeader, sessionVars
<1>2. CASE WriterTop
  <2>1. wpc' = "drain" \/ (wpc' = "exit" /\ abandon')
    BY <1>2, Zenon DEF WriterTop, LoopAbandoned, sessionVars
  <2>2. QED
    BY <1>2, <2>1, Zenon DEF WriterTop, sessionVars
<1>3. CASE WriterLaneDrained
  BY <1>3, Zenon DEF WriterLaneDrained, NextLane, sessionVars
<1>4. CASE WriterPoll
  BY <1>4, Zenon DEF WriterPoll
<1>5. CASE WriterCheck
  BY <1>5, Zenon DEF WriterCheck, sessionVars
<1>6. CASE WriterExit
  BY <1>6, Zenon DEF WriterExit, WriterGivesUp, sessionVars
<1>7. CASE WriterTerminal \/ WriterFooterLane
  BY <1>7, Zenon DEF WriterTerminal, WriterFooterLane, sessionVars
<1>8. CASE WriterFooter \/ WriterSync
  BY <1>8, Zenon DEF WriterFooter, WriterSync, SyncError, sessionVars
<1>9. CASE WriterRename \/ WriterUnlink
  BY <1>9, Zenon DEF WriterRename, WriterUnlink, sessionVars
<1>10. CASE WriterReturn
  BY <1>10, Zenon DEF WriterReturn, sessionVars
<1>11. CASE WriterDies
  BY <1>11, Zenon DEF WriterDies, sessionVars
<1>12. CASE WriterSend
  <2>1. Report.timedOut = FALSE
    BY ReportIs DEF TypeOK, WriterTypeOK
  <2>2. completion' # Nothing => completion' = Report /\ spc \in {"open", "sent"}
    BY <1>12, Zenon DEF WriterSend
  <2>3. completion' # Nothing => Asked /\ ~completion'.timedOut
    BY <1>12, <2>1, <2>2, Zenon DEF WriterSend
  <2>4. QED
    BY <1>12, <2>3, Zenon DEF WriterSend, sessionVars
<1>13. CASE Finish
  BY <1>13, Zenon DEF Finish, writerVars
<1>14. CASE FinishReceives
  BY <1>14, Zenon DEF FinishReceives, writerVars
<1>15. CASE FinishJoins
  <2>1. completion \in Reports /\ ~completion.timedOut
    BY <1>15, Zenon DEF FinishJoins, ReportFromTheGone, TypeOK, SessionTypeOK
  <2>2. result'.timedOut = FALSE
    BY <1>15, <2>1, AfterJoinIs, Zenon DEF FinishJoins, Reports
  <2>3. QED
    BY <1>15, <2>2, Zenon DEF FinishJoins, writerVars
<1>16. CASE FinishTimesOut
  <2>1. result'.counted = FALSE
    BY <1>16, Zenon DEF FinishTimesOut, TimeoutReport
  <2>2. QED
    BY <1>16, <2>1, Zenon DEF FinishTimesOut, writerVars
<1>17. CASE DropSession
  BY <1>17, Zenon DEF DropSession, writerVars
<1>18. CASE WriterEnds
  BY <1>18, Zenon DEF WriterEnds, sessionVars
<1>19. CASE UNCHANGED <<wpc, term, verdict, names, spc, abandon, chan, result, completion>>
  BY <1>19, Zenon
<1>20. QED
  BY <1>1, <1>2, <1>3, <1>4, <1>5, <1>6, <1>7, <1>8, <1>9, <1>10, <1>11, <1>12, <1>13,
     <1>14, <1>15, <1>16, <1>17, <1>18, <1>19, Zenon
     DEF Next, Producer, Writer, vars, writerVars, sessionVars, EmitBegin, EmitReentrant,
         EmitPush, EmitRefused, NoteUnbound, WriterPop

EmptyIfQuiet(l) == l \notin late => ring[l] = <<>>

\* A lane quiet since finish is idle, and once its ring was looked at, empty.
QuietInv ==
  /\ Asked => \A l \in Lanes : l \notin late => emitPc[l] = "idle"
  /\ wpc = "poll" => cur = 0
  /\ wpc = "check" => \A l \in Lanes : l < cur => EmptyIfQuiet(l)
  /\ wpc = "exit" /\ ~abandon => \A l \in Lanes : EmptyIfQuiet(l)
  /\ wpc \in Finishing => \A l \in Lanes : EmptyIfQuiet(l)

\* Nothing more comes from a lane that is quiet since finish.
LEMMA QuietLane ==
  ASSUME TypeOK, Asked, QuietInv, [Next]_vars, NEW l \in Lanes, l \notin late'
  PROVE  /\ l \notin late /\ emitPc[l] = "idle" /\ emitPc'[l] = "idle"
         /\ seq'[l] = seq[l] /\ reentrant'[l] = reentrant[l]
         /\ full'[l] = full[l] /\ disconnected'[l] = disconnected[l]
         /\ ~WriterPop => ring'[l] = ring[l]
         /\ l = 0 => defects' = defects
<1>1. /\ seq \in [Lanes -> Nat] /\ full \in [Lanes -> Nat] /\ disconnected \in [Lanes -> Nat]
      /\ reentrant \in [Lanes -> Nat]
      /\ emitPc \in [Lanes -> {"idle", "push", "full"}]
      /\ ring \in [Lanes -> Seq(Nat)]
  BY Zenon DEF TypeOK, ProducersTypeOK, RingsTypeOK
<1>2. late \subseteq late'
  BY Zenon
     DEF Next, Producer, Writer, vars, MarkLate, EmitBegin, EmitReentrant, EmitPush,
         EmitRefused, NoteUnbound, WriterHeader, WriterTop, WriterPop, WriterLaneDrained,
         WriterPoll, WriterCheck, WriterExit, WriterTerminal, WriterFooterLane,
         WriterFooter, WriterSync, WriterRename, WriterUnlink, WriterReturn, WriterSend,
         WriterEnds, WriterDies, Finish, FinishReceives, FinishJoins, FinishTimesOut,
         DropSession
<1>3. l \notin late /\ emitPc[l] = "idle" /\ spc # "open"
  BY <1>2, Zenon DEF QuietInv, Asked
<1>4. ASSUME NEW k \in Lanes, EmitBegin(k) \/ EmitReentrant(k) \/ EmitPush(k) \/ EmitRefused(k)
      PROVE  k # l
  BY <1>3, <1>4, Zenon DEF EmitBegin, EmitReentrant, EmitPush, EmitRefused, MarkLate
<1>5. CASE \E k \in Lanes : Producer(k)
  <2>1. PICK k \in Lanes : EmitBegin(k) \/ EmitReentrant(k) \/ EmitPush(k) \/ EmitRefused(k)
    BY <1>5, Zenon DEF Producer
  <2>2. k # l
    BY <1>4, <2>1
  <2>3. CASE EmitBegin(k)
    BY <1>1, <1>3, <2>2, <2>3, Zenon DEF EmitBegin
  <2>4. CASE EmitReentrant(k)
    BY <1>1, <1>3, <2>2, <2>4, Zenon DEF EmitReentrant
  <2>5. CASE EmitPush(k)
    BY <1>1, <1>3, <2>2, <2>5, Zenon DEF EmitPush
  <2>6. CASE EmitRefused(k)
    BY <1>1, <1>3, <2>2, <2>6, Zenon DEF EmitRefused
  <2>7. QED
    BY <2>1, <2>3, <2>4, <2>5, <2>6, Zenon
<1>6. CASE NoteUnbound
  BY <1>3, <1>6, Zenon DEF NoteUnbound, MarkLate, producerVars
<1>7. CASE WriterPop
  BY <1>3, <1>7, Zenon DEF WriterPop, producerVars
<1>8. CASE UNCHANGED <<producerVars, ring, defects>>
  BY <1>3, <1>8, Zenon DEF producerVars
<1>9. QED
  BY <1>5, <1>6, <1>7, <1>8, Zenon
     DEF Next, Writer, vars, WriterHeader, WriterTop, WriterLaneDrained, WriterPoll,
         WriterCheck, WriterExit, WriterTerminal, WriterFooterLane, WriterFooter,
         WriterSync, WriterRename, WriterUnlink, WriterReturn, WriterSend, WriterEnds,
         WriterDies, Finish, FinishReceives, FinishJoins, FinishTimesOut, DropSession

LEMMA QuietStep ==
  ASSUME TypeOK, ShutdownInv, ReserveKept, QuietInv, [Next]_vars
  PROVE  QuietInv'
<1>1. cur \in Lanes /\ cur \in Nat /\ Drivers \in Nat
  BY Parameters, SMT DEF TypeOK, WriterTypeOK, Lanes
<1>2. (Asked => \A l \in Lanes : l \notin late => emitPc[l] = "idle")'
  <2>1. CASE Asked
    BY <2>1, QuietLane
  <2>2. CASE Finish
    BY <2>2, Zenon DEF Finish, producerVars, QuietInv, Asked
  <2>3. CASE ~Asked /\ ~Asked'
    BY <2>3
  <2>4. CASE ~Asked /\ ~Finish
    <3>1. ~Asked'
      BY <2>4, Zenon
         DEF Asked, Next, Producer, Writer, vars, sessionVars, EmitBegin, EmitReentrant,
             EmitPush, EmitRefused, NoteUnbound, WriterHeader, WriterTop, WriterPop,
             WriterLaneDrained, WriterPoll, WriterCheck, WriterExit, WriterTerminal,
             WriterFooterLane, WriterFooter, WriterSync, WriterRename, WriterUnlink,
             WriterReturn, WriterSend, WriterEnds, WriterDies, FinishReceives,
             FinishJoins, FinishTimesOut, DropSession
    <3>2. QED
      BY <3>1
  <2>5. QED
    BY <2>1, <2>2, <2>4
\* What was seen empty stays empty: only lanes that are not quiet still push.
<1>3. ASSUME Asked, ~WriterPop, NEW l \in Lanes, EmptyIfQuiet(l) PROVE EmptyIfQuiet(l)'
  BY <1>3, QuietLane, Zenon DEF EmptyIfQuiet
<1>4. CASE wpc = "check"
  <2>1. Asked /\ ~WriterPop /\ \A l \in Lanes : l < cur => EmptyIfQuiet(l)
    BY <1>4, Zenon DEF ShutdownInv, QuietInv, WriterPop
  <2>2. CASE WriterCheck
    <3>1. CASE wpc' = "top"
      BY <1>2, <3>1, Zenon DEF QuietInv, Finishing
    <3>2. CASE cur' = cur + 1 /\ wpc' = "check" /\ ring[cur] = <<>>
      <4>1. ASSUME NEW l \in Lanes, l < cur' PROVE EmptyIfQuiet(l)
        <5>1. l < cur \/ l = cur
          BY <1>1, <3>2, <4>1, SMT DEF Lanes
        <5>2. QED
          BY <2>1, <3>2, <5>1 DEF EmptyIfQuiet
      <4>2. QED
        BY <1>2, <1>3, <2>1, <3>2, <4>1, Zenon DEF QuietInv, Finishing
    <3>3. CASE ~(cur < Drivers) /\ wpc' = "exit" /\ ring[cur] = <<>>
      <4>1. ASSUME NEW l \in Lanes PROVE EmptyIfQuiet(l)
        <5>1. l < cur \/ l = cur
          BY <1>1, <3>3, SMT DEF Lanes
        <5>2. QED
          BY <2>1, <3>3, <5>1 DEF EmptyIfQuiet
      <4>2. QED
        BY <1>2, <1>3, <2>1, <3>3, <4>1, Zenon DEF QuietInv, Finishing
    <3>4. QED
      BY <2>2, <3>1, <3>2, <3>3, Zenon DEF WriterCheck, LaneLooksDrained, Goto
  <2>3. CASE wpc' = "panicked"
    BY <1>2, <2>3, Zenon DEF QuietInv, Finishing
  <2>4. CASE UNCHANGED <<wpc, cur>>
    BY <1>2, <1>3, <1>4, <2>1, <2>4, Zenon DEF QuietInv, Finishing
  <2>5. QED
    BY <1>4, <2>2, <2>3, <2>4, Zenon
       DEF Next, Producer, Writer, vars, writerVars, Goto, EmitBegin, EmitReentrant,
           EmitPush, EmitRefused, NoteUnbound, WriterHeader, WriterTop, WriterPop,
           WriterLaneDrained, WriterPoll, WriterExit, WriterTerminal, WriterFooterLane,
           WriterFooter, WriterSync, WriterRename, WriterUnlink, WriterReturn,
           WriterSend, WriterEnds, WriterDies, Finish, FinishReceives, FinishJoins,
           FinishTimesOut, DropSession
<1>5. CASE wpc = "exit"
  <2>1. ~WriterPop /\ (abandon \/ Asked)
    BY <1>5, Zenon DEF ShutdownInv, WriterPop
  <2>2. abandon => abandon'
    BY Zenon
       DEF Next, Producer, Writer, vars, sessionVars, EmitBegin, EmitReentrant, EmitPush,
           EmitRefused, NoteUnbound, WriterHeader, WriterTop, WriterPop,
           WriterLaneDrained, WriterPoll, WriterCheck, WriterExit, WriterTerminal,
           WriterFooterLane, WriterFooter, WriterSync, WriterRename, WriterUnlink,
           WriterReturn, WriterSend, WriterEnds, WriterDies, Finish, FinishReceives,
           FinishJoins, FinishTimesOut, DropSession
  <2>3. ~abandon => \A l \in Lanes : EmptyIfQuiet(l)'
    BY <1>3, <1>5, <2>1, Zenon DEF QuietInv
  <2>4. CASE WriterExit
    BY <1>2, <2>3, <2>4, Zenon DEF WriterExit, WriterGivesUp, Goto, QuietInv, Finishing
  <2>5. CASE wpc' = "panicked"
    BY <1>2, <2>5, Zenon DEF QuietInv, Finishing
  <2>6. CASE wpc' = "exit"
    BY <1>2, <2>2, <2>3, <2>6, Zenon DEF QuietInv, Finishing
  <2>7. QED
    BY <1>5, <2>4, <2>5, <2>6, Zenon
       DEF Next, Producer, Writer, vars, writerVars, Goto, EmitBegin, EmitReentrant,
           EmitPush, EmitRefused, NoteUnbound, WriterHeader, WriterTop, WriterPop,
           WriterLaneDrained, WriterPoll, WriterCheck, WriterTerminal, WriterFooterLane,
           WriterFooter, WriterSync, WriterRename, WriterUnlink, WriterReturn,
           WriterSend, WriterEnds, WriterDies, Finish, FinishReceives, FinishJoins,
           FinishTimesOut, DropSession
<1>6. CASE wpc \in Finishing
  <2>1. Asked /\ ~WriterPop /\ \A l \in Lanes : EmptyIfQuiet(l)
    BY <1>6, Zenon DEF ShutdownInv, QuietInv, WriterPop, Finishing
  <2>2. \A l \in Lanes : EmptyIfQuiet(l)'
    BY <1>3, <2>1
  <2>3. wpc' \notin {"poll"}
    BY <1>6, Zenon
       DEF Finishing, Next, Producer, Writer, vars, writerVars, Goto, EmitBegin,
           EmitReentrant, EmitPush, EmitRefused, NoteUnbound, WriterHeader, WriterTop,
           WriterPop, WriterLaneDrained, WriterPoll, WriterCheck, WriterExit,
           WriterTerminal, WriterFooterLane, WriterFooter, WriterSync, SyncError,
           WriterRename, WriterUnlink, WriterReturn, WriterSend, WriterEnds, WriterDies,
           Finish, FinishReceives, FinishJoins, FinishTimesOut, DropSession
  <2>4. QED
    BY <1>2, <2>2, <2>3, Zenon DEF QuietInv
<1>7. CASE WriterPoll
  <2>1. cur = 0 /\ cur' = cur /\ wpc' \in {"check", "top"}
    BY <1>7, Zenon DEF WriterPoll, QuietInv, Goto
  <2>2. \A l \in Lanes : ~(l < 0)
    BY SMT DEF Lanes
  <2>3. QED
    BY <1>2, <2>1, <2>2, Zenon DEF QuietInv, Finishing
<1>8. CASE WriterTop
  <2>1. wpc' \in {"exit", "drain"} /\ (wpc' = "exit" => abandon')
    BY <1>8, Zenon DEF WriterTop, LoopAbandoned, Goto, sessionVars
  <2>2. QED
    BY <1>2, <2>1, Zenon DEF QuietInv, Finishing
<1>9. CASE WriterLaneDrained
  <2>1. wpc' = "drain" \/ (wpc' = "poll" /\ cur' = 0)
    BY <1>9, Zenon DEF WriterLaneDrained, NextLane, Goto
  <2>2. QED
    BY <1>2, <2>1, Zenon DEF QuietInv, Finishing
<1>10. CASE wpc' \in {"top", "drain", "send", "ends", "gone", "panicked", "header", "report"}
  BY <1>2, <1>10, Zenon DEF QuietInv, Finishing
<1>11. CASE wpc = "poll" /\ UNCHANGED <<wpc, cur>>
  BY <1>2, <1>11, Zenon DEF QuietInv, Finishing
<1>12. QED
  BY <1>4, <1>5, <1>6, <1>7, <1>8, <1>9, <1>10, <1>11, Zenon
     DEF TypeOK, WriterTypeOK, Finishing, Next, Producer, Writer, vars, writerVars, Goto,
         EmitBegin, EmitReentrant, EmitPush, EmitRefused, NoteUnbound, WriterHeader,
         WriterPop, WriterCheck, WriterExit, WriterTerminal, WriterFooterLane,
         WriterFooter, WriterSync, WriterRename, WriterUnlink, WriterReturn, WriterSend,
         WriterEnds, WriterDies, Finish, FinishReceives, FinishJoins, FinishTimesOut,
         DropSession
-----------------------------------------------------------------------------
(* What the report counts. *)

\* The lane's numbers are in a report that was made, or is being made.
Counted(l) ==
  \/ wpc = "footers" /\ l < cur
  \/ wpc \in {"footer", "sync", "rename", "unlink"}
  \/ wpc \in {"report", "send"} /\ verdict # "abandoned"
  \/ completion # Nothing /\ completion.counted
  \/ result # Nothing /\ result.counted

Terminals(l) == IF l = 0 THEN 1 ELSE 0
TerminalLines(l) == IF l = 0 /\ trailer.terminal THEN 1 ELSE 0

LaneReport(l) ==
  /\ rep[l].attempted <= seq[l] + reentrant[l] + Terminals(l)
  /\ rep[l].written = Len(disk[l]) + TerminalLines(l)
  /\ l \notin late => rep[l] = Numbers(l) /\ ring[l] = <<>>

ReportInv == \A l \in Lanes : Counted(l) => LaneReport(l)

LEMMA NumbersAre ==
  ASSUME NEW l \in Lanes
  PROVE  /\ Numbers(l).attempted = written[l] + failedOrDiscarded[l] + Terminals(l) + Drops(l)
         /\ Numbers(l).written = written[l] + TerminalLines(l)
         /\ Numbers(l).dropped = Drops(l)
         /\ Numbers(l).failed = failedOrDiscarded[l] + (Terminals(l) - TerminalLines(l))
BY Zenon DEF Numbers, Terminals, TerminalLines

\* The numbers never claim more attempts than were made, and claim all of them
\* for a lane with nothing in emit or in its ring.
LEMMA AttemptedConserved ==
  ASSUME TypeOK, LaneConservation, NEW l \in Lanes
  PROVE  /\ Numbers(l).attempted <= seq[l] + reentrant[l] + Terminals(l)
         /\ emitPc[l] = "idle" /\ ring[l] = <<>>
              => Numbers(l).attempted = seq[l] + reentrant[l] + Terminals(l)
<1>1. /\ seq[l] \in Nat /\ full[l] \in Nat /\ disconnected[l] \in Nat /\ reentrant[l] \in Nat
      /\ written[l] \in Nat /\ failedOrDiscarded[l] \in Nat /\ Waiting(l) \in Nat
  BY LaneTypes, LenProperties, Zenon DEF Waiting
<1>2. seq[l] = written[l] + failedOrDiscarded[l] + Waiting(l)
               + full[l] + disconnected[l] + InFlight(l)
  BY DEF LaneConservation, Waiting
<1>3. InFlight(l) \in {0, 1} /\ Terminals(l) \in {0, 1}
  BY DEF InFlight, Terminals
<1>4. Numbers(l).attempted = written[l] + failedOrDiscarded[l] + Terminals(l)
                             + (full[l] + disconnected[l] + reentrant[l])
  BY NumbersAre DEF Drops
<1>5. Numbers(l).attempted <= seq[l] + reentrant[l] + Terminals(l)
  BY <1>1, <1>2, <1>3, <1>4, SMT
<1>6. ASSUME emitPc[l] = "idle", ring[l] = <<>>
      PROVE  Numbers(l).attempted = seq[l] + reentrant[l] + Terminals(l)
  <2>1. InFlight(l) = 0 /\ Waiting(l) = 0
    BY <1>6, SMT DEF InFlight, Waiting
  <2>2. QED
    BY <1>1, <1>2, <1>3, <1>4, <2>1, SMT
<1>7. QED
  BY <1>5, <1>6

\* A lane gets its numbers from its footer, and from nowhere else.
LEMMA CountedWhen ==
  ASSUME TypeOK, ReserveKept, ReportFromTheGone, [Next]_vars, NEW l \in Lanes, Counted(l)'
  PROVE  Counted(l) \/ (WriterFooterLane /\ l = cur)
<1>1. cur \in Lanes /\ Drivers \in Nat
  BY Parameters DEF TypeOK, WriterTypeOK
<1> USE DEF Counted, Goto
<1>2. CASE WriterFooterLane
  <2>1. /\ wpc = "footers" /\ completion' = completion /\ result' = result
        /\ wpc' \in {"footers", "footer"}
        /\ IF cur < Drivers THEN cur' = cur + 1 /\ wpc' = "footers"
                            ELSE wpc' = "footer"
    BY <1>2, Zenon DEF WriterFooterLane, sessionVars
  <2>2. CASE l < cur
    BY <2>1, <2>2, Zenon
  <2>3. CASE l = cur
    BY <1>2, <2>3
  <2>4. CASE ~(l < cur) /\ l # cur
    <3>1. cur < Drivers /\ ~(l < cur + 1)
      BY <1>1, <2>4, SMT DEF Lanes
    <3>2. QED
      BY <2>1, <3>1, Zenon
  <2>5. QED
    BY <2>2, <2>3, <2>4
<1>3. CASE WriterTerminal
  <2>1. /\ wpc' = "footers" /\ cur' = cur /\ completion' = completion /\ result' = result
        /\ cur = 0
    BY <1>3, Zenon DEF WriterTerminal, ReserveKept, sessionVars
  <2>2. ~(l < 0)
    BY SMT DEF Lanes
  <2>3. QED
    BY <2>1, <2>2, Zenon
<1>4. CASE wpc \in {"footer", "sync", "rename", "unlink"}
  BY <1>4
<1>5. CASE WriterExit
  <2>1. /\ wpc' = "terminal" \/ (wpc' = "report" /\ verdict' = "abandoned")
        /\ completion' = completion /\ result' = result
    BY <1>5, Zenon DEF WriterExit, sessionVars
  <2>2. QED
    BY <2>1, Zenon
<1>6. CASE WriterReturn
  BY <1>6, Zenon DEF WriterReturn, sessionVars
<1>7. CASE WriterSend
  <2>1. Report.counted = (verdict # "abandoned")
    BY ReportIs DEF TypeOK, WriterTypeOK
  <2>2. wpc = "send" /\ wpc' = "ends" /\ completion' \in {Report, Nothing} /\ result' = result
    BY <1>7, Zenon DEF WriterSend, sessionVars
  <2>3. QED
    BY <2>1, <2>2, Zenon
<1>8. CASE FinishJoins
  <2>1. completion \in Reports
    BY <1>8, Zenon DEF FinishJoins, ReportFromTheGone, TypeOK, SessionTypeOK
  <2>2. result'.counted = completion.counted
    BY <1>8, <2>1, AfterJoinIs, Zenon DEF FinishJoins
  <2>3. completion' = Nothing /\ completion # Nothing /\ UNCHANGED <<wpc, cur, verdict>>
    BY <1>8, Zenon DEF FinishJoins, ReportFromTheGone, writerVars
  <2>4. QED
    BY <2>2, <2>3, Zenon
<1>9. CASE FinishTimesOut
  <2>1. result'.counted = FALSE
    BY <1>9, Zenon DEF FinishTimesOut, TimeoutReport
  <2>2. completion' = completion /\ UNCHANGED <<wpc, cur, verdict>>
    BY <1>9, Zenon DEF FinishTimesOut, writerVars
  <2>3. QED
    BY <2>1, <2>2, Zenon
<1>10. CASE /\ wpc' \in {"top", "drain", "poll", "check", "exit", "ends", "gone",
                       "panicked"}
            /\ UNCHANGED <<completion, result>>
  BY <1>10, Zenon
<1>11. CASE UNCHANGED <<wpc, cur, verdict, completion, result>>
  BY <1>11, Zenon
<1>12. QED
  BY <1>2, <1>3, <1>4, <1>5, <1>6, <1>7, <1>8, <1>9, <1>10, <1>11, Zenon
     DEF Next, Producer, Writer, vars, writerVars, sessionVars, EmitBegin, EmitReentrant,
         EmitPush, EmitRefused, NoteUnbound, WriterHeader, WriterTop, WriterPop,
         WriterLaneDrained, NextLane, WriterPoll, WriterCheck, WriterFooter, WriterSync,
         WriterRename, WriterUnlink, WriterEnds, WriterDies, Finish, FinishReceives,
         DropSession

LEMMA CountedIsDrained ==
  ASSUME ShutdownInv, ReportFromTheGone, NEW l \in Lanes, Counted(l)
  PROVE  wpc \notin Draining /\ Asked
<1>1. wpc \notin Draining
  BY Zenon DEF Counted, Draining, ShutdownInv, ReportFromTheGone
<1>2. Asked
  BY Zenon DEF Counted, ShutdownInv, Finishing
<1>3. QED
  BY <1>1, <1>2

\* Each lane's count only grows, whoever is late.
LEMMA CountsGrow ==
  ASSUME TypeOK, [Next]_vars, NEW l \in Lanes
  PROVE  seq[l] + reentrant[l] <= seq'[l] + reentrant'[l]
<1>1. seq \in [Lanes -> Nat] /\ reentrant \in [Lanes -> Nat]
      /\ seq[l] \in Nat /\ reentrant[l] \in Nat
  BY Zenon DEF TypeOK, ProducersTypeOK
<1>2. ASSUME NEW k \in Lanes, EmitBegin(k)
      PROVE  (seq'[l] = seq[l] + 1 \/ seq'[l] = seq[l]) /\ reentrant'[l] = reentrant[l]
  BY <1>1, <1>2, Zenon DEF EmitBegin
<1>3. ASSUME NEW k \in Lanes, EmitReentrant(k)
      PROVE  (reentrant'[l] = reentrant[l] + 1 \/ reentrant'[l] = reentrant[l])
             /\ seq'[l] = seq[l]
  BY <1>1, <1>3, Zenon DEF EmitReentrant
<1>4. /\ seq'[l] = seq[l] + 1 \/ seq'[l] = seq[l]
      /\ reentrant'[l] = reentrant[l] + 1 \/ reentrant'[l] = reentrant[l]
  BY <1>2, <1>3, Zenon
     DEF Next, Producer, Writer, vars, producerVars, EmitPush, EmitRefused, NoteUnbound,
         WriterHeader, WriterTop, WriterPop, WriterLaneDrained, WriterPoll, WriterCheck,
         WriterExit, WriterTerminal, WriterFooterLane, WriterFooter, WriterSync,
         WriterRename, WriterUnlink, WriterReturn, WriterSend, WriterEnds, WriterDies,
         Finish, FinishReceives, FinishJoins, FinishTimesOut, DropSession
<1>5. QED
  BY <1>1, <1>4, SMT

LEMMA ReportInvStep ==
  ASSUME TypeOK, TypeOK', LaneConservation, Fifo, ShutdownInv, ReserveKept,
         ReportFromTheGone, QuietInv, ReportInv, [Next]_vars
  PROVE  ReportInv'
<1>1. SUFFICES ASSUME NEW l \in Lanes, Counted(l)' PROVE LaneReport(l)'
  BY DEF ReportInv
<1>2. Counted(l) \/ (WriterFooterLane /\ l = cur)
  BY <1>1, CountedWhen
<1>3. wpc \notin Draining /\ Asked
  <2>1. CASE Counted(l)
    BY <2>1, CountedIsDrained
  <2>2. CASE WriterFooterLane
    BY <2>2, Zenon DEF WriterFooterLane, Draining, ShutdownInv, Finishing
  <2>3. QED
    BY <1>2, <2>1, <2>2
<1>4. /\ UNCHANGED <<written, failedOrDiscarded, disk>> /\ ~WriterPop
      /\ trailer'.terminal = trailer.terminal
  BY <1>3, DrainedForGood
<1>5. TerminalLines(l)' = TerminalLines(l)
  BY <1>4 DEF TerminalLines
<1>6. l \notin late' => Numbers(l)' = Numbers(l) /\ ring'[l] = ring[l] /\ l \notin late
  BY <1>3, <1>4, QuietLane, Zenon DEF Numbers, Drops
<1>7. /\ seq[l] + reentrant[l] \in Nat /\ seq'[l] + reentrant'[l] \in Nat
      /\ Terminals(l) \in Nat
  <2>1. seq[l] \in Nat /\ reentrant[l] \in Nat
    BY LaneTypes
  <2>2. seq'[l] \in Nat /\ reentrant'[l] \in Nat
    BY Zenon DEF TypeOK, ProducersTypeOK
  <2>3. QED
    BY <2>1, <2>2, SMT DEF Terminals
<1>8. rep \in [Lanes -> [attempted : Nat, accepted : Nat, written : Nat,
                         dropped : Nat, failed : Nat]]
  BY Zenon DEF TypeOK, FileTypeOK
\* The report of the lane, as the step leaves it, was true of the lane before it.
<1>9. /\ rep'[l].attempted <= seq[l] + reentrant[l] + Terminals(l)
      /\ rep'[l].written = Len(disk[l]) + TerminalLines(l)
      /\ l \notin late => rep'[l] = Numbers(l) /\ ring[l] = <<>>
      /\ rep'[l].attempted \in Nat
  <2>1. CASE WriterFooterLane /\ l = cur
    <3>1. rep'[l] = Numbers(l)
      BY <1>8, <2>1, Zenon DEF WriterFooterLane
    <3>2. l \notin late => ring[l] = <<>>
      BY <2>1, Zenon DEF WriterFooterLane, QuietInv, Finishing, EmptyIfQuiet
    <3>3. Numbers(l).written = Len(disk[l]) + TerminalLines(l)
      BY NumbersAre, Zenon DEF Fifo
    <3>4. Numbers(l).attempted \in Nat
      BY NumbersType, Zenon DEF TypeOK
    <3>5. QED
      BY <3>1, <3>2, <3>3, <3>4, AttemptedConserved
  <2>2. CASE Counted(l) /\ rep'[l] = rep[l]
    <3>1. LaneReport(l)
      BY <2>2 DEF ReportInv
    <3>2. rep[l].attempted \in Nat
      BY <1>8, Zenon
    <3>3. QED
      BY <2>2, <3>1, <3>2, Zenon DEF LaneReport
  <2>3. CASE WriterFooterLane /\ l # cur
    <3>1. rep'[l] = rep[l]
      BY <1>8, <2>3, Zenon DEF WriterFooterLane
    <3>2. QED
      BY <1>2, <2>2, <2>3, <3>1
  <2>4. CASE rep' = rep
    BY <1>2, <2>1, <2>2, <2>4
  <2>5. QED
    BY <2>1, <2>3, <2>4, Zenon
       DEF Next, Producer, Writer, vars, writerVars, EmitBegin, EmitReentrant, EmitPush,
           EmitRefused, NoteUnbound, WriterHeader, WriterTop, WriterPop,
           WriterLaneDrained, WriterPoll, WriterCheck, WriterExit, WriterTerminal,
           WriterFooter, WriterSync, WriterRename, WriterUnlink, WriterReturn,
           WriterSend, WriterEnds, WriterDies, Finish, FinishReceives, FinishJoins,
           FinishTimesOut, DropSession
<1>10. rep'[l].attempted <= seq'[l] + reentrant'[l] + Terminals(l)
  <2>1. \A x, a, b, c \in Nat : x <= a + c /\ a <= b => x <= b + c
    BY SMT
  <2>2. QED
    BY <1>7, <1>9, <2>1, CountsGrow
<1>11. QED
  BY <1>4, <1>5, <1>6, <1>9, <1>10, Zenon DEF LaneReport, Terminals
-----------------------------------------------------------------------------
(* What a final name stands for. *)

Earned(v) ==
  /\ trailer.terminal /\ trailer.lanes = Lanes /\ trailer.footer = v
  /\ 0 \notin late => defects = 0
  /\ v = "complete" =>
       \A l \in Lanes : l \notin late => Losses(l) = 0 /\ reentrant[l] = 0 /\ ring[l] = <<>>

NamesInv ==
  /\ wpc \in {"footers", "footer"} /\ 0 \notin late => defects = unbound
  /\ wpc \in {"sync", "rename", "unlink"} /\ verdict # "incomplete" => Earned(verdict)
  /\ wpc \in {"rename", "unlink"} => trailer.synced
  /\ wpc = "unlink" => names = {"open", verdict}
  /\ \A v \in names : v # "open" => Earned(v) /\ trailer.synced

\* What a verdict stands for stays true: the lanes it speaks of are quiet.
LEMMA EarnedKept ==
  ASSUME TypeOK, Asked, QuietInv, wpc \notin Draining, [Next]_vars, NEW v, Earned(v),
         trailer'.lanes = trailer.lanes, trailer'.footer = trailer.footer
  PROVE  Earned(v)'
<1>1. /\ ~WriterPop /\ failedOrDiscarded' = failedOrDiscarded
      /\ trailer'.terminal = trailer.terminal
  BY DrainedForGood
<1>2. 0 \notin late' => 0 \notin late /\ defects' = defects
  BY Parameters, QuietLane
<1>3. ASSUME NEW l \in Lanes, l \notin late'
      PROVE  /\ l \notin late /\ Losses(l)' = Losses(l)
             /\ reentrant'[l] = reentrant[l] /\ ring'[l] = ring[l]
  BY <1>1, <1>3, QuietLane, Zenon DEF Losses
<1>4. QED
  BY <1>1, <1>2, <1>3, Zenon DEF Earned

\* A footer that says "complete" was written from numbers without a loss.
LEMMA FooterEarned ==
  ASSUME TypeOK, Fifo, ShutdownInv, QuietInv, ReportInv, AccountingFits, NamesInv,
         [Next]_vars, WriterFooter, verdict' # "incomplete"
  PROVE  Earned(verdict)' /\ trailer'.synced = trailer.synced /\ wpc' = "sync"
<1>1. /\ trailer \in [terminal : BOOLEAN, lanes : SUBSET Lanes,
                      footer : Verdicts \cup {"none"}, synced : BOOLEAN]
      /\ rep \in [Lanes -> [attempted : Nat, accepted : Nat, written : Nat,
                            dropped : Nat, failed : Nat]]
  BY Zenon DEF TypeOK, FileTypeOK
<1>2. /\ trailer' = [trailer EXCEPT !.footer = Disposition]
      /\ verdict' = Disposition /\ wpc' = "sync" /\ wpc = "footer"
      /\ UNCHANGED <<producerVars, ring, defects, failedOrDiscarded, late>>
  BY Zenon DEF WriterFooter, Goto
<1>3. /\ ~sink.failed /\ unbound = 0 /\ trailer.terminal
      /\ Disposition = "complete" => ~Lossy
  BY <1>2, Zenon DEF Disposition
<1>4. trailer.lanes = Lanes
  BY <1>2, <1>3, Zenon DEF AccountingFits
<1>5. /\ trailer'.terminal /\ trailer'.lanes = Lanes /\ trailer'.footer = verdict'
      /\ trailer'.synced = trailer.synced
  BY <1>1, <1>2, <1>3, <1>4, Zenon
<1>6. 0 \notin late' => defects' = 0
  BY <1>2, <1>3, Zenon DEF NamesInv
<1>7. ASSUME verdict' = "complete", NEW l \in Lanes, l \notin late'
      PROVE  Losses(l)' = 0 /\ reentrant'[l] = 0 /\ ring'[l] = <<>>
  <2>1. rep[l].dropped = 0 /\ rep[l].failed = 0
    BY <1>2, <1>3, <1>7, Zenon DEF Lossy
  <2>2. rep[l] = Numbers(l) /\ ring[l] = <<>>
    BY <1>2, <1>7, Zenon DEF ReportInv, Counted, LaneReport
  <2>3. Drops(l) = 0 /\ failedOrDiscarded[l] + (Terminals(l) - TerminalLines(l)) = 0
    BY <2>1, <2>2, NumbersAre
  <2>4. Terminals(l) = TerminalLines(l) /\ Terminals(l) \in {0, 1}
    BY <1>3, Zenon DEF Terminals, TerminalLines
  <2>5. /\ full[l] \in Nat /\ disconnected[l] \in Nat /\ reentrant[l] \in Nat
        /\ failedOrDiscarded[l] \in Nat
    BY LaneTypes
  <2>6. failedOrDiscarded[l] = 0
    BY <2>3, <2>4, <2>5, SMT
  <2>7. full[l] = 0 /\ disconnected[l] = 0 /\ reentrant[l] = 0
    BY <2>3, <2>5, SMT DEF Drops
  <2>8. Losses(l) = 0
    BY <2>6, <2>7, SMT DEF Losses
  <2>9. QED
    BY <1>2, <2>2, <2>7, <2>8, Zenon DEF Losses, producerVars
<1>8. QED
  BY <1>2, <1>5, <1>6, <1>7, Zenon DEF Earned

LEMMA NamesStep ==
  ASSUME TypeOK, NamedVerdict, OpenUntilRename, Fifo, ShutdownInv, QuietInv, ReportInv,
         AccountingFits, NamesInv, [Next]_vars
  PROVE  NamesInv'
<1>1. trailer \in [terminal : BOOLEAN, lanes : SUBSET Lanes,
                   footer : Verdicts \cup {"none"}, synced : BOOLEAN]
  BY Zenon DEF TypeOK, FileTypeOK
<1>2. wpc \in {"footers", "footer"} /\ 0 \notin late' => 0 \notin late /\ defects' = defects
  BY Parameters, QuietLane, Zenon DEF ShutdownInv, Finishing
<1> USE DEF Goto
\* Names that are there stay earned: the trailer is not touched any more.
<1>3. ASSUME UNCHANGED trailer, NEW v \in names, v # "open"
      PROVE  Earned(v)' /\ trailer'.synced
  <2>1. Asked /\ wpc \notin Draining
    BY <1>3, Zenon DEF ShutdownInv, OpenUntilRename, BeforeSecondLook, Draining
  <2>2. Earned(v) /\ trailer.synced
    BY <1>3 DEF NamesInv
  <2>3. QED
    BY <1>3, <2>1, <2>2, EarnedKept
<1>4. CASE wpc \in BeforeSecondLook \cup {"terminal", "footers", "footer", "sync", "rename"}
  <2>1. names = {"open"}
    BY <1>4 DEF OpenUntilRename
  <2>2. CASE WriterTerminal
    BY <2>1, <2>2, Zenon DEF WriterTerminal, NamesInv
  <2>3. CASE WriterFooterLane
    BY <1>2, <2>1, <2>3, Zenon DEF WriterFooterLane, NamesInv
  <2>4. CASE WriterFooter
    <3>1. names' = names /\ wpc' \in {"sync", "report"}
      BY <2>4, Zenon DEF WriterFooter
    <3>2. QED
      BY <2>1, <2>4, <3>1, FooterEarned, Zenon DEF NamesInv
  <2>5. CASE WriterSync
    <3>1. wpc = "sync" /\ names' = names
      BY <2>5, Zenon DEF WriterSync
    <3>2. CASE wpc' = "report"
      BY <2>1, <3>1, <3>2, Zenon DEF NamesInv
    <3>3. CASE /\ trailer' = [trailer EXCEPT !.synced = TRUE]
               /\ verdict # "incomplete" /\ verdict' = verdict /\ wpc' = "rename"
      <4>1. /\ trailer'.synced /\ trailer'.terminal = trailer.terminal
            /\ trailer'.lanes = trailer.lanes /\ trailer'.footer = trailer.footer
        BY <1>1, <3>3, Zenon
      <4>2. Asked /\ wpc \notin Draining
        BY <3>1, Zenon DEF ShutdownInv, Finishing, Draining
      <4>3. Earned(verdict)
        BY <3>1, <3>3, Zenon DEF NamesInv
      <4>4. Earned(verdict)'
        BY <3>3, <4>1, <4>2, <4>3, EarnedKept, Zenon
      <4>5. QED
        BY <2>1, <3>1, <3>3, <4>1, <4>4, Zenon DEF NamesInv
    <3>4. QED
      BY <2>5, <3>2, <3>3, Zenon DEF WriterSync, SyncError
  <2>6. CASE WriterRename
    <3>1. /\ wpc = "rename" /\ verdict # "incomplete" /\ verdict # "open" /\ trailer' = trailer
          /\ \/ names' = {verdict} /\ wpc' = "report"
             \/ names' = names \cup {verdict} /\ wpc' = "unlink" /\ verdict' = verdict
             \/ names' = names /\ wpc' = "report"
      BY <2>6, Zenon DEF WriterRename, NamedVerdict
    <3>2. Asked /\ wpc \notin Draining /\ trailer.synced /\ Earned(verdict)
      BY <3>1, Zenon DEF ShutdownInv, Finishing, Draining, NamesInv
    <3>3. \A v : Earned(v) => Earned(v)'
      BY <3>1, <3>2, EarnedKept
    <3>4. QED
      BY <2>1, <3>1, <3>2, <3>3, Zenon DEF NamesInv
  <2>7. CASE UNCHANGED <<wpc, verdict, names, trailer, unbound>>
    <3>1. wpc \in {"sync", "rename"} /\ verdict # "incomplete" => Earned(verdict)'
      <4>1. SUFFICES ASSUME wpc \in {"sync", "rename"}, verdict # "incomplete"
                     PROVE  Earned(verdict)'
        OBVIOUS
      <4>2. QED
        BY <2>7, <4>1, EarnedKept, Zenon DEF ShutdownInv, Finishing, Draining, NamesInv
    <3>2. QED
      BY <1>2, <1>4, <2>1, <2>7, <3>1, Zenon DEF NamesInv, BeforeSecondLook
  <2>8. CASE names' = names /\ wpc' \in BeforeSecondLook \cup {"terminal", "report", "panicked"}
    BY <2>1, <2>8, Zenon DEF NamesInv, BeforeSecondLook
  <2>9. QED
    BY <1>4, <2>2, <2>3, <2>4, <2>5, <2>6, <2>7, <2>8, Zenon
       DEF BeforeSecondLook, Next, Producer, Writer, vars, writerVars, EmitBegin,
           EmitReentrant, EmitPush, EmitRefused, NoteUnbound, WriterHeader, WriterTop,
           WriterPop, WriterLaneDrained, NextLane, WriterPoll, WriterCheck, WriterExit,
           WriterUnlink, WriterReturn, WriterSend, WriterEnds, WriterDies, Finish,
           FinishReceives, FinishJoins, FinishTimesOut, DropSession
<1>5. CASE wpc \in {"unlink", "report", "send", "ends", "gone", "panicked"}
  <2>1. UNCHANGED trailer
    BY <1>5, Zenon
       DEF Next, Producer, Writer, vars, writerVars, EmitBegin, EmitReentrant, EmitPush,
           EmitRefused, NoteUnbound, WriterHeader, WriterTop, WriterPop,
           WriterLaneDrained, WriterPoll, WriterCheck, WriterExit, WriterTerminal,
           WriterFooterLane, WriterFooter, WriterSync, WriterRename, WriterUnlink,
           WriterReturn, WriterSend, WriterEnds, WriterDies, Finish, FinishReceives,
           FinishJoins, FinishTimesOut, DropSession
  <2>2. \A v \in names : v # "open" => Earned(v)' /\ trailer'.synced
    BY <1>3, <2>1
  <2>3. CASE WriterUnlink
    <3>1. wpc' = "report" /\ names' \subseteq names
      BY <2>3, Zenon DEF WriterUnlink
    <3>2. QED
      BY <2>2, <3>1, Zenon DEF NamesInv
  <2>4. CASE names' = names /\ wpc' \in {"send", "ends", "gone", "panicked"}
    BY <2>2, <2>4, Zenon DEF NamesInv
  <2>5. CASE UNCHANGED <<wpc, verdict, names>>
    <3>1. wpc = "unlink" => verdict \in names /\ verdict # "open" /\ names = {"open", verdict}
      BY Zenon DEF NamesInv, NamedVerdict
    <3>2. wpc = "unlink" => Earned(verdict)' /\ trailer'.synced
      BY <2>2, <2>5, <3>1, Zenon DEF Earned
    <3>3. QED
      BY <1>5, <2>2, <2>5, <3>1, <3>2, Zenon DEF NamesInv
  <2>6. QED
    BY <1>5, <2>3, <2>4, <2>5, Zenon
       DEF Next, Producer, Writer, vars, writerVars, EmitBegin, EmitReentrant, EmitPush,
           EmitRefused, NoteUnbound, WriterHeader, WriterTop, WriterPop,
           WriterLaneDrained, WriterPoll, WriterCheck, WriterExit, WriterTerminal,
           WriterFooterLane, WriterFooter, WriterSync, WriterRename, WriterReturn,
           WriterSend, WriterEnds, WriterDies, Finish, FinishReceives, FinishJoins,
           FinishTimesOut, DropSession
<1>6. QED
  BY <1>4, <1>5, Zenon DEF TypeOK, WriterTypeOK, BeforeSecondLook

\* A report names the file it is about.
Matches(r) ==
  /\ r.path \in names
  /\ r.verdict # "incomplete" => r.path = r.verdict /\ names = {r.verdict}

\* What finish was told is true; a writer that panicked after it is overruled.
MatchInv ==
  /\ wpc \in {"report", "send"} => Matches(Report)
  /\ completion # Nothing => Matches(completion)
  /\ result # Nothing /\ ~result.timedOut /\ wpc = "gone" => Matches(result)
  /\ result # Nothing /\ ~result.timedOut /\ wpc = "panicked"
       => result.verdict = "incomplete" /\ result.path = "open"

LEMMA MatchStep ==
  ASSUME TypeOK, NamedVerdict, OpenUntilRename, ReportFromTheGone, NamesInv, MatchInv,
         [Next]_vars
  PROVE  MatchInv'
<1>1. /\ verdict = "abandoned" \/ verdict = "incomplete"
           => Report.path = "open" /\ Report.verdict = "incomplete"
      /\ verdict \in {"complete", "lossy"} => Report.path = verdict /\ Report.verdict = verdict
  BY Zenon DEF Report
<1>2. /\ verdict' = "abandoned" \/ verdict' = "incomplete"
           => Report'.path = "open" /\ Report'.verdict = "incomplete"
      /\ verdict' \in {"complete", "lossy"} => Report'.path = verdict' /\ Report'.verdict = verdict'
  BY Zenon DEF Report
<1> USE DEF Goto
\* Nothing was reported yet, or the report is on its way.
<1>3. CASE wpc \in {"ends", "gone", "panicked"}
  <2>1. names' = names /\ wpc' \in {"ends", "gone", "panicked"}
    BY <1>3, GoneIsGone, Zenon
       DEF Next, Producer, Writer, vars, writerVars, EmitBegin,
           EmitReentrant, EmitPush, EmitRefused, NoteUnbound, WriterHeader, WriterTop,
           WriterPop, WriterLaneDrained, WriterPoll, WriterCheck, WriterExit,
           WriterTerminal, WriterFooterLane, WriterFooter, WriterSync, WriterRename,
           WriterUnlink, WriterReturn, WriterSend, WriterEnds, WriterDies, Finish,
           FinishReceives, FinishJoins, FinishTimesOut, DropSession
  <2>2. CASE FinishJoins
    <3>1. completion \in Reports /\ Matches(completion)
      BY <2>2, Zenon DEF FinishJoins, ReportFromTheGone, TypeOK, SessionTypeOK, MatchInv
    <3>2. /\ result' = AfterJoin(completion) /\ completion' = Nothing
          /\ UNCHANGED <<wpc, names>> /\ wpc \in {"gone", "panicked"}
      BY <2>2, Zenon DEF FinishJoins, WriterGone, writerVars
    <3>3. wpc = "gone" => Matches(result)'
      BY <3>1, <3>2, AfterJoinIs, Zenon DEF Matches
    <3>4. wpc = "panicked" => result'.verdict = "incomplete" /\ result'.path = "open"
      BY <3>1, <3>2, AfterJoinIs, Zenon
    <3>5. QED
      BY <3>2, <3>3, <3>4, Zenon DEF MatchInv
  <2>3. CASE FinishTimesOut
    <3>1. result'.timedOut = TRUE
      BY <2>3, Zenon DEF FinishTimesOut, TimeoutReport
    <3>2. QED
      BY <2>1, <2>3, <3>1, Zenon DEF FinishTimesOut, MatchInv, Matches
  <2>4. CASE WriterEnds \/ WriterDies
    <3>1. /\ wpc \notin {"gone", "panicked"} /\ UNCHANGED <<completion, result>>
      BY <2>4, Zenon DEF WriterEnds, WriterDies, WriterGone, sessionVars
    <3>2. result # Nothing => result.timedOut
      BY <3>1, Zenon DEF ReportFromTheGone
    <3>3. QED
      BY <2>1, <3>1, <3>2, Zenon DEF MatchInv, Matches
  <2>5. CASE UNCHANGED <<wpc, completion, result>>
    BY <1>3, <2>1, <2>5, Zenon DEF MatchInv, Matches
  <2>6. QED
    BY <1>3, <2>2, <2>3, <2>4, <2>5, Zenon
       DEF Next, Producer, Writer, vars, writerVars, sessionVars, EmitBegin,
           EmitReentrant, EmitPush, EmitRefused, NoteUnbound, WriterHeader, WriterTop,
           WriterPop, WriterLaneDrained, WriterPoll, WriterCheck, WriterExit,
           WriterTerminal, WriterFooterLane, WriterFooter, WriterSync, WriterRename,
           WriterUnlink, WriterReturn, WriterSend, Finish, FinishReceives, DropSession
<1>4. CASE wpc \notin {"ends", "gone", "panicked"}
  <2>1. /\ completion = Nothing /\ (result # Nothing => result.timedOut)
        /\ spc # "joining"
    BY <1>4, Zenon DEF ReportFromTheGone
  <2>2. CASE WriterSend
    <3>1. /\ wpc = "send" /\ wpc' = "ends" /\ names' = names /\ result' = result
          /\ completion' \in {Report, Nothing}
      BY <2>2, Zenon DEF WriterSend, sessionVars
    <3>2. QED
      BY <2>1, <3>1, Zenon DEF MatchInv, Matches
  <2>3. CASE FinishTimesOut
    <3>1. result'.timedOut = TRUE
      BY <2>3, Zenon DEF FinishTimesOut, TimeoutReport
    <3>2. UNCHANGED <<wpc, names, verdict, completion>>
      BY <2>3, Zenon DEF FinishTimesOut, writerVars
    <3>3. QED
      BY <2>1, <3>1, <3>2, Zenon DEF MatchInv, Matches, Report
  <2>4. CASE completion' = completion /\ result' = result
    <3>1. SUFFICES ASSUME wpc' \in {"report", "send"} PROVE Matches(Report)'
      BY <2>1, <2>4, Zenon DEF MatchInv
    <3>2. CASE WriterExit \/ WriterFooter \/ WriterSync
      <4>1. names = {"open"} /\ names' = names /\ verdict' \in {"abandoned", "incomplete"}
        BY <3>1, <3>2, Zenon
           DEF WriterExit, WriterFooter, WriterSync, SyncError, OpenUntilRename,
               BeforeSecondLook
      <4>2. QED
        BY <1>2, <4>1, Zenon DEF Matches
    <3>3. CASE WriterRename
      <4>1. /\ names = {"open"} /\ verdict \in {"complete", "lossy"}
            /\ \/ names' = {verdict} /\ verdict' = verdict
               \/ names' = names /\ verdict' = "incomplete"
        BY <3>1, <3>3, Zenon DEF WriterRename, OpenUntilRename, NamedVerdict
      <4>2. QED
        BY <1>2, <4>1, Zenon DEF Matches
    <3>4. CASE WriterUnlink
      <4>1. /\ names = {"open", verdict} /\ verdict \in {"complete", "lossy"}
            /\ \/ names' = names \ {"open"} /\ verdict' = verdict
               \/ names' = names /\ verdict' = "incomplete"
        BY <3>1, <3>4, Zenon DEF WriterUnlink, UnlinkError, NamesInv, NamedVerdict
      <4>2. verdict # "open" => {"open", verdict} \ {"open"} = {verdict}
        BY Zenon
      <4>3. \/ names' = {verdict} /\ verdict' = verdict
            \/ "open" \in names' /\ verdict' = "incomplete"
        BY <4>1, <4>2, Zenon
      <4>4. QED
        BY <1>2, <4>1, <4>3, Zenon DEF Matches
    <3>5. CASE wpc \in {"report", "send"} /\ UNCHANGED <<names, verdict>>
      BY <3>5, Zenon DEF MatchInv, Matches, Report
    <3>6. QED
      BY <1>4, <3>1, <3>2, <3>3, <3>4, <3>5, Zenon
         DEF Next, Producer, Writer, vars, writerVars, EmitBegin, EmitReentrant,
             EmitPush, EmitRefused, NoteUnbound, WriterHeader, WriterTop, WriterPop,
             WriterLaneDrained, NextLane, WriterPoll, WriterCheck, WriterTerminal,
             WriterFooterLane, WriterReturn, WriterSend, WriterEnds, WriterDies, Finish,
             FinishReceives, FinishJoins, FinishTimesOut, DropSession
  <2>5. CASE FinishJoins
    BY <2>1, <2>5, Zenon DEF FinishJoins
  <2>6. QED
    BY <2>2, <2>3, <2>4, <2>5, Zenon
       DEF Next, Producer, Writer, vars, sessionVars, EmitBegin,
           EmitReentrant, EmitPush, EmitRefused, NoteUnbound, WriterHeader, WriterTop,
           WriterPop, WriterLaneDrained, WriterPoll, WriterCheck, WriterExit,
           WriterTerminal, WriterFooterLane, WriterFooter, WriterSync, WriterRename,
           WriterUnlink, WriterReturn, WriterEnds, WriterDies, Finish, FinishReceives,
           DropSession
<1>5. QED
  BY <1>3, <1>4
-----------------------------------------------------------------------------
(* The inductive invariant of the whole trace, and what it implies. *)

TraceInv ==
  /\ TypeOK /\ NamedVerdict /\ LaneConservation /\ OpenUntilRename /\ ReportFromTheGone
  /\ ReserveKept /\ AccountingFits /\ Fifo /\ TerminalIsLast /\ ShutdownInv /\ QuietInv
  /\ ReportInv /\ NamesInv /\ MatchInv

LEMMA TraceInvInit == Init => TraceInv
<1> SUFFICES ASSUME Init PROVE TraceInv
  OBVIOUS
<1>1. TypeOK /\ NamedVerdict /\ Fifo
  BY InitType, FifoInit
<1>2. LaneConservation
  BY SMT DEF Init, LaneConservation, InFlight
<1>3. /\ wpc = "header" /\ names = {"open"} /\ termSeq = 0 /\ completion = Nothing
      /\ result = Nothing /\ spc = "open" /\ ~abandon /\ ~chan /\ ~term
      /\ trailer.lanes = {} /\ sink.used = 0
  BY Zenon DEF Init, EmptyTrailer
<1>4. sink.used <= EventBudget
  BY <1>3, Parameters, SMT DEF EventBudget
<1>5. ReserveKept /\ AccountingFits /\ OpenUntilRename /\ ReportFromTheGone
  BY <1>3, <1>4, Zenon DEF ReserveKept, AccountingFits, OpenUntilRename, ReportFromTheGone
<1>6. TerminalIsLast /\ ShutdownInv /\ QuietInv
  BY <1>3, Zenon DEF TerminalIsLast, ShutdownInv, QuietInv, Asked, Finishing
<1>7. ReportInv /\ NamesInv /\ MatchInv
  BY <1>3, Zenon DEF ReportInv, Counted, NamesInv, MatchInv
<1>8. QED
  BY <1>1, <1>2, <1>5, <1>6, <1>7 DEF TraceInv

LEMMA TraceInvStep == TraceInv /\ [Next]_vars => TraceInv'
<1> SUFFICES ASSUME TraceInv, [Next]_vars PROVE TraceInv'
  OBVIOUS
<1> USE DEF TraceInv
<1>1. TypeOK' /\ NamedVerdict' /\ ReportFromTheGone'
  BY TypeStep
<1>2. LaneConservation' /\ OpenUntilRename'
  BY ConservationStep, OpenUntilRenameStep
<1>3. ReserveKept' /\ AccountingFits'
  BY ReserveStep, AccountingStep
<1>4. Fifo' /\ TerminalIsLast'
  BY FifoStep, TerminalStep
<1>5. ShutdownInv' /\ QuietInv'
  BY ShutdownStep, QuietStep DEF TypeOK
<1>6. ReportInv' /\ NamesInv' /\ MatchInv'
  BY <1>1, ReportInvStep, NamesStep, MatchStep
<1>7. QED
  BY <1>1, <1>2, <1>3, <1>4, <1>5, <1>6

LEMMA TraceInvAlways == Spec => []TraceInv
BY TraceInvInit, TraceInvStep, PTL DEF Spec

\* The file and then the ring, as one sequence.
LEMMA ConcatInOrder ==
  ASSUME NEW d \in Seq(Nat), NEW r \in Seq(Nat), NEW n \in Nat, InOrder(d, r),
         \A i \in 1..Len(d) : d[i] <= n, \A j \in 1..Len(r) : r[j] <= n
  PROVE  Increasing(d \o r) /\ \A i \in 1..Len(d \o r) : (d \o r)[i] <= n
<1> DEFINE c == d \o r
           a == Len(d)
           b == Len(r)
<1>1. /\ a \in Nat /\ b \in Nat /\ Len(c) = a + b
      /\ \A i \in 1..(a + b) : c[i] = IF i <= a THEN d[i] ELSE r[i - a]
  BY LenProperties, ConcatProperties
<1>2. /\ \A i, j \in 1..a : i < j => d[i] < d[j]
      /\ \A i, j \in 1..b : i < j => r[i] < r[j]
      /\ \A i \in 1..a, j \in 1..b : d[i] < r[j]
  BY DEF InOrder, Increasing
<1>3. (\A i \in 1..a : d[i] <= n) /\ \A j \in 1..b : r[j] <= n
  OBVIOUS
<1> HIDE DEF c, a, b
<1>4. ASSUME NEW i \in 1..(a + b)
      PROVE  \/ i \in 1..a /\ c[i] = d[i]
             \/ i - a \in 1..b /\ ~(i <= a) /\ c[i] = r[i - a]
  BY <1>1, <1>4, SMT
<1>5. ASSUME NEW i \in 1..(a + b) PROVE c[i] <= n
  BY <1>3, <1>4, <1>5, Zenon
<1>6. ASSUME NEW i \in 1..(a + b), NEW j \in 1..(a + b), i < j PROVE c[i] < c[j]
  <2>1. CASE i \in 1..a /\ c[i] = d[i]
    <3>1. CASE j \in 1..a /\ c[j] = d[j]
      BY <1>2, <1>6, <2>1, <3>1, Zenon
    <3>2. CASE j - a \in 1..b /\ c[j] = r[j - a]
      BY <1>2, <2>1, <3>2, Zenon
    <3>3. QED
      BY <1>4, <3>1, <3>2
  <2>2. CASE i - a \in 1..b /\ ~(i <= a) /\ c[i] = r[i - a]
    <3>1. ~(j \in 1..a) /\ i - a < j - a
      BY <1>1, <1>6, <2>2, SMT
    <3>2. j - a \in 1..b /\ c[j] = r[j - a]
      BY <1>4, <3>1
    <3>3. QED
      BY <1>2, <2>2, <3>1, <3>2, Zenon
  <2>3. QED
    BY <1>4, <2>1, <2>2
<1>7. QED
  BY <1>1, <1>5, <1>6 DEF Increasing, c

\* With no loss a record is where its number says.
LEMMA LosslessIsExact ==
  ASSUME NEW d \in Seq(Nat), NEW r \in Seq(Nat), Near(d, r, 0)
  PROVE  d = [k \in 1..Len(d) |-> k]
<1>1. ASSUME NEW i \in 1..Len(d) PROVE d[i] = i
  <2>1. i <= d[i] /\ d[i] <= i + 0 /\ d[i] \in Nat
    BY ElementOfSeq DEF Near
  <2> DEFINE x == d[i]
  <2>2. i <= x /\ x <= i + 0 /\ x \in Nat
    BY <2>1
  <2> HIDE DEF x
  <2>3. x = i
    BY <2>2, SMT
  <2>4. QED
    BY <2>3 DEF x
<1>2. d \in [1..Len(d) -> Nat]
  BY LenProperties
<1>3. QED
  BY <1>1, <1>2, Zenon

\* What a complete trace holds of a lane that was quiet since finish: everything.
LEMMA CompleteHasAll ==
  ASSUME TraceInv, Asked, NEW l \in Lanes, l \notin late, Losses(l) = 0, ring[l] = <<>>
  PROVE  disk[l] = [k \in 1..seq[l] |-> k] /\ Len(disk[l]) = seq[l]
<1> USE DEF TraceInv
<1>1. emitPc[l] = "idle"
  BY DEF QuietInv
<1>2. InFlight(l) = 0 /\ Waiting(l) = 0
  BY <1>1, SMT DEF InFlight, Waiting
<1>3. seq[l] = written[l] + failedOrDiscarded[l] + Waiting(l)
               + full[l] + disconnected[l] + InFlight(l)
  BY DEF LaneConservation, Waiting
<1>4. /\ seq[l] \in Nat /\ full[l] \in Nat /\ disconnected[l] \in Nat
      /\ written[l] \in Nat /\ failedOrDiscarded[l] \in Nat
  BY LaneTypes
<1>5. seq[l] = written[l]
  <2>1. failedOrDiscarded[l] + full[l] + disconnected[l] = 0
    BY DEF Losses
  <2>2. QED
    BY <1>2, <1>3, <1>4, <2>1, SMTT(60)
<1>6. written[l] = Len(disk[l]) /\ Near(disk[l], ring[l], 0)
  BY DEF Fifo
<1>7. disk[l] = [k \in 1..Len(disk[l]) |-> k]
  BY <1>6, LaneTypes, LosslessIsExact
<1>8. QED
  BY <1>5, <1>6, <1>7

LEMMA TruthFromInv ==
  ASSUME TraceInv
  PROVE  FileTellsTheTruth
<1> USE DEF TraceInv
<1>1. FifoOrder
  <2>1. ASSUME NEW l \in Lanes
        PROVE  /\ Increasing(disk[l] \o ring[l])
               /\ \A i \in 1..Len(disk[l] \o ring[l]) : (disk[l] \o ring[l])[i] <= seq[l]
    <3>1. /\ InOrder(disk[l], ring[l]) /\ \A i \in 1..Len(disk[l]) : disk[l][i] <= seq[l]
          /\ \A i \in 1..Len(ring[l]) : ring[l][i] <= seq[l]
      BY Zenon DEF Fifo, Below
    <3>2. disk[l] \in Seq(Nat) /\ ring[l] \in Seq(Nat) /\ seq[l] \in Nat
      BY LaneTypes
    <3>3. QED
      BY <3>1, <3>2, ConcatInOrder
  <2>2. QED
    BY <2>1, Zenon DEF FifoOrder, TerminalIsLast
<1>2. ReportConserves
  <2>1. SUFFICES ASSUME result # Nothing, result.counted, NEW l \in Lanes
        PROVE  /\ rep[l].attempted <= seq[l] + reentrant[l] + Terminals(l)
               /\ rep[l].written = Len(disk[l]) + TerminalLines(l)
               /\ l \notin late => rep[l].attempted = seq[l] + reentrant[l] + Terminals(l)
    BY Zenon DEF ReportConserves, Terminals, TerminalLines
  <2>2. Counted(l) /\ Asked
    BY <2>1, Zenon DEF Counted, ShutdownInv
  <2>3. LaneReport(l)
    BY <2>2 DEF ReportInv
  <2>4. l \notin late => rep[l] = Numbers(l) /\ ring[l] = <<>> /\ emitPc[l] = "idle"
    BY <2>2, <2>3 DEF LaneReport, QuietInv
  <2>5. QED
    BY <2>3, <2>4, AttemptedConserved DEF LaneReport
<1>3. FinalNameIsEarned
  <2>1. SUFFICES ASSUME NEW v \in names \ {"open"}
        PROVE  /\ trailer = [terminal |-> TRUE, lanes |-> Lanes, footer |-> v, synced |-> TRUE]
               /\ 0 \notin late => defects = 0
               /\ v = "complete" =>
                    \A l \in Lanes \ late : Len(disk[l]) = seq[l] /\ reentrant[l] = 0
    BY DEF FinalNameIsEarned
  <2>2. Earned(v) /\ trailer.synced /\ Asked
    BY <2>1, Zenon DEF NamesInv, ShutdownInv
  <2>3. trailer \in [terminal : BOOLEAN, lanes : SUBSET Lanes,
                     footer : Verdicts \cup {"none"}, synced : BOOLEAN]
    BY Zenon DEF TypeOK, FileTypeOK
  <2>4. trailer = [terminal |-> TRUE, lanes |-> Lanes, footer |-> v, synced |-> TRUE]
    BY <2>2, <2>3, Zenon DEF Earned
  <2>5. v = "complete" => \A l \in Lanes \ late : Len(disk[l]) = seq[l] /\ reentrant[l] = 0
    BY <2>2, CompleteHasAll, Zenon DEF Earned
  <2>6. QED
    BY <2>2, <2>4, <2>5 DEF Earned
<1>4. ReportMatchesFile
  BY Zenon DEF ReportMatchesFile, ReportFromTheGone, MatchInv, Matches
<1>5. QED
  BY <1>1, <1>2, <1>3, <1>4 DEF FileTellsTheTruth

\* The file, its final name and the report of finish agree with one another and
\* with what the lanes emitted, for any number of lanes, rings of any capacity,
\* emits at any moment, and a file system that fails when it likes.
THEOREM TruthTold == Spec => []FileTellsTheTruth
BY TraceInvAlways, TruthFromInv, PTL
-----------------------------------------------------------------------------
(* The refinement: the rings, the writer and its shutdown implement LossyTrace. *)

Sealed == IF "complete" \in names THEN "complete"
          ELSE IF "lossy" \in names THEN "lossy" ELSE "open"

LEMMA PromiseInit == Init => Promise!Init
<1> SUFFICES ASSUME Init PROVE Promise!Init
  OBVIOUS
<1>1. Promise!Lanes = Lanes
  BY DEF Promise!Lanes, Lanes
<1>2. Sealed = "open"
  BY Zenon DEF Init, Sealed
<1>3. QED
  BY <1>1, <1>2, Zenon DEF Init, Promise!Init, Sealed

LEMMA PromiseStep ==
  ASSUME TraceInv, [Next]_vars
  PROVE  [Promise!Next]_(Promise!vars)
<1> USE DEF TraceInv
<1>1. Promise!Lanes = Lanes
  BY DEF Promise!Lanes, Lanes
<1>2. CASE UNCHANGED <<seq, disk, spc, names, late>>
  BY <1>2, Zenon DEF Promise!vars
<1>3. ASSUME NEW l \in Lanes, EmitBegin(l) \/ EmitReentrant(l) PROVE Promise!Emit(l)
  <2>1. UNCHANGED <<disk, names, spc>>
    BY <1>3, Zenon DEF EmitBegin, EmitReentrant, writerVars, sessionVars
  <2>2. late' = IF spc # "open" THEN late \cup {l} ELSE late
    BY <1>3, Zenon DEF EmitBegin, EmitReentrant, MarkLate
  <2>3. seq' = [seq EXCEPT ![l] = @ + 1] \/ UNCHANGED seq
    BY <1>3, Zenon DEF EmitBegin, EmitReentrant
  <2>4. QED
    BY <2>1, <2>2, <2>3, Zenon DEF Promise!Emit
<1>4. CASE NoteUnbound
  <2>1. UNCHANGED <<seq, disk, names, spc>>
    BY <1>4, Zenon DEF NoteUnbound, producerVars, writerVars, sessionVars
  <2>2. late' = IF spc # "open" THEN late \cup {0} ELSE late
    BY <1>4, Zenon DEF NoteUnbound, MarkLate
  <2>3. Promise!Emit(0)
    BY <2>1, <2>2, Zenon DEF Promise!Emit
  <2>4. QED
    BY <1>1, <2>3, Parameters, Zenon DEF Promise!Next
<1>5. CASE WriterPop
  <2>1. cur \in Lanes /\ wpc = "drain" /\ ring[cur] # <<>> /\ names = {"open"}
        /\ UNCHANGED <<seq, names, spc, late>>
    BY <1>5, Zenon DEF WriterPop, TypeOK, WriterTypeOK, OpenUntilRename, BeforeSecondLook,
                       producerVars, sessionVars
  <2>2. disk' = [disk EXCEPT ![cur] = Append(@, Head(ring[cur]))] \/ UNCHANGED disk
    BY <1>5, Zenon DEF WriterPop
  <2>3. Head(ring[cur]) \in (Promise!Last(disk[cur]) + 1)..seq[cur]
    <3>1. /\ disk[cur] \in Seq(Nat) /\ ring[cur] \in Seq(Nat) /\ seq[cur] \in Nat
      BY <2>1, LaneTypes
    <3>2. /\ Len(ring[cur]) > 0 /\ Head(ring[cur]) = ring[cur][1] /\ ring[cur][1] \in Nat
          /\ Len(ring[cur]) \in Nat
      BY <2>1, <3>1, Popped
    <3>3. 1 \in 1..Len(ring[cur])
      BY <3>2, SMT
    <3>4. /\ ring[cur][1] <= seq[cur] /\ 1 <= ring[cur][1]
          /\ \A i \in 1..Len(disk[cur]) : disk[cur][i] < ring[cur][1]
      BY <2>1, <3>3, Zenon DEF Fifo, InOrder, Near, Below
    <3>5. Promise!Last(disk[cur]) \in Nat /\ Promise!Last(disk[cur]) < ring[cur][1]
      <4>1. CASE disk[cur] = <<>>
        <5>1. Promise!Last(disk[cur]) = 0
          BY <4>1 DEF Promise!Last
        <5>2. QED
          BY <3>2, <3>4, <5>1, SMT
      <4>2. CASE disk[cur] # <<>>
        <5>1. Len(disk[cur]) \in 1..Len(disk[cur])
          <6>1. Len(disk[cur]) \in Nat \ {0}
            BY <3>1, <4>2, EmptySeq
          <6>2. QED
            BY <6>1, SMT
        <5>2. Promise!Last(disk[cur]) = disk[cur][Len(disk[cur])]
          BY <4>2 DEF Promise!Last
        <5>3. QED
          BY <3>1, <3>4, <5>1, <5>2, ElementOfSeq
      <4>3. QED
        BY <4>1, <4>2
    <3> DEFINE last == Promise!Last(disk[cur])
               h == ring[cur][1]
               n == seq[cur]
    <3>6. last \in Nat /\ h \in Nat /\ n \in Nat /\ last < h /\ h <= n
      BY <3>1, <3>2, <3>4, <3>5
    <3> HIDE DEF last, h, n
    <3>7. h \in (last + 1)..n
      BY <3>6, SMT
    <3>8. QED
      BY <3>2, <3>7 DEF last, h, n
  <2>4. Sealed = "open"
    BY <2>1, Zenon DEF Sealed
  <2>5. CASE disk' = [disk EXCEPT ![cur] = Append(@, Head(ring[cur]))]
    <3>1. Promise!Record(cur)
      BY <2>1, <2>3, <2>4, <2>5, Zenon DEF Promise!Record, Sealed
    <3>2. QED
      BY <1>1, <2>1, <3>1, Zenon DEF Promise!Next
  <2>6. QED
    BY <1>2, <2>1, <2>2, <2>5, Zenon
<1>6. CASE WriterRename
  <2>1. /\ wpc = "rename" /\ names = {"open"} /\ verdict \in {"complete", "lossy"}
        /\ UNCHANGED <<seq, disk, spc, late>> /\ Asked /\ Earned(verdict)
    BY <1>6, Zenon DEF WriterRename, OpenUntilRename, NamedVerdict, ShutdownInv,
                       Finishing, NamesInv, producerVars, sessionVars
  <2>2. CASE names' = {verdict} \/ names' = names \cup {verdict}
    <3>1. Sealed = "open" /\ Sealed' = verdict
      BY <2>1, <2>2, Zenon DEF Sealed
    <3>2. verdict = "complete" => \A l \in Lanes \ late : disk[l] = [k \in 1..seq[l] |-> k]
      BY <2>1, CompleteHasAll, Zenon DEF Earned
    <3>3. Promise!Seal
      BY <1>1, <2>1, <3>1, <3>2, Zenon DEF Promise!Seal, Sealed, Asked
    <3>4. QED
      BY <3>3 DEF Promise!Next
  <2>3. QED
    BY <1>2, <1>6, <2>1, <2>2, Zenon DEF WriterRename
<1>7. CASE WriterUnlink
  <2>1. /\ names = {"open", verdict} /\ verdict \in {"complete", "lossy"}
        /\ names' = names \ {"open"} \/ names' = names
        /\ UNCHANGED <<seq, disk, spc, late>>
    BY <1>7, Zenon DEF WriterUnlink, NamedVerdict, NamesInv, producerVars, sessionVars
  <2>2. Sealed' = Sealed
    BY <2>1, Zenon DEF Sealed
  <2>3. QED
    BY <2>1, <2>2, Zenon DEF Promise!vars, Sealed
<1>8. CASE Finish \/ DropSession
  <2>1. /\ spc = "open" /\ spc' # "open" /\ UNCHANGED <<seq, disk, names>>
    BY <1>8, Zenon DEF Finish, DropSession, producerVars, writerVars
  <2>2. late \in SUBSET Lanes
    BY DEF TypeOK, ProducersTypeOK
  <2>3. late' \in SUBSET Lanes
    BY <1>8, <2>2, Zenon DEF Finish, DropSession
  <2>4. Promise!Shutdown
    BY <1>1, <2>1, <2>3, Zenon DEF Promise!Shutdown
  <2>5. QED
    BY <2>4 DEF Promise!Next
<1>9. CASE FinishReceives \/ FinishJoins \/ FinishTimesOut
  <2>1. spc # "open" /\ spc' # "open" /\ UNCHANGED <<seq, disk, names, late>>
    BY <1>9, Zenon DEF FinishReceives, FinishJoins, FinishTimesOut, producerVars, writerVars
  <2>2. QED
    BY <2>1, Zenon DEF Promise!vars
<1>10. ASSUME NEW l \in Lanes, EmitPush(l) \/ EmitRefused(l)
       PROVE  UNCHANGED <<seq, disk, spc, names, late>>
  BY <1>10, Zenon DEF EmitPush, EmitRefused, writerVars, sessionVars
<1>11. CASE \E l \in Lanes : Producer(l)
  <2>1. PICK l \in Lanes : Producer(l)
    BY <1>11
  <2>2. CASE EmitBegin(l) \/ EmitReentrant(l)
    BY <1>1, <1>3, <2>2, Zenon DEF Promise!Next
  <2>3. QED
    BY <1>2, <1>10, <2>1, <2>2, Zenon DEF Producer
<1>12. QED
  BY <1>2, <1>4, <1>5, <1>6, <1>7, <1>8, <1>9, <1>11, Zenon
     DEF Next, Writer, vars, producerVars, writerVars, sessionVars, WriterHeader,
         WriterTop, WriterLaneDrained, WriterPoll, WriterCheck, WriterExit,
         WriterTerminal, WriterFooterLane, WriterFooter, WriterSync, WriterReturn,
         WriterSend, WriterEnds, WriterDies

\* Every behaviour of the trace is one of LossyTrace: per lane the file is a
\* subsequence, in order, of what was emitted, it is sealed once and only after
\* a shutdown, and "complete" has everything of every lane that was quiet.
THEOREM Refinement == Spec => KeepsPromise
<1>1. Init => Promise!Init
  BY PromiseInit
<1>2. TraceInv /\ [Next]_vars => [Promise!Next]_(Promise!vars)
  BY PromiseStep
<1>3. QED
  BY <1>1, <1>2, TraceInvAlways, PTL DEF Spec, KeepsPromise, Promise!Spec
=============================================================================
