---------------------------- MODULE RuntimeTrace ----------------------------
(***************************************************************************)
(* The lossy runtime trace of crates/nd_runtime_trace.  One single-producer *)
(* single-consumer ring per lane; producer threads push without ever        *)
(* waiting; one writer thread drains the rings into `<stem>.open.ndjson`,   *)
(* writes the accounting footers and renames the file to its final name;   *)
(* the controlling thread finishes the session and waits at most a timeout.*)
(*                                                                         *)
(* A record is its lane sequence number, a line of the file has length one  *)
(* (so ByteCap and Reserve count lines), and the text of a line is left out.*)
(***************************************************************************)
EXTENDS Naturals, Sequences

CONSTANTS
  Drivers,        \* driver lanes; lane 0 is the controller's (driver_lanes)
  QueueCapacity,  \* slots of one ring (queue_capacity)
  DrainBurst,     \* records popped from one lane before the next (DRAIN_BURST)
  ByteCap,        \* lines the file may hold (byte_cap)
  Reserve,        \* of these, lines kept for terminal accounting
  LongEvents,     \* lane sequences whose line exceeds MAX_EVENT_LINE_BYTES
  IoFaults,       \* may a write, flush, sync, rename or the writer thread fail
  MaxEmits        \* bound: emits of each lane

\* What TraceSession::start refuses (byte_cap, queue_capacity), and that the
\* reserve covers the terminal event, one footer per lane and the footer.
ASSUME TraceAssumption ==
  /\ Drivers \in Nat
  /\ QueueCapacity \in Nat \ {0}
  /\ DrainBurst \in Nat \ {0}
  /\ Reserve \in Nat /\ Reserve >= Drivers + 3
  /\ ByteCap \in Nat /\ ByteCap > Reserve
  /\ LongEvents \subseteq Nat
  /\ IoFaults \in BOOLEAN
  /\ MaxEmits \in [0..Drivers -> Nat]

Lanes == 0..Drivers
Verdicts == {"complete", "lossy", "incomplete"}
Names == {"open", "complete", "lossy"}
Nothing == [verdict |-> "none"]

VARIABLES
  emitPc,     \* emitPc[l]: where the thread the lane is bound to is inside emit
  seq,        \* TraceLaneProducer.sequence
  ring,       \* the ring of the lane
  full, disconnected, reentrant,   \* LaneCounters
  defects,    \* unbound_defects
  wpc,        \* where the writer thread is
  cur,        \* lane the writer's current pass has reached
  burst,      \* records popped from that lane in this pass
  drained,    \* this pass popped a record
  term,       \* the writer has received the terminal record
  termSeq,    \* lane sequence written with the terminal line (0: none)
  written, failedOrDiscarded,      \* WriterLane accounting
  sink,       \* the Sink
  unbound,    \* unbound_defects as finish_writer was given it
  rep,        \* per-lane numbers of the report, filled by the footers
  verdict,    \* disposition computed by finish_writer
  disk,       \* disk[l]: lane sequences of the event lines in the file
  trailer,    \* what the end of the file holds
  names,      \* directory entries that are links to this file
  ringsAlive, \* the writer still owns the consumers
  spc,        \* the TraceSession: open, sent and joining (in finish), done, dropped
  abandon,    \* the abandon flag
  chan,       \* a terminal record waits in the terminal channel
  completion, \* the report: in its channel, then in finish's hands until the join
  result,     \* what finish returned
  late        \* ghost: lanes that emitted after, or during, the finish call

producerVars == <<emitPc, seq, full, disconnected, reentrant>>
writerVars == <<wpc, cur, burst, drained, term, termSeq, written, failedOrDiscarded,
                sink, unbound, rep, verdict, disk, trailer, names, ringsAlive>>
sessionVars == <<spc, abandon, chan, result>>
vars == <<producerVars, ring, defects, writerVars, sessionVars, completion, late>>

EmptyTrailer == [terminal |-> FALSE, lanes |-> {}, footer |-> "none", synced |-> FALSE]
ZeroNumbers == [attempted |-> 0, accepted |-> 0, written |-> 0, dropped |-> 0, failed |-> 0]

Init ==
  /\ emitPc = [l \in Lanes |-> "idle"]
  /\ seq = [l \in Lanes |-> 0]
  /\ ring = [l \in Lanes |-> <<>>]
  /\ full = [l \in Lanes |-> 0]
  /\ disconnected = [l \in Lanes |-> 0]
  /\ reentrant = [l \in Lanes |-> 0]
  /\ defects = 0
  /\ wpc = "header" /\ cur = 0 /\ burst = 0 /\ drained = FALSE
  /\ term = FALSE /\ termSeq = 0
  /\ written = [l \in Lanes |-> 0]
  /\ failedOrDiscarded = [l \in Lanes |-> 0]
  /\ sink = [used |-> 0, failed |-> FALSE, capped |-> FALSE, truncated |-> 0]
  /\ unbound = 0 /\ rep = [l \in Lanes |-> ZeroNumbers]
  /\ verdict = "incomplete"
  /\ disk = [l \in Lanes |-> <<>>]
  /\ trailer = EmptyTrailer
  /\ names = {"open"}
  /\ ringsAlive = TRUE
  /\ spc = "open" /\ abandon = FALSE /\ chan = FALSE
  /\ completion = Nothing /\ result = Nothing
  /\ late = {}
-----------------------------------------------------------------------------
(* Producers.  A lane no thread has bound, or whose producer was dropped, is a
   lane that does not emit: the writer never asks whether its producer lives. *)

\* An emit begun, or still running, once finish was called.
MarkLate(l) == late' = IF spc = "open" THEN late ELSE late \cup {l}

\* emit: the IN_EMIT flag goes up and the lane's sequence advances.
EmitBegin(l) ==
  /\ emitPc[l] = "idle"
  /\ seq[l] + reentrant[l] < MaxEmits[l]
  /\ emitPc' = [emitPc EXCEPT ![l] = "push"]
  /\ seq' = [seq EXCEPT ![l] = @ + 1]
  /\ MarkLate(l)
  /\ UNCHANGED <<full, disconnected, reentrant, ring, defects,
                 writerVars, sessionVars, completion>>

\* emit called while IN_EMIT is up (a signal handler): counted, not recorded.
EmitReentrant(l) ==
  /\ emitPc[l] # "idle"
  /\ seq[l] + reentrant[l] < MaxEmits[l]
  /\ reentrant' = [reentrant EXCEPT ![l] = @ + 1]
  /\ MarkLate(l)
  /\ UNCHANGED <<emitPc, seq, full, disconnected, ring, defects,
                 writerVars, sessionVars, completion>>

\* rtrb's push looks at the slots alone; a consumer that is gone does not matter.
HasFreeSlot(l) == Len(ring[l]) < QueueCapacity

\* The push.  A free slot takes the record even if the consumer is gone, and a
\* full ring refuses it at once: no producer ever waits for the writer.
EmitPush(l) ==
  /\ emitPc[l] = "push"
  /\ \/ /\ HasFreeSlot(l)
        /\ ring' = [ring EXCEPT ![l] = Append(@, seq[l])]
        /\ emitPc' = [emitPc EXCEPT ![l] = "idle"]
     \/ /\ ~HasFreeSlot(l)
        /\ emitPc' = [emitPc EXCEPT ![l] = "full"]
        /\ UNCHANGED ring
  /\ UNCHANGED <<seq, full, disconnected, reentrant, defects,
                 writerVars, sessionVars, completion, late>>

\* A refused push is classified by a second look at the consumer.
EmitRefused(l) ==
  /\ emitPc[l] = "full"
  /\ emitPc' = [emitPc EXCEPT ![l] = "idle"]
  /\ IF ringsAlive
     THEN full' = [full EXCEPT ![l] = @ + 1] /\ UNCHANGED disconnected
     ELSE disconnected' = [disconnected EXCEPT ![l] = @ + 1] /\ UNCHANGED full
  /\ UNCHANGED <<seq, reentrant, ring, defects, writerVars,
                 sessionVars, completion, late>>

\* TraceDriverLanes::note_unbound: the scheduler, on the controller's thread,
\* had to run a driver without a lane.  One defect stands for any number.
NoteUnbound ==
  /\ defects = 0
  /\ defects' = 1
  /\ MarkLate(0)
  /\ UNCHANGED <<producerVars, ring, writerVars, sessionVars, completion>>

Producer(l) ==
  \/ EmitBegin(l) \/ EmitReentrant(l) \/ EmitPush(l) \/ EmitRefused(l)
-----------------------------------------------------------------------------
(* The sink *)

AllowedIgnoresReserve(terminal) == ByteCap
\* Event and heartbeat lines leave the reserve alone; terminal lines may use it.
Allowed(terminal) == IF terminal THEN ByteCap ELSE ByteCap - Reserve

\* An error of the file system.
SinkFails == IoFaults /\ ~sink.failed /\ sink' = [sink EXCEPT !.failed = TRUE]

\* The line is counted before it is written: does it stay within the cap?
Fits(terminal) == sink.used + 1 <= Allowed(terminal)

\* Sink::write: ok says whether the line is in the file.  A failed write, or a
\* flush that fails after it, closes the file for good.
SinkWrite(long, terminal, ok) ==
  \/ sink.failed /\ ~ok /\ UNCHANGED sink
  \/ ~sink.failed /\ long /\ ~ok /\ sink' = [sink EXCEPT !.truncated = @ + 1]
  \/ ~sink.failed /\ ~long /\ ~Fits(terminal) /\ ~ok /\ sink' = [sink EXCEPT !.capped = TRUE]
  \/ ~sink.failed /\ ~long /\ Fits(terminal) /\ ok /\ sink' = [sink EXCEPT !.used = @ + 1]
  \/ ~sink.failed /\ ~long /\ Fits(terminal) /\ ~ok /\ SinkFails

-----------------------------------------------------------------------------
(* The writer thread: writer_main *)

Goto(pc) == wpc' = pc

\* The header line, and the flush after it.
WriterHeader ==
  /\ wpc = "header" /\ Goto("top")
  /\ \E ok \in BOOLEAN : SinkWrite(FALSE, FALSE, ok)
  /\ UNCHANGED <<producerVars, ring, defects, cur, burst, drained, term, termSeq, written,
                 failedOrDiscarded, unbound, rep, verdict, disk, trailer, names, ringsAlive,
                 sessionVars, completion, late>>

LoopIgnoresAbandon == FALSE
LoopAbandoned == abandon

\* Top of the loop: leave it when abandoned, otherwise start a drain pass.
WriterTop ==
  /\ wpc = "top"
  /\ Goto(IF LoopAbandoned THEN "exit" ELSE "drain")
  /\ cur' = 0 /\ burst' = 0
  /\ UNCHANGED <<producerVars, ring, defects, drained, term, termSeq, written,
                 failedOrDiscarded, sink, unbound, rep, verdict, disk, trailer, names,
                 ringsAlive, sessionVars, completion, late>>

\* The drain is done with a lane: its ring was seen empty, or the burst is used up.
NextLane ==
  /\ burst' = 0
  /\ IF cur < Drivers THEN cur' = cur + 1 /\ Goto("drain")
                      ELSE cur' = 0 /\ Goto("poll")

DiscardForgotten(l) == failedOrDiscarded
\* A record the sink refused is counted, whatever the reason.
CountDiscarded(l) == [failedOrDiscarded EXCEPT ![l] = @ + 1]

WriterPop ==
  /\ wpc = "drain" /\ ring[cur] # <<>> /\ burst < DrainBurst
  /\ ring' = [ring EXCEPT ![cur] = Tail(@)]
  /\ \E ok \in BOOLEAN :
       /\ SinkWrite(Head(ring[cur]) \in LongEvents, FALSE, ok)
       /\ IF ok
          THEN /\ written' = [written EXCEPT ![cur] = @ + 1]
               /\ disk' = [disk EXCEPT ![cur] = Append(@, Head(ring[cur]))]
               /\ UNCHANGED failedOrDiscarded
          ELSE /\ failedOrDiscarded' = CountDiscarded(cur)
               /\ UNCHANGED <<written, disk>>
  /\ burst' = burst + 1 /\ drained' = TRUE
  /\ UNCHANGED <<producerVars, defects, wpc, cur, term, termSeq, unbound, rep, verdict,
                 trailer, names, ringsAlive, sessionVars, completion, late>>

WriterLaneDrained ==
  /\ wpc = "drain" /\ (ring[cur] = <<>> \/ burst = DrainBurst)
  /\ NextLane
  /\ UNCHANGED <<producerVars, ring, defects, drained, term, termSeq, written,
                 failedOrDiscarded, sink, unbound, rep, verdict, disk, trailer, names,
                 ringsAlive, sessionVars, completion, late>>

\* Flush what was drained, look for the terminal record, and without one write
\* a heartbeat line when it is due.
WriterPoll ==
  /\ wpc = "poll"
  /\ term' = (term \/ chan)
  /\ chan' = FALSE
  /\ Goto(IF term' THEN "check" ELSE "top")
  /\ drained' = FALSE
  /\ \/ UNCHANGED sink
     \/ drained /\ SinkFails
     \/ ~term' /\ \E ok \in BOOLEAN : SinkWrite(FALSE, FALSE, ok)
  /\ UNCHANGED <<producerVars, ring, defects, cur, burst, termSeq, written,
                 failedOrDiscarded, unbound, rep, verdict, disk, trailer, names, ringsAlive,
                 spc, abandon, result, completion, late>>

LeaveOnTerminal(l) == TRUE
\* With the terminal in hand, leave the loop once each ring in turn looked empty.
LaneLooksDrained(l) == ring[l] = <<>>

WriterCheck ==
  /\ wpc = "check"
  /\ IF ~LaneLooksDrained(cur) THEN cur' = 0 /\ Goto("top")
     ELSE IF cur < Drivers THEN cur' = cur + 1 /\ Goto("check")
     ELSE cur' = 0 /\ Goto("exit")
  /\ UNCHANGED <<producerVars, ring, defects, burst, drained, term, termSeq, written,
                 failedOrDiscarded, sink, unbound, rep, verdict, disk, trailer, names,
                 ringsAlive, sessionVars, completion, late>>

SingleAbandonCheck == FALSE
\* The second look at the abandon flag decides between finish_writer and a
\* report that claims nothing.
WriterGivesUp == abandon

WriterExit ==
  /\ wpc = "exit"
  /\ Goto(IF WriterGivesUp THEN "report" ELSE "terminal")
  /\ verdict' = IF WriterGivesUp THEN "abandoned" ELSE verdict
  /\ UNCHANGED <<producerVars, ring, defects, cur, burst, drained, term, termSeq, written,
                 failedOrDiscarded, sink, unbound, rep, disk, trailer, names, ringsAlive,
                 sessionVars, completion, late>>
-----------------------------------------------------------------------------
(* The writer thread: finish_writer *)

Drops(l) == full[l] + disconnected[l] + reentrant[l]

TerminalSequence == written[0] + failedOrDiscarded[0] + Drops(0) + 1

\* The terminal event is lane 0's last line, numbered after all its attempts.
WriterTerminal ==
  /\ wpc = "terminal" /\ Goto("footers")
  /\ unbound' = defects
  /\ \E ok \in BOOLEAN :
       /\ SinkWrite(FALSE, TRUE, ok)
       /\ trailer' = [trailer EXCEPT !.terminal = ok]
       /\ termSeq' = IF ok THEN TerminalSequence ELSE 0
  /\ UNCHANGED <<producerVars, ring, defects, cur, burst, drained, term, written,
                 failedOrDiscarded, rep, verdict, disk, names, ringsAlive,
                 sessionVars, completion, late>>

\* What the report says of a lane; the terminal record is an event of lane 0.
Numbers(l) ==
  LET terminalAccepted == IF l = 0 THEN 1 ELSE 0
      terminalWritten == IF l = 0 /\ trailer.terminal THEN 1 ELSE 0
      accepted == written[l] + failedOrDiscarded[l] + terminalAccepted
  IN  [attempted |-> accepted + Drops(l),
       accepted |-> accepted,
       written |-> written[l] + terminalWritten,
       dropped |-> Drops(l),
       failed |-> failedOrDiscarded[l] + (terminalAccepted - terminalWritten)]

WriterFooterLane ==
  /\ wpc = "footers"
  /\ rep' = [rep EXCEPT ![cur] = Numbers(cur)]
  /\ \E ok \in BOOLEAN :
       /\ SinkWrite(FALSE, TRUE, ok)
       /\ trailer' = IF ok THEN [trailer EXCEPT !.lanes = @ \cup {cur}] ELSE trailer
  /\ IF cur < Drivers THEN cur' = cur + 1 /\ UNCHANGED wpc
                      ELSE cur' = 0 /\ Goto("footer")
  /\ UNCHANGED <<producerVars, ring, defects, burst, drained, term, termSeq, written,
                 failedOrDiscarded, unbound, verdict, disk, names, ringsAlive,
                 sessionVars, completion, late>>

Lossy ==
  \/ \E l \in Lanes : rep[l].dropped # 0 \/ rep[l].failed # 0
  \/ sink.truncated # 0
  \/ sink.capped

DispositionIgnoresUnbound ==
  IF sink.failed \/ ~trailer.terminal THEN "incomplete"
  ELSE IF Lossy THEN "lossy" ELSE "complete"

Disposition ==
  IF sink.failed \/ unbound # 0 \/ ~trailer.terminal THEN "incomplete"
  ELSE IF Lossy THEN "lossy" ELSE "complete"

\* The footer line carries the disposition computed before it is written.
WriterFooter ==
  /\ wpc = "footer"
  /\ \E ok \in BOOLEAN :
       /\ SinkWrite(FALSE, TRUE, ok)
       /\ IF ok THEN /\ trailer' = [trailer EXCEPT !.footer = Disposition]
                     /\ verdict' = Disposition /\ Goto("sync")
                ELSE verdict' = "incomplete" /\ Goto("report") /\ UNCHANGED trailer
  /\ UNCHANGED <<producerVars, ring, defects, cur, burst, drained, term, termSeq, written,
                 failedOrDiscarded, unbound, rep, disk, names, ringsAlive,
                 sessionVars, completion, late>>

SyncError == SinkFails /\ verdict' = "incomplete" /\ Goto("report") /\ UNCHANGED trailer

\* finish_io: only a file that was flushed and synced goes on to be renamed.
WriterSync ==
  /\ wpc = "sync"
  /\ \/ /\ trailer' = [trailer EXCEPT !.synced = TRUE]
        /\ Goto(IF verdict = "incomplete" THEN "report" ELSE "rename")
        /\ UNCHANGED <<sink, verdict>>
     \/ SyncError
  /\ UNCHANGED <<producerVars, ring, defects, cur, burst, drained, term, termSeq, written,
                 failedOrDiscarded, unbound, rep, disk, names, ringsAlive,
                 sessionVars, completion, late>>

\* rename_no_replace: renameat2, or where the file system refuses it a link
\* and then an unlink; an existing target or an error leaves the open name.
WriterRename ==
  /\ wpc = "rename"
  /\ \/ names' = {verdict} /\ Goto("report") /\ UNCHANGED verdict
     \/ names' = names \cup {verdict} /\ Goto("unlink") /\ UNCHANGED verdict
     \/ IoFaults /\ verdict' = "incomplete" /\ Goto("report") /\ UNCHANGED names
  /\ UNCHANGED <<producerVars, ring, defects, cur, burst, drained, term, termSeq, written,
                 failedOrDiscarded, sink, unbound, rep, disk, trailer, ringsAlive,
                 sessionVars, completion, late>>

\* The open name stays behind: the report falls back to it.
UnlinkError == verdict' = "incomplete"

WriterUnlink ==
  /\ wpc = "unlink" /\ Goto("report")
  /\ \/ names' = names \ {"open"} /\ UNCHANGED verdict
     \/ IoFaults /\ UnlinkError /\ UNCHANGED names
  /\ UNCHANGED <<producerVars, ring, defects, cur, burst, drained, term, termSeq, written,
                 failedOrDiscarded, sink, unbound, rep, disk, trailer, ringsAlive,
                 sessionVars, completion, late>>

\* writer_main returns: the consumers are dropped before the report is sent.
WriterReturn ==
  /\ wpc = "report" /\ Goto("send")
  /\ ringsAlive' = FALSE
  /\ UNCHANGED <<producerVars, ring, defects, cur, burst, drained, term, termSeq, written,
                 failedOrDiscarded, sink, unbound, rep, verdict, disk, trailer, names,
                 sessionVars, completion, late>>

Report ==
  [verdict  |-> IF verdict = "abandoned" THEN "incomplete" ELSE verdict,
   path     |-> IF verdict \in {"complete", "lossy"} THEN verdict ELSE "open",
   counted  |-> verdict # "abandoned",
   timedOut |-> FALSE]

WriterSend ==
  /\ wpc = "send" /\ Goto("ends")
  /\ completion' = IF spc \in {"open", "sent"} THEN Report ELSE Nothing
  /\ UNCHANGED <<producerVars, ring, defects, cur, burst, drained, term, termSeq, written,
                 failedOrDiscarded, sink, unbound, rep, verdict, disk, trailer, names,
                 ringsAlive, sessionVars, late>>

\* With its report sent the thread drops what its closure still owns, and ends.
WriterEnds ==
  /\ wpc = "ends" /\ Goto("gone")
  /\ UNCHANGED <<producerVars, ring, defects, cur, burst, drained, term, termSeq, written,
                 failedOrDiscarded, sink, unbound, rep, verdict, disk, trailer, names,
                 ringsAlive, sessionVars, completion, late>>

WriterGone == wpc \in {"gone", "panicked"}

\* The writer thread unwinds and drops everything it owns.  Nothing is sent,
\* unless the report was sent before: that one stays in its channel.
WriterDies ==
  /\ IoFaults /\ ~WriterGone /\ Goto("panicked")
  /\ ringsAlive' = FALSE
  /\ UNCHANGED <<producerVars, ring, defects, cur, burst, drained, term, termSeq, written,
                 failedOrDiscarded, sink, unbound, rep, verdict, disk, trailer, names,
                 sessionVars, completion, late>>

Writer ==
  \/ WriterHeader \/ WriterTop \/ WriterPop \/ WriterLaneDrained \/ WriterPoll
  \/ WriterCheck \/ WriterExit \/ WriterTerminal \/ WriterFooterLane \/ WriterFooter
  \/ WriterSync \/ WriterRename \/ WriterUnlink \/ WriterReturn \/ WriterSend
  \/ WriterEnds
-----------------------------------------------------------------------------
(* The session *)

\* finish sends the terminal record, or abandons a writer that has gone; one
\* about to end may or may not have dropped its end of the channel.
Finish ==
  /\ spc = "open" /\ spc' = "sent"
  /\ \/ ~WriterGone /\ chan' = TRUE /\ UNCHANGED abandon
     \/ (WriterGone \/ wpc = "ends") /\ abandon' = TRUE /\ UNCHANGED chan
  /\ late' = late \cup {l \in Lanes : emitPc[l] # "idle"}
  /\ UNCHANGED <<producerVars, ring, defects, writerVars, completion, result>>

\* The report came in time.
FinishReceives ==
  /\ spc = "sent" /\ completion # Nothing
  /\ spc' = "joining"
  /\ UNCHANGED <<producerVars, ring, defects, writerVars, abandon, chan, completion,
                 result, late>>

JoinErrorIgnored(report) == report
\* A writer that panicked after its report is not believed: the report is made
\* incomplete and pointed at the open name, whatever the file is called by now.
\* (The flag that gives the reason, sink_error, is left out.)
AfterJoin(report) ==
  IF wpc = "panicked" THEN [report EXCEPT !.verdict = "incomplete", !.path = "open"]
                      ELSE report

\* Join the writer, for as long as it takes to end; dropping self abandons.
FinishJoins ==
  /\ spc = "joining" /\ WriterGone
  /\ result' = AfterJoin(completion) /\ completion' = Nothing
  /\ spc' = "done" /\ abandon' = TRUE
  /\ UNCHANGED <<producerVars, ring, defects, writerVars, chan, late>>

WaitsForWriter == completion = Nothing /\ WriterGone
\* recv_timeout has nothing to return when the deadline passes.
DeadlinePassed == completion = Nothing

TimeoutReport ==
  [verdict |-> "incomplete", path |-> "open", counted |-> FALSE, timedOut |-> TRUE]

\* FINISH_TIMEOUT passed, or the writer died: a report that claims nothing.
FinishTimesOut ==
  /\ spc = "sent" /\ DeadlinePassed
  /\ result' = TimeoutReport
  /\ spc' = "done" /\ abandon' = TRUE
  /\ UNCHANGED <<producerVars, ring, defects, writerVars, chan, completion, late>>

\* The command ended without calling finish.
DropSession ==
  /\ spc = "open" /\ spc' = "dropped" /\ abandon' = TRUE
  /\ UNCHANGED <<producerVars, ring, defects, writerVars, chan, completion, result, late>>

Next ==
  \/ \E l \in Lanes : Producer(l)
  \/ NoteUnbound
  \/ Writer \/ WriterDies
  \/ Finish \/ FinishReceives \/ FinishJoins \/ FinishTimesOut \/ DropSession

\* The operating system runs a thread in finish (its timed wait ends), and a
\* writer that has sent its report: it touches no file any more, writer_main
\* closed it.  Nothing makes a command finish, emit or bind, and until then the
\* writer may be stalled for ever in a write to a dead file system.
Spec ==
  /\ Init /\ [][Next]_vars
  /\ WF_vars(FinishReceives \/ FinishJoins \/ FinishTimesOut)
  /\ WF_vars(WriterEnds)

\* The writer is not stalled.
WriterRuns == WF_vars(Writer)
-----------------------------------------------------------------------------
(* Properties *)

\* Every variable keeps its type and every bounded resource its bound.
ProducersTypeOK ==
  /\ emitPc \in [Lanes -> {"idle", "push", "full"}]
  /\ seq \in [Lanes -> Nat]
  /\ full \in [Lanes -> Nat]
  /\ disconnected \in [Lanes -> Nat]
  /\ reentrant \in [Lanes -> Nat]
  /\ late \subseteq Lanes

RingsTypeOK ==
  /\ ring \in [Lanes -> Seq(Nat)]
  /\ \A l \in Lanes : Len(ring[l]) <= QueueCapacity

Sinks == [used : 0..ByteCap, failed : BOOLEAN, capped : BOOLEAN, truncated : Nat]

WriterTypeOK ==
  /\ wpc \in {"header", "top", "drain", "poll", "check", "exit", "terminal", "footers",
              "footer", "sync", "rename", "unlink", "report", "send", "ends",
              "gone", "panicked"}
  /\ cur \in Lanes /\ burst \in 0..DrainBurst /\ drained \in BOOLEAN
  /\ term \in BOOLEAN /\ termSeq \in Nat
  /\ verdict \in Verdicts \cup {"abandoned"}
  /\ defects \in {0, 1} /\ unbound \in {0, 1}
  /\ names \in SUBSET Names
  /\ ringsAlive \in BOOLEAN

LogTypeOK ==
  /\ written \in [Lanes -> Nat]
  /\ failedOrDiscarded \in [Lanes -> Nat]
  /\ disk \in [Lanes -> Seq(Nat)]

FileTypeOK ==
  /\ rep \in [Lanes -> [attempted : Nat, accepted : Nat, written : Nat,
                        dropped : Nat, failed : Nat]]
  /\ trailer \in [terminal : BOOLEAN, lanes : SUBSET Lanes,
                  footer : Verdicts \cup {"none"}, synced : BOOLEAN]

Reports == [verdict : Verdicts, path : Names, counted : BOOLEAN, timedOut : BOOLEAN]

SessionTypeOK ==
  /\ spc \in {"open", "sent", "joining", "done", "dropped"}
  /\ abandon \in BOOLEAN /\ chan \in BOOLEAN
  /\ completion \in Reports \cup {Nothing} /\ result \in Reports \cup {Nothing}

TypeOK ==
  /\ ProducersTypeOK /\ RingsTypeOK /\ WriterTypeOK /\ LogTypeOK /\ FileTypeOK
  /\ sink \in Sinks /\ SessionTypeOK

InFlight(l) == IF emitPc[l] = "idle" THEN 0 ELSE 1

\* At every instant each record a lane numbered is in exactly one place: still
\* in emit, in the ring, counted as a drop, written, or discarded by the sink.
\* Nothing the producer and the writer do at once loses or doubles a record.
LaneConservation ==
  \A l \in Lanes :
    seq[l] = written[l] + failedOrDiscarded[l] + Len(ring[l])
             + full[l] + disconnected[l] + InFlight(l)

Increasing(s) == \A i, j \in 1..Len(s) : i < j => s[i] < s[j]

\* The file holds a lane's records in the order they were emitted and none
\* twice, those still in the ring come after them, and the terminal line is
\* numbered after every record of the controller lane that is in the file.
FifoOrder ==
  /\ \A l \in Lanes :
       LET all == disk[l] \o ring[l]
       IN  Increasing(all) /\ \A i \in 1..Len(all) : all[i] <= seq[l]
  /\ termSeq # 0 => \A i \in 1..Len(disk[0]) : disk[0][i] < termSeq

\* TERMINAL_RESERVE_BYTES: a sink that has not failed never refuses a line of
\* the terminal accounting, whatever was drained and however many heartbeats.
AccountingFits ==
  ~sink.failed /\ wpc \in {"footers", "footer", "sync", "rename", "unlink"} =>
    /\ trailer.terminal
    /\ trailer.lanes = IF wpc = "footers" THEN {l \in Lanes : l < cur} ELSE Lanes
    /\ wpc \in {"sync", "rename", "unlink"} => trailer.footer # "none"

\* The "conservation accounting" finish returns: for a lane that was quiet from
\* the call on, attempted is every emit it ever made (and the terminal record
\* on lane 0) and written is what the file holds; for any other lane neither
\* claims more than happened.
ReportConserves ==
  result # Nothing /\ result.counted =>
    \A l \in Lanes :
      LET terminals == IF l = 0 THEN 1 ELSE 0
          inFile == Len(disk[l]) + (IF l = 0 /\ trailer.terminal THEN 1 ELSE 0)
      IN  /\ rep[l].attempted <= seq[l] + reentrant[l] + terminals
          /\ rep[l].written = inFile
          /\ l \notin late => rep[l].attempted = seq[l] + reentrant[l] + terminals

\* A final name is earned: the file is synced, ends with every footer and the
\* verdict it is named after, and "complete" means that a lane quiet since the
\* finish call lost no record at all and no driver ran without a lane.
FinalNameIsEarned ==
  \A v \in names \ {"open"} :
    /\ trailer = [terminal |-> TRUE, lanes |-> Lanes, footer |-> v, synced |-> TRUE]
    /\ 0 \notin late => defects = 0
    /\ v = "complete" =>
         \A l \in Lanes \ late : Len(disk[l]) = seq[l] /\ reentrant[l] = 0

\* Unless it timed out: a complete or lossy report names the one name the file
\* has, after its verdict; a report of a writer that was joined without an error
\* names a file that exists; one of a writer that panicked claims no end, and
\* its open name may be gone (finish, the join's error).
ReportMatchesFile ==
  result # Nothing /\ ~result.timedOut =>
    /\ result.verdict # "incomplete" =>
         result.path = result.verdict /\ names = {result.verdict}
    /\ wpc = "gone" => result.path \in names
    /\ wpc = "panicked" => result.verdict = "incomplete" /\ result.path = "open"

\* The file, its name and what finish reports of it agree, and none of them
\* claims a record that was lost or forgets one that was kept.
FileTellsTheTruth ==
  FifoOrder /\ ReportConserves /\ FinalNameIsEarned /\ ReportMatchesFile

\* A report that came from the writer is final: nothing touches the file later.
ReportIsFinal ==
  [][result # Nothing /\ ~result.timedOut => UNCHANGED <<disk, trailer, names>>]_vars

\* A writer abandoned before its second look at the flag, by a timeout or a
\* dropped session, leaves the .open name for ever: it never claims an end.
AbandonedStaysOpen ==
  [](abandon /\ wpc \in {"header", "top", "drain", "poll", "check", "exit"}
       => [](names = {"open"}))

\* finish is bounded whatever the writer does: stalled for ever, which its
\* timeout ends, or panicking after the report, which the join without a
\* timeout meets.
FinishReturns == spc = "sent" ~> spc = "done"

\* Once the session is finished or dropped a writer that is not stalled ends.
WriterStops == WriterRuns => (spc \in {"sent", "dropped"} ~> WriterGone)
-----------------------------------------------------------------------------
\* What the file promises, whoever writes it: see LossyTrace.
Promise == INSTANCE LossyTrace WITH
  emitted <- seq, log <- disk, closing <- spc # "open",
  verdict <- IF "complete" \in names THEN "complete"
             ELSE IF "lossy" \in names THEN "lossy" ELSE "open"

\* The rings, the writer and its shutdown together keep the promise of a lossy
\* log: what is recorded was emitted, in order, and the verdict is true.
KeepsPromise == Promise!Spec
=============================================================================
