------------------------- MODULE ProcessSupervisor -------------------------
(***************************************************************************)
(* The process supervisor of the adapter seam (supervisor.rs): one spawned  *)
(* child in a process group of its own, its pipes, the reader and writer    *)
(* threads, and the loop that reads the child under a deadline.             *)
(*                                                                          *)
(* Two callers share the process world and differ in the loop: "stream" is  *)
(* read_supervised, which decodes an event stream and asks a watch, and     *)
(* "capture" is capture_with_boundary, which keeps the raw bytes.           *)
(*                                                                          *)
(* The world is what the operating system and the child do: the child       *)
(* writes lines, leaves descendants in its group ("mate") or outside it     *)
(* ("stray", which started a session of its own), each holding the pipes it *)
(* inherited, and any of them may end by itself.  A line is an "event", a   *)
(* "result" (a terminal event) or "bad" (one the decoder rejects).  The two *)
(* output pipes of a capture are one pipe here, and size limits are a read  *)
(* failure.  Time is the flag expired.                                      *)
(***************************************************************************)
EXTENDS Naturals, Sequences, SequencesExt

CONSTANTS MaxLines,      \* lines the child's group writes
          ChannelBound   \* items the reader may be ahead (16 in the code)

ASSUME BoundsAssumption == MaxLines \in Nat /\ ChannelBound \in Nat \ {0}

Line == {"event", "result", "bad"}
Kin == {"mate", "stray"}

VARIABLES mode, child, ends, kin, written, expired,     \* the world
          reader, at, channel, writer,                  \* the threads
          pc, ended, events, readFailure, malformed, timedOut, stopped,
          surviving, outcome, streamError, bytes,       \* the supervisor
          due   \* history: events the reader had delivered at the deadline

world == <<mode, child, ends, kin, written, expired, due>>
threads == <<reader, at, channel, writer>>
found == <<ended, events, readFailure, malformed, timedOut, stopped>>
result == <<surviving, outcome, streamError, bytes>>
vars == <<world, threads, pc, found, result>>

Init ==
  /\ mode \in {"stream", "capture"}
  /\ child = "running" /\ ends = {"in", "out"}
  /\ kin = [k \in Kin |-> [state |-> "unborn", holds |-> {}]]
  /\ written = <<>> /\ expired = FALSE /\ due = 0
  /\ reader = "unstarted" /\ at = 0 /\ channel = <<>> /\ writer = "unstarted"
  /\ pc = "spawned"
  /\ ended = FALSE /\ events = <<>> /\ readFailure = FALSE /\ malformed = FALSE
  /\ timedOut = FALSE /\ stopped = FALSE
  /\ surviving = FALSE /\ outcome = "none" /\ streamError = "none" /\ bytes = <<>>

---------------------------------------------------------------------------
(* The world.                                                              *)

Dead == [state |-> "dead", holds |-> {}]
Alive(k) == kin[k].state = "alive"

\* A pipe is open while a process that inherited it lives and has not closed it.
Takes(pipe) == child = "running" /\ pipe \in ends
Held(pipe) == Takes(pipe) \/ \E k \in Kin : Alive(k) /\ pipe \in kin[k].holds

IsEvent(item) == item \in {"event", "result"}

\* The events among the items.  They come first: the reader stops at a malformed
\* line, and only its report follows, at which the draining stops.
Leading(items) ==
  CHOOSE n \in 0 .. Len(items) :
    /\ \A i \in 1 .. n : IsEvent(items[i])
    /\ n < Len(items) => ~IsEvent(items[n + 1])
Delivered(items) == SubSeq(items, 1, Leading(items))

\* A terminal event or a malformed line ends the trusted prefix.
EndsTrust(line) == line \in {"result", "bad"}

\* A descendant inherits the child's ends, or was started detached from them.
Fork(k, holds) ==
  /\ child = "running" /\ kin[k].state = "unborn"
  /\ kin' = [kin EXCEPT ![k] = [state |-> "alive", holds |-> holds]]
  /\ UNCHANGED <<mode, child, ends, written, expired, due>>

KinExits(k) ==
  /\ Alive(k)
  /\ kin' = [kin EXCEPT ![k] = Dead]
  /\ UNCHANGED <<mode, child, ends, written, expired, due>>

ChildExits ==
  /\ child = "running" /\ child' = "exited"
  /\ UNCHANGED <<mode, ends, kin, written, expired, due>>

\* A running child may close an end: the end of its output is not its exit.
ChildCloses(pipe) ==
  /\ Takes(pipe) /\ ends' = ends \ {pipe}
  /\ UNCHANGED <<mode, child, kin, written, expired, due>>

Write(line) ==
  /\ Held("out") /\ Len(written) < MaxLines
  \* Lines are told apart only where they are decoded.
  /\ mode = "capture" \/ (\E i \in DOMAIN written : EndsTrust(written[i])) => line = "event"
  /\ written' = Append(written, line)
  /\ UNCHANGED <<mode, child, ends, kin, expired, due>>

\* The deadline runs from the spawn, whatever the supervisor is doing.
Expire ==
  /\ pc # "spawned" /\ ~expired /\ expired' = TRUE
  /\ due' = Len(events) + Len(Delivered(channel))
  /\ UNCHANGED <<mode, child, ends, kin, written>>

World ==
  /\ pc # "done"
  /\ \/ \E k \in Kin, holds \in {ends, {}} : Fork(k, holds)
     \/ \E k \in Kin : KinExits(k)
     \/ ChildExits
     \/ \E pipe \in ends : ChildCloses(pipe)
     \/ \E line \in Line : Write(line)
     \/ Expire
  /\ UNCHANGED <<threads, pc, found, result>>

---------------------------------------------------------------------------
(* The reader and writer threads.                                          *)

\* The writer ends when its input was read, or when nobody is left to read it.
WriterEnds ==
  /\ writer = "writing" /\ writer' = "finished"
  /\ UNCHANGED <<reader, at, channel>>

\* A prompt nobody takes stays in the writer's hands while its pipe is held.
InputTaken == Takes("in") \/ ~Held("in")

Room == Len(channel) < ChannelBound

ReadLine ==
  /\ reader = "reading" /\ at < Len(written) /\ Room
  /\ LET line == written[at + 1] IN
       /\ at' = at + 1
       /\ channel' = Append(channel, line)
       /\ reader' = IF EndsTrust(line) THEN "draining" ELSE "reading"
  /\ UNCHANGED writer

\* Mutant: the end of the thread stands for the end of the pipe.
ReportClean(failed) == "ended"

\* What the reader reports last: whether it failed before the end of the pipe.
Report(failed) == IF failed THEN "failed" ELSE "ended"

ReaderEnds ==
  /\ reader \in {"reading", "draining"} /\ Room
  /\ \E failed \in BOOLEAN :
       /\ ~failed => ~Held("out") /\ (reader = "reading" => at = Len(written))
       /\ channel' = Append(channel, Report(failed))
  /\ reader' = "finished"
  /\ UNCHANGED <<at, writer>>

\* A capture's reader keeps every byte and ends with its pipe.
CaptureReads ==
  /\ reader = "capturing" /\ ~Held("out")
  /\ reader' = "finished" /\ at' = Len(written)
  /\ UNCHANGED <<channel, writer>>

Threads ==
  /\ pc # "done"
  /\ \/ InputTaken /\ WriterEnds
     \/ ReadLine
     \/ ReaderEnds
     \/ CaptureReads
  /\ UNCHANGED <<world, pc, found, result>>

---------------------------------------------------------------------------
(* The supervisor.                                                         *)

\* The caller confirms the spawn before the process is given its prompt.
Confirm ==
  /\ pc = "spawned" /\ pc' = "turn"
  /\ writer' = "writing" /\ reader' = IF mode = "stream" THEN "reading" ELSE "capturing"
  /\ UNCHANGED <<world, at, channel, found, result>>

RefuseSpawn ==
  /\ pc = "spawned" /\ mode = "stream" /\ pc' = "kill"
  /\ stopped' = TRUE
  /\ UNCHANGED <<world, threads, ended, events, readFailure, malformed, timedOut, result>>

\* The end of the stream, the child's exit and both threads: one turn sees all.
Finished ==
  /\ ended /\ child # "running"
  /\ reader = "finished" /\ writer = "finished"

HasResult(evts) == \E i \in DOMAIN evts : evts[i] = "result"

\* Which diagnostic is kept, and what the supervision amounts to.
StreamError(evts, bad, failed, interrupted) ==
  IF bad THEN "malformed"
  ELSE IF failed THEN "readFailed"
  ELSE IF ~HasResult(evts) /\ ~interrupted THEN "noResult" ELSE "none"

Judge(surv) ==
  LET interrupted == timedOut \/ stopped
      error == StreamError(events, malformed, readFailure, interrupted)
  IN /\ pc' = "done"
     /\ surviving' = surv
     /\ streamError' = error
     /\ outcome' = IF interrupted \/ error # "none" THEN "interrupted" ELSE "completed"
     /\ UNCHANGED bytes

\* Mutant: the channel is dropped at the deadline.
DrainedNothing == <<>>

\* What the reader had delivered by the deadline is absorbed without waiting.
Drained == IF ended THEN <<>> ELSE channel

TurnTimesOut ==
  /\ expired
  /\ timedOut' = TRUE
  /\ events' = events \o Delivered(Drained)
  /\ malformed' = (malformed \/ Contains(Drained, "bad"))
  /\ channel' = <<>> /\ pc' = "kill"
  /\ UNCHANGED <<reader, at, writer, ended, readFailure, stopped, result>>

TurnFinishes ==
  /\ ~expired /\ Finished
  /\ Judge(FALSE)
  /\ UNCHANGED <<threads, found>>

\* The watch's poll reads something outside the stream, such as a halt record.
TurnPollStops ==
  /\ ~expired /\ ~Finished
  /\ stopped' = TRUE /\ pc' = "kill"
  /\ UNCHANGED <<threads, ended, events, readFailure, malformed, timedOut, result>>

\* One item: the watch sees an event and may stop the process at it.
TurnReceives ==
  /\ ~expired /\ ~ended /\ channel # <<>>
  /\ channel' = Tail(channel)
  /\ LET item == Head(channel) IN
       /\ events' = IF IsEvent(item) THEN Append(events, item) ELSE events
       /\ malformed' = (malformed \/ item = "bad")
       /\ ended' = (item \in {"ended", "failed"})
       /\ readFailure' = (item = "failed")
       /\ \E stop \in IF IsEvent(item) THEN BOOLEAN ELSE {FALSE} :
            /\ stopped' = stop
            /\ pc' = IF stop THEN "kill" ELSE "turn"
  /\ UNCHANGED <<reader, at, writer, timedOut, result>>

Turn ==
  /\ pc = "turn" /\ mode = "stream"
  /\ TurnTimesOut \/ TurnFinishes \/ TurnPollStops \/ TurnReceives
  /\ UNCHANGED world

\* A capture looks for the end first and at the deadline after it.
CaptureEnded == child # "running" /\ reader = "finished"

CaptureTurn ==
  /\ pc = "turn" /\ mode = "capture"
  /\ \/ CaptureEnded /\ pc' = "survivors" /\ UNCHANGED timedOut
     \/ ~CaptureEnded /\ expired /\ pc' = "kill" /\ timedOut' = TRUE
  /\ UNCHANGED <<world, threads, ended, events, readFailure, malformed, stopped, result>>

\* Mutant: a kill that exits zero is taken for a kill that took.
AnswersNever(zombie) == zombie

\* Signal 0 answers for a member that lives, and for a zombie nobody reaped.
Answers(zombie) == Alive("mate") \/ zombie

Zombies == IF kin["mate"].state = "dead" THEN BOOLEAN ELSE {FALSE}

\* A capture whose child ended by itself: what is left in the group is killed.
Survivors ==
  /\ pc = "survivors"
  /\ \E zombie \in Zombies :
       /\ surviving' = Answers(zombie)
       /\ pc' = IF Answers(zombie) THEN "kill" ELSE "collect"
  /\ UNCHANGED <<world, threads, found, outcome, streamError, bytes>>

\* The group is killed and the child reaped.  A member may survive the signal,
\* and the kill command itself may not run.
Kill ==
  /\ pc = "kill" /\ pc' = "probe"
  /\ child' = IF child = "running" THEN "killed" ELSE child
  /\ \/ UNCHANGED <<kin, surviving>>
     \/ Alive("mate") /\ kin' = [kin EXCEPT !["mate"] = Dead] /\ UNCHANGED surviving
     \/ surviving' = TRUE /\ UNCHANGED kin
  /\ UNCHANGED <<mode, ends, written, expired, due, threads, found, outcome, streamError, bytes>>

\* Mutant: the supervisor joins the reader after the kill.
ProbeJoins ==
  /\ pc = "probe" /\ reader = "finished"
  /\ IF mode = "stream" THEN Judge(surviving)
     ELSE pc' = "settle" /\ UNCHANGED result
  /\ UNCHANGED <<world, threads, found>>

Probe ==
  /\ pc = "probe"
  /\ \E zombie \in Zombies :
       LET residual == surviving \/ Answers(zombie) IN
       IF mode = "stream" THEN Judge(residual)
       ELSE /\ pc' = IF timedOut THEN "settle" ELSE "collect"
            /\ surviving' = residual
            /\ UNCHANGED <<outcome, streamError, bytes>>
  /\ UNCHANGED <<world, threads, found>>

\* Two seconds for the readers of a timed-out capture: enough for a reader whose
\* pipe has closed, and a pipe that stays open is not waited for.
Settle ==
  /\ pc = "settle" /\ (reader = "finished" \/ Held("out"))
  /\ pc' = "collect"
  /\ UNCHANGED <<world, threads, found, result>>

\* With both readers finished the writer is joined; otherwise all are dropped.
Collect ==
  /\ pc = "collect"
  /\ reader = "finished" => writer = "finished"
  /\ bytes' = IF reader = "finished" THEN written ELSE <<>>
  /\ pc' = "done"
  /\ UNCHANGED <<world, threads, found, surviving, outcome, streamError>>

Supervise ==
  \/ Confirm \/ RefuseSpawn \/ Turn \/ CaptureTurn \/ Survivors
  \/ Kill \/ Probe \/ Settle \/ Collect

Next == Supervise \/ Threads \/ World

Spec == Init /\ [][Next]_vars

\* Time passes, and the supervising thread runs; the reader, the child and its
\* descendants owe nothing.  A writer whose input was taken or refused returns.
FairSpec ==
  /\ Spec
  /\ WF_vars(Supervise)
  /\ WF_vars(World /\ Expire)
  /\ WF_vars(Threads /\ (WriterEnds \/ CaptureReads))

---------------------------------------------------------------------------
TypeOK ==
  /\ mode \in {"stream", "capture"} /\ child \in {"running", "exited", "killed"}
  /\ ends \subseteq {"in", "out"}
  /\ kin \in [Kin -> [state : {"unborn", "alive", "dead"}, holds : SUBSET {"in", "out"}]]
  /\ written \in Seq(Line) /\ events \in Seq({"event", "result"})
  /\ at \in 0..Len(written) /\ Len(channel) <= ChannelBound
  /\ {expired, ended, readFailure, malformed, timedOut, stopped, surviving} \subseteq BOOLEAN
  /\ reader \in {"unstarted", "reading", "draining", "capturing", "finished"}
  /\ writer \in {"unstarted", "writing", "finished"}
  /\ pc \in {"spawned", "turn", "survivors", "kill", "probe", "settle", "collect", "done"}
  /\ outcome \in {"none", "interrupted", "completed"}
  /\ streamError \in {"none", "malformed", "readFailed", "noResult"}

\* The lines up to the first that ends trust.
Trusted ==
  LET last == {i \in DOMAIN written : EndsTrust(written[i])}
  IN IF last = {} THEN written ELSE SubSeq(written, 1, CHOOSE i \in last : \A j \in last : i <= j)

\* A completion is the whole story: the child ended by itself and its pipe
\* closed inside the deadline, the prompt was written, nobody asked it to stop,
\* and every trusted line was kept up to its result.  Neither the end of the
\* stream, nor a result, nor the child's exit is taken for the others.
CompletedIsWhole ==
  outcome = "completed" =>
    /\ child = "exited" /\ ~Held("out") /\ writer = "finished"
    /\ ~timedOut /\ ~stopped
    /\ events = Trusted /\ HasResult(events)

\* A stream is said to carry no result only when it was read to its end and
\* carried none: a reader that failed part way is not a clean end of file.
NoResultIsTrue ==
  streamError = "noResult" => events = written /\ ~HasResult(written) /\ ~Held("out")

\* What is said of an end is so: of a completion, and of a stream without result.
EndsAreTrue == CompletedIsWhole /\ NoResultIsTrue

\* An interruption keeps its evidence: the events are the trusted lines in
\* order, and the deadline loses none the reader had delivered before it.
EvidenceKept ==
  /\ IsPrefix(events, Trusted)
  /\ pc = "done" /\ timedOut => Len(events) >= due

\* Whoever is killed is accounted for: after a deadline, a stop, a refused
\* spawn or any capture, a member of the group that still lives is reported.
SurvivorsReported ==
  pc = "done" /\ (timedOut \/ stopped \/ mode = "capture") /\ Alive("mate") => surviving

\* A capture's output is lost only to a deadline and to a process that held
\* the pipe past the kill; a timeout by itself keeps what was written.
CaptureKeepsOutput ==
  pc = "done" /\ mode = "capture" /\ bytes # written =>
    timedOut /\ (surviving \/ kin["stray"].state # "unborn")

\* What a kill takes, and what it leaves, is accounted for.
KillsAccounted == SurvivorsReported /\ CaptureKeepsOutput

\* The deadline holds the supervisor itself: a child that never reads its
\* prompt, a descendant that keeps the pipe and a reader blocked on it cannot
\* keep a supervised stream from ending.
SupervisionEnds == mode = "stream" ~> pc = "done"
============================================================================
