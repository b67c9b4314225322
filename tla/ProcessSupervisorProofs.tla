---------------------- MODULE ProcessSupervisorProofs ----------------------
(***************************************************************************)
(* What is proved of the process supervisor, for any number of lines and    *)
(* any bound of the channel.  The events and the channel are, line for      *)
(* line, the part of the stream the reader has read; the reader's report    *)
(* says what it saw of the pipe's end, and a pipe that nobody holds stays   *)
(* closed; and what is known of the group's survivors stays known after a   *)
(* kill.                                                                    *)
(***************************************************************************)
EXTENDS ProcessSupervisor, WellFoundedInduction, TLAPS

---------------------------------------------------------------------------
(* The inductive invariant.                                                *)

Reports == {"ended", "failed"}
Pipes == {"in", "out"}
States == {"unborn", "alive", "dead"}

Typed ==
  /\ mode \in {"stream", "capture"} /\ child \in {"running", "exited", "killed"}
  /\ ends \subseteq Pipes
  /\ kin \in [Kin -> [state : States, holds : SUBSET Pipes]]
  /\ written \in Seq(Line) /\ events \in Seq({"event", "result"})
  /\ channel \in Seq(Line \cup Reports)
  /\ at \in 0 .. Len(written) /\ due \in Nat
  /\ expired \in BOOLEAN /\ ended \in BOOLEAN /\ readFailure \in BOOLEAN
  /\ malformed \in BOOLEAN /\ timedOut \in BOOLEAN /\ stopped \in BOOLEAN
  /\ surviving \in BOOLEAN
  /\ reader \in {"unstarted", "reading", "draining", "capturing", "finished"}
  /\ writer \in {"unstarted", "writing", "finished"}
  /\ pc \in {"spawned", "turn", "survivors", "kill", "probe", "settle", "collect", "done"}
  /\ outcome \in {"none", "interrupted", "completed"}
  /\ streamError \in {"none", "malformed", "readFailed", "noResult"}

\* The lines the reader has read: only the last may end trust, and it does once
\* the reader drains.
Read ==
  /\ mode = "stream" => \A i \in 1 .. at - 1 : ~EndsTrust(written[i])
  /\ reader = "reading" => \A i \in 1 .. at : ~EndsTrust(written[i])
  /\ reader = "draining" => at > 0 /\ EndsTrust(written[at])

\* The events kept are the first of those lines.
Kept ==
  /\ Len(events) <= at
  /\ \A i \in 1 .. Len(events) : events[i] = written[i]

\* How many lines the supervisor has taken, and how many events the reader has read.
Taken == IF malformed THEN Len(events) + 1 ELSE Len(events)
EventsRead == IF at > 0 /\ written[at] = "bad" THEN at - 1 ELSE at

Reported == reader = "finished" /\ ~ended

\* What the supervisor has not taken is in the channel: lines, then the report.
InFlight ==
  /\ malformed => at = Len(events) + 1 /\ written[at] = "bad"
  /\ Len(channel) = at - Taken + (IF Reported THEN 1 ELSE 0)
  /\ \A i \in 1 .. at - Taken : channel[i] = written[Taken + i]
  /\ Reported => channel[Len(channel)] \in Reports

\* A reader that did not fail saw the end of the pipe, which stays closed.
Clean ==
  /\ reader = "finished"
  /\ IF ended THEN ~readFailure ELSE channel[Len(channel)] = "ended"
SawTheEnd ==
  /\ ~Held("out")
  /\ at = Len(written) \/ (at > 0 /\ EndsTrust(written[at]))

Streaming ==
  mode = "stream" =>
    /\ reader # "capturing" /\ pc \in {"spawned", "turn", "kill", "probe", "done"}
    /\ ended => reader = "finished"
    /\ readFailure => ended
    /\ ended /\ ~timedOut => channel = <<>>
    /\ ~timedOut => InFlight /\ (Clean => SawTheEnd)
    /\ timedOut => pc \in {"kill", "probe", "done"}
    /\ stopped => pc \in {"kill", "probe", "done"}
    /\ pc \in {"kill", "probe"} => timedOut \/ stopped
    /\ expired => due <= EventsRead
    /\ timedOut => due <= Len(events)
    /\ timedOut => expired

Capturing ==
  mode = "capture" =>
    /\ reader \notin {"reading", "draining"}
    /\ channel = <<>> /\ events = <<>> /\ due = 0 /\ ~stopped
    /\ outcome = "none" /\ streamError = "none"
    /\ pc \in {"kill", "probe"} => timedOut \/ reader = "finished"
    /\ pc = "settle" => timedOut
    /\ pc = "survivors" => reader = "finished" /\ ~timedOut /\ child # "running"
    /\ pc = "collect" /\ reader # "finished" =>
         timedOut /\ (surviving \/ kin["stray"].state # "unborn")
    /\ timedOut => pc \in {"kill", "probe", "settle", "collect", "done"}

\* After a kill, nobody is born, and who still lives of the group is reported.
Killed ==
  /\ pc \in {"probe", "settle", "collect"} => child # "running"
  /\ pc \in {"settle", "collect"} => (Alive("mate") => surviving)
  /\ child = "killed" => pc \in {"probe", "settle", "collect", "done"}
  /\ pc = "spawned" => writer = "unstarted" /\ reader = "unstarted" /\ at = 0

Judged ==
  /\ outcome # "none" => pc = "done"
  /\ streamError # "none" => pc = "done"

IInv ==
  /\ Typed /\ Read /\ Kept
  /\ Streaming /\ Capturing /\ Killed /\ Judged
  /\ EndsAreTrue /\ KillsAccounted
---------------------------------------------------------------------------
(* The events that are read, and the pipe.                                 *)

LEMMA LeadingIs ==
  ASSUME NEW s, NEW n \in 0 .. Len(s), Len(s) \in Nat,
         \A i \in 1 .. n : IsEvent(s[i]),
         n < Len(s) => ~IsEvent(s[n + 1])
  PROVE  Leading(s) = n
<1> DEFINE P(m) == /\ \A i \in 1 .. m : IsEvent(s[i])
                   /\ m < Len(s) => ~IsEvent(s[m + 1])
<1>1. P(n)
  OBVIOUS
<1>2. \A m \in 0 .. Len(s) : P(m) => m = n
  OBVIOUS
<1>3. Leading(s) = CHOOSE m \in 0 .. Len(s) : P(m)
  BY DEF Leading
<1> QED
  BY <1>1, <1>2, <1>3

LEMMA NothingDelivered == Len(<<>>) = 0 /\ Delivered(<<>>) = <<>>
<1>1. Leading(<<>>) = 0
  BY LeadingIs
<1> QED
  BY <1>1 DEF Delivered

\* Before the deadline, what the channel delivers is the events not yet taken.
LEMMA DeliveredIs ==
  ASSUME Typed, Read, Kept, InFlight, mode = "stream"
  PROVE  /\ EventsRead \in Nat /\ Len(events) <= EventsRead /\ EventsRead <= at
         /\ Len(Delivered(channel)) = EventsRead - Len(events)
         /\ \A i \in 1 .. EventsRead - Len(events) :
              Delivered(channel)[i] = written[Len(events) + i]
         /\ \A i \in 1 .. EventsRead : written[i] \in {"event", "result"}
         /\ Delivered(channel) \in Seq({"event", "result"})
<1> DEFINE c == Len(events)
           n == EventsRead - c
<1>1. /\ at \in Nat /\ at <= Len(written) /\ Len(written) \in Nat /\ c \in Nat /\ c <= at
      /\ Len(channel) \in Nat
      /\ \A i \in 1 .. Len(written) : written[i] \in Line
      /\ \A i \in 1 .. c : written[i] \in {"event", "result"}
      /\ malformed \in BOOLEAN
  BY SMTT(30) DEF Typed, Kept
<1>2. EventsRead \in Nat /\ c <= EventsRead /\ EventsRead <= at
  BY <1>1 DEF EventsRead, InFlight
<1>3. \A i \in 1 .. EventsRead : written[i] \in {"event", "result"}
  <2> TAKE i \in 1 .. EventsRead
  <2>1. CASE i < at
    <3>1. ~EndsTrust(written[i])
      BY <1>1, <1>2, <2>1 DEF Read
    <3> QED
      BY <1>1, <1>2, <2>1, <3>1 DEF EndsTrust, Line
  <2>2. CASE i = at
    BY <1>1, <1>2, <2>2 DEF EventsRead, Line
  <2> QED
    BY <1>1, <1>2, <2>1, <2>2
<1>4. /\ n \in 0 .. Len(channel)
      /\ \A i \in 1 .. n : channel[i] = written[c + i]
      /\ n < Len(channel) => ~IsEvent(channel[n + 1])
  <2>1. CASE malformed
    <3>1. at = c + 1 /\ EventsRead = c /\ n = 0
      BY <1>1, <2>1 DEF InFlight, EventsRead
    <3>2. Len(channel) = IF Reported THEN 1 ELSE 0
      BY <1>1, <2>1, <3>1 DEF InFlight, Taken
    <3> QED
      BY <1>1, <3>1, <3>2 DEF InFlight, Reports, IsEvent
  <2>2. CASE ~malformed
    <3>1. /\ Len(channel) = at - c + (IF Reported THEN 1 ELSE 0)
          /\ \A i \in 1 .. at - c : channel[i] = written[c + i]
          /\ Reported => channel[Len(channel)] \in Reports
      BY <2>2 DEF InFlight, Taken
    <3>2. CASE at > 0 /\ written[at] = "bad"
      <4>1. EventsRead = at - 1 /\ n = at - c - 1 /\ at > c
        BY <1>1, <3>2 DEF EventsRead
      <4>2. channel[n + 1] = "bad"
        BY <1>1, <3>1, <3>2, <4>1, SMTT(30)
      <4> QED
        BY <1>1, <3>1, <4>1, <4>2 DEF IsEvent
    <3>3. CASE ~ (at > 0 /\ written[at] = "bad")
      <4>1. EventsRead = at /\ n = at - c
        BY <3>3 DEF EventsRead
      <4> QED
        BY <1>1, <3>1, <4>1 DEF IsEvent, Reports
    <3> QED
      BY <3>2, <3>3
  <2> QED
    BY <1>1, <2>1, <2>2
<1>5. \A i \in 1 .. n : IsEvent(channel[i])
  BY <1>1, <1>2, <1>3, <1>4 DEF IsEvent
<1>6. Leading(channel) = n
  <2> HIDE DEF n
  <2> QED
    BY <1>1, <1>4, <1>5, LeadingIs
<1>7. /\ Len(Delivered(channel)) = n
      /\ \A i \in 1 .. n : Delivered(channel)[i] = channel[i]
      /\ Delivered(channel) \in Seq({"event", "result"})
  <2> HIDE DEF n
  <2>1. Delivered(channel) = SubSeq(channel, 1, n)
    BY <1>6 DEF Delivered
  <2>2. channel \in Seq(Line \cup Reports)
    BY DEF Typed
  <2>3. SubSeq(channel, 1, n) = [i \in 1 .. n |-> channel[i]]
    BY <1>1, <1>4, <2>2
  <2>4. \A i \in 1 .. n : channel[i] \in {"event", "result"}
    BY <1>5 DEF IsEvent
  <2> QED
    BY <1>4, <2>1, <2>3, <2>4
<1> QED
  BY <1>1, <1>2, <1>3, <1>4, <1>7

\* What a step of the world does: a pipe nobody holds stays closed and what was
\* written through it stays as it is, and nobody is born of a child that ended.
Turns ==
  /\ mode' = mode /\ UNCHANGED <<threads, pc, found, result>> /\ pc # "done"
  /\ ~Held("out") => ~Held("out")' /\ written' = written
  /\ written' = written \/ \E line \in Line : written' = Append(written, line)
  /\ child' = child \/ (child = "running" /\ child' = "exited")
  /\ Alive("mate")' => Alive("mate") \/ child = "running"
  /\ kin["stray"].state # "unborn" => kin'["stray"].state # "unborn"
  /\ \/ expired' = expired /\ due' = due
     \/ /\ ~expired /\ expired' = TRUE /\ pc # "spawned"
        /\ due' = Len(events) + Len(Delivered(channel))
  /\ ends' \subseteq Pipes
  /\ kin' \in [Kin -> [state : States, holds : SUBSET Pipes]]
  /\ written' \in Seq(Line)

LEMMA WorldTurns == ASSUME Typed, World PROVE Turns
<1>1. UNCHANGED <<threads, pc, found, result>> /\ pc # "done"
  BY DEF World
<1>2. ASSUME NEW k \in Kin, NEW holds \in {ends, {}}, Fork(k, holds) PROVE Turns
  <2>1. /\ child = "running" /\ kin[k].state = "unborn"
        /\ kin' = [kin EXCEPT ![k] = [state |-> "alive", holds |-> holds]]
        /\ UNCHANGED <<mode, child, ends, written, expired, due>>
        /\ kin \in [Kin -> [state : States, holds : SUBSET Pipes]]
        /\ ends \subseteq Pipes /\ written \in Seq(Line)
    BY <1>2 DEF Fork, Typed
  <2>2. [state |-> "alive", holds |-> holds] \in [state : States, holds : SUBSET Pipes]
    BY <2>1 DEF States
  <2>3. kin' \in [Kin -> [state : States, holds : SUBSET Pipes]]
    BY <2>1, <2>2
  <2>4. \A l \in Kin : l # k => kin'[l] = kin[l]
    BY <2>1
  <2>5. kin'[k] = [state |-> "alive", holds |-> holds]
    BY <2>1
  <2>6. ~Held("out") => ~Held("out")'
    BY <1>2, <2>1, <2>4, <2>5 DEF Held, Takes, Alive
  <2>7. kin["stray"].state # "unborn" => kin'["stray"].state # "unborn"
    BY <2>1, <2>4 DEF Kin
  <2> QED
    BY <1>1, <2>1, <2>3, <2>6, <2>7 DEF Turns
<1>3. ASSUME NEW k \in Kin, KinExits(k) PROVE Turns
  <2>1. /\ kin' = [kin EXCEPT ![k] = Dead]
        /\ UNCHANGED <<mode, child, ends, written, expired, due>>
        /\ kin \in [Kin -> [state : States, holds : SUBSET Pipes]]
        /\ ends \subseteq Pipes /\ written \in Seq(Line)
    BY <1>3 DEF KinExits, Typed
  <2>2. Dead \in [state : States, holds : SUBSET Pipes] /\ Dead.state = "dead"
    BY DEF States, Dead
  <2>3. kin' \in [Kin -> [state : States, holds : SUBSET Pipes]]
    BY <2>1, <2>2
  <2>4. \A l \in Kin : kin'[l] = kin[l] \/ kin'[l].state = "dead"
    BY <2>1, <2>2
  <2>5. ~Held("out") => ~Held("out")'
    BY <2>1, <2>4 DEF Held, Takes, Alive
  <2>6. /\ kin["stray"].state # "unborn" => kin'["stray"].state # "unborn"
        /\ Alive("mate")' => Alive("mate")
    BY <2>4 DEF Kin, Alive
  <2> QED
    BY <1>1, <2>1, <2>3, <2>5, <2>6 DEF Turns
<1>4. ASSUME \/ ChildExits
             \/ \E pipe \in ends : ChildCloses(pipe)
             \/ Expire
      PROVE  Turns
  <2>1. kin' = kin /\ written' = written /\ mode' = mode
    BY <1>4 DEF ChildExits, ChildCloses, Expire
  <2>2. ~Held("out") => ~Held("out")'
    BY <1>4, <2>1 DEF ChildExits, ChildCloses, Expire, Held, Takes, Alive
  <2>3. ends' \subseteq Pipes
    BY <1>4 DEF ChildExits, ChildCloses, Expire, Typed
  <2>4. child' = child \/ (child = "running" /\ child' = "exited")
    BY <1>4 DEF ChildExits, ChildCloses, Expire
  <2>5. \/ expired' = expired /\ due' = due
        \/ /\ ~expired /\ expired' = TRUE /\ pc # "spawned"
           /\ due' = Len(events) + Len(Delivered(channel))
    BY <1>4 DEF ChildExits, ChildCloses, Expire
  <2> QED
    BY <1>1, <2>1, <2>2, <2>3, <2>4, <2>5 DEF Turns, Typed, Alive
<1>5. ASSUME NEW line \in Line, Write(line) PROVE Turns
  <2>1. /\ Held("out") /\ written' = Append(written, line)
        /\ UNCHANGED <<mode, child, ends, kin, expired, due>>
        /\ ends \subseteq Pipes /\ written \in Seq(Line)
    BY <1>5 DEF Write, Typed
  <2>2. written' \in Seq(Line)
    BY <2>1
  <2> QED
    BY <1>1, <2>1, <2>2 DEF Turns, Typed, Alive
<1> QED
  BY <1>2, <1>3, <1>4, <1>5 DEF World

---------------------------------------------------------------------------
(* The steps of the world and of the threads.                              *)

LEMMA InvInit == Init => IInv
<1> SUFFICES ASSUME Init PROVE IInv
  OBVIOUS
<1> USE DEF Init
<1>1. Typed
  <2>1. [state |-> "unborn", holds |-> {}] \in [state : States, holds : SUBSET Pipes]
    BY DEF States
  <2>2. kin \in [Kin -> [state : States, holds : SUBSET Pipes]]
    BY <2>1
  <2>3. /\ written = <<>> /\ written \in Seq(Line)
        /\ events = <<>> /\ events \in Seq({"event", "result"})
        /\ channel = <<>> /\ channel \in Seq(Line \cup Reports)
        /\ at \in 0 .. Len(written) /\ due \in Nat
    OBVIOUS
  <2> QED
    BY <2>2, <2>3 DEF Typed, Pipes
<1>2. Read /\ Kept
  BY DEF Read, Kept
<1>3. Streaming
  <2>1. Len(events) = 0 /\ Len(channel) = 0 /\ at = 0 /\ ~malformed /\ reader = "unstarted"
    OBVIOUS
  <2>2. Taken = 0 /\ ~Reported /\ ~Clean /\ EventsRead = 0
    BY <2>1 DEF Taken, Reported, Clean, EventsRead
  <2>3. InFlight
    BY <2>1, <2>2 DEF InFlight
  <2> QED
    BY <2>1, <2>2, <2>3 DEF Streaming
<1>4. Capturing /\ Killed /\ Judged
  BY DEF Capturing, Killed, Judged
<1>5. EndsAreTrue /\ KillsAccounted
  BY DEF EndsAreTrue, CompletedIsWhole, NoResultIsTrue, KillsAccounted, SurvivorsReported,
         CaptureKeepsOutput
<1> QED
  BY <1>1, <1>2, <1>3, <1>4, <1>5 DEF IInv

\* Until the supervision is done there is nothing to be true of its end.
LEMMA NotDone ==
  ASSUME Judged, pc # "done"
  PROVE  EndsAreTrue /\ KillsAccounted
BY DEF Judged, EndsAreTrue, CompletedIsWhole, NoResultIsTrue, KillsAccounted,
       SurvivorsReported, CaptureKeepsOutput

\* The same of the next state.
LEMMA NotDoneNext ==
  ASSUME Judged', pc' # "done"
  PROVE  EndsAreTrue' /\ KillsAccounted'
BY DEF Judged, EndsAreTrue, CompletedIsWhole, NoResultIsTrue, KillsAccounted,
       SurvivorsReported, CaptureKeepsOutput

\* A part of the stream that was read stays as it was read.
LEMMA ReadStays ==
  ASSUME Typed, written' = written \/ \E line \in Line : written' = Append(written, line)
  PROVE  /\ Len(written) \in Nat /\ Len(written') \in Nat /\ Len(written) <= Len(written')
         /\ \A i \in 1 .. Len(written) : written'[i] = written[i]
         /\ at \in Nat /\ at <= Len(written)
         /\ \A i \in 1 .. at : written'[i] = written[i]
<1>1. /\ written \in Seq(Line) /\ Len(written) \in Nat /\ at \in Nat /\ at <= Len(written)
  BY DEF Typed
<1>2. CASE written' = written
  BY <1>1, <1>2
<1>3. ASSUME NEW line \in Line, written' = Append(written, line)
      PROVE  /\ Len(written') = Len(written) + 1
             /\ \A i \in 1 .. Len(written) : written'[i] = written[i]
  BY <1>1, <1>3
<1> QED
  BY <1>1, <1>2, <1>3

LEMMA DoWorld == ASSUME IInv, World PROVE IInv'
<1>1. Typed /\ Turns
  BY WorldTurns DEF IInv
<1>2. /\ Len(written) \in Nat /\ Len(written') \in Nat /\ Len(written) <= Len(written')
      /\ at \in Nat /\ at <= Len(written)
      /\ \A i \in 1 .. at : written'[i] = written[i]
      /\ UNCHANGED <<mode, pc, reader, at, channel, writer, ended, events, readFailure,
                     malformed, timedOut, stopped, surviving, outcome, streamError>>
      /\ pc # "done"
  BY <1>1, ReadStays DEF Turns, threads, found, result
<1>3. EventsRead' = EventsRead
  BY <1>2 DEF EventsRead
<1>4. expired /\ ~expired' => FALSE
  BY <1>1 DEF Turns
<1>5. ~expired /\ expired' /\ mode = "stream" /\ ~timedOut => due' = EventsRead /\ due' \in Nat
  <2> SUFFICES ASSUME ~expired, expired', mode = "stream", ~timedOut
               PROVE  due' = EventsRead /\ due' \in Nat
    OBVIOUS
  <2>1. Read /\ Kept /\ InFlight
    BY DEF IInv, Streaming
  <2>2. due' = Len(events) + Len(Delivered(channel))
    BY <1>1 DEF Turns
  <2> QED
    BY <1>1, <2>1, <2>2, DeliveredIs DEF Typed
<1>6. mode = "capture" /\ due = 0 /\ channel = <<>> /\ events = <<>> => due' = 0
  BY <1>1, NothingDelivered DEF Turns
<1>7. mode \in {"stream", "capture"} /\ (mode = "stream" /\ timedOut => expired)
  BY <1>1 DEF IInv, Streaming, Typed
<1>8. mode = "capture" => channel = <<>> /\ events = <<>> /\ due = 0
  BY DEF IInv, Capturing
<1>9. due' \in Nat
  BY <1>1, <1>5, <1>6, <1>7, <1>8 DEF Turns, Typed
<1>10. Typed'
  <2>1. expired' \in BOOLEAN /\ child' \in {"running", "exited", "killed"}
    BY <1>1 DEF Turns, Typed
  <2>2. at' \in 0 .. Len(written')
    BY <1>2
  <2>3. /\ ends' \subseteq Pipes
        /\ kin' \in [Kin -> [state : States, holds : SUBSET Pipes]]
        /\ written' \in Seq(Line)
    BY <1>1 DEF Turns
  <2> QED
    BY <1>1, <1>2, <1>9, <2>1, <2>2, <2>3 DEF Typed
<1>11. Read'
  BY <1>2 DEF IInv, Read
<1>12. Kept'
  BY <1>1, <1>2 DEF IInv, Kept, Typed
<1>13. (InFlight => InFlight') \/ mode # "stream"
  <2> SUFFICES ASSUME InFlight PROVE InFlight'
    OBVIOUS
  <2>1. Taken' = Taken /\ Reported' = Reported
    BY <1>2 DEF Taken, Reported
  <2>2. Taken \in Nat
    BY <1>1 DEF Taken, Typed
  <2>3. malformed => Taken = at /\ at > 0
    BY <1>1 DEF InFlight, Taken, Typed
  <2>4. \A i \in 1 .. at - Taken : written'[Taken + i] = written[Taken + i]
    BY <1>2, <2>2
  <2>5. malformed => written'[at] = written[at]
    BY <1>2, <2>3
  <2> QED
    BY <1>2, <2>1, <2>4, <2>5 DEF InFlight
<1>14. (Clean => SawTheEnd) => (Clean' => SawTheEnd')
  <2> SUFFICES ASSUME Clean => SawTheEnd, Clean' PROVE SawTheEnd'
    OBVIOUS
  <2>1. SawTheEnd
    BY <1>2 DEF Clean
  <2>2. ~Held("out")' /\ written' = written
    BY <1>1, <2>1 DEF Turns, SawTheEnd
  <2> QED
    BY <1>2, <2>1, <2>2 DEF SawTheEnd
<1>15. Streaming'
  <2> SUFFICES ASSUME mode' = "stream" PROVE Streaming'
    BY DEF Streaming
  <2>1. Streaming /\ mode = "stream"
    BY <1>2 DEF IInv
  <2>2. ~timedOut' => InFlight' /\ (Clean' => SawTheEnd')
    BY <1>2, <1>13, <1>14, <2>1 DEF Streaming
  <2>3. (expired' => due' <= EventsRead') /\ (timedOut' => due' <= Len(events') /\ expired')
    <3>1. CASE expired' = expired /\ due' = due
      BY <1>2, <1>3, <2>1, <3>1 DEF Streaming
    <3>2. CASE ~expired /\ expired'
      BY <1>2, <1>3, <1>5, <1>7, <2>1, <3>2
    <3> QED
      BY <1>1, <3>1, <3>2 DEF Turns
  <2> QED
    BY <1>2, <2>1, <2>2, <2>3 DEF Streaming
<1>16. Capturing'
  BY <1>1, <1>2, <1>6 DEF IInv, Capturing, Turns
<1>17. Killed'
  BY <1>1, <1>2 DEF IInv, Killed, Turns
<1>18. Judged'
  BY <1>2 DEF IInv, Judged
<1> QED
  BY <1>2, <1>10, <1>11, <1>12, <1>15, <1>16, <1>17, <1>18, NotDoneNext DEF IInv

LEMMA DoThreads == ASSUME IInv, Threads PROVE IInv'
<1>1. /\ Typed /\ Read /\ Kept /\ Judged /\ pc # "done"
      /\ UNCHANGED <<mode, child, ends, kin, written, expired, due, pc, ended, events,
                     readFailure, malformed, timedOut, stopped, surviving, outcome,
                     streamError, bytes>>
  BY DEF IInv, Threads, world, found, result
<1>2. Held("out")' <=> Held("out")
  BY <1>1 DEF Held, Takes, Alive
<1>3. Judged'
  BY <1>1 DEF Judged
<1>4. at \in Nat /\ Len(written) \in Nat /\ at <= Len(written) /\ Len(channel) \in Nat
      /\ Len(events) \in Nat
  BY <1>1 DEF Typed
<1>5. CASE WriterEnds
  <2>1. UNCHANGED <<reader, at, channel>> /\ writer = "writing" /\ writer' = "finished"
    BY <1>5 DEF WriterEnds
  <2>2. Typed' /\ Read' /\ Kept'
    BY <1>1, <2>1 DEF Typed, Read, Kept
  <2>3. InFlight' <=> InFlight
    BY <1>1, <2>1 DEF InFlight, Taken, Reported
  <2>4. (Clean' <=> Clean) /\ (SawTheEnd' <=> SawTheEnd)
    BY <1>1, <1>2, <2>1 DEF Clean, SawTheEnd
  <2>5. EventsRead' = EventsRead
    BY <1>1, <2>1 DEF EventsRead
  <2>6. Streaming'
    BY <1>1, <2>1, <2>3, <2>4, <2>5 DEF IInv, Streaming
  <2>7. Capturing' /\ Killed'
    BY <1>1, <2>1 DEF IInv, Capturing, Killed, Alive
  <2> QED
    BY <1>1, <1>3, <2>2, <2>6, <2>7, NotDoneNext DEF IInv
<1>6. CASE ReadLine
  <2>1. PICK line \in Line : line = written[at + 1]
    BY <1>1, <1>4, <1>6 DEF ReadLine, Typed
  <2>2. /\ reader = "reading" /\ at < Len(written) /\ at' = at + 1 /\ UNCHANGED writer
        /\ channel' = Append(channel, line)
        /\ reader' = IF EndsTrust(line) THEN "draining" ELSE "reading"
    BY <1>6, <2>1 DEF ReadLine
  <2>3. mode = "stream"
    BY <1>1, <2>2 DEF IInv, Capturing, Typed
  <2>4. Typed'
    BY <1>1, <1>4, <2>2 DEF Typed
  <2>5. Read'
    BY <1>1, <1>4, <2>1, <2>2 DEF Read
  <2>6. Kept'
    BY <1>1, <1>4, <2>2 DEF Kept
  <2>7. EventsRead <= EventsRead'
    BY <1>1, <1>4, <2>2 DEF EventsRead
  <2>8. pc # "spawned"
    BY <2>2 DEF IInv, Killed
  <2>9. (~ended /\ ~malformed) \/ timedOut
    <3> SUFFICES ASSUME ~timedOut PROVE ~ended /\ ~malformed
      OBVIOUS
    <3>1. Streaming /\ InFlight
      BY <2>3 DEF IInv, Streaming
    <3>2. ~ended
      BY <2>2, <2>3, <3>1 DEF Streaming
    <3>3. ~malformed
      BY <1>1, <1>4, <2>2, <3>1 DEF InFlight, Read, EndsTrust
    <3> QED
      BY <3>2, <3>3
  <2>10. ~timedOut => InFlight'
    <3> SUFFICES ASSUME ~timedOut PROVE InFlight'
      OBVIOUS
    <3>1. InFlight /\ ~ended /\ ~malformed
      BY <2>3, <2>9 DEF IInv, Streaming
    <3>2. Taken = Len(events) /\ Taken' = Len(events) /\ ~Reported /\ ~Reported' /\ ~malformed'
      BY <1>1, <2>2, <3>1 DEF Taken, Reported
    <3>3. Len(channel) = at - Len(events)
          /\ \A i \in 1 .. at - Len(events) : channel[i] = written[Len(events) + i]
      BY <3>1, <3>2, <1>4 DEF InFlight
    <3>4. Len(events) <= at
      BY <1>1 DEF Kept
    <3>5. Len(channel') = at + 1 - Len(events)
      BY <1>1, <1>4, <2>2, <3>3 DEF Typed
    <3>6. \A i \in 1 .. at + 1 - Len(events) : channel'[i] = written[Len(events) + i]
      BY <1>1, <1>4, <2>1, <2>2, <3>3, <3>4 DEF Typed
    <3>7. PICK t : t = Len(events)
      OBVIOUS
    <3>8. Taken' = t /\ at' = at + 1 /\ written' = written
      BY <1>1, <2>2, <3>2, <3>7
    <3>9. Len(channel') = at' - Taken' + (IF Reported' THEN 1 ELSE 0)
      BY <1>4, <3>2, <3>5, <3>7, <3>8
    <3>10. \A i \in 1 .. at' - Taken' : channel'[i] = written'[Taken' + i]
      BY <1>4, <3>6, <3>7, <3>8
    <3> QED
      BY <3>2, <3>9, <3>10 DEF InFlight
  <2>11. ~Clean'
    BY <2>2 DEF Clean
  <2>12. Streaming'
    BY <1>1, <1>4, <2>2, <2>3, <2>7, <2>9, <2>10, <2>11 DEF IInv, Streaming, Typed, EventsRead
  <2>13. Capturing' /\ Killed'
    BY <1>1, <2>2, <2>3, <2>8 DEF IInv, Capturing, Killed, Alive
  <2> QED
    BY <1>1, <1>3, <2>4, <2>5, <2>6, <2>12, <2>13, NotDoneNext DEF IInv
<1>7. CASE ReaderEnds
  <2>1. PICK failed \in BOOLEAN :
          /\ ~failed => ~Held("out") /\ (reader = "reading" => at = Len(written))
          /\ channel' = Append(channel, Report(failed))
    BY <1>7 DEF ReaderEnds
  <2>2. reader \in {"reading", "draining"} /\ reader' = "finished" /\ UNCHANGED <<at, writer>>
    BY <1>7 DEF ReaderEnds
  <2>3. PICK r \in Reports : r = Report(failed) /\ (r = "ended" => ~failed)
    BY <2>1 DEF Report, Reports
  <2>4. mode = "stream" /\ pc # "spawned"
    BY <1>1, <2>2 DEF IInv, Capturing, Typed, Killed
  <2>5. Typed'
    BY <1>1, <1>4, <2>1, <2>2, <2>3 DEF Typed
  <2>6. Read' /\ Kept'
    BY <1>1, <2>2 DEF Read, Kept
  <2>7. EventsRead' = EventsRead
    BY <1>1, <2>2 DEF EventsRead
  <2>8. ~ended
    BY <2>2, <2>4 DEF IInv, Streaming
  <2>9. Len(channel') = Len(channel) + 1 /\ channel'[Len(channel) + 1] = r
        /\ \A i \in 1 .. Len(channel) : channel'[i] = channel[i]
    BY <1>1, <1>4, <2>1, <2>3 DEF Typed
  <2>10. ~timedOut => InFlight'
    <3> SUFFICES ASSUME ~timedOut PROVE InFlight'
      OBVIOUS
    <3>1. InFlight
      BY <2>4 DEF IInv, Streaming
    <3>2. Taken' = Taken /\ ~Reported /\ Reported'
      BY <1>1, <2>2, <2>8 DEF Taken, Reported
    <3>3. /\ Len(channel) = at - Taken /\ Taken \in Nat
          /\ \A i \in 1 .. at - Taken : channel[i] = written[Taken + i]
      BY <1>1, <1>4, <3>1, <3>2 DEF InFlight, Taken
    <3> QED
      BY <1>1, <1>4, <2>2, <2>3, <2>9, <3>1, <3>2, <3>3 DEF InFlight
  <2>11. Clean' => SawTheEnd'
    <3> SUFFICES ASSUME Clean' PROVE SawTheEnd'
      OBVIOUS
    <3>1. r = "ended"
      BY <1>1, <1>4, <2>8, <2>9 DEF Clean
    <3>2. ~Held("out") /\ (reader = "reading" => at = Len(written))
      BY <2>1, <2>3, <3>1
    <3> QED
      BY <1>1, <1>2, <2>2, <3>2 DEF SawTheEnd, Read
  <2>12. Streaming'
    BY <1>1, <2>2, <2>4, <2>7, <2>10, <2>11 DEF IInv, Streaming
  <2>13. Capturing' /\ Killed'
    BY <1>1, <2>2, <2>4 DEF IInv, Capturing, Killed, Alive
  <2> QED
    BY <1>1, <1>3, <2>5, <2>6, <2>12, <2>13, NotDoneNext DEF IInv
<1>8. CASE CaptureReads
  <2>1. /\ reader = "capturing" /\ reader' = "finished" /\ at' = Len(written)
        /\ UNCHANGED <<channel, writer>>
    BY <1>8 DEF CaptureReads
  <2>2. mode = "capture" /\ pc # "spawned"
    BY <1>1, <2>1 DEF IInv, Streaming, Typed, Killed
  <2>3. Typed'
    BY <1>1, <1>4, <2>1 DEF Typed
  <2>4. Kept' /\ Read'
    BY <1>1, <1>4, <2>1, <2>2 DEF Kept, Read
  <2>5. Streaming' /\ Capturing' /\ Killed'
    BY <1>1, <2>1, <2>2 DEF IInv, Streaming, Capturing, Killed, Alive
  <2> QED
    BY <1>1, <1>3, <2>3, <2>4, <2>5, NotDoneNext DEF IInv
<1> QED
  BY <1>5, <1>6, <1>7, <1>8 DEF Threads

---------------------------------------------------------------------------
(* The steps of the supervisor.                                            *)

LEMMA DoConfirm == ASSUME IInv, Confirm PROVE IInv'
<1>1. /\ pc = "spawned" /\ pc' = "turn" /\ Typed
      /\ writer' = "writing" /\ reader' = IF mode = "stream" THEN "reading" ELSE "capturing"
      /\ UNCHANGED <<mode, child, ends, kin, written, expired, due, at, channel, ended, events,
                     readFailure, malformed, timedOut, stopped, surviving, outcome,
                     streamError, bytes>>
  BY DEF IInv, Confirm, world, found, result
<1>2. reader = "unstarted" /\ at = 0
  BY <1>1 DEF IInv, Killed
<1>3. Typed' /\ Judged'
  BY <1>1 DEF IInv, Typed, Judged
<1>4. Read' /\ Kept'
  BY <1>1, <1>2 DEF IInv, Read, Kept
<1>5. Streaming'
  <2>1. mode = "stream" => ~ended
    BY <1>1, <1>2 DEF IInv, Streaming
  <2>2. mode = "stream" => (InFlight' <=> InFlight)
    BY <1>1, <1>2, <2>1 DEF InFlight, Taken, Reported
  <2>3. ~Clean' /\ EventsRead' = EventsRead
    BY <1>1 DEF Clean, EventsRead
  <2> SUFFICES ASSUME mode = "stream" PROVE Streaming'
    BY <1>1 DEF Streaming
  <2>4. Streaming /\ ~timedOut /\ ~stopped
    BY <1>1 DEF IInv, Streaming
  <2>5. InFlight'
    BY <2>2, <2>4 DEF Streaming
  <2>6. reader' # "capturing" /\ (ended' => reader' = "finished") /\ (readFailure' => ended')
    BY <1>1, <2>1, <2>4 DEF Streaming
  <2> QED
    BY <1>1, <2>3, <2>4, <2>5, <2>6 DEF Streaming
<1>6. Capturing' /\ Killed'
  BY <1>1 DEF IInv, Capturing, Killed
<1> QED
  BY <1>1, <1>3, <1>4, <1>5, <1>6, NotDoneNext DEF IInv

\* The world, the threads and what was found of the stream stay as they are.
LEMMA Settled ==
  ASSUME IInv, UNCHANGED <<mode, child, ends, kin, written, expired, due, threads, ended, events,
                           readFailure, malformed>>
  PROVE  /\ Read' /\ Kept'
         /\ EventsRead' = EventsRead /\ (InFlight' <=> InFlight) /\ (Clean' <=> Clean)
         /\ (SawTheEnd' <=> SawTheEnd) /\ (Held("out")' <=> Held("out"))
<1>1. UNCHANGED <<mode, child, ends, kin, written, expired, due, reader, at, channel, writer,
                  ended, events, readFailure, malformed>>
  BY DEF threads
<1>2. Read' /\ Kept'
  BY <1>1 DEF IInv, Read, Kept
<1>3. Held("out")' <=> Held("out")
  BY <1>1 DEF Held, Takes, Alive
<1>4. EventsRead' = EventsRead /\ (InFlight' <=> InFlight) /\ (Clean' <=> Clean)
  BY <1>1 DEF EventsRead, InFlight, Clean, Taken, Reported
<1>5. SawTheEnd' <=> SawTheEnd
  BY <1>1, <1>3 DEF SawTheEnd
<1> QED
  BY <1>2, <1>3, <1>4, <1>5

LEMMA DoRefuse ==
  ASSUME IInv, RefuseSpawn \/ (pc = "turn" /\ mode = "stream" /\ TurnPollStops /\ UNCHANGED world)
  PROVE  IInv'
<1>1. /\ pc' = "kill" /\ mode = "stream" /\ stopped' = TRUE /\ pc \in {"spawned", "turn"}
      /\ UNCHANGED <<world, threads, ended, events, readFailure, malformed, timedOut, result>>
  BY DEF RefuseSpawn, TurnPollStops
<1>2. /\ UNCHANGED <<mode, child, ends, kin, written, expired, due, threads, ended, events,
                     readFailure, malformed>>
      /\ UNCHANGED <<reader, at, channel, writer, timedOut, surviving, outcome, streamError>>
  BY <1>1 DEF world, threads, result
<1>3. Typed' /\ Judged'
  BY <1>1, <1>2 DEF IInv, Typed, Judged
<1>4. /\ Read' /\ Kept'
      /\ EventsRead' = EventsRead /\ (InFlight' <=> InFlight) /\ (Clean' <=> Clean)
      /\ (SawTheEnd' <=> SawTheEnd)
  BY <1>2, Settled
<1>5. ~timedOut /\ Streaming
  BY <1>1 DEF IInv, Streaming
<1>6. ~timedOut' /\ InFlight' /\ (Clean' => SawTheEnd')
  BY <1>1, <1>2, <1>4, <1>5 DEF Streaming
<1>7. Streaming'
  BY <1>1, <1>2, <1>4, <1>5, <1>6 DEF Streaming
<1>8. Capturing' /\ Killed'
  BY <1>1, <1>2 DEF IInv, Capturing, Killed
<1> QED
  BY <1>1, <1>3, <1>4, <1>7, <1>8, NotDoneNext DEF IInv

LEMMA DoTimesOut ==
  ASSUME IInv, pc = "turn", mode = "stream", TurnTimesOut, UNCHANGED world
  PROVE  IInv'
<1>1. /\ Typed /\ Read /\ Kept /\ Streaming /\ ~timedOut /\ InFlight
      /\ expired /\ timedOut' = TRUE /\ pc' = "kill" /\ channel' = <<>>
      /\ events' = events \o Delivered(Drained)
      /\ malformed' = (malformed \/ Contains(Drained, "bad"))
      /\ UNCHANGED <<mode, child, ends, kin, written, expired, due, reader, at, writer, ended,
                     readFailure, stopped, surviving, outcome, streamError>>
  BY DEF IInv, Streaming, TurnTimesOut, world, result
<1>2. /\ EventsRead \in Nat /\ Len(events) <= EventsRead /\ EventsRead <= at
      /\ \A i \in 1 .. EventsRead : written[i] \in {"event", "result"}
      /\ at \in Nat /\ at <= Len(written) /\ Len(written) \in Nat /\ Len(events) \in Nat
  BY <1>1, DeliveredIs DEF Typed
<1>3. PICK d : d = Delivered(Drained)
  OBVIOUS
<1>4. /\ d \in Seq({"event", "result"}) /\ Len(d) = EventsRead - Len(events)
      /\ \A i \in 1 .. Len(d) : d[i] = written[Len(events) + i]
  <2>1. CASE ended
    <3>1. d = <<>>
      BY <1>3, <2>1, NothingDelivered DEF Drained
    <3>2. at = Taken
      <4>1. Len(channel) = at - Taken /\ Len(channel) \in Nat /\ Taken \in Nat
        BY <1>1, <2>1 DEF InFlight, Reported, Typed, Taken
      <4>2. channel = <<>>
        BY <1>1, <2>1 DEF Streaming
      <4> QED
        BY <1>2, <4>1, <4>2
    <3>3. EventsRead = Len(events)
      BY <1>1, <1>2, <3>2 DEF Taken, EventsRead, InFlight, Kept, Typed
    <3> QED
      BY <1>2, <3>1, <3>3
  <2>2. CASE ~ended
    <3>1. d = Delivered(channel)
      BY <1>3, <2>2 DEF Drained
    <3> QED
      BY <1>1, <1>2, <3>1, DeliveredIs
  <2> QED
    BY <2>1, <2>2
<1>5. /\ events' \in Seq({"event", "result"}) /\ Len(events') = EventsRead
      /\ \A i \in 1 .. EventsRead : events'[i] = written[i]
  <2>1. events' = events \o d /\ events \in Seq({"event", "result"})
    BY <1>1, <1>3 DEF Typed
  <2>2. events' \in Seq({"event", "result"}) /\ Len(events') = EventsRead
    BY <1>2, <1>4, <2>1
  <2>3. ASSUME NEW i \in 1 .. EventsRead PROVE events'[i] = written[i]
    <3>1. CASE i <= Len(events)
      BY <1>1, <1>2, <1>4, <2>1, <2>3, <3>1 DEF Kept
    <3>2. CASE i > Len(events)
      BY <1>2, <1>4, <2>1, <2>3, <3>2
    <3> QED
      BY <1>2, <3>1, <3>2
  <2> QED
    BY <2>2, <2>3
<1>6. malformed' \in BOOLEAN
  BY <1>1 DEF Typed
<1>7. Typed'
  BY <1>1, <1>5, <1>6 DEF Typed
<1>8. Read' /\ Kept'
  BY <1>1, <1>2, <1>5 DEF Read, Kept
<1>9. EventsRead' = EventsRead
  BY <1>1 DEF EventsRead
<1>10. Streaming'
  BY <1>1, <1>5, <1>9 DEF Streaming
<1>11. Capturing' /\ Killed' /\ Judged'
  BY <1>1 DEF IInv, Capturing, Killed, Judged
<1> QED
  BY <1>1, <1>7, <1>8, <1>10, <1>11, NotDoneNext DEF IInv

LEMMA DoReceives ==
  ASSUME IInv, pc = "turn", mode = "stream", TurnReceives, UNCHANGED world
  PROVE  IInv'
<1>1. /\ Typed /\ Read /\ Kept /\ Streaming /\ ~timedOut /\ InFlight
      /\ ~expired /\ ~ended /\ channel # <<>> /\ channel' = Tail(channel)
      /\ UNCHANGED <<mode, child, ends, kin, written, expired, due, reader, at, writer,
                     timedOut, surviving, outcome, streamError>>
  BY DEF IInv, Streaming, TurnReceives, world, result
<1>2. PICK item : item = Head(channel)
  OBVIOUS
<1>3. /\ events' = IF IsEvent(item) THEN Append(events, item) ELSE events
      /\ malformed' = (malformed \/ item = "bad")
      /\ ended' = (item \in {"ended", "failed"})
      /\ readFailure' = (item = "failed")
      /\ stopped' \in BOOLEAN /\ pc' = IF stopped' THEN "kill" ELSE "turn"
  <2>1. PICK stop \in IF IsEvent(item) THEN BOOLEAN ELSE {FALSE} :
          stopped' = stop /\ pc' = IF stop THEN "kill" ELSE "turn"
    BY <1>2 DEF TurnReceives
  <2>2. stop \in BOOLEAN
    BY <2>1
  <2>3. /\ events' = IF IsEvent(item) THEN Append(events, item) ELSE events
        /\ malformed' = (malformed \/ item = "bad")
        /\ ended' = (item \in {"ended", "failed"})
        /\ readFailure' = (item = "failed")
    BY <1>2 DEF TurnReceives
  <2> QED
    BY <2>1, <2>2, <2>3
<1>4. /\ Len(channel) \in Nat \ {0} /\ item = channel[1] /\ item \in Line \cup Reports
      /\ Len(channel') = Len(channel) - 1
      /\ \A i \in 1 .. Len(channel) - 1 : channel'[i] = channel[i + 1]
      /\ channel' \in Seq(Line \cup Reports)
      /\ at \in Nat /\ at <= Len(written) /\ Len(written) \in Nat /\ Len(events) \in Nat
      /\ Len(events) <= at
      /\ \A i \in 1 .. Len(written) : written[i] \in Line
  BY <1>1, <1>2 DEF Typed, Kept
<1>5. EventsRead' = EventsRead
  BY <1>1 DEF EventsRead
<1>6. Judged' /\ Capturing' /\ Killed'
  BY <1>1, <1>3 DEF IInv, Judged, Capturing, Killed
<1>7. Read'
  BY <1>1 DEF Read
<1>8. PICK R \in {0, 1} : R = IF Reported THEN 1 ELSE 0
  OBVIOUS
<1>9. PICK t \in Nat : t = Taken
  BY <1>4 DEF Taken
<1>10. /\ Len(channel) = at - t + R /\ \A i \in 1 .. at - t : channel[i] = written[t + i]
       /\ R = 1 => channel[Len(channel)] \in Reports
       /\ malformed => at = t
  <2>1. /\ Len(channel) = at - Taken + (IF Reported THEN 1 ELSE 0)
        /\ \A i \in 1 .. at - Taken : channel[i] = written[Taken + i]
        /\ Reported => channel[Len(channel)] \in Reports
    BY <1>1 DEF InFlight
  <2>2. malformed => at = Taken
    BY <1>1, <1>4 DEF InFlight, Taken
  <2> QED
    BY <1>8, <1>9, <2>1, <2>2
<1>11. CASE t < at
  <2>1. item = written[t + 1] /\ ~malformed /\ t = Len(events)
    <3>1. ~malformed
      BY <1>4, <1>10, <1>11
    <3>2. t = Len(events)
      BY <1>9, <3>1 DEF Taken
    <3>3. 1 \in 1 .. at - t
      BY <1>4, <1>11
    <3>4. channel[1] = written[t + 1]
      BY <1>10, <3>3
    <3> QED
      BY <1>4, <3>1, <3>2, <3>4
  <2>2. item \in Line /\ ~ended' /\ ~readFailure'
    <3>1. item \in Line
      BY <1>4, <1>9, <1>11, <2>1
    <3> QED
      BY <1>3, <3>1 DEF Line
  <2>3. CASE item = "bad"
    <3>1. at = t + 1
      BY <1>1, <1>4, <1>11, <2>1, <2>3 DEF Read, EndsTrust
    <3>2. events' = events /\ malformed'
      BY <1>3, <2>3 DEF IsEvent
    <3>3. Typed' /\ Kept'
      BY <1>1, <1>3, <1>4, <3>2 DEF Typed, Kept
    <3>4. Taken' = t + 1 /\ Reported' = Reported
      BY <1>1, <2>1, <2>2, <3>2 DEF Taken, Reported
    <3>5. InFlight'
      <4>1. Len(channel') = at' - Taken' + (IF Reported' THEN 1 ELSE 0)
        BY <1>1, <1>4, <1>8, <1>10, <3>1, <3>4
      <4>2. Reported' => channel'[Len(channel')] \in Reports
        BY <1>4, <1>8, <1>10, <3>1, <3>4
      <4>3. \A i \in 1 .. at' - Taken' : channel'[i] = written'[Taken' + i]
        BY <1>1, <1>4, <3>1, <3>4
      <4>4. at' = Len(events') + 1 /\ written'[at'] = "bad"
        BY <1>1, <2>1, <2>3, <3>1, <3>2
      <4> QED
        BY <4>1, <4>2, <4>3, <4>4 DEF InFlight
    <3>6. Clean' => SawTheEnd'
      <4> SUFFICES ASSUME Clean' PROVE SawTheEnd'
        OBVIOUS
      <4>1. R = 1 /\ channel'[Len(channel')] = "ended"
        BY <1>1, <1>8, <2>2 DEF Clean, Reported
      <4>2. channel[Len(channel)] = "ended"
        BY <1>4, <1>10, <3>1, <4>1
      <4>3. Clean
        BY <1>1, <1>8, <4>1, <4>2 DEF Clean, Reported
      <4>4. SawTheEnd
        BY <1>1, <4>3 DEF Streaming
      <4> QED
        BY <1>1, <4>4 DEF SawTheEnd, Held, Takes, Alive
    <3>7. Streaming'
      BY <1>1, <1>3, <1>5, <2>2, <3>5, <3>6 DEF Streaming, IInv
    <3> QED
      BY <1>3, <1>6, <1>7, <3>3, <3>7, NotDoneNext DEF IInv
  <2>4. CASE item # "bad"
    <3>1. IsEvent(item) /\ events' = Append(events, item) /\ ~malformed'
      BY <1>3, <2>1, <2>2, <2>4 DEF IsEvent, Line
    <3>2. Typed'
      BY <1>1, <1>3, <1>4, <3>1 DEF Typed, IsEvent
    <3>3. Kept'
      BY <1>1, <1>4, <1>11, <2>1, <3>1 DEF Kept, Typed
    <3>4. Taken' = t + 1 /\ Reported' = Reported
      BY <1>1, <1>4, <2>1, <2>2, <3>1 DEF Taken, Reported, Typed
    <3>5. InFlight'
      <4>1. Len(channel') = at' - Taken' + (IF Reported' THEN 1 ELSE 0)
        BY <1>1, <1>4, <1>8, <1>10, <3>4
      <4>2. Reported' => channel'[Len(channel')] \in Reports
        BY <1>4, <1>8, <1>10, <1>11, <3>4
      <4>3. \A i \in 1 .. at' - Taken' : channel'[i] = written'[Taken' + i]
        BY <1>1, <1>4, <1>10, <3>4
      <4> QED
        BY <3>1, <4>1, <4>2, <4>3 DEF InFlight
    <3>6. Clean' => SawTheEnd'
      <4> SUFFICES ASSUME Clean' PROVE SawTheEnd'
        OBVIOUS
      <4>1. R = 1 /\ channel'[Len(channel')] = "ended"
        BY <1>1, <1>8, <2>2 DEF Clean, Reported
      <4>2. channel[Len(channel)] = "ended"
        BY <1>4, <1>10, <1>11, <4>1
      <4>3. Clean
        BY <1>1, <1>8, <4>1, <4>2 DEF Clean, Reported
      <4>4. SawTheEnd
        BY <1>1, <4>3 DEF Streaming
      <4> QED
        BY <1>1, <4>4 DEF SawTheEnd, Held, Takes, Alive
    <3>7. Streaming'
      BY <1>1, <1>3, <1>5, <2>2, <3>5, <3>6 DEF Streaming, IInv
    <3> QED
      BY <1>3, <1>6, <1>7, <3>2, <3>3, <3>7, NotDoneNext DEF IInv
  <2> QED
    BY <2>3, <2>4
<1>12. CASE t >= at
  <2>1. t = at /\ R = 1 /\ Len(channel) = 1 /\ item \in Reports /\ reader = "finished"
    <3>1. t <= at
      BY <1>1, <1>4, <1>9 DEF Taken, InFlight
    <3> QED
      BY <1>4, <1>8, <1>9, <1>10, <1>12, <3>1 DEF Reported
  <2>2. ended' /\ events' = events /\ malformed' = malformed /\ channel' = <<>>
    <3>1. channel' = <<>>
      BY <1>4, <2>1
    <3>2. item \in {"ended", "failed"}
      BY <2>1 DEF Reports
    <3>3. ~IsEvent(item) /\ item # "bad" /\ malformed \in BOOLEAN
      BY <1>1, <3>2 DEF IsEvent, Typed
    <3> QED
      BY <1>3, <3>1, <3>2, <3>3
  <2>3. Typed' /\ Kept'
    BY <1>1, <1>3, <1>4, <2>2 DEF Typed, Kept
  <2>4. Taken' = t /\ ~Reported'
    BY <1>9, <2>2 DEF Taken, Reported
  <2>5. InFlight'
    BY <1>1, <1>4, <2>1, <2>2, <2>4 DEF InFlight
  <2>6. Clean' => SawTheEnd'
    <3> SUFFICES ASSUME Clean' PROVE SawTheEnd'
      OBVIOUS
    <3>1. item = "ended"
      BY <1>3, <2>1, <2>2 DEF Clean, Reports
    <3>2. Clean
      BY <1>1, <1>4, <2>1, <3>1 DEF Clean
    <3>3. SawTheEnd
      BY <1>1, <3>2 DEF Streaming
    <3> QED
      BY <1>1, <3>3 DEF SawTheEnd, Held, Takes, Alive
  <2>7. Streaming'
    BY <1>1, <1>3, <1>5, <2>1, <2>2, <2>5, <2>6 DEF Streaming, IInv
  <2> QED
    BY <1>3, <1>6, <1>7, <2>3, <2>7, NotDoneNext DEF IInv
<1> QED
  BY <1>4, <1>11, <1>12

---------------------------------------------------------------------------
(* The ends of a supervision.                                              *)

\* A set of numbers has a least.
LEMMA FirstOf ==
  ASSUME NEW S, S \subseteq Nat, S # {}
  PROVE  \E m \in S : \A j \in S : m <= j
<1>1. PICK x \in S : \A y \in S : ~ (<<y, x>> \in OpToRel(<, Nat))
  BY NatLessThanWellFounded, WFMin
<1>2. \A y \in S : <<y, x>> \in Nat \X Nat
  OBVIOUS
<1>3. \A y \in S : y < x => <<y, x>> \in OpToRel(<, Nat)
  BY <1>2 DEF OpToRel
<1>4. \A y \in S : ~ (y < x)
  BY <1>1, <1>3, Zenon
<1> QED
  BY <1>4

\* Sequences of the same length and elements are the same.
LEMMA SameSequence ==
  ASSUME NEW S, NEW T, NEW s \in Seq(S), NEW t \in Seq(T), Len(s) = Len(t),
         \A i \in 1 .. Len(s) : s[i] = t[i]
  PROVE  s = t
OBVIOUS

\* The trusted lines are the ones up to the first that ends trust.
LEMMA TrustedIs ==
  ASSUME NEW n \in 0 .. Len(written), written \in Seq(Line),
         \A i \in 1 .. n - 1 : ~EndsTrust(written[i])
  PROVE  /\ Trusted \in Seq(Line) /\ Len(Trusted) \in Nat /\ Len(Trusted) >= n
         /\ \A i \in 1 .. n : Trusted[i] = written[i]
         /\ n > 0 /\ EndsTrust(written[n]) => Len(Trusted) = n
         /\ n = Len(written) => Trusted = written
<1> DEFINE last == {i \in DOMAIN written : EndsTrust(written[i])}
<1>1. Len(written) \in Nat /\ DOMAIN written = 1 .. Len(written)
  OBVIOUS
<1>2. CASE last = {}
  <2>1. Trusted = written
    BY <1>2 DEF Trusted
  <2>2. ~ (n > 0 /\ EndsTrust(written[n]))
    BY <1>1, <1>2
  <2>3. Len(Trusted) = Len(written) /\ Trusted \in Seq(Line)
    BY <2>1
  <2>4. \A i \in 1 .. n : Trusted[i] = written[i]
    BY <2>1
  <2>5. Len(Trusted) \in Nat /\ Len(Trusted) >= n
    BY <1>1, <2>3
  <2>6. n > 0 /\ EndsTrust(written[n]) => Len(Trusted) = n
    BY <2>2
  <2> QED
    BY <2>1, <2>3, <2>4, <2>5, <2>6
<1>3. CASE last # {}
  <2> DEFINE First(m) == m \in last /\ \A j \in last : m <= j
  <2>1. PICK m : First(m)
    <3>1. last \subseteq Nat /\ last # {}
      BY <1>1, <1>3
    <3> HIDE DEF last
    <3> QED
      BY <3>1, FirstOf
  <2>2. \A k : First(k) => k = m
    <3>1. last \subseteq Nat
      BY <1>1
    <3> HIDE DEF last
    <3> QED
      BY <2>1, <3>1
  <2>3. Trusted = SubSeq(written, 1, m)
    <3>1. Trusted = SubSeq(written, 1, CHOOSE i \in last : \A j \in last : i <= j)
      BY <1>3 DEF Trusted
    <3>2. (CHOOSE i \in last : \A j \in last : i <= j) = m
      <4> HIDE DEF last
      <4> QED
        BY <2>1, <2>2
    <3> QED
      BY <3>1, <3>2
  <2>4. m \in 1 .. Len(written) /\ m >= n
    BY <1>1, <2>1
  <2>5. n > 0 /\ EndsTrust(written[n]) => m = n
    BY <1>1, <2>1, <2>4
  <2>6. /\ Trusted \in Seq(Line) /\ Len(Trusted) = m
        /\ \A i \in 1 .. m : Trusted[i] = written[i]
    <3> HIDE DEF First
    <3> QED
      BY <1>1, <2>3, <2>4
  <2>7. n = Len(written) => Trusted = written
    <3> SUFFICES ASSUME n = Len(written) PROVE Trusted = written
      OBVIOUS
    <3>1. m = Len(written)
      BY <1>1, <2>4
    <3> QED
      BY <1>1, <2>6, <3>1, SameSequence
  <2> QED
    BY <2>4, <2>5, <2>6, <2>7
<1> QED
  BY <1>2, <1>3

LEMMA DoFinishes ==
  ASSUME IInv, pc = "turn", mode = "stream", TurnFinishes, UNCHANGED world
  PROVE  IInv'
<1> DEFINE error == StreamError(events, malformed, readFailure, FALSE)
<1>1. /\ Typed /\ Read /\ Kept /\ Streaming /\ ~timedOut /\ ~stopped /\ InFlight
      /\ Clean => SawTheEnd
      /\ ended /\ child = "exited" /\ reader = "finished" /\ writer = "finished"
      /\ channel = <<>>
  BY DEF IInv, Streaming, TurnFinishes, Finished, Killed, Typed
<1>2. UNCHANGED <<mode, child, ends, kin, written, expired, due, threads, ended, events,
                  readFailure, malformed, reader, at, channel, writer, timedOut, stopped>>
  BY DEF TurnFinishes, world, threads, found
<1>3. /\ pc' = "done" /\ surviving' = FALSE /\ streamError' = error
      /\ outcome' = IF error # "none" THEN "interrupted" ELSE "completed"
  BY <1>1 DEF TurnFinishes, Judge
<1>4. /\ malformed => error = "malformed"
      /\ ~malformed /\ readFailure => error = "readFailed"
      /\ ~malformed /\ ~readFailure =>
           /\ HasResult(events) => error = "none"
           /\ ~HasResult(events) => error = "noResult"
  BY DEF StreamError
<1> HIDE DEF error
<1>5. ~malformed /\ ~readFailure =>
        /\ at = Len(events) /\ ~Held("out")
        /\ at = Len(written) \/ (at > 0 /\ EndsTrust(written[at]))
  <2>1. Len(channel) = 0 /\ at \in Nat /\ Len(events) \in Nat
    BY <1>1 DEF Typed
  <2> QED
    BY <1>1, <2>1 DEF InFlight, Reported, Taken, Clean, SawTheEnd
<1>6. /\ at \in 0 .. Len(written) /\ Len(written) \in Nat /\ written \in Seq(Line)
      /\ events \in Seq({"event", "result"}) /\ Len(events) \in Nat
      /\ \A i \in 1 .. Len(events) : events[i] = written[i]
      /\ \A i \in 1 .. at - 1 : ~EndsTrust(written[i])
  BY <1>1 DEF Typed, Kept, Read
<1>7. Held("out")' <=> Held("out")
  BY <1>2 DEF Held, Takes, Alive
<1>8. Trusted' = Trusted
  BY <1>2 DEF Trusted
<1>9. CompletedIsWhole'
  <2> SUFFICES ASSUME outcome' = "completed"
               PROVE  ~Held("out") /\ events = Trusted /\ HasResult(events)
    BY <1>1, <1>2, <1>7, <1>8 DEF CompletedIsWhole, HasResult
  <2>1. ~malformed /\ ~readFailure /\ HasResult(events)
    BY <1>1, <1>3, <1>4 DEF Typed
  <2>2. PICK i \in 1 .. Len(events) : events[i] = "result"
    BY <1>6, <2>1 DEF HasResult
  <2>3. i = at /\ at > 0 /\ EndsTrust(written[at])
    BY <1>5, <1>6, <2>1, <2>2 DEF EndsTrust
  <2>4. /\ Trusted \in Seq(Line) /\ Len(Trusted) = at
        /\ \A j \in 1 .. at : Trusted[j] = written[j]
    BY <1>6, <2>3, TrustedIs
  <2>5. events = Trusted
    BY <1>5, <1>6, <2>1, <2>4, SameSequence
  <2> QED
    BY <1>5, <2>1, <2>5
<1>10. NoResultIsTrue'
  <2> SUFFICES ASSUME streamError' = "noResult"
               PROVE  events = written /\ ~HasResult(written) /\ ~Held("out")
    BY <1>2, <1>7 DEF NoResultIsTrue, HasResult
  <2>1. ~malformed /\ ~readFailure /\ ~HasResult(events)
    BY <1>1, <1>3, <1>4 DEF Typed
  <2>2. ~ (at > 0 /\ EndsTrust(written[at]))
    <3> SUFFICES ASSUME at > 0, EndsTrust(written[at]) PROVE FALSE
      OBVIOUS
    <3>1. at \in 1 .. Len(events) /\ events[at] \in {"event", "result"}
      BY <1>5, <1>6, <2>1
    <3>2. events[at] = "result"
      BY <1>6, <3>1 DEF EndsTrust
    <3> QED
      BY <1>6, <2>1, <3>1, <3>2 DEF HasResult
  <2>3. Len(events) = Len(written)
    BY <1>5, <2>1, <2>2
  <2>4. events = written
    BY <1>6, <2>3, SameSequence
  <2> QED
    BY <1>5, <2>1, <2>4
<1>11. Typed'
  BY <1>1, <1>2, <1>3, <1>4 DEF Typed
<1>12. Read' /\ Kept' /\ EventsRead' = EventsRead /\ InFlight' /\ (Clean' => SawTheEnd')
  BY <1>1, <1>2, Settled
<1>13. Streaming' /\ Capturing' /\ Killed' /\ Judged'
  BY <1>1, <1>2, <1>3, <1>12 DEF IInv, Streaming, Capturing, Killed, Judged
<1>14. KillsAccounted'
  BY <1>1, <1>2 DEF KillsAccounted, SurvivorsReported, CaptureKeepsOutput
<1> QED
  BY <1>9, <1>10, <1>11, <1>12, <1>13, <1>14 DEF IInv, EndsAreTrue

LEMMA DoCaptureTurn == ASSUME IInv, CaptureTurn PROVE IInv'
<1>1. /\ pc = "turn" /\ mode = "capture" /\ Typed /\ ~timedOut
      /\ UNCHANGED <<mode, child, ends, kin, written, expired, due, threads, ended, events,
                     readFailure, malformed, reader, at, channel, writer, stopped, surviving,
                     outcome, streamError, bytes>>
      /\ \/ CaptureEnded /\ pc' = "survivors" /\ timedOut' = timedOut
         \/ pc' = "kill" /\ timedOut' = TRUE
  BY DEF IInv, CaptureTurn, world, threads, result, Capturing
<1>2. /\ timedOut' \in BOOLEAN
      /\ pc' \in {"spawned", "turn", "survivors", "kill", "probe", "settle", "collect", "done"}
  BY <1>1 DEF Typed
<1>3. Typed' /\ Judged'
  BY <1>1, <1>2 DEF IInv, Typed, Judged
<1>4. Read' /\ Kept'
  BY <1>1, Settled
<1>5. Streaming' /\ Capturing' /\ Killed'
  BY <1>1 DEF IInv, Streaming, Capturing, Killed, CaptureEnded
<1> QED
  BY <1>1, <1>3, <1>4, <1>5, NotDoneNext DEF IInv

LEMMA DoSurvivors == ASSUME IInv, Survivors PROVE IInv'
<1>1. PICK zombie \in BOOLEAN :
        /\ surviving' = Answers(zombie)
        /\ pc' = IF Answers(zombie) THEN "kill" ELSE "collect"
  BY DEF Survivors, Zombies
<1>2. /\ pc = "survivors" /\ mode = "capture" /\ Typed
      /\ UNCHANGED <<mode, child, ends, kin, written, expired, due, threads, ended, events,
                     readFailure, malformed, reader, at, channel, writer, stopped, timedOut,
                     outcome, streamError, bytes>>
  BY DEF IInv, Survivors, world, threads, found, Streaming, Typed
<1>3. Answers(zombie) \in BOOLEAN /\ (Alive("mate") => Answers(zombie))
  BY DEF Answers, Alive
<1>4. Typed' /\ Judged'
  BY <1>1, <1>2, <1>3 DEF IInv, Typed, Judged
<1>5. Read' /\ Kept'
  BY <1>2, Settled
<1>6. Streaming' /\ Capturing' /\ Killed'
  BY <1>1, <1>2, <1>3 DEF IInv, Streaming, Capturing, Killed, Alive
<1> QED
  BY <1>1, <1>4, <1>5, <1>6, NotDoneNext DEF IInv

LEMMA DoKill == ASSUME IInv, Kill PROVE IInv'
<1>1. /\ pc = "kill" /\ pc' = "probe" /\ Typed
      /\ child' = IF child = "running" THEN "killed" ELSE child
      /\ kin' = kin \/ (Alive("mate") /\ kin' = [kin EXCEPT !["mate"] = Dead])
      /\ surviving' \in BOOLEAN
      /\ UNCHANGED <<mode, ends, written, expired, due, ended, events, readFailure, malformed,
                     reader, at, channel, writer, stopped, timedOut, outcome, streamError, bytes>>
  BY DEF IInv, Kill, threads, found, Typed
<1>2. /\ kin' \in [Kin -> [state : States, holds : SUBSET Pipes]]
      /\ kin'["stray"] = kin["stray"]
      /\ \A k \in Kin : kin'[k] = kin[k] \/ kin'[k].state = "dead"
  <2>1. Dead \in [state : States, holds : SUBSET Pipes] /\ Dead.state = "dead"
    BY DEF States, Dead
  <2>2. kin \in [Kin -> [state : States, holds : SUBSET Pipes]]
    BY <1>1 DEF Typed
  <2>3. CASE kin' = kin
    BY <2>2, <2>3
  <2>4. CASE kin' = [kin EXCEPT !["mate"] = Dead]
    BY <2>1, <2>2, <2>4 DEF Kin
  <2> QED
    BY <1>1, <2>3, <2>4
<1>3. ~Held("out") => ~Held("out")'
  BY <1>1, <1>2 DEF Held, Takes, Alive
<1>4. Typed'
  BY <1>1, <1>2 DEF Typed
<1>5. Read' /\ Kept' /\ Judged'
  BY <1>1 DEF IInv, Read, Kept, Judged
<1>6. /\ EventsRead' = EventsRead /\ (InFlight' <=> InFlight) /\ (Clean' <=> Clean)
      /\ SawTheEnd => SawTheEnd'
  BY <1>1, <1>3 DEF EventsRead, InFlight, Clean, SawTheEnd, Taken, Reported
<1>7. Streaming'
  <2>1. mode = "stream" /\ ~timedOut' => InFlight' /\ (Clean' => SawTheEnd')
    BY <1>1, <1>6 DEF IInv, Streaming
  <2> QED
    BY <1>1, <1>6, <2>1 DEF IInv, Streaming
<1>8. Capturing' /\ Killed'
  BY <1>1, <1>2 DEF IInv, Capturing, Killed
<1> QED
  BY <1>1, <1>4, <1>5, <1>7, <1>8, NotDoneNext DEF IInv

LEMMA DoProbe == ASSUME IInv, Probe PROVE IInv'
<1>1. PICK residual \in BOOLEAN :
        /\ Alive("mate") => residual
        /\ IF mode = "stream" THEN Judge(residual)
           ELSE /\ pc' = IF timedOut THEN "settle" ELSE "collect"
                /\ surviving' = residual
                /\ UNCHANGED <<outcome, streamError, bytes>>
  <2>1. PICK zombie \in BOOLEAN :
          IF mode = "stream" THEN Judge(surviving \/ Answers(zombie))
          ELSE /\ pc' = IF timedOut THEN "settle" ELSE "collect"
               /\ surviving' = (surviving \/ Answers(zombie))
               /\ UNCHANGED <<outcome, streamError, bytes>>
    BY DEF Probe, Zombies
  <2> DEFINE residual == surviving \/ Answers(zombie)
  <2>2. residual \in BOOLEAN /\ (Alive("mate") => residual)
    BY DEF IInv, Typed, Answers, Alive
  <2> QED
    BY <2>1, <2>2
<1>2. /\ pc = "probe" /\ Typed /\ Streaming
      /\ UNCHANGED <<mode, child, ends, kin, written, expired, due, threads, ended, events,
                     readFailure, malformed, reader, at, channel, writer, stopped, timedOut>>
  BY DEF IInv, Probe, world, threads, found
<1>3. /\ Read' /\ Kept' /\ EventsRead' = EventsRead /\ (InFlight' <=> InFlight)
      /\ (Clean' <=> Clean) /\ (SawTheEnd' <=> SawTheEnd)
  BY <1>2, Settled
<1>4. Alive("mate")' <=> Alive("mate")
  BY <1>2 DEF Alive
<1>5. CASE mode = "stream"
  <2>1. timedOut \/ stopped
    BY <1>2, <1>5 DEF Streaming
  <2>2. /\ pc' = "done" /\ surviving' = residual /\ outcome' = "interrupted"
        /\ streamError' = StreamError(events, malformed, readFailure, TRUE)
    BY <1>1, <1>5, <2>1 DEF Judge, IInv, Typed
  <2>3. streamError' \in {"malformed", "readFailed", "none"}
    BY <2>2 DEF StreamError
  <2>4. Typed'
    <3>1. /\ surviving' \in BOOLEAN /\ outcome' \in {"none", "interrupted", "completed"}
          /\ streamError' \in {"none", "malformed", "readFailed", "noResult"}
          /\ pc' \in {"spawned", "turn", "survivors", "kill", "probe", "settle", "collect", "done"}
      BY <2>2, <2>3
    <3> QED
      BY <1>2, <3>1 DEF Typed
  <2>5. Streaming' /\ Capturing' /\ Killed' /\ Judged'
    BY <1>2, <1>3, <1>5, <2>2 DEF IInv, Streaming, Capturing, Killed, Judged
  <2>6. EndsAreTrue'
    BY <2>2, <2>3 DEF EndsAreTrue, CompletedIsWhole, NoResultIsTrue
  <2>7. KillsAccounted'
    BY <1>1, <1>2, <1>4, <1>5, <2>2 DEF KillsAccounted, SurvivorsReported, CaptureKeepsOutput
  <2> QED
    BY <1>3, <2>4, <2>5, <2>6, <2>7 DEF IInv
<1>6. CASE mode = "capture"
  <2>1. /\ pc' = IF timedOut THEN "settle" ELSE "collect"
        /\ surviving' = residual
        /\ UNCHANGED <<outcome, streamError, bytes>>
    BY <1>1, <1>6
  <2>2. Typed' /\ Judged'
    BY <1>1, <1>2, <2>1 DEF IInv, Typed, Judged
  <2>3. Streaming' /\ Capturing' /\ Killed'
    BY <1>1, <1>2, <1>4, <1>6, <2>1 DEF IInv, Streaming, Capturing, Killed
  <2> QED
    BY <1>3, <2>1, <2>2, <2>3, NotDoneNext DEF IInv
<1> QED
  BY <1>2, <1>5, <1>6 DEF Typed

LEMMA DoSettle == ASSUME IInv, Settle PROVE IInv'
<1>1. /\ pc = "settle" /\ pc' = "collect" /\ mode = "capture" /\ Typed
      /\ reader = "finished" \/ Held("out")
      /\ UNCHANGED <<mode, child, ends, kin, written, expired, due, threads, ended, events,
                     readFailure, malformed, reader, at, channel, writer, stopped, timedOut,
                     surviving, outcome, streamError, bytes>>
  BY DEF IInv, Settle, world, threads, found, result, Streaming, Typed
<1>2. Typed' /\ Judged'
  BY <1>1 DEF IInv, Typed, Judged
<1>3. Read' /\ Kept'
  BY <1>1, Settled
<1>4. Held("out") => surviving \/ kin["stray"].state # "unborn"
  <2>1. child # "running" /\ (Alive("mate") => surviving)
    BY <1>1 DEF IInv, Killed
  <2>2. Held("out") => Alive("mate") \/ Alive("stray")
    BY <2>1 DEF Held, Takes, Kin
  <2> QED
    BY <2>1, <2>2 DEF Alive
<1>5. Alive("mate")' <=> Alive("mate")
  BY <1>1 DEF Alive
<1>6. Streaming' /\ Capturing' /\ Killed'
  BY <1>1, <1>4, <1>5 DEF IInv, Streaming, Capturing, Killed
<1> QED
  BY <1>1, <1>2, <1>3, <1>6, NotDoneNext DEF IInv

LEMMA DoCollect == ASSUME IInv, Collect PROVE IInv'
<1>1. /\ pc = "collect" /\ pc' = "done" /\ mode = "capture" /\ Typed
      /\ bytes' = IF reader = "finished" THEN written ELSE <<>>
      /\ UNCHANGED <<mode, child, ends, kin, written, expired, due, threads, ended, events,
                     readFailure, malformed, reader, at, channel, writer, stopped, timedOut,
                     surviving, outcome, streamError>>
  BY DEF IInv, Collect, world, threads, found, Streaming, Typed
<1>2. Typed' /\ Judged'
  BY <1>1 DEF IInv, Typed, Judged
<1>3. Read' /\ Kept'
  BY <1>1, Settled
<1>4. Streaming' /\ Capturing' /\ Killed'
  BY <1>1 DEF IInv, Streaming, Capturing, Killed
<1>5. outcome' = "none" /\ streamError' = "none"
  BY <1>1 DEF IInv, Capturing
<1>6. EndsAreTrue'
  BY <1>5 DEF EndsAreTrue, CompletedIsWhole, NoResultIsTrue
<1>7. Alive("mate")' => surviving'
  BY <1>1 DEF IInv, Killed, Alive
<1>8. bytes' # written' => timedOut' /\ (surviving' \/ kin'["stray"].state # "unborn")
  BY <1>1 DEF IInv, Capturing
<1>9. KillsAccounted'
  BY <1>7, <1>8 DEF KillsAccounted, SurvivorsReported, CaptureKeepsOutput
<1> QED
  BY <1>2, <1>3, <1>4, <1>6, <1>9 DEF IInv

---------------------------------------------------------------------------
(* Every step, and the theorems.                                           *)

LEMMA InvStep == IInv /\ [Next]_vars => IInv'
<1> SUFFICES ASSUME IInv, [Next]_vars PROVE IInv'
  OBVIOUS
<1>1. CASE Turn
  <2>1. /\ pc = "turn" /\ mode = "stream" /\ UNCHANGED world
        /\ TurnTimesOut \/ TurnFinishes \/ TurnPollStops \/ TurnReceives
    BY <1>1 DEF Turn
  <2> QED
    BY <2>1, DoTimesOut, DoFinishes, DoRefuse, DoReceives
<1>2. CASE Supervise /\ ~Turn
  <2>1. \/ Confirm \/ RefuseSpawn \/ CaptureTurn \/ Survivors \/ Kill \/ Probe \/ Settle \/ Collect
    BY <1>2 DEF Supervise
  <2> QED
    BY <2>1, DoConfirm, DoRefuse, DoCaptureTurn, DoSurvivors, DoKill, DoProbe, DoSettle, DoCollect
<1>3. CASE Threads
  BY <1>3, DoThreads
<1>4. CASE World
  BY <1>4, DoWorld
<1>5. CASE UNCHANGED vars
  <2>1. UNCHANGED <<mode, child, ends, kin, written, expired, due, threads, ended, events,
                    readFailure, malformed, reader, at, channel, writer, stopped, timedOut,
                    pc, surviving, outcome, streamError, bytes>>
    BY <1>5 DEF vars, world, threads, found, result
  <2>2. /\ Read' /\ Kept' /\ EventsRead' = EventsRead /\ (InFlight' <=> InFlight)
        /\ (Clean' <=> Clean) /\ (SawTheEnd' <=> SawTheEnd) /\ (Held("out")' <=> Held("out"))
    BY <2>1, Settled
  <2>3. Typed' /\ Judged' /\ Killed' /\ Capturing'
    BY <2>1 DEF IInv, Typed, Judged, Killed, Capturing, Alive
  <2>4. Streaming'
    BY <2>1, <2>2 DEF IInv, Streaming
  <2>5. EndsAreTrue'
    BY <2>1, <2>2 DEF IInv, EndsAreTrue, CompletedIsWhole, NoResultIsTrue, Trusted, HasResult
  <2>6. KillsAccounted'
    BY <2>1 DEF IInv, KillsAccounted, SurvivorsReported, CaptureKeepsOutput, Alive
  <2> QED
    BY <2>2, <2>3, <2>4, <2>5, <2>6 DEF IInv
<1> QED
  BY <1>1, <1>2, <1>3, <1>4, <1>5 DEF Next

\* The invariant holds in every reachable state.
LEMMA Invariance == Spec => []IInv
BY InvInit, InvStep, PTL DEF Spec

\* What is said of the end of a supervision is so, however many lines there are
\* and however far the reader runs ahead: a completion has seen the child exit,
\* the pipe close, the prompt written and every trusted line up to its result;
\* and a stream said to carry no result was read to its end and carried none.
THEOREM EndsStayTrue == Spec => []EndsAreTrue
<1>1. IInv => EndsAreTrue
  BY DEF IInv
<1> QED
  BY <1>1, Invariance, PTL

\* The events kept are the trusted lines in their order, whatever cut the
\* supervision short, and the deadline loses none the reader had delivered.
THEOREM EvidenceStaysKept == Spec => []EvidenceKept
<1>1. IInv => EvidenceKept
  <2> SUFFICES ASSUME IInv PROVE EvidenceKept
    OBVIOUS
  <2>1. /\ at \in 0 .. Len(written) /\ at \in Nat /\ Len(written) \in Nat /\ written \in Seq(Line)
        /\ events \in Seq({"event", "result"}) /\ Len(events) \in Nat /\ Len(events) <= at
        /\ \A i \in 1 .. Len(events) : events[i] = written[i]
        /\ mode \in {"stream", "capture"}
    BY DEF IInv, Typed, Kept
  <2>2. /\ Trusted \in Seq(Line) /\ Len(Trusted) \in Nat /\ Len(Trusted) >= Len(events)
        /\ \A i \in 1 .. Len(events) : Trusted[i] = events[i]
    <3>1. CASE mode = "stream"
      <4>1. \A i \in 1 .. at - 1 : ~EndsTrust(written[i])
        BY <3>1 DEF IInv, Read
      <4>2. /\ Trusted \in Seq(Line) /\ Len(Trusted) \in Nat /\ Len(Trusted) >= at
            /\ \A i \in 1 .. at : Trusted[i] = written[i]
        BY <2>1, <4>1, TrustedIs
      <4> QED
        BY <2>1, <4>2
    <3>2. CASE mode = "capture"
      <4>1. Len(events) = 0
        BY <3>2 DEF IInv, Capturing
      <4>2. 0 \in 0 .. Len(written) /\ \A i \in 1 .. 0 - 1 : ~EndsTrust(written[i])
        BY <2>1
      <4>3. Trusted \in Seq(Line) /\ Len(Trusted) \in Nat /\ Len(Trusted) >= 0
        BY ONLY <2>1, <4>2, TrustedIs
      <4> QED
        BY <4>1, <4>3
    <3> QED
      BY <2>1, <3>1, <3>2
  <2>3. IsPrefix(events, Trusted)
    <3>1. /\ SubSeq(events, 1, Len(events)) = [i \in 1 .. Len(events) |-> events[i]]
          /\ SubSeq(Trusted, 1, Len(events)) = [i \in 1 .. Len(events) |-> Trusted[i]]
      BY <2>1, <2>2
    <3> QED
      BY <2>1, <2>2, <3>1 DEF IsPrefix
  <2>4. pc = "done" /\ timedOut => Len(events) >= due
    BY <2>1 DEF IInv, Streaming, Capturing, Typed
  <2> QED
    BY <2>3, <2>4 DEF EvidenceKept
<1> QED
  BY <1>1, Invariance, PTL

\* Whoever of the group still lives after a kill, or after any capture, is
\* reported; and a capture loses its output to nothing but a deadline and a
\* process that held the pipe past the kill.
THEOREM KillsStayAccounted == Spec => []KillsAccounted
<1>1. IInv => KillsAccounted
  BY DEF IInv
<1> QED
  BY <1>1, Invariance, PTL

============================================================================
