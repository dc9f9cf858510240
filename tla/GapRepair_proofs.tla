-------------------------- MODULE GapRepair_proofs --------------------------
(***************************************************************************)
(* Proofs about GapRepair, for every set of channels and goroutines and    *)
(* every bound: the durable cursor passes no message that is forgotten.    *)
(***************************************************************************)
EXTENDS GapRepair, TLAPS

\* Numbers, markers and goroutines are of their kinds.
PostedOK == posted \in [Channels -> Nat]
SavedOK == saved \in [Channels -> Nat]
LiveOK == live \in [Channels -> Nat]
ResyncOK == resync \in [Channels -> Nat]
TargetOK == target \in [Channels -> Nat]
AcceptedOK == accepted \in [Channels -> SUBSET Nat]
MarksOK == marker \subseteq Channels /\ overlap \subseteq Channels
ReportersOK == reporter \in [Channels -> Reports]
SwitchesOK == again \in BOOLEAN /\ repairing \in BOOLEAN /\ up \in BOOLEAN
ThreadRows == [pc: Positions, mode: Modes, todo: SUBSET Channels, pts: [Channels -> Nat],
               channel: Channels \cup {0}, top: Nat]
ThreadsOK == thread \in [Threads -> ThreadRows]
GapSpentOK == spent \in [gaps: Nat, failures: Nat, crashes: Nat]

\* The goroutine inside the repair holds repairMu and works on a channel it listed.
InRepair == {"scan", "list", "next", "resolve", "walk", "pages", "complete"}
OnChannel == {"resolve", "walk", "pages", "complete"}
RepairIsLocked == /\ lock \in Threads \cup {None}
                  /\ \A t \in Threads : thread[t].pc \in InRepair => lock = t
ChannelIsListed == \A t \in Threads : thread[t].pc \in OnChannel => thread[t].channel \in thread[t].todo

\* Nothing of a stopped account runs.
DownIsStill == ~up => /\ \A t \in Threads : thread[t].pc = "off"
                      /\ \A c \in Channels : reporter[c] = "idle"

\* No cursor is ahead of the channel.
BehindPosted == \A c \in Channels :
  /\ saved[c] <= posted[c] /\ live[c] <= posted[c] /\ resync[c] <= posted[c] /\ target[c] <= posted[c]
  /\ \A t \in Threads : thread[t].pts[c] <= posted[c]

\* gotd is about to continue from the dialog's pts.
Resyncing(c) == reporter[c] \in {"record", "again", "start", "resync"}

\* A repair reads from beyond the pts it will save, and has accepted what it read when it saves it.
ReadsFromTop == \A t \in Threads :
  /\ thread[t].pc \in {"pages", "complete"} => thread[t].pts[thread[t].channel] <= thread[t].top
  /\ thread[t].pc = "complete" => 1..thread[t].top \subseteq accepted[thread[t].channel]

\* What the live cursor passes while a channel is read was accepted, unless a gap was reported.
LiveIsAccepted == \A t \in Threads : \A c \in Channels \ overlap :
  thread[t].pc \in {"pages", "complete"} /\ thread[t].channel = c =>
    /\ \A x \in 1..live[c] : x <= thread[t].top \/ x \in accepted[c]
    /\ Resyncing(c) => \A x \in 1..resync[c] : x <= thread[t].top \/ x \in accepted[c]

\* Without a marker every cursor, present or promised, is over accepted messages.
PassedIsAccepted == \A c \in Channels : c \notin marker \cup overlap =>
  /\ \A x \in 1..saved[c] : x \in accepted[c]
  /\ \A x \in 1..live[c] : x \in accepted[c]
  /\ Resyncing(c) => \A x \in 1..resync[c] : x \in accepted[c]

GapInv == PostedOK /\ SavedOK /\ LiveOK /\ ResyncOK /\ TargetOK /\ AcceptedOK /\ MarksOK /\ ReportersOK
          /\ SwitchesOK /\ ThreadsOK /\ GapSpentOK /\ RepairIsLocked /\ ChannelIsListed /\ DownIsStill
          /\ BehindPosted /\ ReadsFromTop /\ LiveIsAccepted /\ PassedIsAccepted

\* A goroutine that is off is one.
LEMMA OffOK == Off \in ThreadRows
  BY GapAssumption DEF Off, ThreadRows, Positions, Modes

\* One goroutine moves, the others stay.
LEMMA OneMoves ==
  ASSUME ThreadsOK, NEW t \in Threads, NEW row \in ThreadRows, thread' = [thread EXCEPT ![t] = row]
  PROVE  ThreadsOK' /\ thread'[t] = row /\ \A u \in Threads \ {t} : thread'[u] = thread[u]
  BY DEF ThreadsOK

\* A goroutine that neither reads a channel nor is about to keeps what is known of those that do.
LEMMA IdleMoves ==
  ASSUME GapInv, NEW t \in Threads, NEW row \in ThreadRows, thread' = [thread EXCEPT ![t] = row],
         row.pc \notin InRepair, \A c \in Channels : row.pts[c] <= posted[c],
         UNCHANGED <<posted, accepted, saved, live, resync, target, overlap, lock, reporter>>
  PROVE  ThreadsOK' /\ RepairIsLocked' /\ ChannelIsListed' /\ BehindPosted' /\ ReadsFromTop'
  <1>1. ThreadsOK' /\ thread'[t] = row /\ \A u \in Threads \ {t} : thread'[u] = thread[u]
    BY OneMoves DEF GapInv
  <1>2. RepairIsLocked'
    BY <1>1 DEF GapInv, RepairIsLocked
  <1>3. ChannelIsListed'
    BY <1>1 DEF GapInv, ChannelIsListed, OnChannel, InRepair
  <1>4. BehindPosted'
    BY <1>1 DEF GapInv, BehindPosted
  <1>5. ReadsFromTop'
    BY <1>1 DEF GapInv, ReadsFromTop, InRepair
  <1> QED
    BY <1>1, <1>2, <1>3, <1>4, <1>5

\* New messages are behind no cursor.
LEMMA PostKept ==
  ASSUME GapInv, NEW c \in Channels, Post(c)
  PROVE  GapInv'
  <1>1. PostedOK'
    BY DEF GapInv, PostedOK, Post, markers, flags, bounds
  <1>2. BehindPosted'
    BY DEF GapInv, BehindPosted, Post, markers, flags, bounds, Threads, PostedOK, SavedOK,
       LiveOK, ResyncOK, TargetOK, ThreadsOK, ThreadRows
  <1>3. /\ SavedOK' /\ LiveOK' /\ ResyncOK' /\ TargetOK' /\ AcceptedOK' /\ MarksOK'
        /\ ReportersOK' /\ SwitchesOK' /\ ThreadsOK' /\ GapSpentOK' /\ RepairIsLocked'
        /\ ChannelIsListed' /\ DownIsStill' /\ ReadsFromTop' /\ LiveIsAccepted'
        /\ PassedIsAccepted'
    BY DEF GapInv, SavedOK, LiveOK, ResyncOK, TargetOK, AcceptedOK, MarksOK, ReportersOK,
       SwitchesOK, ThreadsOK, GapSpentOK, RepairIsLocked, ChannelIsListed, DownIsStill,
       ReadsFromTop, LiveIsAccepted, PassedIsAccepted, Post, markers, flags, bounds, Reports,
       ThreadRows, Resyncing, Positions
  <1> QED
    BY <1>1, <1>2, <1>3 DEF GapInv

\* What the live cursor passes is accepted,
LEMMA LiveUpdateKept ==
  ASSUME GapInv, NEW c \in Channels, LiveUpdate(c)
  PROVE  GapInv'
  <1>1. LiveOK'
    BY DEF GapInv, LiveOK, LiveUpdate, markers, flags, bounds
  <1>2. AcceptedOK'
    BY DEF GapInv, AcceptedOK, LiveUpdate, markers, flags, bounds, LiveOK
  <1>3. BehindPosted'
    BY DEF GapInv, BehindPosted, LiveUpdate, markers, flags, bounds, Threads, PostedOK, LiveOK
  <1>4. ReadsFromTop'
    BY DEF GapInv, ReadsFromTop, LiveUpdate, markers, flags, bounds, Threads
  <1>5. LiveIsAccepted'
    BY DEF GapInv, LiveIsAccepted, LiveUpdate, markers, flags, bounds, Threads, Resyncing,
       LiveOK, AcceptedOK
  <1>6. PassedIsAccepted'
    BY DEF GapInv, PassedIsAccepted, LiveUpdate, markers, flags, bounds, Resyncing, LiveOK,
       AcceptedOK
  <1>7. /\ PostedOK' /\ SavedOK' /\ ResyncOK' /\ TargetOK' /\ MarksOK' /\ ReportersOK'
        /\ SwitchesOK' /\ ThreadsOK' /\ GapSpentOK' /\ RepairIsLocked' /\ ChannelIsListed'
        /\ DownIsStill'
    BY DEF GapInv, PostedOK, SavedOK, ResyncOK, TargetOK, MarksOK, ReportersOK, SwitchesOK,
       ThreadsOK, GapSpentOK, RepairIsLocked, ChannelIsListed, DownIsStill, LiveUpdate, markers,
       flags, bounds, Reports, ThreadRows, Positions
  <1> QED
    BY <1>1, <1>2, <1>3, <1>4, <1>5, <1>6, <1>7 DEF GapInv

\* so what it saves is.
LEMMA SetChannelPtsKept ==
  ASSUME GapInv, NEW c \in Channels, SetChannelPts(c)
  PROVE  GapInv'
  <1>1. SavedOK'
    BY DEF GapInv, SavedOK, SetChannelPts, markers, flags, bounds, LiveOK
  <1>2. BehindPosted'
    BY DEF GapInv, BehindPosted, SetChannelPts, markers, flags, bounds, Threads
  <1>3. PassedIsAccepted'
    BY DEF GapInv, PassedIsAccepted, SetChannelPts, markers, flags, bounds, Resyncing
  <1>4. /\ PostedOK' /\ LiveOK' /\ ResyncOK' /\ TargetOK' /\ AcceptedOK' /\ MarksOK'
        /\ ReportersOK' /\ SwitchesOK' /\ ThreadsOK' /\ GapSpentOK' /\ RepairIsLocked'
        /\ ChannelIsListed' /\ DownIsStill' /\ ReadsFromTop' /\ LiveIsAccepted'
    BY DEF GapInv, PostedOK, LiveOK, ResyncOK, TargetOK, AcceptedOK, MarksOK, ReportersOK,
       SwitchesOK, ThreadsOK, GapSpentOK, RepairIsLocked, ChannelIsListed, DownIsStill,
       ReadsFromTop, LiveIsAccepted, SetChannelPts, markers, flags, bounds, Reports, ThreadRows,
       Resyncing, Positions
  <1> QED
    BY <1>1, <1>2, <1>3, <1>4 DEF GapInv

\* A gap marks its channel,
LEMMA DifferenceTooLongKept ==
  ASSUME GapInv, NEW c \in Channels, DifferenceTooLong(c)
  PROVE  GapInv'
  <1>1. ResyncOK'
    BY DEF GapInv, ResyncOK, DifferenceTooLong, Recorded, KeptPts, BeingRead, cursors, flags,
       Threads, PostedOK
  <1>2. TargetOK'
    BY DEF GapInv, TargetOK, DifferenceTooLong, Recorded, KeptPts, BeingRead, cursors, flags,
       Threads, PostedOK
  <1>3. MarksOK'
    BY DEF GapInv, MarksOK, DifferenceTooLong, Recorded, KeptPts, BeingRead, cursors, flags,
       Threads
  <1>4. ReportersOK'
    BY DEF GapInv, ReportersOK, DifferenceTooLong, Recorded, KeptPts, BeingRead, cursors, flags,
       Reports, Threads
  <1>5. GapSpentOK'
    BY DEF GapInv, GapSpentOK, DifferenceTooLong, Recorded, KeptPts, BeingRead, cursors, flags,
       Threads
  <1>6. DownIsStill'
    BY DEF GapInv, DownIsStill, DifferenceTooLong, Recorded, KeptPts, BeingRead, cursors, flags,
       Threads
  <1>7. BehindPosted'
    BY DEF GapInv, BehindPosted, DifferenceTooLong, Recorded, KeptPts, BeingRead, cursors,
       flags, Threads, PostedOK
  <1>8. LiveIsAccepted'
    BY DEF GapInv, LiveIsAccepted, DifferenceTooLong, Recorded, KeptPts, BeingRead, cursors,
       flags, Threads, Resyncing
  <1>9. PassedIsAccepted'
    BY DEF GapInv, PassedIsAccepted, DifferenceTooLong, Recorded, KeptPts, BeingRead, cursors,
       flags, Resyncing, Threads
  <1>10. /\ PostedOK' /\ SavedOK' /\ LiveOK' /\ AcceptedOK' /\ SwitchesOK' /\ ThreadsOK'
         /\ RepairIsLocked' /\ ChannelIsListed' /\ ReadsFromTop'
    BY DEF GapInv, PostedOK, SavedOK, LiveOK, AcceptedOK, SwitchesOK, ThreadsOK, RepairIsLocked,
       ChannelIsListed, ReadsFromTop, DifferenceTooLong, Recorded, KeptPts, BeingRead, cursors,
       flags, ThreadRows, Positions
  <1> QED
    BY <1>1, <1>2, <1>3, <1>4, <1>5, <1>6, <1>7, <1>8, <1>9, <1>10 DEF GapInv

\* and marks it again.
LEMMA RecordAgainKept ==
  ASSUME GapInv, NEW c \in Channels, RecordAgain(c)
  PROVE  GapInv'
  <1>1. TargetOK'
    BY DEF GapInv, TargetOK, RecordAgain, Recorded, KeptPts, BeingRead, cursors, flags, Threads
  <1>2. MarksOK'
    BY DEF GapInv, MarksOK, RecordAgain, Recorded, KeptPts, BeingRead, cursors, flags, Threads
  <1>3. ReportersOK'
    BY DEF GapInv, ReportersOK, RecordAgain, Recorded, KeptPts, BeingRead, cursors, flags,
       Reports, Threads
  <1>4. DownIsStill'
    BY DEF GapInv, DownIsStill, RecordAgain, Recorded, KeptPts, BeingRead, cursors, flags,
       Threads
  <1>5. BehindPosted'
    BY DEF GapInv, BehindPosted, RecordAgain, Recorded, KeptPts, BeingRead, cursors, flags,
       Threads
  <1>6. LiveIsAccepted'
    BY DEF GapInv, LiveIsAccepted, RecordAgain, Recorded, KeptPts, BeingRead, cursors, flags,
       Threads, Resyncing
  <1>7. PassedIsAccepted'
    BY DEF GapInv, PassedIsAccepted, RecordAgain, Recorded, KeptPts, BeingRead, cursors, flags,
       Resyncing, Threads
  <1>8. /\ PostedOK' /\ SavedOK' /\ LiveOK' /\ ResyncOK' /\ AcceptedOK' /\ SwitchesOK'
        /\ ThreadsOK' /\ GapSpentOK' /\ RepairIsLocked' /\ ChannelIsListed' /\ ReadsFromTop'
    BY DEF GapInv, PostedOK, SavedOK, LiveOK, ResyncOK, AcceptedOK, SwitchesOK, ThreadsOK,
       GapSpentOK, RepairIsLocked, ChannelIsListed, ReadsFromTop, RecordAgain, Recorded,
       KeptPts, BeingRead, cursors, flags, ThreadRows, Positions
  <1> QED
    BY <1>1, <1>2, <1>3, <1>4, <1>5, <1>6, <1>7, <1>8 DEF GapInv

\* The flag moves no cursor.
LEMMA SetAgainKept ==
  ASSUME GapInv, NEW c \in Channels, SetAgain(c)
  PROVE  GapInv'
  <1>1. ReportersOK'
    BY DEF GapInv, ReportersOK, SetAgain, cursors, markers, bounds, Reports
  <1>2. SwitchesOK'
    BY DEF GapInv, SwitchesOK, SetAgain, cursors, markers, bounds
  <1>3. DownIsStill'
    BY DEF GapInv, DownIsStill, SetAgain, cursors, markers, bounds, Threads
  <1>4. LiveIsAccepted'
    BY DEF GapInv, LiveIsAccepted, SetAgain, cursors, markers, bounds, Threads, Resyncing
  <1>5. PassedIsAccepted'
    BY DEF GapInv, PassedIsAccepted, SetAgain, cursors, markers, bounds, Resyncing
  <1>6. /\ PostedOK' /\ SavedOK' /\ LiveOK' /\ ResyncOK' /\ TargetOK' /\ AcceptedOK' /\ MarksOK'
        /\ ThreadsOK' /\ GapSpentOK' /\ RepairIsLocked' /\ ChannelIsListed' /\ BehindPosted'
        /\ ReadsFromTop'
    BY DEF GapInv, PostedOK, SavedOK, LiveOK, ResyncOK, TargetOK, AcceptedOK, MarksOK,
       ThreadsOK, GapSpentOK, RepairIsLocked, ChannelIsListed, BehindPosted, ReadsFromTop,
       SetAgain, cursors, markers, bounds, ThreadRows, Positions
  <1> QED
    BY <1>1, <1>2, <1>3, <1>4, <1>5, <1>6 DEF GapInv

\* A new loop reads nothing yet.
LEMMA StartLoopKept ==
  ASSUME GapInv, NEW c \in Channels, StartLoop(c)
  PROVE  GapInv'
  <1>1. ReportersOK'
    BY DEF GapInv, ReportersOK, StartLoop, Free, Off, cursors, markers, bounds, Reports
  <1>2. SwitchesOK'
    BY DEF GapInv, SwitchesOK, StartLoop, Free, Off, cursors, markers, bounds
  <1>3. /\ ThreadsOK' /\ RepairIsLocked' /\ ChannelIsListed' /\ BehindPosted' /\ ReadsFromTop'
        /\ LiveIsAccepted'
    <2>1. UNCHANGED <<posted, accepted, saved, live, resync, target, overlap, lock>>
      BY DEF StartLoop, cursors, markers, bounds
    <2>2. \A d \in Channels : Resyncing(d)' => Resyncing(d)
      BY DEF StartLoop, GapInv, ReportersOK, Resyncing
    <2>3. CASE repairing
      BY <2>1, <2>2, <2>3 DEF StartLoop, GapInv, ThreadsOK, RepairIsLocked, ChannelIsListed,
         BehindPosted,
         ReadsFromTop, LiveIsAccepted
    <2>4. CASE ~repairing
      <3> DEFINE row == [Off EXCEPT !.pc = "swap"]
      <3>1. row \in ThreadRows /\ row.pc = "swap" /\ \A d \in Channels : row.pts[d] <= posted[d]
        BY GapAssumption DEF Off, ThreadRows, Positions, Modes, GapInv, PostedOK
      <3>2. Free \in Threads /\ thread' = [thread EXCEPT ![Free] = row]
        BY <2>4 DEF StartLoop, Free, Threads
      <3> HIDE DEF row
      <3>3. ThreadsOK' /\ thread'[Free] = row /\ \A u \in Threads \ {Free} : thread'[u] = thread[u]
        BY <3>1, <3>2, OneMoves DEF GapInv
      <3>4. RepairIsLocked' /\ ChannelIsListed'
        BY <2>1, <3>1, <3>3 DEF GapInv, RepairIsLocked, InRepair, ChannelIsListed, OnChannel
      <3>5. BehindPosted' /\ ReadsFromTop'
        BY <2>1, <3>1, <3>3 DEF GapInv, BehindPosted, ReadsFromTop
      <3>6. LiveIsAccepted'
        BY <2>1, <2>2, <3>1, <3>3 DEF GapInv, LiveIsAccepted
      <3> QED
        BY <3>3, <3>4, <3>5, <3>6
    <2> QED
      BY <2>3, <2>4
  <1>4. DownIsStill'
    BY DEF GapInv, DownIsStill, StartLoop, Free, Off, cursors, markers, bounds, Threads
  <1>5. PassedIsAccepted'
    BY DEF GapInv, PassedIsAccepted, StartLoop, Free, Off, cursors, markers, bounds, Resyncing
  <1>6. /\ PostedOK' /\ SavedOK' /\ LiveOK' /\ ResyncOK' /\ TargetOK' /\ AcceptedOK' /\ MarksOK'
        /\ GapSpentOK'
    BY DEF GapInv, PostedOK, SavedOK, LiveOK, ResyncOK, TargetOK, AcceptedOK, MarksOK,
       GapSpentOK, StartLoop, Free, cursors, markers, bounds
  <1> QED
    BY <1>1, <1>2, <1>3, <1>4, <1>5, <1>6 DEF GapInv

\* Unless its gap was repaired, the channel is marked when gotd skips it.
LEMMA ResyncKept ==
  ASSUME GapInv, NEW c \in Channels, Resync(c)
  PROVE  GapInv'
  <1>1. SavedOK'
    BY DEF GapInv, SavedOK, Resync, markers, flags, bounds, ResyncOK
  <1>2. LiveOK'
    BY DEF GapInv, LiveOK, Resync, markers, flags, bounds, ResyncOK
  <1>3. ReportersOK'
    BY DEF GapInv, ReportersOK, Resync, markers, flags, bounds, Reports
  <1>4. DownIsStill'
    BY DEF GapInv, DownIsStill, Resync, markers, flags, bounds, Threads
  <1>5. BehindPosted'
    BY DEF GapInv, BehindPosted, Resync, markers, flags, bounds, Threads
  <1>6. LiveIsAccepted'
    BY DEF GapInv, LiveIsAccepted, Resync, markers, flags, bounds, Threads, Resyncing
  <1>7. PassedIsAccepted'
    BY DEF GapInv, PassedIsAccepted, Resync, markers, flags, bounds, Resyncing
  <1>8. /\ PostedOK' /\ ResyncOK' /\ TargetOK' /\ AcceptedOK' /\ MarksOK' /\ SwitchesOK'
        /\ ThreadsOK' /\ GapSpentOK' /\ RepairIsLocked' /\ ChannelIsListed' /\ ReadsFromTop'
    BY DEF GapInv, PostedOK, ResyncOK, TargetOK, AcceptedOK, MarksOK, SwitchesOK, ThreadsOK,
       GapSpentOK, RepairIsLocked, ChannelIsListed, ReadsFromTop, Resync, markers, flags,
       bounds, ThreadRows, Positions
  <1> QED
    BY <1>1, <1>2, <1>3, <1>4, <1>5, <1>6, <1>7, <1>8 DEF GapInv

\* Flags of the callback,
LEMMA SwapAgainKept ==
  ASSUME GapInv, NEW t \in Threads, SwapAgain(t)
  PROVE  GapInv'
  <1>1. ReportersOK'
    BY DEF GapInv, ReportersOK, SwapAgain, Goto, cursors, markers, bounds, Reports
  <1>2. SwitchesOK'
    BY DEF GapInv, SwitchesOK, SwapAgain, Goto, cursors, markers, bounds
  <1>3. ThreadsOK'
    BY DEF GapInv, ThreadsOK, SwapAgain, Goto, cursors, markers, bounds, Threads, ThreadRows,
       Positions, Modes
  <1>4. RepairIsLocked'
    BY DEF GapInv, RepairIsLocked, SwapAgain, Goto, cursors, markers, bounds, Threads, InRepair
  <1>5. ChannelIsListed'
    BY DEF GapInv, ChannelIsListed, SwapAgain, Goto, cursors, markers, bounds, Threads,
       OnChannel
  <1>6. DownIsStill'
    BY DEF GapInv, DownIsStill, SwapAgain, Goto, cursors, markers, bounds, Threads
  <1>7. BehindPosted'
    BY DEF GapInv, BehindPosted, SwapAgain, Goto, cursors, markers, bounds, Threads
  <1>8. ReadsFromTop'
    BY DEF GapInv, ReadsFromTop, SwapAgain, Goto, cursors, markers, bounds, Threads
  <1>9. LiveIsAccepted'
    BY DEF GapInv, LiveIsAccepted, SwapAgain, Goto, cursors, markers, bounds, Threads, Resyncing
  <1>10. PassedIsAccepted'
    BY DEF GapInv, PassedIsAccepted, SwapAgain, Goto, cursors, markers, bounds, Resyncing
  <1>11. /\ PostedOK' /\ SavedOK' /\ LiveOK' /\ ResyncOK' /\ TargetOK' /\ AcceptedOK' /\ MarksOK'
         /\ GapSpentOK'
    BY DEF GapInv, PostedOK, SavedOK, LiveOK, ResyncOK, TargetOK, AcceptedOK, MarksOK,
       GapSpentOK, SwapAgain, Goto, cursors, markers, bounds
  <1> QED
    BY <1>1, <1>2, <1>3, <1>4, <1>5, <1>6, <1>7, <1>8, <1>9, <1>10, <1>11 DEF GapInv

\* the end of its loop,
LEMMA EndLoopKept ==
  ASSUME GapInv, NEW t \in Threads, EndLoop(t)
  PROVE  GapInv'
  <1>1. SwitchesOK'
    BY DEF GapInv, SwitchesOK, EndLoop, Goto, cursors, markers, bounds
  <1>2. ThreadsOK'
    BY DEF GapInv, ThreadsOK, EndLoop, Goto, cursors, markers, bounds, Threads, ThreadRows,
       Positions, Modes
  <1>3. RepairIsLocked'
    BY DEF GapInv, RepairIsLocked, EndLoop, Goto, cursors, markers, bounds, Threads, InRepair
  <1>4. ChannelIsListed'
    BY DEF GapInv, ChannelIsListed, EndLoop, Goto, cursors, markers, bounds, Threads, OnChannel
  <1>5. DownIsStill'
    BY DEF GapInv, DownIsStill, EndLoop, Goto, cursors, markers, bounds, Threads
  <1>6. BehindPosted'
    BY DEF GapInv, BehindPosted, EndLoop, Goto, cursors, markers, bounds, Threads
  <1>7. ReadsFromTop'
    BY DEF GapInv, ReadsFromTop, EndLoop, Goto, cursors, markers, bounds, Threads
  <1>8. LiveIsAccepted'
    BY DEF GapInv, LiveIsAccepted, EndLoop, Goto, cursors, markers, bounds, Threads, Resyncing
  <1>9. /\ PostedOK' /\ SavedOK' /\ LiveOK' /\ ResyncOK' /\ TargetOK' /\ AcceptedOK' /\ MarksOK'
        /\ ReportersOK' /\ GapSpentOK' /\ PassedIsAccepted'
    BY DEF GapInv, PostedOK, SavedOK, LiveOK, ResyncOK, TargetOK, AcceptedOK, MarksOK,
       ReportersOK, GapSpentOK, PassedIsAccepted, EndLoop, Goto, cursors, markers, bounds,
       Reports, Resyncing
  <1> QED
    BY <1>1, <1>2, <1>3, <1>4, <1>5, <1>6, <1>7, <1>8, <1>9 DEF GapInv

\* the last repair
LEMMA RecheckKept ==
  ASSUME GapInv, NEW t \in Threads, Recheck(t)
  PROVE  GapInv'
  <1>1. SwitchesOK'
    BY DEF GapInv, SwitchesOK, Recheck, ReportedMeanwhile, Off, cursors, markers, bounds
  <1>2. /\ ThreadsOK' /\ RepairIsLocked' /\ ChannelIsListed' /\ BehindPosted' /\ ReadsFromTop'
        /\ LiveIsAccepted'
    <2>1. thread[t] \in ThreadRows /\ \A c \in Channels : thread[t].pts[c] <= posted[c]
      BY DEF GapInv, ThreadsOK, BehindPosted
    <2>2. UNCHANGED <<posted, accepted, saved, live, resync, target, overlap, lock, reporter>>
      BY DEF Recheck, cursors, markers, bounds
    <2>3. CASE ReportedMeanwhile
      <3> DEFINE row == [thread[t] EXCEPT !.pc = "lock", !.mode = "final"]
      <3>1. row \in ThreadRows /\ row.pc = "lock" /\ row.pts = thread[t].pts
        BY <2>1 DEF ThreadRows, Positions, Modes
      <3>2. thread' = [thread EXCEPT ![t] = row]
        BY <2>3 DEF Recheck
      <3> HIDE DEF row
      <3>3. ThreadsOK' /\ RepairIsLocked' /\ ChannelIsListed' /\ BehindPosted' /\ ReadsFromTop'
        BY <2>1, <2>2, <3>1, <3>2, IdleMoves DEF InRepair
      <3>4. LiveIsAccepted'
        BY <2>2, <3>1, <3>2, OneMoves DEF GapInv, LiveIsAccepted, Resyncing
      <3> QED
        BY <3>3, <3>4
    <2>4. CASE ~ReportedMeanwhile
      <3>1. thread' = [thread EXCEPT ![t] = Off]
        BY <2>4 DEF Recheck
      <3>2. Off.pc = "off" /\ \A c \in Channels : Off.pts[c] <= posted[c]
        BY DEF Off, GapInv, PostedOK
      <3>3. ThreadsOK' /\ RepairIsLocked' /\ ChannelIsListed' /\ BehindPosted' /\ ReadsFromTop'
        BY <2>2, <3>1, <3>2, OffOK, IdleMoves DEF InRepair
      <3>4. LiveIsAccepted'
        BY <2>2, <3>1, <3>2, OffOK, OneMoves DEF GapInv, LiveIsAccepted, Resyncing
      <3> QED
        BY <3>3, <3>4
    <2> QED
      BY <2>3, <2>4
  <1>3. DownIsStill'
    BY DEF GapInv, DownIsStill, Recheck, ReportedMeanwhile, Off, cursors, markers, bounds,
       Threads
  <1>4. /\ PostedOK' /\ SavedOK' /\ LiveOK' /\ ResyncOK' /\ TargetOK' /\ AcceptedOK' /\ MarksOK'
        /\ ReportersOK' /\ GapSpentOK' /\ PassedIsAccepted'
    BY DEF GapInv, PostedOK, SavedOK, LiveOK, ResyncOK, TargetOK, AcceptedOK, MarksOK,
       ReportersOK, GapSpentOK, PassedIsAccepted, Recheck, ReportedMeanwhile, cursors, markers,
       bounds, Reports, Resyncing
  <1> QED
    BY <1>1, <1>2, <1>3, <1>4 DEF GapInv

\* and its end touch no cursor.
LEMMA CloseFinalKept ==
  ASSUME GapInv, NEW t \in Threads, CloseFinal(t)
  PROVE  GapInv'
  <1>1. SwitchesOK'
    BY DEF GapInv, SwitchesOK, CloseFinal, Off, cursors, markers, bounds
  <1>2. ThreadsOK'
    BY DEF GapInv, ThreadsOK, CloseFinal, Off, cursors, markers, bounds, Threads, ThreadRows,
       Positions, Modes
  <1>3. RepairIsLocked'
    BY DEF GapInv, RepairIsLocked, CloseFinal, Off, cursors, markers, bounds, Threads, InRepair
  <1>4. ChannelIsListed'
    BY DEF GapInv, ChannelIsListed, CloseFinal, Off, cursors, markers, bounds, Threads,
       OnChannel
  <1>5. DownIsStill'
    BY DEF GapInv, DownIsStill, CloseFinal, Off, cursors, markers, bounds, Threads
  <1>6. BehindPosted'
    BY DEF GapInv, BehindPosted, CloseFinal, Off, cursors, markers, bounds, Threads, PostedOK
  <1>7. ReadsFromTop'
    BY DEF GapInv, ReadsFromTop, CloseFinal, Off, cursors, markers, bounds, Threads
  <1>8. LiveIsAccepted'
    BY DEF GapInv, LiveIsAccepted, CloseFinal, Off, cursors, markers, bounds, Threads, Resyncing
  <1>9. /\ PostedOK' /\ SavedOK' /\ LiveOK' /\ ResyncOK' /\ TargetOK' /\ AcceptedOK' /\ MarksOK'
        /\ ReportersOK' /\ GapSpentOK' /\ PassedIsAccepted'
    BY DEF GapInv, PostedOK, SavedOK, LiveOK, ResyncOK, TargetOK, AcceptedOK, MarksOK,
       ReportersOK, GapSpentOK, PassedIsAccepted, CloseFinal, cursors, markers, bounds, Reports,
       Resyncing
  <1> QED
    BY <1>1, <1>2, <1>3, <1>4, <1>5, <1>6, <1>7, <1>8, <1>9 DEF GapInv

\* One repair at a time enters.
LEMMA EnterKept ==
  ASSUME GapInv, NEW t \in Threads, Enter(t)
  PROVE  GapInv'
  <1>1. ThreadsOK'
    BY DEF GapInv, ThreadsOK, Enter, Goto, cursors, markers, flags, bounds, Threads, ThreadRows,
       Positions, Modes
  <1>2. RepairIsLocked'
    BY GapAssumption DEF GapInv, RepairIsLocked, Enter, Goto, cursors, markers, flags, bounds,
       Threads, InRepair, GapAssumption
  <1>3. ChannelIsListed'
    BY DEF GapInv, ChannelIsListed, Enter, Goto, cursors, markers, flags, bounds, Threads,
       OnChannel
  <1>4. DownIsStill'
    BY DEF GapInv, DownIsStill, Enter, Goto, cursors, markers, flags, bounds, Threads
  <1>5. BehindPosted'
    BY DEF GapInv, BehindPosted, Enter, Goto, cursors, markers, flags, bounds, Threads
  <1>6. ReadsFromTop'
    BY DEF GapInv, ReadsFromTop, Enter, Goto, cursors, markers, flags, bounds, Threads
  <1>7. LiveIsAccepted'
    BY DEF GapInv, LiveIsAccepted, Enter, Goto, cursors, markers, flags, bounds, Threads,
       Resyncing
  <1>8. /\ PostedOK' /\ SavedOK' /\ LiveOK' /\ ResyncOK' /\ TargetOK' /\ AcceptedOK' /\ MarksOK'
        /\ ReportersOK' /\ SwitchesOK' /\ GapSpentOK' /\ PassedIsAccepted'
    BY DEF GapInv, PostedOK, SavedOK, LiveOK, ResyncOK, TargetOK, AcceptedOK, MarksOK,
       ReportersOK, SwitchesOK, GapSpentOK, PassedIsAccepted, Enter, Goto, cursors, markers,
       flags, bounds, Reports, Resyncing
  <1> QED
    BY <1>1, <1>2, <1>3, <1>4, <1>5, <1>6, <1>7, <1>8 DEF GapInv

\* Without a marker it leaves.
LEMMA ScanKept ==
  ASSUME GapInv, NEW t \in Threads, Scan(t)
  PROVE  GapInv'
  <1>1. ThreadsOK'
    BY DEF GapInv, ThreadsOK, Scan, Done, Goto, cursors, markers, flags, bounds, Threads,
       ThreadRows, Off, Positions, Modes
  <1>2. RepairIsLocked'
    BY DEF GapInv, RepairIsLocked, Scan, Done, Goto, cursors, markers, flags, bounds, Threads,
       InRepair, Off, ThreadsOK, ThreadRows, Modes
  <1>3. ChannelIsListed'
    BY DEF GapInv, ChannelIsListed, Scan, Done, Goto, cursors, markers, flags, bounds, Threads,
       OnChannel, Off, ThreadsOK, ThreadRows, Modes
  <1>4. DownIsStill'
    BY DEF GapInv, DownIsStill, Scan, Done, Goto, cursors, markers, flags, bounds, Threads, Off
  <1>5. BehindPosted'
    BY GapAssumption DEF GapInv, BehindPosted, Scan, Done, Goto, cursors, markers, flags,
       bounds, Threads, Off, PostedOK, ThreadsOK, ThreadRows, Modes, GapAssumption
  <1>6. ReadsFromTop'
    BY DEF GapInv, ReadsFromTop, Scan, Done, Goto, cursors, markers, flags, bounds, Threads,
       Off, ThreadsOK, ThreadRows, Modes
  <1>7. LiveIsAccepted'
    BY DEF GapInv, LiveIsAccepted, Scan, Done, Goto, cursors, markers, flags, bounds, Threads,
       Resyncing, Off, ThreadsOK, ThreadRows, Modes
  <1>8. /\ PostedOK' /\ SavedOK' /\ LiveOK' /\ ResyncOK' /\ TargetOK' /\ AcceptedOK' /\ MarksOK'
        /\ ReportersOK' /\ SwitchesOK' /\ GapSpentOK' /\ PassedIsAccepted'
    BY DEF GapInv, PostedOK, SavedOK, LiveOK, ResyncOK, TargetOK, AcceptedOK, MarksOK,
       ReportersOK, SwitchesOK, GapSpentOK, PassedIsAccepted, Scan, Done, Goto, cursors,
       markers, flags, bounds, Reports, Resyncing
  <1> QED
    BY <1>1, <1>2, <1>3, <1>4, <1>5, <1>6, <1>7, <1>8 DEF GapInv

\* What it lists is within the channel.
LEMMA ListMarkersKept ==
  ASSUME GapInv, NEW t \in Threads, ListMarkers(t)
  PROVE  GapInv'
  <1>1. ThreadsOK'
    <2> DEFINE row == [thread[t] EXCEPT !.pc = "next", !.todo = marker, !.pts = target]
    <2>1. thread[t] \in ThreadRows /\ marker \in SUBSET Channels /\ target \in [Channels -> Nat]
      BY DEF GapInv, ThreadsOK, MarksOK, TargetOK
    <2>2. row \in ThreadRows
      BY <2>1 DEF ThreadRows, Positions
    <2>3. thread' = [thread EXCEPT ![t] = row]
      BY DEF ListMarkers
    <2> QED
      BY <2>2, <2>3, OneMoves DEF GapInv
  <1>2. RepairIsLocked'
    BY DEF GapInv, RepairIsLocked, ListMarkers, cursors, markers, flags, bounds, Threads,
       InRepair
  <1>3. ChannelIsListed'
    BY DEF GapInv, ChannelIsListed, ListMarkers, cursors, markers, flags, bounds, Threads,
       OnChannel
  <1>4. DownIsStill'
    BY DEF GapInv, DownIsStill, ListMarkers, cursors, markers, flags, bounds, Threads
  <1>5. BehindPosted'
    BY DEF GapInv, BehindPosted, ListMarkers, cursors, markers, flags, bounds, Threads
  <1>6. ReadsFromTop'
    BY DEF GapInv, ReadsFromTop, ListMarkers, cursors, markers, flags, bounds, Threads
  <1>7. LiveIsAccepted'
    BY DEF GapInv, LiveIsAccepted, ListMarkers, cursors, markers, flags, bounds, Threads,
       Resyncing
  <1>8. /\ PostedOK' /\ SavedOK' /\ LiveOK' /\ ResyncOK' /\ TargetOK' /\ AcceptedOK' /\ MarksOK'
        /\ ReportersOK' /\ SwitchesOK' /\ GapSpentOK' /\ PassedIsAccepted'
    BY DEF GapInv, PostedOK, SavedOK, LiveOK, ResyncOK, TargetOK, AcceptedOK, MarksOK,
       ReportersOK, SwitchesOK, GapSpentOK, PassedIsAccepted, ListMarkers, cursors, markers,
       flags, bounds, Reports, Resyncing
  <1> QED
    BY <1>1, <1>2, <1>3, <1>4, <1>5, <1>6, <1>7, <1>8 DEF GapInv

\* It takes one of the listed,
LEMMA NextRecordKept ==
  ASSUME GapInv, NEW t \in Threads, NextRecord(t)
  PROVE  GapInv'
  <1>1. /\ ThreadsOK' /\ RepairIsLocked' /\ ChannelIsListed' /\ BehindPosted' /\ ReadsFromTop'
        /\ LiveIsAccepted'
    <2>1. /\ thread[t] \in ThreadRows /\ thread[t].pc = "next" /\ lock = t
          /\ \A c \in Channels : thread[t].pts[c] <= posted[c]
      BY DEF GapInv, ThreadsOK, BehindPosted, NextRecord, RepairIsLocked, InRepair
    <2>2. UNCHANGED <<posted, accepted, saved, live, resync, target, overlap, lock, reporter>>
      BY DEF NextRecord, cursors, markers, bounds
    <2>3. PICK row \in ThreadRows :
            /\ thread' = [thread EXCEPT ![t] = row] /\ row.pts = thread[t].pts
            /\ row.pc \in {"scan", "walk", "resolve"}
            /\ row.pc # "scan" => row.channel \in row.todo
      <3>1. CASE thread[t].todo = {}
        <4> DEFINE row == [thread[t] EXCEPT !.pc = "scan", !.channel = 0]
        <4>1. row \in ThreadRows /\ row.pts = thread[t].pts /\ row.pc = "scan"
          BY <2>1 DEF ThreadRows, Positions
        <4>2. thread' = [thread EXCEPT ![t] = row]
          BY <3>1 DEF NextRecord
        <4> QED
          BY <4>1, <4>2
      <3>2. CASE thread[t].todo # {}
        <4>1. PICK c \in thread[t].todo :
                thread' = [thread EXCEPT ![t] = [thread[t] EXCEPT !.channel = c,
                                   !.pc = IF thread[t].pts[c] > 0 THEN "walk" ELSE "resolve"]]
          BY <3>2 DEF NextRecord
        <4> DEFINE pc == IF thread[t].pts[c] > 0 THEN "walk" ELSE "resolve"
                   row == [thread[t] EXCEPT !.channel = c, !.pc = pc]
        <4>2. c \in Channels
          BY <2>1 DEF ThreadRows
        <4>3. pc \in {"walk", "resolve"} /\ pc \in Positions
          BY DEF Positions
        <4>4. thread' = [thread EXCEPT ![t] = row]
          BY <4>1
        <4> HIDE DEF pc
        <4>5. /\ row \in ThreadRows /\ row.pts = thread[t].pts /\ row.todo = thread[t].todo
              /\ row.pc = pc /\ row.channel = c
          BY <2>1, <4>2, <4>3 DEF ThreadRows
        <4> HIDE DEF row
        <4> QED
          BY <4>3, <4>4, <4>5
      <3> QED
        BY <3>1, <3>2
    <2>4. ThreadsOK' /\ thread'[t] = row /\ \A u \in Threads \ {t} : thread'[u] = thread[u]
      BY <2>3, OneMoves DEF GapInv
    <2>5. RepairIsLocked'
      BY <2>1, <2>2, <2>4 DEF GapInv, RepairIsLocked
    <2>6. ChannelIsListed'
      BY <2>3, <2>4 DEF GapInv, ChannelIsListed, OnChannel
    <2>7. BehindPosted'
      BY <2>1, <2>2, <2>3, <2>4 DEF GapInv, BehindPosted
    <2>8. ReadsFromTop'
      BY <2>2, <2>3, <2>4 DEF GapInv, ReadsFromTop
    <2>9. LiveIsAccepted'
      BY <2>2, <2>3, <2>4 DEF GapInv, LiveIsAccepted, Resyncing
    <2> QED
      BY <2>4, <2>5, <2>6, <2>7, <2>8, <2>9
  <1>2. DownIsStill'
    BY DEF GapInv, DownIsStill, NextRecord, cursors, markers, flags, bounds, Threads
  <1>3. /\ PostedOK' /\ SavedOK' /\ LiveOK' /\ ResyncOK' /\ TargetOK' /\ AcceptedOK' /\ MarksOK'
        /\ ReportersOK' /\ SwitchesOK' /\ GapSpentOK' /\ PassedIsAccepted'
    BY DEF GapInv, PostedOK, SavedOK, LiveOK, ResyncOK, TargetOK, AcceptedOK, MarksOK,
       ReportersOK, SwitchesOK, GapSpentOK, PassedIsAccepted, NextRecord, cursors, markers,
       flags, bounds, Reports, Resyncing
  <1> QED
    BY <1>1, <1>2, <1>3 DEF GapInv

\* learns how far the channel goes,
LEMMA ResolvePtsKept ==
  ASSUME GapInv, NEW t \in Threads, ResolvePts(t)
  PROVE  GapInv'
  <1>1. TargetOK'
    BY DEF GapInv, TargetOK, ResolvePts, Recorded, KeptPts, cursors, flags, bounds, PostedOK
  <1>2. ThreadsOK' /\ MarksOK'
    <2> DEFINE c == thread[t].channel
               pts == [thread[t].pts EXCEPT ![c] = posted[c]]
               row == [thread[t] EXCEPT !.pc = "walk", !.pts = pts]
    <2>1. thread[t] \in ThreadRows /\ c \in Channels
      BY DEF GapInv, ThreadsOK, ThreadRows, ChannelIsListed, OnChannel, ResolvePts
    <2>2. pts \in [Channels -> Nat]
      BY <2>1 DEF ThreadRows, GapInv, PostedOK
    <2>3. thread' = [thread EXCEPT ![t] = row] /\ marker' = marker \cup {c} /\ overlap' = overlap
      BY DEF ResolvePts, Recorded, bounds
    <2> HIDE DEF pts
    <2>4. row \in ThreadRows
      BY <2>1, <2>2 DEF ThreadRows, Positions
    <2> QED
      BY <2>1, <2>3, <2>4, OneMoves DEF GapInv, MarksOK
  <1>3. RepairIsLocked'
    BY DEF GapInv, RepairIsLocked, ResolvePts, Recorded, KeptPts, cursors, flags, bounds,
       Threads, InRepair
  <1>4. ChannelIsListed'
    BY DEF GapInv, ChannelIsListed, ResolvePts, Recorded, KeptPts, cursors, flags, bounds,
       Threads, OnChannel
  <1>5. DownIsStill'
    BY DEF GapInv, DownIsStill, ResolvePts, Recorded, KeptPts, cursors, flags, bounds, Threads
  <1>6. BehindPosted'
    BY DEF GapInv, BehindPosted, ResolvePts, Recorded, KeptPts, cursors, flags, bounds, Threads,
       PostedOK
  <1>7. ReadsFromTop'
    BY DEF GapInv, ReadsFromTop, ResolvePts, Recorded, KeptPts, cursors, flags, bounds, Threads
  <1>8. LiveIsAccepted'
    BY DEF GapInv, LiveIsAccepted, ResolvePts, Recorded, KeptPts, cursors, flags, bounds,
       Threads, Resyncing
  <1>9. PassedIsAccepted'
    BY DEF GapInv, PassedIsAccepted, ResolvePts, Recorded, KeptPts, cursors, flags, bounds,
       Resyncing
  <1>10. /\ PostedOK' /\ SavedOK' /\ LiveOK' /\ ResyncOK' /\ AcceptedOK' /\ ReportersOK'
         /\ SwitchesOK' /\ GapSpentOK'
    BY DEF GapInv, PostedOK, SavedOK, LiveOK, ResyncOK, AcceptedOK, ReportersOK, SwitchesOK,
       GapSpentOK, ResolvePts, Recorded, KeptPts, cursors, flags, bounds, Reports
  <1> QED
    BY <1>1, <1>2, <1>3, <1>4, <1>5, <1>6, <1>7, <1>8, <1>9, <1>10 DEF GapInv

\* and begins beyond every cursor.
LEMMA FirstPageKept ==
  ASSUME GapInv, NEW t \in Threads, FirstPage(t)
  PROVE  GapInv'
  <1>1. ThreadsOK' /\ ReadsFromTop' /\ LiveIsAccepted'
    <2> DEFINE c == thread[t].channel  row == [thread[t] EXCEPT !.pc = "pages", !.top = posted[c]]
    <2>1. thread[t] \in ThreadRows /\ c \in Channels /\ posted[c] \in Nat
      BY DEF GapInv, ThreadsOK, ThreadRows, ChannelIsListed, OnChannel, FirstPage, PostedOK
    <2>2. /\ row \in ThreadRows /\ row.pc = "pages" /\ row.top = posted[c] /\ row.channel = c
          /\ row.pts = thread[t].pts
      BY <2>1 DEF ThreadRows, Positions
    <2>3. thread' = [thread EXCEPT ![t] = row]
      BY DEF FirstPage
    <2>4. UNCHANGED <<accepted, live, resync, reporter, overlap>>
      BY DEF FirstPage, cursors, bounds
    <2>5. thread[t].pts[c] <= posted[c] /\ live[c] <= posted[c] /\ resync[c] <= posted[c]
      BY <2>1 DEF GapInv, BehindPosted
    <2>6. live[c] \in Nat /\ resync[c] \in Nat
      BY <2>1 DEF GapInv, LiveOK, ResyncOK
    <2> HIDE DEF row, c
    <2>7. ThreadsOK' /\ thread'[t] = row /\ \A u \in Threads \ {t} : thread'[u] = thread[u]
      BY <2>2, <2>3, OneMoves DEF GapInv
    <2>8. ReadsFromTop'
      BY <2>2, <2>4, <2>5, <2>7 DEF GapInv, ReadsFromTop
    <2>9. LiveIsAccepted'
      <3>1. \A x \in 1..live[c] : x <= row.top
        BY <2>1, <2>2, <2>5, <2>6
      <3>2. \A x \in 1..resync[c] : x <= row.top
        BY <2>1, <2>2, <2>5, <2>6
      <3> QED
        BY <2>2, <2>4, <2>7, <3>1, <3>2 DEF GapInv, LiveIsAccepted, Resyncing
    <2> QED
      BY <2>7, <2>8, <2>9
  <1>2. RepairIsLocked'
    BY DEF GapInv, RepairIsLocked, FirstPage, cursors, markers, flags, bounds, Threads, InRepair
  <1>3. ChannelIsListed'
    BY DEF GapInv, ChannelIsListed, FirstPage, cursors, markers, flags, bounds, Threads,
       OnChannel
  <1>4. DownIsStill'
    BY DEF GapInv, DownIsStill, FirstPage, cursors, markers, flags, bounds, Threads
  <1>5. BehindPosted'
    BY DEF GapInv, BehindPosted, FirstPage, cursors, markers, flags, bounds, Threads
  <1>6. /\ PostedOK' /\ SavedOK' /\ LiveOK' /\ ResyncOK' /\ TargetOK' /\ AcceptedOK' /\ MarksOK'
        /\ ReportersOK' /\ SwitchesOK' /\ GapSpentOK' /\ PassedIsAccepted'
    BY DEF GapInv, PostedOK, SavedOK, LiveOK, ResyncOK, TargetOK, AcceptedOK, MarksOK,
       ReportersOK, SwitchesOK, GapSpentOK, PassedIsAccepted, FirstPage, cursors, markers,
       flags, bounds, Reports, Resyncing
  <1> QED
    BY <1>1, <1>2, <1>3, <1>4, <1>5, <1>6 DEF GapInv

\* It accepts all it reads,
LEMMA DeliverPagesKept ==
  ASSUME GapInv, NEW t \in Threads, DeliverPages(t)
  PROVE  GapInv'
  <1>1. AcceptedOK' /\ ReadsFromTop'
    <2> DEFINE c == thread[t].channel  top == thread[t].top
    <2>1. c \in Channels /\ top \in Nat /\ thread[t] \in ThreadRows
      BY DEF GapInv, ThreadsOK, ThreadRows, ChannelIsListed, OnChannel, DeliverPages
    <2>2. accepted' = [accepted EXCEPT ![c] = accepted[c] \cup 1..top] /\ thread[t].pc = "pages"
      BY DEF DeliverPages
    <2>3. AcceptedOK' /\ 1..top \subseteq accepted'[c] /\ \A d \in Channels : accepted[d] \subseteq accepted'[d]
      BY <2>1, <2>2 DEF GapInv, AcceptedOK
    <2>4. /\ thread'[t].channel = c /\ thread'[t].top = top /\ thread'[t].pts = thread[t].pts
          /\ \A u \in Threads \ {t} : thread'[u] = thread[u]
      BY <2>1 DEF DeliverPages, Goto, GapInv, ThreadsOK, ThreadRows
    <2>5. thread[t].pts[c] <= top
      BY <2>2 DEF GapInv, ReadsFromTop
    <2>6. \A u \in Threads : thread[u].pc = "complete" => thread[u].channel \in Channels
      BY DEF GapInv, ThreadsOK, ThreadRows, ChannelIsListed, OnChannel
    <2> HIDE DEF c, top
    <2>7. ReadsFromTop'
      BY <2>2, <2>3, <2>4, <2>5, <2>6 DEF GapInv, ReadsFromTop
    <2> QED
      BY <2>3, <2>7
  <1>2. ThreadsOK'
    BY DEF GapInv, ThreadsOK, DeliverPages, Goto, markers, flags, bounds, Threads, ThreadRows,
       Positions, Modes
  <1>3. RepairIsLocked'
    BY DEF GapInv, RepairIsLocked, DeliverPages, Goto, markers, flags, bounds, Threads, InRepair
  <1>4. ChannelIsListed'
    BY DEF GapInv, ChannelIsListed, DeliverPages, Goto, markers, flags, bounds, Threads,
       OnChannel
  <1>5. DownIsStill'
    BY DEF GapInv, DownIsStill, DeliverPages, Goto, markers, flags, bounds, Threads
  <1>6. BehindPosted'
    BY DEF GapInv, BehindPosted, DeliverPages, Goto, markers, flags, bounds, Threads
  <1>7. LiveIsAccepted'
    BY DEF GapInv, LiveIsAccepted, DeliverPages, Goto, markers, flags, bounds, Threads,
       Resyncing
  <1>8. PassedIsAccepted'
    BY DEF GapInv, PassedIsAccepted, DeliverPages, Goto, markers, flags, bounds, Resyncing
  <1>9. /\ PostedOK' /\ SavedOK' /\ LiveOK' /\ ResyncOK' /\ TargetOK' /\ MarksOK' /\ ReportersOK'
        /\ SwitchesOK' /\ GapSpentOK'
    BY DEF GapInv, PostedOK, SavedOK, LiveOK, ResyncOK, TargetOK, MarksOK, ReportersOK,
       SwitchesOK, GapSpentOK, DeliverPages, Goto, markers, flags, bounds, Reports
  <1> QED
    BY <1>1, <1>2, <1>3, <1>4, <1>5, <1>6, <1>7, <1>8, <1>9 DEF GapInv

\* so that the channel needs no marker.
LEMMA CompleteRecoveryKept ==
  ASSUME GapInv, NEW t \in Threads, CompleteRecovery(t)
  PROVE  GapInv'
  <1>1. SavedOK'
    BY DEF GapInv, SavedOK, CompleteRecovery, flags, bounds, ThreadsOK, ThreadRows
  <1>2. TargetOK'
    BY DEF GapInv, TargetOK, CompleteRecovery, flags, bounds
  <1>3. MarksOK'
    BY DEF GapInv, MarksOK, CompleteRecovery, flags, bounds
  <1>4. ThreadsOK'
    <2> DEFINE todo == thread[t].todo \ {thread[t].channel}
               row == [thread[t] EXCEPT !.pc = "next", !.todo = todo]
    <2>1. thread[t] \in ThreadRows /\ todo \in SUBSET Channels
      BY DEF GapInv, ThreadsOK, ThreadRows
    <2>2. thread' = [thread EXCEPT ![t] = row]
      BY DEF CompleteRecovery
    <2> HIDE DEF todo
    <2>3. row \in ThreadRows
      BY <2>1 DEF ThreadRows, Positions
    <2> QED
      BY <2>2, <2>3, OneMoves DEF GapInv
  <1>5. RepairIsLocked'
    BY DEF GapInv, RepairIsLocked, CompleteRecovery, flags, bounds, Threads, InRepair
  <1>6. ChannelIsListed'
    BY DEF GapInv, ChannelIsListed, CompleteRecovery, flags, bounds, Threads, OnChannel
  <1>7. DownIsStill'
    BY DEF GapInv, DownIsStill, CompleteRecovery, flags, bounds, Threads
  <1>8. BehindPosted'
    BY DEF GapInv, BehindPosted, CompleteRecovery, flags, bounds, Threads, PostedOK
  <1>9. ReadsFromTop'
    BY DEF GapInv, ReadsFromTop, CompleteRecovery, flags, bounds, Threads
  <1>10. LiveIsAccepted'
    BY DEF GapInv, LiveIsAccepted, CompleteRecovery, flags, bounds, Threads, Resyncing
  <1>11. PassedIsAccepted'
    <2> DEFINE c == thread[t].channel  top == thread[t].top
    <2>1. c \in Channels /\ top \in Nat /\ thread[t].pts[c] \in Nat
      BY DEF GapInv, ThreadsOK, ThreadRows, ChannelIsListed, OnChannel, CompleteRecovery
    <2>2. /\ saved' = [saved EXCEPT ![c] = thread[t].pts[c]] /\ marker' = marker \ {c}
          /\ thread[t].pc = "complete"
          /\ UNCHANGED <<accepted, live, resync, reporter, overlap>>
      BY DEF CompleteRecovery, bounds
    <2>3. thread[t].pts[c] <= top /\ \A x \in 1..top : x \in accepted[c]
      BY <2>2 DEF GapInv, ReadsFromTop
    <2>4. c \notin overlap => /\ \A x \in 1..live[c] : x <= top \/ x \in accepted[c]
                              /\ Resyncing(c) => \A x \in 1..resync[c] : x <= top \/ x \in accepted[c]
      BY <2>1, <2>2 DEF GapInv, LiveIsAccepted
    <2>5. saved'[c] = thread[t].pts[c] /\ \A d \in Channels \ {c} : saved'[d] = saved[d]
      BY <2>1, <2>2 DEF GapInv, SavedOK
    <2>6. live[c] \in Nat /\ resync[c] \in Nat
      BY <2>1 DEF GapInv, LiveOK, ResyncOK
    <2> HIDE DEF c, top
    <2>7. \A x \in 1..saved'[c] : x \in accepted[c]
      BY <2>1, <2>3, <2>5
    <2>8. c \notin overlap => /\ \A x \in 1..live[c] : x \in accepted[c]
                              /\ Resyncing(c) => \A x \in 1..resync[c] : x \in accepted[c]
      BY <2>1, <2>3, <2>4, <2>6
    <2> QED
      BY <2>2, <2>5, <2>7, <2>8 DEF GapInv, PassedIsAccepted, Resyncing
  <1>12. /\ PostedOK' /\ LiveOK' /\ ResyncOK' /\ AcceptedOK' /\ ReportersOK' /\ SwitchesOK'
         /\ GapSpentOK'
    BY DEF GapInv, PostedOK, LiveOK, ResyncOK, AcceptedOK, ReportersOK, SwitchesOK, GapSpentOK,
       CompleteRecovery, flags, bounds, Reports
  <1> QED
    BY <1>1, <1>2, <1>3, <1>4, <1>5, <1>6, <1>7, <1>8, <1>9, <1>10, <1>11, <1>12 DEF GapInv

\* A failure leaves the marker.
LEMMA RepairFailsKept ==
  ASSUME GapInv, NEW t \in Threads, RepairFails(t)
  PROVE  GapInv'
  <1>1. AcceptedOK'
    BY DEF GapInv, AcceptedOK, RepairFails, Off, markers, flags
  <1>2. ThreadsOK'
    BY DEF GapInv, ThreadsOK, RepairFails, Off, markers, flags, Threads, ThreadRows, Positions,
       Modes
  <1>3. GapSpentOK'
    BY DEF GapInv, GapSpentOK, RepairFails, Off, markers, flags
  <1>4. RepairIsLocked'
    BY DEF GapInv, RepairIsLocked, RepairFails, Off, markers, flags, Threads, InRepair,
       ThreadsOK
  <1>5. ChannelIsListed'
    BY DEF GapInv, ChannelIsListed, RepairFails, Off, markers, flags, Threads, OnChannel
  <1>6. DownIsStill'
    BY DEF GapInv, DownIsStill, RepairFails, Off, markers, flags, Threads
  <1>7. BehindPosted'
    BY DEF GapInv, BehindPosted, RepairFails, Off, markers, flags, Threads, PostedOK
  <1>8. ReadsFromTop'
    <2>1. \A c \in Channels : accepted[c] \subseteq accepted'[c]
      BY DEF RepairFails, GapInv, AcceptedOK
    <2>2. thread'[t].pc = "backoff" /\ \A u \in Threads \ {t} : thread'[u] = thread[u]
      BY DEF RepairFails, GapInv, ThreadsOK, Off
    <2>3. \A u \in Threads : thread[u].pc = "complete" => thread[u].channel \in Channels
      BY DEF GapInv, ThreadsOK, ThreadRows, ChannelIsListed, OnChannel
    <2> QED
      BY <2>1, <2>2, <2>3 DEF GapInv, ReadsFromTop
  <1>9. LiveIsAccepted'
    BY DEF GapInv, LiveIsAccepted, RepairFails, Off, markers, flags, Threads, Resyncing,
       AcceptedOK
  <1>10. PassedIsAccepted'
    BY DEF GapInv, PassedIsAccepted, RepairFails, Off, markers, flags, Resyncing, AcceptedOK
  <1>11. /\ PostedOK' /\ SavedOK' /\ LiveOK' /\ ResyncOK' /\ TargetOK' /\ MarksOK' /\ ReportersOK'
         /\ SwitchesOK'
    BY DEF GapInv, PostedOK, SavedOK, LiveOK, ResyncOK, TargetOK, MarksOK, ReportersOK,
       SwitchesOK, RepairFails, markers, flags, Reports
  <1> QED
    BY <1>1, <1>2, <1>3, <1>4, <1>5, <1>6, <1>7, <1>8, <1>9, <1>10, <1>11 DEF GapInv

\* It tries again.
LEMMA BackoffEndsKept ==
  ASSUME GapInv, NEW t \in Threads, BackoffEnds(t)
  PROVE  GapInv'
  <1>1. ThreadsOK'
    BY DEF GapInv, ThreadsOK, BackoffEnds, Goto, cursors, markers, flags, bounds, Threads,
       ThreadRows, Positions, Modes
  <1>2. RepairIsLocked'
    BY DEF GapInv, RepairIsLocked, BackoffEnds, Goto, cursors, markers, flags, bounds, Threads,
       InRepair
  <1>3. ChannelIsListed'
    BY DEF GapInv, ChannelIsListed, BackoffEnds, Goto, cursors, markers, flags, bounds, Threads,
       OnChannel
  <1>4. DownIsStill'
    BY DEF GapInv, DownIsStill, BackoffEnds, Goto, cursors, markers, flags, bounds, Threads
  <1>5. BehindPosted'
    BY DEF GapInv, BehindPosted, BackoffEnds, Goto, cursors, markers, flags, bounds, Threads
  <1>6. ReadsFromTop'
    BY DEF GapInv, ReadsFromTop, BackoffEnds, Goto, cursors, markers, flags, bounds, Threads
  <1>7. LiveIsAccepted'
    BY DEF GapInv, LiveIsAccepted, BackoffEnds, Goto, cursors, markers, flags, bounds, Threads,
       Resyncing
  <1>8. /\ PostedOK' /\ SavedOK' /\ LiveOK' /\ ResyncOK' /\ TargetOK' /\ AcceptedOK' /\ MarksOK'
        /\ ReportersOK' /\ SwitchesOK' /\ GapSpentOK' /\ PassedIsAccepted'
    BY DEF GapInv, PostedOK, SavedOK, LiveOK, ResyncOK, TargetOK, AcceptedOK, MarksOK,
       ReportersOK, SwitchesOK, GapSpentOK, PassedIsAccepted, BackoffEnds, Goto, cursors,
       markers, flags, bounds, Reports, Resyncing
  <1> QED
    BY <1>1, <1>2, <1>3, <1>4, <1>5, <1>6, <1>7, <1>8 DEF GapInv

\* What is lost with the process was not durable,
LEMMA CrashKept ==
  ASSUME GapInv, Crash
  PROVE  GapInv'
  <1>1. ReportersOK'
    BY DEF GapInv, ReportersOK, Crash, Threads, Off, cursors, markers, Reports
  <1>2. SwitchesOK'
    BY DEF GapInv, SwitchesOK, Crash, Threads, Off, cursors, markers
  <1>3. ThreadsOK'
    BY DEF GapInv, ThreadsOK, Crash, Threads, Off, cursors, markers, ThreadRows, Positions,
       Modes
  <1>4. GapSpentOK'
    BY DEF GapInv, GapSpentOK, Crash, Threads, Off, cursors, markers
  <1>5. RepairIsLocked'
    BY DEF GapInv, RepairIsLocked, Crash, Threads, Off, cursors, markers, InRepair
  <1>6. ChannelIsListed'
    BY DEF GapInv, ChannelIsListed, Crash, Threads, Off, cursors, markers, OnChannel
  <1>7. DownIsStill'
    BY DEF GapInv, DownIsStill, Crash, Threads, Off, cursors, markers
  <1>8. BehindPosted'
    BY DEF GapInv, BehindPosted, Crash, Threads, Off, cursors, markers, PostedOK
  <1>9. ReadsFromTop'
    BY DEF GapInv, ReadsFromTop, Crash, Threads, Off, cursors, markers
  <1>10. LiveIsAccepted'
    BY DEF GapInv, LiveIsAccepted, Crash, Threads, Off, cursors, markers, Resyncing
  <1>11. PassedIsAccepted'
    BY DEF GapInv, PassedIsAccepted, Crash, Threads, Off, cursors, markers, Resyncing
  <1>12. PostedOK' /\ SavedOK' /\ LiveOK' /\ ResyncOK' /\ TargetOK' /\ AcceptedOK' /\ MarksOK'
    BY DEF GapInv, PostedOK, SavedOK, LiveOK, ResyncOK, TargetOK, AcceptedOK, MarksOK, Crash,
       cursors, markers
  <1> QED
    BY <1>1, <1>2, <1>3, <1>4, <1>5, <1>6, <1>7, <1>8, <1>9, <1>10, <1>11, <1>12 DEF GapInv

\* and the cursor starts where it was saved.
LEMMA StartKept ==
  ASSUME GapInv, Start
  PROVE  GapInv'
  <1>1. LiveOK'
    BY DEF GapInv, LiveOK, Start, Off, markers, flags, bounds, SavedOK
  <1>2. SwitchesOK'
    BY DEF GapInv, SwitchesOK, Start, Off, markers, flags, bounds
  <1>3. ThreadsOK'
    BY DEF GapInv, ThreadsOK, Start, Off, markers, flags, bounds, Threads, ThreadRows,
       Positions, Modes
  <1>4. RepairIsLocked'
    BY DEF GapInv, RepairIsLocked, Start, Off, markers, flags, bounds, Threads, InRepair
  <1>5. ChannelIsListed'
    BY DEF GapInv, ChannelIsListed, Start, Off, markers, flags, bounds, Threads, OnChannel
  <1>6. DownIsStill'
    BY DEF GapInv, DownIsStill, Start, Off, markers, flags, bounds, Threads
  <1>7. BehindPosted'
    BY DEF GapInv, BehindPosted, Start, Off, markers, flags, bounds, Threads, PostedOK
  <1>8. ReadsFromTop'
    BY DEF GapInv, ReadsFromTop, Start, Off, markers, flags, bounds, Threads
  <1>9. LiveIsAccepted'
    <2>1. \A u \in Threads : thread'[u].pc \in {"off", "lock"}
      BY DEF Start, GapInv, ThreadsOK, DownIsStill, Off, Threads
    <2> QED
      BY <2>1 DEF LiveIsAccepted
  <1>10. PassedIsAccepted'
    BY DEF GapInv, PassedIsAccepted, Start, Off, markers, flags, bounds, Resyncing
  <1>11. /\ PostedOK' /\ SavedOK' /\ ResyncOK' /\ TargetOK' /\ AcceptedOK' /\ MarksOK'
         /\ ReportersOK' /\ GapSpentOK'
    BY DEF GapInv, PostedOK, SavedOK, ResyncOK, TargetOK, AcceptedOK, MarksOK, ReportersOK,
       GapSpentOK, Start, markers, flags, bounds, Reports
  <1> QED
    BY <1>1, <1>2, <1>3, <1>4, <1>5, <1>6, <1>7, <1>8, <1>9, <1>10, <1>11 DEF GapInv

\* Nothing is posted, marked or running at first.
LEMMA InitGapInv == Init => GapInv
  <1> SUFFICES ASSUME Init PROVE GapInv
    OBVIOUS
  <1>1. /\ PostedOK /\ SavedOK /\ LiveOK /\ ResyncOK /\ TargetOK /\ AcceptedOK /\ MarksOK
        /\ ReportersOK /\ SwitchesOK /\ GapSpentOK
    BY DEF Init, PostedOK, SavedOK, LiveOK, ResyncOK, TargetOK, AcceptedOK, MarksOK, ReportersOK,
       SwitchesOK, GapSpentOK, Reports
  <1>2. ThreadsOK /\ \A t \in Threads : thread[t] = Off
    BY OffOK DEF Init, ThreadsOK
  <1>3. RepairIsLocked /\ ChannelIsListed /\ DownIsStill /\ ReadsFromTop /\ LiveIsAccepted
    BY <1>2 DEF Init, Off, RepairIsLocked, InRepair, OnChannel, ChannelIsListed, DownIsStill,
       ReadsFromTop, LiveIsAccepted
  <1>4. BehindPosted /\ PassedIsAccepted
    BY <1>2 DEF Init, Off, BehindPosted, PassedIsAccepted, Resyncing
  <1> QED
    BY <1>1, <1>2, <1>3, <1>4 DEF GapInv

\* Every step keeps the invariant.
LEMMA GapInvKept == GapInv /\ [Next]_vars => GapInv'
  <1> SUFFICES ASSUME GapInv, [Next]_vars PROVE GapInv'
    OBVIOUS
  <1>1. ASSUME NEW c \in Channels, Report(c) PROVE GapInv'
    BY <1>1, RecordAgainKept, SetAgainKept, StartLoopKept, ResyncKept DEF Report
  <1>2. ASSUME NEW t \in Threads, RepairStep(t) PROVE GapInv'
    BY <1>2, SwapAgainKept, EndLoopKept, RecheckKept, CloseFinalKept, EnterKept, ScanKept,
       ListMarkersKept,
       NextRecordKept, ResolvePtsKept, FirstPageKept, DeliverPagesKept, CompleteRecoveryKept, RepairFailsKept,
       BackoffEndsKept DEF RepairStep
  <1>3. CASE UNCHANGED vars
    BY <1>3 DEF vars, GapInv, PostedOK, SavedOK, LiveOK, ResyncOK, TargetOK, AcceptedOK, MarksOK,
       ReportersOK,
       SwitchesOK, ThreadsOK, GapSpentOK, RepairIsLocked, ChannelIsListed, DownIsStill, BehindPosted,
       ReadsFromTop, LiveIsAccepted, PassedIsAccepted, Resyncing
  <1> QED
    BY <1>1, <1>2, <1>3, PostKept, LiveUpdateKept, SetChannelPtsKept, DifferenceTooLongKept,
       CrashKept, StartKept DEF Next

\* The cursor, the markers and the repairs keep their shapes, and the repair holds its lock.
THEOREM GapTypeCorrect == Spec => []TypeOK
  <1>1. GapInv => TypeOK
    BY DEF GapInv, TypeOK, PostedOK, SavedOK, LiveOK, ResyncOK, TargetOK, AcceptedOK, MarksOK,
       ReportersOK,
       SwitchesOK, ThreadsOK, ThreadRows, GapSpentOK, RepairIsLocked, InRepair, OnChannel, ChannelIsListed
  <1> QED
    BY <1>1, InitGapInv, GapInvKept, PTL DEF Spec

\* No message that the durable cursor passed is forgotten: it was accepted, or its channel is marked
\* for recovery, but for a gap reported while its channel was being re-read.
THEOREM SkippedStaysMarked == Spec => []SkippedIsMarked
  <1>1. GapInv => SkippedIsMarked
    BY DEF GapInv, SkippedIsMarked, Skipped, PassedIsAccepted
  <1> QED
    BY <1>1, InitGapInv, GapInvKept, PTL DEF Spec
=============================================================================
