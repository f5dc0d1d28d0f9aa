------------------------------ MODULE FileSend ------------------------------
(***************************************************************************)
(* The file-send jobs of AppController, together with the two other        *)
(* sources of transmissions: raw commands of the user and the queued       *)
(* sendRequested events of automation plugins.                             *)
(*                                                                         *)
(* Everything runs on one Qt event loop, so a step is either an event      *)
(* (frame = "loop") or one call of the handler that is on the stack:       *)
(* frame = "start" inside startNextFileSendJob, frame = "send" inside      *)
(* sendNextFilePacket.  No event is handled while a frame is open; an      *)
(* automation plugin may nevertheless post events from its synchronous     *)
(* onRawBytesReceived callback.                                            *)
(***************************************************************************)
EXTENDS Integers, Sequences

CONSTANTS
  Transports,        \* names known to TransportViewModel
  InitialTransport,  \* "UART", the active transport at startup
  MaxJobs,           \* bound: files accepted in a behaviour
  MaxPackets,        \* bound: packets of one file
  MaxDownloads,      \* bound: downloads in flight
  MaxRaw             \* bound: raw commands of user and plugins in a behaviour

ASSUME FileSendAssumption ==
  /\ InitialTransport \in Transports
  /\ MaxJobs \in Nat
  /\ MaxPackets \in Nat
  /\ MaxDownloads \in Nat
  /\ MaxRaw \in Nat

VARIABLES
  frame,            \* the handler on the stack: "loop", "start" or "send"
  queue,            \* m_fileSendQueue, as ids of jobs
  activeJob,        \* m_activeFileSendJob; NoJob when nullopt
  nextPacketIndex,  \* nextPacketIndex of the active job
  timerActive,      \* m_fileSendTimer, single shot
  downloads,        \* number of unfinished QNetworkReply objects
  posted,           \* queued sendRequested events
  activeTransport,  \* TransportViewModel::m_activeTransport
  open,             \* transports that would accept a write
  accepted,         \* history: number of jobs queued so far
  job,              \* history: target and packet count of every job
  result,           \* history: how every job ended
  sent,             \* history: packets transmitted of every job
  wire,             \* history: all transmissions, in order
  raws              \* history: raw commands issued so far

jobVars == <<queue, activeJob, nextPacketIndex, accepted, job, result, sent>>
envVars == <<downloads, posted, activeTransport, open, raws>>
vars == <<frame, timerActive, wire, jobVars, envVars>>

NoJob  == 0
JobIds == 1..MaxJobs

Jobs == [target : Transports, packets : 0..MaxPackets]
Transmissions ==
  [kind : {"file", "user", "plugin"}, job : 0..MaxJobs, packet : Nat, via : Transports]

Init ==
  /\ frame = "loop"
  /\ queue = <<>>
  /\ activeJob = NoJob
  /\ nextPacketIndex = 0
  /\ timerActive = FALSE
  /\ downloads = 0
  /\ posted = 0
  /\ activeTransport = InitialTransport
  /\ open = {}
  /\ accepted = 0
  /\ job = [j \in JobIds |-> [target |-> InitialTransport, packets |-> 0]]
  /\ result = [j \in JobIds |-> "none"]
  /\ sent = [j \in JobIds |-> 0]
  /\ wire = <<>>
  /\ raws = 0

-----------------------------------------------------------------------------
(* Queueing a file.                                                        *)

AlreadyBusy == activeJob # NoJob \/ queue # <<>> \/ timerActive

(* Packet counts that reach the queue: an empty file is rejected.  Without *)
(* that early return (mutant) a file of no packets is queued; another      *)
(* mutant splits off one packet more than the file has.                    *)
PacketCountsUnchecked == 0..MaxPackets
PacketCountsWithTail  == 1..(MaxPackets + 1)
PacketCounts == 1..MaxPackets

(* m_fileSendQueue.append; the mutant prepends.                            *)
Prepended(j) == <<j>> \o queue
Enqueued(j)  == Append(queue, j)

(* The tail of queueFileBytesForSend: the target is resolved now (a target *)
(* named in the command is a selection made just before it), the job goes  *)
(* to the back, and it is started at once when nothing is going on.        *)
(* An empty file, a missing decoder and a failed packetizer return before  *)
(* this point and change nothing.                                          *)
QueueFileBytes(n) ==
  /\ accepted < MaxJobs
  /\ accepted' = accepted + 1
  /\ job' = [job EXCEPT ![accepted'] = [target |-> activeTransport, packets |-> n]]
  /\ queue' = Enqueued(accepted')
  /\ frame' = IF AlreadyBusy THEN "loop" ELSE "start"
  /\ UNCHANGED <<activeJob, nextPacketIndex, timerActive, result, sent, wire,
                 posted, activeTransport, open, raws>>

(* A FILE button whose payload is a readable local file.                   *)
SendLocalFile ==
  /\ frame = "loop"
  /\ \E n \in PacketCounts : QueueFileBytes(n)
  /\ UNCHANGED downloads

(* A FILE button whose payload is an http(s) URL.                          *)
DownloadFile ==
  /\ frame = "loop"
  /\ downloads < MaxDownloads
  /\ downloads' = downloads + 1
  /\ UNCHANGED <<frame, jobVars, timerActive, wire, posted, activeTransport, open, raws>>

(* The reply finishes with a usable body: it is queued like a local file.  *)
DownloadSucceeds ==
  /\ frame = "loop"
  /\ downloads > 0
  /\ downloads' = downloads - 1
  /\ \E n \in PacketCounts : QueueFileBytes(n)

(* The reply ends in an error, in the transfer timeout, or with bytes that *)
(* queueFileBytesForSend rejects.                                          *)
DownloadFails ==
  /\ frame = "loop"
  /\ downloads > 0
  /\ downloads' = downloads - 1
  /\ UNCHANGED <<frame, jobVars, timerActive, wire, posted, activeTransport, open, raws>>

-----------------------------------------------------------------------------
(* Draining the queue.                                                     *)

NextJob   == Head(queue)
OtherJobs == Tail(queue)

(* startNextFileSendJob returns at once while a job is active or when      *)
(* nothing waits; otherwise it calls sendNextFilePacket.                   *)
StartNextFileSendJob ==
  /\ frame = "start"
  /\ IF activeJob # NoJob \/ queue = <<>>
       THEN frame' = "loop" /\ UNCHANGED <<queue, activeJob, nextPacketIndex>>
       ELSE /\ activeJob' = NextJob
            /\ queue' = OtherJobs
            /\ nextPacketIndex' = 0
            /\ frame' = "send"
  /\ UNCHANGED <<timerActive, wire, accepted, job, result, sent, envVars>>

(* m_activeFileSendJob.reset(); startNextFileSendJob(); return;  The       *)
(* mutant forgets the call.                                                *)
EndJobOnly(how) ==
  /\ result' = [result EXCEPT ![activeJob] = how]
  /\ activeJob' = NoJob
  /\ frame' = "loop"
  /\ UNCHANGED <<queue, timerActive, accepted, job, envVars>>
EndJob(how) ==
  /\ result' = [result EXCEPT ![activeJob] = how]
  /\ activeJob' = NoJob
  /\ frame' = "start"
  /\ UNCHANGED <<queue, timerActive, accepted, job, envVars>>

(* sendNextFilePacket begins with two defensive branches, no active job    *)
(* and no packet left, which SendHasAPacket below shows to be dead; the    *)
(* two actions that follow are its write and what comes after it.          *)

(* The target was fixed when the job was queued; the mutant asks again.    *)
TargetAskedAgain == activeTransport
Target == job[activeJob].target

(* The write is refused: the transport is gone or closed, UDP has no peer  *)
(* yet, or the device took fewer bytes than offered.                       *)
SendPacketFails ==
  /\ frame = "send" /\ activeJob # NoJob
  /\ nextPacketIndex < job[activeJob].packets
  /\ EndJob("failed")
  /\ UNCHANGED <<nextPacketIndex, sent, wire>>

(* m_fileSendTimer.start; the mutant leaves the timer alone.               *)
NoSchedule == UNCHANGED timerActive
ScheduleNextPacket == timerActive' = TRUE

(* The test after the increment; the mutant is off by one.                 *)
IsLastButOnePacket == nextPacketIndex + 2 >= job[activeJob].packets
IsLastPacket == nextPacketIndex + 1 >= job[activeJob].packets

SendPacketSucceeds ==
  /\ frame = "send" /\ activeJob # NoJob
  /\ nextPacketIndex < job[activeJob].packets
  /\ Target \in open
  /\ wire' = Append(wire, [kind |-> "file", job |-> activeJob,
                           packet |-> nextPacketIndex + 1, via |-> Target])
  /\ sent' = [sent EXCEPT ![activeJob] = @ + 1]
  /\ nextPacketIndex' = nextPacketIndex + 1
  /\ IF IsLastPacket
       THEN EndJob("sent")
       ELSE /\ ScheduleNextPacket
            /\ frame' = "loop"
            /\ UNCHANGED <<queue, activeJob, accepted, job, result, envVars>>

TimerFires ==
  /\ frame = "loop"
  /\ timerActive
  /\ timerActive' = FALSE
  /\ frame' = "send"
  /\ UNCHANGED <<jobVars, wire, envVars>>

-----------------------------------------------------------------------------
(* Raw commands.                                                           *)

Transmit(kind, t) ==
  wire' = Append(wire, [kind |-> kind, job |-> NoJob, packet |-> 0, via |-> t])

(* sendRawCommand for a command of the user; a refused write changes       *)
(* nothing.                                                                *)
UserSends(t) ==
  /\ frame = "loop"
  /\ raws < MaxRaw
  /\ raws' = raws + 1
  /\ t \in open
  /\ Transmit("user", t)
  /\ UNCHANGED <<frame, jobVars, timerActive, downloads, posted, activeTransport, open>>

(* An automation plugin emits sendRequested, from a callback of the host   *)
(* or from an event of its own; the connection is queued.                  *)
PluginRequestsSend ==
  /\ raws < MaxRaw
  /\ raws' = raws + 1
  /\ posted' = posted + 1
  /\ UNCHANGED <<frame, jobVars, timerActive, wire, downloads, activeTransport, open>>

(* onAutomationSendRequested, with or without a successful write.          *)
DeliverPluginSend(t) ==
  /\ frame = "loop"
  /\ posted > 0
  /\ posted' = posted - 1
  /\ \/ t \in open /\ Transmit("plugin", t)
     \/ UNCHANGED wire
  /\ UNCHANGED <<frame, jobVars, timerActive, downloads, activeTransport, open, raws>>

(* The rest of the application: transports open and close, and the active  *)
(* transport changes, between any two events.                              *)
Environment ==
  /\ frame = "loop"
  /\ \/ activeTransport' \in Transports /\ UNCHANGED open
     \/ open' \in SUBSET Transports /\ UNCHANGED activeTransport
  /\ UNCHANGED <<frame, jobVars, timerActive, wire, downloads, posted, raws>>

-----------------------------------------------------------------------------
Handler ==
  \/ StartNextFileSendJob
  \/ SendPacketFails
  \/ SendPacketSucceeds

Next ==
  \/ SendLocalFile
  \/ DownloadFile
  \/ DownloadSucceeds
  \/ DownloadFails
  \/ Handler
  \/ TimerFires
  \/ PluginRequestsSend
  \/ \E t \in Transports : UserSends(t) \/ DeliverPluginSend(t)
  \/ Environment

(* A handler that is on the stack runs to its end, an active timer fires   *)
(* and posted events are delivered.  Users, plugins, servers and devices   *)
(* owe nothing.                                                            *)
Fairness ==
  /\ WF_vars(Handler)
  /\ WF_vars(TimerFires)
  /\ WF_vars(\E t \in Transports : DeliverPluginSend(t))

Spec     == Init /\ [][Next]_vars
FairSpec == Spec /\ Fairness

-----------------------------------------------------------------------------
(* Properties.                                                             *)

TypeOK ==
  /\ frame \in {"loop", "start", "send"}
  /\ queue \in Seq(JobIds)
  /\ activeJob \in 0..MaxJobs
  /\ nextPacketIndex \in Nat
  /\ timerActive \in BOOLEAN
  /\ downloads \in Nat
  /\ posted \in Nat
  /\ activeTransport \in Transports
  /\ open \in SUBSET Transports
  /\ accepted \in 0..MaxJobs
  /\ job \in [JobIds -> Jobs]
  /\ result \in [JobIds -> {"none", "sent", "failed"}]
  /\ sent \in [JobIds -> Nat]
  /\ wire \in Seq(Transmissions)
  /\ raws \in 0..MaxRaw

(* Between events no job is forgotten: while anything waits a job is       *)
(* active, and a job is active exactly while the packet timer runs, so the *)
(* queue is always drained further (queueFileBytesForSend starts a job     *)
(* itself only when it believes nothing is going on).                      *)
NoStrandedJob ==
  frame = "loop" =>
    /\ (queue # <<>> => activeJob # NoJob)
    /\ (activeJob # NoJob <=> timerActive)

(* sendNextFilePacket is entered with a job that has a packet left, so its *)
(* defensive branches are never taken: no timer survives its job.          *)
SendHasAPacket ==
  frame = "send" =>
    activeJob # NoJob /\ nextPacketIndex < job[activeJob].packets

IsFile(i) == wire[i].kind = "file"

(* Files go out first come first served and never mixed with one another,  *)
(* and the packets of a file go out in order, each at most once, whatever  *)
(* downloads finish and writes fail in between.                            *)
FilesInOrder ==
  \A i, k \in 1..Len(wire) :
    i < k /\ IsFile(i) /\ IsFile(k) =>
      \/ wire[i].job < wire[k].job
      \/ wire[i].job = wire[k].job /\ wire[i].packet < wire[k].packet

(* What went out of a file is a gapless prefix of its packets, all through *)
(* the transport that was active when the file was queued, even when the   *)
(* active transport has changed since.                                     *)
GaplessOnOneTransport ==
  /\ \A j \in JobIds : \A p \in 1..sent[j] : \E i \in 1..Len(wire) :
       wire[i] = [kind |-> "file", job |-> j, packet |-> p, via |-> job[j].target]
  /\ \A i \in 1..Len(wire) : IsFile(i) =>
       /\ wire[i].job \in JobIds
       /\ wire[i].packet \in 1..sent[wire[i].job]
       /\ wire[i].via = job[wire[i].job].target

(* "Sent n packet(s)" is reported for a file exactly when all of it went   *)
(* out; a file given up has at least one packet left.                      *)
ReportIsTrue ==
  \A j \in JobIds :
    /\ (result[j] = "sent"   => sent[j] = job[j].packets /\ sent[j] > 0)
    /\ (result[j] = "failed" => sent[j] < job[j].packets)

(* Every file that was accepted ends, sent or failed, without further user *)
(* action.                                                                 *)
EveryJobEnds ==
  \A j \in JobIds : (accepted >= j) ~> (result[j] # "none")

(* AppController.cpp:888 says of the queued connection that plugin sends   *)
(* "cannot interleave with an active file-send job".                       *)
PluginSendsStayOutside ==
  \A i, k, l \in 1..Len(wire) :
    i < k /\ k < l /\ IsFile(i) /\ IsFile(l) /\ wire[i].job = wire[l].job
      => wire[k].kind # "plugin"

-----------------------------------------------------------------------------
(* FileSend implements FileJobQueue.                                       *)

Phase(j) ==
  IF result[j] # "none" THEN result[j]
  ELSE IF j = activeJob THEN "sending"
  ELSE IF j <= accepted THEN "waiting" ELSE "none"

Abstract == INSTANCE FileJobQueue WITH
  size      <- [j \in JobIds |-> job[j].packets],
  delivered <- sent,
  phase     <- [j \in JobIds |-> Phase(j)]

ImplementsFileJobQueue == Abstract!Spec

=============================================================================
