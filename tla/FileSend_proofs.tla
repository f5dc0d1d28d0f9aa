--------------------------- MODULE FileSend_proofs ---------------------------
(***************************************************************************)
(* Proofs about FileSend for every set of transports and every value of    *)
(* the bounds: the inductive invariant IndInv, the safety properties that  *)
(* follow from it, and the refinement of FileJobQueue.                     *)
(***************************************************************************)
EXTENDS FileSend, TLAPS

(* The last job that has left the queue.                                   *)
Started == accepted - Len(queue)

(* Ids are handed out in order and the queue holds the newest of them.     *)
QueueShape ==
  /\ Len(queue) <= accepted
  /\ \A i \in 1..Len(queue) : queue[i] = Started + i
  /\ activeJob \in {NoJob, Started}

(* What the frame on the stack says about active job and timer.            *)
FrameShape ==
  /\ frame = "loop" =>
       (queue # <<>> => activeJob # NoJob) /\ (activeJob # NoJob <=> timerActive)
  /\ frame = "start" => activeJob = NoJob /\ ~timerActive
  /\ frame = "send" => activeJob # NoJob /\ ~timerActive
  /\ activeJob # NoJob => nextPacketIndex < job[activeJob].packets

(* How the histories of the jobs follow the queue.                         *)
JobShape ==
  /\ activeJob # NoJob => nextPacketIndex = sent[activeJob]
  /\ \A j \in JobIds :
       /\ j > Started => sent[j] = 0
       /\ j <= accepted <=> job[j].packets > 0
       /\ result[j] # "none" <=> (j <= Started /\ j # activeJob)

IndInv ==
  /\ TypeOK
  /\ QueueShape
  /\ FrameShape
  /\ JobShape
  /\ ReportIsTrue
  /\ GaplessOnOneTransport
  /\ FilesInOrder

-----------------------------------------------------------------------------
LEMMA InitInd == Init => IndInv
<1> SUFFICES ASSUME Init PROVE IndInv
  OBVIOUS
<1> USE FileSendAssumption DEF Init, NoJob, JobIds
<1>1. TypeOK
  <2>1. [target |-> InitialTransport, packets |-> 0] \in Jobs
    BY DEF Jobs
  <2>2. queue \in Seq(JobIds) /\ wire \in Seq(Transmissions)
    OBVIOUS
  <2>3. open \in SUBSET Transports /\ timerActive \in BOOLEAN
    OBVIOUS
  <2>4. QED
    BY <2>1, <2>2, <2>3 DEF TypeOK
<1>2. QueueShape /\ FrameShape /\ JobShape
  BY DEF QueueShape, FrameShape, JobShape, Started
<1>3. ReportIsTrue /\ GaplessOnOneTransport /\ FilesInOrder
  BY DEF ReportIsTrue, GaplessOnOneTransport, FilesInOrder, IsFile
<1>4. QED
  BY <1>1, <1>2, <1>3 DEF IndInv

(* A step that touches neither jobs, timer, frame nor wire.                *)
LEMMA BystanderInd ==
  ASSUME IndInv, TypeOK', UNCHANGED <<frame, jobVars, timerActive, wire>>
  PROVE  IndInv'
BY DEF IndInv, QueueShape, FrameShape, JobShape, Started, ReportIsTrue,
       GaplessOnOneTransport, FilesInOrder, IsFile, jobVars

(* A raw command changes the wire, but no file on it.                      *)
LEMMA RawInd ==
  ASSUME IndInv, TypeOK', NEW kind \in {"user", "plugin"}, NEW t \in Transports,
         Transmit(kind, t), UNCHANGED <<frame, jobVars, timerActive>>
  PROVE  IndInv'
<1> USE DEF IndInv, jobVars
<1>0. /\ wire \in Seq(Transmissions)
      /\ wire' = Append(wire, [kind |-> kind, job |-> NoJob, packet |-> 0, via |-> t])
  BY DEF TypeOK, Transmit
<1>1. /\ Len(wire') = Len(wire) + 1
      /\ \A i \in 1..Len(wire) : wire'[i] = wire[i]
      /\ wire'[Len(wire) + 1].kind # "file"
  BY <1>0
<1>2. (QueueShape /\ FrameShape /\ JobShape /\ ReportIsTrue)'
  BY DEF QueueShape, FrameShape, JobShape, Started, ReportIsTrue
<1>3. GaplessOnOneTransport'
  BY <1>0, <1>1 DEF GaplessOnOneTransport, IsFile
<1>4. FilesInOrder'
  BY <1>0, <1>1 DEF FilesInOrder, IsFile
<1>5. QED
  BY <1>2, <1>3, <1>4

(* A file is queued, in an event.                                          *)
LEMMA QueueInd ==
  ASSUME IndInv, frame = "loop", NEW n \in 1..MaxPackets, QueueFileBytes(n),
         downloads' \in Nat
  PROVE  IndInv'
<1> USE FileSendAssumption DEF IndInv, NoJob, JobIds
<1> DEFINE new == accepted + 1
<1>0. /\ new \in 1..MaxJobs /\ accepted' = new
      /\ job' = [job EXCEPT ![new] = [target |-> activeTransport, packets |-> n]]
      /\ queue' = Append(queue, new)
      /\ frame' = IF AlreadyBusy THEN "loop" ELSE "start"
      /\ UNCHANGED <<activeJob, nextPacketIndex, timerActive, result, sent, wire,
                     posted, activeTransport, open, raws>>
  BY DEF QueueFileBytes, Enqueued, TypeOK
<1>1. TypeOK'
  BY <1>0 DEF TypeOK, Jobs
<1>2. /\ Len(queue') = Len(queue) + 1 /\ queue'[Len(queue) + 1] = new
      /\ \A i \in 1..Len(queue) : queue'[i] = queue[i]
      /\ Started' = Started /\ Started \in 0..accepted
  BY <1>0 DEF TypeOK, Started, QueueShape
<1>3. QueueShape'
  <2>1. Len(queue') <= accepted'
    BY <1>0, <1>2 DEF QueueShape, TypeOK
  <2>2. \A i \in 1..Len(queue') : queue'[i] = Started' + i
    <3> TAKE i \in 1..Len(queue')
    <3>1. CASE i = Len(queue) + 1
      BY <1>2, <3>1 DEF Started, TypeOK
    <3>2. CASE i # Len(queue) + 1
      <4>1. i \in 1..Len(queue)
        BY <1>2, <3>2 DEF TypeOK
      <4>2. QED
        BY <1>2, <4>1 DEF QueueShape
    <3>3. QED
      BY <3>1, <3>2
  <2>3. QED
    BY <1>0, <1>2, <2>1, <2>2 DEF QueueShape
<1>4. \A j \in JobIds : j # new => job'[j] = job[j]
  BY <1>0 DEF TypeOK
<1>5. job'[new].packets = n /\ sent[new] = 0 /\ result[new] = "none" /\ activeJob # new
  BY <1>0, <1>2 DEF TypeOK, JobShape, QueueShape
<1>6. FrameShape'
  <2>1. activeJob # NoJob => job'[activeJob] = job[activeJob]
    <3>1. activeJob # NoJob => activeJob \in JobIds
      BY DEF TypeOK
    <3>2. QED
      BY <1>4, <1>5, <3>1
  <2>2. queue' # <<>>
    BY <1>2
  <2>3. CASE AlreadyBusy
    BY <1>0, <2>1, <2>2, <2>3 DEF FrameShape, AlreadyBusy
  <2>4. CASE ~AlreadyBusy
    BY <1>0, <2>1, <2>4 DEF FrameShape, AlreadyBusy
  <2>5. QED
    BY <2>3, <2>4
<1>7. JobShape'
  <2>1. activeJob' # NoJob => nextPacketIndex' = sent'[activeJob']
    BY <1>0 DEF JobShape
  <2>2. ASSUME NEW j \in JobIds
        PROVE  /\ j > Started' => sent'[j] = 0
               /\ result'[j] # "none" <=> (j <= Started' /\ j # activeJob')
    BY <1>0, <1>2 DEF JobShape
  <2>3. ASSUME NEW j \in JobIds
        PROVE  j <= accepted' <=> job'[j].packets > 0
    <3>1. CASE j = new
      BY <1>0, <1>5, <3>1
    <3>2. CASE j # new
      BY <1>0, <1>4, <3>2 DEF JobShape, TypeOK
    <3>3. QED
      BY <3>1, <3>2
  <2>4. QED
    BY <2>1, <2>2, <2>3 DEF JobShape
<1>8. ReportIsTrue'
  <2>1. ASSUME NEW j \in JobIds
        PROVE  /\ result'[j] = "sent" => sent'[j] = job'[j].packets /\ sent'[j] > 0
               /\ result'[j] = "failed" => sent'[j] < job'[j].packets
    <3>1. result' = result /\ sent' = sent
      BY <1>0
    <3>2. CASE j = new
      BY <1>5, <3>1, <3>2
    <3>3. CASE j # new
      <4>1. job'[j] = job[j]
        BY <1>4, <3>3
      <4>2. QED
        BY <3>1, <4>1 DEF ReportIsTrue
    <3>4. QED
      BY <3>2, <3>3
  <2>2. QED
    BY <2>1 DEF ReportIsTrue
<1>9. GaplessOnOneTransport'
  <2>1. \A j \in JobIds : \A p \in 1..sent[j] : job'[j] = job[j]
    BY <1>4, <1>5
  <2>2. \A i \in 1..Len(wire) : IsFile(i) => job'[wire[i].job] = job[wire[i].job]
    BY <2>1 DEF GaplessOnOneTransport
  <2>3. QED
    BY <1>0, <2>1, <2>2 DEF GaplessOnOneTransport, IsFile
<1>10. FilesInOrder'
  <2>1. wire' = wire /\ FilesInOrder
    BY <1>0
  <2> HIDE DEF IndInv
  <2>2. QED
    BY <2>1 DEF FilesInOrder, IsFile
<1>11. QED
  BY <1>1, <1>3, <1>6, <1>7, <1>8, <1>9, <1>10

LEMMA StartInd ==
  ASSUME IndInv, StartNextFileSendJob
  PROVE  IndInv'
<1> USE FileSendAssumption DEF IndInv, NoJob, JobIds
<1>0. /\ frame = "start" /\ activeJob = NoJob
      /\ UNCHANGED <<timerActive, wire, accepted, job, result, sent, envVars>>
  BY DEF StartNextFileSendJob, FrameShape
<1>1. CASE queue = <<>>
  <2>1. frame' = "loop" /\ UNCHANGED <<queue, activeJob, nextPacketIndex>>
    BY <1>0, <1>1 DEF StartNextFileSendJob
  <2>2. TypeOK'
    BY <1>0, <2>1 DEF TypeOK, envVars
  <2>3. QueueShape' /\ FrameShape' /\ JobShape'
    BY <1>0, <1>1, <2>1 DEF QueueShape, FrameShape, JobShape, Started
  <2>4. (ReportIsTrue /\ GaplessOnOneTransport /\ FilesInOrder)'
    BY <1>0 DEF ReportIsTrue, GaplessOnOneTransport, FilesInOrder, IsFile
  <2>5. QED
    BY <2>2, <2>3, <2>4
<1>2. CASE queue # <<>>
  <2>1. /\ activeJob' = Head(queue) /\ queue' = Tail(queue)
        /\ nextPacketIndex' = 0 /\ frame' = "send"
    BY <1>0, <1>2 DEF StartNextFileSendJob, NextJob, OtherJobs
  <2>2. /\ Head(queue) = queue[1] /\ Len(queue) \in Nat \ {0}
        /\ Len(queue') = Len(queue) - 1 /\ queue' \in Seq(JobIds)
        /\ \A i \in 1..Len(queue') : queue'[i] = queue[i + 1]
    BY <1>2, <2>1 DEF TypeOK
  <2>3. /\ Started \in Nat /\ Started' = Started + 1
        /\ activeJob' = Started' /\ Started' <= accepted /\ Started' \in JobIds
    BY <1>0, <2>1, <2>2 DEF Started, QueueShape, TypeOK
  <2>4. TypeOK'
    BY <1>0, <2>1, <2>2, <2>3 DEF TypeOK, envVars
  <2>5. QueueShape'
    <3>1. \A i \in 1..Len(queue') : queue'[i] = Started' + i
      <4> TAKE i \in 1..Len(queue')
      <4>1. i + 1 \in 1..Len(queue) /\ queue'[i] = queue[i + 1]
        BY <2>2
      <4>2. queue[i + 1] = Started + (i + 1)
        BY <4>1 DEF QueueShape
      <4>3. QED
        BY <2>3, <4>1, <4>2
    <3>2. Len(queue') <= accepted'
      BY <1>0, <2>2, <2>3 DEF Started, TypeOK
    <3>3. QED
      BY <2>3, <3>1, <3>2 DEF QueueShape
  <2>6. JobShape'
    <3>1. sent[Started'] = 0
      BY <2>3 DEF JobShape
    <3>2. \A j \in JobIds :
            /\ j > Started' => j > Started
            /\ (j <= Started' /\ j # activeJob') <=> (j <= Started /\ j # activeJob)
      BY <1>0, <2>3
    <3>3. QED
      BY <1>0, <2>1, <2>3, <3>1, <3>2 DEF JobShape
  <2>7. FrameShape'
    <3>1. job[Started'].packets > 0
      BY <2>3 DEF JobShape
    <3>2. ~timerActive' /\ job' = job
      BY <1>0 DEF FrameShape
    <3>3. QED
      BY <2>1, <2>3, <3>1, <3>2 DEF FrameShape
  <2>8. (ReportIsTrue /\ GaplessOnOneTransport /\ FilesInOrder)'
    BY <1>0 DEF ReportIsTrue, GaplessOnOneTransport, FilesInOrder, IsFile
  <2>9. QED
    BY <2>4, <2>5, <2>6, <2>7, <2>8
<1>3. QED
  BY <1>1, <1>2

LEMMA FailInd ==
  ASSUME IndInv, SendPacketFails
  PROVE  IndInv'
<1> USE FileSendAssumption DEF IndInv, NoJob, JobIds
<1>0. /\ frame = "send" /\ frame' = "start" /\ activeJob # NoJob /\ activeJob' = NoJob
      /\ nextPacketIndex < job[activeJob].packets
      /\ result' = [result EXCEPT ![activeJob] = "failed"]
      /\ UNCHANGED <<queue, timerActive, accepted, job, envVars, nextPacketIndex, sent, wire>>
  BY DEF SendPacketFails, EndJob
<1>1. activeJob \in JobIds /\ activeJob = Started /\ sent[activeJob] = nextPacketIndex
  BY <1>0 DEF TypeOK, QueueShape, JobShape
<1>2. TypeOK'
  BY <1>0, <1>1 DEF TypeOK, envVars
<1>3. QueueShape' /\ FrameShape'
  BY <1>0 DEF QueueShape, FrameShape, Started
<1>4. JobShape'
  BY <1>0, <1>1 DEF JobShape, TypeOK, Started
<1>5. ReportIsTrue'
  BY <1>0, <1>1 DEF ReportIsTrue, TypeOK
<1>6. GaplessOnOneTransport' /\ FilesInOrder'
  BY <1>0 DEF GaplessOnOneTransport, FilesInOrder, IsFile
<1>7. QED
  BY <1>2, <1>3, <1>4, <1>5, <1>6

LEMMA SucceedInd ==
  ASSUME IndInv, SendPacketSucceeds
  PROVE  IndInv'
<1> USE FileSendAssumption DEF IndInv, NoJob, JobIds
<1> DEFINE entry == [kind |-> "file", job |-> activeJob,
                     packet |-> nextPacketIndex + 1, via |-> job[activeJob].target]
<1>0. /\ frame = "send" /\ activeJob # NoJob
      /\ nextPacketIndex < job[activeJob].packets
      /\ wire' = Append(wire, entry)
      /\ sent' = [sent EXCEPT ![activeJob] = @ + 1]
      /\ nextPacketIndex' = nextPacketIndex + 1
      /\ UNCHANGED <<queue, accepted, job, envVars>>
  BY DEF SendPacketSucceeds, EndJob, Target
<1>1. /\ activeJob \in JobIds /\ activeJob = Started
      /\ sent[activeJob] = nextPacketIndex /\ nextPacketIndex \in Nat
      /\ result[activeJob] = "none" /\ ~timerActive
      /\ sent'[activeJob] = nextPacketIndex + 1
      /\ \A j \in JobIds : j # activeJob => sent'[j] = sent[j]
      /\ job[activeJob] \in Jobs
  BY <1>0 DEF TypeOK, QueueShape, JobShape, FrameShape
<1>2. /\ wire \in Seq(Transmissions) /\ Len(wire') = Len(wire) + 1
      /\ wire'[Len(wire) + 1] = entry
      /\ \A i \in 1..Len(wire) : wire'[i] = wire[i]
  BY <1>0 DEF TypeOK
<1>3. \/ /\ IsLastPacket /\ activeJob' = NoJob /\ frame' = "start" /\ UNCHANGED timerActive
         /\ result' = [result EXCEPT ![activeJob] = "sent"]
      \/ /\ ~IsLastPacket /\ activeJob' = activeJob /\ frame' = "loop"
         /\ timerActive' = TRUE /\ UNCHANGED result
  BY DEF SendPacketSucceeds, EndJob, ScheduleNextPacket
<1>4. TypeOK'
  <2>1. entry \in Transmissions
    BY <1>1 DEF Transmissions, Jobs
  <2>2. wire' \in Seq(Transmissions)
    BY <1>0, <1>2, <2>1
  <2>3. sent' \in [JobIds -> Nat]
    BY <1>0, <1>1 DEF TypeOK
  <2>4. result' \in [JobIds -> {"none", "sent", "failed"}]
    BY <1>1, <1>3 DEF TypeOK
  <2>5. /\ activeJob' \in 0..MaxJobs /\ nextPacketIndex' \in Nat
        /\ frame' \in {"loop", "start", "send"}
        /\ timerActive' \in BOOLEAN
    <3>1. activeJob' \in 0..MaxJobs /\ nextPacketIndex' \in Nat
      BY <1>0, <1>1, <1>3 DEF TypeOK
    <3>2. frame' \in {"loop", "start", "send"}
      BY <1>3
    <3>3. timerActive' \in BOOLEAN
      BY <1>3, Zenon DEF TypeOK
    <3>4. QED
      BY <3>1, <3>2, <3>3
  <2>6. QED
    BY <1>0, <2>2, <2>3, <2>4, <2>5 DEF TypeOK, envVars
<1>5. QueueShape' /\ FrameShape'
  BY <1>0, <1>1, <1>3 DEF QueueShape, FrameShape, Started, IsLastPacket, Jobs
<1>6. JobShape'
  <2>1. Started' = Started
    BY <1>0 DEF Started
  <2>2. activeJob' # NoJob => nextPacketIndex' = sent'[activeJob']
    BY <1>0, <1>1, <1>3
  <2>3. ASSUME NEW j \in JobIds
        PROVE  /\ j > Started => sent'[j] = 0
               /\ result'[j] # "none" <=> (j <= Started /\ j # activeJob')
    BY <1>0, <1>1, <1>3 DEF JobShape, TypeOK
  <2>4. QED
    BY <1>0, <2>1, <2>2, <2>3 DEF JobShape
<1>7. ReportIsTrue'
  <2>1. ASSUME NEW j \in JobIds
        PROVE  /\ result'[j] = "sent" => sent'[j] = job'[j].packets /\ sent'[j] > 0
               /\ result'[j] = "failed" => sent'[j] < job'[j].packets
    <3>1. job' = job
      BY <1>0
    <3>2. CASE j # activeJob
      <4>1. result'[j] = result[j] /\ sent'[j] = sent[j]
        BY <1>1, <1>3, <3>2 DEF TypeOK
      <4>2. QED
        BY <2>1, <3>1, <4>1 DEF ReportIsTrue
    <3>3. CASE j = activeJob
      <4>1. job[j].packets \in Nat /\ sent'[j] = nextPacketIndex + 1
        BY <1>1, <3>3 DEF Jobs
      <4>2. CASE IsLastPacket
        <5>1. sent'[j] = job[j].packets
          BY <1>0, <1>1, <3>3, <4>1, <4>2 DEF IsLastPacket
        <5>2. result'[j] = "sent"
          BY <1>1, <1>3, <3>3, <4>2 DEF TypeOK
        <5>3. QED
          BY <1>1, <3>1, <4>1, <5>1, <5>2
      <4>3. CASE ~IsLastPacket
        BY <1>1, <1>3, <3>3, <4>3
      <4>4. QED
        BY <4>2, <4>3
    <3>4. QED
      BY <3>2, <3>3
  <2>2. QED
    BY <2>1 DEF ReportIsTrue
<1>8. GaplessOnOneTransport'
  <2>1. \A j \in JobIds : \A p \in 1..sent'[j] : \E i \in 1..Len(wire') :
          wire'[i] = [kind |-> "file", job |-> j, packet |-> p, via |-> job'[j].target]
    <3> TAKE j \in JobIds
    <3> TAKE p \in 1..sent'[j]
    <3>1. CASE j = activeJob /\ p = nextPacketIndex + 1
      <4>1. wire'[Len(wire) + 1]
              = [kind |-> "file", job |-> j, packet |-> p, via |-> job'[j].target]
        BY <1>0, <1>2, <3>1
      <4>2. Len(wire) + 1 \in 1..Len(wire')
        BY <1>2
      <4>3. QED
        BY <4>1, <4>2
    <3>2. CASE ~(j = activeJob /\ p = nextPacketIndex + 1)
      <4>1. p \in 1..sent[j]
        BY <1>1, <3>2 DEF TypeOK
      <4>2. PICK i \in 1..Len(wire) :
              wire[i] = [kind |-> "file", job |-> j, packet |-> p, via |-> job[j].target]
        BY <4>1 DEF GaplessOnOneTransport
      <4>3. i \in 1..Len(wire') /\ wire'[i] = wire[i]
        BY <1>2
      <4>4. QED
        BY <1>0, <4>2, <4>3
    <3>3. QED
      BY <3>1, <3>2
  <2>2. \A i \in 1..Len(wire') : wire'[i].kind = "file" =>
          /\ wire'[i].job \in JobIds
          /\ wire'[i].packet \in 1..sent'[wire'[i].job]
          /\ wire'[i].via = job'[wire'[i].job].target
    <3> TAKE i \in 1..Len(wire')
    <3>1. CASE i = Len(wire) + 1
      BY <1>0, <1>1, <1>2, <3>1
    <3>2. CASE i # Len(wire) + 1
      <4>1. i \in 1..Len(wire) /\ wire'[i] = wire[i]
        BY <1>2, <3>2
      <4>2. wire[i].kind = "file" =>
              /\ wire[i].job \in JobIds
              /\ wire[i].packet \in 1..sent[wire[i].job]
              /\ wire[i].via = job[wire[i].job].target
        BY <4>1 DEF GaplessOnOneTransport, IsFile
      <4>3. \A j \in JobIds : sent[j] <= sent'[j] /\ sent[j] \in Nat /\ sent'[j] \in Nat
        <5> TAKE j \in JobIds
        <5>1. sent[j] \in Nat
          BY DEF TypeOK
        <5>2. QED
          BY <1>1, <5>1
      <4>4. QED
        BY <1>0, <4>1, <4>2, <4>3
    <3>3. QED
      BY <3>1, <3>2
  <2>3. QED
    BY <2>1, <2>2 DEF GaplessOnOneTransport, IsFile
<1>9. FilesInOrder'
  <2> SUFFICES ASSUME NEW i \in 1..Len(wire'), NEW k \in 1..Len(wire'), i < k,
                      wire'[i].kind = "file", wire'[k].kind = "file"
               PROVE  \/ wire'[i].job < wire'[k].job
                      \/ wire'[i].job = wire'[k].job /\ wire'[i].packet < wire'[k].packet
    BY DEF FilesInOrder, IsFile
  <2>1. i \in 1..Len(wire) /\ wire'[i] = wire[i]
    BY <1>2
  <2>2. CASE k # Len(wire) + 1
    <3>1. k \in 1..Len(wire) /\ wire'[k] = wire[k]
      BY <1>2, <2>2
    <3>2. QED
      BY <2>1, <3>1 DEF FilesInOrder, IsFile
  <2>3. CASE k = Len(wire) + 1
    <3>1. wire[i].job \in JobIds /\ wire[i].packet \in 1..sent[wire[i].job]
      BY <2>1 DEF GaplessOnOneTransport, IsFile
    <3>2. wire[i].job <= activeJob
      <4>1. sent[wire[i].job] # 0
        BY <3>1
      <4>2. Started \in Int
        BY DEF Started, TypeOK
      <4>3. ~(wire[i].job > Started)
        BY <3>1, <4>1 DEF JobShape
      <4>4. QED
        BY <1>1, <3>1, <4>2, <4>3
    <3>3. wire[i].job = activeJob => wire[i].packet < nextPacketIndex + 1
      BY <1>1, <3>1
    <3>4. QED
      BY <1>1, <1>2, <2>1, <2>3, <3>1, <3>2, <3>3
  <2>4. QED
    BY <2>2, <2>3
<1>10. QED
  BY <1>4, <1>5, <1>6, <1>7, <1>8, <1>9

LEMMA TimerInd ==
  ASSUME IndInv, TimerFires
  PROVE  IndInv'
<1> USE DEF TimerFires, IndInv, jobVars, envVars
<1>1. TypeOK'
  BY DEF TypeOK
<1>2. QueueShape' /\ FrameShape' /\ JobShape'
  BY DEF QueueShape, FrameShape, JobShape, Started
<1>3. (ReportIsTrue /\ GaplessOnOneTransport /\ FilesInOrder)'
  BY DEF ReportIsTrue, GaplessOnOneTransport, FilesInOrder, IsFile
<1>4. QED
  BY <1>1, <1>2, <1>3

-----------------------------------------------------------------------------
(* Every step of the program preserves the invariant: one step per action. *)
LEMMA StepInd == IndInv /\ [Next]_vars => IndInv'
<1> SUFFICES ASSUME IndInv, [Next]_vars PROVE IndInv'
  OBVIOUS
<1> USE DEF envVars
<1>0. TypeOK /\ downloads \in Nat /\ posted \in Nat /\ raws \in 0..MaxRaw
  BY DEF IndInv, TypeOK
<1>1. CASE SendLocalFile
  BY <1>0, <1>1, QueueInd DEF SendLocalFile, PacketCounts
<1>2. CASE DownloadSucceeds
  BY <1>0, <1>2, QueueInd DEF DownloadSucceeds, PacketCounts
<1>3. CASE DownloadFile
  <2>1. TypeOK'
    BY <1>0, <1>3 DEF DownloadFile, TypeOK, jobVars
  <2>2. QED
    BY <1>3, <2>1, BystanderInd DEF DownloadFile
<1>4. CASE DownloadFails
  <2>1. TypeOK'
    BY <1>0, <1>4 DEF DownloadFails, TypeOK, jobVars
  <2>2. QED
    BY <1>4, <2>1, BystanderInd DEF DownloadFails
<1>5. CASE Handler
  BY <1>5, StartInd, FailInd, SucceedInd DEF Handler
<1>6. CASE TimerFires
  BY <1>6, TimerInd
<1>7. CASE PluginRequestsSend
  <2>1. TypeOK'
    BY <1>0, <1>7, FileSendAssumption DEF PluginRequestsSend, TypeOK, jobVars
  <2>2. QED
    BY <1>7, <2>1, BystanderInd DEF PluginRequestsSend
<1>8. ASSUME NEW t \in Transports, UserSends(t) PROVE IndInv'
  <2>1. [kind |-> "user", job |-> NoJob, packet |-> 0, via |-> t] \in Transmissions
    BY FileSendAssumption DEF Transmissions, NoJob
  <2>2. TypeOK'
    BY <1>0, <1>8, <2>1, FileSendAssumption DEF UserSends, Transmit, TypeOK, jobVars
  <2>3. QED
    BY <1>8, <2>2, RawInd DEF UserSends
<1>9. ASSUME NEW t \in Transports, DeliverPluginSend(t) PROVE IndInv'
  <2>1. [kind |-> "plugin", job |-> NoJob, packet |-> 0, via |-> t] \in Transmissions
    BY FileSendAssumption DEF Transmissions, NoJob
  <2>2. TypeOK'
    <3>1. wire' \in Seq(Transmissions)
      <4>1. wire \in Seq(Transmissions)
        BY <1>0 DEF TypeOK
      <4>2. CASE Transmit("plugin", t)
        BY <2>1, <4>1, <4>2 DEF Transmit
      <4>3. CASE UNCHANGED wire
        BY <4>1, <4>3
      <4>4. QED
        BY <1>9, <4>2, <4>3 DEF DeliverPluginSend
    <3>2. posted' \in Nat
      BY <1>0, <1>9 DEF DeliverPluginSend
    <3>3. QED
      BY <1>0, <1>9, <3>1, <3>2 DEF DeliverPluginSend, TypeOK, jobVars
  <2>3. QED
    BY <1>9, <2>2, RawInd, BystanderInd DEF DeliverPluginSend
<1>10. CASE Environment
  <2>1. TypeOK'
    BY <1>0, <1>10 DEF Environment, TypeOK, jobVars
  <2>2. QED
    BY <1>10, <2>1, BystanderInd DEF Environment
<1>11. CASE UNCHANGED vars
  <2>1. TypeOK'
    BY <1>0, <1>11 DEF vars, TypeOK, jobVars
  <2>2. QED
    BY <1>11, <2>1, BystanderInd DEF vars
<1>12. QED
  BY <1>1, <1>2, <1>3, <1>4, <1>5, <1>6, <1>7, <1>8, <1>9, <1>10, <1>11 DEF Next

(* IndInv is an invariant of the specification, fair or not.               *)
THEOREM Invariance == Spec => []IndInv
BY InitInd, StepInd, PTL DEF Spec

(* Type correctness.                                                       *)
THEOREM TypeCorrect == Spec => []TypeOK
<1>1. IndInv => TypeOK
  BY DEF IndInv
<1>2. QED
  BY <1>1, Invariance, PTL

(* No job is stranded in the queue between two events.                     *)
THEOREM QueueIsServed == Spec => []NoStrandedJob
<1>1. IndInv => NoStrandedJob
  BY DEF IndInv, FrameShape, NoStrandedJob
<1>2. QED
  BY <1>1, Invariance, PTL

(* The defensive branches of sendNextFilePacket are dead code.             *)
THEOREM SendAlwaysHasAPacket == Spec => []SendHasAPacket
<1>1. IndInv => SendHasAPacket
  BY DEF IndInv, FrameShape, SendHasAPacket
<1>2. QED
  BY <1>1, Invariance, PTL

(* Files leave first come first served, their packets in order, with no    *)
(* packet of another file in between.                                      *)
THEOREM TransmissionOrder == Spec => []FilesInOrder
<1>1. IndInv => FilesInOrder
  BY DEF IndInv
<1>2. QED
  BY <1>1, Invariance, PTL

(* What went out of a file is a gapless prefix on the transport chosen     *)
(* when the file was queued.                                               *)
THEOREM TransmissionComplete == Spec => []GaplessOnOneTransport
<1>1. IndInv => GaplessOnOneTransport
  BY DEF IndInv
<1>2. QED
  BY <1>1, Invariance, PTL

(* The reported outcome of a file is what happened on the wire.            *)
THEOREM TrueReport == Spec => []ReportIsTrue
<1>1. IndInv => ReportIsTrue
  BY DEF IndInv
<1>2. QED
  BY <1>1, Invariance, PTL

-----------------------------------------------------------------------------
(* Refinement: every step is a step of FileJobQueue or a stutter.          *)

LEMMA InitRefines == Init => Abstract!Init
<1> SUFFICES ASSUME Init PROVE Abstract!Init
  OBVIOUS
<1>1. /\ accepted = 0 /\ sent = [j \in JobIds |-> 0]
      /\ job = [j \in JobIds |-> [target |-> InitialTransport, packets |-> 0]]
      /\ result = [j \in JobIds |-> "none"] /\ activeJob = NoJob
  BY DEF Init
<1>2. \A j \in JobIds : Phase(j) = "none"
  BY <1>1, FileSendAssumption DEF Phase, NoJob, JobIds
<1>3. \A j \in JobIds : job[j].packets = 0
  BY <1>1
<1>4. QED
  BY <1>1, <1>2, <1>3 DEF Abstract!Init, Abstract!JobIds, JobIds

(* The view of FileJobQueue depends on these variables only.               *)
LEMMA ViewUnchanged ==
  ASSUME UNCHANGED <<accepted, job, sent, result, activeJob>>
  PROVE  UNCHANGED Abstract!vars
<1>1. \A j : Phase(j)' = Phase(j)
  BY DEF Phase
<1>2. [j \in JobIds |-> Phase(j)]' = [j \in JobIds |-> Phase(j)]
  BY <1>1
<1>3. [j \in JobIds |-> job[j].packets]' = [j \in JobIds |-> job[j].packets]
  OBVIOUS
<1>4. QED
  BY <1>2, <1>3 DEF Abstract!vars

(* Queueing a file is Accept.                                              *)
LEMMA QueueRefines ==
  ASSUME IndInv, NEW n \in 1..MaxPackets, QueueFileBytes(n)
  PROVE  Abstract!Accept
<1> USE FileSendAssumption DEF IndInv, JobIds, NoJob
<1>0. PICK new : new = accepted + 1
  OBVIOUS
<1>1. /\ accepted < MaxJobs /\ accepted' = new /\ new \in JobIds
      /\ job' = [job EXCEPT ![new] = [target |-> activeTransport, packets |-> n]]
      /\ UNCHANGED <<activeJob, result, sent>>
      /\ job \in [JobIds -> Jobs] /\ activeJob # new /\ accepted \in Nat
  BY <1>0 DEF QueueFileBytes, TypeOK, QueueShape, Started
<1>2. [j \in JobIds |-> job[j].packets]'
        = [[j \in JobIds |-> job[j].packets] EXCEPT ![accepted'] = n]
  BY <1>1
<1>3. Phase(new)' = "waiting"
  <2>1. new > Started
    BY <1>0, <1>1 DEF Started, TypeOK
  <2>2. result[new] = "none"
    BY <1>1, <2>1 DEF JobShape, TypeOK, Started
  <2>3. QED
    BY <1>1, <2>2 DEF Phase
<1>4. \A j \in JobIds : j # new => Phase(j)' = Phase(j)
  BY <1>0, <1>1 DEF Phase
<1>5. [j \in JobIds |-> Phase(j)]'
        = [[j \in JobIds |-> Phase(j)] EXCEPT ![accepted'] = "waiting"]
  BY <1>1, <1>3, <1>4
<1>6. QED
  BY <1>0, <1>1, <1>2, <1>5 DEF Abstract!Accept, Abstract!JobIds

(* Taking the next job off the queue is Begin.                             *)
LEMMA StartRefines ==
  ASSUME IndInv, StartNextFileSendJob
  PROVE  \/ \E j \in JobIds : Abstract!Begin(j)
         \/ UNCHANGED Abstract!vars
<1> USE FileSendAssumption DEF IndInv, JobIds, NoJob
<1>1. activeJob = NoJob /\ UNCHANGED <<accepted, job, sent, result>>
  BY DEF StartNextFileSendJob, FrameShape
<1>2. CASE queue = <<>>
  BY <1>1, <1>2, ViewUnchanged DEF StartNextFileSendJob
<1>3. CASE queue # <<>>
  <2>0. PICK j : j = queue[1]
    OBVIOUS
  <2>1. /\ activeJob' = j /\ j = Started + 1 /\ Started \in Nat /\ j <= accepted
        /\ j \in JobIds /\ j # NoJob
    <3>1. activeJob' = j
      BY <1>1, <1>3, <2>0 DEF StartNextFileSendJob, NextJob
    <3>2. Len(queue) \in Nat \ {0} /\ j \in JobIds
      BY <1>3, <2>0 DEF TypeOK
    <3>3. j = Started + 1
      BY <2>0, <3>2 DEF QueueShape
    <3>4. Started \in Nat /\ Started < accepted
      BY <3>2 DEF QueueShape, TypeOK, Started
    <3>5. QED
      BY <3>1, <3>2, <3>3, <3>4 DEF TypeOK
  <2>2. result[j] = "none" /\ Phase(j) = "waiting" /\ Phase(j)' = "sending"
    BY <1>1, <2>1 DEF Phase, JobShape, TypeOK
  <2>3. \A i \in JobIds : i # j => Phase(i)' = Phase(i)
    BY <1>1, <2>1 DEF Phase
  <2>4. \A i \in 1..(j - 1) : Phase(i) \in {"sent", "failed"}
    <3> TAKE i \in 1..(j - 1)
    <3>1. i \in JobIds /\ i <= Started /\ i # activeJob
      BY <1>1, <2>1
    <3>2. result[i] # "none"
      BY <3>1 DEF JobShape
    <3>3. QED
      BY <3>1, <3>2 DEF Phase, TypeOK
  <2>5. [i \in JobIds |-> Phase(i)]'
          = [[i \in JobIds |-> Phase(i)] EXCEPT ![j] = "sending"]
    BY <2>1, <2>2, <2>3
  <2>6. [i \in JobIds |-> job[i].packets]' = [i \in JobIds |-> job[i].packets]
    BY <1>1
  <2>7. \A i \in 1..(j - 1) : i \in JobIds
    BY <2>1
  <2>8. Abstract!Begin(j)
    BY <1>1, <2>1, <2>2, <2>4, <2>5, <2>6, <2>7 DEF Abstract!Begin, Abstract!Ended
  <2>9. QED
    BY <2>1, <2>8
<1>4. QED
  BY <1>2, <1>3

(* A successful write is Deliver, a refused one GiveUp.                    *)
LEMMA SendRefines ==
  ASSUME IndInv, SendPacketSucceeds \/ SendPacketFails
  PROVE  \E j \in JobIds : Abstract!Deliver(j) \/ Abstract!GiveUp(j)
<1> USE FileSendAssumption DEF IndInv, JobIds, NoJob
<1>0. PICK j : j = activeJob
  OBVIOUS
<1>1. /\ j \in JobIds /\ j = activeJob /\ j # NoJob /\ result[j] = "none"
      /\ nextPacketIndex < job[j].packets
      /\ nextPacketIndex = sent[j] /\ nextPacketIndex \in Nat
      /\ job[j].packets \in Nat
      /\ UNCHANGED <<accepted, job>>
  BY <1>0 DEF SendPacketSucceeds, SendPacketFails, EndJob, TypeOK, JobShape, Jobs
<1>2. [i \in JobIds |-> job[i].packets]' = [i \in JobIds |-> job[i].packets]
  BY <1>1
<1>3. Phase(j) = "sending"
  BY <1>1 DEF Phase
<1>4. CASE SendPacketFails
  <2>1. /\ result' = [result EXCEPT ![j] = "failed"]
        /\ activeJob' = NoJob /\ UNCHANGED sent
    BY <1>1, <1>4 DEF SendPacketFails, EndJob
  <2>2. Phase(j)' = "failed"
    BY <1>1, <2>1 DEF Phase, TypeOK
  <2>3. \A i \in JobIds : i # j => Phase(i)' = Phase(i)
    BY <1>1, <2>1 DEF Phase, TypeOK
  <2>4. [i \in JobIds |-> Phase(i)]'
          = [[i \in JobIds |-> Phase(i)] EXCEPT ![j] = "failed"]
    BY <1>1, <2>1, <2>2, <2>3 DEF Phase, TypeOK
  <2>5. QED
    BY <1>1, <1>2, <1>3, <2>1, <2>4 DEF Abstract!GiveUp
<1>5. CASE SendPacketSucceeds
  <2> DEFINE next == IF IsLastPacket THEN "sent" ELSE "sending"
  <2>1. sent' = [sent EXCEPT ![j] = @ + 1]
    BY <1>1, <1>5 DEF SendPacketSucceeds
  <2>2. \/ /\ IsLastPacket /\ activeJob' = NoJob
           /\ result' = [result EXCEPT ![j] = "sent"]
        \/ ~IsLastPacket /\ UNCHANGED <<activeJob, result>>
    BY <1>1, <1>5 DEF SendPacketSucceeds, EndJob
  <2>3. \A i \in JobIds : Phase(i)' = IF i = j THEN next ELSE Phase(i)
    BY <1>1, <2>2 DEF Phase, TypeOK
  <2>4. IsLastPacket <=> sent[j] + 1 = job[j].packets
    BY <1>1 DEF IsLastPacket
  <2>5. [i \in JobIds |-> Phase(i)]'
          = [[i \in JobIds |-> Phase(i)] EXCEPT ![j] = next]
    BY <1>1, <2>3
  <2>6. QED
    BY <1>1, <1>2, <1>3, <2>1, <2>4, <2>5 DEF Abstract!Deliver
<1>6. QED
  BY <1>4, <1>5

LEMMA StepRefines == IndInv /\ [Next]_vars => [Abstract!Next]_Abstract!vars
<1> SUFFICES ASSUME IndInv, [Next]_vars
             PROVE  Abstract!Next \/ UNCHANGED Abstract!vars
  OBVIOUS
<1>1. CASE SendLocalFile \/ DownloadSucceeds
  BY <1>1, QueueRefines DEF SendLocalFile, DownloadSucceeds, PacketCounts, Abstract!Next
<1>2. CASE StartNextFileSendJob
  BY <1>2, StartRefines DEF Abstract!Next, Abstract!JobIds, JobIds
<1>3. CASE SendPacketFails \/ SendPacketSucceeds
  BY <1>3, SendRefines DEF Abstract!Next, Abstract!JobIds, JobIds
<1>4. CASE UNCHANGED jobVars
  BY <1>4, ViewUnchanged DEF jobVars
<1>5. CASE DownloadFile \/ DownloadFails \/ TimerFires \/ PluginRequestsSend \/ Environment
  BY <1>4, <1>5 DEF DownloadFile, DownloadFails, TimerFires, PluginRequestsSend, Environment
<1>6. ASSUME NEW t \in Transports, UserSends(t) \/ DeliverPluginSend(t)
      PROVE  UNCHANGED jobVars
  BY <1>6 DEF UserSends, DeliverPluginSend
<1>7. CASE UNCHANGED vars
  BY <1>4, <1>7 DEF vars
<1>8. QED
  BY <1>1, <1>2, <1>3, <1>4, <1>5, <1>6, <1>7 DEF Next, Handler

(* The file-send machinery implements the abstract first-come-first-served *)
(* queue: each file is begun after all earlier ones ended, delivered       *)
(* packet by packet, and ended exactly once with the true outcome.         *)
THEOREM Refinement == Spec => ImplementsFileJobQueue
BY InitRefines, StepRefines, Invariance, PTL
   DEF Spec, ImplementsFileJobQueue, Abstract!Spec

=============================================================================
