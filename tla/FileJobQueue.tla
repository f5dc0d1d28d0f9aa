---------------------------- MODULE FileJobQueue ----------------------------
(***************************************************************************)
(* What the file-send service of AppController promises, without timers,   *)
(* event loop, transports or plugins: accepted files are transmitted one   *)
(* at a time, in the order of acceptance, packet by packet, and each one   *)
(* ends exactly once, "sent" when all of its packets went out and "failed" *)
(* when it was given up before that.                                       *)
(***************************************************************************)
EXTENDS Integers

CONSTANTS
  MaxJobs,     \* bound: files accepted in a behaviour
  MaxPackets   \* bound: packets of one file

VARIABLES
  accepted,    \* number of files accepted so far; file j is the j-th of them
  size,        \* packets of every accepted file
  delivered,   \* packets of every file that were transmitted
  phase        \* what becomes of every file

vars == <<accepted, size, delivered, phase>>

JobIds == 1..MaxJobs

Ended(j) == phase[j] \in {"sent", "failed"}

Init ==
  /\ accepted  = 0
  /\ size      = [j \in JobIds |-> 0]
  /\ delivered = [j \in JobIds |-> 0]
  /\ phase     = [j \in JobIds |-> "none"]

(* A file with at least one packet is accepted behind all earlier ones.    *)
Accept ==
  /\ accepted < MaxJobs
  /\ accepted' = accepted + 1
  /\ \E n \in 1..MaxPackets : size' = [size EXCEPT ![accepted'] = n]
  /\ phase' = [phase EXCEPT ![accepted'] = "waiting"]
  /\ UNCHANGED delivered

(* The oldest waiting file begins, once every earlier file has ended.      *)
Begin(j) ==
  /\ phase[j] = "waiting"
  /\ \A i \in 1..(j - 1) : Ended(i)
  /\ phase' = [phase EXCEPT ![j] = "sending"]
  /\ UNCHANGED <<accepted, size, delivered>>

(* One more packet goes out; the last one ends the file.                   *)
Deliver(j) ==
  /\ phase[j] = "sending"
  /\ delivered' = [delivered EXCEPT ![j] = @ + 1]
  /\ phase' = [phase EXCEPT ![j] =
                 IF delivered[j] + 1 = size[j] THEN "sent" ELSE "sending"]
  /\ UNCHANGED <<accepted, size>>

(* The file is given up with packets left.                                 *)
GiveUp(j) ==
  /\ phase[j] = "sending"
  /\ delivered[j] < size[j]
  /\ phase' = [phase EXCEPT ![j] = "failed"]
  /\ UNCHANGED <<accepted, size, delivered>>

Next ==
  \/ Accept
  \/ \E j \in JobIds : Begin(j) \/ Deliver(j) \/ GiveUp(j)

Spec == Init /\ [][Next]_vars

=============================================================================
