------------------------------ MODULE Recording ------------------------------
(***************************************************************************)
(* Transports composed with what becomes of the bytes: the logging         *)
(* settings of AppSettings, the RawRecorder whose copies of them follow by *)
(* direct signals, and handleIncomingBytes of AppController.               *)
(*                                                                         *)
(* A step is an event of Transports, with the recording sessions that      *)
(* start on the way; a change of a logging setting; or a frame, received   *)
(* or sent.  A session directory is known by its place in dirs; NoDir      *)
(* stands for the empty path.                                              *)
(***************************************************************************)
EXTENDS Transports, Sequences, FiniteSets

CONSTANTS
  Roots,      \* log root directories a user may choose
  Stamps,     \* milliseconds a session may start in
  MaxFrames   \* bound: frames of a behaviour

NoRoot == "none"
NoDir  == 0
Files  == {"raw", "log"}

ASSUME RecordingAssumption == NoRoot \notin Roots /\ MaxFrames \in Nat

VARIABLES
  logging,   \* AppSettings: [root, raw, decode]
  dir,       \* m_sessionDirectory
  handle,    \* m_binaryFile and m_logFile: the directory they are open in
  dirs,      \* history: session directories created, in order
  frames,    \* history: frames handled so far
  writes     \* history: what was written to which directory, in order

recorderVars == <<dir, handle, dirs>>
transportVars == vars
allVars == <<transportVars, logging, recorderVars, frames, writes>>

-----------------------------------------------------------------------------
(* RawRecorder.                                                            *)

Closed == [f \in Files |-> NoDir]

(* ensureOpen: both files, where a directory is set and usable (it may be  *)
(* unplugged or full).                                                     *)
EnsureOpen(h, d, usable) ==
  [f \in Files |-> IF h[f] = NoDir /\ usable THEN d ELSE h[f]]

(* The first suffix that no directory with this time has.  The mutant      *)
(* trusts the time alone.                                                  *)
Used(root, stamp) ==
  {dirs[i].suffix : i \in {k \in 1..Len(dirs) : dirs[k].root = root /\ dirs[k].stamp = stamp}}
NoSuffix(root, stamp) == 0
FirstSuffix(root, stamp) ==
  CHOOSE n \in 0..Len(dirs) :
    n \notin Used(root, stamp) /\ \A m \in 0..(n - 1) : m \in Used(root, stamp)

(* startSession, as often as an opening of t calls it (the first calls     *)
(* leave empty directories behind).  Without a root, or when mkpath fails, *)
(* there is no session directory; otherwise the files are opened whatever  *)
(* the two switches say.                                                   *)
StartSessions(t, times) ==
  \/ /\ dir' = NoDir
     /\ handle' = Closed
     /\ UNCHANGED dirs
  \/ /\ logging.root # NoRoot
     /\ \E stamp \in Stamps :
          dirs' = dirs \o [i \in 1..times |->
                    [root |-> logging.root, stamp |-> stamp,
                     suffix |-> FirstSuffix(logging.root, stamp) + i - 1, transport |-> t]]
     /\ dir' = Len(dirs')
     /\ \E usable \in BOOLEAN : handle' = EnsureOpen(Closed, dir', usable)

(* An event of Transports and the sessions it started.                     *)
TransportStep ==
  /\ Next
  /\ IF sessions' > sessions
       THEN StartSessions(session', sessions' - sessions)
       ELSE UNCHANGED recorderVars
  /\ UNCHANGED <<logging, frames, writes>>

-----------------------------------------------------------------------------
(* AppSettings.                                                            *)

(* setRecordRawData and setRecordDecodeLog: neither is switched on without *)
(* a directory.  The mutant drops that test.                               *)
MaySwitchAlways(on) == TRUE
MaySwitch(on) == on => logging.root # NoRoot

SetRecordRawData(on) ==
  /\ MaySwitch(on)
  /\ logging' = [logging EXCEPT !.raw = on]
  /\ UNCHANGED <<transportVars, recorderVars, frames, writes>>

SetRecordDecodeLog(on) ==
  /\ MaySwitch(on)
  /\ logging' = [logging EXCEPT !.decode = on]
  /\ UNCHANGED <<transportVars, recorderVars, frames, writes>>

(* RawRecorder::setLogRootDirectory ends the session; the mutant keeps the *)
(* files open.                                                             *)
ForgetSessionOnly == dir' = NoDir /\ UNCHANGED <<handle, dirs>>
EndSession == dir' = NoDir /\ handle' = Closed /\ UNCHANGED dirs

(* setLogDirectory; clearing it switches both kinds of logging off.        *)
SetLogDirectory(root) ==
  /\ root # logging.root
  /\ logging' = [root |-> root,
                 raw |-> logging.raw /\ root # NoRoot,
                 decode |-> logging.decode /\ root # NoRoot]
  /\ EndSession
  /\ UNCHANGED <<transportVars, frames, writes>>

-----------------------------------------------------------------------------
(* AppController::handleIncomingBytes.                                     *)

(* The rows that one frame leaves in a file that is open.  The mutant does *)
(* not look whether it is.                                                 *)
RowsUnchecked(f, t, n) ==
  [i \in 1..n |-> [file |-> f, frame |-> frames + 1, via |-> t, dir |-> handle'[f]]]
Rows(f, t, n) ==
  IF handle'[f] = NoDir THEN <<>>
  ELSE [i \in 1..n |-> [file |-> f, frame |-> frames + 1, via |-> t, dir |-> handle'[f]]]

(* recordRaw takes the frame at once; recordChunk takes the chunks that    *)
(* the frame completes, if any.  Both try a closed file again.             *)
HandleBytes(t, times) ==
  /\ frames < MaxFrames
  /\ frames' = frames + 1
  /\ \E usable \in BOOLEAN, chunks \in 0..times :
       LET rawRows == IF logging.raw THEN times ELSE 0
           logRows == IF logging.decode THEN chunks ELSE 0
       IN  /\ handle' = IF rawRows + logRows > 0 THEN EnsureOpen(handle, dir, usable) ELSE handle
           /\ writes' = writes \o Rows("raw", t, rawRows) \o Rows("log", t, logRows)
  /\ UNCHANGED <<transportVars, logging, dir, dirs>>

(* dataReceived of an open transport: once for every connection that       *)
(* attachTransport has made.                                               *)
Receive(t) ==
  /\ link[t] = "open"
  /\ HandleBytes(t, attached[t])

(* A successful sendRawCommand or packet of a file.                        *)
Send(t) ==
  /\ link[t] = "open"
  /\ HandleBytes(t, 1)

-----------------------------------------------------------------------------
(* load() normalises what was stored.                                      *)
LoadedSettings ==
  {s \in [root : Roots \cup {NoRoot}, raw : BOOLEAN, decode : BOOLEAN] :
     s.root = NoRoot => ~s.raw /\ ~s.decode}

RecordingInit ==
  /\ Init
  /\ logging \in LoadedSettings
  /\ dir = NoDir
  /\ handle = Closed
  /\ dirs = <<>>
  /\ frames = 0
  /\ writes = <<>>

RecordingNext ==
  \/ TransportStep
  \/ \E on \in BOOLEAN : SetRecordRawData(on) \/ SetRecordDecodeLog(on)
  \/ \E root \in Roots \cup {NoRoot} : SetLogDirectory(root)
  \/ \E t \in Names : Receive(t) \/ Send(t)

RecordingSpec == RecordingInit /\ [][RecordingNext]_allVars

-----------------------------------------------------------------------------
(* Properties.                                                             *)

Directories ==
  [root : Roots, stamp : Stamps, suffix : Nat, transport : Names]

RecordingTypeOK ==
  /\ logging \in [root : Roots \cup {NoRoot}, raw : BOOLEAN, decode : BOOLEAN]
  /\ dirs \in Seq(Directories)
  /\ dir \in 0..Len(dirs)
  /\ handle \in [Files -> 0..Len(dirs)]
  /\ frames \in 0..MaxFrames
  /\ writes \in Seq([file : Files, frame : 1..MaxFrames, via : Names, dir : 1..Len(dirs)])

(* README.md:151: nothing is created or opened until a log root is set.    *)
(* No order of switching, choosing and clearing directories leaves a kind  *)
(* of logging on without a directory.                                      *)
SwitchesNeedRoot == logging.raw \/ logging.decode => logging.root # NoRoot

(* The session directory is one below the current root, and no file is     *)
(* open anywhere else: after the root has changed, or after a connection   *)
(* has been reopened, not a byte goes to a directory of before.            *)
SessionUnderCurrentRoot ==
  /\ dir # NoDir => logging.root # NoRoot /\ dirs[dir].root = logging.root
  /\ \A f \in Files : handle[f] \in {NoDir, dir}

(* Two sessions never share a directory, not even when they start in the   *)
(* same millisecond or after the clock was set back.                       *)
OwnDirectories ==
  \A i, k \in 1..Len(dirs) :
    i # k => \/ dirs[i].root # dirs[k].root
             \/ dirs[i].stamp # dirs[k].stamp
             \/ dirs[i].suffix # dirs[k].suffix

(* What passes through a connection is recorded in a session of its        *)
(* transport, unless TCP was open or opened beside another transport.      *)
MisfiledOnlyWithTcp ==
  \A i \in 1..Len(writes) :
    LET owner == dirs[writes[i].dir].transport
    IN  owner = writes[i].via \/ "TCP" \in {owner, writes[i].via}

(* README.md:152 promises that "the next connection or replay session      *)
(* creates a session subdirectory": what a connection records is in a      *)
(* directory that its transport created.                                   *)
FiledUnderItsConnection ==
  \A i \in 1..Len(writes) : dirs[writes[i].dir].transport = writes[i].via

(* README.md:161: "`session.raw.bin` stores raw RX/TX bytes in transport   *)
(* order", every frame once.                                               *)
EachFrameOnce ==
  \A i, k \in 1..Len(writes) :
    i # k /\ writes[i].file = "raw" /\ writes[k].file = "raw"
      => writes[i].frame # writes[k].frame

=============================================================================
