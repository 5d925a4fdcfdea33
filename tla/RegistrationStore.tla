-------------------------- MODULE RegistrationStore --------------------------
(***************************************************************************)
(* The durable registration log of the two-tier flow: FileBackend in       *)
(* core/registration_store.js.                                             *)
(*                                                                         *)
(* A registration is one line appended to a file.  The process keeps an    *)
(* index of the file (`view`) and answers every public read from it, but   *)
(* only while neither `stale` (the index may differ from the file) nor     *)
(* `unbarriered` (the file may differ from the disk) is set; otherwise a   *)
(* call first joins one shared reload.  Appends are serialized, so at most *)
(* one is under way beside at most one reload.                             *)
(*                                                                         *)
(* The file system is modelled from how the code uses it.  A line has two  *)
(* parts, its text and its newline, and `forced` counts the parts a        *)
(* successful sync put on stable storage.  A process that dies leaves the  *)
(* file as written; a power loss keeps the forced parts and any prefix of  *)
(* the rest.  A successful sync is taken to force everything written       *)
(* before it, which is what docs/REGISTRATION_STORE_DURABILITY.md assumes. *)
(* The path of the file is levels counted upwards: 0 is the entry of the   *)
(* file in its directory, k > 0 the entry of the k-th directory in the     *)
(* next one up.  `unforced` holds the levels a power loss may still take.  *)
(*                                                                         *)
(* A (season, contextHash) pair is a bucket, an (engine, statement) pair a *)
(* declaration; field encodings and log messages are left out.  A second   *)
(* writer of the file is outside the contract of the backend.              *)
(***************************************************************************)
EXTENDS Naturals, FiniteSets, Sequences

CONSTANTS
  Buckets,          \* (season, contextHash) pairs
  Requests,         \* the registrations members ask for: bucket, registration
                    \* nullifier, member commitment, (engine, statement)
  Schedules,        \* epoch/season schedules a gateway may be configured with
  AssumeSchedule,   \* MNO_ASSUME_SCHEDULE: stamp a file that has no header
  InitialFiles,     \* what a deployment may start from, files of older builds
                    \* included: their lines, and the records reported as written
  PathDirs,         \* how many directories of its path a file may lack at first
  OrphanDirs        \* directories may be left by someone who never flushes them:
                    \* another component, a mkdir that stopped half way, or a
                    \* process that died between its mkdir and its flush

ASSUME ConstantsAssumption ==
  /\ \A d \in Requests : {"bucket", "nul", "com", "decl"} = DOMAIN d /\ d.bucket \in Buckets
  /\ Schedules # {}
  /\ AssumeSchedule \in BOOLEAN
  /\ PathDirs \in Nat
  /\ OrphanDirs \in BOOLEAN

VARIABLES
  file,         \* [lines, bare: last newline missing, fragment: torn text after them]
  forced,       \* how many half lines are on stable storage
  lacking,      \* the levels 1..lacking of the path are directories still to make
  unforced,     \* the levels whose directory entry is not on stable storage
  schedule,     \* the schedule this process is configured with
  loaded,       \* ready() has succeeded once in this process
  stale, unbarriered, dirEnsured,
  boundary,     \* level of the topmost directory this process made, 0 for none
  view,         \* seen and byBucket: bucket -> its records in leaf order
  loader,       \* the load in flight, shared by all who wait for it
  appender,     \* the append in its turn on _tail
  acked,        \* the records whose append() reported success
  legacy,       \* how many lines the deployment started from
  trouble       \* storage still fails and processes still die

path == <<lacking, unforced>>
disk == <<file, forced, path>>
flags == <<loaded, stale, unbarriered, dirEnsured, boundary>>
history == <<acked, legacy>>
vars == <<disk, schedule, flags, view, loader, appender, history, trouble>>
-----------------------------------------------------------------------------
(* Lines and the index rebuilt from them.                                  *)

Junk == [kind |-> "junk"]
Header(s) == [kind |-> "schedule", schedule |-> s]

recordOf(d, i) ==
  [kind |-> "record", bucket |-> d.bucket, nul |-> d.nul, com |-> d.com,
   decl |-> d.decl, index |-> i]

RecordsAt(lines) == {i \in DOMAIN lines : lines[i].kind = "record"}
keyOf(r) == <<r.bucket, r.nul>>
LinesOf(lines, k) == {i \in RecordsAt(lines) : keyOf(lines[i]) = k}
First(S) == CHOOSE i \in S : \A j \in S : i <= j
Last(S) == CHOOSE i \in S : \A j \in S : i >= j

sameRegistrationRecord(r, s) ==
  keyOf(r) = keyOf(s) /\ r.com = s.com /\ r.decl = s.decl

\* Identical records of one key collapse into the place of the first one with
\* the content, and so the index, of the last.
Collapsed(lines, b) ==
  {[at |-> First(LinesOf(lines, k)), rec |-> lines[Last(LinesOf(lines, k))]] :
     k \in {keyOf(lines[i]) : i \in {j \in RecordsAt(lines) : lines[j].bucket = b}}}

\* Slip: of two records at one index the later comes first.
BeforeLatestFirst(e, f) ==
  e.rec.index < f.rec.index \/ (e.rec.index = f.rec.index /\ e.at > f.at)

\* The stable sort by recorded index.
Before(e, f) ==
  e.rec.index < f.rec.index \/ (e.rec.index = f.rec.index /\ e.at < f.at)

LeafOrder(E) ==
  [n \in 1..Cardinality(E) |->
     (CHOOSE e \in E : Cardinality({f \in E : Before(f, e)}) = n - 1).rec]

Rebuilt(lines) == [b \in Buckets |-> LeafOrder(Collapsed(lines, b))]

\* The record stands at the leaf index it carries.
AtItsLeaf(index, r) ==
  LET leaves == index[r.bucket]
  IN r.index < Len(leaves) /\ sameRegistrationRecord(leaves[r.index + 1], r)

\* Records of an initial file passed registrationRecordProblem(); what an older build reported
\* stands where it said.
ASSUME FilesAssumption ==
  \A f \in InitialFiles :
    /\ f.lines \in Seq({f.lines[i] : i \in DOMAIN f.lines})
    /\ \A i \in RecordsAt(f.lines) :
         f.lines[i].bucket \in Buckets /\ f.lines[i].index \in Nat
    /\ \A r \in f.acked :
         r.bucket \in Buckets /\ r.index \in Nat /\ AtItsLeaf(Rebuilt(f.lines), r)

\* What the parsing loop of #load() refuses.
Malformed(lines, s) ==
  \/ \E i \in DOMAIN lines : lines[i] = Junk
  \/ \E i \in DOMAIN lines : lines[i].kind = "schedule" /\ lines[i].schedule # s
  \/ \E i, j \in RecordsAt(lines) :
       /\ lines[i].bucket = lines[j].bucket
       /\ \/ keyOf(lines[i]) = keyOf(lines[j]) /\ ~sameRegistrationRecord(lines[i], lines[j])
          \/ lines[i].decl # lines[j].decl

\* A recorded index above the number of records of its bucket.
HasGap(index) ==
  \E b \in Buckets : \E i \in DOMAIN index[b] : index[b][i].index > Len(index[b])

HasHeader(lines) == \E i \in DOMAIN lines : lines[i].kind = "schedule"

Unattributed(lines) == RecordsAt(lines) # {} /\ ~HasHeader(lines) /\ ~AssumeSchedule
-----------------------------------------------------------------------------
(* The file system.                                                        *)

Size(f) == 2 * Len(f.lines) - (IF f.bare THEN 1 ELSE 0)
NoFile == [lines |-> <<>>, bare |-> FALSE, fragment |-> "none"]

\* How much of a line an append that fails, or whose process dies, may leave.
Extents == {"nothing", "part", "text", "line"}

Front(s) == SubSeq(s, 1, Len(s) - 1)

\* Appending to text that no newline ends makes one line of both.
Written(f, line, extent) ==
  LET dirty == f.bare \/ f.fragment = "torn"
      kept == IF f.bare THEN Front(f.lines) ELSE f.lines
  IN CASE extent = "nothing" -> f
       [] extent = "part" -> [lines |-> kept, bare |-> FALSE, fragment |-> "torn"]
       [] extent = "text" /\ dirty -> [lines |-> kept, bare |-> FALSE, fragment |-> "torn"]
       [] extent = "text" /\ ~dirty ->
            [lines |-> Append(kept, line), bare |-> TRUE, fragment |-> "none"]
       [] extent = "line" ->
            [lines |-> Append(kept, IF dirty THEN Junk ELSE line), bare |-> FALSE,
             fragment |-> "none"]

\* The file cut to its last whole line.
Truncated(f) == [f EXCEPT !.fragment = "cut"]

\* A sync also makes an earlier truncation final.
Synced(f) == [f EXCEPT !.fragment = IF @ = "cut" THEN "none" ELSE @]

\* What a power loss may leave of f when its first lo half lines were forced.
Survivors(f, lo) ==
  {g \in [lines : {SubSeq(f.lines, 1, n) : n \in 0..Len(f.lines)},
          bare : BOOLEAN, fragment : {"none", "torn"}] :
     /\ g.bare => Len(g.lines) > 0
     /\ Size(g) \in lo..Size(f)
     /\ g.fragment = "torn" =>
          ~g.bare /\ (Size(g) < Size(f) \/ f.fragment # "none")}
-----------------------------------------------------------------------------
(* The process.                                                            *)

Idle == [pc |-> "idle"]

NewProcess ==
  /\ loaded' = FALSE
  /\ stale' = FALSE
  /\ unbarriered' = FALSE
  /\ dirEnsured' = FALSE
  /\ boundary' = 0
  /\ view' = [b \in Buckets |-> <<>>]
  /\ loader' = [pc |-> "idle", lines |-> <<>>]
  /\ appender' = Idle
  /\ schedule' \in Schedules

Init ==
  /\ \E f \in InitialFiles :
       /\ file = [lines |-> f.lines, bare |-> FALSE, fragment |-> "none"]
       /\ forced = 2 * Len(f.lines)
       /\ IF f.lines = <<>>
          THEN lacking \in 0..PathDirs /\ unforced = {0}
          ELSE lacking = 0 /\ unforced = {}
       /\ legacy = Len(f.lines)
       /\ acked = f.acked
  /\ schedule \in Schedules
  /\ loaded = FALSE /\ stale = FALSE /\ unbarriered = FALSE
  /\ dirEnsured = FALSE /\ boundary = 0
  /\ view = [b \in Buckets |-> <<>>]
  /\ loader = [pc |-> "idle", lines |-> <<>>]
  /\ appender = Idle
  /\ trouble = TRUE

\* Neither flag is set: #ready() returns and public reads answer from the view.
Serving == loaded /\ ~stale /\ ~unbarriered

mark ==
  /\ stale' = TRUE
  /\ unbarriered' = TRUE

\* A recursive mkdir, from the top down: the levels above n now exist, their
\* entries forced by nobody yet.
MakeDownTo(n) ==
  /\ lacking' = n
  /\ unforced' = unforced \union (n + 1)..lacking

\* Directories of the path made by a mkdir that no load of the store hears of, and
\* flushed by nobody.
OthersMakeDirs ==
  \E n \in 0..lacking :
    /\ n < lacking => OrphanDirs
    /\ MakeDownTo(n)

\* A public call that finds the store not ready starts the load or the
\* reconciliation, or joins the one in flight.  Before it, the boot of the gateway
\* may have made directories for its nullifier database, and the time guard for its
\* marks.
Call ==
  /\ ~Serving
  /\ loader.pc = "idle"
  /\ loader' = [loader EXCEPT !.pc = IF loaded THEN "barrier" ELSE "mkdir"]
  /\ OthersMakeDirs
  /\ UNCHANGED <<file, forced, schedule, flags, view, appender, history, trouble>>

\* The load in flight rejects, and with it every call that waits for it.
\* Nothing of the index was replaced.
RejectLoad ==
  /\ loader' = [pc |-> "idle", lines |-> <<>>]
  /\ stale' = (stale \/ loaded)
  /\ appender' = IF appender.pc \in {"ready", "join"} THEN Idle ELSE appender
  /\ UNCHANGED <<loaded, unbarriered, dirEnsured, boundary, view, schedule, history, trouble>>

\* #barrierThenLoad(): force the bytes of a failed write before reading them.
LoadBarrier ==
  /\ loader.pc = "barrier"
  /\ file' = IF unbarriered THEN Synced(file) ELSE file
  /\ forced' = IF unbarriered THEN Size(file) ELSE forced
  /\ loader' = [loader EXCEPT !.pc = "mkdir"]
  /\ UNCHANGED <<path, schedule, flags, view, appender, history, trouble>>

MakePath(topmost) ==
  /\ loader.pc = "mkdir"
  /\ MakeDownTo(0)
  /\ boundary' = topmost
  /\ loader' = [loader EXCEPT !.pc = "read"]
  /\ UNCHANGED <<file, forced, schedule, loaded, stale, unbarriered, dirEnsured, view,
                 appender, history, trouble>>

\* Slip: a load that finds the directories made forgets who made them.
LoadMkdirForgetting == MakePath(lacking)

\* mkdir names the topmost directory it made to the load that made it only; the
\* process keeps the first answer across its loads.
LoadMkdir == MakePath(IF boundary = 0 THEN lacking ELSE boundary)

\* A mkdir that fails tells nobody which directories it made before.
MkdirFails ==
  /\ trouble
  /\ loader.pc = "mkdir"
  /\ OthersMakeDirs
  /\ RejectLoad
  /\ UNCHANGED <<file, forced>>

LoadRead ==
  /\ loader.pc = "read"
  /\ IF Malformed(file.lines, schedule)
     THEN RejectLoad
     ELSE /\ loader' = [pc |-> "repair", lines |-> file.lines]
          /\ UNCHANGED <<schedule, flags, view, appender, history, trouble>>
  /\ UNCHANGED disk

\* Slip: a whole line at the end is trusted as it was read.
TailTrusted(lines) == FALSE

\* A whole line at the end may never have been forced by the process that wrote it.
TailNeedsBarrier(lines) == RecordsAt(lines) # {}

\* The three shapes of a tail: torn text is cut off, a record without its
\* newline is forced before it is trusted, and so is any other tail.
LoadRepair ==
  /\ loader.pc = "repair"
  /\ \/ /\ file.fragment = "torn"
        /\ file' = Truncated(file)
        /\ loader' = [loader EXCEPT !.pc = "stamp"]
        /\ UNCHANGED forced
     \/ /\ file.fragment # "torn" /\ file.bare
        /\ file' = Synced(file)
        /\ forced' = Size(file)
        /\ loader' = [loader EXCEPT !.pc = "terminate"]
     \/ /\ file.fragment # "torn" /\ ~file.bare
        /\ IF TailNeedsBarrier(loader.lines)
           THEN file' = Synced(file) /\ forced' = Size(file)
           ELSE UNCHANGED <<file, forced>>
        /\ loader' = [loader EXCEPT !.pc = "stamp"]
  /\ UNCHANGED <<path, schedule, flags, view, appender, history, trouble>>

\* Slip: the record is kept but its line is not ended.
LoadTerminateNothing ==
  /\ loader.pc = "terminate"
  /\ loader' = [loader EXCEPT !.pc = "stamp"]
  /\ UNCHANGED <<disk, schedule, flags, view, appender, history, trouble>>

\* The newline reaches the file and then, unless the sync fails, the disk.
LoadTerminate ==
  /\ loader.pc = "terminate"
  /\ file' = [file EXCEPT !.bare = FALSE]
  /\ \/ /\ forced' = Size(file')
        /\ loader' = [loader EXCEPT !.pc = "stamp"]
        /\ UNCHANGED <<schedule, flags, view, appender, history, trouble>>
     \/ /\ trouble
        /\ RejectLoad
        /\ UNCHANGED forced
  /\ UNCHANGED path

\* The schedule header of a file that has none.
LoadStamp ==
  /\ loader.pc = "stamp"
  /\ \/ /\ HasHeader(loader.lines)
        /\ loader' = [loader EXCEPT !.pc = "dir"]
        /\ UNCHANGED <<disk, schedule, flags, view, appender, history, trouble>>
     \/ /\ Unattributed(loader.lines)
        /\ RejectLoad
        /\ UNCHANGED disk
     \/ /\ ~HasHeader(loader.lines) /\ ~Unattributed(loader.lines)
        /\ file' = Written(file, Header(schedule), "line")
        /\ forced' = Size(file')
        /\ loader' = [loader EXCEPT !.pc = "dir"]
        /\ UNCHANGED <<path, schedule, flags, view, appender, history, trouble>>
     \/ /\ trouble
        /\ ~HasHeader(loader.lines) /\ ~Unattributed(loader.lines)
        /\ \E extent \in Extents : file' = Written(file, Header(schedule), extent)
        /\ RejectLoad
        /\ UNCHANGED <<forced, path>>

\* Once per process: flush the directory of the file and every one above it up to
\* the parent of the topmost this process made, which forces levels 0..boundary.
LoadDir ==
  /\ loader.pc = "dir"
  /\ unforced' = IF dirEnsured THEN unforced ELSE unforced \ (0..boundary)
  /\ dirEnsured' = TRUE
  /\ loader' = [loader EXCEPT !.pc = "install"]
  /\ UNCHANGED <<file, forced, lacking, schedule, loaded, stale, unbarriered, boundary,
                 view, appender, history, trouble>>

\* The walk stops at a directory that cannot be opened, flushed or closed.
DirFails ==
  /\ trouble
  /\ loader.pc = "dir" /\ ~dirEnsured
  /\ unforced' \in {unforced} \union {unforced \ (0..k) : k \in 0..boundary}
  /\ RejectLoad
  /\ UNCHANGED <<file, forced, lacking>>

\* The record of the waiting append, if the file turns out to hold it.
Landed(index) ==
  {r \in {index[appender.rec.bucket][i] : i \in DOMAIN index[appender.rec.bucket]} :
     sameRegistrationRecord(r, appender.rec)}

\* The append that waits in its catch block reports success when its record
\* landed, and throws the original error otherwise.
SettleAppend(index) ==
  IF appender.pc = "join"
  THEN acked' = acked \union Landed(index) /\ appender' = Idle
  ELSE UNCHANGED <<acked, appender>>

\* Slip: a finished reconciliation leaves the store stale.
LoadInstallKeepingStale ==
  /\ loader.pc = "install"
  /\ LET index == Rebuilt(loader.lines)
     IN IF HasGap(index)
        THEN RejectLoad
        ELSE /\ view' = index
             /\ loaded' = TRUE
             /\ unbarriered' = FALSE
             /\ loader' = [pc |-> "idle", lines |-> <<>>]
             /\ SettleAppend(index)
             /\ UNCHANGED <<stale, dirEnsured, boundary, schedule, legacy, trouble>>
  /\ UNCHANGED disk

\* Sort, refuse a gap, install, and clear both flags together.
LoadInstall ==
  /\ loader.pc = "install"
  /\ LET index == Rebuilt(loader.lines)
     IN IF HasGap(index)
        THEN RejectLoad
        ELSE /\ view' = index
             /\ loaded' = TRUE
             /\ stale' = FALSE
             /\ unbarriered' = FALSE
             /\ loader' = [pc |-> "idle", lines |-> <<>>]
             /\ SettleAppend(index)
             /\ UNCHANGED <<dirEnsured, boundary, schedule, legacy, trouble>>
  /\ UNCHANGED disk

\* Any other file operation of the load fails.
LoadFails ==
  /\ trouble
  /\ \/ loader.pc = "barrier" /\ unbarriered
     \/ loader.pc = "read"
     \/ loader.pc = "repair" /\ Size(file) > 0
  /\ RejectLoad
  /\ UNCHANGED disk
-----------------------------------------------------------------------------
(* One append at a time, from its turn on _tail to its answer.             *)

BeginAppend(d) ==
  /\ appender.pc = "idle"
  /\ appender' = [pc |-> "ready", req |-> d]
  /\ UNCHANGED <<disk, schedule, flags, view, loader, history, trouble>>

KnownKeys(b) == {keyOf(view[b][i]) : i \in DOMAIN view[b]}

declarationFor(b) == {view[b][1].decl : i \in DOMAIN view[b]}

\* #appendOne() up to its first write: a spent key and a bucket of another
\* declaration are answered without one.
CheckAppend ==
  /\ appender.pc = "ready"
  /\ Serving
  /\ LET d == appender.req
     IN appender' =
          IF keyOf(d) \in KnownKeys(d.bucket) \/ declarationFor(d.bucket) \ {d.decl} # {}
          THEN Idle
          ELSE [pc |-> "open", rec |-> recordOf(d, Len(view[d.bucket]))]
  /\ UNCHANGED <<disk, schedule, flags, view, loader, history, trouble>>

\* openFile() and appendFile(): the file may hold any part of the line when
\* the call returns, fails, or the process dies.
WriteRecord ==
  /\ appender.pc = "open"
  /\ \E extent \in Extents :
       /\ extent # "line" => trouble
       /\ file' = Written(file, appender.rec, extent)
       /\ appender' = [pc |-> "sync", rec |-> appender.rec, whole |-> extent = "line"]
  /\ UNCHANGED <<forced, path, schedule, flags, view, loader, history, trouble>>

\* The file could not be opened: nothing was written, the outer catch marks.
OpenFails ==
  /\ trouble
  /\ appender.pc = "open"
  /\ mark
  /\ appender' = [pc |-> "retry", rec |-> appender.rec]
  /\ UNCHANGED <<disk, schedule, loaded, dirEnsured, boundary, view, loader, history, trouble>>

\* The barrier of the write; the record is visible the moment it is durable.
SyncRecord ==
  /\ appender.pc = "sync" /\ appender.whole
  /\ file' = Synced(file)
  /\ forced' = Size(file)
  /\ view' = [view EXCEPT ![appender.rec.bucket] = Append(@, appender.rec)]
  /\ appender' = [pc |-> "close", rec |-> appender.rec, durable |-> TRUE]
  /\ UNCHANGED <<path, schedule, flags, loader, history, trouble>>

\* The write or the barrier failed: both flags in the same synchronous step.
WriteFails ==
  /\ appender.pc = "sync"
  /\ appender.whole => trouble
  /\ mark
  /\ appender' = [pc |-> "close", rec |-> appender.rec, durable |-> FALSE]
  /\ UNCHANGED <<disk, schedule, loaded, dirEnsured, boundary, view, loader, history, trouble>>

CloseRecord ==
  /\ appender.pc = "close" /\ appender.durable
  /\ acked' = acked \union {appender.rec}
  /\ appender' = Idle
  /\ UNCHANGED <<disk, schedule, flags, view, loader, legacy, trouble>>

\* The outer catch, after a failed write or a failed close, marks again.
CatchWrite ==
  /\ appender.pc = "close"
  /\ appender.durable => trouble
  /\ mark
  /\ appender' = [pc |-> "retry", rec |-> appender.rec]
  /\ UNCHANGED <<disk, schedule, loaded, dirEnsured, boundary, view, loader, history, trouble>>

\* The retried barrier holds; the append joins, or starts, a reconciliation.
RetryBarrier ==
  /\ appender.pc = "retry"
  /\ file' = Synced(file)
  /\ forced' = Size(file)
  /\ appender' = [appender EXCEPT !.pc = "join"]
  /\ loader' = IF loader.pc = "idle" THEN [loader EXCEPT !.pc = "barrier"] ELSE loader
  /\ UNCHANGED <<path, schedule, flags, view, history, trouble>>

\* The retried barrier fails: the caller gets the original error.
RetryFails ==
  /\ trouble
  /\ appender.pc = "retry"
  /\ appender' = Idle
  /\ UNCHANGED <<disk, schedule, flags, view, loader, history, trouble>>
-----------------------------------------------------------------------------
(* The environment.                                                        *)

\* The process dies and another one starts, perhaps under another schedule.  What
\* the dead one had made of the path, the next one takes for granted.
Kill ==
  /\ trouble
  /\ unforced \subseteq {0} \/ OrphanDirs
  /\ NewProcess
  /\ UNCHANGED <<disk, history, trouble>>

\* The machine loses power: what was not forced may be gone, and with a level of
\* the path everything below it.
PowerLoss ==
  /\ trouble
  /\ \/ /\ file' \in Survivors(file, forced) \union (IF 0 \in unforced THEN {NoFile} ELSE {})
        /\ UNCHANGED lacking
     \/ /\ lacking' \in unforced \ {0}
        /\ file' = NoFile
  /\ forced' = Size(file')
  /\ unforced' = IF file' = NoFile THEN {0} ELSE {}
  /\ NewProcess
  /\ UNCHANGED <<history, trouble>>

\* From here on storage works and the process lives.
TroubleEnds ==
  /\ trouble
  /\ trouble' = FALSE
  /\ UNCHANGED <<disk, schedule, flags, view, loader, appender, history>>

LoadStep ==
  \/ LoadBarrier \/ LoadMkdir \/ LoadRead \/ LoadRepair \/ LoadTerminate
  \/ LoadStamp \/ LoadDir \/ LoadInstall

AppendStep ==
  \/ CheckAppend \/ WriteRecord \/ SyncRecord \/ WriteFails \/ CloseRecord
  \/ CatchWrite \/ RetryBarrier

Fault ==
  \/ MkdirFails \/ DirFails \/ LoadFails \/ OpenFails \/ RetryFails
  \/ Kill \/ PowerLoss

Next ==
  \/ Call
  \/ LoadStep
  \/ \E d \in Requests : BeginAppend(d)
  \/ AppendStep
  \/ Fault
  \/ TroubleEnds

Spec == Init /\ [][Next]_vars

\* Requests keep calling the store, and the promise of a file operation settles.
FairSpec == Spec /\ WF_vars(Call) /\ WF_vars(LoadStep) /\ WF_vars(AppendStep)
-----------------------------------------------------------------------------
(* Properties.                                                             *)

\* The lines a power loss cannot take: none while it can take the file itself.
ForcedLines ==
  IF unforced = {} THEN SubSeq(file.lines, 1, (forced + 1) \div 2) ELSE <<>>

\* Whenever a public read may answer, the index is exactly what the next process
\* would rebuild from stable storage: no record that a power loss could take, no
\* forced record missing, the same leaf order.  has(), forSeasonContext(),
\* declarationFor() and seasonHasEngine() rely on it.
ReadsAreDurable == Serving => view = Rebuilt(ForcedLines)

\* A registration reported as written is on stable storage for good, and every
\* rebuild puts it at the leaf index its member was told.
AckedKeepTheirLeaf == \A r \in acked : AtItsLeaf(Rebuilt(ForcedLines), r)

\* Across failed writes, reloads, restarts and power losses the leaf order that
\* a restart rebuilds only ever grows at its end, so a path proved against the
\* members root stays rebuildable.
LeavesOnlyGrow ==
  [][\/ ForcedLines' = ForcedLines
     \/ LET old == Rebuilt(ForcedLines)
            new == Rebuilt(ForcedLines)'
        IN \A b \in Buckets :
             Len(old[b]) <= Len(new[b]) /\ SubSeq(new[b], 1, Len(old[b])) = old[b]]_vars

\* Lines #load() accepts under the schedule their header names.
Loadable(lines) ==
  /\ \E s \in Schedules : ~Malformed(lines, s)
  /\ ~HasGap(Rebuilt(lines))

LoadableUnder(lines, s) == ~Malformed(lines, s) /\ ~HasGap(Rebuilt(lines))

\* No sequence of interrupted writes, repairs and restarts turns a file the
\* loader accepts into one it refuses at every later boot.
StaysLoadable ==
  Loadable(SubSeq(file.lines, 1, legacy)) => Loadable(file.lines)

\* Once storage works again the store serves again without a restart, unless the
\* deployment started from a file the loader refuses.
StoreRecovers ==
  \A s \in Schedules :
    ~trouble /\ schedule = s /\ LoadableUnder(file.lines, s) ~> Serving \/ schedule # s
=============================================================================
