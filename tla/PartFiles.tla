------------------------------ MODULE PartFiles ------------------------------
(***************************************************************************)
(* The life of a download from AddDownload to CompleteFileEnded (PartFile,  *)
(* DownloadQueue, ThreadTasks, amule.cpp): received parts are buffered,     *)
(* written and hashed part by part; the full file is hashed once more by a  *)
(* background task and then moved by another one; tasks report to the file  *)
(* that ordered them through events.  The tasks are kept by the scheduler   *)
(* of module ThreadScheduler.  A .part file holds what was written, its     *)
(* .part.met file what will be known of it after a restart.                 *)
(*                                                                          *)
(* A part arrives in one piece.  PS_EMPTY and PS_READY, between which none  *)
(* of these functions decides, are one status here, "ready".                *)
(***************************************************************************)
EXTENDS Naturals, Sequences, FiniteSets

CONSTANTS
  Files,      \* the files that may be downloaded
  PartCount,  \* how many parts each of them has
  Allocated,  \* those that may be added while AllocFullFile is set
  Paused,     \* those added while AddNewFilesPaused is set
  Sourced,    \* those some other client has parts of
  Faults,     \* what may fail: a subset of AllFaults
  Sync,       \* the CAICHSyncTask
  NoTask

AllFaults == {"allocate", "write", "hash", "rename", "open", "copy"}

ASSUME FilesAssumption ==
  /\ IsFiniteSet(Files)
  /\ PartCount \in [Files -> Nat \ {0}]
  /\ Allocated \subseteq Files /\ Paused \subseteq Files /\ Sourced \subseteq Files
  /\ Faults \subseteq AllFaults

VARIABLE s

Parts(f) == 1..PartCount[f]

FileTasks == {"allocate", "hash", "complete"} \X Files
Tasks     == FileTasks \cup {Sync}

ASSUME TasksAssumption == Sync \notin FileTasks /\ NoTask \notin Tasks

Scheduler == INSTANCE ThreadScheduler WITH
  Descs    <- Tasks,
  Desc     <- [t \in Tasks |-> t],
  Priority <- [t \in Tasks |-> IF t = Sync THEN 0 ELSE 2],
  Hashing  <- {"hash"} \X Files,
  Unhashed <- {},
  MaxBound <- 0,
  q        <- s.q

Nothing(f) == [p \in Parts(f) |-> "none"]   \* no part
Whole(f)   == [p \in Parts(f) |-> "good"]   \* every part as it should be
Gone       == <<>>                          \* there is no such file
-----------------------------------------------------------------------------
(***************************************************************************)
(* The state of a file and what is on the disk of it.                       *)
(***************************************************************************)
Contents(f) == [Parts(f) -> {"none", "good", "bad"}]

MetFile(f) == [gaps : SUBSET Parts(f), paused : BOOLEAN, dated : BOOLEAN]

Event(f) ==
  [task : {<<"allocate", f>>, <<"complete", f>>}, ok : BOOLEAN]
    \cup [task : {<<"hash", f>>}, seen : Contents(f)]

FileState(f) ==
  [ \* where it is: m_filelist, m_completedDownloads
    list : {"unborn", "queue", "completed", "gone"},
    status : {"ready", "allocating", "waitingforhash", "completing",
              "complete", "error"},
    paused : BOOLEAN, stopped : BOOLEAN, insufficient : BOOLEAN,
    gaps   : SUBSET Parts(f),        \* m_gaplist
    buffer : Contents(f),            \* m_BufferedData_list
    open   : BOOLEAN,                \* m_hpartfile
    part   : Contents(f) \cup {Gone},
    met    : MetFile(f) \cup {Gone},
    target : Contents(f) \cup {Gone} ]

NewFile(f) ==
  [ list |-> "unborn", status |-> "ready",
    paused |-> FALSE, stopped |-> FALSE, insufficient |-> FALSE,
    gaps |-> Parts(f), buffer |-> Nothing(f), open |-> FALSE,
    part |-> Gone, met |-> Gone, target |-> Gone ]

State ==
  [ file   : {F \in [Files -> UNION {FileState(f) : f \in Files}] :
                \A f \in Files : F[f] \in FileState(f)},
    q      : Scheduler!State,
    events : Seq(UNION {Event(f) : f \in Files}),
    low    : BOOLEAN ]  \* less than a part, or than MinFreeDiskSpace, is free

\* The scheduler of a program that has just started.
Fresh == [Scheduler!Blank EXCEPT !.running = TRUE]

Init ==
  s = [ file |-> [f \in Files |-> NewFile(f)], q |-> Fresh,
        events |-> <<>>, low |-> FALSE ]
-----------------------------------------------------------------------------
(***************************************************************************)
(* CPartFile.  An operator of a file record F changes that file alone; one  *)
(* of a state w and a file f may also order a task.  Of the buffered parts  *)
(* those before "end" can be written, see Ends.                             *)
(***************************************************************************)
GetStatus(F) ==
  IF F.status \in {"error", "completing", "complete"} \/ ~(F.paused \/ F.insufficient)
  THEN F.status
  ELSE IF F.insufficient THEN "insufficient" ELSE "paused"

Active(F) == GetStatus(F) = "ready"

SavePartFile(F) ==
  IF F.status \in {"waitingforhash", "complete"} \/ F.part = Gone THEN F
  ELSE [F EXCEPT !.met = [gaps |-> F.gaps, paused |-> F.paused, dated |-> TRUE]]

PauseFile(F, insufficient) ==
  IF F.status \in {"complete", "completing"} THEN F
  ELSE [F EXCEPT !.paused = TRUE, !.insufficient = insufficient]

AddTask(w, kind, f) == [w EXCEPT !.q = Scheduler!AddTask(@, <<kind, f>>)]

\* CompleteFile(false)
HashWholeFile(w, f) == AddTask([w EXCEPT !.file[f].status = "completing"], "hash", f)

Buffered(F) == {p \in DOMAIN F.buffer : F.buffer[p] # "none"}

\* The parts P of the buffer reach the disk, which dates the .part file.
WriteParts(F, P) ==
  IF P = {} THEN F
  ELSE [F EXCEPT !.part = [p \in DOMAIN @ |-> IF p \in P THEN F.buffer[p] ELSE @[p]],
                 !.met.dated = FALSE]

\* Mutant of HashParts: the .part.met file is left for the next occasion.
HashPartsUnsaved(F, W, P) == [W EXCEPT !.gaps = @ \cup {p \in P : F.buffer[p] = "bad"}]

\* Each part written is hashed, and becomes a gap again if it is corrupt.
HashParts(F, W, P) ==
  SavePartFile([W EXCEPT !.gaps = @ \cup {p \in P : F.buffer[p] = "bad"}])

FlushBuffer(w, f, end) ==
  LET F == w.file[f]
      P == {p \in Buffered(F) : p < end}
      W == [WriteParts(F, P) EXCEPT !.buffer = Nothing(f)]
      X == [w EXCEPT !.file[f] = HashParts(F, W, P)]
  IN  IF Buffered(F) = {} THEN w
      ELSE IF w.low THEN [w EXCEPT !.file[f] = PauseFile(F, TRUE)]
      ELSE IF P # Buffered(F) THEN [w EXCEPT !.file[f] = [W EXCEPT !.status = "error"]]
      ELSE IF X.file[f].gaps = {} /\ w.q.running THEN HashWholeFile(X, f)
      ELSE X

StopFile(w, f, end) ==
  FlushBuffer([w EXCEPT !.file[f] = PauseFile([@ EXCEPT !.stopped = TRUE], FALSE)],
              f, end)

PerformFileComplete(w, f, end) ==
  AddTask([FlushBuffer(w, f, end) EXCEPT !.file[f].open = FALSE], "complete", f)

\* CompleteFile(true)
CompleteFile(w, f, end) ==
  PerformFileComplete([StopFile(w, f, end) EXCEPT !.file[f].status = "completing"],
                      f, end)

ResumeFile(w, f, end) ==
  LET F == w.file[f]
      R == [w EXCEPT !.file[f] = [F EXCEPT !.paused = FALSE, !.stopped = FALSE,
                                           !.insufficient = FALSE]]
  IN  IF F.status \in {"complete", "completing"} \/ (F.insufficient /\ w.low) THEN w
      ELSE IF F.gaps = {} /\ F.status = "error" THEN CompleteFile(R, f, end)
      ELSE R

\* With the preference set, some paused file is resumed.
StartNextFile(w) ==
  {w} \cup {ResumeFile(w, g, 1) :
              g \in {h \in Files : /\ w.file[h].list = "queue"
                                   /\ GetStatus(w.file[h]) = "paused"}}

\* Mutant of Corrupt: parts are counted from one, gaps from zero.
CorruptNext(F, seen) ==
  {p + 1 : p \in {r \in DOMAIN seen : seen[r] # "good" /\ r \notin F.gaps}}

\* Mutant of Corrupt: the parts of a file that is complete were hashed before.
CorruptIfIncomplete(F, seen) ==
  {p \in DOMAIN seen : F.gaps # {} /\ seen[p] # "good" /\ p \notin F.gaps}

\* What the hashing task found, and the parts it shows to be wrong or complete.
Corrupt(F, seen) ==
  IF DOMAIN seen = {1} /\ F.gaps # {} THEN {}
  ELSE {p \in DOMAIN seen : seen[p] # "good" /\ p \notin F.gaps}

Found(F, seen) ==
  IF DOMAIN seen = {1} THEN {} ELSE {p \in F.gaps : seen[p] = "good"}

\* Mutant of PartFileHashFinished: a corrupt file keeps its status.
CorruptKeepsStatus(w, f, seen, end) ==
  LET F == w.file[f]
      G == [F EXCEPT !.gaps = (@ \cup Corrupt(F, seen)) \ Found(F, seen)]
  IN  IF Corrupt(F, seen) # {} THEN [w EXCEPT !.file[f] = SavePartFile(G)]
      ELSE IF F.status = "completing"
      THEN CompleteFile([w EXCEPT !.file[f] = G], f, end)
      ELSE [w EXCEPT !.file[f] = SavePartFile([G EXCEPT !.status = "ready"])]

PartFileHashFinished(w, f, seen, end) ==
  LET F == w.file[f]
      G == [F EXCEPT !.gaps = (@ \cup Corrupt(F, seen)) \ Found(F, seen)]
  IN  IF Corrupt(F, seen) = {} /\ F.status = "completing"
      THEN CompleteFile([w EXCEPT !.file[f] = G], f, end)
      ELSE [w EXCEPT !.file[f] = SavePartFile([G EXCEPT !.status = "ready"])]

CompleteFileEnded(w, f, ok) ==
  LET F == w.file[f] IN
  StartNextFile([w EXCEPT !.file[f] =
    IF ok THEN [F EXCEPT !.status = "complete", !.paused = FALSE, !.list = "completed"]
    ELSE [F EXCEPT !.status = "error", !.paused = TRUE]])

\* OnFinishedAllocation.  The .part file can be opened.
AllocationFinished(w, f, ok, end) ==
  LET v == [w EXCEPT !.file[f].status = "ready", !.file[f].open = TRUE] IN
  IF ok /\ f \notin Paused THEN ResumeFile(v, f, end) ELSE StopFile(v, f, end)
-----------------------------------------------------------------------------
(***************************************************************************)
(* Downloading, on the main thread.                                         *)
(***************************************************************************)
\* How far a flush of the file may get.
Ends(f) ==
  IF "write" \in Faults THEN 1..(PartCount[f] + 1) ELSE {PartCount[f] + 1}

InQueue(f) == s.file[f].list = "queue"

\* CreatePartFile and AddDownload, which sets the category and thereby saves.
AddDownload(f) ==
  LET new == [NewFile(f) EXCEPT !.list = "queue", !.part = Nothing(f)]
      Added(F) == [s EXCEPT !.file[f] = SavePartFile(F)]
  IN  /\ s.file[f].list = "unborn"
      /\ \/ /\ f \in Allocated
            /\ s' = AddTask(Added(PauseFile([new EXCEPT !.status = "allocating"], FALSE)),
                            "allocate", f)
         \/ s' = Added(IF f \in Paused /\ \E g \in Files : InQueue(g)
                       THEN PauseFile([new EXCEPT !.open = TRUE, !.stopped = TRUE], FALSE)
                       ELSE [new EXCEPT !.open = TRUE])

\* Assumed: nothing comes from outside between the last piece of a task and the
\* next idle event, when the entry of the task is erased.
Settled == s.q.pc # "done"

\* OP_SENDINGPART and WriteToBuffer: the rest of a part arrives.
Receive(f, p, data) ==
  LET F == s.file[f]
      w == [s EXCEPT !.file[f] = [F EXCEPT !.gaps = @ \ {p}, !.buffer[p] = data]]
  IN  /\ f \in Sourced /\ InQueue(f) /\ Active(F) /\ ~F.stopped
      /\ p \in F.gaps /\ Settled
      /\ IF F.gaps = {p} THEN \E end \in Ends(f) : s' = FlushBuffer(w, f, end)
         ELSE s' = w

\* CPartFile::Process: the buffer is full, or its time has come.
Process(f) ==
  /\ InQueue(f) /\ Active(s.file[f])
  /\ Buffered(s.file[f]) # {}
  /\ \E end \in Ends(f) : s' = FlushBuffer(s, f, end)

\* StopPausedFile: an hour after it was paused a file is stopped.
StopPausedFile(f) ==
  /\ InQueue(f) /\ ~s.file[f].stopped
  /\ GetStatus(s.file[f]) \in {"paused", "insufficient", "error"}
  /\ \E end \in Ends(f) : s' = StopFile(s, f, end)

\* CDownloadQueue::CheckDiskspace; the files R find all the space they need.
CheckDiskspace(w, R) ==
  LET Checked(F) == F.list = "queue" /\ GetStatus(F) \notin {"error", "completing"}
  IN  [w EXCEPT !.file = [f \in Files |->
         LET F == w.file[f] IN
         IF Checked(F) /\ ~w.low /\ F.insufficient /\ f \in R THEN ResumeFile(w, f, 1).file[f]
         ELSE IF Checked(F) /\ w.low /\ ~F.paused THEN PauseFile(F, TRUE)
         ELSE F]]

DiskCheck == \E R \in SUBSET Files : s' = CheckDiskspace(s, R)

\* Other programs fill the disk, or make room.
SpaceChanges == s' = [s EXCEPT !.low = ~@]
-----------------------------------------------------------------------------
(***************************************************************************)
(* The user, through the window or through an external connection.          *)
(***************************************************************************)
Saved(w, f) == [w EXCEPT !.file[f] = SavePartFile(@)]

Pause(f) ==
  LET w == [s EXCEPT !.file[f] = PauseFile(@, FALSE)] IN
  InQueue(f) /\ s' \in {w, Saved(w, f)}

Stop(f) ==
  /\ InQueue(f)
  /\ \E end \in Ends(f) : s' \in {StopFile(s, f, end), Saved(StopFile(s, f, end), f)}

Resume(f) ==
  /\ InQueue(f) /\ Settled
  /\ \E end \in Ends(f) : s' = Saved(ResumeFile(s, f, end), f)

\* A change of priority, category or name is saved.
Touch(f) == InQueue(f) /\ s' = Saved(s, f)

\* Before, the external connection may start another file.  Nothing is written,
\* and no task is told.
Delete(f) ==
  LET Deleted(w) == [w EXCEPT !.file[f] = [NewFile(f) EXCEPT !.list = "gone",
                                                             !.target = w.file[f].target]]
  IN  /\ InQueue(f)
      /\ \/ s' = Deleted(s)
         \/ /\ GetStatus(s.file[f]) # "paused"
            /\ s' \in {Deleted(w) : w \in StartNextFile(s)}
-----------------------------------------------------------------------------
(***************************************************************************)
(* The background tasks, one piece per idle event.                          *)
(***************************************************************************)
Running(t) == s.q.bound > 0 /\ s.q.pc = "working" /\ s.q.current = t

\* The last piece of the current task, which leaves w.
Finish(w) == s' \in {[w EXCEPT !.q = P] : P \in Scheduler!Finished(w.q)}

Post(w, e) == [w EXCEPT !.events = Append(@, e)]

\* RunIdle between two tasks.
Idle ==
  /\ s.q.bound > 0 /\ s.q.pc # "working"
  /\ s' = [s EXCEPT !.q =
               Scheduler!Loop(IF @.pc = "done" THEN Scheduler!Cleanup(@) ELSE @)]

\* CHashingTask: without a file, or when it cannot be read, no event is sent.
Hash(f) ==
  LET F == s.file[f]
      t == <<"hash", f>>
  IN  /\ Running(t)
      /\ \/ /\ F.part \notin {Gone, Nothing(f)}
            /\ Finish(Post(s, [task |-> t, seen |-> F.part]))
         \/ /\ F.part \in {Gone, Nothing(f)} \/ "hash" \in Faults
            /\ Finish(s)

\* The .part file of f has become the target file.
Moved(f) ==
  [s EXCEPT !.file[f].target = s.file[f].part,
            !.file[f].part = Gone, !.file[f].met = Gone]

Completed(f, ok) == [task |-> <<"complete", f>>, ok |-> ok]

\* A target file that is being written.
Copying(f) == s.file[f].target = Nothing(f)

\* CCompletionTask: the file is renamed.
Rename(f) ==
  /\ Running(<<"complete", f>>) /\ ~Copying(f)
  /\ s.file[f].part # Gone
  /\ Finish(Post(Moved(f), Completed(f, TRUE)))

\* It cannot be renamed, as when the other directory is on another volume.
NotRenamed(f) ==
  /\ Running(<<"complete", f>>) /\ ~Copying(f)
  /\ s.file[f].part = Gone \/ "rename" \in Faults

\* Mutant of NotOpened: nobody is told.
NotOpenedSilently(f) ==
  /\ NotRenamed(f)
  /\ s.file[f].part = Gone \/ "open" \in Faults
  /\ Finish(s)

\* And then one of the two files cannot be opened.
NotOpened(f) ==
  /\ NotRenamed(f)
  /\ s.file[f].part = Gone \/ "open" \in Faults
  /\ Finish(Post(s, Completed(f, FALSE)))

\* CloneFile begins, and returns after every chunk.
BeginCopy(f) ==
  /\ NotRenamed(f)
  /\ s.file[f].part # Gone
  /\ s' = [s EXCEPT !.file[f].target = Nothing(f)]

\* A copy of a file deleted meanwhile is not followed any further.
EndCopy(f) ==
  /\ Running(<<"complete", f>>) /\ Copying(f)
  /\ Finish(Post(IF s.file[f].part = Gone THEN s ELSE Moved(f), Completed(f, TRUE)))

\* CloneFile fails, and the original is removed all the same.
CopyFails(f) ==
  /\ "copy" \in Faults
  /\ Running(<<"complete", f>>) /\ Copying(f)
  /\ Finish(Post([s EXCEPT !.file[f].part = Gone, !.file[f].met = Gone],
                 Completed(f, TRUE)))

\* CAllocateFileTask: the parts get room on the disk, and zeroes in it.
Allocate(f) ==
  LET t == <<"allocate", f>>
      zeroes == [p \in Parts(f) |-> "bad"]
  IN  /\ Running(t)
      /\ \/ /\ InQueue(f)
            /\ Finish(Post([s EXCEPT !.file[f] = [@ EXCEPT !.part = zeroes,
                                                           !.met.dated = FALSE]],
                           [task |-> t, ok |-> TRUE]))
         \/ /\ InQueue(f) /\ "allocate" \in Faults
            /\ Finish(Post(s, [task |-> t, ok |-> FALSE]))
         \/ /\ ~InQueue(f)
            /\ Finish(Post(s, [task |-> t, ok |-> TRUE]))

\* CAICHSyncTask, which has nothing to do here.
SyncHashes == Running(Sync) /\ Finish(s)

Work == Idle \/ SyncHashes \/ \E f \in Files :
          \/ Hash(f) \/ Rename(f) \/ NotOpened(f) \/ BeginCopy(f) \/ EndCopy(f)
          \/ CopyFails(f) \/ Allocate(f)

\* OnFinishedHashing, OnFinishedCompletion, OnFinishedAllocation: only the
\* first looks whether the file is still there.  What the others do to a file
\* that has been deleted is assumed to change nothing that is modelled.
Handle(w, e, end) ==
  LET f == e.task[2] IN
  IF e.task[1] = "hash"
  THEN IF InQueue(f) THEN {PartFileHashFinished(w, f, e.seen, end)} ELSE {w}
  ELSE IF s.file[f].list = "gone" THEN {w}
  ELSE IF e.task[1] = "complete" THEN CompleteFileEnded(w, f, e.ok)
  ELSE {AllocationFinished(w, f, e.ok, end)}

Dispatch ==
  /\ s.events # <<>>
  /\ \E end \in Ends(Head(s.events).task[2]) :
       s' \in Handle([s EXCEPT !.events = Tail(@)], Head(s.events), end)
-----------------------------------------------------------------------------
(***************************************************************************)
(* The program ends and is started again.                                   *)
(***************************************************************************)
\* LoadPartFile.  What lies behind the end of the .part file is a gap.
Loaded(F, f) ==
  LET gaps == F.met.gaps
                \cup {p \in Parts(f) : \A r \in p..PartCount[f] : F.part[r] = "none"}
  IN  [NewFile(f) EXCEPT
         !.list   = "queue",
         !.status = IF gaps = {} THEN "completing"
                    ELSE IF ~F.met.dated /\ F.part # Nothing(f) THEN "waitingforhash"
                    ELSE "ready",
         !.paused = F.met.paused, !.stopped = F.met.paused,
         !.gaps = gaps, !.open = TRUE, !.part = F.part, !.met = F.met]

\* LoadMetFiles, in the order of the files' names.  Whatever order a task is
\* added, RunIdle is bound once more.
Started(w) ==
  LET Kept(F) == F.list = "queue" /\ F.part # Gone /\ F.met # Gone
      file == [f \in Files |->
                 LET F == w.file[f] IN
                 IF Kept(F) THEN Loaded(F, f)
                 ELSE IF F.list = "queue"
                 THEN [NewFile(f) EXCEPT !.list = "gone", !.target = F.target]
                 ELSE F]
      hashed == {f \in Files : Kept(w.file[f]) /\ file[f].status # "ready"}
  IN  {CheckDiskspace([w EXCEPT !.file = file, !.events = <<>>,
                                !.q = [Scheduler!Push(Fresh, p) EXCEPT !.bound = Len(p)]],
                      {}) :
         p \in Scheduler!Orders({"hash"} \X hashed)}

\* The program dies, maybe while it writes the buffer of f.
Crash ==
  \E f \in Files : \E P \in SUBSET Buffered(s.file[f]) :
    /\ P # {} => ~s.low
    /\ s' \in Started([s EXCEPT !.file[f] = WriteParts(@, P)])

\* ShutDown: the tasks are dropped, and ~CPartFile flushes and saves.
ShutDown ==
  \E end \in [Files -> UNION {Ends(f) : f \in Files}] :
    /\ \A f \in Files : end[f] \in Ends(f)
    /\ LET w == [s EXCEPT !.q = [Scheduler!Blank EXCEPT !.terminated = TRUE]] IN
       s' \in Started([w EXCEPT !.file = [f \in Files |->
                IF InQueue(f) /\ @[f].open
                THEN SavePartFile(FlushBuffer(w, f, end[f]).file[f]) ELSE @[f]]])
-----------------------------------------------------------------------------
Download(f) ==
  \/ AddDownload(f)
  \/ \E p \in Parts(f), data \in {"good", "bad"} : Receive(f, p, data)
  \/ Process(f)
  \/ StopPausedFile(f)

User(f) == Pause(f) \/ Stop(f) \/ Resume(f) \/ Touch(f) \/ Delete(f)

Restart == Crash \/ ShutDown

Next ==
  \/ \E f \in Files : Download(f) \/ User(f)
  \/ DiskCheck
  \/ SpaceChanges
  \/ Work
  \/ Dispatch
  \/ Restart

Spec == Init /\ [][Next]_s

\* Idle events come, and a task is a loop over the chunks of a file; posted
\* events are dispatched: WF_s(Work) /\ WF_s(Dispatch), with ENABLED spelled out.
Fairness ==
  /\ []<>(s.q.bound = 0)   \/ []<><<Work>>_s
  /\ []<>(s.events = <<>>) \/ []<><<Dispatch>>_s

FairSpec == Spec /\ Fairness
-----------------------------------------------------------------------------
(***************************************************************************)
(* Properties.                                                              *)
(***************************************************************************)
TypeOK ==
  /\ DOMAIN s = {"file", "q", "events", "low"}
  /\ \A f \in Files : s.file[f] \in FileState(f)
  /\ s.q \in Scheduler!State
  /\ \A i \in 1..Len(s.events) : \E f \in Files : s.events[i] \in Event(f)
  /\ s.low \in BOOLEAN

\* What is kept as a completed download is the file that was wanted, whatever
\* was received, written, forgotten or interrupted on the way, or else a copy
\* that broke off (see NoErrorMeansMoved).
CompletedIsWhole ==
  \A f \in Files :
    s.file[f].list = "completed" =>
      \/ s.file[f].target = Whole(f)
      \/ "copy" \in Faults /\ s.file[f].target = Nothing(f)

\* Tasks of f that have not ended, and events of f not yet dispatched.
Pending(f) ==
  {t \in FileTasks :
     /\ t[2] = f
     /\ \/ t \in Scheduler!Listed(s.q.tasks)
        \/ t = s.q.current /\ s.q.pc = "working"
        \/ \E i \in 1..Len(s.events) : s.events[i].task = t}

\* A file that shows a status only a task can end has exactly one on its way.
BusyHasTask ==
  \A f \in Files :
    LET F == s.file[f] IN
    F.list = "queue" /\ F.status \in {"allocating", "waitingforhash", "completing"}
      => Cardinality(Pending(f)) = 1

\* The parts of f that are there for good: hashed, and no gaps.
Have(F) == {p \in DOMAIN F.buffer : F.part # Gone /\ p \notin F.gaps
                                      /\ F.buffer[p] = "none" /\ F.part[p] = "good"}

\* What was received, written and found good is never lost, not even by a
\* crash, unless the user deletes the file, it has been completed, or copying it
\* fails at this very step.
NothingIsLost ==
  [][\A f \in Files :
       LET F == s.file[f]
           G == s'.file[f]
       IN  \/ Have(F) \subseteq Have(G)
           \/ G.list = "gone" \/ G.target = Whole(f)
           \/ CopyFails(f)]_s

\* A completion event that reports no error, "true if completion failed"
\* (ThreadTasks.h:279), comes from a file that has arrived.
NoErrorMeansMoved ==
  \A i \in 1..Len(s.events) :
    LET e == s.events[i]
        f == e.task[2]
    IN  e.task[1] = "complete" /\ s.file[f].list = "queue" /\ e.ok
          => s.file[f].target = Whole(f)

\* A restart: what is said before the last conjunct follows from it, and is
\* quicker to evaluate.
Restarted ==
  /\ s'.events = <<>> /\ s'.q.pc = "entry" /\ ~s'.q.ended
  /\ \A f \in Files : s'.file[f].list = "queue" =>
       s'.file[f].open /\ s'.file[f].buffer = Nothing(f)
  /\ Restart

\* Once the program goes on running, completion comes to an end; only a file
\* with sources is ever completed.
CompletionEnds ==
  \A f \in Sourced :
    <>[][~Restarted]_s =>
      (s.file[f].status = "completing" ~> s.file[f].status # "completing")
=============================================================================
