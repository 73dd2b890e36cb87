------------------------------ MODULE Tampering ------------------------------
(***************************************************************************)
(* Event 25 (SysmonDrv/src/tampering.c).  A new process is tracked with a  *)
(* retry budget; an image load takes it off the list and compares the      *)
(* image in memory with the file.  The check runs on a system thread while *)
(* the image-load callback waits for it, but not for ever; a check that    *)
(* comes too early tracks the process again and retries after a delay.     *)
(*                                                                         *)
(* What the system says of a process and of its file is chosen.  The       *)
(* counter of tracked processes, which bounds the list, changes with it.   *)
(***************************************************************************)
EXTENDS Integers, FiniteSets, Sequences

CONSTANTS
    TamperPids,     \* process ids
    Loads,          \* image-load callbacks that run at the same time
    Retries,        \* retry work items that exist at the same time
    MaxTracked,     \* SYSMON_MAX_TRACKED_PROCESSES
    Budget,         \* SYSMON_TAMPER_PENDING_RETRY_BUDGET
    SettleAttempts, \* SYSMON_TAMPER_SETTLE_RETRY_ATTEMPTS
    MaxCreated      \* bound: processes created

ASSUME TamperingAssumption ==
    /\ IsFiniteSet(Loads) /\ IsFiniteSet(Retries) /\ Loads \cap Retries = {}
    /\ TamperPids # {} /\ Budget \in Nat

VARIABLES
    tracked,  \* by pid: the retry budget, or Untracked
    watching, \* the process callback is registered and the flags are on
    created,  \* by pid: processes tracked anew
    reports,  \* by pid: events published
    load,     \* image-load callbacks: stage and references to the work item
    check,    \* by work item: the check it runs
    rundown,  \* references to the driver's rundown protection
    unload    \* "no", "asked", "done"

tamperVars == <<tracked, watching, created, reports, load, check, rundown, unload>>

Untracked == -1
NoCheck == [pc |-> "out", pid |-> CHOOSE p \in TamperPids : TRUE, budget |-> 0, attempt |-> 0]
NoLoad == [pc |-> "out", refs |-> 0, signalled |-> FALSE, freed |-> TRUE]

TamperInit ==
    /\ tracked = [p \in TamperPids |-> Untracked]
    /\ watching = TRUE
    /\ created = [p \in TamperPids |-> 0] /\ reports = [p \in TamperPids |-> 0]
    /\ load = [l \in Loads |-> NoLoad]
    /\ check = [w \in Loads \cup Retries |-> NoCheck]
    /\ rundown = 0 /\ unload = "no"

-----------------------------------------------------------------------------
(* Tracked processes.                                                      *)

\* SysmonTrackProcessWithRetryBudget: a process that is there keeps the larger
\* budget; the list may be full and memory may be short.
Tracking(p, budget) ==
    {tracked} \cup
    (IF Cardinality({q \in TamperPids : tracked[q] # Untracked}) >= MaxTracked THEN {}
     ELSE {[tracked EXCEPT ![p] = IF @ < budget THEN budget ELSE @]})

\* TamperingProcessNotifyCallback, and its legacy twin right after it.
ProcessCreated(p) ==
    /\ watching /\ created[p] < MaxCreated
    /\ tracked' \in Tracking(p, Budget)
    /\ created' = [created EXCEPT ![p] = @ + 1]
    /\ UNCHANGED <<watching, reports, load, check, rundown, unload>>

\* SysmonUnregisterTamperingDetection: checks that run are not waited for.
UnregisterTampering ==
    /\ watching
    /\ watching' = FALSE
    /\ tracked' = [p \in TamperPids |-> Untracked]
    /\ UNCHANGED <<created, reports, load, check, rundown, unload>>

\* SysmonRegisterTamperingDetection starts with an empty list, whatever a late
\* check has left on it.
RegisterTampering ==
    /\ ~watching /\ unload = "no"
    /\ watching' = TRUE
    /\ tracked' = [p \in TamperPids |-> Untracked]
    /\ UNCHANGED <<created, reports, load, check, rundown, unload>>

-----------------------------------------------------------------------------
(* The image of a process, and its file.                                   *)

\* The two forms a string of the process parameters has, absolute or as an
\* offset, are read alike: it is there, or it is empty.
ReadString(string) == IF string = "empty" THEN "not found" ELSE "ok"

\* SysmonCaptureMainImageStateAttached64 and ...32: parameters, path, header.
CaptureAttached(peb) ==
    CASE peb = "fault" -> "failed"                   \* taken by __except
      [] peb = "no parameters" -> "not found"
      [] peb = "no path" -> ReadString("empty")
      [] peb = "no image" -> "not found"
      [] OTHER -> "ok"

Pebs == {"fault", "no parameters", "no path", "no image", "mapped"}

\* SysmonCaptureMainImageStateForProcessHandle: a process without a PEB counts
\* as captured, with an empty path; a 32-bit view only helps out where the
\* 64-bit one was refused without a fault.
CaptureImage(peb, peb32) ==
    LET native == CaptureAttached(peb) IN
    CASE peb = "none" -> "empty path"
      [] native = "not found" /\ peb32 # "none" -> CaptureAttached(peb32)
      [] OTHER -> native

Images == {CaptureImage(peb, peb32) : peb, peb32 \in Pebs \cup {"none"}}

\* SysmonQueryProcessImagePath: one class of name, and another if there is no
\* such name; a buffer that is too small is enlarged once.
QueryImagePath(name, win32) == IF name = "not found" THEN win32 ELSE name
ImagePaths == {QueryImagePath(name, win32) : name, win32 \in {"ok", "not found", "failed"}}

\* Paths are sequences of letters: "w" stands for what follows the volume.
Paths == {<<"\\", "w">>, <<"C", ":", "\\", "w">>, <<"C", ":", "\\", "x">>,
          <<"\\", "?", "?", "\\", "C", ":", "\\", "w">>, <<"\\", "\\", "w">>}

\* SysmonNormalizeProcessImagePath only takes paths of the object manager, and
\* the device may have no DOS name: then there is nothing to compare.
Normalized(path, dos) ==
    IF path[2] = ":" \/ (path[1] = "\\" /\ path[2] = "\\") THEN <<>> ELSE dos

\* SysmonSkipImagePathPrefix: the third and fourth character decide.
SkipImagePathPrefix(path) ==
    IF /\ Len(path) >= 4 /\ path[1] = "\\" /\ path[2] \in {"?", "\\"}
       /\ path[3] = "?" /\ path[4] = "\\"
    THEN SubSeq(path, 5, Len(path)) ELSE path

SkipDriveLetter(path) ==
    IF Len(path) >= 3 /\ path[2] = ":" /\ path[3] = "\\"
    THEN SubSeq(path, 3, Len(path)) ELSE path

\* SysmonPathsEqualCaseInsensitive: a path without a volume equals the same path
\* on any volume.
PathsEqual(left, right) ==
    IF Len(left) = Len(right) THEN left = right
    ELSE IF left[1] = "\\" /\ right[1] # "\\" THEN left = SkipDriveLetter(right)
    ELSE IF right[1] = "\\" /\ left[1] # "\\" THEN SkipDriveLetter(left) = right
    ELSE FALSE

\* The path in memory against that of the process; one that cannot be
\* normalised differs from nothing.
SameImage(image, process, dos) ==
    LET current == Normalized(image, dos)
    IN current = <<>> \/ PathsEqual(current, SkipImagePathPrefix(process))
Comparisons == {SameImage(image, process, dos) :
                   image, process \in Paths, dos \in Paths \cup {<<>>}}

\* SysmonOpenProcessImageFile: a DOS path gets a prefix, which needs memory.
OpenImageFile(path, file) == IF path[2] = ":" /\ file = "no memory" THEN "locked" ELSE file
FileChecks == {OpenImageFile(path, file) :
                  path \in Paths, file \in {"deleted", "locked", "no memory", "different", "same"}}

-----------------------------------------------------------------------------
(* SysmonCheckProcessTamperingOnImageLoad, as run by work item w.          *)

NewCheck(p) == [pc |-> "enter", pid |-> p, budget |-> 0, attempt |-> 0]
CheckTo(w, pc) == check' = [check EXCEPT ![w].pc = pc]

\* Faulty variant, for the mutation runs: the process stays on the list.
CheckKeeps(w) ==
    /\ check[w].pc = "enter"
    /\ IF watching /\ tracked[check[w].pid] # Untracked
       THEN check' = [check EXCEPT ![w] = [pc |-> "open", pid |-> @.pid, attempt |-> 1,
                                             budget |-> tracked[@.pid]]]
       ELSE CheckTo(w, "over")
    /\ UNCHANGED <<tracked, watching, created, reports, load, rundown, unload>>

\* SysmonUntrackProcess: one check takes the process, the others miss it.
CheckEnters(w) ==
    /\ check[w].pc = "enter"
    /\ IF watching /\ tracked[check[w].pid] # Untracked
       THEN /\ check' = [check EXCEPT ![w] = [pc |-> "open", pid |-> @.pid, attempt |-> 1,
                                               budget |-> tracked[@.pid]]]
            /\ tracked' = [tracked EXCEPT ![check[w].pid] = Untracked]
       ELSE CheckTo(w, "over") /\ UNCHANGED tracked
    /\ UNCHANGED <<watching, created, reports, load, rundown, unload>>

CheckOpens(w) ==
    /\ check[w].pc = "open"
    /\ CheckTo(w, "capture") \/ CheckTo(w, "over")
    /\ UNCHANGED <<tracked, watching, created, reports, load, rundown, unload>>

\* Another attempt after the settle delay, while there are some.
Settle(w) ==
    /\ check[w].attempt < SettleAttempts
    /\ check' = [check EXCEPT ![w] = [pc |-> "capture", pid |-> @.pid, budget |-> @.budget,
                                             attempt |-> @.attempt + 1]]

\* The main image of the process: there, not there yet, or not to be had.
CheckCaptures(w) ==
    /\ check[w].pc = "capture"
    /\ \E image \in Images :
         IF image = "ok" THEN CheckTo(w, "query")
         ELSE IF image = "not found" /\ check[w].attempt < SettleAttempts THEN Settle(w)
         ELSE CheckTo(w, "over")
    /\ UNCHANGED <<tracked, watching, created, reports, load, rundown, unload>>

\* The path of the image: had; not found, for another attempt or, with budget
\* left, for a retry; not found at the end; or refused.
CheckQueries(w) ==
    /\ check[w].pc = "query"
    /\ \E path \in ImagePaths :
         \/ path = "ok" /\ CheckTo(w, "compare") /\ UNCHANGED tracked
         \/ path = "not found" /\ Settle(w) /\ UNCHANGED tracked
         \/ /\ path = "not found" /\ check[w].attempt = SettleAttempts /\ check[w].budget > 0
            /\ tracked' \in Tracking(check[w].pid, check[w].budget - 1)
            /\ CheckTo(w, "requeue")
         \/ /\ \/ path = "failed"
               \/ path = "not found" /\ check[w].attempt = SettleAttempts /\ check[w].budget = 0
            /\ CheckTo(w, "over") /\ UNCHANGED tracked
    /\ UNCHANGED <<watching, created, reports, load, rundown, unload>>

\* SysmonQueueDelayedTamperRetry: not without memory, not while unloading.
CheckRequeues(w) ==
    /\ check[w].pc = "requeue"
    /\ \/ CheckTo(w, "over") /\ UNCHANGED rundown
       \/ /\ unload = "no"
          /\ \E r \in Retries :
               /\ check[r].pc = "out"
               /\ rundown' = rundown + 1
               /\ check' = [check EXCEPT ![w].pc = "over",
                              ![r] = NewCheck(check[w].pid)]
    /\ UNCHANGED <<tracked, watching, created, reports, load, unload>>

\* The two paths: the same, or one of them not normalised; another attempt; or
\* still different at the last one, which is reported.
CheckCompares(w) ==
    /\ check[w].pc = "compare"
    /\ \E same \in Comparisons :
         \/ same /\ CheckTo(w, "file")
         \/ ~same /\ Settle(w)
         \/ ~same /\ check[w].attempt = SettleAttempts /\ CheckTo(w, "report")
    /\ UNCHANGED <<tracked, watching, created, reports, load, rundown, unload>>

\* The file: not to be opened, not to be read, different at its beginning, or
\* the same.
CheckReadsFile(w) ==
    /\ check[w].pc = "file"
    /\ \E file \in FileChecks : CheckTo(w, IF file = "same" THEN "over" ELSE "report")
    /\ UNCHANGED <<tracked, watching, created, reports, load, rundown, unload>>

\* SysmonReportTampering, unless there is no memory for the event.
CheckReports(w) ==
    LET p == check[w].pid IN
    /\ check[w].pc = "report"
    /\ reports' = [reports EXCEPT ![p] = @ + 1] \/ UNCHANGED reports
    /\ CheckTo(w, "over")
    /\ UNCHANGED <<tracked, watching, created, load, rundown, unload>>

-----------------------------------------------------------------------------
(* The callback that waits, and the work item it shares with the worker.   *)

\* SysmonCheckProcessTamperingOnImageLoadSynchronous: two references to the
\* work item, two to the driver.
LoadQueues(l) ==
    /\ load[l].pc = "out" /\ check[l].pc = "out" /\ unload = "no"
    /\ \E p \in TamperPids :
         /\ created[p] > 0
         /\ check' = [check EXCEPT ![l] = NewCheck(p)]
    /\ load' = [load EXCEPT ![l] = [pc |-> "wait", refs |-> 2, signalled |-> FALSE,
                                    freed |-> FALSE]]
    /\ rundown' = rundown + 2
    /\ UNCHANGED <<tracked, watching, created, reports, unload>>

\* The event is set, or 500 ms have passed.
LoadWakes(l) ==
    /\ load[l].pc = "wait"
    /\ load' = [load EXCEPT ![l].pc = "leave"]
    /\ UNCHANGED <<tracked, watching, created, reports, check, rundown, unload>>

\* Faulty variant: the waiter frees the item when it gives up.
DroppedAnyway(l) ==
    [pc |-> load[l].pc, refs |-> load[l].refs - 1, signalled |-> load[l].signalled,
     freed |-> TRUE]

\* The last reference frees the item.
TrackDropped(l) ==
    [pc |-> load[l].pc, refs |-> load[l].refs - 1, signalled |-> load[l].signalled,
     freed |-> (load[l].refs = 1)]

LoadLeaves(l) ==
    /\ load[l].pc = "leave"
    /\ load' = [load EXCEPT ![l] = [TrackDropped(l) EXCEPT !.pc = "out"]]
    /\ rundown' = rundown - 1
    /\ UNCHANGED <<tracked, watching, created, reports, check, unload>>

\* SysmonTamperWorkItemRoutine: first the event, then the reference, the
\* driver's rundown last.
WorkSignals(l) ==
    /\ check[l].pc = "over"
    /\ load' = [load EXCEPT ![l].signalled = TRUE]
    /\ CheckTo(l, "release")
    /\ UNCHANGED <<tracked, watching, created, reports, rundown, unload>>

WorkReleases(l) ==
    /\ check[l].pc = "release"
    /\ load' = [load EXCEPT ![l] = TrackDropped(l)]
    /\ CheckTo(l, "rundown")
    /\ UNCHANGED <<tracked, watching, created, reports, rundown, unload>>

WorkRundown(l) ==
    /\ check[l].pc = "rundown"
    /\ rundown' = rundown - 1
    /\ check' = [check EXCEPT ![l] = NoCheck]
    /\ UNCHANGED <<tracked, watching, created, reports, load, unload>>

\* SysmonTamperRetryWorkItemRoutine: the item is its own.
RetryEnds(r) ==
    /\ check[r].pc = "over"
    /\ rundown' = rundown - 1
    /\ check' = [check EXCEPT ![r] = NoCheck]
    /\ UNCHANGED <<tracked, watching, created, reports, load, unload>>

UnloadAsked ==
    /\ unload = "no"
    /\ unload' = "asked"
    /\ UNCHANGED <<tracked, watching, created, reports, load, check, rundown>>

UnloadDone ==
    /\ unload = "asked" /\ rundown = 0
    /\ unload' = "done"
    /\ watching' = FALSE
    /\ tracked' = [p \in TamperPids |-> Untracked]
    /\ UNCHANGED <<created, reports, load, check, rundown>>

-----------------------------------------------------------------------------

CheckStep(w) ==
    \/ CheckEnters(w) \/ CheckOpens(w) \/ CheckCaptures(w) \/ CheckQueries(w)
    \/ CheckRequeues(w) \/ CheckCompares(w) \/ CheckReadsFile(w) \/ CheckReports(w)

LoadStep(l) == LoadWakes(l) \/ LoadLeaves(l) \/ WorkSignals(l) \/ WorkReleases(l) \/ WorkRundown(l)

TamperNext ==
    \/ \E p \in TamperPids : ProcessCreated(p)
    \/ UnregisterTampering \/ RegisterTampering
    \/ \E w \in Loads \cup Retries : CheckStep(w)
    \/ \E l \in Loads : LoadQueues(l) \/ LoadStep(l)
    \/ \E r \in Retries : RetryEnds(r)
    \/ UnloadAsked \/ UnloadDone

TamperSpec == TamperInit /\ [][TamperNext]_tamperVars

-----------------------------------------------------------------------------
(* Properties.                                                             *)

Holding(p) == {w \in Loads \cup Retries :
    check[w].pid = p /\ check[w].pc \in {"open", "capture", "query", "compare", "file", "report"}}

\* A created process is tracked, under check or reported, but only once,
\* however many image loads and retries check it (tampering.c 457-489,
\* 1123-1131, 1205-1222).
ReportedOnce ==
    \A p \in TamperPids :
      Cardinality(Holding(p)) + reports[p] + (IF tracked[p] = Untracked THEN 0 ELSE 1)
        <= created[p]

\* The work item lives while the worker or the waiter still uses it, and the
\* driver while either of them runs its code (tampering.c 303-325, 1333-1400).
HandoffIsSafe ==
    /\ \A l \in Loads :
         load[l].pc # "out" \/ check[l].pc \notin {"out", "rundown"} => ~load[l].freed
    /\ unload = "done" =>
         /\ \A l \in Loads : load[l].pc = "out"
         /\ \A w \in Loads \cup Retries : check[w].pc = "out"
=============================================================================
