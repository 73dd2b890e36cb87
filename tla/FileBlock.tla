------------------------------ MODULE FileBlock ------------------------------
(* The minifilter (minifilter.c): file objects opened to write executables *)
(* are armed at creation, their writes are noted in the context of the     *)
(* file object, and at cleanup, or once more at close, the file is blocked *)
(* (Event 27: archived or deleted) or only reported (Event 29).  Between   *)
(* any two steps of one file object others write to the same file.         *)
EXTENDS Naturals, FiniteSets, Sequences

CONSTANTS
    FileObjects,    \* the file objects, each opened at most once
    FileOf,         \* FileOf[o]: the file that o is opened on
    CopyChunks,     \* the chunks of 64 KB of a file
    MaxVersion      \* bound of the number of writes to a file

ASSUME FileBlockAssumption ==
    /\ CopyChunks \in Nat \ {0}
    /\ MaxVersion \in Nat

VARIABLES
    mode,           \* callbacks do not enter ("stopped"); they do, with the producer
                    \* flags ENABLED and FILE_NOTIFY ("watching") or without ("quiet")
    content,        \* content[f]: whether it is an executable, and its version
    place,          \* place[f]: where it was found, the archive, or nowhere
    archived,       \* archived[f]: the chunks of the archive's file for f
    stage,          \* stage[o]: how far the life of the file object is
    step,           \* step[o]: the step of the callback for cleanup or close
    wanted,         \* wanted[o]: what the create or set-information context asks
    context,        \* context[o]: the flags of the stream-handle context
    write,          \* write[o]: how far a write is
    event,          \* event[o]: Event 27 was prepared before the file was blocked
    identity,       \* identity[o]: the version at the start of copying
    copied,         \* copied[o]: the versions of the chunks read so far
    confirmed,      \* confirmed[o]: the header was found in the file before the action
    removed,        \* removed[o]: how the filter removed the file for o
    published,      \* published[o]: the events published by the last operation on o
    blockReports    \* blockReports[o]: the number of Events 27 and 29 published for o

fileVars == <<mode, content, place, archived, stage, step, wanted, context,
              write, event, identity, copied, confirmed, removed, published,
              blockReports>>
unchangedFiles == UNCHANGED <<content, place, archived>>
unchangedAction == UNCHANGED <<event, identity, copied, confirmed, removed, blockReports>>

BlockFiles == {FileOf[o] : o \in FileObjects}
NoCopy == [i \in 1 .. CopyChunks |-> 0]

FileInit ==
    /\ mode \in {"stopped", "watching"}
    /\ content = [f \in BlockFiles |-> [pe |-> FALSE, version |-> 1]]
    /\ place = [f \in BlockFiles |-> "here"]
    /\ archived = [f \in BlockFiles |-> NoCopy]
    /\ stage = [o \in FileObjects |-> "none"]
    /\ step = [o \in FileObjects |-> "idle"]
    /\ wanted = [o \in FileObjects |-> {}]
    /\ context = [o \in FileObjects |-> {}]
    /\ write = [o \in FileObjects |-> "no"]
    /\ event = [o \in FileObjects |-> FALSE]
    /\ identity = [o \in FileObjects |-> 0]
    /\ copied = [o \in FileObjects |-> <<>>]
    /\ confirmed = [o \in FileObjects |-> FALSE]
    /\ removed = [o \in FileObjects |-> "no"]
    /\ published = [o \in FileObjects |-> <<>>]
    /\ blockReports = [o \in FileObjects |-> 0]

Content(o) == content[FileOf[o]]
Watching == mode = "watching"

-----------------------------------------------------------------------------
(* Opening.  A request names a pipe, a volume, an alternate stream or a    *)
(* file; a file is armed when its name is that of an executable and the    *)
(* request may create and modify it (27, the event this may lead to).      *)
Requests ==
    [target : {"pipe", "volume", "stream"}]
    \cup [target : {"file"}, creates : BOOLEAN, executable : BOOLEAN, modifies : BOOLEAN]

CreateContext(r) ==
    CASE r.target = "pipe" -> {17}
      [] r.target = "volume" -> {9}
      [] r.target = "stream" -> {15}
      [] OTHER -> IF ~r.creates THEN {}
                  ELSE {11} \cup (IF r.executable /\ r.modifies THEN {27} ELSE {})

PreCreate(o, user, r) ==
    /\ stage[o] = "none"
    /\ stage' = [stage EXCEPT ![o] = "creating"]
    /\ wanted' = [wanted EXCEPT ![o] =
            IF Watching /\ user THEN CreateContext(r) ELSE {}]
    /\ UNCHANGED <<mode, step, context, write, published>>
    /\ unchangedFiles /\ unchangedAction

\* The creation failed: the context is freed and the file object is gone.
CreateFails(o) ==
    /\ stage[o] = "creating"
    /\ stage' = [stage EXCEPT ![o] = "closed"]
    /\ wanted' = [wanted EXCEPT ![o] = {}]
    /\ UNCHANGED <<mode, step, context, write, published>>
    /\ unchangedFiles /\ unchangedAction

\* The order of the events of one operation.
InOrder(events) ==
    LET Only(id) == IF id \in events THEN <<id>> ELSE <<>>
    IN  Only(17) \o Only(9) \o Only(15) \o Only(11) \o Only(2) \o Only(26) \o Only(23) \o Only(28)

\* The events that can be built: at passive level only, and with memory for each.
EventsBuilt(o, passive) == IF passive THEN SUBSET wanted[o] ELSE {{}}

ArmedContext(created) == {"armed", "opened"} \cup (IF created THEN {"created"} ELSE {})

PostCreate(o, created, passive) ==
    /\ stage[o] = "creating"
    /\ stage' = [stage EXCEPT ![o] =
            IF wanted[o] \cap {17, 9, 15} = {} THEN "open" ELSE "closed"]
    /\ wanted' = [wanted EXCEPT ![o] = {}]
    /\ context' = [context EXCEPT ![o] =
            IF Watching /\ 27 \in wanted[o] THEN ArmedContext(created) ELSE {}]
    /\ \E built \in EventsBuilt(o, passive) :
          published' = [published EXCEPT ![o] =
                IF Watching THEN InOrder(IF created THEN built ELSE built \ {15, 11}) ELSE <<>>]
    /\ UNCHANGED <<mode, step, write>>
    /\ unchangedFiles /\ unchangedAction

-----------------------------------------------------------------------------
(* Writing.  Only a write that FilterPreWrite follows reaches              *)
(* FilterPostWrite; the file may be cleaned up while it is under way.      *)
PreWrite(o, user) ==
    /\ stage[o] = "open" /\ write[o] = "no"
    /\ write' = [write EXCEPT ![o] =
            IF Watching /\ user /\ "armed" \in context[o] THEN "followed" ELSE "alone"]
    /\ UNCHANGED <<mode, stage, step, wanted, context, published>>
    /\ unchangedFiles /\ unchangedAction

WriteHappens(o, pe) ==
    /\ write[o] \in {"followed", "alone"}
    /\ Content(o).version < MaxVersion
    /\ content' = [content EXCEPT ![FileOf[o]] =
            [pe |-> pe, version |-> @.version + 1]]
    /\ write' = [write EXCEPT ![o] = IF @ = "followed" THEN "post" ELSE "no"]
    /\ UNCHANGED <<mode, place, archived, stage, step, wanted, context, published>>
    /\ unchangedAction

\* Writes that the filter does not follow: those of the kernel, of objects that
\* are not armed, and of other machines.
OthersWrite(f, pe) ==
    /\ content[f].version < MaxVersion
    /\ content' = [content EXCEPT ![f] = [pe |-> pe, version |-> @.version + 1]]
    /\ UNCHANGED <<mode, place, archived, stage, step, wanted, context, write, published>>
    /\ unchangedAction

WriteFails(o) ==
    /\ write[o] \in {"followed", "alone"}
    /\ write' = [write EXCEPT ![o] = "no"]
    /\ UNCHANGED <<mode, stage, step, wanted, context, published>>
    /\ unchangedFiles /\ unchangedAction

PostWriteMarks(o) ==
    /\ write[o] = "post"
    /\ IF Watching /\ "armed" \in context[o]
       THEN /\ context' = [context EXCEPT ![o] = @ \cup {"wrote"}]
            /\ write' = [write EXCEPT ![o] = IF "checked" \in context[o] THEN "no" ELSE "header"]
       ELSE write' = [write EXCEPT ![o] = "no"] /\ UNCHANGED context
    /\ UNCHANGED <<mode, stage, step, wanted, published>>
    /\ unchangedFiles /\ unchangedAction

\* The flags that reading the header of the file leaves, when it can be read.
Header(o, flags) ==
    flags \cup {"checked"} \cup (IF Content(o).pe THEN {"pe"} ELSE {})

PostWriteReadsHeader(o, readable) ==
    /\ write[o] = "header"
    /\ context' = [context EXCEPT ![o] =
            IF readable /\ @ # {} THEN Header(o, @) ELSE @]
    /\ write' = [write EXCEPT ![o] = "no"]
    /\ UNCHANGED <<mode, stage, step, wanted, published>>
    /\ unchangedFiles /\ unchangedAction

-----------------------------------------------------------------------------
(* Changes of a file's time and deletions by its users.                    *)
SetInfoContext(class) ==
    CASE class = "time" -> {2}
      [] class = "delete" -> {26, 23}
      [] class = "posixDelete" -> {26, 23, 28}
      [] OTHER -> {}

PreSetInfo(o, user, class) ==
    /\ stage[o] = "open" /\ step[o] = "idle"
    /\ step' = [step EXCEPT ![o] = "setInfo"]
    /\ wanted' = [wanted EXCEPT ![o] =
            IF Watching /\ user THEN SetInfoContext(class) ELSE {}]
    /\ published' = [published EXCEPT ![o] = <<>>]
    /\ UNCHANGED <<mode, stage, context, write>>
    /\ unchangedFiles /\ unchangedAction

PostSetInfo(o, succeeds, passive) ==
    /\ step[o] = "setInfo"
    /\ step' = [step EXCEPT ![o] = "idle"]
    /\ place' = [place EXCEPT ![FileOf[o]] =
            IF succeeds /\ 26 \in wanted[o] THEN "nowhere" ELSE @]
    /\ \E built \in EventsBuilt(o, passive) :
          published' = [published EXCEPT ![o] =
                IF succeeds /\ Watching THEN InOrder(built) ELSE <<>>]
    /\ wanted' = [wanted EXCEPT ![o] = {}]
    /\ UNCHANGED <<mode, content, archived, stage, context, write>>
    /\ unchangedAction

-----------------------------------------------------------------------------
(* Cleanup and close: SysmonFinalizeFileBlockContext.                      *)
unchangedOpen == UNCHANGED <<mode, wanted, write>>
unchangedDone == UNCHANGED <<removed, published, blockReports>>

\* The callback ends; the context goes unless another attempt is to be made.
EndsWith(o, flags, deleteContext) ==
    /\ step' = [step EXCEPT ![o] = "idle"]
    /\ stage' = [stage EXCEPT ![o] = IF @ = "cleanup" THEN "cleaned" ELSE "closed"]
    /\ context' = [context EXCEPT ![o] = IF deleteContext THEN {} ELSE flags]
    /\ event' = [event EXCEPT ![o] = FALSE]
    /\ identity' = [identity EXCEPT ![o] = 0]
    /\ copied' = [copied EXCEPT ![o] = <<>>]
    /\ confirmed' = [confirmed EXCEPT ![o] = FALSE]

\* Close is the last attempt: a failure keeps the context only at cleanup.
FailsWith(o, flags) == EndsWith(o, flags, stage[o] = "close")
Goes(o, s) ==
    /\ step' = [step EXCEPT ![o] = s]
    /\ UNCHANGED stage
Continues(o, s) == Goes(o, s) /\ UNCHANGED <<context, event, identity, copied, confirmed>>

PreCleanup(o) ==
    /\ stage[o] = "open" /\ step[o] = "idle"
    /\ IF Watching /\ context[o] # {}
       THEN /\ stage' = [stage EXCEPT ![o] = "cleanup"]
            /\ step' = [step EXCEPT ![o] = "detect"]
       ELSE /\ stage' = [stage EXCEPT ![o] = "cleaned"]
            /\ UNCHANGED step
    /\ published' = [published EXCEPT ![o] = <<>>]
    /\ UNCHANGED context /\ unchangedOpen /\ unchangedFiles /\ unchangedAction

PreClose(o) ==
    /\ stage[o] = "cleaned" /\ write[o] = "no"
    /\ IF mode # "stopped" /\ context[o] # {}
       THEN /\ stage' = [stage EXCEPT ![o] = "close"]
            /\ step' = [step EXCEPT ![o] = "detect"]
       ELSE /\ stage' = [stage EXCEPT ![o] = "closed"]
            /\ UNCHANGED step
    /\ published' = [published EXCEPT ![o] = <<>>]
    /\ UNCHANGED context /\ unchangedOpen /\ unchangedFiles /\ unchangedAction

\* Nothing to do for a file object that is not armed or has not written.
NothingToFinalize(o) ==
    \/ "reported" \in context[o]
    \/ ~({"armed", "opened", "wrote"} \subseteq context[o])

\* The header is read in the file, and for one that existed also by its path.
Detects(o, readable, byPath) ==
    /\ readable \/ (byPath /\ "created" \notin context[o] /\ place[FileOf[o]] = "here")
    /\ Content(o).pe

Finalize(o, passive, readable, byPath) ==
    /\ step[o] = "detect"
    /\ LET flags == IF "pe" \notin context[o] /\ Detects(o, readable, byPath)
                    THEN Header(o, context[o])
                    ELSE context[o]
       IN  IF NothingToFinalize(o) THEN EndsWith(o, {}, TRUE)
           ELSE IF ~passive THEN FailsWith(o, context[o])
           ELSE IF "pe" \notin flags THEN EndsWith(o, {}, TRUE)
           ELSE /\ Goes(o, "rules")
                /\ context' = [context EXCEPT ![o] = flags]
                /\ UNCHANGED <<event, identity, copied, confirmed>>
    /\ unchangedDone /\ unchangedOpen /\ unchangedFiles

\* The rules ask for Event 27, for Event 29, or for neither; an event that
\* could not be built is judged by whether there are rules for it at all.
EvaluateRules(o, built) ==
    /\ step[o] = "rules"
    /\ \/ /\ \E s \in {"revalidate", "detected"} : Goes(o, s)
          /\ event' = [event EXCEPT ![o] = built]
          /\ UNCHANGED <<context, identity, copied, confirmed>>
       \/ EndsWith(o, {}, TRUE)
    /\ unchangedDone /\ unchangedOpen /\ unchangedFiles

\* Whether the file is still an executable; otherwise it is left alone.
StillFlagged(o, readable) == readable /\ "pe" \in context[o]
StillExecutable(o, readable) == readable /\ Content(o).pe

Revalidate(o, readable, preserve) ==
    /\ step[o] = "revalidate"
    /\ LET flags == IF readable THEN Header(o, context[o] \ {"pe"}) ELSE context[o]
       IN  IF StillExecutable(o, readable)
           THEN /\ Goes(o, IF preserve THEN "rename" ELSE "delete")
                /\ context' = [context EXCEPT ![o] = flags]
                /\ confirmed' = [confirmed EXCEPT ![o] = readable /\ Content(o).pe]
                /\ UNCHANGED <<event, identity, copied>>
           ELSE FailsWith(o, flags)
    /\ unchangedDone /\ unchangedOpen /\ unchangedFiles

-----------------------------------------------------------------------------
(* The archive.  A directory that is not the System's own, or a hash that  *)
(* cannot be had, leaves the file to be deleted.                           *)
Directories == [kind : {"absent", "directory", "file"}, reparse : BOOLEAN,
                attributesRead : BOOLEAN, security : {"read", "failed", "unsupported"},
                owner : {"System", "other"}, dacl : {"System", "more"},
                label : {"System", "other"}]

OwnedBySystem(d) == d.owner = "System" /\ d.dacl = "System" /\ d.label = "System"

\* A directory whose attributes cannot be read is not taken for a reparse point,
\* and one of a file system without security is used as it is.
ArchiveUsable(d) ==
    \/ d.kind = "absent"
    \/ /\ d.kind = "directory" /\ ~(d.attributesRead /\ d.reparse)
       /\ \/ d.security = "unsupported"
          \/ d.security = "read" /\ OwnedBySystem(d)

\* Opening a usable directory, which is created when it is absent, can fail.
OpensDirectory(d, opens) == ArchiveUsable(d) /\ opens
DirectoryOpens == {OpensDirectory(d, opens) : d \in Directories, opens \in BOOLEAN}

\* The reasons of the configuration to keep a sample.
Reasons == {"executable", "extension", "process", "user"}
Preserves(reasons) == reasons \cap Reasons # {}

\* A sample is named by one of the hashes of the original: by one that the
\* configuration asks for, in this order, or else by any that there is.
Preference == <<"SHA1", "MD5", "SHA256", "IMPHASH">>
HashNames == {Preference[i] : i \in DOMAIN Preference}
ArchiveName(hashes, asked) ==
    LET from == IF hashes \cap asked # {} THEN hashes \cap asked ELSE hashes
        ordered == SelectSeq(Preference, LAMBDA h : h \in from)
    IN  IF ordered = <<>> THEN "none" ELSE Head(ordered)

Removes(o, how) ==
    /\ removed' = [removed EXCEPT ![o] = how]
    /\ place' = [place EXCEPT ![FileOf[o]] = IF how = "archived" THEN "archive" ELSE "nowhere"]
    /\ Continues(o, "report")
GoesOn(o, s) == Continues(o, s) /\ UNCHANGED <<removed, place>>
unchangedReports == UNCHANGED <<published, blockReports>>

RenameToArchive(o, usable, name, succeeds) ==
    /\ step[o] = "rename"
    /\ IF ~usable \/ name = "none" THEN GoesOn(o, "delete")
       ELSE IF succeeds THEN Removes(o, "archived")
       ELSE GoesOn(o, "capture")
    /\ unchangedReports /\ UNCHANGED <<content, archived>> /\ unchangedOpen

\* Size, times and attributes of the source, which every write changes.
CaptureIdentity(o, succeeds) ==
    /\ step[o] = "capture"
    /\ Goes(o, IF succeeds THEN "create" ELSE "delete")
    /\ identity' = [identity EXCEPT ![o] = IF succeeds THEN Content(o).version ELSE @]
    /\ UNCHANGED <<context, event, copied, confirmed>>
    /\ unchangedDone /\ unchangedOpen /\ unchangedFiles

\* The file in the archive is created, or emptied when another copy is there.
CreateArchive(o, succeeds) ==
    /\ step[o] = "create"
    /\ Continues(o, IF succeeds THEN "copy" ELSE "delete")
    /\ archived' = [archived EXCEPT ![FileOf[o]] = IF succeeds THEN NoCopy ELSE @]
    /\ UNCHANGED <<content, place>> /\ unchangedDone /\ unchangedOpen

CopyChunk(o, succeeds) ==
    /\ step[o] = "copy"
    /\ LET i == Len(copied[o]) + 1 IN
       IF succeeds
       THEN /\ copied' = [copied EXCEPT ![o] = Append(@, Content(o).version)]
            /\ archived' = [archived EXCEPT ![FileOf[o]][i] = Content(o).version]
            /\ Goes(o, IF i = CopyChunks THEN "compare" ELSE "copy")
            /\ UNCHANGED <<context, event, identity, confirmed>>
       ELSE Continues(o, "delete") /\ UNCHANGED archived
    /\ UNCHANGED <<content, place>> /\ unchangedDone /\ unchangedOpen

SameIdentity(o) == Content(o).version = identity[o]

\* A source that changed costs the copy its place, and the file is not deleted.
CompareIdentity(o, succeeds) ==
    /\ step[o] = "compare"
    /\ IF succeeds /\ ~SameIdentity(o)
       THEN /\ archived' = [archived EXCEPT ![FileOf[o]] = NoCopy]
            /\ FailsWith(o, context[o])
       ELSE /\ Continues(o, IF succeeds THEN "deleteCopied" ELSE "delete")
            /\ UNCHANGED archived
    /\ UNCHANGED <<content, place>> /\ unchangedDone /\ unchangedOpen

DeleteCopied(o, succeeds) ==
    /\ step[o] = "deleteCopied"
    /\ IF succeeds THEN Removes(o, "copied") ELSE GoesOn(o, "delete")
    /\ unchangedReports /\ UNCHANGED <<content, archived>> /\ unchangedOpen

DeleteOriginal(o, succeeds) ==
    /\ step[o] = "delete"
    /\ IF succeeds THEN Removes(o, "deleted")
       ELSE FailsWith(o, context[o]) /\ UNCHANGED <<removed, place>>
    /\ unchangedReports /\ UNCHANGED <<content, archived>> /\ unchangedOpen

\* The prepared event, or one that is built now.
ReportsAs(o, id, builds) ==
    /\ IF event[o] \/ builds
       THEN /\ published' = [published EXCEPT ![o] = <<id>>]
            /\ blockReports' = [blockReports EXCEPT ![o] = @ + 1]
            /\ EndsWith(o, context[o] \cup {"reported"}, TRUE)
       ELSE FailsWith(o, context[o]) /\ UNCHANGED <<published, blockReports>>
    /\ UNCHANGED removed /\ unchangedOpen /\ unchangedFiles

ReportBlocked(o, builds) == step[o] = "report" /\ ReportsAs(o, 27, builds)
ReportDetected(o, builds) == step[o] = "detected" /\ ReportsAs(o, 29, builds)

FinalizeStep(o) ==
    \/ PreCleanup(o) \/ PreClose(o)
    \/ \E passive, readable, byPath \in BOOLEAN : Finalize(o, passive, readable, byPath)
    \/ \E yes \in BOOLEAN, preserve \in {Preserves(r) : r \in SUBSET Reasons} :
          Revalidate(o, yes, preserve)
    \/ \E usable \in DirectoryOpens,
          name \in {ArchiveName(h, a) : h \in {{}, {"MD5", "SHA256"}}, a \in SUBSET HashNames},
          yes \in BOOLEAN : RenameToArchive(o, usable, name, yes)
    \/ \E yes \in BOOLEAN :
          \/ EvaluateRules(o, yes) \/ CaptureIdentity(o, yes) \/ CreateArchive(o, yes)
          \/ CopyChunk(o, yes)
          \/ CompareIdentity(o, yes) \/ DeleteCopied(o, yes) \/ DeleteOriginal(o, yes)
          \/ ReportBlocked(o, yes) \/ ReportDetected(o, yes)

\* INIT, STOP, a reload of the configuration or a shutdown in between.
Switch ==
    /\ mode' \in {"stopped", "quiet", "watching"} \ {mode}
    /\ UNCHANGED <<stage, step, wanted, context, write, published>>
    /\ unchangedFiles /\ unchangedAction

FileNext ==
    \/ Switch
    \/ \E f \in BlockFiles, pe \in BOOLEAN : OthersWrite(f, pe)
    \/ \E o \in FileObjects :
          \/ \E user \in BOOLEAN :
                \/ \E r \in Requests : PreCreate(o, user, r)
                \/ PreWrite(o, user)
                \/ \E class \in {"time", "delete", "posixDelete", "other"} :
                      PreSetInfo(o, user, class)
          \/ CreateFails(o) \/ WriteFails(o) \/ PostWriteMarks(o)
          \/ \E yes \in BOOLEAN : WriteHappens(o, yes) \/ PostWriteReadsHeader(o, yes)
          \/ \E yes, passive \in BOOLEAN :
                PostCreate(o, yes, passive) \/ PostSetInfo(o, yes, passive)
          \/ FinalizeStep(o)

FileSpec == FileInit /\ [][FileNext]_fileVars

-----------------------------------------------------------------------------
\* Two objects that copy the same file write to the same file of the archive.
SharedArchive(o) == \E p \in FileObjects \ {o} : FileOf[p] = FileOf[o]

\* What docs/configuration.md promises of blocking, with other file objects
\* writing in between: the filter acts on a file only after it has found the
\* executable in the file itself; a file that it deletes because a copy was made
\* had not changed while it was copied, and the copy is whole; Event 27 says that
\* the file was removed; and an object is reported once, as blocked or detected.
BlockingIsSound ==
    \A o \in FileObjects :
        /\ step[o] \in {"rename", "capture", "create", "copy", "compare", "deleteCopied",
                        "delete", "report"} => confirmed[o]
        /\ removed[o] = "copied" /\ step[o] = "report" =>
                /\ \A i \in 1 .. CopyChunks : copied[o][i] = identity[o]
                /\ archived[FileOf[o]] = copied[o] \/ SharedArchive(o)
        /\ published[o] = <<27>> => removed[o] # "no"
        /\ blockReports[o] <= 1
=============================================================================
