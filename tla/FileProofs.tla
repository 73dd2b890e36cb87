------------------------------- MODULE FileProofs -------------------------------
(***************************************************************************)
(* What the minifilter promises of blocking, and what the cache of file    *)
(* information holds, for any file objects, files, collectors and bounds.  *)
(*                                                                         *)
(* BlockingIsSound says what is so when a file was removed; the invariant  *)
(* BlockInv follows a copy from the capture of the source's identity to    *)
(* its comparison: each chunk read so far is of a version between the one  *)
(* captured and the present one, so that equal ends mean equal chunks.     *)
(*                                                                         *)
(* FileInfoIsSound speaks of the answers; InfoInv says what each collector *)
(* has read so far and what each entry of the cache holds (CallFits,       *)
(* EntryFits), and that a path has one entry (OnePerPath).                 *)
(***************************************************************************)
EXTENDS FileBlock, FileInformation, SequenceLemmas

-----------------------------------------------------------------------------
(* Blocking.                                                               *)
Acting == {"rename", "capture", "create", "copy", "compare", "deleteCopied",
           "delete", "report"}
FinalizeSteps == Acting \cup {"idle", "setInfo", "detect", "rules", "revalidate", "detected"}
Stages == {"none", "creating", "open", "cleanup", "cleaned", "close", "closed"}

\* The types of what the proof speaks of.
BlockTypes ==
    /\ content \in [BlockFiles -> [pe : BOOLEAN, version : Nat]]
    /\ archived \in [BlockFiles -> [1 .. CopyChunks -> Nat]]
    /\ stage \in [FileObjects -> Stages]
    /\ step \in [FileObjects -> FinalizeSteps]
    /\ context = [o \in FileObjects |-> context[o]]
    /\ identity \in [FileObjects -> Nat]
    /\ copied \in [FileObjects -> Seq(Nat)]
    /\ confirmed = [o \in FileObjects |-> confirmed[o]]
    /\ removed \in [FileObjects -> {"no", "archived", "copied", "deleted"}]
    /\ published = [o \in FileObjects |-> published[o]]
    /\ blockReports \in [FileObjects -> {0, 1}]

\* A callback's steps are taken at its stage of the object's life.
StepFits(o) ==
    /\ step[o] = "setInfo" => stage[o] = "open"
    /\ step[o] \notin {"idle", "setInfo"} => stage[o] \in {"cleanup", "close"}

\* The filter acts on what it found to be an executable.
ActsOnConfirmed(o) == step[o] \in Acting => confirmed[o]

\* The chunks that the archive holds when copied[o] was read.
CopyOf(o) == [i \in 1 .. CopyChunks |-> IF i <= Len(copied[o]) THEN copied[o][i] ELSE 0]

\* A copy under way: how long it is, and of which versions its chunks are.
CopyFits(o) ==
    /\ step[o] \notin {"copy", "compare", "deleteCopied", "delete", "report"} => copied[o] = <<>>
    /\ step[o] = "copy" => Len(copied[o]) < CopyChunks
    /\ step[o] = "compare" => Len(copied[o]) = CopyChunks
    /\ step[o] \in {"create", "copy", "compare"} =>
          /\ identity[o] <= Content(o).version
          /\ \A i \in 1 .. Len(copied[o]) :
                identity[o] <= copied[o][i] /\ copied[o][i] <= Content(o).version
    /\ step[o] \in {"copy", "compare"} => SharedArchive(o) \/ archived[FileOf[o]] = CopyOf(o)

\* A copy that was found to be of one version, and is in the archive.
CopyIsWhole(o) ==
    /\ \A i \in 1 .. CopyChunks : copied[o][i] = identity[o]
    /\ archived[FileOf[o]] = copied[o] \/ SharedArchive(o)

CopyStaysWhole(o) ==
    step[o] = "deleteCopied" \/ (step[o] = "report" /\ removed[o] = "copied") => CopyIsWhole(o)

\* Event 27 follows the removal, and either report is the last thing done.
ReportsRemoval(o) ==
    /\ step[o] = "report" => removed[o] # "no"
    /\ published[o] = << 27 >> => removed[o] # "no"
ReportIsLast(o) ==
    blockReports[o] = 1 =>
        context[o] = {} /\ step[o] = "idle" /\ stage[o] \in {"cleaned", "closed"}

ObjectInv(o) ==
    /\ StepFits(o) /\ ActsOnConfirmed(o) /\ CopyFits(o) /\ CopyStaysWhole(o)
    /\ ReportsRemoval(o) /\ ReportIsLast(o)

BlockInv == BlockTypes /\ \A o \in FileObjects : ObjectInv(o)

\* A step leaves the copy of an object alone when it changes nothing that belongs to
\* it, the file only grows in version, and the archive's file changes only if it is
\* shared; and the object, when its life and its reports are the same, too.
CopyAlone(o) ==
    /\ step'[o] = step[o] /\ identity'[o] = identity[o] /\ copied'[o] = copied[o]
    /\ confirmed'[o] = confirmed[o] /\ removed'[o] = removed[o]
    /\ Content(o).version <= content'[FileOf[o]].version
    /\ SharedArchive(o) \/ archived'[FileOf[o]] = archived[FileOf[o]]
Unaffected(o) ==
    /\ CopyAlone(o)
    /\ stage'[o] = stage[o] /\ context'[o] = context[o]
    /\ published'[o] = published[o] /\ blockReports'[o] = blockReports[o]

\* What a copy left alone has, it keeps.
LEMMA CopyKept ==
    ASSUME BlockTypes, BlockTypes', NEW o \in FileObjects, ObjectInv(o), CopyAlone(o)
    PROVE  /\ ActsOnConfirmed(o)' /\ CopyFits(o)' /\ CopyStaysWhole(o)'
           /\ step'[o] = "report" => removed'[o] # "no"
<1>1. FileOf[o] \in BlockFiles
  BY DEF BlockFiles
<1>2. Content(o).version \in Nat /\ Content(o).version' \in Nat
  BY <1>1 DEF BlockTypes, Content
<1>3. identity[o] \in Nat /\ copied[o] \in Seq(Nat)
  BY DEF BlockTypes
<1>4. \A i \in 1 .. Len(copied[o]) : copied[o][i] \in Nat
  BY <1>3
<1>5. (CopyOf(o))' = CopyOf(o)
  BY DEF CopyOf, CopyAlone
<1>6. CopyFits(o)'
  BY <1>2, <1>3, <1>4, <1>5 DEF ObjectInv, CopyFits, CopyAlone, Content, SharedArchive
<1>7. CopyStaysWhole(o)'
  BY DEF ObjectInv, CopyStaysWhole, CopyIsWhole, CopyAlone, SharedArchive
<1> QED
  BY <1>6, <1>7 DEF ObjectInv, CopyAlone, ActsOnConfirmed, ReportsRemoval

\* And so is all of an object left alone.
LEMMA UnaffectedKeeps ==
    ASSUME BlockTypes, BlockTypes', NEW o \in FileObjects, ObjectInv(o), Unaffected(o)
    PROVE  ObjectInv(o)'
<1>1. /\ ActsOnConfirmed(o)' /\ CopyFits(o)' /\ CopyStaysWhole(o)'
      /\ step'[o] = "report" => removed'[o] # "no"
  BY CopyKept DEF Unaffected
<1> QED
  BY <1>1 DEF ObjectInv, Unaffected, CopyAlone, StepFits, ReportsRemoval, ReportIsLast

\* The events of an operation never are the report of a blocked file.
LEMMA OrderedEvents == \A events : InOrder(events) # << 27 >>
<1> SUFFICES ASSUME NEW events PROVE InOrder(events) # << 27 >>
  OBVIOUS
<1> DEFINE S == Nat \ {27}
           Only(id) == IF id \in events THEN <<id>> ELSE <<>>
<1>1. \A s, t \in Seq(S) : s \o t \in Seq(S)
  BY ConcatProperties
<1>2. ASSUME NEW id \in S PROVE Only(id) \in Seq(S)
  <2>1. <<id>> \in Seq(S) /\ <<>> \in Seq(S)
    OBVIOUS
  <2> QED
    BY <2>1
<1>3. {17, 9, 15, 11, 2, 26, 23, 28} \subseteq S
  OBVIOUS
<1>4. InOrder(events) = Only(17) \o Only(9) \o Only(15) \o Only(11) \o Only(2) \o Only(26)
                         \o Only(23) \o Only(28)
  BY DEF InOrder
<1>5. Only(17) \in Seq(S) /\ Only(9) \in Seq(S) /\ Only(15) \in Seq(S) /\ Only(11) \in Seq(S)
      /\ Only(2) \in Seq(S) /\ Only(26) \in Seq(S) /\ Only(23) \in Seq(S) /\ Only(28) \in Seq(S)
  BY <1>2, <1>3
<1> HIDE DEF Only
<1>6. InOrder(events) \in Seq(S)
  BY <1>1, <1>4, <1>5
<1>7. << 27 >> \notin Seq(S)
  <2>1. << 27 >> \in Seq(S) => << 27 >>[1] \in S
    OBVIOUS
  <2> QED
    BY <2>1
<1> QED
  BY <1>6, <1>7

\* At the start nothing was copied, removed or reported.
LEMMA BlockInitially == FileInit => BlockInv
<1> SUFFICES ASSUME FileInit PROVE BlockInv
  OBVIOUS
<1>1. BlockTypes
  BY FileBlockAssumption DEF FileInit, BlockTypes, FinalizeSteps, Stages, NoCopy
<1>2. ASSUME NEW o \in FileObjects PROVE ObjectInv(o)
  BY DEF FileInit, ObjectInv, ActsOnConfirmed, CopyFits, CopyStaysWhole, StepFits,
     ReportsRemoval, ReportIsLast, Acting
<1> QED
  BY <1>1, <1>2 DEF BlockInv

\* The steps of one object: that object's part, and that the others are left alone.
Leaves(o) == \A p \in FileObjects \ {o} : Unaffected(p)
LEMMA OneObject ==
    ASSUME BlockInv, NEW o \in FileObjects, BlockTypes', ObjectInv(o)', Leaves(o)
    PROVE  BlockInv'
  BY UnaffectedKeeps DEF BlockInv, Leaves

\* A step that changes neither the files nor the object's copy leaves that alone.
LEMMA SameCopy ==
    ASSUME BlockTypes, NEW o \in FileObjects, unchangedFiles,
           step'[o] = step[o], identity'[o] = identity[o], copied'[o] = copied[o],
           confirmed'[o] = confirmed[o], removed'[o] = removed[o]
    PROVE  CopyAlone(o)
<1>1. Content(o).version \in Nat
  BY DEF BlockTypes, BlockFiles, Content
<1> QED
  BY <1>1 DEF CopyAlone, Content, unchangedFiles

\* A step that changes neither the files nor what belongs to other objects leaves
\* the others alone.
LEMMA OthersAlone ==
    ASSUME BlockTypes, NEW o \in FileObjects, unchangedFiles,
           \A p \in FileObjects \ {o} :
              /\ stage'[p] = stage[p] /\ step'[p] = step[p] /\ context'[p] = context[p]
              /\ identity'[p] = identity[p] /\ copied'[p] = copied[p]
              /\ confirmed'[p] = confirmed[p] /\ removed'[p] = removed[p]
              /\ published'[p] = published[p] /\ blockReports'[p] = blockReports[p]
    PROVE  Leaves(o)
<1> SUFFICES ASSUME NEW p \in FileObjects \ {o} PROVE Unaffected(p)
  BY DEF Leaves
<1>1. Content(p).version \in Nat
  BY DEF BlockTypes, BlockFiles, Content
<1> QED
  BY <1>1 DEF Unaffected, CopyAlone, Content, unchangedFiles

\* Opening, which removes and reports nothing.
LEMMA OpeningKeeps ==
    ASSUME BlockInv, NEW o \in FileObjects,
           \/ \E user, r : PreCreate(o, user, r)
           \/ CreateFails(o)
           \/ \E created, passive \in BOOLEAN : PostCreate(o, created, passive)
    PROVE  BlockInv'
<1> USE DEF BlockInv, BlockTypes
<1>1. stage[o] \in {"none", "creating"}
  BY DEF PreCreate, CreateFails, PostCreate
<1>2. PICK s, c, e :
        /\ s \in Stages
        /\ stage' = [stage EXCEPT ![o] = s]
        /\ context' = [context EXCEPT ![o] = c]
        /\ published' = [published EXCEPT ![o] = e]
        /\ e = published[o] \/ e # << 27 >>
  <2>1. ASSUME NEW user, NEW r, PreCreate(o, user, r)
        PROVE  /\ stage' = [stage EXCEPT ![o] = "creating"]
               /\ context' = [context EXCEPT ![o] = context[o]]
               /\ published' = [published EXCEPT ![o] = published[o]]
    BY <2>1 DEF PreCreate
  <2>2. ASSUME CreateFails(o)
        PROVE  /\ stage' = [stage EXCEPT ![o] = "closed"]
               /\ context' = [context EXCEPT ![o] = context[o]]
               /\ published' = [published EXCEPT ![o] = published[o]]
    BY <2>2 DEF CreateFails
  <2>3. ASSUME NEW created, NEW passive, PostCreate(o, created, passive)
        PROVE  \E s, c, e :
                  /\ s \in Stages
                  /\ stage' = [stage EXCEPT ![o] = s]
                  /\ context' = [context EXCEPT ![o] = c]
                  /\ published' = [published EXCEPT ![o] = e]
                  /\ e # << 27 >>
    <3>1. PICK e : published' = [published EXCEPT ![o] = e] /\ e # << 27 >>
      <4>1. PICK built :
              published' = [published EXCEPT ![o] =
                 IF Watching THEN InOrder(IF created THEN built ELSE built \ {15, 11}) ELSE <<>>]
        BY <2>3 DEF PostCreate
      <4>2. <<>> # << 27 >>
        OBVIOUS
      <4>3. CASE Watching
        BY <4>1, <4>3, OrderedEvents
      <4>4. CASE ~Watching
        BY <4>1, <4>2, <4>4
      <4> QED
        BY <4>3, <4>4
    <3>2. PICK s \in Stages : stage' = [stage EXCEPT ![o] = s]
      BY <2>3 DEF PostCreate, Stages
    <3>3. PICK c : context' = [context EXCEPT ![o] = c]
      BY <2>3 DEF PostCreate
    <3> QED
      BY <3>1, <3>2, <3>3
  <2> QED
    BY <2>1, <2>2, <2>3 DEF Stages
<1>3. /\ unchangedFiles /\ unchangedAction /\ UNCHANGED step
  BY DEF PreCreate, CreateFails, PostCreate
<1>4. BlockTypes'
  BY <1>2, <1>3 DEF unchangedFiles, unchangedAction
<1>5. Leaves(o)
  BY OthersAlone, <1>2, <1>3 DEF unchangedAction
<1>6. ObjectInv(o)'
  <2>1. CopyAlone(o)
    BY <1>3, SameCopy DEF unchangedAction
  <2>2. StepFits(o)' /\ ReportsRemoval(o)' /\ ReportIsLast(o)'
    BY <1>1, <1>2, <1>3, <1>4 DEF unchangedAction, ObjectInv, StepFits, ReportsRemoval, ReportIsLast
  <2> QED
    BY <1>4, <2>1, <2>2, CopyKept DEF ObjectInv
<1> QED
  BY <1>4, <1>5, <1>6, OneObject

\* What writes change of an object, when its life, its steps, its copy and its reports
\* stay: flags of a context that is there.
LEMMA FlagsKeep ==
    ASSUME BlockInv, NEW o \in FileObjects, NEW flags,
           context' = [context EXCEPT ![o] = flags], context[o] = {} => flags = {},
           unchangedFiles, unchangedAction, UNCHANGED <<stage, step, published>>
    PROVE  BlockInv'
<1> USE DEF BlockInv
<1>1. BlockTypes'
  BY DEF BlockTypes, unchangedFiles, unchangedAction
<1>2. Leaves(o)
  BY OthersAlone DEF BlockTypes, unchangedAction
<1>3. CopyAlone(o)
  BY SameCopy DEF unchangedAction
<1>4. StepFits(o)' /\ ReportsRemoval(o)' /\ ReportIsLast(o)'
  BY DEF BlockTypes, unchangedAction, ObjectInv, StepFits, ReportsRemoval, ReportIsLast
<1>5. ObjectInv(o)'
  BY <1>1, <1>3, <1>4, CopyKept DEF ObjectInv
<1> QED
  BY <1>1, <1>2, <1>5, OneObject

\* A write that happens makes the version of its file grow, and nothing else.
LEMMA GrowthKeeps ==
    ASSUME BlockInv, NEW f \in BlockFiles, NEW pe \in BOOLEAN,
           content' = [content EXCEPT ![f] = [pe |-> pe, version |-> @.version + 1]],
           unchangedAction, UNCHANGED <<archived, stage, step, context, published>>
    PROVE  BlockInv'
<1> USE DEF BlockInv
<1>0. [pe |-> pe, version |-> content[f].version + 1] \in [pe : BOOLEAN, version : Nat]
  BY DEF BlockTypes
<1>1. BlockTypes'
  BY <1>0 DEF BlockTypes, unchangedAction
<1>2. ASSUME NEW o \in FileObjects PROVE Unaffected(o)
  <2>1. FileOf[o] \in BlockFiles /\ Content(o).version \in Nat
    BY DEF BlockTypes, BlockFiles, Content
  <2>2. Content(o).version <= content'[FileOf[o]].version
    BY <2>1 DEF BlockTypes, Content
  <2> QED
    BY <2>2 DEF Unaffected, CopyAlone, unchangedAction
<1> QED
  BY <1>1, <1>2, UnaffectedKeeps

\* Writing, by an object or by others.
LEMMA WritingKeeps ==
    ASSUME BlockInv, NEW o \in FileObjects,
           \/ \E user : PreWrite(o, user)
           \/ \E pe \in BOOLEAN : WriteHappens(o, pe)
           \/ WriteFails(o) \/ PostWriteMarks(o)
           \/ \E readable : PostWriteReadsHeader(o, readable)
    PROVE  BlockInv'
<1>0. context = [context EXCEPT ![o] = context[o]]
  BY DEF BlockInv, BlockTypes
<1>1. ASSUME NEW user, PreWrite(o, user) PROVE BlockInv'
  <2>1. context' = [context EXCEPT ![o] = context[o]]
    BY <1>0, <1>1 DEF PreWrite
  <2> QED
    BY <1>1, <2>1, FlagsKeep DEF PreWrite
<1>2. ASSUME NEW pe \in BOOLEAN, WriteHappens(o, pe) PROVE BlockInv'
  BY <1>2, GrowthKeeps DEF WriteHappens, BlockFiles
<1>3. ASSUME WriteFails(o) PROVE BlockInv'
  <2>1. context' = [context EXCEPT ![o] = context[o]]
    BY <1>0, <1>3 DEF WriteFails
  <2> QED
    BY <1>3, <2>1, FlagsKeep DEF WriteFails
<1>4. ASSUME PostWriteMarks(o) PROVE BlockInv'
  <2>1. PICK flags : context' = [context EXCEPT ![o] = flags] /\ (context[o] = {} => flags = {})
    BY <1>0, <1>4 DEF PostWriteMarks
  <2> QED
    BY <1>4, <2>1, FlagsKeep DEF PostWriteMarks
<1>5. ASSUME NEW readable, PostWriteReadsHeader(o, readable) PROVE BlockInv'
  <2>1. PICK flags : context' = [context EXCEPT ![o] = flags] /\ (context[o] = {} => flags = {})
    BY <1>0, <1>5 DEF PostWriteReadsHeader
  <2> QED
    BY <1>5, <2>1, FlagsKeep DEF PostWriteReadsHeader
<1> QED
  BY <1>1, <1>2, <1>3, <1>4, <1>5

\* Switching the filter on and off.
LEMMA SwitchKeeps ==
    ASSUME BlockInv, Switch
    PROVE  BlockInv'
<1> USE DEF BlockInv, Switch
<1>1. BlockTypes'
  BY DEF BlockTypes, unchangedFiles, unchangedAction
<1>2. ASSUME NEW o \in FileObjects PROVE Unaffected(o)
  BY SameCopy DEF Unaffected, unchangedAction
<1> QED
  BY <1>1, <1>2, UnaffectedKeeps

\* Changes of a file's information.
LEMMA SetInfoKeeps ==
    ASSUME BlockInv, NEW o \in FileObjects,
           \/ \E user, class : PreSetInfo(o, user, class)
           \/ \E succeeds, passive \in BOOLEAN : PostSetInfo(o, succeeds, passive)
    PROVE  BlockInv'
<1> USE DEF BlockInv, BlockTypes
<1>1. \/ stage[o] = "open" /\ step[o] = "idle"
      \/ step[o] = "setInfo"
  BY DEF PreSetInfo, PostSetInfo
<1>2. PICK s, e :
        /\ s \in {"idle", "setInfo"}
        /\ step' = [step EXCEPT ![o] = s]
        /\ published' = [published EXCEPT ![o] = e]
        /\ e # << 27 >>
  <2>1. ASSUME NEW user, NEW class, PreSetInfo(o, user, class)
        PROVE  /\ step' = [step EXCEPT ![o] = "setInfo"]
               /\ published' = [published EXCEPT ![o] = <<>>]
    BY <2>1 DEF PreSetInfo
  <2>2. ASSUME NEW succeeds, NEW passive, PostSetInfo(o, succeeds, passive)
        PROVE  \E e : /\ step' = [step EXCEPT ![o] = "idle"]
                      /\ published' = [published EXCEPT ![o] = e]
                      /\ e # << 27 >>
    BY <2>2, OrderedEvents DEF PostSetInfo
  <2>3. \A e : e = <<>> => e # << 27 >>
    OBVIOUS
  <2> QED
    BY <2>1, <2>2, <2>3
<1>3. /\ unchangedAction /\ UNCHANGED <<content, archived, stage, context>>
  BY DEF PreSetInfo, PostSetInfo, unchangedFiles
<1>4. BlockTypes'
  BY <1>2, <1>3 DEF unchangedAction, FinalizeSteps
<1>5. ASSUME NEW p \in FileObjects \ {o} PROVE Unaffected(p)
  <2>1. Content(p).version \in Nat
    BY DEF BlockFiles, Content
  <2> QED
    BY <1>2, <1>3, <2>1 DEF Unaffected, CopyAlone, unchangedAction, Content
<1>6. ObjectInv(o)'
  <2>1. ActsOnConfirmed(o)' /\ CopyFits(o)' /\ CopyStaysWhole(o)'
    BY <1>1, <1>2, <1>3 DEF unchangedAction, ObjectInv, ActsOnConfirmed, CopyFits, CopyStaysWhole,
       Acting
  <2>2. StepFits(o)' /\ ReportsRemoval(o)' /\ ReportIsLast(o)'
    BY <1>1, <1>2, <1>3, <1>4 DEF unchangedAction, ObjectInv, StepFits, ReportsRemoval, ReportIsLast
  <2> QED
    BY <2>1, <2>2 DEF ObjectInv
<1> QED
  BY <1>4, <1>5, <1>6, OneObject DEF Leaves

\* The end of a callback: nothing is copied any more, and a report is the last one.
LEMMA EndingKeeps ==
    ASSUME BlockInv, NEW o \in FileObjects, step[o] # "idle",
           NEW flags, NEW drop, EndsWith(o, flags, drop),
           UNCHANGED <<content, removed>>,
           archived' \in [BlockFiles -> [1 .. CopyChunks -> Nat]],
           \A p \in FileObjects \ {o} :
              SharedArchive(p) \/ archived'[FileOf[p]] = archived[FileOf[p]],
           NEW e, published' = [published EXCEPT ![o] = e],
           e = published[o] \/ e # << 27 >> \/ removed[o] # "no",
           NEW n \in {0, 1}, blockReports' = [blockReports EXCEPT ![o] = n],
           n = 1 => drop
    PROVE  BlockInv'
<1> USE DEF BlockInv, BlockTypes, EndsWith
<1>1. BlockTypes'
  <2>1. stage' \in [FileObjects -> Stages] /\ step' \in [FileObjects -> FinalizeSteps]
    BY DEF FinalizeSteps, Stages
  <2>2. /\ identity' \in [FileObjects -> Nat]
        /\ context' = [a \in FileObjects |-> context'[a]]
    OBVIOUS
  <2>4. copied' \in [FileObjects -> Seq(Nat)]
    <3>1. <<>> \in Seq(Nat)
      OBVIOUS
    <3> QED
      BY <3>1
  <2>5. confirmed' = [a \in FileObjects |-> confirmed'[a]]
    OBVIOUS
  <2>3. /\ published' = [a \in FileObjects |-> published'[a]]
        /\ blockReports' \in [FileObjects -> {0, 1}]
    OBVIOUS
  <2> QED
    BY <2>1, <2>2, <2>3, <2>4, <2>5
<1>2. ASSUME NEW p \in FileObjects \ {o} PROVE Unaffected(p)
  <2>1. Content(p).version \in Nat
    BY DEF BlockFiles, Content
  <2> QED
    BY <2>1 DEF Unaffected, CopyAlone, Content
<1>3. /\ step'[o] = "idle" /\ copied'[o] = <<>>
      /\ stage'[o] \in {"cleaned", "closed"}
      /\ n = 1 => context'[o] = {}
      /\ published'[o] = e /\ blockReports'[o] = n /\ removed'[o] = removed[o]
  OBVIOUS
<1>4. published[o] = << 27 >> => removed[o] # "no"
  BY DEF ObjectInv, ReportsRemoval
<1>5. ObjectInv(o)'
  BY <1>3, <1>4 DEF ObjectInv, ActsOnConfirmed, CopyFits, CopyStaysWhole, StepFits,
     ReportsRemoval, ReportIsLast, Acting
<1> QED
  BY <1>1, <1>2, <1>5, OneObject DEF Leaves

\* The end without a report.
LEMMA QuietEndKeeps ==
    ASSUME BlockInv, NEW o \in FileObjects, step[o] # "idle",
           NEW flags, NEW drop, EndsWith(o, flags, drop),
           UNCHANGED <<content, removed, published, blockReports>>,
           archived' \in [BlockFiles -> [1 .. CopyChunks -> Nat]],
           \A p \in FileObjects \ {o} :
              SharedArchive(p) \/ archived'[FileOf[p]] = archived[FileOf[p]]
    PROVE  BlockInv'
<1>1. /\ published' = [published EXCEPT ![o] = published[o]]
      /\ blockReports' = [blockReports EXCEPT ![o] = 0]
  BY DEF BlockInv, BlockTypes, ObjectInv, ReportIsLast
<1>2. 0 \in {0, 1} /\ (0 = 1 => drop)
  OBVIOUS
<1> QED
  BY <1>1, <1>2, EndingKeeps

\* The end of a callback that leaves the files alone.
LEMMA EndKeeps ==
    ASSUME BlockInv, NEW o \in FileObjects, step[o] # "idle",
           NEW flags, NEW drop, EndsWith(o, flags, drop), unchangedFiles, unchangedDone
    PROVE  BlockInv'
  BY QuietEndKeeps DEF BlockInv, BlockTypes, unchangedFiles, unchangedDone

\* The way to a step: it is not over, and what the step requires is there.
LEMMA GoingKeeps ==
    ASSUME BlockInv, NEW o \in FileObjects, step[o] \notin {"idle", "setInfo"},
           NEW s \in FinalizeSteps \ {"idle", "setInfo"}, Goes(o, s), s # "report" \/ removed'[o] # "no",
           BlockTypes', ActsOnConfirmed(o)', CopyFits(o)', CopyStaysWhole(o)', Leaves(o),
           UNCHANGED <<published, blockReports>>, removed[o] = removed'[o] \/ removed'[o] # "no"
    PROVE  BlockInv'
<1>1. blockReports[o] = 0
  BY DEF BlockInv, BlockTypes, ObjectInv, ReportIsLast
<1>2. StepFits(o)' /\ ReportsRemoval(o)' /\ ReportIsLast(o)'
  BY <1>1 DEF BlockInv, BlockTypes, Goes, ObjectInv, StepFits, ReportsRemoval, ReportIsLast
<1> QED
  BY <1>2, OneObject DEF ObjectInv

\* The way to cleanup and to close.
LEMMA CleanupKeeps ==
    ASSUME BlockInv, NEW o \in FileObjects, PreCleanup(o) \/ PreClose(o)
    PROVE  BlockInv'
<1> USE DEF BlockInv, BlockTypes
<1>0. /\ stage[o] \in {"open", "cleaned"} /\ step[o] = "idle"
      /\ stage[o] = "cleaned" \/ blockReports[o] = 0
  BY DEF PreCleanup, PreClose, ObjectInv, StepFits, ReportIsLast
<1>1. PICK s \in Stages, t \in {"idle", "detect"} :
        /\ stage' = [stage EXCEPT ![o] = s] /\ step' = [step EXCEPT ![o] = t]
        /\ published' = [published EXCEPT ![o] = <<>>]
        /\ blockReports[o] = 1 => t = "idle" /\ s = "closed"
        /\ t = "detect" => s \in {"cleanup", "close"}
  <2>1. CASE PreCleanup(o)
    BY <1>0, <2>1 DEF PreCleanup, Stages
  <2>2. CASE PreClose(o)
    <3>1. blockReports[o] = 1 => context[o] = {}
      BY DEF ObjectInv, ReportIsLast
    <3> QED
      BY <1>0, <2>2, <3>1 DEF PreClose, Stages
  <2> QED
    BY <2>1, <2>2
<1>2. /\ unchangedFiles /\ unchangedAction /\ UNCHANGED context
  BY DEF PreCleanup, PreClose
<1>3. BlockTypes'
  BY <1>1, <1>2 DEF unchangedFiles, unchangedAction, FinalizeSteps
<1>4. Leaves(o)
  BY OthersAlone, <1>1, <1>2 DEF unchangedAction
<1>5. ObjectInv(o)'
  <2>1. ActsOnConfirmed(o)' /\ CopyFits(o)' /\ CopyStaysWhole(o)'
    BY <1>0, <1>1, <1>2 DEF unchangedAction, ObjectInv, ActsOnConfirmed, CopyFits, CopyStaysWhole,
       Acting
  <2>2. StepFits(o)' /\ ReportsRemoval(o)' /\ ReportIsLast(o)'
    BY <1>0, <1>1, <1>2, <1>3 DEF unchangedAction, ObjectInv, StepFits, ReportsRemoval,
       ReportIsLast
  <2> QED
    BY <2>1, <2>2 DEF ObjectInv
<1> QED
  BY <1>3, <1>4, <1>5, OneObject

\* Looking for an executable, and asking the rules.
LEMMA DetectingKeeps ==
    ASSUME BlockInv, NEW o \in FileObjects,
           \/ \E passive, readable, byPath : Finalize(o, passive, readable, byPath)
           \/ \E built : EvaluateRules(o, built)
           \/ \E readable \in BOOLEAN : \E preserve : Revalidate(o, readable, preserve)
    PROVE  BlockInv'
<1>0. /\ step[o] \in {"detect", "rules", "revalidate"}
      /\ unchangedDone /\ unchangedFiles
  BY DEF Finalize, EvaluateRules, Revalidate
<1>1. ASSUME NEW flags, NEW drop, EndsWith(o, flags, drop) PROVE BlockInv'
  BY <1>0, <1>1, EndKeeps
<1>2. ASSUME NEW s \in {"rules", "revalidate", "detected", "rename", "delete"}, Goes(o, s),
             UNCHANGED <<identity, copied>>,
             NEW flags, context' = [context EXCEPT ![o] = flags],
             NEW yes, confirmed' = [confirmed EXCEPT ![o] = yes],
             s \in {"rename", "delete"} => yes = TRUE
      PROVE  BlockInv'
  <2>1. BlockTypes'
    BY <1>0, <1>2 DEF BlockInv, BlockTypes, unchangedDone, unchangedFiles, Goes, FinalizeSteps,
       Acting
  <2>2. Leaves(o)
    BY <1>0, <1>2, OthersAlone DEF BlockInv, BlockTypes, unchangedDone, Goes
  <2>3. ActsOnConfirmed(o)' /\ CopyFits(o)' /\ CopyStaysWhole(o)'
    BY <1>0, <1>2 DEF BlockInv, BlockTypes, unchangedDone, Goes, ObjectInv, ActsOnConfirmed,
       CopyFits, CopyStaysWhole, Acting
  <2> QED
    BY <1>0, <1>2, <2>1, <2>2, <2>3, GoingKeeps DEF unchangedDone, FinalizeSteps, Acting
<1>3. ASSUME NEW passive, NEW readable, NEW byPath, Finalize(o, passive, readable, byPath)
      PROVE  BlockInv'
  <2>1. \/ \E flags, drop : EndsWith(o, flags, drop)
        \/ \E flags : /\ Goes(o, "rules") /\ context' = [context EXCEPT ![o] = flags]
                      /\ UNCHANGED <<event, identity, copied, confirmed>>
    BY <1>3, Zenon DEF Finalize, FailsWith
  <2>2. confirmed = [confirmed EXCEPT ![o] = confirmed[o]]
    BY DEF BlockInv, BlockTypes
  <2>3. CASE \E flags, drop : EndsWith(o, flags, drop)
    BY <1>1, <2>3
  <2>4. ASSUME NEW flags, Goes(o, "rules"), context' = [context EXCEPT ![o] = flags],
               UNCHANGED <<event, identity, copied, confirmed>>
        PROVE  BlockInv'
    BY <1>2, <2>2, <2>4
  <2> QED
    BY <2>1, <2>3, <2>4
<1>4. ASSUME NEW built, EvaluateRules(o, built) PROVE BlockInv'
  <2>1. confirmed = [confirmed EXCEPT ![o] = confirmed[o]]
        /\ context = [context EXCEPT ![o] = context[o]]
    BY DEF BlockInv, BlockTypes
  <2>2. CASE EndsWith(o, {}, TRUE)
    BY <1>1, <2>2
  <2>3. ASSUME NEW s \in {"revalidate", "detected"}, Goes(o, s),
               UNCHANGED <<context, identity, copied, confirmed>>
        PROVE  BlockInv'
    BY <1>2, <2>1, <2>3
  <2> QED
    BY <1>4, <2>2, <2>3 DEF EvaluateRules
<1>5. ASSUME NEW readable \in BOOLEAN, NEW preserve, Revalidate(o, readable, preserve)
      PROVE  BlockInv'
  <2> DEFINE to == IF preserve THEN "rename" ELSE "delete"
             flags == IF readable THEN Header(o, context[o] \ {"pe"}) ELSE context[o]
  <2>1. to \in {"rename", "delete"}
    OBVIOUS
  <2>2. IF StillExecutable(o, readable)
        THEN /\ Goes(o, to) /\ context' = [context EXCEPT ![o] = flags]
             /\ confirmed' = [confirmed EXCEPT ![o] = readable /\ Content(o).pe]
             /\ UNCHANGED <<event, identity, copied>>
        ELSE FailsWith(o, flags)
    BY <1>5, Zenon DEF Revalidate
  <2> HIDE DEF to, flags
  <2>3. CASE StillExecutable(o, readable)
    <3>1. (readable /\ Content(o).pe) = TRUE
      BY <2>3, Zenon DEF StillExecutable
    <3>2. /\ Goes(o, to) /\ context' = [context EXCEPT ![o] = flags]
          /\ confirmed' = [confirmed EXCEPT ![o] = readable /\ Content(o).pe]
          /\ UNCHANGED <<event, identity, copied>>
      BY <2>2, <2>3, Zenon
    <3>3. confirmed' = [confirmed EXCEPT ![o] = TRUE]
      BY <3>1, <3>2, Zenon
    <3> QED
      BY <1>2, <2>1, <3>2, <3>3
  <2>4. CASE ~StillExecutable(o, readable)
    <3>1. FailsWith(o, flags)
      BY <2>2, <2>4, Zenon
    <3> QED
      BY <1>1, <3>1 DEF FailsWith
  <2> QED
    BY <2>3, <2>4
<1> QED
  BY <1>3, <1>4, <1>5

\* The way on through the archive, when nothing is read, written or removed.
LEMMA ContinuingKeeps ==
    ASSUME BlockInv, NEW o \in FileObjects, step[o] \in Acting \ {"report"},
           NEW s \in {"capture", "deleteCopied", "delete"}, Continues(o, s),
           UNCHANGED <<content, archived, removed, published, blockReports>>,
           s = "capture" => step[o] = "rename", s = "deleteCopied" => CopyIsWhole(o)
    PROVE  BlockInv'
<1> USE DEF Continues, Goes
<1>1. BlockTypes'
  BY DEF BlockInv, BlockTypes, FinalizeSteps, Acting
<1>2. Leaves(o)
  <2>1. ASSUME NEW p \in FileObjects PROVE Content(p).version \in Nat
    BY DEF BlockInv, BlockTypes, BlockFiles, Content
  <2> QED
    BY <2>1 DEF BlockInv, BlockTypes, Leaves, Unaffected, CopyAlone, Content
<1>3. ActsOnConfirmed(o)' /\ CopyFits(o)'
  BY DEF BlockInv, BlockTypes, ObjectInv, ActsOnConfirmed, CopyFits, Acting
<1>4. CopyStaysWhole(o)'
  BY DEF BlockInv, BlockTypes, CopyStaysWhole, CopyIsWhole, SharedArchive
<1> QED
  BY <1>1, <1>2, <1>3, <1>4, GoingKeeps DEF FinalizeSteps, Acting

\* The removal of the file: as a copied one only after the copy was found whole.
LEMMA RemovingKeeps ==
    ASSUME BlockInv, NEW o \in FileObjects, step[o] \in {"rename", "deleteCopied", "delete"},
           NEW how \in {"archived", "copied", "deleted"}, Removes(o, how),
           UNCHANGED <<content, archived, published, blockReports>>,
           how = "copied" => step[o] = "deleteCopied"
    PROVE  BlockInv'
<1> USE DEF Removes, Continues, Goes
<1>1. BlockTypes'
  BY DEF BlockInv, BlockTypes, FinalizeSteps, Acting
<1>2. Leaves(o)
  <2>1. ASSUME NEW p \in FileObjects PROVE Content(p).version \in Nat
    BY DEF BlockInv, BlockTypes, BlockFiles, Content
  <2> QED
    BY <2>1 DEF BlockInv, BlockTypes, Leaves, Unaffected, CopyAlone, Content
<1>3. ActsOnConfirmed(o)' /\ CopyFits(o)'
  BY DEF BlockInv, BlockTypes, ObjectInv, ActsOnConfirmed, CopyFits, Acting
<1>4. removed'[o] = how
  BY DEF BlockInv, BlockTypes
<1>5. CopyStaysWhole(o)'
  BY <1>4 DEF BlockInv, BlockTypes, ObjectInv, CopyStaysWhole, CopyIsWhole, SharedArchive
<1> QED
  BY <1>1, <1>2, <1>3, <1>4, <1>5, GoingKeeps DEF FinalizeSteps, Acting

\* A file that is not deleted at last is left to the next attempt.
LEMMA RenamingDeletingKeep ==
    ASSUME BlockInv, NEW o \in FileObjects,
           \/ \E usable, name, succeeds : RenameToArchive(o, usable, name, succeeds)
           \/ \E succeeds : DeleteCopied(o, succeeds)
           \/ \E succeeds : DeleteOriginal(o, succeeds)
    PROVE  BlockInv'
<1>1. /\ step[o] \in {"rename", "deleteCopied", "delete"}
      /\ UNCHANGED <<content, archived, published, blockReports>>
  BY DEF RenameToArchive, DeleteCopied, DeleteOriginal, unchangedReports
<1>2. \/ Removes(o, "archived") \/ Removes(o, "deleted")
      \/ Removes(o, "copied") /\ step[o] = "deleteCopied"
      \/ GoesOn(o, "delete")
      \/ GoesOn(o, "capture") /\ step[o] = "rename"
      \/ FailsWith(o, context[o]) /\ UNCHANGED <<removed, place>>
  BY DEF RenameToArchive, DeleteCopied, DeleteOriginal
<1>3. CASE Removes(o, "archived") \/ Removes(o, "deleted")
  BY <1>1, <1>3, RemovingKeeps
<1>4. CASE Removes(o, "copied") /\ step[o] = "deleteCopied"
  BY <1>1, <1>4, RemovingKeeps
<1>5. CASE GoesOn(o, "delete")
  BY <1>1, <1>5, ContinuingKeeps DEF GoesOn, Acting
<1>6. CASE GoesOn(o, "capture") /\ step[o] = "rename"
  BY <1>1, <1>6, ContinuingKeeps DEF GoesOn, Acting
<1>7. CASE FailsWith(o, context[o]) /\ UNCHANGED <<removed, place>>
  BY <1>1, <1>7, QuietEndKeeps DEF FailsWith, BlockInv, BlockTypes
<1> QED
  BY <1>2, <1>3, <1>4, <1>5, <1>6, <1>7

\* The identity that is captured is the present one.
LEMMA CapturingKeeps ==
    ASSUME BlockInv, NEW o \in FileObjects, NEW succeeds \in BOOLEAN, CaptureIdentity(o, succeeds)
    PROVE  BlockInv'
<1> USE DEF CaptureIdentity, Goes, unchangedDone, unchangedFiles
<1>1. Content(o).version \in Nat
  BY DEF BlockInv, BlockTypes, BlockFiles, Content
<1>2. BlockTypes'
  BY <1>1 DEF BlockInv, BlockTypes, FinalizeSteps, Acting
<1>3. Leaves(o)
  BY OthersAlone DEF BlockInv, BlockTypes
<1>4. /\ step'[o] \in {"create", "delete"} /\ copied'[o] = <<>> /\ confirmed'[o]
      /\ step'[o] = "create" => identity'[o] = Content(o).version
      /\ Content(o).version' = Content(o).version
  BY DEF BlockInv, BlockTypes, ObjectInv, CopyFits, ActsOnConfirmed, Acting, Content
<1>5. ActsOnConfirmed(o)' /\ CopyFits(o)'
  BY <1>1, <1>4 DEF ActsOnConfirmed, CopyFits
<1>6. CopyStaysWhole(o)'
  BY <1>4 DEF CopyStaysWhole
<1> QED
  BY <1>2, <1>3, <1>5, <1>6, GoingKeeps DEF FinalizeSteps, Acting

\* What another object's file in the archive becomes concerns only those that share it.
LEMMA ArchiveShared ==
    ASSUME BlockTypes, NEW o \in FileObjects, NEW copy,
           archived' = [archived EXCEPT ![FileOf[o]] = copy]
    PROVE  \A p \in FileObjects \ {o} :
              SharedArchive(p) \/ archived'[FileOf[p]] = archived[FileOf[p]]
  BY DEF BlockTypes, BlockFiles, SharedArchive

\* A step that changes this object's file in the archive, and copies.
LEMMA ArchivingLeaves ==
    ASSUME BlockTypes, NEW o \in FileObjects, NEW copy, NEW s, NEW chunks,
           archived' = [archived EXCEPT ![FileOf[o]] = copy],
           copied' = [copied EXCEPT ![o] = chunks], Goes(o, s),
           UNCHANGED <<content, context, identity, confirmed>>, unchangedDone
    PROVE  Leaves(o)
<1> SUFFICES ASSUME NEW p \in FileObjects \ {o} PROVE Unaffected(p)
  BY DEF Leaves
<1>1. Content(p).version \in Nat
  BY DEF BlockTypes, BlockFiles, Content
<1>2. SharedArchive(p) \/ archived'[FileOf[p]] = archived[FileOf[p]]
  BY ArchiveShared
<1> HIDE DEF Content, SharedArchive
<1>3. Content(p).version <= content'[FileOf[p]].version
  BY <1>1 DEF Content
<1> QED
  BY <1>2, <1>3 DEF BlockTypes, Goes, unchangedDone, Unaffected, CopyAlone

\* An emptied file of the archive.
LEMMA CreatingKeeps ==
    ASSUME BlockInv, NEW o \in FileObjects, NEW succeeds \in BOOLEAN, CreateArchive(o, succeeds)
    PROVE  BlockInv'
<1>1. CASE ~succeeds
  <2>1. archived' = archived
    BY <1>1 DEF CreateArchive, BlockInv, BlockTypes
  <2> QED
    BY <1>1, <2>1, ContinuingKeeps DEF CreateArchive, unchangedDone, Acting
<1>2. CASE succeeds
  <2> USE DEF CreateArchive, Continues, Goes, unchangedDone
  <2>1. NoCopy \in [1 .. CopyChunks -> Nat] /\ FileOf[o] \in BlockFiles
    BY DEF NoCopy, BlockFiles
  <2>2. archived' = [archived EXCEPT ![FileOf[o]] = NoCopy] /\ step' = [step EXCEPT ![o] = "copy"]
    BY <1>2
  <2>3. BlockTypes'
    BY <2>1, <2>2 DEF BlockInv, BlockTypes, FinalizeSteps, Acting
  <2>4. Leaves(o)
    <3>1. copied' = [copied EXCEPT ![o] = copied[o]]
      BY DEF BlockInv, BlockTypes
    <3> QED
      BY <2>2, <3>1, ArchivingLeaves DEF BlockInv
  <2>5. /\ step'[o] = "copy" /\ copied'[o] = <<>> /\ confirmed'[o] /\ identity'[o] = identity[o]
        /\ identity[o] <= Content(o).version /\ Content(o)' = Content(o)
        /\ archived'[FileOf[o]] = NoCopy
    BY <2>1, <2>2 DEF BlockInv, BlockTypes, ObjectInv, CopyFits, ActsOnConfirmed, Acting, Content
  <2>6. ActsOnConfirmed(o)' /\ CopyFits(o)'
    <3>1. Len(<<>>) = 0 /\ Len(<<>>) < CopyChunks /\ 1 .. Len(<<>>) = {}
      BY FileBlockAssumption
    <3>2. (CopyOf(o))' = NoCopy
      BY <2>5, <3>1 DEF CopyOf, NoCopy
    <3> QED
      BY <2>5, <3>1, <3>2 DEF ActsOnConfirmed, CopyFits
  <2>7. CopyStaysWhole(o)'
    BY <2>5 DEF CopyStaysWhole
  <2> QED
    BY <2>2, <2>3, <2>4, <2>6, <2>7, GoingKeeps DEF FinalizeSteps, Acting
<1> QED
  BY <1>1, <1>2

\* A chunk is read as it is now and written where it belongs.
LEMMA CopyingKeeps ==
    ASSUME BlockInv, NEW o \in FileObjects, NEW succeeds \in BOOLEAN, CopyChunk(o, succeeds)
    PROVE  BlockInv'
<1>1. CASE ~succeeds
  BY <1>1, ContinuingKeeps DEF CopyChunk, unchangedDone, Acting
<1>2. CASE succeeds
  <2> DEFINE version == Content(o).version
             i == Len(copied[o]) + 1
             to == IF i = CopyChunks THEN "compare" ELSE "copy"
             chunks == Append(copied[o], version)
             copy == [archived[FileOf[o]] EXCEPT ![i] = version]
  <2>1. /\ step[o] = "copy" /\ Goes(o, to)
        /\ copied' = [copied EXCEPT ![o] = chunks]
        /\ archived' = [archived EXCEPT ![FileOf[o]] = copy]
        /\ UNCHANGED <<content, place, context, event, identity, confirmed>>
        /\ unchangedDone
    BY <1>2 DEF CopyChunk
  <2>2. /\ version \in Nat /\ FileOf[o] \in BlockFiles /\ copied[o] \in Seq(Nat)
        /\ archived[FileOf[o]] \in [1 .. CopyChunks -> Nat]
        /\ Len(copied[o]) \in Nat /\ Len(copied[o]) < CopyChunks
    BY <2>1, SMTT(30) DEF BlockInv, BlockTypes, BlockFiles, Content, ObjectInv, CopyFits
  <2>3. /\ i \in 1 .. CopyChunks /\ to \in {"copy", "compare"}
        /\ chunks \in Seq(Nat) /\ Len(chunks) = i
        /\ \A j \in 1 .. i : chunks[j] = IF j = i THEN version ELSE copied[o][j]
    BY <2>2, FileBlockAssumption
  <2>4. copy \in [1 .. CopyChunks -> Nat]
    BY <2>2
  <2> HIDE DEF version, i, to, chunks, copy
  <2>5. BlockTypes'
    BY <2>1, <2>3, <2>4 DEF BlockInv, BlockTypes, Goes, FinalizeSteps, Acting, unchangedDone
  <2>6. Leaves(o)
    BY <2>1, ArchivingLeaves DEF BlockInv
  <2>7. /\ step'[o] = to /\ copied'[o] = chunks /\ identity'[o] = identity[o]
        /\ confirmed'[o] /\ Content(o)' = Content(o) /\ archived'[FileOf[o]] = copy
        /\ to = "compare" <=> i = CopyChunks
    BY <2>1, <2>2 DEF to, BlockInv, BlockTypes, Goes, ObjectInv, ActsOnConfirmed, Acting, Content
  <2>8. identity[o] <= version /\ \A j \in 1 .. i : identity[o] <= chunks[j] /\ chunks[j] <= version
    <3>1. /\ identity[o] <= version
          /\ \A j \in 1 .. Len(copied[o]) : identity[o] <= copied[o][j] /\ copied[o][j] <= version
      BY <2>1 DEF version, BlockInv, ObjectInv, CopyFits
    <3>2. ASSUME NEW j \in 1 .. i PROVE identity[o] <= chunks[j] /\ chunks[j] <= version
      <4>1. CASE j = i
        BY <2>2, <2>3, <3>1, <4>1
      <4>2. CASE j # i
        <5>1. j \in 1 .. Len(copied[o])
          BY <2>2, <4>2 DEF i
        <5> QED
          BY <2>3, <3>1, <4>2, <5>1
      <4> QED
        BY <4>1, <4>2
    <3> QED
      BY <3>1, <3>2
  <2>9. SharedArchive(o) \/ copy = [j \in 1 .. CopyChunks |-> IF j <= i THEN chunks[j] ELSE 0]
    <3>1. SharedArchive(o) \/ archived[FileOf[o]] = CopyOf(o)
      BY <2>1 DEF BlockInv, ObjectInv, CopyFits
    <3>2. ASSUME archived[FileOf[o]] = CopyOf(o), NEW j \in 1 .. CopyChunks
          PROVE  copy[j] = IF j <= i THEN chunks[j] ELSE 0
      <4>1. copy[j] = IF j = i THEN version ELSE archived[FileOf[o]][j]
        BY <2>2 DEF copy
      <4>2. archived[FileOf[o]][j] = IF j <= Len(copied[o]) THEN copied[o][j] ELSE 0
        BY <3>2 DEF CopyOf
      <4>3. j <= i => chunks[j] = IF j = i THEN version ELSE copied[o][j]
        BY <2>2, <2>3, FileBlockAssumption
      <4> QED
        BY <2>2, <4>1, <4>2, <4>3, FileBlockAssumption DEF i
    <3> QED
      BY <2>4, <3>1, <3>2
  <2>10. ActsOnConfirmed(o)'
    BY <2>7 DEF ActsOnConfirmed
  <2>11. CopyFits(o)'
    <3>1. SharedArchive(o)' \/ archived'[FileOf[o]] = (CopyOf(o))'
      BY <2>3, <2>7, <2>9 DEF CopyOf, SharedArchive
    <3>2. Content(o)'.version = version
      BY <2>7 DEF version
    <3>3. Len(copied'[o]) = i /\ (step'[o] = "copy" => i < CopyChunks)
      BY <2>3, <2>7, FileBlockAssumption
    <3> QED
      BY <2>3, <2>7, <2>8, <3>1, <3>2, <3>3 DEF CopyFits
  <2>12. CopyStaysWhole(o)'
    BY <2>3, <2>7 DEF CopyStaysWhole
  <2> QED
    BY <2>1, <2>3, <2>5, <2>6, <2>10, <2>11, <2>12, GoingKeeps
    DEF FinalizeSteps, Acting, unchangedDone
<1> QED
  BY <1>1, <1>2

\* At the end the identity is captured again: with the version it was, no chunk can be
\* of another one.
LEMMA ComparingKeeps ==
    ASSUME BlockInv, NEW o \in FileObjects, NEW succeeds \in BOOLEAN, CompareIdentity(o, succeeds)
    PROVE  BlockInv'
<1>1. /\ step[o] = "compare" /\ UNCHANGED content /\ unchangedDone
  BY DEF CompareIdentity
<1>2. CASE succeeds /\ ~SameIdentity(o)
  <2>1. archived' = [archived EXCEPT ![FileOf[o]] = NoCopy] /\ FailsWith(o, context[o])
    BY <1>2 DEF CompareIdentity
  <2>2. archived' \in [BlockFiles -> [1 .. CopyChunks -> Nat]]
    BY <2>1 DEF BlockInv, BlockTypes, NoCopy, BlockFiles
  <2> QED
    BY <1>1, <2>1, <2>2, ArchiveShared, QuietEndKeeps DEF FailsWith, unchangedDone, BlockInv
<1>3. CASE succeeds /\ SameIdentity(o)
  <2>1. UNCHANGED archived /\ Continues(o, "deleteCopied")
    BY <1>3 DEF CompareIdentity
  <2>2. /\ copied[o] \in Seq(Nat) /\ Len(copied[o]) = CopyChunks /\ identity[o] \in Nat
        /\ SharedArchive(o) \/ archived[FileOf[o]] = CopyOf(o)
        /\ \A j \in 1 .. CopyChunks : identity[o] <= copied[o][j] /\ copied[o][j] <= identity[o]
    BY <1>1, <1>3 DEF SameIdentity, BlockInv, BlockTypes, ObjectInv, CopyFits
  <2>3. CopyIsWhole(o)
    BY <2>2, FileBlockAssumption DEF CopyIsWhole, CopyOf
  <2> QED
    BY <1>1, <2>1, <2>3, ContinuingKeeps DEF unchangedDone, Acting
<1>4. CASE ~succeeds
  BY <1>1, <1>4, ContinuingKeeps DEF CompareIdentity, unchangedDone, Acting
<1> QED
  BY <1>2, <1>3, <1>4

\* The reports, of which there was none before.
LEMMA ReportingKeeps ==
    ASSUME BlockInv, NEW o \in FileObjects, NEW builds, ReportBlocked(o, builds) \/ ReportDetected(o, builds)
    PROVE  BlockInv'
<1>1. PICK id \in {27, 29} : ReportsAs(o, id, builds) /\ (id = 27 => step[o] = "report")
                            /\ step[o] # "idle"
  BY DEF ReportBlocked, ReportDetected
<1>2. UNCHANGED removed /\ unchangedFiles
  BY <1>1 DEF ReportsAs
<1>3. CASE event[o] \/ builds
  <2>1. /\ published' = [published EXCEPT ![o] = <<id>>]
        /\ blockReports' = [blockReports EXCEPT ![o] = @ + 1]
        /\ EndsWith(o, context[o] \cup {"reported"}, TRUE)
    BY <1>1, <1>3 DEF ReportsAs
  <2>2. blockReports[o] = 0 /\ (step[o] = "report" => removed[o] # "no")
    BY <1>1 DEF BlockInv, BlockTypes, ObjectInv, ReportIsLast, ReportsRemoval
  <2>3. <<id>> # << 27 >> \/ removed[o] # "no"
    BY <1>1, <2>2
  <2>4. blockReports' = [blockReports EXCEPT ![o] = 1]
    BY <2>1, <2>2 DEF BlockInv, BlockTypes
  <2>5. 1 \in {0, 1} /\ (1 = 1 => TRUE)
    OBVIOUS
  <2> QED
    BY <1>1, <1>2, <2>1, <2>3, <2>4, <2>5, EndingKeeps DEF unchangedFiles, BlockInv, BlockTypes
<1>4. CASE ~(event[o] \/ builds)
  BY <1>1, <1>2, <1>4, EndKeeps DEF ReportsAs, FailsWith, unchangedDone
<1> QED
  BY <1>3, <1>4

\* Every action keeps the invariant,
LEMMA BlockAction ==
    ASSUME BlockInv, FileNext
    PROVE  BlockInv'
<1>2. CASE Switch
  BY <1>2, SwitchKeeps
<1>3. ASSUME NEW f \in BlockFiles, NEW pe \in BOOLEAN, OthersWrite(f, pe) PROVE BlockInv'
  BY <1>3, GrowthKeeps DEF OthersWrite
<1>4. ASSUME NEW o \in FileObjects, FinalizeStep(o) PROVE BlockInv'
  BY <1>4, CleanupKeeps, DetectingKeeps, RenamingDeletingKeep, CapturingKeeps, CreatingKeeps,
     CopyingKeeps, ComparingKeeps, ReportingKeeps DEF FinalizeStep
<1> DEFINE Using(o) ==
      \/ \E user \in BOOLEAN :
            \/ \E r \in Requests : PreCreate(o, user, r)
            \/ PreWrite(o, user)
            \/ \E class \in {"time", "delete", "posixDelete", "other"} :
                  PreSetInfo(o, user, class)
      \/ CreateFails(o) \/ WriteFails(o) \/ PostWriteMarks(o)
      \/ \E yes \in BOOLEAN : WriteHappens(o, yes) \/ PostWriteReadsHeader(o, yes)
      \/ \E yes, passive \in BOOLEAN :
            PostCreate(o, yes, passive) \/ PostSetInfo(o, yes, passive)
<1>5. ASSUME NEW o \in FileObjects, Using(o) PROVE BlockInv'
  BY <1>5, OpeningKeeps, WritingKeeps, SetInfoKeeps
<1>6. FileNext => \/ Switch
                  \/ \E f \in BlockFiles, pe \in BOOLEAN : OthersWrite(f, pe)
                  \/ \E o \in FileObjects : Using(o) \/ FinalizeStep(o)
  BY Zenon DEF FileNext
<1> HIDE DEF Using
<1>7. CASE \E f \in BlockFiles, pe \in BOOLEAN : OthersWrite(f, pe)
  BY <1>3, <1>7, Zenon
<1>8. CASE \E o \in FileObjects : Using(o) \/ FinalizeStep(o)
  BY <1>4, <1>5, <1>8, Zenon
<1> QED
  BY <1>2, <1>6, <1>7, <1>8, Zenon

\* and so does every step.
LEMMA BlockStep ==
    ASSUME BlockInv, [FileNext]_fileVars
    PROVE  BlockInv'
<1>1. CASE UNCHANGED fileVars
  <2>1. BlockTypes'
    BY <1>1 DEF fileVars, BlockInv, BlockTypes
  <2>2. ASSUME NEW o \in FileObjects PROVE Unaffected(o)
    BY <1>1, SameCopy DEF fileVars, BlockInv, Unaffected, unchangedFiles
  <2> QED
    BY <2>1, <2>2, UnaffectedKeeps DEF BlockInv
<1>2. CASE FileNext
  BY <1>2, BlockAction
<1> QED
  BY <1>1, <1>2

\* The promise of blocking follows.
LEMMA BlockInvIsSound == BlockInv => BlockingIsSound
<1> SUFFICES ASSUME BlockInv, NEW o \in FileObjects
             PROVE  /\ step[o] \in Acting => confirmed[o]
                    /\ removed[o] = "copied" /\ step[o] = "report" => CopyIsWhole(o)
                    /\ published[o] = << 27 >> => removed[o] # "no"
                    /\ blockReports[o] <= 1
  BY DEF BlockingIsSound, Acting, CopyIsWhole
<1>1. blockReports[o] <= 1
  <2>1. blockReports[o] \in {0, 1}
    BY DEF BlockInv, BlockTypes
  <2> QED
    BY <2>1
<1> QED
  BY <1>1 DEF BlockInv, ObjectInv, ActsOnConfirmed, CopyStaysWhole, ReportsRemoval

\* The filter blocks only what it found to be an executable, deletes a copied file only
\* when the copy is whole and of one version of it, publishes Event 27 only for a file it
\* removed, and reports an object once (SysmonFinalizeFileBlockContext in minifilter.c).
THEOREM BlockingIsAlwaysSound == FileSpec => []BlockingIsSound
<1>1. BlockInv /\ [FileNext]_fileVars => BlockInv'
  BY BlockStep
<1> QED
  BY BlockInitially, <1>1, BlockInvIsSound, PTL DEF FileSpec

-----------------------------------------------------------------------------
(* The cache of file information.  What a call has computed is of the file *)
(* that its identity names, as long as it works on the handle it opened;   *)
(* and its hashes are those that the algorithm named when it began.        *)
HashMasks == {"default", "SHA256"}
Kinds == {"hashes", "info"}
Data == [file : Nat, reopened : BOOLEAN]
Hashes == [mask : HashMasks \cup {"none"}, of : Data]
CallStages == {"open", "claimEvent", "initEvent", "claimCache", "initCache", "setEvent",
               "waitCache", "lookup", "map", "reopen", "store"}
Calls == [stage : CallStages, path : InfoPaths, request : SUBSET Kinds,
          mask : HashMasks \cup {"none"}, hasId : BOOLEAN, id : Nat, handle : Nat,
          hashes : Hashes, info : Data]
Entries == [valid : {TRUE}, path : InfoPaths, hasId : BOOLEAN, id : Nat,
            available : SUBSET Kinds, mask : HashMasks \cup {"none"}, tick : Nat,
            hashes : Hashes, info : Data]

InfoTypes ==
    /\ fileAt \in [InfoPaths -> Files]
    /\ algorithm \in HashMasks
    /\ clock \in Nat
    /\ entries \in [InfoSlots -> Entries \cup {NoInfo}]
    /\ collect \in [Collectors -> Calls \cup {NoCall}]

\* Hashes are of a mask that names some, and of the file of the identity.
HashesFit(hashes, mask, id) ==
    /\ hashes # NoHashes => hashes.mask = mask /\ mask # "none"
    /\ OfTheFile(hashes.of, id)

\* A call under way.
CallFits(c) ==
    collect[c] # NoCall =>
        /\ collect[c].hasId /\ collect[c].stage \notin {"open", "reopen", "store"} =>
              collect[c].id = collect[c].handle
        /\ ~collect[c].hasId => collect[c].id = 0
        /\ "hashes" \in collect[c].request => collect[c].mask # "none"
        /\ collect[c].stage = "store" =>
              /\ HashesFit(collect[c].hashes, collect[c].mask, collect[c].id)
              /\ OfTheFile(collect[c].info, collect[c].id)

\* An entry.
EntryFits(e) ==
    e.valid =>
        /\ "hashes" \in e.available => e.hashes # NoHashes /\ e.hashes.mask = e.mask
        /\ OfTheFile(e.hashes.of, e.id) /\ OfTheFile(e.info, e.id)

OnePerPath ==
    \A i, j \in InfoSlots :
        entries[i].valid /\ entries[j].valid /\ entries[i].path = entries[j].path => i = j

InfoInv ==
    /\ InfoTypes /\ OnePerPath
    /\ \A c \in Collectors : CallFits(c)
    /\ \A i \in InfoSlots : EntryFits(entries[i])

\* At the start nothing is cached or computed.
LEMMA InfoInitially == InfoInit => InfoInv
<1> SUFFICES ASSUME InfoInit PROVE InfoInv
  OBVIOUS
<1>1. fileAt \in [InfoPaths -> Files]
  <2>1. \E f \in [InfoPaths -> Files] : \A p, q \in InfoPaths : f[p] = f[q] => p = q
    BY FileInformationAssumption DEF Files
  <2> QED
    BY <2>1 DEF InfoInit, FirstFile
<1> QED
  BY <1>1 DEF InfoInit, InfoInv, InfoTypes, OnePerPath, CallFits, EntryFits, HashMasks, NoInfo

\* A call that goes on: it has its type, and fits.
LEMMA CallGoesOn ==
    ASSUME InfoInv, NEW c \in Collectors, NEW call \in Calls \cup {NoCall},
           collect' = [collect EXCEPT ![c] = call], CallFits(c)',
           fileAt' \in [InfoPaths -> Files], algorithm' \in HashMasks, unchangedCache
    PROVE  InfoInv'
<1>1. InfoTypes'
  BY DEF InfoInv, InfoTypes, unchangedCache
<1>2. ASSUME NEW d \in Collectors PROVE CallFits(d)'
  <2>1. d # c => collect'[d] = collect[d]
    BY DEF InfoInv, InfoTypes
  <2> QED
    BY <2>1 DEF InfoInv, CallFits
<1> QED
  BY <1>1, <1>2 DEF InfoInv, OnePerPath, EntryFits, unchangedCache

\* A call that is under way has the type of one.
LEMMA CallTyped ==
    ASSUME InfoInv, NEW c \in Collectors, StageOf(c) # "idle"
    PROVE  collect[c] \in Calls
  BY DEF InfoInv, InfoTypes, StageOf, NoCall

\* A call that only goes to another stage before it computes.
LEMMA StageGoesOn ==
    ASSUME InfoInv, NEW c \in Collectors, StageOf(c) \notin {"idle", "open", "reopen", "store"},
           NEW s \in CallStages \ {"store"}, To(c, s), unchangedFilesystem, unchangedCache
    PROVE  InfoInv'
<1> DEFINE call == [collect[c] EXCEPT !.stage = s]
<1>1. collect[c] \in Calls
  BY CallTyped
<1>2. call \in Calls
  BY <1>1 DEF Calls
<1>3. collect' = [collect EXCEPT ![c] = call]
  BY DEF To
<1>4. collect'[c] = call
  BY <1>3 DEF InfoInv, InfoTypes
<1>5. CallFits(c)'
  BY <1>1, <1>4 DEF InfoInv, CallFits, Calls, NoCall, StageOf
<1> HIDE DEF call
<1> QED
  BY <1>2, <1>3, <1>5, CallGoesOn DEF unchangedFilesystem, InfoInv, InfoTypes

\* A call that returns.
LEMMA ReturnKeeps ==
    ASSUME InfoInv, NEW c \in Collectors, Returns(c), unchangedFilesystem, unchangedCache
    PROVE  InfoInv'
<1>1. collect' = [collect EXCEPT ![c] = NoCall] /\ collect'[c] = NoCall
  BY DEF Returns, InfoInv, InfoTypes
<1>2. CallFits(c)'
  BY <1>1 DEF CallFits
<1> QED
  BY <1>1, <1>2, CallGoesOn DEF unchangedFilesystem, InfoInv, InfoTypes

\* A call begins with the algorithm of the time, and opens the file of the time.
LEMMA BeginningKeeps ==
    ASSUME InfoInv, NEW c \in Collectors,
           \/ \E p \in InfoPaths, request \in Requested : Asks(c, p, request)
           \/ \E yes, hasId \in BOOLEAN : Opens(c, yes, hasId)
    PROVE  InfoInv'
<1>1. ASSUME NEW p \in InfoPaths, NEW request \in Requested, Asks(c, p, request) PROVE InfoInv'
  <2> DEFINE call == [stage |-> "open", path |-> p, request |-> request,
                      mask |-> IF "hashes" \in request THEN algorithm ELSE "none",
                      hasId |-> FALSE, id |-> 0, handle |-> 0, hashes |-> NoHashes, info |-> NoData]
  <2>1. NoData \in Data /\ NoHashes \in Hashes
    BY DEF NoData, NoHashes, Data, Hashes
  <2>2. request \in SUBSET Kinds /\ algorithm \in HashMasks
    BY DEF Requested, Kinds, InfoInv, InfoTypes
  <2>3. call \in Calls
    BY <2>1, <2>2 DEF Calls, CallStages
  <2>4. collect' = [collect EXCEPT ![c] = call] /\ unchangedFilesystem /\ unchangedCache
    BY <1>1 DEF Asks
  <2>5. collect'[c] = call
    BY <2>4 DEF InfoInv, InfoTypes
  <2>6. CallFits(c)'
    BY <2>2, <2>5 DEF CallFits, HashMasks
  <2> HIDE DEF call
  <2> QED
    BY <2>3, <2>4, <2>6, CallGoesOn DEF unchangedFilesystem, InfoInv, InfoTypes
<1>2. ASSUME NEW yes \in BOOLEAN, NEW hasId \in BOOLEAN, Opens(c, yes, hasId) PROVE InfoInv'
  <2>1. CASE ~yes
    BY <1>2, <2>1, ReturnKeeps DEF Opens
  <2>2. CASE yes
    <3> DEFINE f == fileAt[collect[c].path]
               to == IF setUp.cache = 2 /\ setUp.flag = 1 THEN "lookup" ELSE "claimEvent"
               call == [collect[c] EXCEPT !.stage = to, !.handle = f, !.hasId = hasId,
                                          !.id = IF hasId THEN f ELSE 0]
    <3>1. collect[c] \in Calls
      BY <1>2, CallTyped DEF Opens
    <3>2. f \in Nat
      BY <3>1, FileInformationAssumption DEF InfoInv, InfoTypes, Calls, Files
    <3>3. to \in {"lookup", "claimEvent"}
      OBVIOUS
    <3>4. collect' = [collect EXCEPT ![c] = call] /\ unchangedFilesystem /\ unchangedCache
      BY <1>2, <2>2 DEF Opens
    <3> HIDE DEF f, to
    <3>5. call \in Calls
      BY <3>1, <3>2, <3>3 DEF Calls, CallStages
    <3>6. collect'[c] = call
      BY <3>4 DEF InfoInv, InfoTypes
    <3>7. /\ call.hasId = hasId /\ call.id = (IF hasId THEN f ELSE 0) /\ call.handle = f
          /\ call.stage = to /\ call.request = collect[c].request /\ call.mask = collect[c].mask
      BY <3>1 DEF Calls
    <3>8. "hashes" \in collect[c].request => collect[c].mask # "none"
      <4>1. collect[c].stage = "open" /\ NoCall.stage = "idle"
        BY <1>2 DEF Opens, StageOf, NoCall
      <4> QED
        BY <4>1 DEF InfoInv, CallFits
    <3> HIDE DEF call
    <3>9. CallFits(c)'
      BY <3>3, <3>6, <3>7, <3>8 DEF CallFits
    <3> QED
      BY <3>4, <3>5, <3>9, CallGoesOn DEF unchangedFilesystem, InfoInv, InfoTypes
  <2> QED
    BY <2>1, <2>2
<1> QED
  BY <1>1, <1>2

\* The cache is set up, which empties it.
LEMMA SettingUpKeeps ==
    ASSUME InfoInv, NEW c \in Collectors,
           \/ ClaimsEvent(c) \/ InitializesEvent(c) \/ ClaimsCache(c) \/ InitializesCache(c)
           \/ SetsEvent(c) \/ WaitsForCache(c)
    PROVE  InfoInv'
<1>1. /\ StageOf(c) \notin {"idle", "open", "reopen", "store"}
      /\ unchangedFilesystem
  BY DEF ClaimsEvent, InitializesEvent, ClaimsCache, InitializesCache, SetsEvent, WaitsForCache,
     unchangedSetUp
<1>2. PICK s \in CallStages \ {"store"} : To(c, s)
  <2> DEFINE next == CASE setUp.cache = 0 -> "initCache"
                       [] setUp.cache = 1 -> "waitCache"
                       [] OTHER -> "lookup"
  <2>1. next \in CallStages \ {"store"}
    BY DEF CallStages
  <2>2. ClaimsCache(c) => To(c, next)
    BY DEF ClaimsCache
  <2> HIDE DEF next
  <2> QED
    BY <2>1, <2>2 DEF CallStages, ClaimsEvent, InitializesEvent, InitializesCache, SetsEvent,
       WaitsForCache
<1>3. CASE unchangedCache
  BY <1>1, <1>2, <1>3, StageGoesOn
<1>4. CASE InitializesCache(c)
  <2>1. entries' = [i \in InfoSlots |-> NoInfo] /\ clock' = 0
    BY <1>4 DEF InitializesCache
  <2>2. ASSUME NEW i \in InfoSlots PROVE ~entries'[i].valid
    BY <2>1 DEF NoInfo
  <2>3. collect' \in [Collectors -> Calls \cup {NoCall}] /\ \A d \in Collectors : CallFits(d)'
    <3> DEFINE call == [collect[c] EXCEPT !.stage = s]
    <3>1. collect[c] \in Calls
      BY <1>1, CallTyped
    <3>2. call \in Calls
      BY <3>1 DEF Calls
    <3>3. collect' = [collect EXCEPT ![c] = call]
      BY <1>2 DEF To
    <3>4. collect'[c] = call /\ \A d \in Collectors \ {c} : collect'[d] = collect[d]
      BY <3>3 DEF InfoInv, InfoTypes
    <3>5. CallFits(c)'
      BY <1>1, <3>1, <3>4 DEF InfoInv, CallFits, Calls, NoCall, StageOf
    <3> HIDE DEF call
    <3>6. collect' \in [Collectors -> Calls \cup {NoCall}]
      BY <3>2, <3>3 DEF InfoInv, InfoTypes
    <3>7. ASSUME NEW d \in Collectors PROVE CallFits(d)'
      <4>1. CASE d = c
        BY <3>5, <4>1
      <4>2. CASE d # c
        BY <3>4, <4>2 DEF InfoInv, CallFits
      <4> QED
        BY <4>1, <4>2
    <3> QED
      BY <3>6, <3>7
  <2> QED
    BY <1>1, <2>1, <2>2, <2>3 DEF InfoInv, InfoTypes, OnePerPath, EntryFits, unchangedFilesystem
<1> QED
  BY <1>3, <1>4 DEF ClaimsEvent, InitializesEvent, ClaimsCache, SetsEvent, WaitsForCache,
     unchangedSetUp

\* An answer from the cache changes nothing but when its entry was asked for.
LEMMA LookupKeeps ==
    ASSUME InfoInv, NEW c \in Collectors, Lookup(c)
    PROVE  InfoInv'
<1>1. StageOf(c) = "lookup" /\ unchangedFilesystem
  BY DEF Lookup
<1>2. CASE To(c, "map") /\ unchangedCache
  BY <1>1, <1>2, StageGoesOn DEF CallStages
<1>3. ASSUME NEW i \in InfoSlots, Answers(entries[i], c), clock' = clock + 1,
             entries' = [entries EXCEPT ![i].tick = clock + 1], Returns(c)
      PROVE  InfoInv'
  <2> DEFINE entry == [entries[i] EXCEPT !.tick = clock + 1]
  <2>1. entries[i] \in Entries
    BY <1>3 DEF Answers, SamePath, InfoInv, InfoTypes, NoInfo
  <2>2. entry \in Entries /\ clock' \in Nat
    <3>1. clock + 1 \in Nat
      BY DEF InfoInv, InfoTypes
    <3> QED
      BY <1>3, <2>1, <3>1 DEF Entries
  <2>3. \A j \in InfoSlots : entries'[j] = IF j = i THEN entry ELSE entries[j]
    BY <1>3 DEF InfoInv, InfoTypes
  <2>4. /\ entry.valid = entries[i].valid /\ entry.path = entries[i].path
        /\ entry.available = entries[i].available /\ entry.hashes = entries[i].hashes
        /\ entry.mask = entries[i].mask /\ entry.id = entries[i].id /\ entry.info = entries[i].info
    BY <2>1 DEF Entries
  <2>5. entries' = [entries EXCEPT ![i] = entry]
    BY <1>3
  <2> HIDE DEF entry
  <2>6. OnePerPath'
    BY <2>3, <2>4 DEF InfoInv, OnePerPath
  <2>7. ASSUME NEW j \in InfoSlots PROVE EntryFits(entries[j])'
    BY <2>3, <2>4 DEF InfoInv, EntryFits
  <2>8. collect' = [collect EXCEPT ![c] = NoCall]
    BY <1>3 DEF Returns
  <2>9. InfoTypes'
    BY <1>1, <2>2, <2>5, <2>8 DEF InfoInv, InfoTypes, unchangedFilesystem
  <2>10. ASSUME NEW d \in Collectors PROVE CallFits(d)'
    BY <2>8 DEF InfoInv, InfoTypes, CallFits
  <2> QED
    BY <2>6, <2>7, <2>9, <2>10 DEF InfoInv
<1> QED
  BY <1>2, <1>3 DEF Lookup

\* What is computed from the handle is of the call's file; what is computed from the
\* path is marked as such.
LEMMA ComputingKeeps ==
    ASSUME InfoInv, NEW c \in Collectors,
           \E yes \in BOOLEAN, had \in SUBSET {"hashes", "info"} : Maps(c, yes, had) \/ Reopens(c, yes, had)
    PROVE  InfoInv'
<1>1. PICK yes \in BOOLEAN, had \in SUBSET {"hashes", "info"} : Maps(c, yes, had) \/ Reopens(c, yes, had)
  OBVIOUS
<1>2. /\ collect[c] \in Calls /\ collect[c].stage \in {"map", "reopen"} /\ collect[c] # NoCall
      /\ unchangedFilesystem /\ unchangedCache
  <2>1. collect[c].stage \in {"map", "reopen"} /\ NoCall.stage = "idle"
    BY <1>1 DEF Maps, Reopens, StageOf, NoCall
  <2>2. collect[c] \in Calls
    BY <2>1, CallTyped DEF StageOf
  <2> QED
    BY <1>1, <2>1, <2>2 DEF Maps, Reopens
<1>3. ASSUME NEW data \in Data, data.reopened \/ OfTheFile(data, collect[c].id),
             ComputesFrom(c, data, had)
      PROVE  InfoInv'
  <2> DEFINE got == had \cap collect[c].request
             hashes == IF "hashes" \in got THEN [mask |-> collect[c].mask, of |-> data] ELSE NoHashes
             info == IF "info" \in got THEN data ELSE NoData
             call == [collect[c] EXCEPT !.stage = "store", !.handle = 0, !.hashes = hashes, !.info = info]
  <2>1. collect' = [collect EXCEPT ![c] = call]
    BY <1>3 DEF ComputesFrom
  <2>2. NoData \in Data /\ NoHashes \in Hashes
    BY DEF NoData, NoHashes, Data, Hashes
  <2>3. hashes \in Hashes /\ info \in Data
    BY <1>2, <1>3, <2>2 DEF Hashes, Calls
  <2>4. "hashes" \in got => collect[c].mask # "none"
    BY <1>2 DEF InfoInv, CallFits
  <2>5. OfTheFile(data, collect[c].id) /\ OfTheFile(NoData, collect[c].id)
    BY <1>3 DEF OfTheFile
  <2>6. HashesFit(hashes, collect[c].mask, collect[c].id)
    BY <2>4, <2>5 DEF HashesFit, NoHashes
  <2>7. OfTheFile(info, collect[c].id)
    BY <2>5
  <2> HIDE DEF hashes, info
  <2>8. call \in Calls
    BY <1>2, <2>3 DEF Calls, CallStages
  <2>9. /\ call.stage = "store" /\ call.hashes = hashes /\ call.info = info /\ call.hasId = collect[c].hasId
        /\ call.id = collect[c].id /\ call.mask = collect[c].mask /\ call.request = collect[c].request
    BY <1>2 DEF Calls
  <2>10. collect'[c] = call
    BY <2>1 DEF InfoInv, InfoTypes
  <2> HIDE DEF call
  <2>11. CallFits(c)'
    BY <1>2, <2>6, <2>7, <2>9, <2>10 DEF InfoInv, CallFits, HashesFit, OfTheFile
  <2> QED
    BY <1>2, <2>1, <2>8, <2>11, CallGoesOn DEF unchangedFilesystem, InfoInv, InfoTypes
<1>4. CASE Maps(c, yes, had) /\ yes
  <2> DEFINE data == [file |-> collect[c].handle, reopened |-> FALSE]
  <2>1. data \in Data
    BY <1>2 DEF Calls, Data
  <2>2. collect[c].stage = "map" /\ ComputesFrom(c, data, had)
    BY <1>4 DEF Maps, StageOf
  <2>3. OfTheFile(data, collect[c].id)
    BY <1>2, <2>2 DEF InfoInv, CallFits, OfTheFile, Calls
  <2> HIDE DEF data
  <2> QED
    BY <1>3, <2>1, <2>2, <2>3
<1>5. CASE Maps(c, yes, had) /\ ~yes
  <2> DEFINE call == [collect[c] EXCEPT !.stage = "reopen", !.handle = 0]
  <2>1. collect' = [collect EXCEPT ![c] = call]
    BY <1>5 DEF Maps
  <2>2. call \in Calls
    BY <1>2 DEF Calls, CallStages
  <2>3. /\ call.stage = "reopen" /\ call.hasId = collect[c].hasId /\ call.id = collect[c].id
        /\ call.mask = collect[c].mask /\ call.request = collect[c].request
    BY <1>2 DEF Calls
  <2>4. collect'[c] = call
    BY <2>1 DEF InfoInv, InfoTypes
  <2> HIDE DEF call
  <2>5. CallFits(c)'
    BY <1>2, <2>3, <2>4 DEF InfoInv, CallFits
  <2> QED
    BY <1>2, <2>1, <2>2, <2>5, CallGoesOn DEF unchangedFilesystem, InfoInv, InfoTypes
<1>6. CASE Reopens(c, yes, had) /\ yes
  <2> DEFINE data == [file |-> fileAt[collect[c].path], reopened |-> TRUE]
  <2>1. data \in Data /\ data.reopened
    BY <1>2, FileInformationAssumption DEF Calls, Data, InfoInv, InfoTypes, Files
  <2>2. ComputesFrom(c, data, had)
    BY <1>6 DEF Reopens
  <2> HIDE DEF data
  <2> QED
    BY <1>3, <2>1, <2>2
<1>7. CASE Reopens(c, yes, had) /\ ~yes
  BY <1>2, <1>7, ReturnKeeps DEF Reopens
<1> QED
  BY <1>1, <1>4, <1>5, <1>6, <1>7

\* The least of some slots is one of them.
LEMMA LeastSlot ==
    ASSUME NEW T, T \subseteq InfoSlots, T # {}
    PROVE  Min(T) \in T
<1>1. T \subseteq Nat
  BY FileInformationAssumption DEF InfoSlots
<1>2. \E m \in T : \A k \in T : m <= k
  BY <1>1, LeastNatural
<1> QED
  BY <1>2 DEF Min

\* An entry of the path that is stored, if there is one, is what the new one replaces.
LEMMA SlotReplaces ==
    ASSUME InfoInv, NEW c \in Collectors, NEW j \in InfoSlots, SamePath(entries[j], c)
    PROVE  j = SlotFor(c)
<1>1. CASE ExactMatches(c) # {}
  <2>1. SlotFor(c) \in ExactMatches(c)
    BY <1>1, LeastSlot DEF SlotFor, ExactMatches
  <2> QED
    BY <2>1 DEF ExactMatches, SamePath, InfoInv, OnePerPath
<1>2. CASE ExactMatches(c) = {}
  <2>1. j \in StalePaths(c)
    BY <1>2 DEF ExactMatches, StalePaths
  <2>2. SlotFor(c) \in StalePaths(c)
    BY <1>2, <2>1, LeastSlot DEF SlotFor, StalePaths
  <2> QED
    BY <2>2 DEF StalePaths, SamePath, InfoInv, OnePerPath
<1> QED
  BY <1>1, <1>2

\* What is stored, and kept of the same file's entry, is of that file.
LEMMA MergedFits ==
    ASSUME InfoInv, NEW c \in Collectors, NEW i, StageOf(c) = "store"
    PROVE  /\ Merged(c, i) \in Entries /\ EntryFits(Merged(c, i))
           /\ Merged(c, i).path = collect[c].path
<1> DEFINE call == collect[c]
           new == Available(c)
           kept == IF i \in ExactMatches(c) THEN entries[i].available \ new ELSE {}
           mask == IF "hashes" \in kept THEN entries[i].mask ELSE call.hashes.mask
           hashes == IF "hashes" \in kept THEN entries[i].hashes ELSE call.hashes
           info == IF "info" \in kept THEN entries[i].info ELSE call.info
           merged == [valid |-> TRUE, path |-> call.path, hasId |-> call.hasId, id |-> call.id,
                      available |-> new \cup kept, mask |-> mask, tick |-> clock + 1,
                      hashes |-> hashes, info |-> info]
<1>1. call \in Calls /\ call.stage = "store" /\ call # NoCall
  <2>1. NoCall.stage = "idle"
    BY DEF NoCall
  <2> QED
    BY <2>1, CallTyped DEF StageOf
<1>2. Merged(c, i) = merged
  BY DEF Merged
<1>3. /\ call.path \in InfoPaths /\ call.hasId \in BOOLEAN /\ call.id \in Nat
      /\ call.hashes \in Hashes /\ call.info \in Data /\ clock + 1 \in Nat
  BY <1>1 DEF Calls, InfoInv, InfoTypes
<1>4. new \subseteq Kinds /\ ("hashes" \in new <=> call.hashes # NoHashes)
  BY DEF Available, Kinds
<1>5. i \in ExactMatches(c) => /\ entries[i] \in Entries /\ entries[i].id = call.id
                              /\ EntryFits(entries[i]) /\ entries[i].valid
  BY DEF ExactMatches, SamePath, SameFile, InfoInv, InfoTypes, NoInfo
<1>6. /\ HashesFit(call.hashes, call.mask, call.id)
      /\ OfTheFile(call.info, call.id)
  BY <1>1 DEF InfoInv, CallFits
<1>7. kept \subseteq Kinds /\ ("hashes" \in kept \/ "info" \in kept => i \in ExactMatches(c))
  BY <1>5 DEF Entries
<1>8. "hashes" \in kept => "hashes" \in entries[i].available
  OBVIOUS
<1> HIDE DEF call, new, kept
<1>9. mask \in HashMasks \cup {"none"} /\ hashes \in Hashes /\ info \in Data
  BY <1>3, <1>5, <1>7 DEF Hashes, Entries
<1>10. /\ "hashes" \in new \cup kept => hashes # NoHashes /\ hashes.mask = mask
       /\ OfTheFile(hashes.of, call.id) /\ OfTheFile(info, call.id)
  <2>1. CASE "hashes" \in kept
    BY <1>5, <1>6, <1>7, <1>8, <2>1 DEF EntryFits
  <2>2. CASE "hashes" \notin kept
    BY <1>4, <1>5, <1>6, <1>7, <2>2 DEF EntryFits, HashesFit
  <2> QED
    BY <2>1, <2>2
<1> HIDE DEF mask, hashes, info
<1>11. merged \in Entries
  BY <1>3, <1>4, <1>7, <1>9 DEF Entries
<1>12. EntryFits(merged) /\ merged.path = call.path
  BY <1>10 DEF EntryFits
<1> QED
  BY <1>2, <1>11, <1>12 DEF call

\* A store keeps one entry for a path.
LEMMA StoringKeeps ==
    ASSUME InfoInv, NEW c \in Collectors, Stores(c)
    PROVE  InfoInv'
<1>1. StageOf(c) = "store" /\ Returns(c) /\ unchangedFilesystem
  BY DEF Stores
<1>2. CASE Available(c) = {}
  BY <1>1, <1>2, ReturnKeeps DEF Stores
<1>3. CASE Available(c) # {}
  <2> DEFINE i == SlotFor(c)
             entry == Merged(c, i)
  <2>1. entries' = [entries EXCEPT ![i] = entry] /\ clock' = clock + 1
    BY <1>3 DEF Stores
  <2>2. entry \in Entries /\ EntryFits(entry) /\ entry.path = collect[c].path
    BY <1>1, MergedFits
  <2>3. \A j \in InfoSlots : SamePath(entries[j], c) => j = i
    BY SlotReplaces
  <2> HIDE DEF i, entry
  <2>4. \A j \in InfoSlots : entries'[j] = IF j = i THEN entry ELSE entries[j]
    BY <2>1 DEF InfoInv, InfoTypes
  <2>5. OnePerPath'
    <3> SUFFICES ASSUME NEW j \in InfoSlots, NEW k \in InfoSlots, entries'[j].valid,
                        entries'[k].valid, entries'[j].path = entries'[k].path
                 PROVE  j = k
      BY DEF OnePerPath
    <3>1. CASE j = i
      BY <2>2, <2>3, <2>4, <3>1 DEF SamePath
    <3>2. CASE k = i
      BY <2>2, <2>3, <2>4, <3>2 DEF SamePath
    <3>3. CASE j # i /\ k # i
      BY <2>4, <3>3 DEF InfoInv, OnePerPath
    <3> QED
      BY <3>1, <3>2, <3>3
  <2>6. ASSUME NEW j \in InfoSlots PROVE EntryFits(entries[j])'
    <3>1. CASE j = i
      BY <2>2, <2>4, <3>1 DEF EntryFits
    <3>2. CASE j # i
      BY <2>4, <3>2 DEF InfoInv, EntryFits
    <3> QED
      BY <3>1, <3>2
  <2>7. collect' = [collect EXCEPT ![c] = NoCall]
    BY <1>1 DEF Returns
  <2>8. clock' \in Nat
    BY <2>1 DEF InfoInv, InfoTypes
  <2>9. InfoTypes'
    BY <1>1, <2>1, <2>2, <2>7, <2>8 DEF InfoInv, InfoTypes, unchangedFilesystem
  <2>10. ASSUME NEW d \in Collectors PROVE CallFits(d)'
    BY <2>7 DEF InfoInv, InfoTypes, CallFits
  <2> QED
    BY <2>5, <2>6, <2>9, <2>10 DEF InfoInv
<1> QED
  BY <1>2, <1>3

\* Files are replaced and the algorithm is changed, and neither is in the cache.
LEMMA MeanwhileKeeps ==
    ASSUME InfoInv, fileAt' \in [InfoPaths -> Files], algorithm' \in HashMasks,
           UNCHANGED <<collect, entries, clock>>
    PROVE  InfoInv'
  BY DEF InfoInv, InfoTypes, OnePerPath, CallFits, EntryFits

\* Every step keeps the invariant.
LEMMA InfoStep ==
    ASSUME InfoInv, [InfoNext]_infoVars
    PROVE  InfoInv'
<1>1. CASE UNCHANGED infoVars
  BY <1>1, MeanwhileKeeps DEF infoVars, InfoInv, InfoTypes
<1>2. ASSUME NEW p \in InfoPaths, Replaced(p) PROVE InfoInv'
  <2>1. fileAt' \in [InfoPaths -> Files] /\ UNCHANGED <<algorithm, collect, entries, clock>>
    BY <1>2 DEF Replaced, unchangedCache, InfoInv, InfoTypes
  <2> QED
    BY <2>1, MeanwhileKeeps DEF InfoInv, InfoTypes
<1>3. CASE Reconfigured
  BY <1>3, MeanwhileKeeps DEF Reconfigured, unchangedCache, InfoInv, InfoTypes, HashMasks
<1>4. ASSUME NEW c \in Collectors, CollectStep(c) PROVE InfoInv'
  <2>1. \/ \E p \in InfoPaths, request \in Requested : Asks(c, p, request)
        \/ \E yes, hasId \in BOOLEAN : Opens(c, yes, hasId)
        \/ \/ ClaimsEvent(c) \/ InitializesEvent(c) \/ ClaimsCache(c) \/ InitializesCache(c)
           \/ SetsEvent(c) \/ WaitsForCache(c)
        \/ Lookup(c) \/ Stores(c)
        \/ \E yes \in BOOLEAN, had \in SUBSET {"hashes", "info"} : Maps(c, yes, had) \/ Reopens(c, yes, had)
    BY <1>4, Zenon DEF CollectStep
  <2> QED
    BY <2>1, BeginningKeeps, SettingUpKeeps, LookupKeeps, StoringKeeps, ComputingKeeps
<1> QED
  BY <1>1, <1>2, <1>3, <1>4 DEF InfoNext

\* The cache of file information holds one entry for a path, with hashes of its mask and
\* contents of the file it identifies (SysmonStoreFileInfoCache in fileinfo.c).
THEOREM FileInfoIsAlwaysSound == InfoSpec => []FileInfoIsSound
<1>1. InfoInv /\ [InfoNext]_infoVars => InfoInv'
  BY InfoStep
<1>2. InfoInv => FileInfoIsSound
  BY DEF InfoInv, OnePerPath, EntryFits, FileInfoIsSound
<1> QED
  BY InfoInitially, <1>1, <1>2, PTL DEF InfoSpec
=============================================================================
