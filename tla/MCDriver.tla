------------------------------- MODULE MCDriver -------------------------------
(* Small instances of the driver's components beside the event channel.    *)
(* Each behaviour is one of one component, named by part; the others keep  *)
(* their initial states.                                                   *)
EXTENDS ImageWorkers, MCRuleRuntime, SourceWorker, ProcessCreate, Tampering, QueryChannel,
    FileBlock, FileInformation

VARIABLE part

OneFile == [o \in FileObjects |-> "file"]

MCInit ==
    /\ part \in {"image", "runtime", "source", "process", "tampering", "query", "files", "info"}
    /\ Init /\ RuntimeInit /\ SourceInit /\ ProcessInit /\ TamperInit /\ QueryInit
    /\ FileInit /\ InfoInit
    /\ part = "source" \/ source = "thread"
    /\ part = "process" \/ flags = "on"
    /\ part = "files" \/ mode = "watching"

MCNext ==
    /\ UNCHANGED part
    /\ \/ /\ part = "image" /\ Next
          /\ UNCHANGED <<runtimeVars, sourceVars, processVars, tamperVars, queryVars, fileVars,
                         infoVars>>
       \/ /\ part = "runtime" /\ RuntimeNext
          /\ UNCHANGED <<vars, sourceVars, processVars, tamperVars, queryVars, fileVars,
                         infoVars>>
       \/ /\ part = "source" /\ SourceNext
          /\ UNCHANGED <<vars, runtimeVars, processVars, tamperVars, queryVars, fileVars,
                         infoVars>>
       \/ /\ part = "process" /\ ProcessNext
          /\ UNCHANGED <<vars, runtimeVars, sourceVars, tamperVars, queryVars, fileVars,
                         infoVars>>
       \/ /\ part = "tampering" /\ TamperNext
          /\ UNCHANGED <<vars, runtimeVars, sourceVars, processVars, queryVars, fileVars,
                         infoVars>>
       \/ /\ part = "query" /\ QueryNext
          /\ UNCHANGED <<vars, runtimeVars, sourceVars, processVars, tamperVars, fileVars,
                         infoVars>>
       \/ /\ part = "files" /\ FileNext
          /\ UNCHANGED <<vars, runtimeVars, sourceVars, processVars, tamperVars, queryVars,
                         infoVars>>
       \/ /\ part = "info" /\ InfoNext
          /\ UNCHANGED <<vars, runtimeVars, sourceVars, processVars, tamperVars, queryVars,
                         fileVars>>

MCSpec == MCInit /\ [][MCNext]_<<part, vars, runtimeVars, sourceVars, processVars,
                                 tamperVars, queryVars, fileVars, infoVars>>
=============================================================================
