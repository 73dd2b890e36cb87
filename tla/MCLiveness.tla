------------------------------ MODULE MCLiveness ------------------------------
(* Small instances for the liveness properties.  Each behaviour is one of  *)
(* one component, named by part; the others keep their initial states.     *)
EXTENDS ImageWorkers, MCRuleRuntime, SourceWorker, SigningPipeline, Service

VARIABLE part

MCInit ==
    /\ part \in {"image", "runtime", "source", "signing", "service"}
    /\ Init /\ RuntimeInit /\ SourceInit /\ SignInit /\ ServiceInit
    /\ part = "source" \/ source = "thread"
    /\ stored.config = [rules |-> "good", wants |-> {}]

MCNext ==
    /\ UNCHANGED part
    /\ \/ /\ part = "image" /\ Next
          /\ UNCHANGED <<runtimeVars, sourceVars, signVars, serviceVars>>
       \/ /\ part = "runtime" /\ RuntimeNext
          /\ UNCHANGED <<vars, sourceVars, signVars, serviceVars>>
       \/ /\ part = "source" /\ SourceNext
          /\ UNCHANGED <<vars, runtimeVars, signVars, serviceVars>>
       \/ /\ part = "signing" /\ SignNext
          /\ UNCHANGED <<vars, runtimeVars, sourceVars, serviceVars>>
       \/ /\ part = "service" /\ ServiceNext
          /\ UNCHANGED <<vars, runtimeVars, sourceVars, signVars>>

\* The fairness of each component, as it states it, while it is the part.
MCFairness ==
    /\ \A p \in Producers :
          WF_vars(part = "image" /\ ~freedBusy /\ (CheckDepth(p) \/ Insert(p) \/ Reserve(p)))
    /\ \A t \in Threads : WF_vars(part = "image" /\ ~freedBusy /\ Worker(t))
    /\ WF_vars(part = "image" /\ ~freedBusy /\ (StopAccepting \/ Cleanup))
    /\ \A t \in Loaders : WF_runtimeVars(part = "runtime" /\ LoaderStep(t))
    /\ \A t \in Reloaders : SF_runtimeVars(part = "runtime" /\ NotifyLock(t))
    /\ \A c \in Callbacks : WF_runtimeVars(part = "runtime" /\ CallbackStep(c))
    /\ WF_runtimeVars(part = "runtime" /\ EntryRegister)
    /\ WF_runtimeVars(part = "runtime" /\ UnloadStep)
    /\ \A n \in Notifiers :
          WF_sourceVars(part = "source" /\ ~freedWhileBusy /\ NotifierStep(n))
    /\ \A w \in WorkThreads :
          WF_sourceVars(part = "source" /\ ~freedWhileBusy /\ WorkStep(w))
    /\ WF_sourceVars(part = "source" /\ ~freedWhileBusy /\ (AwaitIdle \/ DrainAndFree))
    /\ \A w \in SignWorkers : WF_signVars(part = "signing" /\ WorkerStep(w))
    /\ WF_signVars(part = "signing" /\ SignalWorkers)
    /\ WF_signVars(part = "signing" /\ PipelineCleaned)
    /\ WF_signVars(part = "signing" /\ StartFailureEnds)
    /\ WF_signVars(part = "signing" /\ signMain = "stopping" /\ SetStopEvent)
    /\ WF_serviceVars(part = "service" /\ ServiceWorker)
    /\ WF_serviceVars(part = "service" /\ ConfigMonitor)
    /\ WF_serviceVars(part = "service" /\ QueryThreadStops)
    /\ WF_serviceVars(part = "service" /\ MainWakes)
    /\ WF_serviceVars(part = "service" /\ MainEnds)
    /\ WF_serviceVars(part = "service" /\ StopSignalled)
    /\ WF_serviceVars(part = "service" /\ BackoffEnds)

MCSpec ==
    /\ MCInit
    /\ [][MCNext]_<<part, vars, runtimeVars, sourceVars, signVars, serviceVars>>
    /\ MCFairness
=============================================================================
