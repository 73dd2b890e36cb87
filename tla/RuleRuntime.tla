------------------------------ MODULE RuleRuntime ------------------------------
(***************************************************************************)
(* The driver's configuration (SysmonDrv/src/registry_data.c, driver.c):   *)
(* CONFIG_NOTIFY reads the registry, replaces the rule runtime and the     *)
(* producer flags, waits for the readers of the old runtime and frees it,  *)
(* and brings the registered callbacks in line with the flags.  Callbacks  *)
(* read the runtime under its rundown protection while the driver may      *)
(* reload, or shut down.                                                   *)
(*                                                                         *)
(* A runtime is known by its number; its rules are the set of events they  *)
(* can log.  Values that only decide what an event contains are left out.  *)
(***************************************************************************)
EXTENDS Integers, FiniteSets, Sequences, SequencesExt

CONSTANTS
    Registries,     \* the contents the configuration key can have
    Reloaders,      \* threads that issue CONFIG_NOTIFY
    Callbacks,      \* threads inside a notification callback
    MaxRuntimes,    \* bound: rule runtimes created
    Entry, Unload   \* the threads of DriverEntry and of the driver's unload

DwordNames == <<"enabled", "process", "thread", "image", "registry", "file">>

ASSUME RegistryShape ==
    \A r \in Registries :
      /\ r.key \in {"found", "missing", "unreadable"}
      /\ r.dwords \in [1 .. Len(DwordNames) -> {"absent", "mistyped", "0", "1"}]
      /\ r.rules.kind \in {"absent", "refused", "empty", "blob"}

VARIABLES
    runtimes,       \* for each runtime created: readers, flags, freed or not
    runtime,        \* g_Context.RuleRuntime, 0 for none
    producerFlags,  \* g_Context.ProducerFlags
    armed,          \* callbacks registered with the kernel
    missing,        \* registrations the last synchronisation failed at
    loader,         \* the threads that load, register and tear down
    accessFilter,   \* the runtime the filter of process accesses was loaded with
    regLock,        \* owner of RegistrationLock
    reader          \* the threads inside callbacks

runtimeVars == <<runtimes, runtime, producerFlags, armed, missing,
                 loader, accessFilter, regLock, reader>>

Loaders == Reloaders \cup {Entry, Unload}
Free == "free"

ASSUME ThreadsAssumption ==
    /\ Entry # Unload /\ {Entry, Unload} \cap Reloaders = {} /\ Free \notin Loaders
    /\ IsFiniteSet(Callbacks)

RuntimeInit ==
    /\ runtimes = <<>>
    /\ runtime = 0
    /\ producerFlags = {"enabled"}
    /\ armed = {}
    /\ missing = {}
    /\ loader = [t \in Loaders |-> [pc |-> IF t = Entry THEN "open" ELSE "idle",
                                    read |-> {}, new |-> 0, old |-> 0, source |-> "none"]]
    /\ accessFilter = 0
    /\ regLock = Free
    /\ reader = [c \in Callbacks |-> [pc |-> "out", source |-> "none",
                                      holds |-> 0]]

-----------------------------------------------------------------------------
(* From the registry to the flags.                                         *)

\* SysmonReadRegDword fills the caller's variable only if the value is a DWORD,
\* and reports success all the same: a mistyped value is read as the one read
\* before it, which "carry" is for the first.
ReadDwords(values, carry) ==
    FoldLeft(LAMBDA acc, i :
               CASE values[i] = "absent" -> acc
                 [] values[i] = "mistyped" ->
                      [acc EXCEPT !.read = @ \cup {<<DwordNames[i], acc.carry>>}]
                 [] OTHER ->
                      [carry |-> values[i], read |-> acc.read \cup {<<DwordNames[i], values[i]>>}],
             [carry |-> carry, read |-> {}],
             [i \in 1 .. Len(values) |-> i]).read

\* The events that make SysmonDeriveConfigFromRules turn a producer on.
FlagEvents ==
    [process |-> {"ProcessCreate", "NetworkConnect", "RawAccessRead", "ProcessTerminate",
                  "ImageLoad", "PipeCreated", "PipeConnected", "DnsQuery", "FileDelete",
                  "ClipboardChange", "FileDeleteDetected", "FileBlockExecutable",
                  "FileBlockShredding", "FileExecutableDetected"},
     thread |-> {"ProcessCreate", "CreateThread"},
     image |-> {"DriverLoad", "ImageLoad"},
     registry |-> {"RegistryEvent", "RegistryValueSet", "RegistryRename"},
     file |-> {"FileCreateTime", "RawAccessRead", "FileCreate", "FileCreateStreamHash",
               "PipeCreated", "PipeConnected", "FileDelete", "FileDeleteDetected",
               "FileBlockExecutable", "FileBlockShredding", "FileExecutableDetected"},
     access |-> {"ProcessAccess"},
     tampering |-> {"ProcessTampering"}]

\* An absent blob; a blob is "empty" when it has no event rules.
NoRules == [kind |-> "absent", loggable |-> {}]

\* SysmonDeriveConfigFromRules: event rules decide alone; the DWORDs of the
\* legacy configuration count only where there are none.  They count under a
\* blob without event rules too, since the function returns at once there, where
\* the comment of its caller has them count only when no blob exists
\* (registry_data.c 766 against 1104-1107).
DeriveFlags(read, rules) ==
    LET legacy == {p[1] : p \in {q \in read : q[2] = "1"}} \ {"enabled"}
        producers == IF rules.kind # "blob" THEN legacy
                     ELSE {f \in DOMAIN FlagEvents : FlagEvents[f] \cap rules.loggable # {}}
    IN (IF <<"enabled", "0">> \in read THEN {} ELSE {"enabled"})
         \cup producers
         \cup (IF "tampering" \in producers THEN {"image"} ELSE {})

-----------------------------------------------------------------------------
(* SysmonHandleConfigNotify and SysmonLoadConfiguration.                   *)

ReloaderAt(t, pc) == loader' = [loader EXCEPT ![t].pc = pc]

\* DriverEntry is over, and the device is open to clients.
NotifyStart(t) ==
    /\ loader[t].pc = "idle" /\ loader[Entry].pc = "done"
    /\ loader[Unload].pc = "idle"
    /\ Len(runtimes) + Cardinality({u \in Reloaders : loader[u].pc \in {"lock", "open"}})
         < MaxRuntimes
    /\ ReloaderAt(t, "lock")
    /\ UNCHANGED <<accessFilter, runtimes, runtime, producerFlags, armed,
                   missing, regLock, reader>>

NotifyLock(t) ==
    /\ loader[t].pc = "lock" /\ regLock = Free
    /\ regLock' = t
    /\ ReloaderAt(t, "open")
    /\ UNCHANGED <<accessFilter, runtimes, runtime, producerFlags, armed,
                   missing, reader>>

\* An empty runtime, the key, the DWORDs.  The service writes the key one value
\* after the other, so that the rules need not be of the same configuration.
LoadDwords(t) ==
    /\ loader[t].pc = "open"
    /\ \E key \in Registries, carry \in {"0", "1"} :
         /\ runtimes' = Append(runtimes, [readers |-> 0, freed |-> FALSE,
                                         flags |-> DeriveFlags({}, NoRules)])
         /\ loader' = [loader EXCEPT ![t] =
              [pc |-> CASE key.key = "found" -> "values"
                        [] key.key = "missing" -> "apply"
                        [] OTHER -> "fail",
               read |-> IF key.key = "found" THEN ReadDwords(key.dwords, carry) ELSE {},
               new |-> Len(runtimes) + 1, old |-> @.old, source |-> @.source]]
    /\ UNCHANGED <<accessFilter, runtime, producerFlags, armed, missing, regLock,
                   reader>>

\* What reading a string, a list or a binary value can end with.
ReadStatus == {"success", "not found", "type mismatch", "failure"}

\* ArchiveDirectory, CopyOnDelete*, ProcessAccess*: absent ones and ones of the
\* wrong type are done without.
LoadValues(t) ==
    /\ loader[t].pc = "values"
    /\ \E status \in ReadStatus : ReloaderAt(t, IF status = "failure" THEN "fail" ELSE "rules")
    /\ UNCHANGED <<runtimes, runtime, producerFlags, armed, missing,
                   accessFilter, regLock, reader>>

\* The rules blob: it may be absent, but not of the wrong type, and not one that
\* SysmonLoadRuleRuntime refuses.
LoadRules(t) ==
    /\ loader[t].pc = "rules"
    /\ \E key \in Registries, status \in ReadStatus :
         IF \/ status = "not found"
            \/ status = "success" /\ key.rules.kind \in {"empty", "blob"}
         THEN /\ ReloaderAt(t, "apply")
              /\ runtimes' = [runtimes EXCEPT ![loader[t].new].flags =
                   DeriveFlags(loader[t].read,
                               IF status = "success" THEN key.rules ELSE NoRules)]
         ELSE ReloaderAt(t, "fail") /\ UNCHANGED runtimes
    /\ UNCHANGED <<runtime, producerFlags, armed, missing, accessFilter, regLock,
                   reader>>

\* The label apply_config: an archive directory that is no good is ignored, lists
\* that cannot be split end the reload.
ApplyConfig(t) ==
    /\ loader[t].pc = "apply"
    /\ ReloaderAt(t, "swap") \/ ReloaderAt(t, "fail")
    /\ UNCHANGED <<runtimes, runtime, producerFlags, armed, missing,
                   accessFilter, regLock, reader>>

\* Faulty variant, for the mutation runs: the flags are out when the reload
\* comes to its failure.
FailPublished(t) ==
    /\ loader[t].pc = "fail"
    /\ producerFlags' = DeriveFlags(loader[t].read, NoRules)
    /\ runtimes' = [runtimes EXCEPT ![loader[t].new].freed = TRUE]
    /\ loader' = [loader EXCEPT ![t] = [pc |-> IF t = Entry THEN "register" ELSE "unlock",
                                        read |-> {}, new |-> 0, old |-> @.old,
                                        source |-> @.source]]
    /\ UNCHANGED <<accessFilter, runtime, armed, missing, regLock, reader>>

\* The cleanup label of SysmonLoadConfiguration with the new runtime in hand.
LoadFails(t) ==
    /\ loader[t].pc = "fail"
    /\ runtimes' = [runtimes EXCEPT ![loader[t].new].freed = TRUE]
    /\ loader' = [loader EXCEPT ![t] = [pc |-> IF t = Entry THEN "register" ELSE "unlock",
                                        read |-> {}, new |-> 0, old |-> @.old,
                                        source |-> @.source]]
    /\ UNCHANGED <<accessFilter, runtime, producerFlags, armed, missing, regLock,
                   reader>>

\* Under RuleLock: the runtime, all flags in one exchange, the scalars.
LoadSwap(t) ==
    /\ loader[t].pc = "swap"
    /\ runtime' = loader[t].new
    /\ producerFlags' = runtimes[loader[t].new].flags
    /\ loader' = [loader EXCEPT ![t] = [pc |-> "filter", read |-> {}, new |-> 0,
                                        old |-> runtime, source |-> @.source]]
    /\ UNCHANGED <<accessFilter, runtimes, armed, missing, regLock, reader>>

\* SysmonApplyProcessAccessFilter: under a lock of its own, after the swap.
ApplyProcessAccessFilter(t) ==
    /\ loader[t].pc = "filter"
    /\ accessFilter' = runtime
    /\ ReloaderAt(t, "free")
    /\ UNCHANGED <<runtimes, runtime, producerFlags, armed, missing, regLock,
                   reader>>

\* A reload goes on to the registrations, DriverEntry to its own.
AfterLoad(t) == CASE t = Entry -> "register" [] t = Unload -> "done" [] OTHER -> "drop"

\* Faulty variant: the old runtime is freed without the wait.
FreeAtOnce(t) ==
    /\ loader[t].pc = "free"
    /\ runtimes' = IF loader[t].old = 0 THEN runtimes
                   ELSE [runtimes EXCEPT ![loader[t].old].freed = TRUE]
    /\ loader' = [loader EXCEPT ![t] =
                    [pc |-> AfterLoad(t), read |-> @.read, new |-> @.new, old |-> 0,
                     source |-> @.source]]
    /\ UNCHANGED <<accessFilter, runtime, producerFlags, armed, missing, regLock,
                   reader>>

\* ExWaitForRundownProtectionRelease on the old runtime, and its end.
FreeOld(t) ==
    /\ loader[t].pc = "free"
    /\ loader[t].old # 0 => runtimes[loader[t].old].readers = 0
    /\ runtimes' = IF loader[t].old = 0 THEN runtimes
                   ELSE [runtimes EXCEPT ![loader[t].old].freed = TRUE]
    /\ loader' = [loader EXCEPT ![t] =
                    [pc |-> AfterLoad(t), read |-> @.read, new |-> @.new, old |-> 0,
                     source |-> @.source]]
    /\ UNCHANGED <<accessFilter, runtime, producerFlags, armed, missing, regLock,
                   reader>>

-----------------------------------------------------------------------------
(* SysmonSyncMonitoringRegistration.                                       *)

\* Network, DNS and clipboard have no producer in the driver; the thread
\* callback also completes process creations.
Asked(flags) ==
    (flags \cap {"process", "image", "registry", "access", "tampering"})
      \cup (IF flags \cap {"process", "thread"} # {} THEN {"thread"} ELSE {})

Needed(flags) == IF "enabled" \in flags THEN Asked(flags) ELSE {}

\* What is unregistered: the minifilter never, process access and tampering only
\* when everything is disabled; everything by the unload.
Dropped(t) ==
    IF t = Unload THEN armed
    ELSE armed \ (IF "enabled" \in producerFlags
                  THEN Needed(producerFlags) \cup {"file", "access", "tampering"}
                  ELSE {"file"})

\* An unregistration first keeps new callbacks out, then waits for those inside.
SyncDrop(t) ==
    /\ loader[t].pc = "drop"
    /\ \E s \in Dropped(t) :
         /\ armed' = armed \ {s}
         /\ loader' = [loader EXCEPT ![t] = [pc |-> "wait", read |-> @.read, new |-> @.new,
                                             old |-> @.old, source |-> s]]
    /\ UNCHANGED <<accessFilter, runtimes, runtime, producerFlags, missing, regLock,
                   reader>>

SyncWait(t) ==
    /\ loader[t].pc = "wait"
    /\ \A c \in Callbacks : reader[c].source # loader[t].source
    /\ loader' = [loader EXCEPT ![t] = [pc |-> "drop", read |-> @.read, new |-> @.new,
                                        old |-> @.old, source |-> "none"]]
    /\ UNCHANGED <<accessFilter, runtimes, runtime, producerFlags, armed,
                   missing, regLock, reader>>

\* A registration that fails is reported; the others are made all the same.
SyncAdd(t) ==
    /\ t \in Reloaders /\ loader[t].pc = "drop" /\ Dropped(t) = {}
    /\ missing' \in SUBSET (Needed(producerFlags) \ armed)
    /\ armed' = armed \cup (Needed(producerFlags) \ missing')
    /\ ReloaderAt(t, "unlock")
    /\ UNCHANGED <<accessFilter, runtimes, runtime, producerFlags, regLock, reader>>

\* SysmonHandleConfigNotify: the lock and the rundown reference are given back.
NotifyEnd(t) ==
    /\ loader[t].pc = "unlock"
    /\ regLock' = Free
    /\ ReloaderAt(t, "idle")
    /\ UNCHANGED <<accessFilter, runtimes, runtime, producerFlags, armed,
                   missing, reader>>

-----------------------------------------------------------------------------
(* DriverEntry and SysmonDriverCleanupInternal.                            *)

\* The filter and the process callback are required; the rest may fail.  The
\* global switch is not looked at: callbacks that are off find out by themselves.
EntryRegister ==
    /\ loader[Entry].pc = "register"
    /\ \E failed \in SUBSET (Asked(producerFlags) \cup {"file"}) :
         IF {"file", "process"} \cap failed # {}
         THEN /\ loader' = [loader EXCEPT ![Entry].pc = "failed",
                                          ![Unload].pc = "rundown"]
              /\ producerFlags' = producerFlags \ {"enabled"}
              /\ armed' = {"file"} \ failed
              /\ UNCHANGED missing
         ELSE /\ armed' = (Asked(producerFlags) \cup {"file"}) \ failed
              /\ missing' = failed
              /\ ReloaderAt(Entry, "done")
              /\ UNCHANGED producerFlags
    /\ UNCHANGED <<accessFilter, runtimes, runtime, regLock, reader>>

\* Faulty variant: the unload takes RegistrationLock and then waits.
UnloadTakesLock ==
    /\ loader[Unload].pc = "rundown" /\ regLock = Free
    /\ regLock' = Unload
    /\ ReloaderAt(Unload, "lock")
    /\ UNCHANGED <<accessFilter, runtimes, runtime, producerFlags, armed,
                   missing, reader>>

UnloadStart ==
    /\ loader[Entry].pc = "done" /\ loader[Unload].pc = "idle"
    /\ producerFlags' = producerFlags \ {"enabled"}
    /\ ReloaderAt(Unload, "rundown")
    /\ UNCHANGED <<accessFilter, runtimes, runtime, armed, missing, regLock,
                   reader>>

\* Every reload holds a rundown reference from its start to its end.
UnloadWait ==
    /\ loader[Unload].pc = "rundown"
    /\ \A t \in Reloaders : loader[t].pc = "idle"
    /\ ReloaderAt(Unload, "lock")
    /\ UNCHANGED <<accessFilter, runtimes, runtime, producerFlags, armed,
                   missing, regLock, reader>>

UnloadLock ==
    /\ loader[Unload].pc = "lock" /\ regLock = Free
    /\ regLock' = Unload
    /\ ReloaderAt(Unload, "drop")
    /\ UNCHANGED <<accessFilter, runtimes, runtime, producerFlags, armed,
                   missing, reader>>

\* Everything is unregistered; the runtime is taken under RuleLock.
UnloadTake ==
    /\ loader[Unload].pc = "drop" /\ Dropped(Unload) = {}
    /\ regLock' = Free
    /\ loader' = [loader EXCEPT ![Unload] = [pc |-> "free", read |-> @.read, new |-> @.new,
                                             old |-> runtime, source |-> @.source]]
    /\ runtime' = 0
    /\ UNCHANGED <<accessFilter, runtimes, producerFlags, armed, missing,
                   reader>>

-----------------------------------------------------------------------------
(* A callback of a registered source.                                      *)

CallbackEnter(c) ==
    /\ reader[c].pc = "out"
    /\ \E s \in armed :
         reader' = [reader EXCEPT ![c] = [pc |-> "gate", source |-> s, holds |-> @.holds]]
    /\ UNCHANGED <<accessFilter, runtimes, runtime, producerFlags, armed,
                   missing, loader, regLock>>

Leave(c) == reader' = [reader EXCEPT ![c] = [pc |-> "out", source |-> "none", holds |-> 0]]

\* SysmonIsProducerEnabled(SYSMON_FLAG_ENABLED), then the same for the source's
\* own flag.
CallbackEnabled(c) ==
    /\ reader[c].pc = "gate"
    /\ IF "enabled" \in producerFlags
       THEN reader' = [reader EXCEPT ![c].pc = "gate2"]
       ELSE Leave(c)
    /\ UNCHANGED <<accessFilter, runtimes, runtime, producerFlags, armed,
                   missing, loader, regLock>>

CallbackFlag(c) ==
    /\ reader[c].pc = "gate2"
    /\ IF reader[c].source \in producerFlags
       THEN reader' = [reader EXCEPT ![c].pc = "acquire"]
       ELSE Leave(c)
    /\ UNCHANGED <<accessFilter, runtimes, runtime, producerFlags, armed,
                   missing, loader, regLock>>

\* SysmonAcquireRuleRuntimeSnapshot: under RuleLock.
AcquireSnapshot(c) ==
    /\ reader[c].pc = "acquire"
    /\ IF runtime = 0 THEN Leave(c) /\ UNCHANGED runtimes
       ELSE /\ runtimes' = [runtimes EXCEPT ![runtime].readers = @ + 1]
            /\ reader' = [reader EXCEPT ![c] = [pc |-> "evaluate", source |-> @.source,
                                                holds |-> runtime]]
    /\ UNCHANGED <<accessFilter, runtime, producerFlags, armed, missing, loader,
                   regLock>>

ReleaseSnapshot(c) ==
    /\ reader[c].pc = "evaluate"
    /\ runtimes' = [runtimes EXCEPT ![reader[c].holds].readers = @ - 1]
    /\ Leave(c)
    /\ UNCHANGED <<accessFilter, runtime, producerFlags, armed, missing, loader,
                   regLock>>

-----------------------------------------------------------------------------

LoaderStep(t) ==
    \/ LoadDwords(t) \/ LoadValues(t) \/ LoadRules(t) \/ ApplyConfig(t) \/ LoadFails(t)
    \/ LoadSwap(t) \/ ApplyProcessAccessFilter(t) \/ FreeOld(t)
    \/ SyncDrop(t) \/ SyncWait(t) \/ SyncAdd(t)
    \/ t \in Reloaders /\ (NotifyLock(t) \/ NotifyEnd(t))

UnloadStep == UnloadWait \/ UnloadLock \/ UnloadTake

CallbackStep(c) ==
    CallbackEnabled(c) \/ CallbackFlag(c) \/ AcquireSnapshot(c) \/ ReleaseSnapshot(c)

RuntimeNext ==
    \/ \E t \in Loaders : LoaderStep(t)
    \/ \E t \in Reloaders : NotifyStart(t)
    \/ \E c \in Callbacks : CallbackEnter(c) \/ CallbackStep(c)
    \/ EntryRegister \/ UnloadStart \/ UnloadStep

RuntimeSpec == RuntimeInit /\ [][RuntimeNext]_runtimeVars

\* A thread inside the driver goes on; fast mutexes are fair.
RuntimeFairness ==
    /\ \A t \in Loaders : WF_runtimeVars(LoaderStep(t))
    /\ \A t \in Reloaders : SF_runtimeVars(NotifyLock(t))
    /\ \A c \in Callbacks : WF_runtimeVars(CallbackStep(c))
    /\ WF_runtimeVars(EntryRegister) /\ WF_runtimeVars(UnloadStep)

-----------------------------------------------------------------------------
(* Properties.                                                             *)

\* A runtime a callback evaluates is not freed behind its back, however reloads
\* and the unload overlap with it (registry_data.c 1183-1186, driver.c 578-603).
RuntimeInUseIsAlive ==
    \A c \in Callbacks : reader[c].holds # 0 => ~runtimes[reader[c].holds].freed

\* Every runtime is freed, in force, or in the hands of one loader: a reload
\* that fails half-way leaks none and frees none twice.
RuntimesAccounted ==
    \A i \in DOMAIN runtimes :
      LET owners == {t \in Loaders : i \in {loader[t].new, loader[t].old}}
      IN /\ Cardinality(owners) + (IF runtime = i THEN 1 ELSE 0)
              = IF runtimes[i].freed THEN 0 ELSE 1
         /\ runtimes[i].readers = Cardinality({c \in Callbacks : reader[c].holds = i})

\* Outside a shutdown the flags in force are those of the runtime in force: no
\* reload, failed ones included, leaves one without the other.
FlagsAreOfTheRuntime ==
    loader[Unload].pc = "idle" /\ runtime # 0 => producerFlags = runtimes[runtime].flags

\* After a reload every source that is on is registered, or was reported as
\* failed, every other one that can be unregistered is, nothing but the filter is
\* left when all is off, and the access filter is that of the rules (driver.c
\* 295-520, registry_data.c 1157-1161).  The first runtime is DriverEntry's.
RegistrationFollowsFlags ==
    (regLock = Free /\ loader[Entry].pc = "done" /\ loader[Unload].pc = "idle") =>
      /\ accessFilter = runtime
      /\ Needed(producerFlags) \subseteq armed \cup missing
      /\ armed \subseteq Asked(producerFlags) \cup {"file", "access", "tampering"}
      /\ runtime > 1 /\ "enabled" \notin producerFlags => armed \subseteq {"file"}

\* A driver that is unloaded leaves no callback, no reader and no runtime
\* behind, even if a reload switched everything on again after the unload began.
UnloadedIsQuiet ==
    loader[Unload].pc = "done" =>
      /\ armed = {} /\ runtime = 0 /\ regLock = Free
      /\ \A c \in Callbacks : reader[c].pc = "out"
      /\ \A i \in DOMAIN runtimes : runtimes[i].freed

\* A rule runtime is freed once, after its last reader, and none is left when
\* the driver has gone (registry_data.c 1166-1198, driver.c 646-708).
RuntimesAreSafe == RuntimeInUseIsAlive /\ RuntimesAccounted /\ UnloadedIsQuiet

\* What is switched on is what the rules in force ask for (registry_data.c
\* 695-835, 1131-1166), or the DWORDs read with them if they have no event
\* rules, be it that there is no blob or that it is empty.
FlagsInForce == FlagsAreOfTheRuntime /\ RegistrationFollowsFlags

\* An unload ends: it does not wait for a reload that waits for it (the deadlock
\* the comment at driver.c 659-665 speaks of).
UnloadEnds == loader[Unload].pc = "rundown" ~> loader[Unload].pc = "done"

\* Violated: a callback that passes both tests found both flags set by one
\* configuration ("can never observe a cross-generation mix", registry_data.c
\* 1143-1145).
FlagsOfOneGeneration ==
    \A c \in Callbacks :
      reader[c].pc = "acquire" =>
        \E i \in DOMAIN runtimes : {"enabled", reader[c].source} \subseteq runtimes[i].flags
=============================================================================
