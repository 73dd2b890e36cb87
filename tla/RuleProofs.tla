------------------------------- MODULE RuleProofs -------------------------------
(***************************************************************************)
(* The rules in the driver, for any number of reloading threads, callbacks *)
(* and configurations and any file of rules.  A rule runtime is freed      *)
(* once, after its last reader, and none is left when the driver has gone; *)
(* what the driver has switched on is what the rules in force ask for; and *)
(* those rules are what the file says.                                     *)
(*                                                                         *)
(* RegistrationLock, the order of DriverEntry and the unload's wait leave  *)
(* one thread at a time between the creation of a runtime and the free of  *)
(* its predecessor (Exclusive), so that a runtime not yet freed is in      *)
(* force or in that thread's hands (InHand).  A callback gets hold of the  *)
(* runtime in force only, and the wait for its readers is a wait for all   *)
(* callbacks that hold it (Readers).  The unload takes the last runtime    *)
(* when nothing is registered and no callback is left inside (Quiet).      *)
(*                                                                         *)
(* The flags go with the runtime; the filter and the registrations follow  *)
(* them while the lock is still held (FlagsInv).                           *)
(*                                                                         *)
(* A file is parsed, laid out flat in a blob, indexed and scanned.  Each   *)
(* stage is put in closed form (EventRuleOfNode, IsBlob, IsBucket,         *)
(* DriverReadsGroup) and carried back to the file (FileArrives).           *)
(*                                                                         *)
(* The conditions of the rules compare a field with the values between the *)
(* separators of a text; the loop over its letters finds just those        *)
(* (TokensAreTheValues).                                                   *)
(***************************************************************************)
EXTENDS RuleRuntime, RuleEvaluation, RuleConditions, SequenceLemmas

\* A loader at one of these places has created a runtime, at one of those the
\* runtime it replaced.
Loading == {"values", "rules", "apply", "fail", "swap"}
Freeing == {"filter", "free"}
Locked == {"open", "drop", "wait", "unlock"} \cup Loading \cup Freeing

Shapes ==
    /\ \E F : runtimes \in Seq([readers : Int, freed : BOOLEAN, flags : F])
    /\ loader = [t \in Loaders |-> [pc |-> loader[t].pc, read |-> loader[t].read,
                                    new |-> loader[t].new, old |-> loader[t].old,
                                    source |-> loader[t].source]]
    /\ reader = [c \in Callbacks |-> [pc |-> reader[c].pc, source |-> reader[c].source,
                                      holds |-> reader[c].holds]]

Exclusive ==
    /\ \A t \in Reloaders : /\ loader[t].pc \in {"idle", "lock"} \cup Locked
                            /\ loader[t].pc \in Locked <=> regLock = t
    /\ loader[Entry].pc \in {"open", "register", "done", "failed"} \cup Loading \cup Freeing
    /\ loader[Unload].pc \in {"idle", "rundown", "lock", "drop", "wait", "free", "done"}
    /\ loader[Unload].pc \in {"drop", "wait"} <=> regLock = Unload
    /\ regLock \in Reloaders \cup {Unload, Free}
    /\ \/ loader[Entry].pc # "done"
       \/ loader[Unload].pc \notin {"idle", "rundown"}
       => \A t \in Reloaders : loader[t].pc = "idle"
    /\ loader[Entry].pc \notin {"done", "failed"} => loader[Unload].pc = "idle" /\ armed = {}

Alive(i) == i \in DOMAIN runtimes /\ ~runtimes[i].freed

InHand ==
    /\ \A t \in Loaders :
         /\ IF loader[t].pc \in Loading THEN Alive(loader[t].new) ELSE loader[t].new = 0
         /\ loader[t].old # 0 => loader[t].pc \in Freeing /\ Alive(loader[t].old)
         /\ loader[t].new # 0 => loader[t].new # runtime
         /\ loader[t].old # 0 => loader[t].old # runtime
    /\ runtime # 0 => Alive(runtime)
    /\ \A i \in DOMAIN runtimes :
         Alive(i) => i = runtime \/ \E t \in Loaders : i \in {loader[t].new, loader[t].old}

Holders(i) == {c \in Callbacks : reader[c].holds = i}

Readers ==
    /\ \A c \in Callbacks :
         /\ IF reader[c].pc = "evaluate" THEN Alive(reader[c].holds) ELSE reader[c].holds = 0
         /\ \A t \in Loaders : loader[t].new # 0 => reader[c].holds # loader[t].new
    /\ \A i \in DOMAIN runtimes : runtimes[i].readers = Cardinality(Holders(i))

Quiet ==
    /\ \A c \in Callbacks : reader[c].pc # "out" =>
         \/ reader[c].source \in armed
         \/ \E t \in Loaders : loader[t].pc = "wait" /\ reader[c].source = loader[t].source
    /\ loader[Unload].pc \in {"free", "done"} =>
         armed = {} /\ runtime = 0 /\ \A c \in Callbacks : reader[c].pc = "out"

RuntimeInv == Shapes /\ Exclusive /\ InHand /\ Readers /\ Quiet

-----------------------------------------------------------------------------
(* How the parts of the state move.                                        *)

\* A loader goes from place to place.
Goes(t, pc, read, new, old, source) ==
    loader' = [loader EXCEPT ![t] = [pc |-> pc, read |-> read, new |-> new, old |-> old,
                                     source |-> source]]

LEMMA LoaderGoes ==
    ASSUME Shapes, NEW t \in Loaders, NEW pc, NEW read, NEW new, NEW old, NEW source,
           Goes(t, pc, read, new, old, source)
    PROVE  /\ loader'[t].pc = pc /\ loader'[t].new = new /\ loader'[t].old = old
           /\ loader'[t].source = source
           /\ \A u \in Loaders : u # t => loader'[u] = loader[u]
           /\ loader' = [u \in Loaders |-> [pc |-> loader'[u].pc, read |-> loader'[u].read,
                                            new |-> loader'[u].new, old |-> loader'[u].old,
                                            source |-> loader'[u].source]]
<1> DEFINE l == [pc |-> pc, read |-> read, new |-> new, old |-> old, source |-> source]
<1>1. loader' = [u \in Loaders |-> IF u = t THEN l ELSE loader[u]]
  BY DEF Goes, Shapes
<1>2. \A u \in Loaders : loader[u] = [pc |-> loader[u].pc, read |-> loader[u].read,
                                      new |-> loader[u].new, old |-> loader[u].old,
                                      source |-> loader[u].source]
  BY DEF Shapes
<1> QED BY <1>1, <1>2

LEMMA LoaderIsAt ==
    ASSUME Shapes, NEW t \in Loaders, NEW pc, ReloaderAt(t, pc)
    PROVE  Goes(t, pc, loader[t].read, loader[t].new, loader[t].old, loader[t].source)
<1>1. loader[t] = [pc |-> loader[t].pc, read |-> loader[t].read, new |-> loader[t].new,
                   old |-> loader[t].old, source |-> loader[t].source]
  BY DEF Shapes
<1>2. [loader[t] EXCEPT !.pc = pc] =
        [pc |-> pc, read |-> loader[t].read, new |-> loader[t].new,
         old |-> loader[t].old, source |-> loader[t].source]
  BY <1>1
<1> QED BY <1>2 DEF ReloaderAt, Goes, Shapes

\* Only one loader at a time has a runtime in its hands.
LEMMA OneLoader ==
    ASSUME Exclusive, NEW t \in Loaders, NEW u \in Loaders,
           loader[t].pc \in Loading \cup Freeing, loader[u].pc \in Loading \cup Freeing
    PROVE  t = u
<1> USE DEF Exclusive, Loading, Freeing, Locked
<1>1. ASSUME NEW v \in Loaders, loader[v].pc \in Loading \cup Freeing
      PROVE  \/ v = Unload /\ loader[Unload].pc = "free"
             \/ v = Entry
             \/ v \in Reloaders /\ regLock = v /\ loader[v].pc # "idle"
  <2>1. CASE v = Unload
    BY <1>1, <2>1
  <2>2. CASE v \in Reloaders
    <3>1. loader[v].pc \in Locked
      BY <1>1
    <3>2. loader[v].pc # "idle"
      BY <1>1
    <3> QED BY <2>2, <3>1, <3>2
  <2> QED BY <2>1, <2>2 DEF Loaders
<1>2. /\ loader[Entry].pc \in Loading \cup Freeing =>
           loader[Unload].pc = "idle" /\ \A v \in Reloaders : loader[v].pc = "idle"
      /\ loader[Unload].pc = "free" => \A v \in Reloaders : loader[v].pc = "idle"
  OBVIOUS
<1> QED BY <1>1, <1>2, ThreadsAssumption

\* Creating a runtime, and changing one that is there.
LEMMA RuntimeAdded ==
    ASSUME Shapes, NEW flags,
           runtimes' = Append(runtimes, [readers |-> 0, freed |-> FALSE, flags |-> flags])
    PROVE  /\ \E F : runtimes' \in Seq([readers : Int, freed : BOOLEAN, flags : F])
           /\ Len(runtimes) \in Nat /\ DOMAIN runtimes = 1 .. Len(runtimes)
           /\ DOMAIN runtimes' = 1 .. Len(runtimes) + 1
           /\ \A i \in DOMAIN runtimes : runtimes'[i] = runtimes[i]
           /\ runtimes'[Len(runtimes) + 1].readers = 0
           /\ ~runtimes'[Len(runtimes) + 1].freed
<1>1. PICK F : runtimes \in Seq([readers : Int, freed : BOOLEAN, flags : F])
  BY DEF Shapes
<1> DEFINE S == [readers : Int, freed : BOOLEAN, flags : F \cup {flags}]
           r == [readers |-> 0, freed |-> FALSE, flags |-> flags]
<1>2. [readers : Int, freed : BOOLEAN, flags : F] \subseteq S
  OBVIOUS
<1>3. r \in S /\ r.readers = 0 /\ ~r.freed
  OBVIOUS
<1>4. runtimes \in Seq(S)
  BY <1>1, <1>2, SeqMonotonic
<1>5. runtimes' = Append(runtimes, r)
  OBVIOUS
<1> HIDE DEF S, r
<1>6. /\ runtimes' \in Seq(S) /\ Len(runtimes') = Len(runtimes) + 1
      /\ \A i \in 1 .. Len(runtimes) : runtimes'[i] = runtimes[i]
      /\ runtimes'[Len(runtimes) + 1] = r
  BY <1>3, <1>4, <1>5, AppendProperties
<1>7. /\ Len(runtimes) \in Nat /\ DOMAIN runtimes = 1 .. Len(runtimes)
      /\ DOMAIN runtimes' = 1 .. Len(runtimes')
  BY <1>4, <1>6, LenProperties
<1> QED BY <1>3, <1>6, <1>7 DEF S

\* The runtime number n gets other contents.
Becomes(n, readers, freed, flags) ==
    runtimes' = [runtimes EXCEPT ![n] = [readers |-> readers, freed |-> freed, flags |-> flags]]

LEMMA RuntimeBecomes ==
    ASSUME Shapes, NEW n \in DOMAIN runtimes, NEW readers \in Int, NEW freed \in BOOLEAN,
           NEW flags, Becomes(n, readers, freed, flags)
    PROVE  /\ \E F : runtimes' \in Seq([readers : Int, freed : BOOLEAN, flags : F])
           /\ DOMAIN runtimes' = DOMAIN runtimes
           /\ runtimes'[n].readers = readers /\ (runtimes'[n].freed <=> freed)
           /\ \A i \in DOMAIN runtimes : i # n => runtimes'[i] = runtimes[i]
<1>1. PICK F : runtimes \in Seq([readers : Int, freed : BOOLEAN, flags : F])
  BY DEF Shapes
<1> DEFINE S == [readers : Int, freed : BOOLEAN, flags : F \cup {flags}]
           r == [readers |-> readers, freed |-> freed, flags |-> flags]
<1>2. [readers : Int, freed : BOOLEAN, flags : F] \subseteq S
  OBVIOUS
<1>3. r \in S /\ r.readers = readers /\ (r.freed <=> freed)
  OBVIOUS
<1>4. runtimes \in Seq(S)
  BY <1>1, <1>2, SeqMonotonic
<1>5. runtimes' = [runtimes EXCEPT ![n] = r]
  BY DEF Becomes
<1> HIDE DEF S, r
<1>6. runtimes' \in Seq(S) /\ Len(runtimes') = Len(runtimes)
      /\ runtimes'[n] = r /\ \A i \in 1 .. Len(runtimes) : i # n => runtimes'[i] = runtimes[i]
  BY <1>3, <1>4, <1>5, ExceptSeq
<1>7. DOMAIN runtimes = 1 .. Len(runtimes) /\ DOMAIN runtimes' = 1 .. Len(runtimes')
  BY <1>4, <1>6, LenProperties
<1> QED BY <1>3, <1>6, <1>7 DEF S

\* The contents of a runtime, part by part.
LEMMA RuntimeParts ==
    ASSUME Shapes, NEW n \in DOMAIN runtimes
    PROVE  /\ runtimes[n].readers \in Int /\ runtimes[n].freed \in BOOLEAN
           /\ \A x : /\ [runtimes EXCEPT ![n].flags = x] = [runtimes EXCEPT ![n] =
                          [readers |-> runtimes[n].readers, freed |-> runtimes[n].freed, flags |-> x]]
                     /\ [runtimes EXCEPT ![n].freed = x] = [runtimes EXCEPT ![n] =
                          [readers |-> runtimes[n].readers, freed |-> x, flags |-> runtimes[n].flags]]
                     /\ [runtimes EXCEPT ![n].readers = x] = [runtimes EXCEPT ![n] =
                          [readers |-> x, freed |-> runtimes[n].freed, flags |-> runtimes[n].flags]]
           /\ DOMAIN runtimes = 1 .. Len(runtimes) /\ Len(runtimes) \in Nat
<1>1. PICK F : runtimes \in Seq([readers : Int, freed : BOOLEAN, flags : F])
  BY DEF Shapes
<1>2. DOMAIN runtimes = 1 .. Len(runtimes) /\ Len(runtimes) \in Nat
  BY <1>1, LenProperties
<1>3. runtimes[n] \in [readers : Int, freed : BOOLEAN, flags : F]
  BY <1>1, <1>2, ElementOfSeq
<1>4. runtimes[n] = [readers |-> runtimes[n].readers, freed |-> runtimes[n].freed,
                     flags |-> runtimes[n].flags]
  BY <1>3
<1>5. ASSUME NEW x
      PROVE  /\ [runtimes[n] EXCEPT !.flags = x] =
                  [readers |-> runtimes[n].readers, freed |-> runtimes[n].freed, flags |-> x]
             /\ [runtimes[n] EXCEPT !.freed = x] =
                  [readers |-> runtimes[n].readers, freed |-> x, flags |-> runtimes[n].flags]
             /\ [runtimes[n] EXCEPT !.readers = x] =
                  [readers |-> x, freed |-> runtimes[n].freed, flags |-> runtimes[n].flags]
  BY <1>4
<1> QED BY <1>2, <1>3, <1>5

-----------------------------------------------------------------------------
(* What the parts of the invariant need of a step.                         *)

\* A step within the lock, or within DriverEntry, or within the unload.
LEMMA LockedStep ==
    ASSUME Exclusive, NEW t \in Loaders, UNCHANGED regLock,
           \A u \in Loaders : u # t => loader'[u].pc = loader[u].pc,
           \/ t \in Reloaders /\ loader[t].pc \in Locked /\ loader'[t].pc \in Locked
           \/ /\ t = Entry /\ loader[t].pc \notin {"done", "failed"} /\ UNCHANGED armed
              /\ loader'[t].pc \in {"open", "register"} \cup Loading \cup Freeing
           \/ /\ t = Unload /\ loader[t].pc \in {"drop", "wait", "free"}
              /\ IF loader[t].pc = "free" THEN loader'[t].pc = "done"
                 ELSE loader'[t].pc \in {"drop", "wait"}
    PROVE  Exclusive'
<1> USE ThreadsAssumption DEF Exclusive, Loaders
<1>1. CASE t \in Reloaders /\ loader[t].pc \in Locked /\ loader'[t].pc \in Locked
  <2>1. loader[t].pc # "idle"
    BY <1>1 DEF Locked, Loading, Freeing
  <2>2. t # Entry /\ t # Unload
    BY <1>1
  <2>3. loader[Entry].pc = "done" /\ loader[Unload].pc \in {"idle", "rundown"}
    BY <1>1, <2>1
  <2> QED BY <1>1, <2>2, <2>3
<1>2. CASE /\ t = Entry /\ loader[t].pc \notin {"done", "failed"} /\ UNCHANGED armed
           /\ loader'[t].pc \in {"open", "register"} \cup Loading \cup Freeing
  <2>1. \A u \in Reloaders : loader'[u].pc = loader[u].pc
    BY <1>2
  <2>2. loader'[Unload].pc = loader[Unload].pc
    BY <1>2
  <2>3. loader'[Entry].pc # "done" /\ loader'[Entry].pc # "failed"
    BY <1>2 DEF Loading, Freeing
  <2> QED BY <1>2, <2>1, <2>2, <2>3
<1>3. CASE /\ t = Unload /\ loader[t].pc \in {"drop", "wait", "free"}
           /\ IF loader[t].pc = "free" THEN loader'[t].pc = "done"
              ELSE loader'[t].pc \in {"drop", "wait"}
  <2>1. \A u \in Reloaders : loader'[u].pc = loader[u].pc
    BY <1>3
  <2>2. loader'[Entry].pc = loader[Entry].pc
    BY <1>3
  <2> QED BY <1>3, <2>1, <2>2
<1> QED BY <1>1, <1>2, <1>3

\* A step of a thread outside the lock, or in or out of it.
LEMMA ReloaderStep ==
    ASSUME Exclusive, NEW t \in Reloaders,
           \A u \in Loaders : u # t => loader'[u].pc = loader[u].pc,
           loader[Entry].pc = "done", loader[Unload].pc \in {"idle", "rundown"},
           loader'[t].pc \in {"idle", "lock"} \cup Locked,
           loader'[t].pc \in Locked <=> regLock' = t,
           regLock' = regLock \/ (regLock \in {Free, t} /\ regLock' \in {Free, t})
    PROVE  Exclusive'
<1> USE ThreadsAssumption DEF Exclusive, Loaders
<1>1. t # Entry /\ t # Unload /\ t # Free /\ Free # Unload
  OBVIOUS
<1>2. loader'[Entry].pc = "done" /\ loader'[Unload].pc = loader[Unload].pc
  BY <1>1
<1>3. \A u \in Reloaders : /\ loader'[u].pc \in {"idle", "lock"} \cup Locked
                           /\ loader'[u].pc \in Locked <=> regLock' = u
  <2> SUFFICES ASSUME NEW u \in Reloaders, u # t
               PROVE  /\ loader'[u].pc \in {"idle", "lock"} \cup Locked
                      /\ loader'[u].pc \in Locked <=> regLock' = u
    OBVIOUS
  <2>1. loader'[u].pc = loader[u].pc /\ u # Free
    OBVIOUS
  <2> QED BY <2>1
<1> QED BY <1>1, <1>2, <1>3

\* Runtimes keep their readers and are not freed, hands keep what they hold.
LEMMA HandsKept ==
    ASSUME InHand, Readers, UNCHANGED <<runtime, reader>>,
           DOMAIN runtimes' = DOMAIN runtimes,
           \A i \in DOMAIN runtimes : /\ runtimes'[i].readers = runtimes[i].readers
                                      /\ runtimes'[i].freed <=> runtimes[i].freed,
           \A t \in Loaders : /\ loader'[t].new = loader[t].new /\ loader'[t].old = loader[t].old
                              /\ loader'[t].pc \in Loading <=> loader[t].pc \in Loading
                              /\ loader[t].old # 0 /\ loader[t].pc \in Freeing =>
                                   loader'[t].pc \in Freeing
    PROVE  InHand' /\ Readers'
<1>1. \A i : Alive(i)' <=> Alive(i)
  BY DEF Alive
<1>2. InHand'
  BY <1>1 DEF InHand
<1>3. \A i : Holders(i)' = Holders(i)
  BY DEF Holders
<1>4. Readers'
  BY <1>1, <1>3 DEF Readers
<1> QED BY <1>2, <1>4

\* Nothing is unregistered, nobody waits less.
LEMMA QuietKept ==
    ASSUME Quiet, UNCHANGED reader, armed \subseteq armed',
           \A t \in Loaders : loader[t].pc = "wait" =>
             loader'[t].pc = "wait" /\ loader'[t].source = loader[t].source,
           loader'[Unload].pc \in {"free", "done"} =>
             loader[Unload].pc \in {"free", "done"} /\ armed' = armed /\ runtime' = runtime
    PROVE  Quiet'
  BY DEF Quiet

\* A step that only moves one loader from place to place.
LEMMA PlainStep ==
    ASSUME Shapes, InHand, Readers, NEW t \in Loaders, NEW pc, NEW source,
           Goes(t, pc, loader[t].read, loader[t].new, loader[t].old, source),
           UNCHANGED <<runtimes, runtime, reader>>,
           pc \in Loading <=> loader[t].pc \in Loading,
           loader[t].pc \in Freeing => pc \in Freeing
    PROVE  /\ Shapes' /\ InHand' /\ Readers'
           /\ loader'[t].pc = pc /\ loader'[t].source = source
           /\ \A u \in Loaders : u # t => loader'[u] = loader[u]
<1>1. /\ loader'[t].pc = pc /\ loader'[t].new = loader[t].new /\ loader'[t].old = loader[t].old
      /\ loader'[t].source = source
      /\ \A u \in Loaders : u # t => loader'[u] = loader[u]
      /\ loader' = [u \in Loaders |-> [pc |-> loader'[u].pc, read |-> loader'[u].read,
                                       new |-> loader'[u].new, old |-> loader'[u].old,
                                       source |-> loader'[u].source]]
  BY LoaderGoes
<1>2. Shapes'
  BY <1>1 DEF Shapes
<1>3. \A u \in Loaders : /\ loader'[u].new = loader[u].new /\ loader'[u].old = loader[u].old
                         /\ loader'[u].pc \in Loading <=> loader[u].pc \in Loading
                         /\ loader[u].old # 0 /\ loader[u].pc \in Freeing =>
                              loader'[u].pc \in Freeing
  BY <1>1
<1> QED BY <1>1, <1>2, <1>3, HandsKept

-----------------------------------------------------------------------------
(* The steps.                                                              *)

\* A loader inside the lock, or DriverEntry, without a runtime changing hands.
LEMMA ValuesKeep ==
    ASSUME RuntimeInv, NEW t \in Loaders,
           LoadValues(t) \/ ApplyConfig(t) \/ ApplyProcessAccessFilter(t)
    PROVE  RuntimeInv'
<1> USE DEF RuntimeInv
<1>1. PICK pc \in {"fail", "rules", "swap", "free"} :
        /\ ReloaderAt(t, pc)
        /\ pc = "free" => loader[t].pc = "filter"
        /\ pc # "free" => loader[t].pc \in {"values", "apply"}
  BY DEF LoadValues, ApplyConfig, ApplyProcessAccessFilter
<1>2. UNCHANGED <<runtimes, runtime, reader, armed, regLock>>
  BY DEF LoadValues, ApplyConfig, ApplyProcessAccessFilter
<1>3. Goes(t, pc, loader[t].read, loader[t].new, loader[t].old, loader[t].source)
  BY <1>1, LoaderIsAt
<1>4. (pc \in Loading <=> loader[t].pc \in Loading) /\ (loader[t].pc \in Freeing => pc \in Freeing)
  BY <1>1 DEF Loading, Freeing
<1>5. /\ Shapes' /\ InHand' /\ Readers'
      /\ loader'[t].pc = pc /\ loader'[t].source = loader[t].source
      /\ \A u \in Loaders : u # t => loader'[u] = loader[u]
  BY <1>2, <1>3, <1>4, PlainStep
<1>6. Exclusive'
  <2>1. t \in Reloaders \/ t = Entry
    BY <1>1 DEF Exclusive, Loaders
  <2>2. /\ loader[t].pc \in Locked /\ loader'[t].pc \in Locked
        /\ loader[t].pc \notin {"done", "failed"} /\ loader'[t].pc \in Loading \cup Freeing
    BY <1>1, <1>5 DEF Locked, Loading, Freeing
  <2> QED BY <1>2, <1>5, <2>1, <2>2, LockedStep
<1>7. Quiet'
  <2>1. loader[t].pc # "wait" /\ (t = Unload => FALSE)
    BY <1>1 DEF Exclusive, Loaders
  <2> QED BY <1>2, <1>5, <2>1, QuietKept DEF Loaders
<1> QED BY <1>5, <1>6, <1>7

\* The rules change the flags of a runtime that is not yet in force.
LEMMA RulesKeep ==
    ASSUME RuntimeInv, NEW t \in Loaders, LoadRules(t)
    PROVE  RuntimeInv'
<1> USE DEF RuntimeInv
<1>1. PICK pc \in {"fail", "apply"} :
        /\ ReloaderAt(t, pc)
        /\ \/ UNCHANGED runtimes
           \/ \E flags : runtimes' = [runtimes EXCEPT ![loader[t].new].flags = flags]
  BY DEF LoadRules
<1>2. loader[t].pc = "rules" /\ UNCHANGED <<runtime, reader, armed, regLock>>
  BY DEF LoadRules
<1>3. Goes(t, pc, loader[t].read, loader[t].new, loader[t].old, loader[t].source)
  BY <1>1, LoaderIsAt
<1>4. /\ loader'[t].pc = pc /\ loader'[t].new = loader[t].new /\ loader'[t].old = loader[t].old
      /\ \A u \in Loaders : u # t => loader'[u] = loader[u]
      /\ loader' = [u \in Loaders |-> [pc |-> loader'[u].pc, read |-> loader'[u].read,
                                       new |-> loader'[u].new, old |-> loader'[u].old,
                                       source |-> loader'[u].source]]
  BY <1>3, LoaderGoes
<1>5. /\ \E F : runtimes' \in Seq([readers : Int, freed : BOOLEAN, flags : F])
      /\ DOMAIN runtimes' = DOMAIN runtimes
      /\ \A i \in DOMAIN runtimes : /\ runtimes'[i].readers = runtimes[i].readers
                                    /\ runtimes'[i].freed <=> runtimes[i].freed
  <2>1. CASE UNCHANGED runtimes
    BY <2>1 DEF Shapes
  <2>2. ASSUME NEW flags, runtimes' = [runtimes EXCEPT ![loader[t].new].flags = flags]
        PROVE  /\ \E F : runtimes' \in Seq([readers : Int, freed : BOOLEAN, flags : F])
               /\ DOMAIN runtimes' = DOMAIN runtimes
               /\ \A i \in DOMAIN runtimes : /\ runtimes'[i].readers = runtimes[i].readers
                                             /\ runtimes'[i].freed <=> runtimes[i].freed
    <3> DEFINE n == loader[t].new
    <3>1. n \in DOMAIN runtimes
      BY <1>2 DEF InHand, Loading, Alive
    <3>2. runtimes[n].readers \in Int /\ runtimes[n].freed \in BOOLEAN
      BY <3>1, RuntimeParts
    <3>3. Becomes(n, runtimes[n].readers, runtimes[n].freed, flags)
      <4>1. [runtimes EXCEPT ![n].flags = flags]
              = [runtimes EXCEPT ![n] = [readers |-> runtimes[n].readers,
                                         freed |-> runtimes[n].freed, flags |-> flags]]
        BY <3>1, RuntimeParts
      <4> QED
        BY <2>2, <4>1 DEF Becomes
    <3>4. /\ \E F : runtimes' \in Seq([readers : Int, freed : BOOLEAN, flags : F])
          /\ DOMAIN runtimes' = DOMAIN runtimes
          /\ runtimes'[n].readers = runtimes[n].readers
          /\ runtimes'[n].freed <=> runtimes[n].freed
          /\ \A i \in DOMAIN runtimes : i # n => runtimes'[i] = runtimes[i]
      <4> HIDE DEF n
      <4> QED BY <1>2, <3>1, <3>2, <3>3, RuntimeBecomes
    <3> QED BY <3>4
  <2> QED BY <1>1, <2>1, <2>2
<1>6. Shapes'
  BY <1>2, <1>4, <1>5 DEF Shapes
<1>7. \A u \in Loaders : /\ loader'[u].new = loader[u].new /\ loader'[u].old = loader[u].old
                         /\ loader'[u].pc \in Loading <=> loader[u].pc \in Loading
                         /\ loader[u].old # 0 /\ loader[u].pc \in Freeing =>
                              loader'[u].pc \in Freeing
  BY <1>2, <1>4 DEF Loading, Freeing
<1>8. InHand' /\ Readers'
  BY <1>2, <1>5, <1>7, HandsKept
<1>9. Exclusive'
  <2>1. t \in Reloaders \/ t = Entry
    BY <1>2 DEF Exclusive, Loaders
  <2>2. /\ loader[t].pc \in Locked /\ loader'[t].pc \in Locked
        /\ loader[t].pc \notin {"done", "failed"} /\ loader'[t].pc \in Loading \cup Freeing
    BY <1>2, <1>4 DEF Locked, Loading, Freeing
  <2> QED BY <1>2, <1>4, <2>1, <2>2, LockedStep
<1>10. Quiet'
  <2>1. loader[t].pc # "wait" /\ t # Unload
    BY <1>2 DEF Exclusive, Loaders
  <2> QED BY <1>2, <1>4, <2>1, QuietKept DEF Loaders
<1> QED BY <1>6, <1>8, <1>9, <1>10

\* A new runtime is in the hands of its loader alone, and nobody reads it.
LEMMA CreationKeeps ==
    ASSUME RuntimeInv, NEW t \in Loaders, LoadDwords(t)
    PROVE  RuntimeInv'
<1> USE DEF RuntimeInv
<1>0. PICK n : n = Len(runtimes) + 1
  OBVIOUS
<1>1. PICK flags, read, pc :
        /\ pc \in {"values", "apply", "fail"}
        /\ runtimes' = Append(runtimes, [readers |-> 0, freed |-> FALSE, flags |-> flags])
        /\ Goes(t, pc, read, n, loader[t].old, loader[t].source)
  <2>1. PICK key \in Registries, carry \in {"0", "1"} :
          /\ runtimes' = Append(runtimes, [readers |-> 0, freed |-> FALSE,
                                          flags |-> DeriveFlags({}, NoRules)])
          /\ loader' = [loader EXCEPT ![t] =
               [pc |-> CASE key.key = "found" -> "values"
                         [] key.key = "missing" -> "apply"
                         [] OTHER -> "fail",
                read |-> IF key.key = "found" THEN ReadDwords(key.dwords, carry) ELSE {},
                new |-> Len(runtimes) + 1, old |-> loader[t].old, source |-> loader[t].source]]
    BY DEF LoadDwords
  <2> DEFINE pc == CASE key.key = "found" -> "values"
                     [] key.key = "missing" -> "apply"
                     [] OTHER -> "fail"
             read == IF key.key = "found" THEN ReadDwords(key.dwords, carry) ELSE {}
  <2>2. pc \in {"values", "apply", "fail"}
    OBVIOUS
  <2>3. Goes(t, pc, read, n, loader[t].old, loader[t].source)
    BY <1>0, <2>1 DEF Goes
  <2> HIDE DEF pc, read
  <2> QED BY <2>1, <2>2, <2>3
<1>2. loader[t].pc = "open" /\ UNCHANGED <<runtime, reader, armed, regLock>>
  BY DEF LoadDwords
<1>3. /\ loader'[t].pc = pc /\ loader'[t].new = n /\ loader'[t].old = loader[t].old
      /\ \A u \in Loaders : u # t => loader'[u] = loader[u]
      /\ loader' = [u \in Loaders |-> [pc |-> loader'[u].pc, read |-> loader'[u].read,
                                       new |-> loader'[u].new, old |-> loader'[u].old,
                                       source |-> loader'[u].source]]
  BY <1>1, LoaderGoes
<1>4. /\ \E F : runtimes' \in Seq([readers : Int, freed : BOOLEAN, flags : F])
      /\ Len(runtimes) \in Nat /\ DOMAIN runtimes = 1 .. Len(runtimes)
      /\ DOMAIN runtimes' = 1 .. Len(runtimes) + 1
      /\ \A i \in DOMAIN runtimes : runtimes'[i] = runtimes[i]
      /\ runtimes'[n].readers = 0 /\ ~runtimes'[n].freed
  BY <1>0, <1>1, RuntimeAdded
<1>5. Shapes'
  BY <1>2, <1>3, <1>4 DEF Shapes
<1>6. n \notin DOMAIN runtimes /\ n # 0 /\ \A i : Alive(i)' <=> Alive(i) \/ i = n
  <2>1. n \notin DOMAIN runtimes /\ n # 0
    BY <1>0, <1>4
  <2>2. DOMAIN runtimes' = DOMAIN runtimes \cup {n}
    BY <1>0, <1>4
  <2> QED BY <1>4, <2>1, <2>2 DEF Alive
<1>7. loader[t].new = 0 /\ loader[t].old = 0
  BY <1>2 DEF InHand, Loading, Freeing
<1>8. InHand'
  <2>1. ASSUME NEW u \in Loaders
        PROVE /\ IF loader'[u].pc \in Loading THEN Alive(loader[u].new)' ELSE loader'[u].new = 0
              /\ loader'[u].old # 0 => loader'[u].pc \in Freeing /\ Alive(loader[u].old)'
              /\ loader'[u].new # 0 => loader'[u].new # runtime'
              /\ loader'[u].old # 0 => loader'[u].old # runtime'
    <3>1. CASE u = t
      <4>1. runtime # n
        BY <1>4, <1>6 DEF InHand, Alive
      <4>2. pc \in Loading
        BY <1>1 DEF Loading
      <4> QED BY <1>2, <1>3, <1>6, <1>7, <3>1, <4>1, <4>2
    <3>2. CASE u # t
      <4>1. loader'[u] = loader[u]
        BY <1>3, <3>2
      <4> QED BY <1>2, <1>6, <4>1 DEF InHand
    <3> QED BY <3>1, <3>2
  <2>2. runtime' # 0 => Alive(runtime)'
    BY <1>2, <1>6 DEF InHand
  <2>3. ASSUME NEW i, Alive(i)'
        PROVE  i = runtime' \/ \E u \in Loaders : i \in {loader'[u].new, loader'[u].old}
    <3>1. CASE i = n
      BY <1>3, <3>1
    <3>2. CASE Alive(i)
      <4>1. i = runtime \/ \E u \in Loaders : i \in {loader[u].new, loader[u].old}
        BY <3>2 DEF InHand, Alive
      <4>2. i # 0
        BY <1>4, <3>2 DEF Alive
      <4> QED BY <1>2, <1>3, <1>7, <4>1, <4>2
    <3> QED BY <1>6, <2>3, <3>1, <3>2
  <2> QED BY <2>1, <2>2, <2>3 DEF InHand
<1>9. Readers'
  <2>1. \A c \in Callbacks : reader[c].holds # n
    BY <1>6 DEF Readers, Alive
  <2>2. \A i : Holders(i)' = Holders(i)
    BY <1>2 DEF Holders
  <2>3. Holders(n) = {}
    BY <2>1 DEF Holders
  <2>4. runtimes'[n].readers = Cardinality(Holders(n)')
    BY <1>4, <2>2, <2>3, FS_EmptySet
  <2>5. ASSUME NEW i \in DOMAIN runtimes' PROVE runtimes'[i].readers = Cardinality(Holders(i)')
    BY <1>0, <1>4, <2>2, <2>4 DEF Readers
  <2>6. ASSUME NEW c \in Callbacks
        PROVE  /\ IF reader'[c].pc = "evaluate" THEN Alive(reader[c].holds)'
                  ELSE reader'[c].holds = 0
               /\ \A u \in Loaders : loader'[u].new # 0 => reader'[c].holds # loader'[u].new
    BY <1>2, <1>3, <1>6, <2>1 DEF Readers
  <2> QED BY <2>5, <2>6 DEF Readers
<1>10. Exclusive'
  <2>1. t \in Reloaders \/ t = Entry
    BY <1>2 DEF Exclusive, Loaders
  <2>2. /\ loader[t].pc \in Locked /\ loader'[t].pc \in Locked
        /\ loader[t].pc \notin {"done", "failed"} /\ loader'[t].pc \in Loading \cup Freeing
    BY <1>1, <1>2, <1>3 DEF Locked, Loading, Freeing
  <2> QED BY <1>2, <1>3, <2>1, <2>2, LockedStep
<1>11. Quiet'
  <2>1. loader[t].pc # "wait" /\ t # Unload
    BY <1>2 DEF Exclusive, Loaders
  <2> QED BY <1>2, <1>3, <2>1, QuietKept DEF Loaders
<1> QED BY <1>5, <1>8, <1>9, <1>10, <1>11

\* Where one loader has a runtime in its hands, the others have none.
LEMMA OthersEmpty ==
    ASSUME Exclusive, InHand, NEW t \in Loaders, loader[t].pc \in Loading \cup Freeing
    PROVE  \A u \in Loaders : u # t => loader[u].new = 0 /\ loader[u].old = 0
<1> SUFFICES ASSUME NEW u \in Loaders, u # t
             PROVE  loader[u].new = 0 /\ loader[u].old = 0
  OBVIOUS
<1>1. loader[u].pc \notin Loading \cup Freeing
  BY OneLoader
<1> QED BY <1>1 DEF InHand

\* Ending a runtime nobody reads.
LEMMA RuntimeEnds ==
    ASSUME Shapes, InHand, Readers, NEW n \in DOMAIN runtimes, Alive(n), Holders(n) = {},
           runtimes' = [runtimes EXCEPT ![n].freed = TRUE]
    PROVE  /\ \E F : runtimes' \in Seq([readers : Int, freed : BOOLEAN, flags : F])
           /\ n # 0 /\ \A i : Alive(i)' <=> Alive(i) /\ i # n
           /\ DOMAIN runtimes' = DOMAIN runtimes
           /\ \A i \in DOMAIN runtimes : runtimes'[i].readers = Cardinality(Holders(i))
<1>1. runtimes[n].readers \in Int /\ DOMAIN runtimes = 1 .. Len(runtimes) /\ Len(runtimes) \in Nat
  BY RuntimeParts
<1>2. Becomes(n, runtimes[n].readers, TRUE, runtimes[n].flags)
  BY RuntimeParts DEF Becomes
<1>3. /\ \E F : runtimes' \in Seq([readers : Int, freed : BOOLEAN, flags : F])
      /\ DOMAIN runtimes' = DOMAIN runtimes
      /\ runtimes'[n].readers = runtimes[n].readers /\ runtimes'[n].freed
      /\ \A i \in DOMAIN runtimes : i # n => runtimes'[i] = runtimes[i]
  BY <1>1, <1>2, RuntimeBecomes
<1>4. n # 0
  BY <1>1
<1>5. \A i : Alive(i)' <=> Alive(i) /\ i # n
  BY <1>3 DEF Alive
<1>6. \A i \in DOMAIN runtimes : runtimes'[i].readers = runtimes[i].readers
  BY <1>3
<1> QED BY <1>3, <1>4, <1>5, <1>6 DEF Readers

\* A reload that fails ends the runtime it has created, which nobody has seen.
LEMMA FailureKeeps ==
    ASSUME RuntimeInv, NEW t \in Loaders, LoadFails(t)
    PROVE  RuntimeInv'
<1> USE DEF RuntimeInv
<1>0. PICK n : n = loader[t].new
  OBVIOUS
<1>1. PICK pc : /\ pc = IF t = Entry THEN "register" ELSE "unlock"
                /\ Goes(t, pc, {}, 0, loader[t].old, loader[t].source)
  BY DEF LoadFails, Goes
<1>2. /\ loader[t].pc = "fail" /\ UNCHANGED <<runtime, reader, armed, regLock>>
      /\ runtimes' = [runtimes EXCEPT ![n].freed = TRUE]
  BY <1>0 DEF LoadFails
<1>3. /\ loader'[t].pc = pc /\ loader'[t].new = 0 /\ loader'[t].old = loader[t].old
      /\ \A u \in Loaders : u # t => loader'[u] = loader[u]
      /\ loader' = [u \in Loaders |-> [pc |-> loader'[u].pc, read |-> loader'[u].read,
                                       new |-> loader'[u].new, old |-> loader'[u].old,
                                       source |-> loader'[u].source]]
  BY <1>1, LoaderGoes
<1>4. /\ loader[t].pc \in Loading /\ loader[t].pc \notin Freeing
      /\ loader'[t].pc \notin Loading \cup Freeing
  BY <1>1, <1>2, <1>3 DEF Loading, Freeing
<1>5. Alive(n) /\ n \in DOMAIN runtimes /\ n # runtime /\ loader[t].old = 0
  <2>1. Alive(n) /\ n \in DOMAIN runtimes
    BY <1>0, <1>4 DEF InHand, Alive
  <2>2. n # 0
    BY <2>1, RuntimeParts
  <2> QED BY <1>0, <1>4, <2>1, <2>2 DEF InHand
<1>6. Holders(n) = {}
  <2>1. n # 0
    BY <1>5, RuntimeParts
  <2> QED BY <1>0, <2>1 DEF Readers, Holders
<1>7. /\ \E F : runtimes' \in Seq([readers : Int, freed : BOOLEAN, flags : F])
      /\ n # 0 /\ \A i : Alive(i)' <=> Alive(i) /\ i # n
      /\ DOMAIN runtimes' = DOMAIN runtimes
      /\ \A i \in DOMAIN runtimes : runtimes'[i].readers = Cardinality(Holders(i))
  BY <1>2, <1>5, <1>6, RuntimeEnds
<1>8. Shapes'
  BY <1>2, <1>3, <1>7 DEF Shapes
<1>9. \A u \in Loaders : u # t => loader[u].new = 0 /\ loader[u].old = 0
  BY <1>4, OthersEmpty
<1>10. InHand'
  <2>1. \A u \in Loaders : loader'[u].new = 0 /\ loader'[u].old = 0
    BY <1>3, <1>5, <1>9
  <2>2. \A u \in Loaders : loader'[u].pc \notin Loading
    <3> SUFFICES ASSUME NEW u \in Loaders, u # t PROVE loader'[u].pc \notin Loading
      BY <1>4
    <3> QED BY <1>3, <1>4, OneLoader
  <2>3. runtime' # 0 => Alive(runtime)'
    BY <1>2, <1>5, <1>7 DEF InHand
  <2>4. ASSUME NEW i \in DOMAIN runtimes', Alive(i)' PROVE i = runtime'
    <3>1. i \in DOMAIN runtimes /\ Alive(i) /\ i # n
      BY <1>7, <2>4
    <3>2. i # 0
      BY <3>1, RuntimeParts
    <3>3. \A u \in Loaders : i \notin {loader[u].new, loader[u].old}
      BY <1>0, <1>5, <1>9, <3>1, <3>2
    <3> QED BY <1>2, <3>1, <3>3 DEF InHand
  <2> QED BY <2>1, <2>2, <2>3, <2>4 DEF InHand
<1>11. Readers'
  <2>1. \A i : Holders(i)' = Holders(i)
    BY <1>2 DEF Holders
  <2>2. \A c \in Callbacks : reader[c].holds # n
    BY <1>6 DEF Holders
  <2>3. \A u \in Loaders : loader'[u].new # 0 => loader'[u] = loader[u]
    BY <1>3
  <2>4. ASSUME NEW c \in Callbacks
        PROVE  /\ IF reader'[c].pc = "evaluate" THEN Alive(reader[c].holds)'
                  ELSE reader'[c].holds = 0
               /\ \A u \in Loaders : loader'[u].new # 0 => reader'[c].holds # loader'[u].new
    <3>1. reader'[c] = reader[c] /\ reader[c].holds # n
      BY <1>2, <2>2
    <3>2. \A u \in Loaders : loader'[u].new # 0 => reader'[c].holds # loader'[u].new
      BY <3>1, <2>3, <1>2 DEF Readers
    <3>3. IF reader[c].pc = "evaluate" THEN Alive(reader[c].holds)' ELSE reader[c].holds = 0
      BY <1>2, <1>7, <3>1 DEF Readers
    <3> QED BY <3>1, <3>2, <3>3
  <2> QED BY <1>7, <2>1, <2>4 DEF Readers
<1>12. Exclusive'
  <2>1. t \in Reloaders \/ t = Entry
    BY <1>2 DEF Exclusive, Loaders
  <2>2. /\ loader[t].pc \in Locked /\ loader[t].pc \notin {"done", "failed"}
        /\ t # Entry => loader'[t].pc \in Locked
        /\ t = Entry => loader'[t].pc = "register"
    BY <1>1, <1>2, <1>3 DEF Locked, Loading
  <2> QED BY <1>2, <1>3, <2>1, <2>2, LockedStep, ThreadsAssumption
<1>13. Quiet'
  <2>1. loader[t].pc # "wait" /\ t # Unload
    BY <1>2 DEF Exclusive, Loaders
  <2> QED BY <1>2, <1>3, <2>1, QuietKept DEF Loaders
<1> QED BY <1>8, <1>10, <1>11, <1>12, <1>13

\* The new runtime goes into force, the old one into the hands of the loader.
LEMMA SwapKeeps ==
    ASSUME RuntimeInv, NEW t \in Loaders, LoadSwap(t)
    PROVE  RuntimeInv'
<1> USE DEF RuntimeInv
<1>0. PICK n : n = loader[t].new
  OBVIOUS
<1>1. /\ loader[t].pc = "swap" /\ UNCHANGED <<runtimes, reader, armed, regLock>>
      /\ runtime' = n /\ Goes(t, "filter", {}, 0, runtime, loader[t].source)
  BY <1>0 DEF LoadSwap, Goes
<1>2. /\ loader'[t].pc = "filter" /\ loader'[t].new = 0 /\ loader'[t].old = runtime
      /\ \A u \in Loaders : u # t => loader'[u] = loader[u]
      /\ loader' = [u \in Loaders |-> [pc |-> loader'[u].pc, read |-> loader'[u].read,
                                       new |-> loader'[u].new, old |-> loader'[u].old,
                                       source |-> loader'[u].source]]
  BY <1>1, LoaderGoes
<1>3. Shapes'
  BY <1>1, <1>2 DEF Shapes
<1>4. /\ loader[t].pc \in Loading /\ loader[t].pc \notin Freeing
      /\ loader'[t].pc \in Freeing /\ loader'[t].pc \notin Loading
  BY <1>1, <1>2 DEF Loading, Freeing
<1>5. Alive(n) /\ n # 0 /\ n # runtime /\ loader[t].old = 0
  <2>1. Alive(n) /\ n \in DOMAIN runtimes
    BY <1>0, <1>4 DEF InHand, Alive
  <2>2. n # 0
    BY <2>1, RuntimeParts
  <2> QED BY <1>0, <1>4, <2>1, <2>2 DEF InHand
<1>6. \A u \in Loaders : u # t => loader[u].new = 0 /\ loader[u].old = 0
  BY <1>4, OthersEmpty
<1>7. \A i : Alive(i)' <=> Alive(i)
  BY <1>1 DEF Alive
<1>8. InHand'
  <2>1. ASSUME NEW u \in Loaders
        PROVE /\ IF loader'[u].pc \in Loading THEN Alive(loader[u].new)' ELSE loader'[u].new = 0
              /\ loader'[u].old # 0 => loader'[u].pc \in Freeing /\ Alive(loader[u].old)'
              /\ loader'[u].new # 0 => loader'[u].new # runtime'
              /\ loader'[u].old # 0 => loader'[u].old # runtime'
    <3>1. CASE u = t
      BY <1>1, <1>2, <1>4, <1>5, <1>7, <3>1 DEF InHand
    <3>2. CASE u # t
      <4>1. loader'[u] = loader[u] /\ loader[u].new = 0 /\ loader[u].old = 0
        BY <1>2, <1>6, <3>2
      <4>2. loader[u].pc \notin Loading
        BY <1>4, <3>2, OneLoader
      <4> QED BY <4>1, <4>2
    <3> QED BY <3>1, <3>2
  <2>2. runtime' # 0 => Alive(runtime)'
    BY <1>1, <1>5, <1>7
  <2>3. ASSUME NEW i \in DOMAIN runtimes', Alive(i)'
        PROVE  i = runtime' \/ \E u \in Loaders : i \in {loader'[u].new, loader'[u].old}
    <3>1. i \in DOMAIN runtimes /\ Alive(i)
      BY <1>1, <2>3, <1>7
    <3>2. i # 0
      BY <3>1, RuntimeParts
    <3>3. i = runtime \/ \E u \in Loaders : i \in {loader[u].new, loader[u].old}
      BY <3>1 DEF InHand
    <3>4. i = runtime \/ i = n
      BY <1>0, <1>5, <1>6, <3>2, <3>3
    <3> QED BY <1>1, <1>2, <3>4
  <2> QED BY <2>1, <2>2, <2>3 DEF InHand
<1>9. Readers'
  <2>1. \A i : Holders(i)' = Holders(i)
    BY <1>1 DEF Holders
  <2>2. \A u \in Loaders : loader'[u].new # 0 => loader'[u] = loader[u]
    BY <1>2
  <2>3. ASSUME NEW c \in Callbacks
        PROVE  /\ IF reader'[c].pc = "evaluate" THEN Alive(reader[c].holds)'
                  ELSE reader'[c].holds = 0
               /\ \A u \in Loaders : loader'[u].new # 0 => reader'[c].holds # loader'[u].new
    BY <1>1, <1>7, <2>2 DEF Readers
  <2> QED BY <1>1, <2>1, <2>3 DEF Readers
<1>10. Exclusive'
  <2>1. t \in Reloaders \/ t = Entry
    BY <1>1 DEF Exclusive, Loaders
  <2>2. /\ loader[t].pc \in Locked /\ loader'[t].pc \in Locked
        /\ loader[t].pc \notin {"done", "failed"}
    BY <1>1, <1>4 DEF Locked
  <2> QED BY <1>1, <1>2, <1>4, <2>1, <2>2, LockedStep
<1>11. Quiet'
  <2>1. loader[t].pc # "wait" /\ t # Unload /\ loader[Unload].pc \notin {"free", "done"}
    <3>1. t # Unload /\ t \in Reloaders \cup {Entry}
      BY <1>1 DEF Exclusive, Loaders
    <3>2. loader[Unload].pc \notin {"free", "done"}
      BY <1>1, <3>1 DEF Exclusive
    <3> QED BY <1>1, <3>1, <3>2
  <2> QED BY <1>1, <1>2, <2>1, QuietKept DEF Loaders
<1> QED BY <1>3, <1>8, <1>9, <1>10, <1>11

\* The runtime that was replaced is freed when its readers are out.
LEMMA FreeKeeps ==
    ASSUME RuntimeInv, NEW t \in Loaders, FreeOld(t)
    PROVE  RuntimeInv'
<1> USE DEF RuntimeInv
<1>0. PICK n : n = loader[t].old
  OBVIOUS
<1>1. PICK pc : /\ pc = AfterLoad(t)
                /\ Goes(t, pc, loader[t].read, loader[t].new, 0, loader[t].source)
  BY DEF FreeOld, Goes
<1>2. /\ loader[t].pc = "free" /\ UNCHANGED <<runtime, reader, armed, regLock>>
      /\ n # 0 => runtimes[n].readers = 0
      /\ runtimes' = IF n = 0 THEN runtimes ELSE [runtimes EXCEPT ![n].freed = TRUE]
  BY <1>0 DEF FreeOld
<1>3. /\ loader'[t].pc = pc /\ loader'[t].new = loader[t].new /\ loader'[t].old = 0
      /\ \A u \in Loaders : u # t => loader'[u] = loader[u]
      /\ loader' = [u \in Loaders |-> [pc |-> loader'[u].pc, read |-> loader'[u].read,
                                       new |-> loader'[u].new, old |-> loader'[u].old,
                                       source |-> loader'[u].source]]
  BY <1>1, LoaderGoes
<1>4. /\ loader[t].pc \notin Loading /\ loader[t].pc \in Freeing
      /\ loader'[t].pc \notin Loading \cup Freeing
      /\ t = Unload => loader'[t].pc = "done"
      /\ t = Entry => loader'[t].pc = "register"
      /\ t \in Reloaders => loader'[t].pc = "drop"
  BY <1>1, <1>2, <1>3, ThreadsAssumption DEF Loading, Freeing, AfterLoad
<1>5. loader[t].new = 0 /\ (n # 0 => Alive(n) /\ n \in DOMAIN runtimes /\ n # runtime)
  BY <1>0, <1>4 DEF InHand, Alive
<1>6. n # 0 => Holders(n) = {}
  <2> SUFFICES ASSUME n # 0 PROVE Holders(n) = {}
    OBVIOUS
  <2>1. Cardinality(Holders(n)) = 0
    BY <1>2, <1>5 DEF Readers
  <2>2. IsFiniteSet(Holders(n))
    BY ThreadsAssumption, FS_Subset DEF Holders
  <2> QED BY <2>1, <2>2, FS_EmptySet
<1>7. /\ \E F : runtimes' \in Seq([readers : Int, freed : BOOLEAN, flags : F])
      /\ \A i \in DOMAIN runtimes : Alive(i)' <=> Alive(i) /\ i # n
      /\ DOMAIN runtimes' = DOMAIN runtimes
      /\ \A i \in DOMAIN runtimes : runtimes'[i].readers = Cardinality(Holders(i))
  <2>1. CASE n = 0
    <3>1. \A i \in DOMAIN runtimes : i # 0
      BY RuntimeParts
    <3> QED BY <1>2, <2>1, <3>1 DEF Shapes, Readers, Alive
  <2>2. CASE n # 0
    BY <1>2, <1>5, <1>6, <2>2, RuntimeEnds
  <2> QED BY <2>1, <2>2
<1>8. Shapes'
  BY <1>2, <1>3, <1>7 DEF Shapes
<1>9. \A u \in Loaders : u # t => loader[u].new = 0 /\ loader[u].old = 0
  BY <1>4, OthersEmpty
<1>10. InHand'
  <2>1. \A u \in Loaders : loader'[u].new = 0 /\ loader'[u].old = 0
    BY <1>3, <1>5, <1>9
  <2>2. \A u \in Loaders : loader'[u].pc \notin Loading
    <3> SUFFICES ASSUME NEW u \in Loaders, u # t PROVE loader'[u].pc \notin Loading
      BY <1>4
    <3> QED BY <1>3, <1>4, OneLoader
  <2>3. runtime' # 0 => Alive(runtime)'
    BY <1>2, <1>5, <1>7 DEF InHand, Alive
  <2>4. ASSUME NEW i \in DOMAIN runtimes', Alive(i)' PROVE i = runtime'
    <3>1. i \in DOMAIN runtimes /\ Alive(i) /\ i # n
      BY <1>7, <2>4
    <3>2. i # 0
      BY <3>1, RuntimeParts
    <3>3. \A u \in Loaders : i \notin {loader[u].new, loader[u].old}
      BY <1>0, <1>5, <1>9, <3>1, <3>2
    <3> QED BY <1>2, <3>1, <3>3 DEF InHand
  <2> QED BY <2>1, <2>2, <2>3, <2>4 DEF InHand
<1>11. Readers'
  <2>1. \A i : Holders(i)' = Holders(i)
    BY <1>2 DEF Holders
  <2>2. \A c \in Callbacks : n # 0 => reader[c].holds # n
    BY <1>6 DEF Holders
  <2>3. \A u \in Loaders : loader'[u].new = 0
    BY <1>3, <1>5, <1>9
  <2>4. ASSUME NEW c \in Callbacks
        PROVE  IF reader'[c].pc = "evaluate" THEN Alive(reader[c].holds)'
               ELSE reader'[c].holds = 0
    <3>1. reader[c].pc = "evaluate" =>
            reader[c].holds \in DOMAIN runtimes /\ Alive(reader[c].holds)
      BY DEF Readers, Alive
    <3>2. \A i \in DOMAIN runtimes : i # 0
      BY RuntimeParts
    <3> QED BY <1>2, <1>7, <2>2, <3>1, <3>2 DEF Readers
  <2> QED BY <1>7, <2>1, <2>3, <2>4 DEF Readers
<1>12. Exclusive'
  <2>1. /\ loader[t].pc \in Locked /\ loader[t].pc \notin {"done", "failed"}
        /\ t \in Reloaders => loader'[t].pc \in Locked
    BY <1>2, <1>4 DEF Locked, Freeing
  <2> QED BY <1>2, <1>3, <1>4, <2>1, LockedStep DEF Loaders
<1>13. Quiet'
  <2>1. loader[t].pc # "wait" /\ (t = Unload => loader[Unload].pc \in {"free", "done"})
    BY <1>2
  <2>2. t # Unload => loader'[Unload] = loader[Unload]
    BY <1>3 DEF Loaders
  <2> QED BY <1>2, <1>3, <2>1, <2>2, QuietKept
<1> QED BY <1>8, <1>10, <1>11, <1>12, <1>13

\* A source is unregistered: those inside are waited for before anything else.
LEMMA DropKeeps ==
    ASSUME RuntimeInv, NEW t \in Loaders, SyncDrop(t)
    PROVE  RuntimeInv'
<1> USE DEF RuntimeInv
<1>1. PICK s : /\ armed' = armed \ {s}
               /\ Goes(t, "wait", loader[t].read, loader[t].new, loader[t].old, s)
  BY DEF SyncDrop, Goes
<1>2. loader[t].pc = "drop" /\ UNCHANGED <<runtimes, runtime, reader, regLock>>
  BY DEF SyncDrop
<1>3. /\ Shapes' /\ InHand' /\ Readers'
      /\ loader'[t].pc = "wait" /\ loader'[t].source = s
      /\ \A u \in Loaders : u # t => loader'[u] = loader[u]
  BY <1>1, <1>2, PlainStep DEF Loading, Freeing
<1>4. t # Entry
  BY <1>2 DEF Exclusive, Loading, Freeing
<1>5. Exclusive'
  <2>1. loader[t].pc \in Locked /\ loader'[t].pc \in Locked
    BY <1>2, <1>3 DEF Locked
  <2> QED BY <1>2, <1>3, <1>4, <2>1, LockedStep DEF Loaders
<1>6. Quiet'
  <2>1. ASSUME NEW c \in Callbacks, reader'[c].pc # "out"
        PROVE  \/ reader'[c].source \in armed'
               \/ \E u \in Loaders : loader'[u].pc = "wait" /\ reader'[c].source = loader'[u].source
    <3>1. CASE reader[c].source \in armed
      BY <1>1, <1>2, <1>3, <3>1
    <3>2. ASSUME NEW u \in Loaders, loader[u].pc = "wait", reader[c].source = loader[u].source
          PROVE  loader'[u].pc = "wait" /\ reader'[c].source = loader'[u].source
      BY <1>2, <1>3, <3>2
    <3> QED BY <1>2, <2>1, <3>1, <3>2 DEF Quiet
  <2>2. loader'[Unload].pc \notin {"free", "done"}
    <3>1. CASE t = Unload
      BY <1>3, <3>1
    <3>2. CASE t \in Reloaders
      <4>1. loader[Unload].pc \notin {"free", "done"}
        BY <1>2, <3>2 DEF Exclusive
      <4>2. loader'[Unload] = loader[Unload]
        BY <1>3, <3>2, ThreadsAssumption DEF Loaders
      <4> QED BY <4>1, <4>2
    <3> QED BY <1>4, <3>1, <3>2 DEF Loaders
  <2> QED BY <2>1, <2>2 DEF Quiet
<1> QED BY <1>3, <1>5, <1>6

\* The wait is over: nobody of the source is inside.
LEMMA WaitKeeps ==
    ASSUME RuntimeInv, NEW t \in Loaders, SyncWait(t)
    PROVE  RuntimeInv'
<1> USE DEF RuntimeInv
<1>1. /\ Goes(t, "drop", loader[t].read, loader[t].new, loader[t].old, "none")
      /\ \A c \in Callbacks : reader[c].source # loader[t].source
      /\ loader[t].pc = "wait" /\ UNCHANGED <<runtimes, runtime, reader, armed, regLock>>
  BY DEF SyncWait, Goes
<1>3. /\ Shapes' /\ InHand' /\ Readers'
      /\ loader'[t].pc = "drop"
      /\ \A u \in Loaders : u # t => loader'[u] = loader[u]
  BY <1>1, PlainStep DEF Loading, Freeing
<1>4. t # Entry
  BY <1>1 DEF Exclusive, Loading, Freeing
<1>5. Exclusive'
  <2>1. loader[t].pc \in Locked /\ loader'[t].pc \in Locked
    BY <1>1, <1>3 DEF Locked
  <2> QED BY <1>1, <1>3, <1>4, <2>1, LockedStep DEF Loaders
<1>6. Quiet'
  <2>1. ASSUME NEW c \in Callbacks, reader'[c].pc # "out"
        PROVE  \/ reader'[c].source \in armed'
               \/ \E u \in Loaders : loader'[u].pc = "wait" /\ reader'[c].source = loader'[u].source
    <3>1. ASSUME NEW u \in Loaders, loader[u].pc = "wait", reader[c].source = loader[u].source
          PROVE  loader'[u].pc = "wait" /\ reader'[c].source = loader'[u].source
      BY <1>1, <1>3, <3>1
    <3> QED BY <1>1, <2>1, <3>1 DEF Quiet
  <2>2. loader'[Unload].pc \notin {"free", "done"}
    <3>1. CASE t = Unload
      BY <1>3, <3>1
    <3>2. CASE t \in Reloaders
      <4>1. loader[Unload].pc \notin {"free", "done"}
        BY <1>1, <3>2 DEF Exclusive
      <4>2. loader'[Unload] = loader[Unload]
        BY <1>3, <3>2, ThreadsAssumption DEF Loaders
      <4> QED BY <4>1, <4>2
    <3> QED BY <1>4, <3>1, <3>2 DEF Loaders
  <2> QED BY <2>1, <2>2 DEF Quiet
<1> QED BY <1>3, <1>5, <1>6

\* A reload starts, gets the lock, registers sources and ends.
LEMMA ReloadKeeps ==
    ASSUME RuntimeInv, NEW t \in Reloaders,
           NotifyStart(t) \/ NotifyLock(t) \/ SyncAdd(t) \/ NotifyEnd(t)
    PROVE  RuntimeInv'
<1> USE DEF RuntimeInv
<1>0. t \in Loaders /\ t # Entry /\ t # Unload /\ t # Free
  BY ThreadsAssumption DEF Loaders
<1>1. PICK pc :
        /\ ReloaderAt(t, pc) /\ UNCHANGED <<runtimes, runtime, reader>> /\ armed \subseteq armed'
        /\ \/ /\ loader[t].pc = "idle" /\ pc = "lock" /\ UNCHANGED regLock
              /\ loader[Entry].pc = "done" /\ loader[Unload].pc = "idle"
           \/ loader[t].pc = "lock" /\ pc = "open" /\ regLock = Free /\ regLock' = t
           \/ loader[t].pc = "drop" /\ pc = "unlock" /\ UNCHANGED regLock
           \/ loader[t].pc = "unlock" /\ pc = "idle" /\ regLock' = Free
  <2>1. CASE NotifyStart(t)
    BY <2>1 DEF NotifyStart
  <2>2. CASE NotifyLock(t)
    BY <2>2 DEF NotifyLock
  <2>3. CASE SyncAdd(t)
    <3>1. PICK m : m \in SUBSET (Needed(producerFlags) \ armed)
                   /\ armed' = armed \cup (Needed(producerFlags) \ m)
      BY <2>3 DEF SyncAdd
    <3>2. armed \subseteq armed'
      BY <3>1
    <3>3. /\ ReloaderAt(t, "unlock") /\ loader[t].pc = "drop"
          /\ UNCHANGED <<runtimes, runtime, reader, regLock>>
      BY <2>3 DEF SyncAdd
    <3> QED BY <3>2, <3>3
  <2>4. CASE NotifyEnd(t)
    BY <2>4 DEF NotifyEnd
  <2> QED BY <2>1, <2>2, <2>3, <2>4
<1>2. Goes(t, pc, loader[t].read, loader[t].new, loader[t].old, loader[t].source)
  BY <1>0, <1>1, LoaderIsAt
<1>3. /\ loader[t].pc \in {"idle", "lock", "drop", "unlock"}
      /\ pc \in {"idle", "lock", "open", "unlock"}
  BY <1>1
<1>4. /\ Shapes' /\ InHand' /\ Readers'
      /\ loader'[t].pc = pc /\ \A u \in Loaders : u # t => loader'[u] = loader[u]
  <2>1. (pc \in Loading <=> loader[t].pc \in Loading) /\ (loader[t].pc \in Freeing => pc \in Freeing)
    BY <1>3 DEF Loading, Freeing
  <2> QED BY <1>0, <1>1, <1>2, <2>1, PlainStep
<1>5. loader[Entry].pc = "done" /\ loader[Unload].pc \in {"idle", "rundown"}
  BY <1>1 DEF Exclusive
<1>6. Exclusive'
  <2>1. loader'[t].pc \in {"idle", "lock"} \cup Locked
    BY <1>1, <1>4 DEF Locked
  <2>2. loader[t].pc \in Locked <=> regLock = t
    BY DEF Exclusive
  <2>3. loader[t].pc \in Locked <=> loader[t].pc \in {"drop", "unlock"}
    BY <1>3 DEF Locked, Loading, Freeing
  <2>4. loader'[t].pc \in Locked <=> pc \in {"open", "unlock"}
    BY <1>3, <1>4 DEF Locked, Loading, Freeing
  <2>5. loader'[t].pc \in Locked <=> regLock' = t
    BY <1>0, <1>1, <2>2, <2>3, <2>4
  <2>6. regLock' = regLock \/ (regLock \in {Free, t} /\ regLock' \in {Free, t})
    BY <1>1, <2>2, <2>3
  <2> QED BY <1>4, <1>5, <2>1, <2>5, <2>6, ReloaderStep
<1>7. Quiet'
  <2>1. loader[t].pc # "wait" /\ loader'[Unload].pc \notin {"free", "done"}
    BY <1>0, <1>3, <1>4, <1>5 DEF Loaders
  <2> QED BY <1>1, <1>4, <2>1, QuietKept
<1> QED BY <1>4, <1>6, <1>7

\* DriverEntry ends, well or badly: until then nothing was registered.
LEMMA EntryKeeps ==
    ASSUME RuntimeInv, EntryRegister
    PROVE  RuntimeInv'
<1> USE DEF RuntimeInv
<1>0. Entry \in Loaders /\ Unload \in Loaders /\ Entry # Unload
      /\ Entry \notin Reloaders /\ Unload \notin Reloaders
  BY ThreadsAssumption DEF Loaders
<1>1. loader[Entry].pc = "register" /\ UNCHANGED <<runtimes, runtime, reader, regLock>>
  BY DEF EntryRegister
<1>2. PICK pc \in {"done", "failed"} :
        loader' = IF pc = "done" THEN [loader EXCEPT ![Entry].pc = "done"]
                  ELSE [loader EXCEPT ![Entry].pc = "failed", ![Unload].pc = "rundown"]
  BY DEF EntryRegister, ReloaderAt
<1>3. /\ loader'[Entry].pc = pc
      /\ loader'[Unload].pc = IF pc = "done" THEN loader[Unload].pc ELSE "rundown"
      /\ \A u \in Loaders :
           /\ loader'[u].new = loader[u].new /\ loader'[u].old = loader[u].old
           /\ u # Entry /\ u # Unload => loader'[u] = loader[u]
      /\ loader' = [u \in Loaders |-> [pc |-> loader'[u].pc, read |-> loader'[u].read,
                                       new |-> loader'[u].new, old |-> loader'[u].old,
                                       source |-> loader'[u].source]]
  <2>1. \A u \in Loaders : loader[u] = [pc |-> loader[u].pc, read |-> loader[u].read,
                                       new |-> loader[u].new, old |-> loader[u].old,
                                       source |-> loader[u].source]
    BY DEF Shapes
  <2> DEFINE At(u, x) == [pc |-> x, read |-> loader[u].read, new |-> loader[u].new,
                          old |-> loader[u].old, source |-> loader[u].source]
  <2>2. ASSUME NEW u \in Loaders, NEW x PROVE [loader[u] EXCEPT !.pc = x] = At(u, x)
    <3>1. loader[u] = [pc |-> loader[u].pc, read |-> loader[u].read,
                       new |-> loader[u].new, old |-> loader[u].old,
                       source |-> loader[u].source]
      BY <2>1
    <3> QED BY <3>1
  <2>3. loader' = [u \in Loaders |->
                     IF u = Entry THEN At(u, pc)
                     ELSE IF u = Unload /\ pc = "failed" THEN At(u, "rundown") ELSE loader[u]]
    <3>1. CASE pc = "done"
      BY <1>0, <1>2, <2>2, <3>1 DEF Shapes
    <3>2. CASE pc = "failed"
      <4> DEFINE l == [loader EXCEPT ![Entry].pc = "failed"]
      <4>1. l = [u \in Loaders |-> IF u = Entry THEN At(u, "failed") ELSE loader[u]]
        BY <1>0, <2>2 DEF Shapes
      <4>2. l[Unload] = loader[Unload]
        BY <1>0, <4>1
      <4>3. loader' = [l EXCEPT ![Unload] = [loader[Unload] EXCEPT !.pc = "rundown"]]
        BY <1>2, <3>2, <4>2
      <4>4. loader' = [l EXCEPT ![Unload] = At(Unload, "rundown")]
        BY <1>0, <2>2, <4>3
      <4> HIDE DEF At, l
      <4> QED BY <1>0, <3>2, <4>1, <4>4
    <3> QED BY <3>1, <3>2
  <2> QED BY <1>0, <2>1, <2>3
<1>4. /\ armed = {} /\ loader[Unload].pc = "idle"
      /\ \A u \in Reloaders : loader[u].pc = "idle"
  BY <1>1 DEF Exclusive
<1>5. \A c \in Callbacks : reader[c].pc = "out"
  <2>1. \A u \in Loaders : loader[u].pc # "wait"
    BY <1>1, <1>4 DEF Loaders
  <2> QED BY <1>4, <2>1 DEF Quiet
<1>6. Shapes'
  BY <1>1, <1>3 DEF Shapes
<1>7. InHand' /\ Readers'
  <2>1. \A u \in Loaders : /\ loader'[u].pc \notin Loading
                           /\ loader[u].pc \notin Loading \cup Freeing
    BY <1>0, <1>1, <1>3, <1>4 DEF Loaders, Loading, Freeing
  <2> QED BY <1>1, <1>3, <2>1, HandsKept
<1>8. Exclusive'
  <2>1. \A u \in Reloaders : loader'[u].pc = loader[u].pc
    BY <1>0, <1>3 DEF Loaders
  <2>2. loader'[Unload].pc \in {"idle", "rundown"} /\ loader'[Entry].pc \in {"done", "failed"}
    BY <1>3, <1>4
  <2> QED BY <1>1, <1>4, <2>1, <2>2 DEF Exclusive
<1>9. Quiet'
  BY <1>1, <1>3, <1>4, <1>5 DEF Quiet
<1> QED BY <1>6, <1>7, <1>8, <1>9

\* The unload waits for the reloads and then for the lock, which is free.
LEMMA UnloadKeeps ==
    ASSUME RuntimeInv, UnloadStart \/ UnloadWait \/ UnloadLock
    PROVE  RuntimeInv'
<1> USE DEF RuntimeInv
<1>0. Entry \in Loaders /\ Unload \in Loaders /\ Entry # Unload
      /\ Entry \notin Reloaders /\ Unload \notin Reloaders
      /\ Unload # Free
  BY ThreadsAssumption DEF Loaders
<1>1. PICK pc :
        /\ ReloaderAt(Unload, pc) /\ UNCHANGED <<runtimes, runtime, reader, armed>>
        /\ \/ /\ loader[Unload].pc = "idle" /\ pc = "rundown" /\ UNCHANGED regLock
              /\ loader[Entry].pc = "done"
           \/ /\ loader[Unload].pc = "rundown" /\ pc = "lock" /\ UNCHANGED regLock
              /\ \A t \in Reloaders : loader[t].pc = "idle"
           \/ loader[Unload].pc = "lock" /\ pc = "drop" /\ regLock = Free /\ regLock' = Unload
  BY DEF UnloadStart, UnloadWait, UnloadLock
<1>2. Goes(Unload, pc, loader[Unload].read, loader[Unload].new, loader[Unload].old,
           loader[Unload].source)
  BY <1>0, <1>1, LoaderIsAt
<1>3. /\ Shapes' /\ InHand' /\ Readers'
      /\ loader'[Unload].pc = pc /\ \A u \in Loaders : u # Unload => loader'[u] = loader[u]
  <2>1. (pc \in Loading <=> loader[Unload].pc \in Loading) /\ loader[Unload].pc \notin Freeing
    BY <1>1 DEF Loading, Freeing
  <2> QED BY <1>0, <1>1, <1>2, <2>1, PlainStep
<1>4. Exclusive'
  <2>1. /\ \A u \in Reloaders : loader'[u].pc = loader[u].pc
        /\ loader'[Entry].pc = loader[Entry].pc
    BY <1>0, <1>3 DEF Loaders
  <2>2. loader[Entry].pc \in {"done", "failed"}
    BY <1>1 DEF Exclusive, Loading, Freeing
  <2>3. pc # "rundown" => \A u \in Reloaders : loader[u].pc = "idle"
    BY <1>1 DEF Exclusive
  <2>4. pc = "rundown" => /\ regLock' = regLock /\ loader[Unload].pc = "idle"
                          /\ (loader[Entry].pc # "done" => \A u \in Reloaders : loader[u].pc = "idle")
    BY <1>1 DEF Exclusive
  <2>5. \A u \in Reloaders : regLock' = u <=> regLock = u
    BY <1>0, <1>1, ThreadsAssumption DEF Loaders
  <2>6. pc \in {"rundown", "lock", "drop"} /\ regLock' \in Reloaders \cup {Unload, Free}
        /\ (pc = "drop" <=> regLock' = Unload)
    BY <1>0, <1>1 DEF Exclusive
  <2> QED BY <1>3, <2>1, <2>2, <2>3, <2>4, <2>5, <2>6 DEF Exclusive
<1>5. Quiet'
  <2>1. loader[Unload].pc # "wait" /\ loader'[Unload].pc \notin {"free", "done"}
    BY <1>1, <1>3
  <2> QED BY <1>1, <1>3, <2>1, QuietKept
<1> QED BY <1>3, <1>4, <1>5

\* With nothing registered, the unload takes the runtime out of force.
LEMMA TakeKeeps ==
    ASSUME RuntimeInv, UnloadTake
    PROVE  RuntimeInv'
<1> USE DEF RuntimeInv
<1>0. Entry \in Loaders /\ Unload \in Loaders /\ Entry # Unload
      /\ Entry \notin Reloaders /\ Unload \notin Reloaders
      /\ Free \notin Reloaders /\ Free # Unload
  BY ThreadsAssumption DEF Loaders
<1>1. /\ loader[Unload].pc = "drop" /\ armed = {} /\ regLock' = Free /\ runtime' = 0
      /\ UNCHANGED <<runtimes, reader, armed>>
      /\ Goes(Unload, "free", loader[Unload].read, loader[Unload].new, runtime,
              loader[Unload].source)
  BY DEF UnloadTake, Dropped, Goes
<1>2. /\ loader'[Unload].pc = "free" /\ loader'[Unload].new = loader[Unload].new
      /\ loader'[Unload].old = runtime
      /\ \A u \in Loaders : u # Unload => loader'[u] = loader[u]
      /\ loader' = [u \in Loaders |-> [pc |-> loader'[u].pc, read |-> loader'[u].read,
                                       new |-> loader'[u].new, old |-> loader'[u].old,
                                       source |-> loader'[u].source]]
  BY <1>0, <1>1, LoaderGoes
<1>3. Shapes'
  BY <1>1, <1>2 DEF Shapes
<1>4. /\ \A u \in Reloaders : loader[u].pc = "idle"
      /\ loader[Entry].pc \in {"done", "failed"}
  BY <1>1 DEF Exclusive
<1>5. \A u \in Loaders : /\ loader[u].pc \notin Loading \cup Freeing \cup {"wait"}
                         /\ loader[u].new = 0 /\ loader[u].old = 0
  <2>1. \A u \in Loaders : loader[u].pc \notin Loading \cup Freeing \cup {"wait"}
    BY <1>1, <1>4 DEF Loaders, Loading, Freeing
  <2> QED BY <2>1 DEF InHand
<1>6. \A c \in Callbacks : reader[c].pc = "out" /\ reader[c].holds = 0
  <2>1. \A c \in Callbacks : reader[c].pc = "out"
    BY <1>1, <1>5 DEF Quiet
  <2> QED BY <2>1 DEF Readers
<1>7. \A i : Alive(i)' <=> Alive(i)
  BY <1>1 DEF Alive
<1>8. InHand'
  <2>1. \A u \in Loaders : /\ loader'[u].pc \notin Loading /\ loader'[u].new = 0
                           /\ u # Unload => loader'[u].old = 0
    BY <1>0, <1>2, <1>5 DEF Loading
  <2>2. loader'[Unload].pc \in Freeing /\ (runtime # 0 => Alive(runtime))
    BY <1>2 DEF Freeing, InHand
  <2>3. ASSUME NEW u \in Loaders, loader'[u].old # 0
        PROVE  loader'[u].pc \in Freeing /\ Alive(loader[u].old)'
    <3>1. PICK o : o = loader'[u].old
      OBVIOUS
    <3>2. u = Unload /\ o = runtime
      BY <1>2, <2>1, <2>3, <3>1
    <3>3. Alive(o)'
      BY <1>7, <2>2, <2>3, <3>1, <3>2
    <3> QED BY <2>2, <3>1, <3>2, <3>3
  <2>4. ASSUME NEW i \in DOMAIN runtimes, Alive(i) PROVE i = loader'[Unload].old
    <3>1. i # 0
      BY RuntimeParts
    <3> QED BY <1>2, <1>5, <2>4, <3>1 DEF InHand
  <2> QED BY <1>0, <1>1, <1>7, <2>1, <2>3, <2>4 DEF InHand
<1>9. Readers'
  <2>1. \A i : Holders(i)' = Holders(i)
    BY <1>1 DEF Holders
  <2>2. \A u \in Loaders : loader'[u].new = 0
    BY <1>2, <1>5
  <2> QED BY <1>1, <1>6, <2>1, <2>2 DEF Readers
<1>10. Exclusive'
  <2>1. \A u \in Reloaders : loader'[u].pc = "idle" /\ loader'[u].pc \notin Locked /\ u # Free
    BY <1>0, <1>2, <1>4 DEF Loaders, Locked, Loading, Freeing
  <2>2. loader'[Entry].pc = loader[Entry].pc
    BY <1>0, <1>2
  <2> QED BY <1>0, <1>1, <1>2, <1>4, <2>1, <2>2 DEF Exclusive
<1>11. Quiet'
  BY <1>1, <1>6 DEF Quiet
<1> QED BY <1>3, <1>8, <1>9, <1>10, <1>11

-----------------------------------------------------------------------------
(* The callbacks.                                                          *)

Moves(c, pc, source, holds) ==
    reader' = [reader EXCEPT ![c] = [pc |-> pc, source |-> source, holds |-> holds]]

LEMMA ReaderMoves ==
    ASSUME Shapes, NEW c \in Callbacks, NEW pc, NEW source, NEW holds,
           Moves(c, pc, source, holds)
    PROVE  /\ reader'[c].pc = pc /\ reader'[c].source = source /\ reader'[c].holds = holds
           /\ \A d \in Callbacks : d # c => reader'[d] = reader[d]
           /\ reader' = [d \in Callbacks |-> [pc |-> reader'[d].pc, source |-> reader'[d].source,
                                              holds |-> reader'[d].holds]]
<1> DEFINE r == [pc |-> pc, source |-> source, holds |-> holds]
<1>1. reader' = [d \in Callbacks |-> IF d = c THEN r ELSE reader[d]]
  BY DEF Moves, Shapes
<1>2. \A d \in Callbacks : reader[d] = [pc |-> reader[d].pc, source |-> reader[d].source,
                                        holds |-> reader[d].holds]
  BY DEF Shapes
<1> QED BY <1>1, <1>2

\* A callback holds at most one runtime more, or one less.
LEMMA HoldersMove ==
    ASSUME Shapes, NEW c \in Callbacks, NEW pc, NEW source, NEW holds,
           Moves(c, pc, source, holds)
    PROVE  \A i : /\ Holders(i) \in SUBSET Callbacks /\ IsFiniteSet(Holders(i))
                  /\ Cardinality(Holders(i)) \in Nat
                  /\ (i = holds <=> i = reader[c].holds) =>
                       Cardinality(Holders(i)') = Cardinality(Holders(i))
                  /\ i = holds /\ i # reader[c].holds =>
                       Cardinality(Holders(i)') = Cardinality(Holders(i)) + 1
                  /\ i # holds /\ i = reader[c].holds =>
                       Cardinality(Holders(i)') = Cardinality(Holders(i)) - 1
<1> SUFFICES ASSUME NEW i
             PROVE  /\ Holders(i) \in SUBSET Callbacks /\ IsFiniteSet(Holders(i))
                    /\ Cardinality(Holders(i)) \in Nat
                    /\ (i = holds <=> i = reader[c].holds) =>
                         Cardinality(Holders(i)') = Cardinality(Holders(i))
                    /\ i = holds /\ i # reader[c].holds =>
                         Cardinality(Holders(i)') = Cardinality(Holders(i)) + 1
                    /\ i # holds /\ i = reader[c].holds =>
                         Cardinality(Holders(i)') = Cardinality(Holders(i)) - 1
  OBVIOUS
<1>1. Holders(i) \in SUBSET Callbacks
  BY DEF Holders
<1>2. IsFiniteSet(Holders(i))
  BY <1>1, ThreadsAssumption, FS_Subset
<1>3. reader'[c].holds = holds /\ \A d \in Callbacks : d # c => reader'[d] = reader[d]
  BY ReaderMoves
<1>4. Holders(i)' = {d \in Callbacks : reader'[d].holds = i}
  BY DEF Holders
<1>5. (i = holds <=> i = reader[c].holds) => Holders(i)' = Holders(i)
  BY <1>3, <1>4 DEF Holders
<1>6. i = holds /\ i # reader[c].holds => Holders(i)' = Holders(i) \cup {c} /\ c \notin Holders(i)
  BY <1>3, <1>4 DEF Holders
<1>7. i # holds /\ i = reader[c].holds => Holders(i)' = Holders(i) \ {c} /\ c \in Holders(i)
  BY <1>3, <1>4 DEF Holders
<1>8. Cardinality(Holders(i)) \in Nat
  BY <1>2, FS_CardinalityType
<1>9. i = holds /\ i # reader[c].holds =>
        Cardinality(Holders(i)') = Cardinality(Holders(i)) + 1
  BY <1>2, <1>6, FS_AddElement
<1>10. i # holds /\ i = reader[c].holds =>
        Cardinality(Holders(i)') = Cardinality(Holders(i)) - 1
  BY <1>2, <1>7, FS_RemoveElement
<1> QED BY <1>1, <1>2, <1>5, <1>8, <1>9, <1>10

\* What a callback holds is the only thing about it that the hands, and the
\* readers of the other runtimes, depend on.
LEMMA CallbackStepKeeps ==
    ASSUME RuntimeInv, NEW c \in Callbacks, NEW pc, NEW source, NEW holds,
           Moves(c, pc, source, holds), UNCHANGED <<runtime, armed, loader, regLock>>,
           \E F : runtimes' \in Seq([readers : Int, freed : BOOLEAN, flags : F]),
           DOMAIN runtimes' = DOMAIN runtimes,
           \A i \in DOMAIN runtimes : runtimes'[i].freed <=> runtimes[i].freed,
           \A i \in DOMAIN runtimes : runtimes'[i].readers = Cardinality(Holders(i)'),
           IF pc = "evaluate" THEN holds = runtime /\ holds # 0 ELSE holds = 0,
           pc # "out" => \/ source \in armed
                         \/ reader[c].pc # "out" /\ source = reader[c].source
    PROVE  RuntimeInv'
<1> USE DEF RuntimeInv
<1>1. /\ reader'[c].pc = pc /\ reader'[c].source = source /\ reader'[c].holds = holds
      /\ \A d \in Callbacks : d # c => reader'[d] = reader[d]
      /\ reader' = [d \in Callbacks |-> [pc |-> reader'[d].pc, source |-> reader'[d].source,
                                         holds |-> reader'[d].holds]]
  BY ReaderMoves
<1>2. Shapes'
  BY <1>1 DEF Shapes
<1>3. Exclusive'
  BY DEF Exclusive
<1>4. \A i : Alive(i)' <=> Alive(i)
  BY DEF Alive
<1>5. InHand'
  BY <1>4 DEF InHand
<1>6. Readers'
  <2>1. ASSUME NEW d \in Callbacks
        PROVE  /\ IF reader'[d].pc = "evaluate" THEN Alive(reader[d].holds)'
                  ELSE reader'[d].holds = 0
               /\ \A t \in Loaders : loader'[t].new # 0 => reader'[d].holds # loader'[t].new
    <3>1. CASE d = c
      <4>1. CASE pc = "evaluate"
        <5>1. Alive(holds)
          BY <4>1 DEF InHand
        <5>2. PICK h : h = reader'[d].holds
          OBVIOUS
        <5>3. h = holds /\ Alive(h)'
          BY <1>1, <1>4, <3>1, <5>1, <5>2
        <5>4. \A t \in Loaders : loader[t].new # 0 => holds # loader[t].new
          BY <4>1 DEF InHand
        <5> QED BY <1>1, <3>1, <4>1, <5>2, <5>3, <5>4
      <4>2. CASE pc # "evaluate"
        BY <1>1, <3>1, <4>2
      <4> QED BY <4>1, <4>2
    <3>2. CASE d # c
      BY <1>1, <1>4, <3>2 DEF Readers
    <3> QED BY <3>1, <3>2
  <2> QED BY <2>1 DEF Readers
<1>7. Quiet'
  <2>1. ASSUME NEW d \in Callbacks, reader'[d].pc # "out"
        PROVE  \/ reader'[d].source \in armed'
               \/ \E t \in Loaders : loader'[t].pc = "wait" /\ reader'[d].source = loader'[t].source
    <3>1. CASE d = c
      BY <1>1, <2>1, <3>1 DEF Quiet
    <3>2. CASE d # c
      BY <1>1, <2>1, <3>2 DEF Quiet
    <3> QED BY <3>1, <3>2
  <2>2. ASSUME loader'[Unload].pc \in {"free", "done"}
        PROVE  armed' = {} /\ runtime' = 0 /\ \A d \in Callbacks : reader'[d].pc = "out"
    <3>1. armed = {} /\ runtime = 0 /\ \A d \in Callbacks : reader[d].pc = "out"
      BY <2>2 DEF Quiet
    <3>2. pc = "out"
      BY <3>1
    <3> QED BY <1>1, <3>1, <3>2
  <2> QED BY <2>1, <2>2 DEF Quiet
<1> QED BY <1>2, <1>3, <1>5, <1>6, <1>7

\* A callback that holds nothing before and after.
LEMMA OutsideKeeps ==
    ASSUME RuntimeInv, NEW c \in Callbacks,
           \/ CallbackEnter(c) \/ CallbackEnabled(c) \/ CallbackFlag(c)
           \/ AcquireSnapshot(c) /\ runtime = 0
    PROVE  RuntimeInv'
<1> USE DEF RuntimeInv
<1>1. reader[c] = [pc |-> reader[c].pc, source |-> reader[c].source, holds |-> reader[c].holds]
  BY DEF Shapes
<1>2. \A x : [reader[c] EXCEPT !.pc = x] =
               [pc |-> x, source |-> reader[c].source, holds |-> reader[c].holds]
  BY <1>1
<1>3. reader[c].pc \in {"out", "gate", "gate2", "acquire"} /\ reader[c].holds = 0
  <2>1. reader[c].pc \in {"out", "gate", "gate2", "acquire"}
    BY DEF CallbackEnter, CallbackEnabled, CallbackFlag, AcquireSnapshot
  <2> QED BY <2>1 DEF Readers
<1>4. UNCHANGED <<runtimes, runtime, armed, loader, regLock>>
  BY DEF CallbackEnter, CallbackEnabled, CallbackFlag, AcquireSnapshot
<1>5. PICK pc, source :
        /\ Moves(c, pc, source, 0) /\ pc # "evaluate"
        /\ pc # "out" => \/ source \in armed
                         \/ reader[c].pc # "out" /\ source = reader[c].source
  <2>1. CASE CallbackEnter(c)
    BY <1>3, <2>1 DEF CallbackEnter, Moves
  <2>2. CASE Leave(c)
    BY <2>2 DEF Leave, Moves
  <2>3. CASE CallbackEnabled(c) /\ ~Leave(c)
    <3>1. reader' = [reader EXCEPT ![c].pc = "gate2"] /\ reader[c].pc = "gate"
      BY <2>3 DEF CallbackEnabled
    <3>2. Moves(c, "gate2", reader[c].source, 0)
      BY <1>2, <1>3, <3>1 DEF Moves
    <3> QED BY <3>1, <3>2
  <2>4. CASE CallbackFlag(c) /\ ~Leave(c)
    <3>1. reader' = [reader EXCEPT ![c].pc = "acquire"] /\ reader[c].pc = "gate2"
      BY <2>4 DEF CallbackFlag
    <3>2. Moves(c, "acquire", reader[c].source, 0)
      BY <1>2, <1>3, <3>1 DEF Moves
    <3> QED BY <3>1, <3>2
  <2>5. AcquireSnapshot(c) /\ runtime = 0 => Leave(c)
    BY DEF AcquireSnapshot
  <2> QED BY <2>1, <2>2, <2>3, <2>4, <2>5
<1>6. \A i : Cardinality(Holders(i)') = Cardinality(Holders(i))
  BY <1>3, <1>5, HoldersMove
<1>7. \A i \in DOMAIN runtimes : runtimes'[i].readers = Cardinality(Holders(i)')
  BY <1>4, <1>6 DEF Readers
<1>8. \E F : runtimes' \in Seq([readers : Int, freed : BOOLEAN, flags : F])
  BY <1>4 DEF Shapes
<1> QED BY <1>4, <1>5, <1>7, <1>8, CallbackStepKeeps

\* A callback gets hold of the runtime in force.
LEMMA AcquireKeeps ==
    ASSUME RuntimeInv, NEW c \in Callbacks, AcquireSnapshot(c), runtime # 0
    PROVE  RuntimeInv'
<1> USE DEF RuntimeInv
<1>0. PICK n : n = runtime
  OBVIOUS
<1>1. n \in DOMAIN runtimes
  BY <1>0 DEF InHand, Alive
<1>2. /\ reader[c].pc = "acquire" /\ UNCHANGED <<runtime, armed, loader, regLock>>
      /\ runtimes' = [runtimes EXCEPT ![n].readers = runtimes[n].readers + 1]
      /\ Moves(c, "evaluate", reader[c].source, n)
  BY <1>0 DEF AcquireSnapshot, Moves
<1>3. runtimes[n].readers + 1 \in Int /\ runtimes[n].freed \in BOOLEAN
  BY <1>1, RuntimeParts
<1>4. Becomes(n, runtimes[n].readers + 1, runtimes[n].freed, runtimes[n].flags)
  BY <1>1, <1>2, RuntimeParts DEF Becomes
<1>5. /\ \E F : runtimes' \in Seq([readers : Int, freed : BOOLEAN, flags : F])
      /\ DOMAIN runtimes' = DOMAIN runtimes
      /\ runtimes'[n].readers = runtimes[n].readers + 1
      /\ (runtimes'[n].freed <=> runtimes[n].freed)
      /\ \A i \in DOMAIN runtimes : i # n => runtimes'[i] = runtimes[i]
  <2>1. PICK count, freed, flags : /\ count = runtimes[n].readers + 1
                                   /\ freed = runtimes[n].freed /\ flags = runtimes[n].flags
    OBVIOUS
  <2>2. /\ Shapes /\ n \in DOMAIN runtimes /\ count \in Int /\ freed \in BOOLEAN
        /\ Becomes(n, count, freed, flags)
    BY <1>1, <1>3, <1>4, <2>1
  <2>3. /\ \E F : runtimes' \in Seq([readers : Int, freed : BOOLEAN, flags : F])
        /\ DOMAIN runtimes' = DOMAIN runtimes
        /\ runtimes'[n].readers = count /\ (runtimes'[n].freed <=> freed)
        /\ \A i \in DOMAIN runtimes : i # n => runtimes'[i] = runtimes[i]
    BY ONLY <2>2, RuntimeBecomes
  <2> QED
    BY ONLY <2>1, <2>3
<1>6. reader[c].holds = 0
  BY <1>2 DEF Readers
<1>7. ASSUME NEW i \in DOMAIN runtimes
      PROVE  runtimes'[i].readers = Cardinality(Holders(i)')
  <2>1. i # 0
    BY RuntimeParts
  <2> QED BY <1>2, <1>5, <1>6, <2>1, HoldersMove DEF Readers
<1> QED BY <1>0, <1>2, <1>5, <1>7, CallbackStepKeeps

\* It lets go of the runtime it holds, which may no longer be in force.
LEMMA ReleaseKeeps ==
    ASSUME RuntimeInv, NEW c \in Callbacks, ReleaseSnapshot(c)
    PROVE  RuntimeInv'
<1> USE DEF RuntimeInv
<1>0. PICK n : n = reader[c].holds
  OBVIOUS
<1>1. n \in DOMAIN runtimes /\ n # 0
  <2>1. n \in DOMAIN runtimes
    BY <1>0 DEF ReleaseSnapshot, Readers, Alive
  <2> QED BY <2>1, RuntimeParts
<1>2. /\ UNCHANGED <<runtime, armed, loader, regLock>>
      /\ runtimes' = [runtimes EXCEPT ![n].readers = runtimes[n].readers - 1]
      /\ Moves(c, "out", "none", 0)
  BY <1>0 DEF ReleaseSnapshot, Leave, Moves
<1>3. runtimes[n].readers - 1 \in Int /\ runtimes[n].freed \in BOOLEAN
  BY <1>1, RuntimeParts
<1>4. Becomes(n, runtimes[n].readers - 1, runtimes[n].freed, runtimes[n].flags)
  BY <1>1, <1>2, RuntimeParts DEF Becomes
<1>5. /\ \E F : runtimes' \in Seq([readers : Int, freed : BOOLEAN, flags : F])
      /\ DOMAIN runtimes' = DOMAIN runtimes
      /\ runtimes'[n].readers = runtimes[n].readers - 1
      /\ (runtimes'[n].freed <=> runtimes[n].freed)
      /\ \A i \in DOMAIN runtimes : i # n => runtimes'[i] = runtimes[i]
  <2>1. PICK count, freed, flags : /\ count = runtimes[n].readers - 1
                                   /\ freed = runtimes[n].freed /\ flags = runtimes[n].flags
    OBVIOUS
  <2>2. /\ Shapes /\ n \in DOMAIN runtimes /\ count \in Int /\ freed \in BOOLEAN
        /\ Becomes(n, count, freed, flags)
    BY <1>1, <1>3, <1>4, <2>1
  <2>3. /\ \E F : runtimes' \in Seq([readers : Int, freed : BOOLEAN, flags : F])
        /\ DOMAIN runtimes' = DOMAIN runtimes
        /\ runtimes'[n].readers = count /\ (runtimes'[n].freed <=> freed)
        /\ \A i \in DOMAIN runtimes : i # n => runtimes'[i] = runtimes[i]
    BY ONLY <2>2, RuntimeBecomes
  <2> QED
    BY ONLY <2>1, <2>3
<1>6. ASSUME NEW i \in DOMAIN runtimes
      PROVE  runtimes'[i].readers = Cardinality(Holders(i)')
  <2>1. i # 0
    BY RuntimeParts
  <2> QED BY <1>0, <1>2, <1>5, <2>1, HoldersMove DEF Readers
<1> QED BY <1>2, <1>5, <1>6, CallbackStepKeeps

-----------------------------------------------------------------------------
(* The theorem.                                                            *)

LEMMA RuntimeInitial == RuntimeInit => RuntimeInv
<1> SUFFICES ASSUME RuntimeInit PROVE RuntimeInv
  OBVIOUS
<1> USE ThreadsAssumption DEF RuntimeInit, Loaders
<1>1. runtimes = <<>> /\ runtimes \in Seq([readers : Int, freed : BOOLEAN, flags : {}])
      /\ DOMAIN runtimes = {}
  <2>1. runtimes \in Seq([readers : Int, freed : BOOLEAN, flags : {}])
    BY EmptySeq
  <2> QED BY <2>1
<1>2. /\ \A t \in Loaders : /\ loader[t].pc = IF t = Entry THEN "open" ELSE "idle"
                            /\ loader[t].new = 0 /\ loader[t].old = 0
      /\ \A c \in Callbacks : reader[c].pc = "out" /\ reader[c].holds = 0
      /\ armed = {} /\ runtime = 0 /\ regLock = Free
  OBVIOUS
<1>3. Shapes
  BY <1>1 DEF Shapes
<1>4. Exclusive
  BY <1>2 DEF Exclusive, Locked, Loading, Freeing
<1>5. InHand
  BY <1>1, <1>2 DEF InHand, Loading
<1>6. Readers
  BY <1>1, <1>2 DEF Readers
<1>7. Quiet
  BY <1>2 DEF Quiet
<1> QED BY <1>3, <1>4, <1>5, <1>6, <1>7 DEF RuntimeInv

LEMMA RuntimeStep == RuntimeInv /\ [RuntimeNext]_runtimeVars => RuntimeInv'
<1> SUFFICES ASSUME RuntimeInv, [RuntimeNext]_runtimeVars PROVE RuntimeInv'
  OBVIOUS
<1>1. ASSUME NEW t \in Loaders, LoaderStep(t) PROVE RuntimeInv'
  <2>1. t \in Reloaders /\ (NotifyLock(t) \/ NotifyEnd(t)) => RuntimeInv'
    BY ReloadKeeps
  <2>2. SyncAdd(t) => RuntimeInv'
    BY ReloadKeeps DEF SyncAdd
  <2> QED
    BY <1>1, <2>1, <2>2, CreationKeeps, ValuesKeep, RulesKeep, FailureKeeps, SwapKeeps,
       FreeKeeps, DropKeeps, WaitKeeps DEF LoaderStep
<1>2. ASSUME NEW t \in Reloaders, NotifyStart(t) PROVE RuntimeInv'
  BY <1>2, ReloadKeeps
<1>3. ASSUME NEW c \in Callbacks, CallbackEnter(c) \/ CallbackStep(c) PROVE RuntimeInv'
  BY <1>3, OutsideKeeps, AcquireKeeps, ReleaseKeeps DEF CallbackStep
<1>4. UnloadStart \/ UnloadStep => RuntimeInv'
  BY UnloadKeeps, TakeKeeps DEF UnloadStep
<1>5. CASE UNCHANGED runtimeVars
  <2> USE <1>5 DEF runtimeVars, RuntimeInv
  <2>1. Shapes'
    BY DEF Shapes
  <2>2. Exclusive'
    BY DEF Exclusive
  <2>3. \A i : (Alive(i)' <=> Alive(i)) /\ Holders(i)' = Holders(i)
    BY DEF Alive, Holders
  <2>4. InHand' /\ Readers'
    BY <2>3 DEF InHand, Readers
  <2>5. Quiet'
    BY DEF Quiet
  <2> QED BY <2>1, <2>2, <2>4, <2>5
<1> QED BY <1>1, <1>2, <1>3, <1>4, <1>5, EntryKeeps DEF RuntimeNext

LEMMA RuntimesAreSafeByInv == RuntimeInv => RuntimesAreSafe
<1> SUFFICES ASSUME RuntimeInv PROVE RuntimesAreSafe
  OBVIOUS
<1> USE DEF RuntimeInv
<1>1. RuntimeInUseIsAlive
  BY DEF RuntimeInUseIsAlive, Readers, Alive
<1>2. RuntimesAccounted
  <2> SUFFICES
        ASSUME NEW i \in DOMAIN runtimes
        PROVE  /\ Cardinality({t \in Loaders : i \in {loader[t].new, loader[t].old}})
                    + (IF runtime = i THEN 1 ELSE 0)
                    = IF runtimes[i].freed THEN 0 ELSE 1
               /\ runtimes[i].readers = Cardinality({c \in Callbacks : reader[c].holds = i})
    BY DEF RuntimesAccounted
  <2> DEFINE owners == {t \in Loaders : i \in {loader[t].new, loader[t].old}}
  <2>1. i # 0 /\ runtimes[i].freed \in BOOLEAN
    BY RuntimeParts
  <2>2. \A t \in owners : loader[t].pc \in Loading \cup Freeing /\ Alive(i) /\ runtime # i
    BY <2>1 DEF InHand
  <2>3. CASE owners = {}
    <3>1. Cardinality(owners) = 0
      BY <2>3, FS_EmptySet
    <3>2. runtime = i <=> ~runtimes[i].freed
      BY <2>1, <2>3 DEF InHand, Alive
    <3> QED BY <2>1, <3>1, <3>2 DEF Readers, Holders
  <2>4. CASE owners # {}
    <3>1. PICK t \in owners : TRUE
      BY <2>4
    <3>2. owners = {t}
      BY <2>2, <3>1, OneLoader
    <3>3. Cardinality(owners) = 1
      BY <3>2, FS_Singleton
    <3>4. ~runtimes[i].freed /\ runtime # i
      BY <2>2, <3>1 DEF Alive
    <3> QED BY <3>3, <3>4 DEF Readers, Holders
  <2> QED BY <2>3, <2>4
<1>3. UnloadedIsQuiet
  <2> SUFFICES ASSUME loader[Unload].pc = "done"
               PROVE  /\ armed = {} /\ runtime = 0 /\ regLock = Free
                      /\ \A c \in Callbacks : reader[c].pc = "out"
                      /\ \A i \in DOMAIN runtimes : runtimes[i].freed
    BY DEF UnloadedIsQuiet
  <2>1. armed = {} /\ runtime = 0 /\ \A c \in Callbacks : reader[c].pc = "out"
    BY DEF Quiet
  <2>2. loader[Entry].pc \in {"done", "failed"} /\ \A t \in Reloaders : loader[t].pc = "idle"
    BY DEF Exclusive
  <2>3. regLock = Free
    <3>1. "idle" \notin Locked
      BY DEF Locked, Loading, Freeing
    <3> QED BY <2>2, <3>1 DEF Exclusive
  <2>4. \A t \in Loaders : loader[t].new = 0 /\ loader[t].old = 0
    <3>1. \A t \in Loaders : loader[t].pc \notin Loading \cup Freeing
      BY <2>2 DEF Loaders, Loading, Freeing
    <3> QED BY <3>1 DEF InHand
  <2>5. \A i \in DOMAIN runtimes : runtimes[i].freed
    <3> SUFFICES ASSUME NEW i \in DOMAIN runtimes PROVE runtimes[i].freed
      OBVIOUS
    <3>1. i # 0
      BY RuntimeParts
    <3> QED BY <2>1, <2>4, <3>1 DEF InHand, Alive
  <2> QED BY <2>1, <2>3, <2>5
<1> QED BY <1>1, <1>2, <1>3 DEF RuntimesAreSafe

\* No callback evaluates a freed runtime, every runtime is in force, in the hands
\* of one thread or freed, and an unloaded driver has left none behind
\* (SysmonLoadConfiguration, SysmonAcquireRuleRuntimeSnapshot,
\* SysmonDriverCleanupInternal).
THEOREM RuntimesAreAlwaysSafe == RuntimeSpec => []RuntimesAreSafe
<1>1. RuntimeSpec => []RuntimeInv
  BY RuntimeInitial, RuntimeStep, PTL DEF RuntimeSpec
<1> QED BY <1>1, RuntimesAreSafeByInv, PTL

-----------------------------------------------------------------------------
(* What is switched on is what the rules in force ask for.  A swap of the  *)
(* runtime puts its flags in force at once; the access filter and the      *)
(* registrations follow while the loader still holds RegistrationLock      *)
(* (Settling).  Only DriverEntry registers without the lock, and then      *)
(* there is no runtime but its own (FirstRuntime).                         *)

Settling == {"filter", "free", "drop", "wait"}

FilterFollows ==
    loader[Unload].pc = "idle" =>
      accessFilter = runtime \/ \E t \in Loaders : loader[t].pc = "filter"

Registered ==
    /\ Needed(producerFlags) \subseteq armed \cup missing
    /\ armed \subseteq Asked(producerFlags) \cup {"file", "access", "tampering"}
    /\ runtime > 1 /\ "enabled" \notin producerFlags => armed \subseteq {"file"}

RegistrationsFollow ==
    loader[Entry].pc = "done" /\ loader[Unload].pc = "idle" =>
      Registered \/ \E t \in Reloaders : loader[t].pc \in Settling

FirstRuntime ==
    /\ loader[Entry].pc = "open" => runtimes = <<>>
    /\ loader[Entry].pc \notin {"done", "failed"} => Len(runtimes) <= 1

FlagsInv == FlagsAreOfTheRuntime /\ FilterFollows /\ RegistrationsFollow /\ FirstRuntime

\* A runtime keeps its flags whatever becomes of its readers or of another one.
LEMMA FlagsStay ==
    ASSUME Shapes, NEW n \in DOMAIN runtimes, NEW i \in DOMAIN runtimes, NEW x
    PROVE  /\ [runtimes EXCEPT ![n].freed = x][i].flags = runtimes[i].flags
           /\ [runtimes EXCEPT ![n].readers = x][i].flags = runtimes[i].flags
           /\ i # n => [runtimes EXCEPT ![n].flags = x][i].flags = runtimes[i].flags
  BY RuntimeParts

\* The runtime in force has a number.
LEMMA RuntimeNumbered ==
    ASSUME Shapes, InHand
    PROVE  /\ DOMAIN runtimes = 1 .. Len(runtimes) /\ Len(runtimes) \in Nat
           /\ runtime \in 0 .. Len(runtimes)
<1>1. DOMAIN runtimes = 1 .. Len(runtimes) /\ Len(runtimes) \in Nat
  <2>1. PICK F : runtimes \in Seq([readers : Int, freed : BOOLEAN, flags : F])
    BY DEF Shapes
  <2> QED BY <2>1, LenProperties
<1> QED BY <1>1 DEF InHand, Alive

\* A step that leaves alone what the invariant speaks of.
LEMMA FlagsKept ==
    ASSUME FlagsInv, Shapes, InHand,
           UNCHANGED <<runtime, producerFlags, accessFilter, armed, missing>>,
           runtime # 0 => runtimes'[runtime].flags = runtimes[runtime].flags,
           loader'[Unload].pc = "idle" => loader[Unload].pc = "idle",
           loader'[Entry].pc = "done" => loader[Entry].pc = "done",
           \A t \in Loaders : loader[t].pc = "filter" => loader'[t].pc = "filter",
           \A t \in Reloaders : loader[t].pc \in Settling => loader'[t].pc \in Settling,
           FirstRuntime'
    PROVE  FlagsInv'
<1>1. FlagsAreOfTheRuntime'
  BY DEF FlagsInv, FlagsAreOfTheRuntime
<1>2. FilterFollows'
  BY DEF FlagsInv, FilterFollows
<1>3. RegistrationsFollow'
  <2>1. Registered' <=> Registered
    BY DEF Registered, Needed, Asked
  <2> QED BY <2>1 DEF FlagsInv, RegistrationsFollow
<1> QED BY <1>1, <1>2, <1>3 DEF FlagsInv

\* Once the unload has begun, nothing is said of the flags.
LEMMA UnloadForgets ==
    ASSUME FlagsInv, loader'[Unload].pc # "idle",
           loader'[Entry].pc = loader[Entry].pc, UNCHANGED runtimes
    PROVE  FlagsInv'
  BY DEF FlagsInv, FlagsAreOfTheRuntime, FilterFollows, RegistrationsFollow, FirstRuntime

\* DriverEntry has its own runtime only.
LEMMA FirstKept ==
    ASSUME RuntimeInv, FlagsInv, NEW t \in Loaders,
           \A u \in Loaders : u # t => loader'[u] = loader[u],
           UNCHANGED runtimes \/ (DOMAIN runtimes' = DOMAIN runtimes /\ Shapes'),
           t = Entry => loader[t].pc \notin {"open", "done", "failed"} /\ loader'[t].pc # "open"
    PROVE  FirstRuntime'
<1>1. Len(runtimes') = Len(runtimes)
  <2>1. CASE UNCHANGED runtimes
    BY <2>1
  <2>2. CASE DOMAIN runtimes' = DOMAIN runtimes /\ Shapes'
    <3>1. DOMAIN runtimes = 1 .. Len(runtimes) /\ Len(runtimes) \in Nat
      BY RuntimeNumbered DEF RuntimeInv
    <3>2. PICK F : runtimes' \in Seq([readers : Int, freed : BOOLEAN, flags : F])
      BY <2>2 DEF Shapes
    <3>3. DOMAIN runtimes' = 1 .. Len(runtimes') /\ Len(runtimes') \in Nat
      BY <3>2, LenProperties
    <3> QED BY <2>2, <3>1, <3>3
  <2> QED BY <2>1, <2>2
<1>2. runtimes = <<>> => runtimes' = <<>>
  <2>1. CASE UNCHANGED runtimes
    BY <2>1
  <2>2. CASE DOMAIN runtimes' = DOMAIN runtimes /\ Shapes'
    <3>1. PICK F : runtimes' \in Seq([readers : Int, freed : BOOLEAN, flags : F])
      BY <2>2 DEF Shapes
    <3>2. runtimes = <<>> => Len(runtimes) = 0
      OBVIOUS
    <3> QED BY <1>1, <3>1, <3>2, EmptySeq
  <2> QED BY <2>1, <2>2
<1>3. Entry \in Loaders
  BY DEF Loaders
<1> QED BY <1>1, <1>2, <1>3 DEF FlagsInv, FirstRuntime

\* The steps of a loader that has not yet swapped, or only frees.
LEMMA LoadersKeepFlags ==
    ASSUME RuntimeInv, RuntimeInv', FlagsInv, NEW t \in Loaders,
           LoadValues(t) \/ LoadRules(t) \/ ApplyConfig(t) \/ LoadFails(t) \/ FreeOld(t)
    PROVE  FlagsInv'
<1> USE DEF RuntimeInv
<1>1. PICK pc, read, new, old :
        /\ Goes(t, pc, read, new, old, loader[t].source)
        /\ loader[t].pc \in Loading \cup {"free"}
        /\ \/ loader[t].pc # "free" /\ pc \in {"rules", "apply", "swap", "fail"}
           \/ loader[t].pc = "fail" /\ pc = IF t = Entry THEN "register" ELSE "unlock"
           \/ loader[t].pc = "free" /\ pc = AfterLoad(t)
  <2>1. CASE LoadValues(t) \/ LoadRules(t) \/ ApplyConfig(t)
    <3>1. PICK pc \in {"rules", "apply", "swap", "fail"} : ReloaderAt(t, pc)
      BY <2>1 DEF LoadValues, LoadRules, ApplyConfig
    <3>2. loader[t].pc \in Loading \ {"swap", "fail"}
      BY <2>1 DEF LoadValues, LoadRules, ApplyConfig, Loading
    <3> QED BY <3>1, <3>2, LoaderIsAt DEF Loading
  <2>2. CASE LoadFails(t)
    BY <2>2 DEF LoadFails, Goes, Loading
  <2>3. CASE FreeOld(t)
    <3>1. loader[t].pc = "free"
          /\ Goes(t, AfterLoad(t), loader[t].read, loader[t].new, 0, loader[t].source)
      BY <2>3 DEF FreeOld, Goes
    <3> QED BY <3>1 DEF Loading
  <2> QED BY <2>1, <2>2, <2>3
<1>2. /\ loader'[t].pc = pc /\ \A u \in Loaders : u # t => loader'[u] = loader[u]
  BY <1>1, LoaderGoes
<1>3. UNCHANGED <<runtime, producerFlags, accessFilter, armed, missing>>
  BY DEF LoadValues, LoadRules, ApplyConfig, LoadFails, FreeOld
<1>4. /\ DOMAIN runtimes' = DOMAIN runtimes
      /\ runtime # 0 => runtimes'[runtime].flags = runtimes[runtime].flags
  <2>1. runtime # 0 => runtime \in DOMAIN runtimes
    BY DEF InHand, Alive
  <2>2. CASE UNCHANGED runtimes
    BY <2>2
  <2>3. CASE LoadRules(t) /\ ~UNCHANGED runtimes
    <3>1. PICK flags : runtimes' = [runtimes EXCEPT ![loader[t].new].flags = flags]
      BY <2>3 DEF LoadRules
    <3>2. loader[t].new \in DOMAIN runtimes /\ (runtime # 0 => runtime # loader[t].new)
      BY <2>3 DEF LoadRules, InHand, Loading, Alive
    <3> QED BY <2>1, <3>1, <3>2, FlagsStay
  <2>4. CASE LoadFails(t)
    <3>1. loader[t].new \in DOMAIN runtimes
      BY <2>4 DEF LoadFails, InHand, Loading, Alive
    <3> QED BY <2>1, <2>4, <3>1, FlagsStay DEF LoadFails
  <2>5. CASE FreeOld(t) /\ loader[t].old # 0
    <3>1. loader[t].old \in DOMAIN runtimes
      BY <2>5 DEF InHand, Alive
    <3> QED BY <2>1, <2>5, <3>1, FlagsStay DEF FreeOld
  <2>6. FreeOld(t) /\ loader[t].old = 0 => UNCHANGED runtimes
    BY DEF FreeOld
  <2> QED BY <2>2, <2>3, <2>4, <2>5, <2>6 DEF LoadValues, ApplyConfig
<1>5. t = Entry => pc = "register" \/ pc \in {"rules", "apply", "swap", "fail"}
  <2>1. t = Entry => AfterLoad(t) = "register"
    BY ThreadsAssumption DEF AfterLoad
  <2> QED BY <1>1, <2>1
<1>6. FirstRuntime'
  BY <1>1, <1>2, <1>4, <1>5, FirstKept DEF Loading
<1>7. loader'[Unload].pc = "idle" => loader[Unload].pc = "idle"
  <2>1. CASE t = Unload
    BY <1>1, <1>2, <2>1, ThreadsAssumption DEF AfterLoad, Exclusive, Loading
  <2> QED BY <1>2, <2>1 DEF Loaders
<1>8. loader'[Entry].pc = "done" => loader[Entry].pc = "done"
  BY <1>2, <1>5 DEF Loaders
<1>9. \A u \in Loaders : loader[u].pc = "filter" => loader'[u].pc = "filter"
  BY <1>1, <1>2 DEF Loading
<1>10. \A u \in Reloaders : loader[u].pc \in Settling => loader'[u].pc \in Settling
  <2>1. t \in Reloaders => AfterLoad(t) = "drop"
    BY ThreadsAssumption DEF AfterLoad
  <2> QED BY <1>1, <1>2, <2>1 DEF Settling, Loading, Loaders
<1> QED BY <1>3, <1>4, <1>6, <1>7, <1>8, <1>9, <1>10, FlagsKept

\* A new runtime is not in force; the first one is DriverEntry's.
LEMMA CreationKeepsFlags ==
    ASSUME RuntimeInv, FlagsInv, NEW t \in Loaders, LoadDwords(t)
    PROVE  FlagsInv'
<1> USE DEF RuntimeInv
<1>1. PICK pc, read, new, old, flags :
        /\ Goes(t, pc, read, new, old, loader[t].source)
        /\ runtimes' = Append(runtimes, [readers |-> 0, freed |-> FALSE, flags |-> flags])
        /\ loader[t].pc = "open" /\ pc \in {"values", "apply", "fail"}
  <2>1. PICK key \in Registries, carry \in {"0", "1"} :
          /\ runtimes' = Append(runtimes, [readers |-> 0, freed |-> FALSE,
                                          flags |-> DeriveFlags({}, NoRules)])
          /\ loader' = [loader EXCEPT ![t] =
               [pc |-> CASE key.key = "found" -> "values"
                         [] key.key = "missing" -> "apply"
                         [] OTHER -> "fail",
                read |-> IF key.key = "found" THEN ReadDwords(key.dwords, carry) ELSE {},
                new |-> Len(runtimes) + 1, old |-> loader[t].old, source |-> loader[t].source]]
    BY DEF LoadDwords
  <2> DEFINE pc == CASE key.key = "found" -> "values"
                     [] key.key = "missing" -> "apply"
                     [] OTHER -> "fail"
             read == IF key.key = "found" THEN ReadDwords(key.dwords, carry) ELSE {}
  <2>2. pc \in {"values", "apply", "fail"} /\ loader[t].pc = "open"
    BY DEF LoadDwords
  <2>3. Goes(t, pc, read, Len(runtimes) + 1, loader[t].old, loader[t].source)
    BY <2>1 DEF Goes
  <2> HIDE DEF pc, read
  <2> QED BY <2>1, <2>2, <2>3
<1>2. loader'[t].pc = pc /\ \A u \in Loaders : u # t => loader'[u] = loader[u]
  BY <1>1, LoaderGoes
<1>3. UNCHANGED <<runtime, producerFlags, accessFilter, armed, missing>>
  BY DEF LoadDwords
<1>4. runtime # 0 => runtimes'[runtime].flags = runtimes[runtime].flags
  BY <1>1, RuntimeAdded DEF InHand, Alive
<1>5. FirstRuntime'
  <2>1. CASE t = Entry
    <3>1. runtimes = <<>> /\ runtimes \in Seq({}) /\ Len(runtimes) = 0
      BY <1>1, <2>1, EmptySeq DEF FlagsInv, FirstRuntime
    <3>2. Len(runtimes') = 1
      BY <1>1, <3>1
    <3> QED BY <1>1, <1>2, <2>1, <3>2 DEF FirstRuntime
  <2>2. CASE t # Entry
    <3>1. loader[Entry].pc \in {"done", "failed"}
      BY <1>1, <2>2 DEF Exclusive, Loaders
    <3> QED BY <1>2, <2>2, <3>1 DEF FirstRuntime, Loaders
  <2> QED BY <2>1, <2>2
<1>6. t # Unload
  BY <1>1 DEF Exclusive
<1>7. /\ loader'[Unload].pc = "idle" => loader[Unload].pc = "idle"
      /\ loader'[Entry].pc = "done" => loader[Entry].pc = "done"
  BY <1>1, <1>2, <1>6 DEF Loaders
<1>8. /\ \A u \in Loaders : loader[u].pc = "filter" => loader'[u].pc = "filter"
      /\ \A u \in Reloaders : loader[u].pc \in Settling => loader'[u].pc \in Settling
  BY <1>1, <1>2 DEF Settling, Loaders
<1> QED BY <1>3, <1>4, <1>5, <1>7, <1>8, FlagsKept

\* The swap, and the filter after it.
LEMMA SwapKeepsFlags ==
    ASSUME RuntimeInv, FlagsInv, NEW t \in Loaders,
           LoadSwap(t) \/ ApplyProcessAccessFilter(t)
    PROVE  FlagsInv'
<1> USE DEF RuntimeInv
<1>1. PICK pc, read, new, old :
        /\ Goes(t, pc, read, new, old, loader[t].source)
        /\ \/ LoadSwap(t) /\ pc = "filter"
           \/ ApplyProcessAccessFilter(t) /\ pc = "free"
  <2>1. CASE LoadSwap(t)
    BY <2>1 DEF LoadSwap, Goes
  <2>2. CASE ApplyProcessAccessFilter(t)
    <3>1. ReloaderAt(t, "free")
      BY <2>2 DEF ApplyProcessAccessFilter
    <3> QED BY <2>2, <3>1, LoaderIsAt
  <2> QED BY <2>1, <2>2
<1>2. /\ loader'[t].pc = pc /\ \A u \in Loaders : u # t => loader'[u] = loader[u]
      /\ loader[t].pc \in {"swap", "filter"} /\ UNCHANGED runtimes /\ pc \in {"filter", "free"}
  BY <1>1, LoaderGoes DEF LoadSwap, ApplyProcessAccessFilter
<1>3. t \in Reloaders \/ (t = Entry /\ loader[Entry].pc # "done")
  <2>1. t # Unload
    BY <1>2 DEF Exclusive
  <2>2. t = Entry => loader[Entry].pc # "done"
    BY <1>2
  <2>3. t \in Reloaders \/ t = Entry
    BY <2>1 DEF Loaders
  <2> QED BY <2>2, <2>3
<1>4. FirstRuntime'
  BY <1>2, FirstKept
<1>5. FlagsAreOfTheRuntime'
  <2>1. CASE LoadSwap(t)
    BY <1>2, <2>1 DEF LoadSwap, FlagsAreOfTheRuntime
  <2>2. CASE ApplyProcessAccessFilter(t)
    <3>1. t # Unload
      BY <1>3, ThreadsAssumption
    <3>2. UNCHANGED <<producerFlags, runtime>> /\ loader'[Unload] = loader[Unload]
      BY <1>2, <2>2, <3>1 DEF ApplyProcessAccessFilter, Loaders
    <3> QED BY <1>2, <3>2 DEF FlagsAreOfTheRuntime, FlagsInv
  <2> QED BY <2>1, <2>2
<1>6. FilterFollows'
  <2>1. CASE LoadSwap(t)
    BY <1>1, <1>2, <2>1 DEF FilterFollows, ApplyProcessAccessFilter, LoadSwap
  <2>2. CASE ApplyProcessAccessFilter(t)
    BY <2>2 DEF FilterFollows, ApplyProcessAccessFilter
  <2> QED BY <2>1, <2>2
<1>7. RegistrationsFollow'
  <2>1. CASE t \in Reloaders
    BY <1>2, <2>1 DEF RegistrationsFollow, Settling
  <2>2. CASE t = Entry
    BY <1>2, <2>2 DEF RegistrationsFollow
  <2> QED BY <1>3, <2>1, <2>2
<1> QED BY <1>4, <1>5, <1>6, <1>7 DEF FlagsInv

\* The registrations are brought in line with the flags.
LEMMA SyncKeepsFlags ==
    ASSUME RuntimeInv, FlagsInv, NEW t \in Loaders,
           SyncDrop(t) \/ SyncWait(t) \/ SyncAdd(t)
    PROVE  FlagsInv'
<1> USE DEF RuntimeInv
<1>1. PICK pc, read, new, old, source :
        /\ Goes(t, pc, read, new, old, source)
        /\ \/ SyncDrop(t) /\ pc = "wait"
           \/ SyncWait(t) /\ pc = "drop"
           \/ SyncAdd(t) /\ pc = "unlock"
  <2>1. CASE SyncDrop(t)
    BY <2>1 DEF SyncDrop, Goes
  <2>2. CASE SyncWait(t)
    BY <2>2 DEF SyncWait, Goes
  <2>3. CASE SyncAdd(t)
    <3>1. ReloaderAt(t, "unlock")
      BY <2>3 DEF SyncAdd
    <3> QED BY <2>3, <3>1, LoaderIsAt
  <2> QED BY <2>1, <2>2, <2>3
<1>2. /\ loader'[t].pc = pc /\ \A u \in Loaders : u # t => loader'[u] = loader[u]
      /\ loader[t].pc \in {"drop", "wait"} /\ pc \in {"drop", "wait", "unlock"}
      /\ UNCHANGED <<runtimes, runtime, producerFlags, accessFilter>>
  BY <1>1, LoaderGoes DEF SyncDrop, SyncWait, SyncAdd
<1>3. t # Entry
  BY <1>2 DEF Exclusive, Loading, Freeing
<1>4. CASE t = Unload
  BY <1>2, <1>3, <1>4, UnloadForgets DEF Loaders
<1>5. CASE t \in Reloaders
  <2>1. t # Unload /\ loader'[Unload] = loader[Unload] /\ loader'[Entry] = loader[Entry]
    BY <1>2, <1>3, <1>5, ThreadsAssumption DEF Loaders
  <2>2. FlagsAreOfTheRuntime'
    BY <1>2, <2>1 DEF FlagsInv, FlagsAreOfTheRuntime
  <2>3. FilterFollows'
    <3>1. \A u \in Loaders : loader[u].pc = "filter" => loader'[u].pc = "filter"
      BY <1>2
    <3> QED BY <1>2, <2>1, <3>1 DEF FlagsInv, FilterFollows
  <2>4. FirstRuntime'
    BY <1>2, <2>1 DEF FlagsInv, FirstRuntime
  <2>5. RegistrationsFollow'
    <3>1. CASE pc \in {"drop", "wait"}
      BY <1>2, <1>5, <3>1 DEF RegistrationsFollow, Settling
    <3>2. CASE SyncAdd(t)
      <4>1. /\ missing' \subseteq Needed(producerFlags) \ armed
            /\ armed' = armed \cup (Needed(producerFlags) \ missing')
            /\ Dropped(t) = {}
        BY <3>2 DEF SyncAdd
      <4>2. IF "enabled" \in producerFlags
            THEN armed \subseteq Needed(producerFlags) \cup {"file", "access", "tampering"}
            ELSE armed \subseteq {"file"}
        BY <2>1, <4>1 DEF Dropped
      <4>3. Registered'
        BY <1>2, <4>1, <4>2 DEF Registered, Needed
      <4> QED BY <4>3 DEF RegistrationsFollow
    <3> QED BY <1>1, <3>1, <3>2
  <2> QED BY <2>2, <2>3, <2>4, <2>5 DEF FlagsInv
<1> QED BY <1>2, <1>3, <1>4, <1>5 DEF Loaders

\* DriverEntry registers what its own runtime asks for.
LEMMA EntryKeepsFlags ==
    ASSUME RuntimeInv, FlagsInv, EntryRegister
    PROVE  FlagsInv'
<1> USE DEF RuntimeInv
<1>1. PICK failed \in SUBSET (Asked(producerFlags) \cup {"file"}) :
        \/ /\ loader' = [loader EXCEPT ![Entry].pc = "failed", ![Unload].pc = "rundown"]
        \/ /\ armed' = (Asked(producerFlags) \cup {"file"}) \ failed
           /\ missing' = failed
           /\ ReloaderAt(Entry, "done")
           /\ UNCHANGED producerFlags
  BY DEF EntryRegister
<1>2. /\ loader[Entry].pc = "register"
      /\ UNCHANGED <<accessFilter, runtimes, runtime>>
  BY DEF EntryRegister
<1>3. CASE loader' = [loader EXCEPT ![Entry].pc = "failed", ![Unload].pc = "rundown"]
  <2>1. loader'[Entry].pc = "failed" /\ loader'[Unload].pc = "rundown"
    BY <1>3, ThreadsAssumption DEF Shapes, Loaders
  <2> QED BY <2>1 DEF FlagsInv, FlagsAreOfTheRuntime, FilterFollows, RegistrationsFollow,
                      FirstRuntime
<1>4. CASE /\ armed' = (Asked(producerFlags) \cup {"file"}) \ failed
           /\ missing' = failed
           /\ ReloaderAt(Entry, "done")
           /\ UNCHANGED producerFlags
  <2>1. loader'[Entry].pc = "done" /\ \A u \in Loaders : u # Entry => loader'[u] = loader[u]
    BY <1>4, LoaderIsAt, LoaderGoes DEF Loaders
  <2>2. loader'[Unload] = loader[Unload]
    BY <2>1, ThreadsAssumption DEF Loaders
  <2>3. FlagsAreOfTheRuntime' /\ FirstRuntime'
    BY <1>2, <1>4, <2>1, <2>2 DEF FlagsInv, FlagsAreOfTheRuntime, FirstRuntime
  <2>4. FilterFollows'
    <3>1. \A u \in Loaders : loader[u].pc = "filter" => loader'[u].pc = "filter"
      BY <1>2, <2>1
    <3> QED BY <1>2, <2>2, <3>1 DEF FlagsInv, FilterFollows
  <2>5. runtime <= 1 /\ runtime \in Nat
    <3>1. Len(runtimes) <= 1
      BY <1>2 DEF FlagsInv, FirstRuntime
    <3> QED BY <3>1, RuntimeNumbered
  <2>6. Registered'
    BY <1>2, <1>4, <2>5 DEF Registered, Needed
  <2> QED BY <2>3, <2>4, <2>6 DEF FlagsInv, RegistrationsFollow
<1> QED BY <1>1, <1>3, <1>4

\* A reload comes and goes; the unload comes.
LEMMA NotifyKeepsFlags ==
    ASSUME RuntimeInv, FlagsInv, NEW t \in Reloaders,
           NotifyStart(t) \/ NotifyLock(t) \/ NotifyEnd(t)
    PROVE  FlagsInv'
<1> USE DEF RuntimeInv
<1>1. PICK pc : ReloaderAt(t, pc) /\ loader[t].pc \in {"idle", "lock", "unlock"}
  BY DEF NotifyStart, NotifyLock, NotifyEnd
<1>2. \A u \in Loaders : u # t => loader'[u] = loader[u]
  BY <1>1, LoaderIsAt, LoaderGoes DEF Loaders
<1>3. t # Entry /\ t # Unload /\ t \in Loaders
  BY ThreadsAssumption DEF Loaders
<1>4. UNCHANGED <<runtimes, runtime, producerFlags, accessFilter, armed, missing>>
  BY DEF NotifyStart, NotifyLock, NotifyEnd
<1>5. loader'[Entry] = loader[Entry] /\ loader'[Unload] = loader[Unload]
  BY <1>2, <1>3 DEF Loaders
<1>6. /\ \A u \in Loaders : loader[u].pc = "filter" => loader'[u].pc = "filter"
      /\ \A u \in Reloaders : loader[u].pc \in Settling => loader'[u].pc \in Settling
  BY <1>1, <1>2 DEF Settling, Loaders
<1>7. FirstRuntime'
  BY <1>4, <1>5 DEF FlagsInv, FirstRuntime
<1> QED BY <1>4, <1>5, <1>6, <1>7, FlagsKept

LEMMA UnloadKeepsFlags ==
    ASSUME RuntimeInv, FlagsInv, UnloadStart \/ UnloadStep
    PROVE  FlagsInv'
<1> USE DEF RuntimeInv
<1>1. PICK pc, read, new, old, source :
        Goes(Unload, pc, read, new, old, source) /\ pc \in {"rundown", "lock", "drop", "free"}
  <2>1. CASE UnloadTake
    BY <2>1 DEF UnloadTake, Goes
  <2>2. CASE UnloadStart \/ UnloadWait \/ UnloadLock
    <3>1. PICK pc \in {"rundown", "lock", "drop"} : ReloaderAt(Unload, pc)
      BY <2>2 DEF UnloadStart, UnloadWait, UnloadLock
    <3> QED BY <3>1, LoaderIsAt DEF Loaders
  <2> QED BY <2>1, <2>2 DEF UnloadStep
<1>2. loader'[Unload].pc = pc /\ \A u \in Loaders : u # Unload => loader'[u] = loader[u]
  BY <1>1, LoaderGoes DEF Loaders
<1>3. loader'[Entry] = loader[Entry] /\ loader'[Unload].pc # "idle"
  BY <1>1, <1>2, ThreadsAssumption DEF Loaders
<1>4. UNCHANGED runtimes
  BY DEF UnloadStart, UnloadStep, UnloadWait, UnloadLock, UnloadTake
<1> QED BY <1>3, <1>4, UnloadForgets

\* A callback counts itself among the readers and changes no flags.
LEMMA CallbacksKeepFlags ==
    ASSUME RuntimeInv, RuntimeInv', FlagsInv, NEW c \in Callbacks,
           CallbackEnter(c) \/ CallbackStep(c)
    PROVE  FlagsInv'
<1> USE DEF RuntimeInv
<1>1. UNCHANGED <<runtime, producerFlags, accessFilter, armed, missing, loader>>
  BY DEF CallbackEnter, CallbackStep, CallbackEnabled, CallbackFlag, AcquireSnapshot,
         ReleaseSnapshot
<1>2. \/ UNCHANGED runtimes
      \/ \E n \in DOMAIN runtimes : \E x : runtimes' = [runtimes EXCEPT ![n].readers = x]
  <2>1. CASE AcquireSnapshot(c) /\ runtime # 0
    <3>1. runtime \in DOMAIN runtimes
      BY <2>1 DEF InHand, Alive
    <3>2. runtimes' = [runtimes EXCEPT ![runtime].readers = runtimes[runtime].readers + 1]
      BY <2>1 DEF AcquireSnapshot
    <3> QED BY <3>1, <3>2
  <2>2. CASE ReleaseSnapshot(c)
    <3> DEFINE n == reader[c].holds
    <3>1. n \in DOMAIN runtimes
      BY <2>2 DEF ReleaseSnapshot, Readers, Alive
    <3>2. runtimes' = [runtimes EXCEPT ![n].readers = runtimes[n].readers - 1]
      BY <2>2 DEF ReleaseSnapshot
    <3> QED BY <3>1, <3>2
  <2>3. AcquireSnapshot(c) /\ runtime = 0 => UNCHANGED runtimes
    BY DEF AcquireSnapshot
  <2> QED BY <2>1, <2>2, <2>3 DEF CallbackEnter, CallbackStep, CallbackEnabled, CallbackFlag
<1>3. runtime # 0 => runtimes'[runtime].flags = runtimes[runtime].flags
  <2>1. runtime # 0 => runtime \in DOMAIN runtimes
    BY DEF InHand, Alive
  <2>2. ASSUME NEW n \in DOMAIN runtimes, NEW x, runtime # 0,
               runtimes' = [runtimes EXCEPT ![n].readers = x]
        PROVE  runtimes'[runtime].flags = runtimes[runtime].flags
    <3>1. [runtimes EXCEPT ![n].readers = x][runtime].flags = runtimes[runtime].flags
      BY <2>1, <2>2, FlagsStay
    <3> QED BY <2>2, <3>1
  <2> QED BY <1>2, <2>2
<1>4. FirstRuntime'
  <2>1. DOMAIN runtimes' = DOMAIN runtimes
    BY <1>2
  <2>2. Unload \in Loaders
    BY DEF Loaders
  <2>3. \A u \in Loaders : loader'[u] = loader[u]
    BY <1>1
  <2> QED BY <2>1, <2>2, <2>3, ThreadsAssumption, FirstKept
<1> QED BY <1>1, <1>3, <1>4, FlagsKept

LEMMA FlagsInitial == RuntimeInit => FlagsInv
<1> SUFFICES ASSUME RuntimeInit PROVE FlagsInv
  OBVIOUS
<1>1. /\ runtime = 0 /\ accessFilter = 0 /\ runtimes = <<>>
      /\ loader[Entry].pc = "open"
  BY DEF RuntimeInit, Loaders
<1>2. Len(runtimes) = 0
  BY <1>1
<1> QED BY <1>1, <1>2 DEF FlagsInv, FlagsAreOfTheRuntime, FilterFollows, RegistrationsFollow,
                          FirstRuntime

LEMMA FlagsStep ==
    RuntimeInv /\ RuntimeInv' /\ FlagsInv /\ [RuntimeNext]_runtimeVars => FlagsInv'
<1> SUFFICES ASSUME RuntimeInv, RuntimeInv', FlagsInv, [RuntimeNext]_runtimeVars
             PROVE  FlagsInv'
  OBVIOUS
<1>1. ASSUME NEW t \in Loaders, LoaderStep(t) PROVE FlagsInv'
  BY <1>1, CreationKeepsFlags, LoadersKeepFlags, SwapKeepsFlags, SyncKeepsFlags,
     NotifyKeepsFlags DEF LoaderStep
<1>2. ASSUME NEW t \in Reloaders, NotifyStart(t) PROVE FlagsInv'
  BY <1>2, NotifyKeepsFlags
<1>3. ASSUME NEW c \in Callbacks, CallbackEnter(c) \/ CallbackStep(c) PROVE FlagsInv'
  BY <1>3, CallbacksKeepFlags
<1>4. UnloadStart \/ UnloadStep => FlagsInv'
  BY UnloadKeepsFlags
<1>5. CASE UNCHANGED runtimeVars
  <2> USE <1>5 DEF runtimeVars
  <2>1. Registered' <=> Registered
    BY DEF Registered, Needed, Asked
  <2> QED BY <2>1 DEF FlagsInv, FlagsAreOfTheRuntime, FilterFollows, RegistrationsFollow,
                      FirstRuntime
<1> QED BY <1>1, <1>2, <1>3, <1>4, <1>5, EntryKeepsFlags DEF RuntimeNext

LEMMA FlagsInForceByInv == RuntimeInv /\ FlagsInv => FlagsInForce
<1> SUFFICES ASSUME RuntimeInv, FlagsInv PROVE FlagsInForce
  OBVIOUS
<1>1. FlagsAreOfTheRuntime
  BY DEF FlagsInv
<1>2. RegistrationFollowsFlags
  <2> SUFFICES ASSUME regLock = Free, loader[Entry].pc = "done", loader[Unload].pc = "idle"
               PROVE  accessFilter = runtime /\ Registered
    BY DEF RegistrationFollowsFlags, Registered
  <2>1. \A t \in Reloaders : loader[t].pc \notin Locked
    BY ThreadsAssumption DEF RuntimeInv, Exclusive, Loaders
  <2>2. \A t \in Reloaders : loader[t].pc \notin Settling
    BY <2>1 DEF Settling, Locked, Freeing
  <2>3. \A t \in Loaders : loader[t].pc # "filter"
    BY <2>2 DEF Settling, Loaders
  <2> QED BY <2>2, <2>3 DEF FlagsInv, FilterFollows, RegistrationsFollow
<1> QED BY <1>1, <1>2 DEF FlagsInForce

\* Outside a shutdown the flags in force are those of the runtime in force, and
\* once a reload has given the lock back the registrations and the access filter
\* are those the flags ask for, whatever reloads failed or overlapped
\* (SysmonLoadConfiguration, SysmonSyncMonitoringRegistration).
THEOREM FlagsAreAlwaysInForce == RuntimeSpec => []FlagsInForce
<1>1. RuntimeSpec => []RuntimeInv
  BY RuntimeInitial, RuntimeStep, PTL DEF RuntimeSpec
<1>2. RuntimeSpec => []FlagsInv
  BY <1>1, FlagsInitial, FlagsStep, PTL DEF RuntimeSpec
<1> QED BY <1>1, <1>2, FlagsInForceByInv, PTL

-----------------------------------------------------------------------------
(* The operators the rules are read with, in closed form: what FlattenSeq, *)
(* Before and Picked yield, and what the folds of GroupVerdict and Partial *)
(* come to, of which GroupVerdict's starts from nothing.                   *)

\* FlattenSeq lays out its parts, and Before counts what comes before each.
LEMMA FlattenLaysOut ==
    ASSUME NEW S, NEW n \in Nat, NEW parts \in [1 .. n -> Seq(S)]
    PROVE  /\ FlattenSeq(parts) \in Seq(S)
           /\ LaidOut(FlattenSeq(parts), parts, [i \in 0 .. n |-> Before(parts, i)], n)
<1>1. parts \in Seq(Seq(S)) /\ Len(parts) = n
  BY FunctionsAreSequences
<1>2. PICK f \in [0 .. n -> Seq(S)] : ConcatsUp(f, parts, n)
  BY ConcatsExist
<1>3. ASSUME NEW i \in 0 .. n PROVE Before(parts, i) = Len(f[i])
  <2>1. PICK q : q = SubSeq(parts, 1, i)
    OBVIOUS
  <2>2. /\ q \in Seq(Seq(S)) /\ Len(q) = i - 1 + 1 /\ DOMAIN q = 1 .. i - 1 + 1
        /\ \A k \in 1 .. i - 1 + 1 : q[k] = parts[1 + k - 1]
    <3>1. 1 \in 1 .. n + 1 /\ 1 <= i + 1
      OBVIOUS
    <3> QED
      BY ONLY <1>1, <2>1, <3>1, n \in Nat, i \in 0 .. n, PartOf
  <2>3. q \in [1 .. i -> Seq(S)] /\ Len(q) = i /\ \A k \in 1 .. i : q[k] = parts[k]
    BY <2>2
  <2>4. PICK g : g = [k \in 0 .. i |-> f[k]]
    OBVIOUS
  <2>5. g \in [0 .. i -> Seq(S)] /\ g[i] = f[i]
    BY <2>4
  <2>6. ConcatsUp(g, q, i)
    <3>1. ASSUME NEW k \in 1 .. i PROVE g[k] = g[k - 1] \o q[k]
      <4>1. k \in 1 .. n /\ k \in 0 .. i /\ k - 1 \in 0 .. i
        OBVIOUS
      <4>2. g[k] = f[k] /\ g[k - 1] = f[k - 1] /\ q[k] = parts[k]
        BY <2>3, <2>4, <4>1
      <4> QED
        BY <1>2, <4>1, <4>2 DEF ConcatsUp
    <3>2. g[0] = <<>>
      BY <1>2, <2>4 DEF ConcatsUp
    <3> QED
      BY <3>1, <3>2 DEF ConcatsUp
  <2>7. FlattenSeq(q) = g[i]
    <3>1. i \in Nat
      OBVIOUS
    <3>2. q \in [1 .. i -> Seq(S)] /\ Len(q) = i /\ g \in [0 .. i -> Seq(S)]
      BY <2>3, <2>5
    <3>3. FlattenSeq(q) = g[i]
      BY ONLY <3>1, <3>2, <2>6, FlattenIsConcat
    <3> QED
      BY <3>3
  <2> QED
    BY <2>1, <2>5, <2>7 DEF Before
<1>4. FlattenSeq(parts) = f[n]
  BY <1>1, <1>2, FlattenIsConcat
<1> DEFINE first(i) == [k \in 0 .. i |-> Len(f[k])]
           N == {i \in Nat : i <= n => LaidOut(f[i], parts, first(i), i)}
<1>5. \A i \in 0 .. n : f[i] \in Seq(S) /\ Len(f[i]) \in Nat
  BY LenProperties
<1>6. 0 \in N
  <2>1. f[0] = <<>> /\ Len(f[0]) = 0
    BY <1>2, EmptySeq DEF ConcatsUp
  <2>2. LaidOut(f[0], parts, first(0), 0)
    BY <2>1 DEF LaidOut
  <2> QED
    BY <2>2
<1>7. ASSUME NEW i \in Nat, i \in N
      PROVE  i + 1 \in N
  <2> SUFFICES ASSUME i + 1 <= n PROVE LaidOut(f[i + 1], parts, first(i + 1), i + 1)
    OBVIOUS
  <2>1. LaidOut(f[i], parts, first(i), i)
    <3> HIDE DEF first
    <3> QED
      BY <1>7
  <2>2. PICK q : q = [k \in 1 .. i + 1 |-> parts[k]]
    OBVIOUS
  <2>3. q \in [1 .. i + 1 -> Seq(S)] /\ \A k \in 1 .. i + 1 : q[k] = parts[k]
    BY <2>2
  <2>4. LaidOut(f[i], q, first(i), i)
    <3>1. \A k \in 1 .. i : q[k] = parts[k]
      BY <2>3
    <3> HIDE DEF first
    <3> QED
      BY ONLY <2>1, <3>1, SameParts
  <2>5. f[i + 1] = f[i] \o q[i + 1] /\ f[i] \in Seq(S)
    <3>1. i + 1 \in 1 .. n /\ i \in 0 .. n /\ i + 1 - 1 = i
      OBVIOUS
    <3>2. \A k \in 1 .. n : f[k] = f[k - 1] \o parts[k]
      BY <1>2 DEF ConcatsUp
    <3>3. q[i + 1] = parts[i + 1] /\ f[i] \in Seq(S)
      BY <2>3, <3>1
    <3>4. PICK k \in 1 .. n : k = i + 1 /\ k - 1 = i
      BY <3>1
    <3>5. f[k] = f[i] \o parts[k]
      BY ONLY <3>2, <3>4
    <3> QED
      BY ONLY <3>3, <3>4, <3>5
  <2>6. first(i + 1) \in [0 .. i + 1 -> Nat] /\ \A k \in 0 .. i : first(i + 1)[k] = first(i)[k]
    BY <1>5
  <2>7. first(i + 1)[i + 1] = Len(f[i] \o q[i + 1])
    <3>1. first(i + 1)[i + 1] = Len(f[i + 1])
      OBVIOUS
    <3> QED
      BY <2>5, <3>1
  <2>8. LaidOut(f[i] \o q[i + 1], q, first(i + 1), i + 1)
    <3>1. PICK longer : longer = first(i + 1)
      OBVIOUS
    <3>2. PICK shorter : shorter = first(i)
      OBVIOUS
    <3>3. /\ longer \in [0 .. i + 1 -> Nat] /\ \A k \in 0 .. i : longer[k] = shorter[k]
          /\ longer[i + 1] = Len(f[i] \o q[i + 1]) /\ LaidOut(f[i], q, shorter, i)
      BY <2>4, <2>6, <2>7, <3>1, <3>2
    <3>4. LaidOut(f[i] \o q[i + 1], q, longer, i + 1)
      BY ONLY i \in Nat, <2>3, <2>5, <3>3, OneMorePart
    <3> QED
      BY <3>1, <3>4
  <2> HIDE DEF first
  <2>9. LaidOut(f[i + 1], q, first(i + 1), i + 1)
    BY <2>5, <2>8
  <2>10. \A k \in 1 .. i + 1 : q[k] = parts[k]
    BY <2>3
  <2>11. \A k \in 1 .. i + 1 : parts[k] = q[k]
    BY <2>10
  <2> QED
    BY ONLY <2>9, <2>11, SameParts
<1>8. LaidOut(f[n], parts, first(n), n)
  <2>1. n \in N
    <3> HIDE DEF N
    <3> QED
      BY <1>6, <1>7, NaturalsByInduction
  <2> HIDE DEF first
  <2> QED
    BY <2>1
<1>9. first(n) = [i \in 0 .. n |-> Before(parts, i)]
  BY <1>3
<1> HIDE DEF first
<1>10. FlattenSeq(parts) \in Seq(S)
  BY <1>4, <1>5
<1>11. LaidOut(FlattenSeq(parts), parts, first(n), n)
  BY <1>4, <1>8
<1> QED
  BY <1>9, <1>10, <1>11

\* What GroupVerdict folds over.
Verdicts == [has : BOOLEAN, matched : BOOLEAN]

\* A conjunction or a disjunction, of at least one result.
AnyOrAll(relation, hits, n) ==
    /\ n > 0
    /\ IF relation = "and" THEN \A k \in 1 .. n : hits[k] ELSE \E k \in 1 .. n : hits[k]

\* What GroupVerdict folds up: all or any of its matches, if there are some.
LEMMA VerdictIsAnyOrAll ==
    ASSUME NEW relation, NEW n \in Nat, NEW matches \in [1 .. n -> BOOLEAN]
    PROVE  /\ GroupVerdict(relation, matches).has <=> n > 0
           /\ GroupVerdict(relation, matches).matched <=> AnyOrAll(relation, matches, n)
<1> DEFINE Turn(acc, m) ==
             [has |-> TRUE,
              matched |-> IF ~acc.has THEN m
                          ELSE IF relation = "and" THEN acc.matched /\ m
                          ELSE acc.matched \/ m]
           base == [has |-> FALSE, matched |-> FALSE]
           Folds(w) == w = [T \in SUBSET DOMAIN matches |->
                              IF T = {} THEN base ELSE Turn(w[T \ {Max(T)}], matches[Max(T)])]
           fold == CHOOSE v : Folds(v)
           step == [x \in 1 .. n |-> [v \in Verdicts |-> Turn(v, matches[x])]]
<1>1. GroupVerdict(relation, matches) = fold[DOMAIN matches]
  BY DEF GroupVerdict, FoldLeft, MapThenFoldSet
<1>2. ASSUME NEW v \in Verdicts, NEW m \in BOOLEAN
      PROVE  /\ Turn(v, m) \in Verdicts /\ Turn(v, m).has
             /\ Turn(v, m).matched <=> IF ~v.has THEN m
                                       ELSE IF relation = "and" THEN v.matched /\ m
                                       ELSE v.matched \/ m
  BY DEF Verdicts
<1> HIDE DEF Turn
<1>3. base \in Verdicts /\ \A x \in 1 .. n : \A v \in Verdicts : step[x][v] \in Verdicts
  BY <1>2 DEF Verdicts
<1>4. PICK iter \in [SUBSET (1 .. n) -> Verdicts] :
             /\ \A T \in SUBSET (1 .. n) : T # {} => Max(T) \in T
             /\ OrderedFold(iter, base, step, n)
  <2>1. PICK b, s : b = base /\ s = step
    OBVIOUS
  <2> HIDE DEF base, step
  <2>2. b \in Verdicts /\ \A x \in 1 .. n : \A v \in Verdicts : s[x][v] \in Verdicts
    BY <1>3, <2>1
  <2>3. \E iter \in [SUBSET (1 .. n) -> Verdicts] :
          /\ \A T \in SUBSET (1 .. n) : T # {} => Max(T) \in T
          /\ OrderedFold(iter, b, s, n)
    BY ONLY n \in Nat, <2>2, OrderedFoldsExist
  <2> QED
    BY <2>1, <2>3
<1>5. Folds(iter)
  <2>1. \A T \in SUBSET (1 .. n) : T # {} =>
          step[Max(T)][iter[T \ {Max(T)}]] = Turn(iter[T \ {Max(T)}], matches[Max(T)])
    BY <1>4
  <2> HIDE DEF base, step
  <2> QED
    BY <1>4, <2>1 DEF OrderedFold
<1>6. Folds(fold)
  <2> HIDE DEF Folds
  <2> QED
    BY <1>5
<1>7. FoldsInOrder(fold, base, step, Verdicts, n)
  <2>1. fold[{}] = base
    <3> HIDE DEF fold, base
    <3> QED
      BY <1>6
  <2>2. ASSUME NEW T \in SUBSET (1 .. n), T # {}, fold[T \ {Max(T)}] \in Verdicts
        PROVE  fold[T] = step[Max(T)][fold[T \ {Max(T)}]]
    <3>1. fold[T] = Turn(fold[T \ {Max(T)}], matches[Max(T)])
      <4> HIDE DEF fold, base
      <4> QED
        BY <1>6, <2>2
    <3> HIDE DEF fold
    <3> QED
      BY <1>4, <2>2, <3>1
  <2> HIDE DEF fold, base, step
  <2> QED
    BY <2>1, <2>2 DEF FoldsInOrder
<1> DEFINE f(k) == fold[1 .. k]
<1>8. /\ f(0) = base
      /\ \A k \in 0 .. n : f(k) \in Verdicts
      /\ \A k \in 1 .. n : f(k) = step[k][f(k - 1)]
  <2>1. PICK b, s, w : b = base /\ s = step /\ w = fold
    OBVIOUS
  <2> HIDE DEF fold, base, step
  <2>2. /\ b \in Verdicts /\ \A x \in 1 .. n : \A v \in Verdicts : s[x][v] \in Verdicts
        /\ FoldsInOrder(w, b, s, Verdicts, n)
    BY <1>3, <1>7, <2>1
  <2>3. StepByStep(w, b, s, Verdicts, n)
    BY ONLY n \in Nat, <2>2, OrderedFolds
  <2> QED
    BY <2>1, <2>3 DEF StepByStep
<1>9. fold[DOMAIN matches] = f(n)
  OBVIOUS
<1> HIDE DEF fold, f
<1>10. ASSUME NEW k \in 1 .. n PROVE f(k) = Turn(f(k - 1), matches[k])
  <2>1. k - 1 \in 0 .. n
    OBVIOUS
  <2>2. f(k - 1) \in Verdicts /\ f(k) = step[k][f(k - 1)]
    BY <1>8, <2>1
  <2>3. \A v \in Verdicts : step[k][v] = Turn(v, matches[k])
    OBVIOUS
  <2> HIDE DEF step
  <2> QED
    BY <2>2, <2>3
<1> DEFINE Sums(k) == /\ f(k).has <=> k > 0
                      /\ f(k).matched <=> AnyOrAll(relation, matches, k)
           N == {k \in Nat : k <= n => Sums(k)}
<1>11. 0 \in N
  BY <1>8 DEF AnyOrAll
<1>12. ASSUME NEW k \in Nat, k \in N
       PROVE  k + 1 \in N
  <2> SUFFICES ASSUME k + 1 <= n PROVE Sums(k + 1)
    OBVIOUS
  <2>1. PICK j \in 1 .. n : j = k + 1 /\ j - 1 = k
    OBVIOUS
  <2>2. f(j) = Turn(f(k), matches[j]) /\ f(k) \in Verdicts /\ matches[j] \in BOOLEAN
    BY <1>8, <1>10, <2>1
  <2>3. Sums(k)
    BY <1>12, <2>1
  <2>4. f(j).has /\ (f(j).matched <=> IF ~f(k).has THEN matches[j]
                                      ELSE IF relation = "and" THEN f(k).matched /\ matches[j]
                                      ELSE f(k).matched \/ matches[j])
    BY <1>2, <2>2
  <2>5. AnyOrAll(relation, matches, j) <=>
          IF k = 0 THEN matches[j]
          ELSE IF relation = "and" THEN AnyOrAll(relation, matches, k) /\ matches[j]
          ELSE AnyOrAll(relation, matches, k) \/ matches[j]
    <3>1. 1 .. j = (1 .. k) \cup {j} /\ j > 0 /\ (k = 0 => 1 .. k = {})
      BY <2>1
    <3>2. k = 0 \/ k > 0
      OBVIOUS
    <3> QED
      BY <3>1, <3>2 DEF AnyOrAll
  <2>6. Sums(j)
    BY <2>1, <2>3, <2>4, <2>5
  <2> QED
    BY <2>1, <2>6
<1>13. Sums(n)
  <2>1. n \in N
    <3> HIDE DEF N
    <3> QED
      BY <1>11, <1>12, NaturalsByInduction
  <2> QED
    BY <2>1
<1> QED
  BY <1>1, <1>9, <1>13

\* flat has the elements of the parts, and no others.
Gathers(flat, parts, n) ==
    /\ \A j \in DOMAIN flat : \E i \in 1 .. n : \E k \in DOMAIN parts[i] : flat[j] = parts[i][k]
    /\ \A i \in 1 .. n : \A k \in DOMAIN parts[i] : \E j \in DOMAIN flat : flat[j] = parts[i][k]

\* So does FlattenSeq.
LEMMA FlattenGathers ==
    ASSUME NEW S, NEW n \in Nat, NEW parts \in [1 .. n -> Seq(S)]
    PROVE  FlattenSeq(parts) \in Seq(S) /\ Gathers(FlattenSeq(parts), parts, n)
<1>1. PICK flat \in Seq(S) : flat = FlattenSeq(parts)
  BY FlattenLaysOut
<1>2. PICK start : LaidOut(flat, parts, start, n)
  BY <1>1, FlattenLaysOut
<1>3. DOMAIN flat = 1 .. Len(flat) /\ Len(flat) \in Nat
  BY LenProperties
<1>4. \A i \in 1 .. n : DOMAIN parts[i] = 1 .. Len(parts[i]) /\ Len(parts[i]) \in Nat
  BY LenProperties
<1>5. ASSUME NEW j \in DOMAIN flat
      PROVE  \E i \in 1 .. n : \E k \in DOMAIN parts[i] : flat[j] = parts[i][k]
  <2>0. PICK i \in 1 .. n : \E k \in 1 .. Len(parts[i]) : j = start[i - 1] + k
    BY <1>2, <1>3 DEF LaidOut
  <2>1. PICK k \in 1 .. Len(parts[i]) : j = start[i - 1] + k
    BY <2>0
  <2>2. flat[start[i - 1] + k] = parts[i][k]
    BY <1>2 DEF LaidOut
  <2> QED
    BY <1>4, <2>1, <2>2
<1>6. ASSUME NEW i \in 1 .. n, NEW k \in DOMAIN parts[i]
      PROVE  \E j \in DOMAIN flat : flat[j] = parts[i][k]
  <2>1. k \in 1 .. Len(parts[i])
    BY <1>4
  <2>2. flat[start[i - 1] + k] = parts[i][k]
    BY <1>2, <2>1 DEF LaidOut
  <2>3. /\ start[i - 1] \in Nat /\ start[i] = start[i - 1] + Len(parts[i])
        /\ start[i] <= Len(flat)
    <3>1. i - 1 \in 0 .. n
      OBVIOUS
    <3> QED
      BY <1>2, <3>1 DEF LaidOut
  <2>4. start[i - 1] + k \in DOMAIN flat
    BY <1>3, <1>4, <2>1, <2>3
  <2> QED
    BY <2>2, <2>4
<1> QED
  BY <1>1, <1>5, <1>6 DEF Gathers

\* some has the elements of s at the chosen places, and no others.
Selects(some, s, chosen) ==
    /\ \A j \in DOMAIN some : \E i \in chosen : some[j] = s[i]
    /\ \A i \in chosen : \E j \in DOMAIN some : some[j] = s[i]

\* So does Picked.
LEMMA PickedSelects ==
    ASSUME NEW S, NEW s \in Seq(S), NEW chosen, chosen \subseteq DOMAIN s
    PROVE  Picked(s, chosen) \in Seq(S) /\ Selects(Picked(s, chosen), s, chosen)
<1>1. PICK n \in Nat : n = Len(s) /\ DOMAIN s = 1 .. n
  BY LenProperties
<1>2. PICK parts : parts = [k \in DOMAIN s |-> IF k \in chosen THEN <<s[k]>> ELSE <<>>]
  OBVIOUS
<1>3. ASSUME NEW k \in DOMAIN s
      PROVE  /\ parts[k] \in Seq(S)
             /\ k \in chosen => DOMAIN parts[k] = {1} /\ parts[k][1] = s[k]
             /\ k \notin chosen => DOMAIN parts[k] = {}
  <2>1. s[k] \in S
    BY ElementOfSeq, <1>1
  <2>2. CASE k \in chosen
    <3>1. parts[k] = <<s[k]>>
      BY <1>2, <2>2
    <3> QED
      BY <2>1, <2>2, <3>1
  <2>3. CASE k \notin chosen
    <3>1. parts[k] = <<>>
      BY <1>2, <2>3
    <3> QED
      BY <2>3, <3>1
  <2> QED
    BY <2>2, <2>3
<1>4. parts \in [1 .. n -> Seq(S)]
  BY <1>1, <1>2, <1>3
<1>5. PICK some : some = FlattenSeq(parts)
  OBVIOUS
<1>6. some \in Seq(S) /\ Gathers(some, parts, n)
  BY <1>4, <1>5, FlattenGathers
<1>7. Selects(some, s, chosen)
  <2>1. ASSUME NEW j \in DOMAIN some PROVE \E i \in chosen : some[j] = s[i]
    <3>0. PICK i \in 1 .. n : \E k \in DOMAIN parts[i] : some[j] = parts[i][k]
      BY <1>6 DEF Gathers
    <3>1. PICK k \in DOMAIN parts[i] : some[j] = parts[i][k]
      BY <3>0
    <3>2. i \in chosen /\ k = 1 /\ some[j] = s[i]
      BY <1>1, <1>3, <3>1
    <3> QED
      BY <3>2
  <2>2. ASSUME NEW i \in chosen PROVE \E j \in DOMAIN some : some[j] = s[i]
    <3>1. i \in 1 .. n /\ 1 \in DOMAIN parts[i] /\ parts[i][1] = s[i]
      BY <1>1, <1>3
    <3> QED
      BY <1>6, <3>1 DEF Gathers
  <2> QED
    BY <2>1, <2>2 DEF Selects
<1> QED
  BY <1>2, <1>5, <1>6, <1>7 DEF Picked

\* A conjunction or a disjunction over a set that is not empty.
AnyOrAllOf(relation, chosen, hits) ==
    /\ chosen # {}
    /\ IF relation = "and" THEN \A k \in chosen : hits[k] ELSE \E k \in chosen : hits[k]

\* A verdict that the chosen of the matches give.
IsVerdictOn(verdict, relation, chosen, hits) ==
    /\ verdict.has <=> chosen # {}
    /\ verdict.matched <=> AnyOrAllOf(relation, chosen, hits)

\* The verdict on what is picked is that on the chosen.
LEMMA VerdictOfPicked ==
    ASSUME NEW relation, NEW S, NEW s \in Seq(S), NEW chosen, chosen \subseteq DOMAIN s,
           NEW hit \in [S -> BOOLEAN], NEW mine, mine = Picked(s, chosen),
           NEW matches, matches = [k \in DOMAIN mine |-> hit[mine[k]]],
           NEW hits, hits = [k \in DOMAIN s |-> hit[s[k]]],
           NEW verdict, verdict = GroupVerdict(relation, matches)
    PROVE  IsVerdictOn(verdict, relation, chosen, hits)
<1>1. mine \in Seq(S) /\ Selects(mine, s, chosen)
  BY PickedSelects
<1>2. PICK n \in Nat : n = Len(mine) /\ DOMAIN mine = 1 .. n
  BY <1>1, LenProperties
<1>3. \A k \in DOMAIN mine : mine[k] \in S
  BY <1>1, ElementOfSeq, <1>2
<1>4. matches \in [1 .. n -> BOOLEAN]
  BY <1>2, <1>3
<1>5. /\ verdict.has <=> n > 0
      /\ verdict.matched <=> AnyOrAll(relation, matches, n)
  BY <1>4, VerdictIsAnyOrAll
<1>6. n > 0 <=> chosen # {}
  <2>1. n > 0 => 1 \in DOMAIN mine
    BY <1>2
  <2>2. n = 0 => DOMAIN mine = {}
    BY <1>2
  <2> QED
    BY <1>1, <2>1, <2>2 DEF Selects
<1>7. \A k \in chosen : hits[k] = hit[s[k]]
  OBVIOUS
<1>8. \A k \in 1 .. n : matches[k] = hit[mine[k]]
  BY <1>2
<1>9. /\ (\A k \in 1 .. n : matches[k]) <=> (\A k \in chosen : hit[s[k]])
      /\ (\E k \in 1 .. n : matches[k]) <=> (\E k \in chosen : hit[s[k]])
  <2>1. ASSUME NEW j \in 1 .. n PROVE \E k \in chosen : matches[j] <=> hit[s[k]]
    <3>1. PICK k \in chosen : mine[j] = s[k]
      BY <1>1, <1>2 DEF Selects
    <3>2. matches[j] = hit[s[k]]
      BY <1>8, <3>1
    <3> QED
      BY <3>2
  <2>2. ASSUME NEW k \in chosen PROVE \E j \in 1 .. n : matches[j] <=> hit[s[k]]
    <3>1. PICK j \in 1 .. n : mine[j] = s[k]
      BY <1>1, <1>2 DEF Selects
    <3>2. matches[j] = hit[s[k]]
      BY <1>8, <3>1
    <3> QED
      BY <3>2
  <2> QED
    BY <2>1, <2>2
<1> QED
  BY <1>5, <1>6, <1>7, <1>9 DEF AnyOrAll, AnyOrAllOf, IsVerdictOn

\* What the service knows of a match before it has every field.
Three == {"true", "false", "unknown"}

\* What Partial folds up is true only if all or any of what it stands for are,
\* and false only if not.
LEMMA PartialIsCautious ==
    ASSUME NEW relation, NEW n \in Nat, NEW results \in [1 .. n -> Three],
           NEW matches \in [1 .. n -> BOOLEAN],
           \A k \in 1 .. n : (results[k] = "true" => matches[k])
                             /\ (results[k] = "false" => ~matches[k])
    PROVE  /\ Partial(relation, results) \in Three
           /\ Partial(relation, results) = "true" => AnyOrAll(relation, matches, n)
           /\ Partial(relation, results) = "false" => ~AnyOrAll(relation, matches, n)
<1>0. results \in Seq(Three) /\ Len(results) = n /\ DOMAIN results = 1 .. n
  BY FunctionsAreSequences
<1>1. CASE n = 0
  <2>1. results = <<>>
    BY <1>0, <1>1, EmptySeq
  <2>2. Partial(relation, results) = "false"
    BY <2>1 DEF Partial
  <2> QED
    BY <1>1, <2>2 DEF Three, AnyOrAll
<1>2. CASE n # 0
  <2>0. PICK m \in Nat : m + 1 = n
    BY <1>2
  <2>1. results # <<>>
    BY <1>0, <1>2
  <2>2. PICK base, rest : base = Head(results) /\ rest = Tail(results)
    OBVIOUS
  <2>3. /\ base = results[1] /\ base \in Three
        /\ rest \in Seq(Three) /\ Len(rest) = m /\ DOMAIN rest = 1 .. m
        /\ \A k \in 1 .. m : rest[k] = results[k + 1]
    <3>1. rest \in Seq(Three) /\ Len(rest) = Len(results) - 1
      BY <1>0, <2>1, <2>2, HeadTailProperties
    <3>2. DOMAIN rest = 1 .. m
      BY <1>0, <2>0, <3>1, LenProperties
    <3>3. \A k \in 1 .. m : rest[k] = results[k + 1]
      BY <1>0, <2>0, <2>1, <2>2, <3>1, <3>2
    <3>4. base = results[1] /\ base \in Three
      BY <1>0, <1>2, <2>1, <2>2, HeadTailProperties
    <3> QED
      BY <1>0, <2>0, <3>1, <3>2, <3>3, <3>4
  <2> DEFINE Turn(acc, x) == IF relation = "and" THEN And3(acc, x) ELSE Or3(acc, x)
             Folds(w) == w = [T \in SUBSET DOMAIN rest |->
                                IF T = {} THEN base ELSE Turn(w[T \ {Max(T)}], rest[Max(T)])]
             fold == CHOOSE v : Folds(v)
             step == [x \in 1 .. m |-> [v \in Three |-> Turn(v, rest[x])]]
  <2>4. Partial(relation, results) = fold[DOMAIN rest]
    <3> DEFINE foldOf(b, r) == (CHOOSE v : v = [T \in SUBSET DOMAIN r |->
                                  IF T = {} THEN b ELSE Turn(v[T \ {Max(T)}], r[Max(T)])])[DOMAIN r]
    <3>1. Partial(relation, results) = foldOf(Head(results), Tail(results))
      BY ONLY <2>1 DEF Partial, FoldLeft, MapThenFoldSet
    <3>2. foldOf(base, rest) = fold[DOMAIN rest]
      OBVIOUS
    <3> HIDE DEF foldOf, fold
    <3> QED
      BY ONLY <2>2, <3>1, <3>2
  <2>5. ASSUME NEW v \in Three, NEW x \in Three
        PROVE  /\ Turn(v, x) \in Three
               /\ Turn(v, x) = "true" <=> IF relation = "and" THEN v = "true" /\ x = "true"
                                          ELSE v = "true" \/ x = "true"
               /\ Turn(v, x) = "false" <=> IF relation = "and" THEN v = "false" \/ x = "false"
                                           ELSE v = "false" /\ x = "false"
    BY DEF Three, And3, Or3
  <2> HIDE DEF Turn
  <2>6. \A x \in 1 .. m : \A v \in Three : step[x][v] \in Three
    BY <2>3, <2>5
  <2>7. PICK iter \in [SUBSET (1 .. m) -> Three] :
               /\ \A T \in SUBSET (1 .. m) : T # {} => Max(T) \in T
               /\ OrderedFold(iter, base, step, m)
    <3>1. PICK s : s = step
      OBVIOUS
    <3> HIDE DEF step
    <3>2. \A x \in 1 .. m : \A v \in Three : s[x][v] \in Three
      BY <2>6, <3>1
    <3>3. base \in Three
      BY <2>3
    <3>4. \E iter \in [SUBSET (1 .. m) -> Three] :
            /\ \A T \in SUBSET (1 .. m) : T # {} => Max(T) \in T
            /\ OrderedFold(iter, base, s, m)
      BY ONLY m \in Nat, <3>2, <3>3, OrderedFoldsExist
    <3> QED
      BY <3>1, <3>4
  <2>8. Folds(iter)
    <3>1. ASSUME NEW T \in SUBSET (1 .. m), T # {}
          PROVE  step[Max(T)][iter[T \ {Max(T)}]] = Turn(iter[T \ {Max(T)}], rest[Max(T)])
      BY <2>7, <3>1
    <3> HIDE DEF step
    <3> QED
      BY <2>3, <2>7, <3>1 DEF OrderedFold
  <2>9. Folds(fold)
    <3> HIDE DEF Folds
    <3> QED
      BY <2>8
  <2>10. FoldsInOrder(fold, base, step, Three, m)
    <3>1. fold[{}] = base
      <4> HIDE DEF fold
      <4> QED
        BY <2>9
    <3>2. ASSUME NEW T \in SUBSET (1 .. m), T # {}, fold[T \ {Max(T)}] \in Three
          PROVE  fold[T] = step[Max(T)][fold[T \ {Max(T)}]]
      <4>1. fold[T] = Turn(fold[T \ {Max(T)}], rest[Max(T)])
        <5> HIDE DEF fold
        <5> QED
          BY <2>3, <2>9, <3>2
      <4> HIDE DEF fold
      <4> QED
        BY <2>7, <3>2, <4>1
    <3> HIDE DEF fold, step
    <3> QED
      BY <3>1, <3>2 DEF FoldsInOrder
  <2> DEFINE f(k) == fold[1 .. k]
  <2>11. /\ f(0) = base
         /\ \A k \in 0 .. m : f(k) \in Three
         /\ \A k \in 1 .. m : f(k) = step[k][f(k - 1)]
    <3>1. PICK s, w : s = step /\ w = fold
      OBVIOUS
    <3> HIDE DEF fold, step
    <3>2. /\ base \in Three /\ \A x \in 1 .. m : \A v \in Three : s[x][v] \in Three
          /\ FoldsInOrder(w, base, s, Three, m)
      BY <2>3, <2>6, <2>10, <3>1
    <3>3. StepByStep(w, base, s, Three, m)
      BY ONLY m \in Nat, <3>2, OrderedFolds
    <3> QED
      BY <3>1, <3>3 DEF StepByStep
  <2>12. fold[DOMAIN rest] = f(m)
    BY <2>3
  <2> HIDE DEF fold, f
  <2>13. ASSUME NEW k \in 1 .. m PROVE f(k) = Turn(f(k - 1), results[k + 1]) /\ f(k - 1) \in Three
    <3>1. k - 1 \in 0 .. m
      OBVIOUS
    <3>2. f(k - 1) \in Three /\ f(k) = step[k][f(k - 1)]
      BY <2>11, <3>1
    <3>3. \A v \in Three : step[k][v] = Turn(v, results[k + 1])
      BY <2>3
    <3> HIDE DEF step
    <3> QED
      BY <3>2, <3>3
  <2> DEFINE Tells(k) == /\ f(k) = "true" => AnyOrAll(relation, matches, k + 1)
                         /\ f(k) = "false" => ~AnyOrAll(relation, matches, k + 1)
             N == {k \in Nat : k <= m => Tells(k)}
  <2>14. 0 \in N
    <3>1. 1 .. 0 + 1 = {1} /\ 0 + 1 > 0 /\ 1 \in 1 .. n
      BY <2>0
    <3>2. AnyOrAll(relation, matches, 0 + 1) <=> matches[1]
      BY <3>1 DEF AnyOrAll
    <3>3. /\ results[1] = "true" => matches[1]
          /\ results[1] = "false" => ~matches[1]
      BY <3>1
    <3>4. f(0) = results[1]
      BY <2>3, <2>11
    <3>5. Tells(0)
      BY <3>2, <3>3, <3>4
    <3> QED
      BY <3>5
  <2>15. ASSUME NEW k \in Nat, k \in N
         PROVE  k + 1 \in N
    <3> SUFFICES ASSUME k + 1 <= m PROVE Tells(k + 1)
      OBVIOUS
    <3>1. PICK j \in 1 .. m : j = k + 1 /\ j - 1 = k
      OBVIOUS
    <3>2. Tells(k)
      BY <2>15, <3>1
    <3>3. PICK x : x = results[j + 1]
      OBVIOUS
    <3>4. j + 1 \in 1 .. n /\ x \in Three /\ (x = "true" => matches[j + 1])
          /\ (x = "false" => ~matches[j + 1]) /\ matches[j + 1] \in BOOLEAN
      <4>1. j + 1 \in 1 .. n
        BY <2>0
      <4>2. x \in Three
        BY <3>3, <4>1
      <4>3. matches[j + 1] \in BOOLEAN
        BY <4>1
      <4>4. /\ results[j + 1] = "true" => matches[j + 1]
            /\ results[j + 1] = "false" => ~matches[j + 1]
        BY <4>1
      <4> QED
        BY <3>3, <4>1, <4>2, <4>3, <4>4
    <3>5. f(j) = Turn(f(k), x) /\ f(k) \in Three
      BY <2>13, <3>1, <3>3
    <3>6. /\ f(j) = "true" <=> IF relation = "and" THEN f(k) = "true" /\ x = "true"
                               ELSE f(k) = "true" \/ x = "true"
          /\ f(j) = "false" <=> IF relation = "and" THEN f(k) = "false" \/ x = "false"
                                ELSE f(k) = "false" /\ x = "false"
      BY <2>5, <3>4, <3>5
    <3>7. AnyOrAll(relation, matches, j + 1)
            <=> IF relation = "and" THEN AnyOrAll(relation, matches, j) /\ matches[j + 1]
                ELSE AnyOrAll(relation, matches, j) \/ matches[j + 1]
      <4>1. 1 .. j + 1 = (1 .. j) \cup {j + 1} /\ j + 1 > 0 /\ j > 0
        OBVIOUS
      <4> QED
        BY <4>1 DEF AnyOrAll
    <3>8. Tells(j)
      BY <3>1, <3>2, <3>4, <3>6, <3>7
    <3> QED
      BY <3>1, <3>8
  <2>16. Tells(m)
    <3>1. m \in N
      <4> HIDE DEF N
      <4> QED
        BY <2>14, <2>15, NaturalsByInduction
    <3> QED
      BY <3>1
  <2>17. f(m) \in Three
    BY <2>11
  <2> QED
    BY <2>0, <2>4, <2>12, <2>16, <2>17
<1> QED
  BY <1>1, <1>2

-----------------------------------------------------------------------------
(* The file and the rules the parser makes of it.  Elements are added one  *)
(* at a time, and each keeps the file one that the parser accepts.         *)

\* The elements of a file: a field below an event stands for one expression.
FieldElements == {c \in [tag : {"field"}, expressions : Seq(Expressions)] : Len(c.expressions) = 1}
RuleTags == [tag : {"rule"}, relation : Relations, expressions : Seq(Expressions)]

EventElements ==
    [id : {ImageLoad, DriverLoad}, match : {"include", "exclude"}, relation : Relations,
     children : Seq(FieldElements \cup RuleTags)]

GroupElements == [relation : Relations, nodes : Seq(EventElements)]

\* The file is one the parser reads as rules: every element has what it needs.
XmlTyped == xml \in Seq(GroupElements)

\* A child is written into the last event element of the last group.
LEMMA WritesChild ==
    ASSUME XmlTyped, xml # <<>>, LastGroup.nodes # <<>>,
           NEW children \in Seq(FieldElements \cup RuleTags)
    PROVE  [xml EXCEPT ![Len(xml)].nodes[Len(LastGroup.nodes)].children = children]
             \in Seq(GroupElements)
<1>1. PICK i, g : i = Len(xml) /\ g = xml[i]
  OBVIOUS
<1>2. i \in DOMAIN xml /\ g \in GroupElements /\ LastGroup = g
  BY <1>1, LastOfSeq DEF XmlTyped, LastGroup
<1>3. PICK nodes \in Seq(EventElements) : nodes = g.nodes
  BY <1>2 DEF GroupElements
<1>4. PICK k, n : k = Len(nodes) /\ n = nodes[k]
  OBVIOUS
<1>5. k \in DOMAIN nodes /\ n \in EventElements
  BY <1>2, <1>3, <1>4, LastOfSeq
<1>6. [n EXCEPT !.children = children] \in EventElements
  BY <1>5 DEF EventElements
<1>7. [nodes EXCEPT ![k] = [n EXCEPT !.children = children]] \in Seq(EventElements)
  BY <1>3, <1>6, ReplacedInSeq
<1>8. [g EXCEPT !.nodes = [nodes EXCEPT ![k] = [n EXCEPT !.children = children]]] \in GroupElements
  BY <1>2, <1>7 DEF GroupElements
<1>9. [xml EXCEPT ![i] = [g EXCEPT !.nodes = [nodes EXCEPT ![k] = [n EXCEPT !.children = children]]]]
        \in Seq(GroupElements)
  BY <1>8, ReplacedInSeq DEF XmlTyped
<1>10. [xml EXCEPT ![Len(xml)].nodes[Len(LastGroup.nodes)].children = children]
        = [xml EXCEPT ![i] = [g EXCEPT !.nodes = [nodes EXCEPT ![k] = [n EXCEPT !.children = children]]]]
  BY <1>1, <1>2, <1>3, <1>4
<1> QED
  BY <1>9, <1>10

\* Whatever is added.
LEMMA XmlStaysTyped ==
    ASSUME XmlTyped, RuleNext
    PROVE  XmlTyped'
<1>1. ASSUME NEW r \in Relations, WriteGroup(r) PROVE XmlTyped'
  <2>1. [relation |-> r, nodes |-> <<>>] \in GroupElements
    BY EmptySeq DEF GroupElements
  <2> QED
    BY <1>1, <2>1, AppendProperties DEF XmlTyped, WriteGroup
<1>2. ASSUME NEW id \in {ImageLoad, DriverLoad}, NEW m \in {"include", "exclude"},
             NEW r \in Relations, WriteNode(id, m, r)
      PROVE  XmlTyped'
  <2>1. PICK i, g : i = Len(xml) /\ g = xml[i]
    OBVIOUS
  <2>2. i \in DOMAIN xml /\ g \in GroupElements
    BY <1>2, <2>1, LastOfSeq DEF XmlTyped, WriteNode
  <2>3. PICK n : n = [id |-> id, match |-> m, relation |-> r, children |-> <<>>]
    OBVIOUS
  <2>4. n \in EventElements
    BY <2>3, EmptySeq DEF EventElements
  <2>5. PICK nodes \in Seq(EventElements) : nodes = g.nodes
    BY <2>2 DEF GroupElements
  <2>6. Append(nodes, n) \in Seq(EventElements)
    BY <2>4, AppendProperties
  <2>7. [g EXCEPT !.nodes = Append(nodes, n)] \in GroupElements
    BY <2>2, <2>6 DEF GroupElements
  <2>8. [xml EXCEPT ![i] = [g EXCEPT !.nodes = Append(nodes, n)]] \in Seq(GroupElements)
    BY <2>7, ReplacedInSeq DEF XmlTyped
  <2>9. xml' = [xml EXCEPT ![i] = [g EXCEPT !.nodes = Append(nodes, n)]]
    BY <1>2, <2>1, <2>3, <2>5 DEF WriteNode
  <2> QED
    BY <2>8, <2>9 DEF XmlTyped
<1>3. ASSUME xml # <<>>, LastGroup.nodes # <<>>
      PROVE  LastNode.children \in Seq(FieldElements \cup RuleTags)
  <2>1. LastGroup \in GroupElements
    BY <1>3, LastOfSeq DEF XmlTyped, LastGroup
  <2>2. LastGroup.nodes \in Seq(EventElements)
    BY <2>1 DEF GroupElements
  <2>3. LastNode \in EventElements
    BY <1>3, <2>2, LastOfSeq DEF LastNode
  <2> QED
    BY <2>3 DEF EventElements
<1>4. ASSUME NEW c \in FieldElements \cup RuleTags, WriteChild(c) PROVE XmlTyped'
  <2>1. PICK before \in Seq(FieldElements \cup RuleTags) : before = LastNode.children
    BY <1>3, <1>4 DEF WriteChild
  <2>2. Append(before, c) \in Seq(FieldElements \cup RuleTags)
    BY AppendProperties
  <2>3. xml' = [xml EXCEPT ![Len(xml)].nodes[Len(LastGroup.nodes)].children = Append(before, c)]
    BY <1>4, <2>1 DEF WriteChild, LastNode, LastGroup
  <2>4. xml # <<>> /\ LastGroup.nodes # <<>>
    BY <1>4 DEF WriteChild
  <2> QED
    BY <2>2, <2>3, <2>4, WritesChild DEF XmlTyped
<1>5. ASSUME NEW e \in Expressions, WriteField(e) PROVE XmlTyped'
  <2>1. <<e>> \in Seq(Expressions) /\ Len(<<e>>) = 1
    OBVIOUS
  <2>2. [tag |-> "field", expressions |-> <<e>>] \in FieldElements
    BY <2>1 DEF FieldElements
  <2> QED
    BY <1>4, <1>5, <2>2 DEF WriteField
<1>6. ASSUME NEW r \in Relations, WriteRule(r) PROVE XmlTyped'
  <2>1. [tag |-> "rule", relation |-> r, expressions |-> <<>>] \in RuleTags
    BY EmptySeq DEF RuleTags
  <2> QED
    BY <1>4, <1>6, <2>1 DEF WriteRule
<1>7. ASSUME NEW e \in Expressions, WriteRuleField(e) PROVE XmlTyped'
  <2>1. xml # <<>> /\ LastGroup.nodes # <<>> /\ LastNode.children # <<>>
    BY <1>7 DEF WriteRuleField
  <2>2. PICK before \in Seq(FieldElements \cup RuleTags) : before = LastNode.children
    BY <1>3, <2>1
  <2>3. PICK k, c : k = Len(before) /\ c = before[k]
    OBVIOUS
  <2>4. c \in FieldElements \cup RuleTags /\ c.tag = "rule"
    BY <1>7, <2>1, <2>2, <2>3, LastOfSeq DEF WriteRuleField, Last
  <2>5. c \in RuleTags
    BY <2>4 DEF FieldElements
  <2>6. Append(c.expressions, e) \in Seq(Expressions)
    BY <2>5, AppendProperties DEF RuleTags
  <2>7. [c EXCEPT !.expressions = Append(c.expressions, e)] \in RuleTags
    BY <2>5, <2>6 DEF RuleTags
  <2>8. [before EXCEPT ![k] = [c EXCEPT !.expressions = Append(c.expressions, e)]]
          \in Seq(FieldElements \cup RuleTags)
    BY <2>7, ReplacedInSeq
  <2>9. xml' = [xml EXCEPT ![Len(xml)].nodes[Len(LastGroup.nodes)].children =
                  [before EXCEPT ![k] = [c EXCEPT !.expressions = Append(c.expressions, e)]]]
    BY <1>7, <2>2, <2>3 DEF WriteRuleField, LastNode, LastGroup
  <2> QED
    BY <2>1, <2>8, <2>9, WritesChild DEF XmlTyped
<1>8. ASSUME NEW m \in {"include", "exclude"}, NEW r \in Relations, WriteNode(ImageLoad, m, r)
      PROVE  XmlTyped'
  BY <1>2, <1>8
<1>9. ASSUME WriteNode(DriverLoad, "include", "or") PROVE XmlTyped'
  BY <1>2, <1>9 DEF Relations
<1> QED
  BY <1>1, <1>5, <1>6, <1>7, <1>8, <1>9 DEF RuleNext

\* What the parser makes of them (xml_config.cpp).
ParsedRules == [relation : Relations, expressions : Seq(Expressions)]

EventRules ==
    [id : {ImageLoad, DriverLoad}, match : {"include", "exclude"}, relation : Relations,
     rules : Seq(ParsedRules)]

RuleGroups == [relation : Relations, eventRules : Seq(EventRules)]

\* The children of an event element.
FieldsOf(node) == {c \in DOMAIN node.children : node.children[c].tag = "field"}
NestedOf(node) == {c \in DOMAIN node.children : node.children[c].tag = "rule"}
AsRule(c) == [relation |-> c.relation, expressions |-> c.expressions]

\* own is the rule that the fields beside the Rule elements of node make up.
IsOwnRule(own, node) ==
    /\ own \in ParsedRules /\ own.relation = node.relation
    /\ \A x \in DOMAIN own.expressions :
         \E c \in FieldsOf(node) : own.expressions[x] = node.children[c].expressions[1]
    /\ \A c \in FieldsOf(node) :
         \E x \in DOMAIN own.expressions : own.expressions[x] = node.children[c].expressions[1]

\* The rules of an event rule: one for each Rule element, and its own.
AreRulesOf(rules, node, own) ==
    /\ \A r \in DOMAIN rules :
         \/ \E c \in NestedOf(node) : rules[r] = AsRule(node.children[c])
         \/ FieldsOf(node) # {} /\ rules[r] = own
    /\ \A c \in NestedOf(node) : \E r \in DOMAIN rules : rules[r] = AsRule(node.children[c])
    /\ FieldsOf(node) # {} => \E r \in DOMAIN rules : rules[r] = own

\* An event element becomes an event rule.
LEMMA EventRuleOfNode ==
    ASSUME NEW node \in EventElements
    PROVE  /\ EventRuleOf(node) \in EventRules
           /\ /\ EventRuleOf(node).id = node.id /\ EventRuleOf(node).match = node.match
              /\ EventRuleOf(node).relation = node.relation
           /\ \E own : IsOwnRule(own, node) /\ AreRulesOf(EventRuleOf(node).rules, node, own)
<1> DEFINE tagged(t) == Picked(node.children,
                               {c \in DOMAIN node.children : node.children[c].tag = t})
<1>1. PICK children \in Seq(FieldElements \cup RuleTags) : children = node.children
  BY DEF EventElements
<1>2. ASSUME NEW c \in DOMAIN children
      PROVE  /\ children[c].tag \in {"field", "rule"}
             /\ children[c].tag = "field" => children[c] \in FieldElements
             /\ children[c].tag = "rule" => children[c] \in RuleTags
  <2>1. children[c] \in FieldElements \cup RuleTags
    BY ElementOfSeq, LenProperties
  <2> QED
    BY <2>1 DEF FieldElements, RuleTags
<1>3. PICK nested, fields : nested = tagged("rule") /\ fields = tagged("field")
  OBVIOUS
<1>4. /\ nested \in Seq(FieldElements \cup RuleTags) /\ Selects(nested, children, NestedOf(node))
      /\ fields \in Seq(FieldElements \cup RuleTags) /\ Selects(fields, children, FieldsOf(node))
  <2>1. NestedOf(node) \subseteq DOMAIN children /\ FieldsOf(node) \subseteq DOMAIN children
    BY <1>1 DEF NestedOf, FieldsOf
  <2>2. nested = Picked(children, NestedOf(node)) /\ fields = Picked(children, FieldsOf(node))
    BY <1>1, <1>3 DEF NestedOf, FieldsOf
  <2> QED
    BY <1>1, <2>1, <2>2, PickedSelects
<1>5. PICK n \in Nat, m \in Nat :
        /\ n = Len(nested) /\ DOMAIN nested = 1 .. n
        /\ m = Len(fields) /\ DOMAIN fields = 1 .. m
  BY <1>4, LenProperties
<1>6. ASSUME NEW i \in 1 .. n
      PROVE  /\ nested[i] \in RuleTags /\ AsRule(nested[i]) \in ParsedRules
             /\ \E c \in NestedOf(node) : nested[i] = node.children[c]
  <2>1. PICK c \in NestedOf(node) : nested[i] = children[c]
    BY <1>4, <1>5 DEF Selects
  <2>2. c \in DOMAIN children /\ children[c].tag = "rule"
    BY <1>1 DEF NestedOf
  <2>3. nested[i] \in RuleTags
    BY <1>2, <2>1, <2>2
  <2> QED
    BY <1>1, <2>1, <2>3 DEF RuleTags, ParsedRules, AsRule
<1>7. ASSUME NEW i \in 1 .. m
      PROVE  /\ fields[i].expressions \in Seq(Expressions) /\ Len(fields[i].expressions) = 1
             /\ \E c \in FieldsOf(node) : fields[i] = node.children[c]
  <2>1. PICK c \in FieldsOf(node) : fields[i] = children[c]
    BY <1>4, <1>5 DEF Selects
  <2>2. c \in DOMAIN children /\ children[c].tag = "field"
    BY <1>1 DEF FieldsOf
  <2>3. fields[i] \in FieldElements
    BY <1>2, <2>1, <2>2
  <2> QED
    BY <1>1, <2>1, <2>3 DEF FieldElements
<1>8. PICK each : each = [i \in DOMAIN fields |-> fields[i].expressions]
  OBVIOUS
<1>9. PICK flat : flat = FlattenSeq(each)
  OBVIOUS
<1>10. flat \in Seq(Expressions) /\ Gathers(flat, each, m)
  <2>1. each \in [1 .. m -> Seq(Expressions)]
    BY <1>5, <1>7, <1>8
  <2> QED
    BY <1>9, <2>1, FlattenGathers
<1>11. PICK own : own = [relation |-> node.relation, expressions |-> flat]
  OBVIOUS
<1>12. node.relation \in Relations /\ own \in ParsedRules
  BY <1>10, <1>11 DEF EventElements, ParsedRules
<1>13. IsOwnRule(own, node)
  <2>1. ASSUME NEW x \in DOMAIN flat
        PROVE  \E c \in FieldsOf(node) : flat[x] = node.children[c].expressions[1]
    <3>1. PICK i \in 1 .. m : \E k \in DOMAIN each[i] : flat[x] = each[i][k]
      BY <1>10 DEF Gathers
    <3>2. each[i] = fields[i].expressions /\ DOMAIN each[i] = {1}
      <4>1. each[i] = fields[i].expressions
        BY <1>5, <1>8
      <4>2. DOMAIN each[i] = 1 .. 1
        BY <1>7, <4>1, LenProperties
      <4> QED
        BY <4>1, <4>2
    <3>3. flat[x] = fields[i].expressions[1]
      BY <3>1, <3>2
    <3> QED
      BY <1>7, <3>3
  <2>2. ASSUME NEW c \in FieldsOf(node)
        PROVE  \E x \in DOMAIN flat : flat[x] = node.children[c].expressions[1]
    <3>1. PICK i \in 1 .. m : fields[i] = node.children[c]
      BY <1>1, <1>4, <1>5 DEF Selects
    <3>2. each[i] = fields[i].expressions
      BY <1>5, <1>8
    <3>3. 1 \in DOMAIN each[i]
      BY <1>7, <3>2, LenProperties
    <3>4. \E x \in DOMAIN flat : flat[x] = each[i][1]
      BY <1>10, <3>3 DEF Gathers
    <3> QED
      BY <3>1, <3>2, <3>4
  <2> QED
    BY <1>11, <1>12, <2>1, <2>2 DEF IsOwnRule
<1>14. PICK first : first = [i \in DOMAIN nested |-> AsRule(nested[i])]
  OBVIOUS
<1>15. first \in Seq(ParsedRules) /\ Len(first) = n /\ DOMAIN first = 1 .. n
  <2>1. first \in [1 .. n -> ParsedRules]
    BY <1>5, <1>6, <1>14
  <2> QED
    BY <2>1, FunctionsAreSequences
<1>16. PICK second : second = IF fields = <<>> THEN <<>> ELSE <<own>>
  OBVIOUS
<1>17. PICK l \in {0, 1} :
         /\ second \in Seq(ParsedRules) /\ Len(second) = l
         /\ l = 1 => second[1] = own
         /\ l = 0 <=> fields = <<>>
  BY <1>12, <1>16
<1>18. l = 0 <=> FieldsOf(node) = {}
  <2>1. fields = <<>> <=> m = 0
    BY <1>4, <1>5, EmptySeq
  <2>2. m = 0 => FieldsOf(node) = {}
    BY <1>4, <1>5 DEF Selects
  <2>3. m # 0 => FieldsOf(node) # {}
    <3>1. m # 0 => 1 \in DOMAIN fields
      BY <1>5
    <3> QED
      BY <1>4, <3>1 DEF Selects
  <2> QED
    BY <1>17, <2>1, <2>2, <2>3
<1>19. PICK rules : rules = first \o second
  OBVIOUS
<1>20. /\ rules \in Seq(ParsedRules) /\ Len(rules) = n + l /\ DOMAIN rules = 1 .. n + l
       /\ \A k \in 1 .. n : rules[k] = first[k]
       /\ \A k \in 1 .. l : rules[n + k] = second[k]
  <2>1. /\ rules \in Seq(ParsedRules) /\ Len(rules) = n + l
        /\ \A k \in 1 .. n : rules[k] = first[k]
        /\ \A k \in 1 .. l : rules[n + k] = second[k]
    <3>1. l \in Nat /\ l = Len(second) /\ n = Len(first)
      BY <1>15, <1>17
    <3> QED
      BY ONLY <1>15, <1>17, <1>19, <3>1, n \in Nat, Joined
  <2> QED
    BY <2>1, LenProperties
<1>21. AreRulesOf(rules, node, own)
  <2>1. ASSUME NEW r \in DOMAIN rules
        PROVE  \/ \E c \in NestedOf(node) : rules[r] = AsRule(node.children[c])
               \/ FieldsOf(node) # {} /\ rules[r] = own
    <3>1. CASE r \in 1 .. n
      <4>1. rules[r] = AsRule(nested[r])
        BY <1>5, <1>14, <1>20, <3>1
      <4> QED
        BY <1>6, <3>1, <4>1
    <3>2. CASE r \notin 1 .. n
      <4>1. l = 1 /\ r = n + 1
        BY <1>20, <3>2
      <4>2. rules[r] = second[1]
        BY <1>20, <4>1
      <4> QED
        BY <1>17, <1>18, <4>1, <4>2
    <3> QED
      BY <3>1, <3>2
  <2>2. ASSUME NEW c \in NestedOf(node)
        PROVE  \E r \in DOMAIN rules : rules[r] = AsRule(node.children[c])
    <3>1. PICK i \in 1 .. n : nested[i] = node.children[c]
      BY <1>1, <1>4, <1>5 DEF Selects
    <3>2. rules[i] = AsRule(nested[i])
      BY <1>5, <1>14, <1>20
    <3>3. i \in DOMAIN rules
      BY <1>20
    <3> QED
      BY <3>1, <3>2, <3>3
  <2>3. ASSUME FieldsOf(node) # {} PROVE \E r \in DOMAIN rules : rules[r] = own
    <3>1. l = 1 /\ n + 1 \in DOMAIN rules
      BY <1>18, <1>20, <2>3
    <3>2. rules[n + 1] = own
      BY <1>17, <1>20, <3>1
    <3> QED
      BY <3>1, <3>2
  <2> QED
    BY <2>1, <2>2, <2>3 DEF AreRulesOf
<1>22. EventRuleOf(node) = [id |-> node.id, match |-> node.match, relation |-> node.relation,
                            rules |-> rules]
  BY <1>3, <1>8, <1>9, <1>11, <1>14, <1>16, <1>19 DEF EventRuleOf, AsRule
<1>23. EventRuleOf(node) \in EventRules
  BY <1>20, <1>22 DEF EventElements, EventRules
<1> QED
  BY <1>13, <1>21, <1>22, <1>23

\* The group of rules of a group element.
GroupOf(x) ==
    [relation |-> x.relation,
     eventRules |-> [n \in DOMAIN x.nodes |-> EventRuleOf(x.nodes[n])]]

\* It is empty if the element is.
LEMMA GroupOfElement ==
    ASSUME NEW x \in GroupElements
    PROVE  GroupOf(x) \in RuleGroups /\ (GroupOf(x).eventRules = <<>> <=> x.nodes = <<>>)
<1>1. PICK nodes \in Seq(EventElements) : nodes = x.nodes
  BY DEF GroupElements
<1>2. PICK n \in Nat : n = Len(nodes) /\ DOMAIN nodes = 1 .. n
  BY LenProperties
<1>3. PICK rules : rules = [k \in DOMAIN nodes |-> EventRuleOf(nodes[k])]
  OBVIOUS
<1>4. rules \in [1 .. n -> EventRules]
  <2>1. \A k \in 1 .. n : nodes[k] \in EventElements
    BY <1>2, ElementOfSeq
  <2>2. \A k \in 1 .. n : EventRuleOf(nodes[k]) \in EventRules
    BY <2>1, EventRuleOfNode
  <2> QED
    BY <1>2, <1>3, <2>2
<1>5. rules \in Seq(EventRules) /\ Len(rules) = n
  BY <1>4, FunctionsAreSequences
<1>6. rules = <<>> <=> nodes = <<>>
  BY <1>2, <1>5, EmptySeq
<1>7. GroupOf(x) = [relation |-> x.relation, eventRules |-> rules]
  BY <1>1, <1>3 DEF GroupOf
<1>8. GroupOf(x) \in RuleGroups
  BY <1>5, <1>7 DEF GroupElements, RuleGroups
<1> QED
  BY <1>1, <1>6, <1>7, <1>8

\* The group elements that have an event element.
Kept == {g \in DOMAIN xml : xml[g].nodes # <<>>}

\* The rule set has the groups with event elements, and no others.
LEMMA RuleSetOfFile ==
    ASSUME XmlTyped
    PROVE  /\ RuleSet \in Seq(RuleGroups)
           /\ \A g \in DOMAIN RuleSet : \E h \in Kept : RuleSet[g] = GroupOf(xml[h])
           /\ \A h \in Kept : \E g \in DOMAIN RuleSet : RuleSet[g] = GroupOf(xml[h])
<1>1. PICK n \in Nat : n = Len(xml) /\ DOMAIN xml = 1 .. n
  BY LenProperties DEF XmlTyped
<1>2. PICK groups : groups = [g \in DOMAIN xml |-> GroupOf(xml[g])]
  OBVIOUS
<1>3. \A g \in DOMAIN xml : /\ groups[g] = GroupOf(xml[g]) /\ groups[g] \in RuleGroups
                            /\ groups[g].eventRules = <<>> <=> xml[g].nodes = <<>>
  <2>1. \A g \in DOMAIN xml : xml[g] \in GroupElements
    BY <1>1, ElementOfSeq DEF XmlTyped
  <2> QED
    BY <1>2, <2>1, GroupOfElement
<1>4. groups \in Seq(RuleGroups) /\ DOMAIN groups = DOMAIN xml
  <2>1. groups \in [1 .. n -> RuleGroups]
    BY <1>1, <1>2, <1>3
  <2> QED
    BY <1>1, <2>1, FunctionsAreSequences
<1>5. {g \in DOMAIN groups : groups[g].eventRules # <<>>} = Kept
  BY <1>3, <1>4 DEF Kept
<1>6. RuleSet = Picked(groups, Kept)
  BY <1>2, <1>4, <1>5 DEF RuleSet, GroupOf
<1>7. RuleSet \in Seq(RuleGroups) /\ Selects(RuleSet, groups, Kept)
  <2>1. Kept \subseteq DOMAIN groups
    BY <1>4 DEF Kept
  <2> QED
    BY <1>4, <1>6, <2>1, PickedSelects
<1>8. \A h \in Kept : groups[h] = GroupOf(xml[h])
  BY <1>3 DEF Kept
<1> QED
  BY <1>7, <1>8 DEF Selects

-----------------------------------------------------------------------------
(* Dropping an event early.  A result the service has before all fields    *)
(* are filled in is the one it will have: unknown is what it says of a     *)
(* field yet to come, and Partial says true or false only where what is    *)
(* unknown cannot change it.                                               *)

\* What an expression looks at is in the event early and late, or neither, unless
\* the service counts it as unknown; so for all expressions of a rule, of an event
\* rule and of a group's event rules about id.
Settled(e, early, late) == e.kind \in {"signed", "version"} \/ (e.kind \in early <=> e.kind \in late)
RuleSettled(rule, early, late) ==
    \A x \in DOMAIN rule.expressions : Settled(rule.expressions[x], early, late)
ElementSettled(eventRule, early, late) ==
    \A r \in DOMAIN eventRule.rules : RuleSettled(eventRule.rules[r], early, late)
GroupSettled(group, id, early, late) ==
    \A n \in DOMAIN group.eventRules :
      group.eventRules[n].id = id => ElementSettled(group.eventRules[n], early, late)

\* So for an expression, a rule, an event rule and a group.
LEMMA ExpressionIsForeseen ==
    ASSUME NEW e \in Expressions, NEW early, NEW late, Settled(e, early, late)
    PROVE  /\ PartialExpression(e, early) \in Three
           /\ PartialExpression(e, early) = "true" => Holds(e, late)
           /\ PartialExpression(e, early) = "false" => ~Holds(e, late)
<1>1. e.kind \in Kinds /\ e.full \in BOOLEAN /\ e.empty \in BOOLEAN
  BY ExpressionShape
<1>2. e.kind \notin {"signed", "version"} => (e.kind \in early <=> e.kind \in late)
  BY DEF Settled
<1>3. e.kind \notin {"signed", "version"} => (Holds(e, early) <=> Holds(e, late))
  BY <1>2 DEF Holds
<1> QED
  BY <1>3 DEF PartialExpression, Three

LEMMA RuleIsForeseen ==
    ASSUME NEW rule \in ParsedRules, NEW early, NEW late, RuleSettled(rule, early, late)
    PROVE  /\ PartialRule(rule, early) \in Three
           /\ PartialRule(rule, early) = "true" => ServiceRule(rule, late)
           /\ PartialRule(rule, early) = "false" => ~ServiceRule(rule, late)
<1>1. PICK exps \in Seq(Expressions) : exps = rule.expressions
  BY DEF ParsedRules
<1>2. CASE exps = <<>>
  BY <1>1, <1>2 DEF PartialRule, ServiceRule, Three
<1>3. CASE exps # <<>>
  <2>1. PICK n \in Nat : n = Len(exps) /\ DOMAIN exps = 1 .. n
    BY LenProperties
  <2>2. n > 0
    BY <1>3, <2>1, EmptySeq
  <2>3. PICK results, matches :
          /\ results = [x \in DOMAIN exps |-> PartialExpression(exps[x], early)]
          /\ matches = [x \in DOMAIN exps |-> (Holds(exps[x], late) <=> TRUE)]
    OBVIOUS
  <2>4. ASSUME NEW x \in 1 .. n
        PROVE  /\ results[x] \in Three /\ matches[x] \in BOOLEAN
               /\ matches[x] <=> Holds(exps[x], late)
               /\ results[x] = "true" => matches[x]
               /\ results[x] = "false" => ~matches[x]
    <3>1. exps[x] \in Expressions /\ Settled(exps[x], early, late)
      BY <1>1, <2>1, ElementOfSeq DEF RuleSettled
    <3>2. /\ results[x] = PartialExpression(exps[x], early)
          /\ matches[x] = (Holds(exps[x], late) <=> TRUE)
      BY <2>1, <2>3
    <3> QED
      BY <3>1, <3>2, ExpressionIsForeseen
  <2>5. results \in [1 .. n -> Three] /\ matches \in [1 .. n -> BOOLEAN]
    BY <2>1, <2>3, <2>4
  <2>6. /\ Partial(rule.relation, results) \in Three
        /\ Partial(rule.relation, results) = "true" => AnyOrAll(rule.relation, matches, n)
        /\ Partial(rule.relation, results) = "false" => ~AnyOrAll(rule.relation, matches, n)
    BY <2>4, <2>5, PartialIsCautious
  <2>7. ServiceRule(rule, late) <=> AnyOrAll(rule.relation, matches, n)
    BY <1>1, <1>3, <2>1, <2>2, <2>4 DEF ServiceRule, Combined, AnyOrAll
  <2>8. PartialRule(rule, early) = Partial(rule.relation, results)
    BY <1>1, <1>3, <2>3 DEF PartialRule
  <2> QED
    BY <2>6, <2>7, <2>8
<1> QED
  BY <1>2, <1>3

LEMMA ElementIsForeseen ==
    ASSUME NEW eventRule \in EventRules, NEW early, NEW late,
           ElementSettled(eventRule, early, late), NEW result,
           result = Partial(eventRule.relation,
                            [r \in DOMAIN eventRule.rules |->
                               PartialRule(eventRule.rules[r], early)])
    PROVE  /\ result \in Three
           /\ result = "true" => ServiceEventRule(eventRule, late)
           /\ result = "false" => ~ServiceEventRule(eventRule, late)
<1>1. PICK rules \in Seq(ParsedRules) : rules = eventRule.rules
  BY DEF EventRules
<1>2. PICK n \in Nat : n = Len(rules) /\ DOMAIN rules = 1 .. n
  BY LenProperties
<1>3. n = 0 <=> rules = <<>>
  BY <1>2, EmptySeq
<1>4. PICK results, matches :
        /\ results = [r \in DOMAIN rules |-> PartialRule(rules[r], early)]
        /\ matches = [r \in DOMAIN rules |-> (ServiceRule(rules[r], late) <=> TRUE)]
  OBVIOUS
<1>5. ASSUME NEW r \in 1 .. n
      PROVE  /\ results[r] \in Three /\ matches[r] \in BOOLEAN
             /\ matches[r] <=> ServiceRule(rules[r], late)
             /\ results[r] = "true" => matches[r]
             /\ results[r] = "false" => ~matches[r]
  <2>1. rules[r] \in ParsedRules /\ RuleSettled(rules[r], early, late)
    BY <1>1, <1>2, ElementOfSeq DEF ElementSettled
  <2>2. /\ results[r] = PartialRule(rules[r], early)
        /\ matches[r] = (ServiceRule(rules[r], late) <=> TRUE)
    BY <1>2, <1>4
  <2> QED
    BY <2>1, <2>2, RuleIsForeseen
<1>6. results \in [1 .. n -> Three] /\ matches \in [1 .. n -> BOOLEAN]
  BY <1>2, <1>4, <1>5
<1>7. /\ Partial(eventRule.relation, results) \in Three
      /\ Partial(eventRule.relation, results) = "true" => AnyOrAll(eventRule.relation, matches, n)
      /\ Partial(eventRule.relation, results) = "false" => ~AnyOrAll(eventRule.relation, matches, n)
  BY <1>5, <1>6, PartialIsCautious
<1>8. ServiceEventRule(eventRule, late) <=> AnyOrAll(eventRule.relation, matches, n)
  BY <1>1, <1>2, <1>3, <1>5 DEF ServiceEventRule, Combined, AnyOrAll
<1>9. result = Partial(eventRule.relation, results)
  BY <1>1, <1>4
<1> QED
  BY <1>7, <1>8, <1>9

\* What is said of a group early, and what its verdict on its elements is later.
VerdictForeseen(foreseen, verdict, mine) ==
    /\ foreseen = "true" => verdict.matched
    /\ foreseen = "false" => ~verdict.matched
    /\ verdict.has <=> mine # <<>>
    /\ verdict.matched => mine # <<>>

LEMMA GroupIsForeseen ==
    ASSUME NEW group \in RuleGroups, NEW id, NEW match, NEW early, NEW late,
           GroupSettled(group, id, early, late),
           NEW mine, mine = OfEvent(group, id, match), NEW verdict,
           verdict = GroupVerdict(group.relation,
                       [k \in DOMAIN mine |-> ServiceEventRule(mine[k], late)])
    PROVE  VerdictForeseen(PartialGroup(group, id, match, early), verdict, mine)
<1>1. PICK rules \in Seq(EventRules) : rules = group.eventRules
  BY DEF RuleGroups
<1>2. /\ mine \in Seq(EventRules)
      /\ \A k \in DOMAIN mine : ElementSettled(mine[k], early, late)
  <2>1. PICK chosen : chosen = {n \in DOMAIN rules : rules[n].id = id /\ rules[n].match = match}
    OBVIOUS
  <2>2. mine = Picked(rules, chosen) /\ chosen \subseteq DOMAIN rules
    BY <1>1, <2>1 DEF OfEvent
  <2>3. mine \in Seq(EventRules) /\ Selects(mine, rules, chosen)
    BY <2>2, PickedSelects
  <2>4. \A n \in chosen : ElementSettled(rules[n], early, late)
    BY <1>1, <2>1 DEF GroupSettled
  <2> QED
    BY <2>3, <2>4 DEF Selects
<1>3. PICK n \in Nat : n = Len(mine) /\ DOMAIN mine = 1 .. n
  BY <1>2, LenProperties
<1>4. n = 0 <=> mine = <<>>
  BY <1>2, <1>3, EmptySeq
<1>5. PICK results, matches :
        /\ results = [k \in DOMAIN mine |->
                        Partial(mine[k].relation,
                                [r \in DOMAIN mine[k].rules |->
                                   PartialRule(mine[k].rules[r], early)])]
        /\ matches = [k \in DOMAIN mine |-> ServiceEventRule(mine[k], late)]
  OBVIOUS
<1>6. ASSUME NEW k \in 1 .. n
      PROVE  /\ results[k] \in Three /\ matches[k] \in BOOLEAN
             /\ results[k] = "true" => matches[k]
             /\ results[k] = "false" => ~matches[k]
  <2>1. mine[k] \in EventRules /\ ElementSettled(mine[k], early, late)
    BY <1>2, <1>3, ElementOfSeq
  <2>2. /\ results[k] = Partial(mine[k].relation, [r \in DOMAIN mine[k].rules |->
                                   PartialRule(mine[k].rules[r], early)])
        /\ matches[k] = ServiceEventRule(mine[k], late)
    BY <1>3, <1>5
  <2>3. ServiceEventRule(mine[k], late) \in BOOLEAN
    BY DEF ServiceEventRule
  <2>4. /\ results[k] \in Three
        /\ results[k] = "true" => ServiceEventRule(mine[k], late)
        /\ results[k] = "false" => ~ServiceEventRule(mine[k], late)
    BY <2>1, <2>2, ElementIsForeseen
  <2> QED
    BY <2>2, <2>3, <2>4
<1>7. results \in [1 .. n -> Three] /\ matches \in [1 .. n -> BOOLEAN]
  BY <1>3, <1>5, <1>6
<1>8. /\ Partial(group.relation, results) \in Three
      /\ Partial(group.relation, results) = "true" => AnyOrAll(group.relation, matches, n)
      /\ Partial(group.relation, results) = "false" => ~AnyOrAll(group.relation, matches, n)
  BY <1>6, <1>7, PartialIsCautious
<1>9. /\ verdict.has <=> n > 0
      /\ verdict.matched <=> AnyOrAll(group.relation, matches, n)
  BY <1>5, <1>7, VerdictIsAnyOrAll
<1>10. PartialGroup(group, id, match, early) = Partial(group.relation, results)
  BY <1>5 DEF PartialGroup
<1>11. AnyOrAll(group.relation, matches, n) => n > 0
  BY DEF AnyOrAll
<1> QED
  BY <1>4, <1>8, <1>9, <1>10, <1>11 DEF VerdictForeseen

\* So an event dropped before enrichment would not have been logged after it.
LEMMA EarlyIsFinal ==
    ASSUME XmlTyped
    PROVE  EarlyRejectIsFinal
<1>1. PICK rs \in Seq(RuleGroups) : rs = RuleSet
  BY RuleSetOfFile
<1> SUFFICES ASSUME NEW id \in {ImageLoad, DriverLoad}, NEW have \in SUBSET {"hash", "version"},
                    EarlyReject(rs, id, {"raw"} \cup have),
                    "hash" \in ServiceRequirements(rs, id) => "hash" \in have,
                    NEW added \in SUBSET (Kinds \ {"raw"})
             PROVE  ~ServiceCapture(rs, id, {"raw"} \cup have \cup added)
  BY <1>1 DEF EarlyRejectIsFinal
<1>2. PICK early, late : early = {"raw"} \cup have /\ late = {"raw"} \cup have \cup added
  OBVIOUS
<1>3. ASSUME NEW g \in DOMAIN rs, NEW n \in DOMAIN rs[g].eventRules, rs[g].eventRules[n].id = id
      PROVE  ElementSettled(rs[g].eventRules[n], early, late)
  <2> SUFFICES ASSUME NEW r \in DOMAIN rs[g].eventRules[n].rules,
                      NEW x \in DOMAIN rs[g].eventRules[n].rules[r].expressions
               PROVE  Settled(rs[g].eventRules[n].rules[r].expressions[x], early, late)
    BY DEF ElementSettled, RuleSettled
  <2>1. PICK e : e = rs[g].eventRules[n].rules[r].expressions[x]
    OBVIOUS
  <2>2. e \in Expressions
    <3>1. rs[g] \in RuleGroups
      BY ElementOfSeq, LenProperties
    <3>2. rs[g].eventRules \in Seq(EventRules)
      BY <3>1 DEF RuleGroups
    <3>3. rs[g].eventRules[n] \in EventRules
      BY <3>2, ElementOfSeq, LenProperties
    <3>4. rs[g].eventRules[n].rules \in Seq(ParsedRules)
      BY <3>3 DEF EventRules
    <3>5. rs[g].eventRules[n].rules[r] \in ParsedRules
      BY <3>4, ElementOfSeq, LenProperties
    <3>6. rs[g].eventRules[n].rules[r].expressions \in Seq(Expressions)
      BY <3>5 DEF ParsedRules
    <3> QED
      BY <2>1, <3>6, ElementOfSeq, LenProperties
  <2>3. e.kind \in Kinds
    BY <2>2, ExpressionShape
  <2>4. e.kind = "hash" => "hash" \in ServiceRequirements(rs, id)
    BY <1>3, <2>1, <2>3 DEF ServiceRequirements, Kinds
  <2> QED
    BY <1>2, <2>1, <2>3, <2>4 DEF Settled, Kinds
<1> DEFINE mine(g, match) == OfEvent(rs[g], id, match)
           verdict(g, match) ==
             GroupVerdict(rs[g].relation,
                          [k \in DOMAIN mine(g, match) |->
                             ServiceEventRule(mine(g, match)[k], late)])
           foreseen(g, match) == PartialGroup(rs[g], id, match, early)
<1>4. ASSUME NEW g \in DOMAIN rs, NEW match
      PROVE  VerdictForeseen(foreseen(g, match), verdict(g, match), mine(g, match))
  <2>1. rs[g] \in RuleGroups
    BY ElementOfSeq, LenProperties
  <2>2. GroupSettled(rs[g], id, early, late)
    BY <1>3 DEF GroupSettled
  <2> QED
    BY <2>1, <2>2, GroupIsForeseen
<1>5. ServiceCapture(rs, id, late)
        => /\ \A g \in DOMAIN rs : ~verdict(g, "exclude").matched
           /\ \/ \A g \in DOMAIN rs : ~verdict(g, "include").has
              \/ \E g \in DOMAIN rs : verdict(g, "include").matched
  BY DEF ServiceCapture
<1>6. \/ \E g \in DOMAIN rs : foreseen(g, "exclude") = "true"
      \/ /\ \E g \in DOMAIN rs : mine(g, "include") # <<>>
         /\ \A g \in DOMAIN rs : mine(g, "include") # <<>> => foreseen(g, "include") = "false"
  BY <1>2 DEF EarlyReject
<1> HIDE DEF mine, verdict, foreseen
<1> QED
  BY <1>2, <1>4, <1>5, <1>6 DEF VerdictForeseen

-----------------------------------------------------------------------------
(* The blob.  Each level of the rules lies in an array of its own, and     *)
(* each element says where its children lie: side by side, without gap or  *)
(* overlap (SideBySide), so the driver finds for every element those it    *)
(* had in the service.                                                     *)

\* The blob of rs holds the event rules, rules and expressions in flat arrays;
\* the children of element i begin after first[i - 1].
IsBlob(blob, rs, eventRules, rules, firstEvent, firstRule, firstExpression) ==
    /\ blob.groups = [g \in DOMAIN rs |->
         [relation |-> rs[g].relation, start |-> firstEvent[g - 1],
          count |-> Len(rs[g].eventRules)]]
    /\ blob.eventRules = [i \in DOMAIN eventRules |->
         [id |-> eventRules[i].id, match |-> eventRules[i].match,
          relation |-> eventRules[i].relation, start |-> firstRule[i - 1],
          count |-> Len(eventRules[i].rules)]]
    /\ blob.rules = [i \in DOMAIN rules |->
         [relation |-> rules[i].relation, start |-> firstExpression[i - 1],
          count |-> Len(rules[i].expressions)]]
    /\ LaidOut(eventRules, [g \in DOMAIN rs |-> rs[g].eventRules], firstEvent, Len(rs))
    /\ LaidOut(rules, [i \in DOMAIN eventRules |-> eventRules[i].rules], firstRule,
               Len(eventRules))
    /\ LaidOut(blob.expressions, [i \in DOMAIN rules |-> rules[i].expressions], firstExpression,
               Len(rules))

\* Serialize makes such a blob.
LEMMA BlobOfRules ==
    ASSUME NEW rs \in Seq(RuleGroups), NEW blob, blob = Serialize(rs)
    PROVE  \E eventRules \in Seq(EventRules), rules \in Seq(ParsedRules) :
           \E firstEvent, firstRule, firstExpression :
             /\ IsBlob(blob, rs, eventRules, rules, firstEvent, firstRule, firstExpression)
             /\ blob.expressions \in Seq(Expressions)
<1>1. PICK perGroup : perGroup = [g \in DOMAIN rs |-> rs[g].eventRules]
  OBVIOUS
<1>2. DOMAIN rs = 1 .. Len(rs) /\ Len(rs) \in Nat /\ perGroup \in [1 .. Len(rs) -> Seq(EventRules)]
  <2>1. DOMAIN rs = 1 .. Len(rs) /\ Len(rs) \in Nat
    BY LenProperties
  <2>2. \A g \in DOMAIN rs : rs[g] \in RuleGroups
    BY <2>1, ElementOfSeq
  <2> QED
    BY <1>1, <2>1, <2>2 DEF RuleGroups
<1>3. PICK eventRules : eventRules = FlattenSeq(perGroup)
  OBVIOUS
<1>4. PICK firstEvent : firstEvent = [g \in 0 .. Len(rs) |-> Before(perGroup, g)]
  OBVIOUS
<1>5. eventRules \in Seq(EventRules) /\ LaidOut(eventRules, perGroup, firstEvent, Len(rs))
  BY <1>2, <1>3, <1>4, FlattenLaysOut
<1>6. PICK perEvent : perEvent = [i \in DOMAIN eventRules |-> eventRules[i].rules]
  OBVIOUS
<1>7. /\ DOMAIN eventRules = 1 .. Len(eventRules) /\ Len(eventRules) \in Nat
      /\ perEvent \in [1 .. Len(eventRules) -> Seq(ParsedRules)]
  <2>1. DOMAIN eventRules = 1 .. Len(eventRules) /\ Len(eventRules) \in Nat
    BY <1>5, LenProperties
  <2>2. \A i \in DOMAIN eventRules : eventRules[i] \in EventRules
    BY <1>5, <2>1, ElementOfSeq
  <2> QED
    BY <1>6, <2>1, <2>2 DEF EventRules
<1>8. PICK rules : rules = FlattenSeq(perEvent)
  OBVIOUS
<1>9. PICK firstRule : firstRule = [i \in 0 .. Len(eventRules) |-> Before(perEvent, i)]
  OBVIOUS
<1>10. rules \in Seq(ParsedRules) /\ LaidOut(rules, perEvent, firstRule, Len(eventRules))
  BY <1>7, <1>8, <1>9, FlattenLaysOut
<1>11. PICK perRule : perRule = [i \in DOMAIN rules |-> rules[i].expressions]
  OBVIOUS
<1>12. /\ DOMAIN rules = 1 .. Len(rules) /\ Len(rules) \in Nat
       /\ perRule \in [1 .. Len(rules) -> Seq(Expressions)]
  <2>1. DOMAIN rules = 1 .. Len(rules) /\ Len(rules) \in Nat
    BY <1>10, LenProperties
  <2>2. \A i \in DOMAIN rules : rules[i] \in ParsedRules
    BY <1>10, <2>1, ElementOfSeq
  <2> QED
    BY <1>11, <2>1, <2>2 DEF ParsedRules
<1>13. PICK expressions : expressions = FlattenSeq(perRule)
  OBVIOUS
<1>14. PICK firstExpression : firstExpression = [i \in 0 .. Len(rules) |-> Before(perRule, i)]
  OBVIOUS
<1>15. /\ expressions \in Seq(Expressions)
       /\ LaidOut(expressions, perRule, firstExpression, Len(rules))
  BY <1>12, <1>13, <1>14, FlattenLaysOut
<1>16. /\ blob.groups = [g \in DOMAIN rs |->
            [relation |-> rs[g].relation, start |-> Before(perGroup, g - 1),
             count |-> Len(perGroup[g])]]
       /\ blob.eventRules = [i \in DOMAIN eventRules |->
            [id |-> eventRules[i].id, match |-> eventRules[i].match,
             relation |-> eventRules[i].relation, start |-> Before(perEvent, i - 1),
             count |-> Len(perEvent[i])]]
       /\ blob.rules = [i \in DOMAIN rules |->
            [relation |-> rules[i].relation, start |-> Before(perRule, i - 1),
             count |-> Len(perRule[i])]]
       /\ blob.expressions = expressions
  BY <1>1, <1>3, <1>6, <1>8, <1>11, <1>13 DEF Serialize
<1>17. blob.groups = [g \in DOMAIN rs |->
         [relation |-> rs[g].relation, start |-> firstEvent[g - 1],
          count |-> Len(rs[g].eventRules)]]
  <2>1. \A g \in DOMAIN rs : Before(perGroup, g - 1) = firstEvent[g - 1] /\ perGroup[g] = rs[g].eventRules
    BY <1>1, <1>2, <1>4
  <2> QED
    BY <1>16, <2>1
<1>18. blob.eventRules = [i \in DOMAIN eventRules |->
         [id |-> eventRules[i].id, match |-> eventRules[i].match,
          relation |-> eventRules[i].relation, start |-> firstRule[i - 1],
          count |-> Len(eventRules[i].rules)]]
  <2>1. \A i \in DOMAIN eventRules : /\ Before(perEvent, i - 1) = firstRule[i - 1]
                                     /\ perEvent[i] = eventRules[i].rules
    BY <1>6, <1>7, <1>9
  <2> QED
    BY <1>16, <2>1
<1>19. blob.rules = [i \in DOMAIN rules |->
         [relation |-> rules[i].relation, start |-> firstExpression[i - 1],
          count |-> Len(rules[i].expressions)]]
  <2>1. \A i \in DOMAIN rules : /\ Before(perRule, i - 1) = firstExpression[i - 1]
                                /\ perRule[i] = rules[i].expressions
    BY <1>11, <1>12, <1>14
  <2> QED
    BY <1>16, <2>1
<1>20. IsBlob(blob, rs, eventRules, rules, firstEvent, firstRule, firstExpression)
  BY <1>1, <1>5, <1>6, <1>10, <1>11, <1>15, <1>16, <1>17, <1>18, <1>19 DEF IsBlob
<1> QED
  BY <1>5, <1>10, <1>15, <1>16, <1>20

\* The driver accepts such a blob.
LEMMA BlobIsAccepted ==
    ASSUME NEW rs \in Seq(RuleGroups), NEW eventRules \in Seq(EventRules),
           NEW rules \in Seq(ParsedRules), NEW firstEvent, NEW firstRule, NEW firstExpression,
           NEW blob, blob.expressions \in Seq(Expressions),
           IsBlob(blob, rs, eventRules, rules, firstEvent, firstRule, firstExpression)
    PROVE  DriverAccepts(blob)
<1>1. PICK perGroup, perEvent, perRule :
        /\ perGroup = [g \in DOMAIN rs |-> rs[g].eventRules]
        /\ perEvent = [i \in DOMAIN eventRules |-> eventRules[i].rules]
        /\ perRule = [i \in DOMAIN rules |-> rules[i].expressions]
  OBVIOUS
<1>2. /\ DOMAIN rs = 1 .. Len(rs) /\ Len(rs) \in Nat
      /\ DOMAIN eventRules = 1 .. Len(eventRules) /\ Len(eventRules) \in Nat
      /\ DOMAIN rules = 1 .. Len(rules) /\ Len(rules) \in Nat
      /\ Len(blob.expressions) \in Nat
  BY LenProperties
<1>3. /\ perGroup \in [1 .. Len(rs) -> Seq(EventRules)]
      /\ perEvent \in [1 .. Len(eventRules) -> Seq(ParsedRules)]
      /\ perRule \in [1 .. Len(rules) -> Seq(Expressions)]
  <2>0. /\ \A g \in DOMAIN rs : rs[g] \in RuleGroups
        /\ \A i \in DOMAIN eventRules : eventRules[i] \in EventRules
        /\ \A i \in DOMAIN rules : rules[i] \in ParsedRules
    BY <1>2, ElementOfSeq
  <2>1. \A g \in DOMAIN rs : rs[g].eventRules \in Seq(EventRules)
    BY <2>0 DEF RuleGroups
  <2>2. \A i \in DOMAIN eventRules : eventRules[i].rules \in Seq(ParsedRules)
    BY <2>0 DEF EventRules
  <2>3. \A i \in DOMAIN rules : rules[i].expressions \in Seq(Expressions)
    BY <2>0 DEF ParsedRules
  <2> QED
    BY <1>1, <1>2, <2>1, <2>2, <2>3
<1>4. /\ LaidOut(eventRules, perGroup, firstEvent, Len(rs))
      /\ LaidOut(rules, perEvent, firstRule, Len(eventRules))
      /\ LaidOut(blob.expressions, perRule, firstExpression, Len(rules))
  BY <1>1 DEF IsBlob
<1>5. /\ DOMAIN blob.groups = 1 .. Len(rs)
      /\ DOMAIN blob.eventRules = 1 .. Len(eventRules) /\ Len(blob.eventRules) = Len(eventRules)
      /\ DOMAIN blob.rules = 1 .. Len(rules) /\ Len(blob.rules) = Len(rules)
  <2>1. /\ DOMAIN blob.groups = DOMAIN rs /\ DOMAIN blob.eventRules = DOMAIN eventRules
        /\ DOMAIN blob.rules = DOMAIN rules
    BY DEF IsBlob
  <2>2. Len(blob.eventRules) = Len(eventRules)
    <3>1. blob.eventRules \in [1 .. Len(eventRules) -> {blob.eventRules[i] : i \in DOMAIN eventRules}]
      BY <1>2 DEF IsBlob
    <3> QED
      BY <1>2, <3>1, FunctionsAreSequences
  <2>3. Len(blob.rules) = Len(rules)
    <3>1. blob.rules \in [1 .. Len(rules) -> {blob.rules[i] : i \in DOMAIN rules}]
      BY <1>2 DEF IsBlob
    <3> QED
      BY <1>2, <3>1, FunctionsAreSequences
  <2> QED
    BY <1>2, <2>1, <2>2, <2>3
<1>6. ASSUME NEW g \in 1 .. Len(rs)
      PROVE  /\ blob.groups[g].start = firstEvent[g - 1]
             /\ blob.groups[g].count = Len(perGroup[g])
             /\ Members(blob.groups[g]) = Stretch(perGroup, firstEvent, g)
             /\ InRange(blob.groups[g], blob.eventRules)
  <2>1. /\ blob.groups[g].start = firstEvent[g - 1]
        /\ blob.groups[g].count = Len(perGroup[g])
    BY <1>1, <1>2 DEF IsBlob
  <2>2. firstEvent[g - 1] + Len(perGroup[g]) <= Len(eventRules)
    BY <1>4 DEF LaidOut
  <2> QED
    BY <1>5, <2>1, <2>2 DEF Members, Stretch, InRange
<1>7. ASSUME NEW i \in 1 .. Len(eventRules)
      PROVE  InRange(blob.eventRules[i], blob.rules)
  <2>1. /\ blob.eventRules[i].start = firstRule[i - 1]
        /\ blob.eventRules[i].count = Len(perEvent[i])
    BY <1>1, <1>2 DEF IsBlob
  <2>2. firstRule[i - 1] + Len(perEvent[i]) <= Len(rules)
    BY <1>4 DEF LaidOut
  <2> QED
    BY <1>5, <2>1, <2>2 DEF InRange
<1>8. ASSUME NEW i \in 1 .. Len(rules)
      PROVE  InRange(blob.rules[i], blob.expressions)
  <2>1. /\ blob.rules[i].start = firstExpression[i - 1]
        /\ blob.rules[i].count = Len(perRule[i])
    BY <1>1, <1>2 DEF IsBlob
  <2>2. firstExpression[i - 1] + Len(perRule[i]) <= Len(blob.expressions)
    BY <1>4 DEF LaidOut
  <2> QED
    BY <2>1, <2>2 DEF InRange
<1>9. /\ \A j \in 1 .. Len(eventRules) :
           \E g \in 1 .. Len(rs) : j \in Stretch(perGroup, firstEvent, g)
      /\ \A i, h \in 1 .. Len(rs) : \A j :
           j \in Stretch(perGroup, firstEvent, i) /\ j \in Stretch(perGroup, firstEvent, h)
             => i = h
  <2>1. SideBySide(perGroup, firstEvent, Len(rs), Len(eventRules))
    BY <1>2, <1>3, <1>4, PartsInOrder
  <2> QED
    BY <2>1 DEF SideBySide
<1>10. ASSUME NEW i \in 1 .. Len(eventRules)
       PROVE  \E g \in DOMAIN blob.groups :
                /\ i \in Members(blob.groups[g])
                /\ \A h \in DOMAIN blob.groups \ {g} : i \notin Members(blob.groups[h])
  <2>1. PICK g \in 1 .. Len(rs) : i \in Stretch(perGroup, firstEvent, g)
    BY <1>9
  <2>2. ASSUME NEW h \in DOMAIN blob.groups \ {g} PROVE i \notin Members(blob.groups[h])
    <3>1. h \in 1 .. Len(rs) /\ h # g
      BY <1>5
    <3> QED
      BY <1>6, <1>9, <2>1, <3>1
  <2> QED
    BY <1>5, <1>6, <2>1, <2>2
<1> QED
  BY <1>5, <1>6, <1>7, <1>8, <1>10 DEF DriverAccepts

-----------------------------------------------------------------------------
(* The index.  The runtime's bucket for image loads refers to the event    *)
(* rules of the blob; each is that of one group at one place.              *)

\* ref stands for event rule n of group g, which is about image loads.
IsRef(ref, rs, firstEvent, g, n) ==
    /\ g \in DOMAIN rs /\ n \in DOMAIN rs[g].eventRules
    /\ rs[g].eventRules[n].id = ImageLoad
    /\ ref = [group |-> g, eventRule |-> firstEvent[g - 1] + n]

\* The bucket has all references to image-load rules, by group.
IsBucket(refs, rs, firstEvent) ==
    /\ \A k \in DOMAIN refs :
         \E g \in DOMAIN rs : \E n \in DOMAIN rs[g].eventRules : IsRef(refs[k], rs, firstEvent, g, n)
    /\ \A g \in DOMAIN rs : \A n \in DOMAIN rs[g].eventRules :
         rs[g].eventRules[n].id = ImageLoad
           => \E k \in DOMAIN refs : IsRef(refs[k], rs, firstEvent, g, n)
    /\ \A k \in 1 .. Len(refs) - 1 : refs[k].group <= refs[k + 1].group

\* What the index holds.
Refs == [group : Nat, eventRule : Nat]

\* What stands at its place in the flat array.
LEMMA EventRuleAt ==
    ASSUME NEW rs \in Seq(RuleGroups), NEW eventRules \in Seq(EventRules),
           NEW firstEvent, NEW g \in DOMAIN rs, NEW n \in DOMAIN rs[g].eventRules,
           LaidOut(eventRules, [h \in DOMAIN rs |-> rs[h].eventRules], firstEvent, Len(rs))
    PROVE  /\ g \in Nat /\ firstEvent[g - 1] \in Nat /\ n \in Nat
           /\ firstEvent[g - 1] + n \in DOMAIN eventRules
           /\ eventRules[firstEvent[g - 1] + n] = rs[g].eventRules[n]
<1>1. PICK perGroup : perGroup = [h \in DOMAIN rs |-> rs[h].eventRules]
  OBVIOUS
<1>2. /\ DOMAIN rs = 1 .. Len(rs) /\ Len(rs) \in Nat
      /\ DOMAIN eventRules = 1 .. Len(eventRules) /\ Len(eventRules) \in Nat
  BY LenProperties
<1>3. perGroup \in [1 .. Len(rs) -> Seq(EventRules)]
  <2>0. \A h \in DOMAIN rs : rs[h] \in RuleGroups
    BY <1>2, ElementOfSeq
  <2>1. \A h \in DOMAIN rs : rs[h].eventRules \in Seq(EventRules)
    BY <2>0 DEF RuleGroups
  <2> QED
    BY <1>1, <1>2, <2>1
<1>4. LaidOut(eventRules, perGroup, firstEvent, Len(rs))
  BY <1>1
<1>5. perGroup[g] = rs[g].eventRules /\ perGroup[g] \in Seq(EventRules)
  BY <1>1, <1>2, <1>3
<1>6. n \in 1 .. Len(perGroup[g]) /\ Len(perGroup[g]) \in Nat
  BY <1>5, LenProperties
<1>7. eventRules[firstEvent[g - 1] + n] = perGroup[g][n]
  BY <1>2, <1>4, <1>6 DEF LaidOut
<1>8. Stretch(perGroup, firstEvent, g) \subseteq 1 .. Len(eventRules)
  <2>1. SideBySide(perGroup, firstEvent, Len(rs), Len(eventRules))
    BY <1>2, <1>3, <1>4, PartsInOrder
  <2> QED
    BY <1>2, <2>1 DEF SideBySide
<1>9. firstEvent[g - 1] \in Nat /\ g \in Nat
  <2>1. g - 1 \in 0 .. Len(rs)
    BY <1>2
  <2> QED
    BY <1>2, <1>4, <2>1 DEF LaidOut
<1>10. firstEvent[g - 1] + n \in Stretch(perGroup, firstEvent, g)
  BY <1>6, <1>9 DEF Stretch
<1> QED
  BY <1>2, <1>5, <1>6, <1>7, <1>8, <1>9, <1>10

\* LoadRuleRuntime makes such a bucket.
LEMMA BucketOfBlob ==
    ASSUME NEW rs \in Seq(RuleGroups), NEW eventRules \in Seq(EventRules),
           NEW rules \in Seq(ParsedRules), NEW firstEvent, NEW firstRule, NEW firstExpression,
           NEW blob, IsBlob(blob, rs, eventRules, rules, firstEvent, firstRule, firstExpression),
           NEW refs, refs = Bucket(LoadRuleRuntime(blob), ImageLoad)
    PROVE  refs \in Seq(Refs) /\ IsBucket(refs, rs, firstEvent)
<1>1. /\ DOMAIN rs = 1 .. Len(rs) /\ Len(rs) \in Nat
      /\ DOMAIN eventRules = 1 .. Len(eventRules) /\ Len(eventRules) \in Nat
  BY LenProperties
<1>2. /\ DOMAIN blob.groups = DOMAIN rs /\ DOMAIN blob.eventRules = DOMAIN eventRules
      /\ \A g \in DOMAIN rs : /\ blob.groups[g].start = firstEvent[g - 1]
                              /\ blob.groups[g].count = Len(rs[g].eventRules)
      /\ \A i \in DOMAIN eventRules : blob.eventRules[i].id = eventRules[i].id
      /\ LaidOut(eventRules, [h \in DOMAIN rs |-> rs[h].eventRules], firstEvent, Len(rs))
  BY DEF IsBlob
<1>3. ASSUME NEW g \in DOMAIN rs
      PROVE  /\ rs[g].eventRules \in Seq(EventRules) /\ Len(rs[g].eventRules) \in Nat
             /\ DOMAIN rs[g].eventRules = 1 .. Len(rs[g].eventRules)
             /\ g \in Nat
  <2>0. rs[g] \in RuleGroups
    BY <1>1, ElementOfSeq
  <2>1. rs[g].eventRules \in Seq(EventRules)
    BY <2>0 DEF RuleGroups
  <2> QED
    BY <1>1, <2>1, LenProperties
<1>4. ASSUME NEW g \in DOMAIN rs, NEW n \in DOMAIN rs[g].eventRules
      PROVE  /\ firstEvent[g - 1] \in Nat /\ n \in Nat
             /\ firstEvent[g - 1] + n \in DOMAIN eventRules
             /\ eventRules[firstEvent[g - 1] + n] = rs[g].eventRules[n]
  BY <1>2, EventRuleAt
<1> DEFINE refsOf(g) == [k \in 1 .. blob.groups[g].count |->
                           [group |-> g, eventRule |-> blob.groups[g].start + k]]
           ofEvent(g) == {k \in 1 .. blob.groups[g].count :
                            blob.eventRules[blob.groups[g].start + k].id = ImageLoad}
           part == [g \in DOMAIN blob.groups |-> Picked(refsOf(g), ofEvent(g))]
<1>5. ASSUME NEW g \in DOMAIN rs
      PROVE  /\ part[g] \in Seq(Refs)
             /\ \A k \in DOMAIN part[g] :
                  \E n \in DOMAIN rs[g].eventRules : IsRef(part[g][k], rs, firstEvent, g, n)
             /\ \A n \in DOMAIN rs[g].eventRules :
                  rs[g].eventRules[n].id = ImageLoad
                    => \E k \in DOMAIN part[g] : IsRef(part[g][k], rs, firstEvent, g, n)
  <2>1. PICK c : c = Len(rs[g].eventRules)
    OBVIOUS
  <2>2. PICK of : of = [k \in 1 .. c |-> [group |-> g, eventRule |-> firstEvent[g - 1] + k]]
    OBVIOUS
  <2>3. PICK chosen : chosen = {k \in 1 .. c : rs[g].eventRules[k].id = ImageLoad}
    OBVIOUS
  <2>4. c \in Nat /\ DOMAIN rs[g].eventRules = 1 .. c
    BY <1>3, <2>1
  <2>5. refsOf(g) = of /\ ofEvent(g) = chosen
    <3>1. blob.groups[g].start = firstEvent[g - 1] /\ blob.groups[g].count = c
      BY <1>2, <2>1
    <3>2. \A k \in 1 .. c : blob.eventRules[firstEvent[g - 1] + k].id = rs[g].eventRules[k].id
      BY <1>2, <1>4, <2>4
    <3> QED
      BY <2>2, <2>3, <3>1, <3>2
  <2>6. of \in Seq(Refs) /\ DOMAIN of = 1 .. c
    <3>1. \A k \in 1 .. c : [group |-> g, eventRule |-> firstEvent[g - 1] + k] \in Refs
      <4> SUFFICES ASSUME NEW k \in 1 .. c
                   PROVE  [group |-> g, eventRule |-> firstEvent[g - 1] + k] \in Refs
        OBVIOUS
      <4>1. PICK first : first = firstEvent[g - 1] /\ first \in Nat
        BY <1>4, <2>4
      <4>2. g \in Nat /\ first + k \in Nat
        BY <1>3, <2>4, <4>1
      <4> QED
        BY ONLY <4>1, <4>2 DEF Refs
    <3>2. of \in [1 .. c -> Refs]
      BY <2>2, <3>1
    <3> QED
      BY <2>4, <3>2, FunctionsAreSequences
  <2>7. part[g] = Picked(of, chosen)
    BY <1>2, <2>5
  <2> HIDE DEF part
  <2>8. part[g] \in Seq(Refs) /\ Selects(part[g], of, chosen)
    BY <2>3, <2>6, <2>7, PickedSelects
  <2>9. \A k \in chosen : IsRef(of[k], rs, firstEvent, g, k)
    BY <2>2, <2>3, <2>4 DEF IsRef
  <2>10. ASSUME NEW k \in DOMAIN part[g]
         PROVE  \E n \in DOMAIN rs[g].eventRules : IsRef(part[g][k], rs, firstEvent, g, n)
    <3>1. PICK n \in chosen : part[g][k] = of[n]
      BY <2>8 DEF Selects
    <3> QED
      BY <2>3, <2>4, <2>9, <3>1
  <2>11. ASSUME NEW n \in DOMAIN rs[g].eventRules, rs[g].eventRules[n].id = ImageLoad
         PROVE  \E k \in DOMAIN part[g] : IsRef(part[g][k], rs, firstEvent, g, n)
    <3>1. n \in chosen
      BY <2>3, <2>4, <2>11
    <3>2. PICK k \in DOMAIN part[g] : part[g][k] = of[n]
      BY <2>8, <3>1 DEF Selects
    <3> QED
      BY <2>9, <3>1, <3>2
  <2> QED
    BY <2>8, <2>10, <2>11
<1>6. refs = IF ImageLoad \in {blob.eventRules[i].id : i \in DOMAIN blob.eventRules}
             THEN FlattenSeq(part) ELSE <<>>
  BY DEF Bucket, LoadRuleRuntime
<1>7. DOMAIN part = 1 .. Len(rs)
  BY <1>1, <1>2
<1> HIDE DEF part
<1>8. CASE ImageLoad \notin {blob.eventRules[i].id : i \in DOMAIN blob.eventRules}
  <2>1. refs = <<>>
    BY <1>6, <1>8
  <2>2. ASSUME NEW g \in DOMAIN rs, NEW n \in DOMAIN rs[g].eventRules
        PROVE  rs[g].eventRules[n].id # ImageLoad
    <3>1. PICK i \in DOMAIN eventRules : eventRules[i] = rs[g].eventRules[n]
      BY <1>4
    <3>2. blob.eventRules[i].id = rs[g].eventRules[n].id /\ i \in DOMAIN blob.eventRules
      BY <1>2, <3>1
    <3> QED
      BY <1>8, <3>2
  <2> QED
    BY <2>1, <2>2, EmptySeq DEF IsBucket
<1>9. CASE ImageLoad \in {blob.eventRules[i].id : i \in DOMAIN blob.eventRules}
  <2>1. refs = FlattenSeq(part)
    BY <1>6, <1>9
  <2>2. part \in [1 .. Len(rs) -> Seq(Refs)]
    <3>1. part = [g \in DOMAIN part |-> part[g]]
      BY DEF part
    <3> QED
      BY <1>1, <1>5, <1>7, <3>1
  <2>3. refs \in Seq(Refs) /\ Gathers(refs, part, Len(rs))
    BY <1>1, <2>1, <2>2, FlattenGathers
  <2>4. PICK start : LaidOut(refs, part, start, Len(rs))
    BY <1>1, <2>1, <2>2, FlattenLaysOut
  <2>5. DOMAIN refs = 1 .. Len(refs) /\ Len(refs) \in Nat
    BY <2>3, LenProperties
  <2>6. SideBySide(part, start, Len(rs), Len(refs))
    <3>1. Len(rs) \in Nat /\ Len(refs) \in Nat
      BY <1>1, <2>5
    <3> QED
      BY ONLY <2>2, <2>4, <3>1, PartsInOrder
  <2>7. /\ \A a, b \in 0 .. Len(rs) : a <= b => start[a] <= start[b]
        /\ \A j \in 1 .. Len(refs) : \E i \in 1 .. Len(rs) : j \in Stretch(part, start, i)
    BY <2>6 DEF SideBySide
  <2>8. ASSUME NEW j \in 1 .. Len(refs), NEW g \in 1 .. Len(rs), j \in Stretch(part, start, g)
        PROVE  /\ refs[j].group = g /\ start[g - 1] < j /\ j <= start[g]
               /\ start[g - 1] \in Nat /\ start[g] \in Nat
    <3>1. g - 1 \in 0 .. Len(rs) /\ g \in 0 .. Len(rs)
      BY <1>1
    <3>2. /\ start[g - 1] \in Nat /\ start[g] \in Nat
          /\ start[g] = start[g - 1] + Len(part[g])
      BY <2>4, <3>1 DEF LaidOut
    <3>3. DOMAIN part[g] = 1 .. Len(part[g]) /\ Len(part[g]) \in Nat
      BY <2>2, LenProperties
    <3>4. PICK k \in 1 .. Len(part[g]) : j = start[g - 1] + k
      <4>1. PICK a \in Nat, l \in Nat : a = start[g - 1] /\ l = Len(part[g])
        BY <3>2, <3>3
      <4>2. j \in a + 1 .. a + l
        BY <2>8, <4>1 DEF Stretch
      <4>3. j - a \in 1 .. l /\ j = a + (j - a)
        BY ONLY <4>2, a \in Nat, l \in Nat
      <4> QED
        BY <4>1, <4>3
    <3>5. refs[j] = part[g][k]
      BY <2>4, <3>4 DEF LaidOut
    <3>6. refs[j].group = g
      <4>1. g \in DOMAIN rs /\ k \in DOMAIN part[g]
        BY <1>1, <3>3
      <4>2. PICK n : IsRef(part[g][k], rs, firstEvent, g, n)
        BY <1>5, <4>1
      <4> QED
        BY <3>5, <4>2 DEF IsRef
    <3>7. start[g - 1] < j /\ j <= start[g]
      <4>1. PICK a \in Nat, l \in Nat : a = start[g - 1] /\ l = Len(part[g])
        BY <3>2, <3>3
      <4>2. k \in 1 .. l /\ j = a + k /\ start[g] = a + l
        BY <3>2, <3>4, <4>1
      <4>3. a < a + k /\ a + k <= a + l
        BY ONLY <4>2, a \in Nat, l \in Nat
      <4> QED
        BY <4>1, <4>2, <4>3
    <3> QED
      BY <3>2, <3>6, <3>7
  <2>9. ASSUME NEW k \in 1 .. Len(refs) - 1
        PROVE  refs[k].group <= refs[k + 1].group
    <3>1. k \in 1 .. Len(refs) /\ k + 1 \in 1 .. Len(refs)
      BY <2>5
    <3>2. PICK g \in 1 .. Len(rs) : k \in Stretch(part, start, g)
      BY <2>7, <3>1
    <3>3. PICK h \in 1 .. Len(rs) : k + 1 \in Stretch(part, start, h)
      BY <2>7, <3>1
    <3>4. refs[k].group = g /\ start[g - 1] < k /\ start[g - 1] \in Nat
      BY <2>8, <3>1, <3>2
    <3>5. refs[k + 1].group = h /\ k + 1 <= start[h] /\ start[h] \in Nat
      BY <2>8, <3>1, <3>3
    <3>6. h < g => start[h] <= start[g - 1]
      <4>1. h < g => h <= g - 1
        BY <1>1
      <4>2. h \in 0 .. Len(rs) /\ g - 1 \in 0 .. Len(rs)
        BY <1>1
      <4> QED
        BY <2>7, <4>1, <4>2
    <3>7. ~(h < g)
      BY <3>4, <3>5, <3>6
    <3> QED
      BY <1>1, <3>4, <3>5, <3>7
  <2>10. ASSUME NEW k \in DOMAIN refs
        PROVE  \E g \in DOMAIN rs : \E n \in DOMAIN rs[g].eventRules :
                 IsRef(refs[k], rs, firstEvent, g, n)
    <3>1. PICK g \in 1 .. Len(rs) : \E i \in DOMAIN part[g] : refs[k] = part[g][i]
      BY <2>3 DEF Gathers
    <3>2. g \in DOMAIN rs
      BY <1>1
    <3> QED
      BY <1>5, <3>1, <3>2
  <2>11. ASSUME NEW g \in DOMAIN rs, NEW n \in DOMAIN rs[g].eventRules,
                rs[g].eventRules[n].id = ImageLoad
         PROVE  \E k \in DOMAIN refs : IsRef(refs[k], rs, firstEvent, g, n)
    <3>1. PICK i \in DOMAIN part[g] : IsRef(part[g][i], rs, firstEvent, g, n)
      BY <1>5, <2>11
    <3>2. PICK k \in DOMAIN refs : refs[k] = part[g][i]
      BY <1>1, <2>3 DEF Gathers
    <3> QED
      BY <3>1, <3>2
  <2> QED
    BY <2>3, <2>9, <2>10, <2>11 DEF IsBucket
<1> QED
  BY <1>8, <1>9

\* The members of part are the c places after a.
MembersAre(part, a, c) ==
    /\ \A k \in 1 .. c : a + k \in Members(part)
    /\ \A x \in Members(part) : \E k \in 1 .. c : x = a + k

\* The members of a part, by their places in it.
LEMMA MembersAt ==
    ASSUME NEW part, NEW a \in Nat, NEW c \in Nat, part.start = a, part.count = c
    PROVE  MembersAre(part, a, c)
<1>1. Members(part) = a + 1 .. a + c
  BY DEF Members
<1>2. ASSUME NEW x \in Members(part) PROVE \E k \in 1 .. c : x = a + k
  <2>1. x - a \in 1 .. c /\ x = a + (x - a)
    BY <1>1
  <2> QED
    BY <2>1
<1>3. \A k \in 1 .. c : a + k \in Members(part)
  BY <1>1
<1> QED
  BY <1>2, <1>3 DEF MembersAre

-----------------------------------------------------------------------------
(* What the parsed rules say of an event with every field filled in.       *)

\* An expression, a rule and an event rule, read from the rule set.
FieldHolds(e) == ~e.blank /\ e.full

RuleHolds(rule) ==
    \/ rule.expressions = <<>>
    \/ Combined(rule.relation, DOMAIN rule.expressions,
                {x \in DOMAIN rule.expressions : FieldHolds(rule.expressions[x])})

ElementHolds(eventRule) ==
    \/ eventRule.rules = <<>>
    \/ Combined(eventRule.relation, DOMAIN eventRule.rules,
                {r \in DOMAIN eventRule.rules : RuleHolds(eventRule.rules[r])})

\* The driver reads the same from the runtime.
LEMMA DriverReadsExpression ==
    ASSUME NEW e \in Expressions
    PROVE  DriverExpression(e, Kinds) <=> FieldHolds(e)
BY ExpressionShape DEF DriverExpression, Holds, FieldHolds

LEMMA DriverReadsRule ==
    ASSUME NEW rs \in Seq(RuleGroups), NEW eventRules \in Seq(EventRules),
           NEW rules \in Seq(ParsedRules), NEW firstEvent, NEW firstRule, NEW firstExpression,
           NEW blob, blob.expressions \in Seq(Expressions),
           IsBlob(blob, rs, eventRules, rules, firstEvent, firstRule, firstExpression),
           NEW rt, rt = LoadRuleRuntime(blob), NEW i \in DOMAIN rules
    PROVE  DriverRule(rt, i, Kinds) <=> RuleHolds(rules[i])
<1>1. rt.rules = blob.rules /\ rt.expressions = blob.expressions
  BY DEF LoadRuleRuntime
<1>2. PICK parts : parts = [j \in DOMAIN rules |-> rules[j].expressions]
  OBVIOUS
<1>3. /\ DOMAIN rules = 1 .. Len(rules) /\ Len(rules) \in Nat
      /\ parts \in [1 .. Len(rules) -> Seq(Expressions)]
      /\ LaidOut(blob.expressions, parts, firstExpression, Len(rules))
  <2>1. DOMAIN rules = 1 .. Len(rules) /\ Len(rules) \in Nat
    BY LenProperties
  <2>2. \A j \in DOMAIN rules : rules[j] \in ParsedRules
    BY <2>1, ElementOfSeq
  <2>3. \A j \in DOMAIN rules : rules[j].expressions \in Seq(Expressions)
    BY <2>2 DEF ParsedRules
  <2> QED
    BY <1>2, <2>1, <2>3 DEF IsBlob
<1>4. PICK exps : exps = rules[i].expressions
  OBVIOUS
<1>5. exps = parts[i] /\ exps \in Seq(Expressions)
  BY <1>2, <1>3, <1>4
<1>6. PICK a, c : a = firstExpression[i - 1] /\ c = Len(exps)
  OBVIOUS
<1>7. /\ a \in Nat /\ c \in Nat /\ DOMAIN exps = 1 .. c
      /\ \A k \in 1 .. c : a + k \in DOMAIN blob.expressions /\ blob.expressions[a + k] = exps[k]
  <2>1. i \in 1 .. Len(rules) /\ Len(rules) \in Nat /\ c = Len(parts[i])
    BY <1>3, <1>5, <1>6
  <2>2. LiesAt(blob.expressions, parts[i], a, c)
    BY ONLY <1>3, <1>6, <2>1, blob.expressions \in Seq(Expressions), PartAt
  <2> QED
    BY <1>5, <2>2 DEF LiesAt
<1>8. /\ rt.rules[i].relation = rules[i].relation
      /\ rt.rules[i].start = a /\ rt.rules[i].count = c
  BY <1>1, <1>4, <1>6 DEF IsBlob
<1>9. /\ \A k \in 1 .. c : a + k \in Members(rt.rules[i])
      /\ \A x \in Members(rt.rules[i]) : \E k \in 1 .. c : x = a + k
  <2>1. MembersAre(rt.rules[i], a, c)
    BY <1>7, <1>8, MembersAt
  <2> QED
    BY <2>1 DEF MembersAre
<1>10. \A k \in 1 .. c : DriverExpression(rt.expressions[a + k], Kinds) <=> FieldHolds(exps[k])
  <2>1. \A k \in 1 .. c : exps[k] \in Expressions
    BY <1>5, <1>7, ElementOfSeq
  <2> QED
    BY <1>1, <1>7, <2>1, DriverReadsExpression
<1>11. c = 0 <=> exps = <<>>
  BY <1>5, <1>6, EmptySeq
<1>12. /\ (\A x \in Members(rt.rules[i]) : DriverExpression(rt.expressions[x], Kinds))
            <=> (\A k \in DOMAIN exps : FieldHolds(exps[k]))
       /\ (\E x \in Members(rt.rules[i]) : DriverExpression(rt.expressions[x], Kinds))
            <=> (\E k \in DOMAIN exps : FieldHolds(exps[k]))
  BY <1>7, <1>9, <1>10
<1> QED
  BY <1>4, <1>8, <1>11, <1>12 DEF DriverRule, RuleHolds, Combined

LEMMA DriverReadsElement ==
    ASSUME NEW rs \in Seq(RuleGroups), NEW eventRules \in Seq(EventRules),
           NEW rules \in Seq(ParsedRules), NEW firstEvent, NEW firstRule, NEW firstExpression,
           NEW blob, blob.expressions \in Seq(Expressions),
           IsBlob(blob, rs, eventRules, rules, firstEvent, firstRule, firstExpression),
           NEW rt, rt = LoadRuleRuntime(blob), NEW i \in DOMAIN eventRules
    PROVE  DriverEventRule(rt, i, Kinds) <=> ElementHolds(eventRules[i])
<1>1. rt.eventRules = blob.eventRules
  BY DEF LoadRuleRuntime
<1>2. PICK parts : parts = [j \in DOMAIN eventRules |-> eventRules[j].rules]
  OBVIOUS
<1>3. /\ DOMAIN eventRules = 1 .. Len(eventRules) /\ Len(eventRules) \in Nat
      /\ parts \in [1 .. Len(eventRules) -> Seq(ParsedRules)]
      /\ LaidOut(rules, parts, firstRule, Len(eventRules))
  <2>1. DOMAIN eventRules = 1 .. Len(eventRules) /\ Len(eventRules) \in Nat
    BY LenProperties
  <2>2. \A j \in DOMAIN eventRules : eventRules[j] \in EventRules
    BY <2>1, ElementOfSeq
  <2>3. \A j \in DOMAIN eventRules : eventRules[j].rules \in Seq(ParsedRules)
    BY <2>2 DEF EventRules
  <2> QED
    BY <1>2, <2>1, <2>3 DEF IsBlob
<1>4. PICK own : own = eventRules[i].rules
  OBVIOUS
<1>5. own = parts[i] /\ own \in Seq(ParsedRules)
  BY <1>2, <1>3, <1>4
<1>6. PICK a, c : a = firstRule[i - 1] /\ c = Len(own)
  OBVIOUS
<1>7. /\ a \in Nat /\ c \in Nat /\ DOMAIN own = 1 .. c
      /\ \A k \in 1 .. c : a + k \in DOMAIN rules /\ rules[a + k] = own[k]
  <2>1. i \in 1 .. Len(eventRules) /\ Len(eventRules) \in Nat /\ c = Len(parts[i])
    BY <1>3, <1>5, <1>6
  <2>2. LiesAt(rules, parts[i], a, c)
    BY ONLY <1>3, <1>6, <2>1, rules \in Seq(ParsedRules), PartAt
  <2> QED
    BY <1>5, <2>2 DEF LiesAt
<1>8. /\ rt.eventRules[i].relation = eventRules[i].relation
      /\ rt.eventRules[i].start = a /\ rt.eventRules[i].count = c
  BY <1>1, <1>4, <1>6 DEF IsBlob
<1>9. /\ \A k \in 1 .. c : a + k \in Members(rt.eventRules[i])
      /\ \A x \in Members(rt.eventRules[i]) : \E k \in 1 .. c : x = a + k
  <2>1. MembersAre(rt.eventRules[i], a, c)
    BY <1>7, <1>8, MembersAt
  <2> QED
    BY <2>1 DEF MembersAre
<1>10. \A k \in 1 .. c : DriverRule(rt, a + k, Kinds) <=> RuleHolds(own[k])
  <2>1. ASSUME NEW k \in 1 .. c PROVE DriverRule(rt, a + k, Kinds) <=> RuleHolds(own[k])
    <3>1. PICK j \in DOMAIN rules : j = a + k
      BY <1>7
    <3>2. DriverRule(rt, j, Kinds) <=> RuleHolds(rules[j])
      BY DriverReadsRule
    <3> QED
      BY <1>7, <3>1, <3>2
  <2> QED
    BY <2>1
<1>11. c = 0 <=> own = <<>>
  BY <1>5, <1>6, EmptySeq
<1>12. /\ (\A x \in Members(rt.eventRules[i]) : DriverRule(rt, x, Kinds))
            <=> (\A k \in DOMAIN own : RuleHolds(own[k]))
       /\ (\E x \in Members(rt.eventRules[i]) : DriverRule(rt, x, Kinds))
            <=> (\E k \in DOMAIN own : RuleHolds(own[k]))
  BY <1>7, <1>9, <1>10
<1> QED
  BY <1>4, <1>8, <1>11, <1>12 DEF DriverEventRule, ElementHolds, Combined

\* The references of a bucket to the event rules of a group with a match type.
ChosenRefs(rt, refs, g, match) ==
    {k \in DOMAIN refs :
       refs[k].group = g /\ rt.eventRules[refs[k].eventRule].match = match}

\* What DriverGroup folds up.
LEMMA DriverGroupIs ==
    ASSUME NEW rt, NEW refs \in Seq(Refs), NEW g, NEW match, NEW have, NEW chosen,
           chosen = ChosenRefs(rt, refs, g, match)
    PROVE  /\ DriverGroup(rt, refs, g, match, have).has <=> chosen # {}
           /\ DriverGroup(rt, refs, g, match, have).matched
                <=> /\ chosen # {}
                    /\ IF rt.groups[g].relation = "and"
                       THEN \A k \in chosen : DriverEventRule(rt, refs[k].eventRule, have)
                       ELSE \E k \in chosen : DriverEventRule(rt, refs[k].eventRule, have)
<1>1. PICK hit : hit = [x \in Refs |-> DriverEventRule(rt, x.eventRule, have)]
  OBVIOUS
<1>2. hit \in [Refs -> BOOLEAN]
  <2>1. \A x \in Refs : DriverEventRule(rt, x.eventRule, have) \in BOOLEAN
    BY DEF DriverEventRule
  <2> QED
    BY <1>1, <2>1
<1>3. PICK mine : mine = Picked(refs, chosen)
  OBVIOUS
<1>4. PICK matches : matches = [k \in DOMAIN mine |-> hit[mine[k]]]
  OBVIOUS
<1>5. chosen \subseteq DOMAIN refs
  BY DEF ChosenRefs
<1>6. PICK hits, relation, verdict :
        /\ hits = [k \in DOMAIN refs |-> hit[refs[k]]]
        /\ relation = rt.groups[g].relation
        /\ verdict = GroupVerdict(relation, matches)
  OBVIOUS
<1>7. IsVerdictOn(verdict, relation, chosen, hits)
  BY ONLY <1>2, <1>3, <1>4, <1>5, <1>6, refs \in Seq(Refs), VerdictOfPicked
<1>8. mine \in Seq(Refs)
  BY <1>3, <1>5, PickedSelects
<1>9. matches = [k \in DOMAIN mine |-> DriverEventRule(rt, mine[k].eventRule, have)]
  <2>1. \A k \in DOMAIN mine : mine[k] \in Refs
    BY <1>8, ElementOfSeq, LenProperties
  <2>2. \A k \in DOMAIN mine : hit[mine[k]] = DriverEventRule(rt, mine[k].eventRule, have)
    BY <1>1, <2>1
  <2> QED
    BY <1>4, <2>2
<1>10. DriverGroup(rt, refs, g, match, have) = verdict
  BY <1>3, <1>6, <1>9 DEF DriverGroup, ChosenRefs
<1>11. \A k \in chosen : hits[k] <=> DriverEventRule(rt, refs[k].eventRule, have)
  <2>1. \A k \in chosen : refs[k] \in Refs
    BY <1>5, ElementOfSeq, LenProperties
  <2> QED
    BY <1>1, <1>5, <1>6, <2>1
<1> QED
  BY <1>6, <1>7, <1>10, <1>11 DEF AnyOrAllOf, IsVerdictOn

-----------------------------------------------------------------------------
(* A producer that is switched off.  The switch follows from the same      *)
(* rules, so an event that nobody produced would not have been logged.     *)

\* SwitchedOffHasNothingToLog is about rules alone.
LEMMA SwitchedOffIsSilent ==
    ASSUME XmlTyped
    PROVE  SwitchedOffHasNothingToLog
<1>1. PICK rs \in Seq(RuleGroups) :
        /\ rs = RuleSet
        /\ \A g \in DOMAIN rs : \E h \in Kept : rs[g] = GroupOf(xml[h])
  BY RuleSetOfFile
<1>2. PICK blob : blob = Serialize(rs)
  OBVIOUS
<1>3. PICK eventRules \in Seq(EventRules), rules \in Seq(ParsedRules) :
        \E firstEvent, firstRule, firstExpression :
          IsBlob(blob, rs, eventRules, rules, firstEvent, firstRule, firstExpression)
  BY <1>2, BlobOfRules
<1>4. PICK firstEvent, firstRule, firstExpression :
        IsBlob(blob, rs, eventRules, rules, firstEvent, firstRule, firstExpression)
  BY <1>3
<1>5. PICK rt : rt = LoadRuleRuntime(blob)
  OBVIOUS
<1>6. Runtime = rt
  BY <1>1, <1>2, <1>5 DEF Runtime
<1>7. PICK refs : refs = Bucket(rt, ImageLoad)
  OBVIOUS
<1>8. refs \in Seq(Refs) /\ IsBucket(refs, rs, firstEvent)
  BY <1>4, <1>5, <1>7, BucketOfBlob
<1> SUFFICES ASSUME \A g \in DOMAIN rs : ~ExcludesLess(rs[g]),
                    ~DriverCanProduceLogs(rt, ImageLoad), NEW have \in SUBSET Kinds
             PROVE  ~DriverCapture(rt, ImageLoad, have)
  BY <1>1, <1>6 DEF SwitchedOffHasNothingToLog
<1>9. ASSUME NEW k \in DOMAIN refs
      PROVE  /\ refs[k].group \in DOMAIN rs
             /\ rt.groups[refs[k].group].relation = rs[refs[k].group].relation
             /\ \E n \in DOMAIN rs[refs[k].group].eventRules :
                  LET e == rs[refs[k].group].eventRules[n]
                  IN /\ e.id = ImageLoad
                     /\ rt.eventRules[refs[k].eventRule].match = e.match
                     /\ rt.eventRules[refs[k].eventRule].count = 0 <=> e.rules = <<>>
  <2>1. PICK g \in DOMAIN rs : \E n \in DOMAIN rs[g].eventRules : IsRef(refs[k], rs, firstEvent, g, n)
    BY <1>8 DEF IsBucket
  <2>2. PICK n \in DOMAIN rs[g].eventRules : IsRef(refs[k], rs, firstEvent, g, n)
    BY <2>1
  <2>3. PICK i : i = firstEvent[g - 1] + n
    OBVIOUS
  <2>4. refs[k].group = g /\ refs[k].eventRule = i /\ rs[g].eventRules[n].id = ImageLoad
    BY <2>2, <2>3 DEF IsRef
  <2>5. i \in DOMAIN eventRules /\ eventRules[i] = rs[g].eventRules[n]
    <3>1. LaidOut(eventRules, [h \in DOMAIN rs |-> rs[h].eventRules], firstEvent, Len(rs))
      BY <1>4 DEF IsBlob
    <3> QED
      BY <2>3, <3>1, EventRuleAt
  <2>6. rt.groups = blob.groups /\ rt.eventRules = blob.eventRules
    BY <1>5 DEF LoadRuleRuntime
  <2>7. /\ rt.groups[g].relation = rs[g].relation
        /\ rt.eventRules[i].match = eventRules[i].match
        /\ rt.eventRules[i].count = Len(eventRules[i].rules)
    BY <1>4, <2>5, <2>6 DEF IsBlob
  <2>8. Len(eventRules[i].rules) = 0 <=> eventRules[i].rules = <<>>
    <3>1. eventRules[i] \in EventRules
      BY <2>5, ElementOfSeq, LenProperties
    <3>2. eventRules[i].rules \in Seq(ParsedRules)
      BY <3>1 DEF EventRules
    <3> QED
      BY <3>2, EmptySeq
  <2> QED
    BY <2>4, <2>5, <2>7, <2>8
<1>10. CASE refs = <<>>
  BY <1>7, <1>10 DEF DriverCapture
<1>11. CASE refs # <<>>
  <2>1. PICK k \in DOMAIN refs : /\ rt.eventRules[refs[k].eventRule].match = "exclude"
                                 /\ rt.eventRules[refs[k].eventRule].count = 0
    BY <1>7, <1>11 DEF DriverCanProduceLogs
  <2>2. DriverEventRule(rt, refs[k].eventRule, have)
    BY <2>1 DEF DriverEventRule
  <2>3. PICK g : g = refs[k].group
    OBVIOUS
  <2>4. g \in DOMAIN rs /\ rt.groups[g].relation = rs[g].relation
    BY <1>9, <2>3
  <2>5. ASSUME NEW j \in ChosenRefs(rt, refs, g, "exclude"), rt.groups[g].relation = "and"
        PROVE  DriverEventRule(rt, refs[j].eventRule, have)
    <3>1. PICK m \in DOMAIN rs[g].eventRules :
            /\ rs[g].eventRules[m].id = ImageLoad /\ rs[g].eventRules[m].match = "exclude"
            /\ rs[g].eventRules[m].rules = <<>>
      BY <1>9, <2>1, <2>3
    <3>2. /\ j \in DOMAIN refs /\ refs[j].group = g
          /\ rt.eventRules[refs[j].eventRule].match = "exclude"
      BY DEF ChosenRefs
    <3>3. PICK n \in DOMAIN rs[g].eventRules :
            /\ rs[g].eventRules[n].id = ImageLoad /\ rs[g].eventRules[n].match = "exclude"
            /\ rt.eventRules[refs[j].eventRule].count = 0 <=> rs[g].eventRules[n].rules = <<>>
      BY <1>9, <3>2
    <3>4. rs[g].relation = "and" /\ ~ExcludesLess(rs[g])
      BY <2>4, <2>5
    <3>5. rs[g].eventRules[n].rules = <<>>
      BY <3>1, <3>3, <3>4 DEF ExcludesLess
    <3> QED
      BY <3>3, <3>5 DEF DriverEventRule
  <2>6. k \in ChosenRefs(rt, refs, g, "exclude")
    BY <2>1, <2>3 DEF ChosenRefs
  <2>7. DriverGroup(rt, refs, g, "exclude", have).matched
    BY <1>8, <2>2, <2>5, <2>6, DriverGroupIs
  <2> QED
    BY <1>7, <2>3, <2>7 DEF DriverCapture
<1> QED
  BY <1>10, <1>11

\* The event rules of a group for a match type, and its verdict on an image
\* load with every field filled in.
ElementsOf(group, match) ==
    {n \in DOMAIN group.eventRules :
       group.eventRules[n].id = ImageLoad /\ group.eventRules[n].match = match}

GroupHits(group, match) ==
    /\ ElementsOf(group, match) # {}
    /\ IF group.relation = "and"
       THEN \A n \in ElementsOf(group, match) : ElementHolds(group.eventRules[n])
       ELSE \E n \in ElementsOf(group, match) : ElementHolds(group.eventRules[n])

\* The driver's verdict of a group of the runtime is that of the parsed group.
LEMMA DriverReadsGroup ==
    ASSUME NEW rs \in Seq(RuleGroups), NEW eventRules \in Seq(EventRules),
           NEW rules \in Seq(ParsedRules), NEW firstEvent, NEW firstRule, NEW firstExpression,
           NEW blob, blob.expressions \in Seq(Expressions),
           IsBlob(blob, rs, eventRules, rules, firstEvent, firstRule, firstExpression),
           NEW rt, rt = LoadRuleRuntime(blob), NEW refs, refs = Bucket(rt, ImageLoad),
           NEW g \in DOMAIN rs, NEW match, NEW verdict,
           verdict = DriverGroup(rt, refs, g, match, Kinds)
    PROVE  /\ verdict.has <=> ElementsOf(rs[g], match) # {}
           /\ verdict.matched <=> GroupHits(rs[g], match)
           /\ verdict.has => \E k \in DOMAIN refs : refs[k].group = g
<1>1. refs \in Seq(Refs) /\ IsBucket(refs, rs, firstEvent)
  BY BucketOfBlob
<1>2. PICK chosen : chosen = ChosenRefs(rt, refs, g, match)
  OBVIOUS
<1>3. /\ verdict.has <=> chosen # {}
      /\ verdict.matched
           <=> /\ chosen # {}
               /\ IF rt.groups[g].relation = "and"
                  THEN \A k \in chosen : DriverEventRule(rt, refs[k].eventRule, Kinds)
                  ELSE \E k \in chosen : DriverEventRule(rt, refs[k].eventRule, Kinds)
  BY <1>1, <1>2, DriverGroupIs
<1>4. rt.groups = blob.groups /\ rt.eventRules = blob.eventRules
  BY DEF LoadRuleRuntime
<1>5. rt.groups[g].relation = rs[g].relation
  BY <1>4 DEF IsBlob
<1>6. ASSUME NEW k, NEW n, IsRef(refs[k], rs, firstEvent, g, n)
      PROVE  /\ n \in DOMAIN rs[g].eventRules /\ rs[g].eventRules[n].id = ImageLoad
             /\ refs[k].group = g
             /\ rt.eventRules[refs[k].eventRule].match = rs[g].eventRules[n].match
             /\ DriverEventRule(rt, refs[k].eventRule, Kinds) <=> ElementHolds(rs[g].eventRules[n])
  <2>1. /\ n \in DOMAIN rs[g].eventRules /\ rs[g].eventRules[n].id = ImageLoad
        /\ refs[k].group = g /\ refs[k].eventRule = firstEvent[g - 1] + n
    BY <1>6 DEF IsRef
  <2>2. PICK i : i = firstEvent[g - 1] + n
    OBVIOUS
  <2>3. i \in DOMAIN eventRules /\ eventRules[i] = rs[g].eventRules[n]
    <3>1. LaidOut(eventRules, [h \in DOMAIN rs |-> rs[h].eventRules], firstEvent, Len(rs))
      BY DEF IsBlob
    <3> QED
      BY <2>1, <2>2, <3>1, EventRuleAt
  <2>4. rt.eventRules[i].match = eventRules[i].match
    BY <1>4, <2>3 DEF IsBlob
  <2>5. DriverEventRule(rt, i, Kinds) <=> ElementHolds(eventRules[i])
    BY <2>3, DriverReadsElement
  <2> QED
    BY <2>1, <2>2, <2>3, <2>4, <2>5
<1>7. ASSUME NEW k \in chosen
      PROVE  \E n \in ElementsOf(rs[g], match) :
               DriverEventRule(rt, refs[k].eventRule, Kinds) <=> ElementHolds(rs[g].eventRules[n])
  <2>1. /\ k \in DOMAIN refs /\ refs[k].group = g
        /\ rt.eventRules[refs[k].eventRule].match = match
    BY <1>2 DEF ChosenRefs
  <2>2. PICK h \in DOMAIN rs : \E n \in DOMAIN rs[h].eventRules : IsRef(refs[k], rs, firstEvent, h, n)
    BY <1>1, <2>1 DEF IsBucket
  <2>3. PICK n \in DOMAIN rs[h].eventRules : IsRef(refs[k], rs, firstEvent, h, n)
    BY <2>2
  <2>4. h = g
    BY <2>1, <2>3 DEF IsRef
  <2>5. IsRef(refs[k], rs, firstEvent, g, n)
    BY <2>3, <2>4
  <2>6. /\ n \in DOMAIN rs[g].eventRules /\ rs[g].eventRules[n].id = ImageLoad
        /\ rt.eventRules[refs[k].eventRule].match = rs[g].eventRules[n].match
        /\ DriverEventRule(rt, refs[k].eventRule, Kinds) <=> ElementHolds(rs[g].eventRules[n])
    BY <1>6, <2>5
  <2>7. n \in ElementsOf(rs[g], match)
    BY <2>1, <2>6 DEF ElementsOf
  <2> QED
    BY <2>6, <2>7
<1>8. ASSUME NEW n \in ElementsOf(rs[g], match)
      PROVE  \E k \in chosen :
               DriverEventRule(rt, refs[k].eventRule, Kinds) <=> ElementHolds(rs[g].eventRules[n])
  <2>1. /\ n \in DOMAIN rs[g].eventRules /\ rs[g].eventRules[n].id = ImageLoad
        /\ rs[g].eventRules[n].match = match
    BY DEF ElementsOf
  <2>2. PICK k \in DOMAIN refs : IsRef(refs[k], rs, firstEvent, g, n)
    BY <1>1, <2>1 DEF IsBucket
  <2>3. refs[k].group = g
    BY <2>2 DEF IsRef
  <2>4. /\ rt.eventRules[refs[k].eventRule].match = rs[g].eventRules[n].match
        /\ DriverEventRule(rt, refs[k].eventRule, Kinds) <=> ElementHolds(rs[g].eventRules[n])
    BY ONLY <1>6, <2>2, k \in DOMAIN refs
  <2>5. k \in chosen
    BY <1>2, <2>1, <2>3, <2>4 DEF ChosenRefs
  <2> QED
    BY <2>4, <2>5
<1>9. chosen # {} <=> ElementsOf(rs[g], match) # {}
  BY <1>7, <1>8
<1>10. chosen # {} => \E k \in DOMAIN refs : refs[k].group = g
  BY <1>2 DEF ChosenRefs
<1>11. /\ (\A k \in chosen : DriverEventRule(rt, refs[k].eventRule, Kinds))
            <=> (\A n \in ElementsOf(rs[g], match) : ElementHolds(rs[g].eventRules[n]))
       /\ (\E k \in chosen : DriverEventRule(rt, refs[k].eventRule, Kinds))
            <=> (\E n \in ElementsOf(rs[g], match) : ElementHolds(rs[g].eventRules[n]))
  BY <1>7, <1>8
<1> QED
  BY <1>3, <1>5, <1>9, <1>10, <1>11 DEF GroupHits

\* What the driver captures, told by the parsed groups.
LEMMA DriverReadsRules ==
    ASSUME NEW rs \in Seq(RuleGroups), NEW blob, blob = Serialize(rs),
           NEW rt, rt = LoadRuleRuntime(blob)
    PROVE  /\ DriverAccepts(blob)
           /\ DriverCapture(rt, ImageLoad, Kinds)
                <=> /\ \E g \in DOMAIN rs : \E n \in DOMAIN rs[g].eventRules :
                         rs[g].eventRules[n].id = ImageLoad
                    /\ \A g \in DOMAIN rs : ~GroupHits(rs[g], "exclude")
                    /\ \/ \A g \in DOMAIN rs : ElementsOf(rs[g], "include") = {}
                       \/ \E g \in DOMAIN rs : GroupHits(rs[g], "include")
<1>1. PICK eventRules \in Seq(EventRules), rules \in Seq(ParsedRules) :
        \E firstEvent, firstRule, firstExpression :
          /\ IsBlob(blob, rs, eventRules, rules, firstEvent, firstRule, firstExpression)
          /\ blob.expressions \in Seq(Expressions)
  BY BlobOfRules
<1>2. PICK firstEvent, firstRule, firstExpression :
        /\ IsBlob(blob, rs, eventRules, rules, firstEvent, firstRule, firstExpression)
        /\ blob.expressions \in Seq(Expressions)
  BY <1>1
<1>3. DriverAccepts(blob)
  BY <1>2, BlobIsAccepted
<1>4. PICK refs : refs = Bucket(rt, ImageLoad)
  OBVIOUS
<1>5. refs \in Seq(Refs) /\ IsBucket(refs, rs, firstEvent)
  BY <1>2, <1>4, BucketOfBlob
<1> DEFINE verdict(g, match) == DriverGroup(rt, refs, g, match, Kinds)
<1>6. ASSUME NEW g \in DOMAIN rs, NEW match
      PROVE  /\ verdict(g, match).has <=> ElementsOf(rs[g], match) # {}
             /\ verdict(g, match).matched <=> GroupHits(rs[g], match)
             /\ verdict(g, match).has => \E k \in DOMAIN refs : refs[k].group = g
  BY <1>2, <1>4, DriverReadsGroup
<1>7. PICK groups : groups = {refs[k].group : k \in DOMAIN refs}
  OBVIOUS
<1>8. DriverCapture(rt, ImageLoad, Kinds)
        <=> /\ refs # <<>>
            /\ \A k \in 1 .. Len(refs) - 1 : refs[k].group <= refs[k + 1].group
            /\ \A g \in groups : ~verdict(g, "exclude").matched
            /\ \/ \A g \in groups : ~verdict(g, "include").has
               \/ \E g \in groups : verdict(g, "include").matched
  BY <1>4, <1>7 DEF DriverCapture
<1> HIDE DEF verdict
<1>9. groups \subseteq DOMAIN rs
  <2>1. ASSUME NEW k \in DOMAIN refs PROVE refs[k].group \in DOMAIN rs
    <3>1. PICK h \in DOMAIN rs : \E n \in DOMAIN rs[h].eventRules : IsRef(refs[k], rs, firstEvent, h, n)
      BY <1>5 DEF IsBucket
    <3> QED
      BY <3>1 DEF IsRef
  <2> QED
    BY <1>7, <2>1
<1>10. ASSUME NEW g \in DOMAIN rs, NEW match, g \notin groups
       PROVE  ElementsOf(rs[g], match) = {} /\ ~GroupHits(rs[g], match)
  <2>1. ElementsOf(rs[g], match) = {}
    BY <1>6, <1>7, <1>10
  <2> QED
    BY <2>1 DEF GroupHits
<1>11. refs # <<>> <=> \E g \in DOMAIN rs : \E n \in DOMAIN rs[g].eventRules :
                         rs[g].eventRules[n].id = ImageLoad
  <2>1. ASSUME refs # <<>>
        PROVE  \E g \in DOMAIN rs : \E n \in DOMAIN rs[g].eventRules :
                 rs[g].eventRules[n].id = ImageLoad
    <3>1. PICK k \in DOMAIN refs : TRUE
      BY <1>5, <2>1, LastOfSeq
    <3>2. PICK h \in DOMAIN rs : \E n \in DOMAIN rs[h].eventRules : IsRef(refs[k], rs, firstEvent, h, n)
      BY <1>5 DEF IsBucket
    <3> QED
      BY <3>2 DEF IsRef
  <2>2. ASSUME NEW g \in DOMAIN rs, NEW n \in DOMAIN rs[g].eventRules,
               rs[g].eventRules[n].id = ImageLoad
        PROVE  refs # <<>>
    <3>1. PICK k \in DOMAIN refs : TRUE
      BY <1>5, <2>2 DEF IsBucket
    <3> QED
      BY <3>1
  <2> QED
    BY <2>1, <2>2
<1>12. \A k \in 1 .. Len(refs) - 1 : refs[k].group <= refs[k + 1].group
  BY <1>5 DEF IsBucket
<1>13. (\A g \in groups : ~verdict(g, "exclude").matched)
         <=> (\A g \in DOMAIN rs : ~GroupHits(rs[g], "exclude"))
  BY <1>6, <1>9, <1>10
<1>14. (\A g \in groups : ~verdict(g, "include").has)
         <=> (\A g \in DOMAIN rs : ElementsOf(rs[g], "include") = {})
  BY <1>6, <1>9, <1>10
<1>15. (\E g \in groups : verdict(g, "include").matched)
         <=> (\E g \in DOMAIN rs : GroupHits(rs[g], "include"))
  BY <1>6, <1>9, <1>10
<1> QED
  BY <1>3, <1>8, <1>11, <1>12, <1>13, <1>14, <1>15

-----------------------------------------------------------------------------
(* The file.  What the driver reads, carried back from the runtime to the  *)
(* rule set and from there to the elements of the file.                    *)

\* An event element, read from the file.
NodeHit(node) ==
    LET byFields == Combined(node.relation, FieldsOf(node),
                             {c \in FieldsOf(node) : FieldHolds(node.children[c].expressions[1])})
        byRule(c) ==
          \/ node.children[c].expressions = <<>>
          \/ Combined(node.children[c].relation, DOMAIN node.children[c].expressions,
                      {x \in DOMAIN node.children[c].expressions :
                         FieldHolds(node.children[c].expressions[x])})
    IN IF node.relation = "and"
       THEN byFields /\ \A c \in DOMAIN node.children \ FieldsOf(node) : byRule(c)
       ELSE \/ node.children = <<>>
            \/ byFields
            \/ \E c \in DOMAIN node.children \ FieldsOf(node) : byRule(c)

\* It means what its event rule does.
LEMMA ElementMeansNode ==
    ASSUME NEW node \in EventElements
    PROVE  ElementHolds(EventRuleOf(node)) <=> NodeHit(node)
<1>1. PICK rules, own :
        /\ rules = EventRuleOf(node).rules
        /\ IsOwnRule(own, node) /\ AreRulesOf(rules, node, own)
  BY EventRuleOfNode
<1>2. rules \in Seq(ParsedRules) /\ EventRuleOf(node).relation = node.relation
  BY <1>1, EventRuleOfNode DEF EventRules
<1>3. PICK children \in Seq(FieldElements \cup RuleTags) : children = node.children
  BY DEF EventElements
<1>4. /\ NestedOf(node) = DOMAIN children \ FieldsOf(node)
      /\ FieldsOf(node) \subseteq DOMAIN children
  <2>1. \A c \in DOMAIN children : children[c].tag \in {"field", "rule"}
    <3>1. \A c \in DOMAIN children : children[c] \in FieldElements \cup RuleTags
      BY ElementOfSeq, LenProperties
    <3> QED
      BY <3>1 DEF FieldElements, RuleTags
  <2> QED
    BY <1>3, <2>1 DEF NestedOf, FieldsOf
<1> DEFINE byFields == IF node.relation = "and"
                       THEN \A c \in FieldsOf(node) : FieldHolds(children[c].expressions[1])
                       ELSE \E c \in FieldsOf(node) : FieldHolds(children[c].expressions[1])
           byRule(c) == RuleHolds(AsRule(children[c]))
<1>5. FieldsOf(node) # {} => (RuleHolds(own) <=> byFields)
  <2>1. PICK exps \in Seq(Expressions) : exps = own.expressions
    BY <1>1 DEF IsOwnRule, ParsedRules
  <2>2. own.relation = node.relation
    BY <1>1 DEF IsOwnRule
  <2>3. /\ \A x \in DOMAIN exps : \E c \in FieldsOf(node) : exps[x] = children[c].expressions[1]
        /\ \A c \in FieldsOf(node) : \E x \in DOMAIN exps : exps[x] = children[c].expressions[1]
    BY <1>1, <1>3, <2>1 DEF IsOwnRule
  <2>4. FieldsOf(node) # {} => exps # <<>>
    BY <2>3
  <2>5. /\ (\A x \in DOMAIN exps : FieldHolds(exps[x]))
             <=> (\A c \in FieldsOf(node) : FieldHolds(children[c].expressions[1]))
        /\ (\E x \in DOMAIN exps : FieldHolds(exps[x]))
             <=> (\E c \in FieldsOf(node) : FieldHolds(children[c].expressions[1]))
    BY <2>3
  <2> QED
    BY <2>1, <2>2, <2>4, <2>5 DEF RuleHolds, Combined
<1>6. NodeHit(node) <=>
        IF node.relation = "and" THEN byFields /\ \A c \in NestedOf(node) : byRule(c)
        ELSE children = <<>> \/ byFields \/ \E c \in NestedOf(node) : byRule(c)
  <2>1. byFields <=> Combined(node.relation, FieldsOf(node),
                       {c \in FieldsOf(node) : FieldHolds(node.children[c].expressions[1])})
    BY <1>3 DEF Combined
  <2>2. \A c : byRule(c) <=>
          \/ node.children[c].expressions = <<>>
          \/ Combined(node.children[c].relation, DOMAIN node.children[c].expressions,
                      {x \in DOMAIN node.children[c].expressions :
                         FieldHolds(node.children[c].expressions[x])})
    BY <1>3 DEF RuleHolds, AsRule
  <2> HIDE DEF byFields, byRule
  <2> QED
    BY <1>3, <1>4, <2>1, <2>2 DEF NodeHit
<1>7. rules = <<>> <=> children = <<>>
  <2>1. rules = <<>> => NestedOf(node) = {} /\ FieldsOf(node) = {}
    BY <1>1 DEF AreRulesOf
  <2>2. NestedOf(node) = {} /\ FieldsOf(node) = {} => children = <<>>
    BY <1>4, EmptySeq, LastOfSeq
  <2>3. children = <<>> => NestedOf(node) = {} /\ FieldsOf(node) = {}
    BY <1>4
  <2>4. NestedOf(node) = {} /\ FieldsOf(node) = {} => DOMAIN rules = {}
    BY <1>1 DEF AreRulesOf
  <2>5. DOMAIN rules = {} => rules = <<>>
    BY <1>2, LastOfSeq
  <2> QED
    BY <2>1, <2>2, <2>3, <2>4, <2>5
<1>8. (\A r \in DOMAIN rules : RuleHolds(rules[r]))
        <=> /\ \A c \in NestedOf(node) : byRule(c)
            /\ FieldsOf(node) # {} => RuleHolds(own)
  BY <1>1, <1>3 DEF AreRulesOf
<1>9. (\E r \in DOMAIN rules : RuleHolds(rules[r]))
        <=> \/ \E c \in NestedOf(node) : byRule(c)
            \/ FieldsOf(node) # {} /\ RuleHolds(own)
  BY <1>1, <1>3 DEF AreRulesOf
<1>10. ElementHolds(EventRuleOf(node)) <=>
         \/ rules = <<>>
         \/ IF node.relation = "and" THEN \A r \in DOMAIN rules : RuleHolds(rules[r])
            ELSE \E r \in DOMAIN rules : RuleHolds(rules[r])
  BY <1>1, <1>2 DEF ElementHolds, Combined
<1>11. FieldsOf(node) = {} => (byFields <=> node.relation = "and")
  OBVIOUS
<1>12. children = <<>> => NestedOf(node) = {} /\ FieldsOf(node) = {}
  BY <1>4
<1> HIDE DEF byFields, byRule
<1> QED
  BY <1>5, <1>6, <1>7, <1>8, <1>9, <1>10, <1>11, <1>12

\* The same for a group element, and for the file.
NodesOf(x, match) ==
    {n \in DOMAIN x.nodes : x.nodes[n].id = ImageLoad /\ x.nodes[n].match = match}

ElementHits(x, match) ==
    /\ NodesOf(x, match) # {}
    /\ Combined(x.relation, NodesOf(x, match), {n \in NodesOf(x, match) : NodeHit(x.nodes[n])})

LEMMA GroupMeansElement ==
    ASSUME NEW x \in GroupElements, NEW match
    PROVE  /\ DOMAIN GroupOf(x).eventRules = DOMAIN x.nodes
           /\ \A n \in DOMAIN x.nodes : GroupOf(x).eventRules[n].id = x.nodes[n].id
           /\ ElementsOf(GroupOf(x), match) = NodesOf(x, match)
           /\ GroupHits(GroupOf(x), match) <=> ElementHits(x, match)
<1>1. PICK nodes \in Seq(EventElements) : nodes = x.nodes
  BY DEF GroupElements
<1>2. \A n \in DOMAIN nodes : nodes[n] \in EventElements
  BY ElementOfSeq, LenProperties
<1>3. /\ GroupOf(x).relation = x.relation /\ DOMAIN GroupOf(x).eventRules = DOMAIN nodes
      /\ \A n \in DOMAIN nodes : GroupOf(x).eventRules[n] = EventRuleOf(nodes[n])
  BY <1>1 DEF GroupOf
<1>4. ASSUME NEW n \in DOMAIN nodes
      PROVE  /\ GroupOf(x).eventRules[n].id = nodes[n].id
             /\ GroupOf(x).eventRules[n].match = nodes[n].match
             /\ ElementHolds(GroupOf(x).eventRules[n]) <=> NodeHit(nodes[n])
  <2>1. nodes[n] \in EventElements
    BY <1>2
  <2> QED
    BY <1>3, <2>1, EventRuleOfNode, ElementMeansNode
<1>5. ElementsOf(GroupOf(x), match) = NodesOf(x, match)
  BY <1>1, <1>3, <1>4 DEF ElementsOf, NodesOf
<1>6. NodesOf(x, match) \subseteq DOMAIN nodes
  BY <1>1 DEF NodesOf
<1> QED
  BY <1>1, <1>3, <1>4, <1>5, <1>6 DEF GroupHits, ElementHits, Combined

LEMMA FileMeans ==
    ASSUME NEW match
    PROVE  Meant(match) <=> \E g \in DOMAIN xml : ElementHits(xml[g], match)
BY DEF Meant, ElementHits, NodesOf, NodeHit, FieldsOf, FieldHolds

LEMMA FileHasNode ==
    ASSUME XmlTyped, NEW match
    PROVE  HasNode(match) <=> \E g \in DOMAIN xml : NodesOf(xml[g], match) # {}
<1>1. PICK n \in Nat : n = Len(xml) /\ DOMAIN xml = 1 .. n
  BY LenProperties DEF XmlTyped
<1>2. PICK parts : parts = [g \in DOMAIN xml |-> xml[g].nodes]
  OBVIOUS
<1>3. parts \in [1 .. n -> Seq(EventElements)]
  <2>1. \A g \in DOMAIN xml : xml[g] \in GroupElements
    BY <1>1, ElementOfSeq DEF XmlTyped
  <2>2. \A g \in DOMAIN xml : xml[g].nodes \in Seq(EventElements)
    BY <2>1 DEF GroupElements
  <2> QED
    BY <1>1, <1>2, <2>2
<1>4. Nodes = FlattenSeq(parts)
  BY <1>2 DEF Nodes
<1>5. Gathers(Nodes, parts, n)
  BY <1>3, <1>4, FlattenGathers
<1>6. ASSUME HasNode(match)
      PROVE  \E g \in DOMAIN xml : NodesOf(xml[g], match) # {}
  <2>1. PICK j \in DOMAIN Nodes : Nodes[j].id = ImageLoad /\ Nodes[j].match = match
    BY <1>6 DEF HasNode
  <2>2. PICK g \in 1 .. n : \E k \in DOMAIN parts[g] : Nodes[j] = parts[g][k]
    BY <1>5 DEF Gathers
  <2>3. PICK k \in DOMAIN parts[g] : Nodes[j] = parts[g][k]
    BY <2>2
  <2>4. k \in NodesOf(xml[g], match) /\ g \in DOMAIN xml
    BY <1>1, <1>2, <2>1, <2>3 DEF NodesOf
  <2> QED
    BY <2>4
<1>7. ASSUME NEW g \in DOMAIN xml, NEW k \in NodesOf(xml[g], match)
      PROVE  HasNode(match)
  <2>1. g \in 1 .. n /\ k \in DOMAIN parts[g] /\ parts[g][k] = xml[g].nodes[k]
    BY <1>1, <1>2 DEF NodesOf
  <2>2. PICK j \in DOMAIN Nodes : Nodes[j] = parts[g][k]
    BY <1>5, <2>1 DEF Gathers
  <2>3. Nodes[j].id = ImageLoad /\ Nodes[j].match = match
    BY <2>1, <2>2 DEF NodesOf
  <2> QED
    BY <2>3 DEF HasNode
<1> QED
  BY <1>6, <1>7

\* What the driver captures is what the file means.
LEMMA FileArrives ==
    ASSUME XmlTyped
    PROVE  RulesArrive
<1>1. PICK rs \in Seq(RuleGroups) :
        /\ rs = RuleSet
        /\ \A g \in DOMAIN rs : \E h \in Kept : rs[g] = GroupOf(xml[h])
        /\ \A h \in Kept : \E g \in DOMAIN rs : rs[g] = GroupOf(xml[h])
  BY RuleSetOfFile
<1>2. PICK blob, rt : blob = Serialize(rs) /\ rt = LoadRuleRuntime(blob)
  OBVIOUS
<1>3. DriverAcceptsTheBlob <=> DriverAccepts(blob)
  BY <1>1, <1>2 DEF DriverAcceptsTheBlob
<1>4. Runtime = rt /\ Complete = Kinds
  BY <1>1, <1>2 DEF Runtime, Complete
<1>5. /\ DriverAccepts(blob)
      /\ DriverCapture(rt, ImageLoad, Kinds)
           <=> /\ \E g \in DOMAIN rs : \E n \in DOMAIN rs[g].eventRules :
                    rs[g].eventRules[n].id = ImageLoad
               /\ \A g \in DOMAIN rs : ~GroupHits(rs[g], "exclude")
               /\ \/ \A g \in DOMAIN rs : ElementsOf(rs[g], "include") = {}
                  \/ \E g \in DOMAIN rs : GroupHits(rs[g], "include")
  BY <1>2, DriverReadsRules
<1>6. \A h \in DOMAIN xml : xml[h] \in GroupElements
  BY ElementOfSeq, LenProperties DEF XmlTyped
<1>7. Kept \subseteq DOMAIN xml
  BY DEF Kept
<1>8. ASSUME NEW h \in DOMAIN xml, NEW match, NodesOf(xml[h], match) # {}
      PROVE  h \in Kept
  BY <1>8 DEF Kept, NodesOf
<1>9. ASSUME NEW match
      PROVE  /\ (\E g \in DOMAIN rs : GroupHits(rs[g], match)) <=> Meant(match)
             /\ (\E g \in DOMAIN rs : ElementsOf(rs[g], match) # {}) <=> HasNode(match)
  <2>1. \A h \in Kept : /\ GroupHits(GroupOf(xml[h]), match) <=> ElementHits(xml[h], match)
                        /\ ElementsOf(GroupOf(xml[h]), match) = NodesOf(xml[h], match)
    BY <1>6, <1>7, GroupMeansElement
  <2>2. (\E g \in DOMAIN rs : GroupHits(rs[g], match)) <=> \E h \in Kept : ElementHits(xml[h], match)
    BY <1>1, <2>1
  <2>3. (\E g \in DOMAIN rs : ElementsOf(rs[g], match) # {})
          <=> \E h \in Kept : NodesOf(xml[h], match) # {}
    BY <1>1, <2>1
  <2>4. \A h \in DOMAIN xml : ElementHits(xml[h], match) => NodesOf(xml[h], match) # {}
    BY DEF ElementHits
  <2> QED
    BY <1>7, <1>8, <2>2, <2>3, <2>4, FileMeans, FileHasNode
<1>10. (\E g \in DOMAIN rs : \E n \in DOMAIN rs[g].eventRules : rs[g].eventRules[n].id = ImageLoad)
         <=> HasNode("include") \/ HasNode("exclude")
  <2>1. ASSUME NEW g \in DOMAIN rs, NEW n \in DOMAIN rs[g].eventRules
        PROVE  rs[g].eventRules[n].match \in {"include", "exclude"}
    <3>1. rs[g] \in RuleGroups
      BY ElementOfSeq, LenProperties
    <3>2. rs[g].eventRules \in Seq(EventRules)
      BY <3>1 DEF RuleGroups
    <3>3. rs[g].eventRules[n] \in EventRules
      BY <3>2, ElementOfSeq, LenProperties
    <3> QED
      BY <3>3 DEF EventRules
  <2>2. (\E g \in DOMAIN rs : \E n \in DOMAIN rs[g].eventRules : rs[g].eventRules[n].id = ImageLoad)
          <=> \/ \E g \in DOMAIN rs : ElementsOf(rs[g], "include") # {}
              \/ \E g \in DOMAIN rs : ElementsOf(rs[g], "exclude") # {}
    BY <2>1 DEF ElementsOf
  <2> QED
    BY <1>9, <2>2
<1>11. CaptureIsWhatTheFileMeans
  BY <1>4, <1>5, <1>9, <1>10 DEF CaptureIsWhatTheFileMeans
<1> QED
  BY <1>3, <1>5, <1>11 DEF RulesArrive

\* Whatever is written into the file, it is one the parser accepts
\* (XmlConfig's element and attribute checks, xml_config.cpp).
THEOREM FileStaysTyped == RuleSpec => []XmlTyped
<1>1. RuleInit => XmlTyped
  BY EmptySeq DEF RuleInit, XmlTyped
<1>2. XmlTyped /\ [RuleNext]_ruleVars => XmlTyped'
  <2>1. ASSUME XmlTyped, UNCHANGED ruleVars PROVE XmlTyped'
    BY <2>1 DEF XmlTyped, ruleVars
  <2> QED
    BY <2>1, XmlStaysTyped
<1> QED
  BY <1>1, <1>2, PTL DEF RuleSpec

\* The driver accepts the rules of every file, whatever its groups, events and
\* rules, and captures an image load, includes and excludes alike, just as the
\* file says (the parser and the serializer of xml_config.cpp, then
\* SysmonLoadRuleRuntime and the evaluation of image loads in the driver).
THEOREM RulesAlwaysArrive == RuleSpec => []RulesArrive
BY FileStaysTyped, FileArrives, PTL

\* Neither of the two shortcuts loses an event: one dropped before enrichment
\* would have been dropped after it, and what a producer that is switched off
\* would have reported would not have been logged.
THEOREM ShortcutsAlwaysKeepTheVerdict == RuleSpec => []ShortcutsKeepTheVerdict
<1>1. XmlTyped => ShortcutsKeepTheVerdict
  BY EarlyIsFinal, SwitchedOffIsSilent DEF ShortcutsKeepTheVerdict
<1> QED
  BY <1>1, FileStaysTyped, PTL

-----------------------------------------------------------------------------
(* The conditions.  The scan of a rule's value keeps, letter by letter,    *)
(* the values of the spans that have ended, and the span that is open      *)
(* (ScannedTo); each value is what is left of exactly one span between     *)
(* two separators when its blanks are trimmed (SpanHasValue,               *)
(* ValueHasSpan).  Every condition then compares the same parts of the     *)
(* field as its documentation does.                                        *)

\* What lies between two separators, or an end of the text.
IsSpan(text, a, b) ==
    /\ a \in 1 .. Len(text) + 1 /\ b \in 0 .. Len(text) /\ a <= b + 1
    /\ \A k \in a .. b : text[k] # Semicolon
    /\ \A k \in DOMAIN text : k = a - 1 \/ k = b + 1 => text[k] = Semicolon

\* What is left of it without blanks.
IsTrim(text, a, b, i, j) ==
    /\ i \in a .. b /\ j \in i .. b
    /\ text[i] # Blank /\ text[j] # Blank
    /\ \A k \in a .. b : k < i \/ k > j => text[k] = Blank

\* t is what is left of the text from a to b.
IsTrimmed(t, text, a, b) ==
    \/ t = <<>> /\ \A i, j : ~IsTrim(text, a, b, i, j)
    \/ /\ t # <<>>
       /\ \E i, j : IsTrim(text, a, b, i, j) /\ t = SubSeq(text, i, j)
       /\ \A i, j : IsTrim(text, a, b, i, j) => t = SubSeq(text, i, j)

\* TrimSpan leaves it.
LEMMA TrimSpanTrims ==
    ASSUME NEW text \in Seq(Nat), NEW n, n = Len(text), NEW a \in 1 .. n + 1, NEW b \in 0 .. n,
           a <= b + 1, NEW t, t = TrimSpan(SubSeq(text, a, b))
    PROVE  IsTrimmed(t, text, a, b)
<1>1. n \in Nat
  BY LenProperties
<1>2. PICK u : u = SubSeq(text, a, b)
  OBVIOUS
<1>3. PICK l \in Nat : l = b - a + 1
  BY <1>1
<1>4. u \in Seq(Nat) /\ DOMAIN u = 1 .. l /\ \A k \in 1 .. l : u[k] = text[a + k - 1]
  <2>1. u \in Seq(Nat) /\ Len(u) = b - a + 1 /\ \A k \in 1 .. b - a + 1 : u[k] = text[a + k - 1]
    <3>1. IsPart(u, Nat, text, a, b)
      BY ONLY text \in Seq(Nat), n = Len(text), a \in 1 .. n + 1, b \in 0 .. n, a <= b + 1, <1>2,
         PartIsPart
    <3> QED
      BY ONLY <3>1 DEF IsPart
  <2>2. Len(u) = l /\ \A k \in 1 .. l : u[k] = text[a + k - 1]
    BY ONLY <1>3, <2>1
  <2> QED
    BY <2>1, <2>2, LenProperties
<1>5. PICK solid : solid = {k \in DOMAIN u : u[k] # Blank}
  OBVIOUS
<1>6. t = IF solid = {} THEN <<>> ELSE SubSeq(u, Min(solid), Max(solid))
  BY <1>2, <1>5 DEF TrimSpan
<1>7. ASSUME NEW k \in a .. b
      PROVE  k - a + 1 \in 1 .. l /\ u[k - a + 1] = text[k]
  <2>1. k - a + 1 \in 1 .. l /\ a + (k - a + 1) - 1 = k
    BY <1>1, <1>3
  <2> QED
    BY <1>4, <2>1
<1>8. CASE solid = {}
  <2>1. \A k \in a .. b : text[k] = Blank
    BY <1>4, <1>5, <1>7, <1>8
  <2>2. \A i, j : ~IsTrim(text, a, b, i, j)
    BY <2>1 DEF IsTrim
  <2> QED
    BY <1>6, <1>8, <2>2 DEF IsTrimmed
<1>9. CASE solid # {}
  <2>1. PICK p \in solid, q \in solid :
          p = Min(solid) /\ q = Max(solid) /\ \A x \in solid : p <= x /\ x <= q
    <3>1. solid \in SUBSET (1 .. l)
      BY <1>4, <1>5
    <3> QED
      BY ONLY l \in Nat, <1>9, <3>1, Extremes
  <2>2. p \in 1 .. l /\ q \in 1 .. l /\ p <= q /\ u[p] # Blank /\ u[q] # Blank
    BY <1>4, <1>5, <2>1
  <2>3. PICK i \in Nat, j \in Nat : i = a + p - 1 /\ j = a + q - 1
    BY <2>2, <1>1
  <2>4. i \in a .. b /\ j \in i .. b /\ text[i] # Blank /\ text[j] # Blank
    <3>1. i \in a .. b /\ j \in i .. b
      BY <1>1, <1>3, <2>2, <2>3
    <3> QED
      BY <1>4, <2>2, <2>3, <3>1
  <2>5. ASSUME NEW k \in a .. b, k < i \/ k > j
        PROVE  text[k] = Blank
    <3>1. k - a + 1 < p \/ k - a + 1 > q
      BY <1>1, <2>2, <2>3, <2>5
    <3>2. k - a + 1 \in 1 .. l /\ u[k - a + 1] = text[k]
      BY <1>7
    <3>3. k - a + 1 \notin solid
      <4>1. PICK x : x = k - a + 1
        OBVIOUS
      <4>2. x \in 1 .. l /\ (x < p \/ x > q)
        BY <3>1, <3>2, <4>1
      <4>3. x \notin solid
        BY ONLY l \in Nat, <2>1, <2>2, <4>2
      <4> QED
        BY <4>1, <4>3
    <3> QED
      BY <1>4, <1>5, <3>2, <3>3
  <2>6. IsTrim(text, a, b, i, j)
    BY <2>4, <2>5 DEF IsTrim
  <2>7. t = SubSeq(text, i, j)
    <3>1. SubSeq(SubSeq(text, a, b), p, q) = SubSeq(text, a + p - 1, a + q - 1)
      <4>1. p \in 1 .. b - a + 1 /\ q \in 1 .. b - a + 1
        BY <1>3, <2>2
      <4> QED
        BY ONLY text \in Seq(Nat), n = Len(text), a \in 1 .. n + 1, b \in 0 .. n, a <= b + 1,
                <2>2, <4>1, PartOfPart
    <3> QED
      BY <1>2, <1>6, <1>9, <2>1, <2>3, <3>1
  <2>8. t # <<>>
    <3>1. i \in 1 .. n /\ j \in 1 .. n /\ i <= j
      BY <1>1, <2>4
    <3>2. i \in 1 .. n + 1 /\ j \in 0 .. n /\ i <= j + 1
      BY <1>1, <3>1
    <3>3. Len(t) = j - i + 1
      BY ONLY text \in Seq(Nat), n = Len(text), <2>7, <3>2, PartHasLength
    <3> QED
      BY <3>1, <3>3, EmptySeq
  <2>9. ASSUME NEW h, NEW m, IsTrim(text, a, b, h, m)
        PROVE  t = SubSeq(text, h, m)
    <3>1. h \in a .. b /\ m \in h .. b /\ text[h] # Blank /\ text[m] # Blank
      BY <2>9 DEF IsTrim
    <3>2. m \in a .. b
      BY <1>1, <3>1
    <3>3. i <= h /\ h <= j /\ i <= m /\ m <= j
      <4>1. ~(h < i \/ h > j) /\ ~(m < i \/ m > j)
        BY <2>5, <3>1, <3>2
      <4>2. h \in Int /\ m \in Int
        BY <3>1
      <4> QED
        BY ONLY <2>3, <4>1, <4>2
    <3>4. h <= i /\ j <= m
      <4>1. i \in a .. b /\ j \in a .. b
        BY <1>1, <2>4
      <4>2. ~(i < h) /\ ~(j > m)
        BY <2>4, <2>9, <4>1 DEF IsTrim
      <4> QED
        BY <1>1, <3>1, <4>1, <4>2
    <3>5. h = i /\ m = j
      BY <1>1, <2>4, <3>1, <3>3, <3>4
    <3> QED
      BY <2>7, <3>5
  <2> QED
    BY <2>6, <2>7, <2>8, <2>9 DEF IsTrimmed
<1> QED
  BY <1>8, <1>9

\* A value begins and ends without a blank, and next to it, after blanks, there
\* is a separator or an end.
IsValue(text, i, j) ==
    /\ i \in DOMAIN text /\ j \in DOMAIN text
    /\ i <= j /\ text[i] # Blank /\ text[j] # Blank
    /\ \A k \in i .. j : text[k] # Semicolon
    /\ \A k \in DOMAIN text :
         /\ (k < i /\ \A l \in k + 1 .. i - 1 : text[l] = Blank) => text[k] \in {Blank, Semicolon}
         /\ (k > j /\ \A l \in j + 1 .. k - 1 : text[l] = Blank) => text[k] \in {Blank, Semicolon}

\* The documented values of a text are just these.
LEMMA DelimitedAre ==
    ASSUME NEW text, NEW t
    PROVE  t \in Delimited(text) <=> \E i, j : IsValue(text, i, j) /\ t = SubSeq(text, i, j)
<1>1. PICK D : D = DOMAIN text
  OBVIOUS
<1>2. PICK pairs : pairs = {q \in D \X D : IsValue(text, q[1], q[2])}
  OBVIOUS
<1>3. Delimited(text) = {SubSeq(text, p[1], p[2]) : p \in pairs}
  <2>1. \A q \in D \X D : q[1] \in D /\ q[2] \in D
    OBVIOUS
  <2> QED
    BY <1>1, <1>2, <2>1 DEF Delimited, IsValue
<1>4. ASSUME t \in Delimited(text)
      PROVE  \E i, j : IsValue(text, i, j) /\ t = SubSeq(text, i, j)
  <2>1. PICK p \in pairs : t = SubSeq(text, p[1], p[2])
    BY <1>3, <1>4
  <2>2. IsValue(text, p[1], p[2])
    BY <1>2
  <2> QED
    BY <2>1, <2>2
<1>5. ASSUME NEW i, NEW j, IsValue(text, i, j), t = SubSeq(text, i, j)
      PROVE  t \in Delimited(text)
  <2>1. i \in D /\ j \in D
    BY <1>1, <1>5 DEF IsValue
  <2>2. PICK p \in pairs : p[1] = i /\ p[2] = j
    <3>1. PICK q \in D \X D : q[1] = i /\ q[2] = j
      <4>1. <<i, j>> \in D \X D /\ <<i, j>>[1] = i /\ <<i, j>>[2] = j
        BY <2>1
      <4> QED
        BY <4>1
    <3> QED
      BY <1>2, <1>5, <3>1
  <2> QED
    BY <1>3, <1>5, <2>2
<1> QED
  BY <1>4, <1>5

\* The trim of a span is a value.
LEMMA SpanHasValue ==
    ASSUME NEW text \in Seq(Nat), NEW a, NEW b, NEW i, NEW j,
           IsSpan(text, a, b), IsTrim(text, a, b, i, j)
    PROVE  IsValue(text, i, j)
<1>1. PICK n \in Nat : n = Len(text) /\ DOMAIN text = 1 .. n
  BY LenProperties
<1>2. /\ a \in 1 .. n + 1 /\ b \in 0 .. n
      /\ \A k \in a .. b : text[k] # Semicolon
      /\ \A k \in 1 .. n : k = a - 1 \/ k = b + 1 => text[k] = Semicolon
  BY <1>1 DEF IsSpan
<1>3. /\ i \in a .. b /\ j \in i .. b /\ text[i] # Blank /\ text[j] # Blank
      /\ \A k \in a .. b : k < i \/ k > j => text[k] = Blank
  BY DEF IsTrim
<1>4. i \in 1 .. n /\ j \in 1 .. n /\ i <= j /\ j <= b
  BY <1>2, <1>3
<1>5. Blank # Semicolon
  BY DEF Blank, Semicolon
<1>6. \A k \in i .. j : text[k] # Semicolon
  BY <1>2, <1>3, <1>4
<1>7. ASSUME NEW k \in 1 .. n, k < i, \A l \in k + 1 .. i - 1 : text[l] = Blank
      PROVE  text[k] \in {Blank, Semicolon}
  <2>1. CASE k >= a
    <3>1. k \in a .. b
      BY <1>2, <1>4, <1>7, <2>1
    <3> QED
      BY <1>3, <1>7, <3>1
  <2>2. CASE k = a - 1
    BY <1>2, <2>2
  <2>3. CASE k < a - 1
    <3>1. a - 1 \in k + 1 .. i - 1 /\ a - 1 \in 1 .. n
      BY <1>2, <1>3, <1>4, <2>3
    <3> QED
      BY <1>2, <1>5, <1>7, <3>1
  <2> QED
    BY <1>2, <2>1, <2>2, <2>3
<1>8. ASSUME NEW k \in 1 .. n, k > j, \A l \in j + 1 .. k - 1 : text[l] = Blank
      PROVE  text[k] \in {Blank, Semicolon}
  <2>1. CASE k <= b
    <3>1. k \in a .. b
      BY <1>2, <1>3, <1>4, <1>8, <2>1
    <3> QED
      BY <1>3, <1>8, <3>1
  <2>2. CASE k = b + 1
    BY <1>2, <2>2
  <2>3. CASE k > b + 1
    <3>1. b + 1 \in j + 1 .. k - 1 /\ b + 1 \in 1 .. n
      BY <1>2, <1>3, <1>4, <2>3
    <3> QED
      BY <1>2, <1>5, <1>8, <3>1
  <2> QED
    BY <1>2, <2>1, <2>2, <2>3
<1> QED
  BY <1>1, <1>3, <1>4, <1>6, <1>7, <1>8 DEF IsValue

\* And each value is the trim of a span: that from the separator before it to
\* the one after it.
LEMMA ValueHasSpan ==
    ASSUME NEW text \in Seq(Nat), NEW i, NEW j, IsValue(text, i, j)
    PROVE  \E a, b : IsSpan(text, a, b) /\ IsTrim(text, a, b, i, j)
<1>1. PICK n \in Nat : n = Len(text) /\ DOMAIN text = 1 .. n
  BY LenProperties
<1>2. /\ i \in 1 .. n /\ j \in 1 .. n /\ i <= j /\ text[i] # Blank /\ text[j] # Blank
      /\ \A k \in i .. j : text[k] # Semicolon
  BY <1>1 DEF IsValue
<1>3. PICK before, after : /\ before = {k \in 1 .. n : k < i /\ text[k] = Semicolon}
                           /\ after = {k \in 1 .. n : k > j /\ text[k] = Semicolon}
  OBVIOUS
<1>4. PICK a \in 1 .. i : /\ a = 1 \/ a - 1 \in before
                          /\ \A k \in before : k <= a - 1
  <2>1. CASE before = {}
    <3>1. 1 \in 1 .. i
      BY <1>2
    <3> QED
      BY <2>1, <3>1
  <2>2. CASE before # {}
    <3>1. before \in SUBSET (1 .. n)
      BY <1>3
    <3>2. PICK m \in before : \A k \in before : k <= m
      BY ONLY n \in Nat, <2>2, <3>1, Extremes
    <3>3. m \in 1 .. n /\ m < i
      BY <1>3
    <3>4. PICK c \in 1 .. i : c = m + 1 /\ c - 1 = m
      BY <1>2, <3>3
    <3> QED
      BY <3>2, <3>4
  <2> QED
    BY <2>1, <2>2
<1>5. PICK b \in j .. n : /\ b = n \/ b + 1 \in after
                          /\ \A k \in after : k >= b + 1
  <2>1. CASE after = {}
    <3>1. n \in j .. n
      BY <1>2
    <3> QED
      BY <2>1, <3>1
  <2>2. CASE after # {}
    <3>1. after \in SUBSET (1 .. n)
      BY <1>3
    <3>2. PICK m \in after : \A k \in after : m <= k
      BY ONLY n \in Nat, <2>2, <3>1, Extremes
    <3>3. m \in 1 .. n /\ m > j
      BY <1>3
    <3>4. m - 1 \in j .. n /\ m - 1 + 1 = m
      BY <1>2, <3>3
    <3>5. \A k \in after : k \in 1 .. n /\ k >= m
      BY <1>3, <3>2
    <3> QED
      BY <3>2, <3>4, <3>5
  <2> QED
    BY <2>1, <2>2
<1>6. a \in 1 .. n + 1 /\ b \in 0 .. n /\ a <= b + 1 /\ i \in a .. b /\ j \in i .. b
  BY <1>2
<1>7. ASSUME NEW k \in a .. b PROVE text[k] # Semicolon
  <2>1. k \in 1 .. n
    BY <1>6
  <2>2. CASE k < i
    BY <1>3, <1>4, <1>6, <2>1, <2>2
  <2>3. CASE k > j
    BY <1>3, <1>5, <1>6, <2>1, <2>3
  <2>4. CASE k \in i .. j
    BY <1>2, <2>4
  <2> QED
    BY <1>2, <2>1, <2>2, <2>3, <2>4
<1>8. ASSUME NEW k \in 1 .. n, k = a - 1 \/ k = b + 1 PROVE text[k] = Semicolon
  <2>1. CASE k = a - 1
    <3>1. a # 1
      BY <2>1
    <3> QED
      BY <1>3, <1>4, <2>1, <3>1
  <2>2. CASE k = b + 1
    <3>1. b # n
      BY <2>2
    <3> QED
      BY <1>3, <1>5, <2>2, <3>1
  <2> QED
    BY <1>8, <2>1, <2>2
<1>9. IsSpan(text, a, b)
  BY <1>1, <1>6, <1>7, <1>8 DEF IsSpan
<1>10. ASSUME NEW h \in a .. b, h < i PROVE text[h] = Blank
  <2> SUFFICES ASSUME text[h] # Blank PROVE FALSE
    OBVIOUS
  <2> DEFINE solid == {k \in 1 .. n : a <= k /\ k < i /\ text[k] # Blank}
  <2>1. solid \in SUBSET (1 .. n) /\ solid # {}
    <3>1. h \in solid
      BY <1>6, <1>10
    <3> QED
      BY <3>1
  <2>2. PICK m \in solid : \A k \in solid : k <= m
    <3> HIDE DEF solid
    <3> QED
      BY ONLY n \in Nat, <2>1, Extremes
  <2>3. m \in 1 .. n /\ a <= m /\ m < i /\ text[m] # Blank
    OBVIOUS
  <2>4. \A l \in m + 1 .. i - 1 : text[l] = Blank
    <3>1. \A l \in m + 1 .. i - 1 : l \in 1 .. n /\ a <= l /\ l < i /\ ~(l <= m)
      BY <1>2, <2>3
    <3> QED
      BY <2>2, <3>1
  <2>5. text[m] \in {Blank, Semicolon}
    BY <1>1, <2>3, <2>4 DEF IsValue
  <2>6. m \in a .. b
    BY <1>6, <2>3
  <2> QED
    BY <1>7, <2>3, <2>5, <2>6
<1>11. ASSUME NEW h \in a .. b, h > j PROVE text[h] = Blank
  <2> SUFFICES ASSUME text[h] # Blank PROVE FALSE
    OBVIOUS
  <2> DEFINE solid == {k \in 1 .. n : k <= b /\ k > j /\ text[k] # Blank}
  <2>1. solid \in SUBSET (1 .. n) /\ solid # {}
    <3>1. h \in solid
      BY <1>6, <1>11
    <3> QED
      BY <3>1
  <2>2. PICK m \in solid : \A k \in solid : m <= k
    <3> HIDE DEF solid
    <3> QED
      BY ONLY n \in Nat, <2>1, Extremes
  <2>3. m \in 1 .. n /\ m <= b /\ m > j /\ text[m] # Blank
    OBVIOUS
  <2>4. \A l \in j + 1 .. m - 1 : text[l] = Blank
    <3>1. \A l \in j + 1 .. m - 1 : l \in 1 .. n /\ l <= b /\ l > j /\ ~(m <= l)
      BY <1>2, <1>6, <2>3
    <3> QED
      BY <2>2, <3>1
  <2>5. text[m] \in {Blank, Semicolon}
    BY <1>1, <2>3, <2>4 DEF IsValue
  <2>6. m \in a .. b
    BY <1>2, <1>6, <2>3
  <2> QED
    BY <1>7, <2>3, <2>5, <2>6
<1>12. IsTrim(text, a, b, i, j)
  BY <1>2, <1>6, <1>10, <1>11 DEF IsTrim
<1> QED
  BY <1>9, <1>12

\* The values of the spans that end before k.
ValuesBefore(text, k) ==
    {t \in Seq(Nat) : \E a, b, i, j : /\ IsSpan(text, a, b) /\ b < k
                                      /\ IsTrim(text, a, b, i, j) /\ t = SubSeq(text, i, j)}

\* A span from s that has reached k.
IsOpen(text, s, k) ==
    /\ s \in 1 .. k + 1
    /\ \A m \in s .. k : text[m] # Semicolon
    /\ \A m \in DOMAIN text : m = s - 1 => text[m] = Semicolon

\* At the end of the text they are all its values.
LEMMA AllValues ==
    ASSUME NEW text \in Seq(Nat)
    PROVE  ValuesBefore(text, Len(text) + 1) = Delimited(text)
<1>1. PICK n \in Nat : n = Len(text) /\ DOMAIN text = 1 .. n
  BY LenProperties
<1>2. ASSUME NEW t \in ValuesBefore(text, n + 1) PROVE t \in Delimited(text)
  <2>1. PICK a, b, i, j : /\ IsSpan(text, a, b) /\ IsTrim(text, a, b, i, j)
                          /\ t = SubSeq(text, i, j)
    BY DEF ValuesBefore
  <2>2. IsValue(text, i, j)
    BY <2>1, SpanHasValue
  <2> QED
    BY <2>1, <2>2, DelimitedAre
<1>3. ASSUME NEW t \in Delimited(text) PROVE t \in ValuesBefore(text, n + 1)
  <2>1. PICK i, j : IsValue(text, i, j) /\ t = SubSeq(text, i, j)
    BY DelimitedAre
  <2>2. PICK a, b : IsSpan(text, a, b) /\ IsTrim(text, a, b, i, j)
    BY <2>1, ValueHasSpan
  <2>3. b < n + 1
    BY <1>1, <2>2 DEF IsSpan
  <2>4. t \in Seq(Nat)
    <3>1. i \in 1 .. n + 1 /\ j \in 0 .. n /\ i <= j + 1
      BY <1>1, <2>1 DEF IsValue
    <3>2. t = SubSeq(text, i, j)
      BY <2>1
    <3> QED
      BY ONLY text \in Seq(Nat), <1>1, <3>1, <3>2, PartHasLength
  <2> QED
    BY <2>1, <2>2, <2>3, <2>4 DEF ValuesBefore
<1> QED
  BY <1>1, <1>2, <1>3

\* The tokens of a text whose last span up to now ends at k.
Ended(tokens, text, k) ==
    tokens \in Seq(Seq(Nat)) /\ ToSet(tokens) = ValuesBefore(text, k + 1)

\* A span that ends at k adds its value, if it has one.
LEMMA SpanEnds ==
    ASSUME NEW text \in Seq(Nat), NEW n \in Nat, n = Len(text), NEW k \in 0 .. n,
           NEW s, IsOpen(text, s, k), NEW span, span = SubSeq(text, s, k),
           NEW tokens \in Seq(Seq(Nat)), ToSet(tokens) = ValuesBefore(text, k),
           k = n \/ text[k + 1] = Semicolon
    PROVE  Ended(WithToken(tokens, span), text, k)
<1>1. DOMAIN text = 1 .. n
  BY LenProperties
<1>2. s \in 1 .. n + 1 /\ k \in 0 .. n /\ s <= k + 1
  BY DEF IsOpen
<1>3. IsSpan(text, s, k)
  <2>1. ASSUME NEW m \in DOMAIN text, m = s - 1 \/ m = k + 1 PROVE text[m] = Semicolon
    <3>1. CASE m = s - 1
      BY <3>1 DEF IsOpen
    <3>2. CASE m = k + 1
      BY <1>1, <3>2
    <3> QED
      BY <2>1, <3>1, <3>2
  <2> QED
    BY <1>2, <2>1 DEF IsSpan, IsOpen
<1>4. ASSUME NEW a, IsSpan(text, a, k) PROVE a = s
  <2>1. /\ a \in 1 .. n + 1 /\ a <= k + 1
        /\ \A m \in a .. k : text[m] # Semicolon
        /\ \A m \in 1 .. n : m = a - 1 => text[m] = Semicolon
    BY <1>1, <1>4 DEF IsSpan
  <2>2. /\ \A m \in s .. k : text[m] # Semicolon
        /\ \A m \in 1 .. n : m = s - 1 => text[m] = Semicolon
    BY <1>1 DEF IsOpen
  <2>3. ~(a < s)
    <3> SUFFICES ASSUME a < s PROVE FALSE
      OBVIOUS
    <3>1. s - 1 \in 1 .. n /\ s - 1 \in a .. k
      BY <1>2, <2>1
    <3> QED
      BY <2>1, <2>2, <3>1
  <2>4. ~(s < a)
    <3> SUFFICES ASSUME s < a PROVE FALSE
      OBVIOUS
    <3>1. a - 1 \in 1 .. n /\ a - 1 \in s .. k
      BY <1>2, <2>1
    <3> QED
      BY <2>1, <2>2, <3>1
  <2> QED
    BY <1>2, <2>1, <2>3, <2>4
<1>5. PICK t : t = TrimSpan(span)
  OBVIOUS
<1>6. IsTrimmed(t, text, s, k)
  BY <1>2, <1>5, TrimSpanTrims
<1>7. ASSUME NEW b \in Int PROVE b < k + 1 <=> b < k \/ b = k
  OBVIOUS
<1>8. ASSUME NEW v \in Seq(Nat)
      PROVE  v \in ValuesBefore(text, k + 1) <=>
               \/ v \in ValuesBefore(text, k)
               \/ \E i, j : IsTrim(text, s, k, i, j) /\ v = SubSeq(text, i, j)
  <2>1. ASSUME v \in ValuesBefore(text, k + 1)
        PROVE  \/ v \in ValuesBefore(text, k)
               \/ \E i, j : IsTrim(text, s, k, i, j) /\ v = SubSeq(text, i, j)
    <3>1. PICK a, b, i, j : /\ IsSpan(text, a, b) /\ b < k + 1
                            /\ IsTrim(text, a, b, i, j) /\ v = SubSeq(text, i, j)
      BY <2>1 DEF ValuesBefore
    <3>2. b \in Int
      BY <3>1 DEF IsSpan
    <3>3. CASE b < k
      BY <3>1, <3>3 DEF ValuesBefore
    <3>4. CASE b = k
      <4>1. a = s
        BY <1>4, <3>1, <3>4
      <4> QED
        BY <3>1, <3>4, <4>1
    <3> QED
      BY <1>7, <3>1, <3>2, <3>3, <3>4
  <2>2. ASSUME v \in ValuesBefore(text, k)
        PROVE  v \in ValuesBefore(text, k + 1)
    <3>1. PICK a, b, i, j : /\ IsSpan(text, a, b) /\ b < k
                            /\ IsTrim(text, a, b, i, j) /\ v = SubSeq(text, i, j)
      BY <2>2 DEF ValuesBefore
    <3>2. b < k + 1
      BY <3>1 DEF IsSpan
    <3> QED
      BY <3>1, <3>2 DEF ValuesBefore
  <2>3. ASSUME NEW i, NEW j, IsTrim(text, s, k, i, j), v = SubSeq(text, i, j)
        PROVE  v \in ValuesBefore(text, k + 1)
    <3>1. k < k + 1
      OBVIOUS
    <3> QED
      BY <1>3, <2>3, <3>1 DEF ValuesBefore
  <2> QED
    BY <2>1, <2>2, <2>3
<1>9. \A j, l : ValuesBefore(text, l) \subseteq Seq(Nat)
  BY DEF ValuesBefore
<1>10. CASE t = <<>>
  <2>1. \A i, j : ~IsTrim(text, s, k, i, j)
    BY <1>6, <1>10 DEF IsTrimmed
  <2>2. ValuesBefore(text, k + 1) = ValuesBefore(text, k)
    BY <1>8, <1>9, <2>1
  <2>3. WithToken(tokens, span) = tokens
    BY <1>5, <1>10 DEF WithToken
  <2> QED
    BY <2>2, <2>3 DEF Ended
<1>11. CASE t # <<>>
  <2>1. /\ \E i, j : IsTrim(text, s, k, i, j) /\ t = SubSeq(text, i, j)
        /\ \A i, j : IsTrim(text, s, k, i, j) => t = SubSeq(text, i, j)
    BY <1>6, <1>11 DEF IsTrimmed
  <2>2. t \in Seq(Nat)
    <3>1. PICK i, j : IsTrim(text, s, k, i, j) /\ t = SubSeq(text, i, j)
      BY <2>1
    <3>2. i \in 1 .. n + 1 /\ j \in 0 .. n /\ i <= j + 1
      <4>1. i \in s .. k /\ j \in i .. k
        BY <3>1 DEF IsTrim
      <4> QED
        BY ONLY <1>2, <4>1, n \in Nat
    <3> QED
      BY ONLY text \in Seq(Nat), n = Len(text), <3>1, <3>2, PartHasLength
  <2>3. ValuesBefore(text, k + 1) = ValuesBefore(text, k) \cup {t}
    BY <1>8, <1>9, <2>1, <2>2
  <2>4. WithToken(tokens, span) = Append(tokens, t)
    BY <1>5, <1>11 DEF WithToken
  <2>5. Append(tokens, t) \in Seq(Seq(Nat)) /\ ToSet(Append(tokens, t)) = ToSet(tokens) \cup {t}
    BY <2>2, AppendDistinct
  <2> QED
    BY <2>3, <2>4, <2>5 DEF Ended
<1> QED
  BY <1>10, <1>11

\* A letter ends no span.
LEMMA SpanGoesOn ==
    ASSUME NEW text \in Seq(Nat), NEW n \in Nat, n = Len(text), NEW k \in 0 .. n - 1,
           text[k + 1] # Semicolon
    PROVE  ValuesBefore(text, k + 1) = ValuesBefore(text, k)
<1>1. DOMAIN text = 1 .. n
  BY LenProperties
<1>2. ASSUME NEW a, NEW b, IsSpan(text, a, b) PROVE b < k + 1 <=> b < k
  <2>1. b \in 0 .. n /\ \A m \in 1 .. n : m = b + 1 => text[m] = Semicolon
    BY <1>1, <1>2 DEF IsSpan
  <2>2. k + 1 \in 1 .. n
    OBVIOUS
  <2>3. b # k
    BY <2>1, <2>2
  <2> QED
    BY <2>1, <2>3
<1> QED
  BY <1>2 DEF ValuesBefore

Scans == [tokens : Seq(Seq(Nat)), open : Seq(Nat)]

\* The scan has reached k.
ScannedTo(scan, text, k) ==
    /\ scan \in Scans
    /\ \E s : IsOpen(text, s, k) /\ scan.open = SubSeq(text, s, k)
    /\ ToSet(scan.tokens) = ValuesBefore(text, k)

\* A turn keeps its shape.
LEMMA TurnedIsScan ==
    ASSUME NEW scan \in Scans, NEW c \in Nat
    PROVE  Turned(scan, c) \in Scans
<1>1. PICK tokens \in Seq(Seq(Nat)), open \in Seq(Nat) : tokens = scan.tokens /\ open = scan.open
  BY DEF Scans
<1>2. Append(open, c) \in Seq(Nat) /\ <<>> \in Seq(Nat)
  BY AppendProperties, EmptySeq
<1>3. TrimSpan(open) \in Seq(Nat)
  <2>1. PICK n \in Nat : n = Len(open) /\ DOMAIN open = 1 .. n
    BY LenProperties
  <2>2. PICK solid : solid = {i \in DOMAIN open : open[i] # Blank}
    OBVIOUS
  <2>3. TrimSpan(open) = IF solid = {} THEN <<>> ELSE SubSeq(open, Min(solid), Max(solid))
    BY <2>2 DEF TrimSpan
  <2>4. CASE solid # {}
    <3>1. solid \in SUBSET (1 .. n)
      BY <2>1, <2>2
    <3>2. PICK p \in solid, q \in solid :
            p = Min(solid) /\ q = Max(solid) /\ \A x \in solid : p <= x /\ x <= q
      BY ONLY n \in Nat, <2>4, <3>1, Extremes
    <3>3. p \in 1 .. n + 1 /\ q \in 0 .. n /\ p <= q + 1
      BY <3>1, <3>2
    <3>4. TrimSpan(open) = SubSeq(open, p, q)
      BY <2>3, <2>4, <3>2
    <3> QED
      BY ONLY open \in Seq(Nat), <2>1, <3>3, <3>4, PartHasLength
  <2> QED
    BY <1>2, <2>3, <2>4
<1>4. WithToken(tokens, open) \in Seq(Seq(Nat))
  BY <1>3, AppendProperties DEF WithToken
<1> QED
  BY <1>1, <1>2, <1>4 DEF Turned, Scans

\* Each turn takes the scan one letter further.
LEMMA ScanAdvances ==
    ASSUME NEW text \in Seq(Nat), NEW n \in Nat, n = Len(text), NEW k \in 0 .. n - 1,
           NEW scan, ScannedTo(scan, text, k), NEW c, c = text[k + 1]
    PROVE  ScannedTo(Turned(scan, c), text, k + 1)
<1>1. DOMAIN text = 1 .. n
  BY LenProperties
<1>2. PICK s : IsOpen(text, s, k) /\ scan.open = SubSeq(text, s, k)
  BY DEF ScannedTo
<1>3. s \in 1 .. n + 1 /\ k \in 0 .. n /\ s <= k + 1
  BY <1>2 DEF IsOpen
<1>4. PICK tokens \in Seq(Seq(Nat)), open \in Seq(Nat) : tokens = scan.tokens /\ open = scan.open
  BY DEF ScannedTo, Scans
<1>5. ToSet(tokens) = ValuesBefore(text, k) /\ open = SubSeq(text, s, k)
  BY <1>2, <1>4 DEF ScannedTo
<1>6. c \in Nat
  BY <1>1, ElementOfSeq
<1>7. Turned(scan, c) \in Scans
  BY <1>6, TurnedIsScan DEF ScannedTo
<1>8. k + 1 \in 0 .. n /\ k + 1 \in 1 .. n
  OBVIOUS
<1>9. CASE c = Semicolon
  <2>1. ToSet(WithToken(tokens, open)) = ValuesBefore(text, k + 1)
    <3>1. k \in 0 .. n /\ (k = n \/ text[k + 1] = Semicolon)
      BY <1>3, <1>9
    <3> QED
      <4>1. IsOpen(text, s, k) /\ open = SubSeq(text, s, k)
        BY <1>2, <1>5
      <4>2. Ended(WithToken(tokens, open), text, k)
        BY ONLY text \in Seq(Nat), n \in Nat, n = Len(text), <1>4, <1>5, <3>1, <4>1, SpanEnds
      <4> QED
        BY <4>2 DEF Ended
  <2>2. Turned(scan, c).tokens = WithToken(tokens, open) /\ Turned(scan, c).open = <<>>
    BY <1>4, <1>9 DEF Turned
  <2>3. IsOpen(text, k + 2, k + 1)
    <3>1. k + 2 \in 1 .. k + 1 + 1
      OBVIOUS
    <3>2. k + 2 .. k + 1 = {}
      OBVIOUS
    <3>3. ASSUME NEW m \in DOMAIN text, m = k + 2 - 1 PROVE text[m] = Semicolon
      <4>1. m = k + 1
        BY <3>3
      <4> QED
        BY <1>9, <4>1
    <3> QED
      BY <3>1, <3>2, <3>3 DEF IsOpen
  <2>4. SubSeq(text, k + 2, k + 1) = <<>>
    <3>1. k + 2 \in 1 .. n + 1 /\ k + 1 \in 0 .. n /\ k + 2 <= k + 1 + 1 /\ k + 1 - (k + 2) + 1 = 0
      OBVIOUS
    <3>2. PICK v : v = SubSeq(text, k + 2, k + 1)
      OBVIOUS
    <3>3. v \in Seq(Nat) /\ Len(v) = k + 1 - (k + 2) + 1
      BY ONLY text \in Seq(Nat), n = Len(text), <3>1, <3>2, PartHasLength
    <3> QED
      BY <3>1, <3>2, <3>3, EmptySeq
  <2> QED
    BY <1>7, <2>1, <2>2, <2>3, <2>4 DEF ScannedTo
<1>10. CASE c # Semicolon
  <2>1. ValuesBefore(text, k + 1) = ValuesBefore(text, k)
    BY <1>10, SpanGoesOn
  <2>2. Turned(scan, c).tokens = tokens /\ Turned(scan, c).open = Append(open, c)
    BY <1>4, <1>10 DEF Turned
  <2>3. IsOpen(text, s, k + 1)
    <3>1. ASSUME NEW m \in s .. k + 1 PROVE text[m] # Semicolon
      <4>1. CASE m = k + 1
        BY <1>10, <4>1
      <4>2. CASE m \in s .. k
        BY <1>2, <4>2 DEF IsOpen
      <4> QED
        BY <1>3, <4>1, <4>2
    <3>2. s \in 1 .. k + 1 + 1
      BY <1>3
    <3> QED
      BY <1>2, <3>1, <3>2 DEF IsOpen
  <2>4. Append(open, c) = SubSeq(text, s, k + 1)
    <3>1. PICK l \in Nat : l = k - s + 1
      BY <1>3
    <3>2. open \in Seq(Nat) /\ Len(open) = l /\ \A m \in 1 .. l : open[m] = text[s + m - 1]
      <4>1. Len(open) = k - s + 1 /\ \A m \in 1 .. k - s + 1 : open[m] = text[s + m - 1]
        <5>1. IsPart(open, Nat, text, s, k)
          BY ONLY text \in Seq(Nat), n = Len(text), <1>3, <1>5, PartIsPart
        <5> QED
          BY ONLY <5>1 DEF IsPart
      <4> QED
        BY <3>1, <4>1
    <3>3. PICK v, w : v = Append(open, c) /\ w = SubSeq(text, s, k + 1)
      OBVIOUS
    <3>4. v \in Seq(Nat) /\ Len(v) = l + 1 /\ v[l + 1] = c /\ \A m \in 1 .. l : v[m] = open[m]
      BY <1>6, <3>2, <3>3, AppendProperties
    <3>5. s \in 1 .. n + 1 /\ k + 1 \in 0 .. n /\ s <= k + 1 + 1 /\ k + 1 - s + 1 = l + 1
      BY <1>3, <3>1
    <3>6. w \in Seq(Nat) /\ Len(w) = k + 1 - s + 1 /\ \A m \in 1 .. k + 1 - s + 1 : w[m] = text[s + m - 1]
      <4>1. PICK e : e = k + 1
        OBVIOUS
      <4>2. s \in 1 .. n + 1 /\ e \in 0 .. n /\ s <= e + 1 /\ w = SubSeq(text, s, e)
        BY <3>3, <3>5, <4>1
      <4>3. w \in Seq(Nat) /\ Len(w) = e - s + 1 /\ \A m \in 1 .. e - s + 1 : w[m] = text[s + m - 1]
        <5>1. IsPart(w, Nat, text, s, e)
          BY ONLY text \in Seq(Nat), n = Len(text), <4>2, PartIsPart
        <5> QED
          BY ONLY <5>1 DEF IsPart
      <4>4. e - s + 1 = k + 1 - s + 1
        BY <1>3, <4>1
      <4> QED
        BY ONLY <4>3, <4>4
    <3>7. ASSUME NEW m \in 1 .. l + 1 PROVE v[m] = w[m]
      <4>1. w[m] = text[s + m - 1]
        BY <3>5, <3>6
      <4>2. CASE m = l + 1
        <5>1. s + m - 1 = k + 1
          BY <1>3, <3>1, <4>2
        <5> QED
          BY <3>4, <4>1, <4>2, <5>1
      <4>3. CASE m \in 1 .. l
        BY <3>2, <3>4, <4>1, <4>3
      <4> QED
        BY <4>2, <4>3
    <3>8. Len(w) = l + 1
      BY <3>5, <3>6
    <3>9. v = w
      BY ONLY <3>4, <3>6, <3>7, <3>8, SameElements
    <3> QED
      BY <3>3, <3>9
  <2> QED
    BY <1>5, <1>7, <2>1, <2>2, <2>3, <2>4 DEF ScannedTo
<1> QED
  BY <1>9, <1>10

\* The scan reaches the end of the text.
LEMMA ScanReachesTheEnd ==
    ASSUME NEW text \in Seq(Nat), NEW n \in Nat, n = Len(text)
    PROVE  ScannedTo(Scan(text), text, n)
<1> DEFINE base == [tokens |-> <<>>, open |-> <<>>]
           Folds(w) == w = [T \in SUBSET DOMAIN text |->
                              IF T = {} THEN base ELSE Turned(w[T \ {Max(T)}], text[Max(T)])]
           fold == CHOOSE v : Folds(v)
           step == [x \in 1 .. n |-> [v \in Scans |-> Turned(v, text[x])]]
<1>0. DOMAIN text = 1 .. n /\ \A x \in 1 .. n : text[x] \in Nat
  BY LenProperties, ElementOfSeq
<1>1. Scan(text) = fold[DOMAIN text]
  BY DEF Scan, FoldLeft, MapThenFoldSet
<1>2. base \in Scans
  BY EmptySeq DEF Scans
<1>3. \A x \in 1 .. n : \A v \in Scans : step[x][v] \in Scans
  BY <1>0, TurnedIsScan
<1>4. PICK iter \in [SUBSET (1 .. n) -> Scans] :
             /\ \A T \in SUBSET (1 .. n) : T # {} => Max(T) \in T
             /\ OrderedFold(iter, base, step, n)
  <2>1. PICK b, s : b = base /\ s = step
    OBVIOUS
  <2> HIDE DEF base, step
  <2>2. b \in Scans /\ \A x \in 1 .. n : \A v \in Scans : s[x][v] \in Scans
    BY <1>2, <1>3, <2>1
  <2>3. \E iter \in [SUBSET (1 .. n) -> Scans] :
          /\ \A T \in SUBSET (1 .. n) : T # {} => Max(T) \in T
          /\ OrderedFold(iter, b, s, n)
    BY ONLY n \in Nat, <2>2, OrderedFoldsExist
  <2> QED
    BY <2>1, <2>3
<1>5. Folds(iter)
  <2>1. \A T \in SUBSET (1 .. n) : T # {} =>
          step[Max(T)][iter[T \ {Max(T)}]] = Turned(iter[T \ {Max(T)}], text[Max(T)])
    BY <1>4
  <2> HIDE DEF base, step
  <2> QED
    BY <1>0, <1>4, <2>1 DEF OrderedFold
<1>6. Folds(fold)
  <2> HIDE DEF Folds
  <2> QED
    BY <1>5
<1>7. FoldsInOrder(fold, base, step, Scans, n)
  <2>1. fold[{}] = base
    <3> HIDE DEF fold, base
    <3> QED
      BY <1>6
  <2>2. ASSUME NEW T \in SUBSET (1 .. n), T # {}, fold[T \ {Max(T)}] \in Scans
        PROVE  fold[T] = step[Max(T)][fold[T \ {Max(T)}]]
    <3>1. fold[T] = Turned(fold[T \ {Max(T)}], text[Max(T)])
      <4> HIDE DEF fold, base
      <4> QED
        BY <1>0, <1>6, <2>2
    <3> HIDE DEF fold
    <3> QED
      BY <1>4, <2>2, <3>1
  <2> HIDE DEF fold, base, step
  <2> QED
    BY <2>1, <2>2 DEF FoldsInOrder
<1> DEFINE f(k) == fold[1 .. k]
<1>8. /\ f(0) = base
      /\ \A k \in 0 .. n : f(k) \in Scans
      /\ \A k \in 1 .. n : f(k) = step[k][f(k - 1)]
  <2>1. PICK b, s, w : b = base /\ s = step /\ w = fold
    OBVIOUS
  <2> HIDE DEF fold, base, step
  <2>2. /\ b \in Scans /\ \A x \in 1 .. n : \A v \in Scans : s[x][v] \in Scans
        /\ FoldsInOrder(w, b, s, Scans, n)
    BY <1>2, <1>3, <1>7, <2>1
  <2>3. StepByStep(w, b, s, Scans, n)
    BY ONLY n \in Nat, <2>2, OrderedFolds
  <2> QED
    BY <2>1, <2>3 DEF StepByStep
<1>9. fold[DOMAIN text] = f(n)
  BY <1>0
<1> HIDE DEF fold, f
<1>10. ASSUME NEW k \in 1 .. n PROVE f(k) = Turned(f(k - 1), text[k])
  <2>1. k - 1 \in 0 .. n
    OBVIOUS
  <2>2. f(k - 1) \in Scans /\ f(k) = step[k][f(k - 1)]
    BY <1>8, <2>1
  <2>3. \A v \in Scans : step[k][v] = Turned(v, text[k])
    OBVIOUS
  <2> HIDE DEF step
  <2> QED
    BY <2>2, <2>3
<1> DEFINE N == {k \in Nat : k <= n => ScannedTo(f(k), text, k)}
<1>11. 0 \in N
  <2>1. IsOpen(text, 1, 0)
    BY <1>0 DEF IsOpen
  <2>2. SubSeq(text, 1, 0) = <<>>
    <3>1. 1 \in 1 .. n + 1 /\ 0 \in 0 .. n /\ 1 <= 0 + 1 /\ 0 - 1 + 1 = 0
      OBVIOUS
    <3>2. PICK v : v = SubSeq(text, 1, 0)
      OBVIOUS
    <3>3. v \in Seq(Nat) /\ Len(v) = 0 - 1 + 1
      BY ONLY text \in Seq(Nat), n = Len(text), <3>1, <3>2, PartHasLength
    <3> QED
      BY <3>1, <3>2, <3>3, EmptySeq
  <2>3. ValuesBefore(text, 0) = {}
    BY DEF ValuesBefore, IsSpan
  <2>4. ToSet(<<>>) = {}
    BY DEF ToSet
  <2>5. base.tokens = <<>> /\ base.open = <<>>
    OBVIOUS
  <2>6. ScannedTo(base, text, 0)
    <3>1. base.open = SubSeq(text, 1, 0) /\ ToSet(base.tokens) = ValuesBefore(text, 0)
      BY <2>2, <2>3, <2>4, <2>5
    <3> HIDE DEF base
    <3> QED
      BY <1>2, <2>1, <3>1 DEF ScannedTo
  <2> HIDE DEF base
  <2> QED
    BY <1>8, <2>6
<1>12. ASSUME NEW k \in Nat, k \in N
       PROVE  k + 1 \in N
  <2> SUFFICES ASSUME k + 1 <= n PROVE ScannedTo(f(k + 1), text, k + 1)
    OBVIOUS
  <2>1. PICK j \in 1 .. n : j = k + 1 /\ j - 1 = k
    OBVIOUS
  <2>2. k \in 0 .. n - 1 /\ ScannedTo(f(k), text, k)
    BY <1>12, <2>1
  <2>3. f(k + 1) = Turned(f(k), text[k + 1])
    BY <1>10, <2>1
  <2>4. PICK scan, c : scan = f(k) /\ c = text[k + 1]
    OBVIOUS
  <2>5. ScannedTo(scan, text, k)
    BY <2>2, <2>4
  <2>6. ScannedTo(Turned(scan, c), text, k + 1)
    BY ONLY text \in Seq(Nat), n \in Nat, n = Len(text), <2>2, <2>4, <2>5, ScanAdvances
  <2> QED
    BY <2>3, <2>4, <2>6
<1>13. Nat \subseteq N
  <2> HIDE DEF N
  <2> QED
    BY <1>11, <1>12, NaturalsByInduction
<1>14. ScannedTo(f(n), text, n)
  BY <1>13
<1> QED
  BY <1>1, <1>9, <1>14

\* The tokens of a text are its values.
LEMMA TokensAreTheValues ==
    ASSUME NEW text \in Seq(Nat)
    PROVE  Tokens(text) \in Seq(Seq(Nat)) /\ ToSet(Tokens(text)) = Delimited(text)
<1>1. PICK n \in Nat : n = Len(text)
  BY LenProperties
<1>2. PICK scan : scan = Scan(text)
  OBVIOUS
<1>3. ScannedTo(scan, text, n)
  BY <1>1, <1>2, ScanReachesTheEnd
<1>4. PICK s : IsOpen(text, s, n) /\ scan.open = SubSeq(text, s, n)
  BY <1>3 DEF ScannedTo
<1>5. PICK tokens \in Seq(Seq(Nat)), span \in Seq(Nat) : tokens = scan.tokens /\ span = scan.open
  BY <1>3 DEF ScannedTo, Scans
<1>6. ToSet(tokens) = ValuesBefore(text, n) /\ span = SubSeq(text, s, n)
  BY <1>3, <1>4, <1>5 DEF ScannedTo
<1>7. n \in 0 .. n /\ (n = n \/ text[n + 1] = Semicolon)
  OBVIOUS
<1>8. Ended(WithToken(tokens, span), text, n)
  BY ONLY text \in Seq(Nat), n \in Nat, <1>1, <1>4, <1>5, <1>6, <1>7, SpanEnds
<1>9. Tokens(text) = WithToken(tokens, span)
  BY <1>2, <1>5 DEF Tokens
<1> QED
  BY <1>1, <1>8, <1>9, AllValues DEF Ended

\* A part of a text is told by its length and its letters.
LEMMA PartIsTold ==
    ASSUME NEW text \in Seq(Nat), NEW n, n = Len(text),
           NEW p \in 1 .. n + 1, NEW q \in 0 .. n, p <= q + 1, NEW t \in Seq(Nat)
    PROVE  t = SubSeq(text, p, q) <=> IsPart(t, Nat, text, p, q)
<1>1. PICK u : u = SubSeq(text, p, q)
  OBVIOUS
<1>2. IsPart(u, Nat, text, p, q)
  BY ONLY text \in Seq(Nat), n = Len(text), p \in 1 .. n + 1, q \in 0 .. n, p <= q + 1, <1>1,
     PartIsPart
<1>3. ASSUME IsPart(t, Nat, text, p, q) PROVE t = u
  <2>1. PICK l : l = q - p + 1
    OBVIOUS
  <2>2. u \in Seq(Nat) /\ Len(u) = l /\ \A k \in 1 .. l : u[k] = text[p + k - 1]
    BY <1>2, <2>1 DEF IsPart
  <2>3. Len(t) = l /\ \A k \in 1 .. l : t[k] = text[p + k - 1]
    BY <1>3, <2>1 DEF IsPart
  <2>4. \A k \in 1 .. l : t[k] = u[k]
    BY <2>2, <2>3
  <2> QED
    BY ONLY t \in Seq(Nat), <2>2, <2>3, <2>4, SameElements
<1> QED
  BY <1>1, <1>2, <1>3

\* The driver looks for a part at every place it fits.
LEMMA ContainedIsOccurring ==
    ASSUME NEW text \in Seq(Nat), NEW part \in Seq(Nat)
    PROVE  ContainsInsensitive(text, part) <=> Occurs(part, text)
<1>1. PICK n \in Nat, m \in Nat : n = Len(text) /\ m = Len(part)
  BY LenProperties
<1>2. ASSUME ContainsInsensitive(text, part) PROVE Occurs(part, text)
  <2>1. PICK i \in 0 .. n - m : SubSeq(text, i + 1, i + m) = part
    BY <1>1, <1>2 DEF ContainsInsensitive
  <2>2. PICK after \in Nat : after = n - (i + m)
    BY <2>1
  <2>3. after \in 0 .. n /\ i \in 0 .. n /\ i + after <= n /\ n - after = i + m
    BY <2>2
  <2>4. SubSeq(text, i + 1, n - after) = part
    BY <2>1, <2>3
  <2> QED
    BY <1>1, <2>3, <2>4 DEF Occurs
<1>3. ASSUME Occurs(part, text) PROVE ContainsInsensitive(text, part)
  <2>1. PICK before \in 0 .. n, after \in 0 .. n :
          before + after <= n /\ SubSeq(text, before + 1, n - after) = part
    BY <1>1, <1>3 DEF Occurs
  <2>2. PICK p \in Nat, q \in Nat : p = before + 1 /\ q = n - after
    BY <2>1
  <2>3. p \in 1 .. n + 1 /\ q \in 0 .. n /\ p <= q + 1 /\ part = SubSeq(text, p, q)
    BY <2>1, <2>2
  <2>4. IsPart(part, Nat, text, p, q)
    BY ONLY text \in Seq(Nat), <1>1, <2>3, PartIsPart
  <2>5. m = q - p + 1
    BY ONLY <1>1, <2>4 DEF IsPart
  <2>6. before \in 0 .. n - m /\ before + m = n - after
    BY <2>1, <2>2, <2>5
  <2>7. SubSeq(text, before + 1, before + m) = part
    BY <2>1, <2>6
  <2> QED
    BY <1>1, <2>6, <2>7 DEF ContainsInsensitive
<1> QED
  BY <1>2, <1>3

\* A text begins with the letters of a value.
Begins(value, text, m, n) == m <= n /\ \A k \in 1 .. m : value[k] = text[k]

\* IsPrefix says so.
LEMMA PrefixIsTold ==
    ASSUME NEW text \in Seq(Nat), NEW value \in Seq(Nat), NEW n \in Nat, n = Len(text),
           NEW m \in Nat, m = Len(value)
    PROVE  IsPrefix(value, text) <=> Begins(value, text, m, n)
<1>1. SubSeq(value, 1, m) = value
  <2>1. 1 \in 1 .. m + 1 /\ m \in 0 .. m /\ 1 <= m + 1
    OBVIOUS
  <2>2. IsPart(value, Nat, value, 1, m)
    <3>1. \A k \in 1 .. m : 1 + k - 1 = k
      OBVIOUS
    <3>2. m - 1 + 1 = m
      OBVIOUS
    <3> QED
      BY <3>1, <3>2 DEF IsPart
  <2> QED
    BY ONLY value \in Seq(Nat), m = Len(value), <2>1, <2>2, PartIsTold
<1>2. ASSUME m <= n
      PROVE  value = SubSeq(text, 1, m) <=> \A k \in 1 .. m : value[k] = text[k]
  <2>1. 1 \in 1 .. n + 1 /\ m \in 0 .. n /\ 1 <= m + 1
    BY <1>2
  <2>2. value = SubSeq(text, 1, m) <=> IsPart(value, Nat, text, 1, m)
    BY ONLY text \in Seq(Nat), n = Len(text), value \in Seq(Nat), <2>1, PartIsTold
  <2>3. IsPart(value, Nat, text, 1, m) <=> \A k \in 1 .. m : value[k] = text[k]
    <3>1. \A k \in 1 .. m : 1 + k - 1 = k
      OBVIOUS
    <3>2. m - 1 + 1 = m
      OBVIOUS
    <3> QED
      BY <3>1, <3>2 DEF IsPart
  <2> QED
    BY <2>2, <2>3
<1> QED
  BY <1>1, <1>2 DEF IsPrefix, Begins

\* What "begin with" is documented to mean.
LEMMA PrefixIsPart ==
    ASSUME NEW text \in Seq(Nat), NEW value \in Seq(Nat)
    PROVE  IsPrefix(value, text) <=> \E k \in 0 .. Len(text) : value = SubSeq(text, 1, k)
<1>1. PICK n \in Nat, m \in Nat : n = Len(text) /\ m = Len(value)
  BY LenProperties
<1>2. ASSUME NEW k \in 0 .. n
      PROVE  value = SubSeq(text, 1, k) <=> m = k /\ \A x \in 1 .. m : value[x] = text[x]
  <2>1. 1 \in 1 .. n + 1 /\ k \in 0 .. n /\ 1 <= k + 1
    OBVIOUS
  <2>2. value = SubSeq(text, 1, k) <=> IsPart(value, Nat, text, 1, k)
    BY ONLY text \in Seq(Nat), <1>1, value \in Seq(Nat), <2>1, PartIsTold
  <2>3. IsPart(value, Nat, text, 1, k) <=> m = k /\ \A x \in 1 .. m : value[x] = text[x]
    <3>1. \A x \in 1 .. k : 1 + x - 1 = x
      OBVIOUS
    <3>2. k - 1 + 1 = k
      OBVIOUS
    <3> QED
      BY <1>1, <3>1, <3>2 DEF IsPart
  <2> QED
    BY <2>2, <2>3
<1>3. IsPrefix(value, text) <=> m <= n /\ \A k \in 1 .. m : value[k] = text[k]
  BY <1>1, PrefixIsTold DEF Begins
<1>4. m <= n <=> m \in 0 .. n
  OBVIOUS
<1> QED
  BY <1>1, <1>2, <1>3, <1>4

\* r is s, backwards.
IsReversed(r, s, l) ==
    r \in Seq(Nat) /\ l = Len(r) /\ \A k \in 1 .. l : r[k] = s[l - k + 1]

\* Reverse is that.
LEMMA ReversedIs ==
    ASSUME NEW s \in Seq(Nat), NEW l \in Nat, l = Len(s), NEW r, r = Reverse(s)
    PROVE  IsReversed(r, s, l)
<1>1. r = [k \in 1 .. l |-> s[l - k + 1]]
  BY DEF Reverse
<1>2. \A k \in 1 .. l : l - k + 1 \in 1 .. Len(s)
  OBVIOUS
<1>3. \A k \in 1 .. l : s[l - k + 1] \in Nat
  BY <1>2, ElementOfSeq
<1>4. r \in [1 .. l -> Nat]
  BY <1>1, <1>3
<1>5. r \in Seq(Nat) /\ l = Len(r)
  BY ONLY l \in Nat, <1>4, FunctionsAreSequences
<1> QED
  BY <1>1, <1>5 DEF IsReversed

\* What "end with" is documented to mean.
LEMMA SuffixIsPart ==
    ASSUME NEW text \in Seq(Nat), NEW value \in Seq(Nat)
    PROVE  IsSuffix(value, text)
             <=> \E k \in 1 .. Len(text) + 1 : value = SubSeq(text, k, Len(text))
<1>1. PICK n \in Nat, m \in Nat : n = Len(text) /\ m = Len(value)
                                  /\ DOMAIN text = 1 .. n /\ DOMAIN value = 1 .. m
  BY LenProperties
<1>2. PICK t, v : t = Reverse(text) /\ v = Reverse(value)
  OBVIOUS
<1>3. /\ t \in Seq(Nat) /\ n = Len(t) /\ \A k \in 1 .. n : t[k] = text[n - k + 1]
      /\ v \in Seq(Nat) /\ m = Len(v) /\ \A k \in 1 .. m : v[k] = value[m - k + 1]
  <2>1. IsReversed(t, text, n)
    BY <1>1, <1>2, ReversedIs
  <2>2. IsReversed(v, value, m)
    BY <1>1, <1>2, ReversedIs
  <2> QED
    BY <2>1, <2>2 DEF IsReversed
<1>4. IsSuffix(value, text) <=> m <= n /\ \A k \in 1 .. m : v[k] = t[k]
  <2>1. IsPrefix(v, t) <=> m <= n /\ \A k \in 1 .. m : v[k] = t[k]
    <3>1. IsPrefix(v, t) <=> Begins(v, t, m, n)
      BY ONLY n \in Nat, m \in Nat, <1>3, PrefixIsTold
    <3> QED
      BY <3>1 DEF Begins
  <2> QED
    BY <1>2, <2>1 DEF IsSuffix
<1>5. ASSUME NEW k \in 1 .. n + 1
      PROVE  value = SubSeq(text, k, n)
               <=> m = n - k + 1 /\ \A x \in 1 .. m : value[x] = text[k + x - 1]
  <2>1. k \in 1 .. n + 1 /\ n \in 0 .. n /\ k <= n + 1
    OBVIOUS
  <2>2. value = SubSeq(text, k, n) <=> IsPart(value, Nat, text, k, n)
    BY ONLY text \in Seq(Nat), <1>1, value \in Seq(Nat), <2>1, PartIsTold
  <2>3. IsPart(value, Nat, text, k, n)
          <=> m = n - k + 1 /\ \A x \in 1 .. m : value[x] = text[k + x - 1]
    BY <1>1 DEF IsPart
  <2> QED
    BY <2>2, <2>3
<1>6. ASSUME m <= n
      PROVE  (\A k \in 1 .. m : v[k] = t[k]) <=> \A x \in 1 .. m : value[x] = text[n - m + x]
  <2>1. ASSUME \A k \in 1 .. m : v[k] = t[k], NEW x \in 1 .. m
        PROVE  value[x] = text[n - m + x]
    <3>1. PICK k \in 1 .. m : k = m - x + 1
      BY <2>1
    <3>2. m - k + 1 = x /\ n - k + 1 = n - m + x /\ k \in 1 .. n
      BY <1>6, <3>1
    <3>3. v[k] = value[x] /\ t[k] = text[n - m + x]
      BY <1>3, <3>2
    <3> QED
      BY <2>1, <3>3
  <2>2. ASSUME \A x \in 1 .. m : value[x] = text[n - m + x], NEW k \in 1 .. m
        PROVE  v[k] = t[k]
    <3>1. PICK x \in 1 .. m : x = m - k + 1
      BY <2>2
    <3>2. n - k + 1 = n - m + x /\ k \in 1 .. n
      BY <1>6, <3>1
    <3>3. v[k] = value[x] /\ t[k] = text[n - m + x]
      BY <1>3, <3>1, <3>2
    <3> QED
      BY <2>2, <3>3
  <2> QED
    BY <2>1, <2>2
<1>7. ASSUME IsSuffix(value, text)
      PROVE  \E k \in 1 .. n + 1 : value = SubSeq(text, k, n)
  <2>1. m <= n /\ \A x \in 1 .. m : value[x] = text[n - m + x]
    BY <1>4, <1>6, <1>7
  <2>2. PICK k \in 1 .. n + 1 : k = n - m + 1
    BY <2>1
  <2>3. m = n - k + 1 /\ \A x \in 1 .. m : n - m + x = k + x - 1
    BY <2>2
  <2>4. \A x \in 1 .. m : value[x] = text[k + x - 1]
    BY <2>1, <2>3
  <2> QED
    BY <1>5, <2>3, <2>4
<1>8. ASSUME NEW k \in 1 .. n + 1, value = SubSeq(text, k, n)
      PROVE  IsSuffix(value, text)
  <2>1. m = n - k + 1 /\ \A x \in 1 .. m : value[x] = text[k + x - 1]
    BY <1>5, <1>8
  <2>2. m <= n /\ \A x \in 1 .. m : n - m + x = k + x - 1
    BY <2>1
  <2>3. \A x \in 1 .. m : value[x] = text[n - m + x]
    BY <2>1, <2>2
  <2> QED
    BY <1>4, <1>6, <2>2, <2>3
<1> QED
  BY <1>1, <1>7, <1>8

\* A text is before another one: it is the beginning of it, or the first letter
\* that differs is the smaller one.
Precedes(a, b) ==
    \/ Len(a) < Len(b) /\ a = SubSeq(b, 1, Len(a))
    \/ \E k \in DOMAIN a \cap DOMAIN b : a[k] < b[k] /\ \A i \in 1 .. k - 1 : a[i] = b[i]

\* Less finds the longest common beginning, which tells the same.
LEMMA LessPrecedes ==
    ASSUME NEW a \in Seq(Nat), NEW b \in Seq(Nat)
    PROVE  Less(a, b) <=> Precedes(a, b)
<1>1. PICK n \in Nat, m \in Nat : /\ n = Len(a) /\ m = Len(b)
                                  /\ DOMAIN a = 1 .. n /\ DOMAIN b = 1 .. m
  BY LenProperties
<1>2. \A k \in 1 .. n : a[k] \in Nat
  BY <1>1, ElementOfSeq
<1>3. \A k \in 1 .. m : b[k] \in Nat
  BY <1>1, ElementOfSeq
<1>4. PICK same : same = {i \in 0 .. n : i <= m /\ \A k \in 1 .. i : a[k] = b[k]}
  OBVIOUS
<1>5. 0 \in same
  BY <1>4
<1>6. PICK h \in same : \A k \in same : k <= h
  <2>1. \A i \in same : i <= n /\ i \in Nat
    BY <1>4
  <2>2. PICK p \in Nat : /\ \E i \in same : p = n - i
                         /\ \A q \in Nat : (\E i \in same : q = n - i) => p <= q
    <3> DEFINE Q == {q \in Nat : \E i \in same : q = n - i}
    <3>1. Q \subseteq Nat /\ Q # {}
      <4>1. n \in Q
        BY <1>5
      <4> QED
        BY <4>1
    <3>2. PICK p \in Q : \A q \in Q : p <= q
      <4> HIDE DEF Q
      <4> QED
        BY <3>1, LeastNatural
    <3> QED
      BY <3>2
  <2>3. PICK i \in same : p = n - i
    BY <2>2
  <2>4. \A k \in same : k <= i
    <3> SUFFICES ASSUME NEW k \in same PROVE k <= i
      OBVIOUS
    <3>1. PICK q \in Nat : q = n - k
      BY <2>1
    <3>2. p <= q
      BY <2>2, <3>1
    <3> QED
      BY <2>1, <2>3, <3>1, <3>2
  <2> QED
    BY <2>4
<1>7. h \in 0 .. n /\ h <= m /\ \A k \in 1 .. h : a[k] = b[k]
  BY <1>4, <1>6
<1>8. \A i \in same : (\A k \in same : k <= i) => i = h
  <2>1. \A i \in same : i \in Nat
    BY <1>4
  <2> QED
    BY <1>6, <2>1
<1>9. Less(a, b) <=> h < m /\ (h = n \/ a[h + 1] < b[h + 1])
  <2>1. (CHOOSE i \in same : \A k \in same : k <= i) = h
    BY <1>6, <1>8
  <2> QED
    BY <1>1, <1>4, <2>1 DEF Less
<1>10. ASSUME h < n, h < m PROVE a[h + 1] # b[h + 1]
  <2> SUFFICES ASSUME a[h + 1] = b[h + 1] PROVE FALSE
    OBVIOUS
  <2>1. \A k \in 1 .. h + 1 : a[k] = b[k]
    <3> SUFFICES ASSUME NEW k \in 1 .. h + 1 PROVE a[k] = b[k]
      OBVIOUS
    <3>1. k = h + 1 \/ k \in 1 .. h
      BY <1>7
    <3> QED
      BY <1>7, <3>1
  <2>2. h + 1 \in same
    BY <1>4, <1>7, <1>10, <2>1
  <2>3. h + 1 <= h
    BY <1>6, <2>2
  <2> QED
    BY <1>7, <2>3
<1>11. ASSUME n < m
       PROVE  a = SubSeq(b, 1, n) <=> h = n
  <2>1. 1 \in 1 .. m + 1 /\ n \in 0 .. m /\ 1 <= n + 1
    BY <1>11
  <2>2. a = SubSeq(b, 1, n) <=> IsPart(a, Nat, b, 1, n)
    <3>1. m = Len(b)
      BY <1>1
    <3> QED
      BY ONLY b \in Seq(Nat), <3>1, a \in Seq(Nat), <2>1, PartIsTold
  <2>3. IsPart(a, Nat, b, 1, n) <=> \A k \in 1 .. n : a[k] = b[k]
    <3>1. \A x \in 1 .. n : 1 + x - 1 = x
      OBVIOUS
    <3>2. n - 1 + 1 = n
      OBVIOUS
    <3> QED
      BY <1>1, <3>1, <3>2 DEF IsPart
  <2>4. (\A k \in 1 .. n : a[k] = b[k]) => n \in same
    BY <1>4, <1>11
  <2>5. n \in same => h = n
    BY <1>6, <1>7
  <2> QED
    BY <1>7, <2>2, <2>3, <2>4, <2>5
<1>12. ASSUME NEW k \in 1 .. n, k \in 1 .. m
       PROVE  (a[k] < b[k] /\ \A i \in 1 .. k - 1 : a[i] = b[i])
                <=> k = h + 1 /\ a[k] < b[k]
  <2>1. ASSUME a[k] < b[k], \A i \in 1 .. k - 1 : a[i] = b[i]
        PROVE  k = h + 1
    <3>1. k - 1 \in same
      BY <1>4, <1>12, <2>1
    <3>2. k - 1 <= h
      BY <1>6, <3>1
    <3>3. a[k] # b[k]
      BY <1>2, <1>3, <1>12, <2>1
    <3>4. ~(k <= h)
      BY <1>7, <1>12, <3>3
    <3> QED
      BY <1>7, <1>12, <3>2, <3>4
  <2>2. ASSUME k = h + 1 PROVE \A i \in 1 .. k - 1 : a[i] = b[i]
    <3>1. k - 1 = h
      BY <1>7, <2>2
    <3> QED
      BY <1>7, <3>1
  <2> QED
    BY <2>1, <2>2
<1>13. (\E k \in DOMAIN a \cap DOMAIN b : a[k] < b[k] /\ \A i \in 1 .. k - 1 : a[i] = b[i])
         <=> h < n /\ h < m /\ a[h + 1] < b[h + 1]
  <2>1. h < n /\ h < m <=> h + 1 \in 1 .. n /\ h + 1 \in 1 .. m
    BY <1>7
  <2>2. DOMAIN a \cap DOMAIN b = {k \in 1 .. n : k \in 1 .. m}
    BY <1>1
  <2> QED
    BY <1>12, <2>1, <2>2
<1>14. (n < m /\ a = SubSeq(b, 1, n)) <=> h < m /\ h = n
  BY <1>11
<1>15. Precedes(a, b) <=> (h < m /\ h = n) \/ (h < n /\ h < m /\ a[h + 1] < b[h + 1])
  BY <1>1, <1>13, <1>14 DEF Precedes
<1>16. h < n \/ h = n
  BY <1>7
<1> QED
  BY <1>9, <1>15, <1>16

\* Every condition means what is documented, given the tokens of the value.
LEMMA ConditionIsDocumented ==
    ASSUME NEW text \in Seq(Nat), NEW value \in Seq(Nat), Delimited(value) # {},
           NEW tokens \in Seq(Seq(Nat)), ToSet(tokens) = Delimited(value),
           NEW c \in Conditions
    PROVE  EvaluateCondition(c, text, value, tokens) <=> Documented(c, text, value)
<1>1. PICK values : values = Delimited(value) /\ ToSet(tokens) = values
  OBVIOUS
<1>2. ContainsInsensitive(text, value) <=> Occurs(value, text)
  BY ContainedIsOccurring
<1>3. tokens # <<>>
  BY DEF ToSet
<1>4. \A v \in values : ContainsInsensitive(text, v) <=> Occurs(v, text)
  <2> SUFFICES ASSUME NEW v \in values
               PROVE  ContainsInsensitive(text, v) <=> Occurs(v, text)
    OBVIOUS
  <2>1. v \in Seq(Nat)
    BY <1>1, ElementOfSeq DEF ToSet
  <2> QED
    BY <2>1, ContainedIsOccurring
<1>5. \A v \in values : /\ (ContainsInsensitive(text, v) # FALSE) <=> Occurs(v, text)
                        /\ (ContainsInsensitive(text, v) # TRUE) <=> ~Occurs(v, text)
  <2> SUFFICES ASSUME NEW v \in values
               PROVE  /\ (ContainsInsensitive(text, v) # FALSE) <=> Occurs(v, text)
                      /\ (ContainsInsensitive(text, v) # TRUE) <=> ~Occurs(v, text)
    OBVIOUS
  <2>1. ContainsInsensitive(text, v) \in BOOLEAN
    BY DEF ContainsInsensitive
  <2> QED
    BY <1>4, <2>1
<1>6. MatchAnyToken(text, tokens, FALSE, FALSE) <=> \E v \in values : Occurs(v, text)
  <2>1. MatchAnyToken(text, tokens, FALSE, FALSE)
          <=> tokens # <<>> /\ \E v \in ToSet(tokens) : ContainsInsensitive(text, v) # FALSE
    BY DEF MatchAnyToken
  <2>2. (\E v \in values : ContainsInsensitive(text, v) # FALSE)
          <=> \E v \in values : Occurs(v, text)
    BY ONLY <1>5
  <2> QED
    BY ONLY <1>1, <1>3, <2>1, <2>2
<1>7. MatchAnyToken(text, tokens, TRUE, FALSE) <=> \A v \in values : Occurs(v, text)
  <2>1. MatchAnyToken(text, tokens, TRUE, FALSE)
          <=> tokens # <<>> /\ \A v \in ToSet(tokens) : ContainsInsensitive(text, v) # FALSE
    BY DEF MatchAnyToken
  <2>2. (\A v \in values : ContainsInsensitive(text, v) # FALSE)
          <=> \A v \in values : Occurs(v, text)
    BY ONLY <1>5
  <2> QED
    BY ONLY <1>1, <1>3, <2>1, <2>2
<1>8. MatchAnyToken(text, tokens, FALSE, TRUE) <=> \E v \in values : ~Occurs(v, text)
  <2>1. MatchAnyToken(text, tokens, FALSE, TRUE)
          <=> tokens # <<>> /\ \E v \in ToSet(tokens) : ContainsInsensitive(text, v) # TRUE
    BY DEF MatchAnyToken
  <2>2. (\E v \in values : ContainsInsensitive(text, v) # TRUE)
          <=> \E v \in values : ~Occurs(v, text)
    BY ONLY <1>5
  <2> QED
    BY ONLY <1>1, <1>3, <2>1, <2>2
<1>9. MatchAnyToken(text, tokens, TRUE, TRUE) <=> \A v \in values : ~Occurs(v, text)
  <2>1. MatchAnyToken(text, tokens, TRUE, TRUE)
          <=> tokens # <<>> /\ \A v \in ToSet(tokens) : ContainsInsensitive(text, v) # TRUE
    BY DEF MatchAnyToken
  <2>2. (\A v \in values : ContainsInsensitive(text, v) # TRUE)
          <=> \A v \in values : ~Occurs(v, text)
    BY ONLY <1>5
  <2> QED
    BY ONLY <1>1, <1>3, <2>1, <2>2
<1>10. Less(text, value) <=> Precedes(text, value)
  BY LessPrecedes
<1>11. Less(value, text) <=> Precedes(value, text)
  BY LessPrecedes
<1>12. CASE c = "is"
  BY <1>1, <1>12 DEF EvaluateCondition, Documented
<1>13. CASE c = "is not"
  BY <1>1, <1>13 DEF EvaluateCondition, Documented
<1>14. CASE c = "contains"
  BY <1>1, <1>14, <1>2 DEF EvaluateCondition, Documented
<1>15. CASE c = "excludes"
  BY <1>1, <1>15, <1>2 DEF EvaluateCondition, Documented
<1>16. CASE c = "is any"
  BY <1>16 DEF EvaluateCondition, Documented
<1>17. CASE c = "contains any"
  BY <1>1, <1>17, <1>6 DEF EvaluateCondition, Documented
<1>18. CASE c = "contains all"
  BY <1>1, <1>18, <1>7 DEF EvaluateCondition, Documented
<1>19. CASE c = "excludes any"
  BY <1>1, <1>19, <1>8 DEF EvaluateCondition, Documented
<1>20. CASE c = "excludes all"
  BY <1>1, <1>20, <1>9 DEF EvaluateCondition, Documented
<1>21. CASE c = "begin with"
  BY <1>1, <1>21, PrefixIsPart DEF EvaluateCondition, Documented
<1>22. CASE c = "not begin with"
  BY <1>1, <1>22, PrefixIsPart DEF EvaluateCondition, Documented
<1>23. CASE c = "end with"
  BY <1>1, <1>23, SuffixIsPart DEF EvaluateCondition, Documented
<1>24. CASE c = "not end with"
  BY <1>1, <1>24, SuffixIsPart DEF EvaluateCondition, Documented
<1>25. CASE c = "less than"
  BY <1>1, <1>25, <1>10 DEF EvaluateCondition, Documented, Precedes
<1>26. CASE c = "more than"
  BY <1>1, <1>26, <1>11 DEF EvaluateCondition, Documented, Precedes
<1>27. CASE c = "image"
  BY <1>1, <1>27, SuffixIsPart DEF EvaluateCondition, Documented
<1> QED
  BY <1>12, <1>13, <1>14, <1>15, <1>16, <1>17, <1>18, <1>19, <1>20, <1>21, <1>22, <1>23, <1>24, <1>25, <1>26, <1>27 DEF Conditions

\* Letters, blanks and separators are numbers.
TextTyped == fieldText \in Seq(Nat) /\ ruleText \in Seq(Nat)

\* They are, whatever is written.
LEMMA TextStaysTyped == TextSpec => []TextTyped
<1>1. TextInit => TextTyped
  BY EmptySeq DEF TextInit, TextTyped
<1>2. TextTyped /\ [TextNext]_textVars => TextTyped'
  <2> SUFFICES ASSUME TextTyped, [TextNext]_textVars PROVE TextTyped'
    OBVIOUS
  <2>1. CASE WriteFieldText
    <3>1. PICK c \in Letters : fieldText' = Append(fieldText, c) /\ ruleText' = ruleText
      BY <2>1 DEF WriteFieldText
    <3>2. c \in Nat
      BY TextAssumption
    <3> QED
      BY <3>1, <3>2, AppendProperties DEF TextTyped
  <2>2. CASE WriteRuleText
    <3>1. PICK c \in Letters \cup {Blank, Semicolon} :
            ruleText' = Append(ruleText, c) /\ fieldText' = fieldText
      BY <2>2 DEF WriteRuleText
    <3>2. c \in Nat
      BY TextAssumption DEF Blank, Semicolon
    <3> QED
      BY <3>1, <3>2, AppendProperties DEF TextTyped
  <2>3. CASE UNCHANGED textVars
    BY <2>3 DEF TextTyped, textVars
  <2> QED
    BY <2>1, <2>2, <2>3 DEF TextNext
<1> QED
  BY <1>1, <1>2, PTL DEF TextSpec

\* A token that fits the driver's buffer is not cut.
LEMMA ShortTokensAreWhole ==
    ASSUME NEW tokens \in Seq(Seq(Nat)), \A v \in ToSet(tokens) : Len(v) <= MaxToken
    PROVE  [i \in DOMAIN tokens |->
              SubSeq(tokens[i], 1, IF Len(tokens[i]) > MaxToken THEN MaxToken
                                   ELSE Len(tokens[i]))] = tokens
<1>1. PICK n \in Nat : n = Len(tokens) /\ DOMAIN tokens = 1 .. n
  BY LenProperties
<1>2. ASSUME NEW i \in 1 .. n
      PROVE  SubSeq(tokens[i], 1, IF Len(tokens[i]) > MaxToken THEN MaxToken
                                  ELSE Len(tokens[i])) = tokens[i]
  <2>1. PICK t \in Seq(Nat) : t = tokens[i] /\ t \in ToSet(tokens)
    <3>1. tokens[i] \in Seq(Nat)
      BY <1>1, ElementOfSeq
    <3>2. tokens[i] \in ToSet(tokens)
      BY <1>1 DEF ToSet
    <3> QED
      BY ONLY <3>1, <3>2
  <2>2. PICK l \in Nat : l = Len(t)
    BY LenProperties
  <2>3. ~(l > MaxToken)
    BY <2>1, <2>2, TextAssumption
  <2>4. 1 \in 1 .. l + 1 /\ l \in 0 .. l /\ 1 <= l + 1
    OBVIOUS
  <2>5. IsPart(t, Nat, t, 1, l)
    <3>1. \A k \in 1 .. l : 1 + k - 1 = k
      OBVIOUS
    <3>2. l - 1 + 1 = l
      OBVIOUS
    <3> QED
      BY <2>2, <3>1, <3>2 DEF IsPart
  <2>6. SubSeq(t, 1, l) = t
    BY ONLY t \in Seq(Nat), <2>2, <2>4, <2>5, PartIsTold
  <2> QED
    BY <2>1, <2>2, <2>3, <2>6
<1>3. tokens = [i \in DOMAIN tokens |-> tokens[i]]
  BY <1>1, SeqDef
<1> QED
  BY <1>1, <1>2, <1>3

\* The driver and the service mean by a condition what the help text says of it,
\* for every field and rule value whose tokens fit the driver's buffer
\* (SysmonEvaluateRuleCondition and its twin in rules.cpp): splitting a value
\* at its separators gives the delimited values.
THEOREM ConditionsAreAlwaysAsDocumented == TextSpec => []ConditionsAsDocumented
<1>1. TextTyped => ConditionsAsDocumented
  <2> SUFFICES ASSUME TextTyped, Delimited(ruleText) # {},
                      \A v \in Delimited(ruleText) : Len(v) <= MaxToken,
                      NEW c \in Conditions
               PROVE  /\ DriverCondition(c, fieldText, ruleText)
                           <=> Documented(c, fieldText, ruleText)
                      /\ ServiceCondition(c, fieldText, ruleText)
                           <=> Documented(c, fieldText, ruleText)
    BY DEF ConditionsAsDocumented
  <2>1. PICK text \in Seq(Nat), value \in Seq(Nat) : text = fieldText /\ value = ruleText
    BY DEF TextTyped
  <2>2. PICK tokens \in Seq(Seq(Nat)) : tokens = Tokens(value) /\ ToSet(tokens) = Delimited(value)
    BY <2>1, TokensAreTheValues
  <2>3. EvaluateCondition(c, text, value, tokens) <=> Documented(c, text, value)
    <3>1. Delimited(value) # {} /\ ToSet(tokens) = Delimited(value)
      BY <2>1, <2>2
    <3> QED
      BY ONLY text \in Seq(Nat), value \in Seq(Nat), tokens \in Seq(Seq(Nat)), c \in Conditions,
         <3>1, ConditionIsDocumented
  <2>4. ServiceCondition(c, text, value) <=> Documented(c, text, value)
    BY <2>2, <2>3 DEF ServiceCondition
  <2>5. DriverCondition(c, text, value) <=> Documented(c, text, value)
    <3>1. \A v \in ToSet(tokens) : Len(v) <= MaxToken
      BY <2>1, <2>2
    <3>2. [i \in DOMAIN tokens |->
             SubSeq(tokens[i], 1, IF Len(tokens[i]) > MaxToken THEN MaxToken
                                  ELSE Len(tokens[i]))] = tokens
      BY ONLY tokens \in Seq(Seq(Nat)), <3>1, ShortTokensAreWhole
    <3> QED
      BY <2>2, <2>3, <3>2 DEF DriverCondition
  <2> QED
    BY <2>1, <2>4, <2>5
<1> QED
  BY <1>1, TextStaysTyped, PTL

=============================================================================
