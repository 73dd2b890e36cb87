------------------------------ MODULE MCService ------------------------------
(* Small instances of the service's components.  Each behaviour is one of  *)
(* one component, named by part; the others keep their initial states.     *)
(* The enrichment and the process store have a part for each question, with *)
(* bounds of its own on what else happens meanwhile.                       *)
EXTENDS MCRules, RuleConditions, SigningPipeline, ImageEnrichment, ProcessStore, Network,
        Service

VARIABLE part

EnrichParts == {"caches", "replacement"}
StoreParts == {"sweep", "instances", "answers"}

MCInit ==
    /\ part \in {"rules", "text", "signing", "network", "service"}
                  \cup EnrichParts \cup StoreParts
    /\ RuleInit /\ TextInit /\ SignInit /\ EnrichInit /\ StoreInit /\ NetworkInit
    /\ ServiceInit
    /\ part = "service" \/ stored.config = [rules |-> "good", wants |-> {}]

HashesOf(f) == {c.hash : c \in ToSet(contents[f])}
Busy == {s \in Sources : source[s].at # "idle"}
Remembered == UNION {{k \in DOMAIN storeNode[pid].instances :
                        storeNode[pid].instances[k].dns # <<>>} : pid \in StorePids}

\* The caches fill while no file is replaced; one file is replaced while it is
\* verified.  Nodes are swept; the instances of one id come in any order; the
\* answers of one instance exceed the limit.
PartBound ==
    CASE part = "caches" -> /\ \A f \in DOMAIN contents : Len(contents[f]) <= 1
                            /\ HashesOf("a") \subseteq {"1", "2"} /\ HashesOf("b") \subseteq {"3"}
      [] part = "replacement" -> /\ contents["b"] = <<>> /\ mounted = BootVolumes
                                 /\ loads <= 2
      [] part = "sweep" -> /\ \A pid \in StorePids : alive[pid] <= 1
                           /\ Busy \subseteq {"s1"} /\ Remembered = {}
      [] part = "instances" -> alive[2] = 0 /\ unrecorded = {} /\ Remembered = {}
      [] part = "answers" -> alive[2] = 0 /\ alive[1] <= 1 /\ Busy \subseteq {"s1"}
      [] OTHER -> TRUE

MCNext ==
    /\ UNCHANGED part
    /\ \/ /\ part = "rules" /\ RuleNext
          /\ UNCHANGED <<textVars, signVars, enrichVars, storeVars, networkVars, serviceVars>>
       \/ /\ part = "text" /\ TextNext
          /\ UNCHANGED <<ruleVars, signVars, enrichVars, storeVars, networkVars, serviceVars>>
       \/ /\ part = "signing" /\ SignNext
          /\ UNCHANGED <<ruleVars, textVars, enrichVars, storeVars, networkVars, serviceVars>>
       \/ /\ part \in EnrichParts /\ EnrichNext /\ PartBound'
          /\ UNCHANGED <<ruleVars, textVars, signVars, storeVars, networkVars, serviceVars>>
       \/ /\ part \in StoreParts /\ StoreNext /\ PartBound'
          /\ UNCHANGED <<ruleVars, textVars, signVars, enrichVars, networkVars, serviceVars>>
       \/ /\ part = "network" /\ NetworkNext
          /\ UNCHANGED <<ruleVars, textVars, signVars, enrichVars, storeVars, serviceVars>>
       \/ /\ part = "service" /\ ServiceNext
          /\ UNCHANGED <<ruleVars, textVars, signVars, enrichVars, storeVars, networkVars>>

MCSpec == MCInit /\ [][MCNext]_<<part, ruleVars, textVars, signVars, enrichVars, storeVars,
                                 networkVars, serviceVars>>

\* Two files on two volumes; the second is mounted later.
LoadedFile(f, v) == [file |-> f, volume |-> v, form |-> "device"]
LoadedFiles == {LoadedFile("a", "C"), LoadedFile("b", "D")}

\* Files without a signature of their own, with one that names its signer to
\* the generic action alone, and with an expired one.
Result(s, g) == [status |-> s, signer |-> g]
Both(d, g) == [driver |-> d, generic |-> g]
SignedContents == {
    [directory |-> FALSE, hash |-> "1",
     embedded |-> Both(NoSignature, NoSignature),
     catalog |-> Both(Result("ok", ""), Result("ok", "B"))],
    [directory |-> TRUE, hash |-> "2",
     embedded |-> Both(Result("ok", ""), Result("ok", "A")),
     catalog |-> Both(Fails, Fails)],
    [directory |-> TRUE, hash |-> "3",
     embedded |-> Both(Result("expired", "X"), Result("expired", "X")),
     catalog |-> Both(Result("ok", "Y"), Result("ok", "Y"))]}

\* The buckets of the cache that the names fall into, converted or not.
BothForms(n, hash) == n :> hash @@ Win32Name(n) :> hash
FileHash == BothForms(LoadedFile("a", "C"), 1) @@ BothForms(LoadedFile("b", "D"), 3)

\* Three connections: two share a host, and two a port.
SharedNames == "c1" :> <<"p", "h">> @@ "c2" :> <<"q", "h">> @@ "c3" :> <<"p">>
=============================================================================
