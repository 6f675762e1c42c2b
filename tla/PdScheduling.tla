---------------------------- MODULE PdScheduling ------------------------------
(***************************************************************************)
(* One scheduling cycle of a prefill / decode deployment without           *)
(* orchestration plugin: the scheduler's loop (external) around            *)
(* PdProfileHandler's Pick and ProcessResults, the role filters inside the *)
(* profiles, the PrefillHeaderHandler that hands the prefill worker to the *)
(* decode worker's sidecar, and the headers that leave the proxy.          *)
(*                                                                         *)
(* Prompt lengths, block size and threshold are numbers, because the       *)
(* decision is arithmetic on them; everything else is symbolic.            *)
(***************************************************************************)
EXTENDS Integers, Sequences, FiniteSets, LabelFilter

CONSTANTS
  Pods,            \* candidate endpoints: records [addr, port]
  Profiles,        \* the configured scheduling profiles' names
  PromptLengths,   \* lengths of the user input, in bytes
  MaxHits,         \* bound on the prefix plugin's hit count
  PdThresholds,    \* values of the parameter threshold
  HashBlockSize,   \* parameter hashBlockSize
  PrimaryPorts,    \* values of the parameter primaryPort, 0 if Data Parallel is off
  MaxDecisions,    \* bound on the recorded decisions the model counts
  NotRun,          \* no entry in a result or header map
  Null             \* Go's nil

MaxPort == 65535

DecodeProfile  == "decode"
PrefillProfile == "prefill"

(* An empty prompt is rejected by the director before it schedules. *)
ASSUME PdAssumption ==
  /\ PdThresholds \cup PrimaryPorts \cup {HashBlockSize} \subseteq Int
  /\ PromptLengths \subseteq Nat \ {0}
  /\ MaxHits \in Nat /\ MaxDecisions \in Nat \ {0}
  /\ DecodeProfile \in Profiles
  /\ PrefillProfile \in Profiles \/ Profiles = {DecodeProfile}
  /\ Pods \subseteq [addr : STRING, port : Nat]
  /\ Null \notin Pods /\ NotRun \notin Pods /\ Null # NotRun

Results == [Profiles \cup {PrefillProfile} -> Pods \cup {Null, NotRun}]

VARIABLES
  pdThreshold,     \* PdProfileHandler.pdThreshold
  primaryPort,     \* PdProfileHandler.primaryPort
  filterOf,        \* the filter of each profile
  pc,              \* where the cycle is
  role,            \* each pod's llm-d.ai/role label
  promptLength,    \* len(userInput)
  hits,            \* prefixState.PrefixCacheServers
  prefixKnown,     \* the prefix plugin's cycle state can be read
  clientHeader,    \* the client sent an X-Prefiller-Host-Port header
  picked,          \* the profiles Pick returned last
  profileResults,  \* results of the profiles run so far
  decisions,       \* decisions recorded in the metrics, in order
  result,          \* SchedulingResult.ProfileResults
  target,          \* the primary target handed to the director
  prefillHeader,   \* request.Headers["x-prefiller-host-port"]
  dpHeader,        \* request.Headers["x-data-parallel-host-port"]
  sentHeader       \* the X-Prefiller-Host-Port header of the outgoing request

inputVars == <<pdThreshold, primaryPort, filterOf, role, promptLength, hits, prefixKnown,
               clientHeader>>
cycleVars == <<picked, profileResults, decisions>>
outVars   == <<result, target, prefillHeader, dpHeader, sentHeader>>
vars      == <<pc, inputVars, cycleVars, outVars>>

RoleLabels == {RolePrefill, RoleDecode, RoleBoth, EmptyString, NoLabel}

(* Ways to configure the profiles' filters: the role filters; by-label, the *)
(* decode workers being unlabelled; by-label with the empty string among    *)
(* the valid values and "both" workers in both profiles; label selectors.   *)
Configurations ==
  {[decode |-> NewDecodeRole, prefill |-> NewPrefillRole],
   [decode |-> NewByLabel(TRUE, {}), prefill |-> NewByLabel(FALSE, {RolePrefill})],
   [decode |-> NewByLabel(FALSE, {RoleDecode, RoleBoth, EmptyString}),
    prefill |-> NewByLabel(FALSE, {RolePrefill, RoleBoth})],
   [decode |-> NewByLabelSelector({Requirement("NotIn", {RolePrefill})}),
    prefill |-> NewByLabelSelector({Requirement("Exists", {}),
                                    Requirement("In", {RolePrefill})})]}

(* Header values: a pod's address and port, "", and what a client sent. *)
HostPorts   == [addr : {p.addr : p \in Pods}, port : Nat]
Cleared     == [addr |-> "", port |-> 0]
ClientValue == [addr |-> "client", port |-> 0]
Headers     == HostPorts \cup {NotRun, Cleared, ClientValue}

TypeOK ==
  /\ pdThreshold \in Nat
  /\ primaryPort \in 0..MaxPort
  /\ filterOf \in Configurations
  /\ pc \in {"pick", "run", "process", "preRequest", "send", "done", "failed", "panicked"}
  /\ role \in [Pods -> RoleLabels]
  /\ promptLength \in PromptLengths
  /\ hits \in [Pods -> 0..MaxHits]
  /\ {prefixKnown, clientHeader} \subseteq BOOLEAN
  /\ picked \in SUBSET DOMAIN profileResults
  /\ profileResults \in Results
  /\ decisions \in Seq({"decode-only", "prefill-decode"})
  /\ result \in Results
  /\ target \in HostPorts \cup {NotRun}
  /\ {prefillHeader, dpHeader, sentHeader} \subseteq Headers

Nothing == [name \in Profiles \cup {PrefillProfile} |-> NotRun]

(* PdProfileHandlerFactory rejects every other configuration. *)
ValidParameters ==
  /\ pdThreshold >= 0
  /\ HashBlockSize > 0
  /\ primaryPort # 0 => primaryPort \in 1..MaxPort

Init ==
  /\ pdThreshold \in PdThresholds
  /\ primaryPort \in PrimaryPorts
  /\ ValidParameters
  /\ filterOf \in {c \in Configurations : ValidFilter(c.decode) /\ ValidFilter(c.prefill)}
  /\ pc = "pick"
  /\ role \in [Pods -> RoleLabels]
  /\ promptLength \in PromptLengths
  /\ hits \in [Pods -> 0..MaxHits]
  /\ prefixKnown \in BOOLEAN
  /\ clientHeader \in BOOLEAN
  /\ picked = {}
  /\ profileResults = Nothing
  /\ decisions = <<>>
  /\ result = Nothing
  /\ target = NotRun
  /\ prefillHeader = NotRun
  /\ dpHeader = NotRun
  /\ sentHeader = NotRun

------------------------------------------------------------------------------
(* The decision between prefill-decode and decode-only. *)

Executed == {name \in DOMAIN profileResults : profileResults[name] # NotRun}

(* The model name's block, always the first hit, is counted as cached text. *)
CachedWithModelName(pod) == IF prefixKnown THEN hits[pod] * HashBlockSize ELSE 0

(* Bytes of the input cached at the decode worker; the first hit is always  *)
(* the model name.                                                          *)
Cached(pod) ==
  IF prefixKnown /\ hits[pod] > 0 THEN (hits[pod] - 1) * HashBlockSize ELSE 0

(* (1.0-hitPercentagePrefix)*float64(len(userInput)) < float64(pdThreshold):*)
(* exact in the integers, except that a quotient that was rounded may give  *)
(* a product just below a threshold the exact value equals.                 *)
ShortOutcomes(pod) ==
  LET suffix == promptLength - Cached(pod)
  IN  IF suffix < pdThreshold THEN {TRUE}
      ELSE IF suffix = pdThreshold /\ Cached(pod) > 0 THEN {TRUE, FALSE}
      ELSE {FALSE}

------------------------------------------------------------------------------
(* Pick. *)

(* The scheduler goes on with what Pick returned; nothing ends the loop. *)
Return(names) ==
  /\ picked' = names
  /\ pc' = IF names = {} THEN "process" ELSE "run"
  /\ UNCHANGED <<inputVars, outVars, profileResults>>

DecodeFailed == profileResults[DecodeProfile] = Null

(* The prefill profile is expected to run again when it failed. *)
NoMoreProfilesUnlessPrefillFailed ==
  DecodeFailed \/ \A name \in Profiles : profileResults[name] \notin {NotRun, Null}

(* No profile is left to run, or the decode profile failed. *)
NoMoreProfiles == Cardinality(Profiles) = Cardinality(Executed) \/ DecodeFailed

(* The decode profile is picked as long as it has no worker. *)
PickDecodeUntilFound ==
  /\ pc = "pick"
  /\ profileResults[DecodeProfile] \in {NotRun, Null}
  /\ Return({DecodeProfile})
  /\ UNCHANGED decisions

PickDecode ==
  /\ pc = "pick"
  /\ DecodeProfile \notin Executed
  /\ Return({DecodeProfile})
  /\ UNCHANGED decisions

PickNothing ==
  /\ pc = "pick"
  /\ DecodeProfile \in Executed
  /\ NoMoreProfiles
  /\ Return({})
  /\ UNCHANGED decisions

Deciding == pc = "pick" /\ DecodeProfile \in Executed /\ ~NoMoreProfiles

(* getUserInputBytes fails: no profile, and no decision recorded. *)
InputUnreadable ==
  /\ Deciding
  /\ pdThreshold > 0
  /\ Return({})
  /\ UNCHANGED decisions

(* metrics.RecordPDDecision. *)
Record(decision) ==
  decisions' = IF Len(decisions) < MaxDecisions THEN Append(decisions, decision)
               ELSE decisions

DecodeOnly ==
  /\ Deciding
  /\ pdThreshold > 0
  /\ TRUE \in ShortOutcomes(profileResults[DecodeProfile])
  /\ Record("decode-only")
  /\ Return({})

PrefillDecode ==
  /\ Deciding
  /\ pdThreshold > 0 => FALSE \in ShortOutcomes(profileResults[DecodeProfile])
  /\ Record("prefill-decode")
  /\ Return({PrefillProfile})

(* The scheduler (external) runs the picked profiles.  A profile picks a    *)
(* pod its filters let through, or fails: its result is then nil.           *)
PassesFilter(name, pod) ==
  name \in DOMAIN filterOf => pod \in Filter(filterOf[name], Pods, role)

RunProfiles ==
  /\ pc = "run"
  /\ \E r \in [picked -> Pods \cup {Null}] :
       /\ \A name \in picked :
            r[name] # Null => PassesFilter(name, r[name])
       /\ profileResults' = [name \in DOMAIN profileResults |->
                               IF name \in picked THEN r[name] ELSE profileResults[name]]
  /\ pc' = "pick"
  /\ UNCHANGED <<inputVars, outVars, picked, decisions>>

------------------------------------------------------------------------------
(* ProcessResults. *)

(* Results are copied whether nil or not. *)
PrefillResultUnchecked(r) == r[PrefillProfile]

(* A prefill result of nil is left out of the scheduling result. *)
PrefillResult(r) == IF r[PrefillProfile] = Null THEN NotRun ELSE r[PrefillProfile]

(* With Data Parallel the request goes to the pod's primary port, and the   *)
(* header says which rank was meant.                                        *)
DataParallel(pod) ==
  /\ target' = [addr |-> pod.addr, port |-> primaryPort]
  /\ dpHeader' = pod

(* A decode profile that failed is not noticed. *)
ProcessResultsUnchecked ==
  /\ pc = "process"
  /\ target' = profileResults[DecodeProfile]
  /\ result' = profileResults
  /\ pc' = "preRequest"
  /\ UNCHANGED <<inputVars, cycleVars, prefillHeader, sentHeader, dpHeader>>

ProcessResults ==
  LET decode == profileResults[DecodeProfile]
  IN  /\ pc = "process"
      /\ decode \notin {Null, NotRun}
      /\ \/ primaryPort # 0 /\ DataParallel(decode)
         \/ primaryPort = 0 /\ target' = decode /\ UNCHANGED dpHeader
      /\ result' = [Nothing EXCEPT ![DecodeProfile]  = decode,
                                   ![PrefillProfile] = PrefillResult(profileResults)]
      /\ pc' = "preRequest"
      /\ UNCHANGED <<inputVars, cycleVars, prefillHeader, sentHeader>>

(* "failed to find available decode workers". *)
ProcessResultsFails ==
  /\ pc = "process"
  /\ profileResults[DecodeProfile] \in {Null, NotRun}
  /\ pc' = "failed"
  /\ UNCHANGED <<inputVars, cycleVars, outVars>>

------------------------------------------------------------------------------
(* PrefillHeaderHandler.PreRequest, and the outgoing request. *)

(* The header is cleared if the map has its lower-case key; a prefill       *)
(* result overwrites it, and a nil one would be dereferenced.  In a cycle   *)
(* nothing sets that key before: net/http delivers the client's headers     *)
(* under canonical keys, and the plugin runs once.                          *)
PreRequest ==
  LET prefill == result[PrefillProfile]
      cleared == IF prefillHeader # NotRun THEN Cleared ELSE prefillHeader
  IN  /\ pc = "preRequest"
      /\ prefillHeader' = IF prefill \in Pods THEN prefill ELSE cleared
      /\ pc' = IF prefill = Null THEN "panicked" ELSE "send"
      /\ UNCHANGED <<inputVars, cycleVars, result, target, dpHeader, sentHeader>>

(* updateOutgoingRequest: the client's canonical key and the lower-case one *)
(* are set on the same header, in any order.                                *)
UpdateOutgoingRequest ==
  LET values == ({prefillHeader} \cup (IF clientHeader THEN {ClientValue} ELSE {})) \ {NotRun}
  IN  /\ pc = "send"
      /\ \/ values = {} /\ UNCHANGED sentHeader
         \/ sentHeader' \in values
      /\ pc' = "done"
      /\ UNCHANGED <<inputVars, cycleVars, result, target, prefillHeader, dpHeader>>

Step ==
  \/ PickDecode \/ PickNothing \/ InputUnreadable \/ DecodeOnly \/ PrefillDecode
  \/ RunProfiles \/ ProcessResults \/ ProcessResultsFails
  \/ PreRequest \/ UpdateOutgoingRequest

Finished == pc \in {"done", "failed"} /\ UNCHANGED vars

Next == Step \/ Finished

Spec == Init /\ [][Next]_vars

(* The cycle is one goroutine that nothing blocks. *)
FairSpec == Spec /\ WF_vars(Step)

------------------------------------------------------------------------------
(* Properties. *)

(* The bytes of the input that the decode worker does not hold: its first   *)
(* hit is the model name.                                                   *)
UncachedSuffix ==
  LET blocks == hits[profileResults[DecodeProfile]] - 1
  IN  IF prefixKnown /\ blocks > 0 THEN promptLength - blocks * HashBlockSize
      ELSE promptLength

(* There is a threshold, and the suffix is smaller. *)
ShortSuffix == pdThreshold > 0 /\ UncachedSuffix < pdThreshold

(* The suffix equals the threshold, and comes from a quotient that may have *)
(* been rounded: see ThresholdIsStrict.                                     *)
AtThreshold == UncachedSuffix = pdThreshold /\ UncachedSuffix # promptLength

(* Prefill is left out exactly if the suffix that the worker the decode     *)
(* profile picked does not hold is smaller than the threshold, in exact     *)
(* arithmetic, and strictly so for a prompt of which nothing is cached      *)
(* (Pick, lines 142-170).                                                   *)
ThresholdDecides ==
  decisions # <<>> /\ ~AtThreshold => (decisions[1] = "decode-only" <=> ShortSuffix)

(* A cycle records at most one decision, and the prefill profile runs only  *)
(* after it was decided on and the decode profile succeeded (Pick).         *)
OneDecision ==
  /\ Len(decisions) <= 1
  /\ PrefillProfile \in Executed =>
       decisions = <<"prefill-decode">> /\ profileResults[DecodeProfile] \in Pods
  /\ pc = "done" /\ decisions = <<"prefill-decode">> => PrefillProfile \in Executed

(* The request that leaves the proxy names the prefill worker in its header *)
(* if the prefill profile found one, and has no such header otherwise,      *)
(* unless the client sent one itself (see StaleHeaderIsCleared); and a nil  *)
(* result is never dereferenced (ProcessResults, PreRequest,                *)
(* updateOutgoingRequest).                                                  *)
PrefillWorkerHandedOver ==
  LET prefill == profileResults[PrefillProfile]
  IN  /\ pc # "panicked"
      /\ pc = "done" =>
           \/ sentHeader = IF prefill \in Pods THEN prefill ELSE NotRun
           \/ clientHeader /\ sentHeader = ClientValue

(* The worker named in the header is one that can prefill, and the request  *)
(* does not go to a worker that only prefills, whatever labels the pods     *)
(* carry and whichever filters say so: "both" is for workers "that can act  *)
(* as both" (pd_role.go:16; NewPrefillRole, NewDecodeRole, both Filter      *)
(* methods).                                                                *)
WorkersHaveTheirRoles ==
  /\ prefillHeader \in Pods => role[prefillHeader] \in {RolePrefill, RoleBoth}
  /\ result[DecodeProfile] \in Pods => role[result[DecodeProfile]] # RolePrefill

(* The scheduler's loop ends: Pick returns no profile in the end. *)
CycleEnds == <>(pc \in {"done", "failed"})

------------------------------------------------------------------------------
(* What the repository says and the code does not do. *)

(* A header that was already set is cleared, so that the outgoing one is    *)
(* the scheduler's: "clear header, if already set" (pd_prerequest.go:72).   *)
StaleHeaderIsCleared == sentHeader # ClientValue

(* Prefill is left out only for a suffix that is smaller than the           *)
(* threshold: "Non-cached suffix is smaller than threshold, using decode    *)
(* profile only" (pd_profile_handler.go:166).                               *)
ThresholdIsStrict ==
  decisions # <<>> => (decisions[1] = "decode-only" <=> ShortSuffix)
==============================================================================
