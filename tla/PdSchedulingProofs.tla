-------------------------- MODULE PdSchedulingProofs --------------------------
(***************************************************************************)
(* Proofs about PdScheduling, for any pods, labels, hit counts, prompts,   *)
(* thresholds and ports: the decision, the roles of the workers, and the   *)
(* headers.                                                                *)
(***************************************************************************)
EXTENDS PdScheduling, SequenceTheorems, TLAPS

USE DEF DecodeProfile, PrefillProfile, inputVars, cycleVars, outVars

------------------------------------------------------------------------------
(* The inductive invariant. *)

(* The decode profile is run first and once; the prefill profile only for a *)
(* decode worker that was found.                                            *)
DecodeFirst ==
  /\ profileResults["decode"] = NotRun => decisions = <<>> /\ profileResults["prefill"] = NotRun
  /\ pc = "run" => \/ picked = {"decode"} /\ profileResults["decode"] = NotRun
                   \/ picked = {"prefill"} /\ profileResults["decode"] \in Pods

(* What the profiles picked passed their filters. *)
PickedByRole ==
  /\ profileResults["prefill"] \in Pods =>
       role[profileResults["prefill"]] \in {RolePrefill, RoleBoth}
  /\ profileResults["decode"] \in Pods => role[profileResults["decode"]] # RolePrefill

(* The results, and then the headers, are copied once; the outgoing one may *)
(* be the client's instead.                                                 *)
OutTracked ==
  /\ pc # "panicked"
  /\ pc \in {"pick", "run", "process", "failed"} => result["decode"] = NotRun
  /\ pc \in {"preRequest", "send", "done"} =>
       /\ profileResults["decode"] \in Pods
       /\ result["decode"] = profileResults["decode"]
       /\ result["prefill"] = PrefillResult(profileResults)
  /\ pc \notin {"send", "done"} => prefillHeader = NotRun
  /\ pc \in {"send", "done"} => prefillHeader = PrefillResult(profileResults)
  /\ pc # "done" => sentHeader = NotRun
  /\ pc = "done" => \/ sentHeader = prefillHeader
                    \/ clientHeader /\ sentHeader = ClientValue

PdInv ==
  /\ TypeOK
  /\ DecodeFirst
  /\ ThresholdDecides
  /\ PickedByRole
  /\ OutTracked

(* With the decode and the prefill profile only: after a decision nothing   *)
(* is left to decide.                                                       *)
DecidedOnce ==
  /\ OneDecision
  /\ profileResults["prefill"] # NotRun => "prefill" \in Profiles
  /\ pc = "run" /\ picked = {"prefill"} =>
       decisions = <<"prefill-decode">> /\ "prefill" \in Profiles
  /\ pc = "pick" /\ decisions # <<>> => profileResults["prefill"] # NotRun
  /\ decisions = <<"prefill-decode">> =>
       profileResults["prefill"] # NotRun \/ (pc = "run" /\ picked = {"prefill"})

------------------------------------------------------------------------------
(* The operators. *)

(* In each configuration the prefill profile's filter lets through no pod   *)
(* but those that can prefill, and the decode profile's filter none of      *)
(* those that only prefill.                                                 *)
Separates(c, pod) ==
  /\ pod \in Filter(c["prefill"], Pods, role) => role[pod] \in {RolePrefill, RoleBoth}
  /\ pod \in Filter(c["decode"], Pods, role) => role[pod] # RolePrefill

LEMMA ConfigurationsSeparate ==
  ASSUME NEW pod \in Pods, role[pod] \in RoleLabels, NEW c \in Configurations
  PROVE  DOMAIN c = {"decode", "prefill"} /\ Separates(c, pod)
<1> USE DEF Separates, RolePrefill, RoleDecode, RoleBoth, EmptyString, NoLabel
<1>1. ASSUME c = [decode |-> NewDecodeRole, prefill |-> NewPrefillRole]
      PROVE  DOMAIN c = {"decode", "prefill"} /\ Separates(c, pod)
  BY <1>1 DEF NewDecodeRole, NewPrefillRole, NewByLabel, Filter, Keeps
<1>2. ASSUME c = [decode |-> NewByLabel(TRUE, {}), prefill |-> NewByLabel(FALSE, {RolePrefill})]
      PROVE  DOMAIN c = {"decode", "prefill"} /\ Separates(c, pod)
  BY <1>2 DEF NewByLabel, Filter, Keeps
<1>3. ASSUME c = [decode |-> NewByLabel(FALSE, {RoleDecode, RoleBoth, EmptyString}),
                  prefill |-> NewByLabel(FALSE, {RolePrefill, RoleBoth})]
      PROVE  DOMAIN c = {"decode", "prefill"} /\ Separates(c, pod)
  BY <1>3 DEF NewByLabel, Filter, Keeps
<1>4. ASSUME c = [decode |-> NewByLabelSelector({Requirement("NotIn", {RolePrefill})}),
                  prefill |-> NewByLabelSelector({Requirement("Exists", {}),
                                                  Requirement("In", {RolePrefill})})]
      PROVE  DOMAIN c = {"decode", "prefill"} /\ Separates(c, pod)
  BY <1>4 DEF NewByLabelSelector, Requirement, Filter, Selects, Meets
<1> QED
  BY <1>1, <1>2, <1>3, <1>4, Zenon DEF Configurations

LEMMA FiltersSeparate ==
  ASSUME TypeOK, NEW pod \in Pods
  PROVE  /\ PassesFilter("prefill", pod) => role[pod] \in {RolePrefill, RoleBoth}
         /\ PassesFilter("decode", pod) => role[pod] # RolePrefill
<1>1. role[pod] \in RoleLabels /\ filterOf \in Configurations
  BY DEF TypeOK
<1>2. DOMAIN filterOf = {"decode", "prefill"} /\ Separates(filterOf, pod)
  BY <1>1, ConfigurationsSeparate
<1> QED
  BY <1>2 DEF PassesFilter, Separates

(* What the property calls the uncached suffix is what the code compares. *)
LEMMA SuffixIsCompared ==
  ASSUME TypeOK, profileResults["decode"] \in Pods
  PROVE  /\ UncachedSuffix = promptLength - Cached(profileResults["decode"])
         /\ promptLength \in Int /\ Cached(profileResults["decode"]) \in Int
<1> DEFINE h == hits[profileResults["decode"]]
<1>1. h \in Nat /\ promptLength \in Int /\ HashBlockSize \in Int
  BY PdAssumption DEF TypeOK
<1>2. CASE h > 1
  BY <1>1, <1>2 DEF UncachedSuffix, Cached
<1>3. CASE h = 1
  <2>1. (h - 1) * HashBlockSize = 0
    BY <1>1, <1>3
  <2> QED
    BY <1>1, <1>3, <2>1 DEF UncachedSuffix, Cached
<1>4. CASE h = 0
  BY <1>1, <1>4 DEF UncachedSuffix, Cached
<1> QED
  BY <1>1, <1>2, <1>3, <1>4

(* The comparison says what it should, except at the threshold itself if    *)
(* some of the prompt is cached.                                            *)
LEMMA ShortIsShort ==
  ASSUME NEW pod, promptLength \in Int, Cached(pod) \in Int, pdThreshold \in Int,
         TRUE \in ShortOutcomes(pod),
         promptLength - Cached(pod) # pdThreshold \/ Cached(pod) = 0
  PROVE  promptLength - Cached(pod) < pdThreshold
<1> SUFFICES ASSUME promptLength - Cached(pod) >= pdThreshold PROVE FALSE
  OBVIOUS
<1>1. /\ ~(promptLength - Cached(pod) < pdThreshold)
      /\ ~(promptLength - Cached(pod) = pdThreshold /\ Cached(pod) > 0)
  OBVIOUS
<1>2. ShortOutcomes(pod) = {FALSE}
  BY <1>1, Zenon DEF ShortOutcomes
<1> QED
  BY <1>2, Zenon

LEMMA LongIsLong ==
  ASSUME NEW pod, promptLength \in Int, Cached(pod) \in Int, pdThreshold \in Int,
         FALSE \in ShortOutcomes(pod)
  PROVE  promptLength - Cached(pod) >= pdThreshold
<1> SUFFICES ASSUME promptLength - Cached(pod) < pdThreshold PROVE FALSE
  OBVIOUS
<1>1. ShortOutcomes(pod) = {TRUE}
  BY Zenon DEF ShortOutcomes
<1> QED
  BY <1>1, Zenon

LEMMA ResultsDomain ==
  ASSUME TypeOK
  PROVE  /\ DOMAIN profileResults = Profiles \cup {"prefill"}
         /\ "decode" \in Profiles
         /\ \A name \in {"decode", "prefill"} : profileResults[name] \in Pods \cup {Null, NotRun}
BY PdAssumption DEF TypeOK, Results

(* A profile decides only for a decode worker that was found. *)
LEMMA DecidingForWorker ==
  ASSUME TypeOK, Deciding
  PROVE  profileResults["decode"] \in Pods
<1>1. profileResults["decode"] # NotRun
  BY DEF Deciding, Executed
<1>2. profileResults["decode"] # Null
  BY DEF Deciding, NoMoreProfiles, DecodeFailed
<1> QED
  BY <1>1, <1>2, ResultsDomain

(* A worker is a value a header may have. *)
LEMMA PodIsHostPort ==
  ASSUME NEW pod \in Pods
  PROVE  /\ pod \in HostPorts
         /\ \A n \in Nat : [addr |-> pod.addr, port |-> n] \in HostPorts
<1>1. pod \in [addr : STRING, port : Nat] /\ pod.addr \in {p.addr : p \in Pods}
  BY PdAssumption
<1> QED
  BY <1>1 DEF HostPorts

------------------------------------------------------------------------------
(* The steps. *)

LEMMA PortRange == MaxPort \in Nat
BY DEF MaxPort

LEMMA InitPd == Init => PdInv
<1> SUFFICES ASSUME Init PROVE PdInv
  OBVIOUS
<1>1. /\ Nothing \in Results /\ Nothing["decode"] = NotRun /\ Nothing["prefill"] = NotRun
      /\ DOMAIN Nothing = Profiles \cup {"prefill"}
  BY PdAssumption DEF Nothing, Results
<1>2. pdThreshold \in Nat /\ primaryPort \in 0..MaxPort
  <2>1. pdThreshold \in Int /\ primaryPort \in Int
    BY PdAssumption DEF Init
  <2>2. ValidParameters
    BY DEF Init
  <2> QED
    BY <2>1, <2>2, PortRange DEF ValidParameters
<1>3. {prefixKnown, clientHeader} \subseteq BOOLEAN
  BY DEF Init
<1>4. TypeOK
  <2>1. filterOf \in Configurations
    BY DEF Init
  <2>2. decisions \in Seq({"decode-only", "prefill-decode"})
    BY DEF Init
  <2>3. {prefillHeader, dpHeader, sentHeader} \subseteq Headers
    BY DEF Init, Headers
  <2> QED
    BY <1>1, <1>2, <1>3, <2>1, <2>2, <2>3 DEF Init, TypeOK
<1>5. PickedByRole
  BY <1>1, PdAssumption DEF Init, PickedByRole
<1>6. DecodeFirst /\ ThresholdDecides /\ OutTracked
  BY <1>1 DEF Init, DecodeFirst, ThresholdDecides, OutTracked
<1> QED
  BY <1>4, <1>5, <1>6 DEF PdInv

(* A step of Pick that returns names. *)
LEMMA ReturnKeepsInv ==
  ASSUME PdInv, pc = "pick",
         NEW names \in {{}, {"decode"}, {"prefill"}}, Return(names),
         names = {"decode"} => profileResults["decode"] = NotRun,
         names = {"prefill"} => profileResults["decode"] \in Pods,
         decisions' \in Seq({"decode-only", "prefill-decode"}),
         profileResults["decode"] = NotRun => decisions' = <<>>,
         ThresholdDecides'
  PROVE  PdInv'
<1>1. picked' = names /\ pc' \in {"process", "run"} /\ (pc' = "run" => names # {})
  BY DEF Return
<1>2. UNCHANGED <<inputVars, outVars, profileResults>>
  BY DEF Return
<1>3. names \in SUBSET DOMAIN profileResults
  BY ResultsDomain DEF PdInv
<1>4. TypeOK'
  BY <1>1, <1>2, <1>3 DEF PdInv, TypeOK
<1>5. PickedByRole'
  BY <1>2 DEF PdInv, PickedByRole
<1>6. DecodeFirst' /\ OutTracked'
  BY <1>1, <1>2 DEF PdInv, DecodeFirst, OutTracked, PrefillResult
<1> QED
  BY <1>4, <1>5, <1>6 DEF PdInv

(* What the decision is judged by depends on the inputs and on the decode   *)
(* worker alone.                                                            *)
LEMMA InputsKeepSuffix ==
  ASSUME UNCHANGED inputVars, profileResults'["decode"] = profileResults["decode"]
  PROVE  (AtThreshold' <=> AtThreshold) /\ (ShortSuffix' <=> ShortSuffix)
<1>1. UNCHANGED <<pdThreshold, promptLength, UncachedSuffix>>
  BY DEF UncachedSuffix
<1> QED
  BY <1>1 DEF AtThreshold, ShortSuffix

(* A decision that is right is recorded, and stays the first. *)
LEMMA RecordKeepsFirst ==
  ASSUME PdInv, Deciding, NEW names, Return(names),
         NEW decision \in {"decode-only", "prefill-decode"}, Record(decision),
         AtThreshold \/ (decision = "decode-only" <=> ShortSuffix)
  PROVE  decisions' \in Seq({"decode-only", "prefill-decode"}) /\ ThresholdDecides'
<1>1. decisions \in Seq({"decode-only", "prefill-decode"})
  BY DEF PdInv, TypeOK
<1>2. (AtThreshold' <=> AtThreshold) /\ (ShortSuffix' <=> ShortSuffix)
  BY InputsKeepSuffix DEF Return
<1>3. CASE decisions' = decisions
  <2>1. decisions # <<>>
    BY <1>1, <1>3, PdAssumption DEF Record
  <2> QED
    BY <1>1, <1>2, <1>3, <2>1 DEF PdInv, ThresholdDecides
<1>4. CASE decisions' = Append(decisions, decision)
  <2>1. /\ decisions' \in Seq({"decode-only", "prefill-decode"})
        /\ decisions'[1] = IF decisions = <<>> THEN decision ELSE decisions[1]
    BY <1>1, <1>4, AppendProperties, EmptySeq
  <2> QED
    BY <1>2, <2>1 DEF PdInv, ThresholdDecides
<1> QED
  BY <1>3, <1>4 DEF Record

LEMMA PickKeepsInv ==
  PdInv /\ (PickDecode \/ PickNothing \/ InputUnreadable \/ DecodeOnly \/ PrefillDecode) => PdInv'
<1> SUFFICES ASSUME PdInv
             PROVE  PickDecode \/ PickNothing \/ InputUnreadable \/ DecodeOnly \/ PrefillDecode
                    => PdInv'
  OBVIOUS
<1>1. ASSUME NEW names, Return(names), decisions' = decisions
      PROVE  /\ decisions' \in Seq({"decode-only", "prefill-decode"})
             /\ profileResults["decode"] = NotRun => decisions' = <<>>
             /\ ThresholdDecides'
  <2>1. (AtThreshold' <=> AtThreshold) /\ (ShortSuffix' <=> ShortSuffix)
    BY <1>1, InputsKeepSuffix DEF Return
  <2> QED
    BY <1>1, <2>1 DEF PdInv, TypeOK, DecodeFirst, ThresholdDecides
<1>2. CASE PickDecode
  <2>1. profileResults["decode"] = NotRun
    BY <1>2, ResultsDomain DEF PickDecode, Executed, PdInv
  <2> QED
    BY <1>1, <1>2, <2>1, ReturnKeepsInv DEF PickDecode
<1>3. CASE PickNothing \/ InputUnreadable
  BY <1>1, <1>3, ReturnKeepsInv DEF PickNothing, InputUnreadable, Deciding
<1>4. ASSUME Deciding
      PROVE  /\ profileResults["decode"] \in Pods
             /\ profileResults["decode"] # NotRun
             /\ UncachedSuffix = promptLength - Cached(profileResults["decode"])
             /\ promptLength \in Int /\ Cached(profileResults["decode"]) \in Int
             /\ pdThreshold \in Nat /\ pdThreshold \in Int /\ pc = "pick"
  <2>0. TypeOK /\ pc = "pick"
    BY <1>4 DEF PdInv, Deciding
  <2>1. TypeOK /\ pdThreshold \in Nat
    BY <2>0 DEF TypeOK
  <2>2. profileResults["decode"] \in Pods /\ profileResults["decode"] # NotRun
    BY <1>4, <2>1, DecidingForWorker, PdAssumption
  <2> QED
    BY <2>0, <2>1, <2>2, SuffixIsCompared
<1>5. CASE DecodeOnly
  <2>0. pdThreshold > 0 /\ TRUE \in ShortOutcomes(profileResults["decode"]) /\ Deciding
    BY <1>5 DEF DecodeOnly
  <2>1. AtThreshold \/ ShortSuffix
    <3> SUFFICES ASSUME ~AtThreshold PROVE ShortSuffix
      OBVIOUS
    <3>1. \/ promptLength - Cached(profileResults["decode"]) # pdThreshold
          \/ Cached(profileResults["decode"]) = 0
      BY <1>4, <2>0 DEF AtThreshold
    <3>2. promptLength - Cached(profileResults["decode"]) < pdThreshold
      BY <1>4, <2>0, <3>1, ShortIsShort, Zenon
    <3> QED
      BY <1>4, <2>0, <3>2 DEF ShortSuffix
  <2>2. decisions' \in Seq({"decode-only", "prefill-decode"}) /\ ThresholdDecides'
    BY <1>5, <2>1, RecordKeepsFirst DEF DecodeOnly
  <2> QED
    BY <1>4, <1>5, <2>2, ReturnKeepsInv DEF DecodeOnly
<1>6. CASE PrefillDecode
  <2>1. ~ShortSuffix
    <3>1. CASE pdThreshold > 0
      <4>1. FALSE \in ShortOutcomes(profileResults["decode"]) /\ Deciding
        BY <1>6, <3>1 DEF PrefillDecode
      <4>2. promptLength - Cached(profileResults["decode"]) >= pdThreshold
        BY <1>4, <4>1, LongIsLong, Zenon
      <4> QED
        BY <1>4, <4>1, <4>2 DEF ShortSuffix
    <3> QED
      BY <3>1 DEF ShortSuffix
  <2>2. decisions' \in Seq({"decode-only", "prefill-decode"}) /\ ThresholdDecides'
    BY <1>6, <2>1, RecordKeepsFirst DEF PrefillDecode
  <2> QED
    BY <1>4, <1>6, <2>2, ReturnKeepsInv DEF PrefillDecode
<1> QED
  BY <1>2, <1>3, <1>5, <1>6

LEMMA RunKeepsInv == PdInv /\ RunProfiles => PdInv'
<1> SUFFICES ASSUME PdInv, RunProfiles PROVE PdInv'
  OBVIOUS
<1>1. PICK r \in [picked -> Pods \cup {Null}] :
        /\ \A name \in picked : r[name] # Null => PassesFilter(name, r[name])
        /\ profileResults' = [name \in DOMAIN profileResults |->
                                IF name \in picked THEN r[name] ELSE profileResults[name]]
  BY DEF RunProfiles
<1>2. /\ pc = "run" /\ pc' = "pick"
      /\ UNCHANGED <<inputVars, outVars, picked, decisions>>
  BY DEF RunProfiles
<1>3. TypeOK /\ DOMAIN profileResults = Profiles \cup {"prefill"} /\ "decode" \in Profiles
  BY ResultsDomain DEF PdInv
<1>4. profileResults' \in Results /\ DOMAIN profileResults' = DOMAIN profileResults
  BY <1>1, <1>3 DEF TypeOK, Results
<1>5. TypeOK'
  BY <1>2, <1>3, <1>4 DEF TypeOK
<1>6. \A name \in {"decode", "prefill"} :
        /\ name \in picked => profileResults'[name] = r[name] /\ r[name] \in Pods \cup {Null}
        /\ name \notin picked => profileResults'[name] = profileResults[name]
  BY <1>1, <1>3
<1>7. PickedByRole'
  <2>1. ASSUME "prefill" \in picked, r["prefill"] \in Pods
        PROVE  role[r["prefill"]] \in {RolePrefill, RoleBoth}
    BY <1>1, <1>3, <2>1, FiltersSeparate, PdAssumption
  <2>2. ASSUME "decode" \in picked, r["decode"] \in Pods
        PROVE  role[r["decode"]] # RolePrefill
    BY <1>1, <1>3, <2>2, FiltersSeparate, PdAssumption
  <2> QED
    BY <1>2, <1>6, <2>1, <2>2 DEF PdInv, PickedByRole
<1>8. \/ picked = {"decode"} /\ profileResults["decode"] = NotRun /\ decisions = <<>>
      \/ picked = {"prefill"} /\ profileResults["decode"] \in Pods
  BY <1>2 DEF PdInv, DecodeFirst
<1>9. DecodeFirst'
  BY <1>2, <1>6, <1>8, PdAssumption DEF DecodeFirst
<1>10. ThresholdDecides'
  <2>1. CASE picked = {"decode"}
    BY <1>2, <1>8, <2>1 DEF ThresholdDecides
  <2>2. CASE picked = {"prefill"}
    <3>1. (AtThreshold' <=> AtThreshold) /\ (ShortSuffix' <=> ShortSuffix)
      BY <1>2, <1>6, <2>2, InputsKeepSuffix
    <3> QED
      BY <1>2, <3>1 DEF PdInv, ThresholdDecides
  <2> QED
    BY <1>8, <2>1, <2>2
<1>11. OutTracked'
  BY <1>2 DEF PdInv, OutTracked
<1> QED
  BY <1>5, <1>7, <1>9, <1>10, <1>11 DEF PdInv

LEMMA ProcessKeepsInv == PdInv /\ (ProcessResults \/ ProcessResultsFails) => PdInv'
<1> SUFFICES ASSUME PdInv PROVE ProcessResults \/ ProcessResultsFails => PdInv'
  OBVIOUS
<1>1. ASSUME UNCHANGED <<inputVars, cycleVars>>, pc' # "run"
      PROVE  DecodeFirst' /\ ThresholdDecides' /\ PickedByRole'
  <2>1. (AtThreshold' <=> AtThreshold) /\ (ShortSuffix' <=> ShortSuffix)
    BY <1>1, InputsKeepSuffix
  <2> QED
    BY <1>1, <2>1 DEF PdInv, DecodeFirst, ThresholdDecides, PickedByRole
<1>2. CASE ProcessResultsFails
  <2>1. TypeOK' /\ OutTracked'
    BY <1>2 DEF ProcessResultsFails, PdInv, TypeOK, OutTracked, PrefillResult
  <2> QED
    BY <1>1, <1>2, <2>1 DEF ProcessResultsFails, PdInv
<1>3. CASE ProcessResults
  <2> DEFINE pod == profileResults["decode"]
  <2>1. /\ pc = "process" /\ pc' = "preRequest"
        /\ UNCHANGED <<inputVars, cycleVars, prefillHeader, sentHeader>>
    BY <1>3 DEF ProcessResults
  <2>2. pod \in Pods /\ profileResults["prefill"] \in Pods \cup {Null, NotRun}
    BY <1>3, ResultsDomain DEF ProcessResults, PdInv
  <2>3. /\ result' \in Results
        /\ result'["decode"] = pod
        /\ result'["prefill"] = PrefillResult(profileResults)
    BY <1>3, <2>2, PdAssumption DEF ProcessResults, Nothing, Results, PrefillResult
  <2>4. target' \in HostPorts /\ dpHeader' \in Headers
    <3>1. CASE primaryPort # 0
      <4>1. target' = [addr |-> pod.addr, port |-> primaryPort] /\ dpHeader' = pod
        BY <1>3, <3>1 DEF ProcessResults, DataParallel
      <4>2. primaryPort \in Nat
        BY PortRange DEF PdInv, TypeOK
      <4> QED
        BY <2>2, <4>1, <4>2, PodIsHostPort DEF Headers
    <3>2. CASE primaryPort = 0
      BY <1>3, <2>2, <3>2, PodIsHostPort DEF ProcessResults, PdInv, TypeOK
    <3> QED
      BY <3>1, <3>2
  <2>5. TypeOK'
    BY <2>1, <2>3, <2>4 DEF PdInv, TypeOK
  <2>6. OutTracked'
    BY <2>1, <2>2, <2>3, <2>4 DEF PdInv, OutTracked, PrefillResult
  <2> QED
    BY <1>1, <2>1, <2>5, <2>6 DEF PdInv
<1> QED
  BY <1>2, <1>3

LEMMA SendKeepsInv == PdInv /\ (PreRequest \/ UpdateOutgoingRequest) => PdInv'
<1> SUFFICES ASSUME PdInv PROVE PreRequest \/ UpdateOutgoingRequest => PdInv'
  OBVIOUS
<1>1. ASSUME UNCHANGED <<inputVars, cycleVars>>, pc' # "run"
      PROVE  DecodeFirst' /\ ThresholdDecides' /\ PickedByRole'
  <2>1. (AtThreshold' <=> AtThreshold) /\ (ShortSuffix' <=> ShortSuffix)
    BY <1>1, InputsKeepSuffix
  <2> QED
    BY <1>1, <2>1 DEF PdInv, DecodeFirst, ThresholdDecides, PickedByRole
<1>2. CASE PreRequest
  <2>1. /\ pc = "preRequest" /\ prefillHeader = NotRun
        /\ result["prefill"] = PrefillResult(profileResults)
    BY <1>2 DEF PreRequest, PdInv, OutTracked
  <2>2. PrefillResult(profileResults) \in Pods \cup {NotRun}
    BY ResultsDomain DEF PdInv, PrefillResult
  <2>3. prefillHeader' = PrefillResult(profileResults) /\ pc' = "send"
    BY <1>2, <2>1, <2>2, PdAssumption DEF PreRequest
  <2>4. prefillHeader' \in Headers
    BY <2>2, <2>3, PodIsHostPort DEF Headers
  <2>5. UNCHANGED <<inputVars, cycleVars, result, target, dpHeader, sentHeader>>
    BY <1>2 DEF PreRequest
  <2>6. TypeOK' /\ OutTracked'
    BY <2>1, <2>3, <2>4, <2>5 DEF PdInv, TypeOK, OutTracked, PrefillResult
  <2> QED
    BY <1>1, <2>3, <2>5, <2>6 DEF PdInv
<1>3. CASE UpdateOutgoingRequest
  <2>1. /\ pc = "send" /\ pc' = "done"
        /\ UNCHANGED <<inputVars, cycleVars, result, target, prefillHeader, dpHeader>>
    BY <1>3 DEF UpdateOutgoingRequest
  <2> DEFINE client == IF clientHeader THEN {ClientValue} ELSE {}
             values == ({prefillHeader} \cup client) \ {NotRun}
  <2>2. sentHeader' = prefillHeader \/ (clientHeader /\ sentHeader' = ClientValue)
    <3>1. sentHeader = NotRun
      BY <2>1 DEF PdInv, OutTracked
    <3>2. CASE values = {} /\ sentHeader' = sentHeader
      <4>1. prefillHeader = NotRun
        BY <3>2
      <4> QED
        BY <3>1, <3>2, <4>1
    <3>3. CASE sentHeader' \in values
      BY <3>3
    <3> QED
      BY <1>3, <3>2, <3>3 DEF UpdateOutgoingRequest
  <2>3. sentHeader' \in Headers
    BY <2>2 DEF PdInv, TypeOK, Headers
  <2>4. TypeOK'
    BY <2>1, <2>3 DEF PdInv, TypeOK
  <2>5. OutTracked'
    BY <2>1, <2>2 DEF PdInv, OutTracked, PrefillResult
  <2> QED
    BY <1>1, <2>1, <2>4, <2>5 DEF PdInv
<1> QED
  BY <1>2, <1>3

LEMMA NextKeepsInv == PdInv /\ [Next]_vars => PdInv'
<1> SUFFICES ASSUME PdInv, [Next]_vars PROVE PdInv'
  OBVIOUS
<1>1. CASE UNCHANGED vars
  <2>1. (AtThreshold' <=> AtThreshold) /\ (ShortSuffix' <=> ShortSuffix)
    BY <1>1, InputsKeepSuffix DEF vars
  <2>2. TypeOK' /\ ThresholdDecides'
    BY <1>1, <2>1 DEF vars, PdInv, TypeOK, ThresholdDecides
  <2> QED
    BY <1>1, <2>2 DEF vars, PdInv, DecodeFirst, PickedByRole, OutTracked, PrefillResult
<1> QED
  BY <1>1, PickKeepsInv, RunKeepsInv, ProcessKeepsInv, SendKeepsInv DEF Next, Step, Finished

(* PdInv is an invariant of the specification. *)
THEOREM PdInvariant == Spec => []PdInv
BY InitPd, NextKeepsInv, PTL DEF Spec

------------------------------------------------------------------------------

(* The cycle's state keeps its types, for any pods and profiles: a header   *)
(* is a worker's address and port, "", or what the client sent.             *)
THEOREM SchedulingTypes == Spec => []TypeOK
<1>1. PdInv => TypeOK
  BY DEF PdInv
<1> QED
  BY <1>1, PdInvariant, PTL

(* Whatever the prompt, the hits, the block size and the threshold are, the *)
(* first decision of a cycle leaves prefill out exactly if the uncached     *)
(* part of the prompt is smaller than the threshold; nothing is said where  *)
(* it equals the threshold after a division (Pick, lines 142-170).          *)
THEOREM ThresholdRespected == Spec => []ThresholdDecides
<1>1. PdInv => ThresholdDecides
  BY DEF PdInv
<1> QED
  BY <1>1, PdInvariant, PTL

(* What leaves the proxy names the prefill worker if and only if there is   *)
(* one, unless the client sent such a header; and no nil result is          *)
(* dereferenced (ProcessResults, PreRequest, updateOutgoingRequest).        *)
THEOREM HeaderNamesPrefiller == Spec => []PrefillWorkerHandedOver
<1>1. ASSUME PdInv PROVE PrefillWorkerHandedOver
  <2>1. /\ pc # "panicked"
        /\ pc = "done" => \/ sentHeader = PrefillResult(profileResults)
                          \/ clientHeader /\ sentHeader = ClientValue
    BY <1>1 DEF PdInv, OutTracked
  <2>2. /\ profileResults["prefill"] \in Pods \cup {Null, NotRun}
        /\ Null \notin Pods /\ NotRun \notin Pods
    BY <1>1, ResultsDomain, PdAssumption DEF PdInv
  <2> QED
    BY <2>1, <2>2 DEF PrefillResult, PrefillWorkerHandedOver
<1> QED
  BY <1>1, PdInvariant, PTL

(* However the pods are labelled, and with each kind of filter, the header  *)
(* names a worker that can prefill and the request goes to none that only   *)
(* prefills (both Filter methods, ProcessResults, PreRequest).              *)
THEOREM RolesRespected == Spec => []WorkersHaveTheirRoles
<1>1. ASSUME PdInv PROVE WorkersHaveTheirRoles
  <2>1. prefillHeader \in Pods => prefillHeader = profileResults["prefill"]
    BY <1>1, PdAssumption DEF PdInv, OutTracked, PrefillResult
  <2>2. result["decode"] \in Pods => result["decode"] = profileResults["decode"]
    BY <1>1, PdAssumption DEF PdInv, TypeOK, OutTracked
  <2> QED
    BY <1>1, <2>1, <2>2 DEF PdInv, PickedByRole, WorkersHaveTheirRoles
<1> QED
  BY <1>1, PdInvariant, PTL

------------------------------------------------------------------------------
(* One decision: only the decode and the prefill profile are configured.    *)

TwoProfiles == Profiles \subseteq {"decode", "prefill"}

(* Then Pick decides only before the prefill profile has run: the count of  *)
(* results reaches the count of profiles with it.                           *)
LEMMA DecidingOnce ==
  ASSUME TwoProfiles, PdInv, DecidedOnce, Deciding
  PROVE  /\ profileResults["prefill"] = NotRun
         /\ decisions = <<>>
         /\ "prefill" \in Profiles
<1>1. /\ TypeOK /\ DOMAIN profileResults = Profiles \cup {"prefill"} /\ "decode" \in Profiles
  BY ResultsDomain DEF PdInv
<1>2. profileResults["decode"] # NotRun /\ pc = "pick"
  BY DEF Deciding, Executed
<1>3. Executed # Profiles
  BY DEF Deciding, NoMoreProfiles
<1>4. profileResults["prefill"] # NotRun => Executed = Profiles
  BY <1>1, <1>2 DEF DecidedOnce, TwoProfiles, Executed
<1>5. "prefill" \notin Profiles => Executed = Profiles
  BY <1>1, <1>2 DEF DecidedOnce, TwoProfiles, Executed
<1> QED
  BY <1>2, <1>3, <1>4, <1>5 DEF DecidedOnce

LEMMA InitDecided == Init => DecidedOnce
<1> SUFFICES ASSUME Init PROVE DecidedOnce
  OBVIOUS
<1>1. profileResults["prefill"] = NotRun /\ "prefill" \notin Executed
  BY DEF Init, Nothing, Executed
<1> QED
  BY <1>1 DEF Init, DecidedOnce, OneDecision

LEMMA NextKeepsDecided ==
  TwoProfiles /\ PdInv /\ DecidedOnce /\ [Next]_vars => DecidedOnce'
<1> SUFFICES ASSUME TwoProfiles, PdInv, DecidedOnce, [Next]_vars PROVE DecidedOnce'
  OBVIOUS
<1>1. ASSUME UNCHANGED <<cycleVars, pc>> PROVE DecidedOnce'
  BY <1>1 DEF DecidedOnce, OneDecision, Executed
<1>2. ASSUME UNCHANGED cycleVars, pc' \notin {"run", "pick"}, pc \notin {"run", "pick"}
      PROVE  DecidedOnce'
  <2>1. "prefill" \in DOMAIN profileResults
    BY ResultsDomain DEF PdInv
  <2> QED
    BY <1>2, <2>1 DEF DecidedOnce, OneDecision, Executed
<1>3. CASE ProcessResults \/ ProcessResultsFails \/ PreRequest \/ UpdateOutgoingRequest
  BY <1>2, <1>3 DEF ProcessResults, ProcessResultsFails, PreRequest, UpdateOutgoingRequest
<1>4. ASSUME NEW names \in {{}, {"decode"}}, pc = "pick", Return(names), decisions' = decisions
      PROVE  DecidedOnce'
  BY <1>4 DEF Return, DecidedOnce, OneDecision, Executed
<1>5. CASE PickDecode \/ PickNothing \/ InputUnreadable
  BY <1>4, <1>5 DEF PickDecode, PickNothing, InputUnreadable, Deciding
<1>6. ASSUME Deciding, NEW decision, Record(decision) PROVE decisions' = <<decision>>
  BY <1>6, DecidingOnce, PdAssumption DEF Record
<1>7. CASE DecodeOnly
  <2>1. decisions' = <<"decode-only">> /\ profileResults["prefill"] = NotRun
    BY <1>6, <1>7, DecidingOnce DEF DecodeOnly
  <2> QED
    BY <1>7, <2>1 DEF DecodeOnly, Return, DecidedOnce, OneDecision, Executed
<1>8. CASE PrefillDecode
  <2>1. /\ decisions' = <<"prefill-decode">> /\ profileResults["prefill"] = NotRun
        /\ "prefill" \in Profiles /\ pc' = "run" /\ picked' = {"prefill"}
        /\ profileResults' = profileResults
    BY <1>6, <1>8, DecidingOnce DEF PrefillDecode, Return
  <2> QED
    BY <2>1 DEF DecidedOnce, OneDecision, Executed
<1>9. CASE RunProfiles
  <2>1. PICK r \in [picked -> Pods \cup {Null}] :
          profileResults' = [name \in DOMAIN profileResults |->
                               IF name \in picked THEN r[name] ELSE profileResults[name]]
    BY <1>9 DEF RunProfiles
  <2>2. pc = "run" /\ pc' = "pick" /\ decisions' = decisions
    BY <1>9 DEF RunProfiles
  <2>3. /\ "prefill" \in DOMAIN profileResults /\ "decode" \in DOMAIN profileResults
        /\ DOMAIN profileResults' = DOMAIN profileResults
    BY <2>1, ResultsDomain DEF PdInv
  <2>4. CASE picked = {"decode"} /\ profileResults["decode"] = NotRun
    <3>1. decisions = <<>> /\ profileResults'["prefill"] = NotRun
      BY <2>1, <2>3, <2>4 DEF PdInv, DecodeFirst
    <3> QED
      BY <2>2, <3>1 DEF DecidedOnce, OneDecision, Executed
  <2>5. CASE picked = {"prefill"} /\ profileResults["decode"] \in Pods
    <3>1. /\ profileResults'["prefill"] \in Pods \cup {Null}
          /\ profileResults'["decode"] = profileResults["decode"]
      BY <2>1, <2>3, <2>5
    <3>2. profileResults'["prefill"] # NotRun
      BY <3>1, PdAssumption
    <3>3. decisions = <<"prefill-decode">> /\ "prefill" \in Profiles
      BY <2>2, <2>5 DEF DecidedOnce
    <3> QED
      BY <2>2, <2>3, <2>5, <3>1, <3>2, <3>3 DEF DecidedOnce, OneDecision, Executed
  <2> QED
    BY <2>2, <2>4, <2>5 DEF PdInv, DecodeFirst
<1>10. CASE UNCHANGED vars
  BY <1>1, <1>10 DEF vars
<1> QED
  BY <1>3, <1>5, <1>7, <1>8, <1>9, <1>10 DEF Next, Step, Finished

(* If no third profile is configured, a cycle decides at most once, and the *)
(* prefill profile runs exactly if it decided so and the decode profile had *)
(* succeeded (Pick).                                                        *)
THEOREM DecisionIsOne == TwoProfiles => (Spec => []OneDecision)
<1> SUFFICES ASSUME TwoProfiles PROVE Spec => []OneDecision
  OBVIOUS
<1>1. PdInv /\ DecidedOnce /\ [Next]_vars => DecidedOnce'
  BY NextKeepsDecided
<1>2. DecidedOnce => OneDecision
  BY DEF DecidedOnce
<1> QED
  BY <1>1, <1>2, InitDecided, PdInvariant, PTL DEF Spec
==============================================================================
