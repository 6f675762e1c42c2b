----------------------------- MODULE LabelFilter ------------------------------
(***************************************************************************)
(* The filters: ByLabel (by_label.go), the two role filters made from it   *)
(* (pd_role.go), and ByLabelSelector (by_label_selector.go).  A filter is  *)
(* a record of its type and parameters; a pod's label is its value, or     *)
(* NoLabel.  All filters look at the same label.                           *)
(***************************************************************************)

NoLabel     == "(no label)"   \* the pod does not define the label
EmptyString == ""             \* Go's zero value: what a map lookup that misses returns

(* pd_role.go: the values of the label llm-d.ai/role. *)
RolePrefill == "prefill"
RoleDecode  == "decode"
RoleBoth    == "both"

NewByLabel(allowsNoLabel, validValues) ==
  [type |-> "by-label", allowsNoLabel |-> allowsNoLabel, validValues |-> validValues]

(* A prefill filter that lets unlabelled pods through. *)
PrefillRoleAllowsNoLabel == NewByLabel(TRUE, {RolePrefill})

NewPrefillRole == NewByLabel(FALSE, {RolePrefill})
NewDecodeRole  == NewByLabel(TRUE, {RoleDecode, RoleBoth})

(* A selector is a set of requirements, all of which must be met. *)
Requirement(operator, values) == [operator |-> operator, values |-> values]

NewByLabelSelector(requirements) ==
  [type |-> "by-label-selector", requirements |-> requirements]

(* What the factories accept.  ByLabel must let some pod through; operators *)
(* that compare with values need some, the others must have none.           *)
ValidByLabel(filter) == filter.validValues # {} \/ filter.allowsNoLabel

ValidSelector(filter) ==
  \A q \in filter.requirements : (q.operator \in {"In", "NotIn"}) <=> (q.values # {})

ValidFilter(filter) ==
  \/ filter.type = "by-label" /\ ValidByLabel(filter)
  \/ filter.type = "by-label-selector" /\ ValidSelector(filter)

(* The lookup of an undefined label yields "", which validValues may hold. *)
Keeps(filter, label) ==
  LET val == IF label = NoLabel THEN EmptyString ELSE label
  IN  (label = NoLabel /\ filter.allowsNoLabel) \/ val \in filter.validValues

(* The Kubernetes library's match (external). *)
Meets(q, label) ==
  \/ q.operator = "In" /\ label # NoLabel /\ label \in q.values
  \/ q.operator = "NotIn" /\ (label = NoLabel \/ label \notin q.values)
  \/ q.operator = "Exists" /\ label # NoLabel
  \/ q.operator = "DoesNotExist" /\ label = NoLabel

Selects(filter, label) == \A q \in filter.requirements : Meets(q, label)

(* The pods that pass; labelOf gives each pod's label. *)
Filter(filter, pods, labelOf) ==
  {p \in pods : \/ filter.type = "by-label" /\ Keeps(filter, labelOf[p])
                \/ filter.type = "by-label-selector" /\ Selects(filter, labelOf[p])}
==============================================================================
