---------------------------- MODULE ConfigStore ----------------------------
(***************************************************************************)
(* What app/web/flash_eep.c promises its callers: a store of objects by    *)
(* id, one save at a time.  A save that is reported as done has replaced   *)
(* its object and nothing else.  One that fails, or is cut short by a loss *)
(* of power, may damage its own object, and the others only while the      *)
(* sector is being rewritten.                                              *)
(***************************************************************************)
CONSTANTS
  Ids, Values,
  None,     \* no object of this id
  Torn      \* an object whose body is not what anyone saved

VARIABLES
  store,    \* the object that is read for each id
  saving,   \* the object of the save in progress, or of the last one
  phase,    \* idle; begun; then which objects are at risk: "one" or "all"
  result    \* of the last save

vars == <<store, saving, phase, result>>

Objects == [id : Ids, val : Values]

Init ==
  /\ store = [i \in Ids |-> None]
  /\ saving \in Objects
  /\ phase = "idle" /\ result = "none"

\* The object is stored already.
Confirm(o) ==
  /\ phase = "idle" /\ store[o.id] = o.val
  /\ saving' = o /\ result' = "ok"
  /\ UNCHANGED <<store, phase>>

Begin(o) ==
  /\ phase = "idle"
  /\ saving' = o /\ result' = "none" /\ phase' = "begun"
  /\ UNCHANGED store

\* The object is replaced, with itself alone at risk, or with all objects.
Commit ==
  /\ phase = "begun"
  /\ store' = [store EXCEPT ![saving.id] = saving.val]
  /\ phase' \in {"one", "all"}
  /\ UNCHANGED <<saving, result>>

\* The others are safe again.
Rescued ==
  /\ phase = "all"
  /\ phase' = "one"
  /\ UNCHANGED <<store, saving, result>>

Done ==
  /\ phase = "one"
  /\ phase' = "idle" /\ result' = "ok"
  /\ UNCHANGED <<store, saving>>

AtRisk ==
  CASE phase = "begun" -> {}
    [] phase = "one" -> {saving.id}
    [] phase = "all" -> Ids

Fail ==
  /\ phase # "idle"
  /\ store' \in [Ids -> Values \cup {None, Torn}]
  /\ \A i \in Ids : store'[i] \in {store[i]} \cup IF i \in AtRisk THEN {None, Torn} ELSE {}
  /\ phase' = "idle" /\ result' = "failed"
  /\ UNCHANGED saving

Next ==
  \/ \E o \in Objects : Confirm(o) \/ Begin(o)
  \/ Commit \/ Rescued \/ Done \/ Fail

Spec == Init /\ [][Next]_vars
=============================================================================
