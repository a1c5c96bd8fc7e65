-------------------------------- MODULE Dict --------------------------------
(***************************************************************************)
(* What a string-keyed table promises its caller (khlist.h): set adds a    *)
(* key that is absent and refuses one that is present, get returns the     *)
(* value stored for a key, del removes a key and returns its value.  A set *)
(* may also fail for want of memory.  `res` is the last call and what it   *)
(* returned, so that a refinement also compares results.                   *)
(***************************************************************************)
CONSTANTS Keys, Vals, Missing, NoKey

VARIABLES dict, res

vars == <<dict, res>>

Results == Vals \cup {Missing, "ok", "fail"}

Init ==
  /\ dict = [k \in Keys |-> Missing]
  /\ res = [op |-> "none", key |-> NoKey, out |-> Missing]

Get(k) ==
  /\ res' = [op |-> "get", key |-> k, out |-> dict[k]]
  /\ UNCHANGED dict

Set(k, v) ==
  \/ /\ dict[k] = Missing
     /\ dict' = [dict EXCEPT ![k] = v]
     /\ res' = [op |-> "set", key |-> k, out |-> "ok"]
  \/ /\ res' = [op |-> "set", key |-> k, out |-> "fail"]
     /\ UNCHANGED dict

Del(k) ==
  /\ res' = [op |-> "del", key |-> k, out |-> dict[k]]
  /\ dict' = [dict EXCEPT ![k] = Missing]

Next == \E k \in Keys : Get(k) \/ Del(k) \/ \E v \in Vals : Set(k, v)

Spec == Init /\ [][Next]_vars

=============================================================================
