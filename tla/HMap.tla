-------------------------------- MODULE HMap --------------------------------
(***************************************************************************)
(* hmap.c: khlist, an open-addressing hash table with linear probing.     *)
(*                                                                         *)
(* A slot (struct hash_table) holds `exist`, the key's two check hashes   *)
(* and `ud`.  The pair (hasha, hashb) identifies a key; a collision of     *)
(* both 32-bit hashes is left out, so a slot records the key itself.  The *)
(* probe start _hash_string(str, HASH_OFFSET) % size is `hash[k] % size`,  *)
(* where `hash` is any function into 0..MaxSize-1, fixed for the run:     *)
(* every size is a divisor of MaxSize, so these residues are all the      *)
(* probe starts the real hash can give.                                    *)
(*                                                                         *)
(* _expand mallocs a table twice the size and copies the old slots to the *)
(* same indexes; the upper half is never initialised, so its slots are    *)
(* whatever the allocator returns: zeroed, or garbage whose `exist` byte  *)
(* may read 1 and whose hashes match no key.  A malloc failure is taken    *)
(* to happen when the table would grow past MaxSize.                       *)
(***************************************************************************)
EXTENDS Integers, FiniteSets

CONSTANTS Keys, Vals, InitSize, MaxSize, Missing, NoKey, Null, Junk

VARIABLES hash, tb, ret

vars == <<hash, tb, ret>>

Fail == -1   \* (unsigned)-1, the "not found" of get, set and del
Dup == -2    \* set's probe met the key
Full == -3   \* set's probe came back to where it started

\* struct hash_table and struct khlist.
Slot == [exist : BOOLEAN, key : Keys \cup {NoKey}, ud : Vals \cup {Null, Junk}]
EmptySlot == [exist |-> FALSE, key |-> NoKey, ud |-> Null]

\* hash % hl->size: where every probe of get, set and del starts.
Start(t, k) == hash[k] % t.size

\* The slots the upper half of _expand's malloc can hold.
Uninit == {EmptySlot, [exist |-> FALSE, key |-> NoKey, ud |-> Junk],
           [exist |-> TRUE, key |-> NoKey, ud |-> Junk]}

\* _expand: a table of twice the size, the old slots at their old indexes.
Expanded(t) ==
  { [size |-> 2 * t.size,
     slot |-> [i \in 0..2 * t.size - 1 |-> IF i < t.size THEN t.slot[i] ELSE g[i]]]
    : g \in [t.size..2 * t.size - 1 -> Uninit] }

Next1(t, n) == (n + 1) % t.size

\* The while loop of khlist_get: the key's slot, or Fail at an empty slot
\* or after a whole turn round the table.
RECURSIVE GetLoop(_, _, _, _)
GetLoop(t, k, npos, start) ==
  IF ~t.slot[npos].exist THEN Fail
  ELSE IF t.slot[npos].key = k THEN npos
  ELSE IF Next1(t, npos) = start THEN Fail
  ELSE GetLoop(t, k, Next1(t, npos), start)

\* The while loop of khlist_set: Dup when the key is there, Full when the
\* probe came back to its start, else the first empty slot.
RECURSIVE SetLoop(_, _, _, _)
SetLoop(t, k, npos, start) ==
  IF ~t.slot[npos].exist THEN npos
  ELSE IF t.slot[npos].key = k THEN Dup
  ELSE IF Next1(t, npos) = start THEN Full
  ELSE SetLoop(t, k, Next1(t, npos), start)

\* The while loop of khlist_del: it breaks at the key's slot, returns Fail
\* after a whole turn, and otherwise ends at the first empty slot, which
\* the code then goes on to clear as if it held the key.
RECURSIVE DelLoop(_, _, _, _)
DelLoop(t, k, npos, start) ==
  IF ~t.slot[npos].exist \/ t.slot[npos].key = k THEN npos
  ELSE IF Next1(t, npos) = start THEN Fail
  ELSE DelLoop(t, k, Next1(t, npos), start)

\* khlist_set, with its expand-and-retry on a full turn: the set of
\* [t, pos] outcomes.
RECURSIVE SetOutcomes(_, _, _)
SetOutcomes(t, k, v) ==
  LET r == SetLoop(t, k, Start(t, k), Start(t, k)) IN
  IF r = Dup THEN {[t |-> t, pos |-> Fail]}
  ELSE IF r = Full
    THEN IF 2 * t.size > MaxSize THEN {[t |-> t, pos |-> Fail]}
         ELSE UNION {SetOutcomes(t2, k, v) : t2 \in Expanded(t)}
  ELSE {[t |-> [t EXCEPT !.slot[r] = [exist |-> TRUE, key |-> k, ud |-> v]], pos |-> r]}

-----------------------------------------------------------------------------
\* khlist_create(InitSize), with every hash function the keys may have.
Init ==
  /\ hash \in [Keys -> 0..MaxSize - 1]
  /\ tb = [size |-> InitSize, slot |-> [i \in 0..InitSize - 1 |-> EmptySlot]]
  /\ ret = [op |-> "none", key |-> NoKey, pos |-> Fail, ud |-> Null]

\* khlist_get(hl, k, &ud): ud is set only when the key is found.
Get(k) ==
  LET p == GetLoop(tb, k, Start(tb, k), Start(tb, k)) IN
  /\ ret' = [op |-> "get", key |-> k, pos |-> p,
             ud |-> IF p = Fail THEN Null ELSE tb.slot[p].ud]
  /\ UNCHANGED <<hash, tb>>

\* khlist_set(hl, k, v).
Set(k, v) ==
  \E o \in SetOutcomes(tb, k, v) :
    /\ tb' = o.t
    /\ ret' = [op |-> "set", key |-> k, pos |-> o.pos, ud |-> Null]
    /\ UNCHANGED hash

\* khlist_del(hl, k, &ud): the slot is cleared and its old ud handed back.
Del(k) ==
  LET p == DelLoop(tb, k, Start(tb, k), Start(tb, k)) IN
  /\ IF p = Fail THEN UNCHANGED tb
     ELSE tb' = [tb EXCEPT !.slot[p] = EmptySlot]
  /\ ret' = [op |-> "del", key |-> k, pos |-> p,
             ud |-> IF p = Fail THEN Null ELSE tb.slot[p].ud]
  /\ UNCHANGED hash

Next == \E k \in Keys : Get(k) \/ Del(k) \/ \E v \in Vals : Set(k, v)

Spec == Init /\ [][Next]_vars

-----------------------------------------------------------------------------
\* The refinement mapping: a key's value is the ud of a slot holding it,
\* and a call's result is read off its return value and ud.
Stored(k) ==
  LET at == {i \in 0..tb.size - 1 : tb.slot[i].exist /\ tb.slot[i].key = k} IN
  IF at = {} THEN Missing ELSE tb.slot[CHOOSE i \in at : TRUE].ud

Out(r) ==
  CASE r.op = "set" -> IF r.pos = Fail THEN "fail" ELSE "ok"
    [] r.pos = Fail -> Missing
    [] OTHER        -> r.ud

D == INSTANCE Dict WITH dict <- [k \in Keys |-> Stored(k)],
                        res <- [op |-> ret.op, key |-> ret.key, out |-> Out(ret)]

(* khlist behaves as the table its header promises: every sequence of     *)
(* get/set/del calls on khlist (probing, _expand, clearing a slot) is one *)
(* the abstract table allows, with the same results.                       *)
DictRefined == D!Spec

=============================================================================
