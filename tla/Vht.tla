--------------------------------- MODULE Vht ---------------------------------
(***************************************************************************)
(* Vht (src/src/vht.c): a hash table with open addressing.  The hash of a  *)
(* key gives the slot to begin with and an odd step, so that every slot of *)
(* a table of 2^n is tried in turn.  vht_del empties a slot and leaves no  *)
(* mark: keys that had stepped over it are cut off.                        *)
(*                                                                         *)
(* Slots are a function on the occupied ones only.                         *)
(***************************************************************************)
EXTENDS Null, Integers, FiniteSets, FiniteSetsExt, Functions

CONSTANTS
  VhtVals,     (* values                                                   *)
  VhtHash,     (* [offset, iterate] of each key, the same in the process   *)
  VhtSalt,     (* the same for the order vht_double goes through the slots *)
  VhtInitial,  (* VHT_INITIAL_NUM_ELEMS                                    *)
  VhtMaxCap,   (* bound: there is no memory for larger tables              *)
  VhtMaxLen    (* bound: no set is made when more slots are occupied       *)

VhtKeys == DOMAIN VhtHash

(* VHT_INITIAL_NUM_ELEMS is 16.  A step is made odd by the code (48).      *)
ASSUME VhtAssumption ==
  /\ VhtInitial \in {2, 4, 8, 16} /\ VhtMaxCap \in Nat /\ VhtMaxLen \in Nat
  /\ \A h \in {VhtHash[k] : k \in VhtKeys} \cup {VhtSalt} :
       h.offset \in Nat /\ h.iterate \in Nat /\ h.iterate % 2 = 1

VARIABLES
  vht,          (* the table, or NULL                                      *)
  vht_iterator, (* offset of the iterator, the keys it gave, those that    *)
                (* were there all the time, whether the table grew         *)
  vht_map,      (* history: what the table should hold                     *)
  vht_cut       (* history: a deletion cut off a key                       *)

vht_vars == <<vht, vht_iterator, vht_map, vht_cut>>

VhtEmpty == [x \in {} |-> x]
VhtWith(f, x, y) == [z \in {x} \cup DOMAIN f |-> IF z = x THEN y ELSE f[z]]
VhtStart(keys) == [offset |-> 0, gave |-> {}, there |-> keys, grew |-> FALSE]

VhtInit ==
  vht = NULL /\ vht_iterator = NULL /\ vht_map = VhtEmpty /\ vht_cut = FALSE

vht_init(num_elems) == [slots |-> VhtEmpty, len |-> 0, cap |-> num_elems]

VhtCreate ==
  /\ vht = NULL
  /\ vht' = vht_init(VhtInitial)
  /\ UNCHANGED <<vht_iterator, vht_map, vht_cut>>

VhtDestroy ==
  /\ vht # NULL
  /\ vht' = NULL /\ vht_iterator' = NULL /\ vht_map' = VhtEmpty /\ vht_cut' = FALSE

(* The slot after i steps.                                                 *)
VhtProbe(t, h, i) == (h.offset + i * h.iterate) % t.cap

VhtIsAt(t, slot, key) == slot \in DOMAIN t.slots /\ t.slots[slot].key = key

(* The steps after which the search for a key ends: it is there, or the    *)
(* slot is empty.  None if the table is full of other keys.                *)
VhtEnds(t, key) ==
  {i \in 0..t.cap-1 :
    LET slot == VhtProbe(t, VhtHash[key], i)
    IN slot \notin DOMAIN t.slots \/ VhtIsAt(t, slot, key)}
VhtSlotOf(t, key) == IF VhtEnds(t, key) = {} THEN -1 ELSE VhtProbe(t, VhtHash[key], Min(VhtEnds(t, key)))

(* The value vht_get finds, as a set of at most one.                       *)
vht_get_direct(t, key) ==
  IF VhtIsAt(t, VhtSlotOf(t, key), key) THEN {t.slots[VhtSlotOf(t, key)].val} ELSE {}

VhtPut(t, slot, key, val) ==
  [t EXCEPT !.slots = VhtWith(@, slot, [key |-> key, val |-> val]),
            !.len = IF VhtIsAt(t, slot, key) THEN @ ELSE @ + 1]

(* The entry of a slot is set in another table.                            *)
VhtCarry(into, t, slot) ==
  IF slot \in DOMAIN t.slots
  THEN VhtPut(into, VhtSlotOf(into, t.slots[slot].key), t.slots[slot].key, t.slots[slot].val)
  ELSE into

(* The entries in the order of the salted walk, which takes a step before  *)
(* it looks, into a table four times as large.                             *)
(* Mutant: the walk passes over the last slot.                             *)
vht_double_short(t) ==
  LET into[i \in 0..t.cap - 1] ==
        IF i = 0 THEN vht_init(4 * t.cap)
        ELSE VhtCarry(into[i - 1], t, VhtProbe(t, VhtSalt, i))
  IN into[t.cap - 1]

vht_double(t) ==
  LET into[i \in 0..t.cap] ==
        IF i = 0 THEN vht_init(4 * t.cap)
        ELSE VhtCarry(into[i - 1], t, VhtProbe(t, VhtSalt, i))
  IN into[t.cap]

VhtNeedsDouble(t) == t.len * 4 >= t.cap

(* vht_set goes on with the old table when there is no memory for a larger *)
(* one, and fails (EXFULL) when it is full.                                *)
VhtSet(key, val) ==
  /\ vht # NULL /\ vht.len <= VhtMaxLen
  /\ LET grows == VhtNeedsDouble(vht) /\ 4 * vht.cap <= VhtMaxCap
         t == IF grows THEN vht_double(vht) ELSE vht
     IN /\ IF VhtSlotOf(t, key) = -1
           THEN vht' = t /\ UNCHANGED <<vht_map, vht_iterator>>
           ELSE /\ vht' = VhtPut(t, VhtSlotOf(t, key), key, val)
                /\ vht_map' = VhtWith(vht_map, key, val)
                /\ vht_iterator' = IF vht_iterator = NULL THEN NULL
                                   ELSE [vht_iterator EXCEPT !.grew = @ \/ grows]
  /\ UNCHANGED vht_cut

(* Some other entry was reached by a step over this slot.                  *)
VhtCutsOff(t, slot) ==
  \E other \in DOMAIN t.slots \ {slot} :
    LET h == VhtHash[t.slots[other].key]
    IN \E i, j \in 0..t.cap-1 : i < j /\ VhtProbe(t, h, i) = slot /\ VhtProbe(t, h, j) = other

VhtDel(key) ==
  /\ vht # NULL
  /\ LET slot == VhtSlotOf(vht, key)
     IN IF VhtIsAt(vht, slot, key)
        THEN /\ vht' = [vht EXCEPT !.slots = Restrict(@, DOMAIN @ \ {slot}), !.len = @ - 1]
             /\ vht_cut' = (vht_cut \/ VhtCutsOff(vht, slot))
        ELSE UNCHANGED <<vht, vht_cut>>
  /\ vht_map' = Restrict(vht_map, DOMAIN vht_map \ {key})
  /\ vht_iterator' = IF vht_iterator = NULL THEN NULL
                     ELSE [vht_iterator EXCEPT !.there = @ \ {key}]

VhtIterateStart ==
  /\ vht # NULL /\ vht_iterator = NULL
  /\ vht_iterator' = VhtStart(DOMAIN vht_map)
  /\ UNCHANGED <<vht, vht_map, vht_cut>>

(* The first occupied slot from offset on.                                 *)
(* Mutant: the offset is advanced twice.                                   *)
VhtIterateNextTwice ==
  /\ vht # NULL /\ vht_iterator # NULL
  /\ \E slot \in DOMAIN vht.slots :
       /\ slot >= vht_iterator.offset
       /\ \A other \in DOMAIN vht.slots : other >= vht_iterator.offset => slot <= other
       /\ vht_iterator' = [vht_iterator EXCEPT !.offset = slot + 2,
                                               !.gave = @ \cup {vht.slots[slot].key}]
  /\ UNCHANGED <<vht, vht_map, vht_cut>>

VhtIterateNext ==
  /\ vht # NULL /\ vht_iterator # NULL
  /\ \E slot \in DOMAIN vht.slots :
       /\ slot >= vht_iterator.offset
       /\ \A other \in DOMAIN vht.slots : other >= vht_iterator.offset => slot <= other
       /\ vht_iterator' = [vht_iterator EXCEPT !.offset = slot + 1,
                                               !.gave = @ \cup {vht.slots[slot].key}]
  /\ UNCHANGED <<vht, vht_map, vht_cut>>

VhtIterateDone ==
  /\ vht # NULL /\ vht_iterator # NULL
  /\ \A slot \in DOMAIN vht.slots : slot < vht_iterator.offset
  /\ vht_iterator' = NULL
  /\ UNCHANGED <<vht, vht_map, vht_cut>>

VhtNext ==
  \/ VhtCreate \/ VhtDestroy
  \/ \E key \in VhtKeys : VhtDel(key) \/ \E val \in VhtVals : VhtSet(key, val)
  \/ VhtIterateStart \/ VhtIterateNext \/ VhtIterateDone

VhtSpec == VhtInit /\ [][VhtNext]_vht_vars

-----------------------------------------------------------------------------
(* Properties.                                                             *)

(* Until a deletion cuts a key off from the start of its probe sequence    *)
(* the table is a map: every key is found with the value set last, through *)
(* collisions and growth, and no other key is (vht_get_direct 198-223,     *)
(* vht_set 225-263, vht_double 296-343).  After that a key may be lost, and*)
(* set again beside its old self (vht_del 282-287).  But len, on which     *)
(* growth depends, counts the occupied slots whatever was cut off, and     *)
(* while there is memory a quarter of them at most is in use before a set. *)
VhtIsMap ==
  vht # NULL =>
    /\ ~vht_cut => \A key \in VhtKeys :
         vht_get_direct(vht, key) = IF key \in DOMAIN vht_map THEN {vht_map[key]} ELSE {}
    /\ vht.len = Cardinality(DOMAIN vht.slots)
    /\ 4 * vht.cap <= VhtMaxCap => (vht.len - 1) * 4 < vht.cap

(* An iteration that comes to its end gave every key that was in the table *)
(* all the time, unless the table grew meanwhile or a key was cut off      *)
(* (vht_iterate_next 354-392).                                             *)
VhtIterationCovers ==
  [][vht_iterator # NULL /\ vht_iterator' = NULL /\ vht' # NULL =>
       (vht_cut \/ vht_iterator.grew \/ vht_iterator.there \subseteq vht_iterator.gave)]_vht_vars
=============================================================================
